---------------------------- MODULE ConsoleProofs ----------------------------
(***************************************************************************)
(* Proofs about four parts of the console, for any size of each: sessions  *)
(* and users (UserSessions), the connection pool (ConnectionPool), import  *)
(* batches of the Redis browser (RedisData) and what is read of workloads  *)
(* (WorkloadReads); then the types of all seven parts of MCConsole, with   *)
(* those of ResourceProofs. The parts share no variable, and only that     *)
(* last theorem uses facts about several of them.                          *)
(***************************************************************************)
EXTENDS MCConsole, ResourceProofs,
        FiniteSetTheorems, WellFoundedInduction, TLAPS

-----------------------------------------------------------------------------
(***************************************************************************)
(* The connection pool, for any number of handlers, connections, accounts  *)
(* and broken connections.                                                 *)
(***************************************************************************)

\* Where a handler has a connection of its own.
Working == {"lock", "holds", "wait2", "uses2", "release", "uses"}

\* What a handler has: a first connection while it works, a second one for a
\* query of its body, and the lock while it is in its section, unless the
\* server has broken the connection.
Holding == \A h \in PoolHandlers :
  /\ handler[h].pc \in Working =>
       handler[h].first \in Leases /\ lease[handler[h].first].at # "pool"
  /\ handler[h].pc \notin Working => handler[h].first = "none"
  /\ handler[h].pc = "uses2" =>
       /\ handler[h].second \in Leases /\ handler[h].second # handler[h].first
       /\ lease[handler[h].second].at # "pool" /\ lease[handler[h].second].lock = "none"
  /\ handler[h].pc # "uses2" => handler[h].second = "none"
  /\ handler[h].pc \in {"lock", "uses"} => lease[handler[h].first].lock = "none"
  /\ handler[h].pc = "lock" \/ InSection(h) => handler[h].account # "none"
  /\ InSection(h) => lease[handler[h].first].at = "broken"
                       \/ lease[handler[h].first].lock = handler[h].account

\* Only connections at work have a lock, and no two have the same.
LocksOut ==
  /\ \A l \in Leases : lease[l].at # "out" => lease[l].lock = "none"
  /\ \A l, m \in Leases : lease[l].lock = lease[m].lock /\ lease[l].lock # "none" => l = m

PoolInv == PoolTypeOK /\ Holding /\ LocksOut

-----------------------------------------------------------------------------
(* The steps.                                                              *)

\* Initially everything is in the pool.
LEMMA PoolInitInv == PoolInit => PoolInv
BY PoolAssumption DEF PoolInit, PoolInv, PoolTypeOK, LeaseRow, HandlerRow, Holding, LocksOut, Working, InSection, Unlocked, NoHandler

\* A connection that nobody holds goes to one handler.
LEMMA CheckoutInv ==
  ASSUME PoolInv, NEW h \in PoolHandlers, GetConnection(h) \/ SecondConnection(h)
  PROVE  PoolInv'
<1> USE PoolAssumption DEF PoolInv
<1>1. PICK l \in Free :
        /\ lease' = [lease EXCEPT ![l].at = "out"]
        /\ \/ PoolAt(h, "wait") /\ handler' = [handler EXCEPT ![h].pc =
                 IF handler[h].account = "none" THEN "uses" ELSE "lock", ![h].first = l]
           \/ PoolAt(h, "wait2") /\ handler' = [handler EXCEPT ![h].pc = "uses2", ![h].second = l]
  BY DEF GetConnection, SecondConnection, Checkout
<1>2. l \in Leases /\ lease[l].at = "pool" /\ lease[l].lock = "none"
  BY DEF Free, LocksOut
<1>3. \A g \in PoolHandlers : handler[g].first # l /\ handler[g].second # l
  BY <1>2 DEF Holding
<1>4. PoolTypeOK' BY <1>1, <1>2, <1>3 DEF PoolTypeOK, LeaseRow, HandlerRow, PoolAt
<1>5. Holding' BY <1>1, <1>2, <1>3 DEF PoolTypeOK, HandlerRow, Holding, Working, InSection, PoolAt
<1>6. LocksOut' BY <1>1, <1>2 DEF PoolTypeOK, LocksOut
<1> QED BY <1>4, <1>5, <1>6

\* A handler arrives, goes on inside its section, or gives up waiting.
LEMMA MoveInv ==
  ASSUME PoolInv, NEW h \in PoolHandlers,
         \/ \E a \in {"none"} \cup PoolAccounts : Arrive(h, a)
         \/ PoolTimesOut(h) \/ NextQuery(h) \/ BodyEnds(h)
  PROVE  PoolInv'
<1> USE PoolAssumption DEF PoolInv
<1>1. lease' = lease /\ \A g \in PoolHandlers \ {h} : handler'[g] = handler[g]
  BY DEF Arrive, PoolTimesOut, NextQuery, BodyEnds, PoolGoto, PoolTypeOK
<1>2. /\ handler[h].pc \in {"idle", "wait"} \/ InSection(h)
      /\ handler' \in [PoolHandlers -> HandlerRow]
      /\ handler'[h].second = handler[h].second /\ handler[h].pc # "uses2"
      /\ handler'[h].first = handler[h].first
      /\ \/ handler[h].pc \in {"idle", "wait"} /\ handler'[h].pc \in {"idle", "wait"}
         \/ /\ handler[h].pc \in {"holds", "wait2"} /\ handler'[h].pc \in {"wait2", "release"}
            /\ handler'[h].account = handler[h].account
  <2>1. CASE \E a \in {"none"} \cup PoolAccounts : Arrive(h, a)
    <3>1. PICK a \in {"none"} \cup PoolAccounts :
            handler[h].pc = "idle" /\ handler' = [handler EXCEPT ![h].pc = "wait", ![h].account = a]
      BY <2>1 DEF Arrive, PoolAt
    <3>2. handler[h] \in HandlerRow BY DEF PoolTypeOK
    <3>3. handler'[h] = [handler[h] EXCEPT !.pc = "wait", !.account = a] BY <3>1 DEF PoolTypeOK
    <3>4. handler'[h] \in HandlerRow BY <3>2, <3>3 DEF HandlerRow
    <3>5. handler' \in [PoolHandlers -> HandlerRow] BY <1>1, <3>1, <3>4 DEF PoolTypeOK
    <3>6. handler'[h].pc = "wait" /\ handler'[h].first = handler[h].first
            /\ handler'[h].second = handler[h].second
      BY <3>2, <3>3 DEF HandlerRow
    <3>7. handler[h].pc # "uses2" BY <3>1
    <3> QED BY <3>1, <3>5, <3>6, <3>7
  <2>2. CASE PoolTimesOut(h)
    BY <2>2 DEF PoolTimesOut, PoolAt, PoolGoto, PoolTypeOK, HandlerRow, Holding, Working, NoHandler, InSection
  <2>3. CASE NextQuery(h) BY <2>3 DEF NextQuery, PoolAt, PoolGoto, PoolTypeOK, HandlerRow, InSection, Holding
  <2>4. CASE BodyEnds(h) BY <2>4 DEF BodyEnds, PoolAt, PoolGoto, PoolTypeOK, HandlerRow, InSection, Holding
  <2> QED BY <2>1, <2>2, <2>3, <2>4
<1>3. PoolTypeOK' BY <1>1, <1>2 DEF PoolTypeOK
<1>4. Holding' BY <1>1, <1>2 DEF Holding, Working, InSection
<1>5. LocksOut' BY <1>1 DEF LocksOut
<1> QED BY <1>3, <1>4, <1>5

\* A handler without a lock returns its only connection.
LEMMA ReturnInv ==
  ASSUME PoolInv, NEW h \in PoolHandlers,
         /\ handler[h].pc \in Working \ {"uses2"}
         /\ lease[handler[h].first].lock = "none"
         /\ lease' = Returned(lease, handler[h].first)
         /\ handler' = [handler EXCEPT ![h] = NoHandler]
  PROVE  PoolInv'
<1> USE PoolAssumption DEF PoolInv
<1>1. PICK l \in Leases : l = handler[h].first BY DEF Holding
<1>2. /\ lease' \in [Leases -> LeaseRow]
      /\ lease'[l].at = "pool" /\ lease'[l].lock = "none" /\ lease[l].lock = "none"
      /\ \A m \in Leases \ {l} : lease'[m] = lease[m]
  BY <1>1 DEF Returned, Unlocked, PoolTypeOK, LeaseRow
<1>3. \A g \in PoolHandlers \ {h} : /\ handler'[g] = handler[g]
                                    /\ handler[g].first # l /\ handler[g].second # l
  BY <1>1 DEF PoolTypeOK
<1>4. PoolTypeOK' BY <1>2, <1>3 DEF PoolTypeOK, HandlerRow, NoHandler
<1>5. Holding' BY <1>2, <1>3 DEF PoolTypeOK, Holding, Working, InSection, NoHandler
<1>6. LocksOut' BY <1>2 DEF LocksOut
<1> QED BY <1>4, <1>5, <1>6

\* GET_LOCK gives the lock of an account to one connection.
LEMMA GetLockInv == ASSUME PoolInv, NEW h \in PoolHandlers, GetLock(h) PROVE PoolInv'
<1> DEFINE l == handler[h].first
           a == handler[h].account
<1>1. /\ l \in Leases /\ a # "none" /\ lease[l].lock = "none" /\ handler[h].pc = "lock"
      /\ a \in PoolAccounts
  BY DEF PoolInv, GetLock, PoolAt, Holding, Working, PoolTypeOK, HandlerRow
<1>2. CASE lease[l].at = "out" /\ \A m \in Leases \ {l} : ~LockedBy(a, m)
  <2> USE PoolAssumption DEF PoolInv
  <2>1. lease' = [lease EXCEPT ![l].lock = a] /\ handler' = [handler EXCEPT ![h].pc = "holds"]
    BY <1>2 DEF GetLock, PoolGoto
  <2>2. PoolTypeOK'
    <3>1. lease' \in [Leases -> LeaseRow]
      BY <1>1, <2>1 DEF PoolTypeOK, LeaseRow
    <3>2. handler' \in [PoolHandlers -> HandlerRow]
      BY <2>1 DEF PoolTypeOK, HandlerRow
    <3>3. \A g \in PoolHandlers : handler'[g].first = handler[g].first /\ handler'[g].second = handler[g].second
      BY <2>1 DEF PoolTypeOK
    <3> QED BY <3>1, <3>2, <3>3 DEF PoolTypeOK
  <2>3. \A g \in PoolHandlers \ {h} : handler[g].first # l /\ handler[g].second # l
    BY <1>1 DEF PoolTypeOK
  <2>4. Holding' BY <1>1, <2>1, <2>3 DEF PoolTypeOK, Holding, Working, InSection
  <2>5. LocksOut' BY <1>1, <1>2, <2>1 DEF PoolTypeOK, LocksOut, LockedBy
  <2> QED BY <2>2, <2>4, <2>5
<1>3. CASE ~(lease[l].at = "out" /\ \A m \in Leases \ {l} : ~LockedBy(a, m))
  <2>1. lease' = Returned(lease, l) /\ handler' = [handler EXCEPT ![h] = NoHandler]
    BY <1>3 DEF GetLock
  <2> QED BY <1>1, <2>1, ReturnInv DEF Working
<1> QED BY <1>2, <1>3

\* The connection of a query in the body goes back; it never had a lock.
LEMMA SecondInv == ASSUME PoolInv, NEW h \in PoolHandlers, SecondReturned(h) PROVE PoolInv'
<1> USE PoolAssumption DEF PoolInv
<1>1. PICK l \in Leases, pc \in {"holds", "release"} :
        /\ l = handler[h].second /\ lease' = Returned(lease, l)
        /\ handler' = [handler EXCEPT ![h].pc = pc, ![h].second = "none"]
        /\ handler[h].pc = "uses2"
  BY DEF SecondReturned, PoolAt, Holding
<1>2. /\ lease' \in [Leases -> LeaseRow]
      /\ lease'[l].at = "pool" /\ lease'[l].lock = "none" /\ lease[l].lock = "none"
      /\ \A m \in Leases \ {l} : lease'[m] = lease[m]
  BY <1>1 DEF Returned, Unlocked, PoolTypeOK, LeaseRow, Holding
<1>3. \A g \in PoolHandlers \ {h} : /\ handler'[g] = handler[g]
                                    /\ handler[g].first # l /\ handler[g].second # l
  BY <1>1 DEF PoolTypeOK
<1>4. handler[h].first \in Leases \ {l} BY <1>1 DEF Holding, Working
<1>5. PoolTypeOK'
  <2>1. handler'[h] \in HandlerRow BY <1>1 DEF PoolTypeOK, HandlerRow
  <2>2. handler'[h].first = handler[h].first /\ handler'[h].second = "none"
    BY <1>1 DEF PoolTypeOK, HandlerRow
  <2>3. handler' \in [PoolHandlers -> HandlerRow] BY <1>1, <2>1 DEF PoolTypeOK
  <2> QED BY <1>2, <1>3, <2>2, <2>3 DEF PoolTypeOK
<1>6. Holding' BY <1>1, <1>2, <1>3, <1>4 DEF PoolTypeOK, Holding, Working, InSection
<1>7. LocksOut' BY <1>2 DEF LocksOut
<1> QED BY <1>5, <1>6, <1>7

\* RELEASE_LOCK takes the lock off the connection before it goes back.
LEMMA ReleaseInv == ASSUME PoolInv, NEW h \in PoolHandlers, ReleaseLock(h) PROVE PoolInv'
<1> USE PoolAssumption DEF PoolInv
<1>1. PICK l \in Leases :
        /\ l = handler[h].first /\ handler[h].pc = "release"
        /\ lease' = Returned([lease EXCEPT ![l].lock = "none"], l)
        /\ handler' = [handler EXCEPT ![h] = NoHandler]
  BY DEF ReleaseLock, PoolAt, Holding, Working
<1>2. /\ lease' \in [Leases -> LeaseRow]
      /\ lease'[l].at = "pool" /\ lease'[l].lock = "none"
      /\ \A m \in Leases \ {l} : lease'[m] = lease[m]
  <2>1. lease[l].at # "pool" BY <1>1 DEF Holding, Working
  <2> QED BY <1>1, <2>1 DEF Returned, Unlocked, PoolTypeOK, LeaseRow
<1>3. \A g \in PoolHandlers \ {h} : /\ handler'[g] = handler[g]
                                    /\ handler[g].first # l /\ handler[g].second # l
  BY <1>1 DEF PoolTypeOK
<1>4. handler'[h] = NoHandler /\ handler' \in [PoolHandlers -> HandlerRow]
  BY <1>1 DEF PoolTypeOK, NoHandler, HandlerRow
<1>5. PoolTypeOK' BY <1>2, <1>3, <1>4 DEF PoolTypeOK, NoHandler
<1>6. Holding' BY <1>2, <1>3, <1>4 DEF PoolTypeOK, Holding, Working, InSection, NoHandler
<1>7. LocksOut' BY <1>2 DEF LocksOut
<1> QED BY <1>5, <1>6, <1>7

\* A connection breaks under its handler.
LEMMA BreakInv == ASSUME PoolInv, NEW l \in Leases, Break(l) PROVE PoolInv'
<1> USE PoolAssumption DEF PoolInv, Break
<1>1. PoolTypeOK' BY DEF PoolTypeOK, LeaseRow
<1>2. Holding' BY DEF PoolTypeOK, Holding, Working, InSection
<1>3. LocksOut' BY DEF PoolTypeOK, LocksOut
<1> QED BY <1>1, <1>2, <1>3

\* Every step keeps the invariant.
LEMMA PoolStepInv == PoolInv /\ [PoolNext]_poolVars => PoolInv'
<1> SUFFICES ASSUME PoolInv, [PoolNext]_poolVars PROVE PoolInv'
  OBVIOUS
<1>1. CASE UNCHANGED poolVars
  BY <1>1 DEF poolVars, PoolInv, PoolTypeOK, Holding, LocksOut, InSection
<1>2. ASSUME NEW l \in Leases, Break(l) PROVE PoolInv' BY <1>2, BreakInv
<1>3. ASSUME NEW h \in PoolHandlers, NEW a \in {"none"} \cup PoolAccounts, Arrive(h, a) PROVE PoolInv'
  BY <1>3, MoveInv
<1>4. ASSUME NEW h \in PoolHandlers, PoolStep(h) PROVE PoolInv'
  <2>1. CASE GetConnection(h) \/ SecondConnection(h) BY <2>1, CheckoutInv
  <2>2. CASE PoolTimesOut(h) \/ NextQuery(h) \/ BodyEnds(h) BY <2>2, MoveInv
  <2>3. CASE RunQuery(h)
    <3>1. handler[h].pc \in Working \ {"uses2"} /\ lease[handler[h].first].lock = "none"
      BY <2>3 DEF RunQuery, PoolAt, PoolInv, Holding, Working
    <3> QED BY <2>3, <3>1, ReturnInv DEF RunQuery
  <2>4. CASE GetLock(h) BY <2>4, GetLockInv
  <2>5. CASE SecondReturned(h) BY <2>5, SecondInv
  <2>6. CASE ReleaseLock(h) BY <2>6, ReleaseInv
  <2> QED BY <1>4, <2>1, <2>2, <2>3, <2>4, <2>5, <2>6 DEF PoolStep
<1> QED BY <1>1, <1>2, <1>3, <1>4 DEF PoolNext

-----------------------------------------------------------------------------
(* The theorem.                                                            *)

\* A connection in the pool never has a lock, and two handlers are in the
\* section of one account only if the server broke the connection of one.
THEOREM PoolLocksHold == PoolSpec => []PoolLocks
<1>1. PoolInv => PoolLocks
  <2> SUFFICES ASSUME PoolInv PROVE PoolLocks OBVIOUS
  <2>1. \A l \in Leases : lease[l].at = "pool" => lease[l].lock = "none"
    BY DEF PoolInv, LocksOut
  <2>2. ASSUME NEW g \in PoolHandlers, NEW h \in PoolHandlers, g # h, InSection(g), InSection(h),
               handler[g].account = handler[h].account,
               lease[handler[g].first].at # "broken", lease[handler[h].first].at # "broken"
        PROVE FALSE
    <3>1. /\ handler[g].first \in Leases /\ handler[h].first \in Leases
          /\ lease[handler[g].first].lock = lease[handler[h].first].lock
          /\ lease[handler[g].first].lock # "none"
      BY <2>2 DEF PoolInv, Holding, Working, InSection
    <3>2. handler[g].first = handler[h].first BY <3>1 DEF PoolInv, LocksOut
    <3> QED BY <2>2, <3>1, <3>2, PoolAssumption DEF PoolInv, PoolTypeOK
  <2> QED BY <2>1, <2>2 DEF PoolLocks
<1>2. PoolSpec => PoolInit /\ [][PoolNext]_poolVars BY DEF PoolSpec
<1> QED BY <1>1, <1>2, PoolInitInv, PoolStepInv, PTL

\* Every variable keeps its type, and no connection is held twice.
THEOREM PoolTypes == PoolSpec => []PoolTypeOK
<1>1. PoolInv => PoolTypeOK BY DEF PoolInv
<1>2. PoolSpec => PoolInit /\ [][PoolNext]_poolVars BY DEF PoolSpec
<1> QED BY <1>1, <1>2, PoolInitInv, PoolStepInv, PTL

-----------------------------------------------------------------------------
(***************************************************************************)
(* The Redis browser, for any number of imports, files, keys and requests on *)
(* single keys: what is overwritten, and what the summary of a batch says. *)
(***************************************************************************)

ImportRow == [pc : InLoop \cup {"none", "read", "close", "summary", "ended"},
              files : {<<>>} \cup Uploads, results : Seq({"written", "failed"}), raced : BOOLEAN]
WriterRow == [pc : {"idle", "exists", "write", "delete"}, key : {"none"} \cup RedisKeys, existed : BOOLEAN]

\* The columns of a batch that the proof reads nowhere have no type here.
ImportTypes ==
  /\ redis \in [RedisKeys -> {"none", "client"} \cup Batches]
  /\ batch = [b \in Batches |-> batch[b]]
  /\ import \in [Batches -> ImportRow]
  /\ writer \in [Writers -> WriterRow]
  /\ \A w \in Writers : writer[w].pc # "idle" => writer[w].key \in RedisKeys

\* The event loop: one import at a time is between two of its waits.
OneInLoop == \A b, c \in Batches : b # c => ~(import[b].pc \in InLoop /\ import[c].pc \in InLoop)

\* An import that may set a key without overwrite has seen it free, and it is
\* free still unless a request on that key came between.
LookedFree ==
  \A b \in Batches :
    (import[b].pc = "set" /\ ~batch[b].overwrite /\ ~import[b].raced) => redis[KeyOf(b)] = "none"

ImportInv == ImportTypes /\ OneInLoop /\ LookedFree

LEMMA ImportInit == RedisInit => ImportInv
<1> SUFFICES ASSUME RedisInit PROVE ImportInv OBVIOUS
<1>1. ImportTypes BY DEF RedisInit, ImportTypes, ImportRow, WriterRow, NoImport, NoWriter
<1>2. \A b \in Batches : import[b].pc = "none" BY DEF RedisInit, NoImport
<1> QED BY <1>1, <1>2 DEF ImportInv, OneInLoop, LookedFree, InLoop

\* An import that is not between its look and its SET goes on, and has the
\* event loop if it needs it; nothing but its own row changes.
LEMMA ImportMoves ==
  ASSUME ImportInv, NEW b \in Batches, NEW req \in ImportRow, import' = [import EXCEPT ![b] = req],
         req.pc \in InLoop => LoopFree(b),
         req.pc = "set" => (batch[b].overwrite \/ redis[KeyOf(b)] = "none")
                           /\ req.files = import[b].files /\ req.results = import[b].results,
         redis' = redis, writer' = writer,
         batch' = batch \/ (req.pc # "set" /\ \E x : batch' = [batch EXCEPT ![b] = x])
  PROVE  ImportInv'
<1>1. ImportTypes' BY DEF ImportInv, ImportTypes
<1>2. \A c \in Batches \ {b} : import'[c] = import[c] /\ batch'[c] = batch[c] /\ KeyOf(c)' = KeyOf(c)
  BY DEF ImportInv, ImportTypes, KeyOf, File
<1>3. import'[b] = req BY DEF ImportInv, ImportTypes
<1>4. OneInLoop' BY <1>2, <1>3 DEF ImportInv, OneInLoop, LoopFree
<1>5. req.pc = "set" => KeyOf(b)' = KeyOf(b) /\ batch' = batch BY <1>3 DEF KeyOf, File
<1>6. LookedFree' BY <1>2, <1>3, <1>5 DEF ImportInv, LookedFree
<1> QED BY <1>1, <1>4, <1>6 DEF ImportInv

\* The steps of an import before the key is set, and those after.
LEMMA ImportSteps ==
  ASSUME ImportInv, NEW b \in Batches,
         \/ \E files \in Uploads, overwrite \in BOOLEAN : BeginImport(b, files, overwrite)
         \/ OpenClient(b) \/ ReadUpload(b) \/ SetMeta(b)
         \/ RecordWritten(b) \/ RecordFailed(b) \/ CloseUpload(b) \/ FailImport(b)
         \/ WriteSummary(b) \/ AbortImport(b)
  PROVE  ImportInv'
<1> DEFINE req == import[b]
<1>1. req \in ImportRow /\ (req.pc \in InLoop => LoopFree(b))
  BY DEF ImportInv, ImportTypes, OneInLoop, LoopFree
<1>2. ASSUME NEW pc \in (InLoop \ {"set"}) \cup {"none", "read", "close", "summary", "ended"}, ImportGoto(b, pc),
             pc \in InLoop => LoopFree(b), redis' = redis, writer' = writer,
             batch' = batch \/ \E x : batch' = [batch EXCEPT ![b] = x]
      PROVE  ImportInv'
  <2> DEFINE new == [req EXCEPT !.pc = pc]
  <2>1. new \in ImportRow /\ new.pc = pc /\ pc # "set" BY <1>1, <1>2 DEF ImportRow, InLoop
  <2>2. import' = [import EXCEPT ![b] = new] BY <1>2 DEF ImportGoto
  <2> HIDE DEF new
  <2> QED BY <1>2, <2>1, <2>2, ImportMoves
<1>3. ASSUME NEW files \in Uploads, NEW overwrite \in BOOLEAN, BeginImport(b, files, overwrite)
      PROVE  ImportInv'
  <2> DEFINE new == [NoImport EXCEPT !.pc = "connect", !.files = files]
  <2>1. new \in ImportRow /\ new.pc = "connect"
    <3>1. <<>> \in Seq({"written", "failed"}) OBVIOUS
    <3>2. NoImport \in ImportRow BY <3>1 DEF ImportRow, NoImport
    <3> QED BY <3>2 DEF ImportRow, InLoop
  <2>2. LoopFree(b) /\ redis' = redis /\ writer' = writer BY <1>3 DEF BeginImport, ImportAt, ImportQuiet
  <2>3. \E x : batch' = [batch EXCEPT ![b] = x] BY <1>3 DEF BeginImport
  <2>4. import' = [import EXCEPT ![b] = new] BY <1>3 DEF BeginImport
  <2> HIDE DEF new
  <2> QED BY <2>1, <2>2, <2>3, <2>4, ImportMoves
<1>4. CASE OpenClient(b)
  <2>1. batch' = batch \/ \E x : batch' = [batch EXCEPT ![b] = x] BY <1>4 DEF OpenClient, RedisFailed
  <2> QED BY <1>2, <1>4, <2>1 DEF OpenClient, RedisFailed, ImportAt, ImportQuiet, InLoop
<1>5. CASE ReadUpload(b)
  <2>1. CASE ImportGoto(b, "failed") BY <1>2, <1>5, <2>1 DEF ReadUpload, ImportAt, ImportQuiet, InLoop
  <2>2. CASE /\ batch[b].overwrite \/ redis[KeyOf(b)] = "none"
             /\ import' = [import EXCEPT ![b].pc = "set", ![b].raced = FALSE]
    <3> DEFINE new == [req EXCEPT !.pc = "set", !.raced = FALSE]
    <3>1. new \in ImportRow /\ new.files = req.files /\ new.results = req.results
      BY <1>1 DEF ImportRow, InLoop
    <3>2. import' = [import EXCEPT ![b] = new] BY <2>2 DEF ImportInv, ImportTypes
    <3>3. LoopFree(b) /\ redis' = redis /\ writer' = writer /\ batch' = batch
      BY <1>5 DEF ReadUpload, ImportAt, ImportQuiet
    <3> HIDE DEF new
    <3> QED BY <2>2, <3>1, <3>2, <3>3, ImportMoves
  <2> QED BY <1>5, <2>1, <2>2 DEF ReadUpload
<1>6. CASE SetMeta(b) BY <1>2, <1>6 DEF SetMeta, ImportAt, ImportQuiet, InLoop
<1>7. ASSUME NEW status \in {"written", "failed"}, Recorded(b, status) PROVE ImportInv'
  <2> DEFINE new == [req EXCEPT !.results = Append(req.results, status), !.pc = "close"]
  <2>1. Append(req.results, status) \in Seq({"written", "failed"}) BY <1>1 DEF ImportRow
  <2>2. new \in ImportRow /\ new.pc = "close" BY <1>1, <2>1 DEF ImportRow, InLoop
  <2>3. import' = [import EXCEPT ![b] = new] BY <1>7 DEF Recorded, ImportInv, ImportTypes
  <2>4. redis' = redis /\ writer' = writer BY <1>7 DEF Recorded, ImportQuiet
  <2>5. \E x : batch' = [batch EXCEPT ![b] = x] BY <1>7 DEF Recorded
  <2>6. new.pc \notin InLoop /\ new.pc # "set" BY <2>2 DEF InLoop
  <2> HIDE DEF new
  <2> QED BY <2>2, <2>3, <2>4, <2>5, <2>6, ImportMoves
<1>8. CASE RecordWritten(b) BY <1>2, <1>7, <1>8 DEF RecordWritten, ImportAt, ImportQuiet, InLoop
<1>9. CASE RecordFailed(b) BY <1>7, <1>9 DEF RecordFailed
<1>10. CASE WriteSummary(b)
  <2>1. \E x : batch' = [batch EXCEPT ![b] = x] BY <1>10 DEF WriteSummary
  <2> QED BY <1>2, <1>10, <2>1 DEF WriteSummary, ImportAt, ImportQuiet, InLoop
<1>11. CASE AbortImport(b) BY <1>2, <1>11 DEF AbortImport, ImportQuiet, InLoop
<1>12. CASE CloseUpload(b) BY <1>2, <1>12 DEF CloseUpload, ImportAt, ImportQuiet, InLoop
<1>13. CASE FailImport(b)
  <2>1. \E x : batch' = [batch EXCEPT ![b] = x] BY <1>13 DEF FailImport, RedisFailed
  <2> QED BY <1>2, <1>13, <2>1 DEF FailImport, RedisFailed, ImportQuiet, InLoop
<1> QED BY <1>3, <1>4, <1>5, <1>6, <1>8, <1>9, <1>10, <1>11, <1>12, <1>13

\* The SET: no other import is between its look and its SET.
LEMMA SetKeyInv == ASSUME ImportInv, NEW b \in Batches, SetKey(b) PROVE ImportInv'
<1>1. PICK pc \in {"meta", "failed"} : import' = [import EXCEPT ![b].pc = pc] BY DEF SetKey, ImportGoto
<1>2. [import[b] EXCEPT !.pc = pc] \in ImportRow BY DEF ImportInv, ImportTypes, ImportRow, InLoop
<1>3. ImportTypes' BY <1>1, <1>2 DEF SetKey, ImportQuiet, ImportInv, ImportTypes
<1>4. \A c \in Batches : c # b => import[c].pc \notin InLoop /\ import'[c] = import[c]
  BY <1>1 DEF SetKey, ImportAt, LoopFree, ImportInv, ImportTypes
<1>5. import'[b].pc = pc BY <1>1, <1>2 DEF ImportInv, ImportTypes, ImportRow
<1> QED BY <1>3, <1>4, <1>5 DEF ImportInv, OneInLoop, LookedFree, InLoop

\* A request on a single key: the imports that have looked at it are overtaken.
LEMMA WriterInv ==
  ASSUME ImportInv, NEW w \in Writers,
         \/ \E k \in RedisKeys, pc \in {"exists", "delete"} : BeginWrite(w, k, pc)
         \/ KeyExists(w) \/ WriteKey(w) \/ DeleteKey(w) \/ WriteError(w)
  PROVE  ImportInv'
<1>1. ASSUME NEW req \in WriterRow, req.pc # "idle" => req.key \in RedisKeys,
             writer' = [writer EXCEPT ![w] = req], UNCHANGED <<redis, batch, import>>
      PROVE  ImportInv'
  BY <1>1 DEF ImportInv, ImportTypes, OneInLoop, LookedFree, KeyOf, File
<1>2. NoWriter \in WriterRow /\ NoWriter.pc = "idle" BY DEF WriterRow, NoWriter
<1>3. ASSUME NEW k \in RedisKeys, NEW v \in {"none", "client"}, redis' = [redis EXCEPT ![k] = v],
             import' = Overtaking(k), writer' = [writer EXCEPT ![w] = NoWriter], batch' = batch
      PROVE  ImportInv'
  <2>1. \A b \in Batches : [import[b] EXCEPT !.raced = TRUE] \in ImportRow BY DEF ImportInv, ImportTypes, ImportRow
  <2>2. import' \in [Batches -> ImportRow] BY <1>3, <2>1 DEF Overtaking, ImportInv, ImportTypes
  <2>3. \A b \in Batches : /\ import'[b].pc = import[b].pc /\ KeyOf(b)' = KeyOf(b)
                           /\ import[b].pc = "set" /\ KeyOf(b) = k => import'[b].raced
                           /\ import[b].raced => import'[b].raced
    BY <1>3 DEF Overtaking, KeyOf, File, ImportInv, ImportTypes, ImportRow
  <2>4. ImportTypes' BY <1>2, <1>3, <2>2 DEF ImportInv, ImportTypes
  <2>5. OneInLoop' BY <2>3 DEF ImportInv, OneInLoop
  <2>6. \A j \in RedisKeys \ {k} : redis'[j] = redis[j] BY <1>3 DEF ImportInv, ImportTypes
  <2>7. LookedFree'
    <3> SUFFICES ASSUME NEW b \in Batches, import[b].pc = "set", ~batch[b].overwrite, ~import'[b].raced
                 PROVE  redis'[KeyOf(b)] = "none"
      BY <1>3, <2>3 DEF LookedFree
    <3>1. KeyOf(b) # k /\ redis[KeyOf(b)] = "none" BY <2>3 DEF ImportInv, LookedFree
    <3>2. redis'[KeyOf(b)] = redis[KeyOf(b)] BY <1>3, <3>1 DEF ImportInv, ImportTypes
    <3> QED BY <3>1, <3>2
  <2> QED BY <2>4, <2>5, <2>7 DEF ImportInv
<1>4. writer[w] \in WriterRow /\ (writer[w].pc # "idle" => writer[w].key \in RedisKeys)
  BY DEF ImportInv, ImportTypes
<1>5. ASSUME NEW k \in RedisKeys, NEW pc \in {"exists", "delete"}, BeginWrite(w, k, pc) PROVE ImportInv'
  <2>1. [NoWriter EXCEPT !.pc = pc, !.key = k] \in WriterRow /\ [NoWriter EXCEPT !.pc = pc, !.key = k].key = k
    BY DEF WriterRow, NoWriter
  <2> QED BY <1>1, <1>5, <2>1 DEF BeginWrite
<1>6. CASE KeyExists(w)
  <2> DEFINE new == [writer[w] EXCEPT !.pc = "write", !.existed = redis[writer[w].key] /= "none"]
  <2>1. new \in WriterRow /\ new.key = writer[w].key BY <1>4 DEF WriterRow
  <2>2. writer' = [writer EXCEPT ![w] = new] BY <1>6 DEF KeyExists, ImportInv, ImportTypes
  <2>3. writer[w].key \in RedisKeys /\ UNCHANGED <<redis, batch, import>> BY <1>4, <1>6 DEF KeyExists
  <2> HIDE DEF new
  <2> QED BY <1>1, <2>1, <2>2, <2>3
<1>7. CASE WriteKey(w) BY <1>3, <1>4, <1>7 DEF WriteKey
<1>8. CASE DeleteKey(w) BY <1>3, <1>4, <1>8 DEF DeleteKey
<1>9. CASE WriteError(w) BY <1>1, <1>2, <1>9 DEF WriteError
<1> QED BY <1>5, <1>6, <1>7, <1>8, <1>9

LEMMA ImportStep == ImportInv /\ [RedisNext]_redisVars => ImportInv'
<1> SUFFICES ASSUME ImportInv, [RedisNext]_redisVars PROVE ImportInv' OBVIOUS
<1>1. CASE UNCHANGED redisVars
  BY <1>1 DEF redisVars, ImportInv, ImportTypes, OneInLoop, LookedFree, KeyOf, File
<1> QED BY <1>1, ImportSteps, SetKeyInv, WriterInv DEF RedisNext

\* Without overwrite an import replaces only what a request on a single key
\* wrote after the import had looked, however many imports run.
THEOREM ImportsKeepValues == RedisSpec => KeepsUnlessRaced
<1>1. ImportInv /\ [RedisNext]_redisVars =>
        [\A b \in Batches, k \in RedisKeys :
          (redis'[k] = b /\ redis[k] \notin {"none", b} /\ import[b].pc = "set" /\ ~batch[b].overwrite)
          => import[b].raced]_redisVars
  <2> SUFFICES ASSUME ImportInv, RedisNext, NEW b \in Batches, NEW k \in RedisKeys,
                      redis'[k] = b, redis[k] \notin {"none", b}, import[b].pc = "set", ~batch[b].overwrite
               PROVE  import[b].raced
    OBVIOUS
  <2>1. redis'[k] # redis[k] /\ redis'[k] \notin {"none", "client"} BY RedisAssumption
  <2>2. ASSUME NEW w \in Writers, WriteKey(w) \/ DeleteKey(w) PROVE FALSE
    <3>1. redis' = [redis EXCEPT ![writer[w].key] = "client"] \/ redis' = [redis EXCEPT ![writer[w].key] = "none"]
      BY <2>2 DEF WriteKey, DeleteKey
    <3> QED BY <2>1, <3>1 DEF ImportInv, ImportTypes
  <2>3. PICK c \in Batches : SetKey(c) /\ redis' = [redis EXCEPT ![KeyOf(c)] = c]
    <3>1. redis' # redis BY <2>1
    <3>2. ASSUME NEW c \in Batches,
                 \/ \E files \in Uploads, overwrite \in BOOLEAN : BeginImport(c, files, overwrite)
                 \/ OpenClient(c) \/ ReadUpload(c) \/ SetMeta(c)
                 \/ RecordWritten(c) \/ RecordFailed(c) \/ CloseUpload(c) \/ FailImport(c)
                 \/ WriteSummary(c) \/ AbortImport(c)
          PROVE  redis' = redis
      BY <3>2 DEF BeginImport, OpenClient, ReadUpload, SetMeta, RecordWritten, RecordFailed, Recorded,
                  CloseUpload, FailImport, WriteSummary, AbortImport
    <3>3. ASSUME NEW w \in Writers,
                 (\E j \in RedisKeys, pc \in {"exists", "delete"} : BeginWrite(w, j, pc))
                   \/ KeyExists(w) \/ WriteError(w)
          PROVE  redis' = redis
      BY <3>3 DEF BeginWrite, KeyExists, WriteError
    <3>4. \E c \in Batches : SetKey(c) BY <2>2, <3>1, <3>2, <3>3 DEF RedisNext
    <3> QED BY <3>1, <3>4 DEF SetKey
  <2>4. c = b /\ k = KeyOf(b) BY <2>3 DEF ImportInv, ImportTypes
  <2> QED BY <2>3, <2>4 DEF ImportInv, LookedFree
<1> QED BY <1>1, ImportInit, ImportStep, PTL DEF RedisSpec, KeepsUnlessRaced

-----------------------------------------------------------------------------
(* The summary of a batch.                                                 *)

Results == Seq({"written", "failed"})

BatchRow == [status : {"none", "running", "succeeded", "partial", "failed"}, overwrite : BOOLEAN,
             rows : Results, written : Nat, failed : Nat]

\* While an import runs, its results are the rows it has committed and it has no
\* figures; it is at a file that has no row yet, closes one that has, or has a row
\* for every file.
BatchOK(b) ==
  /\ batch[b].status \in {"none", "running"} \/ import[b].pc = "ended"
  /\ import[b].pc = "none" => import[b] = NoImport /\ batch[b] = NoBatch
  /\ import[b].pc # "none" => import[b].files \in Uploads
  /\ import[b].pc \notin {"none", "ended"} =>
       /\ batch[b].rows = import[b].results /\ batch[b].status = "running"
       /\ batch[b].written = 0 /\ batch[b].failed = 0
  /\ import[b].pc = "connect" => import[b].results = <<>>
  /\ import[b].pc \in {"read", "set", "meta", "row", "failed"} =>
       Len(import[b].results) < Len(import[b].files)
  /\ import[b].pc = "close" => Len(import[b].results) <= Len(import[b].files)
  /\ import[b].pc = "summary" => Len(import[b].results) = Len(import[b].files)

\* What the figures of a batch say of its rows.
Told(b) ==
  LET w == Tally(batch[b].rows, "written")
      f == Tally(batch[b].rows, "failed") IN
  /\ batch[b].written + batch[b].failed > 0 =>
       /\ batch[b].written = w /\ batch[b].failed = f
       /\ Len(batch[b].rows) = Len(import[b].files)
       /\ batch[b].status = IF w = 0 THEN "failed" ELSE IF f = 0 THEN "succeeded" ELSE "partial"
  /\ batch[b].status \in {"succeeded", "partial"} => batch[b].written > 0

SummaryInv ==
  /\ batch \in [Batches -> BatchRow]
  /\ \A b \in Batches : BatchOK(b) /\ Told(b)

\* Every row is one of a file that was written or of one that failed.
LEMMA Tallies ==
  ASSUME NEW rows \in Results
  PROVE  /\ Tally(rows, "written") \in Nat /\ Tally(rows, "failed") \in Nat
         /\ Tally(rows, "written") + Tally(rows, "failed") = Len(rows)
<1> DEFINE W == {i \in DOMAIN rows : rows[i] = "written"}
           F == {i \in DOMAIN rows : rows[i] = "failed"}
<1>1. Len(rows) \in Nat /\ DOMAIN rows = 1..Len(rows) BY DEF Results
<1>2. IsFiniteSet(DOMAIN rows) /\ Cardinality(DOMAIN rows) = Len(rows)
  <2>1. IsFiniteSet(1..Len(rows)) /\ Cardinality(1..Len(rows)) = IF 1 > Len(rows) THEN 0 ELSE Len(rows)-1+1
    BY <1>1, FS_Interval
  <2> QED BY <1>1, <2>1
<1>3. W \cup F = DOMAIN rows /\ W \cap F = {}
  <2>1. \A i \in DOMAIN rows : rows[i] = "written" \/ rows[i] = "failed" BY <1>1 DEF Results
  <2> QED BY <2>1
<1>4. W \in SUBSET DOMAIN rows /\ F \in SUBSET DOMAIN rows OBVIOUS
<1>5. IsFiniteSet(W) /\ IsFiniteSet(F) BY <1>2, <1>4, FS_Subset
<1>6. Cardinality(W \cup F) = Cardinality(W) + Cardinality(F) - Cardinality(W \cap F) BY <1>5, FS_Union
<1>7. Cardinality(W) \in Nat /\ Cardinality(F) \in Nat BY <1>5, FS_CardinalityType
<1>8. Cardinality(W \cap F) = 0 BY <1>3, FS_EmptySet
<1> HIDE DEF W, F
<1>9. Cardinality(W) + Cardinality(F) = Len(rows) BY <1>2, <1>3, <1>6, <1>7, <1>8
<1> QED BY <1>7, <1>9 DEF Tally, W, F

LEMMA NoneTold == Tally(<<>>, "written") = 0 /\ Tally(<<>>, "failed") = 0
<1>1. <<>> \in Results /\ Len(<<>>) = 0 BY DEF Results
<1> HIDE DEF Results
<1> QED BY <1>1, Tallies

LEMMA SummaryInit == RedisInit => SummaryInv
<1> SUFFICES ASSUME RedisInit PROVE SummaryInv OBVIOUS
<1>2. <<>> \in Results BY DEF Results
<1>3. \A b \in Batches : batch[b] = NoBatch /\ import[b] = NoImport BY DEF RedisInit
<1>4. \A b \in Batches : BatchOK(b) /\ Told(b)
  BY <1>2, <1>3 DEF BatchOK, Told, NoBatch, NoImport
<1>5. NoBatch \in BatchRow BY <1>2 DEF NoBatch, BatchRow
<1>6. batch \in [Batches -> BatchRow] BY <1>5 DEF RedisInit
<1> QED BY <1>4, <1>6 DEF SummaryInv

\* Batches and imports of the others stay as they are.
LEMMA BatchMoves ==
  ASSUME ImportInv, SummaryInv, NEW b \in Batches, NEW x \in BatchRow, batch' = [batch EXCEPT ![b] = x],
         \A c \in Batches \ {b} : import'[c] = import[c],
         BatchOK(b)', Told(b)'
  PROVE  SummaryInv'
<1>1. \A c \in Batches \ {b} : batch'[c] = batch[c] BY DEF SummaryInv
<1>2. batch' \in [Batches -> BatchRow] BY DEF SummaryInv
<1>3. \A c \in Batches \ {b} : BatchOK(c)' /\ Told(c)' BY <1>1 DEF SummaryInv, BatchOK, Told
<1> QED BY <1>2, <1>3 DEF SummaryInv

\* An import goes on to another label without a word in the database.
LEMMA PcMoves ==
  ASSUME ImportInv, SummaryInv, NEW b \in Batches, NEW pc,
         \A c \in Batches \ {b} : import'[c] = import[c],
         /\ import'[b].pc = pc /\ import'[b].files = import[b].files
         /\ import'[b].results = import[b].results,
         batch' = batch, import[b].pc \notin {"none", "ended"},
         \/ pc = "ended"
         \/ import[b].pc = "connect" /\ pc = "read"
         \/ import[b].pc \in {"read", "set", "meta", "row"} /\ pc \in {"set", "meta", "row", "failed"}
         \/ import[b].pc = "close" /\ pc = IF File(b) > Len(import[b].files) THEN "summary" ELSE "read"
  PROVE  SummaryInv'
<1>1. batch[b] \in BatchRow /\ batch' = [batch EXCEPT ![b] = batch[b]] BY DEF SummaryInv
<1>2. BatchOK(b) BY DEF SummaryInv
<1>3. import[b].pc = "connect" => Len(import[b].results) < Len(import[b].files)
  <2>1. ASSUME NEW files \in Uploads PROVE Len(files) \in Nat /\ Len(files) > 0
    BY RedisAssumption
  <2> QED BY <1>2, <2>1 DEF BatchOK
<1>4. BatchOK(b)'
  <2>1. CASE import[b].pc = "close" /\ pc # "ended"
    <3>1. Len(import[b].results) \in Nat /\ Len(import[b].files) \in Nat
      BY <1>2, <2>1, RedisAssumption DEF BatchOK, ImportInv, ImportTypes, ImportRow
    <3> QED BY <1>2, <2>1, <3>1 DEF BatchOK, File
  <2>2. CASE import[b].pc # "close" \/ pc = "ended" BY <1>2, <1>3, <2>2 DEF BatchOK
  <2> QED BY <2>1, <2>2
<1>5. Told(b)' BY <1>2 DEF BatchOK, SummaryInv, Told
<1> QED BY <1>1, <1>4, <1>5, BatchMoves

\* What changes of an import that goes to another label.
LEMMA GotoKeeps ==
  ASSUME ImportInv, NEW b \in Batches, NEW pc, ImportGoto(b, pc)
  PROVE  /\ \A c \in Batches \ {b} : import'[c] = import[c]
         /\ import'[b].pc = pc /\ import'[b].files = import[b].files /\ import'[b].results = import[b].results
BY DEF ImportInv, ImportTypes, ImportRow, ImportGoto

\* A batch that fails as if Redis had failed has no figures, whatever rows it has.
LEMMA FailedSummary ==
  ASSUME ImportInv, SummaryInv, NEW b \in Batches, RedisFailed(b), import[b].pc \notin {"none", "ended"}
  PROVE  SummaryInv'
<1> DEFINE x == [batch[b] EXCEPT !.status = "failed"]
<1>1. batch[b] \in BatchRow /\ BatchOK(b) BY DEF SummaryInv
<1>2. x \in BatchRow /\ x.status = "failed" /\ x.rows = batch[b].rows
        /\ x.written = batch[b].written /\ x.failed = batch[b].failed
  BY <1>1 DEF BatchRow
<1>3. batch' = [batch EXCEPT ![b] = x] BY DEF RedisFailed, SummaryInv
<1>4. batch'[b] = x BY <1>3 DEF SummaryInv
<1> HIDE DEF x
<1>5. BatchOK(b)' BY <1>1, <1>2, <1>4, GotoKeeps DEF RedisFailed, BatchOK
<1>6. Told(b)' BY <1>1, <1>2, <1>4 DEF BatchOK, Told
<1> QED BY <1>2, <1>3, <1>5, <1>6, BatchMoves, GotoKeeps DEF RedisFailed

\* An import begins, and its client is opened or refused.
LEMMA BeginSummary ==
  ASSUME ImportInv, SummaryInv, NEW b \in Batches,
         (\E files \in Uploads, overwrite \in BOOLEAN : BeginImport(b, files, overwrite)) \/ OpenClient(b)
  PROVE  SummaryInv'
<1>1. batch[b] \in BatchRow /\ BatchOK(b) BY DEF SummaryInv
<1>2. ASSUME NEW files \in Uploads, NEW overwrite \in BOOLEAN, BeginImport(b, files, overwrite)
      PROVE  SummaryInv'
  <2> DEFINE x == [NoBatch EXCEPT !.status = "running", !.overwrite = overwrite]
  <2>1. x \in BatchRow /\ x.status = "running" /\ x.rows = <<>> /\ x.written = 0 /\ x.failed = 0
    <3>1. <<>> \in Results BY DEF Results
    <3> QED BY <3>1 DEF NoBatch, BatchRow
  <2>2. batch' = [batch EXCEPT ![b] = x] BY <1>2 DEF BeginImport
  <2>3. import' = [import EXCEPT ![b] = [NoImport EXCEPT !.pc = "connect", !.files = files]]
    BY <1>2 DEF BeginImport
  <2>4. \A c \in Batches \ {b} : import'[c] = import[c] BY <2>3 DEF ImportInv, ImportTypes
  <2>5. import'[b].pc = "connect" /\ import'[b].files = files /\ import'[b].results = <<>>
    BY <2>3 DEF ImportInv, ImportTypes, NoImport
  <2>6. batch'[b] = x BY <2>2 DEF SummaryInv
  <2> HIDE DEF x
  <2>7. BatchOK(b)' /\ Told(b)' BY <2>1, <2>5, <2>6 DEF BatchOK, Told
  <2> QED BY <2>1, <2>2, <2>4, <2>7, BatchMoves
<1>3. CASE OpenClient(b)
  <2>1. CASE ImportGoto(b, "read") /\ batch' = batch
    BY <1>3, <2>1, GotoKeeps, PcMoves DEF OpenClient, ImportAt
  <2>2. CASE RedisFailed(b) BY <1>3, <2>2, FailedSummary DEF OpenClient, ImportAt
  <2> QED BY <1>3, <2>1, <2>2 DEF OpenClient
<1> QED BY <1>2, <1>3

\* The steps inside one file and out of it, and an import that is broken off.
LEMMA FileSummary ==
  ASSUME ImportInv, SummaryInv, NEW b \in Batches,
         \/ ReadUpload(b) \/ SetKey(b) \/ SetMeta(b) \/ AbortImport(b) \/ CloseUpload(b) \/ FailImport(b)
         \/ ImportAt(b, "row") /\ ImportGoto(b, "failed") /\ batch' = batch
  PROVE  SummaryInv'
<1>1. CASE ReadUpload(b)
  <2>1. CASE ImportGoto(b, "failed") BY <1>1, <2>1, GotoKeeps, PcMoves DEF ReadUpload, ImportAt
  <2>2. CASE import' = [import EXCEPT ![b].pc = "set", ![b].raced = FALSE]
    <3>1. /\ \A c \in Batches \ {b} : import'[c] = import[c]
          /\ import'[b].pc = "set" /\ import'[b].files = import[b].files
          /\ import'[b].results = import[b].results
      BY <2>2 DEF ImportInv, ImportTypes, ImportRow
    <3> QED BY <1>1, <3>1, PcMoves DEF ReadUpload, ImportAt
  <2> QED BY <1>1, <2>1, <2>2 DEF ReadUpload
<1>2. CASE SetKey(b) BY <1>2, GotoKeeps, PcMoves DEF SetKey, ImportAt
<1>3. CASE SetMeta(b) BY <1>3, GotoKeeps, PcMoves DEF SetMeta, ImportAt
<1>4. CASE AbortImport(b) BY <1>4, GotoKeeps, PcMoves DEF AbortImport
<1>5. CASE ImportAt(b, "row") /\ ImportGoto(b, "failed") /\ batch' = batch
  BY <1>5, GotoKeeps, PcMoves DEF ImportAt
<1>6. CASE CloseUpload(b) BY <1>6, GotoKeeps, PcMoves DEF CloseUpload, ImportAt
<1>7. CASE FailImport(b) BY <1>7, FailedSummary DEF FailImport, ImportAt
<1> QED BY <1>1, <1>2, <1>3, <1>4, <1>5, <1>6, <1>7

\* A row more, of the file that had none.
LEMMA RecordSummary ==
  ASSUME ImportInv, SummaryInv, NEW b \in Batches, NEW status \in {"written", "failed"},
         Recorded(b, status), import[b].pc \in {"row", "failed"}
  PROVE  SummaryInv'
<1> DEFINE rows == Append(batch[b].rows, status)
           x == [batch[b] EXCEPT !.rows = rows]
<1>1. batch[b] \in BatchRow /\ BatchOK(b) /\ batch[b].rows = import[b].results
        /\ batch[b].status = "running" /\ batch[b].written = 0 /\ batch[b].failed = 0
  BY DEF SummaryInv, BatchOK
<1>2. batch[b].rows \in Results /\ rows \in Results /\ Len(rows) = Len(batch[b].rows) + 1
        /\ Len(batch[b].rows) \in Nat
  BY <1>1 DEF BatchRow, Results
<1>3. batch' = [batch EXCEPT ![b] = x] BY DEF Recorded, SummaryInv
<1> HIDE DEF rows
<1>4. x \in BatchRow /\ x.rows = rows /\ x.status = "running" /\ x.written = 0 /\ x.failed = 0
  BY <1>1, <1>2 DEF BatchRow
<1>5. batch'[b] = x BY <1>3 DEF SummaryInv
<1>6. import' = [import EXCEPT ![b] = [import[b] EXCEPT !.results = rows, !.pc = "close"]]
  BY <1>1 DEF Recorded, ImportInv, ImportTypes, rows
<1> HIDE DEF x
<1>7. import[b] \in ImportRow BY DEF ImportInv, ImportTypes
<1>8. /\ \A c \in Batches \ {b} : import'[c] = import[c]
      /\ import'[b].files = import[b].files /\ import'[b].results = rows
      /\ import'[b].pc = "close"
  BY <1>6, <1>7 DEF ImportInv, ImportTypes, ImportRow
<1>9. Len(import[b].files) \in Nat
  BY <1>1, RedisAssumption DEF BatchOK
<1>10. BatchOK(b)' BY <1>1, <1>2, <1>4, <1>5, <1>8, <1>9 DEF BatchOK
<1>11. Told(b)' BY <1>4, <1>5 DEF Told
<1> QED BY <1>3, <1>4, <1>8, <1>10, <1>11, BatchMoves

\* The summary counts the results, which are the rows.
LEMMA WriteSummaryInv ==
  ASSUME ImportInv, SummaryInv, NEW b \in Batches, WriteSummary(b)
  PROVE  SummaryInv'
<1> DEFINE rows == batch[b].rows
           w == Tally(rows, "written")
           f == Tally(rows, "failed")
           status == IF w > 0 /\ f > 0 THEN "partial" ELSE IF w > 0 THEN "succeeded" ELSE "failed"
           x == [batch[b] EXCEPT !.status = status, !.written = w, !.failed = f]
<1>1. batch[b] \in BatchRow /\ BatchOK(b) BY DEF SummaryInv
<1>2. rows = import[b].results /\ Len(rows) = Len(import[b].files) /\ rows \in Results
  BY <1>1 DEF WriteSummary, ImportAt, BatchOK, BatchRow
<1>3. w \in Nat /\ f \in Nat /\ Len(rows) - w = f /\ Len(rows) \in Nat
  <2>1. Len(rows) \in Nat BY <1>2 DEF Results
  <2> HIDE DEF rows
  <2> QED BY <1>2, <2>1, Tallies
<1>4. batch' = [batch EXCEPT ![b] = x]
  <2>1. batch' = [batch EXCEPT ![b].status = status, ![b].written = w, ![b].failed = f]
    BY <1>2, <1>3 DEF WriteSummary
  <2> HIDE DEF status, w, f
  <2> QED BY <2>1 DEF SummaryInv
<1> HIDE DEF w, f
<1>5. x \in BatchRow /\ x.rows = rows /\ x.status = status /\ x.written = w /\ x.failed = f
  BY <1>1, <1>3 DEF BatchRow
<1>6. batch'[b] = x BY <1>4 DEF SummaryInv
<1> HIDE DEF x
<1>7. /\ \A c \in Batches \ {b} : import'[c] = import[c]
      /\ import'[b].pc = "ended" /\ import'[b].files = import[b].files
  BY GotoKeeps DEF WriteSummary
<1>8. BatchOK(b)' BY <1>1, <1>5, <1>6, <1>7 DEF WriteSummary, ImportAt, BatchOK
<1>9. Told(b)' BY <1>2, <1>3, <1>5, <1>6, <1>7 DEF Told, w, f
<1> QED BY <1>4, <1>5, <1>7, <1>8, <1>9, BatchMoves

\* A request on a single key marks imports it overtakes and tells no batch.
LEMMA WriterSummary ==
  ASSUME ImportInv, SummaryInv, NEW w \in Writers,
         \/ \E k \in RedisKeys, pc \in {"exists", "delete"} : BeginWrite(w, k, pc)
         \/ KeyExists(w) \/ WriteKey(w) \/ DeleteKey(w) \/ WriteError(w)
  PROVE  SummaryInv'
<1>1. batch' = batch BY DEF BeginWrite, KeyExists, WriteKey, DeleteKey, WriteError
<1>2. import' = import \/ \E k : import' = Overtaking(k)
  BY DEF BeginWrite, KeyExists, WriteKey, DeleteKey, WriteError
<1>3. ASSUME NEW b \in Batches
      PROVE  /\ import'[b].pc = import[b].pc /\ import'[b].files = import[b].files
             /\ import'[b].results = import[b].results
             /\ import[b].pc = "none" => import'[b] = import[b]
  <2>1. import[b] \in ImportRow BY DEF ImportInv, ImportTypes
  <2> QED BY <1>2, <2>1 DEF Overtaking, ImportRow
<1>4. ASSUME NEW b \in Batches PROVE BatchOK(b)' /\ Told(b)'
  <2>1. BatchOK(b) /\ Told(b) BY DEF SummaryInv
  <2>2. BatchOK(b)' BY <1>1, <1>3, <2>1 DEF BatchOK
  <2>3. Told(b)' BY <1>1, <1>3, <2>1 DEF Told
  <2> QED BY <2>2, <2>3
<1> QED BY <1>1, <1>4 DEF SummaryInv

LEMMA SummaryStep == ImportInv /\ SummaryInv /\ [RedisNext]_redisVars => SummaryInv'
<1> SUFFICES ASSUME ImportInv, SummaryInv, [RedisNext]_redisVars PROVE SummaryInv' OBVIOUS
<1>1. CASE UNCHANGED redisVars BY <1>1 DEF redisVars, SummaryInv, BatchOK, Told
<1>2. ASSUME NEW b \in Batches,
             \/ \E files \in Uploads, overwrite \in BOOLEAN : BeginImport(b, files, overwrite)
             \/ OpenClient(b) \/ ReadUpload(b) \/ SetKey(b) \/ SetMeta(b)
             \/ RecordWritten(b) \/ RecordFailed(b) \/ CloseUpload(b) \/ FailImport(b)
             \/ WriteSummary(b) \/ AbortImport(b)
      PROVE  SummaryInv'
  <2>1. CASE RecordWritten(b) BY <2>1, FileSummary, RecordSummary DEF RecordWritten, ImportAt
  <2>2. CASE RecordFailed(b) BY <2>2, RecordSummary DEF RecordFailed, ImportAt
  <2> QED BY <1>2, <2>1, <2>2, BeginSummary, FileSummary, WriteSummaryInv
<1> QED BY <1>1, <1>2, WriterSummary DEF RedisNext

\* A batch with figures counts the rows committed for it, one for every file, and
\* its status tells whether all, some or none were written; a batch that is said to
\* have succeeded, in whole or in part, has figures.
THEOREM SummaryTold == RedisSpec => []SummaryTrue
<1>1. SummaryInv => SummaryTrue BY DEF SummaryInv, Told, SummaryTrue
<1> QED BY <1>1, ImportInit, ImportStep, SummaryInit, SummaryStep, PTL DEF RedisSpec

LEMMA RedisTyped == ImportInv /\ SummaryInv => RedisTypeOK
<1> SUFFICES ASSUME ImportInv, SummaryInv PROVE RedisTypeOK OBVIOUS
<1>1. ASSUME NEW b \in Batches
      PROVE  /\ batch[b].status \in {"none", "running", "succeeded", "partial", "failed"}
             /\ batch[b].rows \in Seq({"written", "failed"})
             /\ Len(batch[b].rows) <= Len(import[b].files) \/ import[b].pc \in {"none", "ended"}
             /\ import[b].pc \in InLoop \cup {"none", "read", "close", "summary", "ended"}
  <2>1. batch[b] \in BatchRow /\ import[b] \in ImportRow /\ BatchOK(b) BY DEF ImportInv, ImportTypes, SummaryInv
  <2>2. import[b].pc \notin {"none", "ended"} => Len(import[b].files) \in Nat \ {0}
    BY <2>1, RedisAssumption DEF BatchOK
  <2>3. Len(import[b].results) \in Nat BY <2>1 DEF ImportRow
  <2>4. import[b].pc = "connect" => Len(import[b].results) = 0 BY <2>1 DEF BatchOK
  <2>5. import[b].pc \in {"none", "connect", "read", "set", "meta", "row", "failed", "close", "summary", "ended"}
    BY <2>1 DEF ImportRow, InLoop
  <2>6. Len(batch[b].rows) <= Len(import[b].files) \/ import[b].pc \in {"none", "ended"}
    BY <2>1, <2>2, <2>3, <2>4, <2>5 DEF BatchOK
  <2> QED BY <2>1, <2>6 DEF BatchRow, ImportRow, Results
<1>2. \A w \in Writers : writer[w].pc \in {"idle", "exists", "write", "delete"}
  BY DEF ImportInv, ImportTypes, WriterRow
<1> QED BY <1>1, <1>2 DEF RedisTypeOK, ImportInv, ImportTypes

\* Keys, batches, imports and requests keep their types, and a running import
\* has at most one row per file.
THEOREM RedisTypes == RedisSpec => []RedisTypeOK
BY RedisTyped, ImportInit, ImportStep, SummaryInit, SummaryStep, PTL DEF RedisSpec

-----------------------------------------------------------------------------
(***************************************************************************)
(* What is read of workloads, for any number of objects, names, templates  *)
(* and changes of the namespace.                                           *)
(***************************************************************************)

\* What is true of an object when it is created stays true of every copy of it a
\* request has taken, whatever has become of the object.
GoodWorkload(c) == c.uid \in Uids /\ born[c.uid].top = c.uid
GoodSet(s) == s.uid \in Uids /\ GoodWorkload(s.owner) /\ born[s.uid].top = s.owner.uid
GoodPod(p) ==
  /\ {"uid", "owner"} \subseteq DOMAIN p
  /\ p.uid \in Uids /\ p.owner.uid \in Uids /\ born[p.owner.uid].top = born[p.uid].top
GoodRow(shown) ==
  /\ shown.pod.uid \in Uids /\ shown.key[2] \in Uids
  /\ born[shown.key[2]].top = born[shown.pod.uid].top
  /\ shown.figures \subseteq {born[shown.pod.uid].top}

Objects ==
  /\ uids \in Nat /\ DOMAIN born = 1..MaxUids /\ uids <= MaxUids
  /\ born = [u \in 1..MaxUids |-> born[u]]

Present ==
  /\ \A c \in controllers : GoodWorkload(c)
  /\ \A s \in replicaSets : GoodSet(s)
  /\ \A p \in pods : GoodPod(p)

Copied ==
  /\ DOMAIN request = DOMAIN NoRequest
  /\ request = [f \in DOMAIN NoRequest |-> request[f]]
  /\ \A c \in request.listed : GoodWorkload(c)
  /\ \A s \in request.sets : GoodSet(s)
  /\ \A p \in request.pods : GoodPod(p)
  /\ \A shown \in request.rows : GoodRow(shown)

WorkloadInv == Objects /\ Present /\ Copied

-----------------------------------------------------------------------------
(* The steps.                                                              *)

\* Initially there is nothing.
LEMMA WorkloadInitInv == WorkloadInit => WorkloadInv
BY WorkloadAssumption DEF WorkloadInit, WorkloadInv, Objects, Present, Copied, NoRequest, NotBorn

\* The creation of an object leaves what is known of the others.
LEMMA Born ==
  ASSUME Objects, NEW kind, NEW name, NEW top, Bear(kind, name, top)
  PROVE  /\ Objects' /\ uids + 1 \in Uids' /\ Uids \subseteq Uids'
         /\ born'[uids + 1].top = top
         /\ born'[uids + 1] = [kind |-> kind, name |-> name, top |-> top] /\ uids + 1 \notin Uids
         /\ \A u \in Uids : born'[u] = born[u]
<1> USE WorkloadAssumption DEF Objects
<1>1. uids' = uids + 1 /\ uids + 1 \in 1..MaxUids BY DEF Bear
<1>2. born' = [born EXCEPT ![uids + 1] = [kind |-> kind, name |-> name, top |-> top]] BY DEF Bear
<1>3. DOMAIN born' = 1..MaxUids BY <1>2
<1>4. born' = [u \in 1..MaxUids |-> born'[u]] BY <1>2
<1>5. Objects' BY <1>1, <1>3, <1>4
<1>6. Uids \subseteq Uids' /\ uids + 1 \in Uids' BY <1>1 DEF Uids
<1>7. born'[uids + 1] = [kind |-> kind, name |-> name, top |-> top] BY <1>1, <1>2
<1>8. uids + 1 \notin Uids /\ \A u \in Uids : u # uids + 1 /\ born'[u] = born[u] BY <1>1, <1>2 DEF Uids
<1> QED BY <1>5, <1>6, <1>7, <1>8

\* Where no uid is given out again, what was good stays good.
LEMMA StaysGood ==
  ASSUME Uids \subseteq Uids', \A u \in Uids : born'[u] = born[u]
  PROVE  /\ \A c : GoodWorkload(c) => GoodWorkload(c)'
         /\ \A s : GoodSet(s) => GoodSet(s)'
         /\ \A p : GoodPod(p) => GoodPod(p)'
         /\ \A shown : GoodRow(shown) => GoodRow(shown)'
BY DEF GoodWorkload, GoodSet, GoodPod, GoodRow

\* Copies stay good while objects are born and the request does not move.
LEMMA CopiesStayGood ==
  ASSUME WorkloadInv, Uids \subseteq Uids', \A u \in Uids : born'[u] = born[u], UNCHANGED request
  PROVE  Copied'
BY StaysGood DEF WorkloadInv, Copied

\* Objects that vanish, pods that change: nothing is born.
LEMMA QuietInv ==
  ASSUME WorkloadInv, UNCHANGED <<uids, born, request>>,
         \A c \in controllers' : GoodWorkload(c),
         \A s \in replicaSets' : GoodSet(s),
         \A p \in pods' : GoodPod(p)
  PROVE  WorkloadInv'
<1>1. Uids \subseteq Uids' /\ \A u \in Uids : born'[u] = born[u] BY DEF Uids
<1>2. Objects' BY DEF WorkloadInv, Objects
<1>3. Present' BY <1>1, StaysGood DEF Present
<1>4. Copied' BY <1>1, CopiesStayGood
<1> QED BY <1>2, <1>3, <1>4 DEF WorkloadInv

\* An object is born on top of which is a workload that was there or itself.
LEMMA BirthInv ==
  ASSUME WorkloadInv, NEW kind, NEW name, NEW top, Bear(kind, name, top), UNCHANGED request,
         \A c \in controllers' \ controllers : c.uid = uids + 1 /\ top = uids + 1,
         \A s \in replicaSets' \ replicaSets : s.uid = uids + 1 /\ GoodWorkload(s.owner) /\ top = s.owner.uid,
         \A p \in pods' \ pods : {"uid", "owner"} \subseteq DOMAIN p,
         \A p \in pods' \ pods :
            p.uid = uids + 1 /\ (p.owner.uid = uids + 1 \/ (p.owner.uid \in Uids /\ top = born[p.owner.uid].top))
  PROVE  WorkloadInv'
<1>1. /\ Objects' /\ uids + 1 \in Uids' /\ Uids \subseteq Uids'
      /\ born'[uids + 1].top = top
      /\ \A u \in Uids : born'[u] = born[u]
  BY Born DEF WorkloadInv
<1>2. \A c \in controllers' : GoodWorkload(c)'
  BY <1>1, StaysGood DEF WorkloadInv, Present, GoodWorkload
<1>3. \A s \in replicaSets' : GoodSet(s)'
  <2> SUFFICES ASSUME NEW s \in replicaSets' PROVE GoodSet(s)' OBVIOUS
  <2>1. CASE s \in replicaSets BY <2>1, <1>1, StaysGood DEF WorkloadInv, Present
  <2>2. CASE s \notin replicaSets
    <3>1. s.uid = uids + 1 /\ GoodWorkload(s.owner) /\ top = s.owner.uid BY <2>2
    <3>2. GoodWorkload(s.owner)' BY <3>1, <1>1, StaysGood
    <3> QED BY <3>1, <3>2, <1>1 DEF GoodSet
  <2> QED BY <2>1, <2>2
<1>4. \A p \in pods' : GoodPod(p)'
  BY <1>1, StaysGood DEF WorkloadInv, Present, GoodPod
<1>5. Present' BY <1>2, <1>3, <1>4 DEF Present
<1>6. Copied' BY <1>1, CopiesStayGood
<1> QED BY <1>1, <1>5, <1>6 DEF WorkloadInv

\* Every change of the namespace.
LEMMA ClusterInv ==
  ASSUME WorkloadInv, ClusterNext
  PROVE  WorkloadInv'
<1> USE DEF WorkloadInv, Present
<1>1. ASSUME NEW kind \in Kinds, NEW name \in Workloads, CreateWorkload(kind, name)
      PROVE  WorkloadInv'
  <2>1. Bear(kind, name, uids + 1) /\ UNCHANGED <<replicaSets, pods, request>> BY <1>1 DEF CreateWorkload
  <2>2. \A c \in controllers' \ controllers : c.uid = uids + 1 BY <1>1 DEF CreateWorkload, Ref
  <2> QED BY <2>1, <2>2, BirthInv
<1>2. ASSUME NEW c \in controllers, DeleteWorkload(c)
      PROVE  WorkloadInv'
  BY <1>2, QuietInv DEF DeleteWorkload
<1>3. ASSUME NEW owner, owner.uid \in Uids, NewPod(owner)
      PROVE  WorkloadInv'
  <2>1. /\ Bear("Pod", PodName(owner, uids + 1), born[owner.uid].top)
        /\ UNCHANGED <<controllers, replicaSets, request>>
    BY <1>3 DEF NewPod
  <2>2. \A p \in pods' \ pods : {"uid", "owner"} \subseteq DOMAIN p /\ p.uid = uids + 1 /\ p.owner = owner
    BY <1>3 DEF NewPod
  <2> QED BY <1>3, <2>1, <2>2, BirthInv
<1>4. ASSUME NEW c \in controllers, PodOfController(c)
      PROVE  WorkloadInv'
  BY <1>3, <1>4 DEF PodOfController, GoodWorkload
<1>5. ASSUME NEW s \in replicaSets, PodOfSet(s)
      PROVE  WorkloadInv'
  <2>1. Ref("ReplicaSet", s.name, s.uid).uid \in Uids BY DEF Ref, GoodSet
  <2> QED BY <1>3, <1>5, <2>1 DEF PodOfSet
<1>6. ASSUME LonePod
      PROVE  WorkloadInv'
  <2>1. PICK name : Bear("Pod", name, uids + 1) BY <1>6 DEF LonePod
  <2>2. \A p \in pods' \ pods : {"uid", "owner"} \subseteq DOMAIN p /\ p.uid = uids + 1 /\ p.owner.uid = uids + 1
    BY <1>6 DEF LonePod, Ref
  <2>3. UNCHANGED <<controllers, replicaSets, request>> BY <1>6 DEF LonePod
  <2> QED BY <2>1, <2>2, <2>3, BirthInv
<1>7. ASSUME NEW c \in controllers, NEW t \in Templates, NewReplicaSet(c, t)
      PROVE  WorkloadInv'
  <2>1. Bear("ReplicaSet", <<c.name, t>>, c.uid) /\ UNCHANGED <<controllers, pods, request>>
    BY <1>7 DEF NewReplicaSet
  <2>2. \A s \in replicaSets' \ replicaSets : s.uid = uids + 1 /\ s.owner = c BY <1>7 DEF NewReplicaSet
  <2> QED BY <2>1, <2>2, BirthInv
<1>8. ASSUME NEW s \in replicaSets, DropReplicaSet(s)
      PROVE  WorkloadInv'
  BY <1>8, QuietInv DEF DropReplicaSet
<1>9. ASSUME NEW p \in pods, Report(p) \/ BecomeReady(p) \/ DeletePod(p) \/ RemovePod(p)
      PROVE  WorkloadInv'
  <2>1. UNCHANGED <<controllers, replicaSets, uids, born, request>>
    BY <1>9 DEF Report, BecomeReady, DeletePod, RemovePod, PodChange
  <2>2. GoodPod(p) OBVIOUS
  <2>3. /\ \A c : GoodPod([p EXCEPT !.container = c, !.ready = FALSE])
        /\ GoodPod([p EXCEPT !.ready = TRUE]) /\ GoodPod([p EXCEPT !.leaving = TRUE])
    BY <2>2 DEF GoodPod
  <2>4. \A r \in pods' : GoodPod(r)
    <3>1. CASE Report(p)
      <4>1. PICK c : pods' = (pods \ {p}) \cup {[p EXCEPT !.container = c, !.ready = FALSE]}
        BY <3>1 DEF Report, PodChange
      <4> QED BY <2>3, <4>1
    <3>2. CASE BecomeReady(p) BY <2>3, <3>2 DEF BecomeReady, PodChange
    <3>3. CASE DeletePod(p) BY <2>3, <3>3 DEF DeletePod, PodChange
    <3>4. CASE RemovePod(p) BY <3>4 DEF RemovePod, PodChange
    <3> QED BY <1>9, <3>1, <3>2, <3>3, <3>4
  <2> QED BY <2>1, <2>4, QuietInv
<1> QED BY <1>1, <1>2, <1>4, <1>5, <1>6, <1>7, <1>8, <1>9 DEF ClusterNext

-----------------------------------------------------------------------------

\* A row put together from good copies is good.
LEMMA RowsGood ==
  ASSUME NEW p, GoodPod(p), NEW listed, \A c \in listed : GoodWorkload(c),
         \A s \in request.sets : GoodSet(s)
  PROVE  GoodRow(ImageRow(p, listed))
<1> DEFINE up == Controller(p)
<1>1. up.uid \in Uids /\ born[up.uid].top = born[p.uid].top
  <2>1. CASE SetOf(p.owner) = {} \/ p.owner.kind # "ReplicaSet" BY <2>1 DEF Controller, GoodPod
  <2>2. CASE SetOf(p.owner) # {} /\ p.owner.kind = "ReplicaSet"
    <3>1. up = (CHOOSE s \in SetOf(p.owner) : TRUE).owner BY <2>2 DEF Controller
    <3>2. PICK s \in SetOf(p.owner) : up = s.owner BY <2>2, <3>1
    <3>3. GoodSet(s) /\ s.uid = p.owner.uid BY <3>2 DEF SetOf
    <3> QED BY <3>2, <3>3 DEF GoodSet, GoodWorkload, GoodPod
  <2> QED BY <2>1, <2>2
<1>2. FiguresOf(up, listed) \subseteq {born[p.uid].top} BY <1>1 DEF FiguresOf, GoodWorkload
<1>3. /\ ImageRow(p, listed).pod = p /\ ImageRow(p, listed).key[2] = up.uid
      /\ ImageRow(p, listed).figures = FiguresOf(up, listed)
  BY DEF ImageRow
<1> QED BY <1>1, <1>2, <1>3 DEF GoodRow, GoodPod

\* A step of the request copies good objects only.
LEMMA ServeInv ==
  ASSUME WorkloadInv, UNCHANGED clusterVars,
         DOMAIN request' = DOMAIN NoRequest,
         request' = [f \in DOMAIN NoRequest |-> request'[f]],
         request'.listed \subseteq request.listed \cup controllers,
         request'.sets \subseteq request.sets \cup replicaSets,
         request'.pods \subseteq request.pods \cup pods,
         \A shown \in request'.rows : GoodRow(shown)
  PROVE  WorkloadInv'
<1>1. UNCHANGED <<controllers, replicaSets, pods, uids, born>> BY DEF clusterVars
<1>2. Uids' = Uids BY <1>1 DEF Uids
<1>3. Objects' BY <1>1 DEF WorkloadInv, Objects
<1>4. Present' BY <1>1, <1>2 DEF WorkloadInv, Present, GoodWorkload, GoodSet, GoodPod
<1>5. Copied' BY <1>1, <1>2 DEF WorkloadInv, Copied, Present, GoodWorkload, GoodSet, GoodPod, GoodRow
<1> QED BY <1>3, <1>4, <1>5 DEF WorkloadInv

\* Every step of a request.
LEMMA RequestInv ==
  ASSUME WorkloadInv, RequestNext
  PROVE  WorkloadInv'
<1> USE DEF WorkloadInv, Copied, Serve
<1>1. CASE StartImages BY <1>1, ServeInv DEF StartImages, NoRequest
<1>2. CASE ListPods BY <1>2, ServeInv DEF ListPods, NoRequest
<1>3. CASE ListReplicaSets BY <1>3, ServeInv DEF ListReplicaSets, NoRequest
<1>4. CASE ListDeployments BY <1>4, ServeInv DEF ListDeployments, ListControllers, Listed, NoRequest
<1>5. CASE ListStatefulSets BY <1>5, ServeInv DEF ListStatefulSets, ListControllers, Listed, NoRequest
<1>6. CASE ListDaemonSets
  <2>1. \A c \in Listed("DaemonSet") : GoodWorkload(c) BY DEF Listed, Present
  <2>2. \A p \in request.pods : GoodRow(ImageRow(p, Listed("DaemonSet"))) BY <2>1, RowsGood
  <2>3. /\ UNCHANGED clusterVars
        /\ request' = [NoRequest EXCEPT !.pc = "listed",
                          !.rows = {ImageRow(p, Listed("DaemonSet")) : p \in request.pods}]
    BY <1>6 DEF ListDaemonSets
  <2>4. \A shown \in request'.rows : GoodRow(shown) BY <2>2, <2>3 DEF NoRequest
  <2> QED BY <2>3, <2>4, ServeInv DEF NoRequest
<1>7. ASSUME NEW kind \in Kinds, NEW name \in Workloads, StartEnv(kind, name)
      PROVE  WorkloadInv'
  BY <1>7, ServeInv DEF StartEnv, NoRequest
<1>8. ASSUME NEW c \in controllers, ReadWorkload(c)
      PROVE  WorkloadInv'
  BY <1>8, ServeInv DEF ReadWorkload, NoRequest
<1>9. CASE ListEnvPods BY <1>9, ServeInv DEF ListEnvPods, NoRequest
<1>10. CASE ListEnvSets BY <1>10, ServeInv DEF ListEnvSets, NoRequest
<1>11. ASSUME NEW p \in request.pods, ChoosePod(p)
       PROVE  WorkloadInv'
  BY <1>11, ServeInv DEF ChoosePod, NoRequest
<1>12. ASSUME NEW p \in pods, Exec(p)
       PROVE  WorkloadInv'
  BY <1>12, ServeInv DEF Exec, NoRequest
<1>13. CASE EndRequest BY <1>13, ServeInv DEF EndRequest, NoRequest
<1> QED BY <1>1, <1>2, <1>3, <1>4, <1>5, <1>6, <1>7, <1>8, <1>9, <1>10, <1>11, <1>12, <1>13 DEF RequestNext

LEMMA WorkloadStepInv == WorkloadInv /\ [WorkloadNext]_workloadVars => WorkloadInv'
<1> SUFFICES ASSUME WorkloadInv, [WorkloadNext]_workloadVars PROVE WorkloadInv' OBVIOUS
<1>1. CASE ClusterNext BY <1>1, ClusterInv
<1>2. CASE RequestNext BY <1>2, RequestInv
<1>3. CASE UNCHANGED workloadVars
  <2>1. UNCHANGED <<controllers, replicaSets, pods, uids, born, request>>
    BY <1>3 DEF workloadVars, clusterVars
  <2> QED BY <2>1, QuietInv DEF WorkloadInv, Present
<1> QED BY <1>1, <1>2, <1>3 DEF WorkloadNext

-----------------------------------------------------------------------------
(* Rows.                                                                   *)

\* Whatever is deleted, created again and replaced between the five lists, a row
\* is grouped with what its pod belongs to and shows no other workload's figures.
THEOREM RowsTrueHolds == WorkloadSpec => []RowsTrue
<1>1. WorkloadInv => RowsTrue
  BY DEF WorkloadInv, Copied, RowsTrue, GoodRow
<1> QED BY <1>1, WorkloadInitInv, WorkloadStepInv, PTL DEF WorkloadSpec
-----------------------------------------------------------------------------
(* Types.                                                                  *)

\* A pod keeps its fields through every report on it.
Typed == WorkloadTypeOK /\ \A p \in pods : "container" \in DOMAIN p

LEMMA TypedInit == WorkloadInit => Typed
BY WorkloadAssumption DEF WorkloadInit, Typed, WorkloadTypeOK, NoRequest, Labels, Uids

\* Uids are only added, so copies keep their types.
LEMMA TypedGrows ==
  ASSUME Typed, Uids \subseteq Uids',
         uids' \in 0..MaxUids, changes' \in 0..MaxEvents,
         \A c \in controllers' \ controllers : c \in Refs',
         \A s \in replicaSets' \ replicaSets : s.uid \in Uids' /\ s.owner \in Refs',
         \A p \in pods' \ pods : /\ p.uid \in Uids' /\ p.owner.uid \in Uids'
                                 /\ p.container \in Containers /\ "container" \in DOMAIN p,
         request'.pc \in Labels,
         \A shown \in request'.rows : shown \in request.rows \/ (shown.resolved \in BOOLEAN /\ shown.health \in Healths)
  PROVE  Typed'
<1>1. Refs \subseteq Refs' BY DEF Refs
<1>2. controllers' \subseteq Refs' BY <1>1 DEF Typed, WorkloadTypeOK
<1>3. \A s \in replicaSets' : s.uid \in Uids' /\ s.owner \in Refs' BY <1>1 DEF Typed, WorkloadTypeOK
<1>4. \A p \in pods' : /\ p.uid \in Uids' /\ p.owner.uid \in Uids' /\ p.container \in Containers
                       /\ "container" \in DOMAIN p
  BY DEF Typed, WorkloadTypeOK
<1>5. \A shown \in request'.rows : shown.resolved \in BOOLEAN /\ shown.health \in Healths
  BY DEF Typed, WorkloadTypeOK
<1> QED BY <1>2, <1>3, <1>4, <1>5 DEF Typed, WorkloadTypeOK

\* The creation of an object.
LEMMA TypedBirth ==
  ASSUME WorkloadInv, Typed, NEW kind, NEW name, NEW top, Bear(kind, name, top), UNCHANGED <<request, changes>>,
         \A c \in controllers' \ controllers : \E k \in Kinds, n \in Workloads : c = Ref(k, n, uids + 1),
         \A s \in replicaSets' \ replicaSets : s.uid = uids + 1 /\ s.owner \in controllers,
         \A p \in pods' \ pods : /\ p.uid = uids + 1 /\ p.owner.uid \in Uids \cup {uids + 1}
                                 /\ p.container = "Creating" /\ "container" \in DOMAIN p
  PROVE  Typed'
<1>1. uids + 1 \in Uids' /\ Uids \subseteq Uids' BY Born DEF WorkloadInv
<1>2. uids' \in 0..MaxUids BY WorkloadAssumption DEF WorkloadInv, Objects, Bear
<1>3. Refs \subseteq Refs' BY <1>1 DEF Refs
<1>4. \A c \in controllers' \ controllers : c \in Refs'
  <2> SUFFICES ASSUME NEW c \in controllers' \ controllers PROVE c \in Refs' OBVIOUS
  <2>1. PICK k \in Kinds, n \in Workloads : c = Ref(k, n, uids + 1) OBVIOUS
  <2> QED BY <1>1, <2>1 DEF Ref, Refs
<1>5. \A s \in replicaSets' \ replicaSets : s.uid \in Uids' /\ s.owner \in Refs'
  BY <1>1, <1>3 DEF Typed, WorkloadTypeOK
<1>6. \A p \in pods' \ pods : /\ p.uid \in Uids' /\ p.owner.uid \in Uids'
                              /\ p.container \in Containers /\ "container" \in DOMAIN p
  BY <1>1 DEF Containers
<1>7. changes' \in 0..MaxEvents /\ request'.pc \in Labels /\ request'.rows = request.rows
  BY DEF Typed, WorkloadTypeOK
<1> QED BY <1>1, <1>2, <1>4, <1>5, <1>6, <1>7, TypedGrows

\* A pod changes or goes, where events are left.
LEMMA TypedChange ==
  ASSUME WorkloadInv, Typed, NEW p \in pods, NEW q, PodChange(p, q),
         \A r \in q : /\ r.uid = p.uid /\ r.owner = p.owner /\ r.container \in Containers
                      /\ "container" \in DOMAIN r
  PROVE  Typed'
<1>1. UNCHANGED <<controllers, replicaSets, uids, request>> BY DEF PodChange
<1>2. changes' \in 0..MaxEvents BY WorkloadAssumption DEF PodChange, WorkloadInv, Objects, Typed, WorkloadTypeOK
<1>3. Uids' = Uids BY <1>1 DEF Uids
<1>4. \A r \in pods' \ pods : /\ r.uid \in Uids' /\ r.owner.uid \in Uids'
                              /\ r.container \in Containers /\ "container" \in DOMAIN r
  BY <1>3 DEF PodChange, Typed, WorkloadTypeOK
<1>5. uids' \in 0..MaxUids /\ request'.pc \in Labels BY <1>1 DEF Typed, WorkloadTypeOK
<1> QED BY <1>1, <1>2, <1>3, <1>4, <1>5, TypedGrows

LEMMA TypedCluster == ASSUME WorkloadInv, Typed, ClusterNext PROVE Typed'
<1> USE DEF WorkloadInv, Present
<1>1. ASSUME NEW kind \in Kinds, NEW name \in Workloads, CreateWorkload(kind, name) PROVE Typed'
  BY <1>1, TypedBirth DEF CreateWorkload
<1>2. ASSUME NEW c \in controllers, DeleteWorkload(c) PROVE Typed'
  BY <1>2 DEF DeleteWorkload, Typed, WorkloadTypeOK, Refs, Uids
<1>3. ASSUME NEW owner, owner.uid \in Uids, NewPod(owner) PROVE Typed'
  <2>1. /\ Bear("Pod", PodName(owner, uids + 1), born[owner.uid].top)
        /\ UNCHANGED <<controllers, replicaSets, request, changes>>
    BY <1>3 DEF NewPod
  <2>2. \A p \in pods' \ pods : /\ p.uid = uids + 1 /\ p.owner.uid \in Uids \cup {uids + 1}
                                /\ p.container = "Creating" /\ "container" \in DOMAIN p
    BY <1>3 DEF NewPod
  <2> QED BY <2>1, <2>2, TypedBirth
<1>4. ASSUME NEW c \in controllers, PodOfController(c) PROVE Typed'
  BY <1>3, <1>4 DEF PodOfController, GoodWorkload
<1>5. ASSUME NEW s \in replicaSets, PodOfSet(s) PROVE Typed'
  <2>1. Ref("ReplicaSet", s.name, s.uid).uid \in Uids BY DEF Ref, GoodSet
  <2> QED BY <1>3, <1>5, <2>1 DEF PodOfSet
<1>6. CASE LonePod
  <2>1. PICK name : Bear("Pod", name, uids + 1) BY <1>6 DEF LonePod
  <2>2. \A p \in pods' \ pods : /\ p.uid = uids + 1 /\ p.owner.uid = uids + 1
                                /\ p.container = "Creating" /\ "container" \in DOMAIN p
    BY <1>6 DEF LonePod, Ref
  <2>3. UNCHANGED <<controllers, replicaSets, request, changes>> BY <1>6 DEF LonePod
  <2> QED BY <2>1, <2>2, <2>3, TypedBirth
<1>7. ASSUME NEW c \in controllers, NEW t \in Templates, NewReplicaSet(c, t) PROVE Typed'
  <2>1. Bear("ReplicaSet", <<c.name, t>>, c.uid) /\ UNCHANGED <<controllers, pods, request, changes>>
    BY <1>7 DEF NewReplicaSet
  <2>2. \A s \in replicaSets' \ replicaSets : s.uid = uids + 1 /\ s.owner = c BY <1>7 DEF NewReplicaSet
  <2> QED BY <2>1, <2>2, TypedBirth
<1>8. ASSUME NEW s \in replicaSets, DropReplicaSet(s) PROVE Typed'
  BY <1>8 DEF DropReplicaSet, Typed, WorkloadTypeOK, Refs, Uids
<1>9. ASSUME NEW p \in pods, Report(p) \/ BecomeReady(p) \/ DeletePod(p) \/ RemovePod(p) PROVE Typed'
  <2>1. /\ {"uid", "owner"} \subseteq DOMAIN p /\ "container" \in DOMAIN p /\ p.container \in Containers
    BY DEF GoodPod, Typed, WorkloadTypeOK
  <2>2. CASE Report(p)
    <3>1. PICK c \in Later(p) : PodChange(p, {[p EXCEPT !.container = c, !.ready = FALSE]}) BY <2>2 DEF Report
    <3>2. c \in Containers BY <2>1 DEF Later, Containers
    <3>3. /\ [p EXCEPT !.container = c, !.ready = FALSE].uid = p.uid
          /\ [p EXCEPT !.container = c, !.ready = FALSE].owner = p.owner
          /\ [p EXCEPT !.container = c, !.ready = FALSE].container = c
          /\ "container" \in DOMAIN [p EXCEPT !.container = c, !.ready = FALSE]
      BY <2>1
    <3> DEFINE r == [p EXCEPT !.container = c, !.ready = FALSE]
    <3>4. /\ r.uid = p.uid /\ r.owner = p.owner /\ r.container \in Containers
          /\ "container" \in DOMAIN r
      BY <3>2, <3>3
    <3>5. PodChange(p, {r}) BY <3>1
    <3> HIDE DEF r
    <3> QED BY <3>4, <3>5, TypedChange
  <2>3. CASE BecomeReady(p) BY <2>1, <2>3, TypedChange DEF BecomeReady
  <2>4. CASE DeletePod(p) BY <2>1, <2>4, TypedChange DEF DeletePod
  <2>5. CASE RemovePod(p) BY <2>1, <2>5, TypedChange DEF RemovePod
  <2> QED BY <1>9, <2>2, <2>3, <2>4, <2>5
<1> QED BY <1>1, <1>2, <1>4, <1>5, <1>6, <1>7, <1>8, <1>9 DEF ClusterNext

\* A step of the request leaves the namespace alone.
LEMMA TypedServe ==
  ASSUME Typed, UNCHANGED clusterVars, request'.pc \in Labels,
         \A shown \in request'.rows : shown \in request.rows \/ (shown.resolved \in BOOLEAN /\ shown.health \in Healths)
  PROVE  Typed'
<1>1. UNCHANGED <<controllers, replicaSets, pods, uids, changes>> BY DEF clusterVars
<1>2. Uids' = Uids BY <1>1 DEF Uids
<1>3. uids' \in 0..MaxUids /\ changes' \in 0..MaxEvents BY <1>1 DEF Typed, WorkloadTypeOK
<1> QED BY <1>1, <1>2, <1>3, TypedGrows

LEMMA TypedRequest == ASSUME WorkloadInv, Typed, RequestNext PROVE Typed'
<1> USE DEF WorkloadInv, Copied, Serve
<1>1. CASE StartImages BY <1>1, TypedServe DEF StartImages, NoRequest, Labels
<1>2. CASE ListPods BY <1>2, TypedServe DEF ListPods, NoRequest, Labels
<1>3. CASE ListReplicaSets BY <1>3, TypedServe DEF ListReplicaSets, NoRequest, Labels
<1>4. CASE ListDeployments BY <1>4, TypedServe DEF ListDeployments, ListControllers, NoRequest, Labels
<1>5. CASE ListStatefulSets BY <1>5, TypedServe DEF ListStatefulSets, ListControllers, NoRequest, Labels
<1>6. CASE ListDaemonSets
  <2>1. /\ UNCHANGED clusterVars
        /\ request' = [NoRequest EXCEPT !.pc = "listed",
                          !.rows = {ImageRow(p, Listed("DaemonSet")) : p \in request.pods}]
    BY <1>6 DEF ListDaemonSets
  <2>2. \A p, listed : ImageRow(p, listed).resolved \in BOOLEAN /\ ImageRow(p, listed).health \in Healths
    BY DEF ImageRow, Health, Healths
  <2>3. \A shown \in request'.rows : shown.resolved \in BOOLEAN /\ shown.health \in Healths
    BY <2>1, <2>2 DEF NoRequest
  <2>4. request'.pc \in Labels BY <2>1 DEF NoRequest, Labels
  <2> QED BY <2>1, <2>3, <2>4, TypedServe
<1>7. ASSUME NEW kind \in Kinds, NEW name \in Workloads, StartEnv(kind, name) PROVE Typed'
  BY <1>7, TypedServe DEF StartEnv, NoRequest, Labels
<1>8. ASSUME NEW c \in controllers, ReadWorkload(c) PROVE Typed'
  BY <1>8, TypedServe DEF ReadWorkload, NoRequest, Labels
<1>9. CASE ListEnvPods BY <1>9, TypedServe DEF ListEnvPods, NoRequest, Labels
<1>10. CASE ListEnvSets BY <1>10, TypedServe DEF ListEnvSets, NoRequest, Labels
<1>11. ASSUME NEW p \in request.pods, ChoosePod(p) PROVE Typed'
  BY <1>11, TypedServe DEF ChoosePod, NoRequest, Labels
<1>12. ASSUME NEW p \in pods, Exec(p) PROVE Typed'
  BY <1>12, TypedServe DEF Exec, NoRequest, Labels
<1>13. CASE EndRequest BY <1>13, TypedServe DEF EndRequest, NoRequest, Labels
<1> QED BY <1>1, <1>2, <1>3, <1>4, <1>5, <1>6, <1>7, <1>8, <1>9, <1>10, <1>11, <1>12, <1>13 DEF RequestNext

LEMMA TypedStep == WorkloadInv /\ Typed /\ [WorkloadNext]_workloadVars => Typed'
<1> SUFFICES ASSUME WorkloadInv, Typed, [WorkloadNext]_workloadVars PROVE Typed' OBVIOUS
<1>1. CASE ClusterNext BY <1>1, TypedCluster
<1>2. CASE RequestNext BY <1>2, TypedRequest
<1>3. CASE UNCHANGED workloadVars
  <2>1. UNCHANGED <<clusterVars, request>> BY <1>3 DEF workloadVars
  <2> QED BY <2>1, TypedServe DEF Typed, WorkloadTypeOK
<1> QED BY <1>1, <1>2, <1>3 DEF WorkloadNext

\* Objects have uids that were given out, counters keep to their bounds, and every
\* row of the answer has a health.
THEOREM WorkloadTypes == WorkloadSpec => []WorkloadTypeOK
<1>1. WorkloadInv /\ Typed => WorkloadTypeOK BY DEF Typed
<1> QED BY <1>1, WorkloadInitInv, WorkloadStepInv, TypedInit, TypedStep, PTL DEF WorkloadSpec

-----------------------------------------------------------------------------
(* Names: what an environment variable is read from, and what stays found. *)

\* Kind, name and uid of an object are those it was born with, and the name of
\* what depends on it follows from its own.
KnownWorkload(c) ==
  c.uid \in Uids /\ c.kind \in Kinds /\ born[c.uid] = [kind |-> c.kind, name |-> c.name, top |-> c.uid]

KnownSet(s) ==
  /\ s.uid \in Uids /\ KnownWorkload(s.owner) /\ s.owner.kind = "Deployment"
  /\ \E t : s.name = <<s.owner.name, t>>
  /\ born[s.uid].name = s.name /\ born[s.uid].top = s.owner.uid

OfController(p) ==
  /\ p.owner.kind \in {"StatefulSet", "DaemonSet"}
  /\ KnownWorkload(p.owner) /\ born[p.uid].top = p.owner.uid

OfSet(p) ==
  /\ p.owner.kind = "ReplicaSet" /\ p.owner.uid \in Uids /\ born[p.owner.uid].name = p.owner.name
  /\ \E w : /\ KnownWorkload(w) /\ w.kind = "Deployment" /\ w.uid = born[p.uid].top
            /\ \E t : p.owner.name = <<w.name, t>>

KnownPod(p) ==
  /\ {"name", "uid", "owner"} \subseteq DOMAIN p
  /\ p.uid \in Uids /\ born[p.uid].kind = "Pod" /\ p.name = PodName(p.owner, p.uid)
  /\ OfController(p) \/ OfSet(p) \/ (p.owner.kind = "Pod" /\ born[p.uid].top = p.uid)

\* What is there, and what a request has copied of it.
Known ==
  /\ \A c \in controllers : KnownWorkload(c)
  /\ \A s \in replicaSets : KnownSet(s)
  /\ \A p \in pods : KnownPod(p)
KnownCopies ==
  /\ \A s \in request.sets : KnownSet(s)
  /\ \A p \in request.pods \cup request.chosen : KnownPod(p)

\* The pod that a command runs in is one of the workload that was asked for.
Asked(p) ==
  LET own == born[born[p.uid].top] IN
  /\ own.kind = request.kind /\ own.name = request.name
  /\ request.kind = "StatefulSet" => p.owner.kind = "StatefulSet" /\ p.owner.name = request.name
  /\ request.kind = "Deployment" => p.owner.kind = "ReplicaSet"

EnvOK ==
  /\ request.pc \in {"read", "envpods", "envsets", "choose", "exec"} =>
       request.kind \in {"Deployment", "StatefulSet"} /\ request.ran = 0
  /\ request.pc = "choose" /\ request.kind = "Deployment" => \A s \in request.sets : OwnedBy(s.owner)
  /\ request.pc = "exec" => \A p \in request.chosen : Asked(p)
  /\ request.pc = "idle" => request.ran = 0
  /\ request.ran # 0 =>
       /\ request.ran \in Uids /\ born[request.ran].top \in Uids
       /\ born[born[request.ran].top].kind = request.kind /\ born[born[request.ran].top].name = request.name

\* What a listed pod hangs on has been listed as well, if it is still there:
\* the lists follow each other downwards and no uid is given out twice.
StillListed ==
  \A p \in request.pods :
    /\ request.pc \in {"Deployment", "StatefulSet", "DaemonSet"} =>
         \A s \in replicaSets : p.owner.kind = "ReplicaSet" /\ s.uid = p.owner.uid => s \in request.sets
    /\ \A c \in controllers : c.uid = born[p.uid].top =>
         /\ request.pc \in {"StatefulSet", "DaemonSet"} /\ c.kind = "Deployment" => c \in request.listed
         /\ request.pc = "DaemonSet" /\ c.kind = "StatefulSet" => c \in request.listed

NamesInv == WorkloadInv /\ Known /\ KnownCopies /\ EnvOK /\ StillListed

LEMMA NamesInit == WorkloadInit => NamesInv
<1> SUFFICES ASSUME WorkloadInit PROVE NamesInv OBVIOUS
<1>1. /\ controllers = {} /\ replicaSets = {} /\ pods = {} /\ request.sets = {} /\ request.pods = {}
      /\ request.chosen = {} /\ request.pc = "idle" /\ request.ran = 0
  BY DEF WorkloadInit, NoRequest
<1> QED BY <1>1, WorkloadInitInv DEF NamesInv, Known, KnownCopies, EnvOK, StillListed

\* Where no uid is given out again, what was known stays known.
LEMMA StaysKnown ==
  ASSUME Uids \subseteq Uids', \A u \in Uids : born'[u] = born[u]
  PROVE  /\ \A c : KnownWorkload(c) => KnownWorkload(c)'
         /\ \A s : KnownSet(s) => KnownSet(s)'
         /\ \A p : OfController(p) /\ p.uid \in Uids => OfController(p)'
         /\ \A p : OfSet(p) /\ p.uid \in Uids => OfSet(p)'
         /\ \A p : KnownPod(p) => KnownPod(p)'
<1>1. \A c : KnownWorkload(c) => KnownWorkload(c)' BY DEF KnownWorkload
<1>2. \A s : KnownSet(s) => KnownSet(s)' BY <1>1 DEF KnownSet
<1>3. \A p : OfController(p) /\ p.uid \in Uids => OfController(p)' BY <1>1 DEF OfController
<1>4. \A p : OfSet(p) /\ p.uid \in Uids => OfSet(p)' BY <1>1 DEF OfSet
<1>5. \A p : KnownPod(p) => KnownPod(p)' BY <1>3, <1>4 DEF KnownPod, PodName
<1> QED BY <1>1, <1>2, <1>3, <1>4, <1>5

\* The top of a pod and what it hangs on were there before it.
LEMMA TopsKnown ==
  ASSUME NEW p, KnownPod(p)
  PROVE  /\ p.uid \in Uids /\ born[p.uid].top \in Uids
         /\ p.owner.kind = "ReplicaSet" => p.owner.uid \in Uids
BY DEF KnownPod, OfController, OfSet, KnownWorkload

\* Changes of the namespace, once what is new in it is known.
LEMMA NamespaceMoves ==
  ASSUME NamesInv, WorkloadInv', UNCHANGED request, Uids \subseteq Uids', \A u \in Uids : born'[u] = born[u],
         \A c \in controllers' \ controllers : KnownWorkload(c)' /\ c.uid \notin Uids,
         \A s \in replicaSets' \ replicaSets : KnownSet(s)' /\ s.uid \notin Uids,
         \A p \in pods' \ pods : KnownPod(p)'
  PROVE  NamesInv'
<1>1. Known' BY StaysKnown DEF NamesInv, Known
<1>2. KnownCopies' BY StaysKnown DEF NamesInv, KnownCopies
<1>3. \A p \in request.pods \cup request.chosen :
        /\ p.uid \in Uids /\ born[p.uid].top \in Uids
        /\ p.owner.kind = "ReplicaSet" => p.owner.uid \in Uids
  BY TopsKnown DEF NamesInv, KnownCopies
<1>4. EnvOK'
  <2>1. \A p \in request.chosen : Asked(p) => Asked(p)' BY <1>3 DEF Asked
  <2> QED BY <2>1 DEF NamesInv, EnvOK, OwnedBy
<1>5. StillListed' BY <1>3 DEF NamesInv, StillListed
<1> QED BY <1>1, <1>2, <1>4, <1>5 DEF NamesInv

\* The objects that are born.
LEMMA BirthsKnown ==
  ASSUME NamesInv, ClusterNext,
         \/ \E kind \in Kinds, name \in Workloads : CreateWorkload(kind, name)
         \/ \E c \in controllers, t \in Templates : NewReplicaSet(c, t)
         \/ LonePod
  PROVE  NamesInv'
<1>1. WorkloadInv' /\ Objects BY ClusterInv DEF NamesInv, WorkloadInv
<1>2. ASSUME NEW kind \in Kinds, NEW name \in Workloads, CreateWorkload(kind, name)
      PROVE  NamesInv'
  <2> PICK c : c = Ref(kind, name, uids + 1) OBVIOUS
  <2>1. Bear(kind, name, uids + 1) BY <1>2 DEF CreateWorkload
  <2>2. /\ uids + 1 \in Uids' /\ Uids \subseteq Uids' /\ uids + 1 \notin Uids
        /\ born'[uids + 1] = [kind |-> kind, name |-> name, top |-> uids + 1]
        /\ \A u \in Uids : born'[u] = born[u]
    BY <1>1, <2>1, Born
  <2>3. KnownWorkload(c)' /\ c.uid \notin Uids BY <2>2 DEF KnownWorkload, Ref
  <2>4. /\ controllers' = controllers \cup {c} /\ replicaSets' = replicaSets /\ pods' = pods
        /\ request' = request
    BY <1>2 DEF CreateWorkload
  <2> QED BY <1>1, <2>2, <2>3, <2>4, NamespaceMoves
<1>3. ASSUME NEW c \in controllers, NEW t \in Templates, NewReplicaSet(c, t)
      PROVE  NamesInv'
  <2> PICK s : s = [name |-> <<c.name, t>>, uid |-> uids + 1, owner |-> c] OBVIOUS
  <2>1. Bear("ReplicaSet", <<c.name, t>>, c.uid) /\ c.kind = "Deployment" BY <1>3 DEF NewReplicaSet
  <2>2. /\ uids + 1 \in Uids' /\ Uids \subseteq Uids' /\ uids + 1 \notin Uids
        /\ born'[uids + 1] = [kind |-> "ReplicaSet", name |-> <<c.name, t>>, top |-> c.uid]
        /\ \A u \in Uids : born'[u] = born[u]
    BY <1>1, <2>1, Born
  <2>3. KnownWorkload(c)' BY <2>2, StaysKnown DEF NamesInv, Known
  <2>4. KnownSet(s)' /\ s.uid \notin Uids BY <2>1, <2>2, <2>3 DEF KnownSet
  <2>5. /\ replicaSets' = replicaSets \cup {s} /\ controllers' = controllers /\ pods' = pods
        /\ request' = request
    BY <1>3 DEF NewReplicaSet
  <2> QED BY <1>1, <2>2, <2>4, <2>5, NamespaceMoves
<1>4. ASSUME LonePod
      PROVE  NamesInv'
  <2>1. Bear("Pod", <<"pod", uids + 1>>, uids + 1) BY <1>4 DEF LonePod
  <2>2. /\ uids + 1 \in Uids' /\ Uids \subseteq Uids'
        /\ born'[uids + 1] = [kind |-> "Pod", name |-> <<"pod", uids + 1>>, top |-> uids + 1]
        /\ \A u \in Uids : born'[u] = born[u]
    BY <1>1, <2>1, Born
  <2>3. ASSUME NEW p \in pods' \ pods PROVE KnownPod(p)'
    <3>1. /\ {"name", "uid", "owner"} \subseteq DOMAIN p /\ p.uid = uids + 1 /\ p.owner.kind = "Pod"
          /\ p.name = <<"pod", uids + 1>>
      BY <1>4, <2>3 DEF LonePod, Ref
    <3> QED BY <2>2, <3>1 DEF KnownPod, PodName
  <2>4. controllers' = controllers /\ replicaSets' = replicaSets /\ request' = request BY <1>4 DEF LonePod
  <2> QED BY <1>1, <2>2, <2>3, <2>4, NamespaceMoves
<1> QED BY <1>2, <1>3, <1>4

\* A pod of a ReplicaSet, a StatefulSet or a DaemonSet.
LEMMA PodsKnown ==
  ASSUME NamesInv, ClusterNext,
         (\E s \in replicaSets : PodOfSet(s)) \/ (\E c \in controllers : PodOfController(c))
  PROVE  NamesInv'
<1>1. WorkloadInv' /\ Objects BY ClusterInv DEF NamesInv, WorkloadInv
<1>2. ASSUME NEW owner, NewPod(owner), owner.uid \in Uids,
             \/ owner.kind \in {"StatefulSet", "DaemonSet"} /\ KnownWorkload(owner)
             \/ /\ owner.kind = "ReplicaSet" /\ born[owner.uid].name = owner.name
                /\ \E w : /\ KnownWorkload(w) /\ w.kind = "Deployment" /\ w.uid = born[owner.uid].top
                          /\ \E t : owner.name = <<w.name, t>>
      PROVE  NamesInv'
  <2> DEFINE name == PodName(owner, uids + 1)
  <2>1. Bear("Pod", name, born[owner.uid].top) BY <1>2 DEF NewPod
  <2>2. /\ uids + 1 \in Uids' /\ Uids \subseteq Uids'
        /\ born'[uids + 1] = [kind |-> "Pod", name |-> name, top |-> born[owner.uid].top]
        /\ \A u \in Uids : born'[u] = born[u]
    BY <1>1, <2>1, Born
  <2>3. ASSUME NEW p \in pods' \ pods PROVE KnownPod(p)'
    <3>1. {"name", "uid", "owner"} \subseteq DOMAIN p /\ p.uid = uids + 1 /\ p.owner = owner /\ p.name = name
      BY <1>2, <2>3 DEF NewPod
    <3>2. born'[p.uid].kind = "Pod" /\ born'[p.uid].top = born[owner.uid].top /\ born'[owner.uid] = born[owner.uid]
      BY <1>2, <2>2, <3>1
    <3>3. CASE owner.kind \in {"StatefulSet", "DaemonSet"} /\ KnownWorkload(owner)
      <4>1. KnownWorkload(owner)' BY <2>2, <3>3, StaysKnown
      <4>2. born[owner.uid].top = owner.uid BY <3>3 DEF KnownWorkload
      <4>3. OfController(p)' BY <3>1, <3>2, <3>3, <4>1, <4>2 DEF OfController
      <4> QED BY <2>2, <3>1, <3>2, <4>3 DEF KnownPod, PodName
    <3>4. CASE /\ owner.kind = "ReplicaSet" /\ born[owner.uid].name = owner.name
               /\ \E w : /\ KnownWorkload(w) /\ w.kind = "Deployment" /\ w.uid = born[owner.uid].top
                         /\ \E t : owner.name = <<w.name, t>>
      <4>1. PICK w : /\ KnownWorkload(w) /\ w.kind = "Deployment" /\ w.uid = born[owner.uid].top
                     /\ \E t : owner.name = <<w.name, t>>
        BY <3>4
      <4>2. KnownWorkload(w)' BY <2>2, <4>1, StaysKnown
      <4>3. owner.uid \in Uids' BY <1>2, <2>2
      <4>4. OfSet(p)' BY <3>1, <3>2, <3>4, <4>1, <4>2, <4>3 DEF OfSet
      <4> QED BY <2>2, <3>1, <3>2, <4>4 DEF KnownPod, PodName
    <3> QED BY <1>2, <3>3, <3>4
  <2>4. controllers' = controllers /\ replicaSets' = replicaSets /\ request' = request BY <1>2 DEF NewPod
  <2> QED BY <1>1, <2>2, <2>3, <2>4, NamespaceMoves
<1>3. ASSUME NEW s \in replicaSets, PodOfSet(s) PROVE NamesInv'
  <2> DEFINE owner == Ref("ReplicaSet", s.name, s.uid)
  <2>1. KnownSet(s) BY DEF NamesInv, Known
  <2>2. owner.kind = "ReplicaSet" /\ owner.name = s.name /\ owner.uid = s.uid BY DEF Ref
  <2>3. NewPod(owner) BY <1>3 DEF PodOfSet
  <2> HIDE DEF owner
  <2>4. owner.uid \in Uids /\ born[owner.uid].name = owner.name BY <2>1, <2>2 DEF KnownSet
  <2>5. /\ KnownWorkload(s.owner) /\ s.owner.kind = "Deployment" /\ s.owner.uid = born[owner.uid].top
        /\ \E t : owner.name = <<s.owner.name, t>>
    BY <2>1, <2>2 DEF KnownSet
  <2> QED BY <1>2, <2>2, <2>3, <2>4, <2>5
<1>4. ASSUME NEW c \in controllers, PodOfController(c) PROVE NamesInv'
  <2>1. KnownWorkload(c) /\ c.kind \in {"StatefulSet", "DaemonSet"} /\ NewPod(c)
    BY <1>4 DEF PodOfController, NamesInv, Known, KnownWorkload, Kinds
  <2> QED BY <1>2, <2>1 DEF KnownWorkload
<1> QED BY <1>3, <1>4

\* Every change of the namespace.
LEMMA ClusterNames == ASSUME NamesInv, ClusterNext PROVE NamesInv'
<1>1. WorkloadInv' BY ClusterInv DEF NamesInv
<1>2. ASSUME UNCHANGED <<uids, born, request>>, controllers' \subseteq controllers,
             replicaSets' \subseteq replicaSets, \A p \in pods' : KnownPod(p)
      PROVE  NamesInv'
  <2>1. Uids' = Uids BY <1>2 DEF Uids
  <2>2. \A p \in pods' : KnownPod(p)' BY <1>2, <2>1, StaysKnown
  <2> QED BY <1>1, <1>2, <2>1, <2>2, NamespaceMoves
<1>3. ASSUME NEW c \in controllers, DeleteWorkload(c) PROVE NamesInv'
  BY <1>2, <1>3 DEF DeleteWorkload, NamesInv, Known
<1>4. ASSUME NEW s \in replicaSets, DropReplicaSet(s) PROVE NamesInv'
  BY <1>2, <1>4 DEF DropReplicaSet, NamesInv, Known
<1>5. ASSUME NEW p \in pods, Report(p) \/ BecomeReady(p) \/ DeletePod(p) \/ RemovePod(p)
      PROVE  NamesInv'
  <2>1. UNCHANGED <<controllers, replicaSets, uids, born, request>>
    BY <1>5 DEF Report, BecomeReady, DeletePod, RemovePod, PodChange
  <2>2. KnownPod(p) BY DEF NamesInv, Known
  <2>3. ASSUME NEW q, DOMAIN q = DOMAIN p, q.name = p.name, q.uid = p.uid, q.owner = p.owner PROVE KnownPod(q)
    BY <2>2, <2>3 DEF KnownPod, OfController, OfSet
  <2>4. {"name", "uid", "owner"} \subseteq DOMAIN p BY <2>2 DEF KnownPod
  <2>5. /\ \A c : KnownPod([p EXCEPT !.container = c, !.ready = FALSE])
        /\ KnownPod([p EXCEPT !.ready = TRUE]) /\ KnownPod([p EXCEPT !.leaving = TRUE])
    BY <2>3, <2>4
  <2>6. \A r \in pods' : r \in pods \/ KnownPod(r)
    <3>1. CASE Report(p)
      <4>1. PICK c : pods' = (pods \ {p}) \cup {[p EXCEPT !.container = c, !.ready = FALSE]}
        BY <3>1 DEF Report, PodChange
      <4> QED BY <2>5, <4>1
    <3>2. CASE BecomeReady(p) BY <2>5, <3>2 DEF BecomeReady, PodChange
    <3>3. CASE DeletePod(p) BY <2>5, <3>3 DEF DeletePod, PodChange
    <3>4. CASE RemovePod(p) BY <3>4 DEF RemovePod, PodChange
    <3> QED BY <1>5, <3>1, <3>2, <3>3, <3>4
  <2> QED BY <1>2, <2>1, <2>6 DEF NamesInv, Known
<1> QED BY <1>3, <1>4, <1>5, BirthsKnown, PodsKnown DEF ClusterNext

\* A step of the request: what it copies is known, and what it has listed is there.
LEMMA RequestMoves ==
  ASSUME NamesInv, WorkloadInv', UNCHANGED clusterVars,
         request'.sets \subseteq request.sets \cup replicaSets,
         request'.pods \subseteq request.pods \cup pods,
         request'.chosen \subseteq request.chosen \cup request.pods,
         EnvOK', StillListed'
  PROVE  NamesInv'
<1>1. UNCHANGED <<controllers, replicaSets, pods, uids, born>> BY DEF clusterVars
<1>2. Uids' = Uids BY <1>1 DEF Uids
<1>3. Known' BY <1>1, <1>2, StaysKnown DEF NamesInv, Known
<1>4. \A s \in request'.sets : KnownSet(s) BY DEF NamesInv, Known, KnownCopies
<1>5. \A p \in request'.pods \cup request'.chosen : KnownPod(p) BY DEF NamesInv, Known, KnownCopies
<1>6. KnownCopies' BY <1>1, <1>2, <1>4, <1>5, StaysKnown DEF KnownCopies
<1> QED BY <1>3, <1>6 DEF NamesInv

\* A label before the lists, or after them: nothing has to be there.
LEMMA NotListing ==
  ASSUME NEW pc, request'.pc = pc, pc \notin {"Deployment", "StatefulSet", "DaemonSet"}
  PROVE  StillListed'
BY DEF StillListed

\* The lists of the images.
LEMMA ImagesNames ==
  ASSUME NamesInv, RequestNext,
         StartImages \/ ListPods \/ ListReplicaSets \/ ListDeployments \/ ListStatefulSets \/ ListDaemonSets
  PROVE  NamesInv'
<1>1. WorkloadInv' /\ request = [f \in DOMAIN NoRequest |-> request[f]]
  BY RequestInv DEF NamesInv, WorkloadInv, Copied
<1>2. UNCHANGED clusterVars /\ UNCHANGED <<controllers, replicaSets, pods, uids, born>>
  BY DEF StartImages, ListPods, ListReplicaSets, ListDeployments, ListStatefulSets, ListControllers,
         ListDaemonSets, Serve, clusterVars
<1>3. CASE StartImages
  <2>1. /\ request'.pc = "pods" /\ request'.sets = {} /\ request'.pods = {} /\ request'.chosen = {}
        /\ request'.ran = 0
    BY <1>3 DEF StartImages, Serve, NoRequest
  <2>2. EnvOK' BY <2>1 DEF EnvOK
  <2> QED BY <1>1, <1>2, <2>1, <2>2, NotListing, RequestMoves
<1>4. CASE ListPods
  <2>1. /\ request'.pc = "sets" /\ request'.sets = request.sets /\ request'.pods = pods
        /\ request'.chosen = request.chosen /\ request'.ran = request.ran
        /\ request'.kind = request.kind /\ request'.name = request.name
    BY <1>1, <1>4 DEF ListPods, Serve, NoRequest
  <2>2. EnvOK' BY <1>2, <2>1 DEF EnvOK, NamesInv, Uids
  <2> QED BY <1>1, <1>2, <2>1, <2>2, NotListing, RequestMoves
<1>5. CASE ListReplicaSets
  <2>1. /\ request'.pc = "Deployment" /\ request'.sets = replicaSets /\ request'.pods = request.pods
        /\ request'.chosen = request.chosen /\ request'.ran = request.ran
        /\ request'.kind = request.kind /\ request'.name = request.name
    BY <1>1, <1>5 DEF ListReplicaSets, Serve, NoRequest
  <2>2. EnvOK' BY <1>2, <2>1 DEF EnvOK, NamesInv, Uids
  <2>3. StillListed' BY <1>2, <2>1 DEF StillListed
  <2> QED BY <1>1, <1>2, <2>1, <2>2, <2>3, RequestMoves
<1>6. ASSUME NEW kind \in {"Deployment", "StatefulSet"}, NEW then \in {"StatefulSet", "DaemonSet"},
             ListControllers(kind, then),
             (kind = "Deployment" /\ then = "StatefulSet") \/ (kind = "StatefulSet" /\ then = "DaemonSet")
      PROVE  NamesInv'
  <2>1. /\ request.pc = kind /\ request'.pc = then
        /\ request'.listed = request.listed \cup {c \in controllers : c.kind = kind}
        /\ request'.sets = request.sets /\ request'.pods = request.pods
        /\ request'.chosen = request.chosen /\ request'.ran = request.ran
        /\ request'.kind = request.kind /\ request'.name = request.name
    BY <1>1, <1>6 DEF ListControllers, Listed, Serve, NoRequest
  <2>2. EnvOK' BY <1>2, <2>1 DEF EnvOK, NamesInv, Uids
  <2>3. StillListed' BY <1>2, <1>6, <2>1 DEF StillListed, NamesInv
  <2> QED BY <1>1, <1>2, <2>1, <2>2, <2>3, RequestMoves
<1>7. CASE ListDaemonSets
  <2>1. /\ request'.pc = "listed" /\ request'.sets = {} /\ request'.pods = {} /\ request'.chosen = {}
        /\ request'.ran = 0
    BY <1>7 DEF ListDaemonSets, Serve, NoRequest
  <2>2. EnvOK' BY <2>1 DEF EnvOK
  <2> QED BY <1>1, <1>2, <2>1, <2>2, NotListing, RequestMoves
<1>8. CASE ListDeployments BY <1>6, <1>8 DEF ListDeployments
<1>9. CASE ListStatefulSets BY <1>6, <1>9 DEF ListStatefulSets
<1> QED BY <1>3, <1>4, <1>5, <1>7, <1>8, <1>9

\* The steps that read an environment variable.
LEMMA EnvNames ==
  ASSUME NamesInv, RequestNext,
         \/ \E kind \in Kinds, name \in Workloads : StartEnv(kind, name)
         \/ \E c \in controllers : ReadWorkload(c)
         \/ ListEnvPods \/ ListEnvSets
         \/ EndRequest
  PROVE  NamesInv'
<1>1. WorkloadInv' /\ request = [f \in DOMAIN NoRequest |-> request[f]]
  BY RequestInv DEF NamesInv, WorkloadInv, Copied
<1>2. UNCHANGED clusterVars /\ UNCHANGED <<controllers, replicaSets, pods, uids, born>>
  BY DEF StartEnv, ReadWorkload, ListEnvPods, ListEnvSets, EndRequest, Serve, clusterVars
<1>3. ASSUME NEW kind \in Kinds, NEW name \in Workloads, StartEnv(kind, name) PROVE NamesInv'
  <2>1. /\ request'.pc = "read" /\ request'.sets = {} /\ request'.pods = {} /\ request'.chosen = {}
        /\ request'.ran = 0 /\ request'.kind \in {"Deployment", "StatefulSet"}
    BY <1>3 DEF StartEnv, Serve, NoRequest, Kinds
  <2>2. EnvOK' BY <2>1 DEF EnvOK
  <2> QED BY <1>1, <1>2, <2>1, <2>2, NotListing, RequestMoves
<1>4. ASSUME NEW c \in controllers, ReadWorkload(c) PROVE NamesInv'
  <2>1. /\ request.pc = "read" /\ request'.pc = "envpods" /\ request'.sets = request.sets
        /\ request'.pods = request.pods /\ request'.chosen = request.chosen /\ request'.ran = request.ran
        /\ request'.kind = request.kind
    BY <1>1, <1>4 DEF ReadWorkload, Serve, NoRequest
  <2>2. EnvOK' BY <2>1 DEF EnvOK, NamesInv
  <2> QED BY <1>1, <1>2, <2>1, <2>2, NotListing, RequestMoves
<1>5. CASE ListEnvPods
  <2>1. /\ request.pc = "envpods" /\ request'.sets = request.sets /\ request'.pods = pods
        /\ request'.chosen = request.chosen /\ request'.ran = request.ran /\ request'.kind = request.kind
        /\ request'.pc = IF request.kind = "Deployment" THEN "envsets" ELSE "choose"
    BY <1>1, <1>5 DEF ListEnvPods, Serve, NoRequest
  <2>2. EnvOK' BY <2>1 DEF EnvOK, NamesInv
  <2> QED BY <1>1, <1>2, <2>1, <2>2, NotListing, RequestMoves
<1>6. CASE ListEnvSets
  <2>1. /\ request.pc = "envsets" /\ request'.pc = "choose"
        /\ request'.sets = {s \in replicaSets : OwnedBy(s.owner)} /\ request'.pods = request.pods
        /\ request'.chosen = request.chosen /\ request'.ran = request.ran
        /\ request'.kind = request.kind /\ request'.name = request.name
    BY <1>1, <1>6 DEF ListEnvSets, Serve, NoRequest
  <2>2. EnvOK' BY <2>1 DEF EnvOK, NamesInv, OwnedBy
  <2> QED BY <1>1, <1>2, <2>1, <2>2, NotListing, RequestMoves
<1>7. CASE EndRequest
  <2>1. /\ request'.pc = "idle" /\ request'.sets = {} /\ request'.pods = {} /\ request'.chosen = {}
        /\ request'.ran = 0
    BY <1>7 DEF EndRequest, NoRequest
  <2>2. EnvOK' BY <2>1 DEF EnvOK
  <2> QED BY <1>1, <1>2, <2>1, <2>2, NotListing, RequestMoves
<1> QED BY <1>3, <1>4, <1>5, <1>6, <1>7

LEMMA Pairs == ASSUME NEW a, NEW b, NEW c, NEW d, <<a, b>> = <<c, d>> PROVE a = c /\ b = d
OBVIOUS

\* A pod the request may choose is one of the workload it was asked about.
LEMMA BelongsAsked ==
  ASSUME NamesInv, request.pc = "choose", NEW p \in request.pods, Belongs(p)
  PROVE  Asked(p)
<1>1. KnownPod(p) /\ request.kind \in {"Deployment", "StatefulSet"} BY DEF NamesInv, KnownCopies, EnvOK
<1>2. CASE request.kind = "Deployment"
  <2>1. PICK s \in request.sets : s.name = p.owner.name BY <1>2 DEF Belongs
  <2>2. p.owner.kind = "ReplicaSet" BY <1>2 DEF Belongs
  <2>3. s.owner.name = request.name BY <1>2 DEF NamesInv, EnvOK, OwnedBy
  <2>4. PICK t : s.name = <<s.owner.name, t>> BY DEF NamesInv, KnownCopies, KnownSet
  <2>5. OfSet(p) BY <1>1, <2>2 DEF KnownPod, OfController
  <2>6. PICK w, u : /\ KnownWorkload(w) /\ w.kind = "Deployment" /\ w.uid = born[p.uid].top
                    /\ p.owner.name = <<w.name, u>>
    BY <2>5 DEF OfSet
  <2>7. <<w.name, u>> = <<s.owner.name, t>> BY <2>1, <2>4, <2>6
  <2>8. w.name = s.owner.name BY <2>7, Pairs
  <2> QED BY <1>2, <2>2, <2>3, <2>6, <2>8 DEF Asked, KnownWorkload
<1>3. CASE request.kind = "StatefulSet"
  <2>1. p.owner.kind = "StatefulSet" /\ p.owner.name = request.name BY <1>3 DEF Belongs, OwnedBy
  <2>2. OfController(p) BY <1>1, <2>1 DEF KnownPod, OfSet
  <2> QED BY <1>3, <2>1, <2>2 DEF Asked, OfController, KnownWorkload
<1> QED BY <1>1, <1>2, <1>3

\* A pod is chosen; the command runs in the pod that has its name by then.
LEMMA ExecNames ==
  ASSUME NamesInv, RequestNext,
         (\E p \in request.pods : ChoosePod(p)) \/ (\E p \in pods : Exec(p))
  PROVE  NamesInv'
<1>1. WorkloadInv' /\ request = [f \in DOMAIN NoRequest |-> request[f]] /\ uids \in Nat
  BY RequestInv DEF NamesInv, WorkloadInv, Copied, Objects
<1>2. UNCHANGED clusterVars /\ UNCHANGED <<controllers, replicaSets, pods, uids, born>>
  BY DEF ChoosePod, Exec, Serve, clusterVars
<1>3. ASSUME NEW p \in request.pods, ChoosePod(p) PROVE NamesInv'
  <2>1. /\ request.pc = "choose" /\ request'.pc = "exec" /\ request'.sets = request.sets
        /\ request'.pods = request.pods /\ request'.chosen = {p} /\ request'.ran = request.ran
        /\ request'.kind = request.kind /\ request'.name = request.name
    BY <1>1, <1>3 DEF ChoosePod, Serve, NoRequest
  <2>2. Belongs(p) BY <1>3 DEF ChoosePod
  <2>3. Asked(p) BY <2>1, <2>2, BelongsAsked
  <2>4. EnvOK' BY <1>2, <2>1, <2>3 DEF EnvOK, NamesInv, Asked
  <2> QED BY <1>1, <1>2, <2>1, <2>4, NotListing, RequestMoves
<1>4. ASSUME NEW p \in pods, Exec(p) PROVE NamesInv'
  <2>1. /\ request.pc = "exec" /\ request'.pc = "answered" /\ request'.sets = request.sets
        /\ request'.pods = request.pods /\ request'.chosen = request.chosen /\ request'.ran = p.uid
        /\ request'.kind = request.kind /\ request'.name = request.name
    BY <1>1, <1>4 DEF Exec, Serve, NoRequest
  <2>2. PICK q \in request.chosen : q.name = p.name BY <1>4 DEF Exec
  <2>3. Asked(q) /\ KnownPod(q) /\ KnownPod(p) /\ request.kind \in {"Deployment", "StatefulSet"}
    BY <2>1 DEF NamesInv, EnvOK, KnownCopies, Known
  <2>4. p.uid \in Nat \ {0} /\ q.uid \in Nat \ {0} BY <1>1, <2>3 DEF KnownPod, Uids
  <2>5. born[born[p.uid].top].kind = request.kind /\ born[born[p.uid].top].name = request.name
    <3>1. CASE request.kind = "Deployment"
      <4>1. q.name = <<"pod", q.uid>> BY <2>3, <3>1 DEF Asked, KnownPod, PodName
      <4>2. p.name = <<"pod", p.uid>> \/ p.name = <<p.owner.name, 0>> BY <2>3 DEF KnownPod, PodName
      <4>3. p.uid = q.uid BY <2>2, <2>4, <4>1, <4>2, Pairs
      <4> QED BY <2>3, <4>3 DEF Asked
    <3>2. CASE request.kind = "StatefulSet"
      <4>1. q.name = <<request.name, 0>> BY <2>3, <3>2 DEF Asked, KnownPod, PodName
      <4>2. p.owner.kind = "StatefulSet" /\ p.name = <<p.owner.name, 0>>
        <5>1. CASE p.name = <<"pod", p.uid>>
          <6>1. <<request.name, 0>> = <<"pod", p.uid>> BY <2>2, <4>1, <5>1
          <6>2. 0 = p.uid BY <6>1, Pairs
          <6> QED BY <2>4, <6>2
        <5> QED BY <2>3, <5>1 DEF KnownPod, PodName
      <4>3. p.owner.name = request.name
        <5>1. <<request.name, 0>> = <<p.owner.name, 0>> BY <2>2, <4>1, <4>2
        <5> QED BY <5>1, Pairs
      <4>4. OfController(p) BY <2>3, <4>2 DEF KnownPod, OfSet
      <4> QED BY <3>2, <4>2, <4>3, <4>4 DEF OfController, KnownWorkload
    <3> QED BY <2>3, <3>1, <3>2
  <2>6. p.uid \in Uids /\ born[p.uid].top \in Uids BY <2>3, TopsKnown
  <2>7. EnvOK' BY <1>2, <2>1, <2>5, <2>6 DEF EnvOK, Uids
  <2> QED BY <1>1, <1>2, <2>1, <2>7, NotListing, RequestMoves
<1> QED BY <1>3, <1>4

LEMMA NamesStep == NamesInv /\ [WorkloadNext]_workloadVars => NamesInv'
<1> SUFFICES ASSUME NamesInv, [WorkloadNext]_workloadVars PROVE NamesInv' OBVIOUS
<1>1. CASE ClusterNext BY <1>1, ClusterNames
<1>2. CASE RequestNext BY <1>2, ImagesNames, EnvNames, ExecNames DEF RequestNext
<1>3. CASE UNCHANGED workloadVars
  <2>1. UNCHANGED clusterVars /\ request' = request /\ UNCHANGED <<controllers, replicaSets, pods, uids, born>>
    BY <1>3 DEF workloadVars, clusterVars
  <2>2. Uids' = Uids BY <2>1 DEF Uids
  <2>3. WorkloadInv' BY <1>3, WorkloadStepInv DEF NamesInv
  <2> QED BY <2>1, <2>2, <2>3, NamespaceMoves DEF NamesInv, Known
<1> QED BY <1>1, <1>2, <1>3 DEF WorkloadNext

\* The command that reads an environment variable runs in a pod of a workload of
\* the kind and name asked for, whichever pod has the chosen one's name by then.
THEOREM ReadsAsAsked == WorkloadSpec => []ReadAsAsked
<1>1. NamesInv => ReadAsAsked BY DEF NamesInv, EnvOK, ReadAsAsked
<1> QED BY <1>1, NamesInit, NamesStep, PTL DEF WorkloadSpec

\* The figures beside a row are those of the workload the reference means, if it
\* is among those listed.
LEMMA FiguresFound ==
  ASSUME NEW up, NEW listed, NEW c \in listed, KnownWorkload(up), KnownWorkload(c), c.uid = up.uid
  PROVE  c.uid \in FiguresOf(up, listed)
<1>1. c.kind = up.kind /\ c.name = up.name BY DEF KnownWorkload
<1> QED BY <1>1 DEF FiguresOf

\* What stayed is found: a pod whose ReplicaSet and workload are still there when
\* the last list has been read is grouped under that workload, with its figures.
THEOREM NothingLost == WorkloadSpec => StaysResolved
<1>1. ASSUME NamesInv, ListDaemonSets, NEW shown \in request'.rows,
             NEW c \in controllers, c.uid = born[shown.pod.uid].top,
             shown.pod.owner.kind = "ReplicaSet" => \E s \in replicaSets : s.uid = shown.pod.owner.uid
      PROVE  shown.resolved /\ shown.figures = {born[shown.pod.uid].top}
  <2> DEFINE listed == Listed("DaemonSet")
  <2>1. PICK p \in request.pods : shown = ImageRow(p, listed)
    BY <1>1 DEF ListDaemonSets, Serve, NoRequest
  <2> DEFINE up == Controller(p)
  <2>2. shown.pod = p /\ shown.figures = FiguresOf(up, listed)
          /\ shown.resolved = (up.kind = "Pod" \/ FiguresOf(up, listed) # {})
    BY <2>1 DEF ImageRow
  <2>3. KnownPod(p) /\ KnownWorkload(c) /\ request.pc = "DaemonSet"
    BY <1>1 DEF NamesInv, Known, KnownCopies, ListDaemonSets, Serve
  <2>4. c \in listed
    BY <1>1, <2>2, <2>3 DEF Listed, NamesInv, StillListed, KnownWorkload, Kinds
  <2>5. OfController(p) \/ OfSet(p)
    BY <1>1, <2>2, <2>3 DEF KnownPod, KnownWorkload, Kinds
  <2>6. KnownWorkload(up) /\ up.uid = c.uid
    <3>1. CASE OfController(p) BY <1>1, <2>2, <3>1 DEF OfController, Controller
    <3>2. CASE OfSet(p)
      <4>1. PICK s \in replicaSets : s.uid = p.owner.uid BY <1>1, <2>2, <3>2 DEF OfSet
      <4>2. s \in request.sets BY <1>1, <2>3, <3>2, <4>1 DEF NamesInv, StillListed, OfSet
      <4>3. s.name = p.owner.name BY <1>1, <3>2, <4>1 DEF NamesInv, Known, KnownSet, OfSet
      <4>4. s \in SetOf(p.owner) BY <4>1, <4>2, <4>3 DEF SetOf
      <4>5. PICK r \in SetOf(p.owner) : up = r.owner BY <3>2, <4>4 DEF Controller, OfSet
      <4>6. KnownSet(r) /\ r.uid = p.owner.uid BY <1>1, <4>5 DEF SetOf, NamesInv, KnownCopies
      <4>7. born[p.owner.uid].top = born[p.uid].top
        BY <1>1 DEF NamesInv, WorkloadInv, Copied, GoodPod
      <4> QED BY <1>1, <2>2, <4>5, <4>6, <4>7 DEF KnownSet
    <3> QED BY <2>5, <3>1, <3>2
  <2>7. c.uid \in FiguresOf(up, listed) BY <2>3, <2>4, <2>6, FiguresFound
  <2>8. shown.figures \subseteq {born[p.uid].top}
    <3>1. \A d \in listed : GoodWorkload(d)
      BY <1>1 DEF Listed, NamesInv, WorkloadInv, Copied, Present
    <3>2. GoodRow(shown) BY <1>1, <2>1, <3>1, RowsGood DEF NamesInv, WorkloadInv, Copied
    <3> QED BY <2>2, <3>2 DEF GoodRow
  <2> QED BY <1>1, <2>2, <2>7, <2>8
<1>2. NamesInv => [Resolves]_workloadVars BY <1>1 DEF Resolves
<1> QED BY <1>2, NamesInit, NamesStep, PTL DEF WorkloadSpec, StaysResolved

-----------------------------------------------------------------------------
(***************************************************************************)
(* Sessions and users, for any number of users, threads, sessions and      *)
(* changes.                                                                *)
(***************************************************************************)

\* The rows a thread has locked.
Held(p) ==
  CASE job[p].pc = "rsecond" -> {First(p)}
    [] job[p].pc \in {"rcheck", "rwrite"} -> {First(p), Second(p)}
    [] job[p].pc \in {"echeck", "etarget", "cwrite"} -> {Operator(p)}
    [] job[p].pc = "ewrite" -> {Operator(p), Target(p)}
    [] OTHER -> {}

LocksHeld == \A p \in Thread : \A u \in User : lock[u] = p <=> u \in Held(p)

\* What has been checked under the lock of the operator's row holds until the
\* request commits; users are managed by admin, whose row is the first.
Checked(p) ==
  /\ job[p].pc \in {"rwrite", "etarget", "ewrite", "cwrite"} => Entitled(p)
  /\ job[p].pc \in {"etarget", "ewrite", "cwrite"} => Operator(p) = Admin
  /\ job[p].pc \in {"rwrite", "ewrite"} => row[Target(p)].exists

\* A session of a user has a version of that user, not a later one; as long as it
\* is the present one, password and permissions are the present ones, too.
FreshSession(s) ==
  /\ row[s.user].exists
  /\ s.version <= row[s.user].version
  /\ s.version = row[s.user].version => s.pwd = row[s.user].pwd /\ s.super = row[s.user].super

\* A session is made from one reading of the row, and saved after a wait for it.
AllFresh ==
  /\ \A s \in sessions : FreshSession(s)
  /\ \A p \in Thread : job[p].pc \in {"ltouch", "lsave"} => FreshSession(job[p].ses)

SessionInv == SessionTypeOK /\ LocksHeld /\ (\A p \in Thread : Checked(p)) /\ AllFresh

-----------------------------------------------------------------------------
(* The steps.                                                              *)

LEMMA IdleIsJob == Idle \in Job /\ Admin \in User
BY SessionAssumption DEF Idle, Job, Session, JobLabel, Admin, User

\* Initially nothing is locked and every session has the version 0.
LEMMA SessionInit == Init => SessionInv
<1> SUFFICES ASSUME Init PROVE SessionInv OBVIOUS
<1>1. row \in [User -> Row] BY SessionAssumption DEF Init, Row
<1>2. sessions \in SUBSET Session
  BY <1>1, SessionAssumption DEF Init, Session, Row
<1>3. \A s \in sessions : FreshSession(s) BY <1>1 DEF Init, FreshSession, Row
<1>4. \A p \in Thread : job[p].pc = "idle" BY DEF Init, Idle
<1>5. SessionTypeOK BY <1>1, <1>2, IdleIsJob DEF Init, SessionTypeOK
<1>6. LocksHeld BY <1>4, SessionAssumption DEF Init, LocksHeld, Held
<1> QED BY <1>3, <1>4, <1>5, <1>6 DEF SessionInv, Checked, AllFresh

\* A thread goes on, no row is written: it is enough to look at its own locks,
\* what it has checked and the session it makes.
LEMMA ThreadMoves ==
  ASSUME SessionInv, NEW p \in Thread, NEW j \in Job, job' = [job EXCEPT ![p] = j], row' = row,
         lock' \in [User -> Thread \cup {NoOne}],
         \A u \in User : lock'[u] = p <=> u \in Held(p)',
         \A u \in User, q \in Thread \ {p} : lock'[u] = q <=> lock[u] = q,
         Checked(p)',
         j.pc \in {"ltouch", "lsave"} => FreshSession(j.ses),
         sessions' \in SUBSET Session, \A s \in sessions' : s \in sessions \/ FreshSession(s)
  PROVE  SessionInv'
<1>1. job'[p] = j /\ \A q \in Thread \ {p} : job'[q] = job[q] BY DEF SessionInv, SessionTypeOK
<1>2. SessionTypeOK' BY DEF SessionInv, SessionTypeOK
<1>3. \A q \in Thread \ {p} : Held(q)' = Held(q)
  BY <1>1 DEF Held, First, Second, Operator, Target
<1>4. LocksHeld' BY <1>3 DEF SessionInv, LocksHeld
<1>5. \A q \in Thread : Checked(q)'
  BY <1>1 DEF SessionInv, Checked, Entitled, Operator, Target
<1>6. AllFresh' BY <1>1 DEF SessionInv, AllFresh, FreshSession
<1> QED BY <1>2, <1>4, <1>5, <1>6 DEF SessionInv

\* Commit and rollback free the rows.
LEMMA EndMoves ==
  ASSUME SessionInv, NEW p \in Thread, End(p), row' = row,
         sessions' \in SUBSET Session, \A s \in sessions' : s \in sessions \/ FreshSession(s)
  PROVE  SessionInv'
<1>1. job' = [job EXCEPT ![p] = Idle] /\ Idle \in Job BY IdleIsJob DEF End
<1>2. job'[p].pc = "idle" BY <1>1 DEF SessionInv, SessionTypeOK, Idle
<1>3. lock' \in [User -> Thread \cup {NoOne}] BY DEF End, SessionInv, SessionTypeOK
<1>4. \A u \in User : lock'[u] = p <=> u \in Held(p)' BY <1>2, SessionAssumption DEF End, Held
<1>5. \A u \in User, q \in Thread \ {p} : lock'[u] = q <=> lock[u] = q BY SessionAssumption DEF End
<1>6. Checked(p)' BY <1>2 DEF Checked
<1>7. Idle.pc \notin {"ltouch", "lsave"} BY DEF Idle
<1> QED BY <1>1, <1>3, <1>4, <1>5, <1>6, <1>7, ThreadMoves

\* A request that begins has no locks yet; what comes of it is looked at later.
LEMMA BeginInv ==
  ASSUME SessionInv, NEW p \in Thread, Request(p)
  PROVE  SessionInv'
<1>1. ASSUME NEW j \in Job, job[p].pc = "idle", job' = [job EXCEPT ![p] = j],
             UNCHANGED <<row, lock, sessions>>,
             j.pc \in {"ltouch", "rfirst", "eoperator"}, j.pc = "ltouch" => FreshSession(j.ses)
      PROVE  SessionInv'
  <2>1. job'[p] = j BY <1>1 DEF SessionInv, SessionTypeOK
  <2>2. Held(p) = {} /\ Held(p)' = {} BY <1>1, <2>1 DEF Held
  <2>3. Checked(p)' BY <1>1, <2>1 DEF Checked
  <2>4. \A u \in User : lock'[u] = p <=> u \in Held(p)' BY <1>1, <2>2 DEF SessionInv, LocksHeld
  <2> QED BY <1>1, <2>3, <2>4, ThreadMoves DEF SessionInv, SessionTypeOK, AllFresh
<1>2. ASSUME NEW u \in User, NEW w \in 0..MaxVersion, Login(p, u, w) PROVE SessionInv'
  <2> DEFINE s == [user |-> u, version |-> row[u].version, pwd |-> w, super |-> row[u].super]
             j == [Idle EXCEPT !.pc = "ltouch", !.target = u, !.ses = s]
  <2>1. row[u] \in Row BY DEF SessionInv, SessionTypeOK
  <2>2. s \in Session BY <2>1 DEF Session, Row
  <2>3. FreshSession(s) BY <1>2, <2>1 DEF Login, FreshSession, Row
  <2>4. j \in Job /\ j.pc = "ltouch" /\ j.ses = s BY <2>2, IdleIsJob DEF Job, JobLabel, Idle
  <2>5. job[p].pc = "idle" /\ job' = [job EXCEPT ![p] = j] /\ UNCHANGED <<row, lock, sessions>>
    BY <1>2 DEF Login
  <2> HIDE DEF j, s
  <2> QED BY <1>1, <2>3, <2>4, <2>5
<1>3. ASSUME NEW s \in sessions, NEW t \in User, Reset(p, s, t) PROVE SessionInv'
  <2> DEFINE j == [[Idle EXCEPT !.target = t, !.verb = "reset"] EXCEPT !.pc = "rfirst", !.ses = s]
  <2>1. s \in Session BY DEF SessionInv, SessionTypeOK
  <2>2. j \in Job /\ j.pc = "rfirst" BY <2>1, IdleIsJob DEF Job, JobLabel, Idle
  <2>3. job[p].pc = "idle" /\ job' = [job EXCEPT ![p] = j] /\ UNCHANGED <<row, lock, sessions>>
    BY <1>3 DEF Reset, Begin
  <2> HIDE DEF j
  <2> QED BY <1>1, <2>2, <2>3
<1>4. ASSUME NEW s \in sessions, NEW t \in User, NEW verb \in {"edit", "create"},
             NEW active \in BOOLEAN, NEW super \in BOOLEAN, Change(p, s, t, verb, active, super)
      PROVE  SessionInv'
  <2> DEFINE j == [[Idle EXCEPT !.target = t, !.verb = verb, !.active = active, !.super = super]
                     EXCEPT !.pc = "eoperator", !.ses = s]
  <2>1. s \in Session BY DEF SessionInv, SessionTypeOK
  <2>2. j \in Job /\ j.pc = "eoperator" BY <2>1, IdleIsJob DEF Job, JobLabel, Idle
  <2>3. job[p].pc = "idle" /\ job' = [job EXCEPT ![p] = j] /\ UNCHANGED <<row, lock, sessions>>
    BY <1>4 DEF Change, Begin
  <2> HIDE DEF j
  <2> QED BY <1>1, <2>2, <2>3
<1> QED BY <1>2, <1>3, <1>4 DEF Request

\* Waiting for a row or finding the checks in order: the thread goes to the next
\* label, and locks at most one more row.
LEMMA GotoInv ==
  ASSUME SessionInv, NEW p \in Thread, NEW l \in JobLabel, Goto(p, l), row' = row, sessions' = sessions,
         lock' \in [User -> Thread \cup {NoOne}],
         \A u \in User : lock'[u] = p <=> u \in Held(p)',
         \A u \in User, q \in Thread \ {p} : lock'[u] = q <=> lock[u] = q,
         l \in {"rwrite", "etarget", "ewrite", "cwrite"} => Entitled(p),
         l \in {"etarget", "ewrite", "cwrite"} => Operator(p) = Admin,
         l \in {"rwrite", "ewrite"} => row[Target(p)].exists,
         l \in {"ltouch", "lsave"} => job[p].pc \in {"ltouch", "lsave"}
  PROVE  SessionInv'
<1> DEFINE j == [job[p] EXCEPT !.pc = l]
<1>1. job[p] \in Job BY DEF SessionInv, SessionTypeOK
<1>2. j \in Job /\ j.pc = l /\ j.ses = job[p].ses /\ j.target = job[p].target BY <1>1 DEF Job
<1>3. job' = [job EXCEPT ![p] = j] /\ job'[p] = j BY DEF Goto, SessionInv, SessionTypeOK
<1> HIDE DEF j
<1>4. Checked(p)' BY <1>2, <1>3 DEF Checked, Entitled, Operator, Target
<1>5. l \in {"ltouch", "lsave"} => FreshSession(j.ses) BY <1>2 DEF SessionInv, AllFresh
<1>6. sessions' \in SUBSET Session BY DEF SessionInv, SessionTypeOK
<1> QED BY <1>2, <1>3, <1>4, <1>5, <1>6, ThreadMoves

\* One row more is locked.
LEMMA AcquireInv ==
  ASSUME SessionInv, NEW p \in Thread, NEW u \in User, NEW l \in JobLabel, Acquire(p, u), Goto(p, l),
         row' = row, sessions' = sessions, Held(p)' = Held(p) \cup {u},
         l \notin {"rwrite", "ltouch", "lsave"},
         l \in {"etarget", "ewrite", "cwrite"} => Entitled(p) /\ Operator(p) = Admin,
         l = "ewrite" => row[Target(p)].exists
  PROVE  SessionInv'
<1>1. lock' \in [User -> Thread \cup {NoOne}] BY DEF Acquire, SessionInv, SessionTypeOK
<1>2. \A v \in User : lock'[v] = p <=> v \in Held(p)'
  BY DEF Acquire, SessionInv, SessionTypeOK, LocksHeld
<1>3. \A v \in User, q \in Thread \ {p} : lock'[v] = q <=> lock[v] = q
  BY SessionAssumption DEF Acquire, SessionInv, SessionTypeOK
<1> QED BY <1>1, <1>2, <1>3, GotoInv

\* A row is written by a thread that holds it, or where there is none yet: who has
\* checked an operator's row holds it, so the row stays as it was checked, and
\* every session of the written row has an older version.
LEMMA WriteInv ==
  ASSUME SessionInv, NEW p \in Thread, NEW t \in User, NEW r \in Row, row' = [row EXCEPT ![t] = r],
         End(p), sessions' = sessions, r.exists,
         row[t].exists => t \in Held(p) /\ row[t].version < r.version
  PROVE  SessionInv'
<1>1. job' = [job EXCEPT ![p] = Idle] /\ job'[p].pc = "idle" /\ (\A q \in Thread \ {p} : job'[q] = job[q])
  BY DEF End, SessionInv, SessionTypeOK, Idle
<1>2. row'[t] = r /\ \A u \in User \ {t} : row'[u] = row[u] BY DEF SessionInv, SessionTypeOK
<1>3. SessionTypeOK' BY <1>1, IdleIsJob DEF End, SessionInv, SessionTypeOK
<1>4. LocksHeld'
  <2>1. Held(p)' = {} BY <1>1 DEF Held
  <2>2. \A q \in Thread \ {p} : Held(q)' = Held(q) BY <1>1 DEF Held, First, Second, Operator, Target
  <2> QED BY <2>1, <2>2, SessionAssumption DEF End, SessionInv, LocksHeld
<1>5. ASSUME NEW q \in Thread \ {p}, Entitled(q), job[q].pc \in {"rwrite", "etarget", "ewrite", "cwrite"}
      PROVE  Entitled(q)'
  <2>1. Operator(q) \in Held(q) /\ Operator(q) \in User
    BY <1>5 DEF Held, First, Second, SessionInv, SessionTypeOK, Job, Session, Operator
  <2>2. Operator(q) # t
    <3>1. row[Operator(q)].exists BY <1>5 DEF Entitled
    <3> QED BY <2>1, <3>1 DEF SessionInv, LocksHeld
  <2> QED BY <1>1, <1>2, <1>5, <2>1, <2>2 DEF Entitled, Operator
<1>6. \A q \in Thread : Checked(q)' BY <1>1, <1>2, <1>5 DEF SessionInv, Checked, Operator, Target
<1>7. ASSUME NEW s \in Session, FreshSession(s) PROVE FreshSession(s)'
  <2>1. s.user \in User /\ s.version \in Nat /\ row[s.user].version \in Nat /\ r.version \in Nat
    BY SessionAssumption DEF Session, SessionInv, SessionTypeOK, Row
  <2> QED BY <1>2, <1>7, <2>1 DEF FreshSession
<1>8. AllFresh' BY <1>1, <1>7 DEF SessionInv, SessionTypeOK, AllFresh, Job
<1> QED BY <1>3, <1>4, <1>6, <1>8 DEF SessionInv

\* The steps of a login and of a reset.
LEMMA ResetInv ==
  ASSUME SessionInv, NEW p \in Thread,
         LoginTouch(p) \/ LoginSave(p) \/ ResetFirst(p) \/ ResetSecond(p) \/ ResetCheck(p) \/ ResetWrite(p)
  PROVE  SessionInv'
<1>1. Operator(p) \in User /\ Target(p) \in User /\ First(p) \in User /\ Second(p) \in User
  BY DEF SessionInv, SessionTypeOK, Job, Session, Operator, Target, First, Second
<1>2. ASSUME NEW l \in JobLabel, Goto(p, l)
      PROVE  job'[p] = [job[p] EXCEPT !.pc = l] /\ job'[p].pc = l
             /\ First(p)' = First(p) /\ Second(p)' = Second(p)
  BY <1>2 DEF Goto, SessionInv, SessionTypeOK, Job, First, Second, Operator, Target
<1>3. CASE LoginTouch(p)
  <2>1. Held(p) = {} /\ Held(p)' = {} BY <1>2, <1>3 DEF LoginTouch, JobLabel, Held
  <2> QED BY <1>3, <2>1, GotoInv DEF LoginTouch, JobLabel, SessionInv, SessionTypeOK, LocksHeld
<1>4. CASE LoginSave(p)
  <2>1. job[p].ses \in Session /\ FreshSession(job[p].ses)
    BY <1>4 DEF LoginSave, SessionInv, SessionTypeOK, Job, AllFresh
  <2> QED BY <1>4, <2>1, EndMoves DEF LoginSave, SessionInv, SessionTypeOK
<1>5. CASE ResetFirst(p)
  <2>1. Held(p) = {} /\ Held(p)' = {First(p)} BY <1>2, <1>5 DEF ResetFirst, JobLabel, Held
  <2> QED BY <1>1, <1>5, <2>1, AcquireInv DEF ResetFirst, JobLabel
<1>6. CASE ResetSecond(p)
  <2>1. Held(p) = {First(p)} /\ Held(p)' = {First(p), Second(p)}
    BY <1>2, <1>6 DEF ResetSecond, JobLabel, Held
  <2> QED BY <1>1, <1>6, <2>1, AcquireInv DEF ResetSecond, JobLabel
<1>7. CASE ResetCheck(p)
  <2>1. CASE Entitled(p) /\ row[Target(p)].exists /\ Goto(p, "rwrite") /\ lock' = lock
    <3>1. Held(p)' = Held(p) BY <1>2, <1>7, <2>1 DEF ResetCheck, JobLabel, Held
    <3> QED BY <1>7, <2>1, <3>1, GotoInv DEF ResetCheck, JobLabel, SessionInv, SessionTypeOK, LocksHeld
  <2>2. CASE End(p) BY <1>7, <2>2, EndMoves DEF ResetCheck, SessionInv, SessionTypeOK
  <2> QED BY <1>7, <2>1, <2>2 DEF ResetCheck, Provided
<1>8. CASE ResetWrite(p)
  <2> DEFINE t == Target(p)
             next == row[t].version + 1
             r == [row[t] EXCEPT !.pwd = next, !.version = next]
  <2>1. row[t] \in Row /\ row[t].version \in Nat /\ MaxVersion \in Nat
    BY <1>1, SessionAssumption DEF SessionInv, SessionTypeOK, Row
  <2>2. next \in 0..MaxVersion /\ row[t].version < next
    <3>1. next <= MaxVersion BY <1>8 DEF ResetWrite
    <3> QED BY <2>1, <3>1
  <2>3. row' = [row EXCEPT ![t] = r] BY <1>8 DEF ResetWrite
  <2>4. t \in Held(p) /\ row[t].exists
    BY <1>8 DEF ResetWrite, Held, First, Second, SessionInv, Checked
  <2> HIDE DEF next
  <2>5. r \in Row /\ r.exists /\ r.version = next BY <2>1, <2>2, <2>4 DEF Row
  <2> HIDE DEF r
  <2> QED BY <1>1, <1>8, <2>2, <2>3, <2>4, <2>5, WriteInv DEF ResetWrite
<1> QED BY <1>3, <1>4, <1>5, <1>6, <1>7, <1>8

\* The steps of editing and of creating a user.
LEMMA EditInv ==
  ASSUME SessionInv, NEW p \in Thread,
         Operate(p) \/ OperateCheck(p) \/ EditTarget(p) \/ EditWrite(p) \/ CreateWrite(p)
  PROVE  SessionInv'
<1>1. Operator(p) \in User /\ Target(p) \in User
  BY DEF SessionInv, SessionTypeOK, Job, Session, Operator, Target
<1>2. ASSUME NEW l \in JobLabel, Goto(p, l)
      PROVE  job'[p].pc = l /\ Operator(p)' = Operator(p) /\ Target(p)' = Target(p)
  BY <1>2 DEF Goto, SessionInv, SessionTypeOK, Job, Operator, Target
<1>3. CASE Operate(p)
  <2>1. Held(p) = {} /\ Held(p)' = {Operator(p)} BY <1>2, <1>3 DEF Operate, JobLabel, Held
  <2> QED BY <1>1, <1>3, <2>1, AcquireInv DEF Operate, JobLabel
<1>4. CASE OperateCheck(p)
  <2>1. CASE End(p) BY <1>4, <2>1, EndMoves DEF OperateCheck, SessionInv, SessionTypeOK
  <2>2. CASE Entitled(p) /\ Operator(p) = Admin /\ lock' = lock
             /\ \E l \in {"etarget", "cwrite"} : Goto(p, l)
    <3>1. PICK l \in {"etarget", "cwrite"} : Goto(p, l) BY <2>2
    <3>2. l \in JobLabel BY DEF JobLabel
    <3>3. Held(p)' = Held(p) BY <1>2, <1>4, <3>1, <3>2 DEF OperateCheck, Held
    <3> QED BY <1>4, <2>2, <3>1, <3>2, <3>3, GotoInv DEF OperateCheck, SessionInv, SessionTypeOK, LocksHeld
  <2> QED BY <1>4, <2>1, <2>2 DEF OperateCheck, Provided
<1>5. CASE EditTarget(p)
  <2>1. CASE End(p) BY <1>5, <2>1, EndMoves DEF EditTarget, SessionInv, SessionTypeOK
  <2>2. CASE row[Target(p)].exists /\ Acquire(p, Target(p)) /\ Goto(p, "ewrite")
    <3>1. Held(p) = {Operator(p)} /\ Held(p)' = {Operator(p), Target(p)}
      BY <1>2, <1>5, <2>2 DEF EditTarget, JobLabel, Held
    <3>2. Entitled(p) /\ Operator(p) = Admin BY <1>5 DEF EditTarget, SessionInv, Checked
    <3> QED BY <1>1, <1>5, <2>2, <3>1, <3>2, AcquireInv DEF EditTarget, JobLabel
  <2> QED BY <1>5, <2>1, <2>2 DEF EditTarget
<1>6. CASE EditWrite(p)
  <2> DEFINE t == Target(p)
             next == row[t].version + 1
             r == [row[t] EXCEPT !.version = next, !.active = job[p].active, !.super = job[p].super]
  <2>1. row[t] \in Row /\ row[t].version \in Nat /\ MaxVersion \in Nat /\ job[p] \in Job
    BY <1>1, SessionAssumption DEF SessionInv, SessionTypeOK, Row
  <2>2. next \in 0..MaxVersion /\ row[t].version < next
    <3>1. next <= MaxVersion BY <1>6 DEF EditWrite
    <3> QED BY <2>1, <3>1
  <2>3. row' = [row EXCEPT ![t] = r] BY <1>6 DEF EditWrite
  <2>4. t \in Held(p) /\ row[t].exists BY <1>6 DEF EditWrite, Held, SessionInv, Checked
  <2> HIDE DEF next
  <2>5. r \in Row /\ r.exists /\ r.version = next BY <2>1, <2>2, <2>4 DEF Row, Job
  <2> HIDE DEF r
  <2> QED BY <1>1, <1>6, <2>2, <2>3, <2>4, <2>5, WriteInv DEF EditWrite
<1>7. CASE CreateWrite(p)
  <2>1. CASE row[Target(p)].exists
    BY <1>7, <2>1, EndMoves DEF CreateWrite, SessionInv, SessionTypeOK
  <2>2. CASE ~row[Target(p)].exists
    <3> DEFINE r == [exists |-> TRUE, version |-> 0, pwd |-> 0,
                     active |-> job[p].active, super |-> job[p].super]
    <3>1. r \in Row /\ r.exists
      BY SessionAssumption DEF SessionInv, SessionTypeOK, Job, Row
    <3>2. row' = [row EXCEPT ![Target(p)] = r] BY <1>7, <2>2 DEF CreateWrite
    <3> HIDE DEF r
    <3> QED BY <1>1, <1>7, <2>2, <3>1, <3>2, WriteInv DEF CreateWrite
  <2> QED BY <2>1, <2>2
<1> QED BY <1>3, <1>4, <1>5, <1>6, <1>7

LEMMA SessionStep == SessionInv /\ [Next]_sessionVars => SessionInv'
<1> SUFFICES ASSUME SessionInv, [Next]_sessionVars PROVE SessionInv' OBVIOUS
<1>1. ASSUME NEW p \in Thread, Die(p) PROVE SessionInv'
  BY <1>1, EndMoves DEF Die, SessionInv, SessionTypeOK
<1>2. ASSUME UNCHANGED <<row, lock, job>>, sessions' \in SUBSET sessions PROVE SessionInv'
  <2>1. \A p \in Thread : Held(p)' = Held(p) /\ Checked(p)' = Checked(p)
    BY <1>2 DEF Held, First, Second, Operator, Target, Checked, Entitled
  <2> QED BY <1>2, <2>1 DEF SessionInv, SessionTypeOK, LocksHeld, AllFresh, FreshSession
<1>3. ASSUME NEW s \in sessions, Forget(s) PROVE SessionInv' BY <1>2, <1>3 DEF Forget
<1>4. CASE UNCHANGED sessionVars BY <1>2, <1>4 DEF sessionVars
<1> QED BY <1>1, <1>3, <1>4, BeginInv, ResetInv, EditInv DEF Next, Step

-----------------------------------------------------------------------------
(* The theorems.                                                           *)

\* Whatever is saved, changed and forgotten, the tables keep their types.
THEOREM SessionTypes == Spec => []SessionTypeOK
<1>1. SessionInv => SessionTypeOK BY DEF SessionInv
<1> QED BY <1>1, SessionInit, SessionStep, PTL DEF Spec

\* A session that load_session accepts was made with the present password and
\* carries the present permissions.
THEOREM AcceptedHolds == Spec => []AcceptedIsCurrent
<1>1. SessionInv => AcceptedIsCurrent
  BY DEF SessionInv, AllFresh, FreshSession, Accepted, AcceptedIsCurrent
<1> QED BY <1>1, SessionInit, SessionStep, PTL DEF Spec

\* Only an operator who is entitled when the change commits changes a user: what
\* was checked under the lock of the operator's row holds until then.
THEOREM CommitsAuthorised == Spec => AuthorisedCommit
<1>1. SessionInv /\ [Next]_sessionVars =>
        [\A p \in Thread : row' # row /\ job'[p] # job[p] => Entitled(p)]_sessionVars
  <2> SUFFICES ASSUME SessionInv, Next, NEW p \in Thread, row' # row, job'[p] # job[p]
               PROVE  Entitled(p)
    OBVIOUS
  <2>1. ASSUME NEW q \in Thread, ~(ResetWrite(q) \/ EditWrite(q) \/ CreateWrite(q)),
               Request(q) \/ Step(q) \/ Die(q)
        PROVE  row' = row
    <3>1. CASE Request(q) BY <3>1 DEF Request, Login, Reset, Change, Begin
    <3>2. CASE Step(q)
      BY <2>1, <3>2 DEF Step, LoginTouch, LoginSave, ResetFirst, ResetSecond, ResetCheck,
                        Operate, OperateCheck, EditTarget
    <3> QED BY <2>1, <3>1, <3>2 DEF Die
  <2>2. PICK q \in Thread : ResetWrite(q) \/ EditWrite(q) \/ CreateWrite(q)
    BY <2>1 DEF Next, Forget
  <2>3. job' = [job EXCEPT ![q] = Idle] BY <2>2 DEF ResetWrite, EditWrite, CreateWrite, End
  <2>4. p = q BY <2>3 DEF SessionInv, SessionTypeOK
  <2>5. job[q].pc \in {"rwrite", "ewrite", "cwrite"} BY <2>2 DEF ResetWrite, EditWrite, CreateWrite
  <2> QED BY <2>4, <2>5 DEF SessionInv, Checked
<1> QED BY <1>1, SessionInit, SessionStep, PTL DEF Spec, AuthorisedCommit

\* A thread that holds rows and waits for another waits for a later one than it
\* holds: rows are locked in the order of their ids, and admin's is the first.
LEMMA LockOrder ==
  ASSUME SessionInv, NEW p \in Thread, NEW u \in Held(p), NEW v \in Awaited(p), lock[v] # p
  PROVE  u < v
<1>1. Operator(p) \in User /\ Target(p) \in User
  BY DEF SessionInv, SessionTypeOK, Job, Session, Operator, Target
<1>2. First(p) \in User /\ Second(p) \in User /\ First(p) <= Second(p)
  BY <1>1, SessionAssumption DEF First, Second, User
<1>3. job[p].pc \in {"rsecond", "etarget"} BY DEF Held, Awaited
<1>4. CASE job[p].pc = "rsecond"
  <2>1. u = First(p) /\ v = Second(p) BY <1>4 DEF Held, Awaited
  <2>2. lock[u] = p BY <1>2, <2>1 DEF SessionInv, LocksHeld
  <2> QED BY <1>2, <2>1, <2>2, SessionAssumption DEF User
<1>5. CASE job[p].pc = "etarget"
  <2>1. u = Operator(p) /\ v = Target(p) /\ u = Admin
    BY <1>5 DEF Held, Awaited, SessionInv, Checked
  <2>2. lock[u] = p BY <1>1, <2>1 DEF SessionInv, LocksHeld
  <2> QED BY <1>1, <2>1, <2>2, SessionAssumption DEF User, Admin
<1> QED BY <1>3, <1>4, <1>5

\* Resets, edits and logins never wait for each other in a circle: of the threads
\* of a circle the one that waits for the last row would have to wait for one that
\* waits for a later row still.
THEOREM NoCircle == Spec => []NoLockCycle
<1>1. SessionInv => NoLockCycle
  <2> SUFFICES ASSUME SessionInv, NEW S \in (SUBSET Thread) \ {{}},
                      \A p \in S : \E q \in S : Waits(p, q)
               PROVE  FALSE
    BY DEF NoLockCycle
  <2> DEFINE Rowed == UNION {Awaited(p) : p \in S}
             Gaps == {N - u : u \in Rowed}
  <2>1. \A p \in Thread : Awaited(p) \subseteq User
    BY DEF Awaited, First, Second, Operator, Target, SessionInv, SessionTypeOK, Job, Session
  <2>2. Rowed \subseteq User BY <2>1
  <2>3. Rowed # {} BY DEF Waits
  <2>4. Gaps \subseteq Nat /\ Gaps # {} BY <2>2, <2>3, SessionAssumption DEF User
  <2>5. PICK u \in Rowed : \A v \in Rowed : ~(N - v < N - u)
    <3>1. PICK x \in Gaps : \A y \in Gaps : ~(<<y, x>> \in OpToRel(<, Nat))
      BY <2>4, WFMin, NatLessThanWellFounded
    <3>2. \A y \in Gaps : ~(y < x) BY <2>4, <3>1 DEF OpToRel
    <3> QED BY <3>2
  <2>6. PICK p \in S : u \in Awaited(p) OBVIOUS
  <2>7. PICK q \in S : Waits(p, q) OBVIOUS
  <2>8. lock[u] = q
    <3>1. \E w \in Awaited(p) : lock[w] = q BY <2>7 DEF Waits
    <3>2. \A w \in Awaited(p) : w = u BY <2>6 DEF Awaited
    <3> QED BY <3>1, <3>2
  <2>9. u \in Held(q) BY <2>2, <2>8 DEF SessionInv, LocksHeld
  <2>10. PICK r \in S : Waits(q, r) OBVIOUS
  <2>11. PICK v \in Awaited(q) : lock[v] = r /\ r # q BY <2>10 DEF Waits
  <2>12. u < v BY <2>9, <2>11, LockOrder
  <2>13. v \in Rowed /\ v \in 1..N /\ u \in 1..N BY <2>2 DEF User
  <2>14. ~(N - v < N - u) BY <2>5, <2>13
  <2>15. N \in Nat BY SessionAssumption
  <2> HIDE DEF Rowed
  <2> QED BY <2>12, <2>13, <2>14, <2>15
<1> QED BY <1>1, SessionInit, SessionStep, PTL DEF Spec
-----------------------------------------------------------------------------
(***************************************************************************)
(* The six parts of MCConsole, of which one runs.                          *)
(***************************************************************************)

\* The part that runs keeps the invariant its own proof rests on.
PartInv ==
  /\ part \in Parts
  /\ part = "instances" => OwnedInv
  /\ part = "hosts" => HostInv
  /\ part = "redis" => ImportInv /\ SummaryInv
  /\ part = "pool" => PoolInv
  /\ part = "platforms" => PlatInv
  /\ part = "workloads" => WorkloadInv /\ Typed
  /\ part = "sessions" => SessionInv

LEMMA PartInit == ConsoleInit => PartInv
BY OwnedInit, HostInitInv, ImportInit, SummaryInit, PoolInitInv, PlatInitInv, WorkloadInitInv, TypedInit,
   SessionInit DEF ConsoleInit, PartInv

\* A step of one part is a step of its own specification, and none of another's.
LEMMA PartMoves ==
  ASSUME [ConsoleNext]_consoleVars, part \in Parts
  PROVE  /\ part' = part
         /\ part = "instances" => [InstNext]_instVars
         /\ part = "hosts" => [HostNext]_hostVars
         /\ part = "redis" => [RedisNext]_redisVars
         /\ part = "pool" => [PoolNext]_poolVars
         /\ part = "platforms" => [PlatNext]_platVars
         /\ part = "workloads" => [WorkloadNext]_workloadVars
         /\ part = "sessions" => [Next]_sessionVars
BY DEF ConsoleNext, consoleVars, Parts

LEMMA PartStep == PartInv /\ [ConsoleNext]_consoleVars => PartInv'
<1> SUFFICES ASSUME PartInv, [ConsoleNext]_consoleVars PROVE PartInv' OBVIOUS
<1>1. part' = part BY PartMoves DEF PartInv
<1>2. part = "instances" => OwnedInv' BY PartMoves, OwnedStep DEF PartInv
<1>3. part = "hosts" => HostInv' BY PartMoves, HostStepInv DEF PartInv
<1>4. part = "redis" => ImportInv' /\ SummaryInv' BY PartMoves, ImportStep, SummaryStep DEF PartInv
<1>5. part = "pool" => PoolInv' BY PartMoves, PoolStepInv DEF PartInv
<1>6. part = "platforms" => PlatInv' BY PartMoves, PlatStepInv DEF PartInv
<1>7. part = "workloads" => WorkloadInv' /\ Typed' BY PartMoves, WorkloadStepInv, TypedStep DEF PartInv
<1>8. part = "sessions" => SessionInv' BY PartMoves, SessionStep DEF PartInv
<1> QED BY <1>1, <1>2, <1>3, <1>4, <1>5, <1>6, <1>7, <1>8 DEF PartInv

\* Whichever part runs, its tables and requests keep their types.
THEOREM ConsoleTypes == ConsoleSpec => []ConsoleTypeOK
<1>1. PartInv => ConsoleTypeOK
  BY InstTyped, HostTyped, RedisTyped, PlatTyped
     DEF PartInv, Parts, ConsoleTypeOK, PoolInv, Typed, SessionInv
<1> QED BY <1>1, PartInit, PartStep, PTL DEF ConsoleSpec
=============================================================================
