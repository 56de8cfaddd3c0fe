------------------------- MODULE ManagedAccountsProofs -------------------------
(***************************************************************************)
(* Proofs about ManagedAccounts, for any number of accounts, privileges,   *)
(* request threads, workers, external changes and late statements.  No     *)
(* lock keeps the handlers apart; the statuses do.  At the end, the types  *)
(* of MCAccounts, where the actions or the managed accounts run.           *)
(***************************************************************************)
EXTENDS MCAccounts, AccountActionsProofs

-----------------------------------------------------------------------------
(* The invariant.                                                          *)

\* The labels of a request that works for a record: a creation past its insertion,
\* an undo request, a verification.
AtRow == MgrLabel \ {"idle", "save", "cname", "cinsert"}

OnRow(p, a) == mgr[p].pc \in AtRow /\ mgr[p].acct = a

\* The worker has the row in its batch or in its hands.
Claims(w, a) == (wrk[w].pc # "idle" /\ wrk[w].acct = a) \/ a \in wrk[w].todo

Creating(p) == mgr[p].creating /\ mgr[p].pc \in AtRow

\* A record never disappears, and whoever works for one finds it.
HasRecord ==
    /\ \A a \in Account : record[a].made => record[a].status # "absent"
    /\ \A p \in AcctReq : mgr[p].pc \in AtRow => record[MgrAcct(p)].status # "absent"
    /\ \A w \in Worker, a \in Account : Claims(w, a) => record[a].status # "absent"
    /\ \A p \in AcctReq : mgr[p].pc \in CreateLabel => mgr[p].creating

\* While a creation runs its record says so, which keeps verifications, undo
\* requests, other creations and the workers away from the account.
Exclusive == \A p \in AcctReq : Creating(p) =>
    /\ record[MgrAcct(p)].status \in {"provisioning", "verifying"}
    /\ record[MgrAcct(p)].aged = FALSE
    /\ \A q \in AcctReq \ {p} : ~OnRow(q, MgrAcct(p))
    /\ \A w \in Worker : ~Claims(w, MgrAcct(p))

\* What a request has read of its account holds until it writes or acts, unless the
\* account was changed from outside since; an account that is gone stays gone.
MgrSeen(p) ==
    \/ p \in stirred
    \/ /\ mgr[p].pc = "rdrop" => Remote(MgrAcct(p)).mark \/ ~Remote(MgrAcct(p)).live
       /\ mgr[p].pc = "rwrite" => ~Remote(MgrAcct(p)).live
       /\ mgr[p].pc = "cactive" => Verified(MgrAcct(p))

\* The same for the workers.
Cut(a) == ~Remote(a).live \/ Remote(a).lock = "locked" \/ Remote(a).cut

RowSeen(w) ==
    \/ w \in stirred
    \/ /\ wrk[w].pc = "xexpire" => Remote(wrk[w].acct).mark \/ ~Remote(wrk[w].acct).live
       /\ wrk[w].pc = "xwrite" => Cut(wrk[w].acct)

\* What holds beside any other handler of the accounts (AccountLifecycleProofs).
BaseInv == ManagedTypeOK /\ HasRecord

ManagedInv == /\ BaseInv
              /\ Exclusive
              /\ \A p \in AcctReq : MgrSeen(p)
              /\ \A w \in Worker : RowSeen(w)

-----------------------------------------------------------------------------
(* Threads and workers.                                                    *)

MgrTypes == mgr \in [AcctReq -> MgrThread]
WrkTypes == wrk \in [Worker -> WrkThread]

Others(p) == \A q \in AcctReq \ {p} : mgr'[q] = mgr[q]
OtherWorkers(w) == \A v \in Worker \ {w} : wrk'[v] = wrk[v]

\* A thread goes on with its request.
Goes(p, l) == /\ mgr'[p].pc = l /\ mgr'[p].acct = mgr[p].acct /\ mgr'[p].creating = mgr[p].creating
              /\ mgr'[p].want = mgr[p].want
              /\ Others(p)

LEMMA Labels ==
    /\ MgrLabel = {"idle", "save", "cname", "cinsert", "ccreate", "cplan", "cgrant", "cverifying", "cverify",
                   "cactive", "cfail", "cunsure", "rlist", "rdrop", "rcheck", "rwrite",
                   "vremote", "vactive", "vcleanup"}
    /\ AtRow = {"ccreate", "cplan", "cgrant", "cverifying", "cverify",
                "cactive", "cfail", "cunsure", "rlist", "rdrop", "rcheck", "rwrite",
                "vremote", "vactive", "vcleanup"}
    /\ CreateLabel = {"cname", "cinsert", "ccreate", "cplan", "cgrant", "cverifying", "cverify",
                      "cactive", "cfail", "cunsure"}
BY DEF MgrLabel, CreateLabel, RollbackLabel, AtRow

LEMMA OneThread ==
    ASSUME MgrTypes, NEW p \in AcctReq, NEW r \in MgrThread, mgr' = [mgr EXCEPT ![p] = r]
    PROVE  MgrTypes' /\ mgr'[p] = r /\ Others(p)
BY DEF MgrTypes, Others

LEMMA IdleType == MgrIdle \in MgrThread /\ MgrIdle.pc = "idle" /\ ~MgrIdle.creating
<1>1. AnyAccount \in Account BY PlatformAssumption DEF AnyAccount
<1>2. MgrIdle \in MgrThread /\ MgrIdle.pc = "idle" BY <1>1, Labels DEF MgrIdle, MgrThread
<1>3. ~MgrIdle.creating BY Zenon DEF MgrIdle
<1> QED BY <1>2, <1>3

LEMMA GotoFacts ==
    ASSUME MgrTypes, NEW p \in AcctReq, NEW l \in MgrLabel, MgrGoto(p, l)
    PROVE  MgrTypes' /\ Goes(p, l) /\ mgr'[p].grant = mgr[p].grant
<1> DEFINE r == [mgr[p] EXCEPT !.pc = l]
<1>1. /\ r \in MgrThread /\ r.pc = l /\ r.acct = mgr[p].acct /\ r.creating = mgr[p].creating
      /\ r.want = mgr[p].want /\ r.grant = mgr[p].grant
    BY DEF MgrTypes, MgrThread
<1>2. mgr' = [mgr EXCEPT ![p] = r] BY DEF MgrGoto
<1> HIDE DEF r
<1> QED BY <1>1, <1>2, OneThread DEF Goes

LEMMA EndFacts ==
    ASSUME MgrTypes, NEW p \in AcctReq, MgrEnd(p)
    PROVE  MgrTypes' /\ mgr'[p].pc = "idle" /\ Others(p)
BY IdleType, OneThread DEF MgrEnd

LEMMA BeginFacts ==
    ASSUME MgrTypes, NEW p \in AcctReq, NEW l \in MgrLabel, NEW a \in Account, MgrBegin(p, l, a)
    PROVE  /\ MgrTypes' /\ mgr[p].pc = "idle" /\ Others(p)
           /\ mgr'[p].pc = l /\ mgr'[p].acct = a /\ ~mgr'[p].creating
<1> DEFINE r == [MgrIdle EXCEPT !.pc = l, !.acct = a]
<1>1. r \in MgrThread /\ r.pc = l /\ r.acct = a BY IdleType DEF MgrIdle, MgrThread
<1>3. ~r.creating BY Zenon DEF MgrIdle
<1>2. mgr' = [mgr EXCEPT ![p] = r] /\ mgr[p].pc = "idle" BY DEF MgrBegin
<1> HIDE DEF r
<1> QED BY <1>1, <1>2, <1>3, OneThread

LEMMA CreateFacts ==
    ASSUME MgrTypes, NEW p \in AcctReq, NEW a \in Account, NEW want \in SUBSET Priv, NEW timed \in BOOLEAN,
           Create(p, a, want, timed)
    PROVE  MgrTypes' /\ mgr'[p].pc = "cname" /\ mgr'[p].creating /\ Others(p)
<1> DEFINE r == [MgrIdle EXCEPT !.pc = "cname", !.acct = a, !.creating = TRUE, !.timed = timed, !.want = want]
<1>1. r \in MgrThread /\ r.pc = "cname" BY IdleType, Labels DEF MgrIdle, MgrThread
<1>3. r.creating BY Zenon DEF MgrIdle
<1>2. mgr' = [mgr EXCEPT ![p] = r] BY DEF Create
<1> HIDE DEF r
<1> QED BY <1>1, <1>2, <1>3, OneThread

\* A thread takes its plan, and strikes what it has granted.
LEMMA GrantFacts ==
    ASSUME MgrTypes, NEW p \in AcctReq, NEW l \in MgrLabel, NEW todo \in SUBSET Priv,
           mgr' = [mgr EXCEPT ![p] = [mgr[p] EXCEPT !.pc = l, !.grant = todo]]
    PROVE  MgrTypes' /\ Goes(p, l)
<1> DEFINE r == [mgr[p] EXCEPT !.pc = l, !.grant = todo]
<1>1. /\ r \in MgrThread /\ r.pc = l /\ r.acct = mgr[p].acct /\ r.creating = mgr[p].creating
      /\ r.want = mgr[p].want /\ r.grant = todo
    BY DEF MgrTypes, MgrThread
<1>2. mgr' = [mgr EXCEPT ![p] = r] OBVIOUS
<1> HIDE DEF r
<1> QED BY <1>1, <1>2, OneThread DEF Goes

LEMMA StrikeFacts ==
    ASSUME MgrTypes, NEW p \in AcctReq, NEW g, mgr' = [mgr EXCEPT ![p].grant = @ \ {g}]
    PROVE  MgrTypes' /\ Goes(p, mgr[p].pc)
<1> DEFINE r == [mgr[p] EXCEPT !.grant = mgr[p].grant \ {g}]
<1>1. /\ r \in MgrThread /\ r.pc = mgr[p].pc /\ r.acct = mgr[p].acct /\ r.creating = mgr[p].creating
      /\ r.want = mgr[p].want
    BY DEF MgrTypes, MgrThread
<1>2. mgr' = [mgr EXCEPT ![p] = r] OBVIOUS
<1> HIDE DEF r
<1> QED BY <1>1, <1>2, OneThread DEF Goes

LEMMA OneWorker ==
    ASSUME WrkTypes, NEW w \in Worker, NEW r \in WrkThread, wrk' = [wrk EXCEPT ![w] = r]
    PROVE  WrkTypes' /\ wrk'[w] = r /\ OtherWorkers(w)
BY DEF WrkTypes, OtherWorkers

LEMMA GotoRowFacts ==
    ASSUME WrkTypes, NEW w \in Worker, NEW l \in {"idle", "xverify", "xexpire", "xwrite"}, GotoRow(w, l)
    PROVE  /\ WrkTypes' /\ OtherWorkers(w)
           /\ wrk'[w].pc = l /\ wrk'[w].acct = wrk[w].acct /\ wrk'[w].todo = wrk[w].todo
<1> DEFINE r == [wrk[w] EXCEPT !.pc = l]
<1>1. r \in WrkThread /\ r.pc = l /\ r.acct = wrk[w].acct /\ r.todo = wrk[w].todo
    BY DEF WrkTypes, WrkThread
<1>2. wrk' = [wrk EXCEPT ![w] = r] BY DEF GotoRow
<1> HIDE DEF r
<1> QED BY <1>1, <1>2, OneWorker

LEMMA RowErrorFacts ==
    ASSUME WrkTypes, NEW w \in Worker,
           \/ RowError(w)
           \/ wrk' = [wrk EXCEPT ![w] = [wrk[w] EXCEPT !.pc = "idle", !.todo = {}]]
    PROVE  /\ WrkTypes' /\ OtherWorkers(w)
           /\ wrk'[w].pc = "idle" /\ wrk'[w].todo \subseteq wrk[w].todo
<1>1. CASE GotoRow(w, "idle") BY <1>1, GotoRowFacts
<1>2. CASE wrk' = [wrk EXCEPT ![w] = [wrk[w] EXCEPT !.pc = "idle", !.todo = {}]]
    <2> DEFINE r == [wrk[w] EXCEPT !.pc = "idle", !.todo = {}]
    <2>1. r \in WrkThread /\ r.pc = "idle" /\ r.todo = {} BY DEF WrkTypes, WrkThread
    <2>2. wrk' = [wrk EXCEPT ![w] = r] BY <1>2
    <2> HIDE DEF r
    <2> QED BY <2>1, <2>2, OneWorker
<1> QED BY <1>1, <1>2 DEF RowError

LEMMA NextRowFacts ==
    ASSUME WrkTypes, NEW w \in Worker, NEW a \in Account, NextRow(w, a)
    PROVE  /\ WrkTypes' /\ OtherWorkers(w) /\ a \in wrk[w].todo
           /\ wrk'[w].pc = "xverify" /\ wrk'[w].acct = a /\ wrk'[w].todo \subseteq wrk[w].todo
<1> DEFINE r == [pc |-> "xverify", acct |-> a, todo |-> wrk[w].todo \ {a}]
<1>1. wrk[w] \in WrkThread BY DEF WrkTypes
<1>2. r \in WrkThread BY <1>1 DEF WrkThread
<1>3. wrk' = [wrk EXCEPT ![w] = r] /\ a \in wrk[w].todo BY DEF NextRow
<1>4. r.pc = "xverify" /\ r.acct = a /\ r.todo \subseteq wrk[w].todo OBVIOUS
<1> HIDE DEF r
<1> QED BY <1>2, <1>3, <1>4, OneWorker

-----------------------------------------------------------------------------
(* Records.                                                                *)

RecTypes == record \in [Account -> RecordRow]

OtherRecords(a) == \A b \in Account \ {a} : record'[b] = record[b]

LEMMA OneRecord ==
    ASSUME RecTypes, NEW a \in Account, NEW r \in RecordRow, record' = [record EXCEPT ![a] = r]
    PROVE  RecTypes' /\ record'[a] = r /\ OtherRecords(a)
BY DEF RecTypes, OtherRecords

LEMMA WriteFacts ==
    ASSUME RecTypes, NEW a \in Account, NEW st \in RecordStatus, NEW c \in BOOLEAN, Write(a, st, c)
    PROVE  /\ RecTypes' /\ OtherRecords(a) /\ record'[a].status = st /\ record'[a].aged = FALSE
           /\ record'[a].planned = record[a].planned /\ record'[a].plan = record[a].plan
<1> DEFINE r == [record[a] EXCEPT !.status = st, !.confirmed = c, !.aged = FALSE]
<1>1. /\ r \in RecordRow /\ r.status = st /\ r.aged = FALSE
      /\ r.planned = record[a].planned /\ r.plan = record[a].plan
    BY DEF RecTypes, RecordRow
<1>2. record' = [record EXCEPT ![a] = r] BY DEF Write
<1> HIDE DEF r
<1> QED BY <1>1, <1>2, OneRecord

LEMMA PlanFacts ==
    ASSUME RecTypes, NEW a \in Account, NEW g \in SUBSET Priv,
           record' = [record EXCEPT ![a] = [record[a] EXCEPT !.planned = TRUE, !.aged = FALSE, !.plan = g]]
    PROVE  /\ RecTypes' /\ OtherRecords(a) /\ record'[a].status = record[a].status
           /\ record'[a].aged = FALSE
<1> DEFINE r == [record[a] EXCEPT !.planned = TRUE, !.aged = FALSE, !.plan = g]
<1>1. r \in RecordRow /\ r.status = record[a].status /\ r.aged = FALSE BY DEF RecTypes, RecordRow
<1> HIDE DEF r
<1> QED BY <1>1, OneRecord DEF r

LEMMA InsertFacts ==
    ASSUME RecTypes, NEW a \in Account, NEW t \in BOOLEAN,
           record' = [record EXCEPT ![a] = [NoRecord EXCEPT !.status = "provisioning", !.timed = t, !.made = TRUE]]
    PROVE  /\ RecTypes' /\ OtherRecords(a) /\ record'[a].status = "provisioning" /\ record'[a].aged = FALSE
<1> DEFINE r == [NoRecord EXCEPT !.status = "provisioning", !.timed = t, !.made = TRUE]
<1>1. r \in RecordRow /\ r.status = "provisioning" /\ r.aged = FALSE
    BY DEF RecordRow, NoRecord, RecordStatus
<1> HIDE DEF r
<1> QED BY <1>1, OneRecord DEF r

\* A record by hand changes the status of an absent or deleted one only.
LEMMA SaveFacts ==
    ASSUME RecTypes, NEW p \in AcctReq, MgrAcct(p) \in Account, Save(p)
    PROVE  LET a == MgrAcct(p) IN
           /\ RecTypes' /\ OtherRecords(a) /\ record'[a].status # "absent" /\ record'[a].aged = FALSE
           /\ record'[a].planned = record[a].planned /\ record'[a].plan = record[a].plan
           /\ record'[a].status = record[a].status \/ record[a].status \in {"absent", "deleted"}
<1> DEFINE a == MgrAcct(p)
           r == IF record[a].status \in {"absent", "deleted"}
                THEN [record[a] EXCEPT !.status = "recorded", !.typed = TRUE, !.timed = FALSE,
                                       !.due = FALSE, !.aged = FALSE]
                ELSE [record[a] EXCEPT !.typed = TRUE, !.aged = FALSE]
<1>1. record[a] \in RecordRow BY DEF RecTypes
<1>2. /\ r \in RecordRow /\ r.status # "absent" /\ r.aged = FALSE
      /\ r.planned = record[a].planned /\ r.plan = record[a].plan
      /\ r.status = record[a].status \/ record[a].status \in {"absent", "deleted"}
    <2>1. CASE record[a].status \in {"absent", "deleted"}
        BY <1>1, <2>1 DEF RecordRow, RecordStatus
    <2>2. CASE record[a].status \notin {"absent", "deleted"}
        BY <1>1, <2>2 DEF RecordRow, RecordStatus
    <2> QED BY <2>1, <2>2
<1>3. record' = [record EXCEPT ![a] = r] BY DEF Save
<1> HIDE DEF r
<1> QED BY <1>2, <1>3, OneRecord

-----------------------------------------------------------------------------
(* Types.                                                                  *)

ThreadStep(p) == (\E a \in Account : MgrRequest(p, a)) \/ ManagedStep(p) \/ MgrDie(p)

WorkStep(w) == (\E b \in SUBSET Account : Claim(w, b)) \/ WorkerStep(w) \/ WorkerDie(w)

ClockStep == \E a \in Account : Due(a) \/ Lapse(a) \/ AgeRecord(a)

LEMMA TypesOf ==
    ASSUME ManagedTypeOK
    PROVE  /\ PlatformTypeOK /\ MgrTypes /\ WrkTypes /\ RecTypes /\ server \in [Account -> ServerRow]
           /\ \A p \in AcctReq : MgrAcct(p) \in Account /\ mgr[p].want \in SUBSET Priv /\ mgr[p].grant \in SUBSET Priv
                                 /\ mgr[p].timed \in BOOLEAN
           /\ \A w \in Worker : wrk[w].acct \in Account /\ wrk[w].todo \in SUBSET Account
<1>1. PlatformTypeOK /\ MgrTypes /\ WrkTypes BY DEF ManagedTypeOK, MgrTypes, WrkTypes
<1>2. RecTypes /\ server \in [Account -> ServerRow] BY <1>1 DEF PlatformTypeOK, RecTypes
<1>3. \A p \in AcctReq : MgrAcct(p) \in Account /\ mgr[p].want \in SUBSET Priv /\ mgr[p].grant \in SUBSET Priv
                         /\ mgr[p].timed \in BOOLEAN
    BY <1>1 DEF MgrTypes, MgrThread, MgrAcct
<1>4. \A w \in Worker : wrk[w].acct \in Account /\ wrk[w].todo \in SUBSET Account
    BY <1>1 DEF WrkTypes, WrkThread
<1> QED BY <1>1, <1>2, <1>3, <1>4

\* A statement about an account, of one privilege or none.
LEMMA StatementFacts ==
    ASSUME NEW a \in Account, NEW v \in {"create", "drop", "expire", "grant"}, NEW g \in SUBSET Priv
    PROVE  /\ Statement(v, a, g) \in StatementType
           /\ Statement(v, a, g).verb = v /\ Statement(v, a, g).acct = a
BY DEF Statement, StatementType

\* What a step of a request does to the server.
Effects(p) ==
    \/ server' = server /\ late' = late
    \/ \E s \in StatementType :
          /\ s.acct = MgrAcct(p)
          /\ Executes(s) \/ Fails(s)
          /\ \/ s.verb = "drop" /\ mgr[p].pc = "rdrop"
             \/ s.verb \in {"create", "grant"} /\ mgr[p].pc \in {"ccreate", "cgrant"}

LEMMA StepEffects ==
    ASSUME ManagedTypeOK, NEW p \in AcctReq, ThreadStep(p)
    PROVE  /\ Effects(p) /\ wrk' = wrk /\ stirred' \in {stirred, stirred \ {p}}
           /\ Noted /\ UNCHANGED <<dba, advisory, actionOps, permOps>>
<1>0. PlatformTypeOK /\ MgrAcct(p) \in Account /\ mgr[p].grant \in SUBSET Priv BY TypesOf
<1>1. CASE CreateUser(p)
    <2>1. PICK s \in StatementType : s = Statement("create", MgrAcct(p), {}) BY <1>0, StatementFacts
    <2>2. s.acct = MgrAcct(p) /\ s.verb = "create" BY <1>0, <2>1, StatementFacts
    <2>3. (Executes(s) \/ Fails(s)) /\ Lockless(s.acct) BY <1>1, <2>1, <2>2 DEF CreateUser
    <2>4. Noted BY <1>0, <2>3, LocklessNoted
    <2> QED BY <1>1, <2>2, <2>3, <2>4 DEF CreateUser, Effects
<1>2. CASE RollbackDrop(p)
    <2>1. PICK s \in StatementType : s = Statement("drop", MgrAcct(p), {}) BY <1>0, StatementFacts
    <2>2. s.acct = MgrAcct(p) /\ s.verb = "drop" BY <1>0, <2>1, StatementFacts
    <2>3. (Executes(s) \/ Fails(s)) /\ Lockless(s.acct) BY <1>2, <2>1, <2>2 DEF RollbackDrop
    <2>4. Noted BY <1>0, <2>3, LocklessNoted
    <2> QED BY <1>2, <2>2, <2>3, <2>4 DEF RollbackDrop, Effects
<1>3. CASE CreateGrant(p)
    <2>1. CASE server' = server /\ late' = late
        <3>1. touched' = touched BY <1>3, <2>1 DEF CreateGrant, Lockless
        <3> QED BY <1>0, <1>3, <2>1, <3>1, IdleNoted DEF CreateGrant, Effects
    <2>2. ASSUME NEW g \in mgr[p].grant, Executes(Statement("grant", MgrAcct(p), {g})) \/ Fails(Statement("grant", MgrAcct(p), {g}))
          PROVE  Effects(p) /\ Noted
        <3>1. PICK s \in StatementType : s = Statement("grant", MgrAcct(p), {g}) BY <1>0, StatementFacts
        <3>2. s.acct = MgrAcct(p) /\ s.verb = "grant" BY <1>0, <3>1, StatementFacts
        <3>3. (Executes(s) \/ Fails(s)) /\ Lockless(s.acct) BY <1>3, <2>2, <3>1, <3>2 DEF CreateGrant
        <3>4. Noted BY <1>0, <3>3, LocklessNoted
        <3> QED BY <1>3, <3>2, <3>3, <3>4 DEF CreateGrant, Effects
    <2> QED BY <1>3, <2>1, <2>2 DEF CreateGrant
<1>4. CASE ~(CreateUser(p) \/ RollbackDrop(p) \/ CreateGrant(p))
    <2>1. /\ server' = server /\ late' = late /\ touched' = touched /\ wrk' = wrk
          /\ stirred' \in {stirred, stirred \ {p}} /\ UNCHANGED <<dba, advisory, actionOps, permOps>>
      BY <1>4 DEF ThreadStep, MgrRequest, ManagedStep, Create, CreateName, CreateInsert, CreatePlan, CreateVerifying,
                CreateVerify, CreateActive, CreateFail, CreateUnsure, Undo, RollbackList, RollbackCheck,
                RollbackWrite, CheckOperation, CheckRemote, CheckActive, CheckCleanup, SavePassword, Save, MgrDie,
                Looks, platformVars
    <2> QED BY <1>0, <2>1, IdleNoted DEF Effects
<1> QED BY <1>1, <1>2, <1>3, <1>4

LEMMA EffectsTypes ==
    ASSUME ManagedTypeOK, NEW p \in AcctReq, Effects(p)
    PROVE  server' \in [Account -> ServerRow] /\ late' \in SUBSET StatementType
<1>0. PlatformTypeOK BY TypesOf
<1>1. CASE server' = server /\ late' = late BY <1>0, <1>1 DEF PlatformTypeOK, StatementType
<1>2. CASE \E s \in StatementType : Executes(s) \/ Fails(s) BY <1>0, <1>2, StatementTypes
<1> QED BY <1>1, <1>2 DEF Effects

-----------------------------------------------------------------------------
(* What a step of a request does to its thread and to its record.          *)

\* It ends, or has not come to a record yet; its last write may be a record by hand.
Leaves(p) ==
    /\ mgr'[p].pc \notin AtRow
    /\ mgr'[p].pc \in CreateLabel => mgr'[p].creating
    /\ \/ record' = record
       \/ /\ OtherRecords(MgrAcct(p)) /\ record'[MgrAcct(p)].status # "absent"
          /\ \/ mgr[p].pc \in AtRow
             \/ /\ record'[MgrAcct(p)].aged = FALSE
                /\ record'[MgrAcct(p)].planned = record[MgrAcct(p)].planned
                /\ record'[MgrAcct(p)].plan = record[MgrAcct(p)].plan
                /\ record'[MgrAcct(p)].status = record[MgrAcct(p)].status \/ record[MgrAcct(p)].status \in {"absent", "deleted"}

\* It works on for its record.
Stays(p) ==
    /\ mgr[p].pc \in AtRow /\ mgr'[p].pc \in AtRow
    /\ mgr'[p].acct = mgr[p].acct /\ mgr'[p].creating = mgr[p].creating
    /\ mgr'[p].pc \in CreateLabel => mgr[p].pc \in CreateLabel \/ mgr[p].creating
    /\ \/ record' = record
       \/ /\ OtherRecords(MgrAcct(p)) /\ record'[MgrAcct(p)].aged = FALSE
          /\ record'[MgrAcct(p)].status \in {record[MgrAcct(p)].status, "verifying"}

\* An undo request or a verification begins, of no creation that runs.
Enters(p) ==
    /\ mgr[p].pc = "idle" /\ mgr'[p].pc \in AtRow \ CreateLabel /\ ~mgr'[p].creating
    /\ record' = record
    /\ record[mgr'[p].acct].status # "absent"
    /\ record[mgr'[p].acct].status \in {"provisioning", "verifying"} => record[mgr'[p].acct].aged

\* A creation inserts its record.
Inserts(p) ==
    /\ mgr[p].pc = "cinsert" /\ mgr'[p].pc = "ccreate"
    /\ mgr'[p].acct = mgr[p].acct /\ mgr'[p].creating = mgr[p].creating
    /\ record[MgrAcct(p)].status = "absent" /\ OtherRecords(MgrAcct(p))
    /\ record'[MgrAcct(p)].status = "provisioning" /\ record'[MgrAcct(p)].aged = FALSE

LEMMA RowMoves ==
    ASSUME BaseInv, NEW p \in AcctReq, ThreadStep(p)
    PROVE  /\ MgrTypes' /\ RecTypes' /\ Others(p)
           /\ Leaves(p) \/ Stays(p) \/ Enters(p) \/ Inserts(p)
<1>0. /\ MgrTypes /\ RecTypes /\ HasRecord
      /\ MgrAcct(p) \in Account /\ mgr[p].want \in SUBSET Priv /\ mgr[p].grant \in SUBSET Priv /\ mgr[p].timed \in BOOLEAN
    BY TypesOf DEF BaseInv
<1>r. record[MgrAcct(p)] \in RecordRow BY <1>0 DEF RecTypes
<1> DEFINE Goal == MgrTypes' /\ RecTypes' /\ Others(p) /\ (Leaves(p) \/ Stays(p) \/ Enters(p) \/ Inserts(p))
<1>a. ASSUME record' = record, NEW l \in MgrLabel, MgrGoto(p, l),
             \/ mgr[p].pc \in AtRow /\ l \in AtRow /\ (l \in CreateLabel => mgr[p].pc \in CreateLabel \/ mgr[p].creating)
             \/ l \notin AtRow /\ (l \in CreateLabel => mgr[p].creating)
      PROVE  Goal
    <2>1. MgrTypes' /\ Goes(p, l) BY <1>0, <1>a, GotoFacts
    <2>2. RecTypes' BY <1>0, <1>a DEF RecTypes
    <2> QED BY <1>a, <2>1, <2>2 DEF Goes, Leaves, Stays
<1>b. ASSUME record' = record, MgrEnd(p) PROVE Goal
    <2>1. MgrTypes' /\ mgr'[p].pc = "idle" /\ Others(p) BY <1>0, <1>b, EndFacts
    <2>2. RecTypes' BY <1>0, <1>b DEF RecTypes
    <2> QED BY <1>b, <2>1, <2>2, Labels DEF Leaves
<1>c. ASSUME NEW st \in RecordStatus \ {"absent"}, NEW c \in BOOLEAN, Write(MgrAcct(p), st, c), MgrEnd(p), mgr[p].pc \in AtRow
      PROVE  Goal
    <2>1. MgrTypes' /\ mgr'[p].pc = "idle" /\ Others(p) BY <1>0, <1>c, EndFacts
    <2>2. RecTypes' /\ OtherRecords(MgrAcct(p)) /\ record'[MgrAcct(p)].status = st BY <1>0, <1>c, WriteFacts
    <2> QED BY <1>c, <2>1, <2>2, Labels DEF Leaves
<1>1. ASSUME NEW a \in Account, NEW want \in SUBSET Priv, NEW timed \in BOOLEAN, Create(p, a, want, timed) PROVE Goal
    <2>1. MgrTypes' /\ mgr'[p].pc = "cname" /\ mgr'[p].creating /\ Others(p) BY <1>0, <1>1, CreateFacts
    <2>2. record' = record BY <1>1 DEF Create, platformVars
    <2>3. RecTypes' BY <1>0, <2>2 DEF RecTypes
    <2> QED BY <2>1, <2>2, <2>3, Labels DEF Leaves
<1>2. ASSUME NEW a \in Account, NEW l \in {"rlist", "vremote"}, MgrBegin(p, l, a), record' = record,
             record[a].status # "absent", record[a].status \in {"provisioning", "verifying"} => record[a].aged
      PROVE  Goal
    <2>1. /\ MgrTypes' /\ mgr[p].pc = "idle" /\ Others(p)
          /\ mgr'[p].pc = l /\ mgr'[p].acct = a /\ ~mgr'[p].creating
        BY <1>0, <1>2, BeginFacts, Labels
    <2>2. RecTypes' BY <1>0, <1>2 DEF RecTypes
    <2> QED BY <1>2, <2>1, <2>2, Labels DEF Enters
<1>3. ASSUME NEW a \in Account, Undo(p, a) \/ CheckOperation(p, a) PROVE Goal
    <2>1. record' = record /\ record[a].status # "absent" BY <1>0, <1>3 DEF Undo, CheckOperation, platformVars, HasRecord
    <2>2. CASE Undo(p, a) BY <1>2, <2>1, <2>2 DEF Undo
    <2>3. CASE CheckOperation(p, a) BY <1>2, <2>1, <2>3 DEF CheckOperation
    <2> QED BY <1>3, <2>2, <2>3
<1>4. ASSUME NEW a \in Account, SavePassword(p, a) PROVE Goal
    <2>1. record' = record BY <1>4 DEF SavePassword, platformVars
    <2>2. MgrTypes' /\ Others(p) /\ mgr'[p].pc = "save" BY <1>0, <1>4, BeginFacts, Labels DEF SavePassword
    <2>3. RecTypes' BY <1>0, <2>1 DEF RecTypes
    <2> QED BY <2>1, <2>2, <2>3, Labels DEF Leaves
<1>5. CASE CreateName(p)
    <2>1. record' = record /\ mgr[p].pc = "cname" /\ mgr[p].creating
        BY <1>0, <1>5, Labels DEF CreateName, platformVars, HasRecord
    <2> QED BY <1>5, <1>a, <1>b, <2>1, Labels DEF CreateName
<1>6. CASE CreateInsert(p)
    <2>1. CASE MgrEnd(p) /\ record' = record BY <1>b, <2>1
    <2>2. CASE /\ record[MgrAcct(p)].status = "absent"
               /\ record' = [record EXCEPT ![MgrAcct(p)] = [NoRecord EXCEPT !.status = "provisioning",
                                                           !.timed = mgr[p].timed, !.made = TRUE]]
               /\ MgrGoto(p, "ccreate")
        <3>1. /\ RecTypes' /\ OtherRecords(MgrAcct(p)) /\ record'[MgrAcct(p)].status = "provisioning"
              /\ record'[MgrAcct(p)].aged = FALSE
            BY <1>0, <2>2, InsertFacts
        <3>2. MgrTypes' /\ Goes(p, "ccreate") BY <1>0, <2>2, GotoFacts, Labels
        <3> QED BY <1>6, <2>2, <3>1, <3>2 DEF CreateInsert, Goes, Inserts
    <2> QED BY <1>6, <2>1, <2>2 DEF CreateInsert
<1>7. CASE CreateUser(p) \/ CreateVerify(p) \/ CreateFail(p)
    <2>1. record' = record /\ mgr[p].pc \in AtRow \cap CreateLabel
        BY <1>7, Labels DEF CreateUser, CreateVerify, CreateFail, platformVars
    <2>2. MgrEnd(p) \/ \E l \in AtRow : MgrGoto(p, l) /\ (l \in CreateLabel => mgr[p].pc \in CreateLabel \/ mgr[p].creating)
        BY <1>7, <2>1, Labels DEF CreateUser, CreateVerify, CreateFail
    <2> QED BY <1>a, <1>b, <2>1, <2>2, Labels
<1>8. CASE CreatePlan(p)
    <2>1. CASE MgrGoto(p, "cfail") /\ record' = record BY <1>8, <1>a, <2>1, Labels DEF CreatePlan
    <2>2. CASE /\ record' = [record EXCEPT ![MgrAcct(p)] = [@ EXCEPT !.planned = TRUE, !.aged = FALSE,
                                                          !.plan = mgr[p].want \cup Remote(MgrAcct(p)).grants]]
               /\ mgr' = [mgr EXCEPT ![p] = [@ EXCEPT !.pc = "cgrant", !.grant = mgr[p].want]]
        <3>1. mgr[p].want \cup Remote(MgrAcct(p)).grants \in SUBSET Priv
            BY <1>0, TypesOf DEF BaseInv, Remote, ServerRow
        <3>2. record' = [record EXCEPT ![MgrAcct(p)] = [record[MgrAcct(p)] EXCEPT !.planned = TRUE, !.aged = FALSE,
                                                       !.plan = mgr[p].want \cup Remote(MgrAcct(p)).grants]]
            BY <2>2
        <3>3. /\ RecTypes' /\ OtherRecords(MgrAcct(p)) /\ record'[MgrAcct(p)].status = record[MgrAcct(p)].status
              /\ record'[MgrAcct(p)].aged = FALSE
            BY <1>0, <3>1, <3>2, PlanFacts
        <3>4. MgrTypes' /\ Goes(p, "cgrant") BY <1>0, <2>2, GrantFacts, Labels
        <3>5. mgr[p].pc = "cplan" BY <1>8 DEF CreatePlan
        <3> QED BY <3>3, <3>4, <3>5, Labels DEF Goes, Stays
    <2> QED BY <1>8, <2>1, <2>2 DEF CreatePlan
<1>9. CASE CreateGrant(p)
    <2>1. record' = record /\ mgr[p].pc = "cgrant" BY <1>9 DEF CreateGrant
    <2>2. CASE \E l \in {"cverifying", "cfail"} : MgrGoto(p, l) BY <1>a, <2>1, <2>2, Labels
    <2>3. ASSUME NEW g \in mgr[p].grant, mgr' = [mgr EXCEPT ![p].grant = @ \ {g}] PROVE Goal
        <3>2. MgrTypes' /\ Goes(p, "cgrant") BY <1>0, <2>1, <2>3, StrikeFacts
        <3>3. RecTypes' BY <1>0, <2>1 DEF RecTypes
        <3> QED BY <2>1, <3>2, <3>3, Labels DEF Goes, Stays
    <2> QED BY <1>9, <2>2, <2>3 DEF CreateGrant
<1>10. CASE CreateVerifying(p)
    <2>1. mgr[p].pc = "cverifying" BY <1>10 DEF CreateVerifying
    <2>2. CASE MgrGoto(p, "cfail") /\ record' = record BY <1>a, <2>1, <2>2, Labels
    <2>3. CASE Write(MgrAcct(p), "verifying", record[MgrAcct(p)].confirmed) /\ MgrGoto(p, "cverify")
        <3>1. record[MgrAcct(p)].confirmed \in BOOLEAN BY <1>r DEF RecordRow
        <3>2. /\ RecTypes' /\ OtherRecords(MgrAcct(p)) /\ record'[MgrAcct(p)].status = "verifying"
              /\ record'[MgrAcct(p)].aged = FALSE
            BY <1>0, <2>3, <3>1, WriteFacts DEF RecordStatus
        <3>3. MgrTypes' /\ Goes(p, "cverify") BY <1>0, <2>3, GotoFacts, Labels
        <3> QED BY <2>1, <3>2, <3>3, Labels DEF Goes, Stays
    <2> QED BY <1>10, <2>2, <2>3 DEF CreateVerifying
<1>11. CASE CreateActive(p)
    <2>1. mgr[p].pc = "cactive" BY <1>11 DEF CreateActive
    <2>2. CASE MgrGoto(p, "cfail") /\ record' = record BY <1>a, <2>1, <2>2, Labels
    <2>3. CASE Write(MgrAcct(p), "active", TRUE) /\ MgrEnd(p) BY <1>c, <2>1, <2>3, Labels DEF RecordStatus
    <2> QED BY <1>11, <2>2, <2>3 DEF CreateActive
<1>12. CASE CreateUnsure(p)
    <2>1. mgr[p].pc = "cunsure" /\ MgrEnd(p) BY <1>12 DEF CreateUnsure
    <2>2. CASE record' = record BY <1>b, <2>1, <2>2
    <2>3. CASE Write(MgrAcct(p), "uncertain", record[MgrAcct(p)].confirmed)
        <3>1. record[MgrAcct(p)].confirmed \in BOOLEAN BY <1>r DEF RecordRow
        <3> QED BY <1>c, <2>1, <2>3, <3>1, Labels DEF RecordStatus
    <2> QED BY <1>12, <2>2, <2>3 DEF CreateUnsure
<1>13. CASE RollbackList(p) \/ RollbackDrop(p) \/ RollbackCheck(p)
    <2>1. record' = record /\ mgr[p].pc \in AtRow \ CreateLabel
        BY <1>13, Labels DEF RollbackList, RollbackDrop, RollbackCheck, platformVars
    <2>2. MgrEnd(p) \/ \E l \in AtRow : MgrGoto(p, l) /\ (l \in CreateLabel => mgr[p].creating)
        BY <1>13, Labels DEF RollbackList, RollbackDrop, RollbackCheck, RollbackError
    <2> QED BY <1>a, <1>b, <2>1, <2>2, Labels
<1>14. CASE RollbackWrite(p)
    <2>1. mgr[p].pc = "rwrite" BY <1>14 DEF RollbackWrite
    <2>2. CASE Write(MgrAcct(p), "failed", FALSE) /\ MgrEnd(p) BY <1>c, <2>1, <2>2, Labels DEF RecordStatus
    <2>3. CASE RollbackError(p) /\ record' = record BY <1>a, <1>b, <2>1, <2>3, Labels DEF RollbackError
    <2> QED BY <1>14, <2>2, <2>3 DEF RollbackWrite
<1>15. CASE CheckRemote(p)
    BY <1>15, <1>a, Labels DEF CheckRemote, platformVars
<1>16. CASE CheckActive(p)
    BY <1>16, <1>c, Labels DEF CheckActive, RecordStatus
<1>17. CASE CheckCleanup(p)
    <2>1. record[MgrAcct(p)].confirmed \in BOOLEAN BY <1>r DEF RecordRow
    <2> QED BY <1>17, <1>c, <2>1, Labels DEF CheckCleanup, RecordStatus
<1>18. CASE Save(p)
    <2>1. MgrTypes' /\ mgr'[p].pc = "idle" /\ Others(p) BY <1>0, <1>18, EndFacts DEF Save
    <2> QED BY <1>0, <1>18, <2>1, SaveFacts, Labels DEF Leaves
<1>19. CASE MgrDie(p)
    BY <1>19, <1>b DEF MgrDie, platformVars
<1> QED BY <1>1, <1>3, <1>4, <1>5, <1>6, <1>7, <1>8, <1>9, <1>10, <1>11, <1>12, <1>13, <1>14, <1>15, <1>16, <1>17,
           <1>18, <1>19 DEF ThreadStep, MgrRequest, ManagedStep
-----------------------------------------------------------------------------
(* A step of a request keeps the invariant.                                *)

LEMMA MgrThreadTypes ==
    ASSUME BaseInv, NEW p \in AcctReq, ThreadStep(p)
    PROVE  ManagedTypeOK'
<1>1. ManagedTypeOK BY DEF BaseInv
<1>2. MgrTypes' /\ RecTypes' BY RowMoves
<1>3. /\ Effects(p) /\ wrk' = wrk /\ stirred' \in {stirred, stirred \ {p}}
      /\ touched' \in SUBSET Account /\ UNCHANGED <<dba, advisory, actionOps, permOps>>
    BY <1>1, StepEffects DEF Noted
<1>4. server' \in [Account -> ServerRow] /\ late' \in SUBSET StatementType
    BY <1>1, <1>3, EffectsTypes
<1>5. PlatformTypeOK' BY <1>1, <1>2, <1>3, <1>4 DEF ManagedTypeOK, PlatformTypeOK, RecTypes, StatementType
<1> QED BY <1>1, <1>2, <1>3, <1>5 DEF ManagedTypeOK, MgrTypes

LEMMA ThreadRecords ==
    ASSUME BaseInv, NEW p \in AcctReq, ThreadStep(p)
    PROVE  HasRecord'
<1> DEFINE a == MgrAcct(p)
<1>0. /\ HasRecord /\ MgrAcct(p) \in Account /\ wrk' = wrk
      /\ MgrTypes' /\ RecTypes' /\ Others(p)
      /\ Leaves(p) \/ Stays(p) \/ Enters(p) \/ Inserts(p)
    BY RowMoves, StepEffects, TypesOf DEF BaseInv
<1>1. \/ record' = record
      \/ OtherRecords(a) /\ record'[a].status # "absent"
    BY <1>0 DEF Leaves, Stays, Enters, Inserts, HasRecord
<1>2. \A b \in Account : record'[b].status = "absent" => record'[b] = record[b]
    BY <1>1 DEF OtherRecords
<1>3. (\A b \in Account : record[b].made => record[b].status # "absent")'
    BY <1>0, <1>2 DEF HasRecord
<1>4. ASSUME NEW q \in AcctReq, mgr'[q].pc \in AtRow
      PROVE  record'[mgr'[q].acct].status # "absent"
    <2>1. CASE q = p
        BY <1>0, <1>1, <1>4, <2>1 DEF Leaves, Stays, Enters, Inserts, HasRecord, MgrAcct
    <2>2. CASE q # p
        <3>1. mgr'[q] = mgr[q] BY <1>0, <2>2 DEF Others
        <3>2. record[MgrAcct(q)].status # "absent" BY <1>0, <1>4, <3>1 DEF HasRecord
        <3>3. MgrAcct(q) \in Account BY TypesOf DEF BaseInv
        <3> QED BY <1>2, <3>1, <3>2, <3>3 DEF MgrAcct
    <2> QED BY <2>1, <2>2
<1>5. (\A w \in Worker, b \in Account : Claims(w, b) => record[b].status # "absent")'
    BY <1>0, <1>2 DEF HasRecord, Claims
<1>6. (\A q \in AcctReq : mgr[q].pc \in CreateLabel => mgr[q].creating)'
    <2> SUFFICES ASSUME NEW q \in AcctReq, mgr'[q].pc \in CreateLabel PROVE mgr'[q].creating
        OBVIOUS
    <2>1. CASE q # p
        <3>1. mgr'[q] = mgr[q] BY <1>0, <2>1 DEF Others
        <3> QED BY <1>0, <3>1 DEF HasRecord
    <2>2. CASE q = p
        <3>1. mgr[p].pc \in CreateLabel => mgr[p].creating BY <1>0 DEF HasRecord
        <3>2. CASE Leaves(p) BY <2>2, <3>2 DEF Leaves
        <3>3. CASE Stays(p) BY <2>2, <3>1, <3>3 DEF Stays
        <3>4. CASE Enters(p) BY <2>2, <3>4 DEF Enters
        <3>5. CASE Inserts(p) BY <2>2, <3>1, <3>5, Labels DEF Inserts
        <3> QED BY <1>0, <3>2, <3>3, <3>4, <3>5
    <2> QED BY <2>1, <2>2
<1> QED BY <1>3, <1>4, <1>5, <1>6 DEF HasRecord, MgrAcct

\* A request keeps away from the account of a creation that runs.
LEMMA CreationsApart ==
    ASSUME ManagedInv, NEW p \in AcctReq, ThreadStep(p), NEW q \in AcctReq \ {p}, Creating(q)
    PROVE  /\ ~OnRow(p, MgrAcct(q)) /\ ~OnRow(p, MgrAcct(q))'
           /\ \/ record'[MgrAcct(q)] = record[MgrAcct(q)]
              \/ /\ record'[MgrAcct(q)].status = record[MgrAcct(q)].status /\ record'[MgrAcct(q)].aged = FALSE
                 /\ record'[MgrAcct(q)].planned = record[MgrAcct(q)].planned
                 /\ record'[MgrAcct(q)].plan = record[MgrAcct(q)].plan
<1>0. /\ HasRecord /\ MgrAcct(p) \in Account /\ MgrAcct(q) \in Account /\ Others(p)
      /\ Leaves(p) \/ Stays(p) \/ Enters(p) \/ Inserts(p)
    BY RowMoves, TypesOf DEF ManagedInv, BaseInv
<1>1. /\ record[MgrAcct(q)].status \in {"provisioning", "verifying"} /\ record[MgrAcct(q)].aged = FALSE
      /\ ~OnRow(p, MgrAcct(q))
    BY DEF ManagedInv, BaseInv, Exclusive
<1>2. ~record[MgrAcct(q)].aged BY <1>1, Zenon
<1>3. mgr'[q] = mgr[q] BY <1>0 DEF Others
<1>4. mgr[p].pc \in AtRow => MgrAcct(p) # MgrAcct(q) BY <1>1 DEF OnRow, MgrAcct
<1>5. CASE Leaves(p) BY <1>0, <1>1, <1>3, <1>4, <1>5 DEF Leaves, OnRow, MgrAcct, OtherRecords
<1>6. CASE Stays(p) BY <1>0, <1>1, <1>3, <1>4, <1>6 DEF Stays, OnRow, MgrAcct, OtherRecords
<1>7. CASE Enters(p) BY <1>0, <1>1, <1>2, <1>3, <1>7 DEF Enters, OnRow, MgrAcct
<1>8. CASE Inserts(p)
    <2>1. MgrAcct(p) # MgrAcct(q) BY <1>1, <1>8 DEF Inserts
    <2> QED BY <1>0, <1>1, <1>3, <1>8, <2>1 DEF Inserts, OnRow, MgrAcct, OtherRecords
<1> QED BY <1>0, <1>5, <1>6, <1>7, <1>8

LEMMA ThreadExclusive ==
    ASSUME ManagedInv, NEW p \in AcctReq, ThreadStep(p)
    PROVE  Exclusive'
<1>0. /\ HasRecord /\ Exclusive /\ MgrAcct(p) \in Account /\ Others(p) /\ wrk' = wrk
      /\ Leaves(p) \/ Stays(p) \/ Enters(p) \/ Inserts(p)
    BY RowMoves, TypesOf, StepEffects DEF ManagedInv, BaseInv
<1> SUFFICES ASSUME NEW q \in AcctReq, Creating(q)'
             PROVE  /\ record'[MgrAcct(q)'].status \in {"provisioning", "verifying"}
                    /\ record'[MgrAcct(q)'].aged = FALSE
                    /\ \A r \in AcctReq \ {q} : ~OnRow(r, MgrAcct(q))'
                    /\ \A w \in Worker : ~Claims(w, MgrAcct(q))'
    BY DEF Exclusive
<1>1. CASE q # p
    <2>1. mgr'[q] = mgr[q] BY <1>0, <1>1 DEF Others
    <2>2. Creating(q) /\ MgrAcct(q)' = MgrAcct(q) BY <2>1 DEF Creating, MgrAcct
    <2>3. /\ record[MgrAcct(q)].status \in {"provisioning", "verifying"} /\ record[MgrAcct(q)].aged = FALSE
          /\ \A r \in AcctReq \ {q} : ~OnRow(r, MgrAcct(q))
          /\ \A w \in Worker : ~Claims(w, MgrAcct(q))
        BY <1>0, <2>2 DEF Exclusive
    <2>4. /\ ~OnRow(p, MgrAcct(q))'
          /\ record'[MgrAcct(q)].status = record[MgrAcct(q)].status /\ record'[MgrAcct(q)].aged = FALSE
        BY <1>1, <2>2, <2>3, CreationsApart
    <2>5. \A r \in AcctReq \ {q} : ~OnRow(r, MgrAcct(q))'
        BY <1>0, <2>2, <2>3, <2>4 DEF Others, OnRow
    <2>6. \A w \in Worker : ~Claims(w, MgrAcct(q))' BY <1>0, <2>2, <2>3 DEF Claims
    <2> QED BY <2>2, <2>3, <2>4, <2>5, <2>6
<1>2. CASE q = p
    <2>0. mgr'[p].creating /\ mgr'[p].pc \in AtRow BY <1>2 DEF Creating
    <2>1. CASE Stays(p)
        <3>1. Creating(p) /\ MgrAcct(p)' = MgrAcct(p) BY <2>0, <2>1 DEF Stays, Creating, MgrAcct
        <3>2. /\ record[MgrAcct(p)].status \in {"provisioning", "verifying"} /\ record[MgrAcct(p)].aged = FALSE
              /\ \A r \in AcctReq \ {p} : ~OnRow(r, MgrAcct(p))
              /\ \A w \in Worker : ~Claims(w, MgrAcct(p))
            BY <1>0, <3>1 DEF Exclusive
        <3>3. \A r \in AcctReq \ {p} : ~OnRow(r, MgrAcct(p))'
            BY <1>0, <3>1, <3>2 DEF Others, OnRow
        <3>4. \A w \in Worker : ~Claims(w, MgrAcct(p))' BY <1>0, <3>1, <3>2 DEF Claims
        <3>5. record'[MgrAcct(p)].status \in {"provisioning", "verifying"} /\ record'[MgrAcct(p)].aged = FALSE
            BY <2>1, <3>2 DEF Stays
        <3> QED BY <1>2, <3>1, <3>3, <3>4, <3>5
    <2>2. CASE Inserts(p)
        <3>1. MgrAcct(p)' = MgrAcct(p) BY <2>2 DEF Inserts, MgrAcct
        <3>2. /\ \A r \in AcctReq \ {p} : ~OnRow(r, MgrAcct(p))
              /\ \A w \in Worker : ~Claims(w, MgrAcct(p))
            BY <1>0, <2>2 DEF Inserts, HasRecord, OnRow, MgrAcct
        <3>3. \A r \in AcctReq \ {p} : ~OnRow(r, MgrAcct(p))'
            BY <1>0, <3>1, <3>2 DEF Others, OnRow
        <3>4. \A w \in Worker : ~Claims(w, MgrAcct(p))' BY <1>0, <3>1, <3>2 DEF Claims
        <3> QED BY <1>2, <2>2, <3>1, <3>3, <3>4 DEF Inserts
    <2>3. CASE Leaves(p) BY <2>0, <2>3 DEF Leaves
    <2>4. CASE Enters(p) BY <2>0, <2>4 DEF Enters
    <2> QED BY <1>0, <2>1, <2>2, <2>3, <2>4
<1> QED BY <1>1, <1>2
-----------------------------------------------------------------------------
(* What the others have seen.                                              *)

\* A request changes only its own account: an undo removes it, and nothing is
\* created or granted but by a creation.
LEMMA EffectsLocal ==
    ASSUME ManagedTypeOK, NEW p \in AcctReq, Effects(p), NEW a \in Account
    PROVE  \/ server'[a] = server[a]
           \/ a = MgrAcct(p) /\ ~server'[a].live /\ mgr[p].pc = "rdrop"
           \/ a = MgrAcct(p) /\ mgr[p].pc \in {"ccreate", "cgrant"}
<1>0. PlatformTypeOK /\ server \in [Account -> ServerRow] BY TypesOf
<1>1. ASSUME NEW s \in StatementType, s.acct = MgrAcct(p), Executes(s) \/ Fails(s),
             s.verb = "drop" /\ mgr[p].pc = "rdrop"
      PROVE  server'[a] = server[a] \/ (a = MgrAcct(p) /\ ~server'[a].live /\ mgr[p].pc = "rdrop")
    <2>1. CASE a # s.acct BY <1>0, <1>1, <2>1, StatementLocal
    <2>2. CASE a = s.acct /\ Apply(s)
        <3> DEFINE r == [server[a] EXCEPT !.live = FALSE, !.mark = FALSE, !.lock = "open",
                                          !.cut = FALSE, !.grants = {}]
        <3>1. server'[a] = r BY <1>0, <1>1, <2>2 DEF Apply, Result
        <3>2. r.live = FALSE BY <1>0 DEF ServerRow
        <3>3. ~r.live BY <3>2, Zenon
        <3> HIDE DEF r
        <3> QED BY <1>1, <2>2, <3>1, <3>3
    <2>3. CASE server' = server BY <2>3
    <2> QED BY <1>1, <2>1, <2>2, <2>3 DEF Executes, Fails
<1>2. ASSUME NEW s \in StatementType, s.acct = MgrAcct(p), Executes(s) \/ Fails(s),
             mgr[p].pc \in {"ccreate", "cgrant"}
      PROVE  server'[a] = server[a] \/ (a = MgrAcct(p) /\ mgr[p].pc \in {"ccreate", "cgrant"})
    BY <1>0, <1>2, StatementLocal
<1> QED BY <1>1, <1>2 DEF Effects

LEMMA OthersMgrSeen ==
    ASSUME ManagedInv, NEW p \in AcctReq, ThreadStep(p), NEW q \in AcctReq \ {p}
    PROVE  MgrSeen(q)'
<1>0. /\ HasRecord /\ MgrAcct(q) \in Account /\ Others(p) /\ Effects(p) /\ ManagedTypeOK
      /\ stirred' \in {stirred, stirred \ {p}} /\ MgrSeen(q)
    BY RowMoves, StepEffects, TypesOf DEF ManagedInv, BaseInv
<1>1. mgr'[q] = mgr[q] BY <1>0 DEF Others
<1>2. CASE q \in stirred BY <1>0, <1>2 DEF MgrSeen
<1>3. CASE q \notin stirred /\ mgr[q].pc \in {"rdrop", "rwrite", "cactive"}
    <2>1. OnRow(q, MgrAcct(q)) BY <1>3, Labels DEF OnRow, MgrAcct
    <2>2. \/ server'[MgrAcct(q)] = server[MgrAcct(q)]
          \/ MgrAcct(q) = MgrAcct(p) /\ ~server'[MgrAcct(q)].live /\ mgr[p].pc = "rdrop"
        <3>1. ~(MgrAcct(q) = MgrAcct(p) /\ mgr[p].pc \in {"ccreate", "cgrant"})
            <4> SUFFICES ASSUME MgrAcct(q) = MgrAcct(p), mgr[p].pc \in {"ccreate", "cgrant"} PROVE FALSE
                OBVIOUS
            <4>1. Creating(p) BY <1>0, Labels DEF HasRecord, Creating
            <4>2. ~OnRow(q, MgrAcct(p)) BY <4>1 DEF ManagedInv, BaseInv, Exclusive
            <4> QED BY <2>1, <4>2
        <3> QED BY <1>0, <3>1, EffectsLocal
    <2>3. CASE mgr[q].pc = "rdrop" BY <1>0, <1>1, <1>3, <2>2, <2>3 DEF MgrSeen, Remote, MgrAcct
    <2>4. CASE mgr[q].pc = "rwrite" BY <1>0, <1>1, <1>3, <2>2, <2>4 DEF MgrSeen, Remote, MgrAcct
    <2>5. CASE mgr[q].pc = "cactive"
        <3>1. Creating(q) BY <1>0, <2>5, Labels DEF HasRecord, Creating
        <3>2. /\ ~OnRow(p, MgrAcct(q))
              /\ record'[MgrAcct(q)].planned = record[MgrAcct(q)].planned
              /\ record'[MgrAcct(q)].plan = record[MgrAcct(q)].plan
            BY <3>1, CreationsApart
        <3>3. server'[MgrAcct(q)] = server[MgrAcct(q)] BY <2>2, <3>2, Labels DEF OnRow, MgrAcct
        <3>4. Verified(MgrAcct(q)) BY <1>0, <1>3, <2>5 DEF MgrSeen
        <3> QED BY <1>1, <2>5, <3>2, <3>3, <3>4 DEF MgrSeen, Verified, Marked, Remote, MgrAcct
    <2> QED BY <1>3, <2>3, <2>4, <2>5
<1>4. CASE mgr[q].pc \notin {"rdrop", "rwrite", "cactive"} BY <1>1, <1>4 DEF MgrSeen
<1> QED BY <1>2, <1>3, <1>4

LEMMA ThreadRowsSeen ==
    ASSUME ManagedInv, NEW p \in AcctReq, ThreadStep(p), NEW w \in Worker
    PROVE  RowSeen(w)'
<1>0. /\ HasRecord /\ wrk[w].acct \in Account /\ Effects(p) /\ ManagedTypeOK
      /\ stirred' \in {stirred, stirred \ {p}} /\ RowSeen(w) /\ wrk' = wrk /\ w # p
    BY StepEffects, TypesOf, ManagedAssumption DEF ManagedInv, BaseInv
<1>1. CASE w \in stirred BY <1>0, <1>1 DEF RowSeen
<1>2. CASE w \notin stirred /\ wrk[w].pc \in {"xexpire", "xwrite"}
    <2>1. \/ server'[wrk[w].acct] = server[wrk[w].acct]
          \/ ~server'[wrk[w].acct].live
        <3>1. ~(wrk[w].acct = MgrAcct(p) /\ mgr[p].pc \in {"ccreate", "cgrant"})
            <4> SUFFICES ASSUME wrk[w].acct = MgrAcct(p), mgr[p].pc \in {"ccreate", "cgrant"} PROVE FALSE
                OBVIOUS
            <4>1. Creating(p) BY <1>0, Labels DEF HasRecord, Creating
            <4>2. ~Claims(w, MgrAcct(p)) BY <4>1 DEF ManagedInv, BaseInv, Exclusive
            <4> QED BY <1>2, <4>2 DEF Claims
        <3> QED BY <1>0, <3>1, EffectsLocal
    <2> QED BY <1>0, <1>2, <2>1 DEF RowSeen, Remote, Cut
<1>3. CASE wrk[w].pc \notin {"xexpire", "xwrite"} BY <1>0, <1>3 DEF RowSeen
<1> QED BY <1>1, <1>2, <1>3

\* A thread acts on what it reads in the same step.
LEMMA OwnMgrSeen ==
    ASSUME BaseInv, NEW p \in AcctReq, ThreadStep(p)
    PROVE  MgrSeen(p)'
<1>0. MgrTypes /\ MgrAcct(p) \in Account BY TypesOf DEF BaseInv
<1>a. ASSUME NEW l \in MgrLabel \ {"rdrop", "rwrite", "cactive"}, MgrGoto(p, l) PROVE MgrSeen(p)'
    BY <1>0, <1>a, GotoFacts DEF Goes, MgrSeen
<1>b. ASSUME MgrEnd(p) PROVE MgrSeen(p)' BY <1>0, <1>b, EndFacts DEF MgrSeen
<1>c. ASSUME NEW a \in Account, NEW l \in {"rlist", "vremote", "save"}, MgrBegin(p, l, a) PROVE MgrSeen(p)'
    BY <1>0, <1>c, BeginFacts, Labels DEF MgrSeen
<1>1. CASE \E a \in Account : MgrRequest(p, a)
    <2>1. ASSUME NEW a \in Account, NEW want \in SUBSET Priv, NEW timed \in BOOLEAN, Create(p, a, want, timed)
          PROVE  MgrSeen(p)'
        BY <1>0, <2>1, CreateFacts DEF MgrSeen
    <2> QED BY <1>1, <1>c, <2>1 DEF MgrRequest, Undo, CheckOperation, SavePassword
<1>2. CASE CreateVerify(p)
    <2>1. /\ (Verified(MgrAcct(p)) /\ MgrGoto(p, "cactive")) \/ MgrGoto(p, "cfail")
          /\ server' = server /\ record' = record
        BY <1>2 DEF CreateVerify, platformVars
    <2>2. CASE Verified(MgrAcct(p)) /\ MgrGoto(p, "cactive")
        <3>1. mgr'[p].pc = "cactive" /\ mgr'[p].acct = mgr[p].acct BY <1>0, <2>2, GotoFacts, Labels DEF Goes
        <3> QED BY <2>1, <2>2, <3>1 DEF MgrSeen, Verified, Marked, Remote, MgrAcct
    <2> QED BY <1>a, <2>1, <2>2, Labels
<1>3. CASE RollbackList(p)
    <2>1. /\ (~Remote(MgrAcct(p)).live /\ MgrGoto(p, "rwrite")) \/ (Marked(MgrAcct(p)) /\ MgrGoto(p, "rdrop")) \/ RollbackError(p)
          /\ server' = server
        BY <1>3 DEF RollbackList, platformVars
    <2>2. CASE ~Remote(MgrAcct(p)).live /\ MgrGoto(p, "rwrite")
        <3>1. mgr'[p].pc = "rwrite" /\ mgr'[p].acct = mgr[p].acct BY <1>0, <2>2, GotoFacts, Labels DEF Goes
        <3> QED BY <2>1, <2>2, <3>1 DEF MgrSeen, Remote, MgrAcct
    <2>3. CASE Marked(MgrAcct(p)) /\ MgrGoto(p, "rdrop")
        <3>1. mgr'[p].pc = "rdrop" /\ mgr'[p].acct = mgr[p].acct BY <1>0, <2>3, GotoFacts, Labels DEF Goes
        <3> QED BY <2>1, <2>3, <3>1 DEF MgrSeen, Marked, Remote, MgrAcct
    <2> QED BY <1>a, <1>b, <2>1, <2>2, <2>3, Labels DEF RollbackError
<1>4. CASE RollbackCheck(p)
    <2>1. /\ (~Remote(MgrAcct(p)).live /\ MgrGoto(p, "rwrite")) \/ RollbackError(p)
          /\ server' = server
        BY <1>4 DEF RollbackCheck, platformVars
    <2>2. CASE ~Remote(MgrAcct(p)).live /\ MgrGoto(p, "rwrite")
        <3>1. mgr'[p].pc = "rwrite" /\ mgr'[p].acct = mgr[p].acct BY <1>0, <2>2, GotoFacts, Labels DEF Goes
        <3> QED BY <2>1, <2>2, <3>1 DEF MgrSeen, Remote, MgrAcct
    <2> QED BY <1>a, <1>b, <2>1, <2>2, Labels DEF RollbackError
<1>5. CASE CreatePlan(p)
    <2>1. CASE mgr' = [mgr EXCEPT ![p] = [@ EXCEPT !.pc = "cgrant", !.grant = mgr[p].want]]
        <3>1. mgr[p].want \in SUBSET Priv BY TypesOf DEF BaseInv
        <3>2. Goes(p, "cgrant") BY <1>0, <2>1, <3>1, GrantFacts, Labels
        <3> QED BY <3>2 DEF Goes, MgrSeen
    <2> QED BY <1>5, <1>a, <2>1, Labels DEF CreatePlan
<1>6. CASE CreateGrant(p)
    <2>1. ASSUME NEW g \in mgr[p].grant, mgr' = [mgr EXCEPT ![p].grant = @ \ {g}] PROVE MgrSeen(p)'
        <3>1. Goes(p, mgr[p].pc) BY <1>0, <2>1, StrikeFacts
        <3> QED BY <1>6, <3>1 DEF CreateGrant, Goes, MgrSeen
    <2> QED BY <1>6, <1>a, <2>1, Labels DEF CreateGrant
<1>7. CASE ~((\E a \in Account : MgrRequest(p, a)) \/ CreateVerify(p) \/ RollbackList(p) \/ RollbackCheck(p)
             \/ CreatePlan(p) \/ CreateGrant(p))
    <2>1. MgrEnd(p) \/ \E l \in MgrLabel \ {"rdrop", "rwrite", "cactive"} : MgrGoto(p, l)
        BY <1>7, Labels DEF ThreadStep, ManagedStep, CreateName, CreateInsert, CreateUser, CreateVerifying,
             CreateActive, CreateFail, CreateUnsure, RollbackDrop, RollbackWrite, RollbackError,
             CheckRemote, CheckActive, CheckCleanup, Save, MgrDie
    <2> QED BY <1>a, <1>b, <2>1
<1> QED BY <1>1, <1>2, <1>3, <1>4, <1>5, <1>6, <1>7

LEMMA ThreadKeeps ==
    ASSUME ManagedInv, NEW p \in AcctReq, ThreadStep(p)
    PROVE  ManagedInv'
BY MgrThreadTypes, ThreadRecords, ThreadExclusive, OthersMgrSeen, OwnMgrSeen, ThreadRowsSeen DEF ManagedInv, BaseInv
-----------------------------------------------------------------------------
(* The workers.                                                            *)

\* What a step of a worker does: it takes rows that are active or expiring, works
\* through those it has, and cuts or writes the one in its hands.
Works(w) ==
    /\ WrkTypes' /\ RecTypes' /\ OtherWorkers(w) /\ mgr' = mgr
    /\ stirred' \in {stirred, stirred \ {w}}
    /\ Noted /\ UNCHANGED <<dba, advisory, actionOps, permOps>>
    /\ \A a \in Account :
          /\ Claims(w, a)' => \/ Claims(w, a)
                              \/ record[a].status \in {"active", "expiring"} /\ record'[a].status # "absent"
          /\ \/ record'[a] = record[a]
             \/ /\ record'[a].status # "absent"
                /\ Claims(w, a) \/ record[a].status \in {"active", "expiring"}
    /\ \/ server' = server /\ late' = late
       \/ \E s \in StatementType : /\ s.verb = "expire" /\ s.acct = wrk[w].acct
                                   /\ Executes(s) \/ Fails(s)

LEMMA ClaimWorks ==
    ASSUME ManagedTypeOK, NEW w \in Worker, NEW batch \in SUBSET Account, Claim(w, batch)
    PROVE  Works(w)
<1>0. PlatformTypeOK /\ WrkTypes /\ RecTypes BY TypesOf
<1>1. /\ WrkTypes' /\ OtherWorkers(w) /\ wrk'[w].todo = batch /\ wrk'[w].pc = "idle"
    <2> DEFINE r == [wrk[w] EXCEPT !.todo = batch]
    <2>1. r \in WrkThread /\ r.todo = batch /\ r.pc = wrk[w].pc
        BY <1>0 DEF WrkTypes, WrkThread
    <2>2. wrk' = [wrk EXCEPT ![w] = r] /\ wrk[w].pc = "idle" BY DEF Claim
    <2> HIDE DEF r
    <2> QED BY <1>0, <2>1, <2>2, OneWorker
<1>2. \A a \in Account : /\ record'[a] \in RecordRow
                         /\ a \notin batch => record'[a] = record[a]
                         /\ a \in batch => record'[a].status = "expiring"
    <2> TAKE a \in Account
    <2> DEFINE r == [record[a] EXCEPT !.status = "expiring", !.claimed = TRUE, !.aged = FALSE]
    <2>1. record[a] \in RecordRow BY <1>0 DEF RecTypes
    <2>2. r \in RecordRow /\ r.status = "expiring" BY <2>1 DEF RecordRow, RecordStatus
    <2>3. record'[a] = IF a \in batch THEN r ELSE record[a] BY DEF Claim
    <2> HIDE DEF r
    <2> QED BY <2>1, <2>2, <2>3
<1>3. record' = [a \in Account |-> record'[a]] BY DEF Claim
<1>4. RecTypes' BY <1>2, <1>3 DEF RecTypes
<1>5. \A a \in batch : record[a].status \in {"active", "expiring"} BY DEF Claim, Claimable
<1>6. \A a \in Account : Claims(w, a)' => a \in batch BY <1>1 DEF Claims
<1>7. server' = server /\ late' = late /\ mgr' = mgr /\ stirred' = stirred
      /\ UNCHANGED <<dba, advisory, touched, actionOps, permOps>>
    BY DEF Claim
<1>8. Noted BY <1>0, <1>7, IdleNoted
<1> QED BY <1>1, <1>2, <1>4, <1>5, <1>6, <1>7, <1>8 DEF Works

LEMMA StepWorks ==
    ASSUME ManagedTypeOK, NEW w \in Worker, WorkStep(w)
    PROVE  Works(w)
<1>0. PlatformTypeOK /\ WrkTypes /\ RecTypes /\ wrk[w].acct \in Account BY TypesOf
<1>a. ASSUME record' = record, GotoRow(w, "idle") \/ RowError(w)
                \/ wrk' = [wrk EXCEPT ![w] = [wrk[w] EXCEPT !.pc = "idle", !.todo = {}]]
      PROVE  /\ WrkTypes' /\ RecTypes' /\ OtherWorkers(w)
             /\ \A a \in Account : Claims(w, a)' => Claims(w, a)
    <2>1. /\ WrkTypes' /\ OtherWorkers(w)
          /\ wrk'[w].pc = "idle" /\ wrk'[w].todo \subseteq wrk[w].todo
        BY <1>0, <1>a, RowErrorFacts DEF RowError
    <2> QED BY <1>0, <1>a, <2>1 DEF RecTypes, Claims
<1>b. ASSUME record' = record, wrk[w].pc # "idle", NEW l \in {"xexpire", "xwrite"}, GotoRow(w, l)
      PROVE  /\ WrkTypes' /\ RecTypes' /\ OtherWorkers(w)
             /\ \A a \in Account : Claims(w, a)' => Claims(w, a)
    <2>1. /\ WrkTypes' /\ OtherWorkers(w)
          /\ wrk'[w].pc = l /\ wrk'[w].acct = wrk[w].acct /\ wrk'[w].todo = wrk[w].todo
        BY <1>0, <1>b, GotoRowFacts
    <2> QED BY <1>0, <1>b, <2>1 DEF RecTypes, Claims
<1>1. ASSUME NEW a \in Account, NextRow(w, a) PROVE Works(w)
    <2>1. /\ WrkTypes' /\ OtherWorkers(w) /\ a \in wrk[w].todo
          /\ wrk'[w].pc = "xverify" /\ wrk'[w].acct = a /\ wrk'[w].todo \subseteq wrk[w].todo
        BY <1>0, <1>1, NextRowFacts
    <2>2. \A b \in Account : Claims(w, b)' => Claims(w, b) BY <2>1 DEF Claims
    <2>3. record' = record /\ server' = server /\ late' = late /\ mgr' = mgr /\ stirred' = stirred
          /\ UNCHANGED <<dba, advisory, touched, actionOps, permOps>>
        BY <1>1 DEF NextRow, platformVars
    <2>4. Noted BY <1>0, <2>3, IdleNoted
    <2> QED BY <1>0, <2>1, <2>2, <2>3, <2>4 DEF Works, RecTypes
<1>2. CASE ExpireVerify(w)
    <2>1. /\ wrk[w].pc # "idle"
          /\ GotoRow(w, "xexpire") \/ RowError(w)
          /\ record' = record /\ server' = server /\ late' = late /\ mgr' = mgr /\ stirred' = stirred \ {w}
          /\ UNCHANGED <<dba, advisory, touched, actionOps, permOps>>
        BY <1>2 DEF ExpireVerify, platformVars, Looks
    <2>2. Noted BY <1>0, <2>1, IdleNoted
    <2> QED BY <1>a, <1>b, <2>1, <2>2 DEF Works
<1>3. CASE ExpireRemote(w)
    <2>1. /\ wrk[w].pc # "idle"
          /\ GotoRow(w, "xwrite") \/ RowError(w)
          /\ record' = record /\ mgr' = mgr /\ stirred' = stirred
          /\ UNCHANGED <<dba, advisory, actionOps, permOps>>
        BY <1>3 DEF ExpireRemote
    <2>2. PICK s \in StatementType : s = Statement("expire", wrk[w].acct, {}) BY <1>0, StatementFacts
    <2>3. s.acct = wrk[w].acct /\ s.verb = "expire" BY <1>0, <2>2, StatementFacts
    <2>4. (Executes(s) \/ Fails(s)) /\ Lockless(s.acct) BY <1>3, <2>2, <2>3 DEF ExpireRemote
    <2>5. Noted BY <1>0, <2>4, LocklessNoted
    <2> QED BY <1>a, <1>b, <2>1, <2>3, <2>4, <2>5 DEF Works
<1>4. CASE ExpireWrite(w)
    <2>0. /\ wrk[w].pc = "xwrite" /\ server' = server /\ late' = late /\ mgr' = mgr /\ stirred' = stirred
          /\ UNCHANGED <<dba, advisory, touched, actionOps, permOps>>
        BY <1>4 DEF ExpireWrite
    <2>n. Noted BY <1>0, <2>0, IdleNoted
    <2>1. CASE RowError(w) /\ record' = record BY <1>a, <2>0, <2>1, <2>n DEF Works
    <2>2. CASE Write(wrk[w].acct, "expired", record[wrk[w].acct].confirmed) /\ GotoRow(w, "idle")
        <3> DEFINE r == [record[wrk[w].acct] EXCEPT !.status = "expired",
                                                    !.confirmed = record[wrk[w].acct].confirmed, !.aged = FALSE]
        <3>s. "expired" \in RecordStatus BY DEF RecordStatus
        <3>r. record[wrk[w].acct] \in RecordRow BY <1>0 DEF RecTypes
        <3>1. r \in RecordRow /\ r.status = "expired" BY <3>s, <3>r DEF RecordRow
        <3>w. record' = [record EXCEPT ![wrk[w].acct] = r] BY <2>2 DEF Write
        <3> HIDE DEF r
        <3>2. RecTypes' /\ OtherRecords(wrk[w].acct) /\ record'[wrk[w].acct].status = "expired"
            BY <1>0, <3>1, <3>w, OneRecord
        <3>3. /\ WrkTypes' /\ OtherWorkers(w) /\ wrk'[w].pc = "idle" /\ wrk'[w].todo = wrk[w].todo
            BY <1>0, <2>2, GotoRowFacts
        <3>4. \A a \in Account : Claims(w, a)' => Claims(w, a) BY <3>3 DEF Claims
        <3>5. \A a \in Account : \/ record'[a] = record[a]
                                 \/ record'[a].status # "absent" /\ Claims(w, a)
            BY <2>0, <3>2 DEF OtherRecords, Claims
        <3> QED BY <2>0, <2>n, <3>2, <3>3, <3>4, <3>5 DEF Works
    <2> QED BY <1>4, <2>1, <2>2 DEF ExpireWrite
<1>5. CASE WorkerDie(w)
    <2>1. /\ record' = record /\ server' = server /\ late' = late /\ mgr' = mgr /\ stirred' = stirred
          /\ UNCHANGED <<dba, advisory, touched, actionOps, permOps>>
          /\ wrk' = [wrk EXCEPT ![w] = [wrk[w] EXCEPT !.pc = "idle", !.todo = {}]]
        BY <1>5 DEF WorkerDie, platformVars
    <2>2. Noted BY <1>0, <2>1, IdleNoted
    <2> QED BY <1>a, <2>1, <2>2 DEF Works
<1> QED BY <1>1, <1>2, <1>3, <1>4, <1>5, ClaimWorks DEF WorkStep, WorkerStep

\* An expiry of an existing account leaves it there, marked as it was, and closed.
LEMMA ExpireLocal ==
    ASSUME ManagedTypeOK, NEW s \in StatementType, s.verb = "expire", Executes(s) \/ Fails(s), NEW a \in Account
    PROVE  \/ server'[a] = server[a]
           \/ /\ server'[a].live = server[a].live /\ server'[a].mark = server[a].mark
              /\ server'[a].grants = server[a].grants /\ a = s.acct
              /\ server'[a].lock = "locked" \/ server'[a].cut
<1>0. PlatformTypeOK /\ server \in [Account -> ServerRow] BY TypesOf
<1>1. CASE a # s.acct BY <1>0, <1>1, StatementLocal
<1>2. CASE a = s.acct /\ Apply(s)
    <2>1. server'[a] = IF Kind = "mysql" THEN [server[a] EXCEPT !.lock = "locked"]
                                         ELSE [server[a] EXCEPT !.cut = TRUE]
        BY <1>0, <1>2 DEF Apply, Result
    <2>2. server[a] \in ServerRow BY <1>0
    <2>3. CASE Kind = "mysql" BY <1>2, <2>1, <2>2, <2>3 DEF ServerRow
    <2>4. CASE Kind # "mysql"
        <3> DEFINE r == [server[a] EXCEPT !.cut = TRUE]
        <3>1. r.live = server[a].live /\ r.mark = server[a].mark /\ r.grants = server[a].grants /\ r.cut = TRUE
            BY <2>2 DEF ServerRow
        <3>2. r.cut BY <3>1, Zenon
        <3>3. server'[a] = r BY <2>1, <2>4
        <3> HIDE DEF r
        <3> QED BY <1>2, <3>1, <3>2, <3>3
    <2> QED BY <2>3, <2>4
<1>3. CASE server' = server BY <1>3
<1> QED BY <1>1, <1>2, <1>3 DEF Executes, Fails

LEMMA WorkerBase ==
    ASSUME BaseInv, NEW w \in Worker, WorkStep(w)
    PROVE  BaseInv'
<1>0. /\ ManagedTypeOK /\ HasRecord /\ Works(w) /\ PlatformTypeOK /\ RecTypes /\ WrkTypes
    BY StepWorks, TypesOf DEF BaseInv
<1>1. ManagedTypeOK'
    <2>1. server' \in [Account -> ServerRow] /\ late' \in SUBSET StatementType
        <3>1. CASE server' = server /\ late' = late BY <1>0, <3>1 DEF PlatformTypeOK, StatementType
        <3>2. CASE \E s \in StatementType : Executes(s) \/ Fails(s) BY <1>0, <3>2, StatementTypes
        <3> QED BY <1>0, <3>1, <3>2 DEF Works
    <2>2. PlatformTypeOK' BY <1>0, <2>1 DEF Works, Noted, PlatformTypeOK, RecTypes, StatementType
    <2> QED BY <1>0, <2>2 DEF Works, ManagedTypeOK, WrkTypes
<1>2. HasRecord'
    <2>1. \A a \in Account : record'[a].status = "absent" => record'[a] = record[a]
        BY <1>0 DEF Works
    <2>2. \A v \in Worker, a \in Account : Claims(v, a)' => record'[a].status # "absent"
        <3> SUFFICES ASSUME NEW v \in Worker, NEW a \in Account, Claims(v, a)' PROVE record'[a].status # "absent"
            OBVIOUS
        <3>1. CASE v = w BY <1>0, <2>1, <3>1 DEF Works, HasRecord
        <3>2. CASE v # w BY <1>0, <2>1, <3>2 DEF Works, HasRecord, OtherWorkers, Claims
        <3> QED BY <3>1, <3>2
    <2>3. \A a \in Account : record'[a].made => record'[a].status # "absent"
        <3> SUFFICES ASSUME NEW a \in Account, record'[a].made PROVE record'[a].status # "absent"
            OBVIOUS
        <3>1. CASE record'[a] = record[a] BY <1>0, <3>1 DEF HasRecord
        <3>2. CASE record'[a] # record[a] BY <1>0, <3>2 DEF Works
        <3> QED BY <3>1, <3>2
    <2>4. mgr' = mgr BY <1>0 DEF Works
    <2>5. ASSUME NEW q \in AcctReq, mgr[q].pc \in AtRow PROVE record'[MgrAcct(q)].status # "absent"
        <3>1. MgrAcct(q) \in Account /\ record[MgrAcct(q)].status # "absent"
            BY <1>0, <2>5, TypesOf DEF HasRecord
        <3> QED BY <2>1, <3>1
    <2> QED BY <1>0, <2>2, <2>3, <2>4, <2>5 DEF HasRecord, MgrAcct
<1> QED BY <1>1, <1>2 DEF BaseInv

\* A worker acts on what it reads in the same step.
LEMMA OwnRowSeen ==
    ASSUME BaseInv, NEW w \in Worker, WorkStep(w)
    PROVE  RowSeen(w)'
<1>0. /\ ManagedTypeOK /\ PlatformTypeOK /\ WrkTypes
      /\ \A v \in Worker : wrk[v].acct \in Account
    BY TypesOf DEF BaseInv
<1>a. ASSUME wrk'[w].pc \notin {"xexpire", "xwrite"} PROVE RowSeen(w)' BY <1>a DEF RowSeen
<1>b. ASSUME RowError(w) \/ wrk' = [wrk EXCEPT ![w] = [wrk[w] EXCEPT !.pc = "idle", !.todo = {}]] PROVE RowSeen(w)'
    BY <1>0, <1>a, <1>b, RowErrorFacts
<1>1. ASSUME NEW b \in SUBSET Account, Claim(w, b) PROVE RowSeen(w)'
    <2>1. wrk[w].pc = "idle" /\ wrk' = [wrk EXCEPT ![w].todo = b] /\ wrk[w] \in WrkThread
        BY <1>0, <1>1 DEF Claim, WrkTypes
    <2>2. wrk'[w] = [wrk[w] EXCEPT !.todo = b] BY <1>0, <2>1 DEF WrkTypes
    <2>3. wrk'[w].pc = "idle" BY <2>1, <2>2 DEF WrkThread
    <2> QED BY <1>a, <2>3
<1>2. ASSUME NEW a \in Account, NextRow(w, a) PROVE RowSeen(w)'
    BY <1>0, <1>a, <1>2, NextRowFacts
<1>3. CASE ExpireVerify(w)
    <2>1. CASE Marked(wrk[w].acct) /\ GotoRow(w, "xexpire")
        <3>1. server' = server BY <1>3 DEF ExpireVerify, platformVars
        <3>2. wrk'[w].pc = "xexpire" /\ wrk'[w].acct = wrk[w].acct BY <1>0, <2>1, GotoRowFacts
        <3> QED BY <2>1, <3>1, <3>2 DEF RowSeen, Marked, Remote
    <2> QED BY <1>3, <1>b, <2>1 DEF ExpireVerify
<1>4. CASE ExpireRemote(w)
    <2>1. CASE Executes(Statement("expire", wrk[w].acct, {})) /\ GotoRow(w, "xwrite")
        <3>1. wrk'[w].pc = "xwrite" /\ wrk'[w].acct = wrk[w].acct BY <1>0, <2>1, GotoRowFacts
        <3>2. PICK a \in Account : a = wrk[w].acct BY <1>0
        <3>3. PICK s \in StatementType : s = Statement("expire", a, {}) BY StatementFacts
        <3>4. s.acct = a /\ s.verb = "expire" BY <3>3, StatementFacts
        <3>5. server'[a] = Result(server[a], s)
            BY <1>0, <2>1, <3>2, <3>3, <3>4, TypesOf DEF Executes, Apply
        <3>6. server[a] \in ServerRow BY <1>0, TypesOf
        <3>7. server'[a].lock = "locked" \/ server'[a].cut = TRUE
            BY <3>4, <3>5, <3>6 DEF Result, ServerRow
        <3>8. Cut(a)' BY <3>7, Zenon DEF Cut, Remote
        <3> QED BY <3>1, <3>2, <3>8 DEF RowSeen, Cut, Remote
    <2> QED BY <1>4, <1>b, <2>1 DEF ExpireRemote
<1>5. CASE ExpireWrite(w)
    <2>1. CASE GotoRow(w, "idle") BY <1>0, <1>a, <2>1, GotoRowFacts
    <2> QED BY <1>5, <1>b, <2>1 DEF ExpireWrite
<1>6. CASE WorkerDie(w) BY <1>6, <1>b DEF WorkerDie
<1> QED BY <1>1, <1>2, <1>3, <1>4, <1>5, <1>6 DEF WorkStep, WorkerStep

LEMMA WorkerKeeps ==
    ASSUME ManagedInv, NEW w \in Worker, WorkStep(w)
    PROVE  ManagedInv'
<1>0. /\ ManagedTypeOK /\ HasRecord /\ Exclusive /\ Works(w) /\ w \notin AcctReq
      /\ PlatformTypeOK /\ RecTypes /\ WrkTypes
      /\ \A p \in AcctReq : MgrAcct(p) \in Account
      /\ \A v \in Worker : wrk[v].acct \in Account
    BY StepWorks, TypesOf, ManagedAssumption DEF ManagedInv, BaseInv
<1>1. BaseInv' BY WorkerBase DEF ManagedInv
<1>3. Exclusive'
    <2> SUFFICES ASSUME NEW p \in AcctReq, Creating(p)'
                 PROVE  /\ record'[MgrAcct(p)'].status \in {"provisioning", "verifying"}
                        /\ record'[MgrAcct(p)'].aged = FALSE
                        /\ \A r \in AcctReq \ {p} : ~OnRow(r, MgrAcct(p))'
                        /\ \A v \in Worker : ~Claims(v, MgrAcct(p))'
        BY DEF Exclusive
    <2>1. Creating(p) /\ MgrAcct(p)' = MgrAcct(p) BY <1>0 DEF Works, Creating, MgrAcct
    <2>2. /\ record[MgrAcct(p)].status \in {"provisioning", "verifying"} /\ record[MgrAcct(p)].aged = FALSE
          /\ \A r \in AcctReq \ {p} : ~OnRow(r, MgrAcct(p))
          /\ \A v \in Worker : ~Claims(v, MgrAcct(p))
        BY <1>0, <2>1 DEF Exclusive
    <2>3. record'[MgrAcct(p)] = record[MgrAcct(p)] BY <1>0, <2>2 DEF Works
    <2>4. \A r \in AcctReq \ {p} : ~OnRow(r, MgrAcct(p))' BY <1>0, <2>1, <2>2 DEF Works, OnRow
    <2>5. \A v \in Worker : ~Claims(v, MgrAcct(p))'
        <3> TAKE v \in Worker
        <3>1. CASE v = w BY <1>0, <2>1, <2>2, <3>1 DEF Works, Claims
        <3>2. CASE v # w BY <1>0, <2>1, <2>2, <3>2 DEF Works, OtherWorkers, Claims
        <3> QED BY <3>1, <3>2
    <2> QED BY <2>1, <2>2, <2>3, <2>4, <2>5
<1>4. \A a \in Account :
         \/ server'[a] = server[a]
         \/ /\ server'[a].live = server[a].live /\ server'[a].mark = server[a].mark
            /\ server'[a].grants = server[a].grants /\ a = wrk[w].acct
            /\ server'[a].lock = "locked" \/ server'[a].cut
    <2>1. CASE server' = server BY <2>1
    <2>2. ASSUME NEW s \in StatementType, s.verb = "expire", s.acct = wrk[w].acct, Executes(s) \/ Fails(s), NEW a \in Account
          PROVE  \/ server'[a] = server[a]
                 \/ /\ server'[a].live = server[a].live /\ server'[a].mark = server[a].mark
                    /\ server'[a].grants = server[a].grants /\ a = wrk[w].acct
                    /\ server'[a].lock = "locked" \/ server'[a].cut
        BY <1>0, <2>2, ExpireLocal
    <2> QED BY <1>0, <2>1, <2>2 DEF Works
<1>5. ASSUME NEW p \in AcctReq PROVE MgrSeen(p)'
    <2>1. MgrSeen(p) /\ mgr'[p] = mgr[p] /\ (p \in stirred => p \in stirred')
        BY <1>0 DEF ManagedInv, BaseInv, Works
    <2>2. CASE mgr[p].pc = "cactive" /\ p \notin stirred
        <3>1. Creating(p) BY <1>0, <2>2, Labels DEF HasRecord, Creating
        <3>2. /\ record[MgrAcct(p)].status \in {"provisioning", "verifying"}
              /\ \A v \in Worker : ~Claims(v, MgrAcct(p))
            BY <1>0, <3>1 DEF Exclusive
        <3>3. record'[MgrAcct(p)] = record[MgrAcct(p)] BY <1>0, <3>2 DEF Works
        <3>4. Verified(MgrAcct(p)) BY <2>1, <2>2 DEF MgrSeen
        <3> QED BY <1>0, <1>4, <2>1, <2>2, <3>3, <3>4 DEF MgrSeen, Verified, Marked, Remote, MgrAcct
    <2>3. CASE mgr[p].pc # "cactive" /\ p \notin stirred
        BY <1>0, <1>4, <2>1, <2>3 DEF MgrSeen, Remote, MgrAcct
    <2>4. CASE p \in stirred BY <2>1, <2>4 DEF MgrSeen
    <2> QED BY <2>2, <2>3, <2>4
<1>6. ASSUME NEW v \in Worker \ {w} PROVE RowSeen(v)'
    <2>1. RowSeen(v) /\ wrk'[v] = wrk[v] /\ (v \in stirred => v \in stirred') /\ wrk[v].acct \in Account
        BY <1>0 DEF ManagedInv, BaseInv, Works, OtherWorkers
    <2> QED BY <1>4, <2>1 DEF RowSeen, Remote, Cut
<1>7. RowSeen(w)' BY OwnRowSeen DEF ManagedInv
<1> QED BY <1>1, <1>3, <1>5, <1>6, <1>7 DEF ManagedInv
-----------------------------------------------------------------------------
(* Time and the world outside.                                             *)

\* The clock leaves the status of a record and its plan; the record of a creation
\* that runs does not age.
LEMMA ClockFacts ==
    ASSUME RecTypes, ClockStep
    PROVE  /\ RecTypes' /\ UNCHANGED <<server, late, dba, advisory, touched, actionOps, permOps, mgr, wrk, stirred>>
           /\ \A b \in Account :
                 /\ record'[b].status = record[b].status /\ record'[b].made = record[b].made
                 /\ record'[b].planned = record[b].planned /\ record'[b].plan = record[b].plan
                 /\ \/ record'[b].aged = record[b].aged
                    \/ \A p \in AcctReq : ~(mgr[p].creating /\ mgr[p].acct = b)
<1>1. PICK a \in Account : Due(a) \/ Lapse(a) \/ AgeRecord(a) BY DEF ClockStep
<1>2. \E row \in RecordRow :
         /\ Clock(a, row)
         /\ row.status = record[a].status /\ row.made = record[a].made
         /\ row.planned = record[a].planned /\ row.plan = record[a].plan
         /\ row.aged = record[a].aged \/ \A p \in AcctReq : ~(mgr[p].creating /\ mgr[p].acct = a)
    <2>0. record[a] \in RecordRow BY DEF RecTypes
    <2>1. CASE Due(a)
        <3> DEFINE r == [record[a] EXCEPT !.due = TRUE]
        <3>1. /\ r \in RecordRow /\ r.status = record[a].status /\ r.made = record[a].made
              /\ r.planned = record[a].planned /\ r.plan = record[a].plan /\ r.aged = record[a].aged
            BY <2>0 DEF RecordRow
        <3>2. Clock(a, r) BY <2>1 DEF Due
        <3> HIDE DEF r
        <3> QED BY <3>1, <3>2
    <2>2. CASE Lapse(a)
        <3> DEFINE r == [record[a] EXCEPT !.claimed = FALSE]
        <3>1. /\ r \in RecordRow /\ r.status = record[a].status /\ r.made = record[a].made
              /\ r.planned = record[a].planned /\ r.plan = record[a].plan /\ r.aged = record[a].aged
            BY <2>0 DEF RecordRow
        <3>2. Clock(a, r) BY <2>2 DEF Lapse
        <3> HIDE DEF r
        <3> QED BY <3>1, <3>2
    <2>3. CASE AgeRecord(a)
        <3> DEFINE r == [record[a] EXCEPT !.aged = TRUE]
        <3>1. /\ r \in RecordRow /\ r.status = record[a].status /\ r.made = record[a].made
              /\ r.planned = record[a].planned /\ r.plan = record[a].plan
            BY <2>0 DEF RecordRow
        <3>2. Clock(a, r) /\ \A p \in AcctReq : ~(mgr[p].creating /\ mgr[p].acct = a) BY <2>3 DEF AgeRecord
        <3> HIDE DEF r
        <3> QED BY <3>1, <3>2
    <2> QED BY <1>1, <2>1, <2>2, <2>3
<1>3. PICK row \in RecordRow :
         /\ Clock(a, row)
         /\ row.status = record[a].status /\ row.made = record[a].made
         /\ row.planned = record[a].planned /\ row.plan = record[a].plan
         /\ row.aged = record[a].aged \/ \A p \in AcctReq : ~(mgr[p].creating /\ mgr[p].acct = a)
    BY <1>2
<1>4. record' = [record EXCEPT ![a] = row] BY <1>3 DEF Clock
<1>5. RecTypes' /\ record'[a] = row /\ OtherRecords(a) BY <1>4, OneRecord
<1>6. UNCHANGED <<server, late, dba, advisory, touched, actionOps, permOps, mgr, wrk, stirred>>
    BY <1>3 DEF Clock
<1> QED BY <1>3, <1>5, <1>6 DEF OtherRecords

LEMMA ClockBase ==
    ASSUME BaseInv, ClockStep
    PROVE  BaseInv'
<1>0. ManagedTypeOK /\ HasRecord /\ RecTypes BY TypesOf DEF BaseInv
<1>1. /\ RecTypes' /\ UNCHANGED <<server, late, dba, advisory, touched, actionOps, permOps, mgr, wrk, stirred>>
      /\ \A b \in Account : record'[b].status = record[b].status /\ record'[b].made = record[b].made
    BY <1>0, ClockFacts
<1>2. ManagedTypeOK' BY <1>0, <1>1 DEF ManagedTypeOK, PlatformTypeOK, RecTypes
<1>3. HasRecord'
    <2>1. /\ \A p \in AcctReq : MgrAcct(p) \in Account
          /\ \A w \in Worker : wrk[w].acct \in Account
        BY <1>0, TypesOf
    <2> QED BY <1>0, <1>1, <2>1 DEF HasRecord, Claims, MgrAcct
<1> QED BY <1>2, <1>3 DEF BaseInv

LEMMA ClockKeeps ==
    ASSUME ManagedInv, ClockStep
    PROVE  ManagedInv'
<1>0. /\ ManagedTypeOK /\ HasRecord /\ Exclusive /\ RecTypes
      /\ \A p \in AcctReq : MgrAcct(p) \in Account
      /\ \A w \in Worker : wrk[w].acct \in Account
    BY TypesOf DEF ManagedInv, BaseInv
<1>1. /\ RecTypes' /\ UNCHANGED <<server, late, dba, advisory, touched, actionOps, permOps, mgr, wrk, stirred>>
      /\ \A b \in Account :
            /\ record'[b].status = record[b].status /\ record'[b].made = record[b].made
            /\ record'[b].planned = record[b].planned /\ record'[b].plan = record[b].plan
            /\ \/ record'[b].aged = record[b].aged
               \/ \A p \in AcctReq : ~(mgr[p].creating /\ mgr[p].acct = b)
    BY <1>0, ClockFacts
<1>2. BaseInv' BY ClockBase DEF ManagedInv
<1>4. Exclusive'
    <2> SUFFICES ASSUME NEW p \in AcctReq, Creating(p)'
                 PROVE  /\ record'[MgrAcct(p)'].status \in {"provisioning", "verifying"}
                        /\ record'[MgrAcct(p)'].aged = FALSE
                        /\ \A r \in AcctReq \ {p} : ~OnRow(r, MgrAcct(p))'
                        /\ \A v \in Worker : ~Claims(v, MgrAcct(p))'
        BY DEF Exclusive
    <2>1. Creating(p) /\ MgrAcct(p)' = MgrAcct(p) BY <1>1 DEF Creating, MgrAcct
    <2>2. /\ record[MgrAcct(p)].status \in {"provisioning", "verifying"} /\ record[MgrAcct(p)].aged = FALSE
          /\ \A r \in AcctReq \ {p} : ~OnRow(r, MgrAcct(p))
          /\ \A v \in Worker : ~Claims(v, MgrAcct(p))
        BY <1>0, <2>1 DEF Exclusive
    <2>3. record'[MgrAcct(p)].aged = record[MgrAcct(p)].aged BY <1>0, <1>1, <2>1 DEF Creating, MgrAcct
    <2> QED BY <1>0, <1>1, <2>1, <2>2, <2>3 DEF OnRow, Claims
<1>5. ASSUME NEW p \in AcctReq PROVE MgrSeen(p)'
    <2>1. MgrSeen(p) BY DEF ManagedInv, BaseInv
    <2> QED BY <1>0, <1>1, <2>1 DEF MgrSeen, Verified, Marked, Remote, MgrAcct
<1>6. ASSUME NEW w \in Worker PROVE RowSeen(w)'
    <2>1. RowSeen(w) BY DEF ManagedInv, BaseInv
    <2> QED BY <1>0, <1>1, <2>1 DEF RowSeen, Remote, Cut
<1> QED BY <1>2, <1>4, <1>5, <1>6 DEF ManagedInv

LEMMA EnvBase ==
    ASSUME BaseInv, ManagedEnv
    PROVE  BaseInv'
<1>0. ManagedTypeOK /\ PlatformTypeOK /\ HasRecord BY TypesOf DEF BaseInv
<1>1. /\ Outside /\ mgr' = mgr /\ wrk' = wrk
      /\ stirred' = stirred \cup Watchers({a \in Account : server'[a] # server[a]})
    BY DEF ManagedEnv
<1>2. record' = record BY <1>1 DEF Outside, Land, Settle, Dba
<1>3. ManagedTypeOK'
    <2>1. PlatformTypeOK' BY <1>0, <1>1, OutsideType
    <2> QED BY <1>0, <1>1, <2>1 DEF ManagedTypeOK, Watchers
<1>4. HasRecord' BY <1>0, <1>1, <1>2 DEF HasRecord, Claims, MgrAcct
<1> QED BY <1>3, <1>4 DEF BaseInv

LEMMA EnvKeeps ==
    ASSUME ManagedInv, ManagedEnv
    PROVE  ManagedInv'
<1>0. /\ ManagedTypeOK /\ PlatformTypeOK /\ HasRecord /\ Exclusive
      /\ \A p \in AcctReq : MgrAcct(p) \in Account
      /\ \A w \in Worker : wrk[w].acct \in Account
    BY TypesOf DEF ManagedInv, BaseInv
<1>1. /\ Outside /\ mgr' = mgr /\ wrk' = wrk
      /\ stirred' = stirred \cup Watchers({a \in Account : server'[a] # server[a]})
    BY DEF ManagedEnv
<1>2. record' = record BY <1>1 DEF Outside, Land, Settle, Dba
<1>3. BaseInv' BY EnvBase DEF ManagedInv
<1>5. Exclusive' BY <1>0, <1>1, <1>2 DEF Exclusive, Creating, OnRow, Claims, MgrAcct
<1>6. ASSUME NEW p \in AcctReq PROVE MgrSeen(p)'
    <2>1. MgrSeen(p) BY DEF ManagedInv, BaseInv
    <2>2. CASE server'[MgrAcct(p)] = server[MgrAcct(p)]
        BY <1>1, <1>2, <2>1, <2>2 DEF MgrSeen, Verified, Marked, Remote, MgrAcct
    <2>3. CASE server'[MgrAcct(p)] # server[MgrAcct(p)]
        BY <1>0, <1>1, <2>3 DEF MgrSeen, Watchers, MgrAcct
    <2> QED BY <2>2, <2>3
<1>7. ASSUME NEW w \in Worker PROVE RowSeen(w)'
    <2>1. RowSeen(w) BY DEF ManagedInv, BaseInv
    <2>2. CASE server'[wrk[w].acct] = server[wrk[w].acct] BY <1>1, <2>1, <2>2 DEF RowSeen, Remote, Cut
    <2>3. CASE server'[wrk[w].acct] # server[wrk[w].acct] BY <1>0, <1>1, <2>3 DEF RowSeen, Watchers
    <2> QED BY <2>2, <2>3
<1> QED BY <1>3, <1>5, <1>6, <1>7 DEF ManagedInv

\* What the handlers of accounts keep of themselves, whoever works beside them.
LEMMA BaseStep ==
    ASSUME BaseInv, ManagedNext \/ ManagedEnv
    PROVE  BaseInv'
<1>1. \/ \E p \in AcctReq : ThreadStep(p)
      \/ \E w \in Worker : WorkStep(w)
      \/ ClockStep
      \/ ManagedEnv
    BY DEF ManagedNext, ThreadStep, WorkStep, ClockStep
<1> QED BY <1>1, MgrThreadTypes, ThreadRecords, WorkerBase, ClockBase, EnvBase DEF BaseInv

\* A step of other handlers, which leave every record a record.
LEMMA BaseBeside ==
    ASSUME BaseInv, PlatformTypeOK', UNCHANGED <<mgr, wrk, stirred>>,
           \A a \in Account : /\ record'[a].made = record[a].made
                              /\ record'[a].status = "absent" <=> record[a].status = "absent"
    PROVE  BaseInv'
<1>1. ManagedTypeOK' BY DEF BaseInv, ManagedTypeOK
<1>2. /\ \A p \in AcctReq : MgrAcct(p) \in Account
      /\ \A w \in Worker : wrk[w].acct \in Account
    BY TypesOf DEF BaseInv
<1>3. HasRecord' BY <1>2 DEF BaseInv, HasRecord, Claims, MgrAcct
<1> QED BY <1>1, <1>3 DEF BaseInv

\* They hold no locks: they spare those of the others or leave a note.
LEMMA ManagedSpares ==
    ASSUME BaseInv, ManagedNext \/ ManagedEnv, NEW T \in SUBSET Thread
    PROVE  Spares(T) /\ UNCHANGED <<actionOps, permOps>>
<1>0. ManagedTypeOK /\ PlatformTypeOK /\ RecTypes BY TypesOf DEF BaseInv
<1>1. ASSUME NEW p \in AcctReq, ThreadStep(p) PROVE Spares(T) /\ UNCHANGED <<actionOps, permOps>>
    BY <1>0, <1>1, StepEffects, NotedSpares
<1>2. ASSUME NEW w \in Worker, WorkStep(w) PROVE Spares(T) /\ UNCHANGED <<actionOps, permOps>>
    BY <1>0, <1>2, StepWorks, NotedSpares DEF Works
<1>3. CASE ClockStep
    BY <1>0, <1>3, ClockFacts, IdleNoted, NotedSpares
<1>4. CASE ManagedEnv
    BY <1>0, <1>4, OutsideSpares DEF ManagedEnv, Outside, Land, Settle, Dba
<1> QED BY <1>1, <1>2, <1>3, <1>4 DEF ManagedNext, ThreadStep, WorkStep, ClockStep

\* On MySQL they leave no lock state settling.
LEMMA ManagedSettle ==
    ASSUME Kind = "mysql", BaseInv, ManagedNext \/ ManagedEnv, Settled
    PROVE  Settled'
<1>0. ManagedTypeOK /\ PlatformTypeOK /\ RecTypes BY TypesOf DEF BaseInv
<1>1. CASE server' = server BY <1>1 DEF Settled
<1>2. ASSUME NEW p \in AcctReq, ThreadStep(p) PROVE Settled'
    BY <1>0, <1>1, <1>2, StepEffects, StatementSettled DEF Effects
<1>3. ASSUME NEW w \in Worker, WorkStep(w) PROVE Settled'
    BY <1>0, <1>1, <1>3, StepWorks, StatementSettled DEF Works
<1>4. CASE ClockStep BY <1>0, <1>1, <1>4, ClockFacts
<1>5. CASE ManagedEnv BY <1>0, <1>5, OutsideSettled DEF ManagedEnv
<1> QED BY <1>2, <1>3, <1>4, <1>5 DEF ManagedNext, ThreadStep, WorkStep, ClockStep

-----------------------------------------------------------------------------
(* The marker, which holds beside any other handler of the accounts too.   *)

\* What is about to be dropped or cut was made by the platform, if it is there.
MarkSeen ==
    /\ \A p \in AcctReq : p \in stirred \/ (mgr[p].pc = "rdrop" => Own(MgrAcct(p)))
    /\ \A w \in Worker : w \in stirred \/ (wrk[w].pc = "xexpire" => Own(wrk[w].acct))

TouchesOwn ==
    /\ \A p \in AcctReq : mgr[p].pc = "rdrop" /\ server' # server /\ mgr'[p] # mgr[p] =>
           p \in stirred \/ Remote(mgr[p].acct).mark
    /\ \A w \in Worker : wrk[w].pc = "xexpire" /\ server' # server /\ wrk'[w] # wrk[w] =>
           w \in stirred \/ Remote(wrk[w].acct).mark

LEMMA MarkStep ==
    ASSUME BaseInv, MarkSeen, ManagedNext \/ ManagedEnv
    PROVE  MarkSeen'
<1>0. /\ ManagedTypeOK /\ PlatformTypeOK /\ RecTypes
      /\ \A p \in AcctReq : MgrAcct(p) \in Account
      /\ \A w \in Worker : wrk[w].acct \in Account
    BY TypesOf DEF BaseInv
<1>a. ASSUME server' = server \/ \E s \in StatementType : Executes(s) \/ Fails(s), NEW a \in Account, Own(a)
      PROVE  Own(a)'
    BY <1>0, <1>a, StatementOwn DEF Own
<1>1. ASSUME NEW p \in AcctReq, ThreadStep(p) PROVE MarkSeen'
    <2>1. /\ Others(p) /\ Effects(p) /\ wrk' = wrk /\ stirred' \in {stirred, stirred \ {p}} /\ p \notin Worker
        BY <1>0, <1>1, RowMoves, StepEffects, ManagedAssumption
    <2>2. \A a \in Account : Own(a) => Own(a)' BY <1>a, <2>1 DEF Effects
    <2>3. ASSUME NEW q \in AcctReq PROVE q \in stirred' \/ (mgr'[q].pc = "rdrop" => Own(MgrAcct(q))')
        <3>1. CASE q = p
            <4>1. MgrSeen(p)' BY <1>1, OwnMgrSeen
            <4> QED BY <3>1, <4>1 DEF MgrSeen, Own, Remote
        <3>2. CASE q # p
            <4>1. mgr'[q] = mgr[q] BY <2>1, <3>2 DEF Others
            <4>2. Own(MgrAcct(q)) => Own(mgr[q].acct)' BY <1>0, <2>2, <4>1 DEF MgrAcct
            <4> QED BY <2>1, <3>2, <4>1, <4>2 DEF MarkSeen, MgrAcct, Own
        <3> QED BY <3>1, <3>2
    <2>4. ASSUME NEW w \in Worker PROVE w \in stirred' \/ (wrk'[w].pc = "xexpire" => Own(wrk[w].acct)')
        BY <1>0, <2>1, <2>2 DEF MarkSeen
    <2> QED BY <2>3, <2>4 DEF MarkSeen
<1>2. ASSUME NEW w \in Worker, WorkStep(w) PROVE MarkSeen'
    <2>1. Works(w) /\ w \notin AcctReq BY <1>0, <1>2, StepWorks, ManagedAssumption
    <2>2. \A a \in Account : Own(a) => Own(a)' BY <1>a, <2>1 DEF Works
    <2>3. ASSUME NEW q \in AcctReq PROVE q \in stirred' \/ (mgr'[q].pc = "rdrop" => Own(MgrAcct(q))')
        <3>1. mgr' = mgr /\ (q \in stirred => q \in stirred') BY <2>1 DEF Works
        <3>2. Own(MgrAcct(q)) => Own(MgrAcct(q))' BY <1>0, <2>2, <3>1 DEF MgrAcct
        <3> QED BY <3>1, <3>2 DEF MarkSeen
    <2>4. ASSUME NEW v \in Worker PROVE v \in stirred' \/ (wrk'[v].pc = "xexpire" => Own(wrk[v].acct)')
        <3>1. CASE v = w
            <4>1. RowSeen(w)' BY <1>2, OwnRowSeen
            <4> QED BY <3>1, <4>1 DEF RowSeen, Own, Remote
        <3>2. CASE v # w
            <4>1. wrk'[v] = wrk[v] /\ (v \in stirred => v \in stirred') BY <2>1, <3>2 DEF Works, OtherWorkers
            <4>2. Own(wrk[v].acct) => Own(wrk[v].acct)' BY <1>0, <2>2, <4>1
            <4> QED BY <4>1, <4>2 DEF MarkSeen
        <3> QED BY <3>1, <3>2
    <2> QED BY <2>3, <2>4 DEF MarkSeen
<1>3. CASE ClockStep
    BY <1>0, <1>3, ClockFacts DEF MarkSeen, Own, MgrAcct
<1>4. CASE ManagedEnv
    <2>1. /\ mgr' = mgr /\ wrk' = wrk
          /\ stirred' = stirred \cup Watchers({a \in Account : server'[a] # server[a]})
        BY <1>4 DEF ManagedEnv
    <2>2. ASSUME NEW q \in AcctReq, q \notin stirred' PROVE server'[mgr[q].acct] = server[mgr[q].acct] /\ q \notin stirred
        BY <1>0, <2>1, <2>2 DEF Watchers, MgrAcct
    <2>3. ASSUME NEW w \in Worker, w \notin stirred' PROVE server'[wrk[w].acct] = server[wrk[w].acct] /\ w \notin stirred
        BY <1>0, <2>1, <2>3 DEF Watchers
    <2> QED BY <2>1, <2>2, <2>3 DEF MarkSeen, Own, MgrAcct
<1> QED BY <1>1, <1>2, <1>3, <1>4 DEF ManagedNext, ThreadStep, WorkStep, ClockStep

\* A step of other handlers, which take no marker off.
LEMMA MarkBeside ==
    ASSUME BaseInv, MarkSeen, UNCHANGED <<mgr, wrk, stirred>>, \A a \in Account : Own(a) => Own(a)'
    PROVE  MarkSeen'
<1>1. /\ \A p \in AcctReq : MgrAcct(p) \in Account
      /\ \A w \in Worker : wrk[w].acct \in Account
    BY TypesOf DEF BaseInv
<1>2. /\ \A p \in AcctReq : Own(MgrAcct(p)) => Own(MgrAcct(p))'
      /\ \A w \in Worker : Own(wrk[w].acct) => Own(wrk[w].acct)'
    BY <1>1 DEF MgrAcct
<1> QED BY <1>2 DEF MarkSeen

\* Every DROP and every cut that reaches the server meets a marked account.
LEMMA MarkTouched ==
    ASSUME BaseInv, MarkSeen, ManagedNext \/ ManagedEnv
    PROVE  TouchesOwn
<1>0. ManagedTypeOK /\ RecTypes BY TypesOf DEF BaseInv
<1>a. \/ \E p \in AcctReq : ThreadStep(p)
      \/ \E w \in Worker : WorkStep(w)
      \/ ClockStep
      \/ ManagedEnv
    BY DEF ManagedNext, ThreadStep, WorkStep, ClockStep
<1>1. ASSUME NEW s \in StatementType, s.verb # "create", Executes(s) \/ Fails(s), server' # server
      PROVE  server[s.acct].live
    BY <1>1 DEF Executes, Fails, Accepts
<1>2. ASSUME NEW p \in AcctReq, mgr[p].pc = "rdrop", server' # server, mgr'[p] # mgr[p]
      PROVE  p \in stirred \/ Remote(mgr[p].acct).mark
    <2>1. \A q \in AcctReq : ThreadStep(q) => q = p BY <1>2, RowMoves DEF Others
    <2>2. ~\E w \in Worker : WorkStep(w) BY <1>0, <1>2, StepWorks DEF Works
    <2>3. mgr' = mgr \/ ~(ClockStep \/ ManagedEnv) BY <1>0, ClockFacts DEF ManagedEnv
    <2>4. ThreadStep(p) BY <1>a, <1>2, <2>1, <2>2, <2>3
    <2>5. Effects(p) BY <1>0, <2>4, StepEffects
    <2>6. server[MgrAcct(p)].live BY <1>1, <1>2, <2>5 DEF Effects
    <2> QED BY <1>2, <2>6 DEF MarkSeen, Own, Remote, MgrAcct
<1>3. ASSUME NEW w \in Worker, wrk[w].pc = "xexpire", server' # server, wrk'[w] # wrk[w]
      PROVE  w \in stirred \/ Remote(wrk[w].acct).mark
    <2>1. \A v \in Worker : WorkStep(v) => v = w BY <1>0, <1>3, StepWorks DEF Works, OtherWorkers
    <2>2. ~\E p \in AcctReq : ThreadStep(p) BY <1>0, <1>3, StepEffects
    <2>3. wrk' = wrk \/ ~(ClockStep \/ ManagedEnv) BY <1>0, ClockFacts DEF ManagedEnv
    <2>4. WorkStep(w) BY <1>a, <1>3, <2>1, <2>2, <2>3
    <2>5. Works(w) BY <1>0, <2>4, StepWorks
    <2>6. server[wrk[w].acct].live BY <1>1, <1>3, <2>5 DEF Works
    <2> QED BY <1>3, <2>6 DEF MarkSeen, Own, Remote
<1> QED BY <1>2, <1>3 DEF TouchesOwn

-----------------------------------------------------------------------------
(* The invariant holds, and the properties follow.                         *)

LEMMA ManagedStart == ManagedInit => ManagedInv
<1> SUFFICES ASSUME ManagedInit PROVE ManagedInv
    OBVIOUS
<1>1. /\ PlatformTypeOK /\ stirred = {}
      /\ \A a \in Account : record[a] = NoRecord
    BY PlatformInitTypes DEF ManagedInit, PlatformInit
<1>2. AnyAccount \in Account BY PlatformAssumption DEF AnyAccount
<1>3. /\ mgr = [p \in AcctReq |-> MgrIdle] /\ MgrIdle \in MgrThread
      /\ \A p \in AcctReq : mgr[p].pc = "idle"
    BY IdleType DEF ManagedInit
<1>4. /\ wrk \in [Worker -> WrkThread]
      /\ \A w \in Worker : wrk[w].pc = "idle" /\ wrk[w].todo = {}
    BY <1>2 DEF ManagedInit, WrkThread
<1>5. ManagedTypeOK BY <1>1, <1>3, <1>4 DEF ManagedTypeOK
<1>6. HasRecord
    <2>1. ~NoRecord.made BY Zenon DEF NoRecord
    <2> QED BY <1>1, <1>3, <1>4, <2>1, Labels DEF HasRecord, Claims
<1>7. Exclusive BY <1>3, Labels DEF Exclusive, Creating
<1>8. (\A p \in AcctReq : MgrSeen(p)) /\ \A w \in Worker : RowSeen(w) BY <1>3, <1>4 DEF MgrSeen, RowSeen
<1> QED BY <1>5, <1>6, <1>7, <1>8 DEF ManagedInv, BaseInv

LEMMA ManagedKeeps == ManagedInv /\ [ManagedSystemNext]_managedVars => ManagedInv'
<1> SUFFICES ASSUME ManagedInv, [ManagedSystemNext]_managedVars PROVE ManagedInv'
    OBVIOUS
<1>1. CASE UNCHANGED managedVars
    BY <1>1 DEF managedVars, ManagedInv, BaseInv, ManagedTypeOK, PlatformTypeOK, HasRecord, Exclusive, MgrSeen, RowSeen,
                Creating, OnRow, Claims, Cut, Verified, Marked, Remote, MgrAcct
<1>2. CASE ManagedSystemNext
    <2>1. \/ \E p \in AcctReq : ThreadStep(p)
          \/ \E w \in Worker : WorkStep(w)
          \/ ClockStep
          \/ ManagedEnv
        BY <1>2 DEF ManagedSystemNext, ManagedNext, ThreadStep, WorkStep, ClockStep
    <2> QED BY <2>1, ThreadKeeps, WorkerKeeps, ClockKeeps, EnvKeeps
<1> QED BY <1>1, <1>2

LEMMA ManagedAlways == ManagedSpec => []ManagedInv
BY ManagedStart, ManagedKeeps, PTL DEF ManagedSpec

\* Every variable keeps its type.
THEOREM ManagedTypes == ManagedSpec => []ManagedTypeOK
<1>1. ManagedInv => ManagedTypeOK BY DEF ManagedInv, BaseInv
<1> QED BY <1>1, ManagedAlways, PTL

\* A creation that reports active left the account it made with exactly the planned
\* grants, unless somebody outside changed it after the final check.
THEOREM CreationsTrue == ManagedSpec => CreateReportsTruth
<1>1. ASSUME ManagedInv, [ManagedSystemNext]_managedVars
      PROVE  [\A p \in AcctReq : mgr[p].pc = "cactive" /\ record' # record /\ mgr'[p] # mgr[p] =>
                  p \in stirred \/ Verified(mgr[p].acct)]_managedVars
    BY <1>1 DEF ManagedInv, BaseInv, MgrSeen, MgrAcct
<1> QED BY <1>1, ManagedAlways, PTL DEF ManagedSpec, CreateReportsTruth

\* A rollback that writes "failed" has seen the account gone, and gone it stays but
\* for somebody outside.
THEOREM FailedHolds == ManagedSpec => FailedIsGone
<1>1. ASSUME ManagedInv, [ManagedSystemNext]_managedVars
      PROVE  [\A p \in AcctReq : mgr[p].pc = "rwrite" /\ record' # record /\ mgr'[p] # mgr[p] =>
                  p \in stirred \/ ~Remote(mgr[p].acct).live]_managedVars
    BY <1>1 DEF ManagedInv, BaseInv, MgrSeen, MgrAcct
<1> QED BY <1>1, ManagedAlways, PTL DEF ManagedSpec, FailedIsGone

\* A record that starts to say expired belongs to an account that cannot log in.
THEOREM ExpiredHolds == ManagedSpec => ExpiredIsCut
<1>1. ASSUME ManagedInv, [ManagedSystemNext]_managedVars
      PROVE  [\A w \in Worker : wrk[w].pc = "xwrite" /\ record' # record /\ wrk'[w] # wrk[w] =>
                 LET row == Remote(wrk[w].acct) IN
                 w \in stirred \/ ~row.live \/ row.lock = "locked" \/ row.cut]_managedVars
    BY <1>1 DEF ManagedInv, BaseInv, RowSeen, Cut
<1> QED BY <1>1, ManagedAlways, PTL DEF ManagedSpec, ExpiredIsCut

\* A rollback drops and a worker cuts only accounts the platform made, unless the
\* account was replaced after it was looked at.
THEOREM OwnTouched == ManagedSpec => OnlyOwnTouched
<1>1. ASSUME ManagedInv, [ManagedSystemNext]_managedVars PROVE [TouchesOwn]_managedVars
    <2>1. BaseInv /\ MarkSeen BY <1>1 DEF ManagedInv, MgrSeen, RowSeen, MarkSeen, Own, Remote
    <2> QED BY <1>1, <2>1, MarkTouched DEF ManagedSystemNext
<1> QED BY <1>1, ManagedAlways, PTL DEF ManagedSpec, OnlyOwnTouched, TouchesOwn

-----------------------------------------------------------------------------
(* MCAccounts: actions or managed accounts, whichever was chosen.          *)

\* The part that runs keeps the invariant its own proof rests on.
RunningInv == \/ part = "actions" /\ ActionTypeOK
              \/ part = "managed" /\ ManagedInv

LEMMA RunningKeeps ==
  RunningInv /\ [AccountsNext]_<<part, platformVars, actionOwn, managedOwn>> => RunningInv'
<1> SUFFICES ASSUME RunningInv, [AccountsNext]_<<part, platformVars, actionOwn, managedOwn>>
             PROVE  RunningInv'
  OBVIOUS
<1>1. /\ part' = part
      /\ part = "actions" => [Next]_actionVars
      /\ part = "managed" => [ManagedSystemNext]_managedVars
  BY DEF RunningInv, AccountsNext, platformVars, actionOwn, managedOwn, actionVars, managedVars
<1>2. CASE part = "actions" BY <1>1, <1>2, StepTypes DEF RunningInv
<1>3. CASE part = "managed" BY <1>1, <1>3, ManagedKeeps DEF RunningInv
<1> QED BY <1>2, <1>3 DEF RunningInv

\* Rows, handlers and workers keep their types, whichever part runs.
THEOREM AccountsTypes == AccountsSpec => []AccountsTypeOK
<1>1. AccountsInit => RunningInv BY InitTypes, ManagedStart DEF AccountsInit, RunningInv
<1>2. RunningInv => AccountsTypeOK BY DEF RunningInv, AccountsTypeOK, ManagedInv, BaseInv
<1> QED BY <1>1, <1>2, RunningKeeps, PTL DEF AccountsSpec
=============================================================================
