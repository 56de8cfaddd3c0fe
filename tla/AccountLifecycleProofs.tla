------------------------- MODULE AccountLifecycleProofs -------------------------
(***************************************************************************)
(* Proofs about AccountLifecycle: what the advisory lock and the two       *)
(* tables of operations promise each other, for any number of accounts,    *)
(* operations, requests, workers and changes from outside; then which of   *)
(* the theorems about the three components hold of their composition.      *)
(***************************************************************************)
EXTENDS AccountLifecycle, TLAPS

-----------------------------------------------------------------------------
(* The invariant.                                                          *)

\* The fields of the rows and of the threads.
ActionFields(r) == r = [status |-> r.status, acct |-> r.acct, key |-> r.key, ident |-> r.ident, aged |-> r.aged]

PermFields(r) == r = [status |-> r.status, acct |-> r.acct, key |-> r.key, before |-> r.before,
                      after |-> r.after, mark |-> r.mark, aged |-> r.aged]

ThreadFields(r) == r = [pc |-> r.pc, op |-> r.op, mode |-> r.mode, revoke |-> r.revoke, grant |-> r.grant]

\* An operation works for the account of its request, and no request is replaced.
ActionShapes ==
    /\ act \in [ActionReq -> AA!ActionThread]
    /\ \A p \in ActionReq : act[p].pc # "idle" => act[p].op \in ActionOp /\ ask[act[p].op].made = TRUE
    /\ DOMAIN ask = ActionOp
    /\ \A o \in ActionOp : ask[o].acct \in Account
    /\ DOMAIN actionOps = ActionOp
    /\ \A o \in ActionOp : /\ ActionFields(actionOps[o])
                           /\ actionOps[o].status # "absent" => ask[o].made = TRUE

PermShapes ==
    /\ DOMAIN perm = PermReq
    /\ \A q \in PermReq : /\ ThreadFields(perm[q])
                          /\ perm[q].pc # "idle" => perm[q].op \in PermOp /\ edit[perm[q].op].made = TRUE
    /\ DOMAIN edit = PermOp
    /\ \A o \in PermOp : edit[o].acct \in Account
    /\ DOMAIN permOps = PermOp
    /\ \A o \in PermOp : /\ PermFields(permOps[o])
                         /\ permOps[o].status # "absent" => edit[o].made = TRUE
                         /\ permOps[o].key => permOps[o].status # "absent"

\* Inside the locked section a request holds the lock of its account.
Locks ==
    /\ advisory \in [Account -> Thread \cup {NoOne}]
    /\ \A p \in ActionReq : act[p].pc \in AA!LockedLabel => advisory[ask[act[p].op].acct] = p
    /\ \A q \in PermReq : perm[q].pc \in PP!LockedLabel => advisory[edit[perm[q].op].acct] = q

\* What a request has found in the other table stays so until it writes its own; an
\* edit that spells the user unquoted finds nothing.
Clear ==
    /\ \A p \in ActionReq : act[p].pc = "insert" => PendingPerms(ask[act[p].op].acct) = {}
    /\ \A q \in PermReq : perm[q].pc \in {"snapshot", "insert"} =>
          edit[perm[q].op].plain \/ PendingActions(edit[perm[q].op].acct) = {}

\* Both tables hold an open operation of one account only if the edit spells the
\* user unquoted.
Pair == \A a \in Account : PendingActions(a) = {} \/ \A o \in PendingPerms(a) : edit[o].plain

LifecycleInv == ActionShapes /\ PermShapes /\ Locks /\ Clear /\ Pair

-----------------------------------------------------------------------------
(* Account actions.                                                        *)

\* What a step of a request to disable or delete does.
ActionMove(p) ==
    /\ ActionShapes'
    /\ \A q \in ActionReq \ {p} : act'[q] = act[q]
    /\ ask' = ask
    /\ \/ /\ advisory' = advisory
          /\ act'[p].pc \in AA!LockedLabel => act[p].pc \in AA!LockedLabel /\ act'[p].op = act[p].op
       \/ /\ act'[p].op = act[p].op /\ act[p].pc # "idle"
          /\ advisory[ask[act[p].op].acct] = NoOne
          /\ advisory' = [advisory EXCEPT ![ask[act[p].op].acct] = p]
       \/ /\ act'[p].pc = "idle"
          /\ advisory' = [a \in Account |-> IF advisory[a] = p THEN NoOne ELSE advisory[a]]
    /\ act'[p].pc = "insert" => act'[p].op = act[p].op /\ PendingPerms(ask[act[p].op].acct) = {}
    /\ \A o \in ActionOp : actionOps'[o].key =>
          \/ actionOps[o].key /\ actionOps'[o].acct = actionOps[o].acct
          \/ act[p].pc = "insert" /\ actionOps'[o].acct = ask[act[p].op].acct

\* What is written of a row that exists.
Rewritten(w, r, st) ==
    \/ w = [r EXCEPT !.status = st, !.key = FALSE, !.aged = FALSE]
    \/ w = [r EXCEPT !.status = st, !.aged = FALSE]
    \/ w = [r EXCEPT !.aged = TRUE]

LEMMA ActionStatus ==
    ASSUME NEW w, NEW r, NEW st, ActionFields(r), Rewritten(w, r, st)
    PROVE  /\ ActionFields(w) /\ w.acct = r.acct
           /\ w.key = FALSE \/ w.key = r.key
           /\ w.status = st \/ w.status = r.status
<1>1. r = [status |-> r.status, acct |-> r.acct, key |-> r.key, ident |-> r.ident, aged |-> r.aged]
    BY DEF ActionFields
<1>2. PICK s, a, k, i, g : r = [status |-> s, acct |-> a, key |-> k, ident |-> i, aged |-> g] BY <1>1
<1>3. \/ w = [status |-> st, acct |-> a, key |-> FALSE, ident |-> i, aged |-> FALSE]
      \/ w = [status |-> st, acct |-> a, key |-> k, ident |-> i, aged |-> FALSE]
      \/ w = [status |-> s, acct |-> a, key |-> k, ident |-> i, aged |-> TRUE]
    BY <1>2 DEF Rewritten
<1> QED BY <1>2, <1>3 DEF ActionFields

LEMMA ActionLabels ==
    /\ AA!LockedLabel = {"check", "busy", "insert", "exec", "poll", "finish", "fail",
                         "voutcome", "vfinish", "vnot", "release"}
    /\ AA!ActionLabel = {"idle", "lock", "vlock", "check", "busy", "insert", "exec", "poll", "finish", "fail",
                         "voutcome", "vfinish", "vnot", "release"}
BY DEF AA!LockedLabel, AA!ActionLabel, AA!PerformLabel, AA!VerifyLabel

LEMMA ActionGoto ==
    ASSUME ActionShapes, NEW p \in ActionReq, NEW l \in AA!ActionLabel \ {"idle"}, act[p].pc # "idle", AA!Goto(p, l)
    PROVE  /\ act' \in [ActionReq -> AA!ActionThread]
           /\ act'[p].pc = l /\ act'[p].op = act[p].op
           /\ \A q \in ActionReq \ {p} : act'[q] = act[q]
BY DEF ActionShapes, AA!Goto, AA!ActionThread

LEMMA ActionBegin ==
    ASSUME ActionShapes, NEW p \in ActionReq, NEW l \in {"lock", "vlock"}, NEW o \in ActionOp, AA!Begin(p, l, o)
    PROVE  /\ act' \in [ActionReq -> AA!ActionThread]
           /\ act'[p].pc = l /\ act'[p].op = o
           /\ \A q \in ActionReq \ {p} : act'[q] = act[q]
BY ActionLabels DEF ActionShapes, AA!Begin, AA!ActionThread

LEMMA ActionEnd ==
    ASSUME ActionShapes, NEW p \in ActionReq, AA!End(p)
    PROVE  /\ act' \in [ActionReq -> AA!ActionThread]
           /\ act'[p].pc = "idle"
           /\ \A q \in ActionReq \ {p} : act'[q] = act[q]
BY ActionLabels DEF ActionShapes, AA!End, AA!Idle, AA!ActionThread

\* One row is replaced by one of the same account, open or not as before or settled.
LEMMA ActionRow1 ==
    ASSUME ActionShapes, NEW o \in ActionOp, NEW r, actionOps' = [actionOps EXCEPT ![o] = r],
           ActionFields(r), ask[o].made = TRUE
    PROVE  /\ DOMAIN actionOps' = ActionOp /\ actionOps'[o] = r
           /\ \A x \in ActionOp \ {o} : actionOps'[x] = actionOps[x]
           /\ \A x \in ActionOp : ActionFields(actionOps'[x]) /\ (actionOps'[x].status # "absent" => ask[x].made = TRUE)
<1>1. DOMAIN actionOps' = ActionOp /\ actionOps'[o] = r BY DEF ActionShapes
<1>2. \A x \in ActionOp \ {o} : actionOps'[x] = actionOps[x] BY DEF ActionShapes
<1> QED BY <1>1, <1>2 DEF ActionShapes

\* A request that goes on or ends without writing a row.
LEMMA ActionGoes ==
    ASSUME LifecycleInv, NEW p \in ActionReq, act[p].pc # "idle",
           ask' = ask, actionOps' = actionOps, permOps' = permOps, advisory' = advisory,
           \/ AA!End(p)
           \/ \E l \in AA!ActionLabel \ {"idle", "insert"} :
                 AA!Goto(p, l) /\ (l \in AA!LockedLabel => act[p].pc \in AA!LockedLabel)
    PROVE  ActionMove(p)
<1>0. ActionShapes BY DEF LifecycleInv
<1>1. CASE AA!End(p)
    BY <1>0, <1>1, ActionEnd, ActionLabels DEF ActionMove, ActionShapes
<1>2. ASSUME NEW l \in AA!ActionLabel \ {"idle", "insert"}, AA!Goto(p, l),
             l \in AA!LockedLabel => act[p].pc \in AA!LockedLabel
      PROVE  ActionMove(p)
    <2>1. /\ act' \in [ActionReq -> AA!ActionThread]
          /\ act'[p].pc = l /\ act'[p].op = act[p].op
          /\ \A q \in ActionReq \ {p} : act'[q] = act[q]
        BY <1>0, <1>2, ActionGoto
    <2>2. ActionShapes' BY <1>0, <2>1 DEF ActionShapes
    <2> QED BY <1>0, <1>2, <2>1, <2>2 DEF ActionMove, ActionShapes
<1> QED BY <1>1, <1>2

\* A request that rewrites the row of its operation and goes on.
LEMMA ActionWrites ==
    ASSUME LifecycleInv, NEW p \in ActionReq, act[p].pc \in AA!LockedLabel, NEW r, ActionFields(r),
           actionOps' = [actionOps EXCEPT ![act[p].op] = r],
           \/ r.acct = actionOps[act[p].op].acct /\ (r.key = FALSE \/ r.key = actionOps[act[p].op].key)
           \/ r.acct = ask[act[p].op].acct /\ act[p].pc = "insert",
           ask' = ask, permOps' = permOps, advisory' = advisory,
           NEW l \in AA!LockedLabel \ {"insert"}, AA!Goto(p, l)
    PROVE  ActionMove(p)
<1>0. ActionShapes BY DEF LifecycleInv
<1>1. act[p].op \in ActionOp /\ ask[act[p].op].made = TRUE /\ act[p].pc # "idle"
    BY <1>0, ActionLabels DEF ActionShapes
<1>2. PICK o \in ActionOp : o = act[p].op BY <1>1
<1>3. /\ DOMAIN actionOps' = ActionOp /\ actionOps'[o] = r
      /\ \A x \in ActionOp \ {o} : actionOps'[x] = actionOps[x]
      /\ \A x \in ActionOp : ActionFields(actionOps'[x]) /\ (actionOps'[x].status # "absent" => ask[x].made = TRUE)
    BY <1>0, <1>1, <1>2, ActionRow1
<1>4. /\ act' \in [ActionReq -> AA!ActionThread]
      /\ act'[p].pc = l /\ act'[p].op = act[p].op
      /\ \A q \in ActionReq \ {p} : act'[q] = act[q]
    BY <1>0, <1>1, ActionGoto, ActionLabels
<1>5. ActionShapes' BY <1>0, <1>1, <1>3, <1>4 DEF ActionShapes
<1>6. \A x \in ActionOp : actionOps'[x].key =>
          \/ actionOps[x].key /\ actionOps'[x].acct = actionOps[x].acct
          \/ act[p].pc = "insert" /\ actionOps'[x].acct = ask[act[p].op].acct
    BY <1>2, <1>3
<1> QED BY <1>4, <1>5, <1>6 DEF ActionMove

LEMMA ActionLocks ==
    ASSUME LifecycleInv, NEW p \in ActionReq, AA!Lock(p) \/ AA!Release(p) \/ AA!Die(p)
    PROVE  ActionMove(p)
<1>0. ActionShapes BY DEF LifecycleInv
<1>1. act[p].pc # "idle" /\ ask' = ask /\ actionOps' = actionOps /\ permOps' = permOps
    BY DEF AA!Lock, AA!Release, AA!Die
<1>2. CASE AA!Lock(p)
    <2>1. PICK l \in {"check", "voutcome"} : AA!Goto(p, l) BY <1>2 DEF AA!Lock
    <2>2. /\ act' \in [ActionReq -> AA!ActionThread]
          /\ act'[p].pc = l /\ act'[p].op = act[p].op
          /\ \A q \in ActionReq \ {p} : act'[q] = act[q]
        BY <1>0, <1>1, <2>1, ActionGoto, ActionLabels
    <2>3. ActionShapes' BY <1>0, <1>1, <2>2 DEF ActionShapes
    <2>4. /\ advisory[ask[act[p].op].acct] = NoOne
          /\ advisory' = [advisory EXCEPT ![ask[act[p].op].acct] = p]
        BY <1>2 DEF AA!Lock, AA!TakeLock, AA!Acct
    <2> QED BY <1>0, <1>1, <2>2, <2>3, <2>4 DEF ActionMove, ActionShapes
<1>3. CASE AA!Release(p) \/ AA!Die(p)
    <2>1. /\ AA!End(p)
          /\ advisory' = [a \in Account |-> IF advisory[a] = p THEN NoOne ELSE advisory[a]]
        BY <1>3 DEF AA!Release, AA!Die, AA!DropLocks
    <2>2. /\ act' \in [ActionReq -> AA!ActionThread]
          /\ act'[p].pc = "idle"
          /\ \A q \in ActionReq \ {p} : act'[q] = act[q]
        BY <1>0, <2>1, ActionEnd
    <2>3. ActionShapes' BY <1>0, <1>1, <2>2 DEF ActionShapes
    <2> QED BY <1>0, <1>1, <2>1, <2>2, <2>3 DEF ActionMove, ActionShapes
<1> QED BY <1>2, <1>3

LEMMA ActionSteps ==
    ASSUME LifecycleInv, NEW p \in ActionReq, AA!ActionStep(p)
    PROVE  ActionMove(p)
<1>0. ActionShapes /\ (act[p].pc # "idle" => act[p].op \in ActionOp) BY DEF LifecycleInv, ActionShapes
<1>r. act[p].pc # "idle" => ActionFields(actionOps[act[p].op]) BY <1>0 DEF ActionShapes
<1>1. CASE AA!LockBusy(p) \/ AA!Check(p) \/ AA!Exec(p) \/ AA!Poll(p) \/ AA!VerifyOutcome(p)
    <2>1. /\ act[p].pc # "idle" /\ ask' = ask /\ actionOps' = actionOps /\ permOps' = permOps /\ advisory' = advisory
          /\ \/ AA!End(p)
             \/ /\ act[p].pc \in AA!LockedLabel
                /\ \E l \in AA!ActionLabel \ {"idle", "insert"} : AA!Goto(p, l)
        BY <1>1, ActionLabels DEF AA!LockBusy, AA!Check, AA!Exec, AA!Poll, AA!VerifyOutcome, AA!platformVars
    <2> QED BY <2>1, ActionGoes
<1>2. CASE AA!Busy(p)
    <2>1. /\ act[p].pc = "busy" /\ ask' = ask /\ actionOps' = actionOps /\ permOps' = permOps /\ advisory' = advisory
        BY <1>2 DEF AA!Busy, AA!platformVars
    <2>2. CASE AA!Goto(p, "release") BY <2>1, <2>2, ActionGoes, ActionLabels
    <2>3. CASE AA!Goto(p, "insert") /\ PendingPerms(ask[act[p].op].acct) = {}
        <3>1. /\ act' \in [ActionReq -> AA!ActionThread]
              /\ act'[p].pc = "insert" /\ act'[p].op = act[p].op
              /\ \A q \in ActionReq \ {p} : act'[q] = act[q]
            BY <1>0, <2>1, <2>3, ActionGoto, ActionLabels
        <3>2. ActionShapes' BY <1>0, <2>1, <3>1 DEF ActionShapes
        <3> QED BY <1>0, <2>1, <2>3, <3>1, <3>2, ActionLabels DEF ActionMove, ActionShapes
    <2> QED BY <1>2, <2>2, <2>3 DEF AA!Busy, AA!PendingPerms, PendingPerms, AA!Acct
<1>3. CASE AA!Insert(p)
    <2>1. /\ act[p].pc = "insert" /\ ask' = ask /\ permOps' = permOps /\ advisory' = advisory
        BY <1>3 DEF AA!Insert
    <2>2. CASE AA!Goto(p, "release") /\ actionOps' = actionOps BY <2>1, <2>2, ActionGoes, ActionLabels
    <2>3. CASE AA!Record(p)
        <3> DEFINE r == [status |-> "applying", acct |-> ask[act[p].op].acct, key |-> TRUE,
                         ident |-> ask[act[p].op].rev.ident, aged |-> FALSE]
        <3>1. ActionFields(r) /\ r.acct = ask[act[p].op].acct BY DEF ActionFields
        <3>2. actionOps' = [actionOps EXCEPT ![act[p].op] = r] /\ AA!Goto(p, "exec")
            BY <2>3 DEF AA!Record, AA!Acct
        <3> HIDE DEF r
        <3> QED BY <2>1, <3>1, <3>2, ActionWrites, ActionLabels
    <2> QED BY <1>3, <2>2, <2>3 DEF AA!Insert
<1>4. ASSUME act[p].pc \in AA!LockedLabel, AA!Finish(act[p].op), AA!Goto(p, "release"),
             ask' = ask, permOps' = permOps, advisory' = advisory
      PROVE  ActionMove(p)
    <2> DEFINE r == [actionOps[act[p].op] EXCEPT !.status = "succeeded", !.key = FALSE, !.aged = FALSE]
    <2>0. ActionFields(actionOps[act[p].op]) BY <1>r, <1>4, ActionLabels
    <2>a. Rewritten(r, actionOps[act[p].op], "succeeded") BY DEF Rewritten
    <2>1. ActionFields(r) /\ r.acct = actionOps[act[p].op].acct /\ (r.key = FALSE \/ r.key = actionOps[act[p].op].key)
        BY <2>0, <2>a, ActionStatus
    <2>3. actionOps' = [actionOps EXCEPT ![act[p].op] = r] BY <1>4 DEF AA!Finish
    <2> HIDE DEF r
    <2> QED BY <1>4, <2>1, <2>3, ActionWrites, ActionLabels
<1>5. CASE AA!FinishPerform(p)
    <2>1. /\ act[p].pc = "finish" /\ ask' = ask /\ permOps' = permOps /\ advisory' = advisory
        BY <1>5 DEF AA!FinishPerform
    <2>2. CASE AA!Goto(p, "fail") /\ actionOps' = actionOps BY <2>1, <2>2, ActionGoes, ActionLabels
    <2>3. CASE AA!Finish(act[p].op) /\ AA!Goto(p, "release") BY <1>4, <2>1, <2>3, ActionLabels
    <2> QED BY <1>5, <2>2, <2>3 DEF AA!FinishPerform
<1>6. CASE AA!VerifyFinish(p) BY <1>4, <1>6, ActionLabels DEF AA!VerifyFinish
<1>7. CASE AA!Fail(p)
    <2>1. /\ act[p].pc = "fail" /\ ask' = ask /\ permOps' = permOps /\ advisory' = advisory /\ AA!Goto(p, "release")
        BY <1>7 DEF AA!Fail
    <2>2. CASE actionOps' = actionOps BY <2>1, <2>2, ActionGoes, ActionLabels
    <2>3. CASE actionOps' = [actionOps EXCEPT ![act[p].op] = [@ EXCEPT !.status = "uncertain", !.aged = FALSE]]
        <3> DEFINE r == [actionOps[act[p].op] EXCEPT !.status = "uncertain", !.aged = FALSE]
        <3>0. ActionFields(actionOps[act[p].op]) BY <1>r, <2>1
        <3>a. Rewritten(r, actionOps[act[p].op], "uncertain") BY DEF Rewritten
        <3>1. ActionFields(r) /\ r.acct = actionOps[act[p].op].acct /\ (r.key = FALSE \/ r.key = actionOps[act[p].op].key)
            BY <3>0, <3>a, ActionStatus
        <3>2. actionOps' = [actionOps EXCEPT ![act[p].op] = r] BY <2>3
        <3> HIDE DEF r
        <3> QED BY <2>1, <3>1, <3>2, ActionWrites, ActionLabels
    <2> QED BY <1>7, <2>2, <2>3 DEF AA!Fail
<1>8. CASE AA!VerifyNot(p)
    <2>1. /\ act[p].pc = "vnot" /\ ask' = ask /\ permOps' = permOps /\ advisory' = advisory /\ AA!Goto(p, "release")
        BY <1>8 DEF AA!VerifyNot
    <2> DEFINE r == [actionOps[act[p].op] EXCEPT !.status = "not_applied", !.key = FALSE, !.aged = FALSE]
    <2>0. ActionFields(actionOps[act[p].op]) BY <1>r, <2>1
    <2>a. Rewritten(r, actionOps[act[p].op], "not_applied") BY DEF Rewritten
    <2>2. ActionFields(r) /\ r.acct = actionOps[act[p].op].acct /\ (r.key = FALSE \/ r.key = actionOps[act[p].op].key)
        BY <2>0, <2>a, ActionStatus
    <2>4. actionOps' = [actionOps EXCEPT ![act[p].op] = r] BY <1>8 DEF AA!VerifyNot
    <2> HIDE DEF r
    <2> QED BY <2>1, <2>2, <2>4, ActionWrites, ActionLabels
<1> QED BY <1>1, <1>2, <1>3, <1>5, <1>6, <1>7, <1>8, ActionLocks DEF AA!ActionStep

\* A new request is confirmed, or a row grows old.
ActionRest ==
    /\ ActionShapes' /\ act' = act /\ advisory' = advisory
    /\ \A o \in ActionOp : ask[o].made = TRUE => ask'[o] = ask[o]
    /\ \A o \in ActionOp : actionOps'[o].key => actionOps[o].key /\ actionOps'[o].acct = actionOps[o].acct

LEMMA ActionMoves ==
    ASSUME LifecycleInv, AA!ActionNext
    PROVE  ActionRest \/ \E p \in ActionReq : ActionMove(p)
<1>0. ActionShapes BY DEF LifecycleInv
<1>1. ASSUME NEW o \in ActionOp, NEW a \in Account, NEW v \in AA!Verb, AA!Submit(o, a, v)
      PROVE  ActionRest
    <2>1. /\ act' = act /\ advisory' = advisory /\ actionOps' = actionOps /\ ~ask[o].made
          /\ ask' = [ask EXCEPT ![o] = [acct |-> a, verb |-> v, made |-> TRUE, rev |-> AA!Revision(server[a])]]
        BY <1>1 DEF AA!Submit, AA!platformVars
    <2>2. ask[o].made # TRUE BY <2>1, Zenon
    <2>3. /\ DOMAIN ask' = ActionOp /\ ask'[o].acct = a
          /\ \A x \in ActionOp \ {o} : ask'[x] = ask[x]
        BY <1>0, <2>1 DEF ActionShapes
    <2>4. \A p \in ActionReq : act[p].pc # "idle" => act[p].op # o BY <1>0, <2>2 DEF ActionShapes
    <2>5. ActionShapes' BY <1>0, <2>1, <2>2, <2>3, <2>4 DEF ActionShapes
    <2> QED BY <1>0, <2>1, <2>2, <2>3, <2>5 DEF ActionRest
<1>2. ASSUME NEW o \in ActionOp, NEW p \in ActionReq, AA!Perform(p, o) \/ AA!Verify(p, o)
      PROVE  ActionMove(p)
    <2>1. /\ ask' = ask /\ actionOps' = actionOps /\ advisory' = advisory
          /\ ask[o].made = TRUE
        <3>1. CASE AA!Perform(p, o) BY <1>0, <3>1 DEF AA!Perform, AA!platformVars, ActionShapes
        <3>2. CASE AA!Verify(p, o) BY <1>0, <3>2 DEF AA!Verify, AA!platformVars, ActionShapes
        <3> QED BY <1>2, <3>1, <3>2
    <2>2. PICK l \in {"lock", "vlock"} : AA!Begin(p, l, o) BY <1>2 DEF AA!Perform, AA!Verify
    <2>3. /\ act' \in [ActionReq -> AA!ActionThread]
          /\ act'[p].pc = l /\ act'[p].op = o
          /\ \A q \in ActionReq \ {p} : act'[q] = act[q]
        BY <1>0, <2>2, ActionBegin
    <2>4. ActionShapes' BY <1>0, <2>1, <2>3 DEF ActionShapes
    <2> QED BY <1>0, <2>1, <2>3, <2>4, ActionLabels DEF ActionMove, ActionShapes
<1>3. ASSUME NEW o \in ActionOp, AA!Age(o) PROVE ActionRest
    <2> DEFINE r == [actionOps[o] EXCEPT !.aged = TRUE]
    <2>1. /\ act' = act /\ advisory' = advisory /\ ask' = ask
          /\ actionOps' = [actionOps EXCEPT ![o] = r] /\ actionOps[o].status = "applying"
        BY <1>3 DEF AA!Age
    <2>2. ask[o].made = TRUE /\ ActionFields(actionOps[o]) BY <1>0, <2>1 DEF ActionShapes
    <2>3. Rewritten(r, actionOps[o], "applying") BY DEF Rewritten
    <2>4. ActionFields(r) /\ r.acct = actionOps[o].acct /\ (r.key = FALSE \/ r.key = actionOps[o].key)
        BY <2>2, <2>3, ActionStatus
    <2> HIDE DEF r
    <2>5. /\ DOMAIN actionOps' = ActionOp /\ actionOps'[o] = r
          /\ \A x \in ActionOp \ {o} : actionOps'[x] = actionOps[x]
          /\ \A x \in ActionOp : ActionFields(actionOps'[x]) /\ (actionOps'[x].status # "absent" => ask[x].made = TRUE)
        BY <1>0, <2>1, <2>2, <2>4, ActionRow1
    <2>6. ActionShapes' BY <1>0, <2>1, <2>5 DEF ActionShapes
    <2> QED BY <2>1, <2>4, <2>5, <2>6 DEF ActionRest
<1> QED BY <1>1, <1>2, <1>3, ActionSteps, ActionLocks DEF AA!ActionNext

-----------------------------------------------------------------------------
(* Permission edits.                                                       *)

\* What a step of a permission request does.
PermMove(q) ==
    /\ PermShapes'
    /\ \A p \in PermReq \ {q} : perm'[p] = perm[p]
    /\ edit' = edit
    /\ \/ /\ advisory' = advisory
          /\ perm'[q].pc \in PP!LockedLabel => perm[q].pc \in PP!LockedLabel /\ perm'[q].op = perm[q].op
       \/ /\ perm'[q].op = perm[q].op /\ perm[q].pc # "idle"
          /\ advisory[edit[perm[q].op].acct] = NoOne
          /\ advisory' = [advisory EXCEPT ![edit[perm[q].op].acct] = q]
       \/ /\ perm'[q].pc = "idle"
          /\ advisory' = [a \in Account |-> IF advisory[a] = q THEN NoOne ELSE advisory[a]]
    /\ perm'[q].pc \in {"snapshot", "insert"} =>
          /\ perm'[q].op = perm[q].op
          /\ \/ perm[q].pc = "snapshot"
             \/ edit[perm[q].op].plain
             \/ PendingActions(edit[perm[q].op].acct) = {}
    /\ \A o \in PermOp : permOps'[o].key =>
          \/ permOps[o].key /\ permOps'[o].acct = permOps[o].acct
          \/ perm[q].pc = "insert" /\ o = perm[q].op /\ permOps'[o].acct = edit[o].acct

LEMMA PermLabels ==
    /\ PP!LockedLabel = {"pending", "snapshot", "insert", "fresh", "conflict", "exec", "final",
                         "apply", "undone", "failed", "rexec", "rverify", "rdone", "unsure",
                         "judge", "release"}
    /\ PP!PermLabel = {"idle", "lock"} \cup PP!LockedLabel
BY DEF PP!LockedLabel, PP!PermLabel

\* A thread keeps its fields.
Stepped(w, r) ==
    \/ \E l : w = [r EXCEPT !.pc = l]
    \/ \E l, x, y : w = [r EXCEPT !.pc = l, !.revoke = x, !.grant = y]
    \/ \E x, y : w = [r EXCEPT !.revoke = x, !.grant = y]

LEMMA SteppedFields ==
    ASSUME NEW w, NEW r, ThreadFields(r), Stepped(w, r)
    PROVE  ThreadFields(w) /\ w.op = r.op /\ w.mode = r.mode
<1>1. r = [pc |-> r.pc, op |-> r.op, mode |-> r.mode, revoke |-> r.revoke, grant |-> r.grant]
    BY DEF ThreadFields
<1>2. PICK l, o, m, x, y : r = [pc |-> l, op |-> o, mode |-> m, revoke |-> x, grant |-> y] BY <1>1
<1>3. \E l2, x2, y2 : w = [pc |-> l2, op |-> o, mode |-> m, revoke |-> x2, grant |-> y2]
    BY <1>2 DEF Stepped
<1> QED BY <1>2, <1>3 DEF ThreadFields

Begun(w, r, o, m) == w = [r EXCEPT !.pc = "lock", !.op = o, !.mode = m]

LEMMA FreshThread ==
    ASSUME NEW w, NEW r, NEW o, NEW m, ThreadFields(r), Begun(w, r, o, m)
    PROVE  ThreadFields(w) /\ w.pc = "lock" /\ w.op = o
<1>1. r = [pc |-> r.pc, op |-> r.op, mode |-> r.mode, revoke |-> r.revoke, grant |-> r.grant]
    BY DEF ThreadFields
<1>2. PICK s, n, u, x, y : r = [pc |-> s, op |-> n, mode |-> u, revoke |-> x, grant |-> y] BY <1>1
<1>3. PICK r1 : r1 = [r EXCEPT !.pc = "lock"] OBVIOUS
<1>4. PICK r2 : r2 = [r1 EXCEPT !.op = o] OBVIOUS
<1>5. r1 = [pc |-> "lock", op |-> n, mode |-> u, revoke |-> x, grant |-> y] BY <1>2, <1>3
<1>6. r2 = [pc |-> "lock", op |-> o, mode |-> u, revoke |-> x, grant |-> y] BY <1>4, <1>5
<1>7. [r2 EXCEPT !.mode = m] = [pc |-> "lock", op |-> o, mode |-> m, revoke |-> x, grant |-> y] BY <1>6
<1>8. w = [r2 EXCEPT !.mode = m] BY <1>3, <1>4 DEF Begun
<1> QED BY <1>7, <1>8 DEF ThreadFields

LEMMA OnePerm ==
    ASSUME PermShapes, NEW q \in PermReq, NEW w, ThreadFields(w), perm' = [perm EXCEPT ![q] = w]
    PROVE  /\ DOMAIN perm' = PermReq /\ perm'[q] = w
           /\ \A p \in PermReq \ {q} : perm'[p] = perm[p]
           /\ \A p \in PermReq : ThreadFields(perm'[p])
<1>1. DOMAIN perm' = PermReq /\ perm'[q] = w BY DEF PermShapes
<1>2. \A p \in PermReq \ {q} : perm'[p] = perm[p] BY DEF PermShapes
<1> QED BY <1>1, <1>2 DEF PermShapes

LEMMA PermGoto ==
    ASSUME PermShapes, NEW q \in PermReq, NEW l,
           PP!Goto(q, l) \/ \E held, target : PP!GotoDelta(q, l, held, target)
    PROVE  /\ DOMAIN perm' = PermReq /\ \A p \in PermReq : ThreadFields(perm'[p])
           /\ perm'[q].pc = l /\ perm'[q].op = perm[q].op
           /\ \A p \in PermReq \ {q} : perm'[p] = perm[p]
<1>0. ThreadFields(perm[q]) /\ DOMAIN perm = PermReq BY DEF PermShapes
<1>1. CASE PP!Goto(q, l)
    <2> DEFINE w == [perm[q] EXCEPT !.pc = l]
    <2>1. perm' = [perm EXCEPT ![q] = w] BY <1>1 DEF PP!Goto
    <2>2. Stepped(w, perm[q]) BY DEF Stepped
    <2>3. w.pc = l BY <1>0 DEF ThreadFields
    <2> HIDE DEF w
    <2>4. ThreadFields(w) /\ w.op = perm[q].op BY <1>0, <2>2, SteppedFields
    <2> QED BY <2>1, <2>3, <2>4, OnePerm
<1>2. ASSUME NEW held, NEW target, PP!GotoDelta(q, l, held, target)
      PROVE  /\ DOMAIN perm' = PermReq /\ \A p \in PermReq : ThreadFields(perm'[p])
             /\ perm'[q].pc = l /\ perm'[q].op = perm[q].op
             /\ \A p \in PermReq \ {q} : perm'[p] = perm[p]
    <2> DEFINE w == [perm[q] EXCEPT !.pc = l, !.revoke = held \ target, !.grant = target \ held]
    <2>1. perm' = [perm EXCEPT ![q] = w] BY <1>0, <1>2 DEF PP!GotoDelta
    <2>2. Stepped(w, perm[q]) BY DEF Stepped
    <2>3. w.pc = l BY <1>0 DEF ThreadFields
    <2> HIDE DEF w
    <2>4. ThreadFields(w) /\ w.op = perm[q].op BY <1>0, <2>2, SteppedFields
    <2> QED BY <2>1, <2>3, <2>4, OnePerm
<1> QED BY <1>1, <1>2

LEMMA PermBegin ==
    ASSUME PermShapes, NEW q \in PermReq, NEW o, NEW m, PP!Begin(q, o, m)
    PROVE  /\ DOMAIN perm' = PermReq /\ \A p \in PermReq : ThreadFields(perm'[p])
           /\ perm'[q].pc = "lock" /\ perm'[q].op = o
           /\ \A p \in PermReq \ {q} : perm'[p] = perm[p]
<1> DEFINE w == [PP!Idle EXCEPT !.pc = "lock", !.op = o, !.mode = m]
<1>1. perm' = [perm EXCEPT ![q] = w] BY DEF PP!Begin
<1>2. PICK r : r = PP!Idle OBVIOUS
<1>3. PICK s, n, u, x, y : r = [pc |-> s, op |-> n, mode |-> u, revoke |-> x, grant |-> y] BY <1>2 DEF PP!Idle
<1>4. ThreadFields(r) BY <1>3 DEF ThreadFields
<1>5. Begun(w, r, o, m) BY <1>2 DEF Begun
<1>6. ThreadFields(w) /\ w.pc = "lock" /\ w.op = o BY <1>4, <1>5, FreshThread
<1> HIDE DEF w
<1> QED BY <1>1, <1>6, OnePerm

LEMMA PermEnd ==
    ASSUME PermShapes, NEW q \in PermReq, PP!End(q)
    PROVE  /\ DOMAIN perm' = PermReq /\ \A p \in PermReq : ThreadFields(perm'[p])
           /\ perm'[q].pc = "idle"
           /\ \A p \in PermReq \ {q} : perm'[p] = perm[p]
<1>1. ThreadFields(PP!Idle) /\ PP!Idle.pc = "idle" BY DEF ThreadFields, PP!Idle
<1>2. perm' = [perm EXCEPT ![q] = PP!Idle] BY DEF PP!End
<1> QED BY <1>1, <1>2, OnePerm

\* A row is rewritten: its fields and its account stay.
RewrittenPerm(w, r) ==
    \/ \E st : w = [r EXCEPT !.status = st, !.key = FALSE, !.aged = FALSE] /\ st # "absent"
    \/ w = [r EXCEPT !.status = "uncertain", !.aged = FALSE]
    \/ w = [r EXCEPT !.aged = TRUE]

LEMMA PermStatus ==
    ASSUME NEW w, NEW r, PermFields(r), RewrittenPerm(w, r)
    PROVE  /\ PermFields(w) /\ w.acct = r.acct
           /\ w.key = FALSE \/ w.key = r.key
           /\ w.status = "absent" => r.status = "absent"
<1>1. r = [status |-> r.status, acct |-> r.acct, key |-> r.key, before |-> r.before,
           after |-> r.after, mark |-> r.mark, aged |-> r.aged]
    BY DEF PermFields
<1>2. PICK s, a, k, b, f, m, g : r = [status |-> s, acct |-> a, key |-> k, before |-> b,
                                     after |-> f, mark |-> m, aged |-> g] BY <1>1
<1>3. \/ \E st : /\ w = [status |-> st, acct |-> a, key |-> FALSE, before |-> b, after |-> f, mark |-> m, aged |-> FALSE]
                 /\ st # "absent"
      \/ w = [status |-> "uncertain", acct |-> a, key |-> k, before |-> b, after |-> f, mark |-> m, aged |-> FALSE]
      \/ w = [status |-> s, acct |-> a, key |-> k, before |-> b, after |-> f, mark |-> m, aged |-> TRUE]
    BY <1>2 DEF RewrittenPerm
<1> QED BY <1>2, <1>3 DEF PermFields

LEMMA PermRow1 ==
    ASSUME PermShapes, NEW o \in PermOp, NEW r, permOps' = [permOps EXCEPT ![o] = r],
           PermFields(r), edit[o].made = TRUE, r.key => r.status # "absent"
    PROVE  /\ DOMAIN permOps' = PermOp /\ permOps'[o] = r
           /\ \A x \in PermOp \ {o} : permOps'[x] = permOps[x]
           /\ \A x \in PermOp : /\ PermFields(permOps'[x]) /\ (permOps'[x].status # "absent" => edit[x].made = TRUE)
                                /\ permOps'[x].key => permOps'[x].status # "absent"
<1>1. DOMAIN permOps' = PermOp /\ permOps'[o] = r BY DEF PermShapes
<1>2. \A x \in PermOp \ {o} : permOps'[x] = permOps[x] BY DEF PermShapes
<1> QED BY <1>1, <1>2 DEF PermShapes

LEMMA PermDelta ==
    ASSUME PermShapes, NEW q \in PermReq, NEW l, PP!DeltaStep(q, l)
    PROVE  /\ DOMAIN perm' = PermReq /\ \A p \in PermReq : ThreadFields(perm'[p])
           /\ perm'[q].pc \in {l, perm[q].pc} /\ perm'[q].op = perm[q].op
           /\ \A p \in PermReq \ {q} : perm'[p] = perm[p]
<1>0. ThreadFields(perm[q]) /\ DOMAIN perm = PermReq BY DEF PermShapes
<1>1. CASE PP!Goto(q, l) BY <1>1, PermGoto
<1>2. ASSUME NEW x, NEW y, perm' = [perm EXCEPT ![q].revoke = x, ![q].grant = y]
      PROVE  /\ DOMAIN perm' = PermReq /\ \A p \in PermReq : ThreadFields(perm'[p])
             /\ perm'[q].pc = perm[q].pc /\ perm'[q].op = perm[q].op
             /\ \A p \in PermReq \ {q} : perm'[p] = perm[p]
    <2> DEFINE w == [perm[q] EXCEPT !.revoke = x, !.grant = y]
    <2>1. perm' = [perm EXCEPT ![q] = w] BY <1>0, <1>2
    <2>2. Stepped(w, perm[q]) BY DEF Stepped
    <2>3. w.pc = perm[q].pc BY <1>0 DEF ThreadFields
    <2> HIDE DEF w
    <2>4. ThreadFields(w) /\ w.op = perm[q].op BY <1>0, <2>2, SteppedFields
    <2> QED BY <2>1, <2>3, <2>4, OnePerm
<1>3. PP!Goto(q, l) \/ \E x, y : perm' = [perm EXCEPT ![q].revoke = x, ![q].grant = y]
    <2>1. PICK g, todo :
             \/ perm' = [perm EXCEPT ![q].revoke = @ \ {g}, ![q].grant = IF todo = "revoke" THEN @ ELSE @ \ {g}]
             \/ PP!Goto(q, l)
        BY DEF PP!DeltaStep
    <2>2. CASE perm' = [perm EXCEPT ![q].revoke = @ \ {g}, ![q].grant = IF todo = "revoke" THEN @ ELSE @ \ {g}]
        <3>1. perm' = [perm EXCEPT ![q].revoke = perm[q].revoke \ {g},
                                   ![q].grant = IF todo = "revoke" THEN perm[q].grant ELSE perm[q].grant \ {g}]
            BY <1>0, <2>2 DEF ThreadFields
        <3> QED BY <3>1
    <2> QED BY <2>1, <2>2
<1> QED BY <1>1, <1>2, <1>3

\* A request that goes on or ends without writing a row.
PermGoing(q, l) ==
    /\ DOMAIN perm' = PermReq /\ \A p \in PermReq : ThreadFields(perm'[p])
    /\ perm'[q].pc = l /\ perm'[q].op = perm[q].op
    /\ \A p \in PermReq \ {q} : perm'[p] = perm[p]

LEMMA PermGoes ==
    ASSUME LifecycleInv, NEW q \in PermReq, perm[q].pc # "idle",
           edit' = edit, permOps' = permOps, advisory' = advisory,
           \/ PP!End(q)
           \/ \E l : /\ PermGoing(q, l)
                     /\ l \in PP!LockedLabel => perm[q].pc \in PP!LockedLabel
                     /\ l \in {"snapshot", "insert"} =>
                           \/ perm[q].pc = "snapshot"
                           \/ edit[perm[q].op].plain
                           \/ PendingActions(edit[perm[q].op].acct) = {}
    PROVE  PermMove(q)
<1>0. PermShapes BY DEF LifecycleInv
<1>1. CASE PP!End(q)
    <2>1. /\ DOMAIN perm' = PermReq /\ \A p \in PermReq : ThreadFields(perm'[p])
          /\ perm'[q].pc = "idle"
          /\ \A p \in PermReq \ {q} : perm'[p] = perm[p]
        BY <1>0, <1>1, PermEnd
    <2>2. PermShapes' BY <1>0, <2>1 DEF PermShapes
    <2> QED BY <1>0, <2>1, <2>2, PermLabels DEF PermMove, PermShapes
<1>2. ASSUME NEW l, PermGoing(q, l),
             l \in PP!LockedLabel => perm[q].pc \in PP!LockedLabel,
             l \in {"snapshot", "insert"} => \/ perm[q].pc = "snapshot"
                                             \/ edit[perm[q].op].plain
                                             \/ PendingActions(edit[perm[q].op].acct) = {}
      PROVE  PermMove(q)
    <2>1. PermShapes' BY <1>0, <1>2 DEF PermShapes, PermGoing
    <2> QED BY <1>0, <1>2, <2>1 DEF PermMove, PermShapes, PermGoing
<1> QED BY <1>1, <1>2

\* A request that writes the row of its operation and goes on.
LEMMA PermWrites ==
    ASSUME LifecycleInv, NEW q \in PermReq, perm[q].pc \in PP!LockedLabel, NEW r, PermFields(r),
           permOps' = [permOps EXCEPT ![perm[q].op] = r], r.key => r.status # "absent",
           \/ r.acct = permOps[perm[q].op].acct /\ (r.key = FALSE \/ r.key = permOps[perm[q].op].key)
           \/ r.acct = edit[perm[q].op].acct /\ perm[q].pc = "insert",
           edit' = edit, advisory' = advisory,
           NEW l \in PP!LockedLabel \ {"snapshot", "insert"}, PP!Goto(q, l)
    PROVE  PermMove(q)
<1>0. PermShapes BY DEF LifecycleInv
<1>1. perm[q].op \in PermOp /\ edit[perm[q].op].made = TRUE /\ perm[q].pc # "idle"
    BY <1>0, PermLabels DEF PermShapes
<1>2. PICK o \in PermOp : o = perm[q].op BY <1>1
<1>3. /\ DOMAIN permOps' = PermOp /\ permOps'[o] = r
      /\ \A x \in PermOp \ {o} : permOps'[x] = permOps[x]
      /\ \A x \in PermOp : /\ PermFields(permOps'[x]) /\ (permOps'[x].status # "absent" => edit[x].made = TRUE)
                           /\ permOps'[x].key => permOps'[x].status # "absent"
    BY <1>0, <1>1, <1>2, PermRow1
<1>4. PermGoing(q, l) BY <1>0, PermGoto DEF PermGoing
<1>5. PermShapes' BY <1>0, <1>1, <1>3, <1>4, PermLabels DEF PermShapes, PermGoing
<1>6. \A x \in PermOp : permOps'[x].key =>
          \/ permOps[x].key /\ permOps'[x].acct = permOps[x].acct
          \/ perm[q].pc = "insert" /\ x = perm[q].op /\ permOps'[x].acct = edit[x].acct
    BY <1>2, <1>3
<1> QED BY <1>4, <1>5, <1>6 DEF PermMove, PermGoing

LEMMA PermLocks ==
    ASSUME LifecycleInv, NEW q \in PermReq, PP!Lock(q) \/ PP!Release(q) \/ PP!Die(q)
    PROVE  PermMove(q)
<1>0. PermShapes BY DEF LifecycleInv
<1>1. perm[q].pc # "idle" /\ edit' = edit /\ permOps' = permOps
    BY DEF PP!Lock, PP!Release, PP!Die
<1>2. CASE PP!Lock(q)
    <2>1. PICK l \in {"pending", "judge"} : PP!Goto(q, l) BY <1>2 DEF PP!Lock
    <2>2. PermGoing(q, l) BY <1>0, <2>1, PermGoto DEF PermGoing
    <2>3. PermShapes' BY <1>0, <1>1, <2>2 DEF PermShapes, PermGoing
    <2>4. /\ advisory[edit[perm[q].op].acct] = NoOne
          /\ advisory' = [advisory EXCEPT ![edit[perm[q].op].acct] = q]
        BY <1>2 DEF PP!Lock, PP!TakeLock, PP!Acct
    <2> QED BY <1>0, <1>1, <2>2, <2>3, <2>4 DEF PermMove, PermShapes, PermGoing
<1>3. CASE PP!Release(q) \/ PP!Die(q)
    <2>1. /\ PP!End(q)
          /\ advisory' = [a \in Account |-> IF advisory[a] = q THEN NoOne ELSE advisory[a]]
        BY <1>3 DEF PP!Release, PP!Die, PP!DropLocks
    <2>2. /\ DOMAIN perm' = PermReq /\ \A p \in PermReq : ThreadFields(perm'[p])
          /\ perm'[q].pc = "idle"
          /\ \A p \in PermReq \ {q} : perm'[p] = perm[p]
        BY <1>0, <2>1, PermEnd
    <2>3. PermShapes' BY <1>0, <1>1, <2>2 DEF PermShapes
    <2> QED BY <1>0, <1>1, <2>1, <2>2, <2>3 DEF PermMove, PermShapes
<1> QED BY <1>2, <1>3

LEMMA PermReads ==
    ASSUME LifecycleInv, NEW q \in PermReq,
           \/ PP!LockBusy(q) \/ PP!Pending(q) \/ PP!Snapshot(q) \/ PP!Fresh(q) \/ PP!Exec(q) \/ PP!Final(q)
           \/ PP!Failed(q) \/ PP!RestoreExec(q) \/ PP!RestoreVerify(q) \/ PP!Judge(q)
    PROVE  PermMove(q)
<1>0. PermShapes BY DEF LifecycleInv
<1>1. edit' = edit /\ permOps' = permOps /\ advisory' = advisory /\ perm[q].pc # "idle"
    BY DEF PP!LockBusy, PP!Pending, PP!Snapshot, PP!Fresh, PP!Exec, PP!Final, PP!Failed, PP!RestoreExec,
           PP!RestoreVerify, PP!Judge, PP!platformVars
<1>a. ASSUME NEW l, l \notin {"snapshot", "insert"}, perm[q].pc \in PP!LockedLabel,
             PP!Goto(q, l) \/ \E held, target : PP!GotoDelta(q, l, held, target)
      PROVE  PermMove(q)
    <2>1. PermGoing(q, l) BY <1>0, <1>a, PermGoto DEF PermGoing
    <2> QED BY <1>1, <1>a, <2>1, PermGoes
<1>b. ASSUME NEW l, l \notin {"snapshot", "insert"}, perm[q].pc \in PP!LockedLabel \ {"snapshot", "insert"},
             PP!DeltaStep(q, l)
      PROVE  PermMove(q)
    <2>1. PermGoing(q, l) \/ PermGoing(q, perm[q].pc) BY <1>0, <1>b, PermDelta DEF PermGoing
    <2> QED BY <1>1, <1>b, <2>1, PermGoes
<1>2. CASE PP!LockBusy(q) BY <1>1, <1>2, PermGoes DEF PP!LockBusy
<1>3. CASE PP!Pending(q)
    <2>1. perm[q].pc = "pending" BY <1>3 DEF PP!Pending
    <2>2. CASE PP!Goto(q, "release") BY <1>a, <2>1, <2>2, PermLabels
    <2>3. CASE PP!Goto(q, "snapshot") /\ (edit[perm[q].op].plain \/ PendingActions(edit[perm[q].op].acct) = {})
        <3>1. PermGoing(q, "snapshot") BY <1>0, <2>3, PermGoto DEF PermGoing
        <3> QED BY <1>1, <2>1, <2>3, <3>1, PermGoes, PermLabels
    <2> QED BY <1>3, <2>2, <2>3 DEF PP!Pending, PP!PendingActions, PendingActions
<1>4. CASE PP!Snapshot(q)
    <2>1. perm[q].pc = "snapshot" BY <1>4 DEF PP!Snapshot
    <2>2. CASE PP!Goto(q, "release") BY <1>a, <2>1, <2>2, PermLabels
    <2>3. CASE PP!GotoDelta(q, "insert", edit[perm[q].op].grants, edit[perm[q].op].want)
        <3>1. PermGoing(q, "insert") BY <1>0, <2>3, PermGoto DEF PermGoing
        <3> QED BY <1>1, <2>1, <3>1, PermGoes, PermLabels
    <2> QED BY <1>4, <2>2, <2>3 DEF PP!Snapshot
<1>5. CASE PP!Fresh(q) BY <1>5, <1>a, PermLabels DEF PP!Fresh
<1>6. CASE PP!Exec(q) BY <1>6, <1>a, <1>b, PermLabels DEF PP!Exec
<1>7. CASE PP!Final(q) BY <1>7, <1>a, PermLabels DEF PP!Final, PP!OnError
<1>8. CASE PP!Failed(q)
    <2>1. perm[q].pc = "failed" BY <1>8 DEF PP!Failed
    <2>2. ASSUME NEW held, NEW target, PP!GotoDelta(q, "rexec", held, target) PROVE PermMove(q)
        <3>1. PICK l \in {"rexec"} : PP!GotoDelta(q, l, held, target) BY <2>2
        <3> QED BY <1>a, <2>1, <3>1, PermLabels
    <2>3. CASE \E l \in {"unsure", "release"} : PP!Goto(q, l) BY <1>a, <2>1, <2>3, PermLabels
    <2>4. PP!OnRestoreError(q) \in {"unsure", "release"} BY DEF PP!OnRestoreError
    <2> QED BY <1>8, <2>2, <2>3, <2>4 DEF PP!Failed
<1>9. CASE PP!RestoreExec(q)
    <2>1. perm[q].pc = "rexec" BY <1>9 DEF PP!RestoreExec
    <2>2. PP!OnRestoreError(q) \in {"unsure", "release"} BY DEF PP!OnRestoreError
    <2> QED BY <1>9, <1>a, <1>b, <2>1, <2>2, PermLabels DEF PP!RestoreExec
<1>10. CASE PP!RestoreVerify(q)
    <2>1. PP!OnRestoreError(q) \in {"unsure", "release"} BY DEF PP!OnRestoreError
    <2> QED BY <1>10, <1>a, <2>1, PermLabels DEF PP!RestoreVerify
<1>11. CASE PP!Judge(q)
    <2>1. perm[q].pc = "judge" /\ \E l \in {"release", "apply", "rdone", "failed", "unsure"} : PP!Goto(q, l)
        BY <1>11 DEF PP!Judge
    <2> QED BY <1>a, <2>1, PermLabels
<1> QED BY <1>2, <1>3, <1>4, <1>5, <1>6, <1>7, <1>8, <1>9, <1>10, <1>11

LEMMA PermSteps ==
    ASSUME LifecycleInv, NEW q \in PermReq, PP!PermStep(q)
    PROVE  PermMove(q)
<1>0. PermShapes /\ (perm[q].pc # "idle" => perm[q].op \in PermOp) BY DEF LifecycleInv, PermShapes
<1>r. perm[q].pc # "idle" => /\ PermFields(permOps[perm[q].op])
                             /\ permOps[perm[q].op].key => permOps[perm[q].op].status # "absent"
    BY <1>0 DEF PermShapes
<1>a. ASSUME perm[q].pc \in PP!LockedLabel \ {"snapshot", "insert"}, edit' = edit, permOps' = permOps,
             advisory' = advisory, NEW l \in PP!LockedLabel \ {"snapshot", "insert"}, PP!Goto(q, l)
      PROVE  PermMove(q)
    <2>1. PermGoing(q, l) BY <1>0, <1>a, PermGoto DEF PermGoing
    <2> QED BY <1>a, <2>1, PermGoes, PermLabels
<1>b. ASSUME perm[q].pc \in PP!LockedLabel, edit' = edit, advisory' = advisory, PP!Goto(q, "release"),
             NEW r, RewrittenPerm(r, permOps[perm[q].op]), permOps' = [permOps EXCEPT ![perm[q].op] = r]
      PROVE  PermMove(q)
    <2>1. /\ PermFields(permOps[perm[q].op])
          /\ permOps[perm[q].op].key => permOps[perm[q].op].status # "absent"
        BY <1>r, <1>b, PermLabels
    <2>2. /\ PermFields(r) /\ r.acct = permOps[perm[q].op].acct
          /\ r.key = FALSE \/ r.key = permOps[perm[q].op].key
          /\ r.status = "absent" => permOps[perm[q].op].status = "absent"
        BY <1>b, <2>1, PermStatus
    <2>3. r.key => r.status # "absent" BY <2>1, <2>2
    <2> QED BY <1>b, <2>2, <2>3, PermWrites, PermLabels
<1>c. ASSUME perm[q].pc \in PP!LockedLabel, edit' = edit, advisory' = advisory, PP!Goto(q, "release"),
             NEW st \in {"conflict", "applied", "restored"}, PP!Close(q, st)
      PROVE  PermMove(q)
    <2> DEFINE r == [permOps[perm[q].op] EXCEPT !.status = st, !.key = FALSE, !.aged = FALSE]
    <2>1. RewrittenPerm(r, permOps[perm[q].op]) BY DEF RewrittenPerm
    <2>2. permOps' = [permOps EXCEPT ![perm[q].op] = r] BY <1>c DEF PP!Close
    <2> HIDE DEF r
    <2> QED BY <1>b, <1>c, <2>1, <2>2
<1>1. CASE PP!Conflict(q) BY <1>1, <1>a, <1>c, PermLabels DEF PP!Conflict
<1>2. CASE PP!Applied(q)
    <2>1. PP!OnError(q) \in {"undone", "failed"} BY DEF PP!OnError
    <2> QED BY <1>2, <1>a, <1>c, <2>1, PermLabels DEF PP!Applied
<1>3. CASE PP!Restored(q) BY <1>3, <1>a, <1>c, PermLabels DEF PP!Restored
<1>4. CASE PP!Unsure(q)
    <2> DEFINE r == [permOps[perm[q].op] EXCEPT !.status = "uncertain", !.aged = FALSE]
    <2>1. RewrittenPerm(r, permOps[perm[q].op]) BY DEF RewrittenPerm
    <2>2. /\ permOps' = [permOps EXCEPT ![perm[q].op] = r] /\ perm[q].pc = "unsure" /\ PP!Goto(q, "release")
          /\ edit' = edit /\ advisory' = advisory
        BY <1>4 DEF PP!Unsure
    <2> HIDE DEF r
    <2> QED BY <1>b, <2>1, <2>2, PermLabels
<1>5. CASE PP!Insert(q)
    <2>0. perm[q].pc = "insert" /\ edit' = edit /\ advisory' = advisory BY <1>5 DEF PP!Insert
    <2>1. CASE PP!Goto(q, "release") /\ permOps' = permOps
        <3>1. PermGoing(q, "release") BY <1>0, <2>1, PermGoto DEF PermGoing
        <3> QED BY <2>0, <2>1, <3>1, PermGoes, PermLabels
    <2>2. CASE ~(PP!Goto(q, "release") /\ permOps' = permOps)
        <3> DEFINE e == edit[perm[q].op]
                   r == [status |-> "applying", acct |-> e.acct, key |-> TRUE,
                         before |-> e.grants, after |-> e.want, mark |-> e.mark, aged |-> FALSE]
        <3>1. permOps' = [permOps EXCEPT ![perm[q].op] = r] /\ PP!Goto(q, "fresh")
            BY <1>5, <2>2 DEF PP!Insert, PP!Acct
        <3>2. PermFields(r) /\ r.acct = edit[perm[q].op].acct /\ r.status # "absent" BY DEF PermFields
        <3> HIDE DEF r
        <3> QED BY <2>0, <3>1, <3>2, PermWrites, PermLabels
    <2> QED BY <2>1, <2>2
<1> QED BY <1>1, <1>2, <1>3, <1>4, <1>5, PermReads, PermLocks DEF PP!PermStep

\* An edit is submitted, or a row grows old.
PermRest ==
    /\ PermShapes' /\ perm' = perm /\ advisory' = advisory
    /\ \A o \in PermOp : edit[o].made = TRUE => edit'[o] = edit[o]
    /\ \A o \in PermOp : edit'[o] = edit[o] \/ edit'[o].plain \in Spellings
    /\ \A o \in PermOp : permOps'[o].key => permOps[o].key /\ permOps'[o].acct = permOps[o].acct

LEMMA PermMoves ==
    ASSUME LifecycleInv, PP!PermNext
    PROVE  PermRest \/ \E q \in PermReq : PermMove(q)
<1>0. PermShapes BY DEF LifecycleInv
<1>1. ASSUME NEW o \in PermOp, NEW a \in Account, NEW w \in SUBSET Priv, NEW s \in Spellings, PP!Submit(o, a, w, s)
      PROVE  PermRest
    <2>1. /\ perm' = perm /\ advisory' = advisory /\ permOps' = permOps /\ ~edit[o].made
          /\ edit' = [edit EXCEPT ![o] = [acct |-> a, mark |-> server[a].mark,
                                          grants |-> server[a].grants, want |-> w,
                                          plain |-> s, made |-> TRUE]]
        BY <1>1 DEF PP!Submit, PP!platformVars
    <2>2. edit[o].made # TRUE BY <2>1, Zenon
    <2>3. /\ DOMAIN edit' = PermOp /\ edit'[o].acct = a /\ edit'[o].plain = s
          /\ \A x \in PermOp \ {o} : edit'[x] = edit[x]
        BY <1>0, <2>1 DEF PermShapes
    <2>4. \A p \in PermReq : perm[p].pc # "idle" => perm[p].op # o BY <1>0, <2>2 DEF PermShapes
    <2>5. PermShapes' BY <1>0, <2>1, <2>2, <2>3, <2>4 DEF PermShapes
    <2> QED BY <1>0, <2>1, <2>2, <2>3, <2>5 DEF PermRest, PermShapes
<1>2. ASSUME NEW o \in PermOp, NEW q \in PermReq,
             PP!Update(q, o) \/ \E m \in {"verify", "restore"} : PP!Reconcile(q, o, m)
      PROVE  PermMove(q)
    <2>1. /\ edit' = edit /\ permOps' = permOps /\ advisory' = advisory
          /\ edit[o].made = TRUE
        <3>1. CASE PP!Update(q, o) BY <3>1, Zenon DEF PP!Update, PP!platformVars
        <3>2. CASE \E m \in {"verify", "restore"} : PP!Reconcile(q, o, m)
            BY <1>0, <3>2 DEF PP!Reconcile, PP!platformVars, PermShapes
        <3> QED BY <1>2, <3>1, <3>2
    <2>2. PICK m : PP!Begin(q, o, m) BY <1>2 DEF PP!Update, PP!Reconcile
    <2>3. /\ DOMAIN perm' = PermReq /\ \A p \in PermReq : ThreadFields(perm'[p])
          /\ perm'[q].pc = "lock" /\ perm'[q].op = o
          /\ \A p \in PermReq \ {q} : perm'[p] = perm[p]
        BY <1>0, <2>2, PermBegin
    <2>4. PermShapes' BY <1>0, <2>1, <2>3 DEF PermShapes
    <2> QED BY <1>0, <2>1, <2>3, <2>4, PermLabels DEF PermMove, PermShapes
<1>3. ASSUME NEW o \in PermOp, PP!Age(o) PROVE PermRest
    <2> DEFINE r == [permOps[o] EXCEPT !.aged = TRUE]
    <2>1. /\ perm' = perm /\ advisory' = advisory /\ edit' = edit
          /\ permOps' = [permOps EXCEPT ![o] = r] /\ permOps[o].status = "applying"
        BY <1>3 DEF PP!Age
    <2>2. edit[o].made = TRUE /\ PermFields(permOps[o]) BY <1>0, <2>1 DEF PermShapes
    <2>3. RewrittenPerm(r, permOps[o]) BY DEF RewrittenPerm
    <2>4. /\ PermFields(r) /\ r.acct = permOps[o].acct /\ (r.key = FALSE \/ r.key = permOps[o].key)
          /\ r.status = "absent" => permOps[o].status = "absent"
        BY <2>2, <2>3, PermStatus
    <2>5. r.key => r.status # "absent" BY <2>1, <2>4
    <2> HIDE DEF r
    <2>6. /\ DOMAIN permOps' = PermOp /\ permOps'[o] = r
          /\ \A x \in PermOp \ {o} : permOps'[x] = permOps[x]
          /\ \A x \in PermOp : /\ PermFields(permOps'[x]) /\ (permOps'[x].status # "absent" => edit[x].made = TRUE)
                               /\ permOps'[x].key => permOps'[x].status # "absent"
        BY <1>0, <2>1, <2>2, <2>4, <2>5, PermRow1
    <2>7. PermShapes' BY <1>0, <2>1, <2>6 DEF PermShapes
    <2>8. \A x \in PermOp : permOps'[x].key => permOps[x].key /\ permOps'[x].acct = permOps[x].acct
        BY <2>4, <2>6
    <2> QED BY <2>1, <2>7, <2>8 DEF PermRest
<1> QED BY <1>1, <1>2, <1>3, PermSteps, PermLocks DEF PP!PermNext

-----------------------------------------------------------------------------
(* What one component leaves to the others.                                *)

LEMMA ActionFrame ==
    ASSUME ActionsMove
    PROVE  UNCHANGED <<permOps, edit, perm>>
<1>1. UNCHANGED <<edit, perm>> BY DEF ActionsMove, permState
<1>2. AA!ActionNext BY DEF ActionsMove
<1>3. ASSUME NEW p \in ActionReq, AA!ActionStep(p) PROVE permOps' = permOps
    BY <1>3 DEF AA!ActionStep, AA!Lock, AA!LockBusy, AA!Check, AA!Busy, AA!Insert, AA!Exec, AA!Poll,
                AA!FinishPerform, AA!Fail, AA!VerifyOutcome, AA!VerifyFinish, AA!VerifyNot, AA!Release,
                AA!platformVars
<1>4. permOps' = permOps
    BY <1>2, <1>3 DEF AA!ActionNext, AA!Submit, AA!Perform, AA!Verify, AA!Age, AA!Die, AA!platformVars
<1> QED BY <1>1, <1>4

LEMMA PermFrame ==
    ASSUME PermissionsMove
    PROVE  UNCHANGED <<actionOps, ask, act>>
<1>1. UNCHANGED <<ask, act>> BY DEF PermissionsMove, actionState
<1>2. PP!PermNext BY DEF PermissionsMove
<1>3. ASSUME NEW p \in PermReq, PP!PermStep(p) PROVE actionOps' = actionOps
    BY <1>3 DEF PP!PermStep, PP!Lock, PP!LockBusy, PP!Pending, PP!Snapshot, PP!Insert, PP!Fresh,
                PP!Conflict, PP!Exec, PP!Final, PP!Applied, PP!Restored, PP!Unsure, PP!Failed,
                PP!RestoreExec, PP!RestoreVerify, PP!Judge, PP!Release, PP!platformVars
<1>4. actionOps' = actionOps
    BY <1>2, <1>3 DEF PP!PermNext, PP!Submit, PP!Update, PP!Reconcile, PP!Age, PP!Die, PP!platformVars
<1> QED BY <1>1, <1>4

\* Creations, undo requests, the workers and the outside world touch none of it.
LEMMA ManagedFrame ==
    ASSUME ManagedMove \/ OutsideMove
    PROVE  UNCHANGED <<advisory, actionOps, permOps, ask, act, edit, perm>>
<1>1. UNCHANGED <<ask, act, edit, perm>> BY DEF ManagedMove, OutsideMove, actionState, permState
<1>2. CASE OutsideMove
    BY <1>1, <1>2 DEF OutsideMove, MM!ManagedEnv, MM!Outside, MM!Land, MM!Settle, MM!Dba
<1>3. ASSUME NEW p \in AcctReq, NEW a \in Account, MM!MgrRequest(p, a)
      PROVE  UNCHANGED <<advisory, actionOps, permOps>>
    BY <1>3 DEF MM!MgrRequest, MM!Create, MM!Undo, MM!CheckOperation, MM!SavePassword, MM!platformVars
<1>4. ASSUME NEW p \in AcctReq, MM!ManagedStep(p)
      PROVE  UNCHANGED <<advisory, actionOps, permOps>>
    BY <1>4 DEF MM!ManagedStep, MM!CreateName, MM!CreateInsert, MM!CreateUser, MM!CreatePlan, MM!CreateGrant,
                MM!CreateVerifying, MM!CreateVerify, MM!CreateActive, MM!CreateFail, MM!CreateUnsure,
                MM!RollbackList, MM!RollbackDrop, MM!RollbackCheck, MM!RollbackWrite,
                MM!CheckRemote, MM!CheckActive, MM!CheckCleanup, MM!Save, MM!platformVars
<1>5. ASSUME NEW w \in Worker,
             \/ \E b \in SUBSET Account : MM!Claim(w, b)
             \/ MM!WorkerStep(w) \/ MM!WorkerDie(w)
      PROVE  UNCHANGED <<advisory, actionOps, permOps>>
    BY <1>5 DEF MM!Claim, MM!WorkerStep, MM!NextRow, MM!ExpireVerify, MM!ExpireRemote, MM!ExpireWrite,
                MM!WorkerDie, MM!platformVars
<1>6. ASSUME NEW a \in Account, MM!Due(a) \/ MM!Lapse(a) \/ MM!AgeRecord(a)
      PROVE  UNCHANGED <<advisory, actionOps, permOps>>
    BY <1>6 DEF MM!Due, MM!Lapse, MM!AgeRecord, MM!Clock
<1>7. ASSUME NEW p \in AcctReq, MM!MgrDie(p)
      PROVE  UNCHANGED <<advisory, actionOps, permOps>>
    BY <1>7 DEF MM!MgrDie, MM!platformVars
<1>8. CASE ManagedMove
    <2>1. UNCHANGED <<advisory, actionOps, permOps>>
        BY <1>8, <1>3, <1>4, <1>5, <1>6, <1>7 DEF ManagedMove, MM!ManagedNext
    <2> QED BY <1>1, <2>1
<1> QED BY <1>2, <1>8

-----------------------------------------------------------------------------
(* The steps of the whole.                                                 *)

\* A disabling or deletion opens an operation only where no edit is open.
LEMMA ActionKeeps ==
    ASSUME LifecycleInv, UNCHANGED <<permOps, edit, perm>>,
           ActionRest \/ \E p \in ActionReq : ActionMove(p)
    PROVE  LifecycleInv'
<1>0. ActionShapes /\ PermShapes /\ Locks /\ Clear /\ Pair BY DEF LifecycleInv
<1>1. PermShapes' BY <1>0 DEF PermShapes
<1>2. \A a : PendingPerms(a)' = PendingPerms(a) BY DEF PendingPerms
<1>3. CASE ActionRest
    <2>1. ActionShapes' BY <1>3 DEF ActionRest
    <2>2. \A p \in ActionReq : act[p].pc # "idle" => ask'[act[p].op] = ask[act[p].op]
        BY <1>0, <1>3 DEF ActionRest, ActionShapes
    <2>3. Locks' BY <1>0, <1>3, <2>2, ActionLabels DEF Locks, ActionRest
    <2>4. \A a : PendingActions(a)' \subseteq PendingActions(a) BY <1>3 DEF ActionRest, PendingActions
    <2>5. Clear' BY <1>0, <1>2, <1>3, <2>2, <2>4 DEF Clear, ActionRest
    <2>6. Pair' BY <1>0, <1>2, <2>4 DEF Pair
    <2> QED BY <1>1, <2>1, <2>3, <2>5, <2>6 DEF LifecycleInv
<1>4. ASSUME NEW p \in ActionReq, ActionMove(p) PROVE LifecycleInv'
    <2>1. ActionShapes' /\ ask' = ask /\ \A x \in ActionReq \ {p} : act'[x] = act[x] BY <1>4 DEF ActionMove
    <2>t. p \in Thread /\ p # NoOne /\ p \notin PermReq /\ p \in Thread \cup {NoOne}
        BY LifecycleAssumption, PlatformAssumption
    <2>2. Locks'
        <3>1. CASE /\ advisory' = advisory
                   /\ act'[p].pc \in AA!LockedLabel => act[p].pc \in AA!LockedLabel /\ act'[p].op = act[p].op
            BY <1>0, <2>1, <3>1 DEF Locks
        <3>2. CASE /\ act'[p].op = act[p].op /\ act[p].pc # "idle"
                   /\ advisory[ask[act[p].op].acct] = NoOne
                   /\ advisory' = [advisory EXCEPT ![ask[act[p].op].acct] = p]
            <4>1. ask[act[p].op].acct \in Account BY <1>0, <3>2 DEF ActionShapes
            <4>2. /\ advisory' \in [Account -> Thread \cup {NoOne}]
                  /\ advisory'[ask[act[p].op].acct] = p
                  /\ \A a \in Account : advisory[a] # NoOne => advisory'[a] = advisory[a]
                BY <1>0, <2>t, <3>2, <4>1 DEF Locks
            <4>3. \A x \in ActionReq : act'[x].pc \in AA!LockedLabel => advisory'[ask[act'[x].op].acct] = x
                <5> SUFFICES ASSUME NEW x \in ActionReq, act'[x].pc \in AA!LockedLabel
                             PROVE  advisory'[ask[act'[x].op].acct] = x
                    OBVIOUS
                <5>1. CASE x = p BY <3>2, <4>2, <5>1
                <5>2. CASE x # p
                    <6>1. act'[x] = act[x] BY <2>1, <5>2
                    <6>2. ask[act[x].op].acct \in Account BY <1>0, <6>1, ActionLabels DEF ActionShapes
                    <6>3. advisory[ask[act[x].op].acct] = x BY <1>0, <6>1 DEF Locks
                    <6>4. x # NoOne BY LifecycleAssumption, PlatformAssumption
                    <6> QED BY <4>2, <6>1, <6>2, <6>3, <6>4
                <5> QED BY <5>1, <5>2
            <4>4. \A x \in PermReq : perm[x].pc \in PP!LockedLabel => advisory'[edit[perm[x].op].acct] = x
                <5> SUFFICES ASSUME NEW x \in PermReq, perm[x].pc \in PP!LockedLabel
                             PROVE  advisory'[edit[perm[x].op].acct] = x
                    OBVIOUS
                <5>1. edit[perm[x].op].acct \in Account BY <1>0, PermLabels DEF PermShapes
                <5>2. advisory[edit[perm[x].op].acct] = x BY <1>0 DEF Locks
                <5>3. x # NoOne BY LifecycleAssumption, PlatformAssumption
                <5> QED BY <4>2, <5>1, <5>2, <5>3
            <4> QED BY <2>1, <4>2, <4>3, <4>4 DEF Locks
        <3>3. CASE /\ act'[p].pc = "idle"
                   /\ advisory' = [a \in Account |-> IF advisory[a] = p THEN NoOne ELSE advisory[a]]
            <4>1. /\ advisory' \in [Account -> Thread \cup {NoOne}]
                  /\ \A a \in Account : advisory[a] # p => advisory'[a] = advisory[a]
                BY <1>0, <2>t, <3>3 DEF Locks
            <4>2. \A x \in ActionReq : act'[x].pc \in AA!LockedLabel => advisory'[ask[act'[x].op].acct] = x
                <5> SUFFICES ASSUME NEW x \in ActionReq, act'[x].pc \in AA!LockedLabel
                             PROVE  advisory'[ask[act'[x].op].acct] = x
                    OBVIOUS
                <5>1. x # p BY <3>3, ActionLabels
                <5>2. act'[x] = act[x] BY <2>1, <5>1
                <5>3. ask[act[x].op].acct \in Account BY <1>0, <5>2, ActionLabels DEF ActionShapes
                <5>4. advisory[ask[act[x].op].acct] = x BY <1>0, <5>2 DEF Locks
                <5> QED BY <4>1, <5>1, <5>2, <5>3, <5>4
            <4>3. \A x \in PermReq : perm[x].pc \in PP!LockedLabel => advisory'[edit[perm[x].op].acct] = x
                <5> SUFFICES ASSUME NEW x \in PermReq, perm[x].pc \in PP!LockedLabel
                             PROVE  advisory'[edit[perm[x].op].acct] = x
                    OBVIOUS
                <5>1. edit[perm[x].op].acct \in Account BY <1>0, PermLabels DEF PermShapes
                <5>2. advisory[edit[perm[x].op].acct] = x /\ x # p BY <1>0, <2>t DEF Locks
                <5> QED BY <4>1, <5>1, <5>2
            <4> QED BY <2>1, <4>1, <4>2, <4>3 DEF Locks
        <3> QED BY <1>4, <3>1, <3>2, <3>3 DEF ActionMove
    <2>3. \A a : PendingActions(a)' \subseteq PendingActions(a) \/ (act[p].pc = "insert" /\ a = ask[act[p].op].acct)
        BY <1>4 DEF ActionMove, PendingActions
    <2>4. act[p].pc = "insert" => /\ PendingPerms(ask[act[p].op].acct) = {}
                                  /\ advisory[ask[act[p].op].acct] = p
        BY <1>0, ActionLabels DEF Clear, Locks
    <2>5. Clear'
        <3>1. \A x \in ActionReq : act'[x].pc = "insert" => PendingPerms(ask[act'[x].op].acct) = {}
            <4> SUFFICES ASSUME NEW x \in ActionReq, act'[x].pc = "insert"
                         PROVE  PendingPerms(ask[act'[x].op].acct) = {}
                OBVIOUS
            <4>1. CASE x = p BY <1>4, <4>1 DEF ActionMove
            <4>2. CASE x # p BY <1>0, <2>1, <4>2 DEF Clear
            <4> QED BY <4>1, <4>2
        <3>2. \A q \in PermReq : perm[q].pc \in {"snapshot", "insert"} =>
                  edit[perm[q].op].plain \/ PendingActions(edit[perm[q].op].acct)' = {}
            <4> SUFFICES ASSUME NEW q \in PermReq, perm[q].pc \in {"snapshot", "insert"}
                         PROVE  edit[perm[q].op].plain \/ PendingActions(edit[perm[q].op].acct)' = {}
                OBVIOUS
            <4>1. advisory[edit[perm[q].op].acct] = q BY <1>0, PermLabels DEF Locks
            <4>2. edit[perm[q].op].plain \/ PendingActions(edit[perm[q].op].acct) = {} BY <1>0 DEF Clear
            <4>3. PendingActions(edit[perm[q].op].acct)' \subseteq PendingActions(edit[perm[q].op].acct)
                BY <2>3, <2>4, <2>t, <4>1
            <4> QED BY <4>2, <4>3
        <3> QED BY <1>2, <2>1, <3>1, <3>2 DEF Clear
    <2>6. Pair'
        <3> SUFFICES ASSUME NEW a \in Account
                     PROVE  PendingActions(a)' = {} \/ \A o \in PendingPerms(a)' : edit'[o].plain
            BY DEF Pair
        <3>1. PendingActions(a)' \subseteq PendingActions(a) \/ PendingPerms(a) = {} BY <2>3, <2>4
        <3> QED BY <1>0, <1>2, <3>1 DEF Pair
    <2> QED BY <1>1, <2>1, <2>2, <2>5, <2>6 DEF LifecycleInv
<1> QED BY <1>3, <1>4

\* An edit opens one only where no disabling or deletion is open, or where it did
\* not find them for its spelling.
LEMMA PermKeeps ==
    ASSUME LifecycleInv, UNCHANGED <<actionOps, ask, act>>,
           PermRest \/ \E q \in PermReq : PermMove(q)
    PROVE  LifecycleInv'
<1>0. ActionShapes /\ PermShapes /\ Locks /\ Clear /\ Pair BY DEF LifecycleInv
<1>1. ActionShapes' BY <1>0 DEF ActionShapes
<1>2. \A a : PendingActions(a)' = PendingActions(a) BY DEF PendingActions
<1>3. CASE PermRest
    <2>1. PermShapes' BY <1>3 DEF PermRest
    <2>2. \A q \in PermReq : perm[q].pc # "idle" => edit'[perm[q].op] = edit[perm[q].op]
        BY <1>0, <1>3 DEF PermRest, PermShapes
    <2>3. Locks' BY <1>0, <1>3, <2>2, PermLabels DEF Locks, PermRest
    <2>4. \A a : PendingPerms(a)' \subseteq PendingPerms(a) BY <1>3 DEF PermRest, PendingPerms
    <2>5. Clear' BY <1>0, <1>2, <1>3, <2>2, <2>4 DEF Clear, PermRest
    <2>6. \A a : \A o \in PendingPerms(a) : edit'[o] = edit[o]
        BY <1>0, <1>3 DEF PermRest, PermShapes, PendingPerms
    <2>7. Pair' BY <1>0, <1>2, <2>4, <2>6 DEF Pair
    <2> QED BY <1>1, <2>1, <2>3, <2>5, <2>7 DEF LifecycleInv
<1>4. ASSUME NEW q \in PermReq, PermMove(q) PROVE LifecycleInv'
    <2>1. PermShapes' /\ edit' = edit /\ \A x \in PermReq \ {q} : perm'[x] = perm[x] BY <1>4 DEF PermMove
    <2>t. q \in Thread /\ q # NoOne /\ q \notin ActionReq /\ q \in Thread \cup {NoOne}
        BY LifecycleAssumption, PlatformAssumption
    <2>2. Locks'
        <3>1. CASE /\ advisory' = advisory
                   /\ perm'[q].pc \in PP!LockedLabel => perm[q].pc \in PP!LockedLabel /\ perm'[q].op = perm[q].op
            BY <1>0, <2>1, <3>1 DEF Locks
        <3>2. CASE /\ perm'[q].op = perm[q].op /\ perm[q].pc # "idle"
                   /\ advisory[edit[perm[q].op].acct] = NoOne
                   /\ advisory' = [advisory EXCEPT ![edit[perm[q].op].acct] = q]
            <4>1. edit[perm[q].op].acct \in Account BY <1>0, <3>2 DEF PermShapes
            <4>2. /\ advisory' \in [Account -> Thread \cup {NoOne}]
                  /\ advisory'[edit[perm[q].op].acct] = q
                  /\ \A a \in Account : advisory[a] # NoOne => advisory'[a] = advisory[a]
                BY <1>0, <2>t, <3>2, <4>1 DEF Locks
            <4>3. \A x \in PermReq : perm'[x].pc \in PP!LockedLabel => advisory'[edit[perm'[x].op].acct] = x
                <5> SUFFICES ASSUME NEW x \in PermReq, perm'[x].pc \in PP!LockedLabel
                             PROVE  advisory'[edit[perm'[x].op].acct] = x
                    OBVIOUS
                <5>1. CASE x = q BY <3>2, <4>2, <5>1
                <5>2. CASE x # q
                    <6>1. perm'[x] = perm[x] BY <2>1, <5>2
                    <6>2. edit[perm[x].op].acct \in Account BY <1>0, <6>1, PermLabels DEF PermShapes
                    <6>3. advisory[edit[perm[x].op].acct] = x BY <1>0, <6>1 DEF Locks
                    <6>4. x # NoOne BY LifecycleAssumption, PlatformAssumption
                    <6> QED BY <4>2, <6>1, <6>2, <6>3, <6>4
                <5> QED BY <5>1, <5>2
            <4>4. \A x \in ActionReq : act[x].pc \in AA!LockedLabel => advisory'[ask[act[x].op].acct] = x
                <5> SUFFICES ASSUME NEW x \in ActionReq, act[x].pc \in AA!LockedLabel
                             PROVE  advisory'[ask[act[x].op].acct] = x
                    OBVIOUS
                <5>1. ask[act[x].op].acct \in Account BY <1>0, ActionLabels DEF ActionShapes
                <5>2. advisory[ask[act[x].op].acct] = x BY <1>0 DEF Locks
                <5>3. x # NoOne BY LifecycleAssumption, PlatformAssumption
                <5> QED BY <4>2, <5>1, <5>2, <5>3
            <4> QED BY <2>1, <4>2, <4>3, <4>4 DEF Locks
        <3>3. CASE /\ perm'[q].pc = "idle"
                   /\ advisory' = [a \in Account |-> IF advisory[a] = q THEN NoOne ELSE advisory[a]]
            <4>1. /\ advisory' \in [Account -> Thread \cup {NoOne}]
                  /\ \A a \in Account : advisory[a] # q => advisory'[a] = advisory[a]
                BY <1>0, <2>t, <3>3 DEF Locks
            <4>2. \A x \in PermReq : perm'[x].pc \in PP!LockedLabel => advisory'[edit[perm'[x].op].acct] = x
                <5> SUFFICES ASSUME NEW x \in PermReq, perm'[x].pc \in PP!LockedLabel
                             PROVE  advisory'[edit[perm'[x].op].acct] = x
                    OBVIOUS
                <5>1. x # q BY <3>3, PermLabels
                <5>2. perm'[x] = perm[x] BY <2>1, <5>1
                <5>3. edit[perm[x].op].acct \in Account BY <1>0, <5>2, PermLabels DEF PermShapes
                <5>4. advisory[edit[perm[x].op].acct] = x BY <1>0, <5>2 DEF Locks
                <5> QED BY <4>1, <5>1, <5>2, <5>3, <5>4
            <4>3. \A x \in ActionReq : act[x].pc \in AA!LockedLabel => advisory'[ask[act[x].op].acct] = x
                <5> SUFFICES ASSUME NEW x \in ActionReq, act[x].pc \in AA!LockedLabel
                             PROVE  advisory'[ask[act[x].op].acct] = x
                    OBVIOUS
                <5>1. ask[act[x].op].acct \in Account BY <1>0, ActionLabels DEF ActionShapes
                <5>2. advisory[ask[act[x].op].acct] = x /\ x # q BY <1>0, <2>t DEF Locks
                <5> QED BY <4>1, <5>1, <5>2
            <4> QED BY <2>1, <4>1, <4>2, <4>3 DEF Locks
        <3> QED BY <1>4, <3>1, <3>2, <3>3 DEF PermMove
    <2>3. \A a : \A o \in PendingPerms(a)' :
              o \in PendingPerms(a) \/ (perm[q].pc = "insert" /\ o = perm[q].op /\ a = edit[o].acct)
        BY <1>4 DEF PermMove, PendingPerms
    <2>4. perm[q].pc = "insert" =>
              /\ edit[perm[q].op].plain \/ PendingActions(edit[perm[q].op].acct) = {}
              /\ advisory[edit[perm[q].op].acct] = q
        BY <1>0, PermLabels DEF Clear, Locks
    <2>5. Clear'
        <3>1. \A p \in ActionReq : act[p].pc = "insert" => PendingPerms(ask[act[p].op].acct)' = {}
            <4> SUFFICES ASSUME NEW p \in ActionReq, act[p].pc = "insert"
                         PROVE  PendingPerms(ask[act[p].op].acct)' = {}
                OBVIOUS
            <4>1. advisory[ask[act[p].op].acct] = p BY <1>0, ActionLabels DEF Locks
            <4>2. PendingPerms(ask[act[p].op].acct) = {} BY <1>0 DEF Clear
            <4>3. PendingPerms(ask[act[p].op].acct)' \subseteq PendingPerms(ask[act[p].op].acct)
                BY <2>3, <2>4, <2>t, <4>1
            <4> QED BY <4>2, <4>3
        <3>2. \A x \in PermReq : perm'[x].pc \in {"snapshot", "insert"} =>
                  edit[perm'[x].op].plain \/ PendingActions(edit[perm'[x].op].acct) = {}
            <4> SUFFICES ASSUME NEW x \in PermReq, perm'[x].pc \in {"snapshot", "insert"}
                         PROVE  edit[perm'[x].op].plain \/ PendingActions(edit[perm'[x].op].acct) = {}
                OBVIOUS
            <4>1. CASE x = q BY <1>0, <1>4, <4>1 DEF PermMove, Clear
            <4>2. CASE x # q BY <1>0, <2>1, <4>2 DEF Clear
            <4> QED BY <4>1, <4>2
        <3> QED BY <1>2, <2>1, <3>1, <3>2 DEF Clear
    <2>6. Pair'
        <3> SUFFICES ASSUME NEW a \in Account, PendingActions(a)' # {}, NEW o \in PendingPerms(a)'
                     PROVE  edit[o].plain
            BY <2>1 DEF Pair
        <3>1. CASE o \in PendingPerms(a) BY <1>0, <1>2, <3>1 DEF Pair
        <3>2. CASE perm[q].pc = "insert" /\ o = perm[q].op /\ a = edit[o].acct BY <1>2, <2>4, <3>2
        <3> QED BY <2>3, <3>1, <3>2
    <2> QED BY <1>1, <2>1, <2>2, <2>5, <2>6 DEF LifecycleInv
<1> QED BY <1>3, <1>4

-----------------------------------------------------------------------------
(* The theorems.                                                           *)

LEMMA LifecycleStarts == Init => LifecycleInv
<1> SUFFICES ASSUME Init PROVE LifecycleInv
    OBVIOUS
<1>1. /\ advisory = [a \in Account |-> NoOne]
      /\ actionOps = [o \in ActionOp |-> AA!NoAction]
      /\ permOps = [o \in PermOp |-> PP!NoPerm]
      /\ ask = [o \in ActionOp |-> [acct |-> AA!AnyAccount, verb |-> "disable", made |-> FALSE,
                                    rev |-> [ident |-> AA!NoIdentity, lock |-> "open", cut |-> FALSE]]]
      /\ act = [p \in ActionReq |-> AA!Idle]
      /\ edit = [o \in PermOp |-> [acct |-> PP!AnyAccount, mark |-> FALSE, grants |-> {},
                                   want |-> {}, plain |-> FALSE, made |-> FALSE]]
      /\ perm = [p \in PermReq |-> PP!Idle]
    BY DEF Init, AA!ActionInit, AA!PlatformInit, PP!PermInit, PP!PlatformInit
<1>2. AA!AnyAccount \in Account /\ PP!AnyAccount \in Account
    BY PlatformAssumption DEF AA!AnyAccount, PP!AnyAccount
<1>3. ActionFields(AA!NoAction) /\ AA!NoAction.status = "absent" /\ AA!NoAction.key = FALSE
    BY DEF ActionFields, AA!NoAction
<1>4. PermFields(PP!NoPerm) /\ PP!NoPerm.status = "absent" /\ PP!NoPerm.key = FALSE
    BY DEF PermFields, PP!NoPerm
<1>5. AA!Idle \in AA!ActionThread /\ AA!Idle.pc = "idle"
    BY ActionLabels DEF AA!Idle, AA!ActionThread
<1>6. ThreadFields(PP!Idle) /\ PP!Idle.pc = "idle"
    BY DEF ThreadFields, PP!Idle
<1>7. ActionShapes BY <1>1, <1>2, <1>3, <1>5 DEF ActionShapes
<1>8. PermShapes BY <1>1, <1>2, <1>4, <1>6 DEF PermShapes
<1>9. Locks BY <1>1, <1>5, <1>6, ActionLabels, PermLabels DEF Locks
<1>10. Clear BY <1>1, <1>5, <1>6 DEF Clear
<1>11. Pair BY <1>1, <1>3 DEF Pair, PendingActions
<1> QED BY <1>7, <1>8, <1>9, <1>10, <1>11 DEF LifecycleInv

LEMMA LifecycleKept == LifecycleInv /\ [Next]_vars => LifecycleInv'
<1> SUFFICES ASSUME LifecycleInv, [Next]_vars PROVE LifecycleInv'
    OBVIOUS
<1>1. CASE ActionsMove
    BY <1>1, ActionFrame, ActionMoves, ActionKeeps DEF ActionsMove
<1>2. CASE PermissionsMove
    BY <1>2, PermFrame, PermMoves, PermKeeps DEF PermissionsMove
<1>3. CASE ManagedMove \/ OutsideMove \/ UNCHANGED vars
    <2>1. UNCHANGED <<advisory, actionOps, permOps, ask, act, edit, perm>>
        BY <1>3, ManagedFrame DEF vars
    <2>2. ActionShapes' /\ PermShapes' BY <2>1 DEF LifecycleInv, ActionShapes, PermShapes
    <2>3. Locks' BY <2>1 DEF LifecycleInv, Locks
    <2>4. /\ \A a : PendingActions(a)' = PendingActions(a)
          /\ \A a : PendingPerms(a)' = PendingPerms(a)
        BY <2>1 DEF PendingActions, PendingPerms
    <2>5. Clear' /\ Pair' BY <2>1, <2>4 DEF LifecycleInv, Clear, Pair
    <2> QED BY <2>2, <2>3, <2>5 DEF LifecycleInv
<1> QED BY <1>1, <1>2, <1>3 DEF Next

LEMMA LifecycleHolds == Spec => []LifecycleInv
BY LifecycleStarts, LifecycleKept, PTL DEF Spec

\* "Edits and disabling or deleting are serialised by the advisory lock", whatever
\* creations, undo requests and workers do beside them: account_change_lock of the
\* two handlers excludes one from the other's locked section.
THEOREM EditsSerialised == Spec => []Serialised
<1>1. LifecycleInv => Serialised
    <2> SUFFICES ASSUME LifecycleInv, NEW p \in ActionReq, NEW q \in PermReq,
                        act[p].pc \in {"exec", "poll", "finish"},
                        perm[q].pc \in {"exec", "final", "rexec", "rverify"}
                 PROVE  ask[act[p].op].acct # edit[perm[q].op].acct
        BY DEF Serialised
    <2>1. advisory[ask[act[p].op].acct] = p BY ActionLabels DEF LifecycleInv, Locks
    <2>2. advisory[edit[perm[q].op].acct] = q BY PermLabels DEF LifecycleInv, Locks
    <2> QED BY <2>1, <2>2, LifecycleAssumption
<1> QED BY <1>1, LifecycleHolds, PTL

\* An account has an open permission operation beside an open disabling or deletion
\* only if the edit spelt its user unquoted, which hides it from the search.
THEOREM OpenPairIsPlain == Spec => []Pair
<1>1. LifecycleInv => Pair BY DEF LifecycleInv
<1> QED BY <1>1, LifecycleHolds, PTL

\* The edits that were submitted spell the user in the quoted form.
Quoted == \A o \in PermOp : edit[o].plain = FALSE

\* As long as requests spell the user as the tables do, "an open permission
\* operation blocks a deletion" and an open disabling or deletion blocks an edit.
THEOREM NeverBothOpen ==
    ASSUME Spellings \subseteq {FALSE}
    PROVE  Spec => []NoOpenPair
<1>1. Init => Quoted
    BY DEF Init, PP!PermInit, Quoted
<1>2. LifecycleInv /\ Quoted /\ [Next]_vars => Quoted'
    <2> SUFFICES ASSUME LifecycleInv, Quoted, [Next]_vars PROVE Quoted'
        OBVIOUS
    <2>1. CASE PermissionsMove
        <3>1. PermRest \/ edit' = edit BY <2>1, PermMoves DEF PermissionsMove, PermMove
        <3> QED BY <3>1 DEF PermRest, Quoted
    <2>2. CASE ActionsMove BY <2>2, ActionFrame DEF Quoted
    <2>3. CASE ManagedMove \/ OutsideMove \/ UNCHANGED vars
        BY <2>3, ManagedFrame DEF vars, Quoted
    <2> QED BY <2>1, <2>2, <2>3 DEF Next
<1>3. LifecycleInv /\ Quoted => NoOpenPair
    <2> SUFFICES ASSUME LifecycleInv, Quoted, NEW a \in Account
                 PROVE  PendingActions(a) = {} \/ PendingPerms(a) = {}
        BY DEF NoOpenPair
    <2>1. \A o \in PendingPerms(a) : edit[o].plain = FALSE BY DEF PendingPerms, Quoted
    <2> QED BY <2>1 DEF LifecycleInv, Pair
<1> QED BY <1>1, <1>2, <1>3, LifecycleHolds, PTL DEF Spec

-----------------------------------------------------------------------------
(* The proofs about the parts, over the variables of the whole.            *)

CP == INSTANCE ManagedAccountsProofs WITH part <- "managed"
EP == INSTANCE PermissionEditsProofs

\* Their modules and the parts of the composition are the same definitions twice.
LEMMA SameResult ==
    ASSUME NEW row, NEW s
    PROVE  /\ AA!Result(row, s) = CP!Result(row, s)
           /\ PP!Result(row, s) = EP!Result(row, s)
           /\ MM!Result(row, s) = CP!Result(row, s)
<1>1. AA!Result(row, s) = CP!Result(row, s) BY Zenon DEF AA!Result, CP!Result
<1>2. PP!Result(row, s) = EP!Result(row, s) BY Zenon DEF PP!Result, EP!Result
<1>3. MM!Result(row, s) = CP!Result(row, s) BY Zenon DEF MM!Result, CP!Result
<1> QED BY <1>1, <1>2, <1>3

LEMMA SameStatements ==
    ASSUME NEW s
    PROVE  /\ AA!Executes(s) => CP!Executes(s)
           /\ AA!Fails(s) => CP!Fails(s)
           /\ PP!Executes(s) => EP!Executes(s)
           /\ PP!Fails(s) => EP!Fails(s)
           /\ MM!Executes(s) => CP!Executes(s)
           /\ MM!Fails(s) => CP!Fails(s)
    BY SameResult DEF AA!Executes, AA!Fails, AA!Accepts, AA!Apply, AA!Cardinality, PP!Executes, PP!Fails,
           PP!Accepts, PP!Apply, PP!Cardinality, MM!Executes, MM!Fails, MM!Accepts, MM!Apply, MM!Cardinality,
           CP!Executes, CP!Fails, CP!Accepts, CP!Apply, CP!Cardinality, EP!Executes, EP!Fails, EP!Accepts,
           EP!Apply, EP!Cardinality

LEMMA SameTexts ==
    ASSUME NEW v, NEW a, NEW g
    PROVE  /\ AA!Statement(v, a, g) = CP!Statement(v, a, g)
           /\ PP!Statement(v, a, g) = EP!Statement(v, a, g)
           /\ MM!Statement(v, a, g) = CP!Statement(v, a, g)
    BY DEF AA!Statement, PP!Statement, MM!Statement, CP!Statement, EP!Statement

LEMMA SameRows ==
    /\ AA!FirstRows = CP!FirstRows
    /\ PP!FirstRows = EP!FirstRows
    /\ MM!FirstRows = CP!FirstRows
    /\ AA!AnyAccount = CP!AnyAccount
    /\ PP!AnyAccount = EP!AnyAccount
    /\ MM!AnyAccount = CP!AnyAccount
<1>1. AA!AnyAccount = CP!AnyAccount BY Zenon DEF AA!AnyAccount, CP!AnyAccount
<1>2. PP!AnyAccount = EP!AnyAccount BY Zenon DEF PP!AnyAccount, EP!AnyAccount
<1>3. MM!AnyAccount = CP!AnyAccount BY Zenon DEF MM!AnyAccount, CP!AnyAccount
<1> QED
    BY <1>1, <1>2, <1>3 DEF AA!FirstRows, AA!FirstRow, PP!FirstRows, PP!FirstRow, MM!FirstRows, MM!FirstRow,
           CP!FirstRows, CP!FirstRow, EP!FirstRows, EP!FirstRow

LEMMA SameStarts ==
    /\ AA!ActionInit => CP!ActionInit
    /\ PP!PermInit => EP!PermInit
    /\ MM!ManagedInit => CP!ManagedInit
<1>1. AA!ActionInit => CP!ActionInit
    BY SameRows DEF AA!PlatformInit, CP!PlatformInit, AA!NoRecord, CP!NoRecord, AA!NoAction, CP!NoAction,
           AA!NoPerm, CP!NoPerm, AA!NoIdentity, CP!NoIdentity, AA!ActionInit, CP!ActionInit, AA!Idle, CP!Idle
<1>2. PP!PermInit => EP!PermInit
    BY SameRows DEF PP!PlatformInit, EP!PlatformInit, PP!NoRecord, EP!NoRecord, PP!NoAction, EP!NoAction,
           PP!NoPerm, EP!NoPerm, PP!NoIdentity, EP!NoIdentity, PP!PermInit, EP!PermInit, PP!Idle, EP!Idle
<1>3. MM!ManagedInit => CP!ManagedInit
    BY SameRows DEF MM!PlatformInit, CP!PlatformInit, MM!NoRecord, CP!NoRecord, MM!NoAction, CP!NoAction,
           MM!NoPerm, CP!NoPerm, MM!NoIdentity, CP!NoIdentity, MM!ManagedInit, CP!ManagedInit, MM!MgrIdle,
           CP!MgrIdle
<1> QED BY <1>1, <1>2, <1>3

LEMMA SameActions == AA!ActionNext => CP!ActionNext
BY DEF AA!platformVars, CP!platformVars, AA!NoRecord, CP!NoRecord, AA!Identity, CP!Identity, AA!NoIdentity,
       CP!NoIdentity, AA!AnyAccount, CP!AnyAccount, AA!NoAction, CP!NoAction, AA!NoPerm, CP!NoPerm,
       AA!PendingActions, CP!PendingActions, AA!PendingPerms, CP!PendingPerms, AA!Statement, CP!Statement,
       AA!Accepts, CP!Accepts, AA!Result, CP!Result, AA!Apply, CP!Apply, AA!Executes, CP!Executes, AA!Fails,
       CP!Fails, AA!TakeLock, CP!TakeLock, AA!DropLocks, CP!DropLocks, AA!Verb, CP!Verb, AA!Revision,
       CP!Revision, AA!PerformLabel, CP!PerformLabel, AA!VerifyLabel, CP!VerifyLabel, AA!LockedLabel,
       CP!LockedLabel, AA!ActionLabel, CP!ActionLabel, AA!Idle, CP!Idle, AA!Begin, CP!Begin, AA!Goto, CP!Goto,
       AA!End, CP!End, AA!Acct, CP!Acct, AA!Issues, CP!Issues, AA!Gone, CP!Gone, AA!Recognised, CP!Recognised,
       AA!Reached, CP!Reached, AA!NotReached, CP!NotReached, AA!Unrecognised, CP!Unrecognised, AA!Submit,
       CP!Submit, AA!Perform, CP!Perform, AA!Verify, CP!Verify, AA!Lock, CP!Lock, AA!LockBusy, CP!LockBusy,
       AA!Release, CP!Release, AA!Die, CP!Die, AA!Check, CP!Check, AA!Busy, CP!Busy, AA!Record, CP!Record,
       AA!Insert, CP!Insert, AA!Exec, CP!Exec, AA!Poll, CP!Poll, AA!Finish, CP!Finish, AA!FinishPerform,
       CP!FinishPerform, AA!Fail, CP!Fail, AA!VerifyOutcome, CP!VerifyOutcome, AA!VerifyFinish, CP!VerifyFinish,
       AA!VerifyNot, CP!VerifyNot, AA!Age, CP!Age, AA!ActionStep, CP!ActionStep, AA!ActionNext, CP!ActionNext,
       AA!Cardinality, CP!Cardinality

LEMMA SameEdits == PP!PermNext => EP!PermNext
<1>1. ASSUME NEW p, NEW l, PP!DeltaStep(p, l) PROVE EP!DeltaStep(p, l)
    <2> DEFINE a == edit[perm[p].op].acct
               todo == IF perm[p].revoke # {} THEN "revoke" ELSE "grant"
    <2>1. PICK g \in IF todo = "revoke" THEN perm[p].revoke ELSE perm[p].grant :
             \/ /\ PP!Executes(PP!Statement(todo, a, {g}))
                /\ perm' = [perm EXCEPT ![p].revoke = @ \ {g},
                                        ![p].grant = IF todo = "revoke" THEN @ ELSE @ \ {g}]
             \/ PP!Fails(PP!Statement(todo, a, {g})) /\ PP!Goto(p, l)
        BY <1>1 DEF PP!DeltaStep, PP!Acct
    <2>2. \/ /\ EP!Executes(EP!Statement(todo, a, {g}))
             /\ perm' = [perm EXCEPT ![p].revoke = @ \ {g},
                                     ![p].grant = IF todo = "revoke" THEN @ ELSE @ \ {g}]
          \/ EP!Fails(EP!Statement(todo, a, {g})) /\ EP!Goto(p, l)
        BY <2>1, SameStatements, SameTexts, Zenon DEF PP!Goto, EP!Goto
    <2> QED BY <2>1, <2>2, Zenon DEF EP!DeltaStep, EP!Acct
<1>2. ASSUME NEW p, PP!Exec(p) \/ PP!RestoreExec(p) PROVE EP!Exec(p) \/ EP!RestoreExec(p)
    BY <1>1, <1>2 DEF PP!Exec, EP!Exec, PP!RestoreExec, EP!RestoreExec, PP!Emptied, EP!Emptied, PP!Goto, EP!Goto,
           PP!OnRestoreError, EP!OnRestoreError
<1>3. ASSUME NEW p, PP!PermStep(p), ~(PP!Exec(p) \/ PP!RestoreExec(p)) PROVE EP!PermStep(p)
    BY <1>3 DEF PP!platformVars, EP!platformVars, PP!Identity, EP!Identity, PP!AnyAccount, EP!AnyAccount,
           PP!PendingActions, EP!PendingActions, PP!PendingPerms, EP!PendingPerms, PP!TakeLock, EP!TakeLock,
           PP!DropLocks, EP!DropLocks, PP!Mode, EP!Mode, PP!LockedLabel, EP!LockedLabel, PP!PermLabel,
           EP!PermLabel, PP!Idle, EP!Idle, PP!Begin, EP!Begin, PP!Goto, EP!Goto, PP!End, EP!End, PP!Acct,
           EP!Acct, PP!Row, EP!Row, PP!Remote, EP!Remote, PP!GotoDelta, EP!GotoDelta, PP!SameAccount,
           EP!SameAccount, PP!Close, EP!Close, PP!OnError, EP!OnError, PP!OnRestoreError, EP!OnRestoreError,
           PP!Lock, EP!Lock, PP!LockBusy, EP!LockBusy, PP!Release, EP!Release, PP!Pending, EP!Pending,
           PP!Snapshot, EP!Snapshot, PP!Insert, EP!Insert, PP!Fresh, EP!Fresh, PP!Conflict, EP!Conflict,
           PP!Final, EP!Final, PP!Applied, EP!Applied, PP!Restored, EP!Restored, PP!Unsure, EP!Unsure,
           PP!Failed, EP!Failed, PP!RestoreVerify, EP!RestoreVerify, PP!Judge, EP!Judge, PP!PermStep,
           EP!PermStep
<1> QED
    BY <1>2, <1>3 DEF PP!PermStep, EP!PermStep, PP!PermNext, EP!PermNext, PP!Submit, EP!Submit, PP!Update,
           EP!Update, PP!Reconcile, EP!Reconcile, PP!Age, EP!Age, PP!Die, EP!Die, PP!Begin, EP!Begin, PP!End,
           EP!End, PP!Idle, EP!Idle, PP!AnyAccount, EP!AnyAccount, PP!DropLocks, EP!DropLocks, PP!platformVars,
           EP!platformVars

LEMMA SameManaged == MM!ManagedNext => CP!ManagedNext
<1>1. ASSUME NEW p, MM!CreateUser(p) PROVE CP!CreateUser(p)
    BY <1>1, SameStatements, SameTexts DEF MM!CreateUser, CP!CreateUser, MM!MgrGoto, CP!MgrGoto, MM!MgrEnd,
           CP!MgrEnd, MM!MgrAcct, CP!MgrAcct, MM!Marked, CP!Marked, MM!Remote, CP!Remote, MM!Lockless,
           CP!Lockless, MM!Touch, CP!Touch, MM!platformVars, CP!platformVars, MM!MgrIdle, CP!MgrIdle,
           MM!AnyAccount, CP!AnyAccount, MM!RollbackError, CP!RollbackError, MM!GotoRow, CP!GotoRow,
           MM!RowError, CP!RowError, MM!Created, CP!Created, MM!Verified, CP!Verified, MM!Looks, CP!Looks
<1>2. ASSUME NEW p, MM!CreateGrant(p) PROVE CP!CreateGrant(p)
    BY <1>2, SameStatements, SameTexts DEF MM!CreateGrant, CP!CreateGrant, MM!MgrGoto, CP!MgrGoto, MM!MgrEnd,
           CP!MgrEnd, MM!MgrAcct, CP!MgrAcct, MM!Marked, CP!Marked, MM!Remote, CP!Remote, MM!Lockless,
           CP!Lockless, MM!Touch, CP!Touch, MM!platformVars, CP!platformVars, MM!MgrIdle, CP!MgrIdle,
           MM!AnyAccount, CP!AnyAccount, MM!RollbackError, CP!RollbackError, MM!GotoRow, CP!GotoRow,
           MM!RowError, CP!RowError, MM!Created, CP!Created, MM!Verified, CP!Verified, MM!Looks, CP!Looks
<1>3. ASSUME NEW p, MM!RollbackDrop(p) PROVE CP!RollbackDrop(p)
    BY <1>3, SameStatements, SameTexts DEF MM!RollbackDrop, CP!RollbackDrop, MM!MgrGoto, CP!MgrGoto, MM!MgrEnd,
           CP!MgrEnd, MM!MgrAcct, CP!MgrAcct, MM!Marked, CP!Marked, MM!Remote, CP!Remote, MM!Lockless,
           CP!Lockless, MM!Touch, CP!Touch, MM!platformVars, CP!platformVars, MM!MgrIdle, CP!MgrIdle,
           MM!AnyAccount, CP!AnyAccount, MM!RollbackError, CP!RollbackError, MM!GotoRow, CP!GotoRow,
           MM!RowError, CP!RowError, MM!Created, CP!Created, MM!Verified, CP!Verified, MM!Looks, CP!Looks
<1>4. ASSUME NEW p, MM!ExpireRemote(p) PROVE CP!ExpireRemote(p)
    BY <1>4, SameStatements, SameTexts DEF MM!ExpireRemote, CP!ExpireRemote, MM!MgrGoto, CP!MgrGoto, MM!MgrEnd,
           CP!MgrEnd, MM!MgrAcct, CP!MgrAcct, MM!Marked, CP!Marked, MM!Remote, CP!Remote, MM!Lockless,
           CP!Lockless, MM!Touch, CP!Touch, MM!platformVars, CP!platformVars, MM!MgrIdle, CP!MgrIdle,
           MM!AnyAccount, CP!AnyAccount, MM!RollbackError, CP!RollbackError, MM!GotoRow, CP!GotoRow,
           MM!RowError, CP!RowError, MM!Created, CP!Created, MM!Verified, CP!Verified, MM!Looks, CP!Looks
<1>5. ASSUME NEW p, MM!ManagedStep(p), ~(MM!CreateUser(p) \/ MM!CreateGrant(p) \/ MM!RollbackDrop(p)) PROVE CP!ManagedStep(p)
    BY <1>5 DEF MM!platformVars, CP!platformVars, MM!Identity, CP!Identity, MM!AnyAccount, CP!AnyAccount,
           MM!PendingActions, CP!PendingActions, MM!PendingPerms, CP!PendingPerms, MM!TakeLock, CP!TakeLock,
           MM!DropLocks, CP!DropLocks, MM!CreateLabel, CP!CreateLabel, MM!RollbackLabel, CP!RollbackLabel,
           MM!MgrLabel, CP!MgrLabel, MM!MgrIdle, CP!MgrIdle, MM!MgrBegin, CP!MgrBegin, MM!MgrGoto, CP!MgrGoto,
           MM!MgrEnd, CP!MgrEnd, MM!MgrAcct, CP!MgrAcct, MM!Remote, CP!Remote, MM!Write, CP!Write, MM!Marked,
           CP!Marked, MM!Verified, CP!Verified, MM!Created, CP!Created, MM!Looks, CP!Looks, MM!CreateName,
           CP!CreateName, MM!CreateInsert, CP!CreateInsert, MM!CreatePlan, CP!CreatePlan, MM!CreateVerifying,
           CP!CreateVerifying, MM!CreateVerify, CP!CreateVerify, MM!CreateActive, CP!CreateActive,
           MM!CreateFail, CP!CreateFail, MM!CreateUnsure, CP!CreateUnsure, MM!RollbackError, CP!RollbackError,
           MM!RollbackList, CP!RollbackList, MM!RollbackCheck, CP!RollbackCheck, MM!RollbackWrite,
           CP!RollbackWrite, MM!CheckRemote, CP!CheckRemote, MM!CheckActive, CP!CheckActive, MM!CheckCleanup,
           CP!CheckCleanup, MM!Save, CP!Save, MM!GotoRow, CP!GotoRow, MM!RowError, CP!RowError, MM!Clock,
           CP!Clock, MM!ManagedStep, CP!ManagedStep, MM!NoRecord, CP!NoRecord
<1>6. ASSUME NEW p, NEW a, MM!MgrRequest(p, a) PROVE CP!MgrRequest(p, a)
    BY <1>6 DEF MM!MgrRequest, CP!MgrRequest, MM!Create, CP!Create, MM!Undo, CP!Undo, MM!CheckOperation,
           CP!CheckOperation, MM!SavePassword, CP!SavePassword, MM!MgrGoto, CP!MgrGoto, MM!MgrEnd, CP!MgrEnd,
           MM!MgrBegin, CP!MgrBegin, MM!MgrIdle, CP!MgrIdle, MM!AnyAccount, CP!AnyAccount, MM!MgrAcct,
           CP!MgrAcct, MM!Marked, CP!Marked, MM!Remote, CP!Remote, MM!Looks, CP!Looks, MM!Created, CP!Created,
           MM!Verified, CP!Verified, MM!Write, CP!Write, MM!platformVars, CP!platformVars
<1>7. ASSUME NEW w, MM!WorkerStep(w), ~MM!ExpireRemote(w) PROVE CP!WorkerStep(w)
    BY <1>7 DEF MM!WorkerStep, CP!WorkerStep, MM!NextRow, CP!NextRow, MM!ExpireVerify, CP!ExpireVerify,
           MM!ExpireWrite, CP!ExpireWrite, MM!GotoRow, CP!GotoRow, MM!RowError, CP!RowError, MM!Marked,
           CP!Marked, MM!Remote, CP!Remote, MM!Write, CP!Write, MM!platformVars, CP!platformVars, MM!Looks,
           CP!Looks, MM!MgrAcct, CP!MgrAcct
<1>8. ASSUME NEW w, NEW x, MM!Claim(w, x) PROVE CP!Claim(w, x)
    BY <1>8 DEF MM!Claim, CP!Claim, MM!Claimable, CP!Claimable, MM!MgrAcct, CP!MgrAcct, MM!Cardinality,
           CP!Cardinality
<1> QED
    BY <1>1, <1>2, <1>3, <1>4, <1>5, <1>6, <1>7, <1>8 DEF MM!ManagedNext, CP!ManagedNext, MM!ManagedStep,
           CP!ManagedStep, MM!WorkerStep, CP!WorkerStep, MM!MgrDie, CP!MgrDie, MM!WorkerDie, CP!WorkerDie,
           MM!Due, CP!Due, MM!Lapse, CP!Lapse, MM!AgeRecord, CP!AgeRecord, MM!Clock, CP!Clock, MM!MgrEnd,
           CP!MgrEnd, MM!MgrIdle, CP!MgrIdle, MM!AnyAccount, CP!AnyAccount, MM!platformVars, CP!platformVars

LEMMA SameOutside == MM!ManagedEnv => CP!ManagedEnv
    BY DEF MM!ManagedEnv, CP!ManagedEnv, MM!Outside, CP!Outside, MM!Land, CP!Land, MM!Settle, CP!Settle, MM!Dba,
           CP!Dba, MM!Touch, CP!Touch, MM!Statement, CP!Statement, MM!Accepts, CP!Accepts, MM!Result, CP!Result,
           MM!Apply, CP!Apply, MM!Watchers, CP!Watchers, MM!Looks, CP!Looks, MM!MgrAcct, CP!MgrAcct,
           MM!CreateLabel, CP!CreateLabel, MM!RollbackLabel, CP!RollbackLabel, MM!MgrLabel, CP!MgrLabel

\* So is finiteness, which their assumptions speak of.
LEMMA SameFinite ==
    /\ CP!IsFiniteSet(Account) /\ CP!IsFiniteSet(Priv)
    /\ EP!IsFiniteSet(Account) /\ EP!IsFiniteSet(Priv)
<1>1. IsFiniteSet(Account) /\ IsFiniteSet(Priv) BY PlatformAssumption
<1>2. CP!IsFiniteSet(Account) /\ CP!IsFiniteSet(Priv)
    BY <1>1, Zenon DEF IsFiniteSet, CP!IsFiniteSet
<1>3. EP!IsFiniteSet(Account) /\ EP!IsFiniteSet(Priv)
    BY <1>1, Zenon DEF IsFiniteSet, EP!IsFiniteSet
<1> QED BY <1>2, <1>3

\* So are the types of the platform and what a step spares.
LEMMA SamePlatform ==
    /\ CP!PlatformTypeOK <=> EP!PlatformTypeOK
    /\ CP!PlatformTypeOK' <=> EP!PlatformTypeOK'
    /\ \A T : CP!Spares(T) <=> EP!Spares(T)
<1>1. CP!PlatformTypeOK <=> EP!PlatformTypeOK
    BY DEF CP!PlatformTypeOK, EP!PlatformTypeOK, CP!ServerRow, EP!ServerRow, CP!RecordRow, EP!RecordRow,
           CP!RecordStatus, EP!RecordStatus, CP!ActionRow, EP!ActionRow, CP!IdentityRow, EP!IdentityRow,
           CP!PermRow, EP!PermRow
<1>2. CP!PlatformTypeOK' <=> EP!PlatformTypeOK'
    BY DEF CP!PlatformTypeOK, EP!PlatformTypeOK, CP!ServerRow, EP!ServerRow, CP!RecordRow, EP!RecordRow,
           CP!RecordStatus, EP!RecordStatus, CP!ActionRow, EP!ActionRow, CP!IdentityRow, EP!IdentityRow,
           CP!PermRow, EP!PermRow
<1>3. \A T : CP!Spares(T) <=> EP!Spares(T) BY DEF CP!Spares, EP!Spares
<1> QED BY <1>1, <1>2, <1>3

-----------------------------------------------------------------------------
(* The parts keep their invariants together.                               *)

\* Each handler of actions and of edits keeps its own invariant beside all others;
\* the handlers without the lock keep the types and the records, but not what they
\* have seen: a delete that says so writes their record as deleted.
Together == CP!ActionInv /\ EP!PermInv /\ CP!BaseInv

Threads == /\ ActionReq \in SUBSET Thread /\ PermReq \in SUBSET Thread
           /\ ActionReq \in SUBSET (Thread \ PermReq) /\ PermReq \in SUBSET (Thread \ ActionReq)

LEMMA TwoKinds == Threads
BY LifecycleAssumption DEF Threads

LEMMA TypesTogether ==
    /\ CP!ActionInv => CP!PlatformTypeOK
    /\ CP!ActionInv' => CP!PlatformTypeOK'
    /\ EP!PermInv => EP!PlatformTypeOK
    /\ EP!PermInv' => EP!PlatformTypeOK'
    /\ CP!BaseInv => CP!PlatformTypeOK
    /\ CP!BaseInv' => CP!PlatformTypeOK'
BY DEF CP!ActionInv, CP!ActionTypeOK, EP!PermInv, EP!PermTypeOK, CP!BaseInv, CP!ManagedTypeOK

LEMMA TogetherStarts == Init => Together
<1> SUFFICES ASSUME Init PROVE Together
    OBVIOUS
<1>1. CP!ActionInit /\ EP!PermInit /\ CP!ManagedInit BY SameStarts DEF Init
<1>2. CP!ActionInv BY <1>1, CP!InitInv, PlatformAssumption, LifecycleAssumption, SameFinite
<1>3. EP!PermInv BY <1>1, EP!PermInitInv, PlatformAssumption, LifecycleAssumption, SameFinite
<1>4. CP!ManagedInv BY <1>1, CP!ManagedStart, PlatformAssumption, LifecycleAssumption, SameFinite
<1> QED BY <1>2, <1>3, <1>4 DEF Together, CP!ManagedInv

\* A request to disable or delete moves.
LEMMA ActionsTogether ==
    ASSUME Together, ActionsMove
    PROVE  Together' /\ UNCHANGED <<permOps, perm>>
<1>0. CP!ActionInv /\ EP!PermInv /\ CP!BaseInv BY DEF Together
<1>1. CP!ActionNext BY SameActions DEF ActionsMove
<1>2. CP!ActionInv'
    BY <1>0, <1>1, CP!ActionStepInv, PlatformAssumption, LifecycleAssumption, SameFinite DEF CP!Next
<1>3. UNCHANGED <<edit, perm, permOps, mgr, wrk, stirred>>
    BY <1>1, CP!ActionsApart, PlatformAssumption, LifecycleAssumption, SameFinite DEF ActionsMove, permState, managedState
<1>4. EP!Spares(PermReq)
    BY <1>0, <1>1, TwoKinds, CP!ActionsSpare, SamePlatform, PlatformAssumption, LifecycleAssumption, SameFinite DEF Threads
<1>5. CP!PlatformTypeOK' /\ EP!PlatformTypeOK' BY <1>2, TypesTogether, SamePlatform
<1>6. EP!PermInv'
    BY <1>0, <1>3, <1>4, <1>5, EP!EditBeside, PlatformAssumption, LifecycleAssumption, SameFinite
<1>7. \A a \in Account : /\ record'[a].made = record[a].made
                         /\ record'[a].status = "absent" <=> record[a].status = "absent"
    BY <1>0, <1>1, CP!ActionRecords, PlatformAssumption, LifecycleAssumption, SameFinite
<1>8. CP!BaseInv'
    BY <1>0, <1>3, <1>5, <1>7, CP!BaseBeside, PlatformAssumption, LifecycleAssumption, SameFinite
<1> QED BY <1>2, <1>3, <1>6, <1>8 DEF Together

\* An edit moves.
LEMMA EditsTogether ==
    ASSUME Together, PermissionsMove
    PROVE  Together' /\ UNCHANGED <<actionOps, act>>
<1>0. CP!ActionInv /\ EP!PermInv /\ CP!BaseInv BY DEF Together
<1>1. EP!PermNext BY SameEdits DEF PermissionsMove
<1>2. EP!PermInv'
    BY <1>0, <1>1, EP!PermStepInv, PlatformAssumption, LifecycleAssumption, SameFinite DEF EP!Next
<1>3. UNCHANGED <<ask, act, sent, actionOps, record, mgr, wrk, stirred>>
    BY <1>1, EP!EditsApart, PlatformAssumption, LifecycleAssumption, SameFinite DEF PermissionsMove, actionState, managedState
<1>4. CP!Spares(ActionReq)
    BY <1>0, <1>1, TwoKinds, EP!EditsSpare, SamePlatform, PlatformAssumption, LifecycleAssumption, SameFinite DEF Threads
<1>5. CP!PlatformTypeOK' BY <1>2, TypesTogether, SamePlatform
<1>6. CP!ActionInv'
    BY <1>0, <1>3, <1>4, <1>5, CP!ActionBeside, PlatformAssumption, LifecycleAssumption, SameFinite
<1>7. CP!BaseInv'
    BY <1>0, <1>3, <1>5, CP!BaseBeside, PlatformAssumption, LifecycleAssumption, SameFinite
<1> QED BY <1>2, <1>3, <1>6, <1>7 DEF Together

\* A creation, an undo request, a worker or something outside moves.
LEMMA OthersTogether ==
    ASSUME Together, ManagedMove \/ OutsideMove
    PROVE  Together' /\ UNCHANGED <<actionOps, permOps, act, perm>>
<1>0. CP!ActionInv /\ EP!PermInv /\ CP!BaseInv BY DEF Together
<1>1. CP!ManagedNext \/ CP!ManagedEnv BY SameManaged, SameOutside DEF ManagedMove, OutsideMove
<1>2. CP!BaseInv'
    BY <1>0, <1>1, CP!BaseStep, PlatformAssumption, LifecycleAssumption, SameFinite
<1>3. /\ CP!Spares(ActionReq) /\ EP!Spares(PermReq)
      /\ UNCHANGED <<actionOps, permOps>>
    BY <1>0, <1>1, TwoKinds, CP!ManagedSpares, SamePlatform, PlatformAssumption, LifecycleAssumption, SameFinite DEF Threads
<1>4. UNCHANGED <<ask, act, sent, edit, perm>> BY DEF ManagedMove, OutsideMove, actionState, permState
<1>5. CP!PlatformTypeOK' /\ EP!PlatformTypeOK' BY <1>2, TypesTogether, SamePlatform
<1>6. CP!ActionInv'
    BY <1>0, <1>3, <1>4, <1>5, CP!ActionBeside, PlatformAssumption, LifecycleAssumption, SameFinite
<1>7. EP!PermInv'
    BY <1>0, <1>3, <1>4, <1>5, EP!EditBeside, PlatformAssumption, LifecycleAssumption, SameFinite
<1> QED BY <1>2, <1>3, <1>4, <1>6, <1>7 DEF Together

LEMMA NothingTogether ==
    ASSUME Together, UNCHANGED vars
    PROVE  Together'
<1>0. CP!ActionInv /\ EP!PermInv /\ CP!BaseInv BY DEF Together
<1>1. UNCHANGED CP!actionVars /\ UNCHANGED EP!permVars
    BY DEF vars, CP!actionVars, EP!permVars
<1>2. CP!ActionInv'
    BY <1>0, <1>1, CP!ActionStepInv, PlatformAssumption, LifecycleAssumption, SameFinite
<1>3. EP!PermInv'
    BY <1>0, <1>1, EP!PermStepInv, PlatformAssumption, LifecycleAssumption, SameFinite
<1>4. CP!PlatformTypeOK' BY <1>2, TypesTogether
<1>5. UNCHANGED <<record, mgr, wrk, stirred>> BY DEF vars
<1>6. CP!BaseInv'
    BY <1>0, <1>4, <1>5, CP!BaseBeside, PlatformAssumption, LifecycleAssumption, SameFinite
<1> QED BY <1>2, <1>3, <1>6 DEF Together

LEMMA TogetherAlways == Spec => []Together
<1>1. Together /\ [Next]_vars => Together'
    BY ActionsTogether, EditsTogether, OthersTogether, NothingTogether DEF Next
<1> QED BY TogetherStarts, <1>1, PTL DEF Spec

\* Every variable of the composition keeps its type, and a settled edit never keeps
\* its account occupied, whoever writes the shared tables.
THEOREM TypesHold == Spec => [](AA!ActionTypeOK /\ PP!PermTypeOK /\ MM!ManagedTypeOK)
<1>1. CP!PlatformTypeOK => AA!PlatformTypeOK /\ PP!PlatformTypeOK /\ MM!PlatformTypeOK
    BY DEF CP!PlatformTypeOK, AA!PlatformTypeOK, PP!PlatformTypeOK, MM!PlatformTypeOK, CP!ServerRow, AA!ServerRow,
           PP!ServerRow, MM!ServerRow, CP!RecordRow, AA!RecordRow, PP!RecordRow, MM!RecordRow, CP!RecordStatus,
           AA!RecordStatus, PP!RecordStatus, MM!RecordStatus, CP!IdentityRow, AA!IdentityRow, PP!IdentityRow,
           MM!IdentityRow, CP!ActionRow, AA!ActionRow, PP!ActionRow, MM!ActionRow, CP!PermRow, AA!PermRow,
           PP!PermRow, MM!PermRow
<1>2. CP!ActionTypeOK => AA!ActionTypeOK
    BY <1>1 DEF CP!ActionTypeOK, AA!ActionTypeOK, CP!Request, AA!Request, CP!Verb, AA!Verb, CP!IdentityRow,
           AA!IdentityRow, CP!ActionThread, AA!ActionThread, CP!ActionLabel, AA!ActionLabel, CP!PerformLabel,
           AA!PerformLabel, CP!VerifyLabel, AA!VerifyLabel, CP!LockedLabel, AA!LockedLabel
<1>3. EP!PermTypeOK /\ PP!PlatformTypeOK => PP!PermTypeOK
    BY DEF EP!PermTypeOK, PP!PermTypeOK, EP!SettledFrees, PP!SettledFrees, EP!EditRow, PP!EditRow, EP!PermThread,
           PP!PermThread, EP!PermLabel, PP!PermLabel, EP!LockedLabel, PP!LockedLabel, EP!Mode, PP!Mode
<1>4. CP!ManagedTypeOK => MM!ManagedTypeOK
    BY <1>1 DEF CP!ManagedTypeOK, MM!ManagedTypeOK, CP!MgrThread, MM!MgrThread, CP!MgrLabel, MM!MgrLabel,
           CP!CreateLabel, MM!CreateLabel, CP!RollbackLabel, MM!RollbackLabel, CP!WrkThread, MM!WrkThread
<1>5. Together => AA!ActionTypeOK /\ PP!PermTypeOK /\ MM!ManagedTypeOK
    BY <1>1, <1>2, <1>3, <1>4, TypesTogether DEF Together, CP!ActionInv, EP!PermInv, CP!BaseInv
<1> QED BY <1>5, TogetherAlways, PTL

\* Beside edits, creations, undo requests and workers, on the same accounts, the
\* statement of an operation is issued at most once, its row occupies the account
\* exactly as long as its result is open, and no account has two of them in doubt
\* (database_account_actions.py, perform_account_action and verify_account_action).
THEOREM ActionsExact == Spec => [](AA!NeverReissued /\ AA!OpenIffUnsettled /\ AA!OneInDoubt)
<1>1. CP!ActionInv => CP!NeverReissued BY CP!Once, PlatformAssumption, LifecycleAssumption, SameFinite
<1>2. CP!ActionInv => CP!OpenIffUnsettled /\ CP!OneInDoubt BY DEF CP!ActionInv
<1>3. /\ CP!NeverReissued => AA!NeverReissued
      /\ CP!OpenIffUnsettled => AA!OpenIffUnsettled
      /\ CP!OneInDoubt => AA!OneInDoubt
    BY DEF CP!NeverReissued, AA!NeverReissued, CP!OpenIffUnsettled, AA!OpenIffUnsettled, CP!OneInDoubt, AA!OneInDoubt
<1>4. Together => AA!NeverReissued /\ AA!OpenIffUnsettled /\ AA!OneInDoubt
    BY <1>1, <1>2, <1>3 DEF Together
<1> QED BY <1>4, TogetherAlways, PTL

\* "Disabling and deleting keep their word" beside all the others: the statement
\* meets the account of the preview, and a success is real, whoever works on the
\* account meanwhile; only a change without the lock, which is noted, excuses it.
THEOREM ActionsTruthful == Spec => ActionsTrue
<1> DEFINE Met == \A p \in ActionReq : act[p].pc = "exec" /\ act'[p] # act[p] /\ server' # server =>
                     LET a == AA!Acct(act[p].op) IN
                     a \in touched \/ AA!Identity(server[a]) = ask[act[p].op].rev.ident
           Real == \A o \in ActionOp : actionOps[o].status # "succeeded" /\ actionOps'[o].status = "succeeded" =>
                     AA!Acct(o) \in touched \/ AA!Reached(o)
<1>1. Together => \A p \in ActionReq : act[p].pc = "exec" =>
                     LET a == AA!Acct(act[p].op) IN
                     a \in touched \/ AA!Identity(server[a]) = ask[act[p].op].rev.ident
    BY DEF Together, CP!ActionInv, CP!Confirmed, CP!Acct, AA!Acct, CP!Identity, AA!Identity
<1>2. \A o : CP!Acct(o) = AA!Acct(o) /\ (CP!Reached(o) => AA!Reached(o))
    BY DEF CP!Acct, AA!Acct, CP!Reached, AA!Reached, CP!Gone, AA!Gone, CP!Recognised, AA!Recognised,
           CP!Identity, AA!Identity
<1>3. ASSUME Together, [Next]_vars PROVE Met /\ Real
    <2>1. Met BY <1>1, <1>3
    <2>2. CASE ActionsMove
        <3>1. CP!Next BY <2>2, SameActions DEF ActionsMove, CP!Next
        <3>2. ASSUME NEW o \in ActionOp, actionOps[o].status # "succeeded", actionOps'[o].status = "succeeded"
              PROVE  AA!Acct(o) \in touched \/ AA!Reached(o)
            <4>1. CP!Acct(o) \in touched \/ CP!Reached(o)
                BY <1>3, <3>1, <3>2, CP!SuccessSeen, PlatformAssumption, LifecycleAssumption, SameFinite DEF Together
            <4> QED BY <1>2, <4>1
        <3> QED BY <2>1, <3>2
    <2>3. CASE actionOps' = actionOps BY <2>1, <2>3
    <2> QED BY <1>3, <2>2, <2>3, EditsTogether, OthersTogether DEF Next, vars
<1>4. Together /\ [Next]_vars => [Met]_AA!actionVars /\ [Real]_AA!actionVars
    BY <1>3
<1> QED BY <1>4, TogetherAlways, PTL DEF Spec, ActionsTrue, AA!ConfirmedAccount, AA!SucceededIsTrue

\* Edits keep theirs: an operation recorded as applied, or as restored, left the
\* grants it says on the account of its request.
THEOREM EditsTruthful == Spec => EditsTrue
<1> DEFINE Applied == \A o \in PermOp :
                     permOps[o].status # "applied" /\ permOps'[o].status = "applied" =>
                        LET row == server[permOps[o].acct] IN
                        \/ permOps[o].acct \in touched
                        \/ row.live /\ row.mark = permOps[o].mark /\ row.grants = permOps[o].after
           Restored == \A o \in PermOp :
                     permOps[o].status # "restored" /\ permOps'[o].status = "restored" =>
                        LET row == server[permOps[o].acct] IN
                        \/ permOps[o].acct \in touched
                        \/ row.live /\ row.mark = permOps[o].mark /\ row.grants = permOps[o].before
<1>1. ASSUME Together, [Next]_vars PROVE Applied /\ Restored
    <2>1. CASE PermissionsMove
        <3>1. EP!PermInv /\ [EP!Next]_EP!permVars BY <1>1, <2>1, SameEdits DEF Together, PermissionsMove, EP!Next
        <3> QED BY <3>1, EP!AppliedSeen, EP!RestoredSeen, PlatformAssumption, LifecycleAssumption, SameFinite
    <2>2. CASE permOps' = permOps BY <2>2
    <2> QED BY <1>1, <2>1, <2>2, ActionsTogether, OthersTogether DEF Next, vars
<1>2. Together /\ [Next]_vars => [Applied]_PP!permVars /\ [Restored]_PP!permVars
    BY <1>1
<1> QED BY <1>2, TogetherAlways, PTL DEF Spec, EditsTrue, PP!AppliedIsTrue, PP!RestoredIsTrue

\* And their statements leave the privileges of neither plan alone, on an account
\* that actions, creations and workers change as well.
THEOREM EditsConfined == Spec => PP!PlanConfined
<1> DEFINE Kept == \A p \in PermReq, g \in Priv :
                     /\ perm[p].pc \in {"exec", "rexec"}
                     /\ perm'[p] # perm[p]
                     /\ g \notin PP!Row(p).before \cup PP!Row(p).after
                     => LET a == PP!Acct(perm[p].op) IN
                        g \in server[a].grants <=> g \in server'[a].grants
<1>1. ASSUME Together, [Next]_vars PROVE Kept
    <2>1. CASE PermissionsMove
        <3>1. EP!PermInv /\ [EP!Next]_EP!permVars BY <1>1, <2>1, SameEdits DEF Together, PermissionsMove, EP!Next
        <3>2. \A p : EP!Row(p) = PP!Row(p) /\ EP!Acct(perm[p].op) = PP!Acct(perm[p].op)
            BY DEF EP!Row, PP!Row, EP!Acct, PP!Acct
        <3> QED BY <3>1, <3>2, EP!KeptConfined, PlatformAssumption, LifecycleAssumption, SameFinite
    <2>2. CASE perm' = perm BY <2>2
    <2> QED BY <1>1, <2>1, <2>2, ActionsTogether, OthersTogether DEF Next, vars
<1>2. Together /\ [Next]_vars => [Kept]_PP!permVars
    BY <1>1
<1> QED BY <1>2, TogetherAlways, PTL DEF Spec, PP!PlanConfined

-----------------------------------------------------------------------------
(* Operations that are recorded as not applied, on MySQL.                  *)

\* No lock state settles, and what verify is about to say was seen.
OpenTogether == Together /\ CP!Settled /\ \A q \in ActionReq : CP!NotFound(q)

LEMMA SameSettled == (CP!Settled <=> EP!Settled) /\ (CP!Settled' <=> EP!Settled')
BY DEF CP!Settled, EP!Settled

LEMMA OpenTogetherStarts == Init => OpenTogether
<1> SUFFICES ASSUME Init PROVE OpenTogether
    OBVIOUS
<1>1. CP!ActionInit BY SameStarts DEF Init
<1>2. CP!OpenInv BY <1>1, CP!OpenStarts, PlatformAssumption, LifecycleAssumption, SameFinite
<1> QED BY <1>2, TogetherStarts DEF OpenTogether, CP!OpenInv

LEMMA OpenTogetherKept ==
    ASSUME Kind = "mysql", OpenTogether, [Next]_vars
    PROVE  OpenTogether'
<1>0. /\ Together /\ CP!Settled /\ CP!OpenInv /\ CP!ActionInv /\ EP!PermInv /\ CP!BaseInv
    BY DEF OpenTogether, Together, CP!OpenInv
<1>1. Together' BY <1>0, ActionsTogether, EditsTogether, OthersTogether, NothingTogether DEF Next
<1>2. ASSUME CP!Next \/ UNCHANGED CP!actionVars PROVE CP!Settled' /\ \A q \in ActionReq : CP!NotFound(q)'
    BY <1>0, <1>2, CP!OpenStep, PlatformAssumption, LifecycleAssumption, SameFinite
<1>3. CASE ActionsMove
    BY <1>1, <1>2, <1>3, SameActions DEF ActionsMove, CP!Next, OpenTogether
<1>4. ASSUME CP!Settled', CP!Spares(ActionReq), UNCHANGED <<ask, act>> PROVE OpenTogether'
    <2>1. \A q \in ActionReq : CP!NotFound(q)'
        BY <1>0, <1>4, CP!OpenBeside, PlatformAssumption, LifecycleAssumption, SameFinite
    <2> QED BY <1>1, <1>4, <2>1 DEF OpenTogether
<1>5. CASE PermissionsMove
    <2>1. EP!PermNext /\ UNCHANGED <<ask, act>> BY <1>5, SameEdits DEF PermissionsMove, actionState
    <2>2. CP!Settled'
        BY <1>0, <2>1, SameSettled, EP!EditsSettle, PlatformAssumption, LifecycleAssumption, SameFinite
    <2>3. CP!Spares(ActionReq)
        BY <1>0, <2>1, TwoKinds, EP!EditsSpare, SamePlatform, PlatformAssumption, LifecycleAssumption, SameFinite
           DEF Threads
    <2> QED BY <1>4, <2>1, <2>2, <2>3
<1>6. CASE ManagedMove \/ OutsideMove
    <2>1. (CP!ManagedNext \/ CP!ManagedEnv) /\ UNCHANGED <<ask, act>>
        BY <1>6, SameManaged, SameOutside DEF ManagedMove, OutsideMove, actionState
    <2>2. CP!Settled'
        BY <1>0, <2>1, CP!ManagedSettle, PlatformAssumption, LifecycleAssumption, SameFinite
    <2>3. CP!Spares(ActionReq)
        BY <1>0, <2>1, TwoKinds, CP!ManagedSpares, PlatformAssumption, LifecycleAssumption, SameFinite DEF Threads
    <2> QED BY <1>4, <2>1, <2>2, <2>3
<1>7. CASE UNCHANGED vars
    <2>1. UNCHANGED CP!actionVars BY <1>7 DEF vars, CP!actionVars
    <2> QED BY <1>1, <1>2, <2>1 DEF OpenTogether
<1> QED BY <1>3, <1>5, <1>6, <1>7 DEF Next

\* "Read back: the operation took no effect" is true of a disabling on MySQL beside
\* all the others too: nobody disables the account between the reading and the
\* writing without leaving a note.
THEOREM NotAppliedTruthful ==
    ASSUME Kind = "mysql"
    PROVE  Spec => AA!NotAppliedIsTrue
<1> DEFINE Open == \A o \in ActionOp :
                /\ actionOps[o].status # "not_applied"
                /\ actionOps'[o].status = "not_applied"
                /\ ask[o].verb = "disable"
                => AA!Acct(o) \in touched \/ server[AA!Acct(o)].lock = "open"
<1>1. ASSUME OpenTogether, [Next]_vars PROVE Open
    <2>1. CASE ActionsMove
        <3>1. CP!OpenInv /\ CP!Next BY <1>1, <2>1, SameActions DEF OpenTogether, Together, CP!OpenInv, ActionsMove, CP!Next
        <3>2. \A o : CP!Acct(o) = AA!Acct(o) BY DEF CP!Acct, AA!Acct
        <3> QED BY <3>1, <3>2, CP!NotAppliedSeen, PlatformAssumption, LifecycleAssumption, SameFinite
    <2>2. CASE actionOps' = actionOps BY <2>2
    <2> QED BY <1>1, <2>1, <2>2, EditsTogether, OthersTogether DEF Next, vars, OpenTogether
<1>2. OpenTogether /\ [Next]_vars => OpenTogether' BY OpenTogetherKept
<1>3. OpenTogether /\ [Next]_vars => [Open]_AA!actionVars BY <1>1
<1> QED BY <1>2, <1>3, OpenTogetherStarts, PTL DEF Spec, AA!NotAppliedIsTrue

-----------------------------------------------------------------------------
(* Accounts of others.                                                     *)

LEMMA SameOwn == \A a : (CP!Own(a) <=> EP!Own(a)) /\ (CP!Own(a)' <=> EP!Own(a)')
BY DEF CP!Own, EP!Own

LEMMA MarkedTogetherStarts == Init => Together /\ CP!MarkSeen
<1> SUFFICES ASSUME Init PROVE Together /\ CP!MarkSeen
    OBVIOUS
<1>1. CP!ManagedInit BY SameStarts DEF Init
<1>2. CP!MarkSeen BY <1>1 DEF CP!ManagedInit, CP!MgrIdle, CP!MarkSeen
<1> QED BY <1>2, TogetherStarts

LEMMA MarkedTogetherKept ==
    ASSUME Together, CP!MarkSeen, [Next]_vars
    PROVE  Together' /\ CP!MarkSeen'
<1>0. CP!ActionInv /\ EP!PermInv /\ CP!BaseInv BY DEF Together
<1>1. Together' BY ActionsTogether, EditsTogether, OthersTogether, NothingTogether DEF Next
<1>2. ASSUME UNCHANGED <<mgr, wrk, stirred>>, \A a \in Account : CP!Own(a) => CP!Own(a)' PROVE CP!MarkSeen'
    BY <1>0, <1>2, CP!MarkBeside, PlatformAssumption, LifecycleAssumption, SameFinite
<1>3. CASE ActionsMove
    <2>1. CP!ActionNext /\ UNCHANGED <<mgr, wrk, stirred>> BY <1>3, SameActions DEF ActionsMove, managedState
    <2>2. \A a \in Account : CP!Own(a) => CP!Own(a)'
        BY <1>0, <2>1, CP!ActionsOwn, PlatformAssumption, LifecycleAssumption, SameFinite
    <2> QED BY <1>1, <1>2, <2>1, <2>2
<1>4. CASE PermissionsMove
    <2>1. EP!PermNext /\ UNCHANGED <<mgr, wrk, stirred>> BY <1>4, SameEdits DEF PermissionsMove, managedState
    <2>2. \A a \in Account : CP!Own(a) => CP!Own(a)'
        BY <1>0, <2>1, SameOwn, EP!EditsOwn, PlatformAssumption, LifecycleAssumption, SameFinite
    <2> QED BY <1>1, <1>2, <2>1, <2>2
<1>5. CASE ManagedMove \/ OutsideMove
    <2>1. CP!ManagedNext \/ CP!ManagedEnv BY <1>5, SameManaged, SameOutside DEF ManagedMove, OutsideMove
    <2> QED BY <1>0, <1>1, <2>1, CP!MarkStep, PlatformAssumption, LifecycleAssumption, SameFinite
<1>6. CASE UNCHANGED vars
    BY <1>1, <1>2, <1>6 DEF vars, CP!Own
<1> QED BY <1>1, <1>3, <1>4, <1>5, <1>6 DEF Next

\* Rollbacks and workers drop and cut only accounts the platform made, while others
\* disable, delete and edit the same accounts: what was found marked stays marked or
\* goes, whoever works on it, unless it was replaced from outside since.
THEOREM OwnTouchedTogether == Spec => MM!OnlyOwnTouched
<1> DEFINE Touches == /\ \A p \in AcctReq : mgr[p].pc = "rdrop" /\ server' # server /\ mgr'[p] # mgr[p] =>
                             p \in stirred \/ MM!Remote(mgr[p].acct).mark
                      /\ \A w \in Worker : wrk[w].pc = "xexpire" /\ server' # server /\ wrk'[w] # wrk[w] =>
                             w \in stirred \/ MM!Remote(wrk[w].acct).mark
<1>1. ASSUME Together, CP!MarkSeen, [Next]_vars PROVE Touches
    <2>1. CASE ManagedMove \/ OutsideMove
        <3>1. CP!ManagedNext \/ CP!ManagedEnv BY <2>1, SameManaged, SameOutside DEF ManagedMove, OutsideMove
        <3>2. CP!TouchesOwn
            BY <1>1, <3>1, CP!MarkTouched, PlatformAssumption, LifecycleAssumption, SameFinite DEF Together
        <3> QED BY <3>2 DEF CP!TouchesOwn, CP!Remote, MM!Remote
    <2>2. CASE UNCHANGED <<mgr, wrk>> BY <2>2
    <2> QED BY <1>1, <2>1, <2>2 DEF Next, ActionsMove, PermissionsMove, managedState, vars
<1>2. Together /\ CP!MarkSeen /\ [Next]_vars => Together' /\ CP!MarkSeen' BY MarkedTogetherKept
<1>3. Together /\ CP!MarkSeen /\ [Next]_vars => [Touches]_MM!managedVars BY <1>1
<1> QED BY <1>2, <1>3, MarkedTogetherStarts, PTL DEF Spec, MM!OnlyOwnTouched

=============================================================================
