------------------------- MODULE PermissionEditsProofs -------------------------
(***************************************************************************)
(* Proofs about PermissionEdits, for any number of accounts, privileges,   *)
(* threads, operations, external changes and late statements.              *)
(***************************************************************************)
EXTENDS PermissionEdits, AccountPlatformProofs

-----------------------------------------------------------------------------
(* The invariant.                                                          *)

\* The thread in a locked section is the holder of its account's lock.
EditLock == \A p \in PermReq : perm[p].pc \in LockedLabel => advisory[Acct(perm[p].op)] = p

\* Labels at which the row of the operation is there.
RowLabel == LockedLabel \ {"pending", "snapshot", "insert", "release"}

\* A busy thread serves a request, a row repeats the request it stands for, and
\* whoever judges or writes a row finds it.
Recorded ==
    /\ \A p \in PermReq : perm[p].pc # "idle" => edit[perm[p].op].made
    /\ \A o \in PermOp : permOps[o].status # "absent" =>
          /\ edit[o].made
          /\ permOps[o].acct = edit[o].acct /\ permOps[o].mark = edit[o].mark
          /\ permOps[o].before = edit[o].grants /\ permOps[o].after = edit[o].want
    /\ \A p \in PermReq :
          \/ perm[p].pc \in RowLabel
          \/ perm[p].pc = "lock" /\ perm[p].mode # "update"
          => Row(p).status # "absent"

\* The account holds the grants g and the marker the request was planned for.
HoldsPlan(p, g) == /\ Remote(p).live
                   /\ Remote(p).mark = edit[perm[p].op].mark
                   /\ Remote(p).grants = g

\* What a thread in its section has seen of the account is still so, unless it was
\* touched from outside: the grants before until the first statement, or all along
\* when the edit changes nothing; the planned grants before it says applied; and
\* again those before when it says restored.
Watched(p) ==
    LET e == edit[perm[p].op]
        same == e.grants = e.want IN
    \/ perm[p].pc \notin LockedLabel
    \/ e.acct \in touched
    \/ /\ perm[p].pc \in {"insert", "fresh", "undone", "rdone"} => HoldsPlan(p, e.grants)
       /\ perm[p].pc \in {"exec", "final"} /\ same => HoldsPlan(p, e.grants)
       /\ perm[p].pc = "apply" => HoldsPlan(p, e.want)
       /\ perm[p].pc # "conflict"

\* What is left to do lies within the two plans; an update starts with exactly
\* what they differ in.
Planned(p) ==
    LET e == edit[perm[p].op] IN
    /\ perm[p].pc \in {"insert", "fresh", "exec"} =>
          /\ perm[p].revoke \subseteq e.grants \ e.want
          /\ perm[p].grant \subseteq e.want \ e.grants
    /\ perm[p].pc = "rexec" => perm[p].revoke \cup perm[p].grant \subseteq e.grants \cup e.want

PermInv == /\ PermTypeOK
           /\ EditLock
           /\ Recorded
           /\ \A p \in PermReq : Watched(p) /\ Planned(p)

-----------------------------------------------------------------------------
(* Threads.                                                                *)

PermTypes == /\ perm \in [PermReq -> PermThread]
             /\ \A p \in PermReq : perm[p].pc # "idle" => perm[p].op \in PermOp

Others(p) == \A q \in PermReq \ {p} : perm'[q] = perm[q]

\* A thread goes on with its operation, in the same mode.
Goes(p, l) == /\ perm'[p].pc = l /\ perm'[p].op = perm[p].op /\ perm'[p].mode = perm[p].mode
              /\ Others(p)

LEMMA Labels ==
    /\ PermLabel = {"idle", "lock", "pending", "snapshot", "insert", "fresh", "conflict", "exec", "final",
                    "apply", "undone", "failed", "rexec", "rverify", "rdone", "unsure", "judge", "release"}
    /\ LockedLabel = PermLabel \ {"idle", "lock"}
    /\ RowLabel = {"fresh", "conflict", "exec", "final", "apply", "undone", "failed", "rexec", "rverify",
                   "rdone", "unsure", "judge"}
BY DEF PermLabel, LockedLabel, RowLabel

LEMMA OneThread ==
    ASSUME PermTypes, NEW p \in PermReq, NEW r \in PermThread, r.pc # "idle" => r.op \in PermOp,
           perm' = [perm EXCEPT ![p] = r]
    PROVE  PermTypes' /\ perm'[p] = r /\ Others(p)
BY DEF PermTypes, Others

LEMMA GotoFacts ==
    ASSUME PermTypes, NEW p \in PermReq, perm[p].pc # "idle", NEW l \in PermLabel, Goto(p, l)
    PROVE  PermTypes' /\ Goes(p, l) /\ perm'[p].revoke = perm[p].revoke /\ perm'[p].grant = perm[p].grant
<1> DEFINE r == [perm[p] EXCEPT !.pc = l]
<1>1. /\ r \in PermThread /\ r.op \in PermOp /\ r.pc = l /\ r.op = perm[p].op /\ r.mode = perm[p].mode
      /\ r.revoke = perm[p].revoke /\ r.grant = perm[p].grant
    BY DEF PermTypes, PermThread
<1>2. perm' = [perm EXCEPT ![p] = r] BY DEF Goto
<1> HIDE DEF r
<1> QED BY <1>1, <1>2, OneThread DEF Goes

LEMMA DeltaFacts ==
    ASSUME PermTypes, NEW p \in PermReq, perm[p].pc # "idle", NEW l \in PermLabel,
           NEW held \in SUBSET Priv, NEW target \in SUBSET Priv, GotoDelta(p, l, held, target)
    PROVE  PermTypes' /\ Goes(p, l) /\ perm'[p].revoke = held \ target /\ perm'[p].grant = target \ held
<1> DEFINE r == [perm[p] EXCEPT !.pc = l, !.revoke = held \ target, !.grant = target \ held]
<1>1. /\ r \in PermThread /\ r.op \in PermOp /\ r.pc = l /\ r.op = perm[p].op /\ r.mode = perm[p].mode
      /\ r.revoke = held \ target /\ r.grant = target \ held
    BY DEF PermTypes, PermThread
<1>2. perm' = [perm EXCEPT ![p] = r] BY DEF GotoDelta, PermTypes
<1> HIDE DEF r
<1> QED BY <1>1, <1>2, OneThread DEF Goes

\* One statement of the delta: on the account of the operation, and of the privileges left to do.
LEMMA DeltaStepFacts ==
    ASSUME PlatformTypeOK, PermTypes, NEW p \in PermReq, perm[p].pc \in {"exec", "rexec"},
           Acct(perm[p].op) \in Account, NEW l \in PermLabel, DeltaStep(p, l)
    PROVE  /\ PermTypes' /\ (Goes(p, l) \/ Goes(p, perm[p].pc))
           /\ perm'[p].revoke \subseteq perm[p].revoke /\ perm'[p].grant \subseteq perm[p].grant
           /\ \E s \in StatementType : /\ s.verb \in {"grant", "revoke"} /\ s.acct = Acct(perm[p].op)
                                       /\ s.privs \subseteq perm[p].revoke \cup perm[p].grant
                                       /\ s.privs # {}
                                       /\ Executes(s) \/ Fails(s)
<1>1. perm[p] \in PermThread BY DEF PermTypes
<1>2. PICK todo \in {"revoke", "grant"}, g \in perm[p].revoke \cup perm[p].grant :
         \/ /\ Executes(Statement(todo, Acct(perm[p].op), {g}))
            /\ perm' = [perm EXCEPT ![p].revoke = @ \ {g},
                                    ![p].grant = IF todo = "revoke" THEN @ ELSE @ \ {g}]
         \/ Fails(Statement(todo, Acct(perm[p].op), {g})) /\ Goto(p, l)
    BY DEF DeltaStep
<1> DEFINE s == Statement(todo, Acct(perm[p].op), {g})
<1>3. /\ s \in StatementType /\ s.verb \in {"grant", "revoke"} /\ s.acct = Acct(perm[p].op)
      /\ s.privs = {g}
    BY <1>1 DEF Statement, StatementType, PermThread
<1>4. \E x \in StatementType : /\ x.verb \in {"grant", "revoke"} /\ x.acct = Acct(perm[p].op)
                               /\ x.privs \subseteq perm[p].revoke \cup perm[p].grant
                               /\ x.privs # {}
                               /\ Executes(x) \/ Fails(x)
    <2> HIDE DEF s
    <2>1. Executes(s) \/ Fails(s) BY <1>2 DEF s
    <2> QED BY <1>3, <2>1
<1>5. CASE Goto(p, l) BY <1>4, <1>5, GotoFacts
<1>6. CASE perm' = [perm EXCEPT ![p].revoke = @ \ {g}, ![p].grant = IF todo = "revoke" THEN @ ELSE @ \ {g}]
    <2> DEFINE r == [perm[p] EXCEPT !.revoke = perm[p].revoke \ {g},
                                    !.grant = IF todo = "revoke" THEN perm[p].grant ELSE perm[p].grant \ {g}]
    <2>1. /\ r \in PermThread /\ r.op \in PermOp /\ r.pc = perm[p].pc /\ r.op = perm[p].op /\ r.mode = perm[p].mode
          /\ r.revoke \subseteq perm[p].revoke /\ r.grant \subseteq perm[p].grant
        BY <1>1 DEF PermTypes, PermThread
    <2>2. perm' = [perm EXCEPT ![p] = r] BY <1>6 DEF PermTypes
    <2> HIDE DEF r
    <2> QED BY <1>4, <2>1, <2>2, OneThread DEF Goes
<1> QED BY <1>2, <1>5, <1>6

LEMMA EndFacts ==
    ASSUME PermTypes, NEW p \in PermReq, End(p)
    PROVE  PermTypes' /\ perm'[p].pc = "idle" /\ Others(p)
<1>1. Idle \in PermThread /\ Idle.pc = "idle" BY Labels DEF Idle, PermThread, Mode
<1> QED BY <1>1, OneThread DEF End

LEMMA BeginFacts ==
    ASSUME PermTypes, NEW p \in PermReq, NEW o \in PermOp, NEW m \in Mode, Begin(p, o, m)
    PROVE  PermTypes' /\ perm[p].pc = "idle" /\ Others(p)
           /\ perm'[p].pc = "lock" /\ perm'[p].op = o /\ perm'[p].mode = m
<1> DEFINE r == [Idle EXCEPT !.pc = "lock", !.op = o, !.mode = m]
<1>1. r \in PermThread /\ r.pc = "lock" /\ r.op = o /\ r.mode = m BY Labels DEF Idle, PermThread
<1>2. perm' = [perm EXCEPT ![p] = r] /\ perm[p].pc = "idle" BY DEF Begin
<1> HIDE DEF r
<1> QED BY <1>1, <1>2, OneThread

-----------------------------------------------------------------------------
(* Rows.                                                                   *)

RowTypes == permOps \in [PermOp -> PermRow] /\ SettledFrees

\* The row of o changes its status only, or none does.
SameRow(o) == /\ permOps'[o].acct = permOps[o].acct /\ permOps'[o].mark = permOps[o].mark
              /\ permOps'[o].before = permOps[o].before /\ permOps'[o].after = permOps[o].after
OtherRows(o) == \A x \in PermOp \ {o} : permOps'[x] = permOps[x]

LEMMA OneRow ==
    ASSUME RowTypes, NEW o \in PermOp, NEW r \in PermRow,
           r.key => r.status \in {"applying", "uncertain"}, r.status = "applying" => r.key,
           permOps' = [permOps EXCEPT ![o] = r]
    PROVE  RowTypes' /\ permOps'[o] = r /\ OtherRows(o)
<1>1. permOps' \in [PermOp -> PermRow] BY DEF RowTypes
<1>2. permOps'[o] = r /\ OtherRows(o) BY DEF RowTypes, OtherRows
<1>3. SettledFrees' BY <1>2 DEF RowTypes, SettledFrees, OtherRows
<1> QED BY <1>1, <1>2, <1>3 DEF RowTypes

LEMMA CloseFacts ==
    ASSUME RowTypes, NEW p \in PermReq, perm[p].op \in PermOp,
           NEW st \in {"applied", "restored", "conflict"}, Close(p, st)
    PROVE  RowTypes' /\ permOps'[perm[p].op].status = st /\ SameRow(perm[p].op) /\ OtherRows(perm[p].op)
<1> DEFINE o == perm[p].op
           r == [permOps[o] EXCEPT !.status = st, !.key = FALSE, !.aged = FALSE]
<1>1. permOps[o] \in PermRow BY DEF RowTypes
<1>2. /\ r \in PermRow /\ r.status = st /\ r.key = FALSE /\ r.acct = permOps[o].acct
      /\ r.mark = permOps[o].mark /\ r.before = permOps[o].before /\ r.after = permOps[o].after
    BY <1>1 DEF PermRow
<1>3. permOps' = [permOps EXCEPT ![o] = r] BY DEF Close
<1> HIDE DEF r
<1> QED BY <1>2, <1>3, OneRow DEF SameRow

LEMMA UnsureFacts ==
    ASSUME RowTypes, NEW p \in PermReq, perm[p].op \in PermOp, Unsure(p)
    PROVE  /\ RowTypes' /\ permOps'[perm[p].op].status = "uncertain"
           /\ SameRow(perm[p].op) /\ OtherRows(perm[p].op)
<1> DEFINE o == perm[p].op
           r == [permOps[o] EXCEPT !.status = "uncertain", !.aged = FALSE]
<1>1. permOps[o] \in PermRow BY DEF RowTypes
<1>2. /\ r \in PermRow /\ r.status = "uncertain" /\ r.acct = permOps[o].acct
      /\ r.mark = permOps[o].mark /\ r.before = permOps[o].before /\ r.after = permOps[o].after
    BY <1>1 DEF PermRow
<1>3. permOps' = [permOps EXCEPT ![o] = r] BY DEF Unsure
<1> HIDE DEF r
<1> QED BY <1>2, <1>3, OneRow DEF SameRow

LEMMA AgeFacts ==
    ASSUME RowTypes, NEW o \in PermOp, Age(o)
    PROVE  RowTypes' /\ permOps'[o].status = permOps[o].status /\ SameRow(o) /\ OtherRows(o)
<1> DEFINE r == [permOps[o] EXCEPT !.aged = TRUE]
<1>1. permOps[o] \in PermRow BY DEF RowTypes
<1>2. /\ r \in PermRow /\ r.status = permOps[o].status /\ r.acct = permOps[o].acct
      /\ r.key = permOps[o].key
      /\ r.mark = permOps[o].mark /\ r.before = permOps[o].before /\ r.after = permOps[o].after
    BY <1>1 DEF PermRow
<1>3. permOps' = [permOps EXCEPT ![o] = r] BY DEF Age, RowTypes
<1>4. (r.key => r.status \in {"applying", "uncertain"}) /\ (r.status = "applying" => r.key)
    BY <1>2 DEF RowTypes, SettledFrees
<1> HIDE DEF r
<1> QED BY <1>2, <1>3, <1>4, OneRow DEF SameRow

\* The row an update inserts repeats its request.
LEMMA InsertFacts ==
    ASSUME RowTypes, edit \in [PermOp -> EditRow], NEW o \in PermOp,
           permOps' = [permOps EXCEPT ![o] =
                   [status |-> "applying", acct |-> Acct(o), key |-> TRUE,
                    before |-> edit[o].grants, after |-> edit[o].want,
                    mark |-> edit[o].mark, aged |-> FALSE]]
    PROVE  /\ RowTypes' /\ permOps'[o].status = "applying" /\ OtherRows(o)
           /\ permOps'[o].acct = edit[o].acct /\ permOps'[o].mark = edit[o].mark
           /\ permOps'[o].before = edit[o].grants /\ permOps'[o].after = edit[o].want
<1> DEFINE r == [status |-> "applying", acct |-> Acct(o), key |-> TRUE,
                 before |-> edit[o].grants, after |-> edit[o].want,
                 mark |-> edit[o].mark, aged |-> FALSE]
<1>1. edit[o] \in EditRow OBVIOUS
<1>2. r \in PermRow /\ r.acct = edit[o].acct BY <1>1 DEF PermRow, EditRow, Acct
<1>3. /\ r.status = "applying" /\ r.key = TRUE /\ r.mark = edit[o].mark
      /\ r.before = edit[o].grants /\ r.after = edit[o].want
    OBVIOUS
<1> HIDE DEF r
<1> QED BY <1>2, <1>3, OneRow DEF r

-----------------------------------------------------------------------------
(* Types.                                                                  *)

LEMMA PermInitInv == PermInit => PermInv
<1> SUFFICES ASSUME PermInit PROVE PermInv OBVIOUS
<1>1. PlatformTypeOK BY PlatformInitTypes DEF PermInit
<1>2. \A o \in PermOp : permOps[o].status = "absent" /\ permOps[o].key = FALSE
    BY DEF PermInit, PlatformInit, NoPerm
<1>3. AnyAccount \in Account BY PlatformAssumption DEF AnyAccount
<1>4. edit \in [PermOp -> EditRow] BY <1>3 DEF PermInit, EditRow
<1>5. perm \in [PermReq -> PermThread] /\ \A p \in PermReq : perm[p].pc = "idle"
    BY Labels DEF PermInit, Idle, PermThread, Mode
<1>6. PermTypeOK BY <1>1, <1>2, <1>4, <1>5 DEF PermTypeOK, SettledFrees
<1>7. EditLock /\ \A p \in PermReq : Watched(p) /\ Planned(p)
    BY <1>5, Labels DEF EditLock, Watched, Planned
<1>8. Recorded BY <1>2, <1>5, Labels DEF Recorded
<1> QED BY <1>6, <1>7, <1>8 DEF PermInv

LEMMA AcctType == ASSUME PermTypeOK, NEW o \in PermOp PROVE
    /\ Acct(o) \in Account /\ edit[o].grants \in SUBSET Priv /\ edit[o].want \in SUBSET Priv
    /\ edit[o].mark \in BOOLEAN
BY DEF PermTypeOK, EditRow, Acct

\* What a step of a thread does to the tables and to the server.
LEMMA StepTypes ==
    ASSUME PermTypeOK, NEW p \in PermReq,
           \/ \E o \in PermOp : Update(p, o) \/ \E m \in {"verify", "restore"} : Reconcile(p, o, m)
           \/ PermStep(p) \/ Die(p)
    PROVE  PermTypeOK'
<1>0. PlatformTypeOK /\ RowTypes /\ PermTypes /\ edit \in [PermOp -> EditRow]
    BY DEF PermTypeOK, PlatformTypeOK, RowTypes, PermTypes
<1>a. ASSUME PermTypes', UNCHANGED <<platformVars, edit>> PROVE PermTypeOK'
    BY <1>0, <1>a DEF PermTypeOK, PermTypes, SettledFrees, PlatformTypeOK, platformVars
<1>b. ASSUME PermTypes', RowTypes', UNCHANGED <<server, late, dba, advisory, touched, record, actionOps, edit>>
      PROVE  PermTypeOK'
    BY <1>0, <1>b DEF PermTypeOK, PermTypes, RowTypes, PlatformTypeOK
<1>c. ASSUME PermTypes', server' \in [Account -> ServerRow], late' \in SUBSET StatementType,
             UNCHANGED <<dba, advisory, touched, record, actionOps, permOps, edit>>
      PROVE  PermTypeOK'
    BY <1>0, <1>c DEF PermTypeOK, PermTypes, SettledFrees, PlatformTypeOK, StatementType
<1>d. ASSUME PermTypes', advisory' \in [Account -> Thread \cup {NoOne}], touched' \in SUBSET Account,
             UNCHANGED <<server, late, dba, record, actionOps, permOps, edit>>
      PROVE  PermTypeOK'
    BY <1>0, <1>d DEF PermTypeOK, PermTypes, SettledFrees, PlatformTypeOK
<1>1. ASSUME NEW o \in PermOp, Update(p, o) \/ \E m \in {"verify", "restore"} : Reconcile(p, o, m) PROVE PermTypeOK'
    BY <1>0, <1>1, <1>a, BeginFacts DEF Update, Reconcile, Mode
<1>o. perm[p].pc # "idle" => perm[p].op \in PermOp /\ Acct(perm[p].op) \in Account
    BY <1>0, AcctType DEF PermTypes
<1>2. CASE Lock(p)
    <2>1. PermTypes' BY <1>0, <1>2, GotoFacts, Labels DEF Lock
    <2>2. advisory' \in [Account -> Thread \cup {NoOne}] /\ touched' \in SUBSET Account
        BY <1>0, <1>2, <1>o, LockTypes, PermAssumption DEF Lock
    <2> QED BY <1>2, <1>d, <2>1, <2>2 DEF Lock
<1>3. CASE LockBusy(p)
    BY <1>0, <1>3, <1>a, EndFacts DEF LockBusy
<1>4. CASE Pending(p) \/ Fresh(p) \/ Final(p) \/ RestoreVerify(p) \/ Judge(p)
    <2>1. \E l \in PermLabel : Goto(p, l) /\ perm[p].pc # "idle"
        BY <1>4, Labels DEF Pending, Fresh, Final, RestoreVerify, Judge, OnError, OnRestoreError
    <2>2. UNCHANGED <<platformVars, edit>> BY <1>4 DEF Pending, Fresh, Final, RestoreVerify, Judge
    <2> QED BY <1>0, <1>a, <2>1, <2>2, GotoFacts
<1>5. CASE Snapshot(p)
    <2>1. CASE Goto(p, "release") BY <1>0, <1>5, <1>a, <2>1, GotoFacts, Labels DEF Snapshot
    <2>2. CASE GotoDelta(p, "insert", edit[perm[p].op].grants, edit[perm[p].op].want)
        BY <1>0, <1>5, <1>a, <1>o, <2>2, DeltaFacts, AcctType, Labels DEF Snapshot
    <2> QED BY <1>5, <2>1, <2>2 DEF Snapshot
<1>6. CASE Failed(p)
    <2>1. CASE Goto(p, OnRestoreError(p)) BY <1>0, <1>6, <1>a, <2>1, GotoFacts, Labels DEF Failed, OnRestoreError
    <2>2. CASE GotoDelta(p, "rexec", Remote(p).grants, Row(p).before)
        <3>1. perm[p].op \in PermOp /\ perm[p].pc # "idle" BY <1>6, <1>o DEF Failed
        <3>2. Remote(p).grants \in SUBSET Priv /\ Row(p).before \in SUBSET Priv
            BY <1>0, <1>o, <3>1 DEF Remote, Row, PlatformTypeOK, ServerRow, PermRow
        <3> QED BY <1>0, <1>6, <1>a, <2>2, <3>1, <3>2, DeltaFacts, Labels DEF Failed
    <2> QED BY <1>6, <2>1, <2>2 DEF Failed
<1>7. CASE Insert(p)
    <2>1. PermTypes' BY <1>0, <1>7, GotoFacts, Labels DEF Insert
    <2>2. RowTypes'
        <3>1. CASE permOps' = permOps BY <1>0, <3>1 DEF RowTypes, SettledFrees
        <3>2. CASE permOps' # permOps BY <1>0, <1>7, <1>o, <3>2, InsertFacts DEF Insert
        <3> QED BY <3>1, <3>2
    <2> QED BY <1>7, <1>b, <2>1, <2>2 DEF Insert
<1>8. CASE Conflict(p) \/ Applied(p) \/ Restored(p) \/ Unsure(p)
    <2>1. \E l \in PermLabel : Goto(p, l) /\ perm[p].pc # "idle"
        BY <1>8, Labels DEF Conflict, Applied, Restored, Unsure, OnError
    <2>2. RowTypes'
        <3>1. CASE permOps' = permOps BY <1>0, <3>1 DEF RowTypes, SettledFrees
        <3>2. CASE \E st \in {"applied", "restored", "conflict"} : Close(p, st)
            BY <1>0, <1>o, <2>1, <3>2, CloseFacts
        <3>3. CASE Unsure(p) BY <1>0, <1>o, <2>1, <3>3, UnsureFacts
        <3> QED BY <1>8, <3>1, <3>2, <3>3 DEF Conflict, Applied, Restored
    <2>3. UNCHANGED <<server, late, dba, advisory, touched, record, actionOps, edit>>
        BY <1>8 DEF Conflict, Applied, Restored, Unsure
    <2> QED BY <1>0, <1>b, <2>1, <2>2, <2>3, GotoFacts
<1>9. CASE Exec(p) \/ RestoreExec(p)
    <2>1. perm[p].pc \in {"exec", "rexec"} BY <1>9 DEF Exec, RestoreExec
    <2>2. UNCHANGED <<dba, advisory, touched, record, actionOps, permOps, edit>> BY <1>9 DEF Exec, RestoreExec
    <2>3. CASE \E l \in PermLabel : Goto(p, l) /\ UNCHANGED <<server, late>>
        <3>1. server \in [Account -> ServerRow] /\ late \in SUBSET StatementType
            BY <1>0 DEF PlatformTypeOK, StatementType
        <3> QED BY <1>0, <1>c, <2>1, <2>2, <2>3, <3>1, GotoFacts
    <2>4. ASSUME NEW l \in PermLabel, DeltaStep(p, l) PROVE PermTypeOK'
        <3>1. /\ PermTypes'
              /\ \E s \in StatementType : Executes(s) \/ Fails(s)
            BY <1>0, <1>o, <2>1, <2>4, DeltaStepFacts
        <3> QED BY <1>0, <1>c, <2>2, <3>1, StatementTypes
    <2> QED BY <1>9, <2>3, <2>4, Labels DEF Exec, RestoreExec, OnRestoreError
<1>10. CASE Release(p) \/ Die(p)
    <2>1. PermTypes' BY <1>0, <1>10, EndFacts DEF Release, Die
    <2>2. advisory' \in [Account -> Thread \cup {NoOne}] /\ touched' \in SUBSET Account
        BY <1>0, <1>10, LockTypes, PermAssumption DEF Release, Die
    <2> QED BY <1>10, <1>d, <2>1, <2>2 DEF Release, Die
<1> QED BY <1>1, <1>2, <1>3, <1>4, <1>5, <1>6, <1>7, <1>8, <1>9, <1>10 DEF PermStep

\* A request is recorded, a row ages, or something happens outside.
LEMMA RestTypes ==
    ASSUME PermTypeOK,
           \/ \E o \in PermOp, a \in Account, w \in SUBSET Priv, s \in Spellings : Submit(o, a, w, s)
           \/ \E o \in PermOp : Age(o)
           \/ Outside /\ UNCHANGED <<edit, perm>>
           \/ UNCHANGED permVars
    PROVE  PermTypeOK'
<1>0. PlatformTypeOK /\ RowTypes /\ edit \in [PermOp -> EditRow]
    BY DEF PermTypeOK, PlatformTypeOK, RowTypes
<1>1. ASSUME NEW o \in PermOp, NEW a \in Account, NEW w \in SUBSET Priv, NEW s \in Spellings, Submit(o, a, w, s)
      PROVE  PermTypeOK'
    <2>1. server[a] \in ServerRow BY <1>0 DEF PlatformTypeOK
    <2>2. [acct |-> a, mark |-> server[a].mark, grants |-> server[a].grants, want |-> w,
           plain |-> s, made |-> TRUE] \in EditRow
        BY <2>1, PermAssumption DEF EditRow, ServerRow
    <2>3. edit' \in [PermOp -> EditRow] BY <1>0, <1>1, <2>2 DEF Submit
    <2> QED BY <1>1, <2>3 DEF Submit, PermTypeOK, SettledFrees, PlatformTypeOK, platformVars
<1>2. ASSUME NEW o \in PermOp, Age(o) PROVE PermTypeOK'
    <2>1. RowTypes' BY <1>0, <1>2, AgeFacts
    <2> QED BY <1>2, <2>1 DEF Age, PermTypeOK, RowTypes, PlatformTypeOK
<1>3. CASE Outside /\ UNCHANGED <<edit, perm>>
    <2>1. PlatformTypeOK' BY <1>0, <1>3, OutsideType
    <2>2. permOps' = permOps BY <1>3 DEF Outside, Land, Settle, Dba
    <2> QED BY <1>3, <2>1, <2>2 DEF PermTypeOK, SettledFrees
<1>4. CASE UNCHANGED permVars
    BY <1>4 DEF permVars, PermTypeOK, SettledFrees, PlatformTypeOK
<1> QED BY <1>1, <1>2, <1>3, <1>4

-----------------------------------------------------------------------------
(* The lock and the rows.                                                  *)

ThreadStep(p) ==
    \/ \E o \in PermOp : Update(p, o) \/ \E m \in {"verify", "restore"} : Reconcile(p, o, m)
    \/ PermStep(p) \/ Die(p)

\* Seen from the lock, a step of a thread moves on inside its section, moves on
\* outside, leaves, or enters.
Inside(p) == /\ perm[p].pc \in LockedLabel /\ perm'[p].pc \in LockedLabel
             /\ perm'[p].op = perm[p].op /\ UNCHANGED <<advisory, touched>>
AtDoor(p) == perm[p].pc \notin LockedLabel /\ perm'[p].pc \notin LockedLabel /\ UNCHANGED <<advisory, touched>>
Leaves(p) == perm'[p].pc \notin LockedLabel /\ DropLocks(p)
Enters(p) == /\ perm[p].pc = "lock" /\ perm'[p].pc \in {"pending", "judge"} /\ perm'[p].op = perm[p].op
             /\ TakeLock(p, Acct(perm[p].op))

LEMMA Moves ==
    ASSUME PermTypeOK, NEW p \in PermReq, ThreadStep(p)
    PROVE  /\ Others(p) /\ edit' = edit
           /\ Inside(p) \/ AtDoor(p) \/ Leaves(p) \/ Enters(p)
<1>0. PlatformTypeOK /\ PermTypes BY DEF PermTypeOK, PermTypes
<1>o. perm[p].pc # "idle" => perm[p].op \in PermOp /\ Acct(perm[p].op) \in Account
    BY <1>0, AcctType DEF PermTypes
<1>1. ASSUME NEW o \in PermOp, Update(p, o) \/ \E m \in {"verify", "restore"} : Reconcile(p, o, m)
      PROVE  Others(p) /\ edit' = edit /\ AtDoor(p)
    BY <1>0, <1>1, BeginFacts, Labels DEF Update, Reconcile, Mode, AtDoor, platformVars
<1>2. CASE Lock(p)
    BY <1>0, <1>2, GotoFacts, Labels DEF Lock, Enters, Goes
<1>3. CASE LockBusy(p)
    BY <1>0, <1>3, EndFacts, Labels DEF LockBusy, AtDoor, platformVars
<1>4. CASE Release(p) \/ Die(p)
    BY <1>0, <1>4, EndFacts, Labels DEF Release, Die, Leaves
<1>5. ASSUME perm[p].pc \in LockedLabel, NEW l \in LockedLabel, Goes(p, l),
             UNCHANGED <<advisory, touched, edit>>
      PROVE  Others(p) /\ edit' = edit /\ Inside(p)
    BY <1>5 DEF Goes, Inside
<1>6. CASE Pending(p) \/ Fresh(p) \/ Final(p) \/ RestoreVerify(p) \/ Judge(p) \/ Insert(p)
           \/ Conflict(p) \/ Applied(p) \/ Restored(p) \/ Unsure(p)
    <2>1. /\ perm[p].pc \in LockedLabel /\ perm[p].pc # "idle" /\ \E l \in LockedLabel : Goto(p, l)
          /\ UNCHANGED <<advisory, touched, edit>>
        BY <1>6, Labels DEF Pending, Fresh, Final, RestoreVerify, Judge, Insert, Conflict, Applied, Restored,
                            Unsure, OnError, OnRestoreError, platformVars
    <2> QED BY <1>0, <1>5, <2>1, GotoFacts, Labels
<1>7. CASE Snapshot(p) \/ Failed(p)
    <2>1. perm[p].pc \in LockedLabel /\ perm[p].pc # "idle" /\ UNCHANGED <<advisory, touched, edit>>
        BY <1>7, Labels DEF Snapshot, Failed, platformVars
    <2>2. CASE \E l \in LockedLabel : Goto(p, l)
        BY <1>0, <1>5, <2>1, <2>2, GotoFacts, Labels
    <2>3. CASE \E l \in LockedLabel, x, y \in SUBSET Priv : GotoDelta(p, l, x, y)
        BY <1>0, <1>5, <2>1, <2>3, DeltaFacts, Labels
    <2>4. /\ edit[perm[p].op].grants \in SUBSET Priv /\ edit[perm[p].op].want \in SUBSET Priv
          /\ Remote(p).grants \in SUBSET Priv /\ Row(p).before \in SUBSET Priv
        BY <1>0, <1>o, <2>1, AcctType DEF Remote, Row, PlatformTypeOK, ServerRow, PermRow
    <2>5. \/ \E l \in LockedLabel : Goto(p, l)
          \/ \E l \in LockedLabel, x, y \in SUBSET Priv : GotoDelta(p, l, x, y)
        BY <1>7, <2>4, Labels DEF Snapshot, Failed, OnRestoreError
    <2> QED BY <2>2, <2>3, <2>5
<1>8. CASE Exec(p) \/ RestoreExec(p)
    <2>1. perm[p].pc \in {"exec", "rexec"} /\ UNCHANGED <<advisory, touched, edit>> BY <1>8 DEF Exec, RestoreExec
    <2>2. CASE \E l \in LockedLabel : Goto(p, l)
        BY <1>0, <1>5, <2>1, <2>2, GotoFacts, Labels
    <2>3. ASSUME NEW l \in LockedLabel, DeltaStep(p, l) PROVE Others(p) /\ edit' = edit /\ Inside(p)
        <3>1. Goes(p, l) \/ Goes(p, perm[p].pc) BY <1>0, <1>o, <2>1, <2>3, DeltaStepFacts, Labels
        <3> QED BY <1>5, <2>1, <3>1, Labels
    <2> QED BY <1>8, <2>2, <2>3, Labels DEF Exec, RestoreExec, OnRestoreError
<1> QED BY <1>1, <1>2, <1>3, <1>4, <1>6, <1>7, <1>8 DEF ThreadStep, PermStep

\* Another thread in its section is on another account.
LEMMA Apart ==
    ASSUME PermInv, NEW p \in PermReq, NEW q \in PermReq, p # q,
           perm[p].pc \in LockedLabel, perm[q].pc \in LockedLabel
    PROVE  /\ perm[p].op \in PermOp /\ perm[q].op \in PermOp
           /\ perm[p].op # perm[q].op /\ Acct(perm[p].op) # Acct(perm[q].op)
BY Labels DEF PermInv, EditLock, PermTypeOK

LEMMA StepLock ==
    ASSUME PermInv, NEW p \in PermReq, ThreadStep(p)
    PROVE  EditLock'
<1> SUFFICES ASSUME NEW q \in PermReq, perm'[q].pc \in LockedLabel PROVE advisory'[Acct(perm'[q].op)] = q
    BY Moves DEF PermInv, EditLock, Acct
<1>1. PermTypeOK BY DEF PermInv
<1>2. Others(p) BY <1>1, Moves
<1>3. perm[q].pc \in LockedLabel =>
         perm[q].op \in PermOp /\ Acct(perm[q].op) \in Account /\ advisory[Acct(perm[q].op)] = q
    BY <1>1, AcctType, Labels DEF PermInv, EditLock, PermTypeOK
<1>4. q \in Thread /\ p \in Thread BY PermAssumption
<1>5. CASE Inside(p)
    BY <1>2, <1>3, <1>5 DEF Inside, Others
<1>6. CASE AtDoor(p)
    BY <1>2, <1>3, <1>6 DEF AtDoor, Others
<1>7. CASE Leaves(p)
    <2>1. q # p /\ perm'[q] = perm[q] BY <1>2, <1>7 DEF Leaves, Others
    <2> QED BY <1>3, <1>7, <2>1 DEF Leaves, DropLocks
<1>8. CASE Enters(p)
    <2>1. advisory \in [Account -> Thread \cup {NoOne}] BY <1>1 DEF PermTypeOK, PlatformTypeOK
    <2>2. Acct(perm[p].op) \in Account BY <1>1, <1>8, AcctType DEF Enters, PermTypeOK
    <2>3. CASE q = p BY <1>8, <2>1, <2>2, <2>3 DEF Enters, TakeLock
    <2>4. CASE q # p
        <3>1. perm'[q] = perm[q] BY <1>2, <2>4 DEF Others
        <3>2. Acct(perm[q].op) # Acct(perm[p].op)
            BY <1>3, <1>4, <1>8, <3>1, PlatformAssumption DEF Enters, TakeLock
        <3> QED BY <1>3, <1>8, <2>1, <3>1, <3>2 DEF Enters, TakeLock
    <2> QED BY <2>3, <2>4
<1> QED BY <1>1, <1>5, <1>6, <1>7, <1>8, Moves

\* A thread writes the row of its own operation: it inserts it, or changes its
\* status while it is in its section.
LEMMA Writes ==
    ASSUME PermInv, NEW p \in PermReq, ThreadStep(p)
    PROVE  \/ permOps' = permOps
           \/ /\ perm[p].pc \in RowLabel /\ perm'[p].pc \notin {"insert", "fresh", "undone", "rdone"}
              /\ permOps'[perm[p].op].status # "absent" /\ SameRow(perm[p].op) /\ OtherRows(perm[p].op)
              /\ permOps'[perm[p].op].status = "applied" => perm[p].pc = "apply"
              /\ permOps'[perm[p].op].status = "restored" => perm[p].pc \in {"undone", "rdone"}
           \/ /\ perm[p].pc = "insert" /\ permOps[perm[p].op].status = "absent"
              /\ permOps'[perm[p].op].status = "applying" /\ OtherRows(perm[p].op)
              /\ permOps'[perm[p].op].acct = edit[perm[p].op].acct
              /\ permOps'[perm[p].op].mark = edit[perm[p].op].mark
              /\ permOps'[perm[p].op].before = edit[perm[p].op].grants
              /\ permOps'[perm[p].op].after = edit[perm[p].op].want
<1>0. PermTypes /\ RowTypes /\ edit \in [PermOp -> EditRow]
    BY DEF PermInv, PermTypeOK, PlatformTypeOK, RowTypes, PermTypes
<1>o. perm[p].pc # "idle" => perm[p].op \in PermOp BY <1>0 DEF PermTypes
<1>1. CASE Insert(p)
    BY <1>0, <1>1, <1>o, InsertFacts DEF Insert, Row
<1>2. CASE Unsure(p)
    <2>1. perm[p].op \in PermOp BY <1>2, <1>o DEF Unsure
    <2>2. perm'[p].pc = "release" BY <1>0, <1>2, GotoFacts, Labels DEF Unsure, Goes
    <2> QED BY <1>0, <1>2, <2>1, <2>2, UnsureFacts, Labels DEF Unsure
<1>3. ASSUME NEW st \in {"applied", "restored", "conflict"}, Close(p, st), Goto(p, "release"),
             perm[p].pc \in RowLabel, st = "applied" => perm[p].pc = "apply",
             st = "restored" => perm[p].pc \in {"undone", "rdone"}
      PROVE  /\ perm[p].pc \in RowLabel /\ perm'[p].pc \notin {"insert", "fresh", "undone", "rdone"}
             /\ permOps'[perm[p].op].status # "absent" /\ SameRow(perm[p].op) /\ OtherRows(perm[p].op)
             /\ permOps'[perm[p].op].status = "applied" => perm[p].pc = "apply"
             /\ permOps'[perm[p].op].status = "restored" => perm[p].pc \in {"undone", "rdone"}
    <2>1. perm[p].op \in PermOp BY <1>3, <1>o, Labels
    <2>2. perm'[p].pc = "release" BY <1>0, <1>3, GotoFacts, Labels DEF Goes
    <2> QED BY <1>0, <1>3, <2>1, <2>2, CloseFacts
<1>4. CASE Conflict(p) \/ Applied(p) \/ Restored(p)
    <2>1. CASE permOps' = permOps BY <2>1
    <2>2. CASE permOps' # permOps
        <3>1. \E st \in {"applied", "restored", "conflict"} :
                 /\ Close(p, st) /\ Goto(p, "release") /\ perm[p].pc \in RowLabel
                 /\ (st = "applied" => perm[p].pc = "apply")
                 /\ (st = "restored" => perm[p].pc \in {"undone", "rdone"})
            BY <1>4, <2>2, Labels DEF Conflict, Applied, Restored
        <3> QED BY <1>3, <3>1
    <2> QED BY <2>1, <2>2
<1>5. CASE ~(Insert(p) \/ Unsure(p) \/ Conflict(p) \/ Applied(p) \/ Restored(p))
    BY <1>5 DEF ThreadStep, PermStep, Update, Reconcile, Lock, LockBusy, Pending, Snapshot, Fresh, Exec, Final,
                Failed, RestoreExec, RestoreVerify, Judge, Release, Die, platformVars
<1> QED BY <1>1, <1>2, <1>4, <1>5

\* Where a thread can be after a step.
Begins(p) == /\ perm'[p].pc = "lock" /\ perm'[p].op \in PermOp /\ edit[perm'[p].op].made
             /\ perm'[p].mode # "update" => permOps[perm'[p].op].status # "absent"
GoesOn(p) == /\ perm[p].pc # "idle" /\ perm'[p].pc # "lock"
             /\ perm'[p].op = perm[p].op /\ perm'[p].mode = perm[p].mode
             /\ perm'[p].pc \in RowLabel =>
                  \/ perm[p].pc \in RowLabel
                  \/ perm[p].pc = "lock" /\ perm[p].mode # "update"
                  \/ perm[p].pc = "insert" /\ permOps'[perm[p].op].status # "absent"

LEMMA Path ==
    ASSUME PermInv, NEW p \in PermReq, ThreadStep(p)
    PROVE  perm'[p].pc = "idle" \/ Begins(p) \/ GoesOn(p)
<1>0. PermTypeOK /\ PlatformTypeOK /\ PermTypes /\ RowTypes /\ edit \in [PermOp -> EditRow]
    BY DEF PermInv, PermTypeOK, PermTypes, RowTypes, PlatformTypeOK
<1>o. perm[p].pc # "idle" => perm[p].op \in PermOp /\ Acct(perm[p].op) \in Account
    BY <1>0, AcctType DEF PermTypes
<1>1. ASSUME NEW o \in PermOp, Update(p, o) \/ \E m \in {"verify", "restore"} : Reconcile(p, o, m)
      PROVE  Begins(p)
    <2>1. CASE Update(p, o)
        BY <1>0, <2>1, BeginFacts DEF Update, Mode, Begins
    <2>2. ASSUME NEW m \in {"verify", "restore"}, Reconcile(p, o, m) PROVE Begins(p)
        <3>1. permOps[o].status # "absent" /\ edit[o].made BY <2>2 DEF Reconcile, PermInv, Recorded
        <3> QED BY <1>0, <2>2, <3>1, BeginFacts DEF Reconcile, Mode, Begins
    <2> QED BY <1>1, <2>1, <2>2
<1>2. CASE LockBusy(p) \/ Release(p) \/ Die(p)
    BY <1>0, <1>2, EndFacts DEF LockBusy, Release, Die
<1>3. ASSUME perm[p].pc # "idle", NEW l \in PermLabel, Goes(p, l), l # "lock",
             l \in RowLabel =>
                  \/ perm[p].pc \in RowLabel
                  \/ perm[p].pc = "lock" /\ perm[p].mode # "update"
                  \/ perm[p].pc = "insert" /\ permOps'[perm[p].op].status # "absent"
      PROVE  GoesOn(p)
    BY <1>3 DEF Goes, GoesOn
<1>4. CASE Lock(p)
    <2>1. PICK l \in {"pending", "judge"} : Goto(p, l) /\ (l = "judge" => perm[p].mode # "update")
        BY <1>4 DEF Lock
    <2>2. Goes(p, l) BY <1>0, <1>4, <2>1, GotoFacts, Labels DEF Lock
    <2> QED BY <1>3, <1>4, <2>1, <2>2, Labels DEF Lock
<1>5. CASE Pending(p)
    <2>1. PICK l \in {"release", "snapshot"} : Goto(p, l) BY <1>5 DEF Pending
    <2>2. Goes(p, l) BY <1>0, <1>5, <2>1, GotoFacts, Labels DEF Pending
    <2> QED BY <1>3, <1>5, <2>1, <2>2, Labels DEF Pending
<1>6. CASE Snapshot(p)
    <2>1. CASE Goto(p, "release")
        <3>1. Goes(p, "release") BY <1>0, <1>6, <2>1, GotoFacts, Labels DEF Snapshot
        <3> QED BY <1>3, <1>6, <3>1, Labels DEF Snapshot
    <2>2. CASE GotoDelta(p, "insert", edit[perm[p].op].grants, edit[perm[p].op].want)
        <3>1. Goes(p, "insert") BY <1>0, <1>6, <1>o, <2>2, DeltaFacts, AcctType, Labels DEF Snapshot
        <3> QED BY <1>3, <1>6, <3>1, Labels DEF Snapshot
    <2> QED BY <1>6, <2>1, <2>2 DEF Snapshot
<1>7. CASE Insert(p)
    <2>1. PICK l \in {"release", "fresh"} : Goto(p, l) /\ (l = "fresh" => permOps' # permOps)
        <3>1. CASE permOps' = permOps /\ Goto(p, "release") BY <3>1
        <3>2. CASE permOps' # permOps BY <1>7, <3>2 DEF Insert
        <3>3. ASSUME Goto(p, "fresh"), permOps' = [permOps EXCEPT ![perm[p].op] =
                   [status |-> "applying", acct |-> Acct(perm[p].op), key |-> TRUE,
                    before |-> edit[perm[p].op].grants, after |-> edit[perm[p].op].want,
                    mark |-> edit[perm[p].op].mark, aged |-> FALSE]], permOps[perm[p].op].status = "absent"
              PROVE  permOps' # permOps
            BY <1>0, <1>7, <1>o, <3>3 DEF RowTypes, Insert
        <3> QED BY <1>7, <3>1, <3>2, <3>3 DEF Insert, Row
    <2>2. Goes(p, l) BY <1>0, <1>7, <2>1, GotoFacts, Labels DEF Insert
    <2>3. l = "fresh" => permOps'[perm[p].op].status # "absent" BY <1>7, <2>1, Writes, Labels DEF ThreadStep, PermStep
    <2> QED BY <1>3, <1>7, <2>1, <2>2, <2>3, Labels DEF Insert
<1>8. CASE Fresh(p) \/ Final(p) \/ RestoreVerify(p) \/ Judge(p) \/ Conflict(p) \/ Applied(p) \/ Restored(p)
           \/ Unsure(p)
    <2>1. perm[p].pc \in RowLabel /\ \E l \in PermLabel : Goto(p, l) /\ l # "lock"
        BY <1>8, Labels DEF Fresh, Final, RestoreVerify, Judge, Conflict, Applied, Restored, Unsure, OnError,
                            OnRestoreError
    <2> QED BY <1>0, <1>3, <2>1, GotoFacts, Labels
<1>9. CASE Failed(p)
    <2>1. CASE Goto(p, OnRestoreError(p))
        BY <1>0, <1>3, <1>9, <2>1, GotoFacts, Labels DEF Failed, OnRestoreError
    <2>2. CASE GotoDelta(p, "rexec", Remote(p).grants, Row(p).before)
        <3>1. perm[p].op \in PermOp /\ perm[p].pc # "idle" /\ perm[p].pc \in RowLabel
            BY <1>9, <1>o, Labels DEF Failed
        <3>2. Remote(p).grants \in SUBSET Priv /\ Row(p).before \in SUBSET Priv
            BY <1>0, <1>o, <3>1 DEF Remote, Row, PlatformTypeOK, ServerRow, PermRow
        <3>3. Goes(p, "rexec") BY <1>0, <2>2, <3>1, <3>2, DeltaFacts, Labels
        <3> QED BY <1>3, <3>1, <3>3, Labels
    <2> QED BY <1>9, <2>1, <2>2 DEF Failed
<1>10. CASE Exec(p) \/ RestoreExec(p)
    <2>1. perm[p].pc \in {"exec", "rexec"} BY <1>10 DEF Exec, RestoreExec
    <2>2. ASSUME NEW l \in PermLabel \ {"lock"}, Goto(p, l) \/ DeltaStep(p, l) PROVE GoesOn(p)
        <3>1. Goes(p, l) \/ Goes(p, perm[p].pc)
            BY <1>0, <1>o, <2>1, <2>2, GotoFacts, DeltaStepFacts
        <3> QED BY <1>3, <2>1, <3>1, Labels
    <2> QED BY <1>10, <2>2, Labels DEF Exec, RestoreExec, OnRestoreError
<1> QED BY <1>1, <1>2, <1>4, <1>5, <1>6, <1>7, <1>8, <1>9, <1>10 DEF ThreadStep, PermStep

LEMMA StepRecorded ==
    ASSUME PermInv, NEW p \in PermReq, ThreadStep(p)
    PROVE  Recorded'
<1>0. PermTypeOK /\ Recorded BY DEF PermInv
<1>1. Others(p) /\ edit' = edit BY <1>0, Moves
<1>2. perm'[p].pc = "idle" \/ Begins(p) \/ GoesOn(p) BY Path
<1>3. ASSUME NEW q \in PermReq, perm'[q].pc # "idle" PROVE edit'[perm'[q].op].made
    <2>1. CASE q # p BY <1>0, <1>1, <1>3, <2>1 DEF Others, Recorded
    <2>2. CASE q = p BY <1>0, <1>1, <1>2, <1>3, <2>2 DEF Begins, GoesOn, Recorded
    <2> QED BY <2>1, <2>2
<1>4. perm[p].pc # "idle" => perm[p].op \in PermOp BY <1>0 DEF PermTypeOK
<1>5. ASSUME NEW o \in PermOp
      PROVE  /\ permOps[o].status # "absent" => permOps'[o].status # "absent"
             /\ permOps'[o].status # "absent" =>
                  /\ edit[o].made
                  /\ permOps'[o].acct = edit[o].acct /\ permOps'[o].mark = edit[o].mark
                  /\ permOps'[o].before = edit[o].grants /\ permOps'[o].after = edit[o].want
    <2>1. CASE permOps' = permOps BY <1>0, <2>1 DEF Recorded
    <2>2. CASE /\ perm[p].pc \in RowLabel
               /\ permOps'[perm[p].op].status # "absent" /\ SameRow(perm[p].op) /\ OtherRows(perm[p].op)
        <3>0. permOps[perm[p].op].status # "absent" BY <1>0, <2>2 DEF Recorded, Row
        <3>1. CASE o = perm[p].op
            <4>1. /\ edit[o].made /\ permOps[o].acct = edit[o].acct /\ permOps[o].mark = edit[o].mark
                  /\ permOps[o].before = edit[o].grants /\ permOps[o].after = edit[o].want
                BY <1>0, <3>0, <3>1 DEF Recorded
            <4> QED BY <2>2, <3>1, <4>1 DEF SameRow
        <3>2. CASE o # perm[p].op BY <1>0, <2>2, <3>2 DEF Recorded, OtherRows
        <3> QED BY <3>1, <3>2
    <2>3. CASE /\ perm[p].pc = "insert" /\ permOps[perm[p].op].status = "absent"
               /\ permOps'[perm[p].op].status = "applying" /\ OtherRows(perm[p].op)
               /\ permOps'[perm[p].op].acct = edit[perm[p].op].acct
               /\ permOps'[perm[p].op].mark = edit[perm[p].op].mark
               /\ permOps'[perm[p].op].before = edit[perm[p].op].grants
               /\ permOps'[perm[p].op].after = edit[perm[p].op].want
        <3>1. CASE o = perm[p].op BY <1>0, <2>3, <3>1 DEF Recorded
        <3>2. CASE o # perm[p].op BY <1>0, <2>3, <3>2 DEF Recorded, OtherRows
        <3> QED BY <3>1, <3>2
    <2> QED BY <2>1, <2>2, <2>3, Writes
<1>6. ASSUME NEW q \in PermReq, perm'[q].pc \in RowLabel \/ (perm'[q].pc = "lock" /\ perm'[q].mode # "update")
      PROVE  permOps'[perm'[q].op].status # "absent"
    <2>1. CASE q # p
        <3>1. perm'[q] = perm[q] /\ perm[q].op \in PermOp /\ permOps[perm[q].op].status # "absent"
            BY <1>0, <1>1, <1>6, <2>1, Labels DEF Others, Recorded, PermTypeOK, Row
        <3> QED BY <1>5, <3>1
    <2>2. CASE q = p /\ Begins(p)
        BY <1>5, <1>6, <2>2, Labels DEF Begins
    <2>3. CASE q = p /\ GoesOn(p)
        <3>1. CASE perm[p].pc = "insert" /\ permOps'[perm[p].op].status # "absent"
            BY <2>3, <3>1 DEF GoesOn
        <3>2. CASE perm[p].pc \in RowLabel \/ (perm[p].pc = "lock" /\ perm[p].mode # "update")
            <4>1. permOps[perm[p].op].status # "absent" BY <1>0, <3>2 DEF Recorded, Row
            <4> QED BY <1>4, <1>5, <2>3, <4>1 DEF GoesOn
        <3> QED BY <1>6, <2>3, <3>1, <3>2 DEF GoesOn
    <2>4. perm'[q].pc # "idle" BY <1>6, Labels
    <2> QED BY <1>2, <2>1, <2>2, <2>3, <2>4
<1> QED BY <1>1, <1>3, <1>5, <1>6 DEF Recorded, Row

-----------------------------------------------------------------------------
(* What is left to do, and what was seen.                                  *)

\* The row of whoever judges it repeats the request.
LEMMA RowIsEdit ==
    ASSUME PermInv, NEW p \in PermReq, perm[p].pc \in RowLabel
    PROVE  /\ perm[p].op \in PermOp /\ Row(p).acct = edit[perm[p].op].acct
           /\ Row(p).mark = edit[perm[p].op].mark /\ Row(p).before = edit[perm[p].op].grants
           /\ Row(p).after = edit[perm[p].op].want
BY Labels DEF PermInv, PermTypeOK, Recorded, Row

LEMMA OwnPlanned ==
    ASSUME PermInv, NEW p \in PermReq, ThreadStep(p)
    PROVE  Planned(p)'
<1>0. PermTypeOK /\ PlatformTypeOK /\ PermTypes /\ Planned(p) /\ edit' = edit
    BY Moves DEF PermInv, PermTypeOK, PermTypes
<1>o. perm[p].pc # "idle" => perm[p].op \in PermOp /\ Acct(perm[p].op) \in Account
    BY <1>0, AcctType DEF PermTypes
<1>1. ASSUME perm'[p].pc \notin {"insert", "fresh", "exec", "rexec"} PROVE Planned(p)'
    BY <1>1 DEF Planned
<1>2. ASSUME perm'[p].op = perm[p].op, perm'[p].revoke \subseteq perm[p].revoke, perm'[p].grant \subseteq perm[p].grant,
             \/ perm[p].pc \in {"insert", "fresh", "exec"} /\ perm'[p].pc \in {"fresh", "exec"}
             \/ perm[p].pc = "rexec" /\ perm'[p].pc = "rexec"
      PROVE  Planned(p)'
    BY <1>0, <1>2 DEF Planned
<1>3. ASSUME NEW l \in PermLabel, Goto(p, l), perm[p].pc # "idle"
      PROVE  /\ perm'[p].pc = l /\ perm'[p].op = perm[p].op
             /\ perm'[p].revoke = perm[p].revoke /\ perm'[p].grant = perm[p].grant
    BY <1>0, <1>3, GotoFacts DEF Goes
<1>4. CASE \E o \in PermOp : Update(p, o) \/ \E m \in {"verify", "restore"} : Reconcile(p, o, m)
    BY <1>0, <1>1, <1>4, BeginFacts DEF Update, Reconcile, Mode
<1>5. CASE LockBusy(p) \/ Release(p) \/ Die(p)
    BY <1>0, <1>1, <1>5, EndFacts DEF LockBusy, Release, Die
<1>6. CASE Lock(p) \/ Pending(p) \/ Conflict(p) \/ Applied(p) \/ Restored(p) \/ Unsure(p)
           \/ Final(p) \/ RestoreVerify(p) \/ Judge(p)
    <2>1. perm[p].pc # "idle" /\ \E l \in PermLabel \ {"insert", "fresh", "exec", "rexec"} : Goto(p, l)
        BY <1>6, Labels DEF Lock, Pending, Conflict, Applied, Restored, Unsure, Final, RestoreVerify, Judge,
                            OnError, OnRestoreError
    <2> QED BY <1>1, <1>3, <2>1
<1>7. CASE Insert(p) \/ Fresh(p)
    <2>1. perm[p].pc \in {"insert", "fresh"} /\ \E l \in PermLabel \ {"insert", "rexec"} : Goto(p, l)
        BY <1>7, Labels DEF Insert, Fresh
    <2>2. PICK l \in PermLabel \ {"insert", "rexec"} : Goto(p, l) BY <2>1
    <2>3. CASE l \in {"fresh", "exec"} BY <1>2, <1>3, <2>1, <2>2, <2>3
    <2>4. CASE l \notin {"fresh", "exec"} BY <1>1, <1>3, <2>1, <2>2, <2>4
    <2> QED BY <2>3, <2>4
<1>8. CASE Snapshot(p)
    <2>1. CASE Goto(p, "release") BY <1>1, <1>3, <1>8, <2>1, Labels DEF Snapshot
    <2>2. CASE GotoDelta(p, "insert", edit[perm[p].op].grants, edit[perm[p].op].want)
        <3>0. /\ perm[p].pc # "idle"
              /\ edit[perm[p].op].grants \in SUBSET Priv /\ edit[perm[p].op].want \in SUBSET Priv
            BY <1>0, <1>8, <1>o, AcctType DEF Snapshot
        <3>3. "insert" \in PermLabel BY Labels
        <3>5. perm[p].pc # "idle" BY <3>0
        <3>4. ASSUME NEW x \in SUBSET Priv, NEW y \in SUBSET Priv, GotoDelta(p, "insert", x, y)
              PROVE  Goes(p, "insert") /\ perm'[p].revoke = x \ y /\ perm'[p].grant = y \ x
            BY <1>0, <3>3, <3>4, <3>5, DeltaFacts
        <3>1. /\ Goes(p, "insert")
              /\ perm'[p].revoke = edit[perm[p].op].grants \ edit[perm[p].op].want
              /\ perm'[p].grant = edit[perm[p].op].want \ edit[perm[p].op].grants
            BY <2>2, <3>0, <3>4
        <3>2. perm'[p].pc = "insert" /\ perm'[p].op = perm[p].op BY <3>1 DEF Goes
        <3> QED BY <1>0, <3>1, <3>2 DEF Planned
    <2> QED BY <1>8, <2>1, <2>2 DEF Snapshot
<1>9. CASE Failed(p)
    <2>1. CASE Goto(p, OnRestoreError(p)) BY <1>1, <1>3, <1>9, <2>1, Labels DEF Failed, OnRestoreError
    <2>2. CASE /\ GotoDelta(p, "rexec", Remote(p).grants, Row(p).before)
               /\ Remote(p).grants \subseteq Row(p).before \cup Row(p).after
        <3>1. perm[p].op \in PermOp /\ perm[p].pc # "idle" /\ perm[p].pc \in RowLabel
            BY <1>9, <1>o, Labels DEF Failed
        <3>2. Remote(p).grants \in SUBSET Priv /\ Row(p).before \in SUBSET Priv
            BY <1>0, <1>o, <3>1 DEF Remote, Row, PlatformTypeOK, ServerRow, PermRow
        <3>6. "rexec" \in PermLabel BY Labels
        <3>7. ASSUME NEW x \in SUBSET Priv, NEW y \in SUBSET Priv, GotoDelta(p, "rexec", x, y)
              PROVE  Goes(p, "rexec") /\ perm'[p].revoke = x \ y /\ perm'[p].grant = y \ x
            BY <1>0, <3>1, <3>6, <3>7, DeltaFacts
        <3>0. /\ Goes(p, "rexec")
              /\ perm'[p].revoke = Remote(p).grants \ Row(p).before
              /\ perm'[p].grant = Row(p).before \ Remote(p).grants
            BY <2>2, <3>2, <3>7
        <3>3. /\ perm'[p].pc = "rexec" /\ perm'[p].op = perm[p].op
              /\ perm'[p].revoke = Remote(p).grants \ Row(p).before
              /\ perm'[p].grant = Row(p).before \ Remote(p).grants
            BY <3>0 DEF Goes
        <3>4. Row(p).before = edit[perm[p].op].grants /\ Row(p).after = edit[perm[p].op].want
            BY <3>1, RowIsEdit
        <3>5. perm'[p].revoke \cup perm'[p].grant \subseteq edit[perm[p].op].grants \cup edit[perm[p].op].want
            BY <2>2, <3>3, <3>4
        <3> QED BY <1>0, <3>3, <3>5 DEF Planned
    <2> QED BY <1>9, <2>1, <2>2 DEF Failed
<1>10. CASE Exec(p) \/ RestoreExec(p)
    <2>1. perm[p].pc \in {"exec", "rexec"} BY <1>10 DEF Exec, RestoreExec
    <2>2. ASSUME NEW l \in PermLabel \ {"insert", "fresh", "exec", "rexec"}, Goto(p, l) PROVE Planned(p)'
        BY <1>1, <1>3, <2>1, <2>2
    <2>3. ASSUME NEW l \in PermLabel \ {"insert", "fresh", "exec", "rexec"}, DeltaStep(p, l) PROVE Planned(p)'
        <3>1. /\ Goes(p, l) \/ Goes(p, perm[p].pc)
              /\ perm'[p].revoke \subseteq perm[p].revoke /\ perm'[p].grant \subseteq perm[p].grant
            BY <1>0, <1>o, <2>1, <2>3, DeltaStepFacts
        <3> QED BY <1>1, <1>2, <2>1, <3>1 DEF Goes
    <2> QED BY <1>10, <2>2, <2>3, Labels DEF Exec, RestoreExec, OnRestoreError
<1> QED BY <1>4, <1>5, <1>6, <1>7, <1>8, <1>9, <1>10 DEF ThreadStep, PermStep

\* Inside a section the labels of which nothing is remembered need no proof.
LEMMA OwnWatched ==
    ASSUME PermInv, NEW p \in PermReq, ThreadStep(p)
    PROVE  Watched(p)'
<1>0. PermTypeOK /\ PlatformTypeOK /\ PermTypes /\ Planned(p) /\ Watched(p) /\ edit' = edit
    BY Moves DEF PermInv, PermTypeOK, PermTypes
<1>o. perm[p].pc # "idle" => perm[p].op \in PermOp /\ Acct(perm[p].op) \in Account
    BY <1>0, AcctType DEF PermTypes
<1>1. ASSUME perm'[p].pc \notin {"insert", "fresh", "undone", "rdone", "exec", "final", "apply", "conflict"}
      PROVE  Watched(p)'
    BY <1>1 DEF Watched
<1>2. ASSUME perm'[p].op = perm[p].op, touched' = touched, edit[perm[p].op].acct \in touched PROVE Watched(p)'
    BY <1>0, <1>2 DEF Watched
<1>3. ASSUME NEW l \in PermLabel, Goto(p, l), perm[p].pc # "idle"
      PROVE  perm'[p].pc = l /\ perm'[p].op = perm[p].op
    BY <1>0, <1>3, GotoFacts DEF Goes
\* A step that leaves the server alone and arrives with what the label needs.
<1>4. ASSUME perm'[p].op = perm[p].op, server' = server, touched' = touched,
             LET e == edit[perm[p].op] IN
             /\ perm'[p].pc \in {"insert", "fresh", "undone", "rdone"} => HoldsPlan(p, e.grants)
             /\ perm'[p].pc \in {"exec", "final"} /\ e.grants = e.want => HoldsPlan(p, e.grants)
             /\ perm'[p].pc = "apply" => HoldsPlan(p, e.want)
             /\ perm'[p].pc # "conflict"
      PROVE  Watched(p)'
    BY <1>0, <1>4 DEF Watched, HoldsPlan, Remote, Acct
<1>5. CASE \E o \in PermOp : Update(p, o) \/ \E m \in {"verify", "restore"} : Reconcile(p, o, m)
    BY <1>0, <1>1, <1>5, BeginFacts DEF Update, Reconcile, Mode
<1>6. CASE LockBusy(p) \/ Release(p) \/ Die(p)
    BY <1>0, <1>1, <1>6, EndFacts DEF LockBusy, Release, Die
<1>7. CASE Lock(p) \/ Pending(p) \/ Restored(p) \/ Unsure(p)
    <2>1. perm[p].pc # "idle" /\ \E l \in {"pending", "judge", "release", "snapshot", "unsure"} : Goto(p, l)
        BY <1>7 DEF Lock, Pending, Restored, Unsure
    <2> QED BY <1>1, <1>3, <2>1, Labels
<1>8. CASE Snapshot(p)
    <2>1. CASE Goto(p, "release") BY <1>1, <1>3, <1>8, <2>1, Labels DEF Snapshot
    <2>2. CASE /\ GotoDelta(p, "insert", edit[perm[p].op].grants, edit[perm[p].op].want)
               /\ HoldsPlan(p, edit[perm[p].op].grants)
        <3>0. /\ perm[p].pc # "idle"
              /\ edit[perm[p].op].grants \in SUBSET Priv /\ edit[perm[p].op].want \in SUBSET Priv
            BY <1>0, <1>8, <1>o, AcctType DEF Snapshot
        <3>2. Goes(p, "insert") BY <1>0, <2>2, <3>0, DeltaFacts, Labels
        <3>1. perm'[p].pc = "insert" /\ perm'[p].op = perm[p].op BY <3>2 DEF Goes
        <3> QED BY <1>4, <1>8, <2>2, <3>1 DEF Snapshot, platformVars
    <2> QED BY <1>8, <2>1, <2>2 DEF Snapshot, HoldsPlan
<1>9. CASE Insert(p)
    <2>1. PICK l \in {"release", "fresh"} : Goto(p, l) BY <1>9 DEF Insert
    <2>2. /\ perm[p].pc = "insert" /\ perm'[p].pc = l /\ perm'[p].op = perm[p].op
          /\ server' = server /\ touched' = touched
        BY <1>3, <1>9, <2>1, Labels DEF Insert
    <2>3. edit[perm[p].op].acct \in touched \/ HoldsPlan(p, edit[perm[p].op].grants)
        BY <1>0, <2>2, Labels DEF Watched
    <2> QED BY <1>2, <1>4, <2>2, <2>3
<1>10. CASE Fresh(p) \/ Conflict(p) \/ Final(p) \/ Applied(p) \/ RestoreVerify(p) \/ Judge(p)
    <2>1. perm[p].pc \in RowLabel /\ perm[p].pc # "idle" /\ server' = server /\ touched' = touched
        BY <1>10, Labels DEF Fresh, Conflict, Final, Applied, RestoreVerify, Judge, platformVars
    <2>2. /\ Row(p).mark = edit[perm[p].op].mark /\ Row(p).before = edit[perm[p].op].grants
          /\ Row(p).after = edit[perm[p].op].want
        BY <2>1, RowIsEdit
    <2>3. \A g : SameAccount(p) /\ Remote(p).grants = g => HoldsPlan(p, g)
        BY <2>2 DEF SameAccount, HoldsPlan
    <2>4. PICK l \in PermLabel : Goto(p, l)
        BY <1>10, Labels DEF Fresh, Conflict, Final, Applied, RestoreVerify, Judge, OnError, OnRestoreError
    <2>5. perm'[p].pc = l /\ perm'[p].op = perm[p].op BY <1>3, <2>1, <2>4
    <2>6. CASE edit[perm[p].op].acct \in touched BY <1>2, <2>1, <2>5, <2>6
    <2>7. CASE edit[perm[p].op].acct \notin touched
        <3> DEFINE e == edit[perm[p].op]
        <3>0. /\ perm[p].pc \in {"fresh", "undone"} => HoldsPlan(p, e.grants)
              /\ perm[p].pc \in {"exec", "final"} /\ e.grants = e.want => HoldsPlan(p, e.grants)
              /\ perm[p].pc = "apply" => HoldsPlan(p, e.want)
              /\ perm[p].pc # "conflict"
            BY <1>0, <2>1, <2>7, Labels DEF Watched
        <3>1. HoldsPlan(p, e.grants) => SameAccount(p) /\ Remote(p).grants = Row(p).before
            BY <2>2 DEF HoldsPlan, SameAccount
        <3>2. CASE Fresh(p)
            <4>1. /\ perm[p].pc = "fresh" /\ perm'[p].pc = l /\ l \in {"exec", "conflict", "undone"}
                  /\ l = "conflict" => ~(SameAccount(p) /\ Remote(p).grants = Row(p).before)
                BY <3>2, <1>3, <2>1, <2>5, Labels DEF Fresh
            <4> QED BY <1>4, <2>1, <2>5, <3>0, <3>1, <4>1
        <3>3. CASE Conflict(p) BY <3>0, <3>3 DEF Conflict
        <3>4. CASE Final(p)
            <4>1. /\ perm[p].pc = "final"
                  /\ \/ l = "apply" /\ SameAccount(p) /\ Remote(p).grants = Row(p).after
                     \/ l = "undone" /\ Row(p).before = Row(p).after
                     \/ l = "failed"
                BY <3>4, <1>3, <2>1, <2>5, Labels DEF Final, OnError
            <4> QED BY <1>4, <2>1, <2>2, <2>3, <2>5, <3>0, <4>1
        <3>5. CASE Applied(p)
            <4>1. /\ perm[p].pc = "apply"
                  /\ \/ l = "release"
                     \/ l = "undone" /\ Row(p).before = Row(p).after
                     \/ l = "failed"
                BY <3>5, <1>3, <2>1, <2>5, Labels DEF Applied, OnError
            <4>2. l = "undone" => HoldsPlan(p, e.grants) BY <2>2, <3>0, <4>1
            <4> QED BY <1>4, <2>1, <2>5, <4>1, <4>2
        <3>6. CASE RestoreVerify(p)
            <4>1. \/ l = "rdone" /\ SameAccount(p) /\ Remote(p).grants = Row(p).before
                  \/ l \in {"unsure", "release"}
                BY <3>6, <1>3, <2>1, <2>5, Labels DEF RestoreVerify, OnRestoreError
            <4> QED BY <1>4, <2>1, <2>2, <2>3, <2>5, <4>1
        <3>7. CASE Judge(p)
            <4>1. \/ l = "apply" /\ SameAccount(p) /\ Remote(p).grants = Row(p).after
                  \/ l = "rdone" /\ SameAccount(p) /\ Remote(p).grants = Row(p).before
                  \/ l \in {"failed", "unsure", "release"}
                BY <3>7, <1>3, <2>1, <2>5, Labels DEF Judge
            <4> QED BY <1>4, <2>1, <2>2, <2>3, <2>5, <4>1
        <3> QED BY <1>10, <3>2, <3>3, <3>4, <3>5, <3>6, <3>7
    <2> QED BY <2>6, <2>7
<1>11. CASE Failed(p) \/ RestoreExec(p)
    <2>1. perm[p].pc \in {"failed", "rexec"} BY <1>11 DEF Failed, RestoreExec
    <2>2. ASSUME NEW l \in {"unsure", "release", "rverify"}, Goto(p, l) PROVE Watched(p)'
        BY <1>1, <1>3, <2>1, <2>2, Labels
    <2>3. ASSUME NEW l \in {"unsure", "release"}, DeltaStep(p, l), perm[p].pc = "rexec" PROVE Watched(p)'
        <3>1. Goes(p, l) \/ Goes(p, perm[p].pc) BY <1>0, <1>o, <2>1, <2>3, DeltaStepFacts, Labels
        <3> QED BY <1>1, <2>3, <3>1 DEF Goes
    <2>4. CASE GotoDelta(p, "rexec", Remote(p).grants, Row(p).before)
        <3>1. perm[p].op \in PermOp /\ perm[p].pc # "idle" BY <2>1, <1>o
        <3>2. Remote(p).grants \in SUBSET Priv /\ Row(p).before \in SUBSET Priv
            BY <1>0, <1>o, <3>1 DEF Remote, Row, PlatformTypeOK, ServerRow, PermRow
        <3>3. Goes(p, "rexec") BY <1>0, <2>4, <3>1, <3>2, DeltaFacts, Labels
        <3>4. perm'[p].pc = "rexec" BY <3>3 DEF Goes
        <3> QED BY <1>1, <3>4
    <2> QED BY <1>11, <2>2, <2>3, <2>4 DEF Failed, RestoreExec, OnRestoreError
<1>12. CASE Exec(p)
    <2> DEFINE e == edit[perm[p].op]
    <2>1. perm[p].pc = "exec" /\ touched' = touched BY <1>12 DEF Exec
    <2>2. CASE Emptied(p)
        <3>1. Goto(p, "final") /\ server' = server BY <1>12, <2>2 DEF Exec
        <3>2. perm'[p].pc = "final" /\ perm'[p].op = perm[p].op BY <1>3, <2>1, <3>1, Labels
        <3>3. e.acct \in touched \/ (e.grants = e.want => HoldsPlan(p, e.grants))
            BY <1>0, <2>1, Labels DEF Watched
        <3> QED BY <1>2, <1>4, <2>1, <3>1, <3>2, <3>3
    <2>3. CASE ~Emptied(p)
        <3>1. e.grants # e.want BY <1>0, <2>1, <2>3 DEF Planned, Emptied
        <3>2. DeltaStep(p, "failed") BY <1>12, <2>3 DEF Exec
        <3>3. Goes(p, "failed") \/ Goes(p, "exec") BY <1>0, <1>o, <2>1, <3>2, DeltaStepFacts, Labels
        <3> QED BY <1>0, <3>1, <3>3 DEF Goes, Watched
    <2> QED BY <2>2, <2>3
<1> QED BY <1>5, <1>6, <1>7, <1>8, <1>9, <1>10, <1>11, <1>12 DEF ThreadStep, PermStep

-----------------------------------------------------------------------------
(* What others do.                                                         *)

\* The server is changed by the statements of a thread, on its account and of the
\* privileges it has left to do.
LEMMA Statements ==
    ASSUME PermInv, NEW p \in PermReq, ThreadStep(p)
    PROVE  \/ server' = server
           \/ /\ perm[p].pc \in {"exec", "rexec"} /\ perm[p].op \in PermOp
              /\ \E s \in StatementType : /\ s.verb \in {"grant", "revoke"} /\ s.acct = Acct(perm[p].op)
                                          /\ s.privs \subseteq perm[p].revoke \cup perm[p].grant
                                          /\ Executes(s) \/ Fails(s)
<1>0. PermTypeOK /\ PlatformTypeOK /\ PermTypes BY DEF PermInv, PermTypeOK, PermTypes
<1>o. perm[p].pc # "idle" => perm[p].op \in PermOp /\ Acct(perm[p].op) \in Account
    BY <1>0, AcctType DEF PermTypes
<1>1. CASE Exec(p) \/ RestoreExec(p)
    <2>1. perm[p].pc \in {"exec", "rexec"} BY <1>1 DEF Exec, RestoreExec
    <2>2. ASSUME NEW l \in PermLabel, DeltaStep(p, l)
          PROVE  \E s \in StatementType : /\ s.verb \in {"grant", "revoke"} /\ s.acct = Acct(perm[p].op)
                                          /\ s.privs \subseteq perm[p].revoke \cup perm[p].grant
                                          /\ Executes(s) \/ Fails(s)
        BY <1>0, <1>o, <2>1, <2>2, DeltaStepFacts
    <2> QED BY <1>1, <1>o, <2>1, <2>2, Labels DEF Exec, RestoreExec, OnRestoreError
<1>2. CASE ~(Exec(p) \/ RestoreExec(p))
    BY <1>2 DEF ThreadStep, PermStep, Update, Reconcile, Lock, LockBusy, Pending, Snapshot, Insert, Fresh,
                Conflict, Final, Applied, Restored, Unsure, Failed, RestoreVerify, Judge, Release, Die,
                platformVars
<1> QED BY <1>1, <1>2

\* What a thread has seen outlives a step that leaves its account alone, or that
\* is noted not to.
LEMMA SeenStays ==
    ASSUME PermInv, NEW q \in PermReq, perm'[q] = perm[q],
           perm[q].pc \in LockedLabel =>
              LET a == Acct(perm[q].op) IN
              /\ edit'[perm[q].op] = edit[perm[q].op]
              /\ a \in touched => a \in touched'
              /\ \/ a \in touched'
                 \/ /\ server'[a].live = server[a].live /\ server'[a].mark = server[a].mark
                    /\ server'[a].grants = server[a].grants
    PROVE  Watched(q)' /\ Planned(q)'
<1>0. Watched(q) /\ Planned(q) BY DEF PermInv
<1>1. CASE perm[q].pc \notin LockedLabel
    BY <1>1, Labels DEF Watched, Planned
<1>2. CASE perm[q].pc \in LockedLabel
    <2>1. Planned(q)' BY <1>0, <1>2 DEF Planned
    <2>2. CASE edit[perm[q].op].acct \in touched' BY <1>2, <2>1, <2>2 DEF Watched
    <2>3. CASE edit[perm[q].op].acct \notin touched'
        <3>1. /\ edit'[perm[q].op] = edit[perm[q].op] /\ edit[perm[q].op].acct \notin touched
              /\ Remote(q)'.live = Remote(q).live /\ Remote(q)'.mark = Remote(q).mark
              /\ Remote(q)'.grants = Remote(q).grants
            BY <1>2, <2>3 DEF Remote, Acct
        <3>2. \A g : HoldsPlan(q, g) => Remote(q)'.live /\ Remote(q)'.mark = edit[perm[q].op].mark /\ Remote(q)'.grants = g
            BY <3>1 DEF HoldsPlan
        <3> QED BY <1>0, <1>2, <2>1, <3>1, <3>2 DEF Watched, HoldsPlan
    <2> QED BY <2>1, <2>2, <2>3
<1> QED BY <1>1, <1>2

LEMMA OthersWatched ==
    ASSUME PermInv, NEW p \in PermReq, NEW q \in PermReq, p # q, ThreadStep(p)
    PROVE  Watched(q)' /\ Planned(q)'
<1>0. PermTypeOK /\ PlatformTypeOK BY DEF PermInv, PermTypeOK
<1>1. perm'[q] = perm[q] /\ edit' = edit BY <1>0, Moves DEF Others
<1>2. SUFFICES ASSUME perm[q].pc \in LockedLabel
               PROVE  LET a == Acct(perm[q].op) IN
                      (a \in touched => a \in touched') /\ server'[a] = server[a]
    BY <1>1, SeenStays
<1> DEFINE a == Acct(perm[q].op)
<1>3. a \in Account /\ advisory[a] = q
    BY <1>0, <1>2, AcctType, Labels DEF PermInv, EditLock, PermTypeOK
<1>4. a \in touched => a \in touched'
    BY <1>0, <1>3, Moves DEF Inside, AtDoor, Leaves, Enters, DropLocks, TakeLock
<1>5. server'[a] = server[a]
    <2>1. CASE server' = server BY <2>1
    <2>2. ASSUME perm[p].pc \in {"exec", "rexec"},
                 NEW s \in StatementType, s.acct = Acct(perm[p].op), Executes(s) \/ Fails(s)
          PROVE  server'[a] = server[a]
        <3>1. a # s.acct BY <1>2, <2>2, Apart, Labels
        <3> QED BY <1>0, <1>3, <2>2, <3>1, StatementLocal
    <2> QED BY <2>1, <2>2, Statements
<1> QED BY <1>4, <1>5

\* Requests, the age of rows and the outside world.
LEMMA RestInv ==
    ASSUME PermInv,
           \/ \E o \in PermOp, a \in Account, w \in SUBSET Priv, s \in Spellings : Submit(o, a, w, s)
           \/ \E o \in PermOp : Age(o)
           \/ Outside /\ UNCHANGED <<edit, perm>>
           \/ UNCHANGED permVars
    PROVE  PermInv'
<1>0. PermTypeOK /\ PlatformTypeOK /\ RowTypes /\ Recorded /\ EditLock /\ edit \in [PermOp -> EditRow]
    BY DEF PermInv, PermTypeOK, PlatformTypeOK, RowTypes
<1>1. PermTypeOK' BY <1>0, RestTypes
<1>2. perm' = perm /\ advisory' = advisory
    BY DEF Submit, Age, Outside, Land, Settle, Dba, permVars, platformVars
<1>3. \A o \in PermOp : edit[o].made => edit'[o] = edit[o]
    BY <1>0 DEF Submit, Age, permVars
<1>4. \A o \in PermOp : permOps'[o].status = permOps[o].status /\ SameRow(o)
    <2>1. ASSUME NEW o \in PermOp, Age(o) PROVE \A x \in PermOp : permOps'[x].status = permOps[x].status /\ SameRow(x)
        BY <1>0, <2>1, AgeFacts DEF OtherRows, SameRow
    <2>2. CASE permOps' = permOps BY <2>2 DEF SameRow
    <2> QED BY <2>1, <2>2 DEF Submit, Outside, Land, Settle, Dba, permVars, platformVars
<1>5. \A p \in PermReq : perm[p].pc # "idle" => perm[p].op \in PermOp /\ edit'[perm[p].op] = edit[perm[p].op]
    BY <1>0, <1>3 DEF Recorded, PermTypeOK
<1>6. EditLock' BY <1>0, <1>2, <1>5, Labels DEF EditLock, Acct
<1>7. Recorded'
    <2>1. \A p \in PermReq : perm'[p].pc # "idle" => edit'[perm'[p].op].made BY <1>0, <1>2, <1>5 DEF Recorded
    <2>2. ASSUME NEW o \in PermOp, permOps'[o].status # "absent"
          PROVE  /\ edit'[o].made
                 /\ permOps'[o].acct = edit'[o].acct /\ permOps'[o].mark = edit'[o].mark
                 /\ permOps'[o].before = edit'[o].grants /\ permOps'[o].after = edit'[o].want
        <3>1. permOps[o].status # "absent" BY <1>4, <2>2
        <3>2. /\ edit[o].made /\ permOps[o].acct = edit[o].acct /\ permOps[o].mark = edit[o].mark
              /\ permOps[o].before = edit[o].grants /\ permOps[o].after = edit[o].want
            BY <1>0, <3>1 DEF Recorded
        <3> QED BY <1>3, <1>4, <3>2 DEF SameRow
    <2>3. \A p \in PermReq : perm'[p].pc \in RowLabel \/ (perm'[p].pc = "lock" /\ perm'[p].mode # "update")
                                => permOps'[perm'[p].op].status # "absent"
        BY <1>0, <1>2, <1>4, <1>5, Labels DEF Recorded, Row
    <2> QED BY <2>1, <2>2, <2>3 DEF Recorded, Row
<1>8. ASSUME NEW q \in PermReq PROVE Watched(q)' /\ Planned(q)'
    <2>1. SUFFICES ASSUME perm[q].pc \in LockedLabel
                   PROVE  LET a == Acct(perm[q].op) IN
                          /\ a \in touched => a \in touched'
                          /\ \/ a \in touched'
                             \/ /\ server'[a].live = server[a].live /\ server'[a].mark = server[a].mark
                                /\ server'[a].grants = server[a].grants
        BY <1>2, <1>5, Labels, SeenStays
    <2>2. CASE server' = server /\ touched' = touched BY <2>2
    <2>3. CASE Outside
        <3>1. Acct(perm[q].op) \in Account /\ advisory[Acct(perm[q].op)] # NoOne
            BY <1>0, <2>1, AcctType, Labels, PermAssumption, PlatformAssumption DEF EditLock, PermTypeOK
        <3> QED BY <1>0, <2>3, <3>1, OutsideNoted
    <2> QED BY <2>2, <2>3 DEF Submit, Age, permVars, platformVars
<1> QED BY <1>1, <1>6, <1>7, <1>8 DEF PermInv

LEMMA PermStepInv == PermInv /\ [Next]_permVars => PermInv'
<1> SUFFICES ASSUME PermInv, [Next]_permVars PROVE PermInv'
    OBVIOUS
<1>1. ASSUME NEW p \in PermReq, ThreadStep(p) PROVE PermInv'
    <2>1. PermTypeOK' BY <1>1, StepTypes DEF PermInv, ThreadStep
    <2>2. EditLock' BY <1>1, StepLock
    <2>3. Recorded' BY <1>1, StepRecorded
    <2>4. ASSUME NEW q \in PermReq PROVE Watched(q)' /\ Planned(q)'
        <3>1. CASE q = p BY <1>1, <3>1, OwnWatched, OwnPlanned
        <3>2. CASE q # p BY <1>1, <3>2, OthersWatched
        <3> QED BY <3>1, <3>2
    <2> QED BY <2>1, <2>2, <2>3, <2>4 DEF PermInv
<1> QED BY <1>1, RestInv DEF Next, PermNext, ThreadStep

\* A step of the specification is one of a thread, or leaves threads and settled rows alone.
LEMMA WhoSteps ==
    ASSUME PermInv, [Next]_permVars
    PROVE  \/ \E p \in PermReq : ThreadStep(p)
           \/ perm' = perm /\ \A o \in PermOp : permOps'[o].status = permOps[o].status
<1>0. RowTypes BY DEF PermInv, PermTypeOK, PlatformTypeOK, RowTypes
<1>1. ASSUME NEW o \in PermOp, Age(o)
      PROVE  perm' = perm /\ \A x \in PermOp : permOps'[x].status = permOps[x].status
    BY <1>0, <1>1, AgeFacts DEF OtherRows, Age
<1>2. ASSUME NEW o \in PermOp, NEW a \in Account, NEW w \in SUBSET Priv, NEW s \in Spellings, Submit(o, a, w, s)
      PROVE  perm' = perm /\ permOps' = permOps
    BY <1>2 DEF Submit, platformVars
<1>3. Outside => permOps' = permOps BY DEF Outside, Land, Settle, Dba
<1> QED BY <1>1, <1>2, <1>3 DEF Next, PermNext, ThreadStep, permVars

-----------------------------------------------------------------------------
(* Theorems.                                                               *)

LEMMA PermInvariant == Spec => []PermInv
BY PermInitInv, PermStepInv, PTL DEF Spec

\* The tables, the threads and the server keep their types, and an operation
\* occupies its account exactly as long as its result is open (SettledFrees).
THEOREM EditTypes == Spec => []PermTypeOK
<1>1. PermInv => PermTypeOK BY DEF PermInv
<1> QED BY PermInvariant, <1>1, PTL

\* A step of an edit leaves the privileges of neither plan as they are.
LEMMA StepConfined ==
    ASSUME PermInv, NEW p \in PermReq, ThreadStep(p), NEW g \in Priv, perm[p].pc \in {"exec", "rexec"},
           g \notin Row(p).before \cup Row(p).after
    PROVE  g \in server[Acct(perm[p].op)].grants <=> g \in server'[Acct(perm[p].op)].grants
<1>0. PermTypeOK /\ PlatformTypeOK /\ Planned(p) BY DEF PermInv, PermTypeOK
<1>1. perm[p].revoke \cup perm[p].grant \subseteq edit[perm[p].op].grants \cup edit[perm[p].op].want
    BY <1>0 DEF Planned
<1>2. g \notin perm[p].revoke \cup perm[p].grant BY <1>1, RowIsEdit, Labels
<1>3. ASSUME perm[p].op \in PermOp, NEW s \in StatementType, s.verb \in {"grant", "revoke"},
             s.acct = Acct(perm[p].op), g \notin s.privs, Executes(s) \/ Fails(s)
      PROVE  g \in server[Acct(perm[p].op)].grants <=> g \in server'[Acct(perm[p].op)].grants
    <2>1. Acct(perm[p].op) \in Account BY <1>0, <1>3, AcctType
    <2>2. CASE server' = server BY <2>2
    <2>3. CASE Apply(s)
        <3>1. server'[s.acct] = Result(server[s.acct], s)
            BY <1>0, <1>3, <2>1, <2>3 DEF Apply, PlatformTypeOK
        <3>2. server[s.acct] \in ServerRow BY <1>0, <1>3, <2>1 DEF PlatformTypeOK
        <3>3. g \in server[s.acct].grants <=> g \in Result(server[s.acct], s).grants
            BY <1>3, <3>2 DEF Result, ServerRow
        <3> QED BY <1>3, <3>1, <3>3
    <2> QED BY <1>3, <2>2, <2>3 DEF Executes, Fails
<1> QED BY <1>2, <1>3, Statements

LEMMA KeptConfined ==
    ASSUME PermInv, [Next]_permVars, NEW p \in PermReq, NEW g \in Priv, perm[p].pc \in {"exec", "rexec"},
           perm'[p] # perm[p], g \notin Row(p).before \cup Row(p).after
    PROVE  g \in server[Acct(perm[p].op)].grants <=> g \in server'[Acct(perm[p].op)].grants
<1>1. ThreadStep(p) BY WhoSteps, Moves DEF PermInv, Others
<1> QED BY <1>1, StepConfined

\* Whatever others grant meanwhile, the statements of an edit and of its undoing
\* leave every privilege of neither plan as it is (database_permission_routes.py,
\* execute_delta and restore).
THEOREM Confined == Spec => PlanConfined
<1>1. PermInv /\ [Next]_permVars =>
        [\A p \in PermReq, g \in Priv :
           /\ perm[p].pc \in {"exec", "rexec"}
           /\ perm'[p] # perm[p]
           /\ g \notin Row(p).before \cup Row(p).after
           => LET a == Acct(perm[p].op) IN
              g \in server[a].grants <=> g \in server'[a].grants]_permVars
    BY KeptConfined
<1> QED BY PermInvariant, <1>1, PTL DEF Spec, PlanConfined

\* An edit that says applied is, and one that says restored left what it found.
LEMMA AppliedSeen ==
    ASSUME PermInv, [Next]_permVars, NEW o \in PermOp,
           permOps[o].status # "applied", permOps'[o].status = "applied"
    PROVE  LET row == server[permOps[o].acct] IN
           \/ permOps[o].acct \in touched
           \/ row.live /\ row.mark = permOps[o].mark /\ row.grants = permOps[o].after
<1>1. PICK p \in PermReq : ThreadStep(p) BY WhoSteps
<1>2. o = perm[p].op /\ perm[p].pc = "apply" BY <1>1, Writes DEF OtherRows
<1>3. /\ permOps[o].acct = edit[o].acct /\ permOps[o].mark = edit[o].mark /\ permOps[o].after = edit[o].want
    BY <1>2, RowIsEdit, Labels DEF Row
<1>4. permOps[o].acct \in touched \/ HoldsPlan(p, edit[o].want)
    BY <1>2, <1>3, Labels DEF PermInv, Watched
<1> QED BY <1>2, <1>3, <1>4 DEF HoldsPlan, Remote, Acct

LEMMA RestoredSeen ==
    ASSUME PermInv, [Next]_permVars, NEW o \in PermOp,
           permOps[o].status # "restored", permOps'[o].status = "restored"
    PROVE  LET row == server[permOps[o].acct] IN
           \/ permOps[o].acct \in touched
           \/ row.live /\ row.mark = permOps[o].mark /\ row.grants = permOps[o].before
<1>1. PICK p \in PermReq : ThreadStep(p) BY WhoSteps
<1>2. o = perm[p].op /\ perm[p].pc \in {"undone", "rdone"} BY <1>1, Writes DEF OtherRows
<1>3. /\ permOps[o].acct = edit[o].acct /\ permOps[o].mark = edit[o].mark
      /\ permOps[o].before = edit[o].grants
    BY <1>2, RowIsEdit, Labels DEF Row
<1>4. permOps[o].acct \in touched \/ HoldsPlan(p, edit[o].grants)
    BY <1>2, <1>3, Labels DEF PermInv, Watched
<1> QED BY <1>2, <1>3, <1>4 DEF HoldsPlan, Remote, Acct

\* An operation reported as applied is applied, unless the account was changed from
\* outside within the locked section.
THEOREM AppliedHolds == Spec => AppliedIsTrue
<1>1. PermInv /\ [Next]_permVars =>
        [\A o \in PermOp :
           permOps[o].status # "applied" /\ permOps'[o].status = "applied" =>
              LET row == server[permOps[o].acct] IN
              \/ permOps[o].acct \in touched
              \/ row.live /\ row.mark = permOps[o].mark /\ row.grants = permOps[o].after]_permVars
    BY AppliedSeen
<1> QED BY PermInvariant, <1>1, PTL DEF Spec, AppliedIsTrue

\* An operation reported as restored left the grants it found, with the same exception.
THEOREM RestoredHolds == Spec => RestoredIsTrue
<1>1. PermInv /\ [Next]_permVars =>
        [\A o \in PermOp :
           permOps[o].status # "restored" /\ permOps'[o].status = "restored" =>
              LET row == server[permOps[o].acct] IN
              \/ permOps[o].acct \in touched
              \/ row.live /\ row.mark = permOps[o].mark /\ row.grants = permOps[o].before]_permVars
    BY RestoredSeen
<1> QED BY PermInvariant, <1>1, PTL DEF Spec, RestoredIsTrue

-----------------------------------------------------------------------------
(* Beside the other handlers.                                              *)

\* Whoever spares the accounts that the edits have locked, and leaves their
\* operations alone, keeps what they rely on.
LEMMA EditBeside ==
    ASSUME PermInv, PlatformTypeOK', UNCHANGED <<edit, perm, permOps>>, Spares(PermReq)
    PROVE  PermInv'
<1>0. PermTypeOK /\ EditLock /\ Recorded BY DEF PermInv
<1>1. PermTypeOK' BY <1>0 DEF PermTypeOK, SettledFrees
<1>2. Recorded' BY <1>0 DEF Recorded, Row
<1>3. ASSUME NEW q \in PermReq, perm[q].pc \in LockedLabel
      PROVE  LET a == Acct(perm[q].op) IN
             /\ advisory'[a] = q
             /\ a \in touched => a \in touched'
             /\ \/ a \in touched'
                \/ /\ server'[a].live = server[a].live /\ server'[a].mark = server[a].mark
                   /\ server'[a].grants = server[a].grants
    <2> DEFINE a == Acct(perm[q].op)
    <2>1. a \in Account /\ advisory[a] = q BY <1>0, <1>3, AcctType, Labels DEF EditLock, PermTypeOK
    <2> HIDE DEF a
    <2>2. /\ advisory'[a] = q
          /\ a \in touched => a \in touched'
          /\ \/ a \in touched'
             \/ /\ server'[a].live = server[a].live /\ server'[a].mark = server[a].mark
                /\ server'[a].grants = server[a].grants
        BY <2>1 DEF Spares
    <2> QED BY <2>2 DEF a
<1>4. EditLock' BY <1>3 DEF EditLock, Acct
<1>5. ASSUME NEW q \in PermReq PROVE Watched(q)' /\ Planned(q)'
    BY <1>3, SeenStays
<1> QED BY <1>1, <1>2, <1>4, <1>5 DEF PermInv

\* The edits themselves spare the accounts that others have locked.
LEMMA EditsSpare ==
    ASSUME PermInv, PermNext, NEW T \in SUBSET (Thread \ PermReq)
    PROVE  Spares(T)
<1>0. PermTypeOK /\ PlatformTypeOK /\ T \in SUBSET Thread BY DEF PermInv, PermTypeOK
<1>1. ASSUME server' = server, advisory' = advisory, touched' = touched PROVE Spares(T)
    BY <1>0, <1>1, IdleNoted, NotedSpares
<1>2. ASSUME NEW p \in PermReq, ThreadStep(p) PROVE Spares(T)
    <2>1. p \in Thread /\ T \in SUBSET (Thread \ {p}) BY PermAssumption
    <2>2. CASE server' = server
        <3>1. CASE Inside(p) \/ AtDoor(p) BY <1>1, <2>2, <3>1 DEF Inside, AtDoor
        <3>2. CASE Leaves(p) BY <1>0, <2>1, <2>2, <3>2, LockSpares DEF Leaves
        <3>3. CASE Enters(p)
            <4>1. Acct(perm[p].op) \in Account BY <1>0, <3>3, AcctType DEF Enters, PermTypeOK
            <4> QED BY <1>0, <2>1, <2>2, <3>3, <4>1, LockSpares DEF Enters
        <3> QED BY <1>0, <1>2, <3>1, <3>2, <3>3, Moves
    <2>3. ASSUME perm[p].pc \in {"exec", "rexec"}, perm[p].op \in PermOp,
                 NEW s \in StatementType, s.acct = Acct(perm[p].op), Executes(s) \/ Fails(s), server' # server
          PROVE  Spares(T)
        <3> DEFINE a == Acct(perm[p].op)
        <3>1. a \in Account /\ advisory[a] = p
            BY <1>0, <2>3, AcctType, Labels DEF PermInv, EditLock
        <3>2. \A b \in Account \ {a} : server'[b] = server[b] BY <1>0, <2>3, StatementLocal
        <3>3. advisory' = advisory /\ touched' = touched
            BY <1>2, <2>3 DEF ThreadStep, PermStep, Update, Reconcile, Begin, Lock, LockBusy, Pending, Snapshot,
                   Insert, Fresh, Conflict, Exec, Final, Applied, Restored, Unsure, Failed, RestoreExec, RestoreVerify,
                   Judge, Release, Die, platformVars
        <3> HIDE DEF a
        <3> QED BY <2>1, <3>1, <3>2, <3>3 DEF Spares
    <2> QED BY <1>2, <2>2, <2>3, Statements
<1>3. ASSUME NEW o \in PermOp, Age(o) \/ \E a \in Account, w \in SUBSET Priv, s \in Spellings : Submit(o, a, w, s)
      PROVE  Spares(T)
    BY <1>1, <1>3 DEF Age, Submit, platformVars
<1> QED BY <1>2, <1>3 DEF PermNext, ThreadStep

\* They take no marker off.
LEMMA EditsOwn ==
    ASSUME PermInv, PermNext, NEW a \in Account, Own(a)
    PROVE  Own(a)'
<1>0. PlatformTypeOK BY DEF PermInv, PermTypeOK
<1>1. CASE server' = server BY <1>1 DEF Own
<1>2. ASSUME NEW p \in PermReq, ThreadStep(p) PROVE Own(a)'
    BY <1>0, <1>1, <1>2, Statements, StatementOwn
<1>3. ASSUME NEW o \in PermOp, Age(o) \/ \E b \in Account, w \in SUBSET Priv, s \in Spellings : Submit(o, b, w, s)
      PROVE  Own(a)'
    BY <1>1, <1>3 DEF Age, Submit, platformVars
<1> QED BY <1>2, <1>3 DEF PermNext, ThreadStep

\* On MySQL they leave no lock state settling.
LEMMA EditsSettle ==
    ASSUME Kind = "mysql", PermInv, PermNext, Settled
    PROVE  Settled'
<1>0. PlatformTypeOK BY DEF PermInv, PermTypeOK
<1>1. CASE server' = server BY <1>1 DEF Settled
<1>2. ASSUME NEW p \in PermReq, ThreadStep(p) PROVE Settled'
    BY <1>0, <1>1, <1>2, Statements, StatementSettled
<1>3. ASSUME NEW o \in PermOp, Age(o) \/ \E a \in Account, w \in SUBSET Priv, s \in Spellings : Submit(o, a, w, s)
      PROVE  Settled'
    BY <1>1, <1>3 DEF Age, Submit, platformVars
<1> QED BY <1>2, <1>3 DEF PermNext, ThreadStep

\* They write no record of an account and no operation of the other kind.
LEMMA EditsApart == PermNext => UNCHANGED <<record, actionOps>>
BY DEF PermNext, PermStep, Submit, Update, Reconcile, Age, Lock, LockBusy, Pending, Snapshot, Insert, Fresh, Conflict,
       Exec, Final, Applied, Restored, Unsure, Failed, RestoreExec, RestoreVerify, Judge, Release, Die, platformVars
=============================================================================
