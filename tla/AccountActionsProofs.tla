-------------------------- MODULE AccountActionsProofs --------------------------
(***************************************************************************)
(* Proofs about AccountActions, for any number of accounts, threads,       *)
(* operations, external changes and late statements.                       *)
(***************************************************************************)
EXTENDS AccountActions, AccountPlatformProofs

-----------------------------------------------------------------------------
(* Type correctness.                                                       *)

ActType == /\ act \in [ActionReq -> ActionThread]
           /\ \A p \in ActionReq : act[p].pc # "idle" => act[p].op \in ActionOp

\* Moving a busy thread to another label, or ending it, keeps the thread types.
LEMMA ThreadTypes ==
    ASSUME ActType, NEW p \in ActionReq,
           \/ End(p)
           \/ act[p].pc # "idle" /\ \E l \in ActionLabel : Goto(p, l)
           \/ \E o \in ActionOp, l \in ActionLabel : Begin(p, l, o)
    PROVE  ActType'
<1> USE DEF ActType, ActionThread
<1>1. CASE End(p)
    BY <1>1 DEF End, Idle, ActionLabel
<1>2. ASSUME act[p].pc # "idle", NEW l \in ActionLabel, Goto(p, l) PROVE ActType'
    BY <1>2 DEF Goto
<1>3. ASSUME NEW o \in ActionOp, NEW l \in ActionLabel, Begin(p, l, o) PROVE ActType'
    BY <1>3 DEF Begin
<1> QED BY <1>1, <1>2, <1>3

LEMMA InitTypes == ActionInit => ActionTypeOK
<1> SUFFICES ASSUME ActionInit PROVE ActionTypeOK
    OBVIOUS
<1>0. AnyAccount \in Account BY PlatformAssumption DEF AnyAccount
<1>1. PlatformTypeOK BY PlatformInitTypes DEF ActionInit
<1> USE PlatformAssumption
<1>5. ask \in [ActionOp -> Request]
    BY <1>0 DEF ActionInit, Request, Verb, IdentityRow, NoIdentity
<1>6. act \in [ActionReq -> ActionThread] /\ \A p \in ActionReq : act[p].pc = "idle"
    BY DEF ActionInit, Idle, ActionThread, ActionLabel
<1>7. sent = {} BY DEF ActionInit
<1> QED BY <1>1, <1>5, <1>6, <1>7 DEF ActionTypeOK

\* The row a recorded operation starts from and the statement it issues.
LEMMA RequestTypes ==
    ASSUME ActionTypeOK, NEW o \in ActionOp
    PROVE  /\ Acct(o) \in Account
           /\ ask[o].rev.ident \in IdentityRow
           /\ Issues(o) \in StatementType
    BY DEF ActionTypeOK, Request, Acct, Issues, Statement, StatementType

LEMMA RevisionType ==
    ASSUME NEW row \in ServerRow
    PROVE  Revision(row) \in [ident: IdentityRow, lock: {"open", "settling", "locked"},
                              cut: BOOLEAN]
<1>1. 0 \in 0..MaxInc BY PlatformAssumption
<1>2. Identity(row) \in IdentityRow
    BY <1>1 DEF Identity, IdentityRow, ServerRow
<1> QED BY <1>2 DEF Revision, ServerRow

\* The updates of an operation's row keep it well-formed.
LEMMA ActionRowTypes ==
    ASSUME NEW r \in ActionRow,
           NEW st \in {"uncertain", "succeeded", "not_applied"}
    PROVE  /\ [r EXCEPT !.status = st, !.aged = FALSE] \in ActionRow
           /\ [r EXCEPT !.status = st, !.key = FALSE, !.aged = FALSE] \in ActionRow
    BY DEF ActionRow

\* finish() writes well-formed rows.
LEMMA FinishTypes ==
    ASSUME ActionTypeOK, NEW o \in ActionOp, Finish(o)
    PROVE  actionOps' \in [ActionOp -> ActionRow] /\ record' \in [Account -> RecordRow]
<1> USE DEF ActionTypeOK, PlatformTypeOK
<1>1. actionOps' \in [ActionOp -> ActionRow]
    <2>1. [actionOps[o] EXCEPT !.status = "succeeded", !.key = FALSE, !.aged = FALSE]
             \in ActionRow
        BY ActionRowTypes
    <2> QED BY <2>1 DEF Finish
<1>2. record' \in [Account -> RecordRow]
    <2>1. record[Acct(o)] \in RecordRow BY RequestTypes
    <2>2. \A st \in RecordStatus :
              [record[Acct(o)] EXCEPT !.status = st, !.aged = FALSE] \in RecordRow
        BY <2>1 DEF RecordRow
    <2>3. "deleted" \in RecordStatus /\ "disabled" \in RecordStatus BY DEF RecordStatus
    <2> QED BY <2>1, <2>2, <2>3 DEF Finish
<1> QED BY <1>1, <1>2

\* Every step keeps every variable's type.
LEMMA StepTypes == ActionTypeOK /\ [Next]_actionVars => ActionTypeOK'
<1> SUFFICES ASSUME ActionTypeOK, [Next]_actionVars PROVE ActionTypeOK'
    OBVIOUS
<1> USE DEF ActionTypeOK
<1>l. ActionLabel = {"idle", "lock", "vlock", "check", "busy", "insert", "exec", "poll", "finish",
                     "fail", "voutcome", "vfinish", "vnot", "release"}
    BY DEF ActionLabel, LockedLabel, PerformLabel, VerifyLabel
<1>t. ActType BY DEF ActType
<1>1. ASSUME NEW o \in ActionOp, NEW a \in Account, NEW v \in Verb, Submit(o, a, v)
      PROVE  ActionTypeOK'
    <2>1. Revision(server[a]) \in [ident: IdentityRow, lock: {"open", "settling", "locked"},
                                   cut: BOOLEAN]
        BY RevisionType DEF PlatformTypeOK
    <2>2. ask' \in [ActionOp -> Request]
        BY <1>1, <2>1 DEF Submit, Request
    <2> QED BY <1>1, <2>2 DEF Submit, platformVars, PlatformTypeOK
<1>2. ASSUME NEW p \in ActionReq, NEW o \in ActionOp, Perform(p, o) \/ Verify(p, o)
      PROVE  ActionTypeOK'
    <2>1. ActType' BY <1>2, <1>l, <1>t, ThreadTypes DEF Perform, Verify
    <2> QED BY <1>2, <2>1 DEF Perform, Verify, ActType, platformVars, PlatformTypeOK
<1>3. ASSUME NEW o \in ActionOp, Age(o) PROVE ActionTypeOK'
    BY <1>3 DEF Age, PlatformTypeOK, ActionRow
<1>4. ASSUME NEW p \in ActionReq, Lock(p) PROVE ActionTypeOK'
    <2>1. ActType' BY <1>4, <1>l, <1>t, ThreadTypes DEF Lock
    <2>2. Acct(act[p].op) \in Account BY <1>4, RequestTypes DEF Lock
    <2>3. advisory' \in [Account -> Thread \cup {NoOne}] /\ touched' \in SUBSET Account
        BY <1>4, <2>2, LockTypes, ActionAssumption DEF Lock
    <2> QED BY <1>4, <2>1, <2>3 DEF Lock, ActType, PlatformTypeOK
<1>5. ASSUME NEW p \in ActionReq, LockBusy(p) \/ Check(p) \/ Busy(p) \/ Poll(p) \/ VerifyOutcome(p)
      PROVE  ActionTypeOK'
    <2>1. ActType'
        BY <1>5, <1>l, <1>t, ThreadTypes DEF LockBusy, Check, Busy, Poll, VerifyOutcome
    <2> QED BY <1>5, <2>1 DEF LockBusy, Check, Busy, Poll, VerifyOutcome, ActType, platformVars,
                              PlatformTypeOK
<1>6. ASSUME NEW p \in ActionReq, Release(p) \/ Die(p) PROVE ActionTypeOK'
    <2>1. ActType' BY <1>6, <1>t, ThreadTypes DEF Release, Die
    <2>2. advisory' \in [Account -> Thread \cup {NoOne}] /\ touched' \in SUBSET Account
        BY <1>6, LockTypes, ActionAssumption DEF Release, Die
    <2> QED BY <1>6, <2>1, <2>2 DEF Release, Die, ActType, PlatformTypeOK
<1>7. ASSUME NEW p \in ActionReq, Insert(p) PROVE ActionTypeOK'
    <2>1. ActType' BY <1>7, <1>l, <1>t, ThreadTypes DEF Insert, Record
    <2>2. actionOps' \in [ActionOp -> ActionRow]
        <3>1. act[p].op \in ActionOp BY <1>7 DEF Insert, Record
        <3>2. [status |-> "applying", acct |-> Acct(act[p].op), key |-> TRUE,
               ident |-> ask[act[p].op].rev.ident, aged |-> FALSE] \in ActionRow
            BY <3>1, RequestTypes DEF ActionRow
        <3> QED BY <1>7, <3>2 DEF Insert, Record, PlatformTypeOK
    <2> QED BY <1>7, <2>1, <2>2 DEF Insert, Record, ActType, PlatformTypeOK
<1>8. ASSUME NEW p \in ActionReq, Exec(p) PROVE ActionTypeOK'
    <2>1. ActType' BY <1>8, <1>l, <1>t, ThreadTypes DEF Exec
    <2>2. act[p].op \in ActionOp BY <1>8 DEF Exec
    <2>3. server' \in [Account -> ServerRow] /\ late' \in SUBSET StatementType
        <3>1. CASE UNCHANGED <<server, late>> BY <3>1 DEF PlatformTypeOK, StatementType
        <3>2. CASE Executes(Issues(act[p].op)) \/ Fails(Issues(act[p].op))
            BY <3>2, <2>2, RequestTypes, StatementTypes
        <3> QED BY <1>8, <3>1, <3>2 DEF Exec
    <2>4. sent' \in SUBSET ActionOp BY <1>8, <2>2 DEF Exec
    <2> QED BY <1>8, <2>1, <2>3, <2>4 DEF Exec, ActType, PlatformTypeOK, StatementType
<1>9. ASSUME NEW p \in ActionReq, FinishPerform(p) \/ VerifyFinish(p) PROVE ActionTypeOK'
    <2>1. ActType' BY <1>9, <1>l, <1>t, ThreadTypes DEF FinishPerform, VerifyFinish
    <2>2. act[p].op \in ActionOp BY <1>9 DEF FinishPerform, VerifyFinish
    <2>3. actionOps' \in [ActionOp -> ActionRow] /\ record' \in [Account -> RecordRow]
        BY <1>9, <2>2, FinishTypes DEF FinishPerform, VerifyFinish, PlatformTypeOK
    <2> QED BY <1>9, <2>1, <2>3 DEF FinishPerform, VerifyFinish, ActType, PlatformTypeOK
<1>10. ASSUME NEW p \in ActionReq, Fail(p) \/ VerifyNot(p) PROVE ActionTypeOK'
    <2>1. ActType' BY <1>10, <1>l, <1>t, ThreadTypes DEF Fail, VerifyNot
    <2>2. actionOps' \in [ActionOp -> ActionRow]
        <3>1. actionOps[act[p].op] \in ActionRow
            BY <1>10 DEF Fail, VerifyNot, PlatformTypeOK
        <3> QED BY <1>10, <3>1, ActionRowTypes DEF Fail, VerifyNot, PlatformTypeOK
    <2> QED BY <1>10, <2>1, <2>2 DEF Fail, VerifyNot, ActType, PlatformTypeOK
<1>11. CASE ActionEnv
    BY <1>11, OutsideType DEF ActionEnv
<1>12. CASE UNCHANGED actionVars
    BY <1>12 DEF actionVars, PlatformTypeOK
<1> QED BY <1>1, <1>2, <1>3, <1>4, <1>5, <1>6, <1>7, <1>8, <1>9, <1>10, <1>11, <1>12
        DEF Next, ActionNext, ActionStep

\* Every variable keeps its type, whatever the sizes of the system.
THEOREM TypeCorrect == Spec => []ActionTypeOK
    BY InitTypes, StepTypes, PTL DEF Spec

-----------------------------------------------------------------------------
(* The advisory lock.                                                      *)

\* The steps that keep the lock, and those that neither hold nor take it.
LockedMove(p) == /\ act[p].pc \in LockedLabel
                 /\ \E l \in LockedLabel : Goto(p, l)
                 /\ UNCHANGED <<advisory, touched, ask>>

FreeMove(p) == /\ act[p].pc \notin LockedLabel
               /\ \/ End(p)
                  \/ \E o \in ActionOp, l \in {"lock", "vlock"} : Begin(p, l, o) /\ ask[o].made
               /\ UNCHANGED <<advisory, touched, ask>>

Unlock(p) == DropLocks(p) /\ End(p) /\ UNCHANGED ask

\* Seen from the lock, a step of a thread is one of five.
LEMMA Moves ==
    ASSUME ActionInv, NEW p \in ActionReq,
           (\E o \in ActionOp : Perform(p, o) \/ Verify(p, o)) \/ ActionStep(p) \/ Die(p)
    PROVE  LockedMove(p) \/ FreeMove(p) \/ Unlock(p) \/ Lock(p)
<1> USE DEF LockedLabel, PerformLabel, VerifyLabel
<1>1. ASSUME NEW o \in ActionOp, Perform(p, o) PROVE FreeMove(p)
    BY <1>1 DEF Perform, FreeMove, Begin, platformVars
<1>2. ASSUME NEW o \in ActionOp, Verify(p, o) PROVE FreeMove(p)
    BY <1>2 DEF Verify, FreeMove, Begin, platformVars, ActionInv, Known
<1>3. CASE LockBusy(p)
    BY <1>3 DEF LockBusy, FreeMove, platformVars
<1>4. CASE Release(p) \/ Die(p)
    BY <1>4 DEF Release, Die, Unlock
<1>5. CASE Check(p) \/ Busy(p) \/ Insert(p)
    BY <1>5 DEF Check, Busy, Insert, Record, LockedMove, platformVars
<1>6. CASE Exec(p) \/ Poll(p) \/ FinishPerform(p) \/ Fail(p)
    BY <1>6 DEF Exec, Poll, FinishPerform, Fail, LockedMove, platformVars
<1>7. CASE VerifyOutcome(p) \/ VerifyFinish(p) \/ VerifyNot(p)
    BY <1>7 DEF VerifyOutcome, VerifyFinish, VerifyNot, LockedMove, platformVars
<1> QED BY <1>1, <1>2, <1>3, <1>4, <1>5, <1>6, <1>7 DEF ActionStep

\* Two threads inside the locked section of one account are one thread.
LEMMA OneHolder ==
    ASSUME ActionInv, NEW p \in ActionReq, NEW q \in ActionReq,
           act[p].pc \in LockedLabel, act[q].pc \in LockedLabel,
           Acct(act[p].op) = Acct(act[q].op)
    PROVE  p = q
<1>1. act[p].pc # "idle"
    BY DEF LockedLabel, PerformLabel, VerifyLabel
<1>2. Acct(act[p].op) \in Account
    BY <1>1, RequestTypes DEF ActionInv, ActionTypeOK
<1> QED BY <1>2 DEF ActionInv, LockHeld

\* A request, once made, is never changed; a new one serves no thread yet.
LEMMA SubmitKeeps ==
    ASSUME ActionInv, NEW o \in ActionOp, NEW a \in Account, NEW v \in Verb, Submit(o, a, v)
    PROVE  /\ \A p \in ActionReq : act[p].pc # "idle" => ask'[act[p].op] = ask[act[p].op]
           /\ \A x \in ActionOp : ask[x].made => ask'[x] = ask[x]
    BY DEF ActionInv, Known, Submit, ActionTypeOK

LEMMA InitInv == ActionInit => ActionInv
<1> SUFFICES ASSUME ActionInit PROVE ActionInv
    OBVIOUS
<1>1. ActionTypeOK BY InitTypes
<1>2. /\ sent = {}
      /\ \A p \in ActionReq : act[p].pc = "idle"
      /\ \A o \in ActionOp : actionOps[o].status = "absent" /\ ~actionOps[o].key
      /\ \A a \in Account : advisory[a] = NoOne
    BY DEF ActionInit, PlatformInit, Idle, NoAction
<1>3. LockHeld
    BY <1>2, PlatformAssumption, ActionAssumption
    DEF LockHeld, LockedLabel, PerformLabel, VerifyLabel
<1> QED BY <1>1, <1>2, <1>3 DEF ActionInv, Known, IssuedOnce, Working, Confirmed, Found,
                               OpenIffUnsettled, OneInDoubt

\* Every step keeps the lock's invariant: who is inside holds it.
LEMMA StepLock == ActionInv /\ [Next]_actionVars => LockHeld'
<1> SUFFICES ASSUME ActionInv, [Next]_actionVars PROVE LockHeld'
    OBVIOUS
<1> USE DEF ActionInv, ActionTypeOK, ActionThread
<1>i. "idle" \notin LockedLabel /\ "lock" \notin LockedLabel /\ "vlock" \notin LockedLabel
    BY DEF LockedLabel, PerformLabel, VerifyLabel
<1>n. \A p \in ActionReq : p # NoOne
    BY PlatformAssumption, ActionAssumption
<1>1. ASSUME NEW o \in ActionOp, NEW a \in Account, NEW v \in Verb, Submit(o, a, v)
      PROVE  LockHeld'
    <2>1. act' = act /\ advisory' = advisory BY <1>1 DEF Submit, platformVars
    <2> QED BY <1>1, <2>1, <1>i, SubmitKeeps DEF LockHeld, Acct
<1>2. ASSUME NEW p \in ActionReq, LockedMove(p) PROVE LockHeld'
    <2>1. \A q \in ActionReq : /\ act'[q].op = act[q].op
                               /\ act'[q].pc \in LockedLabel <=> act[q].pc \in LockedLabel
        BY <1>2 DEF LockedMove, Goto
    <2> QED BY <1>2, <2>1 DEF LockedMove, LockHeld, Acct
<1>3. ASSUME NEW p \in ActionReq, FreeMove(p) PROVE LockHeld'
    <2>1. act'[p].pc \notin LockedLabel /\ \A q \in ActionReq \ {p} : act'[q] = act[q]
        BY <1>3, <1>i DEF FreeMove, End, Begin, Idle
    <2> QED BY <1>3, <2>1 DEF FreeMove, LockHeld, Acct
<1>4. ASSUME NEW p \in ActionReq, Unlock(p) PROVE LockHeld'
    <2>1. act'[p].pc \notin LockedLabel /\ \A q \in ActionReq \ {p} : act'[q] = act[q]
        BY <1>4, <1>i DEF Unlock, End, Idle
    <2>2. \A a \in Account : advisory'[a] = IF advisory[a] = p THEN NoOne ELSE advisory[a]
        BY <1>4 DEF Unlock, DropLocks
    <2> QED BY <1>4, <1>n, <2>1, <2>2 DEF Unlock, LockHeld, Acct
<1>5. ASSUME NEW p \in ActionReq, Lock(p) PROVE LockHeld'
    <2> DEFINE a == Acct(act[p].op)
    <2>1. /\ act[p].pc \notin LockedLabel
          /\ act'[p].pc \in LockedLabel
          /\ act'[p].op = act[p].op
          /\ \A q \in ActionReq \ {p} : act'[q] = act[q]
        BY <1>5, <1>i DEF Lock, Goto, LockedLabel, PerformLabel, VerifyLabel
    <2>2. a \in Account
        BY <1>5, RequestTypes DEF Lock
    <2>3. /\ advisory[a] = NoOne
          /\ \A b \in Account : advisory'[b] = IF b = a THEN p ELSE advisory[b]
        BY <1>5, <2>2 DEF Lock, TakeLock, PlatformTypeOK
    <2>4. ask' = ask BY <1>5 DEF Lock
    <2>5. ASSUME NEW q \in ActionReq, NEW b \in Account
          PROVE  advisory'[b] = q <=> act'[q].pc \in LockedLabel /\ b = Acct(act'[q].op)
        <3>1. CASE q = p BY <3>1, <2>1, <2>2, <2>3, <2>4 DEF LockHeld, Acct
        <3>2. CASE q # p BY <3>2, <1>n, <2>1, <2>2, <2>3, <2>4 DEF LockHeld, Acct
        <3> QED BY <3>1, <3>2
    <2> QED BY <2>4, <2>5 DEF LockHeld, Acct
<1>6. ASSUME advisory' = advisory, act' = act, ask' = ask PROVE LockHeld'
    BY <1>6 DEF LockHeld, Acct
<1>7. CASE ActionEnv
    BY <1>7, <1>6 DEF ActionEnv, Outside, Land, Settle, Dba
<1>8. ASSUME NEW o \in ActionOp, Age(o) PROVE LockHeld'
    BY <1>8, <1>6 DEF Age
<1>9. CASE UNCHANGED actionVars
    BY <1>9, <1>6 DEF actionVars
<1>10. ASSUME NEW p \in ActionReq,
              (\E o \in ActionOp : Perform(p, o) \/ Verify(p, o)) \/ ActionStep(p) \/ Die(p)
       PROVE  LockHeld'
    <2>1. LockedMove(p) \/ FreeMove(p) \/ Unlock(p) \/ Lock(p)
        BY <1>10, Moves
    <2> QED BY <2>1, <1>2, <1>3, <1>4, <1>5
<1> QED BY <1>1, <1>7, <1>8, <1>9, <1>10 DEF Next, ActionNext

-----------------------------------------------------------------------------
(* The operations' rows.                                                   *)

\* While a thread is inside its locked section, no other thread is inside one of
\* the same account, so none works on the same operation.
LEMMA Alone ==
    ASSUME ActionInv, NEW p \in ActionReq, act[p].pc \in LockedLabel
    PROVE  \A q \in ActionReq \ {p} : act[q].pc \in LockedLabel =>
               act[q].op # act[p].op /\ Acct(act[q].op) # Acct(act[p].op)
    BY OneHolder

\* Only made requests are served and recorded, after every step.
LEMMA StepKnown == ActionInv /\ [Next]_actionVars => Known'
<1> SUFFICES ASSUME ActionInv, [Next]_actionVars PROVE Known'
    OBVIOUS
<1> USE DEF ActionInv, ActionTypeOK, ActionThread
<1>1. ASSUME NEW o \in ActionOp, NEW a \in Account, NEW v \in Verb, Submit(o, a, v)
      PROVE  Known'
    <2>1. \A x \in ActionOp : ask'[x].made <=> x = o \/ ask[x].made
        BY <1>1 DEF Submit
    <2> QED BY <1>1, <2>1 DEF Submit, Known, platformVars
<1>2. ASSUME NEW p \in ActionReq, NEW o \in ActionOp, Perform(p, o) \/ Verify(p, o) PROVE Known'
    BY <1>2 DEF Perform, Verify, Begin, Known, platformVars
<1>3. ASSUME NEW p \in ActionReq, act[p].pc # "idle", End(p) \/ \E l \in ActionLabel : Goto(p, l),
             ask' = ask,
             \A o \in ActionOp : actionOps'[o].status # "absent" =>
                 actionOps[o].status # "absent" \/ o = act[p].op
      PROVE  Known'
    BY <1>3 DEF End, Idle, Goto, Known
<1>l. \A l \in LockedLabel \cup {"idle", "lock", "vlock"} : l \in ActionLabel
    BY DEF ActionLabel
<1>4. ASSUME NEW p \in ActionReq, Lock(p) \/ LockBusy(p) \/ Release(p) \/ Die(p) PROVE Known'
    BY <1>4, <1>3, <1>l DEF Lock, LockBusy, Release, Die, platformVars, LockedLabel, PerformLabel,
                            VerifyLabel
<1>5. ASSUME NEW p \in ActionReq, Check(p) \/ Busy(p) \/ Exec(p) \/ Poll(p) \/ VerifyOutcome(p)
      PROVE  Known'
    BY <1>5, <1>3, <1>l DEF Check, Busy, Exec, Poll, VerifyOutcome, platformVars, LockedLabel,
                            PerformLabel, VerifyLabel
<1>6. ASSUME NEW p \in ActionReq,
             Insert(p) \/ FinishPerform(p) \/ Fail(p) \/ VerifyFinish(p) \/ VerifyNot(p)
      PROVE  Known'
    <2>1. act[p].pc # "idle" /\ act[p].op \in ActionOp /\ ask' = ask
          /\ \E l \in ActionLabel : Goto(p, l)
        BY <1>6, <1>l DEF Insert, Record, FinishPerform, Fail, VerifyFinish, VerifyNot, LockedLabel,
                          PerformLabel, VerifyLabel
    <2>2. \A o \in ActionOp : o # act[p].op => actionOps'[o] = actionOps[o]
        BY <1>6, <2>1 DEF Insert, Record, FinishPerform, Fail, VerifyFinish, VerifyNot, Finish,
                          PlatformTypeOK
    <2> QED BY <1>3, <2>1, <2>2
<1>7. ASSUME NEW o \in ActionOp, Age(o) PROVE Known'
    BY <1>7 DEF Age, Known, PlatformTypeOK, ActionRow
<1>8. ASSUME act' = act, ask' = ask, actionOps' = actionOps PROVE Known'
    BY <1>8 DEF Known
<1>9. CASE ActionEnv
    BY <1>9, <1>8 DEF ActionEnv, Outside, Land, Settle, Dba
<1>10. CASE UNCHANGED actionVars
    BY <1>10, <1>8 DEF actionVars
<1> QED BY <1>1, <1>2, <1>4, <1>5, <1>6, <1>7, <1>9, <1>10 DEF Next, ActionNext, ActionStep

RowInv == IssuedOnce /\ Working /\ OpenIffUnsettled /\ OneInDoubt

\* A step that keeps every row, issues nothing and only moves threads that are not
\* on their way from the insertion to the outcome keeps what is said of the rows.
LEMMA QuietRows ==
    ASSUME ActionInv, actionOps' = actionOps, sent' = sent,
           \A q \in ActionReq : act'[q].pc \in {"exec", "poll", "finish", "fail"} =>
               /\ act'[q].op = act[q].op
               /\ act[q].pc \in {"exec", "poll", "finish", "fail"}
               /\ act'[q].pc = "exec" => act[q].pc = "exec"
    PROVE  RowInv'
    BY DEF ActionInv, RowInv, IssuedOnce, Working, OpenIffUnsettled, OneInDoubt

\* Every step keeps what is said of the operations' rows.
LEMMA StepRows == ActionInv /\ [Next]_actionVars => RowInv'
<1> SUFFICES ASSUME ActionInv, [Next]_actionVars PROVE RowInv'
    OBVIOUS
<1>t. ActionTypeOK BY DEF ActionInv
<1> USE DEF ActionTypeOK, ActionThread
<1>l. \A p \in ActionReq : act[p].pc \in {"exec", "poll", "finish", "fail", "insert", "vfinish", "vnot"}
          => act[p].pc \in LockedLabel /\ act[p].op \in ActionOp
    BY <1>t DEF LockedLabel, PerformLabel, VerifyLabel
<1>1. ASSUME act' = act, actionOps' = actionOps, sent' = sent PROVE RowInv'
    BY <1>1, QuietRows
<1>2. ASSUME NEW o \in ActionOp, NEW a \in Account, NEW v \in Verb, Submit(o, a, v)
      PROVE  RowInv'
    BY <1>2, <1>1 DEF Submit, platformVars
<1>3. ASSUME NEW p \in ActionReq, NEW o \in ActionOp, Perform(p, o) \/ Verify(p, o)
      PROVE  RowInv'
    BY <1>3, <1>t, QuietRows DEF Perform, Verify, Begin, platformVars
<1>4. ASSUME NEW p \in ActionReq, Lock(p) \/ LockBusy(p) \/ Release(p) \/ Die(p) PROVE RowInv'
    BY <1>4, <1>t, QuietRows DEF Lock, LockBusy, Release, Die, Goto, End, Idle, platformVars
<1>5. ASSUME NEW p \in ActionReq, Check(p) \/ Busy(p) \/ Poll(p) \/ VerifyOutcome(p)
      PROVE  RowInv'
    BY <1>5, <1>t, QuietRows DEF Check, Busy, Poll, VerifyOutcome, Goto, platformVars
<1>6. ASSUME NEW p \in ActionReq, Insert(p) PROVE RowInv'
    <2> DEFINE o == act[p].op
    <2>1. o \in ActionOp BY <1>6, <1>l DEF Insert, Record
    <2>2. CASE actionOps' = actionOps /\ Goto(p, "release")
        BY <1>6, <2>2, <1>t, QuietRows DEF Insert, Record, Goto
    <2>3. ASSUME actionOps[o].status = "absent", PendingActions(Acct(o)) = {}, Goto(p, "exec"),
                 actionOps' = [actionOps EXCEPT ![o] =
                     [status |-> "applying", acct |-> Acct(o), key |-> TRUE,
                      ident |-> ask[o].rev.ident, aged |-> FALSE]]
          PROVE  RowInv'
        <3>1. /\ \A x \in ActionOp \ {o} : actionOps'[x] = actionOps[x]
              /\ actionOps'[o].status = "applying" /\ actionOps'[o].key
              /\ actionOps'[o].acct = Acct(o)
            BY <2>1, <2>3, <1>t DEF PlatformTypeOK
        <3>2. /\ act'[p].pc = "exec" /\ act'[p].op = o
              /\ \A q \in ActionReq \ {p} : act'[q] = act[q]
            BY <2>3, <1>t DEF Goto
        <3>3. sent' = sent /\ sent \subseteq ActionOp BY <1>6, <1>t DEF Insert, Record
        <3>4. IssuedOnce'
            BY <2>3, <3>1, <3>2, <3>3 DEF ActionInv, IssuedOnce
        <3>5. Working'
            BY <1>l, <3>1, <3>2 DEF ActionInv, Working
        <3>6. OpenIffUnsettled'
            BY <2>1, <3>1 DEF ActionInv, OpenIffUnsettled
        <3>7. \A x \in ActionOp \ {o} : actionOps[x].key => actionOps[x].acct # Acct(o)
            BY <2>3 DEF PendingActions
        <3>8. OneInDoubt'
            BY <2>1, <3>1, <3>7 DEF ActionInv, OneInDoubt
        <3> QED BY <3>4, <3>5, <3>6, <3>8 DEF RowInv
    <2> QED BY <1>6, <2>2, <2>3 DEF Insert, Record
<1>7. ASSUME NEW p \in ActionReq, Exec(p) PROVE RowInv'
    <2>1. act[p].pc = "exec" /\ act[p].op \in ActionOp BY <1>7, <1>l DEF Exec
    <2>2. /\ act'[p].pc \in {"poll", "fail"} /\ act'[p].op = act[p].op
          /\ \A q \in ActionReq \ {p} : act'[q] = act[q]
        BY <1>7, <1>t DEF Exec, Goto
    <2>3. actionOps' = actionOps /\ sent' = sent \cup {act[p].op} BY <1>7 DEF Exec
    <2>4. \A q \in ActionReq \ {p} : act[q].pc = "exec" => act[q].op # act[p].op
        BY <2>1, <1>l, Alone
    <2>5. IssuedOnce'
        BY <2>1, <2>2, <2>3, <2>4 DEF ActionInv, IssuedOnce, Working
    <2>6. Working'
        BY <2>1, <2>2, <2>3 DEF ActionInv, Working
    <2> QED BY <2>3, <2>5, <2>6 DEF ActionInv, RowInv, OpenIffUnsettled, OneInDoubt
<1>8. ASSUME NEW p \in ActionReq, act[p].pc \in {"finish", "fail", "vfinish", "vnot"},
             Goto(p, "release"), sent' = sent,
             actionOps' \in [ActionOp -> ActionRow],
             \A x \in ActionOp \ {act[p].op} : actionOps'[x] = actionOps[x],
             actionOps'[act[p].op].acct = actionOps[act[p].op].acct,
             actionOps'[act[p].op].status # "absent",
             actionOps'[act[p].op].key <=>
                 actionOps'[act[p].op].status \in {"applying", "uncertain"},
             actionOps'[act[p].op].key => actionOps[act[p].op].key
      PROVE  RowInv'
    <2>1. act[p].op \in ActionOp BY <1>8, <1>l
    <2>2. /\ act'[p].pc = "release" /\ \A q \in ActionReq \ {p} : act'[q] = act[q]
        BY <1>8, <1>t DEF Goto
    <2>3. \A q \in ActionReq \ {p} :
              act[q].pc \in {"exec", "poll", "finish", "fail"} => act[q].op # act[p].op
        BY <1>8, <1>l, Alone
    <2>4. IssuedOnce'
        BY <1>8, <1>t, <2>2 DEF ActionInv, IssuedOnce
    <2>5. Working'
        BY <1>8, <1>l, <2>2, <2>3 DEF ActionInv, Working
    <2>6. OpenIffUnsettled'
        BY <1>8, <2>1 DEF ActionInv, OpenIffUnsettled
    <2>7. OneInDoubt'
        BY <1>8, <2>1 DEF ActionInv, OneInDoubt
    <2> QED BY <2>4, <2>5, <2>6, <2>7 DEF RowInv
<1>9. ASSUME NEW p \in ActionReq, FinishPerform(p) \/ VerifyFinish(p) PROVE RowInv'
    <2>1. act[p].op \in ActionOp /\ actionOps[act[p].op] \in ActionRow
        BY <1>9, <1>l, <1>t DEF FinishPerform, VerifyFinish, PlatformTypeOK
    <2>2. ASSUME Finish(act[p].op), Goto(p, "release") PROVE RowInv'
        <3>1. actionOps' \in [ActionOp -> ActionRow] BY <2>1, <2>2, <1>t, FinishTypes
        <3>2. /\ \A x \in ActionOp \ {act[p].op} : actionOps'[x] = actionOps[x]
              /\ actionOps'[act[p].op].acct = actionOps[act[p].op].acct
              /\ actionOps'[act[p].op].status = "succeeded"
              /\ actionOps'[act[p].op].key = FALSE
            BY <2>1, <2>2, <1>t DEF Finish, PlatformTypeOK, ActionRow
        <3> QED BY <1>8, <1>9, <2>2, <3>1, <3>2 DEF FinishPerform, VerifyFinish
    <2>3. ASSUME Goto(p, "fail"), UNCHANGED actionOps, act[p].pc = "finish", sent' = sent
          PROVE  RowInv'
        BY <2>3, <1>t, QuietRows DEF Goto
    <2> QED BY <1>9, <2>2, <2>3 DEF FinishPerform, VerifyFinish
<1>10. ASSUME NEW p \in ActionReq, Fail(p) PROVE RowInv'
    <2>1. act[p].op \in ActionOp /\ actionOps[act[p].op] \in ActionRow
        BY <1>10, <1>l, <1>t DEF Fail, PlatformTypeOK
    <2>2. actionOps[act[p].op].status = "applying" /\ actionOps[act[p].op].key
        BY <1>10, <2>1 DEF Fail, ActionInv, Working, OpenIffUnsettled
    <2>3. /\ \A x \in ActionOp \ {act[p].op} : actionOps'[x] = actionOps[x]
          /\ actionOps'[act[p].op].acct = actionOps[act[p].op].acct
          /\ actionOps'[act[p].op].status = "uncertain"
          /\ actionOps'[act[p].op].key
        BY <1>10, <2>1, <2>2, <1>t DEF Fail, PlatformTypeOK, ActionRow
    <2>4. actionOps' \in [ActionOp -> ActionRow]
        BY <1>t, StepTypes DEF ActionInv, PlatformTypeOK
    <2> QED BY <1>8, <1>10, <2>2, <2>3, <2>4 DEF Fail
<1>11. ASSUME NEW p \in ActionReq, VerifyNot(p) PROVE RowInv'
    <2>1. act[p].op \in ActionOp /\ actionOps[act[p].op] \in ActionRow
        BY <1>11, <1>l, <1>t DEF VerifyNot, PlatformTypeOK
    <2>2. /\ \A x \in ActionOp \ {act[p].op} : actionOps'[x] = actionOps[x]
          /\ actionOps'[act[p].op].acct = actionOps[act[p].op].acct
          /\ actionOps'[act[p].op].status = "not_applied"
          /\ actionOps'[act[p].op].key = FALSE
        BY <1>11, <2>1, <1>t DEF VerifyNot, PlatformTypeOK, ActionRow
    <2>3. actionOps' \in [ActionOp -> ActionRow]
        BY <1>t, StepTypes DEF ActionInv, PlatformTypeOK
    <2> QED BY <1>8, <1>11, <2>2, <2>3 DEF VerifyNot
<1>12. ASSUME NEW o \in ActionOp, Age(o) PROVE RowInv'
    <2>1. \A x \in ActionOp : /\ actionOps'[x].status = actionOps[x].status
                              /\ actionOps'[x].key = actionOps[x].key
                              /\ actionOps'[x].acct = actionOps[x].acct
        BY <1>12, <1>t DEF Age, PlatformTypeOK, ActionRow
    <2>2. act' = act /\ sent' = sent /\ sent \subseteq ActionOp BY <1>12, <1>t DEF Age
    <2> QED BY <2>1, <2>2, <1>l DEF ActionInv, RowInv, IssuedOnce, Working, OpenIffUnsettled, OneInDoubt
<1>13. CASE ActionEnv
    BY <1>13, <1>1 DEF ActionEnv, Outside, Land, Settle, Dba
<1>14. CASE UNCHANGED actionVars
    BY <1>14, <1>1 DEF actionVars
<1> QED BY <1>2, <1>3, <1>4, <1>5, <1>6, <1>7, <1>9, <1>10, <1>11, <1>12, <1>13, <1>14
        DEF Next, ActionNext, ActionStep

-----------------------------------------------------------------------------
(* What a thread has seen of its account.                                  *)

Seen(q) ==
    LET a == Acct(act[q].op) IN
    /\ act[q].pc \in {"busy", "insert", "exec"} =>
           a \in touched \/ Identity(server[a]) = ask[act[q].op].rev.ident
    /\ act[q].pc \in {"finish", "vfinish"} => a \in touched \/ Reached(act[q].op)

LEMMA SeenDef ==
    /\ ActionInv => \A q \in ActionReq : Seen(q)
    /\ (\A q \in ActionReq : Seen(q))' => Confirmed' /\ Found'
    BY DEF ActionInv, Confirmed, Found, Seen

\* A thread whose request and operation stay, and whose account stays or is noted
\* as touched, keeps what it has seen.
LEMMA Undisturbed ==
    ASSUME ActionInv, NEW q \in ActionReq, act'[q] = act[q],
           ask'[act[q].op] = ask[act[q].op],
           actionOps'[act[q].op].ident = actionOps[act[q].op].ident,
           Acct(act[q].op) \in touched => Acct(act[q].op) \in touched',
           \/ Acct(act[q].op) \in touched'
           \/ /\ Identity(server[Acct(act[q].op)])' = Identity(server[Acct(act[q].op)])
              /\ server'[Acct(act[q].op)].live = server[Acct(act[q].op)].live
              /\ server[Acct(act[q].op)].lock = "locked" => server'[Acct(act[q].op)].lock = "locked"
    PROVE  Seen(q)'
<1> DEFINE o == act[q].op
           a == Acct(o)
<1>1. act'[q].op = o /\ Acct(o)' = a
    BY DEF Acct
<1>2. Seen(q)
    BY SeenDef
<1>3. CASE a \in touched'
    BY <1>1, <1>3 DEF Seen, Acct
<1>4. CASE /\ a \notin touched'
           /\ Identity(server[a])' = Identity(server[a])
           /\ server'[a].live = server[a].live
           /\ server[a].lock = "locked" => server'[a].lock = "locked"
    <2>1. Identity(server'[a]) = Identity(server[a])
        BY <1>1, <1>4 DEF Identity, Acct
    <2>2. Reached(o) => Reached(o)'
        BY <1>1, <1>4, <2>1 DEF Reached, Gone, Recognised, Acct
    <2> QED BY <1>1, <1>2, <1>4, <2>1, <2>2 DEF Seen, Acct
<1> QED BY <1>3, <1>4

\* The steps that touch neither the server nor what was noted of it.
LEMMA Quiet ==
    ASSUME ActionInv, NEW q \in ActionReq, act'[q] = act[q],
           ask'[act[q].op] = ask[act[q].op],
           actionOps'[act[q].op].ident = actionOps[act[q].op].ident,
           server' = server, Acct(act[q].op) \in touched => Acct(act[q].op) \in touched'
    PROVE  Seen(q)'
<1>1. Identity(server[Acct(act[q].op)])' = Identity(server[Acct(act[q].op)])
    BY DEF Identity, Acct
<1> QED BY <1>1, Undisturbed

\* Outside the backend an account changes only when nobody holds its lock, or with
\* a note of it, except that a disabling takes effect.
LEMMA OutsideSeen ==
    ASSUME ActionInv, Outside, UNCHANGED <<ask, act, actionOps>>,
           NEW q \in ActionReq
    PROVE  Seen(q)'
<1> DEFINE a == Acct(act[q].op)
<1> USE DEF ActionInv, ActionTypeOK, PlatformTypeOK
<1>0. CASE act[q].pc \notin LockedLabel
    BY <1>0 DEF Seen, LockedLabel, PerformLabel, VerifyLabel
<1>1. CASE act[q].pc \in LockedLabel
    <2>1. act[q].op \in ActionOp /\ a \in Account
        <3>1. act[q].pc # "idle" BY <1>1 DEF LockedLabel, PerformLabel, VerifyLabel
        <3> QED BY <3>1, RequestTypes
    <2>2. advisory[a] # NoOne
        BY <1>1, <2>1, PlatformAssumption, ActionAssumption DEF LockHeld
    <2>3. /\ touched \subseteq touched'
          /\ \/ a \in touched'
             \/ /\ server'[a].live = server[a].live /\ server'[a].inc = server[a].inc
                /\ server'[a].mark = server[a].mark /\ server'[a].grants = server[a].grants
                /\ server[a].lock = "locked" => server'[a].lock = "locked"
        <3> HIDE DEF PlatformTypeOK
        <3> QED BY <2>1, <2>2, OutsideNoted
    <2>4. a \in touched' \/ Identity(server[a])' = Identity(server[a])
        BY <2>3 DEF Identity, Acct
    <2> QED BY <2>3, <2>4, Undisturbed
<1> QED BY <1>0, <1>1

\* A thread other than the one that moves keeps what it has seen.
LEMMA OthersSeen ==
    ASSUME ActionInv, NEW p \in ActionReq, NEW q \in ActionReq, p # q,
           (\E o \in ActionOp : Perform(p, o) \/ Verify(p, o)) \/ ActionStep(p) \/ Die(p)
    PROVE  Seen(q)'
<1> USE DEF ActionInv, ActionTypeOK
<1> DEFINE a == Acct(act[q].op)
<1>1. act'[q] = act[q] /\ ask' = ask
    BY Moves DEF LockedMove, FreeMove, Unlock, Lock, Goto, End, Begin
<1>0. CASE act[q].pc \notin LockedLabel
    BY <1>0, <1>1 DEF Seen, LockedLabel, PerformLabel, VerifyLabel
<1>2. CASE act[q].pc \in LockedLabel
    <2>1. act[q].op \in ActionOp /\ a \in Account /\ advisory[a] = q
        <3>1. act[q].pc # "idle" BY <1>2 DEF LockedLabel, PerformLabel, VerifyLabel
        <3>2. act[q].op \in ActionOp BY <3>1
        <3>3. a \in Account BY <3>2, RequestTypes
        <3> QED BY <1>2, <3>2, <3>3 DEF LockHeld
    <2>2. act[p].pc \in LockedLabel => act[p].op # act[q].op /\ Acct(act[p].op) # a
        BY <1>2, Alone
    <2>3. a \in touched => a \in touched'
        BY <2>1, Moves DEF LockedMove, FreeMove, Unlock, Lock, TakeLock, DropLocks
    <2>4. actionOps'[act[q].op].ident = actionOps[act[q].op].ident
        <3>1. CASE Insert(p) \/ FinishPerform(p) \/ Fail(p) \/ VerifyFinish(p) \/ VerifyNot(p)
            <4>1. act[p].op # act[q].op
                BY <2>2, <3>1 DEF Insert, Record, FinishPerform, Fail, VerifyFinish, VerifyNot, LockedLabel,
                                  PerformLabel, VerifyLabel
            <4> QED BY <3>1, <4>1, <2>1 DEF Insert, Record, FinishPerform, Fail, VerifyFinish, VerifyNot,
                                            Finish, PlatformTypeOK
        <3>2. CASE actionOps' = actionOps BY <3>2
        <3> QED BY <3>1, <3>2 DEF Perform, Verify, ActionStep, Die, Lock, LockBusy, Check, Busy, Exec,
                                  Poll, VerifyOutcome, Release, platformVars
    <2>5. CASE server' = server
        BY <1>1, <2>3, <2>4, <2>5, Quiet
    <2>6. CASE Exec(p)
        <3>1. act[p].pc \in LockedLabel /\ act[p].op \in ActionOp
            BY <2>6 DEF Exec, LockedLabel, PerformLabel, VerifyLabel
        <3>2. Issues(act[p].op).acct # a /\ Issues(act[p].op).acct \in Account
            BY <2>2, <3>1, RequestTypes DEF Issues, Statement
        <3>3. server'[a] = server[a]
            BY <2>1, <2>6, <3>2 DEF Exec, Executes, Fails, Apply, PlatformTypeOK
        <3>4. Identity(server[a])' = Identity(server[a]) BY <1>1, <3>3 DEF Identity, Acct
        <3> QED BY <1>1, <2>3, <2>4, <3>3, <3>4, Undisturbed
    <2> QED BY <2>5, <2>6 DEF Perform, Verify, ActionStep, Die, Lock, LockBusy, Check, Busy, Insert, Record,
                              Poll, FinishPerform, Fail, VerifyOutcome, VerifyFinish, VerifyNot,
                              Release, platformVars
<1> QED BY <1>0, <1>2

\* The thread that moves sees the account where the code looks at it.
LEMMA OwnSeen ==
    ASSUME ActionInv, NEW p \in ActionReq,
           (\E o \in ActionOp : Perform(p, o) \/ Verify(p, o)) \/ ActionStep(p) \/ Die(p)
    PROVE  Seen(p)'
<1> USE DEF ActionInv, ActionTypeOK, ActionThread
<1>0. Seen(p) BY SeenDef
<1>1. CASE (\E o \in ActionOp : Perform(p, o) \/ Verify(p, o)) \/ Lock(p) \/ LockBusy(p)
           \/ Exec(p) \/ Fail(p) \/ VerifyFinish(p) \/ VerifyNot(p) \/ Release(p) \/ Die(p)
           \/ FinishPerform(p)
    <2>1. act'[p].pc \notin {"busy", "insert", "exec", "finish", "vfinish"}
        BY <1>1 DEF Perform, Verify, Lock, LockBusy, Exec, Fail, VerifyFinish, VerifyNot, Release,
                    Die, FinishPerform, Begin, Goto, End, Idle
    <2> QED BY <2>1 DEF Seen
<1>2. CASE Check(p) \/ Busy(p) \/ Insert(p)
    <2>1. /\ act'[p].op = act[p].op
          /\ act'[p].pc \in {"busy", "insert", "exec", "release"}
          /\ act[p].pc \in {"busy", "insert"} \/ act'[p].pc = "release"
             \/ Revision(server[Acct(act[p].op)]) = ask[act[p].op].rev
          /\ UNCHANGED <<server, touched, ask>>
        BY <1>2 DEF Check, Busy, Insert, Record, Goto, platformVars
    <2>2. \/ act'[p].pc = "release"
          \/ Acct(act[p].op) \in touched
          \/ Identity(server[Acct(act[p].op)]) = ask[act[p].op].rev.ident
        BY <1>0, <2>1 DEF Seen, Revision
    <2> QED BY <2>1, <2>2 DEF Seen, Acct, Identity
<1>3. CASE Poll(p) \/ VerifyOutcome(p)
    <2>1. /\ act'[p].op = act[p].op
          /\ act'[p].pc \in {"finish", "fail", "vfinish", "vnot", "release"}
          /\ act'[p].pc \in {"finish", "vfinish"} => Reached(act[p].op)
          /\ UNCHANGED <<server, touched, ask, actionOps>>
        BY <1>3 DEF Poll, VerifyOutcome, Goto, platformVars
    <2>2. act'[p].pc \in {"finish", "vfinish"} => Reached(act[p].op)'
        BY <2>1 DEF Reached, Gone, Recognised, Acct, Identity
    <2> QED BY <2>1, <2>2 DEF Seen
<1> QED BY <1>1, <1>2, <1>3 DEF ActionStep

LEMMA StepSeen == ActionInv /\ [Next]_actionVars => Confirmed' /\ Found'
<1> SUFFICES ASSUME ActionInv, [Next]_actionVars, NEW q \in ActionReq PROVE Seen(q)'
    BY SeenDef
<1> USE DEF ActionInv, ActionTypeOK, PlatformTypeOK
<1>1. ASSUME NEW o \in ActionOp, NEW a \in Account, NEW v \in Verb, Submit(o, a, v)
      PROVE  Seen(q)'
    <2>1. CASE act[q].pc = "idle"
        BY <1>1, <2>1 DEF Submit, Seen
    <2>2. CASE act[q].pc # "idle"
        BY <1>1, <2>2, SubmitKeeps, Quiet DEF Submit, platformVars
    <2> QED BY <2>1, <2>2
<1>2. ASSUME NEW p \in ActionReq,
             (\E o \in ActionOp : Perform(p, o) \/ Verify(p, o)) \/ ActionStep(p) \/ Die(p)
      PROVE  Seen(q)'
    BY <1>2, OthersSeen, OwnSeen
<1>3. ASSUME NEW o \in ActionOp, Age(o) PROVE Seen(q)'
    <2>1. \A x \in ActionOp : actionOps'[x].ident = actionOps[x].ident
        BY <1>3 DEF Age, ActionRow
    <2>2. CASE act[q].pc = "idle"
        BY <1>3, <2>2 DEF Age, Seen
    <2>3. CASE act[q].pc # "idle"
        BY <1>3, <2>1, <2>3, Quiet DEF Age
    <2> QED BY <2>2, <2>3
<1>4. CASE ActionEnv
    BY <1>4, OutsideSeen DEF ActionEnv, Outside, Land, Settle, Dba
<1>5. CASE UNCHANGED actionVars
    BY <1>5, Quiet DEF actionVars
<1> QED BY <1>1, <1>2, <1>3, <1>4, <1>5 DEF Next, ActionNext

-----------------------------------------------------------------------------
(* The theorems.                                                           *)

LEMMA ActionStepInv == ActionInv /\ [Next]_actionVars => ActionInv'
BY StepTypes, StepKnown, StepLock, StepRows, StepSeen DEF ActionInv, RowInv

\* The inductive invariant holds in every reachable state.
THEOREM Invariant == Spec => []ActionInv
BY InitInv, ActionStepInv, PTL DEF Spec

\* account_change_lock serialises the requests on an account: the thread inside is
\* the holder of its lock and the only one.
THEOREM MutualExclusion == Spec => []LockHeld
<1>1. ActionInv => LockHeld BY DEF ActionInv
<1> QED BY <1>1, Invariant, PTL

LEMMA Once == ActionInv => NeverReissued
<1> SUFFICES ASSUME ActionInv, NEW p \in ActionReq, act[p].pc = "exec"
             PROVE  /\ act[p].op \notin sent
                    /\ \A q \in ActionReq \ {p} : act[q].pc = "exec" => act[q].op # act[p].op
    BY DEF NeverReissued
<1>1. act[p].op \notin sent BY DEF ActionInv, IssuedOnce
<1>2. \A q \in ActionReq \ {p} : act[q].pc = "exec" => act[q].op # act[p].op
    BY Alone DEF LockedLabel, PerformLabel
<1> QED BY <1>1, <1>2

\* However often a request is retried, interrupted and verified, its statement is
\* issued at most once.
THEOREM AtMostOnce == Spec => []NeverReissued
BY Once, Invariant, PTL

\* An operation occupies its account exactly as long as its result is open.
THEOREM Occupation == Spec => []OpenIffUnsettled
<1>1. ActionInv => OpenIffUnsettled BY DEF ActionInv
<1> QED BY <1>1, Invariant, PTL

\* No two operations have one account in doubt.
THEOREM SingleDoubt == Spec => []OneInDoubt
<1>1. ActionInv => OneInDoubt BY DEF ActionInv
<1> QED BY <1>1, Invariant, PTL

\* DROP USER and the disabling statement meet the account that was previewed.
THEOREM MeetsPreview == Spec => ConfirmedAccount
<1>1. ActionInv /\ [Next]_actionVars =>
        [\A p \in ActionReq : act[p].pc = "exec" /\ act'[p] # act[p] /\ server' # server =>
             LET a == Acct(act[p].op) IN
             a \in touched \/ Identity(server[a]) = ask[act[p].op].rev.ident]_actionVars
    BY DEF ActionInv, Confirmed
<1> QED BY <1>1, Invariant, PTL DEF Spec, ConfirmedAccount

\* A step that records a success has found its effect.
LEMMA SuccessSeen ==
    ASSUME ActionInv, Next, NEW o \in ActionOp,
           actionOps[o].status # "succeeded", actionOps'[o].status = "succeeded"
    PROVE  Acct(o) \in touched \/ Reached(o)
<1> USE DEF ActionInv, ActionTypeOK, PlatformTypeOK
<1>1. \E p \in ActionReq : FinishPerform(p) \/ VerifyFinish(p)
    <2>1. CASE actionOps' = actionOps BY <2>1
    <2>2. ASSUME NEW x \in ActionOp, Age(x) PROVE FALSE
        BY <2>2 DEF Age, ActionRow
    <2>3. ASSUME NEW p \in ActionReq, Insert(p) \/ Fail(p) \/ VerifyNot(p) PROVE FALSE
        <3>p. act[p].pc # "idle"
            BY <2>3 DEF Insert, Record, Fail, VerifyNot
        <3>1. act[p].op \in ActionOp
            BY <3>p
        <3> HIDE DEF ActionInv, PlatformTypeOK
        <3>2. actionOps[act[p].op] \in ActionRow
            BY <3>1 DEF ActionInv, PlatformTypeOK
        <3>3. actionOps' # actionOps OBVIOUS
        <3>4. actionOps \in [ActionOp -> ActionRow]
            BY DEF ActionInv, PlatformTypeOK
        <3>5. CASE Insert(p)
            BY <3>3, <3>4, <3>5 DEF Insert, Record
        <3>6. CASE Fail(p)
            BY <3>2, <3>3, <3>4, <3>6 DEF Fail, ActionRow
        <3>7. CASE VerifyNot(p)
            BY <3>2, <3>3, <3>4, <3>7 DEF VerifyNot, ActionRow
        <3> QED BY <2>3, <3>5, <3>6, <3>7
    <2> QED BY <2>1, <2>2, <2>3 DEF Next, ActionNext, ActionEnv, ActionStep, Outside, Land,
            Settle, Dba, Submit, Perform, Verify, Die, Lock, LockBusy, Check, Busy, Exec, Poll,
            VerifyOutcome, Release, platformVars
<1>2. PICK p \in ActionReq : FinishPerform(p) \/ VerifyFinish(p) BY <1>1
<1>3. act[p].pc \in {"finish", "vfinish"} /\ o = act[p].op
    BY <1>2 DEF FinishPerform, VerifyFinish, Finish
<1>4. Found BY DEF ActionInv
<1> HIDE DEF ActionInv, ActionTypeOK, PlatformTypeOK
<1> QED BY <1>2, <1>3, <1>4 DEF Found

\* An operation recorded as succeeded had its effect.
THEOREM SuccessIsReal == Spec => SucceededIsTrue
<1>1. ActionInv /\ [Next]_actionVars =>
        [\A o \in ActionOp : actionOps[o].status # "succeeded" /\ actionOps'[o].status = "succeeded"
             => Acct(o) \in touched \/ Reached(o)]_actionVars
    BY SuccessSeen
<1> QED BY <1>1, Invariant, PTL DEF Spec, SucceededIsTrue

-----------------------------------------------------------------------------
(* Beside the other handlers.                                              *)

\* Whoever spares the accounts that the requests have locked, and leaves their
\* operations alone, keeps what they rely on.
LEMMA ActionBeside ==
    ASSUME ActionInv, PlatformTypeOK', UNCHANGED <<ask, act, sent, actionOps>>, Spares(ActionReq)
    PROVE  ActionInv'
<1>1. ActionTypeOK' BY DEF ActionInv, ActionTypeOK
<1>2. Known' /\ IssuedOnce' /\ Working' /\ OpenIffUnsettled' /\ OneInDoubt'
    BY DEF ActionInv, Known, IssuedOnce, Working, OpenIffUnsettled, OneInDoubt
<1>3. LockHeld' BY DEF ActionInv, LockHeld, Spares, Acct
<1>4. ASSUME NEW q \in ActionReq PROVE Seen(q)'
    <2> DEFINE a == Acct(act[q].op)
    <2>1. CASE act[q].pc \notin LockedLabel
        BY <2>1 DEF Seen, LockedLabel, PerformLabel, VerifyLabel
    <2>2. CASE act[q].pc \in LockedLabel
        <3>1. act[q].pc # "idle" BY <2>2 DEF LockedLabel, PerformLabel, VerifyLabel
        <3>2. act[q].op \in ActionOp BY <3>1 DEF ActionInv, ActionTypeOK
        <3>3. a \in Account BY <3>2, RequestTypes DEF ActionInv
        <3>4. advisory[a] = q BY <2>2, <3>3 DEF ActionInv, LockHeld
        <3>5. /\ a \in touched => a \in touched'
              /\ \/ a \in touched'
                 \/ /\ server'[a].live = server[a].live /\ server'[a].inc = server[a].inc
                    /\ server'[a].mark = server[a].mark /\ server'[a].grants = server[a].grants
                    /\ server[a].lock = "locked" => server'[a].lock = "locked"
            BY <3>3, <3>4 DEF Spares
        <3>6. a \in touched' \/ Identity(server[a])' = Identity(server[a])
            BY <3>5 DEF Identity, Acct
        <3> QED BY <3>5, <3>6, Undisturbed
    <2> QED BY <2>1, <2>2
<1> QED BY <1>1, <1>2, <1>3, <1>4, SeenDef DEF ActionInv

\* The requests themselves spare the accounts that others have locked.
LEMMA ActionsSpare ==
    ASSUME ActionInv, ActionNext, NEW T \in SUBSET (Thread \ ActionReq)
    PROVE  Spares(T)
<1>0. ActionTypeOK /\ PlatformTypeOK /\ T \in SUBSET Thread BY DEF ActionInv, ActionTypeOK
<1>1. CASE server' = server /\ advisory' = advisory /\ touched' = touched
    BY <1>0, <1>1, IdleNoted, NotedSpares
<1>2. ASSUME NEW p \in ActionReq, Lock(p) \/ Release(p) \/ Die(p) PROVE Spares(T)
    <2>1. p \in Thread /\ T \in SUBSET (Thread \ {p}) BY ActionAssumption
    <2>2. act[p].pc # "idle" BY <1>2 DEF Lock, Release, Die
    <2>3. Acct(act[p].op) \in Account BY <1>0, <2>2, RequestTypes DEF ActionTypeOK
    <2>4. server' = server /\ (TakeLock(p, Acct(act[p].op)) \/ DropLocks(p))
        BY <1>2 DEF Lock, Release, Die
    <2> QED BY <1>0, <2>1, <2>3, <2>4, LockSpares
<1>3. ASSUME NEW p \in ActionReq, Exec(p) PROVE Spares(T)
    <2> DEFINE a == Acct(act[p].op)
    <2>1. act[p].pc = "exec" /\ act[p].op \in ActionOp BY <1>0, <1>3 DEF Exec, ActionTypeOK
    <2>2. a \in Account BY <1>0, <2>1, RequestTypes
    <2>3. advisory[a] = p BY <2>1, <2>2 DEF ActionInv, LockHeld, LockedLabel, PerformLabel
    <2>4. Issues(act[p].op) \in StatementType /\ Issues(act[p].op).acct = a
        BY <2>2 DEF Issues, Statement, StatementType
    <2>5. \A b \in Account \ {a} : server'[b] = server[b]
        <3>1. CASE server' = server BY <3>1
        <3>2. CASE Executes(Issues(act[p].op)) \/ Fails(Issues(act[p].op))
            BY <1>0, <2>4, <3>2, StatementLocal
        <3> QED BY <1>3, <3>1, <3>2 DEF Exec
    <2>6. advisory' = advisory /\ touched' = touched BY <1>3 DEF Exec
    <2> QED BY <2>2, <2>3, <2>5, <2>6 DEF Spares
<1> QED BY <1>1, <1>2, <1>3 DEF ActionNext, ActionStep, Submit, Perform, Verify, Age, LockBusy, Check, Busy, Insert,
           Poll, FinishPerform, Fail, VerifyOutcome, VerifyFinish, VerifyNot, platformVars

\* They take no marker off.
LEMMA ActionsOwn ==
    ASSUME ActionInv, ActionNext, NEW a \in Account, Own(a)
    PROVE  Own(a)'
<1>0. ActionTypeOK /\ PlatformTypeOK BY DEF ActionInv, ActionTypeOK
<1>1. CASE server' = server BY <1>1 DEF Own
<1>2. ASSUME NEW p \in ActionReq, Exec(p) PROVE Own(a)'
    <2>1. Issues(act[p].op) \in StatementType BY <1>0, <1>2, RequestTypes DEF Exec, ActionTypeOK
    <2> QED BY <1>0, <1>1, <1>2, <2>1, StatementOwn DEF Exec
<1> QED BY <1>1, <1>2 DEF ActionNext, ActionStep, Submit, Perform, Verify, Age, Lock, LockBusy, Check, Busy, Insert,
           Poll, FinishPerform, Fail, VerifyOutcome, VerifyFinish, VerifyNot, Release, Die, platformVars

\* They write no row of an edit.
LEMMA ActionsApart == ActionNext => UNCHANGED permOps
BY DEF ActionNext, ActionStep, Submit, Perform, Verify, Age, Lock, LockBusy, Check, Busy, Insert, Record, Exec, Poll,
       FinishPerform, Fail, VerifyOutcome, VerifyFinish, VerifyNot, Release, Die, platformVars

\* They write the status of records that exist.
LEMMA ActionRecords ==
    ASSUME ActionInv, ActionNext, NEW a \in Account
    PROVE  /\ record'[a].made = record[a].made
           /\ record'[a].status = "absent" <=> record[a].status = "absent"
<1>0. record \in [Account -> RecordRow] BY DEF ActionInv, ActionTypeOK, PlatformTypeOK
<1>1. CASE record' = record BY <1>1
<1>2. ASSUME NEW o \in ActionOp, Finish(o), Acct(o) = a
      PROVE  /\ record'[a].made = record[a].made
             /\ record'[a].status = "absent" <=> record[a].status = "absent"
    BY <1>0, <1>2 DEF Finish, RecordRow
<1>3. ASSUME NEW o \in ActionOp, Finish(o), Acct(o) # a PROVE record'[a] = record[a]
    BY <1>0, <1>3 DEF Finish
<1>4. ASSUME NEW p \in ActionReq, FinishPerform(p) \/ VerifyFinish(p)
      PROVE  record' = record \/ \E o \in ActionOp : Finish(o)
    BY <1>4 DEF FinishPerform, VerifyFinish, ActionInv, ActionTypeOK
<1>5. record' = record \/ \E o \in ActionOp : Finish(o)
    BY <1>4 DEF ActionNext, ActionStep, Submit, Perform, Verify, Age, Lock, LockBusy, Check, Busy, Insert, Exec, Poll,
                Fail, VerifyOutcome, VerifyNot, Release, Die, platformVars
<1> QED BY <1>1, <1>2, <1>3, <1>5

-----------------------------------------------------------------------------
(* Operations that are recorded as not applied, on MySQL.                  *)

\* A disabling about to be recorded as not applied was not found.
NotFound(q) == act[q].pc = "vnot" =>
    LET a == Acct(act[q].op) IN
    a \in touched \/ (ask[act[q].op].verb = "disable" => server[a].lock = "open")

OpenInv == ActionInv /\ Settled /\ \A q \in ActionReq : NotFound(q)

LEMMA OpenStarts == ActionInit => OpenInv
<1> SUFFICES ASSUME ActionInit PROVE OpenInv
    OBVIOUS
<1>1. Settled BY DEF ActionInit, PlatformInit, FirstRows, FirstRow, Settled
<1>2. \A q \in ActionReq : NotFound(q) BY DEF ActionInit, Idle, NotFound
<1> QED BY <1>1, <1>2, InitInv DEF OpenInv

\* Only the thread itself changes an account whose lock it holds.
LEMMA OpenStep ==
    ASSUME Kind = "mysql", OpenInv, [Next]_actionVars
    PROVE  Settled' /\ \A q \in ActionReq : NotFound(q)'
<1>0. ActionInv /\ Settled /\ PlatformTypeOK BY DEF OpenInv, ActionInv, ActionTypeOK
<1>a. ASSUME NEW q \in ActionReq, act[q].pc = "vnot", act'[q] = act[q], ask'[act[q].op] = ask[act[q].op],
             Acct(act[q].op) \in touched => Acct(act[q].op) \in touched',
             Acct(act[q].op) \in touched' \/ server'[Acct(act[q].op)] = server[Acct(act[q].op)]
      PROVE  NotFound(q)'
    <2>1. NotFound(q) BY DEF OpenInv
    <2> QED BY <1>a, <2>1 DEF NotFound, Acct
<1>b. ASSUME NEW q \in ActionReq, act[q].pc = "vnot"
      PROVE  /\ act[q].op \in ActionOp /\ Acct(act[q].op) \in Account
             /\ act[q].pc \in LockedLabel /\ advisory[Acct(act[q].op)] = q /\ q # NoOne
    <2>1. act[q].op \in ActionOp BY <1>0, <1>b DEF ActionInv, ActionTypeOK
    <2>2. Acct(act[q].op) \in Account BY <1>0, <2>1, RequestTypes DEF ActionInv
    <2>3. act[q].pc \in LockedLabel BY <1>b DEF LockedLabel, VerifyLabel
    <2>4. advisory[Acct(act[q].op)] = q BY <1>0, <2>2, <2>3 DEF ActionInv, LockHeld
    <2> QED BY <2>1, <2>2, <2>3, <2>4, ActionAssumption, PlatformAssumption
<1>c. ASSUME UNCHANGED <<server, touched, act>>,
             \A q \in ActionReq : act[q].pc # "idle" => ask'[act[q].op] = ask[act[q].op]
      PROVE  Settled' /\ \A q \in ActionReq : NotFound(q)'
    <2>1. Settled' BY <1>0, <1>c DEF Settled
    <2>2. \A q \in ActionReq : NotFound(q)'
        <3> SUFFICES ASSUME NEW q \in ActionReq PROVE NotFound(q)'
            OBVIOUS
        <3>1. CASE act[q].pc # "vnot" BY <1>c, <3>1 DEF NotFound
        <3>2. CASE act[q].pc = "vnot" BY <1>a, <1>c, <3>2
        <3> QED BY <3>1, <3>2
    <2> QED BY <2>1, <2>2
<1>1. CASE \E o \in ActionOp : Age(o) \/ \E a \in Account, v \in Verb : Submit(o, a, v)
    <2>1. \A q \in ActionReq : act[q].pc # "idle" => ask'[act[q].op] = ask[act[q].op]
        BY <1>0, <1>1, SubmitKeeps DEF Age
    <2> QED BY <1>1, <1>c, <2>1 DEF Age, Submit, platformVars
<1>2. ASSUME NEW p \in ActionReq,
             (\E o \in ActionOp : Perform(p, o) \/ Verify(p, o)) \/ ActionStep(p) \/ Die(p)
      PROVE  Settled' /\ \A q \in ActionReq : NotFound(q)'
    <2>1. /\ LockedMove(p) \/ FreeMove(p) \/ Unlock(p) \/ Lock(p)
          /\ ask' = ask /\ \A q \in ActionReq \ {p} : act'[q] = act[q]
        BY <1>0, <1>2, Moves DEF LockedMove, FreeMove, Unlock, Lock, Goto, End, Begin, ActionInv, ActionTypeOK
    <2>2. CASE Exec(p)
        <3>1. act[p].pc = "exec" /\ act[p].pc \in LockedLabel /\ act[p].op \in ActionOp /\ touched' = touched
            BY <1>0, <2>2 DEF Exec, LockedLabel, PerformLabel, ActionInv, ActionTypeOK
        <3>2. Issues(act[p].op) \in StatementType /\ Issues(act[p].op).acct = Acct(act[p].op)
            BY <1>0, <3>1, RequestTypes DEF ActionInv, Issues, Statement
        <3>3. \/ server' = server
              \/ Apply(Issues(act[p].op)) /\ (Executes(Issues(act[p].op)) \/ Fails(Issues(act[p].op)))
            BY <2>2 DEF Exec, Executes, Fails
        <3>4. Settled'
            <4>1. CASE server' = server BY <1>0, <4>1 DEF Settled
            <4>2. CASE Apply(Issues(act[p].op)) BY <1>0, <3>2, <4>2, ApplySettled
            <4> QED BY <3>3, <4>1, <4>2
        <3>5. ASSUME NEW q \in ActionReq PROVE NotFound(q)'
            <4>1. CASE q = p
                <5>1. act'[p].pc \in {"poll", "fail"}
                    BY <1>0, <2>2 DEF Exec, Goto, ActionInv, ActionTypeOK, ActionThread
                <5> QED BY <4>1, <5>1 DEF NotFound
            <4>2. CASE q # p /\ act[q].pc # "vnot" BY <2>1, <4>2 DEF NotFound
            <4>3. CASE q # p /\ act[q].pc = "vnot"
                <5>1. Acct(act[q].op) \in Account /\ Acct(act[q].op) # Acct(act[p].op)
                    BY <1>0, <1>b, <3>1, <4>3, Alone
                <5>2. server'[Acct(act[q].op)] = server[Acct(act[q].op)]
                    BY <1>0, <3>2, <3>3, <5>1, StatementLocal
                <5> QED BY <1>a, <2>1, <3>1, <4>3, <5>2
            <4> QED BY <4>1, <4>2, <4>3
        <3> QED BY <3>4, <3>5
    <2>3. CASE ~Exec(p)
        <3>1. server' = server
            BY <1>2, <2>3 DEF Perform, Verify, ActionStep, Die, Lock, LockBusy, Check, Busy, Insert, Record,
                              Poll, FinishPerform, Fail, VerifyOutcome, VerifyFinish, VerifyNot,
                              Release, platformVars
        <3>2. Settled' BY <1>0, <3>1 DEF Settled
        <3>3. ASSUME NEW q \in ActionReq, q # p PROVE NotFound(q)'
            <4>1. CASE act[q].pc # "vnot" BY <2>1, <3>3, <4>1 DEF NotFound
            <4>2. CASE act[q].pc = "vnot"
                <5>1. advisory[Acct(act[q].op)] = q BY <1>b, <4>2
                <5>2. Acct(act[q].op) \in touched => Acct(act[q].op) \in touched'
                    BY <2>1, <3>3, <5>1 DEF LockedMove, FreeMove, Unlock, Lock, TakeLock, DropLocks
                <5> QED BY <1>a, <2>1, <3>1, <3>3, <4>2, <5>2
            <4> QED BY <4>1, <4>2
        <3>4. NotFound(p)'
            <4>1. CASE act'[p].pc # "vnot" BY <4>1 DEF NotFound
            <4>2. CASE act'[p].pc = "vnot"
                <5>1. VerifyOutcome(p)
                    BY <1>0, <1>2, <2>3, <4>2 DEF Perform, Verify, ActionStep, Die, Lock, LockBusy, Check, Busy,
                        Insert, Record, Poll, FinishPerform, Fail, VerifyFinish, VerifyNot, Release,
                        Goto, Begin, End, Idle, ActionInv, ActionTypeOK, ActionThread
                <5>2. act'[p].op = act[p].op /\ NotReached(act[p].op)
                    BY <1>0, <4>2, <5>1 DEF VerifyOutcome, Goto, ActionInv, ActionTypeOK, ActionThread
                <5>3. act[p].op \in ActionOp /\ Acct(act[p].op) \in Account
                    BY <1>0, <5>1, RequestTypes DEF VerifyOutcome, ActionInv, ActionTypeOK
                <5>4. ask[act[p].op].verb = "disable" => server[Acct(act[p].op)].lock = "open"
                    BY <1>0, <5>2, <5>3 DEF NotReached, Reached, Settled
                <5> QED BY <2>1, <3>1, <5>2, <5>4 DEF NotFound, Acct
            <4> QED BY <4>1, <4>2
        <3> QED BY <3>2, <3>3, <3>4
    <2> QED BY <2>2, <2>3
<1>3. CASE ActionEnv
    <2>1. Outside /\ UNCHANGED <<ask, act>> BY <1>3 DEF ActionEnv
    <2>2. /\ Settled'
          /\ \A a \in Account : advisory[a] # NoOne =>
                 touched \subseteq touched' /\ (a \in touched' \/ server'[a] = server[a])
        BY <1>0, <2>1, OutsideSettled
    <2>3. ASSUME NEW q \in ActionReq PROVE NotFound(q)'
        <3>1. CASE act[q].pc # "vnot" BY <2>1, <3>1 DEF NotFound
        <3>2. CASE act[q].pc = "vnot" BY <1>a, <1>b, <2>1, <2>2, <3>2
        <3> QED BY <3>1, <3>2
    <2> QED BY <2>2, <2>3
<1>4. CASE UNCHANGED actionVars BY <1>4, <1>c DEF actionVars
<1> QED BY <1>1, <1>2, <1>3, <1>4 DEF Next, ActionNext

\* A step that records it has not found it.
LEMMA NotAppliedSeen ==
    ASSUME OpenInv, Next, NEW o \in ActionOp,
           actionOps[o].status # "not_applied", actionOps'[o].status = "not_applied", ask[o].verb = "disable"
    PROVE  Acct(o) \in touched \/ server[Acct(o)].lock = "open"
<1>0. /\ actionOps \in [ActionOp -> ActionRow]
      /\ \A p \in ActionReq : act[p].pc # "idle" => act[p].op \in ActionOp
    BY DEF OpenInv, ActionInv, ActionTypeOK, PlatformTypeOK
<1>1. \E p \in ActionReq : VerifyNot(p)
    <2>1. CASE actionOps' = actionOps BY <2>1
    <2>2. ASSUME NEW x \in ActionOp, Age(x) PROVE FALSE
        BY <1>0, <2>2 DEF Age, ActionRow
    <2>3. ASSUME NEW p \in ActionReq, Insert(p) \/ Fail(p) \/ FinishPerform(p) \/ VerifyFinish(p) PROVE FALSE
        <3>1. act[p].op \in ActionOp /\ actionOps[act[p].op] \in ActionRow
            BY <1>0, <2>3 DEF Insert, Fail, FinishPerform, VerifyFinish
        <3>2. actionOps' # actionOps OBVIOUS
        <3>3. CASE Insert(p) BY <1>0, <3>2, <3>3 DEF Insert, Record
        <3>4. CASE Fail(p) BY <1>0, <3>1, <3>2, <3>4 DEF Fail, ActionRow
        <3>5. CASE FinishPerform(p) \/ VerifyFinish(p)
            <4>1. PICK x \in ActionOp : x = act[p].op BY <3>1
            <4>2. actionOps' = [actionOps EXCEPT ![x] = [actionOps[x] EXCEPT !.status = "succeeded", !.key = FALSE,
                                                                           !.aged = FALSE]]
                BY <1>0, <3>2, <3>5, <4>1 DEF FinishPerform, VerifyFinish, Finish
            <4>3. actionOps'[x].status = "succeeded" /\ \A y \in ActionOp \ {x} : actionOps'[y] = actionOps[y]
                BY <1>0, <3>1, <4>1, <4>2 DEF ActionRow
            <4> QED BY <4>3
        <3> QED BY <2>3, <3>3, <3>4, <3>5
    <2> QED BY <2>1, <2>2, <2>3 DEF Next, ActionNext, ActionEnv, ActionStep, Outside, Land,
            Settle, Dba, Submit, Perform, Verify, Die, Lock, LockBusy, Check, Busy, Exec, Poll,
            VerifyOutcome, Release, platformVars
<1>2. PICK p \in ActionReq : VerifyNot(p) BY <1>1
<1>3. act[p].pc = "vnot" /\ o = act[p].op
    BY <1>0, <1>2 DEF VerifyNot
<1> QED BY <1>3 DEF OpenInv, NotFound

\* Beside the other handlers, which leave no lock state settling.
LEMMA OpenBeside ==
    ASSUME OpenInv, UNCHANGED <<ask, act>>, Settled', Spares(ActionReq), NEW q \in ActionReq
    PROVE  NotFound(q)'
<1>1. CASE act[q].pc # "vnot" BY <1>1 DEF NotFound
<1>2. CASE act[q].pc = "vnot"
    <2> DEFINE a == Acct(act[q].op)
    <2>1. act[q].op \in ActionOp BY <1>2 DEF OpenInv, ActionInv, ActionTypeOK
    <2>2. a \in Account BY <2>1, RequestTypes DEF OpenInv, ActionInv
    <2>3. advisory[a] = q BY <1>2, <2>2 DEF OpenInv, ActionInv, LockHeld, LockedLabel, VerifyLabel
    <2>4. NotFound(q) BY DEF OpenInv
    <2>5. a \in touched' \/ (a \notin touched /\ server'[a].lock = server[a].lock)
        BY <2>2, <2>3 DEF Spares, OpenInv, Settled
    <2> QED BY <1>2, <2>4, <2>5 DEF NotFound, Acct
<1> QED BY <1>1, <1>2

\* What verify tells the administrator of a disabling, "read back: the operation took
\* no effect", is true on MySQL. On Doris it is not while the disabling settles.
THEOREM NotAppliedHolds ==
    ASSUME Kind = "mysql"
    PROVE  Spec => NotAppliedIsTrue
<1> DEFINE Becomes(o) == /\ actionOps[o].status # "not_applied"
                         /\ actionOps'[o].status = "not_applied"
                         /\ ask[o].verb = "disable"
<1>1. OpenInv /\ [Next]_actionVars => OpenInv'
    <2>1. ActionInv /\ [Next]_actionVars => ActionInv'
        BY StepTypes, StepKnown, StepLock, StepRows, StepSeen DEF ActionInv, RowInv
    <2> QED BY <2>1, OpenStep DEF OpenInv
<1>2. OpenInv /\ [Next]_actionVars =>
        [\A o \in ActionOp : Becomes(o) => Acct(o) \in touched \/ server[Acct(o)].lock = "open"]_actionVars
    BY NotAppliedSeen
<1> QED BY <1>1, <1>2, OpenStarts, PTL DEF Spec, NotAppliedIsTrue
=============================================================================
