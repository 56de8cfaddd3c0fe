----------------------------- MODULE AccountActions -----------------------------
(***************************************************************************)
(* Disabling and deleting accounts of a managed database                   *)
(* (database_account_actions.py).  An administrator previews an account,   *)
(* submits the request under an operation id, and may retry it or ask for  *)
(* the operation to be verified; each HTTP request is a thread that runs   *)
(* one handler, one remote statement or platform transaction a step.       *)
(***************************************************************************)
EXTENDS AccountPlatform

CONSTANTS ActionReq     \* the threads that serve action requests

ASSUME ActionAssumption == ActionReq \subseteq Thread

VARIABLES
    ask,    \* the request an operation id stands for, once an administrator made it
    act,    \* the threads
    sent    \* history: the operations whose DROP or disable statement was issued

actionVars == <<server, late, dba, advisory, touched, record, actionOps, permOps, ask, act, sent>>

Verb == {"disable", "delete"}

\* What the preview showed and the request must still find (revision).
Revision(row) == [ident |-> Identity(row), lock |-> row.lock, cut |-> row.cut]

Request == [acct: Account, verb: Verb, made: BOOLEAN,
            rev: [ident: IdentityRow, lock: {"open", "settling", "locked"}, cut: BOOLEAN]]

\* Steps of perform, then those of verify; the locked ones run inside
\* account_change_lock.
PerformLabel == {"check", "busy", "insert", "exec", "poll", "finish", "fail"}
VerifyLabel == {"voutcome", "vfinish", "vnot"}
LockedLabel == PerformLabel \cup VerifyLabel \cup {"release"}
ActionLabel == {"idle", "lock", "vlock"} \cup LockedLabel

ActionThread == [pc: ActionLabel, op: ActionOp \cup {NoOne}]

Idle == [pc |-> "idle", op |-> NoOne]

Begin(p, l, o) == act[p].pc = "idle" /\ act' = [act EXCEPT ![p] = [pc |-> l, op |-> o]]

Goto(p, l) == act' = [act EXCEPT ![p].pc = l]

End(p) == act' = [act EXCEPT ![p] = Idle]

Acct(o) == ask[o].acct

Issues(o) == Statement(IF ask[o].verb = "delete" THEN "drop" ELSE "disable", Acct(o), {})

-----------------------------------------------------------------------------
(* outcome(): the account is read back and compared with the operation.    *)

Gone(o) == ask[o].verb = "delete" /\ ~server[Acct(o)].live

Recognised(o) == /\ server[Acct(o)].live
                 /\ Identity(server[Acct(o)]) = actionOps[o].ident

Reached(o) == \/ Gone(o)
              \/ /\ ask[o].verb = "disable"
                 /\ Recognised(o)
                 /\ server[Acct(o)].lock = "locked"

NotReached(o) == Recognised(o) /\ ~Reached(o)

\* 409: the account is gone or is not the one the operation was made for.
Unrecognised(o) == ~Gone(o) /\ ~Recognised(o)

-----------------------------------------------------------------------------
(* Requests and the lock.                                                  *)

\* The administrator opens the preview and confirms; the operation id now
\* stands for this request (a reuse for another one is refused by its digest).
Submit(o, a, v) ==
    /\ ~ask[o].made
    /\ server[a].live
    /\ ask' = [ask EXCEPT ![o] = [acct |-> a, verb |-> v, made |-> TRUE,
                                  rev |-> Revision(server[a])]]
    /\ UNCHANGED <<platformVars, act, sent>>

\* A request or a retry arrives; one that finds its operation recorded answers
\* with the recorded result and changes nothing.
Perform(p, o) ==
    /\ ask[o].made
    /\ actionOps[o].status = "absent"
    /\ Begin(p, "lock", o)
    /\ UNCHANGED <<platformVars, ask, sent>>

\* A request to verify: the row is loaded and its status judged before the lock
\* is taken.  Rows that are final, or applying and young, are answered at once.
Verify(p, o) ==
    /\ actionOps[o].status \in {"applying", "uncertain"}
    /\ actionOps[o].status = "applying" => actionOps[o].aged
    /\ Begin(p, "vlock", o)
    /\ UNCHANGED <<platformVars, ask, sent>>

\* Mutant: GET_LOCK's answer is not looked at.
LockUnchecked(p) ==
    /\ act[p].pc \in {"lock", "vlock"}
    /\ advisory' = [advisory EXCEPT ![Acct(act[p].op)] = p]
    /\ Goto(p, IF act[p].pc = "lock" THEN "check" ELSE "voutcome")
    /\ UNCHANGED <<server, late, dba, touched, record, actionOps, permOps, ask, sent>>

Lock(p) ==
    /\ act[p].pc \in {"lock", "vlock"}
    /\ TakeLock(p, Acct(act[p].op))
    /\ Goto(p, IF act[p].pc = "lock" THEN "check" ELSE "voutcome")
    /\ UNCHANGED <<server, late, dba, record, actionOps, permOps, ask, sent>>

\* 409: another change of this account is running.
LockBusy(p) ==
    /\ act[p].pc \in {"lock", "vlock"}
    /\ advisory[Acct(act[p].op)] # NoOne
    /\ End(p)
    /\ UNCHANGED <<platformVars, ask, sent>>

Release(p) ==
    /\ act[p].pc = "release"
    /\ DropLocks(p)
    /\ End(p)
    /\ UNCHANGED <<server, late, dba, record, actionOps, permOps, ask, sent>>

\* The process or its platform connection dies, or an error outside the inner
\* try ends the handler: the lock goes with the connection.
Die(p) ==
    /\ act[p].pc # "idle"
    /\ DropLocks(p)
    /\ End(p)
    /\ UNCHANGED <<server, late, dba, record, actionOps, permOps, ask, sent>>

-----------------------------------------------------------------------------
(* perform                                                                 *)

\* Mutant: the revision is not compared.
CheckExists(p) ==
    /\ act[p].pc = "check"
    /\ Goto(p, IF server[Acct(act[p].op)].live THEN "busy" ELSE "release")
    /\ UNCHANGED <<platformVars, ask, sent>>

\* account_state(): 404 or 409 if the account is not what the preview showed.
Check(p) ==
    LET o == act[p].op
        row == server[Acct(o)] IN
    /\ act[p].pc = "check"
    /\ Goto(p, IF row.live /\ Revision(row) = ask[o].rev THEN "busy" ELSE "release")
    /\ UNCHANGED <<platformVars, ask, sent>>

\* Mutant: permission operations are not looked for.
BusyUnchecked(p) ==
    /\ act[p].pc = "busy"
    /\ Goto(p, "insert")
    /\ UNCHANGED <<platformVars, ask, sent>>

\* An open permission operation on the account blocks the request.
Busy(p) ==
    /\ act[p].pc = "busy"
    /\ Goto(p, IF PendingPerms(Acct(act[p].op)) # {} THEN "release" ELSE "insert")
    /\ UNCHANGED <<platformVars, ask, sent>>

\* The row is written and the statement comes next.
Record(p) ==
    LET o == act[p].op IN
    /\ actionOps' = [actionOps EXCEPT ![o] =
           [status |-> "applying", acct |-> Acct(o), key |-> TRUE,
            ident |-> ask[o].rev.ident, aged |-> FALSE]]
    /\ Goto(p, "exec")

\* Mutant: a known operation id is accepted again (REPLACE for INSERT).
InsertAgain(p) ==
    /\ act[p].pc = "insert"
    /\ IF PendingActions(Acct(act[p].op)) \ {act[p].op} # {}
       THEN Goto(p, "release") /\ UNCHANGED actionOps
       ELSE Record(p)
    /\ UNCHANGED <<server, late, dba, advisory, touched, record, permOps, ask, sent>>

\* Mutant: lock_key without its unique index.
InsertBeside(p) ==
    /\ act[p].pc = "insert"
    /\ IF actionOps[act[p].op].status # "absent"
       THEN Goto(p, "release") /\ UNCHANGED actionOps
       ELSE Record(p)
    /\ UNCHANGED <<server, late, dba, advisory, touched, record, permOps, ask, sent>>

\* The unique keys refuse a second row of one operation id, and a second open
\* operation on one account of this instance.
Insert(p) ==
    LET o == act[p].op IN
    /\ act[p].pc = "insert"
    /\ IF \/ actionOps[o].status # "absent"
          \/ PendingActions(Acct(o)) # {}
       THEN Goto(p, "release") /\ UNCHANGED actionOps
       ELSE Record(p)
    /\ UNCHANGED <<server, late, dba, advisory, touched, record, permOps, ask, sent>>

\* DROP USER, or the disabling statement unless the account is disabled already.
Exec(p) ==
    LET o == act[p].op
        skip == ask[o].verb = "disable" /\ ask[o].rev.lock = "locked" IN
    /\ act[p].pc = "exec"
    /\ sent' = sent \cup {o}
    /\ \/ skip /\ Goto(p, "poll") /\ UNCHANGED <<server, late>>
       \/ ~skip /\ Executes(Issues(o)) /\ Goto(p, "poll")
       \/ ~skip /\ Fails(Issues(o)) /\ Goto(p, "fail")
    /\ UNCHANGED <<dba, advisory, touched, record, actionOps, permOps, ask>>

\* The state is read back for up to four seconds; a mismatch, an error or the
\* deadline ends in the except branch.
Poll(p) ==
    /\ act[p].pc = "poll"
    /\ \/ Reached(act[p].op) /\ Goto(p, "finish")
       \/ Goto(p, "fail")
    /\ UNCHANGED <<platformVars, ask, sent>>

\* finish(): the operation and the managed record, in one transaction.
Finish(o) ==
    /\ actionOps' = [actionOps EXCEPT ![o] = [@ EXCEPT !.status = "succeeded", !.key = FALSE,
                                                       !.aged = FALSE]]
    /\ record' = [record EXCEPT ![Acct(o)] =
           IF @.status = "absent" THEN @
           ELSE [@ EXCEPT !.status = IF ask[o].verb = "delete" THEN "deleted" ELSE "disabled",
                          !.aged = FALSE]]

FinishPerform(p) ==
    /\ act[p].pc = "finish"
    /\ \/ Finish(act[p].op) /\ Goto(p, "release")
       \/ Goto(p, "fail") /\ UNCHANGED <<actionOps, record>>
    /\ UNCHANGED <<server, late, dba, advisory, touched, permOps, ask, sent>>

\* Mutant: a status no reader of the table knows.
FailUnknown(p) ==
    /\ act[p].pc = "fail"
    /\ actionOps' = [actionOps EXCEPT ![act[p].op].status = "failed"]
    /\ Goto(p, "release")
    /\ UNCHANGED <<server, late, dba, advisory, touched, record, permOps, ask, sent>>

\* The except branch: unless the row already says succeeded, it becomes uncertain
\* and keeps the account blocked.
Fail(p) ==
    /\ act[p].pc = "fail"
    /\ actionOps' = IF actionOps[act[p].op].status = "succeeded" THEN actionOps
                    ELSE [actionOps EXCEPT ![act[p].op] =
                             [@ EXCEPT !.status = "uncertain", !.aged = FALSE]]
    /\ Goto(p, "release")
    /\ UNCHANGED <<server, late, dba, advisory, touched, record, permOps, ask, sent>>

-----------------------------------------------------------------------------
(* verify                                                                  *)

\* Mutant: an account that changed its identity counts as done.
VerifyTrusting(p) ==
    LET o == act[p].op IN
    /\ act[p].pc = "voutcome"
    /\ Goto(p, IF NotReached(o) THEN "vnot" ELSE "vfinish")
    /\ UNCHANGED <<platformVars, ask, sent>>

\* Mutant: a verification polls, without a deadline, until the account is as asked.
VerifyWaits(p) ==
    LET o == act[p].op IN
    /\ act[p].pc = "voutcome"
    /\ \/ Reached(o) /\ Goto(p, "vfinish")
       \/ Unrecognised(o) /\ Goto(p, "release")
    /\ UNCHANGED <<platformVars, ask, sent>>

VerifyOutcome(p) ==
    LET o == act[p].op IN
    /\ act[p].pc = "voutcome"
    /\ \/ Reached(o) /\ Goto(p, "vfinish")
       \/ NotReached(o) /\ Goto(p, "vnot")
       \/ Unrecognised(o) /\ Goto(p, "release")
    /\ UNCHANGED <<platformVars, ask, sent>>

VerifyFinish(p) ==
    /\ act[p].pc = "vfinish"
    /\ Finish(act[p].op)
    /\ Goto(p, "release")
    /\ UNCHANGED <<server, late, dba, advisory, touched, permOps, ask, sent>>

\* Mutant: lock_key stays.
VerifyNotKeeps(p) ==
    /\ act[p].pc = "vnot"
    /\ actionOps' = [actionOps EXCEPT ![act[p].op] =
                        [@ EXCEPT !.status = "not_applied", !.aged = FALSE]]
    /\ Goto(p, "release")
    /\ UNCHANGED <<server, late, dba, advisory, touched, record, permOps, ask, sent>>

VerifyNot(p) ==
    /\ act[p].pc = "vnot"
    /\ actionOps' = [actionOps EXCEPT ![act[p].op] =
                        [@ EXCEPT !.status = "not_applied", !.key = FALSE, !.aged = FALSE]]
    /\ Goto(p, "release")
    /\ UNCHANGED <<server, late, dba, advisory, touched, record, permOps, ask, sent>>

\* Thirty seconds pass without a change of the row.
Age(o) ==
    /\ actionOps[o].status = "applying"
    /\ ~actionOps[o].aged
    /\ actionOps' = [actionOps EXCEPT ![o].aged = TRUE]
    /\ UNCHANGED <<server, late, dba, advisory, touched, record, permOps, ask, act, sent>>
-----------------------------------------------------------------------------
(* The system.                                                             *)

ActionInit ==
    /\ PlatformInit
    /\ ask = [o \in ActionOp |-> [acct |-> AnyAccount, verb |-> "disable", made |-> FALSE,
                                  rev |-> [ident |-> NoIdentity, lock |-> "open", cut |-> FALSE]]]
    /\ act = [p \in ActionReq |-> Idle]
    /\ sent = {}

\* One step of a request in progress.
ActionStep(p) ==
    \/ Lock(p) \/ LockBusy(p) \/ Check(p) \/ Busy(p) \/ Insert(p) \/ Exec(p) \/ Poll(p)
    \/ FinishPerform(p) \/ Fail(p) \/ VerifyOutcome(p) \/ VerifyFinish(p) \/ VerifyNot(p)
    \/ Release(p)

ActionNext ==
    \/ \E o \in ActionOp :
          \/ \E a \in Account, v \in Verb : Submit(o, a, v)
          \/ \E p \in ActionReq : Perform(p, o) \/ Verify(p, o)
          \/ Age(o)
    \/ \E p \in ActionReq : ActionStep(p) \/ Die(p)

ActionEnv == Outside /\ UNCHANGED <<ask, act, sent>>

Next == ActionNext \/ ActionEnv

Spec == ActionInit /\ [][Next]_actionVars

\* Threads run: every remote call and platform write ends within its timeout.
ThreadFairness == \A p \in ActionReq : WF_actionVars(ActionStep(p))

\* An administrator keeps asking for the result of an open operation and is not
\* refused the lock, or interrupted, for ever.
VerifyFairness ==
    /\ \A o \in ActionOp : WF_actionVars(Age(o))
    /\ \A p \in ActionReq, o \in ActionOp : SF_actionVars(Verify(p, o))
    /\ \A p \in ActionReq : /\ SF_actionVars(act[p].pc = "vlock" /\ Lock(p))
                            /\ SF_actionVars(VerifyOutcome(p))
                            /\ SF_actionVars(VerifyFinish(p))
                            /\ SF_actionVars(VerifyNot(p))

FairSpec == Spec /\ ThreadFairness /\ VerifyFairness

-----------------------------------------------------------------------------
(* Properties.                                                             *)

\* Every variable keeps its type.
ActionTypeOK ==
    /\ PlatformTypeOK
    /\ ask \in [ActionOp -> Request]
    /\ act \in [ActionReq -> ActionThread]
    /\ \A p \in ActionReq : act[p].pc # "idle" => act[p].op \in ActionOp
    /\ sent \in SUBSET ActionOp

\* account_change_lock serialises: a thread between the acquisition and the
\* release is the holder of its account's lock, and the only one.
LockHeld == \A p \in ActionReq, a \in Account :
    advisory[a] = p <=> act[p].pc \in LockedLabel /\ a = Acct(act[p].op)

\* "Retrying an operation id only returns its result": whatever retries, crashes
\* and verifications happen, a thread about to issue DROP USER or the disabling
\* statement is the first and only one to do so for its operation.
NeverReissued == \A p \in ActionReq : act[p].pc = "exec" =>
    /\ act[p].op \notin sent
    /\ \A q \in ActionReq \ {p} : act[q].pc = "exec" => act[q].op # act[p].op

\* An operation whose result is not established occupies its account, and a
\* settled one does not: no write of a slow thread leaves an uncertain row that
\* blocks nothing, or a final row that blocks for ever.
OpenIffUnsettled == \A o \in ActionOp :
    actionOps[o].key <=> actionOps[o].status \in {"applying", "uncertain"}

\* No two operations have one account in doubt at the same time.
OneInDoubt == \A o1, o2 \in ActionOp :
    actionOps[o1].key /\ actionOps[o2].key /\ actionOps[o1].acct = actionOps[o2].acct => o1 = o2

\* The destructive statement meets the account the administrator saw in the
\* preview, not one that replaced it or whose grants changed since, unless
\* somebody outside changed it within the locked section.
ConfirmedAccount == [][\A p \in ActionReq :
    act[p].pc = "exec" /\ act'[p] # act[p] /\ server' # server =>
        LET a == Acct(act[p].op) IN
        a \in touched \/ Identity(server[a]) = ask[act[p].op].rev.ident]_actionVars

\* An operation that starts to say succeeded says the truth: the account is gone,
\* or it is the same account and disabled, unless somebody outside changed it
\* within the locked section.
SucceededIsTrue == [][\A o \in ActionOp :
    actionOps[o].status # "succeeded" /\ actionOps'[o].status = "succeeded" =>
        Acct(o) \in touched \/ Reached(o)]_actionVars

\* The message of not_applied, "read back: the operation took no effect, it can be
\* submitted again", is true of a disabling when it is written.
NotAppliedIsTrue == [][\A o \in ActionOp :
    /\ actionOps[o].status # "not_applied"
    /\ actionOps'[o].status = "not_applied"
    /\ ask[o].verb = "disable"
    => Acct(o) \in touched \/ server[Acct(o)].lock = "open"]_actionVars

\* No request runs for ever, and none keeps the lock.
RequestsEnd == \A p \in ActionReq : act[p].pc # "idle" ~> act[p].pc = "idle"

\* An operation in doubt does not block its account for ever, as long as an
\* administrator keeps asking for its result.
DoubtEnds == \A o \in ActionOp : actionOps[o].key ~> ~actionOps[o].key

-----------------------------------------------------------------------------
(* What the proofs of these properties need to know besides.               *)

\* Only requests an administrator made are served or recorded.
Known ==
    /\ \A p \in ActionReq : act[p].pc # "idle" => ask[act[p].op].made
    /\ \A o \in ActionOp : actionOps[o].status # "absent" => ask[o].made

\* A statement is issued for a recorded operation; the thread about to issue one
\* is the first to do so.
IssuedOnce ==
    /\ \A o \in sent : actionOps[o].status # "absent"
    /\ \A p \in ActionReq : act[p].pc = "exec" => act[p].op \notin sent

\* From its insertion until its outcome is written, a row says applying.
Working == \A p \in ActionReq :
    act[p].pc \in {"exec", "poll", "finish", "fail"} => actionOps[act[p].op].status = "applying"

\* Nobody but the outside world changes the account between the check of the
\* preview and the statement, or between the read back and the record of it.
Confirmed == \A p \in ActionReq : act[p].pc \in {"busy", "insert", "exec"} =>
    LET a == Acct(act[p].op) IN
    a \in touched \/ Identity(server[a]) = ask[act[p].op].rev.ident

Found == \A p \in ActionReq : act[p].pc \in {"finish", "vfinish"} =>
    Acct(act[p].op) \in touched \/ Reached(act[p].op)

ActionInv == /\ ActionTypeOK /\ Known /\ LockHeld
             /\ IssuedOnce /\ Working /\ Confirmed /\ Found
             /\ OpenIffUnsettled /\ OneInDoubt
=============================================================================
