---------------------------- MODULE ManagedAccounts ----------------------------
(***************************************************************************)
(* Managed accounts (database_accounts.py): an account is created under a  *)
(* durable record, verified or rolled back when its creation stayed open,  *)
(* given a password record by hand, and cut off by the expiry worker when  *)
(* its time is over.  None of these takes the advisory lock of account     *)
(* changes; the record, the marker on the server and the statuses are all  *)
(* that keeps them apart.                                                  *)
(***************************************************************************)
EXTENDS AccountPlatform

CONSTANTS AcctReq,      \* the threads that serve account requests
          Worker,       \* the expiry workers, one in each backend
          Batch         \* rows a worker claims at a time (four in the code)

ASSUME ManagedAssumption == AcctReq \cap Worker = {} /\ Batch \in Nat \ {0}

VARIABLES
    mgr,        \* the request threads
    wrk,        \* the workers
    stirred     \* history: who had its account changed from outside after looking at it

managedVars == <<server, late, dba, advisory, touched, record, actionOps, permOps,
                 mgr, wrk, stirred>>

CreateLabel == {"cname", "cinsert", "ccreate", "cplan", "cgrant", "cverifying", "cverify",
                "cactive", "cfail", "cunsure"}
RollbackLabel == {"rlist", "rdrop", "rcheck", "rwrite"}
MgrLabel == {"idle", "vremote", "vactive", "vcleanup", "save"} \cup CreateLabel \cup RollbackLabel

\* creating: the rollback belongs to a creation, not to an undo request; want: the
\* grants planned; grant: those not issued yet; timed: the request sets a lifetime.
MgrThread == [pc: MgrLabel, acct: Account, creating: BOOLEAN, timed: BOOLEAN,
              want: SUBSET Priv, grant: SUBSET Priv]

\* todo: the rows claimed and not processed yet.
WrkThread == [pc: {"idle", "xverify", "xexpire", "xwrite"}, acct: Account, todo: SUBSET Account]

MgrIdle == [pc |-> "idle", acct |-> AnyAccount, creating |-> FALSE, timed |-> FALSE,
            want |-> {}, grant |-> {}]

MgrBegin(p, l, a) == mgr[p].pc = "idle" /\ mgr' = [mgr EXCEPT ![p] = [MgrIdle EXCEPT !.pc = l, !.acct = a]]

MgrGoto(p, l) == mgr' = [mgr EXCEPT ![p].pc = l]

MgrEnd(p) == mgr' = [mgr EXCEPT ![p] = MgrIdle]

MgrAcct(p) == mgr[p].acct

Remote(a) == server[a]

\* An unconditional UPDATE of the row by its id.
Write(a, status, confirmed) ==
    record' = [record EXCEPT ![a] = [@ EXCEPT !.status = status, !.confirmed = confirmed,
                                              !.aged = FALSE]]

\* verify_managed_account(): the account exists and carries the record's marker.
Marked(a) == Remote(a).live /\ Remote(a).mark

\* verify_grants() against the saved plan.
Verified(a) == Marked(a) /\ record[a].planned /\ Remote(a).grants = record[a].plan

\* operation_result(): what the interface calls created.
Created(a) == record[a].confirmed /\ record[a].status \in {"active", "expired", "expiring"}

\* The thread has just read the server.
Looks(p) == stirred' = stirred \ {p}

-----------------------------------------------------------------------------
(* create_account                                                          *)

\* A new operation for an account without a record; a retry finds its row and is
\* answered from it, another operation is refused.
Create(p, a, want, timed) ==
    /\ mgr[p].pc = "idle"
    /\ record[a].status = "absent"
    /\ mgr' = [mgr EXCEPT ![p] = [MgrIdle EXCEPT !.pc = "cname", !.acct = a, !.creating = TRUE,
                                                 !.timed = timed, !.want = want]]
    /\ UNCHANGED <<platformVars, wrk, stirred>>

\* 409 when the name exists on the server.
CreateName(p) ==
    /\ mgr[p].pc = "cname"
    /\ IF Remote(MgrAcct(p)).live THEN MgrEnd(p) ELSE MgrGoto(p, "cinsert")
    /\ UNCHANGED <<platformVars, wrk, stirred>>

\* The unique keys let one creation of the account through.
CreateInsert(p) ==
    LET a == MgrAcct(p) IN
    /\ mgr[p].pc = "cinsert"
    /\ IF record[a].status # "absent"
       THEN MgrEnd(p) /\ UNCHANGED record
       ELSE /\ record' = [record EXCEPT ![a] = [NoRecord EXCEPT !.status = "provisioning",
                                                  !.timed = mgr[p].timed, !.made = TRUE]]
            /\ MgrGoto(p, "ccreate")
    /\ UNCHANGED <<server, late, dba, advisory, touched, actionOps, permOps, wrk, stirred>>

CreateUser(p) ==
    LET s == Statement("create", MgrAcct(p), {}) IN
    /\ mgr[p].pc = "ccreate"
    /\ \/ Executes(s) /\ MgrGoto(p, "cplan")
       \/ Fails(s) /\ MgrGoto(p, "cfail")
    /\ Lockless(MgrAcct(p))
    /\ UNCHANGED <<dba, advisory, record, actionOps, permOps, wrk, stirred>>

\* The plan is saved with what the new account holds already.
CreatePlan(p) ==
    LET a == MgrAcct(p) IN
    /\ mgr[p].pc = "cplan"
    /\ \/ /\ Remote(a).live
          /\ record' = [record EXCEPT ![a] = [@ EXCEPT !.planned = TRUE, !.aged = FALSE,
                                                !.plan = mgr[p].want \cup Remote(a).grants]]
          /\ mgr' = [mgr EXCEPT ![p] = [@ EXCEPT !.pc = "cgrant", !.grant = mgr[p].want]]
       \/ MgrGoto(p, "cfail") /\ UNCHANGED record
    /\ UNCHANGED <<server, late, dba, advisory, touched, actionOps, permOps, wrk, stirred>>

CreateGrant(p) ==
    /\ mgr[p].pc = "cgrant"
    /\ IF mgr[p].grant = {} THEN MgrGoto(p, "cverifying") /\ UNCHANGED <<server, late>>
       ELSE \E g \in mgr[p].grant : LET s == Statement("grant", MgrAcct(p), {g}) IN
                \/ Executes(s) /\ mgr' = [mgr EXCEPT ![p].grant = @ \ {g}]
                \/ Fails(s) /\ MgrGoto(p, "cfail")
    /\ Lockless(MgrAcct(p))
    /\ UNCHANGED <<dba, advisory, record, actionOps, permOps, wrk, stirred>>

CreateVerifying(p) ==
    /\ mgr[p].pc = "cverifying"
    /\ \/ Write(MgrAcct(p), "verifying", record[MgrAcct(p)].confirmed) /\ MgrGoto(p, "cverify")
       \/ MgrGoto(p, "cfail") /\ UNCHANGED record
    /\ UNCHANGED <<server, late, dba, advisory, touched, actionOps, permOps, wrk, stirred>>

\* Mutant: only the marker is read back.
CreateVerifyMark(p) ==
    /\ mgr[p].pc = "cverify"
    /\ \/ Marked(MgrAcct(p)) /\ ~record[MgrAcct(p)].typed /\ MgrGoto(p, "cactive")
       \/ MgrGoto(p, "cfail")
    /\ Looks(p)
    /\ UNCHANGED <<platformVars, wrk>>

\* Marker, grants and the stored password are read back.
CreateVerify(p) ==
    /\ mgr[p].pc = "cverify"
    /\ \/ Verified(MgrAcct(p)) /\ ~record[MgrAcct(p)].typed /\ MgrGoto(p, "cactive")
       \/ MgrGoto(p, "cfail")
    /\ Looks(p)
    /\ UNCHANGED <<platformVars, wrk>>

CreateActive(p) ==
    /\ mgr[p].pc = "cactive"
    /\ \/ Write(MgrAcct(p), "active", TRUE) /\ MgrEnd(p)
       \/ MgrGoto(p, "cfail") /\ UNCHANGED record
    /\ UNCHANGED <<server, late, dba, advisory, touched, actionOps, permOps, wrk, stirred>>

\* The except branch: a row that is active after all is reported, any other rolled back.
CreateFail(p) ==
    /\ mgr[p].pc = "cfail"
    /\ IF record[MgrAcct(p)].status = "active" /\ record[MgrAcct(p)].confirmed
       THEN MgrEnd(p) ELSE MgrGoto(p, "rlist") \/ MgrGoto(p, "cunsure")
    /\ UNCHANGED <<platformVars, wrk, stirred>>

\* The rollback failed as well; so may this write.
CreateUnsure(p) ==
    /\ mgr[p].pc = "cunsure"
    /\ Write(MgrAcct(p), "uncertain", record[MgrAcct(p)].confirmed) \/ UNCHANGED record
    /\ MgrEnd(p)
    /\ UNCHANGED <<server, late, dba, advisory, touched, actionOps, permOps, wrk, stirred>>

-----------------------------------------------------------------------------
(* rollback_operation, inside a creation or for an undo request.           *)

Undo(p, a) ==
    /\ record[a].made
    /\ record[a].status \in {"uncertain", "cleanup_required", "failed"}
    /\ MgrBegin(p, "rlist", a)
    /\ UNCHANGED <<platformVars, wrk, stirred>>

RollbackError(p) == IF mgr[p].creating THEN MgrGoto(p, "cunsure") ELSE MgrEnd(p)

\* Mutant: the marker is not compared before the DROP.
RollbackAny(p) ==
    /\ mgr[p].pc = "rlist"
    /\ \/ ~Remote(MgrAcct(p)).live /\ MgrGoto(p, "rwrite")
       \/ Remote(MgrAcct(p)).live /\ MgrGoto(p, "rdrop")
       \/ RollbackError(p)
    /\ Looks(p)
    /\ UNCHANGED <<platformVars, wrk>>

RollbackList(p) ==
    LET a == MgrAcct(p) IN
    /\ mgr[p].pc = "rlist"
    /\ \/ ~Remote(a).live /\ MgrGoto(p, "rwrite")
       \/ Marked(a) /\ MgrGoto(p, "rdrop")
       \/ RollbackError(p)
    /\ Looks(p)
    /\ UNCHANGED <<platformVars, wrk>>

RollbackDrop(p) ==
    LET s == Statement("drop", MgrAcct(p), {}) IN
    /\ mgr[p].pc = "rdrop"
    /\ \/ Executes(s) /\ MgrGoto(p, "rcheck")
       \/ Fails(s) /\ RollbackError(p)
    /\ Lockless(MgrAcct(p))
    /\ UNCHANGED <<dba, advisory, record, actionOps, permOps, wrk, stirred>>

\* Mutant: the DROP is believed.
RollbackTrust(p) ==
    /\ mgr[p].pc = "rcheck"
    /\ MgrGoto(p, "rwrite")
    /\ Looks(p)
    /\ UNCHANGED <<platformVars, wrk>>

RollbackCheck(p) ==
    /\ mgr[p].pc = "rcheck"
    /\ \/ ~Remote(MgrAcct(p)).live /\ MgrGoto(p, "rwrite")
       \/ RollbackError(p)
    /\ Looks(p)
    /\ UNCHANGED <<platformVars, wrk>>

RollbackWrite(p) ==
    /\ mgr[p].pc = "rwrite"
    /\ \/ Write(MgrAcct(p), "failed", FALSE) /\ MgrEnd(p)
       \/ RollbackError(p) /\ UNCHANGED record
    /\ UNCHANGED <<server, late, dba, advisory, touched, actionOps, permOps, wrk, stirred>>

-----------------------------------------------------------------------------
(* check_operation: the creation is verified again.                        *)

CheckOperation(p, a) ==
    /\ record[a].made
    /\ record[a].status \notin {"active", "expired", "expiring", "failed"}
    /\ record[a].status \in {"provisioning", "verifying"} => record[a].aged
    /\ MgrBegin(p, "vremote", a)
    /\ UNCHANGED <<platformVars, wrk, stirred>>

CheckRemote(p) ==
    /\ mgr[p].pc = "vremote"
    /\ \/ Verified(MgrAcct(p)) /\ MgrGoto(p, "vactive")
       \/ MgrGoto(p, "vcleanup")
    /\ Looks(p)
    /\ UNCHANGED <<platformVars, wrk>>

CheckActive(p) ==
    /\ mgr[p].pc = "vactive"
    /\ Write(MgrAcct(p), "active", TRUE)
    /\ MgrEnd(p)
    /\ UNCHANGED <<server, late, dba, advisory, touched, actionOps, permOps, wrk, stirred>>

CheckCleanup(p) ==
    /\ mgr[p].pc = "vcleanup"
    /\ Write(MgrAcct(p), "cleanup_required", record[MgrAcct(p)].confirmed)
    /\ MgrEnd(p)
    /\ UNCHANGED <<server, late, dba, advisory, touched, actionOps, permOps, wrk, stirred>>

-----------------------------------------------------------------------------
(* save_password: a record by hand, for an account that exists.            *)

SavePassword(p, a) ==
    /\ Remote(a).live
    /\ MgrBegin(p, "save", a)
    /\ UNCHANGED <<platformVars, wrk, stirred>>

Save(p) ==
    LET a == MgrAcct(p) IN
    /\ mgr[p].pc = "save"
    /\ record' = [record EXCEPT ![a] =
           IF @.status \in {"absent", "deleted"}
           THEN [@ EXCEPT !.status = "recorded", !.typed = TRUE, !.timed = FALSE,
                          !.due = FALSE, !.aged = FALSE]
           ELSE [@ EXCEPT !.typed = TRUE, !.aged = FALSE]]
    /\ MgrEnd(p)
    /\ UNCHANGED <<server, late, dba, advisory, touched, actionOps, permOps, wrk, stirred>>

\* The thread's process dies, or an error ends the request.
MgrDie(p) ==
    /\ mgr[p].pc # "idle"
    /\ MgrEnd(p)
    /\ UNCHANGED <<platformVars, wrk, stirred>>

-----------------------------------------------------------------------------
(* expire_due_accounts                                                     *)

\* Mutant: a row already expiring is left to whoever claimed it first.
ClaimableOnce(a) == record[a].status = "active" /\ record[a].due /\ ~record[a].claimed

Claimable(a) == /\ record[a].status \in {"active", "expiring"}
                /\ record[a].due
                /\ ~record[a].claimed

\* One transaction takes up to Batch due rows for two minutes; rows that another
\* transaction has locked are skipped.
Claim(w, batch) ==
    /\ wrk[w].pc = "idle"
    /\ wrk[w].todo = {}
    /\ batch # {} /\ Cardinality(batch) <= Batch
    /\ \A a \in batch : Claimable(a)
    /\ record' = [a \in Account |-> IF a \in batch
                  THEN [record[a] EXCEPT !.status = "expiring", !.claimed = TRUE, !.aged = FALSE]
                  ELSE record[a]]
    /\ wrk' = [wrk EXCEPT ![w].todo = batch]
    /\ UNCHANGED <<server, late, dba, advisory, touched, actionOps, permOps, mgr, stirred>>

\* The next row of the batch, as it was read when it was claimed.
NextRow(w, a) ==
    /\ wrk[w].pc = "idle"
    /\ a \in wrk[w].todo
    /\ wrk' = [wrk EXCEPT ![w] = [pc |-> "xverify", acct |-> a, todo |-> @.todo \ {a}]]
    /\ UNCHANGED <<platformVars, mgr, stirred>>

GotoRow(w, l) == wrk' = [wrk EXCEPT ![w].pc = l]

\* An error leaves the row to a later claim; if noting it fails too, the rest of
\* the batch is left as well.
RowError(w) == GotoRow(w, "idle") \/ wrk' = [wrk EXCEPT ![w] = [@ EXCEPT !.pc = "idle", !.todo = {}]]

ExpireVerify(w) ==
    /\ wrk[w].pc = "xverify"
    /\ \/ Marked(wrk[w].acct) /\ GotoRow(w, "xexpire")
       \/ RowError(w)
    /\ Looks(w)
    /\ UNCHANGED <<platformVars, mgr>>

\* Mutant: an error of the statement is swallowed.
ExpireAnyhow(w) ==
    LET s == Statement("expire", wrk[w].acct, {}) IN
    /\ wrk[w].pc = "xexpire"
    /\ Executes(s) \/ Fails(s)
    /\ GotoRow(w, "xwrite")
    /\ Lockless(wrk[w].acct)
    /\ UNCHANGED <<dba, advisory, record, actionOps, permOps, mgr, stirred>>

\* expire_account()
ExpireRemote(w) ==
    LET s == Statement("expire", wrk[w].acct, {}) IN
    /\ wrk[w].pc = "xexpire"
    /\ \/ Executes(s) /\ GotoRow(w, "xwrite")
       \/ Fails(s) /\ RowError(w)
    /\ Lockless(wrk[w].acct)
    /\ UNCHANGED <<dba, advisory, record, actionOps, permOps, mgr, stirred>>

ExpireWrite(w) ==
    LET a == wrk[w].acct IN
    /\ wrk[w].pc = "xwrite"
    /\ \/ Write(a, "expired", record[a].confirmed) /\ GotoRow(w, "idle")
       \/ RowError(w) /\ UNCHANGED record
    /\ UNCHANGED <<server, late, dba, advisory, touched, actionOps, permOps, mgr, stirred>>

\* The backend stops between two steps; its claims lapse.
WorkerDie(w) ==
    /\ wrk[w].pc # "idle" \/ wrk[w].todo # {}
    /\ wrk' = [wrk EXCEPT ![w] = [@ EXCEPT !.pc = "idle", !.todo = {}]]
    /\ UNCHANGED <<platformVars, mgr, stirred>>

-----------------------------------------------------------------------------
(* Time and the world outside.                                             *)

Clock(a, row) ==
    /\ record[a] # row
    /\ record' = [record EXCEPT ![a] = row]
    /\ UNCHANGED <<server, late, dba, advisory, touched, actionOps, permOps, mgr, wrk, stirred>>

\* expires_at passes.
Due(a) == record[a].timed /\ Clock(a, [record[a] EXCEPT !.due = TRUE])

\* The two minutes of a claim pass, whether or not its worker is done.
Lapse(a) == Clock(a, [record[a] EXCEPT !.claimed = FALSE])

\* Five minutes pass over a row in progress.  A creation that runs has written
\* within them: granting stops after 120 seconds, a query after ten.
AgeRecord(a) ==
    /\ record[a].status \in {"provisioning", "verifying"}
    /\ \A p \in AcctReq : ~(mgr[p].creating /\ mgr[p].acct = a)
    /\ Clock(a, [record[a] EXCEPT !.aged = TRUE])

Watchers(changed) == {p \in AcctReq : mgr[p].acct \in changed} \cup
                     {w \in Worker : wrk[w].acct \in changed}

ManagedEnv ==
    /\ Outside
    /\ stirred' = stirred \cup Watchers({a \in Account : server'[a] # server[a]})
    /\ UNCHANGED <<mgr, wrk>>

-----------------------------------------------------------------------------
(* The system.                                                             *)

ManagedInit ==
    /\ PlatformInit
    /\ mgr = [p \in AcctReq |-> MgrIdle]
    /\ wrk = [w \in Worker |-> [pc |-> "idle", acct |-> AnyAccount, todo |-> {}]]
    /\ stirred = {}

MgrRequest(p, a) ==
    \/ \E want \in SUBSET Priv, timed \in BOOLEAN : Create(p, a, want, timed)
    \/ Undo(p, a)
    \/ CheckOperation(p, a)
    \/ SavePassword(p, a)

ManagedStep(p) ==
    \/ CreateName(p) \/ CreateInsert(p) \/ CreateUser(p) \/ CreatePlan(p) \/ CreateGrant(p)
    \/ CreateVerifying(p) \/ CreateVerify(p) \/ CreateActive(p) \/ CreateFail(p) \/ CreateUnsure(p)
    \/ RollbackList(p) \/ RollbackDrop(p) \/ RollbackCheck(p) \/ RollbackWrite(p)
    \/ CheckRemote(p) \/ CheckActive(p) \/ CheckCleanup(p) \/ Save(p)

WorkerStep(w) == \/ \E a \in Account : NextRow(w, a)
                 \/ ExpireVerify(w) \/ ExpireRemote(w) \/ ExpireWrite(w)

ManagedNext ==
    \/ \E p \in AcctReq : (\E a \in Account : MgrRequest(p, a)) \/ ManagedStep(p) \/ MgrDie(p)
    \/ \E w \in Worker : (\E b \in SUBSET Account : Claim(w, b)) \/ WorkerStep(w) \/ WorkerDie(w)
    \/ \E a \in Account : Due(a) \/ Lapse(a) \/ AgeRecord(a)

ManagedSystemNext == ManagedNext \/ ManagedEnv

ManagedSpec == ManagedInit /\ [][ManagedSystemNext]_managedVars

\* The worker ticks every thirty seconds and is not interrupted, or answered with
\* an error, for ever.  Every due row comes to the front of the queue: fewer rows
\* fail for good than the ticks of two minutes can claim.
ExpiryFairness ==
    /\ \A a \in Account :
          /\ WF_managedVars(Lapse(a))
          /\ SF_managedVars(\E w \in Worker, b \in SUBSET Account : a \in b /\ Claim(w, b))
    /\ \A w \in Worker :
          /\ WF_managedVars(WorkerStep(w))
          /\ \A a \in Account : SF_managedVars(NextRow(w, a))
          /\ SF_managedVars(ExpireVerify(w) /\ wrk'[w].pc = "xexpire")
          /\ SF_managedVars(ExpireRemote(w) /\ wrk'[w].pc = "xwrite")
          /\ SF_managedVars(ExpireWrite(w) /\ record' # record)

\* Request threads run to their end.
RequestFairness == \A p \in AcctReq : WF_managedVars(ManagedStep(p))

ManagedFairSpec == ManagedSpec /\ ExpiryFairness /\ RequestFairness

-----------------------------------------------------------------------------
(* Properties.                                                             *)

\* Every variable keeps its type.
ManagedTypeOK ==
    /\ PlatformTypeOK
    /\ mgr \in [AcctReq -> MgrThread]
    /\ wrk \in [Worker -> WrkThread]
    /\ stirred \in SUBSET (AcctReq \cup Worker)

\* A creation that reports active left the account it made, with exactly the
\* planned grants, unless somebody outside changed it after the final check: no
\* verification, undo or worker gets between that check and the status.
CreateReportsTruth == [][\A p \in AcctReq :
    mgr[p].pc = "cactive" /\ record' # record /\ mgr'[p] # mgr[p] =>
        p \in stirred \/ Verified(mgr[p].acct)]_managedVars

\* "Read back: the new account does not exist": true when the rollback writes it,
\* unless somebody outside created the account since.
FailedIsGone == [][\A p \in AcctReq :
    mgr[p].pc = "rwrite" /\ record' # record /\ mgr'[p] # mgr[p] =>
        p \in stirred \/ ~Remote(mgr[p].acct).live]_managedVars

\* A rollback drops and the expiry worker cuts only accounts the platform made,
\* unless the account was replaced after it was looked at.
OnlyOwnTouched == [][
    /\ \A p \in AcctReq : mgr[p].pc = "rdrop" /\ server' # server /\ mgr'[p] # mgr[p] =>
           p \in stirred \/ Remote(mgr[p].acct).mark
    /\ \A w \in Worker : wrk[w].pc = "xexpire" /\ server' # server /\ wrk'[w] # wrk[w] =>
           w \in stirred \/ Remote(wrk[w].acct).mark]_managedVars

\* A record that starts to say expired belongs to an account that cannot log in.
ExpiredIsCut == [][\A w \in Worker : wrk[w].pc = "xwrite" /\ record' # record /\ wrk'[w] # wrk[w] =>
    LET row == Remote(wrk[w].acct) IN
    w \in stirred \/ ~row.live \/ row.lock = "locked" \/ row.cut]_managedVars

\* "Only creations not confirmed as successful may be undone": an undo request
\* does not drop an account that the interface reports as created.
NeverDropsCreated == [][\A p \in AcctReq :
    mgr[p].pc = "rdrop" /\ server' # server /\ mgr'[p] # mgr[p] => ~Created(mgr[p].acct)]_managedVars

\* An account whose time is over is cut off, as long as it exists, however the
\* workers of several backends fail, stop and compete.
DueExpires == \A a \in Account :
    /\ record[a].due
    /\ record[a].status \in {"active", "expiring"}
    ~> record[a].status \notin {"active", "expiring"} \/ ~Remote(a).live
=============================================================================
