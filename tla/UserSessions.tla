------------------------------ MODULE UserSessions ------------------------------
(***************************************************************************)
(* Users, their passwords and their sessions (main.py, session_store.py,   *)
(* user_passwords.py, user_management.py).  Every change of a user raises  *)
(* auth_version in the transaction of the change; a session remembers the  *)
(* version it was made with.  Changes lock the rows of the operator and of *)
(* the target.                                                             *)
(***************************************************************************)
EXTENDS Naturals, FiniteSets

CONSTANTS N,            \* users have the ids 1 to N
          Thread,       \* the request threads of all backends
          NoOne,        \* nobody has locked a row
          MaxVersion,   \* bound: changes of one user
          MaxSession    \* bound: sessions at a time

ASSUME SessionAssumption ==
    /\ N \in Nat \ {0}
    /\ NoOne \notin Thread
    /\ MaxVersion \in Nat /\ MaxSession \in Nat

User == 1..N

\* The built-in account admin, the first row of the table: no other user may take
\* its name and it cannot be renamed.
Admin == 1

VARIABLES
    row,        \* table rbac_users with the role of each user
    lock,       \* the thread that holds the lock of each row
    sessions,   \* the tokens in Redis
    job         \* the request threads

sessionVars == <<row, lock, sessions, job>>

\* super stands for the role as well, which is written together with it; pwd
\* numbers the passwords of a user.
Row == [exists: BOOLEAN, version: 0..MaxVersion, pwd: 0..MaxVersion,
        active: BOOLEAN, super: BOOLEAN]

\* super: the permissions saved with the session.
Session == [user: User, version: 0..MaxVersion, pwd: 0..MaxVersion, super: BOOLEAN]

JobLabel == {"idle", "ltouch", "lsave", "rfirst", "rsecond", "rcheck", "rwrite",
             "eoperator", "echeck", "etarget", "ewrite", "cwrite"}

\* ses: the session of the request, or the one being made; verb, active and super:
\* what is asked for.
Job == [pc: JobLabel, ses: Session, target: User, verb: {"login", "reset", "edit", "create"},
        active: BOOLEAN, super: BOOLEAN]

Idle == [pc |-> "idle", ses |-> [user |-> Admin, version |-> 0, pwd |-> 0, super |-> TRUE],
         target |-> Admin, verb |-> "login", active |-> TRUE, super |-> TRUE]

Goto(p, l) == job' = [job EXCEPT ![p].pc = l]

Operator(p) == job[p].ses.user

Target(p) == job[p].target

\* Mutant: the operator's row comes first, whatever the ids.
FirstOperator(p) == Operator(p)

\* ORDER BY id: which of the two rows a reset locks first, and which second.
First(p) == IF Operator(p) <= Target(p) THEN Operator(p) ELSE Target(p)

Second(p) == IF First(p) = Operator(p) THEN Target(p) ELSE Operator(p)

\* SELECT ... FOR UPDATE of one row; it waits for another transaction.
Acquire(p, u) == lock[u] \in {NoOne, p} /\ lock' = [lock EXCEPT ![u] = p]

\* Commit or rollback, and the end of the request.
End(p) ==
    /\ lock' = [u \in User |-> IF lock[u] = p THEN NoOne ELSE lock[u]]
    /\ job' = [job EXCEPT ![p] = Idle]

\* The request goes on if the condition holds; an error rolls it back.
Provided(p, condition, l) ==
    IF condition THEN Goto(p, l) /\ UNCHANGED lock ELSE End(p)

\* load_session(): the version is compared with the row as it is now.
Accepted(s) == row[s.user].active /\ s.version = row[s.user].version

-----------------------------------------------------------------------------
(* Sessions.                                                               *)

\* The row is read with one SELECT: hash, state, role and version belong together.
Login(p, u, w) ==
    /\ job[p].pc = "idle"
    /\ row[u].exists /\ row[u].active
    /\ row[u].pwd = w
    /\ job' = [job EXCEPT ![p] = [Idle EXCEPT !.pc = "ltouch", !.target = u, !.ses =
                  [user |-> u, version |-> row[u].version, pwd |-> w, super |-> row[u].super]]]
    /\ UNCHANGED <<row, lock, sessions>>

\* last_login_at is written and committed: the UPDATE waits for the row.
LoginTouch(p) ==
    /\ job[p].pc = "ltouch"
    /\ lock[Target(p)] = NoOne
    /\ Goto(p, "lsave")
    /\ UNCHANGED <<row, lock, sessions>>

\* Mutant: the version is looked up when the session is saved.
LoginSaveReread(p) ==
    /\ job[p].pc = "lsave"
    /\ Cardinality(sessions) < MaxSession
    /\ sessions' = sessions \cup {[job[p].ses EXCEPT !.version = row[Target(p)].version]}
    /\ End(p)
    /\ UNCHANGED row

LoginSave(p) ==
    /\ job[p].pc = "lsave"
    /\ Cardinality(sessions) < MaxSession
    /\ sessions' = sessions \cup {job[p].ses}
    /\ End(p)
    /\ UNCHANGED row

\* Logging out, the end of its lifetime, or load_session() that refuses it.
Forget(s) ==
    /\ sessions' = sessions \ {s}
    /\ UNCHANGED <<row, lock, job>>

-----------------------------------------------------------------------------
(* Changes of users; each begins with a session that load_session accepts. *)
(* That the session may use the administration console is checked once     *)
(* there and never again: any accepted session may begin.                  *)

Begin(p, s, l, j) ==
    /\ job[p].pc = "idle"
    /\ Accepted(s)
    /\ job' = [job EXCEPT ![p] = [j EXCEPT !.pc = l, !.ses = s]]
    /\ UNCHANGED <<row, lock, sessions>>

Entitled(p) ==
    LET operator == row[Operator(p)] IN
    /\ operator.exists /\ operator.active /\ operator.super
    /\ operator.version = job[p].ses.version

Reset(p, s, t) == Begin(p, s, "rfirst", [Idle EXCEPT !.target = t, !.verb = "reset"])

ResetFirst(p) ==
    /\ job[p].pc = "rfirst"
    /\ Acquire(p, First(p))
    /\ Goto(p, "rsecond")
    /\ UNCHANGED <<row, sessions>>

ResetSecond(p) ==
    /\ job[p].pc = "rsecond"
    /\ Acquire(p, Second(p))
    /\ Goto(p, "rcheck")
    /\ UNCHANGED <<row, sessions>>

\* Only superusers reset passwords, and only admin that of admin.
ResetCheck(p) ==
    /\ job[p].pc = "rcheck"
    /\ Provided(p, Entitled(p) /\ row[Target(p)].exists /\ (Target(p) = Admin => Operator(p) = Admin),
                "rwrite")
    /\ UNCHANGED <<row, sessions>>

\* The new password and the next version, in one statement.
ResetWrite(p) ==
    LET next == row[Target(p)].version + 1 IN
    /\ job[p].pc = "rwrite"
    /\ next <= MaxVersion
    /\ row' = [row EXCEPT ![Target(p)] = [@ EXCEPT !.pwd = next, !.version = next]]
    /\ End(p)
    /\ UNCHANGED sessions

\* Editing a user, or creating one that does not exist.
Change(p, s, t, verb, active, super) ==
    Begin(p, s, "eoperator", [Idle EXCEPT !.target = t, !.verb = verb, !.active = active,
                                          !.super = super])

\* Mutant: the operator's row is read without FOR UPDATE.
OperateUnlocked(p) ==
    /\ job[p].pc = "eoperator"
    /\ Goto(p, "echeck")
    /\ UNCHANGED <<row, lock, sessions>>

\* authorize()
Operate(p) ==
    /\ job[p].pc = "eoperator"
    /\ Acquire(p, Operator(p))
    /\ Goto(p, "echeck")
    /\ UNCHANGED <<row, sessions>>

OperateCheck(p) ==
    /\ job[p].pc = "echeck"
    /\ Provided(p, Entitled(p) /\ Operator(p) = Admin,
                IF job[p].verb = "edit" THEN "etarget" ELSE "cwrite")
    /\ UNCHANGED <<row, sessions>>

\* The target is locked; admin keeps name, role and state.
EditTarget(p) ==
    /\ job[p].pc = "etarget"
    /\ lock[Target(p)] \in {NoOne, p}
    /\ IF row[Target(p)].exists /\ (Target(p) = Admin => job[p].active /\ job[p].super)
       THEN Acquire(p, Target(p)) /\ Goto(p, "ewrite")
       ELSE End(p)
    /\ UNCHANGED <<row, sessions>>

EditWrite(p) ==
    LET next == row[Target(p)].version + 1 IN
    /\ job[p].pc = "ewrite"
    /\ next <= MaxVersion
    /\ row' = [row EXCEPT ![Target(p)] = [@ EXCEPT !.version = next, !.active = job[p].active,
                                                   !.super = job[p].super]]
    /\ End(p)
    /\ UNCHANGED sessions

\* 409 if the name is taken.
CreateWrite(p) ==
    /\ job[p].pc = "cwrite"
    /\ row' = IF row[Target(p)].exists THEN row
              ELSE [row EXCEPT ![Target(p)] = [exists |-> TRUE, version |-> 0, pwd |-> 0,
                                               active |-> job[p].active, super |-> job[p].super]]
    /\ End(p)
    /\ UNCHANGED sessions

\* An error or the end of the process: the transaction is rolled back.
Die(p) ==
    /\ job[p].pc # "idle"
    /\ End(p)
    /\ UNCHANGED <<row, sessions>>

-----------------------------------------------------------------------------
(* The system.                                                             *)

\* Before the first change every version is 0, that of sessions without one, too.
Init ==
    /\ row \in [User -> [exists: BOOLEAN, version: {0}, pwd: {0}, active: BOOLEAN, super: BOOLEAN]]
    /\ row[Admin].exists /\ row[Admin].active /\ row[Admin].super
    /\ \A u \in User : ~row[u].exists => ~row[u].active /\ ~row[u].super
    /\ lock = [u \in User |-> NoOne]
    /\ sessions \in SUBSET {[user |-> u, version |-> 0, pwd |-> 0, super |-> row[u].super] :
                               u \in {v \in User : row[v].exists}}
    /\ Cardinality(sessions) <= MaxSession
    /\ job = [p \in Thread |-> Idle]

Request(p) ==
    \/ \E u \in User, w \in 0..MaxVersion : Login(p, u, w)
    \/ \E s \in sessions, t \in User :
          \/ Reset(p, s, t)
          \/ \E verb \in {"edit", "create"}, active \in BOOLEAN, super \in BOOLEAN :
                Change(p, s, t, verb, active, super)

Step(p) ==
    \/ LoginTouch(p) \/ LoginSave(p)
    \/ ResetFirst(p) \/ ResetSecond(p) \/ ResetCheck(p) \/ ResetWrite(p)
    \/ Operate(p) \/ OperateCheck(p) \/ EditTarget(p) \/ EditWrite(p) \/ CreateWrite(p)

Next == \/ \E p \in Thread : Request(p) \/ Step(p) \/ Die(p)
        \/ \E s \in sessions : Forget(s)

Spec == Init /\ [][Next]_sessionVars

-----------------------------------------------------------------------------
(* Properties.                                                             *)

\* Every variable keeps its type.
SessionTypeOK ==
    /\ row \in [User -> Row]
    /\ lock \in [User -> Thread \cup {NoOne}]
    /\ sessions \in SUBSET Session
    /\ job \in [Thread -> Job]

\* "A token made with the old password by a login at the same time is unusable":
\* a session that load_session accepts was made with the present password and
\* carries the permissions of the present role.
AcceptedIsCurrent == \A s \in sessions :
    Accepted(s) => s.pwd = row[s.user].pwd /\ s.super = row[s.user].super

\* A user is changed only by an operator who is entitled when the change commits,
\* with a session that is still valid then, whatever was changed while the request
\* waited for locks or hashed a password.
AuthorisedCommit == [][\A p \in Thread :
    row' # row /\ job'[p] # job[p] => Entitled(p)]_sessionVars

\* The row a thread waits for.
Awaited(p) == CASE job[p].pc = "ltouch" -> {Target(p)}
                [] job[p].pc = "rfirst" -> {First(p)}
                [] job[p].pc = "rsecond" -> {Second(p)}
                [] job[p].pc = "eoperator" -> {Operator(p)}
                [] job[p].pc = "etarget" -> {Target(p)}
                [] OTHER -> {}

Waits(p, q) == p # q /\ \E u \in Awaited(p) : lock[u] = q

\* No transactions wait for each other in a circle: resets and edits, which lock
\* two rows by different rules, agree on the order.
NoLockCycle == \A S \in (SUBSET Thread) \ {{}} : \E p \in S : \A q \in S : ~Waits(p, q)
=============================================================================
