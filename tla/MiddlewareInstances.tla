------------------------ MODULE MiddlewareInstances ------------------------
(***************************************************************************)
(* The middleware instances of main.py and the passwords it keeps for the  *)
(* accounts of Doris and MySQL servers. A request reads the row of its     *)
(* instance, works on the server without any lock or transaction, and then *)
(* writes a status or a password record for the instance it read. Between  *)
(* these steps the instance may be edited to another address, replaced or  *)
(* deleted, and another request or an administrator may change the         *)
(* password of the same account.                                           *)
(*                                                                         *)
(* The endpoints of Doris and MySQL are the same code twice; the type of   *)
(* middleware is a parameter of the steps. The audit rows and the          *)
(* environments are left out: no step here reads them.                     *)
(***************************************************************************)
EXTENDS Integers, FiniteSetsExt

CONSTANTS InstThreads,    \* handlers at work
          InstIds,        \* the ids the table hands out, 1..n
          Servers,        \* base addresses
          Spellings,      \* account identities as a client sends them
          AccountOf,      \* spelling -> account of the server
          RowOf,          \* spelling -> key under utf8mb4_unicode_ci
          Meets,          \* account -> account a login with its name reaches
          Secrets,        \* passwords
          InstRequests,   \* bound: requests that begin
          InstChanges     \* bound: edits, deletions and changes by others

ASSUME InstAssumption ==
  /\ InstIds \subseteq Nat \ {0}
  /\ Spellings = DOMAIN AccountOf /\ Spellings = DOMAIN RowOf
  /\ Meets \in [{AccountOf[s] : s \in Spellings} -> {AccountOf[s] : s \in Spellings}]

VARIABLES instRow,    \* middleware_instances
          managed,    \* doris_account_credentials, mysql_account_credentials
          remotePwd,  \* passwords in force: server, account
          lateAlter,  \* statements whose client gave up and that may still run
          instReq,    \* the request each thread serves
          instLeft,   \* what is left of the two bounds
          everHeld    \* history: <<server, account, password>> once in force

instVars == <<instRow, managed, remotePwd, lateAlter, instReq, instLeft, everHeld>>

Accounts == {AccountOf[s] : s \in Spellings}
Rows == {RowOf[s] : s \in Spellings}
Types == {"nacos", "doris", "mysql", "redis"}
Tables == {"doris", "mysql"}
Ops == {"accounts", "verify", "reset", "save", "catalog", "structure"}

NoInst == [type |-> "none", url |-> "none", status |-> "none"]
Gone == [NoInst EXCEPT !.status = "deleted"]
NoRec == [pwd |-> "none", action |-> "none"]
NoReq == [pc |-> "idle", op |-> "none", type |-> "none", id |-> 0, url |-> "none",
          as |-> "none", pwd |-> "none", raced |-> FALSE]

InstRows == {NoInst, Gone} \cup [type : Types, url : Servers,
                                 status : {"configured", "active", "unreachable"}]

\* The type invariant: rows, records and requests have the values the schema
\* and the handlers allow, and no record outlives its instance.
InstTypeOK ==
  /\ instRow \in [InstIds -> InstRows]
  /\ managed \in [Tables \X InstIds \X Rows ->
                    {NoRec} \cup [pwd : Secrets, action : {"verified", "reset", "manual"}]]
  /\ remotePwd \in [Servers \X Accounts -> Secrets]
  /\ lateAlter \subseteq Servers \X Accounts \X Secrets
  /\ \A t \in InstThreads : instReq[t] = NoReq \/
       /\ instReq[t].pc \in {"remote", "active", "unreachable", "save"}
       /\ instReq[t].op \in Ops /\ instReq[t].type \in Types
       /\ instReq[t].id \in InstIds /\ instReq[t].url \in Servers
  /\ \A k \in Tables, i \in InstIds, r \in Rows :
       managed[<<k, i, r>>] /= NoRec => instRow[i].type /= "none"

\* The passwords in force: <<server, account, password>>.
InForce(pwd) == {<<x[1], x[2], pwd[x]>> : x \in DOMAIN pwd}

InstInit ==
  /\ \E type \in Types \ {"redis"}, url \in Servers :
       instRow = [i \in InstIds |-> IF i = 1 THEN [type |-> type, url |-> url, status |-> "configured"]
                                    ELSE NoInst]
  /\ managed = [x \in Tables \X InstIds \X Rows |-> NoRec]
  /\ \E p \in Secrets : remotePwd = [x \in Servers \X Accounts |-> p]
  /\ lateAlter = {}
  /\ instReq = [t \in InstThreads |-> NoReq]
  /\ instLeft = [requests |-> InstRequests, changes |-> InstChanges]
  /\ everHeld = InForce(remotePwd)

-----------------------------------------------------------------------------
(* Registering, editing and deleting instances.                            *)

\* Every request that has read the row of instance i is overtaken.
Overtake(i) ==
  instReq' = [t \in InstThreads |->
                IF instReq[t].id = i THEN [instReq[t] EXCEPT !.raced = TRUE] ELSE instReq[t]]

ChangeLeft == instLeft.changes > 0 /\ instLeft' = [instLeft EXCEPT !.changes = @ - 1]

\* uk_middleware_instances_type_url
Unregistered(type, url, except) ==
  \A i \in InstIds \ except : ~(instRow[i].type = type /\ instRow[i].url = url)

\* The nodes of a Redis instance are inserted from '$.host' of endpoints that
\* are stored as plain strings: the host is NULL, the column is NOT NULL, and
\* the whole registration is answered 409.
ConfigStored(type) == type /= "redis"

CreateInstance(type, url) ==
  /\ ChangeLeft
  /\ Unregistered(type, url, {}) /\ ConfigStored(type)
  /\ \E i \in InstIds :
       /\ instRow[i] = NoInst /\ \A j \in 1..(i - 1) : instRow[j] /= NoInst
       /\ instRow' = [instRow EXCEPT ![i] = [type |-> type, url |-> url, status |-> "configured"]]
  /\ UNCHANGED <<managed, remotePwd, lateAlter, instReq, everHeld>>

\* The records of the instance stay whatever address and type it gets.
UpdateInstance(i, type, url) ==
  /\ ChangeLeft
  /\ instRow[i].type /= "none" /\ Unregistered(type, url, {i})
  /\ instRow' = [instRow EXCEPT ![i] = [type |-> type, url |-> url, status |-> "configured"]]
  /\ Overtake(i)
  /\ UNCHANGED <<managed, remotePwd, lateAlter, everHeld>>

\* The foreign keys of the records are ON DELETE CASCADE.
DeleteInstance(i) ==
  /\ ChangeLeft
  /\ instRow[i].type /= "none"
  /\ instRow' = [instRow EXCEPT ![i] = Gone]
  /\ managed' = [x \in DOMAIN managed |-> IF x[2] = i THEN NoRec ELSE managed[x]]
  /\ Overtake(i)
  /\ UNCHANGED <<remotePwd, lateAlter, everHeld>>

-----------------------------------------------------------------------------
(* One request: read the instance, work on the server, write the result.   *)

\* status <> 'disabled' holds for every row: nothing writes that status.
Load(t, type, op, s, p) ==
  /\ instReq[t] = NoReq /\ instLeft.requests > 0
  /\ instLeft' = [instLeft EXCEPT !.requests = @ - 1]
  /\ \E i \in InstIds :
       /\ instRow[i].type = type
       /\ instReq' = [instReq EXCEPT ![t] =
            [pc |-> IF op = "save" THEN "save" ELSE "remote", op |-> op, type |-> type,
             id |-> i, url |-> instRow[i].url, as |-> s, pwd |-> p, raced |-> FALSE]]
  /\ UNCHANGED <<instRow, managed, remotePwd, lateAlter, everHeld>>

InstAt(t, pc) == instReq[t].pc = pc
InstGoto(t, pc) == instReq' = [instReq EXCEPT ![t].pc = pc]
InstEnd(t) == instReq' = [instReq EXCEPT ![t] = NoReq]
InstQuiet == UNCHANGED <<instRow, managed, remotePwd, lateAlter, instLeft, everHeld>>

\* A list or a document is fetched, or the fetch raises.
Fetch(t) == InstAt(t, "remote") /\ (InstGoto(t, "active") \/ InstGoto(t, "unreachable")) /\ InstQuiet

\* _update_middleware_connection_status: by id, whatever the row is now.
MarkStatus(t) ==
  /\ instReq[t].pc \in {"active", "unreachable"}
  /\ instRow' = IF instRow[instReq[t].id].type = "none" THEN instRow
                ELSE [instRow EXCEPT ![instReq[t].id].status = instReq[t].pc]
  /\ InstEnd(t)
  /\ UNCHANGED <<managed, remotePwd, lateAlter, instLeft, everHeld>>

\* Mutant: CURRENT_USER() is not compared.
LoginMatchesAny(url, a, p) == remotePwd[<<url, Meets[a]>>] = p

\* A login with the name of account a and password p answers as Meets[a].
LoginMatches(url, a, p) == remotePwd[<<url, Meets[a]>>] = p /\ Meets[a] = a

\* verify_mysql_account_password, verify_doris_account_password
VerifyLogin(t) ==
  /\ InstAt(t, "remote")
  /\ IF LoginMatches(instReq[t].url, AccountOf[instReq[t].as], instReq[t].pwd)
     THEN InstGoto(t, "save") ELSE InstEnd(t)
  /\ InstQuiet
LoginFails(t) == InstAt(t, "remote") /\ InstEnd(t) /\ InstQuiet

\* The password of account a on a server becomes p. A request for that account
\* that has already seen the server is overtaken.
SetPassword(url, a, p, by) ==
  /\ remotePwd' = [remotePwd EXCEPT ![<<url, a>>] = p]
  /\ everHeld' = everHeld \cup InForce(remotePwd')
  /\ instReq' = [t \in InstThreads |->
       IF t \in by THEN [instReq[t] EXCEPT !.pc = "save"]
       ELSE IF /\ InstAt(t, "save") /\ instReq[t].op /= "save"
               /\ instReq[t].url = url /\ AccountOf[instReq[t].as] = a
            THEN [instReq[t] EXCEPT !.raced = TRUE]
       ELSE instReq[t]]

\* set_mysql_account_password, set_doris_account_password, answered.
Alter(t) ==
  /\ InstAt(t, "remote")
  /\ SetPassword(instReq[t].url, AccountOf[instReq[t].as], instReq[t].pwd, {t})
  /\ UNCHANGED <<instRow, managed, lateAlter, instLeft>>

\* Mutant: a reset is stored before the server has answered.
AlterFailsSaved(t) == InstAt(t, "remote") /\ InstGoto(t, "save") /\ InstQuiet

\* The call raises: the statement was refused, or it runs unseen, maybe later.
AlterFails(t) == InstAt(t, "remote") /\ InstEnd(t) /\ InstQuiet

AlterUnanswered(t) ==
  /\ InstAt(t, "remote")
  /\ lateAlter' = lateAlter \cup {<<instReq[t].url, AccountOf[instReq[t].as], instReq[t].pwd>>}
  /\ InstEnd(t)
  /\ UNCHANGED <<instRow, managed, remotePwd, instLeft, everHeld>>

ActionName(op) == CASE op = "verify" -> "verified" [] op = "reset" -> "reset" [] OTHER -> "manual"

\* _save_doris_managed_password, _save_mysql_managed_password: an upsert and
\* an audit row in one transaction; the foreign key refuses a deleted instance.
SavePassword(t) ==
  LET q == instReq[t] IN
  /\ InstAt(t, "save")
  /\ managed' = IF instRow[q.id].type = "none" THEN managed
                ELSE [managed EXCEPT ![<<q.type, q.id, RowOf[q.as]>>] =
                        [pwd |-> q.pwd, action |-> ActionName(q.op)]]
  /\ InstEnd(t)
  /\ UNCHANGED <<instRow, remotePwd, lateAlter, instLeft, everHeld>>

\* The process dies, the pool is exhausted or a statement on the platform's
\* database fails: the open transaction is rolled back.
InstCrash(t) == instReq[t] /= NoReq /\ InstEnd(t) /\ InstQuiet

-----------------------------------------------------------------------------
(* The endpoints.                                                          *)

Serving(t, type, op) == instReq[t].type = type /\ instReq[t].op = op

NacosCatalog(t) == Serving(t, "nacos", "catalog") /\ (Fetch(t) \/ MarkStatus(t))
\* A document that cannot be parsed is answered 422 and leaves the status.
NacosStructure(t) ==
  /\ Serving(t, "nacos", "structure")
  /\ Fetch(t) \/ MarkStatus(t) \/ (InstAt(t, "remote") /\ InstEnd(t) /\ InstQuiet)

ListAccounts(t, type) == Serving(t, type, "accounts") /\ (Fetch(t) \/ MarkStatus(t))
VerifyPassword(t, type) == Serving(t, type, "verify") /\ (VerifyLogin(t) \/ LoginFails(t) \/ SavePassword(t))
ResetPassword(t, type) ==
  Serving(t, type, "reset") /\ (Alter(t) \/ AlterFails(t) \/ AlterUnanswered(t) \/ SavePassword(t))
KeepPassword(t, type) == Serving(t, type, "save") /\ SavePassword(t)

DorisAccounts(t) == ListAccounts(t, "doris")
DorisVerify(t) == VerifyPassword(t, "doris")
DorisReset(t) == ResetPassword(t, "doris")
DorisSave(t) == KeepPassword(t, "doris")
MysqlAccounts(t) == ListAccounts(t, "mysql")
MysqlVerify(t) == VerifyPassword(t, "mysql")
MysqlReset(t) == ResetPassword(t, "mysql")
MysqlSave(t) == KeepPassword(t, "mysql")

-----------------------------------------------------------------------------
(* Outside the platform.                                                   *)

LandAlter ==
  /\ \E x \in lateAlter :
       /\ lateAlter' = lateAlter \ {x}
       /\ SetPassword(x[1], x[2], x[3], {})
  /\ UNCHANGED <<instRow, managed, instLeft>>

OtherPassword(url, a, p) ==
  /\ ChangeLeft
  /\ remotePwd[<<url, a>>] /= p
  /\ SetPassword(url, a, p, {})
  /\ UNCHANGED <<instRow, managed, lateAlter>>

Begins(t) ==
  \/ Load(t, "nacos", "catalog", "none", "none") \/ Load(t, "nacos", "structure", "none", "none")
  \/ \E type \in Tables :
       \/ Load(t, type, "accounts", "none", "none")
       \/ \E op \in {"verify", "reset", "save"}, s \in Spellings, p \in Secrets : Load(t, type, op, s, p)

InstNext ==
  \/ \E type \in Types, url \in Servers : CreateInstance(type, url)
  \/ \E i \in InstIds, type \in Types, url \in Servers : UpdateInstance(i, type, url)
  \/ \E i \in InstIds : DeleteInstance(i)
  \/ \E t \in InstThreads :
       \/ Begins(t) \/ InstCrash(t) \/ NacosCatalog(t) \/ NacosStructure(t)
       \/ DorisAccounts(t) \/ DorisVerify(t) \/ DorisReset(t) \/ DorisSave(t)
       \/ MysqlAccounts(t) \/ MysqlVerify(t) \/ MysqlReset(t) \/ MysqlSave(t)
  \/ LandAlter
  \/ \E url \in Servers, a \in Accounts, p \in Secrets : OtherPassword(url, a, p)

InstSpec == InstInit /\ [][InstNext]_instVars

-----------------------------------------------------------------------------
(* Properties.                                                             *)

\* "A wrong candidate is not stored" (doris-account-inventory.md): a password
\* that is not a manual record was once in force for an account of its row.
WrongNeverSaved ==
  \A k \in Tables, i \in InstIds, r \in Rows :
    managed[<<k, i, r>>].action \in {"verified", "reset"} =>
      \E s \in Spellings : RowOf[s] = r /\ \E url \in Servers : <<url, AccountOf[s], managed[<<k, i, r>>].pwd>> \in everHeld

\* What is stored as verified or reset is in force at that moment, on the
\* server the row points to, unless the request was overtaken: the instance was
\* edited or the password of the account changed after the request saw it.
SavedIsTrue ==
  [][\A t \in InstThreads :
       LET q == instReq[t] IN
       (InstAt(t, "save") /\ q.op /= "save" /\ ~q.raced /\ managed' /= managed /\ instReq'[t] = NoReq
          /\ managed'[<<q.type, q.id, RowOf[q.as]>>] /= managed[<<q.type, q.id, RowOf[q.as]>>])
       => remotePwd'[<<instRow'[q.id].url, AccountOf[q.as]>>] = managed'[<<q.type, q.id, RowOf[q.as]>>].pwd]_instVars
=============================================================================
