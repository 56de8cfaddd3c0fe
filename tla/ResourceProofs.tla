---------------------------- MODULE ResourceProofs ----------------------------
(***************************************************************************)
(* Proofs about what the console manages: middleware instances and their   *)
(* passwords (MiddlewareInstances), hosts and clusters (HostClusters) and  *)
(* monitoring platforms (MonitoringPlatforms). They share no variable, and *)
(* no proof about one uses a fact about another.                           *)
(***************************************************************************)
EXTENDS MiddlewareInstances, HostClusters, MonitoringPlatforms, TLAPS

-----------------------------------------------------------------------------
(***************************************************************************)
(* MiddlewareInstances, for any number of instances, servers, spellings,   *)
(* passwords, requests and changes by others.                              *)
(***************************************************************************)

ReqRow == [pc : {"idle", "remote", "active", "unreachable", "save"}, op : {"none"} \cup Ops,
           type : {"none"} \cup Types, id : {0} \cup InstIds, url : {"none"} \cup Servers,
           as : {"none"} \cup Spellings, pwd : {"none"} \cup Secrets, raced : BOOLEAN]
RecRow == [pwd : {"none"} \cup Secrets, action : {"none", "verified", "reset", "manual"}]

\* A request that works with a password knows its server, account and password.
Knowing(q) ==
  q.op \in {"verify", "reset", "save"} => q.url \in Servers /\ q.as \in Spellings /\ q.pwd \in Secrets

\* What a request is about to store as checked was once in force.
Seen(q, held) ==
  q.pc = "save" /\ q.op \in {"verify", "reset"} => <<q.url, AccountOf[q.as], q.pwd>> \in held

ReqOK(q, held) == q \in ReqRow /\ Knowing(q) /\ Seen(q, held)

Requests == instReq \in [InstThreads -> ReqRow] /\ \A t \in InstThreads : ReqOK(instReq[t], everHeld)

\* Passwords, and the history of passwords.
Remote ==
  /\ remotePwd \in [Servers \X Accounts -> Secrets]
  /\ lateAlter \subseteq Servers \X Accounts \X Secrets
  /\ InForce(remotePwd) \subseteq everHeld

Records == managed \in [Tables \X InstIds \X Rows -> RecRow] /\ WrongNeverSaved

PasswordInv == instRow \in [InstIds -> InstRows] /\ Remote /\ Requests /\ Records

LEMMA PasswordInit == InstInit => PasswordInv
<1> SUFFICES ASSUME InstInit PROVE PasswordInv OBVIOUS
<1>1. instRow \in [InstIds -> InstRows] BY DEF InstInit, InstRows, Types
<1>2. Remote BY DEF InstInit, Remote
<1>3. Requests BY DEF InstInit, Requests, ReqOK, ReqRow, Knowing, Seen, NoReq
<1>4. managed \in [Tables \X InstIds \X Rows -> RecRow] BY DEF InstInit, NoRec, RecRow
<1>5. \A k \in Tables, i \in InstIds, r \in Rows : managed[<<k, i, r>>] = NoRec
  BY DEF InstInit
<1>6. WrongNeverSaved BY <1>5 DEF WrongNeverSaved, NoRec
<1> QED BY <1>1, <1>2, <1>3, <1>4, <1>6 DEF PasswordInv, Records

-----------------------------------------------------------------------------
(* Requests.                                                               *)

\* One request moves on or ends while the server keeps its passwords.
LEMMA OneRequest ==
  ASSUME Requests, NEW t \in InstThreads, NEW q, ReqOK(q, everHeld),
         instReq' = [instReq EXCEPT ![t] = q], everHeld' = everHeld
  PROVE  Requests'
BY DEF Requests, ReqOK

LEMMA IdleOK == ReqOK(NoReq, everHeld)
BY DEF ReqOK, ReqRow, NoReq, Knowing, Seen, Ops

LEMMA EndOK ==
  ASSUME Requests, NEW t \in InstThreads, InstEnd(t), everHeld' = everHeld
  PROVE  Requests'
BY IdleOK, OneRequest DEF InstEnd

\* A request that is overtaken knows what it knew.
LEMMA RacedOK ==
  ASSUME NEW q, NEW held, NEW more, held \subseteq more, ReqOK(q, held)
  PROVE  ReqOK([q EXCEPT !.raced = TRUE], more) /\ ReqOK(q, more)
<1> DEFINE r == [q EXCEPT !.raced = TRUE]
<1>1. r \in ReqRow BY DEF ReqOK, ReqRow
<1>2. r.pc = q.pc /\ r.op = q.op /\ r.url = q.url /\ r.as = q.as /\ r.pwd = q.pwd
  BY DEF ReqOK, ReqRow
<1>3. ReqOK(r, more) BY <1>1, <1>2 DEF ReqOK, Knowing, Seen
<1> QED BY <1>3 DEF ReqOK, Seen

LEMMA OvertakeOK ==
  ASSUME Requests, NEW i, Overtake(i), everHeld' = everHeld
  PROVE  Requests'
<1>1. \A t \in InstThreads : ReqOK(instReq'[t], everHeld)
  BY RacedOK DEF Requests, Overtake
<1> QED BY <1>1 DEF Requests, Overtake, ReqOK

\* A password is set: the history grows, and a request that set it may store it.
LEMMA SetOK ==
  ASSUME Remote, Requests, NEW url \in Servers, NEW a \in Accounts, NEW p \in Secrets,
         NEW by \in SUBSET InstThreads, SetPassword(url, a, p, by),
         \A t \in by : /\ instReq[t].op = "reset" /\ instReq[t].url = url
                       /\ AccountOf[instReq[t].as] = a /\ instReq[t].pwd = p
  PROVE  /\ Requests' /\ remotePwd' \in [Servers \X Accounts -> Secrets]
         /\ InForce(remotePwd') \subseteq everHeld' /\ everHeld \subseteq everHeld'
<1>1. remotePwd' = [remotePwd EXCEPT ![<<url, a>>] = p] /\ everHeld' = everHeld \cup InForce(remotePwd')
  BY DEF SetPassword
<1>2. remotePwd' \in [Servers \X Accounts -> Secrets] BY <1>1 DEF Remote
<1>3. <<url, a, p>> \in everHeld'
  <2>1. <<url, a>> \in DOMAIN remotePwd' BY <1>2
  <2>2. remotePwd'[<<url, a>>] = p BY <1>1 DEF Remote
  <2>3. <<url, a, p>> \in InForce(remotePwd') BY <2>1, <2>2 DEF InForce
  <2> QED BY <1>1, <2>3
<1>4. \A t \in InstThreads : ReqOK(instReq'[t], everHeld')
  <2> TAKE t \in InstThreads
  <2> DEFINE q == instReq[t]
  <2>1. everHeld \subseteq everHeld' /\ ReqOK(q, everHeld) BY <1>1 DEF Requests
  <2>2. CASE t \in by
    <3> DEFINE r == [q EXCEPT !.pc = "save"]
    <3>1. r \in ReqRow BY <2>1 DEF ReqOK, ReqRow
    <3>2. r.pc = "save" /\ r.op = q.op /\ r.url = q.url /\ r.as = q.as /\ r.pwd = q.pwd
      BY <2>1 DEF ReqOK, ReqRow
    <3>3. ReqOK(r, everHeld') BY <1>3, <2>1, <2>2, <3>1, <3>2 DEF ReqOK, Knowing, Seen
    <3>4. instReq'[t] = r BY <2>2 DEF SetPassword
    <3> QED BY <3>3, <3>4
  <2>3. CASE t \notin by
    <3>1. instReq'[t] = q \/ instReq'[t] = [q EXCEPT !.raced = TRUE] BY <2>3 DEF SetPassword
    <3> QED BY <2>1, <3>1, RacedOK
  <2> QED BY <2>2, <2>3
<1>5. Requests'
  <2>1. instReq' = [t \in InstThreads |-> instReq'[t]] BY DEF SetPassword
  <2> QED BY <1>4, <2>1 DEF Requests, ReqOK
<1> QED BY <1>1, <1>2, <1>5

-----------------------------------------------------------------------------
(* The steps.                                                              *)

\* Rows of instances: no step gives a row another shape, and records are kept,
\* or lost with their instance.
LEMMA RowSteps ==
  ASSUME PasswordInv,
         \/ \E type \in Types, url \in Servers : CreateInstance(type, url)
         \/ \E i \in InstIds, type \in Types, url \in Servers : UpdateInstance(i, type, url)
         \/ \E i \in InstIds : DeleteInstance(i)
  PROVE  PasswordInv'
<1>1. Remote' BY DEF PasswordInv, Remote, CreateInstance, UpdateInstance, DeleteInstance
<1>2. Requests'
  BY OvertakeOK DEF PasswordInv, Requests, CreateInstance, UpdateInstance, DeleteInstance
<1>3. ASSUME NEW type \in Types, NEW url \in Servers, CreateInstance(type, url) PROVE PasswordInv'
  <2>1. instRow' \in [InstIds -> InstRows] BY <1>3 DEF PasswordInv, CreateInstance, InstRows
  <2> QED BY <1>1, <1>2, <1>3, <2>1 DEF PasswordInv, Records, CreateInstance, WrongNeverSaved
<1>4. ASSUME NEW i \in InstIds, NEW type \in Types, NEW url \in Servers, UpdateInstance(i, type, url)
      PROVE  PasswordInv'
  <2>1. instRow' \in [InstIds -> InstRows] BY <1>4 DEF PasswordInv, UpdateInstance, InstRows
  <2> QED BY <1>1, <1>2, <1>4, <2>1 DEF PasswordInv, Records, UpdateInstance, WrongNeverSaved
<1>5. ASSUME NEW i \in InstIds, DeleteInstance(i) PROVE PasswordInv'
  <2>1. instRow' \in [InstIds -> InstRows] BY <1>5 DEF PasswordInv, DeleteInstance, InstRows
  <2>2. managed' \in [Tables \X InstIds \X Rows -> RecRow]
    BY <1>5 DEF PasswordInv, Records, DeleteInstance, NoRec, RecRow
  <2>3. \A k \in Tables, j \in InstIds, r \in Rows :
          managed'[<<k, j, r>>] = NoRec \/ managed'[<<k, j, r>>] = managed[<<k, j, r>>]
    BY <1>5 DEF PasswordInv, Records, DeleteInstance
  <2>4. WrongNeverSaved'
    BY <1>5, <2>3 DEF PasswordInv, Records, WrongNeverSaved, DeleteInstance, NoRec
  <2> QED BY <1>1, <1>2, <2>1, <2>2, <2>4 DEF PasswordInv, Records
<1> QED BY <1>3, <1>4, <1>5

LEMMA LoadOK ==
  ASSUME PasswordInv, NEW t \in InstThreads, NEW type \in Types, NEW op \in Ops,
         NEW s \in {"none"} \cup Spellings, NEW p \in {"none"} \cup Secrets,
         op \in {"verify", "reset", "save"} => s \in Spellings /\ p \in Secrets, Load(t, type, op, s, p)
  PROVE  PasswordInv'
<1>1. PICK i \in InstIds :
        /\ instRow[i].type = type
        /\ instReq' = [instReq EXCEPT ![t] =
             [pc |-> IF op = "save" THEN "save" ELSE "remote", op |-> op, type |-> type,
              id |-> i, url |-> instRow[i].url, as |-> s, pwd |-> p, raced |-> FALSE]]
  BY DEF Load
<1> DEFINE q == [pc |-> IF op = "save" THEN "save" ELSE "remote", op |-> op, type |-> type,
                 id |-> i, url |-> instRow[i].url, as |-> s, pwd |-> p, raced |-> FALSE]
<1>2. instRow[i].url \in Servers BY <1>1 DEF PasswordInv, InstRows, NoInst, Gone, Types
<1>3. ReqOK(q, everHeld) BY <1>2 DEF ReqOK, ReqRow, Knowing, Seen
<1>4. Requests' BY <1>1, <1>3, OneRequest DEF PasswordInv, Load
<1> QED BY <1>4 DEF PasswordInv, Remote, Records, WrongNeverSaved, Load

\* Steps that move one request, or mark a status.
LEMMA QuietOK ==
  ASSUME PasswordInv, NEW t \in InstThreads,
         \/ instReq[t].op \notin {"verify", "reset"} /\ Fetch(t)
         \/ MarkStatus(t) \/ (InstEnd(t) /\ InstQuiet)
         \/ instReq[t].op = "verify" /\ VerifyLogin(t)
  PROVE  PasswordInv'
<1> DEFINE q == instReq[t]
<1>1. ReqOK(q, everHeld) /\ q \in ReqRow BY DEF PasswordInv, Requests, ReqOK
<1>2. CASE InstEnd(t) /\ InstQuiet
  BY <1>2, EndOK DEF PasswordInv, InstQuiet, Remote, Records, WrongNeverSaved
<1>3. CASE q.op \notin {"verify", "reset"} /\ Fetch(t)
  <2>1. PICK pc \in {"active", "unreachable"} : instReq' = [instReq EXCEPT ![t] = [q EXCEPT !.pc = pc]]
    BY <1>3 DEF Fetch, InstGoto
  <2>2. ReqOK([q EXCEPT !.pc = pc], everHeld) BY <1>1 DEF ReqOK, ReqRow, Knowing, Seen
  <2>3. Requests' BY <1>3, <2>1, <2>2, OneRequest DEF PasswordInv, Fetch, InstQuiet
  <2> QED BY <1>3, <2>3 DEF Fetch, PasswordInv, InstQuiet, Remote, Records, WrongNeverSaved
<1>4. CASE MarkStatus(t)
  <2>1. instRow' \in [InstIds -> InstRows]
    <3>1. CASE instRow[q.id].type = "none" BY <1>4, <3>1 DEF MarkStatus, PasswordInv
    <3>2. CASE instRow[q.id].type # "none"
      <4>1. instRow' = [instRow EXCEPT ![q.id].status = q.pc] /\ q.pc \in {"active", "unreachable"}
        BY <1>4, <3>2 DEF MarkStatus
      <4>2. \A i \in InstIds : instRow[i].type # "none" =>
              [instRow[i] EXCEPT !.status = q.pc] \in InstRows
        BY <4>1 DEF PasswordInv, InstRows, NoInst, Gone
      <4> QED BY <3>2, <4>1, <4>2 DEF PasswordInv
    <3> QED BY <3>1, <3>2
  <2>2. Requests' BY <1>4, EndOK DEF MarkStatus, PasswordInv
  <2> QED BY <1>4, <2>1, <2>2 DEF MarkStatus, PasswordInv, Remote, Records, WrongNeverSaved
<1>5. CASE q.op = "verify" /\ VerifyLogin(t)
  <2>1. CASE InstEnd(t) BY <1>2, <1>5, <2>1 DEF VerifyLogin
  <2>2. CASE InstGoto(t, "save") /\ LoginMatches(q.url, AccountOf[q.as], q.pwd)
    <3>1. q.url \in Servers /\ q.as \in Spellings /\ q.pwd \in Secrets BY <1>1, <1>5 DEF ReqOK, Knowing
    <3> DEFINE a == AccountOf[q.as]
    <3>2. a \in Accounts BY <3>1 DEF Accounts
    <3>3. remotePwd[<<q.url, a>>] = q.pwd BY <2>2 DEF LoginMatches
    <3>4. <<q.url, a>> \in DOMAIN remotePwd BY <3>1, <3>2 DEF PasswordInv, Remote
    <3>5. <<q.url, a, q.pwd>> \in InForce(remotePwd) BY <3>3, <3>4 DEF InForce
    <3> DEFINE r == [q EXCEPT !.pc = "save"]
    <3>6. r \in ReqRow BY <1>1 DEF ReqRow
    <3>7. r.op = q.op /\ r.url = q.url /\ r.as = q.as /\ r.pwd = q.pwd BY <1>1 DEF ReqRow
    <3>8. ReqOK(r, everHeld) BY <3>1, <3>5, <3>6, <3>7 DEF ReqOK, Knowing, Seen, PasswordInv, Remote
    <3>9. Requests' BY <1>5, <2>2, <3>8, OneRequest DEF PasswordInv, VerifyLogin, InstQuiet, InstGoto
    <3> QED BY <1>5, <3>9 DEF VerifyLogin, PasswordInv, InstQuiet, Remote, Records, WrongNeverSaved
  <2> QED BY <1>5, <2>1, <2>2 DEF VerifyLogin
<1> QED BY <1>2, <1>3, <1>4, <1>5

LEMMA SavePasswordOK ==
  ASSUME PasswordInv, NEW t \in InstThreads, SavePassword(t), instReq[t].op \in {"verify", "reset", "save"}
  PROVE  PasswordInv'
<1> DEFINE q == instReq[t]
           rec == [pwd |-> q.pwd, action |-> ActionName(q.op)]
<1>1. ReqOK(q, everHeld) /\ q \in ReqRow /\ q.pc = "save" BY DEF PasswordInv, Requests, ReqOK, SavePassword, InstAt
<1>2. q.url \in Servers /\ q.as \in Spellings /\ q.pwd \in Secrets BY <1>1 DEF ReqOK, Knowing
<1>3. rec \in RecRow BY <1>2 DEF RecRow, ActionName
<1>4. managed' = managed \/ managed' = [managed EXCEPT ![<<q.type, q.id, RowOf[q.as]>>] = rec]
  BY DEF SavePassword
<1>5. managed' \in [Tables \X InstIds \X Rows -> RecRow] BY <1>3, <1>4 DEF PasswordInv, Records
<1>6. WrongNeverSaved'
  <2> SUFFICES ASSUME NEW k \in Tables, NEW i \in InstIds, NEW r \in Rows,
                      managed'[<<k, i, r>>].action \in {"verified", "reset"}
               PROVE  \E s \in Spellings : RowOf[s] = r /\
                        \E url \in Servers : <<url, AccountOf[s], managed'[<<k, i, r>>].pwd>> \in everHeld
    BY DEF WrongNeverSaved, SavePassword
  <2>1. managed'[<<k, i, r>>] = managed[<<k, i, r>>] \/ (managed'[<<k, i, r>>] = rec /\ RowOf[q.as] = r)
    BY <1>4 DEF PasswordInv, Records
  <2>2. CASE managed'[<<k, i, r>>] = managed[<<k, i, r>>]
    BY <2>2 DEF PasswordInv, Records, WrongNeverSaved
  <2>3. CASE managed'[<<k, i, r>>] = rec /\ RowOf[q.as] = r
    <3>1. q.op \in {"verify", "reset"} BY <2>3 DEF ActionName
    <3>2. <<q.url, AccountOf[q.as], q.pwd>> \in everHeld BY <1>1, <3>1 DEF ReqOK, Seen
    <3> QED BY <1>2, <2>3, <3>2
  <2> QED BY <2>1, <2>2, <2>3
<1>7. Requests' BY EndOK DEF SavePassword, PasswordInv
<1> QED BY <1>5, <1>6, <1>7 DEF SavePassword, PasswordInv, Remote, Records

LEMMA AlterOK ==
  ASSUME PasswordInv, NEW t \in InstThreads, instReq[t].op = "reset", Alter(t) \/ AlterUnanswered(t)
  PROVE  PasswordInv'
<1> DEFINE q == instReq[t]
<1>1. q.url \in Servers /\ q.as \in Spellings /\ q.pwd \in Secrets BY DEF PasswordInv, Requests, ReqOK, Knowing
<1>2. AccountOf[q.as] \in Accounts BY <1>1 DEF Accounts
<1>3. CASE Alter(t)
  <2>1. /\ Requests' /\ remotePwd' \in [Servers \X Accounts -> Secrets]
        /\ InForce(remotePwd') \subseteq everHeld' /\ everHeld \subseteq everHeld'
    <3>1. {t} \in SUBSET InstThreads OBVIOUS
    <3>2. Remote /\ Requests BY DEF PasswordInv
    <3>3. SetPassword(q.url, AccountOf[q.as], q.pwd, {t}) BY <1>3 DEF Alter
    <3>4. \A u \in {t} : /\ instReq[u].op = "reset" /\ instReq[u].url = q.url
                        /\ AccountOf[instReq[u].as] = AccountOf[q.as] /\ instReq[u].pwd = q.pwd
      OBVIOUS
    <3> QED BY <1>1, <1>2, <3>1, <3>2, <3>3, <3>4, SetOK DEF Remote
  <2>2. Records' BY <1>3, <2>1 DEF Alter, PasswordInv, Records, WrongNeverSaved
  <2> QED BY <1>3, <2>1, <2>2 DEF Alter, PasswordInv, Remote
<1>4. CASE AlterUnanswered(t)
  <2>1. Remote' BY <1>1, <1>2, <1>4 DEF AlterUnanswered, PasswordInv, Remote
  <2>2. Requests' BY <1>4, EndOK DEF AlterUnanswered, PasswordInv
  <2> QED BY <1>4, <2>1, <2>2 DEF AlterUnanswered, PasswordInv, Records, WrongNeverSaved
<1> QED BY <1>3, <1>4

LEMMA OutsideOK ==
  ASSUME PasswordInv,
         LandAlter \/ \E url \in Servers, a \in Accounts, p \in Secrets : OtherPassword(url, a, p)
  PROVE  PasswordInv'
<1>1. ASSUME NEW url \in Servers, NEW a \in Accounts, NEW p \in Secrets, SetPassword(url, a, p, {}),
             UNCHANGED <<instRow, managed>>, lateAlter' \subseteq lateAlter
      PROVE  PasswordInv'
  <2>1. /\ Requests' /\ remotePwd' \in [Servers \X Accounts -> Secrets]
        /\ InForce(remotePwd') \subseteq everHeld' /\ everHeld \subseteq everHeld'
    <3>1. {} \in SUBSET InstThreads OBVIOUS
    <3>2. Remote /\ Requests /\ SetPassword(url, a, p, {}) BY <1>1 DEF PasswordInv
    <3>3. \A t \in {} : /\ instReq[t].op = "reset" /\ instReq[t].url = url
                       /\ AccountOf[instReq[t].as] = a /\ instReq[t].pwd = p
      OBVIOUS
    <3> QED BY <3>1, <3>2, <3>3, SetOK DEF Remote
  <2>2. Records' BY <1>1, <2>1 DEF PasswordInv, Records, WrongNeverSaved
  <2> QED BY <1>1, <2>1, <2>2 DEF PasswordInv, Remote
<1>2. CASE LandAlter
  <2>1. PICK x \in lateAlter : lateAlter' = lateAlter \ {x} /\ SetPassword(x[1], x[2], x[3], {})
    BY <1>2 DEF LandAlter
  <2>2. x[1] \in Servers /\ x[2] \in Accounts /\ x[3] \in Secrets BY DEF PasswordInv, Remote
  <2> QED BY <1>1, <1>2, <2>1, <2>2 DEF LandAlter
<1> QED BY <1>1, <1>2 DEF OtherPassword

-----------------------------------------------------------------------------
(* The invariant, and what follows.                                        *)

LEMMA PasswordStep == PasswordInv /\ [InstNext]_instVars => PasswordInv'
<1> SUFFICES ASSUME PasswordInv, [InstNext]_instVars PROVE PasswordInv' OBVIOUS
<1>1. CASE UNCHANGED instVars
  BY <1>1 DEF instVars, PasswordInv, Remote, Requests, Records, WrongNeverSaved
<1>2. ASSUME NEW t \in InstThreads, Begins(t) PROVE PasswordInv'
  BY <1>2, LoadOK DEF Begins, Types, Tables, Ops
<1>3. ASSUME NEW t \in InstThreads, InstCrash(t) PROVE PasswordInv'
  BY <1>3, QuietOK DEF InstCrash
<1>4. ASSUME NEW t \in InstThreads, NacosCatalog(t) \/ NacosStructure(t) PROVE PasswordInv'
  BY <1>4, QuietOK DEF NacosCatalog, NacosStructure, Serving
<1>5. ASSUME NEW t \in InstThreads, NEW type \in Tables,
             ListAccounts(t, type) \/ VerifyPassword(t, type) \/ ResetPassword(t, type) \/ KeepPassword(t, type)
      PROVE  PasswordInv'
  <2>1. CASE ListAccounts(t, type) BY <2>1, QuietOK DEF ListAccounts, Serving
  <2>2. CASE VerifyPassword(t, type)
    BY <2>2, QuietOK, SavePasswordOK DEF VerifyPassword, LoginFails, Serving
  <2>3. CASE ResetPassword(t, type)
    BY <2>3, QuietOK, SavePasswordOK, AlterOK DEF ResetPassword, AlterFails, Serving
  <2>4. CASE KeepPassword(t, type) BY <2>4, SavePasswordOK DEF KeepPassword, Serving
  <2> QED BY <1>5, <2>1, <2>2, <2>3, <2>4
<1>6. ASSUME NEW t \in InstThreads,
             \/ DorisAccounts(t) \/ DorisVerify(t) \/ DorisReset(t) \/ DorisSave(t)
             \/ MysqlAccounts(t) \/ MysqlVerify(t) \/ MysqlReset(t) \/ MysqlSave(t)
      PROVE  PasswordInv'
  BY <1>5, <1>6 DEF DorisAccounts, DorisVerify, DorisReset, DorisSave,
                    MysqlAccounts, MysqlVerify, MysqlReset, MysqlSave, Tables
<1> QED BY <1>1, <1>2, <1>3, <1>4, <1>6, RowSteps, OutsideOK DEF InstNext

\* A password kept as verified or as reset was once in force for an account of
\* its row, whatever requests, edits, late statements and administrators do.
THEOREM OnlyRealPasswords == InstSpec => []WrongNeverSaved
<1>1. PasswordInv => WrongNeverSaved BY DEF PasswordInv, Records
<1> QED BY <1>1, PasswordInit, PasswordStep, PTL DEF InstSpec

-----------------------------------------------------------------------------
(* What is stored is in force.                                             *)

\* A request that nobody has overtaken works on the address its row has, and a
\* password that it is about to store as checked is the one in force there.
Fresh(q, rows, pwd) ==
  /\ q.pc = "save" => q.op \in {"verify", "reset", "save"}
  /\ q.pc # "idle" /\ ~q.raced =>
       /\ q.id \in InstIds /\ q.type \in Types /\ rows[q.id].type = q.type /\ rows[q.id].url = q.url
       /\ q.pc = "save" /\ q.op # "save" => pwd[<<q.url, AccountOf[q.as]>>] = q.pwd

FreshInv == PasswordInv /\ \A t \in InstThreads : Fresh(instReq[t], instRow, remotePwd)

LEMMA FreshInit == InstInit => FreshInv
BY PasswordInit DEF InstInit, FreshInv, Fresh, NoReq

LEMMA IdleFresh == \A rows, pwd : Fresh(NoReq, rows, pwd)
BY DEF Fresh, NoReq

\* One request moves on or ends, and nothing else changes.
LEMMA OneFresh ==
  ASSUME FreshInv, PasswordInv', NEW t \in InstThreads, NEW q, Fresh(q, instRow, remotePwd),
         instReq' = [instReq EXCEPT ![t] = q], UNCHANGED <<instRow, remotePwd>>
  PROVE  FreshInv'
BY DEF FreshInv, PasswordInv, Requests

LEMMA EndFresh ==
  ASSUME FreshInv, PasswordInv', NEW t \in InstThreads, InstEnd(t), UNCHANGED <<instRow, remotePwd>>
  PROVE  FreshInv'
BY IdleFresh, OneFresh DEF InstEnd

\* A row that is registered was nobody's; one that is edited or deleted overtakes
\* the requests that have read it.
LEMMA RowFresh ==
  ASSUME FreshInv, PasswordInv',
         \/ \E type \in Types, url \in Servers : CreateInstance(type, url)
         \/ \E i \in InstIds, type \in Types, url \in Servers : UpdateInstance(i, type, url)
         \/ \E i \in InstIds : DeleteInstance(i)
  PROVE  FreshInv'
<1>1. remotePwd' = remotePwd /\ instRow \in [InstIds -> InstRows]
  BY DEF CreateInstance, UpdateInstance, DeleteInstance, FreshInv, PasswordInv
<1>2. ASSUME NEW i \in InstIds, NEW row, instRow[i] = NoInst, instRow' = [instRow EXCEPT ![i] = row],
             instReq' = instReq
      PROVE  FreshInv'
  <2>1. \A t \in InstThreads : Fresh(instReq[t], instRow', remotePwd)
    BY <1>1, <1>2 DEF FreshInv, Fresh, NoInst, Types
  <2> QED BY <1>1, <1>2, <2>1 DEF FreshInv
<1>3. ASSUME NEW i \in InstIds, NEW row, instRow' = [instRow EXCEPT ![i] = row], Overtake(i)
      PROVE  FreshInv'
  <2>1. ASSUME NEW t \in InstThreads PROVE Fresh(instReq'[t], instRow', remotePwd)
    <3> DEFINE q == instReq[t]
    <3>1. q \in ReqRow /\ Fresh(q, instRow, remotePwd) BY DEF FreshInv, PasswordInv, Requests
    <3>2. CASE q.id = i
      <4>1. instReq'[t] = [q EXCEPT !.raced = TRUE] BY <1>3, <3>2 DEF Overtake
      <4>2. instReq'[t].raced = TRUE /\ instReq'[t].pc = q.pc /\ instReq'[t].op = q.op
        BY <3>1, <4>1 DEF ReqRow
      <4> QED BY <3>1, <4>2 DEF Fresh
    <3>3. CASE q.id # i
      <4>1. instReq'[t] = q BY <1>3, <3>3 DEF Overtake
      <4>2. q.id \in InstIds => instRow'[q.id] = instRow[q.id] BY <1>1, <1>3, <3>3
      <4> QED BY <3>1, <4>1, <4>2 DEF Fresh
    <3> QED BY <3>2, <3>3
  <2> QED BY <1>1, <2>1 DEF FreshInv
<1> QED BY <1>2, <1>3 DEF CreateInstance, UpdateInstance, DeleteInstance

\* A password that is set overtakes the requests that were about to store another
\* for the account; the request that set it may store it.
LEMMA SetFresh ==
  ASSUME FreshInv, PasswordInv', instRow' = instRow,
         NEW url \in Servers, NEW a \in Accounts, NEW p \in Secrets, NEW by, SetPassword(url, a, p, by),
         \A t \in by : /\ instReq[t].op = "reset" /\ instReq[t].url = url /\ instReq[t].pc = "remote"
                       /\ AccountOf[instReq[t].as] = a /\ instReq[t].pwd = p
  PROVE  FreshInv'
<1>1. remotePwd \in [Servers \X Accounts -> Secrets] /\ remotePwd' = [remotePwd EXCEPT ![<<url, a>>] = p]
  BY DEF FreshInv, PasswordInv, Remote, SetPassword
<1>2. ASSUME NEW t \in InstThreads PROVE Fresh(instReq'[t], instRow, remotePwd')
  <2> DEFINE q == instReq[t]
  <2>1. q \in ReqRow /\ Knowing(q) /\ Fresh(q, instRow, remotePwd)
    BY DEF FreshInv, PasswordInv, Requests, ReqOK
  <2>2. CASE t \in by
    <3> DEFINE r == [q EXCEPT !.pc = "save"]
    <3>1. r.pc = "save" /\ r.op = q.op /\ r.url = q.url /\ r.as = q.as /\ r.pwd = q.pwd /\ r.id = q.id
            /\ r.type = q.type /\ r.raced = q.raced
      BY <2>1 DEF ReqRow
    <3>2. instReq'[t] = r BY <2>2 DEF SetPassword
    <3>3. q.pc # "idle" /\ q.op = "reset" BY <2>2
    <3>4. remotePwd'[<<q.url, AccountOf[q.as]>>] = q.pwd BY <1>1, <2>2
    <3> HIDE DEF r
    <3> QED BY <2>1, <3>1, <3>2, <3>3, <3>4 DEF Fresh
  <2>3. CASE /\ t \notin by /\ InstAt(t, "save") /\ q.op # "save" /\ q.url = url
             /\ AccountOf[q.as] = a
    <3>1. instReq'[t] = [q EXCEPT !.raced = TRUE] BY <2>3 DEF SetPassword
    <3>2. instReq'[t].raced = TRUE /\ instReq'[t].pc = q.pc /\ instReq'[t].op = q.op
      BY <2>1, <3>1 DEF ReqRow
    <3> QED BY <2>1, <3>2 DEF Fresh
  <2>4. CASE /\ t \notin by
             /\ ~(InstAt(t, "save") /\ q.op # "save" /\ q.url = url /\ AccountOf[q.as] = a)
    <3>1. instReq'[t] = q BY <2>4 DEF SetPassword
    <3>2. ASSUME q.pc = "save", q.op # "save"
          PROVE  remotePwd'[<<q.url, AccountOf[q.as]>>] = remotePwd[<<q.url, AccountOf[q.as]>>]
      <4>1. q.url \in Servers /\ AccountOf[q.as] \in Accounts BY <2>1, <3>2 DEF Fresh, Knowing, Accounts
      <4>2. q.url # url \/ AccountOf[q.as] # a BY <2>4, <3>2 DEF InstAt
      <4> QED BY <1>1, <4>1, <4>2
    <3> QED BY <2>1, <3>1, <3>2 DEF Fresh
  <2> QED BY <2>2, <2>3, <2>4
<1> QED BY <1>2 DEF FreshInv

\* The steps of a request that write neither a row's address nor a password.
LEMMA QuietFresh ==
  ASSUME FreshInv, PasswordInv', NEW t \in InstThreads,
         \/ \E type \in Types, op \in Ops : \E s, p : Load(t, type, op, s, p)
         \/ Fetch(t) \/ MarkStatus(t) \/ (InstEnd(t) /\ InstQuiet)
         \/ instReq[t].op = "verify" /\ VerifyLogin(t)
         \/ SavePassword(t) \/ AlterUnanswered(t)
  PROVE  FreshInv'
<1> DEFINE q == instReq[t]
<1>1. q \in ReqRow /\ Fresh(q, instRow, remotePwd) BY DEF FreshInv, PasswordInv, Requests
<1>2. ASSUME NEW type \in Types, NEW op \in Ops, NEW s, NEW p, Load(t, type, op, s, p) PROVE FreshInv'
  <2>1. PICK i \in InstIds :
          /\ instRow[i].type = type
          /\ instReq' = [instReq EXCEPT ![t] =
               [pc |-> IF op = "save" THEN "save" ELSE "remote", op |-> op, type |-> type,
                id |-> i, url |-> instRow[i].url, as |-> s, pwd |-> p, raced |-> FALSE]]
    BY <1>2 DEF Load
  <2> DEFINE r == [pc |-> IF op = "save" THEN "save" ELSE "remote", op |-> op, type |-> type,
                   id |-> i, url |-> instRow[i].url, as |-> s, pwd |-> p, raced |-> FALSE]
  <2>2. Fresh(r, instRow, remotePwd) BY <2>1 DEF Fresh
  <2> QED BY <1>2, <2>1, <2>2, OneFresh DEF Load
<1>3. CASE Fetch(t)
  <2>1. PICK pc \in {"active", "unreachable"} : instReq' = [instReq EXCEPT ![t] = [q EXCEPT !.pc = pc]]
    BY <1>3 DEF Fetch, InstGoto
  <2> DEFINE r == [q EXCEPT !.pc = pc]
  <2>2. r.pc = pc /\ r.id = q.id /\ r.type = q.type /\ r.url = q.url /\ r.raced = q.raced
    BY <1>1 DEF ReqRow
  <2>3. q.pc = "remote" BY <1>3 DEF Fetch, InstAt
  <2> HIDE DEF r
  <2>4. Fresh(r, instRow, remotePwd) BY <1>1, <2>2, <2>3 DEF Fresh
  <2> QED BY <1>3, <2>1, <2>4, OneFresh DEF Fetch, InstQuiet, r
<1>4. CASE MarkStatus(t)
  <2>1. instRow \in [InstIds -> InstRows] /\ remotePwd' = remotePwd
    BY <1>4 DEF FreshInv, PasswordInv, MarkStatus
  <2>2. \A i \in InstIds : instRow'[i].type = instRow[i].type /\ instRow'[i].url = instRow[i].url
    <3>1. CASE instRow' = instRow BY <3>1
    <3>2. CASE instRow' = [instRow EXCEPT ![q.id].status = q.pc]
      <4>1. \A row \in InstRows : [row EXCEPT !.status = q.pc].type = row.type
                                  /\ [row EXCEPT !.status = q.pc].url = row.url
        BY DEF InstRows, NoInst, Gone
      <4> QED BY <2>1, <3>2, <4>1
    <3> QED BY <1>4, <3>1, <3>2 DEF MarkStatus
  <2>3. instReq' = [instReq EXCEPT ![t] = NoReq] BY <1>4 DEF MarkStatus, InstEnd
  <2>4. \A u \in InstThreads : instReq'[u] = NoReq \/ instReq'[u] = instReq[u]
    BY <2>3 DEF FreshInv, PasswordInv, Requests
  <2>5. \A u \in InstThreads : Fresh(instReq'[u], instRow', remotePwd)
    BY <2>2, <2>4, IdleFresh DEF FreshInv, Fresh
  <2> QED BY <2>1, <2>5 DEF FreshInv
<1>5. CASE InstEnd(t) /\ InstQuiet BY <1>5, EndFresh DEF InstQuiet
<1>6. CASE q.op = "verify" /\ VerifyLogin(t)
  <2>1. CASE InstEnd(t) BY <1>6, <2>1, EndFresh DEF VerifyLogin, InstQuiet
  <2>2. CASE InstGoto(t, "save") /\ LoginMatches(q.url, AccountOf[q.as], q.pwd)
    <3> DEFINE r == [q EXCEPT !.pc = "save"]
    <3>1. r.pc = "save" /\ r.op = q.op /\ r.url = q.url /\ r.as = q.as /\ r.pwd = q.pwd /\ r.id = q.id
            /\ r.type = q.type /\ r.raced = q.raced
      BY <1>1 DEF ReqRow
    <3>2. instReq' = [instReq EXCEPT ![t] = r] BY <2>2 DEF InstGoto
    <3>3. remotePwd[<<q.url, AccountOf[q.as]>>] = q.pwd BY <2>2 DEF LoginMatches
    <3>4. q.pc = "remote" BY <1>6 DEF VerifyLogin, InstAt
    <3> HIDE DEF r
    <3>5. Fresh(r, instRow, remotePwd) BY <1>1, <1>6, <3>1, <3>3, <3>4 DEF Fresh
    <3> QED BY <1>6, <3>2, <3>5, OneFresh DEF VerifyLogin, InstQuiet
  <2> QED BY <1>6, <2>1, <2>2 DEF VerifyLogin
<1>7. CASE SavePassword(t) \/ AlterUnanswered(t) BY <1>7, EndFresh DEF SavePassword, AlterUnanswered
<1> QED BY <1>2, <1>3, <1>4, <1>5, <1>6, <1>7

LEMMA FreshStep == FreshInv /\ [InstNext]_instVars => FreshInv'
<1> SUFFICES ASSUME FreshInv, [InstNext]_instVars PROVE FreshInv' OBVIOUS
<1>1. PasswordInv' BY PasswordStep DEF FreshInv
<1>2. CASE UNCHANGED instVars BY <1>1, <1>2 DEF instVars, FreshInv
<1>3. ASSUME NEW t \in InstThreads, Begins(t) PROVE FreshInv'
  BY <1>1, <1>3, QuietFresh DEF Begins, Types, Tables, Ops
<1>4. ASSUME NEW t \in InstThreads, InstCrash(t) PROVE FreshInv'
  BY <1>1, <1>4, QuietFresh DEF InstCrash
<1>5. ASSUME NEW t \in InstThreads, NacosCatalog(t) \/ NacosStructure(t) PROVE FreshInv'
  BY <1>1, <1>5, QuietFresh DEF NacosCatalog, NacosStructure
<1>6. ASSUME NEW t \in InstThreads, NEW type \in Tables,
             ListAccounts(t, type) \/ VerifyPassword(t, type) \/ ResetPassword(t, type) \/ KeepPassword(t, type)
      PROVE  FreshInv'
  <2>1. CASE ListAccounts(t, type) BY <1>1, <2>1, QuietFresh DEF ListAccounts
  <2>2. CASE VerifyPassword(t, type) BY <1>1, <2>2, QuietFresh DEF VerifyPassword, LoginFails, Serving
  <2>3. CASE instReq[t].op = "reset" /\ Alter(t)
    <3> DEFINE q == instReq[t]
    <3>1. q.url \in Servers /\ q.as \in Spellings /\ q.pwd \in Secrets
      BY <2>3 DEF FreshInv, PasswordInv, Requests, ReqOK, Knowing
    <3>2. AccountOf[q.as] \in Accounts BY <3>1 DEF Accounts
    <3>3. /\ SetPassword(q.url, AccountOf[q.as], q.pwd, {t}) /\ q.pc = "remote" /\ instRow' = instRow
      BY <2>3 DEF Alter, InstAt
    <3>4. \A u \in {t} : /\ instReq[u].op = "reset" /\ instReq[u].url = q.url /\ instReq[u].pc = "remote"
                        /\ AccountOf[instReq[u].as] = AccountOf[q.as] /\ instReq[u].pwd = q.pwd
      BY <2>3, <3>3
    <3> QED BY <1>1, <3>1, <3>2, <3>3, <3>4, SetFresh
  <2>4. CASE ResetPassword(t, type)
    BY <1>1, <2>3, <2>4, QuietFresh DEF ResetPassword, AlterFails, Serving
  <2>5. CASE KeepPassword(t, type) BY <1>1, <2>5, QuietFresh DEF KeepPassword
  <2> QED BY <1>6, <2>1, <2>2, <2>4, <2>5
<1>7. ASSUME NEW t \in InstThreads,
             \/ DorisAccounts(t) \/ DorisVerify(t) \/ DorisReset(t) \/ DorisSave(t)
             \/ MysqlAccounts(t) \/ MysqlVerify(t) \/ MysqlReset(t) \/ MysqlSave(t)
      PROVE  FreshInv'
  BY <1>6, <1>7 DEF DorisAccounts, DorisVerify, DorisReset, DorisSave,
                    MysqlAccounts, MysqlVerify, MysqlReset, MysqlSave, Tables
<1>8. ASSUME NEW url \in Servers, NEW a \in Accounts, NEW p \in Secrets, SetPassword(url, a, p, {}),
             instRow' = instRow
      PROVE  FreshInv'
  BY <1>1, <1>8, SetFresh
<1>9. CASE LandAlter
  <2>1. PICK x \in lateAlter : SetPassword(x[1], x[2], x[3], {}) BY <1>9 DEF LandAlter
  <2>2. x[1] \in Servers /\ x[2] \in Accounts /\ x[3] \in Secrets BY DEF FreshInv, PasswordInv, Remote
  <2> QED BY <1>8, <1>9, <2>1, <2>2 DEF LandAlter
<1> QED BY <1>1, <1>2, <1>3, <1>4, <1>5, <1>7, <1>8, <1>9, RowFresh DEF InstNext, OtherPassword

\* Only the request that stores a password ends on the step that stores it.
LEMMA StoresItsOwn ==
  ASSUME FreshInv, InstNext, NEW t \in InstThreads, InstAt(t, "save"), instReq'[t] = NoReq, managed' # managed
  PROVE  SavePassword(t)
<1>1. instReq[t] \in ReqRow /\ instReq[t].pc = "save" /\ NoReq.pc = "idle"
  BY DEF FreshInv, PasswordInv, Requests, InstAt, NoReq
<1>2. ASSUME NEW i \in InstIds, DeleteInstance(i) PROVE FALSE
  <2>1. instReq'[t] = instReq[t] \/ instReq'[t] = [instReq[t] EXCEPT !.raced = TRUE]
    BY <1>2 DEF DeleteInstance, Overtake
  <2>2. instReq'[t].pc = "save" BY <1>1, <2>1 DEF ReqRow
  <2> QED BY <1>1, <2>2
<1>3. ASSUME NEW u \in InstThreads, SavePassword(u) PROVE u = t
  <2>1. instReq' = [instReq EXCEPT ![u] = NoReq] BY <1>3 DEF SavePassword, InstEnd
  <2> QED BY <1>1, <2>1 DEF FreshInv, PasswordInv, Requests
<1>4. \E u \in InstThreads : SavePassword(u)
  <2>1. ASSUME NEW u \in InstThreads,
               Begins(u) \/ InstCrash(u) \/ Fetch(u) \/ MarkStatus(u) \/ VerifyLogin(u) \/ LoginFails(u)
                 \/ (InstEnd(u) /\ InstQuiet) \/ Alter(u) \/ AlterFails(u) \/ AlterUnanswered(u)
        PROVE  managed' = managed
    BY <2>1 DEF Begins, Load, InstCrash, InstQuiet, Fetch, MarkStatus, VerifyLogin, LoginFails, Alter, AlterFails,
                AlterUnanswered
  <2>2. (\E type \in Types, url \in Servers : CreateInstance(type, url))
          \/ (\E i \in InstIds, type \in Types, url \in Servers : UpdateInstance(i, type, url))
          \/ LandAlter \/ (\E url \in Servers, a \in Accounts, p \in Secrets : OtherPassword(url, a, p))
          => managed' = managed
    BY DEF CreateInstance, UpdateInstance, LandAlter, OtherPassword
  <2> QED BY <1>2, <2>1, <2>2
          DEF InstNext, NacosCatalog, NacosStructure, DorisAccounts, DorisVerify, DorisReset, DorisSave,
              MysqlAccounts, MysqlVerify, MysqlReset, MysqlSave, ListAccounts, VerifyPassword,
              ResetPassword, KeepPassword
<1> QED BY <1>3, <1>4

\* What is stored as verified or reset is in force at that moment on the server
\* the row points to, unless the instance or the password was changed after the
\* request had seen it: for any number of requests, edits and late statements.
THEOREM StoredInForce == InstSpec => SavedIsTrue
<1>1. FreshInv /\ [InstNext]_instVars =>
        [\A t \in InstThreads :
           LET q == instReq[t] IN
           (InstAt(t, "save") /\ q.op /= "save" /\ ~q.raced /\ managed' /= managed /\ instReq'[t] = NoReq
              /\ managed'[<<q.type, q.id, RowOf[q.as]>>] /= managed[<<q.type, q.id, RowOf[q.as]>>])
           => remotePwd'[<<instRow'[q.id].url, AccountOf[q.as]>>]
                = managed'[<<q.type, q.id, RowOf[q.as]>>].pwd]_instVars
  <2> SUFFICES ASSUME FreshInv, InstNext, NEW t \in InstThreads, NEW q, q = instReq[t],
                      InstAt(t, "save"), q.op /= "save", ~q.raced, managed' /= managed, instReq'[t] = NoReq,
                      managed'[<<q.type, q.id, RowOf[q.as]>>] /= managed[<<q.type, q.id, RowOf[q.as]>>]
               PROVE  remotePwd'[<<instRow'[q.id].url, AccountOf[q.as]>>]
                        = managed'[<<q.type, q.id, RowOf[q.as]>>].pwd
    BY Zenon
  <2>1. SavePassword(t) BY StoresItsOwn
  <2>2. instRow' = instRow /\ remotePwd' = remotePwd BY <2>1 DEF SavePassword
  <2>3. Fresh(q, instRow, remotePwd) /\ q.pc = "save" BY DEF FreshInv, InstAt
  <2>4. instRow[q.id].url = q.url /\ remotePwd[<<q.url, AccountOf[q.as]>>] = q.pwd BY <2>3 DEF Fresh
  <2>5. managed' = [managed EXCEPT ![<<q.type, q.id, RowOf[q.as]>>] =
                      [pwd |-> q.pwd, action |-> ActionName(q.op)]]
    BY <2>1 DEF SavePassword
  <2>6. managed'[<<q.type, q.id, RowOf[q.as]>>] = [pwd |-> q.pwd, action |-> ActionName(q.op)]
    BY <2>5 DEF FreshInv, PasswordInv, Records
  <2>7. managed'[<<q.type, q.id, RowOf[q.as]>>].pwd = q.pwd BY <2>6
  <2> QED BY <2>2, <2>4, <2>7
<1> QED BY <1>1, FreshInit, FreshStep, PTL DEF InstSpec, SavedIsTrue

-----------------------------------------------------------------------------
(* No record outlives its instance.                                        *)

\* A request that is under way has the row it was loaded from.
Underway(q) ==
  q = NoReq \/ /\ q.pc # "idle" /\ q.op \in Ops /\ q.type \in Types
               /\ q.id \in InstIds /\ q.url \in Servers

\* A record has a password, says where it comes from, and its instance is there.
Owned(recs, rows) ==
  \A k \in Tables, i \in InstIds, r \in Rows :
    \/ recs[<<k, i, r>>] = NoRec
    \/ /\ recs[<<k, i, r>>] \in [pwd : Secrets, action : {"verified", "reset", "manual"}]
       /\ rows[i].type # "none"

AllUnderway == \A t \in InstThreads : Underway(instReq[t])

OwnedInv == FreshInv /\ AllUnderway /\ Owned(managed, instRow)

LEMMA OwnedInit == InstInit => OwnedInv
<1> SUFFICES ASSUME InstInit PROVE OwnedInv OBVIOUS
<1>1. AllUnderway BY DEF InstInit, AllUnderway, Underway
<1>2. Owned(managed, instRow) BY DEF InstInit, Owned
<1> QED BY <1>1, <1>2, FreshInit DEF OwnedInv

\* A request that goes on, or is overtaken, is under way.
LEMMA GoesOn ==
  ASSUME NEW q \in ReqRow, Underway(q), q # NoReq, NEW r,
         \/ \E pc \in {"remote", "active", "unreachable", "save"} : r = [q EXCEPT !.pc = pc]
         \/ r = [q EXCEPT !.raced = TRUE]
  PROVE  Underway(r)
<1>1. /\ r.pc # "idle" /\ r.op = q.op /\ r.type = q.type /\ r.id = q.id /\ r.url = q.url
  BY DEF ReqRow, Underway
<1> QED BY <1>1 DEF Underway

LEMMA OneUnderway ==
  ASSUME OwnedInv, NEW t \in InstThreads, NEW r, Underway(r), instReq' = [instReq EXCEPT ![t] = r]
  PROVE  AllUnderway'
BY DEF OwnedInv, FreshInv, PasswordInv, Requests, AllUnderway

LEMMA EndUnderway ==
  ASSUME OwnedInv, NEW t \in InstThreads, InstEnd(t)
  PROVE  AllUnderway'
BY OneUnderway DEF InstEnd, Underway

\* Records are kept while instances keep a type.
LEMMA KeptOwned ==
  ASSUME OwnedInv, managed' = managed, \A i \in InstIds : instRow'[i].type = "none" => instRow[i].type = "none"
  PROVE  Owned(managed', instRow')
BY DEF OwnedInv, Owned

LEMMA RowOwned ==
  ASSUME OwnedInv,
         \/ \E type \in Types, url \in Servers : CreateInstance(type, url)
         \/ \E i \in InstIds, type \in Types, url \in Servers : UpdateInstance(i, type, url)
         \/ \E i \in InstIds : DeleteInstance(i)
  PROVE  AllUnderway' /\ Owned(managed', instRow')
<1>1. /\ instRow \in [InstIds -> InstRows] /\ managed \in [Tables \X InstIds \X Rows -> RecRow]
      /\ \A t \in InstThreads : instReq[t] \in ReqRow
  BY DEF OwnedInv, FreshInv, PasswordInv, Records, Requests
<1>2. ASSUME NEW i \in InstIds, Overtake(i) PROVE AllUnderway'
  <2>1. ASSUME NEW t \in InstThreads PROVE Underway(instReq'[t])
    <3> DEFINE q == instReq[t]
    <3>1. Underway(q) /\ q \in ReqRow BY <1>1 DEF OwnedInv, AllUnderway
    <3>2. CASE q.id = i
      <4>1. instReq'[t] = [q EXCEPT !.raced = TRUE] BY <1>2, <3>2 DEF Overtake
      <4>2. q # NoReq BY <3>2, InstAssumption DEF NoReq
      <4> QED BY <3>1, <4>1, <4>2, GoesOn
    <3>3. CASE q.id # i BY <1>2, <3>1, <3>3 DEF Overtake
    <3> QED BY <3>2, <3>3
  <2> QED BY <2>1 DEF AllUnderway
<1>3. ASSUME NEW type \in Types, NEW url \in Servers, CreateInstance(type, url)
      PROVE  AllUnderway' /\ Owned(managed', instRow')
  <2>1. AllUnderway' BY <1>3 DEF CreateInstance, OwnedInv, AllUnderway
  <2>2. \A i \in InstIds : instRow'[i].type = "none" => instRow[i].type = "none"
    BY <1>1, <1>3 DEF CreateInstance, Types
  <2> QED BY <1>3, <2>1, <2>2, KeptOwned DEF CreateInstance
<1>4. ASSUME NEW i \in InstIds, NEW type \in Types, NEW url \in Servers, UpdateInstance(i, type, url)
      PROVE  AllUnderway' /\ Owned(managed', instRow')
  <2>1. AllUnderway' BY <1>2, <1>4 DEF UpdateInstance
  <2>2. \A j \in InstIds : instRow'[j].type = "none" => instRow[j].type = "none"
    BY <1>1, <1>4 DEF UpdateInstance, Types
  <2> QED BY <1>4, <2>1, <2>2, KeptOwned DEF UpdateInstance
<1>5. ASSUME NEW i \in InstIds, DeleteInstance(i) PROVE AllUnderway' /\ Owned(managed', instRow')
  <2>1. AllUnderway' BY <1>2, <1>5 DEF DeleteInstance
  <2>2. \A k \in Tables, j \in InstIds, r \in Rows :
          managed'[<<k, j, r>>] = IF j = i THEN NoRec ELSE managed[<<k, j, r>>]
    BY <1>1, <1>5 DEF DeleteInstance
  <2>3. \A j \in InstIds \ {i} : instRow'[j] = instRow[j] BY <1>1, <1>5 DEF DeleteInstance
  <2>4. Owned(managed', instRow')
    <3> SUFFICES ASSUME NEW k \in Tables, NEW j \in InstIds, NEW r \in Rows, managed'[<<k, j, r>>] # NoRec
                 PROVE  /\ managed'[<<k, j, r>>] \in [pwd : Secrets, action : {"verified", "reset", "manual"}]
                        /\ instRow'[j].type # "none"
      BY DEF Owned
    <3>1. j # i /\ managed'[<<k, j, r>>] = managed[<<k, j, r>>] BY <2>2
    <3> QED BY <2>3, <3>1 DEF OwnedInv, Owned
  <2> QED BY <2>1, <2>4
<1> QED BY <1>3, <1>4, <1>5

LEMMA LoadOwned ==
  ASSUME OwnedInv, NEW t \in InstThreads, NEW type \in Types, NEW op \in Ops, NEW s, NEW p,
         Load(t, type, op, s, p)
  PROVE  AllUnderway' /\ Owned(managed', instRow')
<1>1. PICK i \in InstIds :
        /\ instRow[i].type = type
        /\ instReq' = [instReq EXCEPT ![t] =
             [pc |-> IF op = "save" THEN "save" ELSE "remote", op |-> op, type |-> type,
              id |-> i, url |-> instRow[i].url, as |-> s, pwd |-> p, raced |-> FALSE]]
  BY DEF Load
<1> DEFINE r == [pc |-> IF op = "save" THEN "save" ELSE "remote", op |-> op, type |-> type,
                 id |-> i, url |-> instRow[i].url, as |-> s, pwd |-> p, raced |-> FALSE]
<1>2. instRow[i].url \in Servers
  BY <1>1 DEF OwnedInv, FreshInv, PasswordInv, InstRows, NoInst, Gone, Types
<1>3. Underway(r) BY <1>2 DEF Underway
<1>4. AllUnderway' BY <1>1, <1>3, OneUnderway
<1> QED BY <1>4, KeptOwned DEF Load

\* The steps of a request that is under way.
LEMMA QuietOwned ==
  ASSUME OwnedInv, NEW t \in InstThreads,
         Fetch(t) \/ MarkStatus(t) \/ (InstEnd(t) /\ InstQuiet) \/ VerifyLogin(t) \/ AlterUnanswered(t)
  PROVE  AllUnderway' /\ Owned(managed', instRow')
<1> DEFINE q == instReq[t]
<1>1. q \in ReqRow /\ Underway(q) /\ instRow \in [InstIds -> InstRows]
  BY DEF OwnedInv, FreshInv, PasswordInv, Requests, AllUnderway
<1>2. ASSUME NEW pc \in {"active", "unreachable", "save"}, InstAt(t, "remote"), InstGoto(t, pc)
      PROVE  AllUnderway'
  <2>1. q # NoReq BY <1>2 DEF InstAt, NoReq
  <2>2. Underway([q EXCEPT !.pc = pc]) BY <1>1, <2>1, GoesOn
  <2>3. instReq' = [instReq EXCEPT ![t] = [q EXCEPT !.pc = pc]] BY <1>2 DEF InstGoto
  <2> QED BY <2>2, <2>3, OneUnderway
<1>3. CASE Fetch(t) \/ (InstEnd(t) /\ InstQuiet) \/ VerifyLogin(t) \/ AlterUnanswered(t)
  <2>1. AllUnderway' BY <1>2, <1>3, EndUnderway DEF Fetch, VerifyLogin, AlterUnanswered
  <2>2. managed' = managed /\ instRow' = instRow BY <1>3 DEF Fetch, VerifyLogin, AlterUnanswered, InstQuiet
  <2> QED BY <2>1, <2>2, KeptOwned
<1>4. CASE MarkStatus(t)
  <2>1. AllUnderway' BY <1>4, EndUnderway DEF MarkStatus
  <2>2. \A row \in InstRows : [row EXCEPT !.status = q.pc].type = row.type
    BY DEF InstRows, NoInst, Gone
  <2>3. \A i \in InstIds : instRow'[i].type = instRow[i].type
    BY <1>1, <1>4, <2>2 DEF MarkStatus
  <2> QED BY <1>4, <2>1, <2>3, KeptOwned DEF MarkStatus
<1> QED BY <1>3, <1>4

\* A record is only written for an instance that is still there.
LEMMA SaveOwned ==
  ASSUME OwnedInv, NEW t \in InstThreads, SavePassword(t)
  PROVE  AllUnderway' /\ Owned(managed', instRow')
<1> DEFINE q == instReq[t]
           rec == [pwd |-> q.pwd, action |-> ActionName(q.op)]
<1>1. /\ ReqOK(q, everHeld) /\ Fresh(q, instRow, remotePwd) /\ q.pc = "save"
      /\ managed \in [Tables \X InstIds \X Rows -> RecRow]
  BY DEF OwnedInv, FreshInv, PasswordInv, Requests, Records, SavePassword, InstAt
<1>2. q.pwd \in Secrets BY <1>1 DEF ReqOK, Knowing, Fresh
<1>3. rec \in [pwd : Secrets, action : {"verified", "reset", "manual"}] BY <1>2 DEF ActionName
<1>4. AllUnderway' BY EndUnderway DEF SavePassword
<1>5. \/ managed' = managed
      \/ instRow[q.id].type # "none" /\ managed' = [managed EXCEPT ![<<q.type, q.id, RowOf[q.as]>>] = rec]
  BY DEF SavePassword
<1> HIDE DEF rec
<1>6. \A k \in Tables, i \in InstIds, r \in Rows :
        \/ managed'[<<k, i, r>>] = managed[<<k, i, r>>]
        \/ managed'[<<k, i, r>>] = rec /\ instRow[i].type # "none"
  BY <1>1, <1>5
<1>7. Owned(managed', instRow)
  <2> SUFFICES ASSUME NEW k \in Tables, NEW i \in InstIds, NEW r \in Rows, managed'[<<k, i, r>>] # NoRec
               PROVE  /\ managed'[<<k, i, r>>] \in [pwd : Secrets, action : {"verified", "reset", "manual"}]
                      /\ instRow[i].type # "none"
    BY DEF Owned
  <2>1. CASE managed'[<<k, i, r>>] = managed[<<k, i, r>>] BY <2>1 DEF OwnedInv, Owned
  <2>2. CASE managed'[<<k, i, r>>] = rec /\ instRow[i].type # "none" BY <1>3, <2>2
  <2> QED BY <1>6, <2>1, <2>2
<1>8. instRow' = instRow BY DEF SavePassword
<1> QED BY <1>4, <1>7, <1>8

LEMMA SetOwned ==
  ASSUME OwnedInv, NEW url, NEW a, NEW p, NEW by, SetPassword(url, a, p, by),
         \A t \in by : instReq[t].pc = "remote", UNCHANGED <<instRow, managed>>
  PROVE  AllUnderway' /\ Owned(managed', instRow')
<1>1. ASSUME NEW t \in InstThreads PROVE Underway(instReq'[t])
  <2> DEFINE q == instReq[t]
  <2>1. q \in ReqRow /\ Underway(q)
    BY DEF OwnedInv, FreshInv, PasswordInv, Requests, ReqOK, AllUnderway
  <2>2. CASE t \in by
    <3>1. instReq'[t] = [q EXCEPT !.pc = "save"] BY <2>2 DEF SetPassword
    <3>2. q # NoReq BY <2>2 DEF NoReq
    <3> QED BY <2>1, <3>1, <3>2, GoesOn
  <2>3. CASE t \notin by /\ InstAt(t, "save") /\ instReq'[t] = [q EXCEPT !.raced = TRUE]
    <3>1. q # NoReq BY <2>3 DEF NoReq, InstAt
    <3> QED BY <2>1, <2>3, <3>1, GoesOn
  <2>4. CASE instReq'[t] = q BY <2>1, <2>4
  <2> QED BY <2>2, <2>3, <2>4 DEF SetPassword
<1> QED BY <1>1, KeptOwned DEF AllUnderway

LEMMA OwnedStep == OwnedInv /\ [InstNext]_instVars => OwnedInv'
<1> SUFFICES ASSUME OwnedInv, [InstNext]_instVars PROVE OwnedInv' OBVIOUS
<1>0. FreshInv' BY FreshStep DEF OwnedInv
<1> SUFFICES AllUnderway' /\ Owned(managed', instRow') BY <1>0 DEF OwnedInv
<1>1. CASE UNCHANGED instVars BY <1>1, KeptOwned DEF instVars, OwnedInv, AllUnderway
<1>2. ASSUME NEW t \in InstThreads, Begins(t) PROVE AllUnderway' /\ Owned(managed', instRow')
  BY <1>2, LoadOwned DEF Begins, Types, Tables, Ops
<1>3. ASSUME NEW t \in InstThreads, InstCrash(t) \/ NacosCatalog(t) \/ NacosStructure(t)
      PROVE  AllUnderway' /\ Owned(managed', instRow')
  BY <1>3, QuietOwned DEF InstCrash, NacosCatalog, NacosStructure
<1>4. ASSUME NEW t \in InstThreads, Alter(t) PROVE AllUnderway' /\ Owned(managed', instRow')
  <2>1. /\ SetPassword(instReq[t].url, AccountOf[instReq[t].as], instReq[t].pwd, {t})
        /\ UNCHANGED <<instRow, managed>> /\ \A u \in {t} : instReq[u].pc = "remote"
    BY <1>4 DEF Alter, InstAt
  <2> QED BY <2>1, SetOwned
<1>5. ASSUME NEW t \in InstThreads, NEW type \in Tables,
             ListAccounts(t, type) \/ VerifyPassword(t, type) \/ ResetPassword(t, type) \/ KeepPassword(t, type)
      PROVE  AllUnderway' /\ Owned(managed', instRow')
  BY <1>4, <1>5, QuietOwned, SaveOwned
     DEF ListAccounts, VerifyPassword, LoginFails, ResetPassword, AlterFails, KeepPassword
<1>6. ASSUME NEW t \in InstThreads,
             \/ DorisAccounts(t) \/ DorisVerify(t) \/ DorisReset(t) \/ DorisSave(t)
             \/ MysqlAccounts(t) \/ MysqlVerify(t) \/ MysqlReset(t) \/ MysqlSave(t)
      PROVE  AllUnderway' /\ Owned(managed', instRow')
  BY <1>5, <1>6 DEF DorisAccounts, DorisVerify, DorisReset, DorisSave,
                    MysqlAccounts, MysqlVerify, MysqlReset, MysqlSave, Tables
<1>7. CASE LandAlter
  <2>1. PICK x \in lateAlter : SetPassword(x[1], x[2], x[3], {}) BY <1>7 DEF LandAlter
  <2> QED BY <1>7, <2>1, SetOwned DEF LandAlter
<1>8. ASSUME NEW url \in Servers, NEW a \in Accounts, NEW p \in Secrets, OtherPassword(url, a, p)
      PROVE  AllUnderway' /\ Owned(managed', instRow')
  BY <1>8, SetOwned DEF OtherPassword
<1> QED BY <1>1, <1>2, <1>3, <1>6, <1>7, <1>8, RowOwned DEF InstNext

LEMMA InstTyped == OwnedInv => InstTypeOK
<1> SUFFICES ASSUME OwnedInv PROVE InstTypeOK OBVIOUS
<1>1. managed \in [Tables \X InstIds \X Rows ->
                     {NoRec} \cup [pwd : Secrets, action : {"verified", "reset", "manual"}]]
  BY DEF OwnedInv, FreshInv, PasswordInv, Records, Owned
<1>2. \A t \in InstThreads : instReq[t] = NoReq \/
        /\ instReq[t].pc \in {"remote", "active", "unreachable", "save"}
        /\ instReq[t].op \in Ops /\ instReq[t].type \in Types
        /\ instReq[t].id \in InstIds /\ instReq[t].url \in Servers
  <2>1. \A t \in InstThreads : Underway(instReq[t]) /\ instReq[t] \in ReqRow
    BY DEF OwnedInv, AllUnderway, FreshInv, PasswordInv, Requests, ReqOK
  <2> QED BY <2>1 DEF Underway, ReqRow
<1>3. \A k \in Tables, i \in InstIds, r \in Rows :
        managed[<<k, i, r>>] /= NoRec => instRow[i].type /= "none"
  BY DEF OwnedInv, Owned
<1> QED BY <1>1, <1>2, <1>3 DEF OwnedInv, FreshInv, PasswordInv, Remote, InstTypeOK

\* Every variable keeps its type, and no record of a password outlives its
\* instance, however a request and a deletion interleave.
THEOREM InstTypes == InstSpec => []InstTypeOK
BY InstTyped, OwnedInit, OwnedStep, PTL DEF InstSpec

-----------------------------------------------------------------------------
(***************************************************************************)
(* HostClusters, for any number of hosts, clusters, requests and forms.    *)
(***************************************************************************)

HostRow == [env : Environments, url : ExporterUrls, status : {"active", "unreachable"}]
HostReqRow == [pc : {"idle", "host", "read", "cluster", "remote", "cstatus", "scrape"},
           op : {"none", "save", "blank", "query", "keys", "resources", "probe"},
           host : {0} \cup HostIds, id : {0} \cup ClusterIds,
           env : {"none"} \cup Environments, url : {"none"} \cup ExporterUrls,
           key : {"none"} \cup Kubeconfigs, skip : BOOLEAN,
           result : {"none", "active", "unreachable"}, raced : BOOLEAN]

\* What a request knows at each of its steps.
Ready(q) ==
  /\ q \in HostReqRow
  /\ q.pc \in {"host", "read", "cluster"} => q.env \in Environments /\ q.url \in ExporterUrls
  /\ q.pc \in {"read", "cluster", "remote", "scrape"} => q.host \in HostIds
  /\ q.pc = "cluster" => q.key \in Kubeconfigs
  /\ q.pc \in {"remote", "cstatus"} => q.id \in ClusterIds
  /\ q.pc = "cstatus" => q.result # "none"
  /\ q.pc = "scrape" /\ q.op = "resources" => q.id \in ClusterIds
  /\ q.pc = "idle" => q = NoHostReq

HostReqs == hostReq \in [HostThreads -> HostReqRow] /\ \A t \in HostThreads : Ready(hostReq[t])

\* The rows of the two tables, the foreign key and the unique key.
Linked(cl, ho) ==
  /\ \A c \in ClusterIds : cl[c].host # 0 => cl[c].host \in HostIds /\ ho[cl[c].host] # NoHost
  /\ \A c, d \in ClusterIds : cl[c].host = cl[d].host /\ cl[c].host # 0 => c = d
Agreeing(cl) == \A c \in ClusterIds : cl[c].key # "none" => cl[c].verify = ~cl[c].skip

RowsOK(cl, ho) ==
  /\ ho \in [HostIds -> {NoHost} \cup HostRow]
  /\ cl \in [ClusterIds -> ClusterRows]
  /\ Linked(cl, ho) /\ Agreeing(cl)

HostInv == RowsOK(clusters, hosts) /\ HostReqs

LEMMA HostInitInv == HostInit => HostInv
<1> SUFFICES ASSUME HostInit PROVE HostInv OBVIOUS
<1>1. PICK f \in HostForms :
         /\ hosts = [h \in HostIds |-> IF h = 1 THEN [env |-> f.env, url |-> f.url, status |-> "active"] ELSE NoHost]
         /\ clusters = [c \in ClusterIds |-> IF c = 1
            THEN [host |-> 1, env |-> f.env, name |-> 1, key |-> f.key, skip |-> f.skip, verify |-> ~f.skip,
                  status |-> "configured"]
            ELSE NoCluster]
  BY DEF HostInit
<1>2. f.env \in Environments /\ f.url \in ExporterUrls /\ f.key \in {"none"} \cup Kubeconfigs /\ f.skip \in BOOLEAN
  BY HostAssumption
<1>3. hosts \in [HostIds -> {NoHost} \cup HostRow] BY <1>1, <1>2 DEF HostRow
<1>4. clusters \in [ClusterIds -> ClusterRows]
  BY <1>1, <1>2, HostAssumption DEF ClusterRows, Statuses
<1>5. Linked(clusters, hosts)
  BY <1>1, HostAssumption DEF Linked, NoCluster, NoHost
<1>6. Agreeing(clusters) BY <1>1, <1>2 DEF Agreeing, NoCluster
<1>7. HostReqs BY DEF HostInit, HostReqs, Ready, HostReqRow, NoHostReq
<1> QED BY <1>3, <1>4, <1>5, <1>6, <1>7 DEF HostInv, RowsOK

-----------------------------------------------------------------------------
(* HostReqs.                                                               *)

\* A request that is overtaken knows what it knew.
LEMMA OvertakenReady ==
  ASSUME NEW reqs \in [HostThreads -> HostReqRow], \A t \in HostThreads : Ready(reqs[t]), NEW h, NEW by
  PROVE  /\ Overtaken(reqs, h, by) \in [HostThreads -> HostReqRow]
         /\ \A t \in HostThreads : Ready(Overtaken(reqs, h, by)[t])
<1>1. ASSUME NEW q \in HostReqRow, Ready(q), q.pc # "idle" PROVE Ready([q EXCEPT !.raced = TRUE])
  <2> DEFINE r == [q EXCEPT !.raced = TRUE]
  <2>1. r \in HostReqRow BY DEF HostReqRow
  <2>2. r.pc = q.pc /\ r.op = q.op /\ r.host = q.host /\ r.id = q.id /\ r.env = q.env /\ r.url = q.url
          /\ r.key = q.key /\ r.result = q.result
    BY DEF HostReqRow
  <2> QED BY <1>1, <2>1, <2>2 DEF Ready
<1>2. \A t \in HostThreads : Ready(Overtaken(reqs, h, by)[t])
  BY <1>1 DEF Overtaken
<1> QED BY <1>2 DEF Overtaken, Ready

\* One request moves on or ends; the others keep what they know.
LEMMA OneReady ==
  ASSUME HostReqs, NEW t \in HostThreads, NEW q, Ready(q), hostReq' = [hostReq EXCEPT ![t] = q]
  PROVE  HostReqs'
BY DEF HostReqs, Ready

LEMMA IdleReady == Ready(NoHostReq)
BY DEF Ready, NoHostReq, HostReqRow

\* A step of one request and the overtaking of the others.
LEMMA OvertakingReady ==
  ASSUME HostReqs, NEW t \in HostThreads, NEW q, Ready(q), NEW h,
         hostReq' = Overtaken([hostReq EXCEPT ![t] = q], h, {t})
  PROVE  HostReqs'
<1>1. [hostReq EXCEPT ![t] = q] \in [HostThreads -> HostReqRow]
  BY DEF HostReqs, Ready
<1>2. \A u \in HostThreads : Ready([hostReq EXCEPT ![t] = q][u])
  BY DEF HostReqs
<1> QED BY <1>1, <1>2, OvertakenReady DEF HostReqs

-----------------------------------------------------------------------------
(* Rows.                                                                   *)

\* A cluster row that keeps its host may change in everything else.
LEMMA RowChanges ==
  ASSUME RowsOK(clusters, hosts), NEW c \in ClusterIds, NEW row \in ClusterRows,
         row.host = clusters[c].host, row.key # "none" => row.verify = ~row.skip
  PROVE  RowsOK([clusters EXCEPT ![c] = row], hosts)
<1> DEFINE cl == [clusters EXCEPT ![c] = row]
<1>1. cl \in [ClusterIds -> ClusterRows] BY DEF RowsOK
<1>2. \A d \in ClusterIds : cl[d].host = clusters[d].host BY DEF RowsOK
<1>3. Linked(cl, hosts) BY <1>2 DEF RowsOK, Linked
<1>4. Agreeing(cl) BY DEF RowsOK, Agreeing
<1> QED BY <1>1, <1>3, <1>4 DEF RowsOK

\* The upsert keeps the keys, and writes both settings together.
LEMMA UpsertRows ==
  ASSUME RowsOK(clusters, hosts), NEW h \in {0} \cup HostIds, NEW env \in Environments,
         NEW name \in {0} \cup HostIds, NEW key \in Kubeconfigs, NEW skip \in BOOLEAN,
         Upsert(h, env, name, key, skip)
  PROVE  RowsOK(clusters', hosts)
<1> DEFINE new == [host |-> h, env |-> env, name |-> name, key |-> key, skip |-> skip,
                   verify |-> ~skip, status |-> "configured"]
           met == IF h # 0 /\ ClusterOf(h) # {} THEN ClusterOf(h) ELSE Named(env, name)
<1>1. new \in ClusterRows BY DEF ClusterRows, Statuses
<1>2. ASSUME NEW c \in met, clusters' = [clusters EXCEPT ![c] = [new EXCEPT !.host = clusters[c].host]]
      PROVE  RowsOK(clusters', hosts)
  <2>1. c \in ClusterIds BY DEF ClusterOf, Named
  <2>2. clusters[c].host \in {0} \cup HostIds BY <2>1 DEF RowsOK, ClusterRows, NoCluster
  <2> DEFINE row == [new EXCEPT !.host = clusters[c].host]
  <2>3. row \in ClusterRows /\ row.host = clusters[c].host /\ row.verify = ~row.skip
    BY <2>2 DEF ClusterRows, Statuses
  <2> HIDE DEF row
  <2> QED BY <1>2, <2>1, <2>3, RowChanges DEF row
<1>3. ASSUME met = {}, h # 0 => hosts[h] # NoHost, NEW k \in ClusterIds,
             clusters' = [clusters EXCEPT ![k] = new]
      PROVE  RowsOK(clusters', hosts)
  <2>1. clusters' \in [ClusterIds -> ClusterRows] BY <1>1, <1>3 DEF RowsOK
  <2>2. \A d \in ClusterIds \ {k} : clusters'[d] = clusters[d] BY <1>3 DEF RowsOK
  <2>3. clusters'[k] = new BY <1>3 DEF RowsOK
  <2>4. \A d \in ClusterIds : h # 0 => clusters[d].host # h
    BY <1>3 DEF ClusterOf, NoCluster
  <2>5. Linked(clusters', hosts) BY <1>3, <2>2, <2>3, <2>4 DEF Linked, RowsOK
  <2>6. Agreeing(clusters') BY <2>2, <2>3 DEF Agreeing, RowsOK
  <2> QED BY <2>1, <2>5, <2>6 DEF RowsOK
<1> QED BY <1>2, <1>3 DEF Upsert

\* A host is written or inserted.
LEMMA HostRows ==
  ASSUME RowsOK(clusters, hosts), NEW h \in HostIds, NEW row \in HostRow
  PROVE  RowsOK(clusters, [hosts EXCEPT ![h] = row])
<1>1. row # NoHost BY DEF HostRow, NoHost
<1>2. [hosts EXCEPT ![h] = row] \in [HostIds -> {NoHost} \cup HostRow] BY DEF RowsOK
<1>3. Linked(clusters, [hosts EXCEPT ![h] = row]) BY <1>1 DEF Linked, RowsOK
<1> QED BY <1>2, <1>3 DEF RowsOK

-----------------------------------------------------------------------------
(* The steps.                                                              *)

\* A request begins.
LEMMA BegunInv ==
  ASSUME HostInv, NEW t \in HostThreads, NEW q, Ready(q), Begun(t, q)
  PROVE  HostInv'
BY OneReady DEF HostInv, Begun

LEMMA SaveInv ==
  ASSUME HostInv, NEW t \in HostThreads, NEW h \in {0} \cup HostIds, NEW f \in HostForms, Save(t, h, f)
  PROVE  HostInv'
<1> DEFINE q == [pc |-> "host", op |-> "save", host |-> h, id |-> 0, env |-> f.env, url |-> f.url,
                 key |-> f.key, skip |-> f.skip, result |-> "none", raced |-> FALSE]
<1>1. Ready(q)
  <2>1. f.env \in Environments /\ f.url \in ExporterUrls /\ f.key \in {"none"} \cup Kubeconfigs /\ f.skip \in BOOLEAN
    BY HostAssumption
  <2> QED BY <2>1 DEF Ready, HostReqRow
<1> QED BY <1>1, BegunInv DEF Save

LEMMA WriteHostInv == ASSUME HostInv, NEW t \in HostThreads, WriteHost(t) PROVE HostInv'
<1> DEFINE q == hostReq[t]
<1>1. Ready(q) /\ q.pc = "host" /\ clusters' = clusters
  BY DEF HostInv, HostReqs, WriteHost, HostAt
<1>3. ASSUME HostEnd(t), UNCHANGED <<hosts, hostLeft>> PROVE HostInv'
  BY <1>1, <1>3, IdleReady, OneReady DEF HostInv, HostEnd
<1>4. ASSUME NEW r \in {"active", "unreachable"}, q.host # 0,
             hosts' = IF hosts[q.host] = NoHost THEN hosts
                      ELSE [hosts EXCEPT ![q.host] = [env |-> q.env, url |-> q.url, status |-> r]],
             hostReq' = Overtaken(HostGoto(t, "read"), q.host, {t})
      PROVE  HostInv'
  <2>1. q.host \in HostIds /\ q.env \in Environments /\ q.url \in ExporterUrls
    BY <1>1, <1>4 DEF Ready, HostReqRow
  <2>2. Ready([q EXCEPT !.pc = "read"]) BY <1>1, <2>1 DEF Ready, HostReqRow
  <2>3. [env |-> q.env, url |-> q.url, status |-> r] \in HostRow BY <2>1 DEF HostRow
  <2>4. RowsOK(clusters, hosts') BY <1>4, <2>1, <2>3, HostRows DEF HostInv
  <2>5. HostGoto(t, "read") = [hostReq EXCEPT ![t] = [q EXCEPT !.pc = "read"]] BY DEF HostGoto
  <2>6. HostReqs' BY <1>4, <2>2, <2>5, OvertakingReady DEF HostInv
  <2> QED BY <1>1, <2>4, <2>6 DEF HostInv
<1>5. ASSUME NEW r \in {"active", "unreachable"}, NEW h \in HostIds,
             hosts' = [hosts EXCEPT ![h] = [env |-> q.env, url |-> q.url, status |-> r]],
             hostReq' = [HostGoto(t, "read") EXCEPT ![t].host = h]
      PROVE  HostInv'
  <2>1. q.env \in Environments /\ q.url \in ExporterUrls BY <1>1 DEF Ready
  <2>2. Ready([q EXCEPT !.pc = "read", !.host = h]) BY <1>1 DEF Ready, HostReqRow
  <2>3. RowsOK(clusters, hosts') BY <1>5, <2>1, HostRows DEF HostInv, HostRow
  <2>4. hostReq' = [hostReq EXCEPT ![t] = [q EXCEPT !.pc = "read", !.host = h]]
    BY <1>5 DEF HostGoto, HostInv, HostReqs
  <2>5. HostReqs' BY <2>2, <2>4, OneReady DEF HostInv
  <2> QED BY <1>1, <2>3, <2>5 DEF HostInv
<1> QED BY <1>3, <1>4, <1>5 DEF WriteHost

LEMMA ReadClusterInv == ASSUME HostInv, NEW t \in HostThreads, ReadCluster(t) PROVE HostInv'
<1> DEFINE q == hostReq[t]
<1>1. Ready(q) /\ q.pc = "read" /\ q.host \in HostIds /\ q.env \in Environments /\ q.url \in ExporterUrls
  BY DEF HostInv, HostReqs, ReadCluster, HostAt, Ready
<1>2. CASE q.key # "none" /\ hostReq' = HostGoto(t, "cluster") /\ HostQuiet
  <2>1. Ready([q EXCEPT !.pc = "cluster"]) BY <1>1, <1>2 DEF Ready, HostReqRow
  <2>2. hostReq' = [hostReq EXCEPT ![t] = [q EXCEPT !.pc = "cluster"]] BY <1>2 DEF HostGoto
  <2> QED BY <1>2, <2>1, <2>2, OneReady DEF HostInv, HostQuiet
<1>3. CASE HostEnd(t) /\ HostQuiet
  BY <1>3, IdleReady, OneReady DEF HostInv, HostEnd, HostQuiet
<1>4. ASSUME NEW c \in ClusterOf(q.host), clusters[c].key # "none", HostQuiet,
             hostReq' = [HostGoto(t, "cluster") EXCEPT ![t].key = clusters[c].key, ![t].op = "blank"]
      PROVE  HostInv'
  <2>1. clusters[c].key \in Kubeconfigs
    BY <1>4 DEF ClusterOf, HostInv, RowsOK, ClusterRows, NoCluster
  <2> DEFINE r == [q EXCEPT !.pc = "cluster", !.key = clusters[c].key, !.op = "blank"]
  <2>2. Ready(r) BY <1>1, <2>1 DEF Ready, HostReqRow
  <2>3. hostReq' = [hostReq EXCEPT ![t] = r] BY <1>4 DEF HostGoto, HostInv, HostReqs
  <2> QED BY <1>4, <2>2, <2>3, OneReady DEF HostInv, HostQuiet
<1>5. ASSUME NEW c \in ClusterOf(q.host), clusters[c].key = "none",
             clusters' = [clusters EXCEPT ![c].env = q.env, ![c].name = q.host, ![c].verify = ~q.skip],
             hostReq' = Overtaken([hostReq EXCEPT ![t] = NoHostReq], q.host, {t}), hosts' = hosts
      PROVE  HostInv'
  <2> DEFINE row == [clusters[c] EXCEPT !.env = q.env, !.name = q.host, !.verify = ~q.skip]
  <2>1. c \in ClusterIds /\ clusters[c] \in ClusterRows /\ clusters[c] # NoCluster
    BY DEF ClusterOf, HostInv, RowsOK
  <2>2. q.skip \in BOOLEAN BY <1>1 DEF Ready, HostReqRow
  <2>3. row \in ClusterRows /\ row.host = clusters[c].host /\ row.key = "none"
    BY <1>1, <1>5, <2>1, <2>2 DEF ClusterRows
  <2>4. clusters' = [clusters EXCEPT ![c] = row] BY <1>5, <2>1 DEF HostInv, RowsOK
  <2> HIDE DEF row
  <2>5. RowsOK(clusters', hosts') BY <1>5, <2>1, <2>3, <2>4, RowChanges DEF HostInv
  <2>6. HostReqs' BY <1>5, IdleReady, OvertakingReady DEF HostInv
  <2> QED BY <2>5, <2>6 DEF HostInv
<1> QED BY <1>2, <1>3, <1>4, <1>5 DEF ReadCluster

LEMMA WriteClusterInv == ASSUME HostInv, NEW t \in HostThreads, WriteCluster(t) PROVE HostInv'
<1> DEFINE q == hostReq[t]
<1>1. /\ Ready(q) /\ q.host \in HostIds /\ q.env \in Environments /\ q.key \in Kubeconfigs /\ q.skip \in BOOLEAN
      /\ hosts' = hosts
  BY DEF HostInv, HostReqs, WriteCluster, HostAt, Ready, HostReqRow
<1>2. RowsOK(clusters', hosts') BY <1>1, UpsertRows DEF HostInv, WriteCluster
<1>3. HostReqs' BY IdleReady, OvertakingReady DEF HostInv, WriteCluster
<1> QED BY <1>2, <1>3 DEF HostInv

LEMMA HostCrashInv == ASSUME HostInv, NEW t \in HostThreads, HostCrash(t) PROVE HostInv'
BY IdleReady, OneReady DEF HostInv, HostCrash, HostEnd, HostQuiet

\* A step of no request: the requests on the host are overtaken.
LEMMA AllOvertaken == ASSUME HostReqs, NEW h, hostReq' = Overtaken(hostReq, h, {}) PROVE HostReqs'
BY OvertakenReady DEF HostReqs

LEMMA CreateClusterInv == ASSUME HostInv, NEW f \in ClusterForms, CreateCluster(f) PROVE HostInv'
<1> DEFINE met == Named(f.env, f.name)
           new == [host |-> 0, env |-> f.env, name |-> f.name, key |-> f.key, skip |-> f.skip,
                   verify |-> ~f.skip, status |-> "configured"]
<1>1. f.env \in Environments /\ f.name \in {0} \cup HostIds /\ f.key \in Kubeconfigs /\ f.skip \in BOOLEAN
  BY HostAssumption
<1>2. new \in ClusterRows BY <1>1 DEF ClusterRows, Statuses
<1>3. hosts' = hosts BY DEF CreateCluster
<1>4. ASSUME NEW c \in met, clusters' = [clusters EXCEPT ![c] = [new EXCEPT !.host = clusters[c].host]],
             hostReq' = Overtaken(hostReq, clusters[c].host, {})
      PROVE  HostInv'
  <2>1. c \in ClusterIds BY DEF Named
  <2>2. clusters[c].host \in {0} \cup HostIds BY <2>1 DEF HostInv, RowsOK, ClusterRows, NoCluster
  <2> DEFINE row == [new EXCEPT !.host = clusters[c].host]
  <2>3. row \in ClusterRows /\ row.host = clusters[c].host /\ row.verify = ~row.skip
    BY <1>1, <2>2 DEF ClusterRows, Statuses
  <2> HIDE DEF row
  <2>4. RowsOK(clusters', hosts') BY <1>3, <1>4, <2>1, <2>3, RowChanges DEF row, HostInv
  <2> QED BY <1>4, <2>4, AllOvertaken DEF HostInv
<1>5. ASSUME NEW k \in ClusterIds, clusters' = [clusters EXCEPT ![k] = new], hostReq' = hostReq
      PROVE  HostInv'
  <2>1. clusters' \in [ClusterIds -> ClusterRows] BY <1>2, <1>5 DEF HostInv, RowsOK
  <2>2. \A d \in ClusterIds \ {k} : clusters'[d] = clusters[d] BY <1>5 DEF HostInv, RowsOK
  <2>3. clusters'[k] = new BY <1>5 DEF HostInv, RowsOK
  <2>4. Linked(clusters', hosts) BY <2>2, <2>3 DEF Linked, HostInv, RowsOK
  <2>5. Agreeing(clusters') BY <2>2, <2>3 DEF Agreeing, HostInv, RowsOK
  <2> QED BY <1>3, <1>5, <2>1, <2>4, <2>5 DEF HostInv, RowsOK, HostReqs
<1> QED BY <1>4, <1>5 DEF CreateCluster

LEMMA DeleteClusterInv == ASSUME HostInv, NEW c \in ClusterIds, DeleteCluster(c) PROVE HostInv'
<1>1. clusters' \in [ClusterIds -> ClusterRows] BY DEF HostInv, RowsOK, DeleteCluster, ClusterRows
<1>2. /\ \A d \in ClusterIds \ {c} : clusters'[d] = clusters[d]
      /\ clusters'[c] = NoCluster /\ hosts' = hosts
  BY DEF HostInv, RowsOK, DeleteCluster
<1>3. Linked(clusters', hosts') BY <1>2 DEF Linked, HostInv, RowsOK, NoCluster
<1>4. Agreeing(clusters') BY <1>2 DEF Agreeing, HostInv, RowsOK, NoCluster
<1>5. HostReqs' BY AllOvertaken DEF HostInv, DeleteCluster
<1> QED BY <1>1, <1>2, <1>3, <1>4, <1>5 DEF HostInv, RowsOK

LEMMA DeleteHostInv == ASSUME HostInv, NEW h \in HostIds, DeleteHost(h) PROVE HostInv'
<1>1. clusters' \in [ClusterIds -> ClusterRows] BY DEF HostInv, RowsOK, DeleteHost, ClusterRows
<1>2. hosts' \in [HostIds -> {NoHost} \cup HostRow] BY DEF HostInv, RowsOK, DeleteHost
<1>3. \A d \in ClusterIds : clusters'[d] = IF clusters[d].host = h THEN NoCluster ELSE clusters[d]
  BY DEF DeleteHost
<1>4. \A g \in HostIds \ {h} : hosts'[g] = hosts[g] BY DEF HostInv, RowsOK, DeleteHost
<1>5. Linked(clusters', hosts') BY <1>3, <1>4 DEF Linked, HostInv, RowsOK, NoCluster
<1>6. Agreeing(clusters') BY <1>3 DEF Agreeing, HostInv, RowsOK, NoCluster
<1>7. HostReqs' BY AllOvertaken DEF HostInv, DeleteHost
<1> QED BY <1>1, <1>2, <1>5, <1>6, <1>7 DEF HostInv, RowsOK

LEMMA QueryInv ==
  ASSUME HostInv, NEW t \in HostThreads, NEW h \in HostIds, NEW op \in {"query", "keys", "resources"}, Query(t, h, op)
  PROVE  HostInv'
<1>1. PICK c \in ClusterIds : Begun(t, [NoHostReq EXCEPT !.pc = "remote", !.op = op, !.host = h, !.id = c])
  BY DEF Query, ClusterOf
<1>2. Ready([NoHostReq EXCEPT !.pc = "remote", !.op = op, !.host = h, !.id = c])
  BY DEF Ready, HostReqRow, NoHostReq
<1> QED BY <1>1, <1>2, BegunInv

LEMMA ScrapeInv == ASSUME HostInv, NEW t \in HostThreads, NEW h \in HostIds, Scrape(t, h) PROVE HostInv'
<1> DEFINE q == [NoHostReq EXCEPT !.pc = "scrape", !.op = "probe", !.host = h, !.url = hosts[h].url]
<1>1. hosts[h].url \in ExporterUrls BY DEF HostInv, RowsOK, HostRow, Scrape
<1>2. Ready(q) BY <1>1 DEF Ready, HostReqRow, NoHostReq
<1> QED BY <1>2, BegunInv DEF Scrape

LEMMA AskClusterInv == ASSUME HostInv, NEW t \in HostThreads, AskCluster(t) PROVE HostInv'
<1> DEFINE q == hostReq[t]
<1>1. Ready(q) /\ q.pc = "remote" /\ q.host \in HostIds /\ q.id \in ClusterIds /\ HostQuiet
  BY DEF HostInv, HostReqs, AskCluster, HostAt, Ready
<1>2. ASSUME NEW r \in {"active", "unreachable"}, hostReq' = [HostGoto(t, "cstatus") EXCEPT ![t].result = r]
      PROVE  HostInv'
  <2>1. Ready([q EXCEPT !.pc = "cstatus", !.result = r]) BY <1>1 DEF Ready, HostReqRow
  <2>2. hostReq' = [hostReq EXCEPT ![t] = [q EXCEPT !.pc = "cstatus", !.result = r]]
    BY <1>2 DEF HostGoto, HostInv, HostReqs
  <2> QED BY <1>1, <2>1, <2>2, OneReady DEF HostInv, HostQuiet
<1>3. CASE HostEnd(t)
  BY <1>1, <1>3, IdleReady, OneReady DEF HostInv, HostEnd, HostQuiet
<1>4. CASE /\ q.op = "resources" /\ hosts[q.host] # NoHost
           /\ hostReq' = [HostGoto(t, "scrape") EXCEPT ![t].url = hosts[q.host].url]
  <2>1. hosts[q.host].url \in ExporterUrls BY <1>1, <1>4 DEF HostInv, RowsOK, HostRow
  <2>2. Ready([q EXCEPT !.pc = "scrape", !.url = hosts[q.host].url]) BY <1>1, <2>1 DEF Ready, HostReqRow
  <2>3. hostReq' = [hostReq EXCEPT ![t] = [q EXCEPT !.pc = "scrape", !.url = hosts[q.host].url]]
    BY <1>4 DEF HostGoto, HostInv, HostReqs
  <2> QED BY <1>1, <2>2, <2>3, OneReady DEF HostInv, HostQuiet
<1> QED BY <1>2, <1>3, <1>4 DEF AskCluster

LEMMA MarkClusterInv == ASSUME HostInv, NEW t \in HostThreads, MarkCluster(t) PROVE HostInv'
<1> DEFINE q == hostReq[t]
           row == [clusters[q.id] EXCEPT !.status = q.result]
<1>1. q.id \in ClusterIds /\ q.result \in {"active", "unreachable"} /\ hosts' = hosts
  BY DEF HostInv, HostReqs, MarkCluster, HostAt, Ready, HostReqRow
<1>2. HostReqs' BY IdleReady, OneReady DEF HostInv, MarkCluster, HostEnd
<1>3. CASE clusters[q.id] = NoCluster BY <1>1, <1>2, <1>3 DEF HostInv, MarkCluster
<1>4. CASE clusters[q.id] # NoCluster
  <2>1. row \in ClusterRows /\ row.host = clusters[q.id].host /\ row.key = clusters[q.id].key
          /\ row.verify = clusters[q.id].verify /\ row.skip = clusters[q.id].skip
    BY <1>1, <1>4 DEF HostInv, RowsOK, ClusterRows, Statuses
  <2>2. clusters' = [clusters EXCEPT ![q.id] = row] BY <1>4 DEF MarkCluster, HostInv, RowsOK
  <2>3. row.key # "none" => row.verify = ~row.skip BY <1>1, <2>1 DEF HostInv, RowsOK, Agreeing
  <2> HIDE DEF row
  <2>4. RowsOK(clusters', hosts') BY <1>1, <2>1, <2>2, <2>3, RowChanges DEF HostInv
  <2> QED BY <1>2, <2>4 DEF HostInv
<1> QED BY <1>3, <1>4

LEMMA MarkHostInv == ASSUME HostInv, NEW t \in HostThreads, MarkHost(t) PROVE HostInv'
<1> DEFINE q == hostReq[t]
<1>1. Ready(q) /\ q.pc = "scrape" /\ q.host \in HostIds /\ clusters' = clusters
  BY DEF HostInv, HostReqs, MarkHost, HostAt, Ready
<1>2. PICK r \in {"active", "unreachable"} :
        hosts' = IF hosts[q.host] = NoHost THEN hosts ELSE [hosts EXCEPT ![q.host].status = r]
  BY DEF MarkHost
<1>3. RowsOK(clusters', hosts')
  <2> DEFINE row == [hosts[q.host] EXCEPT !.status = r]
  <2>1. CASE hosts[q.host] = NoHost BY <1>1, <1>2, <2>1 DEF HostInv
  <2>2. CASE hosts[q.host] # NoHost
    <3>1. row \in HostRow BY <1>1, <2>2 DEF HostInv, RowsOK, HostRow
    <3>2. hosts' = [hosts EXCEPT ![q.host] = row] BY <1>2, <2>2 DEF HostInv, RowsOK
    <3> QED BY <1>1, <3>1, <3>2, HostRows DEF HostInv
  <2> QED BY <2>1, <2>2
<1>4. CASE q.op = "resources" /\ hostReq' = [HostGoto(t, "cstatus") EXCEPT ![t].result = "active"]
  <2>1. Ready([q EXCEPT !.pc = "cstatus", !.result = "active"]) BY <1>1, <1>4 DEF Ready, HostReqRow
  <2>2. hostReq' = [hostReq EXCEPT ![t] = [q EXCEPT !.pc = "cstatus", !.result = "active"]]
    BY <1>4 DEF HostGoto, HostInv, HostReqs
  <2> QED BY <1>3, <2>1, <2>2, OneReady DEF HostInv
<1>5. CASE HostEnd(t)
  BY <1>3, <1>5, IdleReady, OneReady DEF HostInv, HostEnd
<1> QED BY <1>4, <1>5 DEF MarkHost

-----------------------------------------------------------------------------
(* The invariant, and what follows.                                        *)

LEMMA HostStepInv == HostInv /\ [HostNext]_hostVars => HostInv'
<1> SUFFICES ASSUME HostInv, [HostNext]_hostVars PROVE HostInv' OBVIOUS
<1>1. CASE UNCHANGED hostVars BY <1>1 DEF hostVars, HostInv, HostReqs
<1>2. ASSUME NEW t \in HostThreads,
             WriteHost(t) \/ ReadCluster(t) \/ WriteCluster(t) \/ HostCrash(t)
               \/ AskCluster(t) \/ MarkCluster(t) \/ MarkHost(t)
      PROVE  HostInv'
  BY <1>2, WriteHostInv, ReadClusterInv, WriteClusterInv, HostCrashInv, AskClusterInv, MarkClusterInv, MarkHostInv
<1>3. ASSUME NEW t \in HostThreads, NEW f \in HostForms,
             CreateHost(t, f) \/ \E h \in HostIds : UpdateHost(t, h, f)
      PROVE  HostInv'
  BY <1>3, SaveInv DEF CreateHost, UpdateHost
<1>4. ASSUME NEW t \in HostThreads, NEW h \in HostIds,
             \/ K8sNamespaces(t, h) \/ K8sImages(t, h) \/ NodeportNamespaces(t, h) \/ Nodeports(t, h)
             \/ EnvNamespaces(t, h) \/ EnvWorkloads(t, h) \/ EnvKeys(t, h)
             \/ ProbeHost(t, h) \/ HostMetrics(t, h) \/ ResourceMetrics(t, h)
      PROVE  HostInv'
  <2>1. (\E op \in {"query", "keys", "resources"} : Query(t, h, op)) \/ Scrape(t, h)
    BY <1>4 DEF K8sNamespaces, K8sImages, NodeportNamespaces, Nodeports, EnvNamespaces, EnvWorkloads,
                EnvKeys, ProbeHost, HostMetrics, ResourceMetrics
  <2> QED BY <2>1, QueryInv, ScrapeInv
<1>5. ASSUME NEW f \in ClusterForms, CreateCluster(f) PROVE HostInv' BY <1>5, CreateClusterInv
<1>6. ASSUME NEW c \in ClusterIds, DeleteCluster(c) PROVE HostInv' BY <1>6, DeleteClusterInv
<1>7. ASSUME NEW h \in HostIds, DeleteHost(h) PROVE HostInv' BY <1>7, DeleteHostInv
<1> QED BY <1>1, <1>2, <1>3, <1>4, <1>5, <1>6, <1>7 DEF HostNext

LEMMA HostTyped == HostInv => HostTypeOK
<1> SUFFICES ASSUME HostInv PROVE HostTypeOK OBVIOUS
<1>1. \A t \in HostThreads : hostReq[t] = NoHostReq \/
        (hostReq[t].pc # "idle" /\ hostReq[t].host \in {0} \cup HostIds /\ hostReq[t].id \in {0} \cup ClusterIds)
  BY DEF HostInv, HostReqs, Ready, HostReqRow
<1> QED BY <1>1 DEF HostInv, RowsOK, Linked, HostTypeOK, HostRow

\* The tables keep their types, the cluster of a host goes with the host, and
\* a host has one cluster, whatever saves, deletions and clusters made by name race.
THEOREM HostTypes == HostSpec => []HostTypeOK
BY HostTyped, HostInitInv, HostStepInv, PTL DEF HostSpec

\* The column verify_ssl repeats what the stored kubeconfig says, for any
\* number of hosts and any interleaving of saves, renewals and queries.
THEOREM TlsAgreesHolds == HostSpec => []TlsAgrees
<1>1. HostInv => TlsAgrees BY DEF HostInv, RowsOK, Agreeing, TlsAgrees
<1> QED BY <1>1, HostInitInv, HostStepInv, PTL DEF HostSpec

-----------------------------------------------------------------------------
(* A save that nobody overtook.                                            *)

\* Ids are given out once, and the cluster of a host is named after it.
HostTablesOK ==
  /\ {"host", "cluster"} \subseteq DOMAIN hostLeft /\ hostLeft.host \in Nat /\ hostLeft.cluster \in Nat
  /\ \A h \in HostIds : h >= hostLeft.host => hosts[h] = NoHost
  /\ \A c \in ClusterIds : c >= hostLeft.cluster => clusters[c] = NoCluster
  /\ \A c \in ClusterIds : clusters[c].host # 0 => clusters[c].name = clusters[c].host
  /\ \A t \in HostThreads : hostReq[t].host < hostLeft.host

\* Between its steps a save finds the rows as it left them, and the credential
\* it is about to write again is the one that is stored.
Steady(q, ho, cl) ==
  ~q.raced =>
    /\ q.pc \in {"host", "read"} => q.op # "blank"
    /\ q.pc = "host" /\ q.host # 0 => ho[q.host] # NoHost
    /\ q.pc \in {"read", "cluster"} => ho[q.host].env = q.env /\ ho[q.host].url = q.url
    /\ q.pc = "cluster" /\ q.op = "blank" =>
         \E c \in ClusterIds : cl[c] # NoCluster /\ cl[c].host = q.host /\ cl[c].key = q.key

SaveOK == HostInv /\ HostTablesOK /\ \A t \in HostThreads : Steady(hostReq[t], hosts, clusters)

\* A step leaves what a save on host h relies on.
Untouched(h) ==
  /\ hosts'[h].env = hosts[h].env /\ hosts'[h].url = hosts[h].url
  /\ hosts[h] # NoHost => hosts'[h] # NoHost
  /\ \A c \in ClusterIds : clusters[c] # NoCluster /\ clusters[c].host = h =>
       clusters'[c] # NoCluster /\ clusters'[c].host = h /\ clusters'[c].key = clusters[c].key

LEMMA SaveOKInit == HostInit => SaveOK
<1> SUFFICES ASSUME HostInit PROVE SaveOK OBVIOUS
<1>1. HostInv BY HostInitInv
<1>2. \A t \in HostThreads : hostReq[t] = NoHostReq BY DEF HostInit
<1>3. hostLeft.host = 2 /\ hostLeft.cluster = 2 /\ {"host", "cluster"} \subseteq DOMAIN hostLeft BY DEF HostInit
<1>4. \A h \in HostIds : h # 1 => hosts[h] = NoHost BY DEF HostInit
<1>5. \A c \in ClusterIds : c # 1 => clusters[c] = NoCluster BY DEF HostInit
<1>6. \A c \in ClusterIds : c = 1 => clusters[c].name = 1 /\ clusters[c].host = 1 BY DEF HostInit
<1>7. HostTablesOK BY <1>2, <1>3, <1>4, <1>5, <1>6, HostAssumption DEF HostTablesOK, NoHostReq, NoCluster
<1> QED BY <1>1, <1>2, <1>7 DEF SaveOK, Steady, NoHostReq

\* Every request is overtaken, moves to a steady label, or meets no change of its host.
LEMMA StepSteady ==
  ASSUME SaveOK, HostInv', HostTablesOK',
         \A t \in HostThreads :
           \/ Steady(hostReq'[t], hosts', clusters')
           \/ hostReq'[t] = [hostReq[t] EXCEPT !.raced = TRUE]
           \/ hostReq'[t] = hostReq[t] /\ (hostReq[t].host \in HostIds => Untouched(hostReq[t].host))
  PROVE  SaveOK'
<1>1. ASSUME NEW t \in HostThreads PROVE Steady(hostReq'[t], hosts', clusters')
  <2> DEFINE q == hostReq[t]
  <2>1. Ready(q) /\ q \in HostReqRow /\ Steady(q, hosts, clusters) BY DEF SaveOK, HostInv, HostReqs, Ready
  <2>2. CASE hostReq'[t] = [q EXCEPT !.raced = TRUE]
    <3>1. hostReq'[t].raced = TRUE BY <2>1, <2>2 DEF HostReqRow
    <3> QED BY <3>1 DEF Steady
  <2>3. CASE hostReq'[t] = q /\ (q.host \in HostIds => Untouched(q.host))
    <3>1. q.host \in {0} \cup HostIds BY <2>1 DEF HostReqRow
    <3>2. q.pc \in {"read", "cluster"} => q.host \in HostIds BY <2>1 DEF Ready
    <3> QED BY <2>1, <2>3, <3>1, <3>2 DEF Steady, Untouched
  <2> QED BY <2>2, <2>3
<1> QED BY <1>1 DEF SaveOK

\* The requests a step overtakes, and the one that makes it.
LEMMA OvertakenSteady ==
  ASSUME SaveOK, HostInv', HostTablesOK', NEW t \in HostThreads, NEW r, NEW h,
         hostReq' = Overtaken([hostReq EXCEPT ![t] = r], h, {t}),
         Steady(r, hosts', clusters'), \A g \in HostIds \ {h} : Untouched(g)
  PROVE  SaveOK'
<1>1. ASSUME NEW u \in HostThreads
      PROVE  \/ Steady(hostReq'[u], hosts', clusters')
             \/ hostReq'[u] = [hostReq[u] EXCEPT !.raced = TRUE]
             \/ hostReq'[u] = hostReq[u] /\ (hostReq[u].host \in HostIds => Untouched(hostReq[u].host))
  <2> DEFINE q == hostReq[u]
  <2>1. q \in HostReqRow /\ Ready(q) BY DEF SaveOK, HostInv, HostReqs
  <2>2. CASE u = t
    <3>1. hostReq'[u] = r BY <2>2 DEF Overtaken, SaveOK, HostInv, HostReqs
    <3> QED BY <3>1
  <2>3. CASE u # t /\ q.host = h /\ q.pc # "idle"
    <3>1. hostReq'[u] = [q EXCEPT !.raced = TRUE] BY <2>3 DEF Overtaken, SaveOK, HostInv, HostReqs
    <3> QED BY <3>1
  <2>4. CASE u # t /\ ~(q.host = h /\ q.pc # "idle")
    <3>1. hostReq'[u] = q BY <2>4 DEF Overtaken, SaveOK, HostInv, HostReqs
    <3>2. CASE q.pc = "idle"
      <4>1. q = NoHostReq BY <2>1, <3>2 DEF Ready
      <4> QED BY <3>1, <4>1 DEF Steady, NoHostReq
    <3> QED BY <2>4, <3>1, <3>2
  <2> QED BY <2>2, <2>3, <2>4
<1> QED BY <1>1, StepSteady

LEMMA AllOvertakenSteady ==
  ASSUME SaveOK, HostInv', HostTablesOK', NEW h, hostReq' = Overtaken(hostReq, h, {}),
         \A g \in HostIds \ {h} : Untouched(g)
  PROVE  SaveOK'
<1>1. ASSUME NEW u \in HostThreads
      PROVE  \/ Steady(hostReq'[u], hosts', clusters')
             \/ hostReq'[u] = [hostReq[u] EXCEPT !.raced = TRUE]
             \/ hostReq'[u] = hostReq[u] /\ (hostReq[u].host \in HostIds => Untouched(hostReq[u].host))
  <2> DEFINE q == hostReq[u]
  <2>1. Ready(q) BY DEF SaveOK, HostInv, HostReqs
  <2>2. CASE q.host = h /\ q.pc # "idle"
    <3>1. hostReq'[u] = [q EXCEPT !.raced = TRUE] BY <2>2 DEF Overtaken
    <3> QED BY <3>1
  <2>3. CASE ~(q.host = h /\ q.pc # "idle")
    <3>1. hostReq'[u] = q BY <2>3 DEF Overtaken
    <3>2. CASE q.pc = "idle"
      <4>1. q = NoHostReq BY <2>1, <3>2 DEF Ready
      <4> QED BY <3>1, <4>1 DEF Steady, NoHostReq
    <3> QED BY <2>3, <3>1, <3>2
  <2> QED BY <2>2, <2>3
<1> QED BY <1>1, StepSteady

\* One request moves while no row that a save relies on changes.
LEMMA OneSteady ==
  ASSUME SaveOK, HostInv', HostTablesOK', NEW t \in HostThreads, NEW r, hostReq' = [hostReq EXCEPT ![t] = r],
         Steady(r, hosts', clusters'),
         \A u \in HostThreads \ {t} : hostReq[u].host \in HostIds => Untouched(hostReq[u].host)
  PROVE  SaveOK'
<1>1. \A u \in HostThreads \ {t} : hostReq'[u] = hostReq[u] BY DEF SaveOK, HostInv, HostReqs
<1>2. hostReq'[t] = r BY DEF SaveOK, HostInv, HostReqs
<1> QED BY <1>1, <1>2, StepSteady

\* Overtaking changes no host of a request.
LEMMA OvertakenHost ==
  ASSUME NEW reqs, NEW h, NEW by, NEW t \in HostThreads, reqs[t] \in HostReqRow
  PROVE  Overtaken(reqs, h, by)[t].host = reqs[t].host
BY DEF Overtaken, HostReqRow

LEMMA IdleSteady == \A ho, cl : Steady(NoHostReq, ho, cl)
BY DEF Steady, NoHostReq

\* The tables and the counters stay; only requests move.
LEMMA QuietSteady ==
  ASSUME SaveOK, HostInv', NEW t \in HostThreads, NEW r, hostReq' = [hostReq EXCEPT ![t] = r],
         UNCHANGED <<hosts, clusters>>, Steady(r, hosts, clusters), r.host < hostLeft.host,
         hostLeft' = hostLeft \/ hostLeft' = [hostLeft EXCEPT !.requests = @ - 1]
  PROVE  SaveOK'
<1>1. hostLeft'.host = hostLeft.host /\ hostLeft'.cluster = hostLeft.cluster
        /\ {"host", "cluster"} \subseteq DOMAIN hostLeft'
  BY DEF SaveOK, HostTablesOK
<1>2. \A u \in HostThreads : hostReq'[u] = hostReq[u] \/ hostReq'[u] = r
  BY DEF SaveOK, HostInv, HostReqs
<1>3. HostTablesOK' BY <1>1, <1>2 DEF SaveOK, HostTablesOK
<1>4. \A h \in HostIds : Untouched(h) BY DEF Untouched
<1> QED BY <1>3, <1>4, OneSteady

\* The next id of a host is beyond the ids in use.
LEMMA HostIdsUsed ==
  ASSUME SaveOK
  PROVE  /\ hostLeft.host \in Nat /\ hostLeft.cluster \in Nat
         /\ \A t \in HostThreads : hostReq[t].host \in Nat /\ 0 < hostLeft.host
         /\ \A h \in HostIds : h \in Nat /\ h # 0 /\ (hosts[h] # NoHost => h < hostLeft.host)
         /\ \A c \in ClusterIds : c \in Nat /\ (clusters[c] # NoCluster => c < hostLeft.cluster)
<1>1. hostLeft.host \in Nat /\ hostLeft.cluster \in Nat BY DEF SaveOK, HostTablesOK
<1>2. \A h \in HostIds : h \in Nat /\ h # 0 BY HostAssumption
<1>3. \A c \in ClusterIds : c \in Nat BY HostAssumption
<1>4. ASSUME NEW t \in HostThreads PROVE hostReq[t].host \in Nat /\ 0 < hostLeft.host
  <2>1. hostReq[t].host \in {0} \cup HostIds BY DEF SaveOK, HostInv, HostReqs, HostReqRow
  <2>2. hostReq[t].host \in Nat BY <1>2, <2>1
  <2>3. hostReq[t].host < hostLeft.host BY DEF SaveOK, HostTablesOK
  <2> QED BY <1>1, <2>2, <2>3
<1>5. \A h \in HostIds : hosts[h] # NoHost => h < hostLeft.host BY <1>1, <1>2 DEF SaveOK, HostTablesOK
<1>6. \A c \in ClusterIds : clusters[c] # NoCluster => c < hostLeft.cluster BY <1>1, <1>3 DEF SaveOK, HostTablesOK
<1> QED BY <1>1, <1>2, <1>3, <1>4, <1>5, <1>6

\* The end of a request.
LEMMA EndSteady ==
  ASSUME SaveOK, HostInv', NEW t \in HostThreads, HostEnd(t), HostQuiet
  PROVE  SaveOK'
<1>1. NoHostReq.host < hostLeft.host BY HostIdsUsed DEF NoHostReq
<1> QED BY <1>1, IdleSteady, QuietSteady DEF HostEnd, HostQuiet

\* A request begins on no host, or on one that is there.
LEMMA BegunSteady ==
  ASSUME SaveOK, NEW t \in HostThreads, NEW q, Ready(q), Begun(t, q), Steady(q, hosts, clusters),
         q.host < hostLeft.host
  PROVE  SaveOK'
<1>1. HostInv' BY BegunInv DEF SaveOK
<1> QED BY <1>1, QuietSteady DEF Begun

\* One row of clusters changes, the hosts do not.
LEMMA OneRowTables ==
  ASSUME SaveOK, hosts' = hosts, NEW k \in ClusterIds, NEW row, clusters' = [clusters EXCEPT ![k] = row],
         row.host # 0 => row.name = row.host,
         {"host", "cluster"} \subseteq DOMAIN hostLeft', hostLeft'.host = hostLeft.host,
         hostLeft'.cluster \in Nat, hostLeft'.cluster >= hostLeft.cluster,
         k < hostLeft'.cluster \/ row = NoCluster,
         \A t \in HostThreads : hostReq'[t].host < hostLeft.host
  PROVE  HostTablesOK'
<1>1. \A c \in ClusterIds : clusters'[c] = IF c = k THEN row ELSE clusters[c]
  BY DEF SaveOK, HostInv, RowsOK
<1>2. \A c \in ClusterIds : c \in Nat BY HostAssumption
<1>3. ASSUME NEW c \in ClusterIds, c >= hostLeft'.cluster PROVE clusters'[c] = NoCluster
  BY <1>1, <1>2, <1>3, HostIdsUsed
<1>4. \A c \in ClusterIds : clusters'[c].host # 0 => clusters'[c].name = clusters'[c].host
  BY <1>1 DEF SaveOK, HostTablesOK
<1>5. \A h \in HostIds : h >= hostLeft.host => hosts[h] = NoHost BY DEF SaveOK, HostTablesOK
<1> QED BY <1>3, <1>4, <1>5, HostIdsUsed DEF HostTablesOK

LEMMA OneRowUntouched ==
  ASSUME SaveOK, hosts' = hosts, NEW k \in ClusterIds, NEW row, clusters' = [clusters EXCEPT ![k] = row],
         NEW g \in HostIds,
         clusters[k] # NoCluster /\ clusters[k].host = g =>
           row # NoCluster /\ row.host = g /\ row.key = clusters[k].key
  PROVE  Untouched(g)
<1>1. \A c \in ClusterIds : clusters'[c] = IF c = k THEN row ELSE clusters[c]
  BY DEF SaveOK, HostInv, RowsOK
<1> QED BY <1>1 DEF Untouched

\* Overtaking, and the end of a request, put no request on another host.
LEMMA HostsKept ==
  ASSUME SaveOK, NEW h, NEW by,
         \/ hostReq' = Overtaken(hostReq, h, by)
         \/ \E t \in HostThreads : hostReq' = Overtaken([hostReq EXCEPT ![t] = NoHostReq], h, by)
  PROVE  \A u \in HostThreads : hostReq'[u].host < hostLeft.host
<1> SUFFICES ASSUME NEW u \in HostThreads PROVE hostReq'[u].host < hostLeft.host OBVIOUS
<1>1. hostReq[u] \in HostReqRow /\ hostReq[u].host < hostLeft.host BY DEF SaveOK, HostInv, HostReqs, HostTablesOK
<1>2. CASE hostReq' = Overtaken(hostReq, h, by)
  BY <1>1, <1>2, OvertakenHost
<1>3. ASSUME NEW t \in HostThreads, hostReq' = Overtaken([hostReq EXCEPT ![t] = NoHostReq], h, by)
      PROVE  hostReq'[u].host < hostLeft.host
  <2> DEFINE reqs == [hostReq EXCEPT ![t] = NoHostReq]
  <2>1. reqs[u] \in HostReqRow /\ (reqs[u] = hostReq[u] \/ reqs[u] = NoHostReq)
    BY <1>1, IdleReady DEF Ready, SaveOK, HostInv, HostReqs
  <2>2. reqs[u].host < hostLeft.host BY <1>1, <2>1, HostIdsUsed DEF NoHostReq
  <2> HIDE DEF reqs
  <2>3. Overtaken(reqs, h, by)[u].host = reqs[u].host BY <2>1, OvertakenHost
  <2> QED BY <1>3, <2>2, <2>3 DEF reqs
<1> QED BY <1>2, <1>3

LEMMA SaveSteady ==
  ASSUME SaveOK, NEW t \in HostThreads, NEW h \in {0} \cup HostIds, NEW f \in HostForms, Save(t, h, f),
         h # 0 => hosts[h] # NoHost
  PROVE  SaveOK'
<1> DEFINE q == [pc |-> "host", op |-> "save", host |-> h, id |-> 0, env |-> f.env, url |-> f.url,
                 key |-> f.key, skip |-> f.skip, result |-> "none", raced |-> FALSE]
<1>1. f.env \in Environments /\ f.url \in ExporterUrls /\ f.key \in {"none"} \cup Kubeconfigs /\ f.skip \in BOOLEAN
  BY HostAssumption
<1>2. Ready(q) BY <1>1 DEF Ready, HostReqRow
<1>3. Steady(q, hosts, clusters) BY DEF Steady
<1>4. q.host < hostLeft.host BY HostIdsUsed
<1> QED BY <1>2, <1>3, <1>4, BegunSteady DEF Save

LEMMA QuerySteady ==
  ASSUME SaveOK, NEW t \in HostThreads, NEW h \in HostIds, NEW op \in {"query", "keys", "resources"}, Query(t, h, op)
  PROVE  SaveOK'
<1>1. PICK c \in ClusterIds : clusters[c].host = h /\
        Begun(t, [NoHostReq EXCEPT !.pc = "remote", !.op = op, !.host = h, !.id = c])
  BY DEF Query, ClusterOf
<1> DEFINE q == [NoHostReq EXCEPT !.pc = "remote", !.op = op, !.host = h, !.id = c]
<1>2. Ready(q) BY DEF Ready, HostReqRow, NoHostReq
<1>3. Steady(q, hosts, clusters) BY DEF Steady, NoHostReq
<1>4. hosts[h] # NoHost BY <1>1, HostIdsUsed DEF SaveOK, HostInv, RowsOK, Linked
<1>5. q.host < hostLeft.host BY <1>4, HostIdsUsed DEF NoHostReq
<1> QED BY <1>1, <1>2, <1>3, <1>5, BegunSteady

LEMMA ScrapeSteady == ASSUME SaveOK, NEW t \in HostThreads, NEW h \in HostIds, Scrape(t, h) PROVE SaveOK'
<1> DEFINE q == [NoHostReq EXCEPT !.pc = "scrape", !.op = "probe", !.host = h, !.url = hosts[h].url]
<1>1. hosts[h].url \in ExporterUrls BY DEF SaveOK, HostInv, RowsOK, HostRow, Scrape
<1>2. Ready(q) BY <1>1 DEF Ready, HostReqRow, NoHostReq
<1>3. Steady(q, hosts, clusters) BY DEF Steady, NoHostReq
<1>4. q.host < hostLeft.host BY HostIdsUsed DEF Scrape, NoHostReq
<1> QED BY <1>2, <1>3, <1>4, BegunSteady DEF Scrape

LEMMA AskClusterSteady == ASSUME SaveOK, NEW t \in HostThreads, AskCluster(t) PROVE SaveOK'
<1> DEFINE q == hostReq[t]
<1>1. HostInv' /\ q \in HostReqRow /\ q.host < hostLeft.host /\ HostQuiet
  BY AskClusterInv DEF SaveOK, HostTablesOK, HostInv, HostReqs, AskCluster
<1>2. ASSUME NEW r \in {"active", "unreachable"}, hostReq' = [HostGoto(t, "cstatus") EXCEPT ![t].result = r]
      PROVE  SaveOK'
  <2> DEFINE n == [q EXCEPT !.pc = "cstatus", !.result = r]
  <2>1. n.pc = "cstatus" /\ n.host = q.host BY <1>1 DEF HostReqRow
  <2>2. hostReq' = [hostReq EXCEPT ![t] = n] BY <1>2 DEF HostGoto, SaveOK, HostInv, HostReqs
  <2>3. Steady(n, hosts, clusters) BY <2>1 DEF Steady
  <2> HIDE DEF n
  <2> QED BY <1>1, <2>1, <2>2, <2>3, QuietSteady DEF HostQuiet
<1>3. CASE HostEnd(t) BY <1>1, <1>3, EndSteady
<1>4. CASE hostReq' = [HostGoto(t, "scrape") EXCEPT ![t].url = hosts[q.host].url]
  <2> DEFINE n == [q EXCEPT !.pc = "scrape", !.url = hosts[q.host].url]
  <2>1. n.pc = "scrape" /\ n.host = q.host BY <1>1 DEF HostReqRow
  <2>2. hostReq' = [hostReq EXCEPT ![t] = n] BY <1>4 DEF HostGoto, SaveOK, HostInv, HostReqs
  <2>3. Steady(n, hosts, clusters) BY <2>1 DEF Steady
  <2> HIDE DEF n
  <2> QED BY <1>1, <2>1, <2>2, <2>3, QuietSteady DEF HostQuiet
<1> QED BY <1>2, <1>3, <1>4 DEF AskCluster

LEMMA ReadClusterSteady == ASSUME SaveOK, NEW t \in HostThreads, ReadCluster(t) PROVE SaveOK'
<1> DEFINE q == hostReq[t]
<1>1. /\ HostInv' /\ q \in HostReqRow /\ Ready(q) /\ q.pc = "read" /\ q.host \in HostIds /\ q.host < hostLeft.host
      /\ Steady(q, hosts, clusters)
  BY ReadClusterInv DEF SaveOK, HostTablesOK, HostInv, HostReqs, ReadCluster, HostAt, Ready
<1>2. CASE q.key # "none" /\ hostReq' = HostGoto(t, "cluster") /\ HostQuiet
  <2> DEFINE n == [q EXCEPT !.pc = "cluster"]
  <2>1. /\ n.pc = "cluster" /\ n.host = q.host /\ n.op = q.op /\ n.env = q.env /\ n.url = q.url /\ n.raced = q.raced
    BY <1>1 DEF HostReqRow
  <2>2. hostReq' = [hostReq EXCEPT ![t] = n] BY <1>2 DEF HostGoto
  <2>3. Steady(n, hosts, clusters) BY <1>1, <2>1 DEF Steady
  <2> HIDE DEF n
  <2> QED BY <1>1, <1>2, <2>1, <2>2, <2>3, QuietSteady DEF HostQuiet
<1>3. CASE HostEnd(t) /\ HostQuiet BY <1>1, <1>3, EndSteady
<1>4. ASSUME NEW c \in ClusterOf(q.host), HostQuiet,
             hostReq' = [HostGoto(t, "cluster") EXCEPT ![t].key = clusters[c].key, ![t].op = "blank"]
      PROVE  SaveOK'
  <2> DEFINE n == [q EXCEPT !.pc = "cluster", !.key = clusters[c].key, !.op = "blank"]
  <2>1. /\ n.pc = "cluster" /\ n.host = q.host /\ n.env = q.env /\ n.url = q.url /\ n.raced = q.raced
        /\ n.key = clusters[c].key
    BY <1>1 DEF HostReqRow
  <2>2. hostReq' = [hostReq EXCEPT ![t] = n] BY <1>4 DEF HostGoto, SaveOK, HostInv, HostReqs
  <2>3. c \in ClusterIds /\ clusters[c] # NoCluster /\ clusters[c].host = q.host BY <1>4 DEF ClusterOf
  <2>4. Steady(n, hosts, clusters) BY <1>1, <2>1, <2>3 DEF Steady
  <2> HIDE DEF n
  <2> QED BY <1>1, <1>4, <2>1, <2>2, <2>4, QuietSteady DEF HostQuiet
<1>5. ASSUME NEW c \in ClusterOf(q.host),
             clusters' = [clusters EXCEPT ![c].env = q.env, ![c].name = q.host, ![c].verify = ~q.skip],
             hostReq' = Overtaken([hostReq EXCEPT ![t] = NoHostReq], q.host, {t}), hosts' = hosts,
             hostLeft' = hostLeft
      PROVE  SaveOK'
  <2> DEFINE row == [clusters[c] EXCEPT !.env = q.env, !.name = q.host, !.verify = ~q.skip]
  <2>1. c \in ClusterIds /\ clusters[c] \in ClusterRows /\ clusters[c] # NoCluster /\ clusters[c].host = q.host
    BY <1>5 DEF ClusterOf, SaveOK, HostInv, RowsOK
  <2>2. row.name = q.host /\ row.host = q.host
    BY <2>1 DEF ClusterRows, NoCluster
  <2>3. clusters' = [clusters EXCEPT ![c] = row] BY <1>5, <2>1 DEF SaveOK, HostInv, RowsOK
  <2> HIDE DEF row
  <2>4. \A u \in HostThreads : hostReq'[u].host < hostLeft.host BY <1>5, HostsKept
  <2>5. /\ {"host", "cluster"} \subseteq DOMAIN hostLeft' /\ hostLeft'.host = hostLeft.host
        /\ hostLeft'.cluster \in Nat /\ hostLeft'.cluster >= hostLeft.cluster /\ c < hostLeft'.cluster
    BY <1>5, <2>1, HostIdsUsed DEF SaveOK, HostTablesOK
  <2>6. HostTablesOK'
    <3>1. row.host # 0 => row.name = row.host BY <2>2
    <3> QED BY <1>5, <2>1, <2>3, <2>4, <2>5, <3>1, OneRowTables
  <2>7. \A g \in HostIds \ {q.host} : Untouched(g) BY <1>5, <2>1, <2>3, OneRowUntouched
  <2> QED BY <1>1, <1>5, <2>6, <2>7, IdleSteady, OvertakenSteady
<1> QED BY <1>2, <1>3, <1>4, <1>5 DEF ReadCluster

LEMMA WriteHostSteady == ASSUME SaveOK, NEW t \in HostThreads, WriteHost(t) PROVE SaveOK'
<1> DEFINE q == hostReq[t]
<1>1. /\ HostInv' /\ q \in HostReqRow /\ q.pc = "host" /\ q.host < hostLeft.host /\ Steady(q, hosts, clusters)
      /\ clusters' = clusters
  BY WriteHostInv DEF SaveOK, HostTablesOK, HostInv, HostReqs, WriteHost, HostAt
<1>2. ASSUME HostEnd(t), UNCHANGED <<hosts, hostLeft>> PROVE SaveOK'
  BY <1>1, <1>2, EndSteady DEF HostQuiet
<1>3. ASSUME NEW r \in {"active", "unreachable"}, q.host # 0,
             hosts' = IF hosts[q.host] = NoHost THEN hosts
                      ELSE [hosts EXCEPT ![q.host] = [env |-> q.env, url |-> q.url, status |-> r]],
             hostReq' = Overtaken(HostGoto(t, "read"), q.host, {t}), hostLeft' = hostLeft
      PROVE  SaveOK'
  <2> DEFINE n == [q EXCEPT !.pc = "read"]
             row == [env |-> q.env, url |-> q.url, status |-> r]
  <2>1. /\ n.pc = "read" /\ n.host = q.host /\ n.op = q.op /\ n.env = q.env /\ n.url = q.url /\ n.raced = q.raced
        /\ n \in HostReqRow
    BY <1>1 DEF HostReqRow
  <2>2. q.host \in HostIds BY <1>1, <1>3 DEF HostReqRow
  <2>3. hostReq' = Overtaken([hostReq EXCEPT ![t] = n], q.host, {t}) BY <1>3 DEF HostGoto
  <2>4. \A h \in HostIds \ {q.host} : hosts'[h] = hosts[h] BY <1>3, <2>2 DEF SaveOK, HostInv, RowsOK
  <2>5. hosts[q.host] # NoHost => hosts'[q.host] = row BY <1>3, <2>2 DEF SaveOK, HostInv, RowsOK
  <2>6. ~q.raced => hosts[q.host] # NoHost BY <1>1, <1>3 DEF Steady
  <2>7. Steady(n, hosts', clusters') BY <1>1, <2>1, <2>5, <2>6 DEF Steady
  <2>8. ASSUME NEW u \in HostThreads PROVE hostReq'[u].host < hostLeft'.host
    <3> DEFINE reqs == [hostReq EXCEPT ![t] = n]
    <3>1. reqs[u] \in HostReqRow /\ reqs[u].host = hostReq[u].host BY <2>1 DEF SaveOK, HostInv, HostReqs
    <3> HIDE DEF reqs
    <3>2. Overtaken(reqs, q.host, {t})[u].host = reqs[u].host BY <3>1, OvertakenHost
    <3> QED BY <1>3, <2>3, <3>1, <3>2 DEF reqs, SaveOK, HostTablesOK
  <2>9. hosts[q.host] = NoHost => hosts'[q.host] = NoHost BY <1>3
  <2>10. \A h \in HostIds : h >= hostLeft'.host => hosts'[h] = NoHost
    BY <1>1, <1>3, <2>2, <2>4, <2>9, HostIdsUsed DEF SaveOK, HostTablesOK
  <2>11. HostTablesOK' BY <1>1, <1>3, <2>8, <2>10 DEF SaveOK, HostTablesOK
  <2>12. \A g \in HostIds \ {q.host} : Untouched(g) BY <1>1, <2>4 DEF Untouched
  <2> HIDE DEF n
  <2> QED BY <1>1, <2>3, <2>7, <2>11, <2>12, OvertakenSteady
<1>4. ASSUME NEW r \in {"active", "unreachable"}, q.host = 0, hostLeft.host \in HostIds,
             hosts' = [hosts EXCEPT ![hostLeft.host] = [env |-> q.env, url |-> q.url, status |-> r]],
             hostReq' = [HostGoto(t, "read") EXCEPT ![t].host = hostLeft.host],
             hostLeft' = [hostLeft EXCEPT !.host = @ + 1]
      PROVE  SaveOK'
  <2>1. PICK k \in HostIds : k = hostLeft.host BY <1>4
  <2> DEFINE n == [q EXCEPT !.pc = "read", !.host = k]
             row == [env |-> q.env, url |-> q.url, status |-> r]
  <2>2. /\ n.pc = "read" /\ n.host = k /\ n.op = q.op /\ n.env = q.env /\ n.url = q.url /\ n.raced = q.raced
    BY <1>1 DEF HostReqRow
  <2>3. hostReq' = [hostReq EXCEPT ![t] = n] BY <1>4, <2>1 DEF HostGoto, SaveOK, HostInv, HostReqs
  <2> HIDE DEF n
  <2>4. \A h \in HostIds \ {k} : hosts'[h] = hosts[h] BY <1>4, <2>1 DEF SaveOK, HostInv, RowsOK
  <2>5. hosts'[k] = row BY <1>4, <2>1 DEF SaveOK, HostInv, RowsOK
  <2>6. Steady(n, hosts', clusters') BY <1>1, <2>2, <2>5 DEF Steady
  <2>7. /\ hostLeft'.host = k + 1 /\ hostLeft'.cluster = hostLeft.cluster
        /\ {"host", "cluster"} \subseteq DOMAIN hostLeft'
    BY <1>4, <2>1 DEF SaveOK, HostTablesOK
  <2>8. k \in Nat /\ \A u \in HostThreads : hostReq[u].host \in Nat /\ hostReq[u].host < k
    BY <2>1, HostIdsUsed DEF SaveOK, HostTablesOK
  <2>9. \A u \in HostThreads : hostReq'[u] = IF u = t THEN n ELSE hostReq[u]
    BY <2>3 DEF SaveOK, HostInv, HostReqs
  <2>10. \A u \in HostThreads : hostReq'[u].host < k + 1 BY <2>2, <2>8, <2>9
  <2>11. \A h \in HostIds : h >= k + 1 => hosts'[h] = NoHost
    BY <2>1, <2>4, <2>8, HostIdsUsed DEF SaveOK, HostTablesOK
  <2>12. HostTablesOK' BY <1>1, <2>7, <2>8, <2>10, <2>11 DEF SaveOK, HostTablesOK
  <2>13. \A u \in HostThreads : hostReq[u].host \in HostIds => Untouched(hostReq[u].host)
    BY <1>1, <2>4, <2>8 DEF Untouched
  <2> QED BY <1>1, <2>3, <2>6, <2>12, <2>13, OneSteady
<1> QED BY <1>2, <1>3, <1>4 DEF WriteHost

LEMMA WriteClusterSteady == ASSUME SaveOK, NEW t \in HostThreads, WriteCluster(t) PROVE SaveOK'
<1> DEFINE q == hostReq[t]
<1>1. /\ HostInv' /\ q.host \in HostIds /\ q.host # 0 /\ hosts' = hosts
      /\ hostReq' = Overtaken([hostReq EXCEPT ![t] = NoHostReq], q.host, {t})
  BY WriteClusterInv, HostIdsUsed DEF SaveOK, HostInv, HostReqs, WriteCluster, HostAt, Ready
<1>2. PICK h \in HostIds : h = q.host BY <1>1
<1>3. PICK env, key, skip : env = q.env /\ key = q.key /\ skip = q.skip OBVIOUS
<1> DEFINE new == [host |-> h, env |-> env, name |-> h, key |-> key, skip |-> skip,
                   verify |-> ~skip, status |-> "configured"]
           met == IF h # 0 /\ ClusterOf(h) # {} THEN ClusterOf(h) ELSE Named(env, h)
<1>4. Upsert(h, env, h, key, skip) BY <1>2, <1>3 DEF WriteCluster
<1>5. \A u \in HostThreads : hostReq'[u].host < hostLeft.host BY <1>1, HostsKept
<1>6. /\ {"host", "cluster"} \subseteq DOMAIN hostLeft /\ hostLeft.host \in Nat /\ hostLeft.cluster \in Nat
  BY DEF SaveOK, HostTablesOK
<1>7. ASSUME NEW c \in met, clusters' = [clusters EXCEPT ![c] = [new EXCEPT !.host = clusters[c].host]],
             hostLeft' = hostLeft
      PROVE  SaveOK'
  <2> DEFINE row == [new EXCEPT !.host = clusters[c].host]
  <2>1. c \in ClusterIds /\ clusters[c] # NoCluster /\ (clusters[c].host = h \/ clusters[c].name = h)
    BY <1>7 DEF ClusterOf, Named
  <2>2. clusters[c].host \in {0, h} BY <2>1 DEF SaveOK, HostTablesOK
  <2>3. row.host = clusters[c].host /\ row.name = h OBVIOUS
  <2> HIDE DEF row, met, new
  <2>4. c < hostLeft.cluster BY <2>1, HostIdsUsed
  <2>5. row.host # 0 => row.name = row.host BY <2>2, <2>3
  <2>6. clusters' = [clusters EXCEPT ![c] = row] BY <1>7 DEF row
  <2>7. /\ {"host", "cluster"} \subseteq DOMAIN hostLeft' /\ hostLeft'.host = hostLeft.host
        /\ hostLeft'.cluster \in Nat /\ hostLeft'.cluster >= hostLeft.cluster /\ c < hostLeft'.cluster
    BY <1>6, <1>7, <2>4
  <2>8. HostTablesOK' BY <1>1, <1>5, <2>1, <2>5, <2>6, <2>7, OneRowTables
  <2>9. \A g \in HostIds \ {h} : Untouched(g)
    BY <1>1, <1>2, <2>1, <2>2, <2>6, HostIdsUsed, OneRowUntouched
  <2> QED BY <1>1, <1>2, <2>8, <2>9, IdleSteady, OvertakenSteady
<1>8. ASSUME hostLeft.cluster \in ClusterIds, clusters' = [clusters EXCEPT ![hostLeft.cluster] = new],
             hostLeft' = [hostLeft EXCEPT !.cluster = @ + 1]
      PROVE  SaveOK'
  <2>1. PICK k \in ClusterIds : k = hostLeft.cluster BY <1>8
  <2>2. new.host = new.name OBVIOUS
  <2>3. clusters' = [clusters EXCEPT ![k] = new] BY <1>8, <2>1
  <2> HIDE DEF new
  <2>4. k \in Nat /\ clusters[k] = NoCluster BY <1>6, <2>1 DEF SaveOK, HostTablesOK
  <2>5. /\ hostLeft'.host = hostLeft.host /\ hostLeft'.cluster = k + 1
        /\ {"host", "cluster"} \subseteq DOMAIN hostLeft'
    BY <1>6, <1>8, <2>1
  <2>6. hostLeft'.cluster \in Nat /\ hostLeft'.cluster >= hostLeft.cluster /\ k < hostLeft'.cluster
    BY <2>1, <2>4, <2>5
  <2>7. HostTablesOK' BY <1>1, <1>5, <2>2, <2>3, <2>5, <2>6, OneRowTables
  <2>8. \A g \in HostIds \ {h} : Untouched(g) BY <1>1, <2>3, <2>4, OneRowUntouched
  <2> QED BY <1>1, <1>2, <2>7, <2>8, IdleSteady, OvertakenSteady
<1> HIDE DEF met, new
<1>9. \/ \E c \in met : clusters' = [clusters EXCEPT ![c] = [new EXCEPT !.host = clusters[c].host]] /\ hostLeft' = hostLeft
      \/ /\ hostLeft.cluster \in ClusterIds /\ clusters' = [clusters EXCEPT ![hostLeft.cluster] = new]
         /\ hostLeft' = [hostLeft EXCEPT !.cluster = @ + 1]
  BY <1>4 DEF Upsert, met, new
<1> QED BY <1>7, <1>8, <1>9

\* A cluster made by name, or the deletion of one, overtakes the saves of its host.
LEMMA RowOvertakes ==
  ASSUME SaveOK, HostInv', hosts' = hosts, NEW c \in ClusterIds, NEW row, clusters' = [clusters EXCEPT ![c] = row],
         row.host # 0 => row.name = row.host, clusters[c] # NoCluster,
         hostReq' = Overtaken(hostReq, clusters[c].host, {}), hostLeft' = [hostLeft EXCEPT !.changes = @ - 1]
  PROVE  SaveOK'
<1>1. PICK h : h = clusters[c].host OBVIOUS
<1>2. \A u \in HostThreads : hostReq'[u].host < hostLeft.host BY HostsKept
<1>3. /\ {"host", "cluster"} \subseteq DOMAIN hostLeft' /\ hostLeft'.host = hostLeft.host
      /\ hostLeft'.cluster = hostLeft.cluster
  BY DEF SaveOK, HostTablesOK
<1>4. hostLeft'.cluster \in Nat /\ hostLeft'.cluster >= hostLeft.cluster /\ c < hostLeft'.cluster
  BY <1>3, HostIdsUsed
<1>5. HostTablesOK' BY <1>2, <1>3, <1>4, OneRowTables
<1>6. \A g \in HostIds \ {h} : Untouched(g) BY <1>1, OneRowUntouched
<1> QED BY <1>1, <1>5, <1>6, AllOvertakenSteady

LEMMA CreateClusterSteady == ASSUME SaveOK, NEW f \in ClusterForms, CreateCluster(f) PROVE SaveOK'
<1>1. PICK env, name, key, skip : env = f.env /\ name = f.name /\ key = f.key /\ skip = f.skip OBVIOUS
<1> DEFINE new == [host |-> 0, env |-> env, name |-> name, key |-> key, skip |-> skip,
                   verify |-> ~skip, status |-> "configured"]
<1>2. HostInv' /\ hosts' = hosts BY CreateClusterInv DEF SaveOK, CreateCluster
<1>3. ASSUME NEW c \in Named(env, name), clusters' = [clusters EXCEPT ![c] = [new EXCEPT !.host = clusters[c].host]],
             hostReq' = Overtaken(hostReq, clusters[c].host, {}), hostLeft' = [hostLeft EXCEPT !.changes = @ - 1]
      PROVE  SaveOK'
  <2>1. c \in ClusterIds /\ clusters[c] # NoCluster /\ clusters[c].name = name BY <1>3 DEF Named
  <2> DEFINE row == [new EXCEPT !.host = clusters[c].host]
  <2>2. row.host = clusters[c].host /\ row.name = clusters[c].name BY <2>1
  <2> HIDE DEF row
  <2>3. row.host # 0 => row.name = row.host BY <2>1, <2>2 DEF SaveOK, HostTablesOK
  <2>4. clusters' = [clusters EXCEPT ![c] = row] BY <1>3 DEF row
  <2> QED BY <1>2, <1>3, <2>1, <2>3, <2>4, RowOvertakes
<1>4. ASSUME hostLeft.cluster \in ClusterIds, clusters' = [clusters EXCEPT ![hostLeft.cluster] = new],
             hostLeft' = [hostLeft EXCEPT !.changes = @ - 1, !.cluster = @ + 1], hostReq' = hostReq
      PROVE  SaveOK'
  <2>1. PICK k \in ClusterIds : k = hostLeft.cluster BY <1>4
  <2>2. new.host = 0 OBVIOUS
  <2>3. clusters' = [clusters EXCEPT ![k] = new] BY <1>4, <2>1
  <2> HIDE DEF new
  <2>4. k \in Nat /\ clusters[k] = NoCluster BY <2>1, HostIdsUsed DEF SaveOK, HostTablesOK
  <2>5. /\ hostLeft'.host = hostLeft.host /\ hostLeft'.cluster = k + 1
        /\ {"host", "cluster"} \subseteq DOMAIN hostLeft'
    BY <1>4, <2>1 DEF SaveOK, HostTablesOK
  <2>6. hostLeft'.cluster \in Nat /\ hostLeft'.cluster >= hostLeft.cluster /\ k < hostLeft'.cluster
    BY <2>1, <2>4, <2>5
  <2>7. \A u \in HostThreads : hostReq'[u].host < hostLeft.host BY <1>4 DEF SaveOK, HostTablesOK
  <2>8. HostTablesOK' BY <1>2, <2>2, <2>3, <2>5, <2>6, <2>7, OneRowTables
  <2>9. \A g \in HostIds : Untouched(g) BY <1>2, <2>3, <2>4, OneRowUntouched
  <2> QED BY <1>2, <1>4, <2>8, <2>9, StepSteady
<1> HIDE DEF new
<1>5. \/ \E c \in Named(env, name) :
           /\ clusters' = [clusters EXCEPT ![c] = [new EXCEPT !.host = clusters[c].host]]
           /\ hostReq' = Overtaken(hostReq, clusters[c].host, {})
           /\ hostLeft' = [hostLeft EXCEPT !.changes = @ - 1]
      \/ /\ hostLeft.cluster \in ClusterIds /\ clusters' = [clusters EXCEPT ![hostLeft.cluster] = new]
         /\ hostLeft' = [hostLeft EXCEPT !.changes = @ - 1, !.cluster = @ + 1] /\ hostReq' = hostReq
  BY <1>1 DEF CreateCluster, new
<1> QED BY <1>3, <1>4, <1>5

LEMMA DeleteClusterSteady == ASSUME SaveOK, NEW c \in ClusterIds, DeleteCluster(c) PROVE SaveOK'
<1>1. HostInv' BY DeleteClusterInv DEF SaveOK
<1>2. NoCluster.host = 0 BY DEF NoCluster
<1> QED BY <1>1, <1>2, RowOvertakes DEF DeleteCluster, HostChange

LEMMA DeleteHostSteady == ASSUME SaveOK, NEW h \in HostIds, DeleteHost(h) PROVE SaveOK'
<1>1. HostInv' BY DeleteHostInv DEF SaveOK
<1>2. /\ hosts' = [hosts EXCEPT ![h] = NoHost] /\ hostReq' = Overtaken(hostReq, h, {})
      /\ clusters' = [c \in ClusterIds |-> IF clusters[c].host = h THEN NoCluster ELSE clusters[c]]
  BY DEF DeleteHost
<1>3. /\ {"host", "cluster"} \subseteq DOMAIN hostLeft' /\ hostLeft'.host = hostLeft.host
      /\ hostLeft'.cluster = hostLeft.cluster
  BY DEF SaveOK, HostTablesOK, DeleteHost, HostChange
<1>4. \A u \in HostThreads : hostReq'[u].host < hostLeft.host BY <1>2, HostsKept
<1>5. \A g \in HostIds : hosts'[g] = IF g = h THEN NoHost ELSE hosts[g] BY <1>2 DEF SaveOK, HostInv, RowsOK
<1>6. \A c \in ClusterIds : clusters'[c] = NoCluster \/ clusters'[c] = clusters[c] BY <1>2
<1>7. \A c \in ClusterIds : c >= hostLeft.cluster => clusters'[c] = NoCluster
  BY <1>6 DEF SaveOK, HostTablesOK
<1>8. \A c \in ClusterIds : clusters'[c].host # 0 => clusters'[c].name = clusters'[c].host
  BY <1>6 DEF SaveOK, HostTablesOK, NoCluster
<1>9. \A g \in HostIds : g >= hostLeft.host => hosts'[g] = NoHost BY <1>5 DEF SaveOK, HostTablesOK
<1>10. HostTablesOK' BY <1>3, <1>4, <1>7, <1>8, <1>9, HostIdsUsed DEF HostTablesOK
<1>11. \A g \in HostIds \ {h} : Untouched(g) BY <1>2, <1>5 DEF Untouched
<1> QED BY <1>1, <1>2, <1>10, <1>11, AllOvertakenSteady

LEMMA MarkClusterSteady == ASSUME SaveOK, NEW t \in HostThreads, MarkCluster(t) PROVE SaveOK'
<1> DEFINE q == hostReq[t]
<1>1. HostInv' /\ q.id \in ClusterIds /\ hosts' = hosts /\ hostLeft' = hostLeft
        /\ hostReq' = [hostReq EXCEPT ![t] = NoHostReq] /\ q.result # "none"
  BY MarkClusterInv DEF SaveOK, HostInv, HostReqs, MarkCluster, HostAt, Ready, HostEnd
<1>2. PICK c \in ClusterIds : c = q.id BY <1>1
<1> DEFINE row == IF clusters[c] = NoCluster THEN NoCluster ELSE [clusters[c] EXCEPT !.status = q.result]
<1>3. clusters' = [clusters EXCEPT ![c] = row]
  BY <1>2 DEF MarkCluster, SaveOK, HostInv, RowsOK
<1>4. row.host = clusters[c].host /\ row.name = clusters[c].name /\ row.key = clusters[c].key
        /\ (row = NoCluster <=> clusters[c] = NoCluster)
  BY <1>1, <1>2 DEF SaveOK, HostInv, RowsOK, ClusterRows, NoCluster, Statuses
<1> HIDE DEF row
<1>5. \A u \in HostThreads : hostReq'[u] = NoHostReq \/ hostReq'[u] = hostReq[u]
  BY <1>1 DEF SaveOK, HostInv, HostReqs
<1>6. \A u \in HostThreads : hostReq'[u].host < hostLeft.host
  BY <1>5, HostIdsUsed DEF SaveOK, HostTablesOK, NoHostReq
<1>7. /\ {"host", "cluster"} \subseteq DOMAIN hostLeft' /\ hostLeft'.host = hostLeft.host
      /\ hostLeft'.cluster \in Nat /\ hostLeft'.cluster >= hostLeft.cluster
      /\ (c < hostLeft'.cluster \/ row = NoCluster)
  BY <1>1, <1>4, HostIdsUsed DEF SaveOK, HostTablesOK
<1>8. row.host # 0 => row.name = row.host BY <1>4 DEF SaveOK, HostTablesOK
<1>9. HostTablesOK' BY <1>1, <1>3, <1>6, <1>7, <1>8, OneRowTables
<1>10. \A g \in HostIds : Untouched(g) BY <1>1, <1>3, <1>4, OneRowUntouched
<1> QED BY <1>1, <1>9, <1>10, IdleSteady, OneSteady

LEMMA MarkHostSteady == ASSUME SaveOK, NEW t \in HostThreads, MarkHost(t) PROVE SaveOK'
<1> DEFINE q == hostReq[t]
<1>1. HostInv' /\ q.host \in HostIds /\ clusters' = clusters /\ hostLeft' = hostLeft /\ q \in HostReqRow
  BY MarkHostInv DEF SaveOK, HostInv, HostReqs, MarkHost, HostAt, Ready
<1>2. PICK r \in {"active", "unreachable"} :
        hosts' = IF hosts[q.host] = NoHost THEN hosts ELSE [hosts EXCEPT ![q.host].status = r]
  BY DEF MarkHost
<1>3. \A g \in HostIds : hosts'[g] = hosts[g] \/ (hosts[g] # NoHost /\ hosts'[g] = [hosts[g] EXCEPT !.status = r])
  BY <1>1, <1>2 DEF SaveOK, HostInv, RowsOK
<1>4. \A g \in HostIds : Untouched(g)
  <2> SUFFICES ASSUME NEW g \in HostIds PROVE Untouched(g) OBVIOUS
  <2>1. hosts[g] \in {NoHost} \cup HostRow BY DEF SaveOK, HostInv, RowsOK
  <2>2. hosts'[g].env = hosts[g].env /\ hosts'[g].url = hosts[g].url /\ (hosts[g] # NoHost => hosts'[g] # NoHost)
    <3>1. CASE hosts'[g] = hosts[g] BY <3>1
    <3>2. CASE hosts[g] # NoHost /\ hosts'[g] = [hosts[g] EXCEPT !.status = r]
      <4>1. hosts[g] \in HostRow BY <2>1, <3>2
      <4>2. hosts'[g].env = hosts[g].env /\ hosts'[g].url = hosts[g].url /\ hosts'[g].status = r
        BY <3>2, <4>1 DEF HostRow
      <4>3. NoHost.status = "none" BY DEF NoHost
      <4> QED BY <4>2, <4>3
    <3> QED BY <1>3, <3>1, <3>2
  <2> QED BY <1>1, <2>2 DEF Untouched
<1>5. PICK n : /\ hostReq' = [hostReq EXCEPT ![t] = n] /\ n.host \in {0, q.host} /\ Steady(n, hosts', clusters')
  <2>1. CASE HostEnd(t)
    BY <2>1, IdleSteady DEF HostEnd, NoHostReq
  <2>2. CASE hostReq' = [HostGoto(t, "cstatus") EXCEPT ![t].result = "active"]
    <3> DEFINE m == [q EXCEPT !.pc = "cstatus", !.result = "active"]
    <3>1. m.pc = "cstatus" /\ m.host = q.host BY <1>1 DEF HostReqRow
    <3>2. hostReq' = [hostReq EXCEPT ![t] = m] BY <2>2 DEF HostGoto, SaveOK, HostInv, HostReqs
    <3> HIDE DEF m
    <3> QED BY <3>1, <3>2 DEF Steady
  <2> QED BY <2>1, <2>2 DEF MarkHost
<1>6. \A u \in HostThreads : hostReq'[u] = n \/ hostReq'[u] = hostReq[u]
  BY <1>5 DEF SaveOK, HostInv, HostReqs
<1>7. n.host < hostLeft.host BY <1>5, HostIdsUsed DEF SaveOK, HostTablesOK
<1>8. \A u \in HostThreads : hostReq'[u].host < hostLeft.host BY <1>6, <1>7 DEF SaveOK, HostTablesOK
<1>9. \A g \in HostIds : g >= hostLeft.host => hosts'[g] = NoHost BY <1>3 DEF SaveOK, HostTablesOK
<1>10. HostTablesOK' BY <1>1, <1>8, <1>9 DEF SaveOK, HostTablesOK
<1> QED BY <1>1, <1>4, <1>5, <1>10, OneSteady

LEMMA SaveOKStep == SaveOK /\ [HostNext]_hostVars => SaveOK'
<1> SUFFICES ASSUME SaveOK, [HostNext]_hostVars PROVE SaveOK' OBVIOUS
<1>1. CASE UNCHANGED hostVars BY <1>1 DEF hostVars, SaveOK, HostInv, HostReqs, HostTablesOK, Steady
<1>2. ASSUME NEW t \in HostThreads,
             WriteHost(t) \/ ReadCluster(t) \/ WriteCluster(t) \/ HostCrash(t)
               \/ AskCluster(t) \/ MarkCluster(t) \/ MarkHost(t)
      PROVE  SaveOK'
  <2>1. CASE HostCrash(t)
    <3>1. HostInv' BY <2>1, HostCrashInv DEF SaveOK
    <3> QED BY <2>1, <3>1, EndSteady DEF HostCrash
  <2> QED BY <1>2, <2>1, WriteHostSteady, ReadClusterSteady, WriteClusterSteady, AskClusterSteady,
             MarkClusterSteady, MarkHostSteady
<1>3. ASSUME NEW t \in HostThreads, NEW f \in HostForms,
             CreateHost(t, f) \/ \E h \in HostIds : UpdateHost(t, h, f)
      PROVE  SaveOK'
  BY <1>3, SaveSteady DEF CreateHost, UpdateHost
<1>4. ASSUME NEW t \in HostThreads, NEW h \in HostIds,
             \/ K8sNamespaces(t, h) \/ K8sImages(t, h) \/ NodeportNamespaces(t, h) \/ Nodeports(t, h)
             \/ EnvNamespaces(t, h) \/ EnvWorkloads(t, h) \/ EnvKeys(t, h)
             \/ ProbeHost(t, h) \/ HostMetrics(t, h) \/ ResourceMetrics(t, h)
      PROVE  SaveOK'
  <2>1. (\E op \in {"query", "keys", "resources"} : Query(t, h, op)) \/ Scrape(t, h)
    BY <1>4 DEF K8sNamespaces, K8sImages, NodeportNamespaces, Nodeports, EnvNamespaces, EnvWorkloads,
                EnvKeys, ProbeHost, HostMetrics, ResourceMetrics
  <2> QED BY <2>1, QuerySteady, ScrapeSteady
<1>5. ASSUME NEW f \in ClusterForms, CreateCluster(f) PROVE SaveOK' BY <1>5, CreateClusterSteady
<1>6. ASSUME NEW c \in ClusterIds, DeleteCluster(c) PROVE SaveOK' BY <1>6, DeleteClusterSteady
<1>7. ASSUME NEW h \in HostIds, DeleteHost(h) PROVE SaveOK' BY <1>7, DeleteHostSteady
<1> QED BY <1>1, <1>2, <1>3, <1>4, <1>5, <1>6, <1>7 DEF HostNext

\* Overtaking ends no request.
LEMMA OvertakenGoesOn ==
  ASSUME NEW reqs, NEW h, NEW by, NEW t \in HostThreads, reqs[t] \in HostReqRow
  PROVE  Overtaken(reqs, h, by)[t].pc = reqs[t].pc
BY DEF Overtaken, HostReqRow

\* A save that ends with a change of the clusters has written its own row.
LEMMA EndsByWriting ==
  ASSUME SaveOK, [HostNext]_hostVars, NEW t \in HostThreads, HostAt(t, "cluster"),
         hostReq'[t] = NoHostReq, clusters' # clusters
  PROVE  WriteCluster(t)
<1>1. hostReq \in [HostThreads -> HostReqRow] /\ hostReq[t] \in HostReqRow /\ hostReq[t].pc = "cluster"
        /\ hostReq'[t].pc = "idle"
  BY DEF SaveOK, HostInv, HostReqs, HostAt, NoHostReq
<1>2. ~UNCHANGED hostVars BY DEF hostVars
<1>3. \A h : hostReq' # Overtaken(hostReq, h, {}) BY <1>1, OvertakenGoesOn
<1>4. ASSUME NEW u \in HostThreads, u # t, NEW h, hostReq' = Overtaken([hostReq EXCEPT ![u] = NoHostReq], h, {u})
      PROVE  FALSE
  <2> DEFINE reqs == [hostReq EXCEPT ![u] = NoHostReq]
  <2>1. reqs[t] = hostReq[t] BY <1>1, <1>4
  <2> HIDE DEF reqs
  <2>2. Overtaken(reqs, h, {u})[t].pc = reqs[t].pc BY <1>1, <2>1, OvertakenGoesOn
  <2> QED BY <1>1, <1>4, <2>1, <2>2 DEF reqs
<1>5. ASSUME NEW u \in HostThreads, u # t, HostEnd(u) PROVE FALSE
  BY <1>1, <1>5 DEF HostEnd
<1>6. ASSUME NEW u \in HostThreads,
             WriteHost(u) \/ ReadCluster(u) \/ WriteCluster(u) \/ HostCrash(u)
               \/ AskCluster(u) \/ MarkCluster(u) \/ MarkHost(u)
      PROVE  WriteCluster(t)
  <2>1. CASE u = t BY <1>1, <1>6, <2>1 DEF WriteHost, ReadCluster, HostCrash, AskCluster, MarkCluster, MarkHost,
                                          HostAt, HostQuiet
  <2>2. CASE u # t BY <1>4, <1>5, <1>6, <2>2 DEF WriteHost, ReadCluster, WriteCluster, HostCrash, AskCluster,
                                                MarkCluster, MarkHost, HostQuiet
  <2> QED BY <2>1, <2>2
<1>7. ASSUME NEW u \in HostThreads, NEW q, Begun(u, q) PROVE FALSE BY <1>7 DEF Begun
<1>8. ASSUME NEW u \in HostThreads, NEW h \in HostIds,
             \/ K8sNamespaces(u, h) \/ K8sImages(u, h) \/ NodeportNamespaces(u, h) \/ Nodeports(u, h)
             \/ EnvNamespaces(u, h) \/ EnvWorkloads(u, h) \/ EnvKeys(u, h)
             \/ ProbeHost(u, h) \/ HostMetrics(u, h) \/ ResourceMetrics(u, h)
      PROVE  FALSE
  BY <1>7, <1>8 DEF K8sNamespaces, K8sImages, NodeportNamespaces, Nodeports, EnvNamespaces, EnvWorkloads,
                    EnvKeys, ProbeHost, HostMetrics, ResourceMetrics, Query, Scrape
<1>9. ASSUME NEW u \in HostThreads, NEW f \in HostForms, CreateHost(u, f) \/ \E h \in HostIds : UpdateHost(u, h, f)
      PROVE  FALSE
  BY <1>7, <1>9 DEF CreateHost, UpdateHost, Save
<1>10. ASSUME NEW f \in ClusterForms, CreateCluster(f) PROVE FALSE
  <2>1. CASE hostReq' = hostReq BY <1>1, <2>1
  <2> QED BY <1>3, <1>10, <2>1 DEF CreateCluster
<1>11. ASSUME NEW c \in ClusterIds, DeleteCluster(c) PROVE FALSE BY <1>3, <1>11 DEF DeleteCluster
<1>12. ASSUME NEW h \in HostIds, DeleteHost(h) PROVE FALSE BY <1>3, <1>12 DEF DeleteHost
<1> QED BY <1>2, <1>6, <1>8, <1>9, <1>10, <1>11, <1>12 DEF HostNext

\* The row that the last step of a save leaves.
LEMMA WrittenAsAsked ==
  ASSUME SaveOK, NEW t \in HostThreads, WriteCluster(t), ~hostReq[t].raced,
         Named(hostReq[t].env, hostReq[t].host) \subseteq ClusterOf(hostReq[t].host)
  PROVE  LET q == hostReq[t] IN
         /\ hosts'[q.host].env = q.env /\ hosts'[q.host].url = q.url
         /\ \E c \in ClusterIds :
              /\ clusters'[c].host = q.host /\ clusters'[c].env = hosts'[q.host].env
              /\ clusters'[c].skip = q.skip
              /\ clusters'[c].key = IF q.op = "blank" THEN clusters[c].key ELSE q.key
<1>1. PICK q : q = hostReq[t] OBVIOUS
<1>2. /\ q.pc = "cluster" /\ q.host \in HostIds /\ q.host # 0 /\ hosts' = hosts
      /\ Steady(q, hosts, clusters) /\ ~q.raced
  BY <1>1, HostIdsUsed DEF SaveOK, HostInv, HostReqs, WriteCluster, HostAt, Ready
<1>3. hosts'[q.host].env = q.env /\ hosts'[q.host].url = q.url BY <1>2 DEF Steady
<1>4. q.op = "blank" => \E d \in ClusterIds : clusters[d] # NoCluster /\ clusters[d].host = q.host /\ clusters[d].key = q.key
  BY <1>2 DEF Steady
<1> DEFINE new == [host |-> q.host, env |-> q.env, name |-> q.host, key |-> q.key, skip |-> q.skip,
                   verify |-> ~q.skip, status |-> "configured"]
<1>5. Upsert(q.host, q.env, q.host, q.key, q.skip) BY <1>1 DEF WriteCluster
<1>6. Named(q.env, q.host) \subseteq ClusterOf(q.host) BY <1>1
<1>7. \/ \E c \in ClusterOf(q.host) : clusters' = [clusters EXCEPT ![c] = [new EXCEPT !.host = clusters[c].host]]
      \/ /\ ClusterOf(q.host) = {} /\ hostLeft.cluster \in ClusterIds
         /\ clusters' = [clusters EXCEPT ![hostLeft.cluster] = new]
  BY <1>2, <1>5, <1>6 DEF Upsert
<1>8. ASSUME NEW c \in ClusterOf(q.host), clusters' = [clusters EXCEPT ![c] = [new EXCEPT !.host = clusters[c].host]]
      PROVE  /\ c \in ClusterIds /\ clusters'[c].host = q.host /\ clusters'[c].env = q.env
             /\ clusters'[c].skip = q.skip /\ clusters'[c].key = q.key /\ (q.op = "blank" => clusters[c].key = q.key)
  <2>1. c \in ClusterIds /\ clusters[c].host = q.host BY <1>8 DEF ClusterOf
  <2>2. clusters'[c] = [new EXCEPT !.host = clusters[c].host] BY <1>8, <2>1 DEF SaveOK, HostInv, RowsOK
  <2>3. q.op = "blank" => clusters[c].key = q.key
    BY <1>2, <1>4, <2>1 DEF SaveOK, HostInv, RowsOK, Linked
  <2> QED BY <2>1, <2>2, <2>3
<1>9. ASSUME ClusterOf(q.host) = {}, NEW k \in ClusterIds, clusters' = [clusters EXCEPT ![k] = new]
      PROVE  /\ clusters'[k].host = q.host /\ clusters'[k].env = q.env
             /\ clusters'[k].skip = q.skip /\ clusters'[k].key = q.key /\ q.op # "blank"
  <2>1. clusters'[k] = new BY <1>9 DEF SaveOK, HostInv, RowsOK
  <2>2. q.op # "blank" BY <1>4, <1>9 DEF ClusterOf
  <2> QED BY <2>1, <2>2
<1> HIDE DEF new
<1>10. \E c \in ClusterIds :
         /\ clusters'[c].host = q.host /\ clusters'[c].env = q.env /\ clusters'[c].skip = q.skip
         /\ clusters'[c].key = q.key /\ (q.op = "blank" => clusters[c].key = q.key)
  BY <1>7, <1>8, <1>9
<1> QED BY <1>1, <1>3, <1>10

\* A save that nobody overtook leaves host and cluster as it asked, whatever
\* other saves, queries, deletions and clusters made by name run between its steps.
THEOREM SavedAsAsked == HostSpec => SavedUnlessRaced
<1>1. SaveOK /\ [HostNext]_hostVars =>
        [\A t \in HostThreads :
           LET q == hostReq[t] IN
           (/\ HostAt(t, "cluster") /\ hostReq'[t] = NoHostReq /\ ~q.raced /\ clusters' # clusters
            /\ Named(q.env, q.host) \subseteq ClusterOf(q.host))
           => /\ hosts'[q.host].env = q.env /\ hosts'[q.host].url = q.url
              /\ \E c \in ClusterIds :
                   /\ clusters'[c].host = q.host /\ clusters'[c].env = hosts'[q.host].env
                   /\ clusters'[c].skip = q.skip
                   /\ clusters'[c].key = IF q.op = "blank" THEN clusters[c].key ELSE q.key]_hostVars
  BY EndsByWriting, WrittenAsAsked
<1> QED BY <1>1, SaveOKInit, SaveOKStep, PTL DEF HostSpec, SavedUnlessRaced

-----------------------------------------------------------------------------
(***************************************************************************)
(* MonitoringPlatforms, for any number of platforms, places and requests.  *)
(***************************************************************************)

PlatRow == [place : PlatPlaces, on : BOOLEAN, status : {"configured", "active", "unreachable"}]

\* A request that goes to a row has its id, and a probe a status to write.
PlatReqOK(q) ==
  \/ q = NoPlatReq
  \/ /\ q \in [pc : {"insert", "update", "probe", "mark", "delete", "answer"}, id : {0} \cup PlatIds,
               place : {"none"} \cup PlatPlaces, on : BOOLEAN,
               result : {"none", "active", "unreachable", "raised", "duplicate"}]
     /\ q.pc = "insert" => q.place \in PlatPlaces
     /\ q.pc # "insert" => q.id \in PlatIds
     /\ q.pc = "mark" => q.result \in {"active", "unreachable"}

PlatTable ==
  /\ platRow \in [PlatIds -> {NoPlat} \cup PlatRow]
  /\ \A i, j \in PlatIds : platRow[i].place = platRow[j].place /\ platRow[i] # NoPlat => i = j

PlatInv ==
  /\ PlatTable
  /\ DOMAIN platReq = PlatThreads /\ \A t \in PlatThreads : PlatReqOK(platReq[t])

LEMMA PlatInitInv == PlatInit => PlatInv
BY PlatAssumption DEF PlatInit, PlatInv, PlatTable, PlatRow, PlatReqOK, NoPlat

\* One request begins, moves on or ends.
LEMMA OnePlatReq ==
  ASSUME PlatInv, NEW t \in PlatThreads, NEW q, PlatReqOK(q), platReq' = [platReq EXCEPT ![t] = q]
  PROVE  DOMAIN platReq' = PlatThreads /\ \A u \in PlatThreads : PlatReqOK(platReq'[u])
BY DEF PlatInv

LEMMA EndPlatReq ==
  ASSUME PlatInv, NEW t \in PlatThreads, PlatEnd(t)
  PROVE  DOMAIN platReq' = PlatThreads /\ \A u \in PlatThreads : PlatReqOK(platReq'[u])
BY OnePlatReq DEF PlatEnd, PlatReqOK

LEMMA BeginsPlat ==
  ASSUME PlatInv, NEW t \in PlatThreads,
         \/ \E place \in PlatPlaces, on \in BOOLEAN :
              BeginCreate(t, place, on) \/ \E i \in PlatIds : BeginUpdate(t, i, place, on)
         \/ \E i \in PlatIds : BeginProbe(t, i) \/ BeginDelete(t, i)
  PROVE  PlatInv'
<1>1. PICK q : PlatBegin(t, q) /\ PlatReqOK(q)
  <2>1. ASSUME NEW place \in PlatPlaces, NEW on \in BOOLEAN, BeginCreate(t, place, on)
        PROVE  \E q : PlatBegin(t, q) /\ PlatReqOK(q)
    <3>1. PICK q : /\ q = [NoPlatReq EXCEPT !.pc = "insert", !.place = place, !.on = on]
                   /\ PlatBegin(t, q)
      BY <2>1 DEF BeginCreate
    <3>2. q = [pc |-> "insert", id |-> 0, place |-> place, on |-> on, result |-> "none"]
      BY <3>1 DEF NoPlatReq
    <3>3. PlatReqOK(q) BY <3>2 DEF PlatReqOK
    <3> QED BY <3>1, <3>3
  <2>2. ASSUME NEW place \in PlatPlaces, NEW on \in BOOLEAN, NEW i \in PlatIds, BeginUpdate(t, i, place, on)
        PROVE  \E q : PlatBegin(t, q) /\ PlatReqOK(q)
    BY <2>2 DEF BeginUpdate, PlatReqOK
  <2>3. ASSUME NEW i \in PlatIds, BeginProbe(t, i) PROVE \E q : PlatBegin(t, q) /\ PlatReqOK(q)
    <3>1. platRow[i].place \in {"none"} \cup PlatPlaces BY DEF PlatInv, PlatTable, PlatRow, NoPlat
    <3>2. PICK q : /\ q = [NoPlatReq EXCEPT !.pc = "probe", !.id = i, !.place = platRow[i].place]
                   /\ PlatBegin(t, q)
      BY <2>3 DEF BeginProbe
    <3>3. q = [pc |-> "probe", id |-> i, place |-> platRow[i].place, on |-> FALSE, result |-> "none"]
      BY <3>2 DEF NoPlatReq
    <3>4. PlatReqOK(q) BY <3>1, <3>3 DEF PlatReqOK
    <3> QED BY <3>2, <3>4
  <2>4. ASSUME NEW i \in PlatIds, BeginDelete(t, i) PROVE \E q : PlatBegin(t, q) /\ PlatReqOK(q)
    <3>1. PICK q : q = [NoPlatReq EXCEPT !.pc = "delete", !.id = i] /\ PlatBegin(t, q)
      BY <2>4 DEF BeginDelete
    <3>2. q = [pc |-> "delete", id |-> i, place |-> "none", on |-> FALSE, result |-> "none"]
      BY <3>1 DEF NoPlatReq
    <3>3. PlatReqOK(q) BY <3>2 DEF PlatReqOK
    <3> QED BY <3>1, <3>3
  <2> QED BY <2>1, <2>2, <2>3, <2>4
<1>2. platReq' = [platReq EXCEPT ![t] = q] /\ platRow' = platRow BY <1>1 DEF PlatBegin
<1> QED BY <1>1, <1>2, OnePlatReq DEF PlatInv, PlatTable

\* An insertion looks for its address in every row; nothing else gives a row one.
LEMMA WritesPlat ==
  ASSUME PlatInv, NEW t \in PlatThreads, CreatePlatform(t) \/ MarkPlatform(t) \/ DeletePlatform(t)
  PROVE  PlatTable'
<1> DEFINE q == platReq[t]
<1>1. PlatReqOK(q) /\ platRow \in [PlatIds -> {NoPlat} \cup PlatRow] BY DEF PlatInv, PlatTable
<1>2. CASE CreatePlatform(t)
  <2> DEFINE row == [place |-> q.place, on |-> q.on, status |-> "configured"]
  <2>1. row \in PlatRow BY <1>1, <1>2 DEF CreatePlatform, PlatAt, PlatReqOK, PlatRow, NoPlatReq
  <2>2. \/ platRow' = platRow
        \/ /\ platRow' = [platRow EXCEPT ![platLeft.id] = row] /\ platLeft.id \in PlatIds
           /\ \A j \in PlatIds : platRow[j].place # q.place
    BY <1>2, PlatAssumption DEF CreatePlatform, PlaceFree
  <2>3. row.place = q.place OBVIOUS
  <2> HIDE DEF row
  <2> QED BY <1>1, <2>1, <2>2, <2>3 DEF PlatInv, PlatTable
<1>3. CASE MarkPlatform(t)
  <2>1. q.id \in PlatIds /\ q.result \in {"active", "unreachable"}
    BY <1>1, <1>3 DEF MarkPlatform, PlatAt, PlatReqOK, NoPlatReq
  <2> DEFINE row == [platRow[q.id] EXCEPT !.status = q.result]
  <2>2. platRow[q.id] # NoPlat => row \in PlatRow /\ row.place = platRow[q.id].place
    BY <1>1, <2>1 DEF PlatRow
  <2>3. \/ platRow' = platRow
        \/ platRow[q.id] # NoPlat /\ platRow' = [platRow EXCEPT ![q.id] = row]
    BY <1>1, <1>3 DEF MarkPlatform
  <2> HIDE DEF row
  <2>4. CASE platRow[q.id] # NoPlat /\ platRow' = [platRow EXCEPT ![q.id] = row]
    <3>1. platRow' \in [PlatIds -> {NoPlat} \cup PlatRow] BY <1>1, <2>2, <2>4
    <3>2. \A i \in PlatIds : /\ platRow'[i].place = platRow[i].place
                             /\ platRow'[i] # NoPlat => platRow[i] # NoPlat
      BY <1>1, <2>2, <2>4
    <3> QED BY <3>1, <3>2 DEF PlatInv, PlatTable
  <2> QED BY <2>3, <2>4 DEF PlatInv, PlatTable
<1>4. CASE DeletePlatform(t)
  <2>1. q.id \in PlatIds BY <1>1, <1>4 DEF DeletePlatform, PlatAt, PlatReqOK, NoPlatReq
  <2>2. platRow' = [platRow EXCEPT ![q.id] = NoPlat] BY <1>4 DEF DeletePlatform
  <2>3. \A i \in PlatIds : platRow[i] # NoPlat => platRow[i].place # NoPlat.place
    BY <1>1, PlatAssumption DEF PlatRow, NoPlat
  <2> QED BY <1>1, <2>1, <2>2, <2>3 DEF PlatInv, PlatTable
<1> QED BY <1>2, <1>3, <1>4

LEMMA MovesPlat ==
  ASSUME PlatInv, NEW t \in PlatThreads, UpdatePlatform(t) \/ AskPlatform(t)
  PROVE  PlatInv'
<1> DEFINE q == platReq[t]
<1>1. /\ q \in [pc : {"insert", "update", "probe", "mark", "delete", "answer"}, id : {0} \cup PlatIds,
                place : {"none"} \cup PlatPlaces, on : BOOLEAN,
                result : {"none", "active", "unreachable", "raised", "duplicate"}]
      /\ q.pc # "insert" /\ q.id \in PlatIds
  BY DEF PlatInv, PlatReqOK, UpdatePlatform, AskPlatform, PlatAt, NoPlatReq
<1>2. PICK pc, result :
        /\ platReq' = [platReq EXCEPT ![t] = [q EXCEPT !.pc = pc, !.result = result]]
        /\ \/ pc = "answer" /\ result \in {"raised", "duplicate"}
           \/ pc = "mark" /\ result \in {"active", "unreachable"}
  <2>1. CASE UpdatePlatform(t)
    <3>1. PICK r \in {"raised", "duplicate"} :
            platReq' = [platReq EXCEPT ![t].pc = "answer", ![t].result = r]
      BY <2>1 DEF UpdatePlatform
    <3>2. platReq' = [platReq EXCEPT ![t] = [q EXCEPT !.pc = "answer", !.result = r]]
      BY <3>1 DEF PlatInv
    <3> QED BY <3>2
  <2>2. CASE AskPlatform(t)
    <3>1. PICK r \in {"active", "unreachable"} :
            platReq' = [platReq EXCEPT ![t].pc = "mark", ![t].result = r]
      BY <2>2 DEF AskPlatform
    <3>2. platReq' = [platReq EXCEPT ![t] = [q EXCEPT !.pc = "mark", !.result = r]]
      BY <3>1 DEF PlatInv
    <3> QED BY <3>2
  <2> QED BY <2>1, <2>2
<1> DEFINE r == [q EXCEPT !.pc = pc, !.result = result]
<1>3. /\ r.pc = pc /\ r.id = q.id /\ r.result = result
      /\ r \in [pc : {"insert", "update", "probe", "mark", "delete", "answer"}, id : {0} \cup PlatIds,
                place : {"none"} \cup PlatPlaces, on : BOOLEAN,
                result : {"none", "active", "unreachable", "raised", "duplicate"}]
  BY <1>1, <1>2
<1> HIDE DEF r
<1>4. PlatReqOK(r) BY <1>1, <1>2, <1>3 DEF PlatReqOK
<1>5. platReq' = [platReq EXCEPT ![t] = r] /\ platRow' = platRow
  BY <1>2 DEF r, UpdatePlatform, AskPlatform
<1> QED BY <1>4, <1>5, OnePlatReq DEF PlatInv, PlatTable

LEMMA PlatStepInv == PlatInv /\ [PlatNext]_platVars => PlatInv'
<1> SUFFICES ASSUME PlatInv, [PlatNext]_platVars PROVE PlatInv' OBVIOUS
<1>1. CASE UNCHANGED platVars BY <1>1 DEF platVars, PlatInv, PlatTable
<1>2. ASSUME NEW t \in PlatThreads, CreatePlatform(t) \/ MarkPlatform(t) \/ DeletePlatform(t) PROVE PlatInv'
  BY <1>2, WritesPlat, EndPlatReq DEF PlatInv, CreatePlatform, MarkPlatform, DeletePlatform
<1>3. ASSUME NEW t \in PlatThreads, Answer(t) \/ PlatCrash(t) PROVE PlatInv'
  BY <1>3, EndPlatReq DEF PlatInv, PlatTable, Answer, PlatCrash
<1> QED BY <1>1, <1>2, <1>3, BeginsPlat, MovesPlat DEF PlatNext

LEMMA PlatTyped == PlatInv => PlatTypeOK
BY DEF PlatInv, PlatTable, PlatRow, PlatReqOK, PlatTypeOK

\* Every variable keeps its type, and no two platforms have one type and address.
THEOREM PlatTypes == PlatSpec => []PlatTypeOK
BY PlatTyped, PlatInitInv, PlatStepInv, PTL DEF PlatSpec
=============================================================================
