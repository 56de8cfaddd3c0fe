-------------------------- MODULE AccountPlatformProofs --------------------------
(***************************************************************************)
(* What the proofs about the database-account modules share: the types of  *)
(* the platform tables and of the server, and who can change an account,   *)
(* for any number of accounts, external changes and late statements.       *)
(***************************************************************************)
EXTENDS AccountPlatform, TLAPS

-----------------------------------------------------------------------------
(* The remote server.                                                      *)

\* A statement the server accepts leaves a well-formed row.
LEMMA ResultType ==
    ASSUME NEW row \in ServerRow, NEW s,
           s.verb \in {"create", "drop", "disable", "expire", "grant", "revoke"},
           s.privs \in SUBSET Priv,
           s.verb = "create" => row.inc < MaxInc
    PROVE  Result(row, s) \in ServerRow
<1> USE PlatformAssumption DEF ServerRow
<1>1. row.inc + 1 \in 0..MaxInc \/ s.verb # "create"
    OBVIOUS
<1>2. CASE s.verb = "create"   BY <1>1, <1>2 DEF Result
<1>3. CASE s.verb = "drop"     BY <1>3 DEF Result
<1>4. CASE s.verb = "disable"  BY <1>4 DEF Result
<1>5. CASE s.verb = "expire"   BY <1>5 DEF Result
<1>6. CASE s.verb = "grant"    BY <1>6 DEF Result
<1>7. CASE s.verb = "revoke"   BY <1>7 DEF Result
<1> QED BY <1>2, <1>3, <1>4, <1>5, <1>6, <1>7

StatementType == [verb: {"create", "drop", "disable", "expire", "grant", "revoke"},
                  acct: Account, privs: SUBSET Priv]

\* Applying an accepted statement keeps the type of the server.
LEMMA ApplyType ==
    ASSUME server \in [Account -> ServerRow], NEW s \in StatementType, Accepts(s), Apply(s)
    PROVE  server' \in [Account -> ServerRow]
<1>1. Result(server[s.acct], s) \in ServerRow
    BY ResultType DEF Accepts, StatementType
<1> QED BY <1>1 DEF Apply, StatementType

\* Every step outside the backend keeps the types of the platform.
LEMMA OutsideType ==
    ASSUME PlatformTypeOK, Outside
    PROVE  PlatformTypeOK'
<1> USE DEF PlatformTypeOK
<1>1. ASSUME NEW s \in late, Land(s) PROVE PlatformTypeOK'
    <2>1. s \in StatementType BY DEF StatementType
    <2>2. server' \in [Account -> ServerRow]
        <3>1. CASE Accepts(s) /\ Apply(s) BY <3>1, <2>1, ApplyType
        <3>2. CASE UNCHANGED server BY <3>2
        <3> QED BY <1>1, <3>1, <3>2 DEF Land
    <2>3. touched' \in SUBSET Account
        BY <1>1, <2>1 DEF Land, Touch, StatementType
    <2> QED BY <1>1, <2>2, <2>3 DEF Land
<1>2. ASSUME NEW a \in Account, Settle(a) PROVE PlatformTypeOK'
    <2>1. server' \in [Account -> ServerRow] BY <1>2 DEF Settle, ServerRow
    <2> QED BY <1>2, <2>1 DEF Settle
<1>3. ASSUME NEW a \in Account, Dba(a) PROVE PlatformTypeOK'
    <2>1. server' \in [Account -> ServerRow]
        <3>1. ASSUME server' = [server EXCEPT ![a] = Result(@, Statement("drop", a, {}))]
              PROVE  server' \in [Account -> ServerRow]
            <4>1. Result(server[a], Statement("drop", a, {})) \in ServerRow
                BY ResultType DEF Statement
            <4> QED BY <3>1, <4>1
        <3>2. ASSUME server[a].inc < MaxInc, NEW g \in SUBSET Priv,
                     server' = [server EXCEPT ![a] = [server[a] EXCEPT
                         !.live = TRUE, !.inc = server[a].inc + 1, !.grants = g]]
              PROVE  server' \in [Account -> ServerRow]
            <4>1. server[a].inc + 1 \in 0..MaxInc
                BY <3>2, PlatformAssumption DEF ServerRow
            <4>2. server[a] \in ServerRow
                OBVIOUS
            <4>3. [server[a] EXCEPT !.live = TRUE, !.inc = server[a].inc + 1, !.grants = g]
                     \in ServerRow
                <5> HIDE DEF PlatformTypeOK
                <5> QED BY <3>2, <4>1, <4>2 DEF ServerRow
            <4> QED BY <3>2, <4>3
        <3>3. ASSUME NEW g \in SUBSET Priv, server' = [server EXCEPT ![a].grants = g]
              PROVE  server' \in [Account -> ServerRow]
            BY <3>3 DEF ServerRow
        <3>4. ASSUME server' = [server EXCEPT ![a].lock = "open"]
              PROVE  server' \in [Account -> ServerRow]
            BY <3>4 DEF ServerRow
        <3> HIDE DEF PlatformTypeOK
        <3>5. PICK g \in SUBSET Priv :
                 \/ server' = [server EXCEPT ![a] = Result(@, Statement("drop", a, {}))]
                 \/ /\ server[a].inc < MaxInc
                    /\ server' = [server EXCEPT ![a] = [server[a] EXCEPT
                           !.live = TRUE, !.inc = server[a].inc + 1, !.grants = g]]
                 \/ server' = [server EXCEPT ![a].grants = g]
                 \/ server' = [server EXCEPT ![a].lock = "open"]
            BY <1>3 DEF Dba
        <3> QED BY <3>1, <3>2, <3>3, <3>4, <3>5
    <2>2. dba' \in 0..MaxDba
        <3>1. dba < MaxDba /\ dba' = dba + 1 BY <1>3 DEF Dba
        <3> QED BY <3>1, PlatformAssumption
    <2>3. touched' \in SUBSET Account BY <1>3 DEF Dba, Touch
    <2> QED BY <1>3, <2>1, <2>2, <2>3 DEF Dba
<1> QED BY <1>1, <1>2, <1>3 DEF Outside

-----------------------------------------------------------------------------
(* Types.                                                                  *)

\* A statement of the backend, seen to succeed or not, keeps the remote types.
LEMMA StatementTypes ==
    ASSUME PlatformTypeOK, NEW s \in StatementType, Executes(s) \/ Fails(s)
    PROVE  server' \in [Account -> ServerRow] /\ late' \in SUBSET StatementType
<1> USE DEF PlatformTypeOK
<1>1. CASE Accepts(s) /\ Apply(s) /\ UNCHANGED late
    <2>1. server' \in [Account -> ServerRow] BY <1>1, ApplyType
    <2> QED BY <1>1, <2>1 DEF StatementType
<1>2. CASE UNCHANGED server /\ late' \in {late, late \cup {s}}
    BY <1>2 DEF StatementType
<1> QED BY <1>1, <1>2 DEF Executes, Fails

\* Taking a lock and dropping all of a thread keep the types of the lock.
LEMMA LockTypes ==
    ASSUME PlatformTypeOK, NEW p \in Thread,
           (\E a \in Account : TakeLock(p, a)) \/ DropLocks(p)
    PROVE  advisory' \in [Account -> Thread \cup {NoOne}] /\ touched' \in SUBSET Account
<1>1. ASSUME NEW a \in Account, TakeLock(p, a)
      PROVE  advisory' \in [Account -> Thread \cup {NoOne}] /\ touched' \in SUBSET Account
    BY <1>1 DEF TakeLock, PlatformTypeOK
<1>2. ASSUME DropLocks(p)
      PROVE  advisory' \in [Account -> Thread \cup {NoOne}] /\ touched' \in SUBSET Account
    BY <1>2 DEF DropLocks, PlatformTypeOK
<1> QED BY <1>1, <1>2

\* The tables and the server start well-formed.
LEMMA PlatformInitTypes == PlatformInit => PlatformTypeOK
<1> SUFFICES ASSUME PlatformInit PROVE PlatformTypeOK
    OBVIOUS
<1>0. AnyAccount \in Account BY PlatformAssumption DEF AnyAccount
<1> USE PlatformAssumption
<1>1. server \in [Account -> ServerRow]
    <2>1. 0 \in 0..MaxInc /\ 1 \in 0..MaxInc
        OBVIOUS
    <2>2. ASSUME NEW l \in BOOLEAN, NEW g \in SUBSET Priv
          PROVE  FirstRow(l, g) \in ServerRow
        <3>1. CASE l BY <3>1, <2>1 DEF ServerRow, FirstRow
        <3>2. CASE ~l BY <3>2, <2>1 DEF ServerRow, FirstRow
        <3> QED BY <3>1, <3>2
    <2>3. FirstRows \subseteq ServerRow
        BY <2>2 DEF FirstRows
    <2> QED BY <2>3 DEF PlatformInit
<1>2. record \in [Account -> RecordRow]
    BY DEF PlatformInit, RecordRow, RecordStatus, NoRecord
<1>3. actionOps \in [ActionOp -> ActionRow]
    BY <1>0 DEF PlatformInit, ActionRow, NoAction, IdentityRow, NoIdentity
<1>4. permOps \in [PermOp -> PermRow]
    BY <1>0 DEF PlatformInit, PermRow, NoPerm
<1>5. /\ late = {} /\ dba = 0 /\ touched = {}
      /\ advisory \in [Account -> Thread \cup {NoOne}]
    BY DEF PlatformInit
<1> QED BY <1>1, <1>2, <1>3, <1>4, <1>5 DEF PlatformTypeOK

-----------------------------------------------------------------------------
(* Who changes an account.                                                 *)

\* A statement changes its own account and nothing else on the server.
LEMMA StatementLocal ==
    ASSUME PlatformTypeOK, NEW s \in StatementType, Executes(s) \/ Fails(s),
           NEW a \in Account, a # s.acct
    PROVE  server'[a] = server[a]
BY DEF Executes, Fails, Apply, PlatformTypeOK, StatementType

\* Outside the backend an account changes only when nobody holds its lock, or with
\* a note of it; a disabling that takes effect changes nothing but the lock state.
LEMMA OutsideNoted ==
    ASSUME PlatformTypeOK, Outside, NEW a \in Account, advisory[a] # NoOne
    PROVE  /\ touched \subseteq touched'
           /\ \/ a \in touched'
              \/ /\ server'[a].live = server[a].live /\ server'[a].inc = server[a].inc
                 /\ server'[a].mark = server[a].mark /\ server'[a].grants = server[a].grants
                 /\ server[a].lock \in {"open", "locked"} => server'[a].lock = server[a].lock
<1> DEFINE Goal == /\ touched \subseteq touched'
                   /\ \/ a \in touched'
                      \/ /\ server'[a].live = server[a].live /\ server'[a].inc = server[a].inc
                         /\ server'[a].mark = server[a].mark /\ server'[a].grants = server[a].grants
                         /\ server[a].lock \in {"open", "locked"} => server'[a].lock = server[a].lock
<1>1. ASSUME NEW b \in Account, Touch(b), \A c \in Account \ {b} : server'[c] = server[c]
      PROVE  Goal
    <2>1. touched' = IF advisory[b] = NoOne THEN touched ELSE touched \cup {b}
        BY <1>1 DEF Touch
    <2>2. CASE a = b BY <2>1, <2>2
    <2>3. CASE a # b BY <1>1, <2>1, <2>3
    <2> QED BY <2>2, <2>3
<1>2. ASSUME NEW s \in late, Land(s) PROVE Goal
    <2>1. s.acct \in Account BY DEF PlatformTypeOK
    <2>2. Touch(s.acct) BY <1>2 DEF Land
    <2>3. \A c \in Account \ {s.acct} : server'[c] = server[c]
        BY <1>2, <2>1 DEF Land, Apply, PlatformTypeOK
    <2> QED BY <1>1, <2>1, <2>2, <2>3
<1>3. ASSUME NEW b \in Account, Dba(b) PROVE Goal
    <2>1. Touch(b) BY <1>3 DEF Dba
    <2>2. \A c \in Account \ {b} : server'[c] = server[c]
        BY <1>3 DEF Dba, PlatformTypeOK
    <2> QED BY <1>1, <2>1, <2>2
<1>4. ASSUME NEW b \in Account, Settle(b) PROVE Goal
    BY <1>4 DEF Settle, ServerRow, PlatformTypeOK
<1> QED BY <1>2, <1>3, <1>4 DEF Outside

\* Where the account of a held lock changes it is noted.
Noted == /\ touched \subseteq touched' /\ touched' \in SUBSET Account
         /\ \A a \in Account : server'[a] = server[a] \/ advisory[a] = NoOne \/ a \in touched'

\* A handler that takes no lock is noted wherever it meets one.
LEMMA LocklessNoted ==
    ASSUME PlatformTypeOK, NEW s \in StatementType, Executes(s) \/ Fails(s), Lockless(s.acct)
    PROVE  Noted
<1>1. touched \in SUBSET Account /\ s.acct \in Account BY DEF PlatformTypeOK, StatementType
<1>2. CASE server' = server BY <1>1, <1>2 DEF Lockless, Noted
<1>3. CASE server' # server
    <2>1. touched' = IF advisory[s.acct] = NoOne THEN touched ELSE touched \cup {s.acct}
        BY <1>3 DEF Lockless, Touch
    <2>2. \A a \in Account \ {s.acct} : server'[a] = server[a] BY StatementLocal
    <2> QED BY <1>1, <2>1, <2>2 DEF Noted
<1> QED BY <1>2, <1>3

\* So is a step that leaves the server alone.
LEMMA IdleNoted ==
    ASSUME PlatformTypeOK, server' = server, touched' = touched
    PROVE  Noted
BY DEF Noted, PlatformTypeOK

\* What threads that take locks rely on while others move: their locks stay with
\* them, and the account of such a lock stays as it is or is noted.
Spares(T) ==
    /\ \A a \in Account, p \in T : advisory'[a] = p <=> advisory[a] = p
    /\ \A a \in Account : advisory[a] \in T =>
          /\ a \in touched => a \in touched'
          /\ \/ a \in touched'
             \/ /\ server'[a].live = server[a].live /\ server'[a].inc = server[a].inc
                /\ server'[a].mark = server[a].mark /\ server'[a].grants = server[a].grants
                /\ server[a].lock \in {"open", "locked"} => server'[a].lock = server[a].lock

LEMMA OutsideSpares ==
    ASSUME PlatformTypeOK, Outside, NEW T \in SUBSET Thread
    PROVE  Spares(T)
<1>1. advisory' = advisory BY DEF Outside, Land, Settle, Dba
<1>2. ASSUME NEW a \in Account, advisory[a] \in T
      PROVE  /\ touched \subseteq touched'
             /\ \/ a \in touched'
                \/ /\ server'[a].live = server[a].live /\ server'[a].inc = server[a].inc
                   /\ server'[a].mark = server[a].mark /\ server'[a].grants = server[a].grants
                   /\ server[a].lock \in {"open", "locked"} => server'[a].lock = server[a].lock
    <2>1. advisory[a] # NoOne BY <1>2, PlatformAssumption
    <2> QED BY <2>1, OutsideNoted
<1> QED BY <1>1, <1>2 DEF Spares

LEMMA NotedSpares ==
    ASSUME PlatformTypeOK, Noted, advisory' = advisory, NEW T \in SUBSET Thread
    PROVE  Spares(T)
BY PlatformAssumption DEF Spares, Noted

\* Taking a free lock, and dropping one's own, spares the locks of the others.
LEMMA LockSpares ==
    ASSUME PlatformTypeOK, NEW p \in Thread, NEW T \in SUBSET (Thread \ {p}), server' = server,
           (\E a \in Account : TakeLock(p, a)) \/ DropLocks(p)
    PROVE  Spares(T)
BY PlatformAssumption DEF Spares, TakeLock, DropLocks, PlatformTypeOK

-----------------------------------------------------------------------------
(* The marker.                                                             *)

\* The platform made the account, or there is none.
Own(a) == server[a].mark \/ ~server[a].live

\* No statement of the backend makes an account without the marker or takes it off.
LEMMA ResultOwn ==
    ASSUME NEW row \in ServerRow, row.mark \/ ~row.live, NEW s,
           s.verb \in {"create", "drop", "disable", "expire", "grant", "revoke"}
    PROVE  Result(row, s).mark \/ ~Result(row, s).live
<1>1. CASE s.verb = "create"
    <2>1. Result(row, s).mark = TRUE BY <1>1 DEF Result
    <2> QED BY <2>1, Zenon
<1>2. CASE s.verb = "drop"
    <2>1. Result(row, s).live = FALSE BY <1>2 DEF Result, ServerRow
    <2> QED BY <2>1, Zenon
<1>3. CASE s.verb \in {"disable", "expire", "grant", "revoke"}
    <2>1. Result(row, s).mark = row.mark /\ Result(row, s).live = row.live BY <1>3 DEF Result, ServerRow
    <2> QED BY <2>1, Zenon
<1> QED BY <1>1, <1>2, <1>3

LEMMA StatementOwn ==
    ASSUME PlatformTypeOK, NEW s \in StatementType, Executes(s) \/ Fails(s), NEW a \in Account, Own(a)
    PROVE  Own(a)'
<1>1. CASE server' = server BY <1>1 DEF Own
<1>2. CASE a # s.acct
    <2>1. server'[a] = server[a] BY <1>2, StatementLocal
    <2> QED BY <2>1 DEF Own
<1>3. CASE a = s.acct /\ Apply(s)
    <2>1. server[a] \in ServerRow /\ server'[a] = Result(server[a], s)
        BY <1>3 DEF Apply, PlatformTypeOK
    <2>2. Result(server[a], s).mark \/ ~Result(server[a], s).live
        BY <2>1, ResultOwn DEF Own, StatementType
    <2> QED BY <2>1, <2>2 DEF Own
<1> QED BY <1>1, <1>2, <1>3 DEF Executes, Fails

-----------------------------------------------------------------------------
(* Lock states on MySQL.                                                   *)

\* On MySQL a disabling is there at once.
Settled == \A a \in Account : server[a].lock \in {"open", "locked"}

LEMMA ResultSettled ==
    ASSUME Kind = "mysql", NEW row \in ServerRow, row.lock \in {"open", "locked"}, NEW s,
           s.verb \in {"create", "drop", "disable", "expire", "grant", "revoke"}
    PROVE  Result(row, s).lock \in {"open", "locked"}
<1>1. CASE s.verb = "create" BY <1>1 DEF Result
<1>2. CASE s.verb = "drop" BY <1>2 DEF Result, ServerRow
<1>3. CASE s.verb = "disable" BY <1>3 DEF Result, ServerRow
<1>4. CASE s.verb = "expire" BY <1>4 DEF Result, ServerRow
<1>5. CASE s.verb = "grant" BY <1>5 DEF Result, ServerRow
<1>6. CASE s.verb = "revoke" BY <1>6 DEF Result, ServerRow
<1> QED BY <1>1, <1>2, <1>3, <1>4, <1>5, <1>6

LEMMA ApplySettled ==
    ASSUME Kind = "mysql", PlatformTypeOK, Settled, NEW s \in StatementType, Apply(s)
    PROVE  Settled'
<1>1. Result(server[s.acct], s).lock \in {"open", "locked"}
    BY ResultSettled DEF Settled, PlatformTypeOK, StatementType
<1> QED BY <1>1 DEF Apply, Settled, PlatformTypeOK, StatementType

\* No statement of the backend leaves one settling.
LEMMA StatementSettled ==
    ASSUME Kind = "mysql", PlatformTypeOK, Settled, NEW s \in StatementType, Executes(s) \/ Fails(s)
    PROVE  Settled'
<1>1. CASE server' = server BY <1>1 DEF Settled
<1>2. CASE Apply(s) BY <1>2, ApplySettled
<1> QED BY <1>1, <1>2 DEF Executes, Fails

\* Outside the backend an account keeps its lock state too, or with a note of it.
LEMMA OutsideSettled ==
    ASSUME Kind = "mysql", PlatformTypeOK, Settled, Outside
    PROVE  /\ Settled'
           /\ \A a \in Account : advisory[a] # NoOne =>
                  touched \subseteq touched' /\ (a \in touched' \/ server'[a] = server[a])
<1>1. ASSUME NEW b \in Account, Touch(b), \A c \in Account \ {b} : server'[c] = server[c]
      PROVE  \A a \in Account : advisory[a] # NoOne =>
                  touched \subseteq touched' /\ (a \in touched' \/ server'[a] = server[a])
    BY <1>1 DEF Touch
<1>2. CASE \E s \in late : Land(s)
    <2>1. PICK s \in late : Land(s) BY <1>2
    <2>2. s \in StatementType /\ s.acct \in Account BY DEF PlatformTypeOK, StatementType
    <2>3. \A c \in Account \ {s.acct} : server'[c] = server[c]
        BY <2>1, <2>2 DEF Land, Apply, PlatformTypeOK
    <2>4. Touch(s.acct) BY <2>1 DEF Land
    <2>5. Settled'
        <3>1. CASE Apply(s) BY <2>2, <3>1, ApplySettled
        <3>2. CASE server' = server BY <3>2 DEF Settled
        <3> QED BY <2>1, <3>1, <3>2 DEF Land
    <2> QED BY <1>1, <2>2, <2>3, <2>4, <2>5
<1>3. ASSUME NEW b \in Account, Dba(b)
      PROVE  /\ Settled'
             /\ \A a \in Account : advisory[a] # NoOne =>
                    touched \subseteq touched' /\ (a \in touched' \/ server'[a] = server[a])
    <2>1. Touch(b) BY <1>3 DEF Dba
    <2>2. \A c \in Account \ {b} : server'[c] = server[c]
        BY <1>3 DEF Dba, PlatformTypeOK
    <2>3. server'[b].lock \in {"open", "locked"}
        <3>1. server[b] \in ServerRow /\ server[b].lock \in {"open", "locked"} BY DEF PlatformTypeOK, Settled
        <3>2. Statement("drop", b, {}).verb = "drop" BY DEF Statement
        <3>3. CASE server' = [server EXCEPT ![b] = Result(@, Statement("drop", b, {}))]
            BY <3>1, <3>2, <3>3, ResultSettled DEF PlatformTypeOK
        <3>4. CASE \E g \in SUBSET Priv :
                       server' = [server EXCEPT ![b] = [server[b] EXCEPT
                                     !.live = TRUE, !.inc = server[b].inc + 1, !.grants = g]]
            BY <3>1, <3>4 DEF PlatformTypeOK, ServerRow
        <3>5. CASE \E g \in SUBSET Priv : server' = [server EXCEPT ![b].grants = g]
            BY <3>1, <3>5 DEF PlatformTypeOK, ServerRow
        <3>6. CASE server' = [server EXCEPT ![b].lock = "open"]
            BY <3>1, <3>6 DEF PlatformTypeOK, ServerRow
        <3> QED BY <1>3, <3>3, <3>4, <3>5, <3>6 DEF Dba
    <2>4. Settled' BY <2>2, <2>3 DEF Settled
    <2> QED BY <1>1, <2>1, <2>2, <2>4
<1>4. ASSUME NEW b \in Account, Settle(b) PROVE FALSE
    BY <1>4 DEF Settle, Settled
<1> QED BY <1>2, <1>3, <1>4 DEF Outside
==============================================================================
