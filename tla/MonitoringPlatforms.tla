------------------------- MODULE MonitoringPlatforms -------------------------
(***************************************************************************)
(* The monitoring platforms of main.py: a table of addresses with a unique *)
(* key, edited by administrators and probed by them. An edit is refused,   *)
(* or raises NameError between its UPDATE and its COMMIT: the connection   *)
(* is closed and the UPDATE rolled back with it. A probe reads the row,    *)
(* asks the address and writes the result by id.                           *)
(***************************************************************************)
EXTENDS Integers, FiniteSetsExt

CONSTANTS PlatThreads,    \* handlers at work
          PlatIds,        \* the ids the table hands out, 1..n
          PlatPlaces,     \* pairs of a type and an address
          PlatRequests    \* bound: requests that begin

ASSUME PlatAssumption == 0 \notin PlatIds /\ "none" \notin PlatPlaces

VARIABLES platRow,    \* monitoring_platforms
          platReq,    \* the request each thread serves
          platLeft    \* requests left; the next id

platVars == <<platRow, platReq, platLeft>>

NoPlat == [place |-> "none", on |-> FALSE, status |-> "none"]
NoPlatReq == [pc |-> "idle", id |-> 0, place |-> "none", on |-> FALSE, result |-> "none"]

\* The type invariant, with uk_monitoring_platforms_type_url.
PlatTypeOK ==
  /\ platRow \in [PlatIds -> {NoPlat} \cup [place : PlatPlaces, on : BOOLEAN,
                                            status : {"configured", "active", "unreachable"}]]
  /\ \A i, j \in PlatIds : platRow[i].place = platRow[j].place /\ platRow[i] /= NoPlat => i = j
  /\ \A t \in PlatThreads : platReq[t] = NoPlatReq \/
       platReq[t].pc \in {"insert", "update", "probe", "mark", "delete", "answer"}

PlatInit ==
  /\ \E p \in PlatPlaces, on \in BOOLEAN :
       platRow = [i \in PlatIds |-> IF i = 1 THEN [place |-> p, on |-> on, status |-> "configured"] ELSE NoPlat]
  /\ platReq = [t \in PlatThreads |-> NoPlatReq]
  /\ platLeft = [requests |-> PlatRequests, id |-> 2]

-----------------------------------------------------------------------------
(* The handlers.                                                           *)

PlatAt(t, pc) == platReq[t].pc = pc
PlatEnd(t) == platReq' = [platReq EXCEPT ![t] = NoPlatReq]
PlaceFree(place, i) == \A j \in PlatIds \ {i} : platRow[j].place /= place

PlatBegin(t, q) ==
  /\ platReq[t] = NoPlatReq /\ platLeft.requests > 0
  /\ platLeft' = [platLeft EXCEPT !.requests = @ - 1]
  /\ platReq' = [platReq EXCEPT ![t] = q]
  /\ UNCHANGED platRow

BeginCreate(t, place, on) ==
  PlatBegin(t, [NoPlatReq EXCEPT !.pc = "insert", !.place = place, !.on = on])
\* get_monitoring_platform: the row is there.
BeginUpdate(t, i, place, on) ==
  platRow[i] /= NoPlat /\ PlatBegin(t, [pc |-> "update", id |-> i, place |-> place, on |-> on, result |-> "none"])
BeginProbe(t, i) ==
  platRow[i] /= NoPlat
  /\ PlatBegin(t, [NoPlatReq EXCEPT !.pc = "probe", !.id = i, !.place = platRow[i].place])
BeginDelete(t, i) == PlatBegin(t, [NoPlatReq EXCEPT !.pc = "delete", !.id = i])

CreatePlatform(t) ==
  LET q == platReq[t] IN
  /\ PlatAt(t, "insert") /\ platLeft.id \in PlatIds
  /\ IF PlaceFree(q.place, 0)
     THEN /\ platRow' = [platRow EXCEPT ![platLeft.id] = [place |-> q.place, on |-> q.on, status |-> "configured"]]
          /\ platLeft' = [platLeft EXCEPT !.id = @ + 1]
     ELSE UNCHANGED <<platRow, platLeft>>
  /\ PlatEnd(t)

\* IntegrityError and NameError end alike: the transaction is rolled back.
UpdatePlatform(t) ==
  LET q == platReq[t] IN
  /\ PlatAt(t, "update")
  /\ platReq' = [platReq EXCEPT ![t].pc = "answer",
                  ![t].result = IF PlaceFree(q.place, q.id) \/ platRow[q.id] = NoPlat THEN "raised" ELSE "duplicate"]
  /\ UNCHANGED <<platRow, platLeft>>
Answer(t) == PlatAt(t, "answer") /\ PlatEnd(t) /\ UNCHANGED <<platRow, platLeft>>

AskPlatform(t) ==
  /\ PlatAt(t, "probe")
  /\ \E r \in {"active", "unreachable"} :
       platReq' = [platReq EXCEPT ![t].pc = "mark", ![t].result = r]
  /\ UNCHANGED <<platRow, platLeft>>
MarkPlatform(t) ==
  LET q == platReq[t] IN
  /\ PlatAt(t, "mark")
  /\ platRow' = IF platRow[q.id] = NoPlat THEN platRow ELSE [platRow EXCEPT ![q.id].status = q.result]
  /\ PlatEnd(t) /\ UNCHANGED platLeft

DeletePlatform(t) ==
  /\ PlatAt(t, "delete")
  /\ platRow' = [platRow EXCEPT ![platReq[t].id] = NoPlat]
  /\ PlatEnd(t) /\ UNCHANGED platLeft

PlatCrash(t) == platReq[t] /= NoPlatReq /\ PlatEnd(t) /\ UNCHANGED <<platRow, platLeft>>

PlatNext ==
  \E t \in PlatThreads :
    \/ \E place \in PlatPlaces, on \in BOOLEAN :
         BeginCreate(t, place, on) \/ \E i \in PlatIds : BeginUpdate(t, i, place, on)
    \/ \E i \in PlatIds : BeginProbe(t, i) \/ BeginDelete(t, i)
    \/ CreatePlatform(t) \/ UpdatePlatform(t) \/ Answer(t) \/ AskPlatform(t) \/ MarkPlatform(t)
    \/ DeletePlatform(t) \/ PlatCrash(t)

PlatSpec == PlatInit /\ [][PlatNext]_platVars

=============================================================================
