------------------------------ MODULE ValueAccess ------------------------------
(***************************************************************************)
(* Requests to see a secret value (value_access.py).  A user asks for one  *)
(* key of a workload or for lines of a Nacos configuration; an             *)
(* administrator other than the user approves, whereupon the value is read *)
(* from its source and stored, or rejects; the user and administrators     *)
(* read the stored snapshot.  Rights are looked up in the database again   *)
(* at every stage, and everything else may change between two stages.      *)
(***************************************************************************)
EXTENDS Naturals, FiniteSets

CONSTANTS User, Req, Thread,
          Line,         \* the rows of a document's structure, the keys of a container
          Value,        \* the values they can have
          Null,         \* a row without a value; what a snapshot shows instead; nobody
          Document,     \* the contents a configuration or a container can have
          MaxEdit,      \* bound: changes of the sources
          MaxGrant      \* bound: changes of users' rights

\* What a snapshot can hold.
Content == [Line -> Value \cup {Null}]

Blank == [l \in Line |-> Null]

ASSUME ValueAssumption ==
    /\ Null \notin Value \cup User
    /\ Document \in SUBSET (Content \ {Blank})
    /\ MaxEdit \in Nat /\ MaxGrant \in Nat

VARIABLES
    source,     \* the current content of the configuration and of the container
    rights,     \* what the RBAC tables grant to each active user
    row,        \* table value_access_requests
    job,        \* the request threads
    given,      \* history: the values handed out
    edits, grants   \* changes so far

valueVars == <<source, rights, row, job, given, edits, grants>>

Category == {"environment", "nacos"}
Right == {"source", "approve"}

\* Collection headers grant nothing: only lines with a value of their own count.
Scalars(doc, lines) == {l \in lines : doc[l] # Null}

\* configuration_snapshot(): the granted values stay, any other becomes null.
Redacted(doc, lines) == [l \in Line |-> IF l \in lines THEN doc[l] ELSE Null]

\* doc stands for config_revision, the HMAC of the whole text; lines for the
\* selections bound to the request; scoped for is_scoped_target().
Row == [status: {"absent", "pending", "approved", "rejected", "invalidated"},
        owner: User \cup {Null}, reviewer: User \cup {Null}, cat: Category, doc: Content,
        lines: SUBSET Line, scoped: BOOLEAN, snapshot: Content]

NoRow == [status |-> "absent", owner |-> Null, reviewer |-> Null, cat |-> "nacos",
          doc |-> Blank, lines |-> {}, scoped |-> TRUE, snapshot |-> Blank]

\* Requests of the first version asked for a whole Nacos document.
LegacyRows == [status: {"pending", "approved", "invalidated"}, owner: User, reviewer: {Null},
               cat: {"nacos"}, doc: {Blank}, lines: {{}}, scoped: {FALSE}, snapshot: {Blank}]

JobLabel == {"idle", "rowner", "capture", "again", "write", "vperm", "vback", "vadmin", "vrow"}

\* seen: the row loaded was approved, snap: the snapshot captured or loaded; late:
\* the user's rights changed after the last check of them.
Job == [pc: JobLabel, user: User \cup {Null}, req: Req \cup {Null},
        verdict: {"approved", "rejected"}, seen: BOOLEAN, snap: Content, late: BOOLEAN]

Idle == [pc |-> "idle", user |-> Null, req |-> Null, verdict |-> "approved",
         seen |-> FALSE, snap |-> Blank, late |-> FALSE]

Goto(p, l) == job' = [job EXCEPT ![p].pc = l]

End(p) == job' = [job EXCEPT ![p] = Idle]

\* The thread goes on if the condition holds, and answers with an error otherwise.
Provided(p, condition, l) == IF condition THEN Goto(p, l) ELSE End(p)

Mine(p) == row[job[p].req]

\* live_permission() and admin_access() for the user of the thread.
Holds(p, right) == right \in rights[job[p].user]

-----------------------------------------------------------------------------
(* create_request                                                          *)

\* The user saw doc, perhaps a while ago, and asks for lines of it.  A Nacos
\* configuration is read and must be the one the user saw; the lines are resolved
\* to the values they contain.  One step: rights and source are read once each,
\* and a row inserted after they change is a row inserted before they do.
Create(u, r, cat, doc, lines) ==
    LET bound == IF cat = "nacos" THEN Scalars(doc, lines) ELSE lines IN
    /\ "source" \in rights[u]
    /\ row[r].status = "absent"
    /\ bound # {}
    /\ cat = "nacos" => source["nacos"] = doc
    /\ cat = "environment" => Cardinality(lines) = 1
    /\ row' = [row EXCEPT ![r] = [NoRow EXCEPT !.status = "pending", !.owner = u, !.cat = cat,
                                               !.lines = bound,
                                               !.doc = IF cat = "nacos" THEN doc ELSE Blank]]
    /\ UNCHANGED <<source, rights, job, given, edits, grants>>

-----------------------------------------------------------------------------
(* review                                                                  *)

\* A rejection captures nothing.
StartReview(p, u, r, verdict) ==
    /\ job[p].pc = "idle"
    /\ row[r].status = "pending"
    /\ "approve" \in rights[u]
    /\ job' = [job EXCEPT ![p] = [Idle EXCEPT !.user = u, !.req = r, !.verdict = verdict,
                                     !.pc = IF verdict = "approved" THEN "rowner" ELSE "again"]]
    /\ UNCHANGED <<source, rights, row, given, edits, grants>>

Review(p, u, r, verdict) ==
    row[r].scoped /\ row[r].owner # u /\ StartReview(p, u, r, verdict)

\* The requester must still be allowed to work with the source.
ReviewOwner(p) ==
    /\ job[p].pc = "rowner"
    /\ Provided(p, "source" \in rights[Mine(p).owner], "capture")
    /\ UNCHANGED <<source, rights, row, given, edits, grants>>

\* The lines must all have values still; the source may not answer either.
Captured(p, doc) ==
    \/ /\ Scalars(doc, Mine(p).lines) = Mine(p).lines
       /\ job' = [job EXCEPT ![p] = [@ EXCEPT !.pc = "again", !.snap = Redacted(doc, Mine(p).lines)]]
    \/ End(p)

\* Mutant: the revision is not compared, only the lines.
CaptureAnyRevision(p) ==
    /\ job[p].pc = "capture"
    /\ Captured(p, source[Mine(p).cat])
    /\ UNCHANGED <<source, rights, row, given, edits, grants>>

\* The value is read from its source.  A Nacos document must be unchanged since
\* the request; an error leaves the request pending.
Capture(p) ==
    LET doc == source[Mine(p).cat] IN
    /\ job[p].pc = "capture"
    /\ IF Mine(p).cat = "nacos" => doc = Mine(p).doc THEN Captured(p, doc) ELSE End(p)
    /\ UNCHANGED <<source, rights, row, given, edits, grants>>

\* Mutant: the reviewer's rights are not looked up again after the capture.
AgainUnchecked(p) ==
    /\ job[p].pc = "again"
    /\ Goto(p, "write")
    /\ UNCHANGED <<source, rights, row, given, edits, grants>>

Again(p) ==
    /\ job[p].pc = "again"
    /\ Provided(p, Holds(p, "approve"), "write")
    /\ UNCHANGED <<source, rights, row, given, edits, grants>>

Decision(p) == [Mine(p) EXCEPT !.status = job[p].verdict, !.reviewer = job[p].user,
                               !.snapshot = job[p].snap]

\* 409 if another administrator was faster.
WriteDecision(p) ==
    /\ job[p].pc = "write"
    /\ row' = IF Mine(p).status = "pending" THEN [row EXCEPT ![job[p].req] = Decision(p)] ELSE row
    /\ End(p)
    /\ UNCHANGED <<source, rights, given, edits, grants>>

-----------------------------------------------------------------------------
(* historical_snapshot                                                     *)

\* The user's endpoint, for a request of the user's own: the row is loaded first.
ReadOwn(p, u, r) ==
    /\ job[p].pc = "idle"
    /\ row[r].owner = u /\ row[r].scoped
    /\ job' = [job EXCEPT ![p] = [Idle EXCEPT !.pc = "vperm", !.user = u, !.req = r,
                                     !.snap = row[r].snapshot, !.seen = (row[r].status = "approved")]]
    /\ UNCHANGED <<source, rights, row, given, edits, grants>>

Give(p, seen, snap) ==
    /\ given' = IF seen THEN given \cup {[user |-> job[p].user, req |-> job[p].req, snap |-> snap]}
                ELSE given
    /\ End(p)

\* A user who may not use the source any more may still be an administrator.
ReadPermission(p) ==
    /\ job[p].pc = "vperm"
    /\ IF Holds(p, "source") THEN Give(p, job[p].seen, job[p].snap)
       ELSE Goto(p, "vback") /\ UNCHANGED given
    /\ UNCHANGED <<source, rights, row, edits, grants>>

ReadBack(p) ==
    /\ job[p].pc = "vback"
    /\ Give(p, job[p].seen /\ Holds(p, "approve"), job[p].snap)
    /\ UNCHANGED <<source, rights, row, edits, grants>>

\* The administrative endpoint, and the user's for somebody else's request.
ReadAny(p, u, r) ==
    /\ job[p].pc = "idle"
    /\ row[r].status # "absent"
    /\ job' = [job EXCEPT ![p] = [Idle EXCEPT !.pc = "vadmin", !.user = u, !.req = r]]
    /\ UNCHANGED <<source, rights, row, given, edits, grants>>

\* Mutant: whoever knows the id of a request is taken for an administrator.
ReadAnyone(p) ==
    /\ job[p].pc = "vadmin"
    /\ Goto(p, "vrow")
    /\ UNCHANGED <<source, rights, row, given, edits, grants>>

ReadAdmin(p) ==
    /\ job[p].pc = "vadmin"
    /\ Provided(p, Holds(p, "approve"), "vrow")
    /\ UNCHANGED <<source, rights, row, given, edits, grants>>

ReadRow(p) ==
    /\ job[p].pc = "vrow"
    /\ Give(p, Mine(p).scoped /\ Mine(p).status = "approved", Mine(p).snapshot)
    /\ UNCHANGED <<source, rights, row, edits, grants>>

Die(p) ==
    /\ job[p].pc # "idle"
    /\ End(p)
    /\ UNCHANGED <<source, rights, row, given, edits, grants>>

-----------------------------------------------------------------------------
(* The world around.                                                       *)

\* Somebody publishes another configuration, or a workload restarts with another value.
Edit(cat, doc) ==
    /\ edits < MaxEdit
    /\ source[cat] # doc
    /\ source' = [source EXCEPT ![cat] = doc]
    /\ edits' = edits + 1
    /\ UNCHANGED <<rights, row, job, given, grants>>

\* A user's roles change, or the user is deactivated.
Grant(u, rs) ==
    /\ grants < MaxGrant
    /\ rights[u] # rs
    /\ rights' = [rights EXCEPT ![u] = rs]
    /\ grants' = grants + 1
    /\ job' = [p \in Thread |-> IF job[p].user = u /\ job[p].pc \in {"write", "vrow"}
                                THEN [job[p] EXCEPT !.late = TRUE] ELSE job[p]]
    /\ UNCHANGED <<source, row, given, edits>>

-----------------------------------------------------------------------------
(* The system.                                                             *)

Init ==
    /\ source \in [Category -> Document]
    /\ rights \in [User -> {{"source"}, Right}]     \* ordinary users and superusers
    /\ row \in [Req -> {NoRow} \cup LegacyRows]
    /\ job = [p \in Thread |-> Idle]
    /\ given = {}
    /\ edits = 0
    /\ grants = 0

Ask == \E u \in User, r \in Req, cat \in Category, doc \in Document, lines \in SUBSET Line :
          Create(u, r, cat, doc, lines)

Begin(p) == \E u \in User, r \in Req :
    \/ \E v \in {"approved", "rejected"} : Review(p, u, r, v)
    \/ ReadOwn(p, u, r)
    \/ ReadAny(p, u, r)

Step(p) ==
    \/ ReviewOwner(p) \/ Capture(p) \/ Again(p) \/ WriteDecision(p)
    \/ ReadPermission(p) \/ ReadBack(p) \/ ReadAdmin(p) \/ ReadRow(p)

Next ==
    \/ Ask
    \/ \E p \in Thread : Begin(p) \/ Step(p) \/ Die(p)
    \/ \E cat \in Category, doc \in Document : Edit(cat, doc)
    \/ \E u \in User, rs \in SUBSET Right : Grant(u, rs)

Spec == Init /\ [][Next]_valueVars

-----------------------------------------------------------------------------
(* Properties.                                                             *)

\* Every variable keeps its type.
ValueTypeOK ==
    /\ source \in [Category -> Document]
    /\ rights \in [User -> SUBSET Right]
    /\ row \in [Req -> Row]
    /\ job \in [Thread -> Job]
    /\ given \in SUBSET [user: User, req: Req, snap: Content]
    /\ edits \in 0..MaxEdit
    /\ grants \in 0..MaxGrant

\* "Nobody approves a request of his own", and the reviewer is still an
\* administrator once the value has been captured: a right withdrawn during the
\* capture stops the decision, unless it is withdrawn in the moment between the
\* last check and the write.
ReviewerEntitled == [][\A p \in Thread :
    row' # row /\ job[p].pc = "write" /\ job'[p] # job[p] =>
        /\ Mine(p).owner # job[p].user
        /\ job[p].late \/ Holds(p, "approve")]_valueVars

\* A value goes to the requester as long as he may use its source, and to
\* administrators: to nobody else, whatever is withdrawn while it is being read.
ReaderEntitled == [][\A g \in given' \ given : \E p \in Thread :
    /\ job[p].user = g.user /\ job[p].req = g.req
    /\ \/ "source" \in rights[g.user] /\ row[g.req].owner = g.user
       \/ "approve" \in rights[g.user]
       \/ job[p].late]_valueVars

-----------------------------------------------------------------------------
(* The decisions of ValueDecision.                                         *)

\* A request for lines of a configuration covers the values in the document its
\* user saw; one for a key covers whatever value the key has.
Covered(r) ==
    IF row[r].cat = "nacos" THEN {Redacted(row[r].doc, row[r].lines)}
    ELSE {Redacted(doc, row[r].lines) : doc \in Document}

Live(r) == row[r].scoped /\ row[r].status # "absent"

D == INSTANCE ValueDecision WITH
        decided <- [r \in Req |-> IF Live(r) THEN row[r].status ELSE "none"],
        allowed <- [r \in Req |-> IF Live(r) THEN Covered(r) ELSE {}],
        content <- [r \in Req |-> row[r].snapshot],
        shown <- {<<g.req, g.snap>> : g \in given}

\* Requests are decided once, approved with a content they cover, and nothing but
\* that content is ever shown; requests of the first version show nothing.
Decides == D!Spec
=============================================================================
