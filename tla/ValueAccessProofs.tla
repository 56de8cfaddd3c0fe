-------------------------- MODULE ValueAccessProofs --------------------------
(***************************************************************************)
(* Proofs about ValueAccess, for any number of users, requests, threads,   *)
(* lines and documents: who decides and who reads, and that every step is  *)
(* one of ValueDecision or changes nothing that it speaks of.              *)
(***************************************************************************)
EXTENDS ValueAccess, TLAPS

\* A row that is not there has no columns, and an undecided one no snapshot.
RowOK(r) ==
  /\ row[r].status = "absent" => row[r] = NoRow
  /\ row[r].status = "pending" => row[r].snapshot = Blank

\* A thread works on a request that is there; of a review, that it is somebody
\* else's and what the snapshot may be; of a reading, whose it is and what was loaded.
JobOK(p) ==
  /\ job[p].pc # "idle" => job[p].user \in User /\ job[p].req \in Req /\ Mine(p).status # "absent"
  /\ job[p].pc \in {"rowner", "capture", "again", "write"} =>
       Mine(p).scoped /\ Mine(p).owner # job[p].user
  /\ job[p].pc \in {"rowner", "capture"} => job[p].verdict = "approved"
  /\ job[p].pc \in {"again", "write"} =>
       IF job[p].verdict = "approved" THEN job[p].snap \in Covered(job[p].req) ELSE job[p].snap = Blank
  /\ job[p].pc \in {"write", "vrow"} => job[p].late \/ Holds(p, "approve")
  /\ job[p].pc \in {"vperm", "vback"} =>
       /\ Mine(p).scoped /\ Mine(p).owner = job[p].user
       /\ job[p].seen => Mine(p).status = "approved" /\ job[p].snap = Mine(p).snapshot

ValueInv ==
  /\ ValueTypeOK
  /\ \A r \in Req : RowOK(r)
  /\ \A p \in Thread : JobOK(p)

-----------------------------------------------------------------------------
(* What documents and rows are made of.                                    *)

LEMMA Contents ==
  /\ Blank \in Content /\ Document \subseteq Content
  /\ \A doc \in Content, lines \in SUBSET Line : Redacted(doc, lines) \in Content
<1>1. Blank \in Content BY DEF Blank, Content
<1>2. Document \subseteq Content BY ValueAssumption
<1>3. ASSUME NEW doc \in Content, NEW lines \in SUBSET Line PROVE Redacted(doc, lines) \in Content
  BY DEF Content, Redacted
<1> QED BY <1>1, <1>2, <1>3

LEMMA NoRowIsRow == NoRow \in Row /\ NoRow.status = "absent" /\ NoRow.owner = Null
BY Contents DEF NoRow, Row, Category

LEMMA IdleIsJob == Idle \in Job /\ Idle.pc = "idle" /\ Idle.snap = Blank /\ ~Idle.late
BY Contents DEF Idle, Job, JobLabel

LEMMA CoveredIsContent == ASSUME NEW r \in Req, row[r] \in Row PROVE Covered(r) \subseteq Content
BY Contents DEF Covered, Row

\* Initially there are requests of the first version, and nothing else.
LEMMA ValueInit == Init => ValueInv
<1> SUFFICES ASSUME Init PROVE ValueInv OBVIOUS
<1>1. LegacyRows \subseteq Row /\ \A x \in LegacyRows : x.status # "absent" /\ x.snapshot = Blank
  BY Contents DEF LegacyRows, Row, Category
<1>2. ValueTypeOK
  BY <1>1, NoRowIsRow, IdleIsJob, ValueAssumption DEF Init, ValueTypeOK, Right
<1>3. \A r \in Req : RowOK(r) BY <1>1, NoRowIsRow DEF Init, RowOK
<1>4. \A p \in Thread : JobOK(p) BY IdleIsJob DEF Init, JobOK
<1> QED BY <1>2, <1>3, <1>4 DEF ValueInv

-----------------------------------------------------------------------------
(* The steps.                                                              *)

\* A thread goes on and nothing else changes but what was handed out.
LEMMA JobMoves ==
  ASSUME ValueInv, NEW p \in Thread, NEW j \in Job, job' = [job EXCEPT ![p] = j],
         UNCHANGED <<source, rights, row, edits, grants>>, JobOK(p)',
         given' \in SUBSET [user: User, req: Req, snap: Content]
  PROVE  ValueInv'
<1>1. job'[p] = j /\ \A q \in Thread \ {p} : job'[q] = job[q] BY DEF ValueInv, ValueTypeOK
<1>2. ValueTypeOK' BY DEF ValueInv, ValueTypeOK
<1>3. \A r \in Req : RowOK(r)' BY DEF ValueInv, RowOK
<1>4. \A q \in Thread \ {p} : Mine(q)' = Mine(q) /\ Covered(job[q].req)' = Covered(job[q].req)
  BY <1>1 DEF Mine, Covered
<1>5. \A q \in Thread : JobOK(q)' BY <1>1, <1>4 DEF ValueInv, JobOK, Holds
<1> QED BY <1>2, <1>3, <1>5 DEF ValueInv

\* A request ends.
LEMMA EndInv ==
  ASSUME ValueInv, NEW p \in Thread, End(p), UNCHANGED <<source, rights, row, edits, grants>>,
         given' \in SUBSET [user: User, req: Req, snap: Content]
  PROVE  ValueInv'
<1>1. job'[p] = Idle BY DEF End, ValueInv, ValueTypeOK
<1>2. JobOK(p)' BY <1>1, IdleIsJob DEF JobOK
<1> QED BY <1>2, IdleIsJob, JobMoves DEF End

\* A thread only goes to its next label.
LEMMA GotoInv ==
  ASSUME ValueInv, NEW p \in Thread, NEW l \in JobLabel, Goto(p, l),
         UNCHANGED <<source, rights, row, given, edits, grants>>,
         \/ job[p].pc = "rowner" /\ l = "capture"
         \/ job[p].pc = "again" /\ l = "write" /\ Holds(p, "approve")
         \/ job[p].pc = "vperm" /\ l = "vback"
         \/ job[p].pc = "vadmin" /\ l = "vrow" /\ Holds(p, "approve")
  PROVE  ValueInv'
<1> DEFINE j == [job[p] EXCEPT !.pc = l]
<1>1. job[p] \in Job BY DEF ValueInv, ValueTypeOK
<1>2. j \in Job /\ job' = [job EXCEPT ![p] = j] BY <1>1 DEF Goto, Job
<1>3. /\ job'[p].pc = l /\ job'[p].user = job[p].user /\ job'[p].req = job[p].req
      /\ job'[p].verdict = job[p].verdict /\ job'[p].snap = job[p].snap /\ job'[p].seen = job[p].seen
  BY <1>1 DEF Goto, ValueInv, ValueTypeOK, Job
<1>4. Mine(p)' = Mine(p) /\ Covered(job[p].req)' = Covered(job[p].req) BY <1>3 DEF Mine, Covered
<1>5. JobOK(p)' BY <1>3, <1>4 DEF ValueInv, JobOK, Holds
<1>6. given' \in SUBSET [user: User, req: Req, snap: Content] BY DEF ValueInv, ValueTypeOK
<1> HIDE DEF j
<1> QED BY <1>2, <1>5, <1>6, JobMoves

\* A row that is there keeps what was asked for, and what was approved.
Kept(r) ==
  row[r].status # "absent" =>
    /\ row'[r].status # "absent"
    /\ row'[r].owner = row[r].owner /\ row'[r].cat = row[r].cat /\ row'[r].doc = row[r].doc
    /\ row'[r].lines = row[r].lines /\ row'[r].scoped = row[r].scoped
    /\ row[r].status = "approved" => row'[r].status = "approved" /\ row'[r].snapshot = row[r].snapshot

LEMMA RowWritten ==
  ASSUME ValueInv, NEW r \in Req, NEW x \in Row, row' = [row EXCEPT ![r] = x],
         UNCHANGED <<source, rights, given, edits, grants>>,
         x.status # "absent", x.status = "pending" => x.snapshot = Blank, Kept(r),
         job' \in [Thread -> Job], \A p \in Thread : job'[p] = job[p] \/ job'[p] = Idle
  PROVE  ValueInv'
<1>1. row'[r] = x /\ \A s \in Req \ {r} : row'[s] = row[s] BY DEF ValueInv, ValueTypeOK
<1>2. ValueTypeOK' BY DEF ValueInv, ValueTypeOK
<1>3. \A s \in Req : RowOK(s)' BY <1>1 DEF ValueInv, RowOK
<1>4. \A s \in Req : Kept(s) BY <1>1 DEF Kept
<1>5. ASSUME NEW p \in Thread PROVE JobOK(p)'
  <2>1. CASE job'[p] = Idle BY <2>1, IdleIsJob DEF JobOK
  <2>2. CASE job'[p] = job[p] /\ job[p].pc # "idle"
    <3>1. job[p].req \in Req /\ Mine(p).status # "absent" /\ JobOK(p) BY <2>2 DEF ValueInv, JobOK
    <3> DEFINE s == job[p].req
    <3>2. row'[s].cat = row[s].cat /\ row'[s].doc = row[s].doc /\ row'[s].lines = row[s].lines
      BY <1>4, <3>1 DEF Kept, Mine
    <3>3. Covered(job[p].req)' = Covered(job[p].req) BY <2>2, <3>2 DEF Covered
    <3> QED BY <1>4, <2>2, <3>1, <3>3 DEF Kept, Mine, JobOK, Holds
  <2>3. CASE job'[p] = job[p] /\ job[p].pc = "idle" BY <2>3 DEF JobOK
  <2> QED BY <2>1, <2>2, <2>3
<1> QED BY <1>2, <1>3, <1>5 DEF ValueInv

\* A request is asked for.
LEMMA CreateInv ==
  ASSUME ValueInv, NEW u \in User, NEW r \in Req, NEW cat \in Category, NEW doc \in Document,
         NEW lines \in SUBSET Line, Create(u, r, cat, doc, lines)
  PROVE  ValueInv'
<1> DEFINE bound == IF cat = "nacos" THEN Scalars(doc, lines) ELSE lines
           x == [NoRow EXCEPT !.status = "pending", !.owner = u, !.cat = cat, !.lines = bound,
                              !.doc = IF cat = "nacos" THEN doc ELSE Blank]
<1>1. bound \in SUBSET Line BY DEF Scalars
<1>2. doc \in Content /\ Blank \in Content BY Contents
<1> HIDE DEF bound
<1>3. x \in Row /\ x.status = "pending" /\ x.snapshot = Blank
  BY <1>1, <1>2, NoRowIsRow DEF Row, NoRow
<1>4. row' = [row EXCEPT ![r] = x] /\ row[r].status = "absent" BY DEF Create, bound
<1>5. UNCHANGED <<source, rights, job, given, edits, grants>> BY DEF Create
<1> HIDE DEF x
<1> QED BY <1>3, <1>4, <1>5, RowWritten DEF Kept, ValueInv, ValueTypeOK

\* A review and a reading begin.
LEMMA BeginInv ==
  ASSUME ValueInv, NEW p \in Thread, Begin(p)
  PROVE  ValueInv'
<1>1. PICK u \in User, r \in Req : (\E v \in {"approved", "rejected"} : Review(p, u, r, v))
                                     \/ ReadOwn(p, u, r) \/ ReadAny(p, u, r)
  BY DEF Begin
<1>2. row[r] \in Row /\ RowOK(r) BY DEF ValueInv, ValueTypeOK
<1>3. given \in SUBSET [user: User, req: Req, snap: Content] BY DEF ValueInv, ValueTypeOK
<1>4. ASSUME NEW v \in {"approved", "rejected"}, Review(p, u, r, v) PROVE ValueInv'
  <2> DEFINE j == [Idle EXCEPT !.user = u, !.req = r, !.verdict = v,
                               !.pc = IF v = "approved" THEN "rowner" ELSE "again"]
  <2>1. /\ j \in Job /\ j.user = u /\ j.req = r /\ j.verdict = v /\ j.snap = Blank
        /\ j.pc = IF v = "approved" THEN "rowner" ELSE "again"
    BY <1>4, IdleIsJob DEF Job, JobLabel, Idle
  <2>2. /\ job' = [job EXCEPT ![p] = j] /\ UNCHANGED <<source, rights, row, given, edits, grants>>
        /\ row[r].scoped /\ row[r].owner # u /\ row[r].status = "pending"
    BY <1>4 DEF Review, StartReview
  <2>3. job'[p] = j BY <2>2 DEF ValueInv, ValueTypeOK
  <2> HIDE DEF j
  <2>4. JobOK(p)' BY <2>1, <2>2, <2>3 DEF JobOK, Mine
  <2> QED BY <1>3, <2>1, <2>2, <2>4, JobMoves
<1>5. CASE ReadOwn(p, u, r)
  <2> DEFINE j == [Idle EXCEPT !.pc = "vperm", !.user = u, !.req = r,
                               !.snap = row[r].snapshot, !.seen = (row[r].status = "approved")]
  <2>1. /\ j \in Job /\ j.user = u /\ j.req = r /\ j.pc = "vperm"
        /\ j.snap = row[r].snapshot /\ j.seen = (row[r].status = "approved")
    BY <1>2, IdleIsJob DEF Job, JobLabel, Idle, Row
  <2>2. /\ job' = [job EXCEPT ![p] = j] /\ UNCHANGED <<source, rights, row, given, edits, grants>>
        /\ row[r].scoped /\ row[r].owner = u
    BY <1>5 DEF ReadOwn
  <2>3. job'[p] = j BY <2>2 DEF ValueInv, ValueTypeOK
  <2>4. row[r].status # "absent" BY <1>2, <2>2, NoRowIsRow, ValueAssumption DEF RowOK
  <2> HIDE DEF j
  <2>5. JobOK(p)' BY <2>1, <2>2, <2>3, <2>4 DEF JobOK, Mine
  <2> QED BY <1>3, <2>1, <2>2, <2>5, JobMoves
<1>6. CASE ReadAny(p, u, r)
  <2> DEFINE j == [Idle EXCEPT !.pc = "vadmin", !.user = u, !.req = r]
  <2>1. j \in Job /\ j.user = u /\ j.req = r /\ j.pc = "vadmin"
    BY IdleIsJob DEF Job, JobLabel, Idle
  <2>2. /\ job' = [job EXCEPT ![p] = j] /\ UNCHANGED <<source, rights, row, given, edits, grants>>
        /\ row[r].status # "absent"
    BY <1>6 DEF ReadAny
  <2>3. job'[p] = j BY <2>2 DEF ValueInv, ValueTypeOK
  <2> HIDE DEF j
  <2>4. JobOK(p)' BY <2>1, <2>2, <2>3 DEF JobOK, Mine
  <2> QED BY <1>3, <2>1, <2>2, <2>4, JobMoves
<1> QED BY <1>1, <1>4, <1>5, <1>6

\* The steps of a review.
LEMMA ReviewInv ==
  ASSUME ValueInv, NEW p \in Thread, ReviewOwner(p) \/ Capture(p) \/ Again(p) \/ WriteDecision(p)
  PROVE  ValueInv'
<1>1. given \in SUBSET [user: User, req: Req, snap: Content] BY DEF ValueInv, ValueTypeOK
<1>2. job[p] \in Job /\ JobOK(p) BY DEF ValueInv, ValueTypeOK
<1>3. CASE ReviewOwner(p)
  BY <1>1, <1>3, EndInv, GotoInv DEF ReviewOwner, Provided, JobLabel
<1>4. CASE Capture(p)
  <2>1. CASE End(p) BY <1>1, <1>4, <2>1, EndInv DEF Capture
  <2>2. CASE ~End(p)
    <3> DEFINE doc == source[Mine(p).cat]
               snap == Redacted(doc, Mine(p).lines)
               j == [job[p] EXCEPT !.pc = "again", !.snap = snap]
    <3>1. /\ job' = [job EXCEPT ![p] = j] /\ UNCHANGED <<source, rights, row, given, edits, grants>>
          /\ job[p].pc = "capture" /\ (Mine(p).cat = "nacos" => doc = Mine(p).doc)
      BY <1>4, <2>2 DEF Capture, Captured
    <3>2. Mine(p) \in Row /\ job[p].req \in Req BY <1>2, <3>1 DEF ValueInv, ValueTypeOK, JobOK, Mine
    <3>3. doc \in Document BY <3>2 DEF ValueInv, ValueTypeOK, Row
    <3>4. snap \in Content BY <3>2, <3>3, Contents DEF Row
    <3>5. snap \in Covered(job[p].req) BY <3>1, <3>3 DEF Covered, Mine
    <3> HIDE DEF snap, doc
    <3>6. /\ j \in Job /\ j.pc = "again" /\ j.snap = snap /\ j.user = job[p].user
          /\ j.req = job[p].req /\ j.verdict = job[p].verdict
      BY <1>2, <3>4 DEF Job, JobLabel
    <3>7. job'[p] = j BY <3>1 DEF ValueInv, ValueTypeOK
    <3> HIDE DEF j
    <3>8. Mine(p)' = Mine(p) /\ Covered(job[p].req)' = Covered(job[p].req)
      BY <3>1, <3>6, <3>7 DEF Mine, Covered
    <3>9. JobOK(p)' BY <1>2, <3>1, <3>5, <3>6, <3>7, <3>8 DEF JobOK
    <3> QED BY <1>1, <3>1, <3>6, <3>9, JobMoves
  <2> QED BY <2>1, <2>2
<1>5. CASE Again(p) BY <1>1, <1>5, EndInv, GotoInv DEF Again, Provided, JobLabel
<1>6. CASE WriteDecision(p)
  <2>1. CASE Mine(p).status # "pending" BY <1>1, <1>6, <2>1, EndInv DEF WriteDecision
  <2>2. CASE Mine(p).status = "pending"
    <3> DEFINE x == Decision(p)
    <3>1. job[p].req \in Req /\ job[p].user \in User /\ Mine(p) \in Row
      BY <1>2, <1>6 DEF WriteDecision, ValueInv, ValueTypeOK, JobOK, Mine
    <3>2. /\ x \in Row /\ x.status \in {"approved", "rejected"}
          /\ x.owner = Mine(p).owner /\ x.cat = Mine(p).cat /\ x.doc = Mine(p).doc
          /\ x.lines = Mine(p).lines /\ x.scoped = Mine(p).scoped
      BY <1>2, <3>1 DEF Decision, Row, Job
    <3>3. row' = [row EXCEPT ![job[p].req] = x] /\ UNCHANGED <<source, rights, given, edits, grants>>
      BY <1>6, <2>2 DEF WriteDecision
    <3> HIDE DEF x
    <3>4. row'[job[p].req] = x BY <3>1, <3>3 DEF ValueInv, ValueTypeOK
    <3>5. Kept(job[p].req) BY <2>2, <3>2, <3>4 DEF Kept, Mine
    <3>6. job' \in [Thread -> Job] /\ \A q \in Thread : job'[q] = job[q] \/ job'[q] = Idle
      BY <1>6, IdleIsJob DEF WriteDecision, End, ValueInv, ValueTypeOK
    <3> QED BY <3>1, <3>2, <3>3, <3>5, <3>6, RowWritten
  <2> QED BY <2>1, <2>2
<1> QED BY <1>3, <1>4, <1>5, <1>6

\* Something is handed out, or not.
LEMMA GiveInv ==
  ASSUME ValueInv, NEW p \in Thread, job[p].pc # "idle", NEW seen \in BOOLEAN, NEW snap \in Content,
         Give(p, seen, snap), UNCHANGED <<source, rights, row, edits, grants>>
  PROVE  ValueInv'
<1>1. job[p].user \in User /\ job[p].req \in Req BY DEF ValueInv, JobOK
<1>2. given' \in SUBSET [user: User, req: Req, snap: Content]
  BY <1>1 DEF Give, ValueInv, ValueTypeOK
<1> QED BY <1>2, EndInv DEF Give

\* The steps of a reading.
LEMMA ReadInv ==
  ASSUME ValueInv, NEW p \in Thread, ReadPermission(p) \/ ReadBack(p) \/ ReadAdmin(p) \/ ReadRow(p)
  PROVE  ValueInv'
<1>1. job[p] \in Job /\ JobOK(p) /\ given \in SUBSET [user: User, req: Req, snap: Content]
  BY DEF ValueInv, ValueTypeOK
<1>2. job[p].seen \in BOOLEAN /\ job[p].snap \in Content BY <1>1 DEF Job
<1>3. CASE ReadPermission(p)
  <2>1. CASE Holds(p, "source") BY <1>2, <1>3, <2>1, GiveInv DEF ReadPermission
  <2>2. CASE ~Holds(p, "source") BY <1>3, <2>2, GotoInv DEF ReadPermission, JobLabel
  <2> QED BY <2>1, <2>2
<1>4. CASE ReadBack(p) BY <1>2, <1>4, GiveInv DEF ReadBack, Holds
<1>5. CASE ReadAdmin(p) BY <1>1, <1>5, EndInv, GotoInv DEF ReadAdmin, Provided, JobLabel
<1>6. CASE ReadRow(p)
  <2>1. Mine(p) \in Row BY <1>1, <1>6 DEF ReadRow, ValueInv, ValueTypeOK, JobOK, Mine
  <2>2. (Mine(p).scoped /\ Mine(p).status = "approved") \in BOOLEAN /\ Mine(p).snapshot \in Content
    BY <2>1 DEF Row
  <2> QED BY <1>6, <2>2, GiveInv DEF ReadRow
<1> QED BY <1>3, <1>4, <1>5, <1>6

\* The sources and the rights change.
LEMMA WorldInv ==
  ASSUME ValueInv, \/ \E cat \in Category, doc \in Document : Edit(cat, doc)
                   \/ \E u \in User, rs \in SUBSET Right : Grant(u, rs)
  PROVE  ValueInv'
<1>1. ASSUME NEW cat \in Category, NEW doc \in Document, Edit(cat, doc) PROVE ValueInv'
  <2>1. ValueTypeOK' BY <1>1, ValueAssumption DEF Edit, ValueInv, ValueTypeOK
  <2>2. \A r \in Req : RowOK(r)' BY <1>1 DEF Edit, ValueInv, RowOK
  <2>3. \A p \in Thread : Mine(p)' = Mine(p) /\ Covered(job[p].req)' = Covered(job[p].req)
    BY <1>1 DEF Edit, Mine, Covered
  <2>4. \A p \in Thread : JobOK(p)' BY <1>1, <2>3 DEF Edit, ValueInv, JobOK, Holds
  <2> QED BY <2>1, <2>2, <2>4 DEF ValueInv
<1>2. ASSUME NEW u \in User, NEW rs \in SUBSET Right, Grant(u, rs) PROVE ValueInv'
  <2>1. \A p \in Thread : [job[p] EXCEPT !.late = TRUE] \in Job
    BY DEF ValueInv, ValueTypeOK, Job
  <2>2. job' \in [Thread -> Job] BY <1>2, <2>1 DEF Grant, ValueInv, ValueTypeOK
  <2>3. ValueTypeOK' BY <1>2, <2>2, ValueAssumption DEF Grant, ValueInv, ValueTypeOK
  <2>4. \A r \in Req : RowOK(r)' BY <1>2 DEF Grant, ValueInv, RowOK
  <2>5. \A p \in Thread :
          /\ job'[p].pc = job[p].pc /\ job'[p].user = job[p].user /\ job'[p].req = job[p].req
          /\ job'[p].verdict = job[p].verdict /\ job'[p].snap = job[p].snap
          /\ job'[p].seen = job[p].seen /\ (job[p].late => job'[p].late)
          /\ job[p].user = u /\ job[p].pc \in {"write", "vrow"} => job'[p].late
    BY <1>2 DEF Grant, ValueInv, ValueTypeOK, Job
  <2>6. \A p \in Thread : Mine(p)' = Mine(p) /\ Covered(job[p].req)' = Covered(job[p].req)
    BY <1>2, <2>5 DEF Grant, Mine, Covered
  <2>7. \A p \in Thread : job[p].user # u => (Holds(p, "approve")' <=> Holds(p, "approve"))
    BY <1>2, <2>5 DEF Grant, ValueInv, ValueTypeOK, Holds
  <2>8. \A p \in Thread : JobOK(p)' BY <2>5, <2>6, <2>7 DEF ValueInv, JobOK
  <2> QED BY <2>3, <2>4, <2>8 DEF ValueInv
<1> QED BY <1>1, <1>2

LEMMA ValueStep == ValueInv /\ [Next]_valueVars => ValueInv'
<1> SUFFICES ASSUME ValueInv, [Next]_valueVars PROVE ValueInv' OBVIOUS
<1>1. CASE UNCHANGED valueVars
  <2>1. \A p \in Thread : Mine(p)' = Mine(p) /\ Covered(job[p].req)' = Covered(job[p].req)
    BY <1>1 DEF valueVars, Mine, Covered
  <2> QED BY <1>1, <2>1 DEF valueVars, ValueInv, ValueTypeOK, RowOK, JobOK, Holds
<1>2. ASSUME NEW p \in Thread, Die(p) PROVE ValueInv'
  BY <1>2, EndInv DEF Die, ValueInv, ValueTypeOK
<1>3. CASE Ask BY <1>3, CreateInv DEF Ask
<1> QED BY <1>1, <1>2, <1>3, BeginInv, ReviewInv, ReadInv, WorldInv DEF Next, Step

-----------------------------------------------------------------------------
(* Who decides and who reads.                                              *)

\* The tables, the requests and what was handed out keep their types.
THEOREM ValueTypes == Spec => []ValueTypeOK
<1>1. ValueInv => ValueTypeOK BY DEF ValueInv
<1> QED BY <1>1, ValueInit, ValueStep, PTL DEF Spec

\* A row that is there changes only where a decision is written, what was handed
\* out only where something is given.
LEMMA Writers ==
  ASSUME Next
  PROVE  \/ Ask /\ UNCHANGED <<job, given>>
         \/ (\E p \in Thread : WriteDecision(p)) /\ given' = given
         \/ (\E p \in Thread : ReadPermission(p) \/ ReadBack(p) \/ ReadRow(p)) /\ row' = row
         \/ row' = row /\ given' = given
<1>1. CASE Ask BY <1>1 DEF Ask, Create
<1>2. ASSUME NEW p \in Thread, Begin(p) PROVE row' = row /\ given' = given
  BY <1>2 DEF Begin, Review, StartReview, ReadOwn, ReadAny
<1>3. ASSUME NEW p \in Thread, Step(p)
      PROVE  \/ WriteDecision(p) /\ given' = given
             \/ (ReadPermission(p) \/ ReadBack(p) \/ ReadRow(p)) /\ row' = row
             \/ row' = row /\ given' = given
  BY <1>3 DEF Step, ReviewOwner, Capture, Again, WriteDecision, ReadPermission, ReadBack, ReadAdmin, ReadRow
<1>4. ASSUME NEW p \in Thread, Die(p) PROVE row' = row /\ given' = given BY <1>4 DEF Die
<1>5. ASSUME NEW cat \in Category, NEW doc \in Document, Edit(cat, doc)
      PROVE  row' = row /\ given' = given
  BY <1>5 DEF Edit
<1>6. ASSUME NEW u \in User, NEW rs \in SUBSET Right, Grant(u, rs) PROVE row' = row /\ given' = given
  BY <1>6 DEF Grant
<1> QED BY <1>1, <1>2, <1>3, <1>4, <1>5, <1>6 DEF Next

\* Whoever decides is not the requester, and is an administrator still unless the
\* right was withdrawn between the last check and the write.
THEOREM ReviewersEntitled == Spec => ReviewerEntitled
<1>1. ValueInv /\ [Next]_valueVars =>
        [\A p \in Thread : row' # row /\ job[p].pc = "write" /\ job'[p] # job[p] =>
            /\ Mine(p).owner # job[p].user
            /\ job[p].late \/ Holds(p, "approve")]_valueVars
  BY DEF ValueInv, JobOK
<1> QED BY <1>1, ValueInit, ValueStep, PTL DEF Spec, ReviewerEntitled

\* A value goes to the requester while he may use the source and to administrators.
THEOREM ReadersEntitled == Spec => ReaderEntitled
<1>1. ValueInv /\ [Next]_valueVars =>
        [\A g \in given' \ given : \E p \in Thread :
            /\ job[p].user = g.user /\ job[p].req = g.req
            /\ \/ "source" \in rights[g.user] /\ row[g.req].owner = g.user
               \/ "approve" \in rights[g.user]
               \/ job[p].late]_valueVars
  <2> SUFFICES ASSUME ValueInv, Next, NEW g \in given' \ given
               PROVE  \E p \in Thread :
                        /\ job[p].user = g.user /\ job[p].req = g.req
                        /\ \/ "source" \in rights[g.user] /\ row[g.req].owner = g.user
                           \/ "approve" \in rights[g.user]
                           \/ job[p].late
    OBVIOUS
  <2>1. PICK p \in Thread : ReadPermission(p) \/ ReadBack(p) \/ ReadRow(p) BY Writers
  <2>2. \E snap : \E seen \in BOOLEAN : Give(p, seen, snap)
          /\ (ReadPermission(p) => Holds(p, "source"))
          /\ (ReadBack(p) /\ seen => Holds(p, "approve"))
    <3>1. CASE ReadPermission(p)
      <4>1. Give(p, job[p].seen, job[p].snap) /\ Holds(p, "source") /\ job[p].pc = "vperm"
        BY <3>1 DEF ReadPermission
      <4>2. job[p].seen \in BOOLEAN BY DEF ValueInv, ValueTypeOK, Job
      <4> QED BY <4>1, <4>2 DEF ReadBack
    <3>2. CASE ReadBack(p) BY <3>2 DEF ReadBack, ReadPermission
    <3>3. CASE ReadRow(p) BY <3>3 DEF ReadRow, ReadBack, ReadPermission
    <3> QED BY <2>1, <3>1, <3>2, <3>3
  <2>3. PICK snap : \E seen \in BOOLEAN : Give(p, seen, snap)
          /\ (ReadPermission(p) => Holds(p, "source"))
          /\ (ReadBack(p) /\ seen => Holds(p, "approve"))
    BY <2>2
  <2> PICK seen \in BOOLEAN : Give(p, seen, snap)
          /\ (ReadPermission(p) => Holds(p, "source"))
          /\ (ReadBack(p) /\ seen => Holds(p, "approve"))
    BY <2>3
  <2>4. seen /\ g = [user |-> job[p].user, req |-> job[p].req, snap |-> snap] BY DEF Give
  <2>5. g.user = job[p].user /\ g.req = job[p].req BY <2>4
  <2>6. CASE ReadPermission(p)
    BY <2>5, <2>6 DEF ReadPermission, ValueInv, JobOK, Mine, Holds
  <2>7. CASE ReadBack(p) BY <2>4, <2>5, <2>7 DEF Holds
  <2>8. CASE ReadRow(p) BY <2>5, <2>8 DEF ReadRow, ValueInv, JobOK, Holds
  <2> QED BY <2>1, <2>6, <2>7, <2>8
<1> QED BY <1>1, ValueInit, ValueStep, PTL DEF Spec, ReaderEntitled

-----------------------------------------------------------------------------
(* ValueAccess implements ValueDecision.                                   *)

\* What ValueDecision sees of a state.
decidedBar == [r \in Req |-> IF Live(r) THEN row[r].status ELSE "none"]
allowedBar == [r \in Req |-> IF Live(r) THEN Covered(r) ELSE {}]
contentBar == [r \in Req |-> row[r].snapshot]
shownBar == {<<g.req, g.snap>> : g \in given}

\* A step that leaves the rows and what was handed out as they are is a stutter.
LEMMA Stutters ==
  ASSUME row' = row, given' = given
  PROVE  UNCHANGED <<decidedBar, allowedBar, contentBar, shownBar>>
<1>1. \A r \in Req : Live(r)' = Live(r) /\ Covered(r)' = Covered(r) BY DEF Live, Covered
<1>2. decidedBar' = decidedBar /\ contentBar' = contentBar BY <1>1 DEF decidedBar, contentBar
<1>3. allowedBar' = allowedBar BY <1>1 DEF allowedBar
<1>4. shownBar' = shownBar BY DEF shownBar
<1> QED BY <1>2, <1>3, <1>4

\* Initially no request that ValueDecision knows is there.
LEMMA DecisionInit == Init => D!Init
<1> SUFFICES ASSUME Init PROVE D!Init OBVIOUS
<1>1. \A r \in Req : ~Live(r)
  <2>1. NoRow.status = "absent" BY DEF NoRow
  <2>2. \A x \in LegacyRows : x.scoped = FALSE BY DEF LegacyRows
  <2>3. \A r \in Req : row[r].status = "absent" \/ row[r].scoped = FALSE BY <2>1, <2>2 DEF Init
  <2> QED BY <2>3, Zenon DEF Live
<1>2. \A r \in Req : row[r].snapshot \in Content
  BY ValueInit, Contents DEF ValueInv, ValueTypeOK, Row
<1>3. {<<g.req, g.snap>> : g \in given} = {} BY DEF Init
<1> QED BY <1>1, <1>2, <1>3 DEF D!Init

\* Only the row of one request changes.
LEMMA OthersKept ==
  ASSUME ValueInv, NEW r \in Req, NEW x, row' = [row EXCEPT ![r] = x]
  PROVE  /\ row'[r] = x
         /\ \A s \in Req \ {r} : /\ Live(s)' = Live(s) /\ Covered(s)' = Covered(s)
                                 /\ row'[s].status = row[s].status /\ row'[s].snapshot = row[s].snapshot
<1>1. row'[r] = x /\ \A s \in Req \ {r} : row'[s] = row[s] BY DEF ValueInv, ValueTypeOK
<1> QED BY <1>1 DEF Live, Covered

\* Asking: the row was blank, and the request now covers what it names.
LEMMA AskMaps ==
  ASSUME ValueInv, ValueInv', Ask, given' = given
  PROVE  D!Next
<1>1. PICK u \in User, r \in Req, cat \in Category, doc \in Document, lines \in SUBSET Line :
        Create(u, r, cat, doc, lines)
  BY DEF Ask
<1>2. row[r] = NoRow BY <1>1 DEF Create, ValueInv, RowOK
<1> DEFINE x == [NoRow EXCEPT !.status = "pending", !.owner = u, !.cat = cat,
                              !.lines = IF cat = "nacos" THEN Scalars(doc, lines) ELSE lines,
                              !.doc = IF cat = "nacos" THEN doc ELSE Blank]
<1>3. row' = [row EXCEPT ![r] = x] BY <1>1 DEF Create
<1>4. x.status = "pending" /\ x.scoped /\ x.snapshot = Blank BY DEF NoRow
<1> HIDE DEF x
<1>5. /\ row'[r] = x
      /\ \A s \in Req \ {r} : /\ Live(s)' = Live(s) /\ Covered(s)' = Covered(s)
                              /\ row'[s].status = row[s].status /\ row'[s].snapshot = row[s].snapshot
  BY <1>3, OthersKept
<1>6. ~Live(r) /\ Live(r)' /\ row'[r].status = "pending" /\ row'[r].snapshot = row[r].snapshot
  BY <1>2, <1>4, <1>5 DEF Live, NoRow
<1>7. Covered(r)' \subseteq Content
  <2>1. row'[r] \in Row BY DEF ValueInv, ValueTypeOK
  <2> QED BY <2>1, Contents DEF Covered, Row
<1>8. D!Ask(r)
  <2>1. decidedBar[r] = "none" /\ decidedBar' = [decidedBar EXCEPT ![r] = "pending"]
    BY <1>5, <1>6 DEF decidedBar
  <2>2. allowedBar'[r] \in SUBSET Content /\ allowedBar' = [allowedBar EXCEPT ![r] = allowedBar'[r]]
    BY <1>5, <1>6, <1>7 DEF allowedBar
  <2>3. contentBar' = contentBar BY <1>5, <1>6 DEF contentBar
  <2>4. shownBar' = shownBar BY DEF shownBar
  <2> QED BY <2>1, <2>2, <2>3, <2>4 DEF D!Ask, decidedBar, allowedBar, contentBar, shownBar
<1> QED BY <1>8 DEF D!Next

\* A decision: of a pending request, approved with what it covers.
LEMMA DecisionMaps ==
  ASSUME ValueInv, NEW p \in Thread, WriteDecision(p), given' = given
  PROVE  [D!Next]_(D!decisionVars)
<1> PICK r : r = job[p].req OBVIOUS
<1> DEFINE x == Decision(p)
<1>1. JobOK(p) /\ job[p].pc = "write" /\ job[p] \in Job
  BY DEF WriteDecision, ValueInv, ValueTypeOK
<1>2. r \in Req /\ row[r] \in Row /\ RowOK(r) /\ row[r].scoped
  BY <1>1 DEF JobOK, Mine, ValueInv, ValueTypeOK
<1>3. CASE row[r].status # "pending"
  <2>1. row' = row BY <1>3 DEF WriteDecision, Mine
  <2> QED BY <2>1, Stutters DEF D!decisionVars, decidedBar, allowedBar, contentBar, shownBar
<1>4. CASE row[r].status = "pending"
  <2>1. row' = [row EXCEPT ![r] = x] BY <1>4 DEF WriteDecision, Mine
  <2>2. /\ x.status = job[p].verdict /\ x.snapshot = job[p].snap /\ x.scoped
        /\ x.cat = row[r].cat /\ x.doc = row[r].doc /\ x.lines = row[r].lines
    BY <1>2 DEF Decision, Mine, Row
  <2> HIDE DEF x
  <2>3. /\ row'[r] = x
        /\ \A s \in Req \ {r} : /\ Live(s)' = Live(s) /\ Covered(s)' = Covered(s)
                                /\ row'[s].status = row[s].status /\ row'[s].snapshot = row[s].snapshot
    BY <1>2, <2>1, OthersKept
  <2>4. job[p].verdict \in {"approved", "rejected"} BY <1>1 DEF Job
  <2>5. Covered(r)' = Covered(r)
    <3>1. row'[r].cat = row[r].cat /\ row'[r].doc = row[r].doc /\ row'[r].lines = row[r].lines
      BY <2>2, <2>3
    <3> QED BY <3>1 DEF Covered
  <2>6. Live(r) /\ Live(r)' BY <1>2, <1>4, <2>2, <2>3, <2>4 DEF Live
  <2>7. decidedBar[r] = "pending" /\ decidedBar' = [decidedBar EXCEPT ![r] = job[p].verdict]
    BY <1>2, <1>4, <2>2, <2>3, <2>6 DEF decidedBar
  <2>8. allowedBar' = allowedBar BY <2>3, <2>5, <2>6 DEF allowedBar
  <2>9. contentBar' = [contentBar EXCEPT ![r] = job[p].snap] BY <2>2, <2>3 DEF contentBar
  <2>10. shownBar' = shownBar BY DEF shownBar
  <2>11. CASE job[p].verdict = "approved"
    <3>1. PICK c \in Content : c = job[p].snap /\ c \in allowedBar[r]
      BY <1>1, <1>2, <2>6, <2>11, CoveredIsContent DEF JobOK, allowedBar
    <3>2. D!Approve(r, c)
      BY <2>7, <2>8, <2>9, <2>10, <2>11, <3>1 DEF D!Approve, decidedBar, allowedBar, contentBar, shownBar
    <3> QED BY <1>2, <3>1, <3>2 DEF D!Next
  <2>12. CASE job[p].verdict = "rejected"
    <3>1. job[p].snap = Blank /\ row[r].snapshot = Blank BY <1>1, <1>2, <1>4, <2>12 DEF JobOK, RowOK
    <3>2. contentBar' = contentBar BY <1>2, <2>9, <3>1 DEF contentBar
    <3>3. D!Reject(r)
      BY <2>7, <2>8, <2>10, <2>12, <3>2 DEF D!Reject, decidedBar, allowedBar, contentBar, shownBar
    <3> QED BY <1>2, <3>3 DEF D!Next
  <2> QED BY <2>4, <2>11, <2>12
<1> QED BY <1>3, <1>4

\* Something is shown: what an approved request was approved with.
LEMMA ShowMaps ==
  ASSUME ValueInv, NEW p \in Thread, ReadPermission(p) \/ ReadBack(p) \/ ReadRow(p), row' = row
  PROVE  [D!Next]_(D!decisionVars)
<1> PICK r : r = job[p].req OBVIOUS
<1>1. JobOK(p) /\ job[p].pc \in {"vperm", "vback", "vrow"}
  BY DEF ReadPermission, ReadBack, ReadRow, ValueInv
<1>2. CASE given' = given
  BY <1>2, Stutters DEF D!decisionVars, decidedBar, allowedBar, contentBar, shownBar
<1>3. CASE given' # given
  <2>1. /\ given' = given \cup {[user |-> job[p].user, req |-> r, snap |-> row[r].snapshot]}
        /\ row[r].scoped /\ row[r].status = "approved"
    <3>1. CASE job[p].pc \in {"vperm", "vback"}
      <4>1. job[p].seen /\ given' = given \cup {[user |-> job[p].user, req |-> r, snap |-> job[p].snap]}
        BY <1>3, <3>1 DEF ReadPermission, ReadBack, ReadRow, Give
      <4> QED BY <1>1, <3>1, <4>1 DEF JobOK, Mine
    <3>2. CASE job[p].pc = "vrow" BY <1>3, <3>2 DEF ReadPermission, ReadBack, ReadRow, Give, Mine
    <3> QED BY <1>1, <3>1, <3>2
  <2>2. r \in Req /\ Live(r) BY <1>1, <2>1 DEF JobOK, Live
  <2>3. decidedBar[r] = "approved" /\ contentBar[r] = row[r].snapshot
    BY <2>1, <2>2 DEF decidedBar, contentBar
  <2>4. shownBar' = shownBar \cup {<<r, contentBar[r]>>}
    <3> DEFINE g == [user |-> job[p].user, req |-> r, snap |-> row[r].snapshot]
    <3>1. given' = given \cup {g} BY <2>1
    <3>2. <<g.req, g.snap>> = <<r, contentBar[r]>> BY <2>3
    <3> HIDE DEF g
    <3>3. shownBar' = shownBar \cup {<<g.req, g.snap>>} BY <3>1 DEF shownBar
    <3> QED BY <3>2, <3>3
  <2>5. decidedBar' = decidedBar /\ contentBar' = contentBar /\ allowedBar' = allowedBar
    <3>1. \A s \in Req : Live(s)' = Live(s) /\ Covered(s)' = Covered(s) BY DEF Live, Covered
    <3> QED BY <3>1 DEF decidedBar, contentBar, allowedBar
  <2>6. D!Show(r) BY <2>3, <2>4, <2>5 DEF D!Show, decidedBar, allowedBar, contentBar, shownBar
  <2> QED BY <2>2, <2>6 DEF D!Next
<1> QED BY <1>2, <1>3

\* Requests are decided once and with a content they cover, and only that content
\* is shown, whatever users, administrators and sources do in between.
THEOREM Implements == Spec => Decides
<1>1. ValueInv /\ ValueInv' /\ [Next]_valueVars => [D!Next]_(D!decisionVars)
  <2> SUFFICES ASSUME ValueInv, ValueInv', [Next]_valueVars PROVE [D!Next]_(D!decisionVars)
    OBVIOUS
  <2>1. CASE row' = row /\ given' = given
    BY <2>1, Stutters DEF D!decisionVars, decidedBar, allowedBar, contentBar, shownBar
  <2>2. CASE Next BY <2>1, <2>2, Writers, AskMaps, DecisionMaps, ShowMaps
  <2> QED BY <2>1, <2>2 DEF valueVars
<1> QED BY <1>1, ValueInit, ValueStep, DecisionInit, PTL DEF Spec, Decides, D!Spec
=============================================================================
