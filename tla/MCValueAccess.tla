----------------------------- MODULE MCValueAccess -----------------------------
(* ValueAccess with two users, one request and two threads, for TLC.       *)
EXTENDS ValueAccess, TLC

CONSTANTS l1, l2, v1, v2

\* One line never changes, the other has either value or none.
Documents == {(l1 :> v1) @@ (l2 :> v) : v \in {v1, v2, Null}}

\* Users, requests and threads are interchangeable.
Symmetry == Permutations(User) \cup Permutations(Req) \cup Permutations(Thread)
=============================================================================
