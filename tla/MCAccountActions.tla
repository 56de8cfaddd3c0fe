---------------------------- MODULE MCAccountActions ----------------------------
(* AccountActions on one account, for TLC.                                 *)
EXTENDS AccountActions, TLC

\* The threads are interchangeable, and so are the operation ids.
Symmetry == Permutations(ActionReq) \cup Permutations(ActionOp)

\* Bound: no row gets old, every question comes soon after the statement.
Prompt == \A o \in ActionOp : ~actionOps[o].aged
=============================================================================
