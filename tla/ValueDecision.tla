----------------------------- MODULE ValueDecision -----------------------------
(***************************************************************************)
(* What the approval of a secret value promises, without reviewers, checks *)
(* and races: a request names the contents it may ever lead to, is decided *)
(* once, and nothing but the content it was approved with is ever shown.   *)
(***************************************************************************)
CONSTANTS Req,      \* request ids
          Content   \* what a snapshot can hold

VARIABLES
    decided,    \* per request: "none", "pending", "approved" or "rejected"
    allowed,    \* the contents the request covers
    content,    \* what was captured when it was approved
    shown       \* the pairs of request and content handed out so far

decisionVars == <<decided, allowed, content, shown>>

Init ==
    /\ decided = [r \in Req |-> "none"]
    /\ allowed = [r \in Req |-> {}]
    /\ content \in [Req -> Content]
    /\ shown = {}

Ask(r) ==
    /\ decided[r] = "none"
    /\ decided' = [decided EXCEPT ![r] = "pending"]
    /\ allowed'[r] \in SUBSET Content
    /\ allowed' = [allowed EXCEPT ![r] = allowed'[r]]
    /\ UNCHANGED <<content, shown>>

Approve(r, c) ==
    /\ decided[r] = "pending"
    /\ c \in allowed[r]
    /\ decided' = [decided EXCEPT ![r] = "approved"]
    /\ content' = [content EXCEPT ![r] = c]
    /\ UNCHANGED <<allowed, shown>>

Reject(r) ==
    /\ decided[r] = "pending"
    /\ decided' = [decided EXCEPT ![r] = "rejected"]
    /\ UNCHANGED <<allowed, content, shown>>

Show(r) ==
    /\ decided[r] = "approved"
    /\ shown' = shown \cup {<<r, content[r]>>}
    /\ UNCHANGED <<decided, allowed, content>>

Next == \E r \in Req : \/ Ask(r)
                       \/ \E c \in Content : Approve(r, c)
                       \/ Reject(r)
                       \/ Show(r)

Spec == Init /\ [][Next]_decisionVars
=============================================================================
