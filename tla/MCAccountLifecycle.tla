---------------------------- MODULE MCAccountLifecycle ----------------------------
(* AccountLifecycle on one account, for TLC.                               *)
EXTENDS AccountLifecycle, TLC

Busy == Cardinality({p \in ActionReq : act[p].pc # "idle"})
        + Cardinality({p \in PermReq : perm[p].pc # "idle"})
        + Cardinality({p \in AcctReq : mgr[p].pc # "idle"})

\* Bound: no account has an end date, no password is recorded by hand, a creation
\* that died is not taken up again (ManagedAccounts is checked with all three), and
\* creations grant everything.
PlainRecords ==
    /\ \A a \in Account : ~record[a].timed /\ ~record[a].typed /\ ~record[a].aged
    /\ \A p \in AcctReq : mgr[p].creating => mgr[p].want = Priv

\* Bound: at most two requests are at work at a time.
Pairwise == Busy <= 2 /\ PlainRecords

\* No two requests overlap, so a violation needs no race.
OneAtATime == Busy <= 1
=============================================================================
