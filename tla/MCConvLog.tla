----------------------------- MODULE MCConvLog -----------------------------
(***************************************************************************)
(* ConvLog on small instances.  The creator and the administrator are      *)
(* named; every other account, client id and request slot is like any      *)
(* other, so that they may be permuted.                                    *)
(***************************************************************************)
EXTENDS ConvLog, TLC

Others == Accounts \ {Creator}

Symmetric ==
    Permutations(Requests) \cup Permutations(ClientIds) \cup Permutations(Others \ Admins)

\* Bound: time passes, and timers are set, in a conversation its creator has alone
\* and that holds no more than two entries.
TimeIsSimple ==
    clock > 0 \/ retention > 0 =>
        /\ members = {Creator} /\ lastSeq <= 2
        /\ \A h \in Requests : req[h].by \in {Creator, None}
=============================================================================
