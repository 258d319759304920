----------------------------- MODULE MCSessions -----------------------------
\* The scenes of the run of Sessions.
EXTENDS Sessions

\* The account's own devices with a challenge under faults, or with a second
\* password change, and an administrator under faults, both without.
MCScenes ==
    {[admin |-> FALSE, faults |-> TRUE, gens |-> 1, challenges |-> 1],
     [admin |-> FALSE, faults |-> FALSE, gens |-> 2, challenges |-> 0],
     [admin |-> TRUE, faults |-> TRUE, gens |-> 1, challenges |-> 0]}
=============================================================================
