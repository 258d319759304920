------------------------------ MODULE MCRoster ------------------------------
(***************************************************************************)
(* Roster with the owner's device and another member's.                    *)
(***************************************************************************)
EXTENDS Roster

DeviceAccounts == [d \in Devices |-> IF d = "tablet" THEN "ben" ELSE "anna"]

\* The owner and another member, side by side and one after the other with a member who
\* leaves; keys that change; a longer history; a purge, and an owner who leaves.
Both    == [active |-> Devices, deceived |-> {}, forgetful |-> {}, leaving |-> {}, last |-> 2, busy |-> 2]
Leaving == [Both EXCEPT !.leaving = {"tablet"}, !.busy = 1]
Keyed   == [Both EXCEPT !.active = {"laptop"}, !.deceived = {"laptop"}, !.busy = 1]
Longer  == [Both EXCEPT !.active = {"laptop"}, !.last = 3, !.busy = 1]
Purging == [Both EXCEPT !.active = {"laptop"}, !.forgetful = {"laptop"}, !.leaving = {"laptop"}]

AllWorlds == {Both, Leaving, Keyed, Longer, Purging}
Alone     == {[Both EXCEPT !.active = {"laptop"}]}
=============================================================================
