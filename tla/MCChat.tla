------------------------------- MODULE MCChat -------------------------------
(***************************************************************************)
(* Chat with texts that are interchangeable.                               *)
(***************************************************************************)
EXTENDS Chat, TLC

CONSTANTS x, y

Scene(does, last) == [does |-> does, last |-> last]

Each == {Scene({"edit"}, 3), Scene({"edit", "delete", "admin"}, 2), Scene({"send", "delete"}, 3), Scene({"leave"}, 2)}
Nothing == {Scene({}, 2)}

Symmetry == Permutations({x, y})
=============================================================================
