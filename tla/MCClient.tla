------------------------------ MODULE MCClient ------------------------------
(***************************************************************************)
(* Client with what may happen split over the behaviours.                  *)
(***************************************************************************)
EXTENDS Client

Each == {{"reload", "revoke"}, {"trouble", "revoke"}, {"poke", "revoke"}, {"password", "revoke"}, {"search"}}
=============================================================================
