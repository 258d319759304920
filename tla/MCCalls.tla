------------------------------- MODULE MCCalls -------------------------------
(* The instance of Calls for model checking: devices of one account and the *)
(* two accounts may be exchanged.                                           *)
EXTENDS Calls, TLC

Symmetric == {p \in Permutations(Devices) :
                 {{p[d] : d \in Anna}, {p[d] : d \in Ben}} = {Anna, Ben}}
=============================================================================
