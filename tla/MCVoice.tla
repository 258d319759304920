------------------------------ MODULE MCVoice ------------------------------
(***************************************************************************)
(* The scenes of the run of Voice.                                         *)
(***************************************************************************)
EXTENDS Voice

CONSTANTS anna, ben  \* devices

\* Two devices that signal each other, with a disturbance; one device by itself,
\* with cameras, calls, second joins and sign-outs in every order.
MCScenes ==
    {[active |-> {anna, ben}, trouble |-> 1, pending |-> 2],
     [active |-> {anna}, trouble |-> 6, pending |-> 0]}
=============================================================================
