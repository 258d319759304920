------------------------------ MODULE MCPanels ------------------------------
(***************************************************************************)
(* The values and the symmetry of Panels that a cfg cannot write.          *)
(***************************************************************************)
EXTENDS Panels

\* Ann has a bot.
Owners == [b \in BotAccounts |-> "ann"]

\* The codes that can still be created are interchangeable.
NewCodes == Permutations(Codes \ OldCodes)
=============================================================================
