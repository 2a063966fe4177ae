-------------------------------- MODULE Agent --------------------------------
(***************************************************************************)
(* What the modules of the agent's charge policy, USB modes and            *)
(* authentication have in common: they share no state, only the value that *)
(* stands for Option::None.                                                *)
(***************************************************************************)
CONSTANT None
==============================================================================
