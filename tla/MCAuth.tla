-------------------------------- MODULE MCAuth --------------------------------
(* Auth for TLC: many wrong credentials, also with a clock that is set, or many sessions and such a clock. *)
EXTENDS Auth, TLC

MCBounds ==
  { [time |-> 5, logins |-> 1, tries |-> 5, jumps |-> {}],
    [time |-> 2, logins |-> 0, tries |-> 5, jumps |-> {-3, 3}],
    [time |-> 4, logins |-> 3, tries |-> 1, jumps |-> {-3, 3}] }

WorkersAlike == Permutations(Workers)
===============================================================================
