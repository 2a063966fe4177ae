---------------------------- MODULE MCChargePolicy ----------------------------
(* ChargePolicy for TLC: no policy file at first, and four kinds of behaviour. *)
EXTENDS ChargePolicy

NoFile == [enabled |-> FALSE, limit |-> Full, hysteresis |-> 2]

MCBounds ==
  { \* updates, cable and a listener that restarts, with one fault
    [updates |-> 2, plugs |-> 1, faults |-> 1, crashes |-> 0, losses |-> 1],
    \* faults in an update and in its undoing, and a restart
    [updates |-> 2, plugs |-> 0, faults |-> 3, crashes |-> 1, losses |-> 0],
    \* nothing fails
    [updates |-> 2, plugs |-> 2, faults |-> 0, crashes |-> 0, losses |-> 0],
    \* more events than the channel holds
    [updates |-> 1, plugs |-> 3, faults |-> 0, crashes |-> 0, losses |-> 0] }
===============================================================================
