---------------------------- MODULE MCEsimReceipts ----------------------------
(* EsimReceipts for TLC. *)
EXTENDS EsimReceipts

CONSTANTS q1, q2

\* Two changes and a Send receipts request across a restart; a change while SIMs are
\* exchanged and the state file cannot be written; a change while a profile is locked;
\* a change and a Send receipts request on threads of their own.
MCBounds ==
  { [seq |-> 3, sends |-> 1, locks |-> 0, crashes |-> 1, swaps |-> 0, file |-> FALSE, queuers |-> {q1}],
    [seq |-> 2, sends |-> 0, locks |-> 0, crashes |-> 1, swaps |-> 1, file |-> TRUE, queuers |-> {q1}],
    [seq |-> 2, sends |-> 0, locks |-> 1, crashes |-> 1, swaps |-> 0, file |-> TRUE, queuers |-> {q1}],
    [seq |-> 2, sends |-> 1, locks |-> 0, crashes |-> 0, swaps |-> 0, file |-> FALSE, queuers |-> {q1, q2}] }
===============================================================================
