---------------------------- MODULE MCEsimDownload ----------------------------
(* EsimDownload for TLC. *)
EXTENDS EsimDownload

\* A download with cancels, restarts and a card that may refuse, followed by another
\* change; and one whose card is exchanged.
MCBounds ==
  { [crash |-> 2, swap |-> 0, cancel |-> 2, refuses |-> TRUE, next |-> TRUE],
    [crash |-> 1, swap |-> 2, cancel |-> 1, refuses |-> TRUE, next |-> FALSE] }
===============================================================================
