----------------------------- MODULE MCHelperRun -----------------------------
(* HelperRun for TLC. *)
EXTENDS HelperRun

Scenarios ==
  {[op |-> "read", faults |-> 2, stops |-> 1, lines |-> 0, dies |-> TRUE],
   [op |-> "download", faults |-> 2, stops |-> 1, lines |-> 2, dies |-> FALSE],
   [op |-> "download", faults |-> 1, stops |-> 0, lines |-> 2, dies |-> TRUE]}
Margins == [read |-> 2, download |-> 5]
===============================================================================
