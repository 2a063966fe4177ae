----------------------------- MODULE MCUsbSwitch -----------------------------
(* UsbSwitch for TLC. *)
EXTENDS UsbSwitch

Scenarios ==
  {[requests |-> 2, faults |-> 2, stock |-> 0, crashes |-> 1],
   [requests |-> 2, faults |-> 1, stock |-> 1, crashes |-> 0]}
===============================================================================
