-------------------------- MODULE MCInstallerDeploy --------------------------
(* A modem, two transactions, and one mix of failures per behaviour.          *)
EXTENDS InstallerDeploy

MCTargets == {"rc", "www", "manifest"}
MCWrites == [agent |-> {"rc"}, ssh |-> {"rc"}, dashboard |-> {"www"}, manifest |-> {"manifest"}]
Mix(b, f, l, a, s, n) ==
  [begins |-> b, faults |-> f, losses |-> l, abandons |-> a, stops |-> s, newest |-> n]
MCBounds == {Mix(1, 1, 0, 0, 1, 2), Mix(2, 0, 0, 1, 0, 1), Mix(2, 0, 1, 0, 0, 1), Mix(1, 1, 1, 0, 0, 1)}
=============================================================================
