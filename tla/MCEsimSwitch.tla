----------------------------- MODULE MCEsimSwitch -----------------------------
(* EsimSwitch for TLC: a card with two profiles and, in most runs, one with a *)
(* third.                                                                     *)
EXTENDS EsimSwitch

CONSTANTS p1, p2, p3, e1, e2

TwoAndOne == [e \in Eids |-> IF e = e1 THEN {p1, p2} ELSE {p3}]
OneTwo == [e \in Eids |-> IF e = e1 THEN 1 ELSE 2]

OneProfile == [e \in Eids |-> {p1}]
NoBacklog == [e \in Eids |-> 0]

\* Two changes across a restart of the agent, and two on a card with two profiles;
\* changes across exchanges of the card; across both, with a journal that cannot be
\* removed.
MCBounds ==
  { [first |-> e2, ops |-> 2, crash |-> 1, swap |-> 0, file |-> FALSE],
    [first |-> e1, ops |-> 2, crash |-> 0, swap |-> 0, file |-> FALSE],
    [first |-> e1, ops |-> 1, crash |-> 0, swap |-> 2, file |-> FALSE],
    [first |-> e1, ops |-> 1, crash |-> 1, swap |-> 1, file |-> TRUE] }

RaceBounds == {[first |-> e1, ops |-> 2, crash |-> 0, swap |-> 0, file |-> FALSE]}
===============================================================================
