----------------------------- MODULE MCEsimDetect -----------------------------
(* EsimDetect for TLC: SIMs with operators of their own. *)
EXTENDS EsimDetect

OwnOperator  == [s \in Sims |-> s]
===============================================================================
