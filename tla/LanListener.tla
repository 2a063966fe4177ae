----------------------------- MODULE LanListener -----------------------------
(***************************************************************************)
(* server::start composed with the LAN manager.  The supervisor reads the  *)
(* address and then the generation of the binding, binds a listener and    *)
(* starts its workers; a worker that sees another generation, or whose     *)
(* listener failed, raises `dead', every worker then leaves, and the       *)
(* supervisor starts over.  Requests reach the manager only through a      *)
(* listener bound to the address the LAN interface has.                    *)
(***************************************************************************)
EXTENDS LanTransition

CONSTANTS
  Workers,        \* the worker threads
  MaxFailures     \* bound: accept() failures of a listener

VARIABLES
  iface,          \* the address the LAN interface has (external)
  sup,            \* the supervisor: "address", "generation", "bind", "serve"
  bound,          \* the address it read (and bound)
  seen,           \* the generation it read
  dead,           \* the listener's `dead' flag
  working,        \* workers that have not returned
  failures        \* number of accept() failures so far

listener == <<iface, sup, bound, seen, dead, working, failures>>
lvars == <<vars, listener>>

\* The values the variables range over.
ListenerTypeOK ==
  /\ TypeOK
  /\ iface \in Ips /\ bound \in Ips
  /\ sup \in {"address", "generation", "bind", "serve"}
  /\ seen \in Nat
  /\ dead \in BOOLEAN
  /\ working \subseteq Workers
  /\ failures \in 0 .. MaxFailures

ListenerInit ==
  /\ Init
  /\ iface = fw.ip
  /\ sup = "address" /\ bound = address /\ seen = 0
  /\ dead = FALSE /\ working = {} /\ failures = 0

ReadAddress ==
  /\ up = "serving" /\ sup = "address"
  /\ bound' = address
  /\ sup' = "generation"
  /\ UNCHANGED <<vars, iface, seen, dead, working, failures>>

ReadGeneration ==
  /\ up = "serving" /\ sup = "generation"
  /\ seen' = generation
  /\ sup' = "bind"
  /\ UNCHANGED <<vars, iface, bound, dead, working, failures>>

\* An address the interface does not have cannot be bound; the supervisor
\* sleeps and reads the binding again.
Bind ==
  /\ up = "serving" /\ sup = "bind"
  /\ IF bound = iface
     THEN sup' = "serve" /\ dead' = FALSE /\ working' = Workers
     ELSE sup' = "address" /\ UNCHANGED <<dead, working>>
  /\ UNCHANGED <<vars, iface, bound, seen, failures>>

\* One turn of a worker's loop: compare generations, then look at `dead'.
WorkerLeaves(w) ==
  /\ up = "serving" /\ sup = "serve" /\ w \in working
  /\ generation # seen \/ dead
  /\ dead' = TRUE
  /\ working' = working \ {w}
  /\ UNCHANGED <<vars, iface, sup, bound, seen, failures>>

\* Mutant of ListenerFails: the worker leaves without raising `dead'.
ListenerFails_Silent(w) ==
  /\ up = "serving" /\ sup = "serve" /\ w \in working
  /\ failures < MaxFailures
  /\ failures' = failures + 1
  /\ working' = working \ {w}
  /\ UNCHANGED <<vars, iface, sup, bound, seen, dead>>

\* recv_timeout returns an error to one worker.
ListenerFails(w) ==
  /\ up = "serving" /\ sup = "serve" /\ w \in working
  /\ failures < MaxFailures
  /\ failures' = failures + 1
  /\ dead' = TRUE
  /\ working' = working \ {w}
  /\ UNCHANGED <<vars, iface, sup, bound, seen>>

Rebuild ==
  /\ up = "serving" /\ sup = "serve" /\ working = {}
  /\ sup' = "address"
  /\ UNCHANGED <<vars, iface, bound, seen, dead, working, failures>>

\* The network daemon moves the interface to the configured address some time
\* after the configuration changed.
InterfaceFollows ==
  /\ iface # fw.ip
  /\ iface' = fw.ip
  /\ UNCHANGED <<vars, sup, bound, seen, dead, working, failures>>

\* A request is answered by a worker of a listener the client can reach.
Served == sup = "serve" /\ working # {} /\ bound = iface

\* The dashboard sends the confirmation to the proposed address.
ConfirmReached == Served /\ pending # None /\ bound = pending.journal.proposed.ip

ManagerNext ==
  /\ \/ \E s \in Settings : Served /\ (Begin(s) \/ BeginSaveFails(s))
     \/ \E t \in Tokens : ConfirmReached /\ (Confirm(t) \/ ConfirmRemoveFails(t))
     \/ \E s \in Settings : StockWrite(s)
     \/ \E t \in Tokens : ApplyPending(t) \/ Expire(t)
     \/ ApplyCheck \/ DeadlinePasses \/ Restore
     \/ Restart
  /\ UNCHANGED listener

CrashListener ==
  /\ Crash
  /\ sup' = "address" /\ dead' = FALSE /\ working' = {}
  /\ UNCHANGED <<iface, bound, seen, failures>>

ListenerNext ==
  \/ ManagerNext \/ CrashListener
  \/ ReadAddress \/ ReadGeneration \/ Bind \/ Rebuild
  \/ \E w \in Workers : WorkerLeaves(w) \/ ListenerFails(w)
  \/ InterfaceFollows

\* Threads run, the network daemon acts; clients and failures owe nothing.
ListenerFairness ==
  /\ \A t \in Tokens : WF_lvars(ApplyPending(t) /\ UNCHANGED listener)
                       /\ WF_lvars(Expire(t) /\ UNCHANGED listener)
  /\ WF_lvars(ApplyCheck /\ UNCHANGED listener)
  /\ WF_lvars(DeadlinePasses /\ UNCHANGED listener)
  /\ WF_lvars(Restore /\ UNCHANGED listener)
  /\ WF_lvars(Restart /\ UNCHANGED listener)
  /\ WF_lvars(ReadAddress) /\ WF_lvars(ReadGeneration) /\ WF_lvars(Bind)
  /\ WF_lvars(Rebuild) /\ WF_lvars(InterfaceFollows)
  /\ \A w \in Workers : WF_lvars(WorkerLeaves(w))

ListenerSpec == ListenerInit /\ [][ListenerNext]_lvars /\ ListenerFairness

(***************************************************************************)
(* Properties                                                              *)
(***************************************************************************)

\* server.rs:31-36: a failed listener never leaves the agent alive with nothing
\* serving.  While the binding names the interface's address, a listener with
\* all its workers comes back.
ListenerRecovers ==
  <>[](up = "serving" /\ address = iface) => []<>(sup = "serve" /\ working = Workers)

==============================================================================
