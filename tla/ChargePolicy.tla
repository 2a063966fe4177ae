----------------------------- MODULE ChargePolicy -----------------------------
(***************************************************************************)
(* agent/src/charge_policy.rs with the charger events of event_bus.rs: the *)
(* charge limit, the manual stop and the thread that reconciles the        *)
(* charger with them.  update() and reconcile() hold one mutex across the  *)
(* charger's reads and writes and the policy file; the charger, the        *)
(* battery and the event queue move under them.  Updates that are rejected *)
(* before the first charger read change nothing and are left out.          *)
(***************************************************************************)
EXTENDS Agent, Integers, Sequences

CONSTANTS
  Full,         \* capacities are 0..Full (percent in the code)
  Limits,       \* charge limits a policy may have (50..100 in the code)
  Hystereses,   \* and its hystereses (1..20 in the code)
  Default,      \* the policy without a file: disabled
  QueueCap,     \* CHANNEL_CAPACITY (64 in the code)
  Bounds        \* bounds, one of which a behaviour has: API updates, times the cable is put
                \* in or out, charger and file operations that fail, restarts of the agent,
                \* exits of `ubus listen'

Policies == [enabled : BOOLEAN, limit : Limits, hysteresis : Hystereses]

\* An update() in progress: its next step, the charger's state before it and wanted by it,
\* the policy and the override it will commit, and what has failed in it.
Requests == [at : {"set", "undo", "persist", "restore", "resave"}, before : BOOLEAN, target : BOOLEAN,
             policy : Policies, saves : BOOLEAN, override : BOOLEAN, faults : Nat]

Ledger == [updates : Nat, plugs : Nat, faults : Nat, crashes : Nat, losses : Nat]

ASSUME ChargeConstants ==
  /\ Full \in Nat /\ Limits \subseteq 0..Full /\ Hystereses \subseteq Nat \ {0}
  /\ Default \in Policies /\ ~Default.enabled
  /\ QueueCap \in Nat \ {0} /\ None \notin Policies \cup Requests
  /\ Bounds \subseteq Ledger

VARIABLES
  plugged, capacity,  \* the cable and the battery
  stopped,    \* direct_power_supply_mode: the charger does not charge
  disk,       \* charge_limit.json
  policy, override, failed,   \* LimitState: policy, manual_override, last_error
  listening, queue,   \* ubus listen, and the enforcer's channel: TRUE for an unplug event
  enforcer,   \* the enforcer's thread: [at, unplugged, target]
  request,    \* the update() that holds the lock, or None
  due,        \* ghost: the charger was unplugged while stopped, and still is stopped
  budget, bounds   \* what has happened of what is bounded, and the bounds

battery == <<plugged, capacity>>
bus == <<listening, queue>>
state == <<policy, override, failed>>
vars == <<battery, stopped, disk, state, bus, enforcer, request, due, budget, bounds>>

Spend(what) == budget' = [budget EXCEPT ![what] = @ + 1]
Left(what) == budget[what] < bounds[what]

Updates ==
  {u \in [stopped : BOOLEAN \cup {None}, enabled : BOOLEAN \cup {None},
           limit : Limits \cup {None}, hysteresis : Hystereses \cup {None}] :
     \E f \in DOMAIN u : u[f] # None}

\* The values the variables range over; dispatch() never fills the channel past its capacity.
TypeOK ==
  /\ plugged \in BOOLEAN /\ capacity \in 0..Full /\ stopped \in BOOLEAN
  /\ disk \in Policies \cup {None} /\ policy \in Policies
  /\ override \in BOOLEAN /\ failed \in BOOLEAN
  /\ listening \in BOOLEAN /\ queue \in Seq(BOOLEAN) /\ Len(queue) <= QueueCap
  /\ enforcer \in [at : {"tick", "set", "wait"}, unplugged : BOOLEAN, target : BOOLEAN]
  /\ request \in Requests \cup {None}
  /\ due \in BOOLEAN
  /\ budget \in Ledger /\ bounds \in Bounds

\* What new() makes of the file; of one it cannot read or that is not a policy, the default
\* and an error.
Loaded(d) == IF d = None THEN Default ELSE d

Ticking == [at |-> "tick", unplugged |-> FALSE, target |-> FALSE]
Waiting == [at |-> "wait", unplugged |-> FALSE, target |-> FALSE]

Init ==
  /\ plugged \in BOOLEAN /\ capacity \in 0..Full /\ stopped = FALSE
  /\ disk = None /\ policy = Loaded(disk) /\ override = FALSE /\ failed = FALSE
  /\ listening = TRUE /\ queue = <<>>
  /\ enforcer = Ticking /\ request = None
  /\ due = FALSE
  /\ budget = [updates |-> 0, plugs |-> 0, faults |-> 0, crashes |-> 0, losses |-> 0]
  /\ bounds \in Bounds

Unlocked == enforcer.at # "set" /\ request = None

\* saturating_sub: the level at which charging resumes.
Resume(p) == IF p.limit >= p.hysteresis THEN p.limit - p.hysteresis ELSE 0

Desired_AboveLimit(p, discharging) ==
  /\ p.enabled /\ ~(discharging /\ ~stopped)
  /\ capacity > p.limit \/ (capacity > Resume(p) /\ stopped)

Desired(p, discharging) ==
  /\ p.enabled /\ ~(discharging /\ ~stopped)
  /\ capacity >= p.limit \/ (capacity > Resume(p) /\ stopped)

(***************************************************************************)
(* The battery, the cable, and the events they cause.                      *)
(***************************************************************************)
Drift ==
  /\ \/ plugged /\ ~stopped /\ capacity < Full /\ capacity' = capacity + 1
     \/ (~plugged \/ stopped) /\ capacity > 0 /\ capacity' = capacity - 1
  /\ UNCHANGED <<plugged, stopped, disk, state, bus, enforcer, request, due, budget>>

\* EventBus::dispatch(): a full channel drops the event; without a listener nobody sees it.
Dispatch(unplug) ==
  queue' = IF listening /\ Len(queue) < QueueCap THEN Append(queue, unplug) ELSE queue

Cable ==
  /\ Left("plugs") /\ Spend("plugs")
  /\ plugged' = ~plugged /\ Dispatch(plugged)
  /\ due' = (plugged /\ stopped)
  /\ UNCHANGED <<capacity, stopped, disk, state, listening, enforcer, request>>

ListenerExits ==
  /\ listening /\ Left("losses") /\ Spend("losses")
  /\ listening' = FALSE
  /\ UNCHANGED <<battery, stopped, disk, state, queue, enforcer, request, due>>

ListenerRestarts ==
  /\ ~listening /\ listening' = TRUE
  /\ UNCHANGED <<battery, stopped, disk, state, queue, enforcer, request, due, budget>>

(***************************************************************************)
(* The charger.  A write is read back until it is confirmed; one that      *)
(* fails may have been applied.                                            *)
(***************************************************************************)
Charge(s) ==
  /\ stopped' = s
  /\ due' = (due /\ s)

Faulty == Left("faults") /\ Spend("faults")

\* The battery's status: an unreadable one counts as not discharging.
Discharging == {~plugged} \cup (IF Left("faults") THEN {FALSE} ELSE {})

(***************************************************************************)
(* start() and reconcile().                                                *)
(***************************************************************************)
Skips_WithPolicy == ~policy.enabled \/ override

Skips == ~enforcer.unplugged /\ (~policy.enabled \/ override)

\* reconcile() ends: without an error, an unplug event has ended the manual stop.
Reconciled ==
  /\ override' = (override /\ ~enforcer.unplugged) /\ failed' = FALSE
  /\ enforcer' = Waiting

Reconcile ==
  /\ enforcer.at = "tick" /\ Unlocked
  /\ \/ Skips /\ enforcer' = Waiting /\ UNCHANGED <<override, failed, budget>>
     \/ ~Skips /\ Faulty /\ failed' = TRUE /\ enforcer' = Waiting /\ UNCHANGED override
     \/ /\ ~Skips
        /\ \E d \in Discharging :
             LET target == ~enforcer.unplugged /\ Desired(policy, d)
             IN \/ target = stopped /\ Reconciled
                \/ /\ target # stopped
                   /\ enforcer' = [enforcer EXCEPT !.at = "set", !.target = target]
                   /\ UNCHANGED <<override, failed>>
        /\ UNCHANGED budget
  /\ UNCHANGED <<battery, stopped, disk, policy, bus, request, due>>

ReconcileSets ==
  /\ enforcer.at = "set"
  /\ \/ Charge(enforcer.target) /\ Reconciled /\ UNCHANGED budget
     \/ /\ Faulty /\ \E s \in BOOLEAN : Charge(s)
        /\ failed' = TRUE /\ enforcer' = Waiting /\ UNCHANGED override
  /\ UNCHANGED <<battery, disk, policy, bus, request>>

\* recv_timeout(): an event, or the poll interval is over.
Wakes ==
  /\ enforcer.at = "wait"
  /\ \/ /\ queue # <<>> /\ queue' = Tail(queue)
        /\ enforcer' = [Ticking EXCEPT !.unplugged = Head(queue)]
     \/ queue = <<>> /\ enforcer' = Ticking /\ UNCHANGED queue
  /\ UNCHANGED <<battery, stopped, disk, state, listening, request, due, budget>>

(***************************************************************************)
(* update(): the charger first, then the file, then the state in memory.   *)
(***************************************************************************)
Merged(u) == [policy EXCEPT !.enabled = IF u.enabled = None THEN @ ELSE u.enabled,
                            !.limit = IF u.limit = None THEN @ ELSE u.limit,
                            !.hysteresis = IF u.hysteresis = None THEN @ ELSE u.hysteresis]

Target(u, discharging) == IF u.stopped = None THEN Desired(Merged(u), discharging) ELSE u.stopped

Begin(u, discharging) ==
  request' = [at |-> "set", before |-> stopped, target |-> Target(u, discharging), policy |-> Merged(u),
              saves |-> u.enabled # None \/ u.limit # None \/ u.hysteresis # None,
              override |-> u.stopped = TRUE, faults |-> 0]

Update_NoLock ==
  /\ request = None /\ Left("updates")
  /\ \E u \in Updates : \E d \in Discharging : Begin(u, d)
  /\ Spend("updates") /\ UNCHANGED failed
  /\ UNCHANGED <<battery, stopped, disk, policy, override, bus, enforcer, due>>

Update ==
  /\ Unlocked /\ Left("updates")
  /\ \/ \E u \in Updates : \E d \in Discharging : Begin(u, d) /\ Spend("updates") /\ UNCHANGED failed
     \/ \* the charger cannot be read
        /\ Left("faults")
        /\ budget' = [budget EXCEPT !.updates = @ + 1, !.faults = @ + 1]
        /\ failed' = TRUE /\ UNCHANGED request
  /\ UNCHANGED <<battery, stopped, disk, policy, override, bus, enforcer, due>>

Goes(at) == request' = [request EXCEPT !.at = at]
GoesFaulty(at) == Faulty /\ request' = [request EXCEPT !.at = at, !.faults = @ + 1]

Commit ==
  /\ policy' = request.policy /\ override' = request.override
  /\ failed' = FALSE /\ request' = None

Fails == failed' = TRUE /\ request' = None /\ UNCHANGED <<policy, override>>

UpdateSets ==
  /\ request # None /\ request.at = "set"
  /\ \/ /\ Charge(request.target) /\ UNCHANGED budget
        /\ IF request.saves THEN Goes("persist") /\ UNCHANGED state ELSE Commit
     \/ /\ \E s \in BOOLEAN : Charge(s)
        /\ GoesFaulty("undo") /\ UNCHANGED state
  /\ UNCHANGED <<battery, disk, bus, enforcer>>

UpdateUndoes ==
  /\ request # None /\ request.at = "undo"
  /\ \/ Charge(request.before) /\ UNCHANGED budget
     \/ Faulty /\ \E s \in BOOLEAN : Charge(s)
  /\ Fails
  /\ UNCHANGED <<battery, disk, bus, enforcer>>

\* A write that fails may have replaced the file already.
UpdatePersists ==
  /\ request # None /\ request.at = "persist"
  /\ \/ disk' = request.policy /\ Commit /\ UNCHANGED budget
     \/ disk' \in {disk, request.policy} /\ GoesFaulty("restore") /\ UNCHANGED state
  /\ UNCHANGED <<battery, stopped, bus, enforcer, due>>

UpdateRestores_NoResave ==
  /\ request # None /\ request.at = "restore"
  /\ \/ Charge(request.before) /\ UNCHANGED budget
     \/ Faulty /\ \E s \in BOOLEAN : Charge(s)
  /\ Fails
  /\ UNCHANGED <<battery, disk, bus, enforcer>>

UpdateRestores ==
  /\ request # None /\ request.at = "restore"
  /\ \/ Charge(request.before) /\ Goes("resave") /\ UNCHANGED budget
     \/ \E s \in BOOLEAN : Charge(s) /\ GoesFaulty("resave")
  /\ UNCHANGED <<battery, disk, state, bus, enforcer>>

UpdateResaves ==
  /\ request # None /\ request.at = "resave"
  /\ \/ disk' = policy /\ UNCHANGED budget
     \/ Faulty /\ disk' \in {disk, policy}
  /\ Fails
  /\ UNCHANGED <<battery, stopped, bus, enforcer, due>>

\* The agent is killed and started again: new() and start().
Crash ==
  /\ Left("crashes") /\ override' = FALSE
  /\ \/ policy' = Loaded(disk) /\ failed' = FALSE /\ Spend("crashes")
     \/ /\ disk # None /\ policy' = Default /\ failed' = TRUE
        /\ Left("faults") /\ budget' = [budget EXCEPT !.crashes = @ + 1, !.faults = @ + 1]
  /\ listening' = TRUE /\ queue' = <<>> /\ enforcer' = Ticking /\ request' = None
  /\ UNCHANGED <<battery, stopped, disk, due>>

EnforcerStep == Reconcile \/ ReconcileSets \/ Wakes
UpdateStep == UpdateSets \/ UpdateUndoes \/ UpdatePersists \/ UpdateRestores \/ UpdateResaves
Next ==
  /\ Drift \/ Cable \/ ListenerExits \/ ListenerRestarts \/ EnforcerStep \/ Update \/ UpdateStep \/ Crash
  /\ UNCHANGED bounds

\* Threads run and recv_timeout() returns at the latest after the poll interval.
Fairness == WF_vars(EnforcerStep /\ UNCHANGED bounds) /\ WF_vars(UpdateStep /\ UNCHANGED bounds)

Spec == Init /\ [][Next]_vars /\ Fairness

(***************************************************************************)
(* Properties                                                              *)
(***************************************************************************)

\* charge_policy.rs:98-100: a tick cannot apply an old policy after the user disabled it.
EnforcerObeysUser ==
  [][enforcer.at = "set" /\ enforcer'.at = "wait" /\ ~enforcer.unplugged /\ stopped' # stopped
       => policy.enabled /\ ~override]_vars

UpdateFails == request # None /\ request' = None /\ failed' /\ budget'.crashes = budget.crashes
FaultsOfUpdate == request.faults + (budget'.faults - budget.faults)

\* ARCHITECTURE.md:138: read-back and rollback on failure.  An update in which one thing
\* failed leaves the charger and the policy as they were; the file is the policy's again,
\* or was not touched.
FailedUpdateIsUndone ==
  [][UpdateFails /\ FaultsOfUpdate <= 1
       => /\ stopped' = request.before /\ policy' = policy
          /\ disk' = policy \/ (request.at = "undo" /\ disk' = disk)]_vars

Enforced == plugged /\ policy.enabled /\ ~override

\* ARCHITECTURE.md:68: a battery at its limit is not charged, one that fell to the resume
\* level is, whatever was missed before.
PolicyEnforced ==
  /\ (Enforced /\ capacity >= policy.limit) ~> (~Enforced \/ capacity < policy.limit \/ stopped)
  /\ (Enforced /\ capacity <= Resume(policy)) ~> (~Enforced \/ capacity > Resume(policy) \/ ~stopped)

\* docs/SAFETY.md:239-240: "re-enables on charger unplug", when the event is delivered and
\* the charger answers.
UnplugReenables ==
  due ~> (~due \/ budget.losses > 0 \/ budget.faults > 0 \/ budget.crashes > 0)
===============================================================================
