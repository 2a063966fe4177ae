----------------------------- MODULE AgentProofs -----------------------------
(***************************************************************************)
(* Three components of the agent that share nothing but their process:     *)
(* ChargePolicy, for every limit, channel size and number of updates,      *)
(* faults, restarts and lost events (a tick never applies a policy the     *)
(* user has replaced, an update in which one thing failed is undone);      *)
(* UsbSwitch, for every set of links and number of faults (a restoration   *)
(* that is called complete is, and a lost network is reported); and Auth,  *)
(* for every number of clients and threads and all limits (the guesses     *)
(* before a wait are bounded, and exactly the right sessions are accepted).*)
(***************************************************************************)
EXTENDS ChargePolicy, UsbSwitch, Auth, FiniteSetTheorems, SequenceTheorems, TLAPS

(***************************************************************************)
(* ChargePolicy.                                                           *)
(***************************************************************************)
\* One holder of the mutex at a time: update(), or reconcile() before its charger write.
OneHolder == ~(enforcer.at = "set" /\ request # None)

\* What reconcile() saw of the policy still stands when it writes.
TickIsCurrent == enforcer.at = "set" /\ ~enforcer.unplugged => policy.enabled /\ ~override

\* What an update has behind it at each step.
UpdateIsKnown ==
  request # None =>
    /\ request.at \in {"set", "persist"} => request.faults = 0
    /\ request.at \in {"undo", "restore"} => request.faults = 1
    /\ request.at = "resave" => request.faults >= 1
    /\ request.at = "resave" /\ request.faults = 1 => stopped = request.before

ChargeInv == TypeOK /\ OneHolder /\ TickIsCurrent /\ UpdateIsKnown

\* What new() makes of the policy file, present or not, is a policy.
LEMMA LoadedTyped == ASSUME NEW d \in Policies \cup {None} PROVE Loaded(d) \in Policies
  BY ChargeConstants DEF Loaded

\* desired() decides between stopped and running.
LEMMA DesiredTyped ==
  ASSUME NEW p, NEW d, TypeOK PROVE Desired(p, d) \in BOOLEAN
  BY DEF Desired

\* A policy merged with an update's fields is a policy.
LEMMA MergedTyped == ASSUME TypeOK, NEW u \in Updates PROVE Merged(u) \in Policies
<1>1. policy \in Policies BY DEF TypeOK
<1>2. /\ u.enabled \in BOOLEAN \cup {None} /\ u.limit \in Limits \cup {None}
      /\ u.hysteresis \in Hystereses \cup {None}
  BY DEF Updates
<1>3. QED BY <1>1, <1>2 DEF Merged, Policies

\* The invariant holds when the agent starts.
LEMMA InitHolds == Init => ChargeInv
<1>1. SUFFICES ASSUME Init PROVE ChargeInv OBVIOUS
<1>2. disk \in Policies \cup {None} /\ policy \in Policies
  BY <1>1, LoadedTyped DEF Init
<1>3. enforcer \in [at : {"tick", "set", "wait"}, unplugged : BOOLEAN, target : BOOLEAN] /\ enforcer.at = "tick"
  BY <1>1 DEF Init, Ticking
<1>4. due \in BOOLEAN BY <1>1 DEF Init
<1>5. queue \in Seq(BOOLEAN) /\ Len(queue) <= QueueCap BY <1>1, ChargeConstants DEF Init
<1>6. budget \in Ledger /\ bounds \in Bounds BY <1>1 DEF Init, Ledger
<1>7. TypeOK BY <1>1, <1>2, <1>3, <1>4, <1>5, <1>6 DEF Init, TypeOK
<1>8. QED BY <1>1, <1>3, <1>7 DEF Init, ChargeInv, OneHolder, TickIsCurrent, UpdateIsKnown

Phases == {"set", "undo", "persist", "restore", "resave"}
Threads == [at : {"tick", "set", "wait"}, unplugged : BOOLEAN, target : BOOLEAN]

\* A bounded event adds one to its own counter.
LEMMA SpendTyped ==
  ASSUME NEW what \in {"updates", "plugs", "faults", "crashes", "losses"}, budget \in Ledger, Spend(what)
  PROVE  budget' \in Ledger
BY DEF Spend, Ledger

\* A restart that cannot load the policy counts as a restart and as a fault.
LEMMA BothTyped ==
  ASSUME NEW b \in Ledger
  PROVE  [b EXCEPT !.crashes = @ + 1, !.faults = @ + 1] \in Ledger
<1> DEFINE c == [b EXCEPT !.crashes = b.crashes + 1]
<1>1. b.crashes + 1 \in Nat /\ b.faults + 1 \in Nat BY DEF Ledger
<1>2. c \in Ledger /\ c.faults = b.faults BY <1>1 DEF Ledger
<1>3. [c EXCEPT !.faults = b.faults + 1] \in Ledger
  <2> HIDE DEF c
  <2> QED BY <1>1, <1>2 DEF Ledger
<1>4. QED BY <1>3

\* A fault is counted once.
LEMMA FaultyCounts ==
  ASSUME budget \in Ledger, Faulty
  PROVE  budget' \in Ledger /\ budget'.faults = budget.faults + 1
<1>1. budget' = [budget EXCEPT !.faults = @ + 1] BY DEF Faulty, Spend
<1>2. QED BY <1>1 DEF Ledger

\* set_stopped() leaves the charger stopped or running, failed or not.
LEMMA ChargeTyped ==
  ASSUME NEW s \in BOOLEAN, due \in BOOLEAN, Charge(s)
  PROVE  stopped' = s /\ due' \in BOOLEAN
BY DEF Charge

\* An update that goes on to its next step is still an update.
LEMMA GoesTyped ==
  ASSUME NEW at \in Phases, request \in Requests, Goes(at)
  PROVE  /\ request' \in Requests /\ request'.at = at /\ request'.faults = request.faults
         /\ request'.before = request.before
BY DEF Goes, Requests, Phases

\* So is one that goes on after a fault.
LEMMA GoesFaultyTyped ==
  ASSUME NEW at \in Phases, request \in Requests, budget \in Ledger, GoesFaulty(at)
  PROVE  /\ request' \in Requests /\ request'.at = at /\ request'.faults = request.faults + 1
         /\ request'.before = request.before /\ budget' \in Ledger
<1>1. request' = [request EXCEPT !.at = at, !.faults = @ + 1] /\ Faulty BY DEF GoesFaulty
<1>2. budget' \in Ledger BY <1>1, FaultyCounts
<1>3. request.faults + 1 \in Nat BY DEF Requests
<1>4. request' \in Requests BY <1>1, <1>3 DEF Requests, Phases
<1>5. request'.at = at /\ request'.faults = request.faults + 1 /\ request'.before = request.before
  BY <1>1 DEF Requests
<1>6. QED BY <1>2, <1>4, <1>5

\* What reconcile() leaves behind has its type.
LEMMA ReconciledTyped ==
  ASSUME Reconciled PROVE enforcer' \in Threads /\ enforcer'.at = "wait" /\ override' \in BOOLEAN /\ failed' \in BOOLEAN
BY DEF Reconciled, Waiting, Threads

\* Every step of the battery, the bus, the two threads and a restart keeps the invariant.
LEMMA StepHolds == ChargeInv /\ [Next]_vars => ChargeInv'
<1>1. SUFFICES ASSUME ChargeInv, [Next]_vars PROVE ChargeInv' OBVIOUS
<1>t. TypeOK /\ OneHolder /\ TickIsCurrent /\ UpdateIsKnown BY <1>1 DEF ChargeInv
<1>r. request # None => request \in Requests BY <1>t DEF TypeOK, Requests, Phases
<1>b. budget \in Ledger BY <1>t DEF TypeOK, Ledger
<1>e. enforcer \in Threads BY <1>t DEF TypeOK, Threads
<1>g. due \in BOOLEAN BY <1>t DEF TypeOK
<1>n. bounds' \in Bounds BY <1>1, <1>t DEF Next, vars, TypeOK
<1> USE <1>n DEF battery, bus, state
<1>2. CASE UNCHANGED vars
  BY <1>2, <1>t DEF vars, ChargeInv, TypeOK, OneHolder, TickIsCurrent, UpdateIsKnown
<1>3. CASE Drift
  <2>0. \/ capacity < Full /\ capacity' = capacity + 1
        \/ capacity > 0 /\ capacity' = capacity - 1
    BY <1>3 DEF Drift
  <2>1. capacity' \in 0..Full
    <3>1. capacity \in 0..Full /\ Full \in Nat BY <1>t, ChargeConstants DEF TypeOK
    <3>2. QED BY <2>0, <3>1
  <2>2. TypeOK' BY <2>1, <1>3, <1>t DEF Drift, TypeOK
  <2>3. QED BY <2>2, <1>3, <1>t DEF Drift, ChargeInv, OneHolder, TickIsCurrent, UpdateIsKnown
<1>4. CASE Cable
  <2>1. plugged' \in BOOLEAN /\ due' \in BOOLEAN
    BY <1>4, <1>t DEF Cable, TypeOK
  <2>2. queue' \in Seq(BOOLEAN) /\ Len(queue') <= QueueCap
    <3>1. queue \in Seq(BOOLEAN) /\ Len(queue) <= QueueCap /\ plugged \in BOOLEAN BY <1>t DEF TypeOK
    <3>2. CASE queue' = queue BY <3>1, <3>2
    <3>3. CASE Len(queue) < QueueCap /\ queue' = Append(queue, plugged) BY <3>1, <3>3, ChargeConstants
    <3>4. QED BY <3>2, <3>3, <1>4 DEF Cable, Dispatch
  <2>3. budget' \in Ledger BY <1>4, <1>b, SpendTyped DEF Cable
  <2>u. UNCHANGED <<capacity, stopped, disk, state, listening, enforcer, request>> BY <1>4 DEF Cable
  <2>v. /\ capacity' \in 0..Full /\ stopped' \in BOOLEAN /\ disk' \in Policies \cup {None} /\ policy' \in Policies
        /\ override' \in BOOLEAN /\ failed' \in BOOLEAN /\ listening' \in BOOLEAN
        /\ enforcer' \in Threads /\ request' \in Requests \cup {None}
    BY <2>u, <1>t, <1>e DEF TypeOK
  <2>4. TypeOK' BY <2>1, <2>2, <2>3, <2>v DEF TypeOK, Ledger, Threads
  <2>5. QED BY <2>4, <1>4, <1>t DEF Cable, ChargeInv, OneHolder, TickIsCurrent, UpdateIsKnown
<1>5. CASE ListenerExits
  <2>1. budget' \in Ledger BY <1>5, <1>b, SpendTyped DEF ListenerExits
  <2>2. TypeOK' BY <2>1, <1>5, <1>t DEF ListenerExits, TypeOK, Ledger
  <2>3. QED BY <2>2, <1>5, <1>t DEF ListenerExits, ChargeInv, OneHolder, TickIsCurrent, UpdateIsKnown
<1>6. CASE ListenerRestarts
  BY <1>6, <1>t DEF ListenerRestarts, ChargeInv, TypeOK, OneHolder, TickIsCurrent, UpdateIsKnown
<1>7. CASE Reconcile
  <2>1. /\ enforcer' \in Threads /\ override' \in BOOLEAN /\ failed' \in BOOLEAN /\ budget' \in Ledger
        /\ TickIsCurrent'
    <3>1. CASE Skips /\ enforcer' = Waiting /\ UNCHANGED <<override, failed, budget>>
      BY <3>1, <1>t, <1>b DEF Waiting, Threads, TypeOK, TickIsCurrent
    <3>2. CASE ~Skips /\ Faulty /\ failed' = TRUE /\ enforcer' = Waiting /\ UNCHANGED override
      BY <3>2, <1>t, <1>b, FaultyCounts DEF Waiting, Threads, TypeOK, TickIsCurrent
    <3>3. ASSUME NEW d \in Discharging, ~Skips, UNCHANGED <<budget, policy>>,
                 \/ Reconciled
                 \/ /\ enforcer' = [enforcer EXCEPT !.at = "set", !.target = ~enforcer.unplugged /\ Desired(policy, d)]
                    /\ UNCHANGED <<override, failed>>
          PROVE  /\ enforcer' \in Threads /\ override' \in BOOLEAN /\ failed' \in BOOLEAN
                 /\ budget' \in Ledger /\ TickIsCurrent'
      <4>1. CASE Reconciled BY <4>1, <3>3, <1>b, ReconciledTyped DEF TickIsCurrent
      <4>2. CASE /\ enforcer' = [enforcer EXCEPT !.at = "set", !.target = ~enforcer.unplugged /\ Desired(policy, d)]
                 /\ UNCHANGED <<override, failed>>
        <5>1. enforcer' \in Threads /\ enforcer'.unplugged = enforcer.unplugged
          BY <4>2, <1>e DEF Threads
        <5>2. override' \in BOOLEAN /\ failed' \in BOOLEAN BY <4>2, <1>t DEF TypeOK
        <5>3. QED BY <5>1, <5>2, <4>2, <3>3, <1>b DEF Skips, TickIsCurrent
      <4>3. QED BY <4>1, <4>2, <3>3
    <3>4. QED BY <3>1, <3>2, <3>3, <1>7 DEF Reconcile
  <2>2. request = None /\ request' = None BY <1>7 DEF Reconcile, Unlocked
  <2>3. TypeOK' BY <2>1, <2>2, <1>7, <1>t DEF Reconcile, TypeOK, Threads, Ledger
  <2>4. QED BY <2>1, <2>2, <2>3 DEF ChargeInv, OneHolder, UpdateIsKnown
<1>8. CASE ReconcileSets
  <2>1. /\ enforcer' \in Threads /\ enforcer'.at = "wait" /\ override' \in BOOLEAN /\ failed' \in BOOLEAN
        /\ stopped' \in BOOLEAN /\ due' \in BOOLEAN /\ budget' \in Ledger
    <3>1. CASE Charge(enforcer.target) /\ Reconciled /\ UNCHANGED budget
      <4>1. enforcer.target \in BOOLEAN BY <1>e DEF Threads
      <4>2. QED BY <3>1, <4>1, <1>g, <1>b, ChargeTyped, ReconciledTyped
    <3>2. CASE Faulty /\ (\E s \in BOOLEAN : Charge(s)) /\ failed' = TRUE /\ enforcer' = Waiting /\ UNCHANGED override
      <4>1. PICK s \in BOOLEAN : Charge(s) BY <3>2
      <4>2. stopped' \in BOOLEAN /\ due' \in BOOLEAN BY <4>1, <1>g, ChargeTyped
      <4>3. budget' \in Ledger BY <3>2, <1>b, FaultyCounts
      <4>4. QED BY <4>2, <4>3, <3>2, <1>t DEF Waiting, Threads, TypeOK
    <3>3. QED BY <3>1, <3>2, <1>8 DEF ReconcileSets
  <2>2. request = None /\ request' = None BY <1>8, <1>t DEF ReconcileSets, OneHolder
  <2>3. TypeOK' BY <2>1, <2>2, <1>8, <1>t DEF ReconcileSets, TypeOK, Threads, Ledger
  <2>4. QED BY <2>1, <2>2, <2>3 DEF ChargeInv, OneHolder, TickIsCurrent, UpdateIsKnown
<1>9. CASE Wakes
  <2>1. queue \in Seq(BOOLEAN) /\ Len(queue) <= QueueCap BY <1>t DEF TypeOK
  <2>2. /\ queue' \in Seq(BOOLEAN) /\ Len(queue') <= QueueCap
        /\ enforcer' \in Threads /\ enforcer'.at = "tick"
    <3>1. CASE queue # <<>> /\ queue' = Tail(queue) /\ enforcer' = [Ticking EXCEPT !.unplugged = Head(queue)]
      <4>1. Head(queue) \in BOOLEAN /\ Tail(queue) \in Seq(BOOLEAN) /\ Len(Tail(queue)) <= QueueCap
        BY <2>1, <3>1, ChargeConstants
      <4>2. QED BY <4>1, <3>1 DEF Ticking, Threads
    <3>2. CASE enforcer' = Ticking /\ UNCHANGED queue BY <2>1, <3>2 DEF Ticking, Threads
    <3>3. QED BY <3>1, <3>2, <1>9 DEF Wakes
  <2>3. TypeOK' BY <2>2, <1>9, <1>t DEF Wakes, TypeOK, Threads
  <2>4. QED BY <2>2, <2>3, <1>9, <1>t DEF Wakes, ChargeInv, OneHolder, TickIsCurrent, UpdateIsKnown
<1>10. CASE Update
  <2>1. CASE request' = request /\ failed' = TRUE
    <3>1. budget' \in Ledger
      <4>1. \/ Spend("updates")
            \/ budget' = [budget EXCEPT !.updates = @ + 1, !.faults = @ + 1]
        BY <1>10 DEF Update
      <4>2. CASE Spend("updates") BY <4>2, <1>b, SpendTyped
      <4>3. CASE budget' = [budget EXCEPT !.updates = @ + 1, !.faults = @ + 1]
        <5>1. budget.updates + 1 \in Nat /\ budget.faults + 1 \in Nat BY <1>b DEF Ledger
        <5>2. QED BY <4>3, <5>1, <1>b DEF Ledger
      <4>4. QED BY <4>1, <4>2, <4>3
    <3>2. TypeOK' BY <2>1, <3>1, <1>10, <1>t DEF Update, TypeOK, Ledger
    <3>3. QED BY <2>1, <3>2, <1>10, <1>t DEF Update, ChargeInv, OneHolder, TickIsCurrent, UpdateIsKnown
  <2>2. ASSUME NEW u \in Updates, NEW d \in Discharging, Begin(u, d), Spend("updates"), UNCHANGED failed
        PROVE  ChargeInv'
    <3>1. Merged(u) \in Policies BY <1>t, MergedTyped
    <3>2. stopped \in BOOLEAN BY <1>t DEF TypeOK
    <3>3. Target(u, d) \in BOOLEAN
      <4>1. u.stopped \in BOOLEAN \cup {None} BY DEF Updates
      <4>2. Desired(Merged(u), d) \in BOOLEAN BY <1>t, DesiredTyped
      <4>3. QED BY <4>1, <4>2 DEF Target
    <3>4. request' \in Requests /\ request'.at = "set" /\ request'.faults = 0
      BY <2>2, <3>1, <3>2, <3>3 DEF Begin, Requests, Phases
    <3>5. budget' \in Ledger BY <2>2, <1>b, SpendTyped
    <3>6. TypeOK' BY <3>4, <3>5, <2>2, <1>10, <1>t DEF Update, TypeOK, Requests, Phases, Ledger
    <3>7. enforcer' = enforcer /\ enforcer.at # "set" BY <1>10 DEF Update, Unlocked
    <3>8. QED BY <3>4, <3>6, <3>7 DEF ChargeInv, OneHolder, TickIsCurrent, UpdateIsKnown
  <2>3. QED BY <2>1, <2>2, <1>10 DEF Update
<1>11. CASE UpdateSets
  <2>0. request \in Requests /\ request.faults = 0 /\ enforcer' = enforcer /\ enforcer.at # "set"
    BY <1>11, <1>r, <1>t DEF UpdateSets, UpdateIsKnown, OneHolder
  <2>1. CASE /\ Charge(request.target) /\ UNCHANGED budget
             /\ IF request.saves THEN Goes("persist") /\ UNCHANGED state ELSE Commit
    <3>1. stopped' \in BOOLEAN /\ due' \in BOOLEAN BY <2>0, <2>1, <1>g, ChargeTyped DEF Requests
    <3>2. CASE Goes("persist") /\ UNCHANGED state
      <4>1. request' \in Requests /\ request'.at = "persist" /\ request'.faults = 0
        BY <3>2, <2>0, GoesTyped DEF Phases
      <4>2. TypeOK' BY <4>1, <3>1, <3>2, <2>1, <1>11, <1>t DEF UpdateSets, TypeOK, Requests, Phases
      <4>3. QED BY <4>1, <4>2, <2>0 DEF ChargeInv, OneHolder, TickIsCurrent, UpdateIsKnown
    <3>3. CASE Commit
      <4>1. request' = None /\ policy' \in Policies /\ override' \in BOOLEAN /\ failed' \in BOOLEAN
        BY <3>3, <2>0 DEF Commit, Requests
      <4>2. TypeOK' BY <4>1, <3>1, <2>1, <1>11, <1>t DEF UpdateSets, TypeOK
      <4>3. QED BY <4>1, <4>2, <2>0 DEF ChargeInv, OneHolder, TickIsCurrent, UpdateIsKnown
    <3>4. QED BY <3>2, <3>3, <2>1
  <2>2. CASE (\E s \in BOOLEAN : Charge(s)) /\ GoesFaulty("undo") /\ UNCHANGED state
    <3>1. PICK s \in BOOLEAN : Charge(s) BY <2>2
    <3>2. stopped' \in BOOLEAN /\ due' \in BOOLEAN BY <3>1, <1>g, ChargeTyped
    <3>3. request' \in Requests /\ request'.at = "undo" /\ request'.faults = 1 /\ budget' \in Ledger
      BY <2>2, <2>0, <1>b, GoesFaultyTyped DEF Phases
    <3>4. TypeOK' BY <3>2, <3>3, <2>2, <1>11, <1>t DEF UpdateSets, TypeOK, Requests, Phases, Ledger
    <3>5. QED BY <3>3, <3>4, <2>0 DEF ChargeInv, OneHolder, TickIsCurrent, UpdateIsKnown
  <2>3. QED BY <2>1, <2>2, <1>11 DEF UpdateSets
<1>12. CASE UpdateUndoes
  <2>1. request' = None /\ failed' = TRUE /\ UNCHANGED <<policy, override>> BY <1>12 DEF UpdateUndoes, Fails
  <2>2. request.before \in BOOLEAN BY <1>12, <1>r DEF UpdateUndoes, Requests
  <2>3. /\ stopped' \in BOOLEAN /\ due' \in BOOLEAN /\ budget' \in Ledger
    <3>1. CASE Charge(request.before) /\ UNCHANGED budget BY <3>1, <2>2, <1>g, <1>b, ChargeTyped
    <3>2. CASE Faulty /\ \E s \in BOOLEAN : Charge(s) BY <3>2, <1>g, <1>b, ChargeTyped, FaultyCounts
    <3>3. QED BY <3>1, <3>2, <1>12 DEF UpdateUndoes
  <2>4. TypeOK' BY <2>1, <2>3, <1>12, <1>t DEF UpdateUndoes, TypeOK, Ledger
  <2>5. QED BY <2>1, <2>4, <1>12, <1>t DEF UpdateUndoes, ChargeInv, OneHolder, TickIsCurrent, UpdateIsKnown
<1>13. CASE UpdatePersists
  <2>0. request \in Requests /\ request.faults = 0 /\ enforcer' = enforcer /\ enforcer.at # "set"
    BY <1>13, <1>r, <1>t DEF UpdatePersists, UpdateIsKnown, OneHolder
  <2>1. disk' \in Policies \cup {None} BY <1>13, <2>0, <1>t DEF UpdatePersists, Requests, TypeOK
  <2>2. CASE Commit /\ UNCHANGED budget
    <3>1. request' = None /\ policy' \in Policies /\ override' \in BOOLEAN /\ failed' \in BOOLEAN
      BY <2>2, <2>0 DEF Commit, Requests
    <3>2. TypeOK' BY <3>1, <2>1, <2>2, <1>13, <1>t DEF UpdatePersists, TypeOK
    <3>3. QED BY <3>1, <3>2, <2>0 DEF ChargeInv, OneHolder, TickIsCurrent, UpdateIsKnown
  <2>3. CASE GoesFaulty("restore") /\ UNCHANGED state
    <3>1. request' \in Requests /\ request'.at = "restore" /\ request'.faults = 1 /\ budget' \in Ledger
      BY <2>3, <2>0, <1>b, GoesFaultyTyped DEF Phases
    <3>2. TypeOK' BY <3>1, <2>1, <2>3, <1>13, <1>t DEF UpdatePersists, TypeOK, Requests, Phases, Ledger
    <3>3. QED BY <3>1, <3>2, <2>0 DEF ChargeInv, OneHolder, TickIsCurrent, UpdateIsKnown
  <2>4. QED BY <2>2, <2>3, <1>13 DEF UpdatePersists
<1>14. CASE UpdateRestores
  <2>0. /\ request \in Requests /\ request.faults = 1 /\ request.before \in BOOLEAN
        /\ enforcer' = enforcer /\ enforcer.at # "set"
    BY <1>14, <1>r, <1>t DEF UpdateRestores, UpdateIsKnown, OneHolder, Requests
  <2>1. CASE Charge(request.before) /\ Goes("resave") /\ UNCHANGED budget
    <3>1. /\ request' \in Requests /\ request'.at = "resave" /\ request'.faults = 1
          /\ request'.before = request.before
      BY <2>1, <2>0, GoesTyped DEF Phases
    <3>2. stopped' = request.before /\ due' \in BOOLEAN BY <2>0, <2>1, <1>g, ChargeTyped
    <3>3. TypeOK' BY <3>1, <3>2, <2>0, <2>1, <1>14, <1>t DEF UpdateRestores, TypeOK, Requests, Phases
    <3>4. QED BY <3>1, <3>2, <3>3, <2>0 DEF ChargeInv, OneHolder, TickIsCurrent, UpdateIsKnown
  <2>2. CASE \E s \in BOOLEAN : Charge(s) /\ GoesFaulty("resave")
    <3>1. PICK s \in BOOLEAN : Charge(s) /\ GoesFaulty("resave") BY <2>2
    <3>2. stopped' \in BOOLEAN /\ due' \in BOOLEAN BY <3>1, <1>g, ChargeTyped
    <3>3. request' \in Requests /\ request'.at = "resave" /\ request'.faults = 2 /\ budget' \in Ledger
      BY <3>1, <2>0, <1>b, GoesFaultyTyped DEF Phases
    <3>4. TypeOK' BY <3>2, <3>3, <1>14, <1>t DEF UpdateRestores, TypeOK, Requests, Phases, Ledger
    <3>5. QED BY <3>3, <3>4, <2>0 DEF ChargeInv, OneHolder, TickIsCurrent, UpdateIsKnown
  <2>3. QED BY <2>1, <2>2, <1>14 DEF UpdateRestores
<1>15. CASE UpdateResaves
  <2>1. request' = None /\ failed' = TRUE /\ UNCHANGED <<policy, override>> BY <1>15 DEF UpdateResaves, Fails
  <2>2. disk' \in Policies \cup {None} BY <1>15, <1>t DEF UpdateResaves, TypeOK
  <2>3. budget' \in Ledger BY <1>15, <1>b, FaultyCounts DEF UpdateResaves
  <2>4. TypeOK' BY <2>1, <2>2, <2>3, <1>15, <1>t DEF UpdateResaves, TypeOK, Ledger
  <2>5. QED BY <2>1, <2>4, <1>15, <1>t DEF UpdateResaves, ChargeInv, OneHolder, TickIsCurrent, UpdateIsKnown
<1>16. CASE Crash
  <2>1. policy' \in Policies BY <1>16, <1>t, LoadedTyped, ChargeConstants DEF Crash, TypeOK
  <2>2. enforcer' \in Threads /\ enforcer'.at = "tick" BY <1>16 DEF Crash, Ticking, Threads
  <2>3. queue' \in Seq(BOOLEAN) /\ Len(queue') <= QueueCap BY <1>16, ChargeConstants DEF Crash
  <2>4. due' \in BOOLEAN BY <1>16, <1>g DEF Crash
  <2>5. budget' \in Ledger
    <3>1. CASE Spend("crashes") BY <3>1, SpendTyped, <1>b DEF Ledger
    <3>2. CASE budget' = [budget EXCEPT !.crashes = @ + 1, !.faults = @ + 1] BY <3>2, <1>b, BothTyped
    <3>3. QED BY <3>1, <3>2, <1>16 DEF Crash
  <2>6. TypeOK' BY <2>1, <2>2, <2>3, <2>4, <2>5, <1>16, <1>t DEF Crash, TypeOK, Threads, Ledger
  <2>7. QED BY <2>2, <2>6, <1>16 DEF Crash, ChargeInv, OneHolder, TickIsCurrent, UpdateIsKnown
<1>17. QED
  BY <1>1, <1>2, <1>3, <1>4, <1>5, <1>6, <1>7, <1>8, <1>9, <1>10, <1>11, <1>12, <1>13, <1>14, <1>15, <1>16
  DEF Next, EnforcerStep, UpdateStep

\* The inductive invariant: the types, one holder of the mutex, and that a tick about to
\* write and an update in progress saw the policy that is current.
THEOREM ChargeInvariant == Spec => []ChargeInv
BY InitHolds, StepHolds, PTL DEF Spec

\* The type invariant, for every value of the constants.
THEOREM ChargeTypeCorrect == Spec => []TypeOK
<1>1. ChargeInv => TypeOK BY DEF ChargeInv
<1>2. QED BY <1>1, ChargeInvariant, PTL

\* A tick never applies a policy the user has replaced: update() and reconcile() share
\* the mutex from the charger's read to its write.
THEOREM TicksObeyUser == Spec => EnforcerObeysUser
<1>1. ChargeInv /\ [Next]_vars
        => [enforcer.at = "set" /\ enforcer'.at = "wait" /\ ~enforcer.unplugged /\ stopped' # stopped
              => policy.enabled /\ ~override]_vars
  BY DEF ChargeInv, TickIsCurrent
<1>2. QED BY <1>1, ChargeInvariant, PTL DEF Spec, EnforcerObeysUser

\* An update in which a single charger or file write failed leaves everything as it was.
LEMMA FailedStepIsUndone ==
  ASSUME ChargeInv, [Next]_vars, UpdateFails, FaultsOfUpdate <= 1
  PROVE  /\ stopped' = request.before /\ policy' = policy
         /\ disk' = policy \/ (request.at = "undo" /\ disk' = disk)
<1>1. TypeOK /\ OneHolder /\ UpdateIsKnown BY DEF ChargeInv
<1>2. request # None /\ request' = None /\ failed' BY DEF UpdateFails
<1>3. request \in Requests BY <1>1, <1>2 DEF TypeOK, Requests, Phases
<1>b. budget \in Ledger BY <1>1 DEF TypeOK, Ledger
<1>f. ~Faulty \/ request.faults = 0
  <2>1. SUFFICES ASSUME Faulty PROVE request.faults = 0 OBVIOUS
  <2>2. budget'.faults = budget.faults + 1 BY <2>1, <1>b, FaultyCounts
  <2>3. budget.faults \in Nat /\ request.faults \in Nat BY <1>3, <1>b DEF Requests, Ledger
  <2>4. QED BY <2>2, <2>3 DEF FaultsOfUpdate
<1> USE DEF battery, bus, state
<1>4. CASE UpdateUndoes
  <2>1. request.faults = 1 /\ request.before \in BOOLEAN /\ request.at = "undo"
    BY <1>4, <1>1, <1>2, <1>3 DEF UpdateUndoes, UpdateIsKnown, Requests
  <2>2. Charge(request.before) BY <2>1, <1>f, <1>4 DEF UpdateUndoes
  <2>3. QED BY <2>1, <2>2, <1>4 DEF UpdateUndoes, Charge, Fails
<1>5. CASE UpdateResaves
  <2>1. request.faults \in Nat /\ request.faults >= 1 /\ request.at = "resave"
    BY <1>5, <1>1, <1>2, <1>3 DEF UpdateResaves, UpdateIsKnown, Requests
  <2>2. ~Faulty BY <2>1, <1>f
  <2>3. disk' = policy /\ UNCHANGED budget BY <2>2, <1>5 DEF UpdateResaves
  <2>4. request.faults = 1
    <3>1. budget.faults \in Nat BY <1>b DEF Ledger
    <3>2. QED BY <2>1, <2>3, <3>1 DEF FaultsOfUpdate
  <2>5. QED BY <2>1, <2>3, <2>4, <1>5, <1>1, <1>2 DEF UpdateResaves, UpdateIsKnown, Fails
<1>g. ASSUME NEW at \in Phases PROVE ~Goes(at) /\ ~GoesFaulty(at)
  BY <1>2, <1>3, <1>b, ChargeConstants, GoesTyped, GoesFaultyTyped
<1>c. ~Commit BY <1>2 DEF Commit
<1>6. CASE UpdateSets BY <1>6, <1>g, <1>c DEF UpdateSets, Phases
<1>7. CASE UpdatePersists BY <1>7, <1>g, <1>c DEF UpdatePersists, Phases
<1>8. CASE UpdateRestores BY <1>8, <1>g DEF UpdateRestores, Phases
<1>9. CASE Crash
  <2>1. budget'.crashes = budget.crashes + 1 /\ budget.crashes \in Nat BY <1>9, <1>b DEF Crash, Spend, Ledger
  <2>2. QED BY <2>1 DEF UpdateFails
<1>10. CASE UNCHANGED request BY <1>10, <1>2
<1>11. QED
  BY <1>2, <1>4, <1>5, <1>6, <1>7, <1>8, <1>9, <1>10
  DEF Next, EnforcerStep, UpdateStep, vars, Drift, Cable, ListenerExits, ListenerRestarts,
      Reconcile, ReconcileSets, Wakes, Update, Unlocked

\* update() in which one charger or file write failed leaves the charger, the policy and the
\* file as they were, with any events, ticks and restarts before it.
THEOREM UpdatesAreUndone == Spec => FailedUpdateIsUndone
<1>1. ChargeInv /\ [Next]_vars
        => [UpdateFails /\ FaultsOfUpdate <= 1
              => /\ stopped' = request.before /\ policy' = policy
                 /\ disk' = policy \/ (request.at = "undo" /\ disk' = disk)]_vars
  BY FailedStepIsUndone
<1>2. QED BY <1>1, ChargeInvariant, PTL DEF Spec, FailedUpdateIsUndone

(***************************************************************************)
(* UsbSwitch.                                                              *)
(***************************************************************************)
\* The steps of a change before it touches the gadget.
UsbQuiet == {"firmware", "wait", "recheck", "capture"}

\* Without an error on record the network is there, as long as no change has touched the gadget.
QuietIsUsable == ~cut /\ lastError = None /\ (job = None \/ job.at \in UsbQuiet) => g.bridge # {}

\* What a change has behind it at each step.
JobIsPrepared ==
  /\ \A a \in asks : a.own => a.mode # "rndis"
  /\ job # None =>
       /\ job.at # "firmware" => job.mode # "rndis"
       /\ job.at \notin UsbQuiet => job.snapshot \in Snapshots
       /\ job.at = "recheck" => g.bridge # {}
       /\ job.at = "leave_again" => g.bridge \cap {"ecm0", "rndis0"} # {}

\* What a restoration without an error has put back at each step.
RestoredSoFar ==
  job # None /\ ~touched /\ ~job.errors =>
    /\ job.at \in {"r_attrs", "r_link"} => g.links = NoLinks
    /\ job.at \in {"r_attrs", "r_link", "r_bind"} => ~g.bound
    /\ job.at \in {"r_link", "r_bind", "r_bridge", "end"} => g.attrs = job.snapshot.attrs
    /\ job.at \in {"r_bind", "r_bridge", "end"} => g.links = job.snapshot.links
    /\ job.at \in {"r_bridge", "end"} => g.bound = job.snapshot.bound
    /\ job.at = "end" => g.bridge = job.snapshot.bridge

UsbInv == UsbTypeOK /\ QuietIsUsable /\ JobIsPrepared /\ RestoredSoFar

\* A composition with the same links and more has the same interfaces and more.
LEMMA UsbInterfacesGrow ==
  ASSUME NEW l, NEW k, \A s \in Slots : l[s] # None => k[s] = l[s]
  PROVE  Interfaces(l) \subseteq Interfaces(k)
  BY DEF Interfaces, Functions

\* The interface of a mode is a network interface, and a composition with the mode has it.
LEMMA UsbInterface ==
  ASSUME NEW m \in Modes, NEW l, NEW s \in Slots, l[s] = m
  PROVE  InterfaceOf(m) \in Nets /\ InterfaceOf(m) \in Interfaces(l)
<1>1. m # None BY UsbConstants
<1>2. m \in Functions(l) \cap Modes BY <1>1 DEF Functions
<1>3. InterfaceOf(m) \in Interfaces(l) BY <1>2 DEF Interfaces
<1>4. InterfaceOf(m) \in Nets BY DEF InterfaceOf, Nets, Modes
<1>5. QED BY <1>3, <1>4

\* The interfaces of a composition are network interfaces.
LEMMA UsbInterfacesTyped ==
  ASSUME NEW l PROVE Interfaces(l) \in SUBSET Nets
  BY DEF Interfaces, InterfaceOf, Nets, Modes

\* The firmware's compositions are gadgets whose interface is in the bridge.
LEMMA UsbStock ==
  ASSUME NEW m \in Modes
  PROVE  /\ StockGadget(m) \in Gadgets
         /\ StockGadget(m).bridge # {}
         /\ m # "ncm" => StockGadget(m).bridge \cap {"ecm0", "rndis0"} # {}
<1> DEFINE l == [Composition(m) EXCEPT !["f3"] = Adb]
<1>1. l \in Compositions
  BY UsbConstants DEF Compositions, Composition, NoLinks
<1>2. l["f1"] = m /\ "f1" \in Slots
  BY UsbConstants DEF Compositions, Composition, NoLinks
<1>3. InterfaceOf(m) \in Nets /\ InterfaceOf(m) \in Interfaces(l)
  BY <1>2, UsbInterface
<1>4. StockGadget(m) \in Gadgets BY <1>1, <1>3 DEF StockGadget, Gadgets
<1>5. m # "ncm" => InterfaceOf(m) \in {"ecm0", "rndis0"} BY DEF InterfaceOf, Modes
<1>6. QED BY <1>4, <1>5 DEF StockGadget

\* An unbound gadget is one.
LEMMA UsbUnbound ==
  ASSUME NEW x \in Gadgets PROVE Unbound(x) \in Gadgets
  BY DEF Unbound, Gadgets

\* So is one with fewer links.
LEMMA UsbUnlinked ==
  ASSUME g \in Gadgets, NEW kept
  PROVE  Unlinked(kept) \in Gadgets
<1>1. Unbound(g) \in Gadgets /\ Unbound(g).links = g.links /\ Unbound(g).nets = {}
      /\ Unbound(g).bridge = {}
  BY UsbUnbound DEF Unbound, Gadgets
<1>2. [s \in Slots |-> IF s \in kept THEN g.links[s] ELSE None] \in Compositions
  BY DEF Gadgets, Compositions
<1>3. QED BY <1>1, <1>2 DEF Unlinked, Gadgets

\* And one with more links.
LEMMA UsbLinked ==
  ASSUME g \in Gadgets, NEW l \in Compositions, \A s \in Slots : g.links[s] # None => l[s] = g.links[s]
  PROVE  [g EXCEPT !.links = l] \in Gadgets
  BY UsbInterfacesGrow DEF Gadgets

\* Binding brings up interfaces of the gadget.
LEMMA UsbBound ==
  ASSUME NEW x \in Gadgets, x.bridge = {}, NEW nets \in SUBSET Interfaces(x.links)
  PROVE  Bound(x, nets) \in Gadgets
  BY UsbInterfacesTyped DEF Bound, Gadgets

\* Interfaces that are present may be in the bridge.
LEMMA UsbBridged ==
  ASSUME g \in Gadgets, NEW bridge \in SUBSET g.nets
  PROVE  [g EXCEPT !.bridge = bridge] \in Gadgets
  BY DEF Gadgets

\* The invariant holds when the device has booted.
LEMMA UsbInitHolds == ASSUME UsbInit PROVE UsbInv
<1>1. PICK m \in {"ecm", "rndis"} : g = StockGadget(m) BY DEF UsbInit
<1>2. g \in Gadgets /\ g.bridge # {} BY <1>1, UsbStock DEF Modes
<1>3. UsbTypeOK BY <1>2 DEF UsbInit, UsbTypeOK
<1>4. QED BY <1>2, <1>3 DEF UsbInit, UsbInv, QuietIsUsable, JobIsPrepared, RestoredSoFar

\* What a job is, when there is one.
LEMMA UsbJob ==
  ASSUME UsbTypeOK, job # None
  PROVE  /\ job \in Jobs /\ job.at \in Steps /\ job.mode \in Modes
         /\ job.errors \in BOOLEAN /\ busy = TRUE
  BY DEF UsbTypeOK, Jobs

\* A job moved to another step is a job.
LEMMA UsbAdvanced ==
  ASSUME UsbTypeOK, job # None, NEW at \in Steps, NEW e \in BOOLEAN,
         (job' = [job EXCEPT !.at = at] /\ e = job.errors) \/ job' = [job EXCEPT !.at = at, !.errors = e]
  PROVE  /\ job' \in Jobs /\ job' # None /\ job'.at = at /\ job'.errors = e
         /\ job'.mode = job.mode /\ job'.snapshot = job.snapshot
<1>1. job \in Jobs BY UsbJob
<1>2. job' \in Jobs /\ job'.at = at /\ job'.errors = e /\ job'.mode = job.mode /\ job'.snapshot = job.snapshot
  BY <1>1 DEF Jobs
<1>3. QED BY <1>2, UsbConstants

\* A step of the change after the capture, forward or into the rollback: what it makes of the
\* gadget is its own affair.
LEMMA UsbForward ==
  ASSUME UsbInv, job # None, job.at \notin UsbQuiet,
         NEW at \in {"unbind", "unlink", "attrs", "link", "bind", "join", "r_unbind"},
         Advance(at), g' \in Gadgets, UNCHANGED <<asks, default, lastError, cut>>
  PROVE  UsbInv'
<1>1. UsbTypeOK BY DEF UsbInv
<1>2. job \in Jobs /\ job.errors \in BOOLEAN /\ at \in Steps BY <1>1, UsbJob DEF Steps
<1>3. /\ job' \in Jobs /\ job' # None /\ job'.at = at
      /\ job'.mode = job.mode /\ job'.snapshot = job.snapshot
  BY <1>1, <1>2, UsbAdvanced DEF Advance
<1>4. busy' = busy /\ touched' = touched BY DEF Advance
<1>5. UsbTypeOK' BY <1>1, <1>3, <1>4 DEF UsbTypeOK
<1>6. QuietIsUsable' BY <1>3 DEF QuietIsUsable, UsbQuiet
<1>7. job.at # "firmware" BY DEF UsbQuiet
<1>8. job.mode # "rndis" /\ job.snapshot \in Snapshots BY <1>7 DEF UsbInv, JobIsPrepared
<1>9. JobIsPrepared' BY <1>3, <1>8 DEF UsbInv, JobIsPrepared, UsbQuiet
<1>10. RestoredSoFar' BY <1>3 DEF RestoredSoFar
<1>11. QED BY <1>5, <1>6, <1>9, <1>10 DEF UsbInv

\* The end of a change that leaves the network usable or an error on record.
LEMMA UsbRelease ==
  ASSUME UsbInv, Release, g' \in Gadgets, UNCHANGED <<asks, default, cut>>,
         lastError' \in {None, "failed", "restored", "broken", "unwritten"},
         ~cut /\ lastError' = None => g'.bridge # {}
  PROVE  UsbInv'
<1>1. UsbTypeOK BY DEF UsbInv
<1>2. job' = None /\ busy' = FALSE /\ touched' = touched BY DEF Release
<1>3. UsbTypeOK' BY <1>1, <1>2 DEF UsbTypeOK
<1>4. QED BY <1>2, <1>3 DEF UsbInv, QuietIsUsable, JobIsPrepared, RestoredSoFar

\* The handlers, up to the guard, and boot enforcement's start.
LEMMA UsbAsks ==
  ASSUME UsbInv, UNCHANGED cut,
         \/ \E m \in Modes : ModeSet(m)
         \/ \E m \in {"ecm", "ncm"} : DefaultSet(m)
         \/ \E a \in asks : TakeGuard(a)
         \/ AgentStarts
  PROVE  UsbInv'
<1>1. UsbTypeOK BY DEF UsbInv
<1>2. ASSUME NEW m \in Modes, ModeSet(m) PROVE UsbInv'
  <2> DEFINE a == [mode |-> m, own |-> m = "ncm" \/ (m = "ecm" /\ Active("ncm"))]
  <2>1. asks' = asks \cup {a} /\ UNCHANGED <<g, busy, job, default, lastError, alive, touched, cut>>
    BY <1>2 DEF ModeSet
  <2>2. a \in [mode : Modes, own : BOOLEAN] /\ (a.own => a.mode # "rndis") OBVIOUS
  <2>3. UsbTypeOK' BY <1>1, <2>1, <2>2 DEF UsbTypeOK
  <2>4. JobIsPrepared' BY <2>1, <2>2 DEF UsbInv, JobIsPrepared
  <2>5. QED BY <2>1, <2>3, <2>4 DEF UsbInv, QuietIsUsable, RestoredSoFar
<1>3. ASSUME NEW m \in {"ecm", "ncm"}, DefaultSet(m) PROVE UsbInv'
  <2>1. UsbTypeOK' BY <1>1, <1>3 DEF UsbTypeOK, DefaultSet
  <2>2. QED BY <1>3, <2>1 DEF DefaultSet, UsbInv, QuietIsUsable, JobIsPrepared, RestoredSoFar
\* The guard is free: the job is new.
<1>4. ASSUME NEW at \in UsbQuiet, NEW m \in Modes, at = "recheck" => FALSE, at # "firmware" => m # "rndis",
             Start([at |-> at, mode |-> m, snapshot |-> None, errors |-> FALSE]),
             asks' \subseteq asks, UNCHANGED <<g, default, lastError>>
      PROVE  UsbInv'
  <2>1. job' \in Jobs /\ job'.at = at /\ job'.mode = m /\ busy' = TRUE /\ touched' = FALSE /\ job = None
    BY <1>1, <1>4 DEF Start, Jobs, Steps, UsbQuiet, UsbTypeOK
  <2>2. job' # None BY <2>1, UsbConstants
  <2>3. UsbTypeOK' BY <1>1, <1>4, <2>1, <2>2 DEF UsbTypeOK
  <2>4. QuietIsUsable' BY <1>4, <2>1 DEF UsbInv, QuietIsUsable
  <2>5. JobIsPrepared' BY <1>4, <2>1, <2>2 DEF UsbInv, JobIsPrepared, UsbQuiet
  <2>6. RestoredSoFar' BY <1>4, <2>1 DEF RestoredSoFar, UsbQuiet
  <2>7. QED BY <2>3, <2>4, <2>5, <2>6 DEF UsbInv
<1>5. ASSUME NEW a \in asks, TakeGuard(a) PROVE UsbInv'
  <2>1. a \in [mode : Modes, own : BOOLEAN] /\ (a.own => a.mode # "rndis")
    BY <1>1 DEF UsbTypeOK, UsbInv, JobIsPrepared
  <2>2. asks' \subseteq asks /\ UNCHANGED <<g, default, lastError, alive>> BY <1>5 DEF TakeGuard
  <2>3. CASE Start([at |-> IF a.own THEN "capture" ELSE "firmware", mode |-> a.mode,
                        snapshot |-> None, errors |-> FALSE])
    <3> DEFINE at == IF a.own THEN "capture" ELSE "firmware"
    <3>1. at \in UsbQuiet /\ at # "recheck" /\ (at # "firmware" => a.mode # "rndis") BY <2>1 DEF UsbQuiet
    <3> HIDE DEF at
    <3>2. QED BY <1>4, <2>1, <2>2, <2>3, <3>1 DEF at
  <2>4. CASE UNCHANGED <<busy, job, touched>>
    <3>1. UsbTypeOK' BY <1>1, <2>2, <2>4 DEF UsbTypeOK
    <3>2. QED BY <2>2, <2>4, <3>1 DEF UsbInv, QuietIsUsable, JobIsPrepared, RestoredSoFar
  <2>5. QED BY <1>5, <2>3, <2>4 DEF TakeGuard
<1>6. ASSUME AgentStarts PROVE UsbInv'
  <2>1. asks' \subseteq asks /\ UNCHANGED <<g, asks, default, lastError>> BY <1>6 DEF AgentStarts
  <2>2. CASE Start([at |-> "wait", mode |-> "ncm", snapshot |-> None, errors |-> FALSE])
    BY <1>4, <2>1, <2>2 DEF UsbQuiet, Modes
  <2>3. CASE UNCHANGED <<busy, job, touched>>
    <3>1. UsbTypeOK' BY <1>1, <2>1, <2>3 DEF UsbTypeOK
    <3>2. QED BY <2>1, <2>3, <3>1 DEF UsbInv, QuietIsUsable, JobIsPrepared, RestoredSoFar
  <2>4. QED BY <1>6, <2>2, <2>3 DEF AgentStarts
<1>7. QED BY <1>2, <1>3, <1>5, <1>6

\* The steps before the gadget is touched: the firmware's modes, and boot enforcement.
LEMMA UsbQuietSteps ==
  ASSUME UsbInv, UNCHANGED cut, FirmwareMode \/ BootWait \/ BootRecheck
  PROVE  UsbInv'
<1>1. UsbTypeOK /\ g \in Gadgets BY DEF UsbInv, UsbTypeOK
<1>2. job # None /\ job.at \in UsbQuiet
  BY DEF FirmwareMode, BootWait, BootRecheck, At, UsbQuiet
<1>3. job \in Jobs /\ job.mode \in Modes /\ job.errors \in BOOLEAN BY <1>1, <1>2, UsbJob
<1>4. ~cut /\ lastError = None => g.bridge # {} BY <1>2 DEF UsbInv, QuietIsUsable
<1>5. lastError \in {None, "failed", "restored", "broken", "unwritten"} BY <1>1 DEF UsbTypeOK
<1>6. ASSUME FirmwareMode PROVE UsbInv'
  <2>1. Release /\ UNCHANGED <<asks, default, lastError>> BY <1>6 DEF FirmwareMode
  <2>2. g' \in Gadgets /\ (g'.bridge # {} \/ g' = g) BY <1>1, <1>3, <1>6, UsbStock DEF FirmwareMode
  <2>3. QED BY <1>4, <1>5, <2>1, <2>2, UsbRelease
\* A quiet step on to the next one.
<1>7. ASSUME NEW at \in {"recheck", "capture"}, Advance(at), job.at # "firmware", g.bridge # {},
             UNCHANGED <<g, asks, default, lastError>>
      PROVE  UsbInv'
  <2>1. /\ job' \in Jobs /\ job' # None /\ job'.at = at
        /\ job'.mode = job.mode /\ job'.snapshot = job.snapshot
    BY <1>1, <1>2, <1>3, <1>7, UsbAdvanced DEF Advance, Steps
  <2>2. busy' = busy /\ touched' = touched BY <1>7 DEF Advance
  <2>3. UsbTypeOK' BY <1>1, <1>2, <1>7, <2>1, <2>2 DEF UsbTypeOK
  <2>4. QuietIsUsable' BY <1>7 DEF QuietIsUsable
  <2>5. JobIsPrepared' BY <1>2, <1>7, <2>1 DEF UsbInv, JobIsPrepared, UsbQuiet
  <2>6. RestoredSoFar' BY <2>1 DEF RestoredSoFar
  <2>7. QED BY <2>3, <2>4, <2>5, <2>6 DEF UsbInv
<1>8. ASSUME BootWait PROVE UsbInv'
  <2>1. job.at = "wait" /\ UNCHANGED <<g, asks, default>> BY <1>8 DEF BootWait, At
  <2>2. CASE BootReady
    <3>1. g.bridge # {} BY <2>2 DEF BootReady
    <3>2. Advance("recheck") /\ UNCHANGED lastError BY <1>8, <2>2 DEF BootWait
    <3>3. QED BY <1>7, <2>1, <3>1, <3>2
  <2>3. CASE ~BootReady
    <3>1. Release /\ lastError' \in {"failed", "unwritten"} BY <1>8, <2>3 DEF BootWait, WriteError
    <3>2. lastError' # None BY <3>1, UsbConstants
    <3>3. QED BY <1>1, <2>1, <3>1, <3>2, UsbRelease
  <2>4. QED BY <2>2, <2>3
<1>9. ASSUME BootRecheck PROVE UsbInv'
  <2>1. job.at = "recheck" /\ UNCHANGED <<g, asks, default>> BY <1>9 DEF BootRecheck, At
  <2>2. g.bridge # {} BY <1>2, <2>1 DEF UsbInv, JobIsPrepared
  <2>3. ASSUME Release, lastError' \in {"failed", "unwritten", lastError, None} PROVE UsbInv'
    BY <1>1, <1>5, <2>1, <2>2, <2>3, UsbRelease
  <2>4. ASSUME Advance("capture"), UNCHANGED lastError PROVE UsbInv'
    BY <1>7, <2>1, <2>2, <2>4
  <2>5. QED BY <1>9, <2>3, <2>4 DEF BootRecheck, WriteError, RemoveError
<1>10. QED BY <1>6, <1>8, <1>9

\* capture(): the snapshot is of the gadget, or nothing has changed and an error says so.
LEMMA UsbCapture ==
  ASSUME UsbInv, UNCHANGED cut, Capture
  PROVE  UsbInv'
<1>1. UsbTypeOK /\ g \in Gadgets BY DEF UsbInv, UsbTypeOK
<1>2. job # None /\ job.at = "capture" /\ UNCHANGED <<g, asks, default>> BY DEF Capture, At
<1>3. CASE Release /\ lastError' \in {"failed", "unwritten"}
  <2>1. lastError' # None BY <1>3, UsbConstants
  <2>2. QED BY <1>1, <1>2, <1>3, <2>1, UsbRelease
<1>4. CASE /\ job' = [job EXCEPT !.snapshot = Captured(g), !.at = IF job.mode = "ecm" THEN "leave" ELSE "unbind"]
           /\ touched' = FALSE /\ UNCHANGED <<busy, lastError>>
  <2>1. job \in Jobs BY <1>1, <1>2, UsbJob
  <2>2. Captured(g) \in Snapshots BY <1>1 DEF Captured, Gadgets, Snapshots
  <2>3. /\ job' \in Jobs /\ job'.at \in {"leave", "unbind"} /\ job'.mode = job.mode
        /\ job'.snapshot = Captured(g)
    BY <1>4, <2>1, <2>2 DEF Jobs, Steps
  <2>4. job' # None BY <2>3, UsbConstants
  <2>5. UsbTypeOK' BY <1>1, <1>2, <1>4, <2>3, <2>4 DEF UsbTypeOK
  <2>6. QuietIsUsable' BY <2>3, <2>4 DEF QuietIsUsable, UsbQuiet
  <2>7. JobIsPrepared' BY <1>2, <2>2, <2>3 DEF UsbInv, JobIsPrepared
  <2>8. RestoredSoFar' BY <2>3 DEF RestoredSoFar
  <2>9. QED BY <2>5, <2>6, <2>7, <2>8 DEF UsbInv
<1>5. QED BY <1>3, <1>4 DEF Capture, WriteError

\* What a step after the capture begins with.
LEMMA UsbUnderWay ==
  ASSUME UsbInv, NEW here \in Steps \ UsbQuiet, At(here)
  PROVE  /\ UsbTypeOK /\ g \in Gadgets /\ job # None /\ job.at = here /\ job.at \notin UsbQuiet
         /\ job.mode \in {"ecm", "ncm"} /\ job.snapshot \in Snapshots /\ job.errors \in BOOLEAN
<1>1. UsbTypeOK /\ g \in Gadgets BY DEF UsbInv, UsbTypeOK
<1>2. job # None /\ job.at = here BY DEF At
<1>3. job.mode \in Modes /\ job.errors \in BOOLEAN BY <1>1, <1>2, UsbJob
<1>4. job.mode # "rndis" /\ job.snapshot \in Snapshots
  BY <1>2 DEF UsbInv, JobIsPrepared, UsbQuiet
<1>5. QED BY <1>1, <1>2, <1>3, <1>4 DEF Modes

\* One step of the switch that ends well or badly, on a gadget either way.
LEMMA UsbStep ==
  ASSUME UsbInv, UNCHANGED cut, NEW here \in Steps \ UsbQuiet,
         NEW at \in {"unbind", "unlink", "attrs", "link", "bind", "join"},
         At(here), Rest, Advance(at) \/ Advance("r_unbind"), g' \in Gadgets
  PROVE  UsbInv'
  BY UsbUnderWay, UsbForward DEF Rest

\* remove_bridge_member(): ECM's own interface stays in the bridge.
LEMMA UsbLeave ==
  ASSUME UsbInv, UNCHANGED cut, Leave
  PROVE  UsbInv'
<1> DEFINE left == [g EXCEPT !.bridge = @ \ {"ncm0"}]
<1>1. CASE Step("leave", g' = left, UNCHANGED g, "unbind")
  <2>1. At("leave") /\ Rest BY <1>1 DEF Step
  <2>2. g \in Gadgets BY <2>1, UsbUnderWay DEF Steps, UsbQuiet
  <2>3. left \in Gadgets BY <2>2, UsbBridged DEF Gadgets
  <2>4. g' \in Gadgets /\ (Advance("unbind") \/ Advance("r_unbind")) BY <1>1, <2>2, <2>3 DEF Step
  <2>5. QED BY <2>1, <2>4, UsbStep DEF Steps, UsbQuiet
<1>2. CASE /\ At("leave_again") /\ UNCHANGED <<asks, default, power, alive>>
           /\ g' = left /\ lastError' \in {None, lastError} /\ Release
  <2>1. /\ g \in Gadgets /\ job # None /\ job.at = "leave_again"
    BY <1>2, UsbUnderWay DEF Steps, UsbQuiet
  <2>2. left \in Gadgets BY <2>1, UsbBridged DEF Gadgets
  <2>3. g.bridge \cap {"ecm0", "rndis0"} # {} BY <2>1 DEF UsbInv, JobIsPrepared
  <2>4. left.bridge # {} BY <2>1, <2>3 DEF Gadgets
  <2>5. lastError' \in {None, "failed", "restored", "broken", "unwritten"} BY <1>2 DEF UsbInv, UsbTypeOK
  <2>6. QED BY <1>2, <2>2, <2>4, <2>5, UsbRelease
<1>3. CASE /\ At("leave_again") /\ UNCHANGED <<asks, default, power, alive>>
           /\ UNCHANGED <<g, lastError>> /\ Advance("r_unbind")
  <2>1. g \in Gadgets /\ job # None /\ job.at \notin UsbQuiet BY <1>3, UsbUnderWay DEF Steps, UsbQuiet
  <2>2. QED BY <1>3, <2>1, UsbForward
<1>4. QED BY <1>1, <1>2, <1>3 DEF Leave, RemoveError

\* unbind_gadget(), remove_config_links() and the attributes.
LEMMA UsbTakenApart ==
  ASSUME UsbInv, UNCHANGED cut, Unbind \/ Unlink \/ Attrs
  PROVE  UsbInv'
<1>1. CASE Unbind
  <2>1. At("unbind") /\ Rest BY <1>1 DEF Unbind, Step
  <2>2. g \in Gadgets BY <2>1, UsbUnderWay DEF Steps, UsbQuiet
  <2>3. g' \in Gadgets /\ (Advance("unlink") \/ Advance("r_unbind"))
    BY <1>1, <2>2, UsbUnbound DEF Unbind, Step
  <2>4. QED BY <2>1, <2>3, UsbStep DEF Steps, UsbQuiet
<1>2. CASE Unlink
  <2>1. At("unlink") /\ Rest BY <1>2 DEF Unlink, Step
  <2>2. g \in Gadgets BY <2>1, UsbUnderWay DEF Steps, UsbQuiet
  <2>3. g' \in Gadgets /\ (Advance("attrs") \/ Advance("r_unbind"))
    BY <1>2, <2>2, UsbUnlinked DEF Unlink, Step
  <2>4. QED BY <2>1, <2>3, UsbStep DEF Steps, UsbQuiet
<1>3. CASE Attrs
  <2>1. At("attrs") /\ Rest BY <1>3 DEF Attrs, Step
  <2>2. g \in Gadgets /\ job.mode \in Modes BY <2>1, UsbUnderWay DEF Steps, UsbQuiet, Modes
  <2>3. \A a \in Modes \cup {"mixed"} : [g EXCEPT !.attrs = a] \in Gadgets BY <2>2 DEF Gadgets
  <2>4. g' \in Gadgets /\ (Advance("link") \/ Advance("r_unbind"))
    BY <1>3, <2>2, <2>3 DEF Attrs, Step
  <2>5. QED BY <2>1, <2>4, UsbStep DEF Steps, UsbQuiet
<1>4. QED BY <1>1, <1>2, <1>3

\* The links of the new composition.
LEMMA UsbLink ==
  ASSUME UsbInv, UNCHANGED cut, Link
  PROVE  UsbInv'
<1>1. At("link") /\ Rest /\ (Advance("bind") \/ Advance("r_unbind")) BY DEF Link, Step
<1>2. g \in Gadgets /\ job.mode \in Modes BY <1>1, UsbUnderWay DEF Steps, UsbQuiet, Modes
<1>3. g.links \in Compositions BY <1>2 DEF Gadgets
<1>4. g.links["f1"] = None =>
        LET l == [g.links EXCEPT !["f1"] = job.mode]
        IN l \in Compositions /\ \A s \in Slots : g.links[s] # None => l[s] = g.links[s]
  BY <1>2, <1>3 DEF Compositions
<1>5. g.links["f1"] = None /\ g.links["f2"] = None =>
        LET l == [g.links EXCEPT !["f1"] = job.mode, !["f2"] = "storage"]
        IN l \in Compositions /\ \A s \in Slots : g.links[s] # None => l[s] = g.links[s]
  BY <1>2, <1>3 DEF Compositions
<1>6. g' \in Gadgets BY <1>2, <1>4, <1>5, UsbLinked DEF Link, Step
<1>7. QED BY <1>1, <1>6, UsbStep DEF Steps, UsbQuiet

\* The gadget is bound; its interfaces appear at once or late.
LEMMA UsbBind ==
  ASSUME UsbInv, UNCHANGED cut, Bind
  PROVE  UsbInv'
<1>1. At("bind") /\ Rest /\ (Advance("join") \/ Advance("r_unbind")) BY DEF Bind, Step
<1>2. g \in Gadgets BY <1>1, UsbUnderWay DEF Steps, UsbQuiet
<1>3. ~g.bound => g.bridge = {} BY <1>2 DEF Gadgets
<1>4. ~g.bound => Bound(g, Interfaces(g.links)) \in Gadgets /\ Bound(g, {}) \in Gadgets
  BY <1>2, <1>3, UsbBound
<1>5. g' \in Gadgets BY <1>2, <1>4 DEF Bind, Step
<1>6. QED BY <1>1, <1>5, UsbStep DEF Steps, UsbQuiet

\* The new interface joins the bridge, and NCM's switch ends there.
LEMMA UsbJoin ==
  ASSUME UsbInv, UNCHANGED cut, Join
  PROVE  UsbInv'
<1> DEFINE i == InterfaceOf(job.mode)
           joined == [g EXCEPT !.bridge = @ \cup {i}]
<1>1. At("join") /\ UNCHANGED <<asks, default, power, alive>> BY DEF Join
<1>2. /\ UsbTypeOK /\ g \in Gadgets /\ job # None /\ job.at = "join" /\ job.at \notin UsbQuiet
      /\ job.mode \in {"ecm", "ncm"} /\ job.snapshot \in Snapshots /\ job.errors \in BOOLEAN
  BY <1>1, UsbUnderWay DEF Steps, UsbQuiet
<1>3. i \in g.nets => joined \in Gadgets /\ joined.bridge = g.bridge \cup {i}
  BY <1>2, UsbBridged DEF Gadgets
<1> HIDE DEF i
<1>4. CASE i \in g.nets /\ g' = joined /\ job.mode = "ncm" /\ lastError' \in {None, lastError} /\ Release
  <2>1. lastError' \in {None, "failed", "restored", "broken", "unwritten"} BY <1>2, <1>4 DEF UsbTypeOK
  <2>2. QED BY <1>1, <1>3, <1>4, <2>1, UsbRelease
<1>5. CASE i \in g.nets /\ g' = joined /\ job.mode # "ncm" /\ Advance("leave_again") /\ UNCHANGED lastError
  <2>1. /\ job' \in Jobs /\ job' # None /\ job'.at = "leave_again"
        /\ job'.mode = job.mode /\ job'.snapshot = job.snapshot
    BY <1>2, <1>5, UsbAdvanced DEF Advance, Steps
  <2>2. busy' = busy /\ touched' = touched BY <1>5 DEF Advance
  <2>3. i = "ecm0" BY <1>2, <1>5 DEF InterfaceOf, i
  <2>4. UsbTypeOK' BY <1>1, <1>2, <1>3, <1>5, <2>1, <2>2 DEF UsbTypeOK
  <2>5. QuietIsUsable' BY <2>1 DEF QuietIsUsable, UsbQuiet
  <2>6. JobIsPrepared' BY <1>1, <1>2, <1>3, <1>5, <2>1, <2>3 DEF UsbInv, JobIsPrepared
  <2>7. RestoredSoFar' BY <2>1 DEF RestoredSoFar
  <2>8. QED BY <2>4, <2>5, <2>6, <2>7 DEF UsbInv
<1>6. CASE UNCHANGED <<g, lastError>> /\ Advance("r_unbind")
  BY <1>1, <1>2, <1>6, UsbForward
<1>7. QED BY <1>4, <1>5, <1>6 DEF Join, RemoveError, i

\* A step of the restoration that keeps account of what it has put back.
LEMMA UsbTry ==
  ASSUME UsbInv, UNCHANGED <<cut, busy, touched>>, Rest,
         NEW here \in Steps \ UsbQuiet, At(here),
         NEW at \in {"r_unlink", "r_attrs", "r_link", "r_bind", "r_bridge", "end"}, NEW e \in BOOLEAN,
         (job' = [job EXCEPT !.at = at] /\ e = job.errors) \/ job' = [job EXCEPT !.at = at, !.errors = e],
         g' \in Gadgets,
         ~touched /\ ~e =>
           /\ at \in {"r_attrs", "r_link"} => g'.links = NoLinks
           /\ at \in {"r_attrs", "r_link", "r_bind"} => ~g'.bound
           /\ at \in {"r_link", "r_bind", "r_bridge", "end"} => g'.attrs = job.snapshot.attrs
           /\ at \in {"r_bind", "r_bridge", "end"} => g'.links = job.snapshot.links
           /\ at \in {"r_bridge", "end"} => g'.bound = job.snapshot.bound
           /\ at = "end" => g'.bridge = job.snapshot.bridge
  PROVE  UsbInv'
<1>1. /\ UsbTypeOK /\ job # None /\ job.at = here /\ job.mode \in {"ecm", "ncm"} /\ job.snapshot \in Snapshots
  BY UsbUnderWay
<1>2. /\ job' \in Jobs /\ job' # None /\ job'.at = at /\ job'.errors = e
      /\ job'.mode = job.mode /\ job'.snapshot = job.snapshot
  BY <1>1, UsbAdvanced DEF Steps
<1>3. UsbTypeOK' BY <1>1, <1>2 DEF UsbTypeOK, Rest
<1>4. QuietIsUsable' BY <1>2 DEF QuietIsUsable, UsbQuiet
<1>5. JobIsPrepared' BY <1>1, <1>2 DEF UsbInv, JobIsPrepared, Rest
<1>6. RestoredSoFar' BY <1>2 DEF RestoredSoFar
<1>7. QED BY <1>3, <1>4, <1>5, <1>6 DEF UsbInv

\* restore() takes the gadget apart: after it the gadget is unbound and without links.
LEMMA UsbRestoreEmpties ==
  ASSUME UsbInv, UNCHANGED cut, RestoreUnbind \/ RestoreUnlink
  PROVE  UsbInv'
<1>1. CASE RestoreUnbind
  <2>1. At("r_unbind") /\ Rest /\ UNCHANGED <<busy, touched>> BY <1>1 DEF RestoreUnbind, Try
  <2>2. g \in Gadgets /\ job.errors \in BOOLEAN BY <2>1, UsbUnderWay DEF Steps, UsbQuiet
  <2>3. g' \in Gadgets BY <1>1, <2>2, UsbUnbound DEF RestoreUnbind, Try
  <2>4. job' = [job EXCEPT !.at = "r_unlink"] \/ job' = [job EXCEPT !.at = "r_unlink", !.errors = TRUE]
    BY <1>1 DEF RestoreUnbind, Try
  <2>5. QED BY <2>1, <2>2, <2>3, <2>4, UsbTry DEF Steps, UsbQuiet
<1>2. CASE RestoreUnlink
  <2>1. At("r_unlink") /\ Rest /\ UNCHANGED <<busy, touched>> BY <1>2 DEF RestoreUnlink, Try
  <2>2. g \in Gadgets /\ job.errors \in BOOLEAN BY <2>1, UsbUnderWay DEF Steps, UsbQuiet
  <2>3. g' \in Gadgets BY <1>2, <2>2, UsbUnlinked DEF RestoreUnlink, Try
  <2>4. CASE g' = Unlinked({}) /\ job' = [job EXCEPT !.at = "r_attrs"]
    <3>1. g'.links = NoLinks /\ ~g'.bound
      BY <2>2, <2>4 DEF Unlinked, Unbound, NoLinks, Gadgets
    <3>2. QED BY <2>1, <2>2, <2>3, <2>4, <3>1, UsbTry DEF Steps, UsbQuiet
  <2>5. CASE job' = [job EXCEPT !.at = "r_attrs", !.errors = TRUE]
    BY <2>1, <2>3, <2>5, UsbTry DEF Steps, UsbQuiet
  <2>6. QED BY <1>2, <2>4, <2>5 DEF RestoreUnlink, Try
<1>3. QED BY <1>1, <1>2

\* The attributes and the links of the snapshot are put back.
LEMMA UsbRestoreRebuilds ==
  ASSUME UsbInv, UNCHANGED cut, RestoreAttrs \/ RestoreLinks
  PROVE  UsbInv'
<1>1. CASE RestoreAttrs
  <2>1. At("r_attrs") /\ Rest /\ UNCHANGED <<busy, touched>> BY <1>1 DEF RestoreAttrs, Try
  <2>2. /\ g \in Gadgets /\ job # None /\ job.at = "r_attrs" /\ job.snapshot \in Snapshots
        /\ job.errors \in BOOLEAN
    BY <2>1, UsbUnderWay DEF Steps, UsbQuiet
  <2>3. \A a \in Modes \cup {"mixed"} :
          LET x == [g EXCEPT !.attrs = a]
          IN x \in Gadgets /\ x.attrs = a /\ x.links = g.links /\ x.bound = g.bound
    BY <2>2 DEF Gadgets
  <2>4. job.snapshot.attrs \in Modes \cup {"mixed"} BY <2>2 DEF Snapshots
  <2>5. CASE g' = [g EXCEPT !.attrs = job.snapshot.attrs] /\ job' = [job EXCEPT !.at = "r_link"]
    <3>1. /\ g' \in Gadgets /\ g'.attrs = job.snapshot.attrs /\ g'.links = g.links /\ g'.bound = g.bound
      BY <2>3, <2>4, <2>5
    <3>2. ~touched /\ ~job.errors => g.links = NoLinks /\ ~g.bound BY <2>2 DEF UsbInv, RestoredSoFar
    <3>3. QED BY <2>1, <2>2, <2>5, <3>1, <3>2, UsbTry DEF Steps, UsbQuiet
  <2>6. CASE g' = [g EXCEPT !.attrs = "mixed"] /\ job' = [job EXCEPT !.at = "r_link", !.errors = TRUE]
    <3>1. g' \in Gadgets BY <2>3, <2>6
    <3>2. QED BY <2>1, <2>6, <3>1, UsbTry DEF Steps, UsbQuiet
  <2>7. QED BY <1>1, <2>5, <2>6 DEF RestoreAttrs, Try
<1>2. CASE RestoreLinks
  <2> DEFINE wanted == {s \in Slots : job.snapshot.links[s] # None}
             free == {s \in wanted : g.links[s] = None}
             links(made) == [s \in Slots |-> IF s \in made THEN job.snapshot.links[s] ELSE g.links[s]]
  <2>1. At("r_link") /\ Rest /\ UNCHANGED <<busy, touched>> BY <1>2 DEF RestoreLinks
  <2>2. /\ g \in Gadgets /\ job # None /\ job.at = "r_link" /\ job.snapshot \in Snapshots
        /\ job.errors \in BOOLEAN
    BY <2>1, UsbUnderWay DEF Steps, UsbQuiet
  <2>3. job.snapshot.links \in Compositions /\ g.links \in Compositions BY <2>2 DEF Snapshots, Gadgets
  <2>4. ASSUME NEW made \in SUBSET free
        PROVE  /\ Relinked(made) \in Gadgets
               /\ Relinked(made).links = links(made) /\ Relinked(made).bound = g.bound
               /\ Relinked(made).attrs = g.attrs
    <3>1. links(made) \in Compositions BY <2>3 DEF Compositions
    <3>2. \A s \in Slots : g.links[s] # None => links(made)[s] = g.links[s] BY <2>4
    <3>3. Relinked(made) = [g EXCEPT !.links = links(made)] BY <2>2 DEF Relinked, Gadgets
    <3> HIDE DEF links
    <3>4. QED BY <2>2, <3>1, <3>2, <3>3, UsbLinked DEF Gadgets
  <2>5. CASE /\ g' = Relinked(free)
             /\ job' = [job EXCEPT !.at = "r_bind", !.errors = @ \/ free # wanted]
    <3> DEFINE e == job.errors \/ free # wanted
    <3>1. /\ g' \in Gadgets /\ g'.links = links(free) /\ g'.bound = g.bound /\ g'.attrs = g.attrs
      BY <2>4, <2>5
    <3>2. job' = [job EXCEPT !.at = "r_bind", !.errors = e] /\ e \in BOOLEAN BY <2>2, <2>5
    <3>3. ~touched /\ ~e => g'.links = job.snapshot.links
      <4>1. SUFFICES ASSUME ~touched, ~e PROVE links(free) = job.snapshot.links BY <3>1
      <4>2. g.links = NoLinks BY <2>2, <4>1 DEF UsbInv, RestoredSoFar
      <4>3. \A s \in Slots : links(free)[s] = job.snapshot.links[s] BY <4>1, <4>2 DEF NoLinks
      <4>4. QED BY <2>3, <4>3 DEF Compositions
    <3>4. ~touched /\ ~e => ~g.bound /\ g.attrs = job.snapshot.attrs BY <2>2 DEF UsbInv, RestoredSoFar
    <3> HIDE DEF e, links, free
    <3>5. QED BY <2>1, <3>1, <3>2, <3>3, <3>4, UsbTry DEF Steps, UsbQuiet
  <2>6. CASE /\ \E made \in SUBSET free : g' = Relinked(made)
             /\ job' = [job EXCEPT !.at = "r_bind", !.errors = TRUE]
    <3>1. g' \in Gadgets BY <2>4, <2>6
    <3>2. QED BY <2>1, <2>6, <3>1, UsbTry DEF Steps, UsbQuiet
  <2>7. QED BY <1>2, <2>5, <2>6 DEF RestoreLinks
<1>3. QED BY <1>1, <1>2

\* The controller and the bridge of the snapshot are put back.
LEMMA UsbRestoreConnects ==
  ASSUME UsbInv, UNCHANGED cut, RestoreBind \/ RestoreBridge
  PROVE  UsbInv'
<1>1. CASE RestoreBind
  <2>1. At("r_bind") /\ Rest /\ UNCHANGED <<busy, touched>> BY <1>1 DEF RestoreBind, Try
  <2>2. /\ g \in Gadgets /\ job # None /\ job.at = "r_bind" /\ job.snapshot \in Snapshots
        /\ job.errors \in BOOLEAN
    BY <2>1, UsbUnderWay DEF Steps, UsbQuiet
  <2>3. ~g.bound => g.bridge = {} BY <2>2 DEF Gadgets
  <2>4. ~g.bound => Bound(g, Interfaces(g.links)) \in Gadgets /\ Bound(g, {}) \in Gadgets
    BY <2>2, <2>3, UsbBound
  <2>5. \A nets : /\ Bound(g, nets).bound = TRUE /\ Bound(g, nets).links = g.links
                  /\ Bound(g, nets).attrs = g.attrs
    BY <2>2 DEF Bound, Gadgets
  <2>6. /\ Unbound(g) \in Gadgets /\ Unbound(g).bound = FALSE /\ Unbound(g).links = g.links
        /\ Unbound(g).attrs = g.attrs
    BY <2>2, UsbUnbound DEF Unbound, Gadgets
  <2>7. job.snapshot.bound \in BOOLEAN BY <2>2 DEF Snapshots
  <2>8. CASE /\ IF job.snapshot.bound THEN ~g.bound /\ g' = Bound(g, Interfaces(g.links)) ELSE g' = Unbound(g)
             /\ job' = [job EXCEPT !.at = "r_bridge"]
    <3>1. g' \in Gadgets /\ g'.bound = job.snapshot.bound /\ g'.links = g.links /\ g'.attrs = g.attrs
      BY <2>4, <2>5, <2>6, <2>7, <2>8
    <3>2. ~touched /\ ~job.errors => g.links = job.snapshot.links /\ g.attrs = job.snapshot.attrs
      BY <2>2 DEF UsbInv, RestoredSoFar
    <3>3. QED BY <2>1, <2>2, <2>8, <3>1, <3>2, UsbTry DEF Steps, UsbQuiet
  <2>9. CASE /\ g' = g \/ (~g.bound /\ g' = Bound(g, {}))
             /\ job' = [job EXCEPT !.at = "r_bridge", !.errors = TRUE]
    <3>1. g' \in Gadgets BY <2>2, <2>4, <2>9
    <3>2. QED BY <2>1, <2>9, <3>1, UsbTry DEF Steps, UsbQuiet
  <2>10. QED BY <1>1, <2>8, <2>9 DEF RestoreBind, Try
<1>2. CASE RestoreBridge
  <2> DEFINE missing == job.snapshot.bridge \ g.nets
  <2>1. At("r_bridge") /\ Rest /\ UNCHANGED <<busy, touched>> BY <1>2 DEF RestoreBridge
  <2>2. /\ g \in Gadgets /\ job # None /\ job.at = "r_bridge" /\ job.snapshot \in Snapshots
        /\ job.errors \in BOOLEAN
    BY <2>1, UsbUnderWay DEF Steps, UsbQuiet
  <2>3. \A bridge \in SUBSET g.nets :
          LET x == [g EXCEPT !.bridge = bridge]
          IN x \in Gadgets /\ x.bridge = bridge /\ x.bound = g.bound /\ x.links = g.links /\ x.attrs = g.attrs
    BY <2>2, UsbBridged DEF Gadgets
  <2>4. g.bridge \subseteq g.nets /\ job.snapshot.bridge \ missing \subseteq g.nets BY <2>2 DEF Gadgets
  <2>5. CASE /\ g' = [g EXCEPT !.bridge = job.snapshot.bridge \ missing]
             /\ job' = [job EXCEPT !.at = "end", !.errors = @ \/ missing # {}]
    <3> DEFINE e == job.errors \/ missing # {}
    <3>1. /\ g' \in Gadgets /\ g'.bridge = job.snapshot.bridge \ missing
          /\ g'.bound = g.bound /\ g'.links = g.links /\ g'.attrs = g.attrs
      BY <2>3, <2>4, <2>5
    <3>2. job' = [job EXCEPT !.at = "end", !.errors = e] /\ e \in BOOLEAN BY <2>2, <2>5
    <3>3. ~e => g'.bridge = job.snapshot.bridge BY <3>1
    <3>4. ~touched /\ ~e => /\ g.links = job.snapshot.links /\ g.attrs = job.snapshot.attrs
                            /\ g.bound = job.snapshot.bound
      BY <2>2 DEF UsbInv, RestoredSoFar
    <3> HIDE DEF e, missing
    <3>5. QED BY <2>1, <3>1, <3>2, <3>3, <3>4, UsbTry DEF Steps, UsbQuiet
  <2>6. CASE /\ \E bridge \in SUBSET ((job.snapshot.bridge \ missing) \cup g.bridge) : g' = [g EXCEPT !.bridge = bridge]
             /\ job' = [job EXCEPT !.at = "end", !.errors = TRUE]
    <3>1. PICK bridge \in SUBSET ((job.snapshot.bridge \ missing) \cup g.bridge) : g' = [g EXCEPT !.bridge = bridge]
      BY <2>6
    <3>2. bridge \in SUBSET g.nets BY <2>4, <3>1
    <3>3. g' \in Gadgets BY <2>3, <3>1, <3>2
    <3>4. QED BY <2>1, <2>6, <3>3, UsbTry DEF Steps, UsbQuiet
  <2>7. QED BY <1>2, <2>5, <2>6 DEF RestoreBridge
<1>3. QED BY <1>1, <1>2

\* with_rollback() ends with an error on record.
LEMMA UsbReport ==
  ASSUME UsbInv, UNCHANGED cut, Report
  PROVE  UsbInv'
<1>1. Release /\ UNCHANGED <<g, asks, default>> /\ lastError' \in {"broken", "restored", "unwritten"} BY DEF Report, WriteError
<1>2. lastError' # None BY <1>1, UsbConstants
<1>3. g \in Gadgets BY DEF UsbInv, UsbTypeOK
<1>4. QED BY <1>1, <1>2, <1>3, UsbRelease

\* Interfaces that come up late, the firmware, and the power state.
LEMMA UsbDevice ==
  ASSUME UsbInv, UNCHANGED cut, InterfaceAppears \/ StockChanges \/ PowerChanges
  PROVE  UsbInv'
<1>1. UsbTypeOK /\ g \in Gadgets BY DEF UsbInv, UsbTypeOK
<1>2. CASE InterfaceAppears
  <2>1. g.bound /\ g' = [g EXCEPT !.nets = Interfaces(g.links)]
        /\ UNCHANGED <<busy, asks, job, default, lastError, alive, touched>>
    BY <1>2 DEF InterfaceAppears
  <2>2. /\ g' \in Gadgets /\ g'.bridge = g.bridge /\ g'.bound = g.bound /\ g'.links = g.links
        /\ g'.attrs = g.attrs
    BY <1>1, <2>1, UsbInterfacesTyped DEF Gadgets
  <2>3. UsbTypeOK' BY <1>1, <2>1, <2>2 DEF UsbTypeOK
  <2>4. QED BY <2>1, <2>2, <2>3 DEF UsbInv, QuietIsUsable, JobIsPrepared, RestoredSoFar
<1>3. CASE StockChanges
  <2>1. touched' = TRUE /\ UNCHANGED <<busy, asks, job, default, lastError, alive>> BY <1>3 DEF StockChanges
  <2>2. g' \in Gadgets /\ g'.bridge # {} /\ g'.bridge \cap {"ecm0", "rndis0"} # {}
    BY <1>3, UsbStock DEF StockChanges, Modes
  <2>3. UsbTypeOK' BY <1>1, <2>1, <2>2 DEF UsbTypeOK
  <2>4. QED BY <2>1, <2>2, <2>3 DEF UsbInv, QuietIsUsable, JobIsPrepared, RestoredSoFar
<1>4. CASE PowerChanges
  <2>1. UNCHANGED <<g, busy, asks, job, default, lastError, alive, touched>> BY <1>4 DEF PowerChanges
  <2>2. UsbTypeOK' BY <1>1, <2>1 DEF UsbTypeOK
  <2>3. QED BY <2>1, <2>2 DEF UsbInv, QuietIsUsable, JobIsPrepared, RestoredSoFar
<1>5. QED BY <1>2, <1>3, <1>4

\* The agent dies, alone or with the device.
LEMMA UsbDeath ==
  ASSUME UsbInv, AgentDies \/ Reboots
  PROVE  UsbInv'
<1>1. UsbTypeOK /\ g \in Gadgets BY DEF UsbInv, UsbTypeOK
<1>2. busy' = FALSE /\ asks' = {} /\ job' = None /\ touched' = FALSE /\ UNCHANGED default
  BY DEF AgentDies, Reboots
<1>3. CASE AgentDies
  <2>1. UNCHANGED <<g, lastError>> /\ cut' = (cut \/ busy) BY <1>3 DEF AgentDies
  <2>2. busy \in BOOLEAN /\ cut \in BOOLEAN /\ (~busy => job = None) BY <1>1 DEF UsbTypeOK
  <2>3. UsbTypeOK' BY <1>1, <1>2, <2>1, <2>2 DEF UsbTypeOK
  <2>4. QuietIsUsable' BY <2>1, <2>2 DEF UsbInv, QuietIsUsable
  <2>5. QED BY <1>2, <2>3, <2>4 DEF UsbInv, JobIsPrepared, RestoredSoFar
<1>4. CASE Reboots
  <2>1. g' = StockGadget("ecm") /\ lastError' = None /\ cut' = FALSE BY <1>4 DEF Reboots
  <2>2. g' \in Gadgets /\ g'.bridge # {} BY <2>1, UsbStock DEF Modes
  <2>3. UsbTypeOK' BY <1>1, <1>2, <2>1, <2>2 DEF UsbTypeOK
  <2>4. QED BY <1>2, <2>2, <2>3 DEF UsbInv, QuietIsUsable, JobIsPrepared, RestoredSoFar
<1>5. QED BY <1>3, <1>4

\* Every step keeps the invariant.
LEMMA UsbStepHolds ==
  ASSUME UsbInv, [UsbNext]_usbVars
  PROVE  UsbInv'
<1>1. CASE UNCHANGED usbVars
  <2>1. UNCHANGED <<g, busy, asks, job, default, lastError, power, alive, touched, cut, usbBudget>>
    BY <1>1 DEF usbVars
  <2>2. UsbTypeOK' BY <2>1 DEF UsbInv, UsbTypeOK
  <2>3. QED BY <2>1, <2>2 DEF UsbInv, QuietIsUsable, JobIsPrepared, RestoredSoFar
<1>2. CASE JobStep /\ UNCHANGED cut
  BY <1>2, UsbQuietSteps, UsbCapture, UsbLeave, UsbTakenApart, UsbLink, UsbBind, UsbJoin, UsbRestoreEmpties,
     UsbRestoreRebuilds, UsbRestoreConnects, UsbReport DEF JobStep
<1>3. QED BY <1>1, <1>2, UsbAsks, UsbDevice, UsbDeath DEF UsbNext

\* The types of the gadget, the change and the error, whatever the firmware does meanwhile.
THEOREM UsbTypeCorrect == UsbSpec => []UsbTypeOK
<1>1. UsbInit => UsbInv BY UsbInitHolds
<1>2. UsbInv /\ [UsbNext]_usbVars => UsbInv' BY UsbStepHolds
<1>3. UsbInv => UsbTypeOK BY DEF UsbInv
<1>4. QED BY <1>1, <1>2, <1>3, PTL DEF UsbSpec

\* schedule_switch() keeps the error of a change: a device left without a USB network by a change has an error on record.
THEOREM UsbReportsBroken == UsbSpec => []BrokenIsReported
<1>1. UsbInit => UsbInv BY UsbInitHolds
<1>2. UsbInv /\ [UsbNext]_usbVars => UsbInv' BY UsbStepHolds
<1>3. UsbInv => BrokenIsReported
  <2>1. SUFFICES ASSUME UsbInv, ~busy, ~cut, lastError = None PROVE Usable BY DEF BrokenIsReported
  <2>2. job = None /\ g \in Gadgets BY <2>1 DEF UsbInv, UsbTypeOK
  <2>3. g.bridge # {} BY <2>1, <2>2 DEF UsbInv, QuietIsUsable
  <2>4. QED BY <2>2, <2>3 DEF Usable, Gadgets
<1>4. QED BY <1>1, <1>2, <1>3, PTL DEF UsbSpec

\* restore(): what with_rollback() calls restored has the snapshot's binding, links, attributes and bridge.
THEOREM UsbRestores == UsbSpec => RestoredIsRestored
<1>1. UsbInit => UsbInv BY UsbInitHolds
<1>2. UsbInv /\ [UsbNext]_usbVars => UsbInv' BY UsbStepHolds
<1>3. UsbInv /\ [UsbNext]_usbVars
        => [Report /\ lastError' = "restored" /\ ~touched => Captured(g') = job.snapshot]_usbVars
  <2>1. SUFFICES ASSUME UsbInv, Report, lastError' = "restored", ~touched
                 PROVE  Captured(g') = job.snapshot
    OBVIOUS
  <2>2. At("end") /\ g' = g /\ ~job.errors BY <2>1 DEF Report, WriteError
  <2>3. job # None /\ job.at = "end" /\ job.snapshot \in Snapshots
    BY <2>1, <2>2, UsbUnderWay DEF Steps, UsbQuiet
  <2>4. /\ g.attrs = job.snapshot.attrs /\ g.links = job.snapshot.links /\ g.bound = job.snapshot.bound
        /\ g.bridge = job.snapshot.bridge
    BY <2>1, <2>2, <2>3 DEF UsbInv, RestoredSoFar
  <2>5. QED BY <2>2, <2>3, <2>4 DEF Captured, Snapshots
<1>4. QED BY <1>1, <1>2, <1>3, PTL DEF UsbSpec, RestoredIsRestored

(***************************************************************************)
(* Auth.                                                                   *)
(***************************************************************************)
Logins == [at : {"hash", "fail", "issue"}, client : Clients, right : BOOLEAN, now : Nat]

\* The failures on record for a client, and the threads that compared a wrong credential of
\* its own and have not recorded it, or have one to compare.
Failures(c) == IF attempts[c] = None THEN 0 ELSE attempts[c].count
Failing(c) == {w \in Workers : worker[w].at = "fail" /\ worker[w].client = c}
Hashing(c) == {w \in Workers : worker[w].at = "hash" /\ ~worker[w].right /\ worker[w].client = c}

\* What was compared is on record or about to be; at the threshold the lockout is armed, and
\* only threads that had passed the lock still compare.
ClientIsCounted(c) ==
  /\ ghost.checked[c] <= Failures(c) + Cardinality(Failing(c))
  /\ Failures(c) >= MaxAttempts =>
       /\ attempts[c].lockedUntil > 0
       /\ ghost.checked[c] + Cardinality(Hashing(c)) <= MaxAttempts - 1 + Cardinality(Workers)

\* A session without a token is over, or newer ones have taken its place; they did so in order.
SessionIsKept(s) ==
  /\ ghost.sessions[s].used <= mono
  /\ \/ \E t \in tokens : t.value = s
     \/ ghost.sessions[s].pushed
     \/ mono >= ghost.sessions[s].used + TokenTtl
  /\ \A u \in 1..Len(ghost.sessions) : s < u /\ ghost.sessions[u].pushed => ghost.sessions[s].pushed

\* A token is of a session that was not pushed out and expires TOKEN_TTL after its last use.
TokenIsExact(t) ==
  /\ t.value \in 1..Len(ghost.sessions) /\ t.expires = ghost.sessions[t.value].used + TokenTtl
  /\ ~ghost.sessions[t.value].pushed

GuessesAreCounted == \A c \in Clients : ClientIsCounted(c)
SessionsAreKept ==
  /\ \A s \in 1..Len(ghost.sessions) : SessionIsKept(s)
  /\ \A t \in tokens : TokenIsExact(t)

AuthInv == AuthTypeOK /\ GuessesAreCounted /\ SessionsAreKept

\* The sizes of the two sets of threads: no thread is in both.
LEMMA AuthThreads ==
  ASSUME NEW c
  PROVE  /\ IsFiniteSet(Failing(c)) /\ IsFiniteSet(Hashing(c))
         /\ Cardinality(Failing(c)) \in Nat /\ Cardinality(Hashing(c)) \in Nat /\ Cardinality(Workers) \in Nat
         /\ Cardinality(Failing(c)) + Cardinality(Hashing(c)) <= Cardinality(Workers)
<1>1. IsFiniteSet(Workers) BY AuthConstants
<1>2. Failing(c) \in SUBSET Workers /\ Hashing(c) \in SUBSET Workers /\ Failing(c) \cap Hashing(c) = {}
  BY DEF Failing, Hashing
<1>3. IsFiniteSet(Failing(c)) /\ IsFiniteSet(Hashing(c)) BY <1>1, <1>2, FS_Subset
<1>4. Cardinality(Failing(c)) \in Nat /\ Cardinality(Hashing(c)) \in Nat /\ Cardinality(Workers) \in Nat
  BY <1>1, <1>3, FS_CardinalityType
<1>5. Cardinality(Failing(c) \cup Hashing(c)) = Cardinality(Failing(c)) + Cardinality(Hashing(c)) - Cardinality({})
  BY <1>2, <1>3, FS_Union
<1>6. Cardinality({}) = 0 BY FS_EmptySet
<1>7. Cardinality(Failing(c) \cup Hashing(c)) <= Cardinality(Workers)
  <2>1. Failing(c) \cup Hashing(c) \in SUBSET Workers BY <1>2
  <2> HIDE DEF Failing, Hashing
  <2>2. QED BY <1>1, <2>1, FS_Subset
<1>8. QED BY <1>3, <1>4, <1>5, <1>6, <1>7

\* A client nobody touches stays counted.
LEMMA AuthClientFrame ==
  ASSUME NEW c \in Clients, ClientIsCounted(c),
         attempts'[c] = attempts[c], ghost'.checked[c] = ghost.checked[c],
         Failing(c)' = Failing(c), Hashing(c)' = Hashing(c)
  PROVE  ClientIsCounted(c)'
  BY DEF ClientIsCounted, Failures

\* The types a proof about a client needs.
LEMMA AuthClient ==
  ASSUME AuthTypeOK, NEW c \in Clients
  PROVE  /\ attempts[c] # None => attempts[c] \in LoginAttempts
         /\ ghost.checked[c] \in Nat /\ Failures(c) \in Nat
         /\ MaxAttempts \in Nat \ {0} /\ wall \in Nat
         /\ None \notin LoginAttempts
<1>1. attempts[c] # None => attempts[c] \in LoginAttempts
  BY DEF AuthTypeOK, LoginAttempts
<1>2. Failures(c) \in Nat BY <1>1 DEF Failures, LoginAttempts
<1>3. ghost.checked[c] \in Nat BY DEF AuthTypeOK
<1>4. QED BY <1>1, <1>2, <1>3, AuthConstants DEF AuthTypeOK, LoginAttempts

\* A thread is idle or serves a login.
LEMMA AuthWorker ==
  ASSUME AuthTypeOK, NEW w \in Workers
  PROVE  /\ worker[w].at = "idle" => worker[w] = Idle
         /\ worker[w].at # "idle" => worker[w] \in Logins
         /\ worker[w] = Idle => worker[w].at = "idle"
  BY DEF AuthTypeOK, Idle, Logins

\* The lock is looked at: a client that may go on is below the threshold.
LEMMA AuthBegins ==
  ASSUME AuthTypeOK, GuessesAreCounted,
         NEW w \in Workers, NEW c \in Clients, NEW right \in BOOLEAN, LoginBegins(w, c, right)
  PROVE  GuessesAreCounted'
<1>1. /\ worker[w].at = "idle" /\ worker \in [Workers -> {worker[v] : v \in Workers}]
      /\ worker' = [worker EXCEPT ![w] = [at |-> "hash", client |-> c, right |-> right, now |-> wall]]
  BY AuthWorker DEF LoginBegins, AuthTypeOK
<1>2. \A d \in Clients : Failing(d)' = Failing(d)
  BY <1>1 DEF Failing
<1>3. \A d \in Clients \ {c} : Hashing(d)' = Hashing(d)
  BY <1>1 DEF Hashing
<1>4. attempts \in [Clients -> {attempts[d] : d \in Clients}] /\ ghost.checked \in [Clients -> Nat]
      /\ ghost \in [checked : [Clients -> Nat], sessions : Seq([used : Nat, pushed : BOOLEAN])]
  BY DEF AuthTypeOK
<1>5. ghost'.checked = [ghost.checked EXCEPT ![c] = IF Waited(c) THEN 0 ELSE @]
  BY <1>4 DEF LoginBegins
<1>6. ASSUME NEW d \in Clients \ {c} PROVE ClientIsCounted(d)'
  <2>1. attempts'[d] = attempts[d] BY <1>4 DEF LoginBegins, Forget
  <2>2. ghost'.checked[d] = ghost.checked[d] BY <1>4, <1>5
  <2>3. QED BY <1>2, <1>3, <2>1, <2>2, AuthClientFrame DEF GuessesAreCounted
<1>7. ClientIsCounted(c)'
  <2>1. /\ attempts[c] # None => attempts[c] \in LoginAttempts
        /\ ghost.checked[c] \in Nat /\ Failures(c) \in Nat
        /\ MaxAttempts \in Nat \ {0} /\ wall \in Nat
    BY AuthClient
  <2>2. ghost.checked[c] <= Failures(c) + Cardinality(Failing(c))
        /\ (Failures(c) >= MaxAttempts => attempts[c].lockedUntil > 0)
    BY DEF GuessesAreCounted, ClientIsCounted
  <2>3. Cardinality(Failing(c)) \in Nat BY AuthThreads
  <2>4. CASE Expired(c)
    <3>1. attempts'[c] = None BY <1>4, <2>4 DEF LoginBegins, Forget
    <3>2. Waited(c) BY <2>1, <2>2, <2>4 DEF Waited, Expired, Failures, LoginAttempts
    <3>3. ghost'.checked[c] = 0 BY <1>4, <1>5, <3>2
    <3>4. Failures(c)' = 0 BY <3>1 DEF Failures
    <3>5. QED BY <1>2, <2>1, <2>3, <3>3, <3>4 DEF ClientIsCounted
  <2>5. CASE ~Expired(c)
    <3>1. attempts'[c] = attempts[c] BY <2>5 DEF LoginBegins
    <3>2. Failures(c) < MaxAttempts
      BY <2>1, <2>5 DEF LoginBegins, Locked, Expired, Failures, LoginAttempts
    <3>3. ghost'.checked[c] <= ghost.checked[c] /\ ghost'.checked[c] \in Nat BY <1>4, <1>5, <2>1
    <3>4. Failures(c)' = Failures(c) BY <3>1 DEF Failures
    <3>5. QED BY <1>2, <2>1, <2>2, <2>3, <3>2, <3>3, <3>4 DEF ClientIsCounted
  <2>6. QED BY <2>4, <2>5
<1>8. QED BY <1>6, <1>7 DEF GuessesAreCounted

\* The hash is compared: a right credential clears the count, a wrong one is about to be recorded.
LEMMA AuthVerifies ==
  ASSUME AuthTypeOK, GuessesAreCounted, NEW w \in Workers, LoginVerifies(w)
  PROVE  GuessesAreCounted'
<1>0. worker[w].at = "hash" /\ worker[w] \in Logins BY AuthWorker DEF LoginVerifies
<1>1. PICK c \in Clients : c = worker[w].client /\ worker[w].at = "hash" /\ worker[w] \in Logins BY <1>0 DEF Logins
<1>2. worker \in [Workers -> {worker[v] : v \in Workers}] /\ attempts \in [Clients -> {attempts[d] : d \in Clients}]
      /\ ghost.checked \in [Clients -> Nat]
      /\ ghost \in [checked : [Clients -> Nat], sessions : Seq([used : Nat, pushed : BOOLEAN])]
  BY DEF AuthTypeOK
<1>3. /\ ghost.checked[c] \in Nat /\ Failures(c) \in Nat /\ MaxAttempts \in Nat \ {0}
  BY <1>1, AuthClient
<1>4. ClientIsCounted(c) BY <1>1 DEF GuessesAreCounted
<1>5. /\ Cardinality(Failing(c)) \in Nat /\ Cardinality(Hashing(c)) \in Nat /\ Cardinality(Workers) \in Nat
      /\ IsFiniteSet(Failing(c)) /\ IsFiniteSet(Hashing(c))
  BY AuthThreads
<1>6. CASE worker[w].right
  <2>1. /\ worker' = [worker EXCEPT ![w].at = "issue"] /\ attempts' = [attempts EXCEPT ![c] = None]
        /\ ghost' = [ghost EXCEPT !.checked[c] = 0]
    BY <1>1, <1>6 DEF LoginVerifies, Forget
  <2>2. \A d \in Clients : Failing(d)' = Failing(d) /\ Hashing(d)' = Hashing(d)
    BY <1>1, <1>2, <1>6, <2>1 DEF Failing, Hashing, Logins
  <2>3. \A d \in Clients \ {c} : attempts'[d] = attempts[d] /\ ghost'.checked[d] = ghost.checked[d] BY <1>2, <2>1
  <2>4. \A d \in Clients \ {c} : ClientIsCounted(d)' BY <2>2, <2>3, AuthClientFrame DEF GuessesAreCounted
  <2>5. attempts'[c] = None /\ ghost'.checked[c] = 0 BY <1>1, <1>2, <2>1
  <2>6. Failures(c)' = 0 BY <2>5 DEF Failures
  <2>7. ClientIsCounted(c)' BY <1>1, <1>3, <1>5, <2>2, <2>5, <2>6 DEF ClientIsCounted
  <2>8. QED BY <2>4, <2>7 DEF GuessesAreCounted
<1>7. CASE ~worker[w].right
  <2>1. /\ worker' = [worker EXCEPT ![w].at = "fail"] /\ attempts' = attempts
        /\ ghost' = [ghost EXCEPT !.checked[c] = @ + 1]
    BY <1>1, <1>7 DEF LoginVerifies
  <2>2. \A d \in Clients \ {c} : Failing(d)' = Failing(d) /\ Hashing(d)' = Hashing(d)
    BY <1>1, <1>2, <2>1 DEF Failing, Hashing, Logins
  <2>3. \A d \in Clients \ {c} : ghost'.checked[d] = ghost.checked[d] BY <1>2, <2>1
  <2>4. \A d \in Clients \ {c} : ClientIsCounted(d)' BY <2>1, <2>2, <2>3, AuthClientFrame DEF GuessesAreCounted
  <2>5. Failing(c)' = Failing(c) \cup {w} /\ w \notin Failing(c)
    BY <1>1, <1>2, <2>1 DEF Failing, Logins
  <2>6. Hashing(c)' = Hashing(c) \ {w} /\ w \in Hashing(c)
    BY <1>1, <1>2, <1>7, <2>1 DEF Hashing, Logins
  <2>7. Cardinality(Failing(c) \cup {w}) = Cardinality(Failing(c)) + 1 BY <1>5, <2>5, FS_AddElement
  <2>8. Cardinality(Hashing(c) \ {w}) = Cardinality(Hashing(c)) - 1 BY <1>5, <2>6, FS_RemoveElement
  <2>9. ghost'.checked[c] = ghost.checked[c] + 1 BY <1>1, <1>2, <2>1
  <2>10. Failures(c)' = Failures(c) BY <2>1 DEF Failures
  <2>11. ClientIsCounted(c)'
    BY <1>3, <1>4, <1>5, <2>1, <2>5, <2>6, <2>7, <2>8, <2>9, <2>10 DEF ClientIsCounted
  <2>12. QED BY <2>4, <2>11 DEF GuessesAreCounted
<1>8. QED BY <1>6, <1>7 DEF LoginVerifies

\* record_failed_login(): one more failure is on record, or the count begins again.
LEMMA AuthCounted ==
  ASSUME AuthTypeOK, NEW c \in Clients, NEW now \in Nat
  PROVE  LET a == Counted(attempts[c], now)
         IN /\ a \in LoginAttempts /\ a # None
            /\ a.count >= MaxAttempts => a.lockedUntil > 0
            /\ a.count = IF Recent(attempts[c], now) THEN Failures(c) + 1 ELSE 1
            /\ Recent(attempts[c], now) => attempts[c] # None
<1> DEFINE a == Counted(attempts[c], now)
           r == Recent(attempts[c], now)
<1>1. /\ attempts[c] # None => attempts[c] \in LoginAttempts
      /\ Failures(c) \in Nat /\ MaxAttempts \in Nat \ {0} /\ None \notin LoginAttempts
  BY AuthClient
<1>2. LockoutSecs \in Nat \ {0} BY AuthConstants
<1>3. r \in BOOLEAN /\ (r => attempts[c] # None) BY DEF Recent
<1>4. a.count = IF r THEN Failures(c) + 1 ELSE 1 BY <1>3 DEF Counted, Failures
<1>5. a.last = now /\ a.lockedUntil = IF a.count >= MaxAttempts THEN now + LockoutSecs
                                      ELSE IF r THEN attempts[c].lockedUntil ELSE 0
  BY DEF Counted
<1>6. a = [count |-> a.count, last |-> a.last, lockedUntil |-> a.lockedUntil] BY DEF Counted
<1>7. a.count \in Nat \ {0} BY <1>1, <1>4
<1>8. a.lockedUntil \in Nat BY <1>1, <1>2, <1>3, <1>5 DEF LoginAttempts
<1> HIDE DEF a, r
<1>9. a \in LoginAttempts BY <1>5, <1>6, <1>7, <1>8 DEF LoginAttempts
<1>10. a.count >= MaxAttempts => a.lockedUntil > 0 BY <1>2, <1>5
<1>11. QED BY <1>1, <1>3, <1>4, <1>9, <1>10 DEF a, r

\* A failure is recorded, by a thread that had compared it (which leaves Failing) or for a
\* malformed PIN, which was not compared.
LEMMA AuthRecords ==
  ASSUME AuthTypeOK, GuessesAreCounted, NEW c \in Clients, NEW now \in Nat,
         RecordFailed(c, now),
         \A d \in Clients : Hashing(d)' = Hashing(d),
         \A d \in Clients \ {c} : Failing(d)' = Failing(d),
         \/ Failing(c)' = Failing(c)
         \/ \E w \in Failing(c) : Failing(c)' = Failing(c) \ {w}
  PROVE  GuessesAreCounted'
<1>1. /\ attempts' = [d \in Clients |-> IF d = c THEN Counted(attempts[c], now)
                                        ELSE IF Recent(attempts[d], now) THEN attempts[d] ELSE None]
      /\ ghost'.checked = [d \in Clients |-> IF attempts[d] # None /\ ~Recent(attempts[d], now)
                                             THEN 0 ELSE ghost.checked[d]]
  BY DEF RecordFailed, AuthTypeOK
<1>2. ASSUME NEW d \in Clients \ {c} PROVE ClientIsCounted(d)'
  <2>1. CASE attempts'[d] = attempts[d] /\ ghost'.checked[d] = ghost.checked[d]
    BY <2>1, AuthClientFrame DEF GuessesAreCounted
  <2>2. CASE attempts'[d] = None /\ ghost'.checked[d] = 0
    <3>1. Failures(d)' = 0 BY <2>2 DEF Failures
    <3>2. Cardinality(Failing(d)) \in Nat /\ MaxAttempts \in Nat \ {0} BY AuthThreads, AuthClient
    <3>3. QED BY <2>2, <3>1, <3>2 DEF ClientIsCounted
  <2>3. QED BY <1>1, <2>1, <2>2 DEF Recent
<1>3. ClientIsCounted(c)'
  <2> DEFINE r == Recent(attempts[c], now)
  <2>1. /\ attempts'[c] # None /\ (attempts'[c].count >= MaxAttempts => attempts'[c].lockedUntil > 0)
        /\ attempts'[c].count = (IF r THEN Failures(c) + 1 ELSE 1) /\ (r => attempts[c] # None)
    BY <1>1, AuthCounted
  <2>2. Failures(c)' = IF r THEN Failures(c) + 1 ELSE 1 BY <2>1 DEF Failures
  <2>3. ghost'.checked[c] = IF attempts[c] # None /\ ~r THEN 0 ELSE ghost.checked[c] BY <1>1
  <2>4. ~r /\ attempts[c] = None => Failures(c) = 0 BY DEF Failures
  <2>5. /\ ghost.checked[c] \in Nat /\ Failures(c) \in Nat /\ MaxAttempts \in Nat \ {0}
    BY AuthClient
  <2>6. /\ Cardinality(Failing(c)) \in Nat /\ Cardinality(Hashing(c)) \in Nat /\ Cardinality(Workers) \in Nat
        /\ Cardinality(Failing(c)) + Cardinality(Hashing(c)) <= Cardinality(Workers) /\ IsFiniteSet(Failing(c))
    BY AuthThreads
  <2>7. Cardinality(Failing(c)') \in {Cardinality(Failing(c)), Cardinality(Failing(c)) - 1}
        /\ Cardinality(Failing(c)') \in Nat
    <3>1. CASE Failing(c)' = Failing(c) BY <2>6, <3>1
    <3>2. ASSUME NEW w \in Failing(c), Failing(c)' = Failing(c) \ {w}
          PROVE  Cardinality(Failing(c)') = Cardinality(Failing(c)) - 1 /\ Cardinality(Failing(c)') \in Nat
      <4>1. Cardinality(Failing(c) \ {w}) = Cardinality(Failing(c)) - 1 /\ IsFiniteSet(Failing(c) \ {w})
        BY <2>6, FS_RemoveElement
      <4>2. Cardinality(Failing(c) \ {w}) \in Nat BY <4>1, FS_CardinalityType
      <4>3. QED BY <3>2, <4>1, <4>2
    <3>3. QED BY <3>1, <3>2
  <2>8. ClientIsCounted(c) BY DEF GuessesAreCounted
  <2>9. Hashing(c)' = Hashing(c) OBVIOUS
  <2> HIDE DEF r
  <2>10. ghost'.checked[c] <= Failures(c)' + Cardinality(Failing(c)')
    BY <2>2, <2>3, <2>4, <2>5, <2>6, <2>7, <2>8 DEF ClientIsCounted
  <2>11. Failures(c)' >= MaxAttempts
           => ghost'.checked[c] + Cardinality(Hashing(c)) <= MaxAttempts - 1 + Cardinality(Workers)
    BY <2>2, <2>3, <2>4, <2>5, <2>6, <2>8 DEF ClientIsCounted
  <2>12. Failures(c)' = attempts'[c].count BY <2>1 DEF Failures
  <2>13. QED BY <2>1, <2>9, <2>10, <2>11, <2>12 DEF ClientIsCounted
<1>4. QED BY <1>2, <1>3 DEF GuessesAreCounted

\* Every step of a login, and a malformed PIN, keeps the clients counted.
LEMMA AuthGuessStep ==
  ASSUME AuthTypeOK, GuessesAreCounted, [AuthNext]_authVars
  PROVE  GuessesAreCounted'
<1>1. worker \in [Workers -> {worker[v] : v \in Workers}] BY DEF AuthTypeOK
<1>2. ASSUME UNCHANGED <<attempts, worker>>, ghost'.checked = ghost.checked PROVE GuessesAreCounted'
  BY <1>2 DEF GuessesAreCounted, ClientIsCounted, Failures, Failing, Hashing
<1>3. ASSUME NEW w \in Workers, LoginFails(w) PROVE GuessesAreCounted'
  <2>1. worker[w].at = "fail" /\ worker[w] \in Logins BY <1>3, AuthWorker DEF LoginFails
  <2>2. PICK c \in Clients, now \in Nat : c = worker[w].client /\ now = worker[w].now BY <2>1 DEF Logins
  <2>3. RecordFailed(c, now) /\ worker' = [worker EXCEPT ![w] = Idle] BY <1>3, <2>2 DEF LoginFails
  <2>4. worker'[w].at = "idle" /\ \A v \in Workers \ {w} : worker'[v] = worker[v] BY <1>1, <2>3 DEF Idle
  <2>5. \A d \in Clients : Hashing(d)' = Hashing(d) BY <2>1, <2>4 DEF Hashing
  <2>6. \A d \in Clients \ {c} : Failing(d)' = Failing(d) BY <2>2, <2>4 DEF Failing
  <2>7. w \in Failing(c) /\ Failing(c)' = Failing(c) \ {w} BY <2>1, <2>2, <2>4 DEF Failing
  <2>8. QED BY <2>3, <2>5, <2>6, <2>7, AuthRecords
<1>4. ASSUME NEW c \in Clients, MalformedPin(c) PROVE GuessesAreCounted'
  <2>1. RecordFailed(c, wall) /\ worker' = worker BY <1>4 DEF MalformedPin
  <2>2. PICK now \in Nat : now = wall BY DEF AuthTypeOK
  <2>3. \A d \in Clients : Hashing(d)' = Hashing(d) /\ Failing(d)' = Failing(d) BY <2>1 DEF Hashing, Failing
  <2>4. QED BY <2>1, <2>2, <2>3, AuthRecords
<1>5. ASSUME NEW w \in Workers, LoginIssues(w) PROVE GuessesAreCounted'
  <2>1. worker[w].at = "issue" /\ worker' = [worker EXCEPT ![w] = Idle] /\ attempts' = attempts
    BY <1>5 DEF LoginIssues
  <2>2. ghost'.checked = ghost.checked BY <1>5 DEF LoginIssues, AuthTypeOK
  <2>3. worker'[w].at = "idle" /\ \A v \in Workers \ {w} : worker'[v] = worker[v] BY <1>1, <2>1 DEF Idle
  <2>4. \A d \in Clients : Hashing(d)' = Hashing(d) /\ Failing(d)' = Failing(d)
    BY <2>1, <2>3 DEF Hashing, Failing
  <2>5. \A d \in Clients : ClientIsCounted(d)' BY <2>1, <2>2, <2>4, AuthClientFrame DEF GuessesAreCounted
  <2>6. QED BY <2>5 DEF GuessesAreCounted
<1>6. ASSUME NEW s, Validate(s) PROVE GuessesAreCounted'
  <2>1. UNCHANGED <<attempts, worker>> BY <1>6 DEF Validate
  <2>2. ghost'.checked = ghost.checked BY <1>6 DEF Validate, AuthTypeOK
  <2>3. QED BY <1>2, <2>1, <2>2
<1>7. CASE Second \/ ClockIsSet \/ UNCHANGED authVars
  BY <1>2, <1>7 DEF Second, ClockIsSet, authVars
<1>8. QED BY <1>3, <1>4, <1>5, <1>6, <1>7, AuthBegins, AuthVerifies DEF AuthNext

Tokens == [value : Nat, expires : Nat]
SessionRecords == [used : Nat, pushed : BOOLEAN]

\* The types a proof about the sessions needs.
LEMMA AuthTable ==
  ASSUME AuthTypeOK
  PROVE  /\ tokens \subseteq Tokens /\ IsFiniteSet(tokens) /\ Cardinality(tokens) <= MaxTokens
         /\ MaxTokens \in Nat \ {0} /\ TokenTtl \in Nat \ {0} /\ mono \in Nat
         /\ authBounds.logins \in Nat /\ authBounds.time \in Nat
         /\ ghost.sessions \in Seq(SessionRecords) /\ Len(ghost.sessions) \in Nat
         /\ DOMAIN ghost.sessions = 1..Len(ghost.sessions)
         /\ \A s \in 1..Len(ghost.sessions) :
              ghost.sessions[s].used \in Nat /\ ghost.sessions[s].pushed \in BOOLEAN
<1>1. authBounds.logins \in Nat /\ authBounds.time \in Nat BY AuthConstants DEF AuthTypeOK
<1>2. tokens \subseteq Tokens BY <1>1 DEF AuthTypeOK, Sessions, Tokens
<1>3. IsFiniteSet(tokens) /\ Cardinality(tokens) <= MaxTokens BY DEF AuthTypeOK
<1>4. ghost.sessions \in Seq(SessionRecords) BY DEF AuthTypeOK, SessionRecords
<1>5. Len(ghost.sessions) \in Nat /\ DOMAIN ghost.sessions = 1..Len(ghost.sessions)
  BY <1>4, LenProperties
<1>6. \A s \in 1..Len(ghost.sessions) : ghost.sessions[s] \in SessionRecords BY <1>4, ElementOfSeq
<1>7. mono \in Nat BY <1>1 DEF AuthTypeOK
<1>8. QED BY <1>1, <1>2, <1>3, <1>4, <1>5, <1>6, <1>7, AuthConstants DEF SessionRecords

\* A table that is not empty has an oldest session.
LEMMA AuthOldest ==
  ASSUME NEW ts, ts \subseteq Tokens, ts # {}
  PROVE  \E t \in ts : \A u \in ts : ~(u.value < t.value)
<1> DEFINE values == {t.value : t \in ts}
<1>1. values \subseteq Nat /\ values # {} BY DEF Tokens
<1>2. PICK v \in values : \A x \in values : ~(<<x, v>> \in OpToRel(<, Nat))
  BY <1>1, WFMin, NatLessThanWellFounded
<1>3. \A x \in values : ~(x < v) BY <1>1, <1>2 DEF OpToRel
<1>4. QED BY <1>3

\* tokens.remove(0): a full table has room for one more afterwards.
LEMMA AuthEvicts ==
  ASSUME NEW ts, ts \subseteq Tokens, IsFiniteSet(ts), Cardinality(ts) <= MaxTokens
  PROVE  /\ Evict(ts) \subseteq ts /\ IsFiniteSet(Evict(ts))
         /\ Cardinality(Evict(ts)) \in Nat /\ Cardinality(Evict(ts)) < MaxTokens
<1>1. MaxTokens \in Nat \ {0} /\ Cardinality(ts) \in Nat BY FS_CardinalityType, AuthConstants
<1>2. Evict(ts) \in SUBSET ts BY DEF Evict
<1>3. IsFiniteSet(Evict(ts)) BY <1>2, FS_Subset
<1>4. Cardinality(Evict(ts)) \in Nat BY <1>3, FS_CardinalityType
<1>5. CASE Cardinality(ts) >= MaxTokens
  <2>1. ts # {} BY <1>1, <1>5, FS_EmptySet
  <2>2. PICK t \in ts : \A u \in ts : ~(u.value < t.value) BY <2>1, AuthOldest
  <2>3. Evict(ts) \in SUBSET (ts \ {t}) BY <1>5, <2>2 DEF Evict
  <2>4. IsFiniteSet(ts \ {t}) /\ Cardinality(ts \ {t}) = Cardinality(ts) - 1 BY FS_RemoveElement
  <2>5. Cardinality(Evict(ts)) <= Cardinality(ts \ {t}) BY <2>3, <2>4, FS_Subset
  <2>6. QED BY <1>1, <1>2, <1>3, <1>4, <2>4, <2>5
<1>6. CASE ~(Cardinality(ts) >= MaxTokens)
  <2>1. Evict(ts) = ts BY <1>6 DEF Evict
  <2>2. QED BY <1>1, <1>2, <1>3, <1>6, <2>1
<1>7. QED BY <1>5, <1>6

\* The sessions that have not expired are part of the table.
LEMMA AuthLive ==
  ASSUME AuthTypeOK
  PROVE  /\ Live \subseteq tokens /\ Live \subseteq Tokens
         /\ IsFiniteSet(Live) /\ Cardinality(Live) \in Nat /\ Cardinality(Live) <= MaxTokens
<1>1. tokens \subseteq Tokens /\ IsFiniteSet(tokens) /\ Cardinality(tokens) <= MaxTokens /\ MaxTokens \in Nat \ {0}
  BY AuthTable
<1>2. Live \in SUBSET tokens BY DEF Live
<1>3. IsFiniteSet(Live) /\ Cardinality(Live) <= Cardinality(tokens) BY <1>1, <1>2, FS_Subset
<1>4. Cardinality(Live) \in Nat /\ Cardinality(tokens) \in Nat BY <1>1, <1>3, FS_CardinalityType
<1>5. QED BY <1>1, <1>2, <1>3, <1>4

\* The newer sessions in time of one that is in the table are those in the table above it.
Above(t) == {u \in Live : t.value < u.value}
LEMMA AuthNewer ==
  ASSUME AuthTypeOK, SessionsAreKept, NEW t \in Live
  PROVE  IsFiniteSet(Newer(t.value)) /\ Cardinality(Newer(t.value)) = Cardinality(Above(t))
<1>1. /\ TokenTtl \in Nat \ {0} /\ mono \in Nat /\ DOMAIN ghost.sessions = 1..Len(ghost.sessions) /\ Len(ghost.sessions) \in Nat
      /\ \A s \in 1..Len(ghost.sessions) : ghost.sessions[s].used \in Nat
  BY AuthTable
<1>2. Live \subseteq tokens /\ Live \subseteq Tokens /\ IsFiniteSet(Live) BY AuthLive
<1>3. \A u \in tokens : TokenIsExact(u) BY DEF SessionsAreKept
<1> DEFINE f == [u \in Above(t) |-> u.value]
<1>4. \A u \in Above(t) : u.value \in Newer(t.value)
  BY <1>1, <1>2, <1>3 DEF Above, Newer, InTime, TokenIsExact, Live
<1>5. \A u, v \in Above(t) : u.value = v.value => u = v
  BY <1>2, <1>3 DEF Above, TokenIsExact, Tokens
<1>6. ASSUME NEW v \in Newer(t.value) PROVE \E u \in Above(t) : u.value = v
  <2>1. v \in 1..Len(ghost.sessions) /\ t.value < v /\ mono < ghost.sessions[v].used + TokenTtl
    BY <1>1, <1>6 DEF Newer, InTime
  <2>2. ~ghost.sessions[t.value].pushed /\ t.value \in 1..Len(ghost.sessions) BY <1>2, <1>3 DEF TokenIsExact
  <2>3. SessionIsKept(t.value) /\ SessionIsKept(v) BY <2>1, <2>2 DEF SessionsAreKept
  <2>4. ~ghost.sessions[v].pushed BY <2>1, <2>2, <2>3 DEF SessionIsKept
  <2>5. ~(mono >= ghost.sessions[v].used + TokenTtl) BY <1>1, <2>1
  <2>6. PICK u \in tokens : u.value = v BY <2>3, <2>4, <2>5 DEF SessionIsKept
  <2>7. u \in Live BY <1>1, <1>3, <2>1, <2>6 DEF TokenIsExact, Live
  <2>8. QED BY <2>1, <2>6, <2>7 DEF Above
<1>7. f \in Bijection(Above(t), Newer(t.value))
  BY <1>4, <1>5, <1>6 DEF Bijection, Injection, Surjection, IsInjective
<1>8. Above(t) \in SUBSET Live BY DEF Above
<1>9. IsFiniteSet(Above(t)) BY <1>2, <1>8, FS_Subset
<1>10. ExistsBijection(Above(t), Newer(t.value)) BY <1>7 DEF ExistsBijection
<1>11. QED BY <1>9, <1>10, FS_Bijection

\* tokens.remove(0) takes the session that has MAX_TOKENS newer ones with the one to come, and
\* no other.
LEMMA AuthEvicted ==
  ASSUME AuthTypeOK, SessionsAreKept, NEW t \in Live
  PROVE  t \notin Evict(Live) <=> Cardinality(Newer(t.value)) + 1 >= MaxTokens
<1>1. MaxTokens \in Nat \ {0} BY AuthConstants
<1>2. /\ Live \subseteq tokens /\ Live \subseteq Tokens /\ IsFiniteSet(Live)
      /\ Cardinality(Live) \in Nat /\ Cardinality(Live) <= MaxTokens
  BY AuthLive
<1>3. Cardinality(Newer(t.value)) = Cardinality(Above(t)) BY AuthNewer
<1>4. Above(t) \in SUBSET (Live \ {t}) BY <1>2 DEF Above, Tokens
<1>5. IsFiniteSet(Live \ {t}) /\ Cardinality(Live \ {t}) = Cardinality(Live) - 1 BY <1>2, FS_RemoveElement
<1>6. IsFiniteSet(Above(t)) /\ Cardinality(Above(t)) <= Cardinality(Live) - 1 BY <1>4, <1>5, FS_Subset
<1>7. Cardinality(Above(t)) \in Nat BY <1>6, FS_CardinalityType
<1>8. \A u \in Live : u.value \in Nat /\ (u.value = t.value => u = t)
  BY <1>2 DEF SessionsAreKept, TokenIsExact, Tokens
<1>9. CASE Cardinality(Live) < MaxTokens
  <2>1. Evict(Live) = Live BY <1>1, <1>2, <1>9 DEF Evict
  <2>2. QED BY <1>1, <1>2, <1>3, <1>6, <1>7, <1>9, <2>1
<1>10. CASE Cardinality(Live) = MaxTokens /\ \E u \in Live : u.value < t.value
  <2>1. PICK u \in Live : u.value < t.value BY <1>10
  <2>2. t \in Evict(Live) BY <1>1, <1>10 DEF Evict
  <2>3. u \in Live \ {t} /\ Above(t) \in SUBSET ((Live \ {t}) \ {u}) BY <1>4, <1>8, <2>1 DEF Above
  <2>4. IsFiniteSet((Live \ {t}) \ {u}) /\ Cardinality((Live \ {t}) \ {u}) = Cardinality(Live \ {t}) - 1
    BY <1>5, <2>3, FS_RemoveElement
  <2>5. Cardinality(Above(t)) <= Cardinality((Live \ {t}) \ {u}) BY <2>3, <2>4, FS_Subset
  <2>6. QED BY <1>1, <1>3, <1>5, <1>7, <1>10, <2>2, <2>4, <2>5
<1>11. CASE Cardinality(Live) = MaxTokens /\ ~ \E u \in Live : u.value < t.value
  <2>1. t \notin Evict(Live) BY <1>1, <1>11 DEF Evict
  <2>2. Above(t) = Live \ {t} BY <1>4, <1>8, <1>11 DEF Above
  <2>3. QED BY <1>1, <1>3, <1>5, <1>11, <2>1, <2>2
<1>12. QED BY <1>1, <1>2, <1>9, <1>10, <1>11

\* What the ghost knows of the sessions after a login.
LEMMA AuthAppended ==
  ASSUME AuthTypeOK, NEW w \in Workers, LoginIssues(w)
  PROVE  LET n == Len(ghost.sessions)
         IN /\ ghost'.sessions \in Seq(SessionRecords) /\ Len(ghost'.sessions) = n + 1
            /\ \A s \in 1..n : /\ ghost'.sessions[s].pushed = (ghost.sessions[s].pushed \/ Cardinality(Newer(s)) + 1 >= MaxTokens)
                               /\ ghost'.sessions[s].used = ghost.sessions[s].used
            /\ ghost'.sessions[n + 1] = [used |-> mono, pushed |-> FALSE]
<1> DEFINE old == ghost.sessions
           n == Len(old)
           out(i) == old[i].pushed \/ Cardinality(Newer(i)) + 1 >= MaxTokens
<1>1. /\ old \in Seq(SessionRecords) /\ n \in Nat /\ DOMAIN old = 1..n /\ mono \in Nat
      /\ \A s \in 1..n : old[s] \in SessionRecords
  BY AuthTable, ElementOfSeq
<1>2. ghost'.sessions = Append(Older, [used |-> mono, pushed |-> FALSE])
  BY DEF LoginIssues, AuthTypeOK
<1> DEFINE next(i) == [old[i] EXCEPT !.pushed = out(i)]
<1>3. \A i \in 1..n : /\ next(i) \in SessionRecords
                      /\ next(i).pushed = out(i) /\ next(i).used = old[i].used
  <2>1. ASSUME NEW e \in SessionRecords, NEW b \in BOOLEAN
        PROVE  LET x == [e EXCEPT !.pushed = b]
               IN x \in SessionRecords /\ x.pushed = b /\ x.used = e.used
    BY DEF SessionRecords
  <2>2. \A i \in 1..n : out(i) \in BOOLEAN OBVIOUS
  <2> HIDE DEF out
  <2>3. QED BY <1>1, <2>1, <2>2
<1>4. Older = [i \in 1..n |-> next(i)] BY <1>1 DEF Older
<1> HIDE DEF next
<1>5. Older \in Seq(SessionRecords) BY <1>1, <1>3, <1>4, IsASeq
<1>6. Len(Older) = n BY <1>1, <1>4, <1>5, LenProperties
<1>7. \A i \in 1..n : Older[i].pushed = out(i) /\ Older[i].used = old[i].used BY <1>3, <1>4
<1> DEFINE last == [used |-> mono, pushed |-> FALSE]
<1>8. last \in SessionRecords BY <1>1 DEF SessionRecords
<1> HIDE DEF last
<1>9. /\ Append(Older, last) \in Seq(SessionRecords) /\ Len(Append(Older, last)) = n + 1
      /\ \A i \in 1..n : Append(Older, last)[i] = Older[i]
      /\ Append(Older, last)[n + 1] = last
  BY <1>5, <1>6, <1>8, AppendProperties
<1>10. ghost'.sessions = Append(Older, last) BY <1>2 DEF last
<1>11. \A i \in 1..n : ghost'.sessions[i].pushed = out(i) /\ ghost'.sessions[i].used = old[i].used
  BY <1>7, <1>9, <1>10
<1>12. QED BY <1>9, <1>10, <1>11 DEF last

\* A login opens its session in a table that has room for it.
LEMMA AuthIssues ==
  ASSUME AuthTypeOK, SessionsAreKept, NEW w \in Workers, LoginIssues(w)
  PROVE  SessionsAreKept'
<1> DEFINE n == Len(ghost.sessions)
           new == [value |-> n + 1, expires |-> mono + TokenTtl]
           full(s) == Cardinality(Newer(s)) + 1 >= MaxTokens
<1>1. /\ tokens \subseteq Tokens /\ MaxTokens \in Nat \ {0} /\ TokenTtl \in Nat \ {0} /\ mono \in Nat /\ n \in Nat
      /\ \A s \in 1..n : ghost.sessions[s].used \in Nat /\ ghost.sessions[s].pushed \in BOOLEAN
  BY AuthTable
<1>2. /\ Len(ghost'.sessions) = n + 1
      /\ \A s \in 1..n : /\ ghost'.sessions[s].pushed = (ghost.sessions[s].pushed \/ full(s))
                         /\ ghost'.sessions[s].used = ghost.sessions[s].used
      /\ ghost'.sessions[n + 1] = [used |-> mono, pushed |-> FALSE]
  BY AuthAppended
<1>3. tokens' = Evict(Live) \cup {new} /\ mono' = mono BY DEF LoginIssues, Push
<1>4. Live \subseteq tokens BY AuthLive
<1>5. \A t \in tokens : /\ t.value \in 1..n /\ t.expires = ghost.sessions[t.value].used + TokenTtl
                        /\ ~ghost.sessions[t.value].pushed
  BY DEF SessionsAreKept, TokenIsExact
<1>6. \A t \in Live : t \notin Evict(Live) <=> full(t.value) BY AuthEvicted
<1>7. Evict(Live) \subseteq Live BY DEF Evict
<1>8. \A s, u \in 1..n : s < u /\ full(u) => full(s)
  <2> SUFFICES ASSUME NEW s \in 1..n, NEW u \in 1..n, s < u, full(u) PROVE full(s) OBVIOUS
  <2>1. DOMAIN ghost.sessions = 1..n BY AuthTable
  <2>2. Newer(u) \in SUBSET Newer(s) /\ Newer(s) \in SUBSET (1..n) BY <1>1, <2>1 DEF Newer
  <2>3. IsFiniteSet(1..n)
    <3>1. 1 \in Int /\ n \in Int BY <1>1
    <3>2. QED BY <3>1, FS_Interval
  <2>4. IsFiniteSet(Newer(s)) BY <2>2, <2>3, FS_Subset
  <2>5. IsFiniteSet(Newer(u)) /\ Cardinality(Newer(u)) <= Cardinality(Newer(s)) BY <2>2, <2>4, FS_Subset
  <2>6. Cardinality(Newer(s)) \in Nat /\ Cardinality(Newer(u)) \in Nat BY <2>4, <2>5, FS_CardinalityType
  <2>7. QED BY <1>1, <2>5, <2>6
<1> HIDE DEF full
<1>9. ASSUME NEW t \in tokens' PROVE TokenIsExact(t)'
  <2>1. CASE t = new BY <1>1, <1>2, <2>1 DEF TokenIsExact
  <2>2. CASE t \in Evict(Live)
    <3>1. /\ t \in Live /\ t.value \in 1..n /\ t.value \in 1..(n + 1) /\ ~full(t.value)
          /\ ~ghost.sessions[t.value].pushed
      BY <1>1, <1>4, <1>5, <1>6, <1>7, <2>2
    <3>2. ~ghost'.sessions[t.value].pushed BY <1>2, <3>1
    <3>3. QED BY <1>2, <1>4, <1>5, <3>1, <3>2 DEF TokenIsExact
  <2>3. QED BY <1>3, <2>1, <2>2
<1>10. ASSUME NEW s \in 1..n PROVE SessionIsKept(s)'
  <2>1. SessionIsKept(s) BY DEF SessionsAreKept
  <2>2. /\ ghost'.sessions[s].pushed = (ghost.sessions[s].pushed \/ full(s))
        /\ ghost'.sessions[s].used = ghost.sessions[s].used
    BY <1>2
  <2>3. \/ \E t \in tokens' : t.value = s
        \/ ghost'.sessions[s].pushed
        \/ mono >= ghost'.sessions[s].used + TokenTtl
    <3>1. CASE ghost.sessions[s].pushed \/ mono >= ghost.sessions[s].used + TokenTtl BY <2>2, <3>1
    <3>2. ASSUME NEW t \in tokens, t.value = s, ~(mono >= ghost.sessions[s].used + TokenTtl)
          PROVE  (\E u \in tokens' : u.value = s) \/ ghost'.sessions[s].pushed
      <4>1. t.expires > mono BY <1>1, <1>5, <3>2
      <4>2. t \in Live BY <4>1 DEF Live
      <4>3. CASE t \in Evict(Live) BY <1>3, <3>2, <4>3
      <4>4. CASE t \notin Evict(Live) BY <1>6, <2>2, <3>2, <4>2, <4>4
      <4>5. QED BY <4>3, <4>4
    <3>3. QED BY <2>1, <3>1, <3>2 DEF SessionIsKept
  <2>4. ASSUME NEW u \in 1..(n + 1), s < u, ghost'.sessions[u].pushed PROVE ghost'.sessions[s].pushed
    <3>1. CASE u = n + 1 BY <1>2, <2>4, <3>1
    <3>2. CASE u \in 1..n
      <4>1. ghost.sessions[u].pushed \/ full(u) BY <1>2, <2>4, <3>2
      <4>2. ghost.sessions[u].pushed => ghost.sessions[s].pushed BY <2>1, <2>4, <3>2 DEF SessionIsKept
      <4>3. full(u) => full(s) BY <1>8, <2>4, <3>2
      <4>4. QED BY <2>2, <4>1, <4>2, <4>3
    <3>3. QED BY <1>1, <3>1, <3>2
  <2>5. ghost'.sessions[s].used <= mono BY <2>1, <2>2 DEF SessionIsKept
  <2>6. QED BY <1>2, <1>3, <2>3, <2>4, <2>5 DEF SessionIsKept
<1>11. PICK k \in Nat : k = n + 1 BY <1>1
<1>12. SessionIsKept(k)'
  <2>1. new \in tokens' /\ new.value = k BY <1>3, <1>11
  <2>2. ghost'.sessions[k].used = mono /\ Len(ghost'.sessions) = k BY <1>2, <1>11
  <2> HIDE DEF new, n
  <2>3. \A u \in 1..Len(ghost'.sessions) : ~(k < u) BY <2>2
  <2>4. QED BY <1>1, <1>3, <2>1, <2>2, <2>3 DEF SessionIsKept
<1>13. 1..Len(ghost'.sessions) = 1..n \cup {k} BY <1>1, <1>2, <1>11
<1>14. QED BY <1>9, <1>10, <1>12, <1>13 DEF SessionsAreKept

\* validate(): the expired sessions go, and the one asked for is extended.
LEMMA AuthValidates ==
  ASSUME AuthTypeOK, SessionsAreKept,
         NEW v \in 1..Len(ghost.sessions), Validate(v)
  PROVE  SessionsAreKept'
<1> DEFINE n == Len(ghost.sessions)
           slid(t) == IF t.value = v THEN [t EXCEPT !.expires = mono + TokenTtl] ELSE t
           accepted == Accepts(v)
<1>1. /\ tokens \subseteq Tokens /\ MaxTokens \in Nat \ {0} /\ TokenTtl \in Nat \ {0} /\ mono \in Nat /\ n \in Nat
      /\ \A s \in 1..n : ghost.sessions[s].used \in Nat /\ ghost.sessions[s].pushed \in BOOLEAN
      /\ ghost.sessions \in Seq(SessionRecords) /\ DOMAIN ghost.sessions = 1..n
      /\ \A s \in 1..n : ghost.sessions[s] \in SessionRecords
  BY AuthTable, ElementOfSeq
<1>2. tokens' = {slid(t) : t \in Live} /\ mono' = mono BY DEF Validate
<1>3. /\ Len(ghost'.sessions) = n
      /\ \A s \in 1..n : /\ ghost'.sessions[s].pushed = ghost.sessions[s].pushed
                         /\ ghost'.sessions[s].used = IF accepted /\ s = v THEN mono ELSE ghost.sessions[s].used
  <2>1. CASE ~accepted BY <2>1 DEF Validate
  <2>2. CASE accepted
    <3>1. ghost' = [ghost EXCEPT !.sessions[v].used = mono] BY <2>2 DEF Validate
    <3>2. ghost'.sessions = [ghost.sessions EXCEPT ![v] = [@ EXCEPT !.used = mono]]
      BY <3>1 DEF AuthTypeOK
    <3>3. \A e \in SessionRecords : [e EXCEPT !.used = mono] \in SessionRecords
            /\ [e EXCEPT !.used = mono].used = mono /\ [e EXCEPT !.used = mono].pushed = e.pushed
      BY <1>1 DEF SessionRecords
    <3>4. Len(ghost'.sessions) = n BY <1>1, <3>2, <3>3, ExceptSeq
    <3>5. \A s \in 1..n : ghost'.sessions[s] = IF s = v THEN [ghost.sessions[v] EXCEPT !.used = mono]
                                               ELSE ghost.sessions[s]
      BY <1>1, <3>2
    <3>6. \A s \in 1..n : ghost'.sessions[s].pushed = ghost.sessions[s].pushed
      <4>1. ghost'.sessions[v].pushed = ghost.sessions[v].pushed BY <1>1, <3>3, <3>5
      <4>2. QED BY <3>5, <4>1
    <3>7. \A s \in 1..n : ghost'.sessions[s].used = IF s = v THEN mono ELSE ghost.sessions[s].used
      <4>1. ghost.sessions[v] \in SessionRecords /\ ghost'.sessions[v] = [ghost.sessions[v] EXCEPT !.used = mono]
        BY <1>1, <3>5
      <4>2. ghost'.sessions[v].used = mono BY <1>1, <4>1 DEF SessionRecords
      <4>3. QED BY <3>5, <4>2
    <3>8. QED BY <2>2, <3>4, <3>6, <3>7
  <2>3. QED BY <2>1, <2>2
<1>4. \A t \in tokens : /\ t.value \in 1..n /\ t.expires = ghost.sessions[t.value].used + TokenTtl
                        /\ ~ghost.sessions[t.value].pushed
  BY DEF SessionsAreKept, TokenIsExact
<1>5. Live \subseteq tokens /\ \A t \in tokens : t \in Live <=> t.expires > mono BY DEF Live
<1>6. \A t \in Live : /\ slid(t).value = t.value
                            /\ slid(t).expires = IF t.value = v THEN mono + TokenTtl ELSE t.expires
  BY <1>1, <1>5 DEF Tokens
<1>7. accepted <=> \E t \in Live : t.value = v BY DEF Accepts
<1> HIDE DEF slid, accepted
<1>8. ASSUME NEW u \in tokens' PROVE TokenIsExact(u)'
  <2>1. PICK t \in Live : u = slid(t) BY <1>2
  <2>2. u.value = t.value /\ u.expires = (IF t.value = v THEN mono + TokenTtl ELSE t.expires) /\ t \in tokens
    BY <1>5, <1>6, <2>1
  <2>3. t.value \in 1..n /\ t.expires = ghost.sessions[t.value].used + TokenTtl /\ ~ghost.sessions[t.value].pushed
    BY <1>4, <2>2
  <2>4. t.value = v => accepted BY <1>7, <2>1
  <2>5. QED BY <1>3, <2>2, <2>3, <2>4 DEF TokenIsExact
<1>9. ASSUME NEW s \in 1..n PROVE SessionIsKept(s)'
  <2>1. SessionIsKept(s) BY DEF SessionsAreKept
  <2>2. /\ ghost'.sessions[s].used <= mono
        /\ \A u \in 1..n : s < u /\ ghost'.sessions[u].pushed => ghost'.sessions[s].pushed
    <3>1. ghost'.sessions[s].used <= mono BY <1>1, <1>3, <2>1 DEF SessionIsKept
    <3>2. ASSUME NEW u \in 1..n, s < u, ghost'.sessions[u].pushed PROVE ghost'.sessions[s].pushed
      <4>1. ghost.sessions[u].pushed BY <1>3, <3>2
      <4>2. ghost.sessions[s].pushed BY <2>1, <3>2, <4>1 DEF SessionIsKept
      <4>3. QED BY <1>3, <4>2
    <3>3. QED BY <3>1, <3>2
  <2>3. CASE \E t \in Live : t.value = s
    <3>1. PICK t \in Live : t.value = s BY <2>3
    <3>2. slid(t) \in tokens' /\ slid(t).value = s BY <1>2, <1>6, <3>1
    <3>3. QED BY <1>2, <1>3, <2>2, <3>2 DEF SessionIsKept
  <2>4. CASE ~\E t \in Live : t.value = s
    <3>1. ~(accepted /\ s = v) BY <1>7, <2>4
    <3>2. ghost'.sessions[s].pushed = ghost.sessions[s].pushed /\ ghost'.sessions[s].used = ghost.sessions[s].used
      BY <1>3, <3>1
    <3>3. \A t \in tokens : t.value = s => mono >= ghost.sessions[s].used + TokenTtl
      BY <1>1, <1>4, <1>5, <2>4 DEF Tokens
    <3>4. ghost.sessions[s].pushed \/ mono >= ghost.sessions[s].used + TokenTtl
      BY <2>1, <3>3 DEF SessionIsKept
    <3>5. QED BY <1>2, <1>3, <2>2, <3>2, <3>4 DEF SessionIsKept
  <2>5. QED BY <2>3, <2>4
<1>10. QED BY <1>3, <1>8, <1>9 DEF SessionsAreKept

\* Every step keeps the sessions.
LEMMA AuthSessionStep ==
  ASSUME AuthTypeOK, SessionsAreKept, [AuthNext]_authVars
  PROVE  SessionsAreKept'
<1>1. ASSUME tokens' = tokens, ghost'.sessions = ghost.sessions, mono' \in {mono, mono + 1} PROVE SessionsAreKept'
  <2>1. /\ MaxTokens \in Nat \ {0} /\ TokenTtl \in Nat \ {0} /\ mono \in Nat
        /\ \A s \in 1..Len(ghost.sessions) : ghost.sessions[s].used \in Nat /\ ghost.sessions[s].pushed \in BOOLEAN
    BY AuthTable
  <2>2. \A t \in tokens : TokenIsExact(t)' BY <1>1 DEF SessionsAreKept, TokenIsExact
  <2>3. ASSUME NEW s \in 1..Len(ghost.sessions) PROVE SessionIsKept(s)'
    BY <1>1, <2>1 DEF SessionsAreKept, SessionIsKept
  <2>4. QED BY <1>1, <2>2, <2>3 DEF SessionsAreKept
<1>2. ASSUME NEW w \in Workers, NEW c \in Clients, NEW right \in BOOLEAN, LoginBegins(w, c, right)
      PROVE  SessionsAreKept'
  BY <1>1, <1>2 DEF LoginBegins, AuthTypeOK
<1>3. ASSUME NEW w \in Workers, LoginVerifies(w) PROVE SessionsAreKept'
  <2>1. ghost'.sessions = ghost.sessions BY <1>3 DEF LoginVerifies, AuthTypeOK
  <2>2. QED BY <1>1, <1>3, <2>1 DEF LoginVerifies
<1>4. ASSUME NEW c, NEW now, RecordFailed(c, now) PROVE ghost'.sessions = ghost.sessions
  BY <1>4 DEF RecordFailed, AuthTypeOK
<1>5. ASSUME NEW w \in Workers, LoginFails(w) PROVE SessionsAreKept'
  BY <1>1, <1>4, <1>5 DEF LoginFails
<1>6. ASSUME NEW c \in Clients, MalformedPin(c) PROVE SessionsAreKept'
  BY <1>1, <1>4, <1>6 DEF MalformedPin
<1>7. ASSUME NEW s \in DOMAIN ghost.sessions, Validate(s) PROVE SessionsAreKept'
  <2>1. s \in 1..Len(ghost.sessions) BY AuthTable
  <2>2. QED BY <1>7, <2>1, AuthValidates
<1>8. CASE Second \/ ClockIsSet \/ UNCHANGED authVars
  BY <1>1, <1>8 DEF Second, ClockIsSet, authVars
<1>9. QED BY <1>2, <1>3, <1>5, <1>6, <1>7, <1>8, AuthIssues DEF AuthNext

\* The types of the counts and the threads.
CountsAreTyped ==
  /\ wall \in Nat /\ attempts \in [Clients -> LoginAttempts \cup {None}]
  /\ worker \in [Workers -> {Idle} \cup Logins]
  /\ ghost.checked \in [Clients -> Nat]

\* The types of the sessions.
TableIsTyped ==
  /\ mono \in 0..authBounds.time /\ authBounds \in AuthBounds
  /\ tokens \subseteq [value : 1..authBounds.logins, expires : Nat]
  /\ IsFiniteSet(tokens) /\ Cardinality(tokens) <= MaxTokens
  /\ ghost.sessions \in Seq(SessionRecords) /\ Len(ghost.sessions) <= authBounds.logins
  /\ ghost = [checked |-> ghost.checked, sessions |-> ghost.sessions]

\* The two halves of the type invariant.
LEMMA AuthTypes == AuthTypeOK <=> CountsAreTyped /\ TableIsTyped
<1>1. AuthTypeOK => CountsAreTyped
  BY DEF AuthTypeOK, CountsAreTyped, LoginAttempts, Logins
<1>2. AuthTypeOK => TableIsTyped
  BY DEF AuthTypeOK, TableIsTyped, Sessions, SessionRecords
<1>3. CountsAreTyped /\ TableIsTyped => AuthTypeOK
  <2>1. CountsAreTyped /\ TableIsTyped =>
          ghost \in [checked : [Clients -> Nat], sessions : Seq([used : Nat, pushed : BOOLEAN])]
    BY DEF CountsAreTyped, TableIsTyped, SessionRecords
  <2>2. QED
    BY <2>1
    DEF AuthTypeOK, CountsAreTyped, TableIsTyped, LoginAttempts, Logins, Sessions
<1>4. QED BY <1>1, <1>2, <1>3

\* The same of the next state.
LEMMA AuthTypesNext == CountsAreTyped' /\ TableIsTyped' => AuthTypeOK'
  BY AuthTypes, PTL

\* A step that leaves the sessions alone.
LEMMA AuthTableFrame ==
  ASSUME TableIsTyped, UNCHANGED <<tokens, authBounds>>, mono' \in 0..authBounds.time,
         ghost'.sessions = ghost.sessions, ghost' = [checked |-> ghost'.checked, sessions |-> ghost'.sessions]
  PROVE  TableIsTyped'
  BY DEF TableIsTyped

\* A login keeps its types.
LEMMA AuthLoginTyped ==
  ASSUME AuthTypeOK, UNCHANGED authBounds, NEW w \in Workers,
         \/ \E c \in Clients, right \in BOOLEAN : LoginBegins(w, c, right)
         \/ LoginVerifies(w)
  PROVE  AuthTypeOK'
<1>1. CountsAreTyped /\ TableIsTyped BY AuthTypes
<1>2. UNCHANGED <<tokens, mono, wall>> BY DEF LoginBegins, LoginVerifies
<1>3. /\ ghost'.sessions = ghost.sessions /\ ghost' = [checked |-> ghost'.checked, sessions |-> ghost'.sessions]
      /\ ghost'.checked \in [Clients -> Nat]
  <2>1. ASSUME NEW c \in Clients, NEW right \in BOOLEAN, LoginBegins(w, c, right)
        PROVE  \E k \in Nat : ghost' = [ghost EXCEPT !.checked[c] = k]
    <3>1. ghost' = [ghost EXCEPT !.checked[c] = IF Waited(c) THEN 0 ELSE @] BY <2>1 DEF LoginBegins
    <3>2. ghost.checked[c] \in Nat BY <1>1 DEF CountsAreTyped
    <3>3. QED BY <3>1, <3>2
  <2>2. ASSUME LoginVerifies(w)
        PROVE  \E c \in Clients : \E k \in Nat : ghost' = [ghost EXCEPT !.checked[c] = k]
    <3>1. worker[w].at = "hash" /\ worker[w] \in Logins BY <2>2, AuthWorker DEF LoginVerifies
    <3>2. PICK c \in Clients : c = worker[w].client BY <3>1 DEF Logins
    <3>3. ghost' = [ghost EXCEPT !.checked[c] = 0] \/ ghost' = [ghost EXCEPT !.checked[c] = @ + 1]
      BY <2>2, <3>2 DEF LoginVerifies
    <3>4. ghost.checked[c] + 1 \in Nat BY <1>1 DEF CountsAreTyped
    <3>5. QED BY <3>3, <3>4
  <2>3. PICK c \in Clients, k \in Nat : ghost' = [ghost EXCEPT !.checked[c] = k] BY <2>1, <2>2
  <2>4. ghost = [checked |-> ghost.checked, sessions |-> ghost.sessions] /\ ghost.checked \in [Clients -> Nat]
    BY <1>1 DEF CountsAreTyped, TableIsTyped
  <2>5. ghost' = [checked |-> [ghost.checked EXCEPT ![c] = k], sessions |-> ghost.sessions]
    BY <2>3, <2>4
  <2>6. QED BY <2>4, <2>5
<1>4. TableIsTyped' BY <1>1, <1>2, <1>3, AuthTableFrame DEF TableIsTyped
<1>5. attempts' \in [Clients -> LoginAttempts \cup {None}]
  <2>1. attempts \in [Clients -> LoginAttempts \cup {None}] BY <1>1 DEF CountsAreTyped
  <2>2. attempts' = attempts \/ \E c : attempts' = [attempts EXCEPT ![c] = None]
    BY DEF LoginBegins, LoginVerifies, Forget
  <2>3. QED BY <2>1, <2>2
<1>6. worker' \in [Workers -> {Idle} \cup Logins]
  <2>1. worker \in [Workers -> {Idle} \cup Logins] /\ wall \in Nat BY <1>1 DEF CountsAreTyped
  <2>2. ASSUME NEW c \in Clients, NEW right \in BOOLEAN, LoginBegins(w, c, right)
        PROVE  worker' \in [Workers -> {Idle} \cup Logins]
    <3>1. [at |-> "hash", client |-> c, right |-> right, now |-> wall] \in Logins BY <2>1 DEF Logins
    <3>2. QED BY <2>1, <2>2, <3>1 DEF LoginBegins
  <2>3. ASSUME LoginVerifies(w) PROVE worker' \in [Workers -> {Idle} \cup Logins]
    <3>1. worker[w] \in Logins BY <2>3, AuthWorker DEF LoginVerifies
    <3>2. \A at \in {"issue", "fail"} : [worker[w] EXCEPT !.at = at] \in Logins BY <3>1 DEF Logins
    <3>3. \E at \in {"issue", "fail"} : worker' = [worker EXCEPT ![w].at = at] BY <2>3 DEF LoginVerifies
    <3>4. QED BY <2>1, <3>2, <3>3
  <2>4. QED BY <2>2, <2>3
<1>7. CountsAreTyped' BY <1>1, <1>2, <1>3, <1>5, <1>6 DEF CountsAreTyped
<1>8. QED BY <1>4, <1>7, AuthTypesNext

\* A failure that is recorded keeps the types.
LEMMA AuthFailureTyped ==
  ASSUME AuthTypeOK, UNCHANGED authBounds,
         \/ \E w \in Workers : LoginFails(w)
         \/ \E c \in Clients : MalformedPin(c)
  PROVE  AuthTypeOK'
<1>1. CountsAreTyped /\ TableIsTyped BY AuthTypes
<1>2. UNCHANGED <<tokens, mono, wall>> BY DEF LoginFails, MalformedPin
<1>3. PICK c \in Clients, now \in Nat : RecordFailed(c, now)
  <2>1. ASSUME NEW w \in Workers, LoginFails(w) PROVE \E c \in Clients, now \in Nat : RecordFailed(c, now)
    <3>1. worker[w] \in Logins BY <2>1, AuthWorker DEF LoginFails
    <3>2. worker[w].client \in Clients /\ worker[w].now \in Nat BY <3>1 DEF Logins
    <3>3. QED BY <2>1, <3>2 DEF LoginFails
  <2>2. ASSUME NEW c \in Clients, MalformedPin(c) PROVE \E now \in Nat : RecordFailed(c, now)
    BY <1>1, <2>2 DEF MalformedPin, CountsAreTyped
  <2>3. QED BY <2>1, <2>2
<1>4. attempts' \in [Clients -> LoginAttempts \cup {None}]
  <2>1. Counted(attempts[c], now) \in LoginAttempts BY AuthCounted
  <2>2. QED BY <1>1, <1>3, <2>1 DEF RecordFailed, CountsAreTyped
<1>5. /\ ghost'.sessions = ghost.sessions /\ ghost' = [checked |-> ghost'.checked, sessions |-> ghost'.sessions]
      /\ ghost'.checked \in [Clients -> Nat]
  <2>1. ghost = [checked |-> ghost.checked, sessions |-> ghost.sessions] /\ ghost.checked \in [Clients -> Nat]
    BY <1>1 DEF CountsAreTyped, TableIsTyped
  <2> DEFINE checked == [d \in Clients |-> IF attempts[d] # None /\ ~Recent(attempts[d], now)
                                           THEN 0 ELSE ghost.checked[d]]
  <2>2. checked \in [Clients -> Nat] BY <2>1
  <2>3. ghost' = [checked |-> checked, sessions |-> ghost.sessions] BY <1>3, <2>1 DEF RecordFailed
  <2> HIDE DEF checked
  <2>4. QED BY <2>2, <2>3
<1>6. worker' \in [Workers -> {Idle} \cup Logins]
  BY <1>1 DEF CountsAreTyped, LoginFails, MalformedPin
<1>7. TableIsTyped' BY <1>1, <1>2, <1>5, AuthTableFrame DEF TableIsTyped
<1>8. CountsAreTyped' BY <1>1, <1>2, <1>4, <1>5, <1>6 DEF CountsAreTyped
<1>9. QED BY <1>7, <1>8, AuthTypesNext

\* A session that is opened keeps the types: the table does not grow past MAX_TOKENS.
LEMMA AuthIssueTyped ==
  ASSUME AuthTypeOK, UNCHANGED authBounds, NEW w \in Workers, LoginIssues(w)
  PROVE  AuthTypeOK'
<1> DEFINE n == Len(ghost.sessions)
           new == [value |-> n + 1, expires |-> mono + TokenTtl]
           kept == Evict(Live)
<1>1. CountsAreTyped /\ TableIsTyped BY AuthTypes
<1>2. UNCHANGED <<mono, wall, attempts>> /\ worker' = [worker EXCEPT ![w] = Idle] /\ n < authBounds.logins
      /\ tokens' = kept \cup {new}
  BY DEF LoginIssues, Push
<1>3. /\ n \in Nat /\ mono \in Nat /\ TokenTtl \in Nat /\ authBounds.logins \in Nat /\ MaxTokens \in Nat \ {0} BY AuthTable
<1>4. Live \subseteq tokens /\ Live \subseteq Tokens /\ IsFiniteSet(Live)
      /\ Cardinality(Live) <= MaxTokens
  BY AuthLive
<1>5. kept \subseteq Live /\ IsFiniteSet(kept) /\ Cardinality(kept) \in Nat /\ Cardinality(kept) < MaxTokens
  BY <1>4, AuthEvicts
<1> HIDE DEF kept
<1>6. new \in [value : 1..authBounds.logins, expires : Nat] BY <1>2, <1>3
<1> HIDE DEF new
<1>7. IsFiniteSet(tokens') /\ Cardinality(tokens') <= MaxTokens
  <2>1. /\ IsFiniteSet(kept \cup {new})
        /\ Cardinality(kept \cup {new}) = IF new \in kept THEN Cardinality(kept) ELSE Cardinality(kept) + 1
    BY <1>5, FS_AddElement
  <2>2. QED BY <1>2, <1>3, <1>5, <2>1
<1>8. tokens' \subseteq [value : 1..authBounds.logins, expires : Nat]
  BY <1>1, <1>2, <1>4, <1>5, <1>6 DEF TableIsTyped
<1>9. ghost'.sessions \in Seq(SessionRecords) /\ Len(ghost'.sessions) = n + 1 BY AuthAppended
<1>10. ghost' = [checked |-> ghost.checked, sessions |-> ghost'.sessions]
  BY <1>1 DEF LoginIssues, TableIsTyped
<1>11. TableIsTyped' BY <1>1, <1>2, <1>3, <1>7, <1>8, <1>9, <1>10 DEF TableIsTyped
<1>12. CountsAreTyped' BY <1>1, <1>2, <1>10 DEF CountsAreTyped
<1>13. QED BY <1>11, <1>12, AuthTypesNext

\* A request that is validated keeps the types.
LEMMA AuthValidateTyped ==
  ASSUME AuthTypeOK, UNCHANGED authBounds, NEW v \in DOMAIN ghost.sessions, Validate(v)
  PROVE  AuthTypeOK'
<1> DEFINE slid(t) == IF t.value = v THEN [t EXCEPT !.expires = mono + TokenTtl] ELSE t
           f == [t \in Live |-> slid(t)]
<1>1. CountsAreTyped /\ TableIsTyped BY AuthTypes
<1>2. UNCHANGED <<mono, wall, attempts, worker>> /\ tokens' = {slid(t) : t \in Live}
  BY DEF Validate
<1>3. mono + TokenTtl \in Nat /\ mono \in Nat /\ MaxTokens \in Nat /\ ghost.sessions \in Seq(SessionRecords)
      /\ v \in 1..Len(ghost.sessions)
  BY AuthTable
<1>4. Live \subseteq tokens /\ IsFiniteSet(Live) /\ Cardinality(Live) \in Nat
      /\ Cardinality(Live) <= MaxTokens
  BY AuthLive
<1>5. \A t \in [value : 1..authBounds.logins, expires : Nat] : slid(t) \in [value : 1..authBounds.logins, expires : Nat]
  BY <1>3
<1>6. tokens' \subseteq [value : 1..authBounds.logins, expires : Nat] BY <1>1, <1>2, <1>4, <1>5 DEF TableIsTyped
<1> HIDE DEF slid
<1>7. f \in Surjection(Live, tokens') BY <1>2 DEF Surjection
<1> HIDE DEF f
<1>8. IsFiniteSet(tokens') /\ Cardinality(tokens') <= Cardinality(Live) BY <1>4, <1>7, FS_Surjection
<1>9. Cardinality(tokens') \in Nat BY <1>8, FS_CardinalityType
<1>10. Cardinality(tokens') <= MaxTokens BY <1>3, <1>4, <1>8, <1>9
<1>11. ghost'.sessions \in Seq(SessionRecords) /\ Len(ghost'.sessions) = Len(ghost.sessions)
       /\ ghost' = [checked |-> ghost.checked, sessions |-> ghost'.sessions]
  <2>1. ghost = [checked |-> ghost.checked, sessions |-> ghost.sessions] BY <1>1 DEF TableIsTyped
  <2>2. CASE ghost' = ghost BY <1>3, <2>1, <2>2
  <2>3. CASE ghost' = [ghost EXCEPT !.sessions[v].used = mono]
    <3>1. ghost.sessions[v] \in SessionRecords BY <1>3, ElementOfSeq
    <3>2. [ghost.sessions[v] EXCEPT !.used = mono] \in SessionRecords BY <1>3, <3>1 DEF SessionRecords
    <3>3. ghost' = [checked |-> ghost.checked,
                    sessions |-> [ghost.sessions EXCEPT ![v] = [ghost.sessions[v] EXCEPT !.used = mono]]]
      BY <2>1, <2>3
    <3>4. QED BY <1>3, <3>2, <3>3, ExceptSeq
  <2>4. QED BY <2>2, <2>3 DEF Validate
<1>12. TableIsTyped' BY <1>1, <1>2, <1>6, <1>8, <1>10, <1>11 DEF TableIsTyped
<1>13. CountsAreTyped' BY <1>1, <1>2, <1>11 DEF CountsAreTyped
<1>14. QED BY <1>12, <1>13, AuthTypesNext

\* Every step keeps the types.
LEMMA AuthTypeStep ==
  ASSUME AuthTypeOK, [AuthNext]_authVars
  PROVE  AuthTypeOK'
<1>1. CountsAreTyped /\ TableIsTyped BY AuthTypes
<1>2. ASSUME UNCHANGED <<attempts, tokens, worker, ghost, authBounds>>, mono' \in 0..authBounds.time, wall' \in Nat
      PROVE  AuthTypeOK'
  <2>1. TableIsTyped' BY <1>1, <1>2, AuthTableFrame DEF TableIsTyped
  <2>2. CountsAreTyped' BY <1>1, <1>2 DEF CountsAreTyped
  <2>3. QED BY <2>1, <2>2, AuthTypesNext
<1>3. mono \in 0..authBounds.time /\ wall \in Nat /\ authBounds \in AuthBounds /\ authBounds.time \in Nat
  BY <1>1, AuthTable DEF TableIsTyped, CountsAreTyped
<1>4. CASE UNCHANGED authVars BY <1>2, <1>3, <1>4 DEF authVars
<1>5. CASE Second /\ UNCHANGED authBounds BY <1>2, <1>3, <1>5 DEF Second
<1>6. CASE ClockIsSet /\ UNCHANGED authBounds
  <2>1. PICK by \in authBounds.jumps : wall + by >= 0 /\ wall' = wall + by BY <1>6 DEF ClockIsSet
  <2>2. authBounds.jumps \subseteq Int BY <1>3, AuthConstants
  <2>3. wall' \in Nat BY <1>3, <2>1, <2>2
  <2>4. QED BY <1>2, <1>3, <1>6, <2>3 DEF ClockIsSet
<1>7. QED
  BY <1>4, <1>5, <1>6, AuthLoginTyped, AuthFailureTyped, AuthIssueTyped, AuthValidateTyped DEF AuthNext

\* The invariant holds when the agent starts.
LEMMA AuthInitHolds == ASSUME AuthInit PROVE AuthInv
<1>1. mono = 0 /\ wall \in Nat /\ authBounds \in AuthBounds /\ authBounds.time \in Nat /\ authBounds.logins \in Nat
  BY AuthConstants DEF AuthInit
<1>2. CountsAreTyped BY <1>1 DEF AuthInit, CountsAreTyped
<1>3. IsFiniteSet(tokens) /\ Cardinality(tokens) = 0 /\ MaxTokens \in Nat
  BY FS_EmptySet, AuthConstants DEF AuthInit
<1>4. ghost.sessions \in Seq(SessionRecords) /\ Len(ghost.sessions) = 0
      /\ ghost = [checked |-> ghost.checked, sessions |-> ghost.sessions]
  BY DEF AuthInit
<1>5. TableIsTyped BY <1>1, <1>3, <1>4 DEF TableIsTyped, AuthInit
<1>6. AuthTypeOK BY <1>2, <1>5, AuthTypes
<1>7. ASSUME NEW c \in Clients PROVE ClientIsCounted(c)
  <2>1. ghost.checked[c] = 0 /\ attempts[c] = None BY DEF AuthInit
  <2>2. Failures(c) = 0 /\ MaxAttempts \in Nat \ {0} BY <2>1, AuthConstants DEF Failures
  <2>3. Cardinality(Failing(c)) \in Nat BY AuthThreads
  <2>4. QED BY <2>1, <2>2, <2>3 DEF ClientIsCounted
<1>8. GuessesAreCounted BY <1>7 DEF GuessesAreCounted
<1>9. SessionsAreKept BY <1>4 DEF SessionsAreKept, AuthInit
<1>10. QED BY <1>6, <1>8, <1>9 DEF AuthInv

\* Every step keeps the invariant.
LEMMA AuthStepHolds ==
  ASSUME AuthInv, [AuthNext]_authVars PROVE AuthInv'
  BY AuthTypeStep, AuthGuessStep, AuthSessionStep DEF AuthInv

\* The types of the clocks, counts, sessions and threads; the table holds at most MAX_TOKENS sessions.
THEOREM AuthTypeCorrect == AuthSpec => []AuthTypeOK
<1>1. AuthInit => AuthInv BY AuthInitHolds
<1>2. AuthInv /\ [AuthNext]_authVars => AuthInv' BY AuthStepHolds
<1>3. AuthInv => AuthTypeOK BY DEF AuthInv
<1>4. QED BY <1>1, <1>2, <1>3, PTL DEF AuthSpec

\* login_against(): however many threads pass the lock together, the wrong credentials compared
\* for a client before its wait are bounded by the threshold and the number of threads.
THEOREM AuthBoundsGuesses == AuthSpec => []GuessesAreBounded
<1>1. AuthInit => AuthInv BY AuthInitHolds
<1>2. AuthInv /\ [AuthNext]_authVars => AuthInv' BY AuthStepHolds
<1>3. AuthInv => GuessesAreBounded
  <2>1. SUFFICES ASSUME AuthInv, NEW c \in Clients
                 PROVE  ghost.checked[c] <= MaxAttempts + Cardinality(Workers) - 1
    BY DEF GuessesAreBounded
  <2>2. ClientIsCounted(c) /\ AuthTypeOK BY <2>1 DEF AuthInv, GuessesAreCounted
  <2>3. /\ ghost.checked[c] \in Nat /\ Failures(c) \in Nat /\ MaxAttempts \in Nat \ {0} BY <2>2, AuthClient
  <2>4. /\ Cardinality(Failing(c)) \in Nat /\ Cardinality(Hashing(c)) \in Nat /\ Cardinality(Workers) \in Nat
        /\ Cardinality(Failing(c)) + Cardinality(Hashing(c)) <= Cardinality(Workers)
    BY AuthThreads
  <2>5. QED BY <2>2, <2>3, <2>4 DEF ClientIsCounted
<1>4. QED BY <1>1, <1>2, <1>3, PTL DEF AuthSpec

\* validate() and the session table: exactly the sessions used in time that no login pushed out are
\* accepted, whatever the wall clock does.
THEOREM AuthSessionsExact == AuthSpec => []SessionsAreExact
<1>1. AuthInit => AuthInv BY AuthInitHolds
<1>2. AuthInv /\ [AuthNext]_authVars => AuthInv' BY AuthStepHolds
<1>3. AuthInv => SessionsAreExact
  <2>1. SUFFICES ASSUME AuthInv, NEW s \in DOMAIN ghost.sessions
                 PROVE  Accepts(s) <=> ~ghost.sessions[s].pushed /\ InTime(ghost.sessions[s])
    BY DEF SessionsAreExact
  <2>2. AuthTypeOK /\ SessionsAreKept BY <2>1 DEF AuthInv
  <2>3. /\ s \in 1..Len(ghost.sessions) /\ TokenTtl \in Nat /\ mono \in Nat /\ ghost.sessions[s].used \in Nat
    BY <2>1, <2>2, AuthTable
  <2>4. /\ SessionIsKept(s)
        /\ \A t \in tokens : t.value = s => t.expires = ghost.sessions[s].used + TokenTtl /\ ~ghost.sessions[s].pushed
    BY <2>2, <2>3 DEF SessionsAreKept, TokenIsExact
  <2>5. Accepts(s) <=> \E t \in tokens : t.value = s /\ t.expires > mono BY DEF Accepts, Live
  <2>6. Accepts(s) => ~ghost.sessions[s].pushed /\ InTime(ghost.sessions[s]) BY <2>3, <2>4, <2>5 DEF InTime
  <2>7. ASSUME ~ghost.sessions[s].pushed, InTime(ghost.sessions[s]) PROVE Accepts(s)
    <3>1. PICK t \in tokens : t.value = s BY <2>3, <2>4, <2>7 DEF SessionIsKept, InTime
    <3>2. t.expires > mono BY <2>3, <2>4, <2>7, <3>1 DEF InTime
    <3>3. QED BY <2>5, <3>1, <3>2
  <2>8. QED BY <2>6, <2>7
<1>4. QED BY <1>1, <1>2, <1>3, PTL DEF AuthSpec
==============================================================================
