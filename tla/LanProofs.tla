------------------------------ MODULE LanProofs ------------------------------
(***************************************************************************)
(* LanTransition, for every set of addresses and settings, every bound and *)
(* every combination of faults: the safety properties the runs check on    *)
(* small instances.                                                        *)
(*                                                                         *)
(* The properties are not inductive: what a rollback or a restart restores *)
(* is decided by the record on disk, and a confirmation trusts flags set   *)
(* several steps earlier.  LanInv says what each step of a locked section  *)
(* may rely on.                                                            *)
(***************************************************************************)
EXTENDS LanListener, TLAPS

RollbackSteps == {"rollback", "rollback_check", "rollback_clear"}
RecoverSteps  == {"recover", "recover_check", "recover_clear"}
Wanted == {agreed} \cup stock

\* Who holds the lock, and in which phase of the agent.
PhaseInv ==
  /\ step \in RecoverSteps <=> up = "recovering"
  /\ step \in RecoverSteps => journal # None
  /\ step \in RollbackSteps \cup {"apply_check"} => up = "serving" /\ pending # None
  /\ up # "serving" => pending = None /\ ~error
  /\ step \in RollbackSteps => error /\ (~pending.applied \/ pending.expired)
  /\ step = "apply_check" => ~pending.applied

\* Threads exist only for tokens that were issued, and a thread that has not
\* tried to apply anything yet is the thread of the pending change.
ThreadInv ==
  /\ \A t \in Tokens : t > issued => thread[t] = "none"
  /\ \A t \in Tokens : thread[t] = "starting" =>
       /\ Idle
       /\ pending # None /\ pending.journal.token = t
       /\ ~pending.applied /\ ~pending.expired
  /\ NoOrphanedChange

\* Without directory-sync failures, what is on disk describes what is pending,
\* and leads back to settings that were agreed on.
RecordInv ==
  "sync" \notin Faults =>
    /\ pending # None => journal = pending.journal
    /\ journal # None => journal.previous \in Wanted
    /\ journal = None => fw \in Wanted
    /\ step \in {"rollback_clear", "recover_clear"} => fw \in Wanted

\* The binding is moved in the same locked section as the settings.
AddressInv ==
  ~Fixed =>
    /\ (pending # None /\ pending.applied /\ ~pending.expired)
          => address = pending.journal.proposed.ip
    /\ (stock = {} /\ "uci" \notin Faults) =>
         /\ (Idle /\ ~error) => address = fw.ip
         /\ step = "recover_check" => fw = journal.previous
         /\ step = "recover_clear" => address = fw.ip
         /\ step = "apply_check" => fw = pending.journal.proposed

LanInv == TypeOK /\ PhaseInv /\ ThreadInv /\ RecordInv /\ AddressInv

\* begin() records the change before anything is written, and starts its thread.
LEMMA BeginStep ==
  ASSUME LanInv, NEW x \in Settings, Begin(x)
  PROVE  LanInv'
<1> USE LanConstants DEF LanInv, Settings, Tokens, Journal, Pending, Steps, Idle, RollbackSteps, RecoverSteps,
      Wanted, manager, binding, history, Fixed, Faults, Begin, BeginAllowed
<1>1. TypeOK'
  BY DEF TypeOK, PhaseInv
<1>2. PhaseInv'
  BY DEF TypeOK, PhaseInv
<1>3. ThreadInv'
  <2>1. issued + 1 \in Tokens /\ thread'[issued + 1] = "starting"
    BY DEF TypeOK
  <2>2. \A t \in Tokens : t # issued + 1 => thread'[t] = thread[t]
    BY DEF TypeOK
  <2>3. \A t \in Tokens : thread[t] # "starting"
    BY DEF ThreadInv
  <2>4. /\ pending' # None /\ pending'.journal.token = issued + 1
        /\ ~pending'.applied /\ ~pending'.expired
    <3>1. pending' \in Pending
      BY <2>1 DEF TypeOK
    <3> QED BY <3>1
  <2>5. \A t \in Tokens : t > issued' => thread'[t] = "none"
    BY <2>2 DEF ThreadInv, TypeOK
  <2> QED BY <2>1, <2>2, <2>3, <2>4, <2>5 DEF ThreadInv, NoOrphanedChange
<1>4. RecordInv'
  BY DEF TypeOK, PhaseInv, RecordInv
<1>5. AddressInv'
  BY DEF TypeOK, PhaseInv, AddressInv
<1> QED BY <1>1, <1>2, <1>3, <1>4, <1>5

\* A record that cannot be saved leaves the manager as it was.
LEMMA BeginSaveFailsStep ==
  ASSUME LanInv, NEW x \in Settings, BeginSaveFails(x)
  PROVE  LanInv'
<1> USE LanConstants DEF LanInv, Settings, Tokens, Journal, Pending, Steps, Idle, RollbackSteps, RecoverSteps,
      Wanted, manager, binding, history, Fixed, Faults, BeginSaveFails, BeginAllowed
<1>1. TypeOK'
  BY DEF TypeOK, PhaseInv
<1>2. PhaseInv'
  BY DEF TypeOK, PhaseInv
<1>3. ThreadInv'
  BY DEF TypeOK, PhaseInv, ThreadInv, NoOrphanedChange
<1>4. RecordInv'
  BY DEF TypeOK, PhaseInv, RecordInv
<1>5. AddressInv'
  BY DEF TypeOK, PhaseInv, AddressInv
<1> QED BY <1>1, <1>2, <1>3, <1>4, <1>5

\* What the stock UI writes joins the settings a record may lead back to.
LEMMA StockWriteStep ==
  ASSUME LanInv, NEW x \in Settings, StockWrite(x)
  PROVE  LanInv'
<1> USE LanConstants DEF LanInv, Settings, Tokens, Journal, Pending, Steps, Idle, RollbackSteps, RecoverSteps,
      Wanted, manager, binding, history, Fixed, Faults, StockWrite
<1>1. TypeOK'
  BY DEF TypeOK, PhaseInv
<1>2. PhaseInv'
  BY DEF TypeOK, PhaseInv
<1>3. ThreadInv'
  BY DEF TypeOK, PhaseInv, ThreadInv, NoOrphanedChange
<1>4. RecordInv'
  BY DEF TypeOK, PhaseInv, RecordInv
<1>5. AddressInv'
  BY DEF TypeOK, PhaseInv, AddressInv
<1> QED BY <1>1, <1>2, <1>3, <1>4, <1>5

\* The thread's first attempt writes under the record of its own change.
LEMMA ApplyPendingStep ==
  ASSUME LanInv, NEW t \in Tokens, ApplyPending(t)
  PROVE  LanInv'
<1> USE LanConstants DEF LanInv, Settings, Tokens, Journal, Pending, Steps, Idle, RollbackSteps, RecoverSteps,
      Wanted, manager, binding, history, Fixed, Faults, ApplyPending, PartlyApplied
<1>1. TypeOK'
  BY DEF TypeOK, PhaseInv
<1>2. PhaseInv'
  <2>1. pending' = pending /\ journal' = journal /\ up' = up
    OBVIOUS
  <2> QED BY <2>1 DEF TypeOK, PhaseInv, ThreadInv
<1>3. ThreadInv'
  BY DEF TypeOK, PhaseInv, ThreadInv, NoOrphanedChange
<1>4. RecordInv'
  BY DEF TypeOK, PhaseInv, RecordInv
<1>5. AddressInv'
  BY DEF TypeOK, PhaseInv, AddressInv
<1> QED BY <1>1, <1>2, <1>3, <1>4, <1>5

\* A watching thread leaves when nothing is pending, or starts the rollback.
LEMMA ExpireStep ==
  ASSUME LanInv, NEW t \in Tokens, Expire(t)
  PROVE  LanInv'
<1> USE LanConstants DEF LanInv, Settings, Tokens, Journal, Pending, Steps, Idle, RollbackSteps, RecoverSteps,
      Wanted, manager, binding, history, Fixed, Faults, Expire
<1>1. TypeOK'
  BY DEF TypeOK, PhaseInv
<1>2. PhaseInv'
  BY DEF TypeOK, PhaseInv
<1>3. ThreadInv'
  BY DEF TypeOK, PhaseInv, ThreadInv, NoOrphanedChange
<1>4. RecordInv'
  BY DEF TypeOK, PhaseInv, RecordInv
<1>5. AddressInv'
  BY DEF TypeOK, PhaseInv, AddressInv
<1> QED BY <1>1, <1>2, <1>3, <1>4, <1>5

\* A confirmation agrees on the settings the firmware holds and removes the record.
LEMMA ConfirmStep ==
  ASSUME LanInv, NEW t \in Tokens, Confirm(t)
  PROVE  LanInv'
<1> USE LanConstants DEF LanInv, Settings, Tokens, Journal, Pending, Steps, Idle, RollbackSteps, RecoverSteps,
      Wanted, manager, binding, history, Fixed, Faults, Confirm, ConfirmAccepted, RemoveSucceeds
<1>1. TypeOK'
  BY DEF TypeOK, PhaseInv
<1>2. PhaseInv'
  BY DEF TypeOK, PhaseInv
<1>3. ThreadInv'
  BY DEF TypeOK, PhaseInv, ThreadInv, NoOrphanedChange
<1>4. RecordInv'
  BY DEF TypeOK, PhaseInv, RecordInv
<1>5. AddressInv'
  BY DEF TypeOK, PhaseInv, AddressInv
<1> QED BY <1>1, <1>2, <1>3, <1>4, <1>5

\* A confirmation whose record cannot be removed changes nothing in memory.
LEMMA ConfirmRemoveFailsStep ==
  ASSUME LanInv, NEW t \in Tokens, ConfirmRemoveFails(t)
  PROVE  LanInv'
<1> USE LanConstants DEF LanInv, Settings, Tokens, Journal, Pending, Steps, Idle, RollbackSteps, RecoverSteps,
      Wanted, manager, binding, history, Fixed, Faults, ConfirmRemoveFails, ConfirmAccepted, RemoveFails
<1>1. TypeOK'
  BY DEF TypeOK, PhaseInv
<1>2. PhaseInv'
  BY DEF TypeOK, PhaseInv
<1>3. ThreadInv'
  BY DEF TypeOK, PhaseInv, ThreadInv, NoOrphanedChange
<1>4. RecordInv'
  BY DEF TypeOK, PhaseInv, RecordInv
<1>5. AddressInv'
  BY DEF TypeOK, PhaseInv, AddressInv
<1> QED BY <1>1, <1>2, <1>3, <1>4, <1>5

\* The read-back moves the binding with the settings, or starts the rollback.
LEMMA ApplyCheckStep ==
  ASSUME LanInv, ApplyCheck
  PROVE  LanInv'
<1> USE LanConstants DEF LanInv, Settings, Tokens, Journal, Pending, Steps, Idle, RollbackSteps, RecoverSteps,
      Wanted, manager, binding, history, Fixed, Faults, ApplyCheck, SetBinding
<1>0. /\ pending' \in Pending
      /\ pending'.journal = pending.journal
      /\ pending'.expired = pending.expired
      /\ pending # None /\ pending' # None
  <2>1. pending \in Pending
    BY DEF TypeOK, PhaseInv
  <2>2. CASE pending' = pending
    BY <2>1, <2>2
  <2>3. CASE pending' = [pending EXCEPT !.applied = TRUE]
    <3>1. pending' \in Pending
      BY <2>1, <2>3
    <3> QED BY <2>1, <2>3, <3>1
  <2> QED BY <2>2, <2>3
<1>1. TypeOK'
  <2>1. address' \in Ips /\ generation' \in Nat
    BY DEF TypeOK, PhaseInv
  <2>2. step' \in Steps /\ error' \in BOOLEAN
    BY DEF TypeOK
  <2> QED BY <1>0, <2>1, <2>2 DEF TypeOK
<1>2. PhaseInv'
  <2>1. CASE step' = "free"
    BY <1>0, <2>1 DEF TypeOK, PhaseInv
  <2>2. CASE step' = "rollback"
    <3>1. error' /\ pending' = pending /\ ~pending.applied
      BY <2>2 DEF TypeOK, PhaseInv
    <3> QED BY <3>1, <1>0, <2>2 DEF TypeOK, PhaseInv
  <2> QED BY <2>1, <2>2
<1>3. ThreadInv'
  BY DEF TypeOK, PhaseInv, ThreadInv, NoOrphanedChange
<1>4. RecordInv'
  BY DEF TypeOK, PhaseInv, RecordInv
<1>5. AddressInv'
  BY DEF TypeOK, PhaseInv, AddressInv
<1> QED BY <1>1, <1>2, <1>3, <1>4, <1>5

\* The deadline only marks the pending change.
LEMMA DeadlinePassesStep ==
  ASSUME LanInv, DeadlinePasses
  PROVE  LanInv'
<1> USE LanConstants DEF LanInv, Settings, Tokens, Journal, Pending, Steps, Idle, RollbackSteps, RecoverSteps,
      Wanted, manager, binding, history, Fixed, Faults, DeadlinePasses
<1>1. TypeOK'
  BY DEF TypeOK, PhaseInv
<1>2. PhaseInv'
  BY DEF TypeOK, PhaseInv
<1>3. ThreadInv'
  BY DEF TypeOK, PhaseInv, ThreadInv, NoOrphanedChange
<1>4. RecordInv'
  BY DEF TypeOK, PhaseInv, RecordInv
<1>5. AddressInv'
  BY DEF TypeOK, PhaseInv, AddressInv
<1> QED BY <1>1, <1>2, <1>3, <1>4, <1>5

\* Rollback and recovery write the record's previous settings.
LEMMA RestoreCallStep ==
  ASSUME LanInv, RestoreCall
  PROVE  LanInv'
<1> USE LanConstants DEF LanInv, Settings, Tokens, Journal, Pending, Steps, Idle, RollbackSteps, RecoverSteps,
      Wanted, manager, binding, history, Fixed, Faults, RestoreCall, PartlyApplied
<1>1. TypeOK'
  BY DEF TypeOK, PhaseInv
<1>2. PhaseInv'
  BY DEF TypeOK, PhaseInv
<1>3. ThreadInv'
  BY DEF TypeOK, PhaseInv, ThreadInv, NoOrphanedChange
<1>4. RecordInv'
  BY DEF TypeOK, PhaseInv, RecordInv
<1>5. AddressInv'
  BY DEF TypeOK, PhaseInv, AddressInv
<1> QED BY <1>1, <1>2, <1>3, <1>4, <1>5

\* Their read-back moves the binding back with the settings.
LEMMA RestoreCheckStep ==
  ASSUME LanInv, RestoreCheck
  PROVE  LanInv'
<1> USE LanConstants DEF LanInv, Settings, Tokens, Journal, Pending, Steps, Idle, RollbackSteps, RecoverSteps,
      Wanted, manager, binding, history, Fixed, Faults, RestoreCheck, SetBinding
<1>1. TypeOK'
  <2>1. address' \in Ips /\ generation' \in Nat
    BY DEF TypeOK, PhaseInv
  <2>2. step' \in Steps /\ up' \in {"down", "recovering", "serving"} /\ error' \in BOOLEAN
    BY DEF TypeOK
  <2> QED BY <2>1, <2>2 DEF TypeOK
<1>2. PhaseInv'
  BY DEF TypeOK, PhaseInv
<1>3. ThreadInv'
  BY DEF TypeOK, PhaseInv, ThreadInv, NoOrphanedChange
<1>4. RecordInv'
  BY DEF TypeOK, PhaseInv, RecordInv
<1>5. AddressInv'
  BY DEF TypeOK, PhaseInv, AddressInv
<1> QED BY <1>1, <1>2, <1>3, <1>4, <1>5

\* The record is removed once the previous settings are back.
LEMMA RestoreClearStep ==
  ASSUME LanInv, RestoreClear
  PROVE  LanInv'
<1> USE LanConstants DEF LanInv, Settings, Tokens, Journal, Pending, Steps, Idle, RollbackSteps, RecoverSteps,
      Wanted, manager, binding, history, Fixed, Faults, RestoreClear, RemoveSucceeds, RemoveFails
<1>1. TypeOK'
  BY DEF TypeOK, PhaseInv
<1>2. PhaseInv'
  BY DEF TypeOK, PhaseInv
<1>3. ThreadInv'
  BY DEF TypeOK, PhaseInv, ThreadInv, NoOrphanedChange
<1>4. RecordInv'
  BY DEF TypeOK, PhaseInv, RecordInv
<1>5. AddressInv'
  BY DEF TypeOK, PhaseInv, AddressInv
<1> QED BY <1>1, <1>2, <1>3, <1>4, <1>5

\* A crash forgets memory and keeps firmware and record.
LEMMA CrashStep ==
  ASSUME LanInv, Crash
  PROVE  LanInv'
<1> USE LanConstants DEF LanInv, Settings, Tokens, Journal, Pending, Steps, Idle, RollbackSteps, RecoverSteps,
      Wanted, manager, binding, history, Fixed, Faults, Crash
<1>1. TypeOK'
  <2>1. thread' \in [Tokens -> {"none", "starting", "watching", "done"}]
    OBVIOUS
  <2>2. crashes' \in 0 .. MaxCrashes
    BY DEF TypeOK
  <2> QED BY <2>1, <2>2 DEF TypeOK
<1>2. PhaseInv'
  BY DEF TypeOK, PhaseInv
<1>3. ThreadInv'
  BY DEF TypeOK, PhaseInv, ThreadInv, NoOrphanedChange
<1>4. RecordInv'
  BY DEF TypeOK, PhaseInv, RecordInv
<1>5. AddressInv'
  BY DEF TypeOK, PhaseInv, AddressInv
<1> QED BY <1>1, <1>2, <1>3, <1>4, <1>5

\* A restart reads the address and recovers from the record it finds.
LEMMA RestartStep ==
  ASSUME LanInv, Restart
  PROVE  LanInv'
<1> USE LanConstants DEF LanInv, Settings, Tokens, Journal, Pending, Steps, Idle, RollbackSteps, RecoverSteps,
      Wanted, manager, binding, history, Fixed, Faults, Restart
<1>1. TypeOK'
  <2>1. address' \in Ips /\ generation' \in Nat
    BY DEF TypeOK
  <2>2. step' \in Steps /\ up' \in {"down", "recovering", "serving"} /\ error' \in BOOLEAN
    BY DEF TypeOK
  <2> QED BY <2>1, <2>2 DEF TypeOK
<1>2. PhaseInv'
  BY DEF TypeOK, PhaseInv
<1>3. ThreadInv'
  BY DEF TypeOK, PhaseInv, ThreadInv, NoOrphanedChange
<1>4. RecordInv'
  BY DEF TypeOK, PhaseInv, RecordInv
<1>5. AddressInv'
  BY DEF TypeOK, PhaseInv, AddressInv
<1> QED BY <1>1, <1>2, <1>3, <1>4, <1>5

\* The invariant holds when the agent starts without a record.
LEMMA InitInv == Init => LanInv
<1> SUFFICES ASSUME Init PROVE LanInv
  OBVIOUS
<1> USE LanConstants DEF Init, Settings, Tokens, Steps, Idle, RollbackSteps, RecoverSteps, Wanted
<1>1. TypeOK
  <2>1. fw \in Settings /\ agreed \in Settings /\ address \in Ips
    OBVIOUS
  <2>2. thread \in [Tokens -> {"none", "starting", "watching", "done"}]
    OBVIOUS
  <2>3. /\ issued \in 0 .. MaxChanges /\ crashes \in 0 .. MaxCrashes
        /\ stockWrites \in 0 .. MaxStock
    OBVIOUS
  <2> QED BY <2>1, <2>2, <2>3 DEF TypeOK
<1>2. PhaseInv /\ ThreadInv
  BY DEF PhaseInv, ThreadInv, NoOrphanedChange
<1>3. RecordInv /\ AddressInv
  BY DEF RecordInv, AddressInv
<1> QED BY <1>1, <1>2, <1>3 DEF LanInv

\* Steps that change nothing here preserve it.
LEMMA StutterStep ==
  ASSUME LanInv, UNCHANGED vars
  PROVE  LanInv'
  BY DEF LanInv, TypeOK, PhaseInv, ThreadInv, NoOrphanedChange, RecordInv,
         AddressInv, Wanted, Idle, vars, manager, binding, history, Fixed, Faults

\* Every action of the manager, the environment and time keeps LanInv.
LEMMA NextStep ==
  ASSUME LanInv, [Next]_vars
  PROVE  LanInv'
<1>1. ASSUME NEW s \in Settings, Begin(s) \/ BeginSaveFails(s) \/ StockWrite(s)
      PROVE  LanInv'
  BY <1>1, BeginStep, BeginSaveFailsStep, StockWriteStep
<1>2. ASSUME NEW t \in Tokens,
             ApplyPending(t) \/ Expire(t) \/ Confirm(t) \/ ConfirmRemoveFails(t)
      PROVE  LanInv'
  BY <1>2, ApplyPendingStep, ExpireStep, ConfirmStep, ConfirmRemoveFailsStep
<1>3. CASE ApplyCheck
  BY <1>3, ApplyCheckStep
<1>4. CASE DeadlinePasses
  BY <1>4, DeadlinePassesStep
<1>5. CASE Restore
  BY <1>5, RestoreCallStep, RestoreCheckStep, RestoreClearStep DEF Restore
<1>6. CASE Crash
  BY <1>6, CrashStep
<1>7. CASE Restart
  BY <1>7, RestartStep
<1>8. CASE UNCHANGED vars
  BY <1>8, StutterStep
<1> QED BY <1>1, <1>2, <1>3, <1>4, <1>5, <1>6, <1>7, <1>8 DEF Next

\* The inductive invariant holds in every state of every instance.
THEOREM Inductive == Spec => []LanInv
<1>1. Init => LanInv
  BY InitInv
<1>2. LanInv /\ [Next]_vars => LanInv'
  BY NextStep
<1> QED BY <1>1, <1>2, PTL DEF Spec

\* lan.rs keeps its types and its counters in bounds, whatever fails.
THEOREM TypeCorrect == Spec => []TypeOK
<1>1. LanInv => TypeOK
  BY DEF LanInv
<1> QED BY <1>1, Inductive, PTL

\* rollback_locked(), recover() and confirm() together: when directory syncs do not
\* fail, a change that was never confirmed is gone once its record is.
THEOREM NothingUnconfirmedSurvives == Spec => []KeptOnlyIfConfirmed
<1>1. LanInv => KeptOnlyIfConfirmed
  BY DEF LanInv, RecordInv, KeptOnlyIfConfirmed, Quiet, Wanted
<1> QED BY <1>1, Inductive, PTL

\* begin() starts the thread of the change it records: no pending change is left
\* without one unless a failed restoration was reported.
THEOREM EveryChangeHasAThread == Spec => []NoOrphanedChange
<1>1. LanInv => NoOrphanedChange
  BY DEF LanInv, ThreadInv
<1> QED BY <1>1, Inductive, PTL

\* Binding::set keeps the listener's address equal to the firmware's.
THEOREM BindingTracksFirmware == Spec => []AddressTracksFirmware
<1>1. LanInv => AddressTracksFirmware
  BY DEF LanInv, AddressInv, AddressTracksFirmware
<1> QED BY <1>1, Inductive, PTL

\* What WritesAreRecorded says of one step.
Recorded ==
  (fw' # fw /\ stockWrites' = stockWrites /\ "sync" \notin Faults)
     => /\ journal # None
        /\ journal.previous \in {agreed} \cup stock

\* Only the two firmware calls write settings, and both hold a record.
LEMMA RecordedStep ==
  ASSUME LanInv, [Next]_vars
  PROVE  [Recorded]_vars
<1> SUFFICES ASSUME Next, fw' # fw, stockWrites' = stockWrites, "sync" \notin Faults
             PROVE  journal # None /\ journal.previous \in Wanted
  BY DEF Wanted, vars, Recorded
<1>1. (\E t \in Tokens : ApplyPending(t)) \/ RestoreCall
  <2>1. ASSUME NEW s \in Settings PROVE ~StockWrite(s)
    BY DEF StockWrite, LanInv, TypeOK
  <2> QED BY <2>1 DEF Next, Restore, Begin, BeginSaveFails, Expire, Confirm, ConfirmRemoveFails,
            ApplyCheck, DeadlinePasses, RestoreCheck, RestoreClear, Crash, Restart
<1>2. journal # None
  <2>1. ASSUME NEW t \in Tokens, ApplyPending(t) PROVE journal # None
    BY <2>1, LanConstants DEF ApplyPending, LanInv, RecordInv, TypeOK, Pending
  <2>2. ASSUME RestoreCall PROVE journal # None
    BY <2>2, LanConstants
    DEF RestoreCall, LanInv, RecordInv, PhaseInv, RollbackSteps, RecoverSteps, TypeOK, Pending
  <2> QED BY <1>1, <2>1, <2>2
<1> QED BY <1>2 DEF LanInv, RecordInv

\* Write-ahead: every LAN write of the agent happens under a record whose previous
\* settings were agreed on.
THEOREM WriteAhead == Spec => WritesAreRecorded
<1>1. LanInv /\ [Next]_vars => [Recorded]_vars
  BY RecordedStep
<1> QED BY <1>1, Inductive, PTL DEF Spec, WritesAreRecorded, Recorded

(***************************************************************************)
(* The LAN manager behind server::start is still the LAN manager: every    *)
(* step of the composed system is a step of LanTransition or leaves the    *)
(* manager alone, so what is shown above holds there too.                  *)
(***************************************************************************)

\* A step of the composition, seen by the manager.
LEMMA ManagerStep ==
  ASSUME [ListenerNext]_lvars
  PROVE  [Next]_vars
<1>1. CASE ManagerNext
  BY <1>1 DEF ManagerNext, Next
<1>2. CASE CrashListener
  BY <1>2 DEF CrashListener, Next
<1>3. CASE ReadAddress \/ ReadGeneration \/ Bind \/ Rebuild \/ InterfaceFollows
  BY <1>3 DEF ReadAddress, ReadGeneration, Bind, Rebuild, InterfaceFollows
<1>4. ASSUME NEW w \in Workers, WorkerLeaves(w) \/ ListenerFails(w)
      PROVE  UNCHANGED vars
  BY <1>4 DEF WorkerLeaves, ListenerFails
<1>5. CASE UNCHANGED lvars
  BY <1>5 DEF lvars
<1> QED BY <1>1, <1>2, <1>3, <1>4, <1>5 DEF ListenerNext

\* The manager's inductive invariant holds behind the listener.
THEOREM ComposedInductive == ListenerSpec => []LanInv
<1>1. ListenerInit => LanInv
  BY InitInv DEF ListenerInit
<1>2. LanInv /\ [ListenerNext]_lvars => LanInv'
  BY ManagerStep, NextStep
<1> QED BY <1>1, <1>2, PTL DEF ListenerSpec

\* With requests coming only through a listener that serves (server.rs), no unconfirmed
\* change outlives its record.
THEOREM ComposedKeepsConfirmed == ListenerSpec => []KeptOnlyIfConfirmed
<1>1. LanInv => KeptOnlyIfConfirmed
  BY DEF LanInv, RecordInv, KeptOnlyIfConfirmed, Quiet, Wanted
<1> QED BY <1>1, ComposedInductive, PTL

\* Nor is a change left without its thread, or the binding away from the firmware.
THEOREM ComposedTracks == ListenerSpec => [](NoOrphanedChange /\ AddressTracksFirmware)
<1>1. LanInv => NoOrphanedChange /\ AddressTracksFirmware
  BY DEF LanInv, ThreadInv, AddressInv, AddressTracksFirmware
<1> QED BY <1>1, ComposedInductive, PTL

\* And every LAN write of the composed agent is recorded first.
THEOREM ComposedWriteAhead == ListenerSpec => WritesAreRecorded
<1>1. LanInv /\ [ListenerNext]_lvars => [Recorded]_vars
  BY ManagerStep, RecordedStep
<1> QED BY <1>1, ComposedInductive, PTL DEF ListenerSpec, WritesAreRecorded, Recorded
==============================================================================
