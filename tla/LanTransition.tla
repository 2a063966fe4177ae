---------------------------- MODULE LanTransition ----------------------------
(***************************************************************************)
(* agent/src/lan.rs: a LAN change is written to a recovery record, applied *)
(* by a thread of its own, and kept only when the client confirms it with  *)
(* the change's token before a deadline.  Otherwise the previous settings  *)
(* are restored, by the thread at the deadline or by recover() when the    *)
(* agent starts again.                                                     *)
(*                                                                         *)
(* All of the manager's work runs under the mutex LanManager::state.       *)
(* `step' is where the holder of that mutex has got to; between two steps  *)
(* the agent can crash and the stock web UI can write the same settings.   *)
(* Requests that are refused (a 4xx answer) change nothing and are not     *)
(* actions.                                                                *)
(***************************************************************************)
EXTENDS Naturals

CONSTANTS
  Ips,            \* LAN addresses
  Opts,           \* everything else in LanSettings: netmask, DHCP range, lease
  Valid,          \* the settings validate_lan_settings accepts
  DefaultIp,      \* the address bound when the configured one cannot be read
  Environments,   \* the environments a behaviour may have: `fixed' iff
                  \* ZTE_AGENT_BIND pins the listener; `faults', what may fail:
                  \* "ubus" a firmware call, "uci" a read, "file" a file operation
                  \* without effect, "sync" the directory sync after the rename
                  \* or unlink took effect; and how much of what the bounds allow
  MaxChanges,     \* bound: changes begun (one token each)
  MaxCrashes,     \* bound: agent crashes
  MaxStock,       \* bound: writes by the stock web UI
  None

Settings == [ip : Ips, opt : Opts]
Tokens   == 1 .. MaxChanges
Journal  == [previous : Settings, proposed : Settings, token : Tokens]
Pending  == [journal : Journal, applied : BOOLEAN, expired : BOOLEAN]

ASSUME LanConstants ==
  /\ Valid \subseteq Settings
  /\ DefaultIp \in Ips
  /\ Environments \subseteq [fixed : BOOLEAN, faults : SUBSET {"ubus", "uci", "file", "sync"},
       changes : 0 .. MaxChanges, crashes : 0 .. MaxCrashes, stock : 0 .. MaxStock]
  /\ MaxChanges \in Nat /\ MaxCrashes \in Nat /\ MaxStock \in Nat
  /\ None \notin Journal /\ None \notin Pending

VARIABLES
  fw,          \* the LAN settings in the firmware's configuration
  journal,     \* the recovery record on disk, or None
  up,          \* "down", "recovering" (main before server::start), "serving"
  step,        \* progress of the holder of the state mutex
  pending,     \* State::pending
  confirmed,   \* State::confirmed
  error,       \* State::error is Some
  thread,      \* the transition thread of each change
  address,     \* Binding::address
  generation,  \* Binding::generation
  issued,      \* number of confirmation tokens created
  crashes,     \* number of crashes so far
  stock,       \* settings the stock web UI has written
  stockWrites, \* how many times it has
  env,         \* the environment of this behaviour
  agreed       \* history: what the device last had by agreement, the initial
               \* settings or the last confirmed proposal

manager == <<pending, confirmed, error, thread>>
binding == <<address, generation>>
history == <<crashes, stock, stockWrites, env, agreed>>
vars == <<fw, journal, up, step, manager, binding, issued, history>>

Fixed  == env.fixed
Faults == env.faults

Steps == {"free", "apply_check", "rollback", "rollback_check", "rollback_clear",
          "recover", "recover_check", "recover_clear"}

\* The values the variables range over; the listener always has an address, also when
\* Binding::new cannot read the configured one.
TypeOK ==
  /\ fw \in Settings
  /\ journal \in Journal \cup {None}
  /\ up \in {"down", "recovering", "serving"}
  /\ step \in Steps
  /\ pending \in Pending \cup {None}
  /\ confirmed \in Journal \cup {None}
  /\ error \in BOOLEAN
  /\ thread \in [Tokens -> {"none", "starting", "watching", "done"}]
  /\ address \in Ips
  /\ generation \in Nat
  /\ issued \in 0 .. MaxChanges
  /\ crashes \in 0 .. MaxCrashes
  /\ stock \subseteq Settings
  /\ stockWrites \in 0 .. MaxStock
  /\ env \in Environments
  /\ agreed \in Settings

Init ==
  /\ fw \in Valid
  /\ journal = None
  /\ up = "serving" /\ step = "free"
  /\ pending = None /\ confirmed = None /\ error = FALSE
  /\ thread = [t \in Tokens |-> "none"]
  /\ address = fw.ip /\ generation = 0
  /\ issued = 0 /\ crashes = 0
  /\ stock = {} /\ stockWrites = 0
  /\ env \in Environments
  /\ agreed = fw

Idle == up = "serving" /\ step = "free"

(***************************************************************************)
(* What the environment of the manager does.                               *)
(***************************************************************************)

\* A router_set_lan_para call that reports an error may have written nothing,
\* everything, or only part of the new settings.
PartlyApplied(s) == [ip : {fw.ip, s.ip}, opt : {fw.opt, s.opt}]

\* storage::durable_remove: unlink, then sync the directory.  It also fails
\* when the file is already gone.
RemoveFails ==
  \/ journal = None /\ journal' = None
  \/ "file" \in Faults /\ journal' = journal
  \/ "sync" \in Faults /\ journal' = None
RemoveSucceeds == journal # None /\ journal' = None

\* Binding::set.
SetBinding(ip) ==
  IF Fixed \/ address = ip THEN UNCHANGED binding
  ELSE address' = ip /\ generation' = generation + 1

(***************************************************************************)
(* begin(): write the record, then remember the change and start its       *)
(* thread.  The token is created before the record is saved.               *)
(***************************************************************************)
BeginAllowed(proposed) ==
  /\ Idle
  /\ pending = None /\ journal = None
  /\ proposed \in Valid /\ fw \in Valid /\ proposed # fw
  /\ Fixed => fw.ip = proposed.ip
  /\ issued < env.changes

\* Mutants of Begin: the record is not written; the thread is not started.
Begin_NotSaved(proposed) ==
  /\ BeginAllowed(proposed)
  /\ issued' = issued + 1
  /\ confirmed' = None
  /\ pending' = [journal |-> [previous |-> fw, proposed |-> proposed, token |-> issued + 1],
                 applied |-> FALSE, expired |-> FALSE]
  /\ thread' = [thread EXCEPT ![issued + 1] = "starting"]
  /\ UNCHANGED <<fw, journal, up, step, error, binding, history>>

Begin_NoThread(proposed) ==
  /\ BeginAllowed(proposed)
  /\ issued' = issued + 1
  /\ journal' = [previous |-> fw, proposed |-> proposed, token |-> issued + 1]
  /\ confirmed' = None
  /\ pending' = [journal |-> journal', applied |-> FALSE, expired |-> FALSE]
  /\ UNCHANGED <<fw, up, step, thread, error, binding, history>>

Begin(proposed) ==
  LET token == issued + 1
      record == [previous |-> fw, proposed |-> proposed, token |-> token]
  IN
  /\ BeginAllowed(proposed)
  /\ issued' = token
  /\ journal' = record
  /\ confirmed' = None
  /\ pending' = [journal |-> record, applied |-> FALSE, expired |-> FALSE]
  /\ thread' = [thread EXCEPT ![token] = "starting"]
  /\ UNCHANGED <<fw, up, step, error, binding, history>>

BeginSaveFails(proposed) ==
  /\ BeginAllowed(proposed)
  /\ issued' = issued + 1
  /\ \/ "file" \in Faults /\ UNCHANGED journal
     \/ /\ "sync" \in Faults
        /\ journal' = [previous |-> fw, proposed |-> proposed, token |-> issued + 1]
  /\ UNCHANGED <<fw, up, step, manager, binding, history>>

(***************************************************************************)
(* The transition thread: apply_pending() once, then expire() until it     *)
(* returns false.                                                          *)
(***************************************************************************)
ApplyPending(t) ==
  /\ Idle /\ thread[t] = "starting"
  /\ thread' = [thread EXCEPT ![t] = "watching"]
  /\ IF pending = None THEN UNCHANGED <<fw, step, error>>
     ELSE \/ /\ fw' = pending.journal.proposed
             /\ step' = "apply_check"
             /\ UNCHANGED error
          \/ /\ "ubus" \in Faults
             /\ fw' \in PartlyApplied(pending.journal.proposed)
             /\ step' = "rollback" /\ error' = TRUE
  /\ UNCHANGED <<journal, up, pending, confirmed, binding, issued, history>>

\* The read-back of LanSettings::apply for the proposed settings.
ApplyCheck ==
  /\ up = "serving" /\ step = "apply_check"
  /\ \/ /\ fw = pending.journal.proposed
        /\ SetBinding(pending.journal.proposed.ip)
        /\ pending' = [pending EXCEPT !.applied = TRUE]
        /\ step' = "free"
        /\ UNCHANGED error
     \/ /\ fw # pending.journal.proposed \/ "uci" \in Faults
        /\ step' = "rollback" /\ error' = TRUE
        /\ UNCHANGED <<pending, binding>>
  /\ UNCHANGED <<fw, journal, up, confirmed, thread, issued, history>>

\* Mutant of Expire: a change that was applied is taken for confirmed.
Expire_AppliedIsKept(t) ==
  /\ Idle /\ thread[t] = "watching"
  /\ \/ /\ pending = None
        /\ UNCHANGED <<step, error>>
     \/ /\ pending # None
        /\ pending.expired /\ ~pending.applied
        /\ step' = "rollback" /\ error' = TRUE
  /\ thread' = [thread EXCEPT ![t] = "done"]
  /\ UNCHANGED <<fw, journal, up, pending, confirmed, binding, issued, history>>

Expire(t) ==
  /\ Idle /\ thread[t] = "watching"
  /\ \/ /\ pending = None
        /\ UNCHANGED <<step, error>>
     \/ /\ pending # None
        /\ pending.expired
        /\ step' = "rollback" /\ error' = TRUE
  /\ thread' = [thread EXCEPT ![t] = "done"]
  /\ UNCHANGED <<fw, journal, up, pending, confirmed, binding, issued, history>>

\* The thread applies one second after begin() and the deadline is
\* CONFIRM_SECONDS = 120 away, so it does not pass before the first attempt.
DeadlinePasses ==
  /\ up = "serving" /\ pending # None
  /\ ~pending.expired /\ thread[pending.journal.token] # "starting"
  /\ pending' = [pending EXCEPT !.expired = TRUE]
  /\ UNCHANGED <<fw, journal, up, step, confirmed, error, thread, binding, issued, history>>

(***************************************************************************)
(* rollback_locked() and recover(): apply the previous settings, move the  *)
(* binding back, remove the record.  A failure leaves record and pending   *)
(* change in place.  recover() works from the record, before the listener  *)
(* starts.                                                                 *)
(***************************************************************************)
\* Mutant of RestoreCall: the record is cleared although the call failed.
RestoreCall_IgnoresFailure ==
  /\ step \in {"rollback", "recover"}
  /\ LET previous == IF step = "rollback" THEN pending.journal.previous ELSE journal.previous
     IN fw' \in PartlyApplied(previous)
  /\ step' = IF step = "rollback" THEN "rollback_clear" ELSE "recover_clear"
  /\ UNCHANGED <<journal, up, pending, confirmed, error, thread, binding, issued, history>>

RestoreCall ==
  /\ step \in {"rollback", "recover"}
  /\ LET previous == IF step = "rollback" THEN pending.journal.previous ELSE journal.previous
     IN \/ /\ fw' = previous
           /\ step' = IF step = "rollback" THEN "rollback_check" ELSE "recover_check"
           /\ UNCHANGED <<up, error>>
        \/ /\ "ubus" \in Faults
           /\ fw' \in PartlyApplied(previous)
           /\ step' = "free" /\ error' = TRUE /\ up' = "serving"
  /\ UNCHANGED <<journal, pending, confirmed, thread, binding, issued, history>>

\* Mutant of RestoreCheck: the listener's address is not moved back.
RestoreCheck_KeepsBinding ==
  /\ step \in {"rollback_check", "recover_check"}
  /\ step' = IF step = "rollback_check" THEN "rollback_clear" ELSE "recover_clear"
  /\ UNCHANGED <<fw, journal, up, manager, binding, issued, history>>

RestoreCheck ==
  /\ step \in {"rollback_check", "recover_check"}
  /\ LET previous == IF step = "rollback_check" THEN pending.journal.previous ELSE journal.previous
     IN \/ /\ fw = previous
           /\ SetBinding(previous.ip)
           /\ step' = IF step = "rollback_check" THEN "rollback_clear" ELSE "recover_clear"
           /\ UNCHANGED <<up, error>>
        \/ /\ fw # previous \/ "uci" \in Faults
           /\ step' = "free" /\ error' = TRUE /\ up' = "serving"
           /\ UNCHANGED binding
  /\ UNCHANGED <<fw, journal, pending, confirmed, thread, issued, history>>

\* rollback_locked() leaves the reason of the rollback in State::error;
\* recover() replaces it by its own result.
RestoreClear ==
  /\ step \in {"rollback_clear", "recover_clear"}
  /\ \/ /\ RemoveSucceeds
        /\ pending' = None
        /\ error' = (step = "rollback_clear" /\ error)
     \/ /\ RemoveFails
        /\ error' = TRUE
        /\ UNCHANGED pending
  /\ step' = "free" /\ up' = "serving"
  /\ UNCHANGED <<fw, confirmed, thread, binding, issued, history>>

(***************************************************************************)
(* confirm(): only an applied, unexpired change, by its own token, while   *)
(* the firmware still holds the proposed settings.  Repeating a confirmed  *)
(* token changes nothing.                                                  *)
(***************************************************************************)
ConfirmAccepted(token) ==
  /\ Idle /\ pending # None
  /\ pending.applied /\ ~pending.expired
  /\ token = pending.journal.token
  /\ fw = pending.journal.proposed

Confirm(token) ==
  /\ ConfirmAccepted(token)
  /\ RemoveSucceeds
  /\ confirmed' = pending.journal
  /\ pending' = None
  /\ error' = FALSE
  /\ agreed' = pending.journal.proposed
  /\ UNCHANGED <<fw, up, step, thread, binding, issued, crashes, stock, stockWrites, env>>

ConfirmRemoveFails(token) ==
  /\ ConfirmAccepted(token)
  /\ RemoveFails
  /\ UNCHANGED <<fw, up, step, manager, binding, issued, history>>

(***************************************************************************)
(* The rest of the world: a crash loses everything but the firmware's      *)
(* settings and the record; main() then builds the binding from the        *)
(* firmware, recovers, and serves.                                         *)
(***************************************************************************)
Crash ==
  /\ up # "down" /\ crashes < env.crashes
  /\ crashes' = crashes + 1
  /\ up' = "down" /\ step' = "free"
  /\ pending' = None /\ confirmed' = None /\ error' = FALSE
  /\ thread' = [t \in Tokens |-> "none"]
  /\ UNCHANGED <<fw, journal, binding, issued, stock, stockWrites, env, agreed>>

\* Binding::new, then recover() up to its firmware call.  The record may be
\* unreadable; its settings passed validate_lan_settings when begin() read them.
Restart ==
  /\ up = "down"
  /\ generation' = 0
  /\ IF Fixed THEN UNCHANGED address
     ELSE \/ address' = fw.ip
          \/ "uci" \in Faults /\ address' = DefaultIp
  /\ \/ /\ journal = None
        /\ up' = "serving"
        /\ UNCHANGED <<step, error>>
     \/ /\ journal # None
        /\ journal.previous \in Valid
        /\ up' = "recovering" /\ step' = "recover"
        /\ UNCHANGED error
     \/ /\ journal # None /\ "file" \in Faults
        /\ up' = "serving" /\ error' = TRUE
        /\ UNCHANGED step
  /\ UNCHANGED <<fw, journal, pending, confirmed, thread, issued, history>>

\* The stock web UI writes the same configuration, whatever the agent does.
StockWrite(s) ==
  /\ stockWrites < env.stock /\ s # fw
  /\ fw' = s
  /\ stock' = stock \cup {s}
  /\ stockWrites' = stockWrites + 1
  /\ UNCHANGED <<journal, up, step, manager, binding, issued, crashes, env, agreed>>

Restore == RestoreCall \/ RestoreCheck \/ RestoreClear

Next ==
  \/ \E s \in Settings : Begin(s) \/ BeginSaveFails(s) \/ StockWrite(s)
  \/ \E t \in Tokens : ApplyPending(t) \/ Expire(t) \/ Confirm(t) \/ ConfirmRemoveFails(t)
  \/ ApplyCheck \/ DeadlinePasses \/ Restore
  \/ Crash \/ Restart

\* The thread is scheduled, time passes, firmware calls return, and rc.local
\* starts the agent.  Clients, crashes and the stock UI owe nothing.
Fairness ==
  /\ \A t \in Tokens : WF_vars(ApplyPending(t)) /\ WF_vars(Expire(t))
  /\ WF_vars(ApplyCheck) /\ WF_vars(DeadlinePasses) /\ WF_vars(Restore)
  /\ WF_vars(Restart)

Spec == Init /\ [][Next]_vars /\ Fairness

(***************************************************************************)
(* Properties                                                              *)
(***************************************************************************)

Quiet == Idle /\ pending = None /\ journal = None

\* docs/AGENT.md:206-208: a change nobody confirmed does not outlive its record.
\* Whenever no change is pending and no record is on disk, the firmware holds the
\* settings last agreed on (initial or confirmed) or what the stock UI wrote, as long
\* as directory syncs succeed (storage.rs: a failed removal then leaves the file).
KeptOnlyIfConfirmed == ("sync" \notin Faults /\ Quiet) => fw = agreed \/ fw \in stock

\* Write-ahead: the agent writes LAN settings to the firmware only while a record
\* on disk names settings that were agreed on (or the stock UI's) to go back to.
WritesAreRecorded ==
  [][ (fw' # fw /\ stockWrites' = stockWrites /\ "sync" \notin Faults)
        => /\ journal # None
           /\ journal.previous \in {agreed} \cup stock ]_vars

\* A pending change always has a thread that will apply or expire it, unless a
\* failed restoration has been reported in last_error (lan.rs:222-237, 254-266).
NoOrphanedChange ==
  (up = "serving" /\ pending # None /\ ~error)
     => \E t \in Tokens : thread[t] \in {"starting", "watching"}

\* Without a reported error, between two locked sections, the address the listener
\* is told to bind is the firmware's LAN address (Binding::set follows every apply).
AddressTracksFirmware ==
  (Idle /\ ~error /\ stock = {} /\ ~Fixed /\ "uci" \notin Faults) => address = fw.ip

\* A recovery record is never forgotten: it is removed, or an error is reported.
RecordIsSettled ==
  (journal # None /\ "sync" \notin Faults) ~> (journal = None \/ error)
==============================================================================
