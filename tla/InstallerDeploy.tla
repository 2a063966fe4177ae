--------------------------- MODULE InstallerDeploy ---------------------------
(***************************************************************************)
(* The desktop installer (installer/src-tauri): detection, the check that  *)
(* precedes an installation, unlocking, the deployment transaction and its *)
(* recovery.  The transaction is a script on the modem                     *)
(* (scripts/device/transaction.sh): a snapshot of the files about to be    *)
(* replaced, a marker that names it, and a lock.  The connection, the      *)
(* application and the modem can fail between any two steps; a command the *)
(* installer gave up on may go on running on the modem.                    *)
(***************************************************************************)
EXTENDS Integers, Sequences, FiniteSets

CONSTANTS
  Targets,   \* files and directories an installation replaces
  Writes,    \* the targets of each phase of an installation
  Releases,  \* releases this installer may install, in order of publication
  Bounds,    \* bounds a behaviour may have: begins, faults, losses, abandons, stops,
             \* and the newest release there is
  None

Phases == <<"agent", "ssh", "dashboard", "manifest">>

Ids == UNION {1..b.begins : b \in Bounds}  \* transactions
Absent == 0     \* the version of a target is a release, or it is absent
Free == -1      \* the lock directory: missing, without an owner, or owned by a transaction
Unowned == 0
Versions == Releases \cup {Absent}

\* What the modem keeps: the targets, the transactions with their snapshots, the lock, the marker.
Transaction ==
  [state : {"none", "dir", "pending", "committed", "restored"}, identity : BOOLEAN, saved : [Targets -> Versions]]
Modem ==
  [files : [Targets -> Versions], tx : [Ids -> Transaction], lock : Ids \cup {Free, Unowned},
   active : Ids \cup {0}, unlocked : BOOLEAN]

\* A command on the modem: where it is, its transaction, the targets it has still to do, and the
\* release it installs.
BeginSteps == {"lock", "owner", "dir", "identity", "copy", "mark", "sync"}
CommandSteps ==
  BeginSteps \cup {"complete", "restore", "put back", "unmark", "disown", "unlock", "discard", "erase",
                   "install", "ok", "fail"}
Command == [at : CommandSteps, id : Ids, todo : SUBSET Targets, release : Releases \cup {None}]

\* What a detection finds.
Finding ==
  [found : [kind : {"none", "invalid"}, id : {0}] \cup [kind : {"pending", "incomplete"}, id : Ids],
   locked : BOOLEAN]

ASSUME InstallerConstants ==
  /\ IsFiniteSet(Targets) /\ Releases \subseteq Nat \ {0}
  /\ \E r \in Releases : \A q \in Releases : r <= q
  /\ Writes \in [{Phases[n] : n \in DOMAIN Phases} -> SUBSET Targets]
  /\ \A t \in Targets : \E n \in DOMAIN Phases : t \in Writes[Phases[n]]
  /\ Bounds \subseteq [begins : Nat, faults : Nat, losses : Nat, abandons : Nat, stops : Nat, newest : Nat]
  /\ None \notin Releases \cup Command \cup Finding

Oldest == CHOOSE r \in Releases : \A q \in Releases : r <= q

VARIABLES
  dev,      \* the modem: files, transactions (tx), lock, active, unlocked
  cmd,      \* the device command the installer waits for, or None
  orphans,  \* commands it gave up on that still run
  worker,   \* the operation in progress
  ctl,      \* Control: running, critical, stopped, waiting, approval
  plan,     \* the detection the user sees: kind and transaction of what it found, locked
  checked,  \* the release of the dry run that passed for these settings, or None
  seen,     \* a detection in flight: what it found, and whether it is still current
  cache,    \* releases of which a verified bundle is kept
  latest,   \* the newest published release
  report,   \* what the last operation told the user
  history,  \* ghost: files before each transaction, stop accepted
  late,     \* ghost: a command was started beside an abandoned one
  begun,    \* transactions started
  budget

vars == <<dev, cmd, orphans, worker, ctl, plan, checked, seen, cache, latest, report, history, late, begun, budget>>

NoTx == [state |-> "none", identity |-> FALSE, saved |-> [t \in Targets |-> Absent]]
Uniform(v) == [t \in Targets |-> v]

Init ==
  /\ \E v \in {Absent, Oldest}, open \in BOOLEAN :
       /\ v # Absent => open
       /\ dev = [files |-> Uniform(v), tx |-> [i \in Ids |-> NoTx], lock |-> Free, active |-> 0,
                 unlocked |-> open]
  /\ cmd = None /\ orphans = {} /\ worker = [at |-> "idle"]
  /\ ctl = [running |-> FALSE, critical |-> FALSE, stopped |-> FALSE, waiting |-> FALSE, approval |-> None]
  /\ plan = None /\ checked = None /\ seen = None /\ cache = {} /\ latest = Oldest
  /\ history = [files |-> [i \in Ids |-> dev.files], refused |-> FALSE]
  /\ report = None /\ late = FALSE /\ begun = 0
  /\ \E b \in Bounds : budget = b

Spend(what) == budget[what] > 0 /\ budget' = [budget EXCEPT ![what] = @ - 1]

Host == <<worker, ctl, plan, checked, seen, cache, latest, report, history, late, begun>>
Device == <<dev, cmd, orphans, late, begun>>
View == <<plan, checked, seen, cache>>

(***************************************************************************)
(* Commands on the modem: the transaction script, and the commands of a    *)
(* phase.                                                                  *)
(***************************************************************************)
First(s) == CHOOSE t \in s : TRUE
Step(d, c, at) == [dev |-> d, cmd |-> [c EXCEPT !.at = at]]
Answered(c) == c.at \in {"ok", "fail"}

\* A transaction is restored or completed with its own identity record and a known state.
Known(i) == dev.tx[i].identity /\ dev.tx[i].state \in {"pending", "committed", "restored"}

\* `restore' takes the marker and the lock again when they are gone.
MayRestore(i) ==
  Known(i) /\ (dev.active = i \/ (dev.active = 0 /\ dev.lock \in {Free, i}))
MayComplete(i) == Known(i) /\ dev.active = i /\ dev.tx[i].state = "pending"

\* Only a preparation that was never activated is discarded.
MayDiscard(i) ==
  dev.active = 0 /\ dev.lock = i /\ dev.tx[i].state = "dir" /\ dev.tx[i].identity

\* The trap of `begin': a failed preparation is erased, with whatever lock there is.
Trapped(c) == c.at \in {"identity", "copy", "mark", "sync"}
Failed(c) ==
  [dev |-> IF Trapped(c) THEN [dev EXCEPT !.tx[c.id] = NoTx, !.lock = Free] ELSE dev,
   cmd |-> [c EXCEPT !.at = "fail"]]

Begin(c) ==
  LET tx == dev.tx[c.id]
      t == First(c.todo)
      With(new, d, at) == IF tx.state = "none" THEN Failed(c) ELSE Step([dev EXCEPT !.tx[c.id] = new], d, at)
  IN CASE c.at = "lock" /\ dev.lock # Free -> Failed(c)
       [] c.at = "lock" /\ dev.lock = Free -> Step([dev EXCEPT !.lock = Unowned], c, "owner")
       [] c.at = "owner" -> Step([dev EXCEPT !.lock = c.id], c, "dir")
       [] c.at = "dir" -> Step([dev EXCEPT !.tx[c.id].state = "dir"], c, "identity")
       [] c.at = "identity" -> With([tx EXCEPT !.identity = TRUE], c, "copy")
       [] c.at = "copy" /\ c.todo # {} ->
            With([tx EXCEPT !.saved[t] = dev.files[t]], [c EXCEPT !.todo = @ \ {t}], "copy")
       [] c.at = "copy" /\ c.todo = {} -> With([tx EXCEPT !.state = "pending"], c, "mark")
       [] c.at = "mark" -> Step([dev EXCEPT !.active = c.id], c, "sync")
       [] c.at = "sync" -> Step(dev, c, "ok")

Commit(c) ==
  IF MayComplete(c.id) THEN Step([dev EXCEPT !.tx[c.id].state = "committed"], c, "unmark") ELSE Failed(c)

Restore_Moves(c) ==
  LET t == First(c.todo)
  IN CASE c.at = "restore" /\ ~MayRestore(c.id) -> Failed(c)
       [] c.at = "restore" /\ MayRestore(c.id) ->
            Step([dev EXCEPT !.lock = IF dev.active = 0 THEN c.id ELSE @, !.active = c.id], c, "put back")
       [] c.at = "put back" /\ c.todo # {} ->
            Step([dev EXCEPT !.files[t] = dev.tx[c.id].saved[t], !.tx[c.id].saved[t] = Absent],
                 [c EXCEPT !.todo = @ \ {t}], "put back")
       [] c.at = "put back" /\ c.todo = {} -> Step([dev EXCEPT !.tx[c.id].state = "restored"], c, "unmark")

\* The snapshot is only read: an interrupted restoration can be repeated.
Restore(c) ==
  LET t == First(c.todo)
  IN CASE c.at = "restore" /\ ~MayRestore(c.id) -> Failed(c)
       [] c.at = "restore" /\ MayRestore(c.id) ->
            Step([dev EXCEPT !.lock = IF dev.active = 0 THEN c.id ELSE @, !.active = c.id], c, "put back")
       [] c.at = "put back" /\ c.todo # {} ->
            Step([dev EXCEPT !.files[t] = dev.tx[c.id].saved[t]], [c EXCEPT !.todo = @ \ {t}], "put back")
       [] c.at = "put back" /\ c.todo = {} -> Step([dev EXCEPT !.tx[c.id].state = "restored"], c, "unmark")

\* The marker goes first, then the lock's owner, then the lock, which may be gone.
Release(c) ==
  CASE c.at = "unmark" -> Step([dev EXCEPT !.active = 0], c, "disown")
    [] c.at = "disown" -> Step([dev EXCEPT !.lock = IF @ = Free THEN Free ELSE Unowned], c, "unlock")
    [] c.at = "unlock" -> IF dev.lock = Unowned THEN Step([dev EXCEPT !.lock = Free], c, "ok") ELSE Failed(c)

Discard(c) ==
  CASE c.at = "discard" -> IF MayDiscard(c.id) THEN Step(dev, c, "erase") ELSE Failed(c)
    [] c.at = "erase" -> Step([dev EXCEPT !.tx[c.id] = NoTx], c, "disown")

\* A file is staged, verified and renamed over the old one; a current one is left alone.
Install(c) ==
  IF c.todo = {} THEN Step(dev, c, "ok")
  ELSE LET t == First(c.todo) IN Step([dev EXCEPT !.files[t] = c.release], [c EXCEPT !.todo = @ \ {t}], "install")

Outcome(c) ==
  CASE c.at \in BeginSteps -> Begin(c)
    [] c.at = "complete" -> Commit(c)
    [] c.at \in {"restore", "put back"} -> Restore(c)
    [] c.at \in {"unmark", "disown", "unlock"} -> Release(c)
    [] c.at \in {"discard", "erase"} -> Discard(c)
    [] c.at = "install" -> Install(c)

CommandStep ==
  /\ cmd # None /\ ~Answered(cmd)
  /\ dev' = Outcome(cmd).dev /\ cmd' = Outcome(cmd).cmd
  /\ UNCHANGED <<orphans, Host, budget>>

OrphanStep ==
  \E c \in orphans :
    /\ dev' = Outcome(c).dev
    /\ orphans' = (orphans \ {c}) \cup (IF Answered(Outcome(c).cmd) THEN {} ELSE {Outcome(c).cmd})
    /\ UNCHANGED <<cmd, Host, budget>>

\* A program in the command fails, or the connection drops and the shell is hung up.  `begin'
\* itself gives the lock back when it cannot make its directory.
Unlocks(c) == [dev |-> [dev EXCEPT !.lock = Free], cmd |-> [c EXCEPT !.at = "fail"]]
Failures(c) == IF c.at = "dir" THEN {Failed(c), Unlocks(c)} ELSE {Failed(c)}
CommandFails ==
  /\ cmd # None /\ ~Answered(cmd) /\ Spend("faults")
  /\ \E f \in Failures(cmd) : dev' = f.dev /\ cmd' = f.cmd
  /\ UNCHANGED <<orphans, Host>>

Orphaned(c) == IF c = None \/ Answered(c) THEN orphans ELSE orphans \cup {c}

\* The deadline passes, or the answer is lost: the command goes on without the installer.
CommandAbandoned ==
  /\ cmd # None /\ cmd.at # "fail" /\ Spend("abandons")
  /\ orphans' = Orphaned(cmd) /\ cmd' = [cmd EXCEPT !.at = "fail"]
  /\ UNCHANGED <<dev, Host>>

\* Power is lost: everything that runs on the modem ends where it is.
PowerLoss ==
  /\ Spend("losses") /\ (cmd # None \/ orphans # {})
  /\ orphans' = {} /\ cmd' = IF cmd = None THEN None ELSE [cmd EXCEPT !.at = "fail"]
  /\ UNCHANGED <<dev, Host>>

(***************************************************************************)
(* Control.                                                                *)
(***************************************************************************)
StartControl ==
  /\ ~ctl.running
  /\ ctl' = [ctl EXCEPT !.running = TRUE, !.critical = FALSE, !.stopped = FALSE, !.approval = None]
  /\ report' = None /\ history' = [history EXCEPT !.refused = FALSE]
FinishControl == ctl' = [ctl EXCEPT !.running = FALSE, !.critical = FALSE, !.waiting = FALSE]
EnterCritical == ~ctl.stopped /\ ctl' = [ctl EXCEPT !.critical = TRUE]

Stop ==
  /\ worker.at # "closed" /\ Spend("stops") /\ ~ctl.critical
  /\ ctl' = [ctl EXCEPT !.stopped = TRUE]
  /\ history' = [history EXCEPT !.refused = ctl.running]
  /\ UNCHANGED <<Device, worker, View, latest, report>>

Confirm(accepted) ==
  /\ worker.at # "closed" /\ ctl.waiting /\ ctl.approval # accepted
  /\ ctl' = [ctl EXCEPT !.approval = accepted]
  /\ UNCHANGED <<Device, worker, View, latest, report, history, budget>>

(***************************************************************************)
(* Detection.                                                              *)
(***************************************************************************)
\* inspect(): the marker first, then the lock; a lock nobody owns cannot be read.
Inspected ==
  CASE dev.active # 0 -> [kind |-> "pending", id |-> dev.active]
    [] dev.active = 0 /\ dev.lock = Free -> [kind |-> "none", id |-> 0]
    [] dev.active = 0 /\ dev.lock = Unowned -> [kind |-> "invalid", id |-> 0]
    [] dev.active = 0 /\ dev.lock \notin {Free, Unowned} -> [kind |-> "incomplete", id |-> dev.lock]

\* detect(): a locked modem is identified later, when it is unlocked.
Detected ==
  IF dev.unlocked THEN [found |-> Inspected, locked |-> FALSE]
  ELSE [found |-> [kind |-> "none", id |-> 0], locked |-> TRUE]

DetectBegins ==
  /\ worker.at # "closed" /\ ~ctl.running /\ seen = None
  /\ checked' = None
  /\ seen' = [current |-> TRUE, result |-> Detected]
  /\ UNCHANGED <<Device, worker, ctl, plan, cache, latest, report, history, budget>>

\* An obsolete result is discarded; one of a modem that cannot be read is an error.
DetectEnds ==
  /\ worker.at # "closed" /\ seen # None /\ seen' = None
  /\ plan' = IF seen.current /\ seen.result.found.kind # "invalid" THEN seen.result ELSE plan
  /\ UNCHANGED <<Device, worker, ctl, checked, cache, latest, report, history, budget>>

\* The user edits the form.
Invalidate ==
  /\ worker.at # "closed" /\ (plan # None \/ seen # None)
  /\ plan' = None /\ checked' = None
  /\ seen' = IF seen = None THEN None ELSE [seen EXCEPT !.current = FALSE]
  /\ UNCHANGED <<Device, worker, ctl, cache, latest, report, history, budget>>

(***************************************************************************)
(* run_install() and perform_install().                                    *)
(***************************************************************************)
At(step) == worker.at = step
Goto(step) == worker' = [worker EXCEPT !.at = step]
Quiet == UNCHANGED <<View, latest, report, history>>

\* The request is for the modem that was detected, and nothing is pending on it.
Valid == plan # None /\ plan.found.kind = "none"

\* An installation runs after a dry run of the same settings.
InstallStarts(dry) ==
  /\ At("idle") /\ Valid /\ (dry \/ checked # None)
  /\ begun < budget.begins /\ StartControl
  /\ worker' = [at |-> "prepare", dry |-> dry, locked |-> plan.locked, pin |-> IF dry THEN None ELSE checked,
                release |-> None, id |-> 0, phase |-> 1]
  /\ UNCHANGED <<Device, View, latest, budget>>

\* The worker ends: a passed check is kept for the next run, a plan is used once.
End(outcome) ==
  /\ worker' = [at |-> "idle"] /\ FinishControl
  /\ checked' = IF worker.dry /\ outcome = "checked" THEN worker.release ELSE None
  /\ plan' = IF worker.dry THEN plan ELSE None
  /\ report' = [outcome |-> outcome, id |-> worker.id, release |-> worker.release]
  /\ UNCHANGED <<seen, cache, latest, history>>

\* A bundle in the cache: any of them, or that of one release.
Cached(pin) == {r \in cache : pin = None \/ pin = r}

\* The release to install: that of the user's bundle, of the lookup, or of a cached bundle.
Found(bundle, online) ==
  CASE bundle # None -> {bundle}
    [] bundle = None /\ online -> {IF worker.pin = None THEN latest ELSE worker.pin}
    [] bundle = None /\ ~online -> Cached(worker.pin)

\* The release must be the one that was checked.
Pinned(r) == worker.pin = None \/ worker.pin = r

Prepare ==
  /\ At("prepare") /\ Quiet /\ UNCHANGED <<Device, ctl, budget>>
  /\ \E bundle \in {r \in Releases : r <= budget.newest} \cup {None}, online \in BOOLEAN :
       \E r \in Found(bundle, online) :
         /\ Pinned(r)
         /\ worker' = [worker EXCEPT !.at = IF bundle = None /\ online /\ Cached(r) = {} THEN "download" ELSE "read",
                                     !.release = r]

PrepareFails == At("prepare") /\ End("failed") /\ UNCHANGED <<Device, budget>>

\* Every file of a bundle, or of a release, is verified before the modem is touched.
ReadBundle ==
  /\ At("read") /\ UNCHANGED <<Device, budget>>
  /\ \/ Goto("prepared") /\ UNCHANGED ctl /\ Quiet
     \/ End("failed")
Download ==
  /\ At("download") /\ UNCHANGED <<Device, budget>>
  /\ \/ Goto("export") /\ UNCHANGED ctl /\ Quiet
     \/ End("failed")

\* A verified download is kept as a bundle.
Export ==
  /\ At("export") /\ UNCHANGED <<Device, budget>>
  /\ \/ /\ cache' = cache \cup {worker.release} /\ Goto("prepared")
        /\ UNCHANGED <<ctl, plan, checked, seen, latest, report, history>>
     \/ End("failed")

\* The way to a root shell: a locked modem is unlocked first, an open one is used as it is.
RootChannel == IF worker.locked THEN "unlock" ELSE "verify"

\* checkpoint(), then on.
Prepared ==
  /\ At("prepared") /\ UNCHANGED <<Device, budget>>
  /\ \/ ctl.stopped /\ End("stopped")
     \/ ~ctl.stopped /\ Goto(RootChannel) /\ UNCHANGED ctl /\ Quiet

\* The backup is fetched, kept, patched in memory and verified; a dry run of a locked modem ends here.
PrepareUnlock ==
  /\ At("unlock") /\ UNCHANGED <<Device, budget>>
  /\ \/ End("failed")
     \/ worker.dry /\ End("checked")
     \/ ~worker.dry /\ ctl.stopped /\ End("stopped")
     \/ /\ ~worker.dry /\ ~ctl.stopped /\ Goto("approve") /\ Quiet
        /\ ctl' = [ctl EXCEPT !.waiting = TRUE, !.approval = None]

Approved_Confirmed ==
  /\ At("approve") /\ UNCHANGED <<Device, budget>>
  /\ \/ /\ ctl.approval = TRUE /\ Goto("upload") /\ Quiet
        /\ ctl' = [ctl EXCEPT !.waiting = FALSE, !.critical = TRUE]
     \/ ctl.approval # TRUE /\ End("stopped")

Approved_NoDeadline ==
  /\ At("approve") /\ UNCHANGED <<Device, budget>>
  /\ \/ /\ ctl.approval = TRUE /\ ~ctl.stopped /\ Goto("upload") /\ Quiet
        /\ ctl' = [ctl EXCEPT !.waiting = FALSE, !.critical = TRUE]
     \/ (ctl.approval = FALSE \/ ctl.stopped) /\ End("stopped")

\* await_approval(): a refusal, a stop or the deadline end the operation.
Approved ==
  /\ At("approve") /\ UNCHANGED <<Device, budget>>
  /\ \/ /\ ctl.approval = TRUE /\ ~ctl.stopped /\ Goto("upload") /\ Quiet
        /\ ctl' = [ctl EXCEPT !.waiting = FALSE, !.critical = TRUE]
     \/ End("stopped")

\* The patched backup is uploaded and its restoration requested; the modem restarts, or does not.
Upload ==
  /\ At("upload") /\ UNCHANGED <<cmd, orphans, late, begun, ctl, budget>> /\ Quiet
  /\ \E done \in BOOLEAN :
       /\ dev' = [dev EXCEPT !.unlocked = @ \/ done]
       /\ Goto(IF done THEN "wait" ELSE "lost")

\* wait_for_modem_adb(): the modem comes back over ADB, or not in time.
WaitForModem ==
  /\ UNCHANGED <<Device, budget>>
  /\ \/ At("wait") /\ Goto("verify") /\ UNCHANGED ctl /\ Quiet
     \/ (At("wait") \/ At("lost")) /\ End("failed")

Preflight == dev.active = 0 /\ dev.lock = Free

\* Identity, credentials and space; a dry run ends here, device changes follow.
Verified ==
  /\ At("verify") /\ UNCHANGED <<Device, budget>>
  /\ \/ End("failed")
     \/ Preflight /\ worker.dry /\ End("checked")
     \/ Preflight /\ ~worker.dry /\ EnterCritical /\ Goto("begin") /\ Quiet

Run(op, id, todo, release) ==
  /\ cmd' = [at |-> op, id |-> id, todo |-> todo, release |-> release]
  /\ late' = (late \/ orphans # {})
Awaited(step) == At(step) /\ cmd # None /\ Answered(cmd) /\ cmd' = None

BeginTransaction ==
  /\ At("begin") /\ cmd = None
  /\ begun' = begun + 1 /\ history' = [history EXCEPT !.files[begun + 1] = dev.files]
  /\ Run("lock", begun + 1, Targets, None)
  /\ worker' = [worker EXCEPT !.at = "begun", !.id = begun + 1]
  /\ UNCHANGED <<dev, orphans, ctl, View, latest, report, budget>>

\* An installation that could not begin is over; what it left is found by the next detection.
Begun ==
  /\ Awaited("begun") /\ UNCHANGED <<dev, orphans, late, begun, budget>>
  /\ \/ cmd.at = "ok" /\ Goto("deploy") /\ UNCHANGED ctl /\ Quiet
     \/ cmd.at = "fail" /\ End("failed")

\* The phases of an installation, in this order.
Phase(n) ==
  /\ At("deploy") /\ cmd = None /\ worker.phase = n
  /\ Run("install", worker.id, Writes[Phases[n]], worker.release)
  /\ Goto("deployed") /\ Quiet /\ UNCHANGED <<dev, orphans, begun, ctl, budget>>
DeployAgent == Phase(1)
Harden == Phase(2)
DeployDashboard == Phase(3)
WriteManifest == Phase(4)

\* A phase ends with a check of what it started: credentials, key-only SSH, the page, the manifest.
PhaseEnds(n) ==
  /\ Awaited("deployed") /\ worker.phase = n /\ Quiet
  /\ UNCHANGED <<dev, orphans, late, begun, ctl, budget>>
  /\ \/ cmd.at = "ok" /\ worker' = [worker EXCEPT !.at = "deploy", !.phase = n + 1]
     \/ Goto("undo")
VerifyAgent == PhaseEnds(1)
VerifySsh == PhaseEnds(2)
VerifyDashboard == PhaseEnds(3)
VerifyManifest == PhaseEnds(4)

\* The modem is restarted on request, and everything is verified again within a deadline.
Reboot ==
  /\ At("deploy") /\ cmd = None /\ worker.phase = Len(Phases) + 1 /\ orphans' = {}
  /\ \/ worker' = [worker EXCEPT !.phase = @ + 1]
     \/ Goto("undo")
  /\ Quiet /\ UNCHANGED <<dev, cmd, late, begun, ctl, budget>>

Complete ==
  /\ At("deploy") /\ cmd = None /\ worker.phase > Len(Phases)
  /\ Run("complete", worker.id, {}, None) /\ Goto("completed")
  /\ Quiet /\ UNCHANGED <<dev, orphans, begun, ctl, budget>>

Completed ==
  /\ Awaited("completed") /\ UNCHANGED <<dev, orphans, late, begun, budget>>
  /\ \/ cmd.at = "ok" /\ End("success")
     \/ cmd.at = "fail" /\ Goto("undo") /\ UNCHANGED ctl /\ Quiet

Undo ==
  /\ At("undo") /\ cmd = None /\ Run("restore", worker.id, Targets, None)
  /\ Goto("undone") /\ Quiet /\ UNCHANGED <<dev, orphans, begun, ctl, budget>>

Undone_Assumed ==
  /\ Awaited("undone") /\ UNCHANGED <<dev, orphans, late, begun, budget>> /\ End("restored")

Undone ==
  /\ Awaited("undone") /\ UNCHANGED <<dev, orphans, late, begun, budget>>
  /\ End(IF cmd.at = "ok" THEN "restored" ELSE "unrecovered")

(***************************************************************************)
(* recover_device() and recovery::restore().                               *)
(***************************************************************************)
\* A recovery stopped before it starts leaves the plan alone.
Recover ==
  /\ At("idle") /\ plan # None /\ plan.found.kind \in {"pending", "incomplete"} /\ StartControl
  /\ worker' = [at |-> "recover", dry |-> FALSE, locked |-> FALSE, pin |-> None, release |-> None,
                id |-> plan.found.id, phase |-> 1]
  /\ UNCHANGED <<Device, View, latest, budget>>

RecoverStopped ==
  /\ At("recover") /\ ctl.stopped /\ worker' = [at |-> "idle"] /\ FinishControl
  /\ Quiet /\ UNCHANGED <<Device, budget>>

\* It looks again: the pending transaction must be the one that was shown.
RecoverRuns ==
  /\ At("recover") /\ EnterCritical /\ cmd = None
  /\ Run(IF Inspected.id # worker.id THEN "fail" ELSE IF Inspected.kind = "incomplete" THEN "discard" ELSE "restore",
         worker.id, Targets, None)
  /\ Goto("recovering") /\ Quiet /\ UNCHANGED <<dev, orphans, begun, budget>>

Recovered ==
  /\ Awaited("recovering") /\ UNCHANGED <<dev, orphans, late, begun, budget>>
  /\ End(IF cmd.at = "ok" /\ Inspected.kind = "none" THEN "restored" ELSE "unrecovered")

(***************************************************************************)
(* The rest of the world.                                                  *)
(***************************************************************************)
Published ==
  /\ \E r \in Releases : latest < r /\ r <= budget.newest /\ latest' = r
  /\ UNCHANGED <<Device, worker, ctl, View, report, history, budget>>

\* The application is killed; the command it waited for goes on.
Killed ==
  /\ worker.at # "closed" /\ Spend("losses")
  /\ worker' = [at |-> "closed"] /\ plan' = None /\ checked' = None /\ seen' = None /\ cmd' = None
  /\ orphans' = Orphaned(cmd)
  /\ FinishControl /\ UNCHANGED <<dev, cache, latest, report, history, late, begun>>

\* The window closes only when no operation runs.
Closed ==
  /\ worker.at # "closed" /\ ~ctl.running
  /\ worker' = [at |-> "closed"] /\ plan' = None /\ checked' = None /\ seen' = None
  /\ UNCHANGED <<Device, ctl, cache, latest, report, history, budget>>

Reopened ==
  /\ At("closed") /\ worker' = [at |-> "idle"]
  /\ Quiet /\ UNCHANGED <<Device, ctl, budget>>

Worker ==
  \/ Prepare \/ PrepareFails \/ ReadBundle \/ Download \/ Export \/ Prepared \/ PrepareUnlock \/ Approved \/ Upload
  \/ WaitForModem \/ Verified \/ BeginTransaction \/ Begun
  \/ DeployAgent \/ Harden \/ DeployDashboard \/ WriteManifest
  \/ VerifyAgent \/ VerifySsh \/ VerifyDashboard \/ VerifyManifest
  \/ Reboot \/ Complete \/ Completed \/ Undo \/ Undone
  \/ RecoverStopped \/ RecoverRuns \/ Recovered

Next ==
  \/ CommandStep \/ OrphanStep \/ CommandFails \/ CommandAbandoned \/ PowerLoss
  \/ Stop \/ (\E a \in BOOLEAN : Confirm(a))
  \/ DetectBegins \/ DetectEnds \/ Invalidate
  \/ (\E dry \in BOOLEAN : InstallStarts(dry)) \/ Recover \/ Worker
  \/ Published \/ Killed \/ Closed \/ Reopened

\* A command ends or is given up at its deadline, and the worker's thread is scheduled.
Spec == Init /\ [][Next]_vars /\ WF_vars(CommandStep) /\ WF_vars(Worker)

(***************************************************************************)
(* Properties.                                                             *)
(***************************************************************************)
\* The values the modem, its commands, the operation and the detections range over.
Operation ==
  [at : {"prepare", "read", "download", "export", "prepared", "unlock", "approve", "upload", "wait", "lost",
         "verify", "begin", "begun", "deploy", "deployed", "completed", "undo", "undone", "recover", "recovering"},
   dry : BOOLEAN, locked : BOOLEAN, pin : Releases \cup {None}, release : Releases \cup {None},
   id : Ids \cup {0}, phase : 1..(Len(Phases) + 2)]
Control ==
  [running : BOOLEAN, critical : BOOLEAN, stopped : BOOLEAN, waiting : BOOLEAN, approval : BOOLEAN \cup {None}]
TypeOK ==
  /\ dev \in Modem /\ cmd \in Command \cup {None} /\ orphans \subseteq Command /\ late \in BOOLEAN
  /\ worker \in Operation \cup {[at |-> "idle"], [at |-> "closed"]} /\ ctl \in Control
  /\ plan \in Finding \cup {None} /\ checked \in Releases \cup {None}
  /\ seen \in [current : BOOLEAN, result : Finding] \cup {None}
  /\ cache \subseteq Releases /\ latest \in Releases /\ begun \in Nat
  /\ history \in [files : [Ids -> [Targets -> Versions]], refused : BOOLEAN]

Whole(files) == \E v \in Versions : files = Uniform(v)

\* Whatever fails and whenever (a program, the connection, the application, the modem), the files
\* of the modem are one complete installation, or the marker names a transaction that can be
\* restored and whose snapshot is complete (transaction.sh, perform_install()).  A command
\* that outlived its deadline may run beside the next one and undo this: that is excluded (late).
Recoverable ==
  \/ late \/ Whole(dev.files)
  \/ dev.active # 0 /\ MayRestore(dev.active) /\ Whole(dev.tx[dev.active].saved)

\* What the user is told at the end is so: after a success every file is of the release that was
\* checked, after a restoration every file is as before the transaction, and nothing is pending
\* in either case (perform_install(), recover_device()).
ReportIsTrue ==
  [][report' # report /\ report' # None /\ ~late' =>
       /\ report'.outcome = "success" => dev'.files = Uniform(worker.pin) /\ dev'.active = 0
       /\ report'.outcome = "restored" => dev'.files = history.files[report'.id] /\ dev'.active = 0]_vars

\* After a stop that was accepted the operation changes nothing: it does not enter the critical
\* part, starts no transaction, unlocks no modem (Control::stop, await_approval, enter_critical).
StopIsKept ==
  [][history.refused /\ history'.refused =>
       ~ctl'.critical /\ begun' = begun /\ dev'.unlocked = dev.unlocked]_vars

\* Every operation ends and lets the next one start, also when nobody answers the question whether
\* to unlock (RunningGuard, await_approval(), the deadlines of the commands).
OperationEnds == ctl.running ~> ~ctl.running
=============================================================================
