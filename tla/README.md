# TLA+ models of MU5250-OpenUI

TLA+ models of the program in `src/`, TLC configurations that check them on small
instances, and proofs that TLAPS checks for every instance. Line numbers in comments
refer to the files under `src/`.

## The system

MU5250-OpenUI replaces the web interface of a 5G hotspot. A Rust *agent* runs on the
device and serves a JSON API and a dashboard. It calls firmware services (`ubus`, `uci`,
sysfs), is started and restarted by `rc.local`, and shares the device with the stock
interface. An on-demand *helper* process talks to the eSIM card. A desktop *installer*
deploys both.

| component | state | operations | what is hard | correct means |
|---|---|---|---|---|
| LAN manager `lan.rs`, `storage.rs` | pending change, recovery record on disk, listener binding | begin, apply, confirm, expire, roll back, recover | crash between steps, half-applied firmware calls, confirmation against deadline, the stock UI writing the same settings | nothing unconfirmed is kept; every write has a record; every record is settled |
| listener supervisor `server.rs` | listener, workers, `dead` flag | read binding, bind, serve, rebuild | the binding moves between two reads; `accept` fails | a listener comes back and is on the binding's address |
| charge policy `charge_policy.rs`, event bus `event_bus.rs` | policy, override, policy file, charger, event channel | reconcile, update, dispatch, restart | tick against update, one of several writes failing, dropped and late events | user wins over ticks; failed updates are undone; the limit is enforced |
| Wi-Fi settings `uci_transaction.rs`, `wifi.rs` | private staging area, committed packages | plan, check, set, commit, apply, restore | firmware commits in between, failing in the middle of several packages | all or nothing; staged values do not leak |
| authentication `auth.rs` | failed attempts, lockouts, sessions | log in, record a failure, issue, validate | several threads pass the lock together; wall clock and monotonic clock | guesses are bounded; sessions are exact |
| eSIM changes `esim.rs`, `esim-helper` | inventory, operation, journal | admit, journal, run the helper, verify, recover | lost answers, crashes while a write is in flight, exchanged cards | what is reported is what happened; a write is sent once |
| eSIM downloads `esim.rs`, `esim-helper` | operation, control channel, helper session | download, confirm, cancel, settle, recover | confirm, cancel, timeout and signals cross on their way | nothing unconfirmed is installed; every download ends |
| eSIM receipts, locks and state file `esim.rs` | pending receipts, worker, locks, state file | queue, deliver, lock, save, restart | threads that start and stop one worker; results applied to a list that grew | nothing queued is forgotten, nothing unasked is sent |
| eSIM detection `esim.rs` | status, known card, SIM key | summary, detect, profiles, absorb | a reloading card and an ordinary SIM answer alike; the SIM changes during a read | the status follows the SIM |
| USB modes `usb.rs` | busy flag, gadget composition, snapshot, default mode, last error | set mode, set default, enforce at boot, roll back | failing half-way removes the host's link; an interface that appears late; the firmware changes the composition | a rollback called complete is exact; a lost link is put on record; the flag is given back |
| eSIM helper process `esim-helper`, `euicc` | logical channel, pending request, position in the download, card and server session | connect, open, command, close, the download's steps, cancel, answer | late and lost answers, stop signals and cancels at any step, a package that breaks off | what is reported happened; no channel leaks silently; the operator hears what the user decided |
| process runner `process-runner` | child, deadlines, pipes | run, read lines, terminate, kill | a deadline while the helper holds the channel | every run ends |
| desktop installer `installer/src-tauri` | operation control, detection, dry-run result, bundle cache | detect, check, install, approve, stop, recover, close | stop against approval, commands given up that go on, power loss, releases published meanwhile | the modem is whole or can be restored; reports are true; a stop is kept |
| device transaction `scripts/device/transaction.sh` | snapshot, state, active marker, lock | begin, complete, restore, discard | power loss between two writes, failing in the middle | a complete snapshot is on record while files are mixed |
| caches, samplers, loggers `cache.rs`, `system.rs`, `logging.rs` | cached answers, sampling sessions | get, refresh, start, stop | refresh against invalidation, stop against a sample | not modelled, see the end |
| AT port, SMS, cell, SIM, device information | which AT port answered | single requests | parsing | not modelled: no protocol of their own |
| dashboard, scripts | | | | not modelled, see the end |

The components meet at few points: the LAN manager moves the binding the listener
follows; the event bus feeds the charge policy; the eSIM parts share `Inner` and the
helper's lock on the card. `LanListener` composes the first pair and `ChargePolicy` holds
the second. The four eSIM modules each take one concern of `esim.rs` and model the others
by what they can do to it; they take a helper run by its outcome, and `HelperRun` looks
inside one: the agent's side of the pipe, the process and its channel to the card. The
installer's model holds both sides of its connection, the desktop program and the
transaction script on the modem.

## Modules

Every model has one variable for each piece of state named above, one action for each
operation or for each part of one between two points where the lock is released, a
process can die or somebody else can act. A crash may come between any two steps.
Faults, crashes and requests are bounded by counters; the bounds a behaviour has are
chosen by `Init` from the constant set `Bounds` (`Environments` for the LAN), so that one
run covers several scenarios. Definitions with a suffix such as `Expire_AppliedIsKept`
are deliberately wrong variants of the definition after them: replacing that definition
by the variant must break the property it was written for.

* **LanTransition** (`lan.rs`, `storage.rs`). `fw` is the firmware's LAN configuration,
  `journal` the recovery record, `pending`, `confirmed`, `error` the fields of `State`,
  `thread` the thread of each change, `step` the progress of the holder of the mutex.
  `Begin`, `ApplyPending`/`ApplyCheck`, `Expire`, `Confirm` and `Restore*` (shared by
  `rollback_locked` and `recover`) are the code's functions, split at the firmware call,
  its read-back and the removal of the record. A fault is a firmware call that applies
  part of the settings (`ubus`), an unreadable setting (`uci`), a file that cannot be
  written or removed (`file`), or a directory sync that fails after the unlink (`sync`).
  With `fixed`, `ZTE_AGENT_BIND` pins the listener.
* **LanListener** extends it with `server::start`: reading address and generation, binding,
  workers, the `dead` flag and the rebuild.
* **ChargePolicy** (`charge_policy.rs`, `event_bus.rs`, the charger calls of
  `device_ext.rs`). `Reconcile`/`ReconcileSets` and `Update*` hold the mutex across several
  steps; the cable, the battery, the listener and the channel move meanwhile. A restart that
  cannot read the policy file runs without a policy.
* **UciTransaction** (`uci_transaction.rs`, `wifi_set`). `live`, `shared` and the job's own
  `stage` are UCI's configuration and staging areas; `radio` is what the last reload
  applied. Each `uci` and reload command is a step that may fail.
* **Auth** (`auth.rs`). A login is three critical sections with the hash between them;
  lockouts use the wall clock, sessions the monotonic one. Sessions are numbered by login,
  so the vector of sessions, which is in that order, is a set. The history `ghost` keeps of
  every session when it was last used and whether a login left it with MAX_TOKENS newer ones
  still in time, which is when the code pushes it out.
* **EsimSwitch** (`esim.rs`, `esim-helper/src/main.rs`). `helper` is the writing process,
  which outlives the agent; `thread` is the unresolved operation's thread and `tails` what
  threads still do after they resolved theirs. Writing the journal may fail with the new one
  already in place (`storage.rs:31-32`), here and in EsimDownload.
* **EsimDownload** (`esim.rs`, `esim-helper/src/download.rs`). Control lines to the helper
  and progress lines from it are queues; the helper looks for a cancel where the code does. A
  cancel is accepted until the download is resolved, also when nobody reads it any more.
* **EsimReceipts** (`esim.rs`). `queue` is `queue_receipts()` in each thread that may run it,
  `saver` is `save_state()` in each thread: snapshot under the lock, write outside it. What a
  notify helper that outlives the agent still does is a `Notify` before the crash.
* **EsimDetect** (`esim.rs`). `detect` is the background detection's position and the SIM
  key it read; `recent` is a change in progress or within its reload window.
* **UsbSwitch** (`usb.rs`). `g` is the gadget as sysfs shows it (bound, links, attributes,
  interface, bridge), `job` the thread that holds the busy flag with its snapshot. A switch
  is unbind, unlink, attributes, link, bind, wait, join; the restoration is the same in the
  code's order, each step alone able to fail. The file with the last error may fail to be
  written or removed, which the code ignores: `lastError` is then "unwritten" or stays.
* **InstallerDeploy** (`deploy.rs`, `lib.rs`, `control.rs`, `transaction.rs`, `recovery.rs`,
  `bundle.rs`, `device.rs`, `unlock.rs` of the installer, `transaction.sh`). `dev` is the
  modem: files by target and version, the transactions with their snapshots, `active` and
  the lock; `cmd` is the command running on it and `orphans` those the installer gave up;
  `worker`, `ctl`, `plan`, `checked`, `cache` are the installer's. Each write of the script
  that power loss can separate from the next is a step; a `begin` that fails gives back what
  the code gives back at that point: nothing, the lock, or by its trap both.
* **UimChannel** (`qrtr_uim.rs`, the `Guard` of the helper, `euicc/src/lib.rs`): one request
  and its answer, stale answers, the channel's open and close and what is noted when their
  answers are lost. **RspSession** extends it with the helper's procedure: reading the card,
  or the download from challenge to the last segment, with cancel and inform; the card and
  the operator's server are external. **HelperRun** extends that with the process: control
  and progress lines, the end of input, output collection, TERM and KILL at their deadlines,
  and the deaths of either side.
* **InstallPromise** is the abstract specification of a download: consent, install, and one
  word about the outcome. `Promise == INSTANCE InstallPromise WITH consent <- ..., installed
  <- card.profile, told <- Told` in HelperRun is the refinement mapping.
* **LanProofs**, **AgentProofs** (charge policy, USB modes, authentication),
  **UciTransactionProofs**, **EsimSwitchProofs**, **EsimDownloadProofs**,
  **EsimReceiptsProofs**, **InstallerDeployProofs**, **HelperRunProofs**: theorems. `MC*`:
  values for TLC.

## Runs

| run | instance | checks |
|---|---|---|
| `lan` | manager and listener: two addresses, two other settings, one invalid combination, two workers, one listener failure; two changes across a crash; one change with a crash, a stock write and every fault; one under `ZTE_AGENT_BIND`; two changes with a stock write | `KeptOnlyIfConfirmed`, `NoOrphanedChange`, `AddressTracksFirmware`, `WritesAreRecorded`, `RecordIsSettled`, `ListenerRecovers` |
| `charge_policy` | capacities 0..3, limits 1 and 3, channel of two; four mixes of updates, cable events, faults, a crash, a listener exit | `EnforcerObeysUser`, `FailedUpdateIsUndone`, `PolicyEnforced`, `UnplugReenables` |
| `uci_transaction` | three options in two packages, two changes, two faults, one firmware change | `NothingLeaks`, `AllOrNothing` |
| `auth` | one client, two threads, two attempts; five wrong tries, with and without a clock set by 3; three sessions in a table of two and such a clock | `GuessesAreBounded`, `SessionsAreExact` |
| `esim_switch` | cards with two and one profiles and backlogs of one and two receipts; two changes on each, on one across a crash; one change across two exchanges; one across both with a journal that cannot be removed | `NothingChangedIsTrue`, `NeverReplayed`, `ReceiptsOnlyForOwnChanges`, `SucceededIsTrue`, `OperationSettles` |
| `esim_journal_race` | one card with one profile, two changes | `InFlightIsJournaled`, **violated** |
| `esim_download` | two crashes and two cancels with a refusing card and a later change; a crash, a cancel and two exchanges | `InstalledOnlyIfConfirmed`, `OutcomeIsTrue`, `InstallReceiptQueued`, `DownloadSettles` |
| `esim_receipts` | two rounds; two changes and a Send request with a crash; a change with an exchange, or with a lock, and failing state writes; a change and a Send request queued by two threads at once | `OnlyWantedAreSent`, `NoOrphanReceipts`, `QueuedStaysPending`, `DeliverySettles` |
| `esim_detect` | two cards and an ordinary SIM, two exchanges, two changes, one failed read | `StatusFollowsSim` |
| `usb_switch` | two mode changes with up to two faults and a crash or reboot; with a fault and a change by the firmware | `BrokenIsReported`, `RestoredIsRestored`, `ChangeEnds` |
| `installer_deploy` | three targets, two releases; four mixes of installations, failing steps, power losses or kills, abandoned commands, a stop and a new release | `Recoverable`, `ReportIsTrue`, `StopIsKept`, `OperationEnds` |
| `helper_run` | a read with two faults, a stop signal and deaths; a download with two faults, a stop and two control lines; one with a fault, two lines and deaths; two segments | `LeakIsReported`, `OrderFollowsUser`, `KeepsPromise` (the refinement), `InstallRunsToTheEnd`, `RunEnds` |

**Why the bounds are enough.** The races are between one operation and the next, so two
changes let the end of one meet the start of the other; one crash hits every pair of
steps; two faults are needed for a fault in the undoing of another, and that is what the
charge, UCI, USB and helper runs have (the installer's second fault is the failing
restoration, which needs none of its budget). Two segments tell the first, the last and
the middle of a package apart; three targets tell restored from not yet restored with one
in hand. Time in HelperRun is five phases (fresh, too late to begin an install, deadline,
close allowance used up, grace used up), which keep the order of the code's durations.
Limits of the code (attempts, sessions, rounds, channel
capacity) are constants with small values, so that the runs reach and pass them.

Some properties hold only under a condition, which they state: `budget.swap = 0` (the card
is not exchanged), `budget.crash = 0`, `"sync" \notin Faults`. The condition looks at what
has happened in the behaviour so far, so the same run also explores what comes after.
Where the condition is needed because the code behaves differently, the next section says
so.

**Fairness.** Threads that can run do run; firmware calls and the helper end (the code
gives each a deadline); windows and deadlines measured by a clock pass; `rc.local` starts
a crashed agent again. For receipts, somebody looks at the dashboard, which reads the
card; for detection, the heartbeat is polled. In HelperRun time passes,
the runner looks at it, and the helper goes on wherever it is not held in a server call.
Nothing makes the modem answer: a wait for it ends by its limit. Nothing makes a server call
end either, because the name lookup and the TLS handshake have no limit (`https.rs:161`,
`199`): what ends such a run is the runner's TERM and KILL, and `RunEnds` needs them. Only a
helper whose agent died may stay in such a call. In the installer, commands end or are given up at their deadline and the approval
has one. Clients, users, cables, cards, faults and
crashes are never required to act. Deadlock is not checked where a behaviour ends because
its bounded requests are used up; the charge model never stops and is checked.

## What the models show about the code

One disagreement is kept as a run, with the trace TLC prints:

* `esim_journal_race`: `finish()` resolves an operation and removes the journal after
  releasing the lock. The next change can write its journal in between and lose it, so a
  crash during its write is not read back.

The conditions of the properties mark the following, which TLC also finds when the
condition is dropped:

* `ListenerRecovers` asks for a full listener, not for one on the right address:
  `server::start` reads the binding's address and then its generation. A change in between
  pairs the old address with the new generation, and no worker ever notices
  (`server.rs:41`).
* `KeptOnlyIfConfirmed` without its `sync` condition: `durable_remove` unlinks before the
  directory sync that can still fail. `confirm` then answers with an error although the
  record is gone (`storage.rs:42`).
* A manual stop is not in the policy file, and after a restart `reconcile` returns early, so
  the charger stays stopped without a reason (`charge_policy.rs:195`), as it does after a
  restart between the charger write and the file when the old policy was disabled. `UnplugReenables` with a
  lost event: the periodic tick does not look at the cable. An unplug event taken from the
  channel after the cable is back undoes a manual stop made in the meantime
  (`charge_policy.rs:205`).
* A commit of the firmware between the second check and the commit of `execute` is
  overwritten (`uci_transaction.rs:114-117`).
* Lockouts are on the wall clock, so a clock set forward ends the wait early and
  `GuessesAreBounded`, which lets the wall clock say when a wait is over, allows new guesses;
  one set back prolongs it (`auth.rs:112`).
* `SucceededIsTrue` with an exchange: `verify` does not compare the EID, so a lost deletion
  counts as done when another card is read (`esim.rs:1528`). `ReceiptsOnlyForOwnChanges`
  with an exchange: the receipts before the change are those of another card.
  After a crash the revision starts again at 0, so an old request can fit a new list; likewise an older `operation_id` whose revision fits is written again
  (`esim.rs:1286`). `nickname` reports an unreadable answer as failed (`esim.rs:2072`).
* `OutcomeIsTrue` with an exchange: `settle_download` takes the first unknown profile of
  whatever card it reads (`esim.rs:1845`). `InstallReceiptQueued` without `Running(op)`: a
  change admitted between `finish` and `queue_new_receipts_after_read` hides the receipt
  (`esim.rs:1877`). After `download_failed` the card is not read again, so the receipt of a
  refused install is not queued (`esim.rs:1763`). A cancel accepted after the helper's last
  look for one is answered 200 and the install goes on (`esim.rs:1980`).
* `OnlyWantedAreSent` with an exchange: receipt numbers are queued without their card
  (`esim.rs:2147`). `save_state` can write an older snapshot last, so an answered lock can
  be missing after a restart (`esim.rs:875`).
* `StatusFollowsSim` after a failed read or within a change's reload window: `detect` stores
  the SIM's key whether or not its read told it anything (`esim.rs:1097`). After a second
  exchange, or with two SIMs of one operator (`Operator` constant): a card put back, or
  replaced by one with the same key, between two heartbeats is not read (`esim.rs:217`).
* UsbSwitch: an agent restarted with NCM active and persisted waits for a stock gadget that
  never comes, holds the busy flag for 75 s and reports an error that is none
  (`usb.rs:146`). A power state that cannot be read the second time counts as not charging
  (`usb.rs:73-84`). A crash in the middle of a switch leaves a half-built gadget and no
  record (`BrokenIsReported` is about switches that were not cut off), and an error that cannot be
  written is lost (`usb.rs:66`, `91`, `692`).
* InstallerDeploy: power loss between `state=pending` and the active marker
  (`transaction.sh:52-55`), or after the marker is removed (`129-131`), leaves a record the
  guided recovery cannot clear; `restore` by hand works. A failure at the last `sync` of
  `begin` runs the trap, which deletes the transaction and leaves `active` pointing at it:
  recovery then always fails. A command given up at its deadline can run on beside the
  restoration and undo it (`ReportIsTrue` excludes behaviours in which it did, the ghost
  `late`). `Control::start` takes `running` before it resets `stopped`, so a stop in between
  is lost (`control.rs:19-27`; one step in the model). `harden` sets `dm_update_mode`, which
  no restoration undoes.
* HelperRun: with a stop signal while a card session is open, the `Guard` refuses
  CancelSession, so neither card nor server hears "postponed", although the signal counts
  as Cancel (`esim-helper/src/download.rs:3-4`); `OrderFollowsUser` is claimed without a
  stop signal. An HTTP answer cut in its body is "Not JSON" when it was not chunked, so the
  order is cancelled as undefined and not as a retryable timeout (`download.rs:164-178`).
  When the answer to AuthenticateServer is lost, the card may hold a session nobody cancels.
  An open that the modem answers with success but without a channel's number, or with 0, is
  an error without a note of a leak and without a close (`qrtr_uim.rs:394-396`): a channel
  the card opened then stays open and nothing says so. `LeakIsReported` is about all others.
  A package that is cut, or an empty last answer, ends in "ok" without a receipt, which
  `InstallPromise` counts as unknown; the agent reads the card back. Name lookup and
  TLS handshake have no time limit (`https.rs:161`, `199`), so the runner may have to kill a
  helper that holds a channel, and one whose agent died may never end.

## Proofs

TLAPS proves the following for all values of the constants that satisfy the `ASSUME`s of
the modules (types of the bounds, `None` outside the other sets, positive limits, valid
settings among the settings).

* **LanProofs**: `TypeCorrect`, `NothingUnconfirmedSurvives`, `EveryChangeHasAThread`,
  `BindingTracksFirmware`, `WriteAhead`. The properties are not inductive: what a rollback
  restores is decided by a record written several steps before, and a confirmation trusts
  flags set earlier. `LanInv` adds who holds the lock in which phase (`PhaseInv`), that a
  thread that has not applied yet belongs to the pending change (`ThreadInv`), that record
  and pending change agree and lead back to settings that were agreed on (`RecordInv`), and
  that the binding moves with the settings (`AddressInv`). One lemma per action. For the
  composed system, every step of manager and listener together is a step of the manager or
  leaves its state alone (`ManagerStep`), so `LanInv` is an invariant of `ListenerSpec` too,
  and `ComposedKeepsConfirmed`, `ComposedTracks` and `ComposedWriteAhead` follow for any
  number of workers and listener failures.
* **AgentProofs**, on three components of the agent that share no state: it extends
  ChargePolicy, UsbSwitch and Auth, whose names are disjoint (`UsbSpec`, `AuthSpec`) except
  for `None`, which they have from **Agent**.
  * Charge policy: `ChargeTypeCorrect`, `TicksObeyUser`, `UpdatesAreUndone`. `ChargeInv` says
    that the mutex has one holder, that what a tick saw of the policy still stands when it
    writes, and how many faults an update has behind it at each step. The last two theorems
    are action properties, proved from the invariant for every step.
  * USB modes: `UsbTypeCorrect`, `UsbReportsBroken`, `UsbRestores`. Whether the host has a
    network when a change ends is decided by its steps one after the other, so `UsbInv` says
    what each has left. A gadget is bridged as long as the change has not touched it and there was
    no error to record (`QuietIsUsable`); a change past its capture has a snapshot, and one
    whose last step only takes NCM interfaces from the bridge has another one there
    (`JobIsPrepared`); and a restoration without errors has, at each of its steps, put back
    what the steps before it are for, unless the firmware interfered (`RestoredSoFar`).
  * Authentication: `AuthTypeCorrect`, `AuthBoundsGuesses`, `AuthSessionsExact`. A guess is
    compared before it is counted, so `GuessesAreCounted` says that every guess is on record
    or in a thread about to record it, and that at the limit the guesses made and those in
    threads that passed the lock before stay within the bound. `SessionsAreKept` says that a
    token is of a session nobody pushed out and expires TOKEN_TTL after its last use, that a
    session without one is over or was pushed out, and that the older are pushed out first.
* **UciTransactionProofs**: `StagingIsPrivate` and `MadeOrUndone`, from `UciInvariant`. A
  requested value is in the job's own staging area, or its job had passed both checks when
  it began to commit (`PrivateInv`); and at each step the options are split into those done,
  and to do, with the value each has in the staging area and in the configuration, on the
  way back only as long as one commit or reload at most has failed (`ProgressInv`).
* **EsimSwitchProofs**: `NeverSentTwice`, `RefusalsAreTrue`, `OwnReceiptsOnly` and
  `SuccessIsTrue`, from `SwitchInvariant`. `SwitchInv` says that a helper run belongs to the
  thread that waits for it or outlived an agent that has read nothing since (`ThreadInv`,
  `HelperInv`), that an operation_id names one request (`RequestInv`), and that a change that
  was applied is visible on its card for as long as an operation or the journal refers to it
  (`VisibleInv`, `HomeInv`); `ReceiptInv` orders the receipts before and after the change.
* **EsimDownloadProofs**: `InstallsAreConfirmed`, `OutcomesAreTrue` and
  `InstallReceiptsQueued`, from `DownloadInvariant`. `DownloadInv` follows the one install of
  a behaviour: no card has changed while it may still be cancelled (`UntouchedInv`), the
  order to install passes from the user through the control queue (`ConsentInv`), what the
  operation and the journal remember of the card is older than the install (`RecordInv`),
  and where the thread is decides what its helper may have done (`ThreadInv`).
* **EsimReceiptsProofs**: `ReceiptsTypeCorrect`, `NothingOrphaned`, `OnlyWanted`,
  `PendingUntilDelivered`. `ReceiptInv` adds that the worker flag tells whether the thread
  exists and that a round in progress began below the limit; `DeliveryInv` that, while nobody
  exchanges the card, queue, run and cached lists name receipts of the card that is in.
* **InstallerDeployProofs**: `AlwaysRecoverable`, `ReportsAreTrue` and `StopsAreKept`, from
  `DeployInvariant`. Whether a step of the script may touch a file depends on what the steps
  before it left, so `CommandInv` says for each of its steps which snapshot is complete and
  where the marker points, and `ModemInv` and `FreshInv` what holds between commands;
  `WorkerInv`, `UndoInv` and `CompleteInv` say what the installer may conclude from an
  answer. They hold until a command is started beside one that was given up (`AloneInv`, the
  ghost `late`), as `Recoverable` says. `StopInv` is about the stop flag alone and needs no such condition.
* **HelperRunProofs**: `ImplementsPromise`, that a run implements `InstallPromise`;
  `RunIsHonest`, what that means to the user; `LeaksAreReported`, `OrdersFollowUser` and
  `InstallsRunToTheEnd`; all from `RunInvariant`. Helper, modem, card and agent each act on
  what another did several steps before, so `RunInv` is about what is on its way. While the
  procedure goes forward one request at most is in flight (`FlightInv`). Once it has given
  one up, late requests may still reach the card: no load is among them without consent and
  no authentication once an install began (`ConsentInv`), so what the helper ends with
  stays true (`OutcomeInv`); a close is the last of them (`ChannelInv`). While
  nothing failed the card is where the procedure takes it to be (`SoundInv`), and a run the
  user ended cancels with its reason first on the card, then at the server (`OrderInv`,
  `CancelInv`). The proof first shows that every action has one of seven forms (local,
  sends, receives, skips, gives up, serves, attends) and then, for each part of the
  invariant, that each form keeps it.

Each inductive invariant held in TLC on the instances of the runs before it was proved.
Proving also found `CASE`s whose arms overlap (`Answered` in RspSession and `Told` in
HelperRun among them): TLA+ leaves open which arm is taken, TLC takes the first. They now
have disjoint arms or are an `IF`. The proof of `UsbRestores` found that `RestoredIsRestored`
was stated too loosely: with three faults, an older "restored" still on record was taken for
the answer of a later change. It is now about the step that answers. The proof of
`AuthBoundsGuesses` showed that a condition of `GuessesAreBounded`, that the wall clock is
not set, was not needed; it is gone.

Only model-checked: liveness (`RecordIsSettled`, `ListenerRecovers`, `PolicyEnforced`,
`UnplugReenables`, `OperationSettles`, `DownloadSettles`, `DeliverySettles`,
`StatusFollowsSim`, `ChangeEnds`, `OperationEnds`, `RunEnds`), which needs fairness and is
out of the prover's reach, and `InFlightIsJournaled`, which is violated. Every safety
property the passing runs check is proved.

## Plan

Models that could follow: **Loggers** and **ResponseCache** (`logging.rs`, `cache.rs`,
`system.rs`), stop against a sample and stale answers; `harden`'s effects and the identity
checks in InstallerDeploy.

## Not modelled

* DER, JSON and base64 coding, the chaining of one command's APDUs, TLS, activation-code
  syntax, parsers, validators and the routing table: pure functions without interleavings,
  covered by the repository's unit tests. In RspSession a command is one exchange and an
  answer is sound, refused, odd or missing.
* The response caches, samplers and loggers: each is one value or file behind one mutex with
  a background thread; next in line, see the plan.
* In the installer: identities (a mismatch is one of the ways a step fails), credentials,
  archive formats, its web page. Writes on the modem are assumed to persist in order, and
  restoring one target is one step.
* `LineSession::finish`, which the agent does not call, and the Windows variant of the
  process runner.
* AT commands, SMS, cell, SIM and device information: single firmware requests.
* The dashboard and the scripts: the dashboard's requests are the clients of the models, and
  the restart by `rc.local` is an action.
* Messages, log texts, profile names and codes: no property depends on them.
* Power loss that tears a file write: `storage.rs` writes a temporary file, syncs and
  renames; the models take the rename as atomic.
