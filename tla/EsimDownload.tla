----------------------------- MODULE EsimDownload -----------------------------
(***************************************************************************)
(* agent/src/esim.rs, a profile download: the request, the session with    *)
(* the helper (control lines in, progress lines out), the preview the user *)
(* confirms, the install, the read-back that finds the new profile, its    *)
(* receipt, and a restart in the middle.  The helper's procedure           *)
(* (esim-helper/src/download.rs) is modelled by where it looks for a       *)
(* cancel, where it waits for the decision and where the card is written.  *)
(*                                                                         *)
(* One download per behaviour, followed by at most one other change of any *)
(* kind.  The preview's text, codes and messages are left out.             *)
(***************************************************************************)
EXTENDS Naturals, Sequences, FiniteSets

CONSTANTS
  Eids,         \* cards; each holds at first the profile <<e, 0>>
  Bounds,       \* bounds, one of which a behaviour has: agent crashes, cards exchanged in
                \* the slot, cancel requests, whether the card may refuse the package, and
                \* whether another change may follow the download
  None

Resolved == {"succeeded", "cancelled", "failed", "unknown"}
OpStates == Resolved \cup {"connecting", "awaiting", "installing", "verifying", "pending"}
Controls == {"install", "decline", "cancel", "timeout"}
Answers  == {"ok", "download_cancelled", "download_failed", "not_started", "outcome_unknown", "lost"}
Items    == Eids \X {0, 1}   \* the profiles of the cards, and their receipts
Own(e)   == <<e, 1>>         \* the profile the download brings, and its receipt

\* An operation, a helper process and a list read from a card.
Operation == [kind : {"download", "other"}, state : OpStates, before : SUBSET Items,
              profs : SUBSET Items, eid : Eids, nickname : BOOLEAN]
HelperRun == [phase : {"check", "auth", "preview", "prepare", "load", "ended"}, eid : Eids, ctl : Seq(Controls),
              term : BOOLEAN, before : SUBSET Items, answer : Answers \cup {None}]
List == [eid : Eids, profs : SUBSET Items, notes : SUBSET Items]

ASSUME DownloadConstants ==
  /\ Bounds \subseteq [crash : Nat, swap : Nat, cancel : Nat, refuses : BOOLEAN, next : BOOLEAN]
  /\ None \notin Operation \cup HelperRun \cup List \cup Items \cup Answers

VARIABLES
  cards,     \* per card: its profiles and the receipts on it
  slot,      \* the card in the SIM slot
  helper,    \* the helper process, or None
  lines,     \* progress lines the agent has not read
  up,        \* the agent runs
  inv,       \* Inner::inventory, or None
  op,        \* Inner::operation, or None
  controls,  \* the operation's control channel
  journal,   \* the operation journal on disk, or None
  thread,    \* run_download()'s position: "none", "wan", "journal", "start", "run",
             \* "settle", "name", "finish", "clear", "clear_queue", "queue"
  reported,  \* settle_download()'s argument
  found,     \* the profile settle_download() took for the new one, or None
  queued,    \* history: receipts handed to queue_receipts()
  asked,     \* history: requests answered with 200 or 202
  wrote,     \* history: what the download did to a card: profile and receipt
  named,     \* history: profiles the nickname was written to
  budget     \* crashes, swaps and cancels so far, and the bounds: max

agent == <<up, inv, op, controls, journal, thread, reported, found, queued>>
history == <<asked, wrote, named>>
vars == <<cards, slot, helper, lines, agent, history, budget>>

\* The values the variables range over.
TypeOK ==
  /\ cards \in [Eids -> [profs : SUBSET Items, notes : SUBSET Items]]
  /\ slot \in Eids /\ helper \in HelperRun \cup {None} /\ lines \in Seq({"preview", "prepare", "load"})
  /\ up \in BOOLEAN /\ inv \in List \cup {None}
  /\ op \in Operation \cup {None} /\ controls \in Seq(Controls) /\ journal \in Operation \cup {None}
  /\ thread \in {"none", "wan", "journal", "start", "run", "settle", "name", "finish", "clear", "clear_queue", "queue"}
  /\ reported \in BOOLEAN /\ found \in Items \cup {None} /\ queued \subseteq Items
  /\ asked \subseteq {"download"} \cup Controls /\ wrote \subseteq Items /\ named \subseteq Items
  /\ budget \in [crash : Nat, swap : Nat, cancel : Nat, max : Bounds]

Init ==
  /\ cards = [e \in Eids |-> [profs |-> {<<e, 0>>}, notes |-> {<<e, 0>>}]]
  /\ slot \in Eids /\ helper = None /\ lines = <<>>
  /\ up = TRUE /\ inv = None /\ op = None /\ controls = <<>> /\ journal = None
  /\ thread = "none" /\ reported = FALSE /\ found = None /\ queued = {}
  /\ asked = {} /\ wrote = {} /\ named = {}
  /\ \E b \in Bounds : budget = [crash |-> 0, swap |-> 0, cancel |-> 0, max |-> b]

Reading == inv' = [eid |-> slot, profs |-> cards[slot].profs, notes |-> cards[slot].notes]
Readable == up /\ helper = None

\* profiles(), refresh() and detect().
Refresh ==
  /\ Readable /\ Reading
  /\ UNCHANGED <<cards, slot, helper, lines, up, op, controls, journal, thread, reported, found, queued, history, budget>>

(***************************************************************************)
(* download(): claim under the lock, then the data connection, the journal *)
(* and the thread.                                                         *)
(***************************************************************************)
Download ==
  /\ up /\ inv # None /\ op = None /\ "download" \notin asked
  /\ op' = [kind |-> "download", state |-> "connecting", before |-> inv.notes,
            profs |-> inv.profs, eid |-> inv.eid, nickname |-> FALSE]
  /\ controls' = <<>> /\ thread' = "wan"
  /\ asked' = asked \cup {"download"}
  /\ UNCHANGED <<cards, slot, helper, lines, up, inv, journal, reported, found, queued, wrote, named, budget>>

WanUp ==
  /\ up /\ thread = "wan" /\ thread' = "journal"
  /\ UNCHANGED <<cards, slot, helper, lines, up, inv, op, controls, journal, reported, found, queued, history, budget>>

\* No data connection, or atomic_write() of the journal fails, before it is in place or after.
Abandon ==
  /\ up /\ thread \in {"wan", "journal"}
  /\ op' = None /\ controls' = <<>> /\ thread' = "none"
  /\ \/ UNCHANGED journal
     \/ thread = "journal" /\ journal' = op
  /\ UNCHANGED <<cards, slot, helper, lines, up, inv, reported, found, queued, history, budget>>

WriteJournal ==
  /\ up /\ thread = "journal"
  /\ journal' = op /\ thread' = "start"
  /\ UNCHANGED <<cards, slot, helper, lines, up, inv, op, controls, reported, found, queued, history, budget>>

StartHelper ==
  /\ up /\ thread = "start" /\ helper = None
  /\ helper' = [phase |-> "check", eid |-> op.eid, ctl |-> <<>>, term |-> FALSE, before |-> {}, answer |-> None]
  /\ lines' = <<>> /\ thread' = "run"
  /\ UNCHANGED <<cards, slot, up, inv, op, controls, journal, reported, found, queued, history, budget>>

(***************************************************************************)
(* Client requests while the download runs.                                *)
(***************************************************************************)
DownloadConfirm(install, nickname) ==
  /\ up /\ op # None /\ op.kind = "download" /\ op.state = "awaiting"
  /\ op' = [op EXCEPT !.nickname = nickname, !.state = "connecting"]
  /\ controls' = Append(controls, IF install THEN "install" ELSE "decline")
  /\ asked' = asked \cup {IF install THEN "install" ELSE "decline"}
  /\ UNCHANGED <<cards, slot, helper, lines, up, inv, journal, thread, reported, found, queued, wrote, named, budget>>

\* The receiver is run_download()'s argument: until the download is resolved the send succeeds,
\* also when the loop that reads it has ended and nobody will.
DownloadCancel ==
  /\ up /\ op # None /\ op.kind = "download" /\ op.state \in {"connecting", "awaiting"}
  /\ budget.cancel < budget.max.cancel
  /\ controls' = Append(controls, "cancel")
  /\ asked' = asked \cup {"cancel"}
  /\ budget' = [budget EXCEPT !.cancel = @ + 1]
  /\ UNCHANGED <<cards, slot, helper, lines, up, inv, op, journal, thread, reported, found, queued, wrote, named>>

(***************************************************************************)
(* run_download()'s loop: forward the controls, the preview timeout, the   *)
(* progress lines, the answer.                                             *)
(***************************************************************************)
Send(control) == helper' = [helper EXCEPT !.ctl = Append(@, control)]

ForwardControl ==
  /\ up /\ thread = "run" /\ helper # None /\ controls # <<>>
  /\ Send(Head(controls)) /\ controls' = Tail(controls)
  /\ UNCHANGED <<cards, slot, lines, up, inv, op, journal, thread, reported, found, queued, history, budget>>

PreviewExpires ==
  /\ up /\ thread = "run" /\ helper # None /\ op.state = "awaiting"
  /\ ~ \E i \in 1 .. Len(helper.ctl) : helper.ctl[i] = "timeout"
  /\ Send("timeout")
  /\ UNCHANGED <<cards, slot, lines, agent, history, budget>>

OnProgress ==
  /\ up /\ thread = "run" /\ lines # <<>>
  /\ op' = [op EXCEPT !.state = CASE Head(lines) = "preview" -> "awaiting"
                                  [] Head(lines) = "prepare" -> "connecting"
                                  [] Head(lines) = "load" -> "installing"]
  /\ lines' = Tail(lines)
  /\ UNCHANGED <<cards, slot, helper, up, inv, controls, journal, thread, reported, found, queued, history, budget>>

\* finish(); the success and download_failed paths look at the receipts afterwards.
Finish(state) == op' = [op EXCEPT !.state = state] /\ thread' = "clear"

Answered_LostIsFailed(answer, before) ==
  CASE answer = "ok" ->
         /\ op' = [op EXCEPT !.state = "verifying", !.before = before]
         /\ thread' = "settle" /\ reported' = TRUE
    [] answer = "download_cancelled" -> Finish("cancelled") /\ UNCHANGED reported
    [] answer = "download_failed" ->
         /\ op' = [op EXCEPT !.state = "failed", !.before = before]
         /\ thread' = "clear_queue" /\ UNCHANGED reported
    [] answer = "not_started" -> Finish("failed") /\ UNCHANGED reported
    [] answer = "outcome_unknown" ->
         /\ op' = [op EXCEPT !.before = before]
         /\ thread' = "settle" /\ reported' = FALSE
    [] answer = "lost" -> Finish("failed") /\ UNCHANGED reported

\* The answer: Failed carries the receipts that were on the card before.
Answered(answer, before) ==
  CASE answer = "ok" ->
         /\ op' = [op EXCEPT !.state = "verifying", !.before = before]
         /\ thread' = "settle" /\ reported' = TRUE
    [] answer = "download_cancelled" -> Finish("cancelled") /\ UNCHANGED reported
    [] answer = "download_failed" ->
         /\ op' = [op EXCEPT !.state = "failed", !.before = before]
         /\ thread' = "clear_queue" /\ UNCHANGED reported
    [] answer = "not_started" -> Finish("failed") /\ UNCHANGED reported
    [] answer = "outcome_unknown" ->
         /\ op' = [op EXCEPT !.before = before]
         /\ thread' = "settle" /\ reported' = FALSE
    [] answer = "lost" -> thread' = "settle" /\ reported' = FALSE /\ UNCHANGED op

ReadAnswer ==
  /\ up /\ thread = "run" /\ helper # None /\ helper.phase = "ended" /\ lines = <<>>
  /\ Answered(helper.answer, helper.before)
  /\ helper' = None
  /\ UNCHANGED <<cards, slot, lines, up, inv, controls, journal, found, queued, history, budget>>

(***************************************************************************)
(* The helper.  A cancel, or a stop signal, is looked for after every step *)
(* before the install; the decision takes the next control.                *)
(***************************************************************************)
Cancelled == helper.term \/ \E i \in 1 .. Len(helper.ctl) : helper.ctl[i] = "cancel"

End(answer) == helper' = [helper EXCEPT !.phase = "ended", !.answer = answer]
Step(phase, line) == /\ helper' = [helper EXCEPT !.phase = phase]
                     /\ lines' = IF up THEN Append(lines, line) ELSE lines

\* A failing step ends the session as cancelled if a cancel is waiting by then.
FailOrCancel == End(IF Cancelled THEN "download_cancelled" ELSE "download_failed")

HelperCheck ==
  /\ helper # None /\ helper.phase = "check"
  /\ \/ slot = helper.eid
        /\ helper' = [helper EXCEPT !.phase = "auth", !.before = cards[slot].notes]
     \/ End("not_started")
  /\ UNCHANGED <<cards, slot, lines, agent, history, budget>>

HelperAuthenticate ==
  /\ helper # None /\ helper.phase = "auth"
  /\ \/ FailOrCancel /\ UNCHANGED lines
     \/ ~Cancelled /\ slot = helper.eid /\ Step("preview", "preview")
  /\ UNCHANGED <<cards, slot, agent, history, budget>>

HelperDecide_TimeoutInstalls ==
  /\ helper # None /\ helper.phase = "preview"
  /\ \/ /\ ~helper.term /\ helper.ctl # <<>> /\ Head(helper.ctl) \in {"install", "timeout"}
        /\ helper' = [helper EXCEPT !.phase = "prepare", !.ctl = Tail(@)]
        /\ lines' = IF up THEN Append(lines, "prepare") ELSE lines
     \/ /\ helper.term \/ (helper.ctl # <<>> /\ Head(helper.ctl) \notin {"install", "timeout"})
        /\ End("download_cancelled") /\ UNCHANGED lines
     \/ /\ helper.ctl = <<>>              \* PREVIEW_MAX
        /\ End("download_cancelled") /\ UNCHANGED lines
  /\ UNCHANGED <<cards, slot, agent, history, budget>>

HelperDecide ==
  /\ helper # None /\ helper.phase = "preview"
  /\ \/ /\ ~helper.term /\ helper.ctl # <<>> /\ Head(helper.ctl) = "install"
        /\ helper' = [helper EXCEPT !.phase = "prepare", !.ctl = Tail(@)]
        /\ lines' = IF up THEN Append(lines, "prepare") ELSE lines
     \/ /\ helper.term \/ (helper.ctl # <<>> /\ Head(helper.ctl) # "install")
        /\ End("download_cancelled") /\ UNCHANGED lines
     \/ /\ helper.ctl = <<>>              \* PREVIEW_MAX
        /\ End("download_cancelled") /\ UNCHANGED lines
  /\ UNCHANGED <<cards, slot, agent, history, budget>>

HelperPrepare ==
  /\ helper # None /\ helper.phase = "prepare"
  /\ \/ FailOrCancel /\ UNCHANGED lines
     \/ ~Cancelled /\ slot = helper.eid /\ Step("load", "load")
  /\ UNCHANGED <<cards, slot, agent, history, budget>>

\* The card installs the profile or refuses it, and either way leaves a receipt.
HelperLoad ==
  /\ helper # None /\ helper.phase = "load"
  /\ \/ /\ slot = helper.eid
        /\ cards' = [cards EXCEPT ![slot] = [profs |-> @.profs \cup {Own(slot)}, notes |-> @.notes \cup {<<slot, 1>>}]]
        /\ wrote' = {Own(slot)}
        /\ \E answer \in {"ok", "outcome_unknown", "lost"} : End(answer)
     \/ /\ slot = helper.eid /\ budget.max.refuses
        /\ cards' = [cards EXCEPT ![slot].notes = @ \cup {<<slot, 1>>}]
        /\ \E answer \in {"download_failed", "outcome_unknown"} : End(answer)
        /\ UNCHANGED wrote
     \/ End("outcome_unknown") /\ UNCHANGED <<cards, wrote>>
  /\ UNCHANGED <<slot, lines, agent, asked, named, budget>>

\* The deadline: SIGTERM, then SIGKILL after the grace period (process-runner).
Terminate ==
  /\ up /\ thread = "run" /\ helper # None /\ helper.phase # "ended" /\ ~helper.term
  /\ helper' = [helper EXCEPT !.term = TRUE]
  /\ UNCHANGED <<cards, slot, lines, agent, history, budget>>

HelperDies ==
  /\ helper # None /\ helper.phase # "ended"
  /\ End("lost")
  /\ UNCHANGED <<cards, slot, lines, agent, history, budget>>

\* A helper whose agent is gone ends unheard.
HelperLeaves ==
  /\ helper # None /\ helper.phase = "ended" /\ thread # "run"
  /\ helper' = None
  /\ UNCHANGED <<cards, slot, lines, agent, history, budget>>

(***************************************************************************)
(* settle_download(): a profile that was not there before is the new one.  *)
(***************************************************************************)
SettleRead ==
  /\ thread = "settle" /\ Readable /\ Reading
  /\ LET new == inv'.profs \ op.profs
     IN \/ \E p \in new : /\ found' = p
                          /\ thread' = IF op.nickname THEN "name" ELSE "finish"
                          /\ UNCHANGED op
        \/ new = {} /\ ~reported /\ Finish("failed") /\ UNCHANGED found
        \/ new = {} /\ reported /\ UNCHANGED <<op, thread, found>>
  /\ UNCHANGED <<cards, slot, helper, lines, up, controls, journal, reported, queued, history, budget>>

SettleWindowCloses_OnlyReported ==
  /\ up /\ thread = "settle" /\ reported
  /\ Finish("unknown")
  /\ UNCHANGED <<cards, slot, helper, lines, up, inv, controls, journal, reported, found, queued, history, budget>>

SettleWindowCloses ==
  /\ up /\ thread = "settle"
  /\ Finish("unknown")
  /\ UNCHANGED <<cards, slot, helper, lines, up, inv, controls, journal, reported, found, queued, history, budget>>

\* The nickname, with the EID of the list just read, and one more read.
SettleName ==
  /\ up /\ thread = "name" /\ helper = None
  /\ \/ slot = inv.eid /\ found \in cards[slot].profs /\ named' = named \cup {found}
     \/ UNCHANGED named
  /\ \/ Reading
     \/ UNCHANGED inv
  /\ thread' = "finish"
  /\ UNCHANGED <<cards, slot, helper, lines, up, op, controls, journal, reported, found, queued, asked, wrote, budget>>

SettleFinish_NoReceipt ==
  /\ up /\ thread = "finish"
  /\ op' = [op EXCEPT !.state = "succeeded"] /\ thread' = "clear"
  /\ UNCHANGED <<cards, slot, helper, lines, up, inv, controls, journal, reported, found, queued, history, budget>>

SettleFinish ==
  /\ up /\ thread = "finish"
  /\ op' = [op EXCEPT !.state = "succeeded"] /\ thread' = "clear_queue"
  /\ UNCHANGED <<cards, slot, helper, lines, up, inv, controls, journal, reported, found, queued, history, budget>>

\* clear_journal(), outside the lock.
ClearJournal ==
  /\ up /\ thread \in {"clear", "clear_queue"}
  /\ journal' = None
  /\ thread' = IF thread = "clear" THEN "none" ELSE "queue"
  /\ UNCHANGED <<cards, slot, helper, lines, up, inv, op, controls, reported, found, queued, history, budget>>

\* queue_new_receipts_after_read(): the operation and the list as they are now.
QueueReceipts ==
  /\ up /\ thread = "queue"
  /\ queued' = queued \cup (IF op = None \/ inv = None THEN {} ELSE inv.notes \ op.before)
  /\ thread' = "none"
  /\ UNCHANGED <<cards, slot, helper, lines, up, inv, op, controls, journal, reported, found, history, budget>>

(***************************************************************************)
(* The rest of the world.                                                  *)
(***************************************************************************)

\* admit() of a later change, up to its claim.
NextChange ==
  /\ up /\ budget.max.next /\ inv # None
  /\ op # None /\ op.kind = "download" /\ op.state \in Resolved
  /\ op' = [kind |-> "other", state |-> "pending", before |-> inv.notes,
            profs |-> {}, eid |-> inv.eid, nickname |-> FALSE]
  /\ UNCHANGED <<cards, slot, helper, lines, up, inv, controls, journal, thread, reported, found, queued, history, budget>>

\* The helper's stdin closes, which it takes for a cancel.
Crash ==
  /\ up /\ budget.crash < budget.max.crash
  /\ budget' = [budget EXCEPT !.crash = @ + 1]
  /\ up' = FALSE /\ inv' = None /\ op' = None /\ controls' = <<>>
  /\ thread' = "none" /\ reported' = FALSE /\ found' = None /\ lines' = <<>>
  /\ helper' = IF helper = None THEN None ELSE [helper EXCEPT !.ctl = Append(@, "cancel")]
  /\ UNCHANGED <<cards, slot, journal, queued, history>>

\* recover(): an interrupted download is never resumed, only looked for on the card.
Recover ==
  /\ ~up /\ up' = TRUE
  /\ IF journal = None THEN UNCHANGED <<op, thread>>
     ELSE /\ op' = [journal EXCEPT !.state = "verifying"]
          /\ thread' = "settle"
  /\ UNCHANGED <<cards, slot, helper, lines, inv, controls, journal, reported, found, queued, history, budget>>

Swap ==
  /\ budget.swap < budget.max.swap
  /\ budget' = [budget EXCEPT !.swap = @ + 1]
  /\ slot' \in Eids \ {slot}
  /\ UNCHANGED <<cards, helper, lines, agent, history>>

HelperSteps == HelperCheck \/ HelperAuthenticate \/ HelperDecide \/ HelperPrepare \/ HelperLoad \/ HelperLeaves

Next ==
  \/ Refresh \/ Download \/ WanUp \/ Abandon \/ WriteJournal \/ StartHelper
  \/ \E install, nickname \in BOOLEAN : DownloadConfirm(install, nickname)
  \/ DownloadCancel
  \/ ForwardControl \/ PreviewExpires \/ OnProgress \/ ReadAnswer
  \/ HelperCheck \/ HelperAuthenticate \/ HelperDecide \/ HelperPrepare \/ HelperLoad
  \/ Terminate \/ HelperDies \/ HelperLeaves
  \/ SettleRead \/ SettleWindowCloses \/ SettleName \/ SettleFinish
  \/ ClearJournal \/ QueueReceipts
  \/ NextChange \/ Crash \/ Recover \/ Swap

\* Threads run, the helper's steps are bounded by its deadline, the window closes, and
\* rc.local restarts the agent.  Nobody has to confirm, cancel, crash or swap.
Fairness ==
  /\ WF_vars(WanUp \/ Abandon \/ WriteJournal) /\ WF_vars(StartHelper)
  /\ WF_vars(OnProgress) /\ WF_vars(ReadAnswer) /\ WF_vars(HelperSteps)
  /\ WF_vars(SettleWindowCloses) /\ WF_vars(SettleName) /\ WF_vars(SettleFinish)
  /\ WF_vars(ClearJournal) /\ WF_vars(QueueReceipts) /\ WF_vars(Recover)

Spec == Init /\ [][Next]_vars /\ Fairness

(***************************************************************************)
(* Properties                                                              *)
(***************************************************************************)
Running(o) == o # None /\ o.kind = "download"

\* Only a profile the user asked to install at the preview reaches a card, whatever
\* timeouts, cancels, signals and crashes race with the answer (esim.rs:1923-1962,
\* download.rs:381-386).
InstalledOnlyIfConfirmed == wrote # {} => "install" \in asked

\* What a download reports is what happened (esim.rs:1746-1775, 1828-1830, 1884-1890):
\* cancelled and failed say that nothing was installed, also after lost answers and
\* restarts; succeeded names the profile this download installed, and the nickname went to
\* no other, while nobody exchanges the card.
OutcomeIsTrue ==
  Running(op) =>
    /\ op.state \in {"cancelled", "failed"} => wrote = {}
    /\ budget.swap = 0 /\ op.state = "succeeded" => found \in wrote /\ named \subseteq wrote

\* esim.rs:1828-1830: a download that succeeded, lost answers and restarts included, has
\* queued the receipt of its install once its thread is done, unless a later change took
\* its place before that.
InstallReceiptQueued ==
  (budget.swap = 0 /\ up /\ thread = "none" /\ Running(op) /\ found # None)
     => <<found[1], 1>> \in queued

\* Every download ends: at the preview without an answer, when the helper hangs, when the
\* card cannot be read back and after a restart.
DownloadSettles == (Running(op) /\ op.state \notin Resolved) ~> ~(Running(op) /\ op.state \notin Resolved)
===============================================================================
