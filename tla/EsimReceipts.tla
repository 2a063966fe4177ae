----------------------------- MODULE EsimReceipts -----------------------------
(***************************************************************************)
(* agent/src/esim.rs: the receipts the agent delivers to operators, the    *)
(* profile locks, and the state file that carries both over a restart.     *)
(* Concurrent here: API threads that lock profiles, the threads that queue *)
(* the receipts of a change (or of a Send receipts request), readers of    *)
(* the card, and the receipt worker.  Every one of them saves the state    *)
(* file by itself.                                                         *)
(*                                                                         *)
(* The data connection is the worker's nondeterminism; delays, messages    *)
(* and the receipts' contents are left out.                                *)
(***************************************************************************)
EXTENDS Naturals, FiniteSets

CONSTANTS
  Eids,        \* cards
  Handles,     \* profiles that can be locked, on any card
  Clients,     \* API threads that may lock and unlock at the same time
  Queuers,     \* threads that may queue receipts at the same time
  MaxRounds,   \* RECEIPT_MAX_ROUNDS
  MaxSeq,      \* bound: receipts on a card
  Bounds,      \* bounds, one of which a behaviour has: receipts on a card, Send receipts
               \* requests, lock requests, agent crashes, SIMs exchanged in the slot,
               \* whether writing the state file may fail, and the threads that queue
  None

Seqs == 1 .. MaxSeq

ASSUME ReceiptConstants ==
  /\ None \notin Eids /\ Eids # {}
  /\ MaxRounds \in Nat \ {0} /\ MaxSeq \in Nat \ {0}
  /\ Bounds \subseteq [seq : Seqs, sends : Nat, locks : Nat, crashes : Nat, swaps : Nat, file : BOOLEAN,
                queuers : SUBSET Queuers]

VARIABLES
  notes,    \* per card: the receipts on it, by number
  last,     \* per card: the last number given
  slot,     \* the card in the SIM slot, None for an ordinary SIM
  up,       \* the agent runs
  inv,      \* Inner::inventory: the EID and receipts of the last read, or None
  card,     \* Inner::card
  locked,   \* Inner::locked
  pending,  \* Receipts::pending
  round,    \* Receipts::round
  worker,   \* Receipts::worker
  gaveUp,   \* Receipts::gave_up
  run,      \* the worker's position and its copy of seqs and EID
  queue,    \* per queueing thread: its position and seqs
  saver,    \* save_state() per thread: its position and snapshot
  file,     \* the state file
  wanted,   \* history: receipts that changes made here or Send receipts asked for
  sent,     \* history: receipts a server accepted
  budget    \* requests, crashes and swaps so far, and the bounds: max

memory == <<inv, card, locked, pending, round, worker, gaveUp>>
vars == <<notes, last, slot, up, memory, run, queue, saver, file, wanted, sent, budget>>

Savers   == Clients \cup Queuers \cup {"worker", "read"}
Snapshot == [card : Eids \cup {None}, locked : SUBSET Handles, pending : SUBSET Seqs]
Empty    == [card |-> None, locked |-> {}, pending |-> {}]
NoRun    == [at |-> "off", seqs |-> {}, eid |-> None, answer |-> "none", gone |-> {}]
NoQueue  == [at |-> "off", seqs |-> {}]
Idle     == [at |-> "idle", snap |-> Empty]

\* The values the variables range over; receipt_worker() never passes RECEIPT_MAX_ROUNDS.
TypeOK ==
  /\ notes \in [Eids -> SUBSET Seqs] /\ last \in [Eids -> 0 .. MaxSeq]
  /\ slot \in Eids \cup {None} /\ up \in BOOLEAN
  /\ inv \in [eid : Eids \cup {None}, notes : SUBSET Seqs]
  /\ card \in Eids \cup {None} /\ locked \in SUBSET Handles
  /\ pending \in SUBSET Seqs /\ round \in 0 .. MaxRounds
  /\ worker \in BOOLEAN /\ gaveUp \in BOOLEAN
  /\ run \in [at : {"off", "look", "notify", "apply", "save"}, seqs : SUBSET Seqs, eid : Eids \cup {None},
              answer : {"none", "ok", "changed", "failed"}, gone : SUBSET Seqs]
  /\ queue \in [Queuers -> [at : {"off", "merge", "save", "start"}, seqs : SUBSET Seqs]]
  /\ saver \in [Savers -> [at : {"idle", "snap", "write"}, snap : Snapshot]]
  /\ file \in Snapshot
  /\ budget \in [sends : Nat, locks : Nat, crashes : Nat, swaps : Nat, max : Bounds]

NoInventory == [eid |-> None, notes |-> {}]

Init ==
  /\ notes = [e \in Eids |-> {1}] /\ last = [e \in Eids |-> 1]
  /\ slot \in Eids /\ up = TRUE
  /\ inv = NoInventory /\ card = None /\ locked = {}
  /\ pending = {} /\ round = 0 /\ worker = FALSE /\ gaveUp = FALSE
  /\ run = NoRun /\ queue = [q \in Queuers |-> NoQueue]
  /\ saver = [w \in Savers |-> Idle]
  /\ file = Empty
  /\ wanted = {} /\ sent = {}
  /\ \E b \in Bounds : budget = [sends |-> 0, locks |-> 0, crashes |-> 0, swaps |-> 0, max |-> b]

(***************************************************************************)
(* save_state(): the snapshot under the lock, the write outside it.        *)
(***************************************************************************)
Saving(w) == saver' = [saver EXCEPT ![w].at = "snap"]

TakeSnapshot(w) ==
  /\ up /\ saver[w].at = "snap"
  /\ saver' = [saver EXCEPT ![w] = [at |-> "write", snap |-> [card |-> card, locked |-> locked, pending |-> pending]]]
  /\ UNCHANGED <<notes, last, slot, up, memory, run, queue, file, wanted, sent, budget>>

WriteSnapshot(w) ==
  /\ up /\ saver[w].at = "write"
  /\ file' = saver[w].snap
  /\ saver' = [saver EXCEPT ![w] = Idle]
  /\ UNCHANGED <<notes, last, slot, up, memory, run, queue, wanted, sent, budget>>

\* Logged, and otherwise as if it had been written.
WriteFails(w) ==
  /\ budget.max.file /\ up /\ saver[w].at = "write"
  /\ saver' = [saver EXCEPT ![w] = Idle]
  /\ UNCHANGED <<notes, last, slot, up, memory, run, queue, file, wanted, sent, budget>>

(***************************************************************************)
(* read_card() and absorb_read(): a card other than the remembered one     *)
(* drops the receipts.  The card mutex keeps the worker's session out.     *)
(***************************************************************************)
CardFree == run.at # "notify"

Absorb(newNotes) ==
  /\ inv' = [eid |-> slot, notes |-> newNotes]
  /\ card' = slot
  /\ IF card = slot THEN UNCHANGED <<pending, round, gaveUp>>
     ELSE pending' = {} /\ round' = 0 /\ gaveUp' = FALSE

Read ==
  /\ up /\ CardFree /\ slot # None /\ saver["read"].at = "idle"
  /\ Absorb(notes[slot])
  /\ IF card = slot THEN UNCHANGED saver ELSE Saving("read")
  /\ UNCHANGED <<notes, last, slot, up, locked, worker, run, queue, file, wanted, sent, budget>>

\* absorb_read() when the slot holds an ordinary SIM: the card is remembered.
ReadOrdinarySim ==
  /\ up /\ CardFree /\ slot = None
  /\ inv' = NoInventory
  /\ UNCHANGED <<notes, last, slot, up, card, locked, pending, round, worker, gaveUp, run, queue, saver, file,
                 wanted, sent, budget>>

(***************************************************************************)
(* Receipts to deliver: a change that succeeded leaves one (verify() or    *)
(* settle_download() has just read it), or a client asks for all of them.  *)
(***************************************************************************)
Change(q) ==
  /\ up /\ CardFree /\ q \in budget.max.queuers /\ queue[q].at = "off" /\ saver["read"].at = "idle"
  /\ slot # None /\ card = slot /\ last[slot] < budget.max.seq
  /\ LET n == last[slot] + 1 IN
       /\ last' = [last EXCEPT ![slot] = n]
       /\ notes' = [notes EXCEPT ![slot] = @ \cup {n}]
       /\ Absorb(notes[slot] \cup {n})
       /\ queue' = [queue EXCEPT ![q] = [at |-> "merge", seqs |-> {n}]]
       /\ wanted' = wanted \cup {<<slot, n>>}
  /\ UNCHANGED <<slot, up, locked, worker, run, saver, file, sent, budget>>

ReceiptsSend(q) ==
  /\ up /\ q \in budget.max.queuers /\ queue[q].at = "off" /\ inv.notes # {} /\ budget.sends < budget.max.sends
  /\ budget' = [budget EXCEPT !.sends = @ + 1]
  /\ queue' = [queue EXCEPT ![q] = [at |-> "merge", seqs |-> inv.notes]]
  /\ wanted' = wanted \cup {<<inv.eid, s>> : s \in inv.notes}
  /\ UNCHANGED <<notes, last, slot, up, memory, run, saver, file, sent>>

QueueMerge_WholeList(q) ==
  /\ up /\ queue[q].at = "merge"
  /\ pending' = pending \cup inv.notes /\ round' = 0 /\ gaveUp' = FALSE
  /\ queue' = [queue EXCEPT ![q].at = "save"]
  /\ Saving(q)
  /\ UNCHANGED <<notes, last, slot, up, inv, card, locked, worker, run, file, wanted, sent, budget>>

\* queue_receipts(): merge, save, start the worker.
QueueMerge(q) ==
  /\ up /\ queue[q].at = "merge"
  /\ pending' = pending \cup queue[q].seqs /\ round' = 0 /\ gaveUp' = FALSE
  /\ queue' = [queue EXCEPT ![q].at = "save"]
  /\ Saving(q)
  /\ UNCHANGED <<notes, last, slot, up, inv, card, locked, worker, run, file, wanted, sent, budget>>

QueueSaved(q) ==
  /\ up /\ queue[q].at = "save" /\ saver[q].at = "idle"
  /\ queue' = [queue EXCEPT ![q].at = "start"]
  /\ UNCHANGED <<notes, last, slot, up, memory, run, saver, file, wanted, sent, budget>>

StartWorker ==
  /\ worker' = TRUE
  /\ run' = IF worker THEN run ELSE [NoRun EXCEPT !.at = "look"]

QueueStart(q) ==
  /\ up /\ queue[q].at = "start"
  /\ StartWorker
  /\ queue' = [queue EXCEPT ![q] = NoQueue]
  /\ UNCHANGED <<notes, last, slot, up, inv, card, locked, pending, round, gaveUp, saver, file, wanted, sent, budget>>

(***************************************************************************)
(* receipt_worker(): one round after another until nothing is left or the  *)
(* rounds are used up.                                                     *)
(***************************************************************************)
WorkerStops_Quietly ==
  /\ up /\ run.at = "look"
  /\ pending = {} \/ round >= MaxRounds
  /\ UNCHANGED gaveUp
  /\ worker' = FALSE /\ run' = NoRun
  /\ UNCHANGED <<notes, last, slot, up, inv, card, locked, pending, round, queue, saver, file, wanted, sent, budget>>

WorkerStops ==
  /\ up /\ run.at = "look"
  /\ pending = {} \/ round >= MaxRounds
  /\ gaveUp' = (pending # {})
  /\ worker' = FALSE /\ run' = NoRun
  /\ UNCHANGED <<notes, last, slot, up, inv, card, locked, pending, round, queue, saver, file, wanted, sent, budget>>

\* With a list and a data connection; without them it waits and looks again.
WorkerStarts ==
  /\ up /\ run.at = "look" /\ pending # {} /\ round < MaxRounds /\ inv.eid # None
  /\ run' = [NoRun EXCEPT !.at = "notify", !.seqs = pending, !.eid = inv.eid]
  /\ UNCHANGED <<notes, last, slot, up, memory, queue, saver, file, wanted, sent, budget>>

\* The helper's notify: checks the card, delivers what it finds, removes what was accepted.
\* A helper that is stopped or fails on the way has done some of that and answers nothing.
Notify ==
  /\ up /\ run.at = "notify"
  /\ \/ /\ slot = run.eid
        /\ \E accepted \in SUBSET (run.seqs \cap notes[slot]), removed \in SUBSET (run.seqs \cap notes[slot]) :
             /\ removed \subseteq accepted
             /\ notes' = [notes EXCEPT ![slot] = @ \ removed]
             /\ sent' = sent \cup {<<slot, s>> : s \in accepted}
             /\ \/ run' = [run EXCEPT !.at = "apply", !.answer = "ok",
                                     !.gone = accepted \cup (run.seqs \ notes[slot])]
                \/ run' = [run EXCEPT !.at = "apply", !.answer = "failed"]
     \/ /\ slot # run.eid /\ slot # None
        /\ run' = [run EXCEPT !.at = "apply", !.answer = "changed"]
        /\ UNCHANGED <<notes, sent>>
     \/ /\ slot # run.eid
        /\ run' = [run EXCEPT !.at = "apply", !.answer = "failed"]   \* no answer, or an error
        /\ UNCHANGED <<notes, sent>>
  /\ UNCHANGED <<last, slot, up, memory, queue, saver, file, wanted, budget>>

WorkerApplies_DropsList ==
  /\ up /\ run.at = "apply"
  /\ round' = round + 1
  /\ pending' = CASE run.answer = "ok" -> IF run.gone = run.seqs THEN {} ELSE pending
                  [] run.answer = "changed" -> {}
                  [] OTHER -> pending
  /\ run' = [run EXCEPT !.at = "save"]
  /\ Saving("worker")
  /\ UNCHANGED <<notes, last, slot, up, inv, card, locked, worker, gaveUp, queue, file, wanted, sent, budget>>

WorkerApplies_CountsSuccess ==
  /\ up /\ run.at = "apply"
  /\ round' = IF run.answer = "ok" THEN round + 1 ELSE round
  /\ pending' = CASE run.answer = "ok" -> pending \ run.gone
                  [] run.answer = "changed" -> {}
                  [] OTHER -> pending
  /\ run' = [run EXCEPT !.at = "save"]
  /\ Saving("worker")
  /\ UNCHANGED <<notes, last, slot, up, inv, card, locked, worker, gaveUp, queue, file, wanted, sent, budget>>

WorkerApplies ==
  /\ up /\ run.at = "apply"
  /\ round' = round + 1
  /\ pending' = CASE run.answer = "ok" -> pending \ run.gone
                  [] run.answer = "changed" -> {}
                  [] OTHER -> pending
  /\ run' = [run EXCEPT !.at = "save"]
  /\ Saving("worker")
  /\ UNCHANGED <<notes, last, slot, up, inv, card, locked, worker, gaveUp, queue, file, wanted, sent, budget>>

WorkerSaved ==
  /\ up /\ run.at = "save" /\ saver["worker"].at = "idle"
  /\ run' = [NoRun EXCEPT !.at = "look"]
  /\ UNCHANGED <<notes, last, slot, up, memory, queue, saver, file, wanted, sent, budget>>

(***************************************************************************)
(* lock(): change, then save, then answer.                                 *)
(***************************************************************************)
Lock(c, h, on) ==
  /\ up /\ saver[c].at = "idle" /\ inv.eid # None /\ budget.locks < budget.max.locks
  /\ budget' = [budget EXCEPT !.locks = @ + 1]
  /\ locked' = IF on THEN locked \cup {h} ELSE locked \ {h}
  /\ Saving(c)
  /\ UNCHANGED <<notes, last, slot, up, inv, card, pending, round, worker, gaveUp, run, queue, file, wanted, sent>>

\* A notify helper that outlives the agent keeps the card to itself until it ends: what it
\* still does is a Notify before the crash.
Crash ==
  /\ up /\ budget.crashes < budget.max.crashes
  /\ budget' = [budget EXCEPT !.crashes = @ + 1]
  /\ up' = FALSE
  /\ inv' = NoInventory /\ run' = NoRun /\ queue' = [q \in Queuers |-> NoQueue]
  /\ worker' = FALSE /\ saver' = [w \in Savers |-> Idle]
  /\ UNCHANGED <<notes, last, slot, card, locked, pending, round, gaveUp, file, wanted, sent>>

Restart_NoWorker ==
  /\ ~up /\ up' = TRUE
  /\ card' = file.card /\ locked' = file.locked /\ pending' = file.pending
  /\ round' = 0 /\ gaveUp' = FALSE
  /\ worker' = FALSE
  /\ run' = NoRun
  /\ UNCHANGED <<notes, last, slot, inv, queue, saver, file, wanted, sent, budget>>

\* with_paths(): the file, or the defaults; recover(): the worker, if receipts are left.
Restart ==
  /\ ~up /\ up' = TRUE
  /\ card' = file.card /\ locked' = file.locked /\ pending' = file.pending
  /\ round' = 0 /\ gaveUp' = FALSE
  /\ worker' = (file.pending # {})
  /\ run' = IF file.pending # {} THEN [NoRun EXCEPT !.at = "look"] ELSE NoRun
  /\ UNCHANGED <<notes, last, slot, inv, queue, saver, file, wanted, sent, budget>>

Swap ==
  /\ budget.swaps < budget.max.swaps
  /\ budget' = [budget EXCEPT !.swaps = @ + 1]
  /\ slot' \in (Eids \cup {None}) \ {slot}
  /\ UNCHANGED <<notes, last, up, memory, run, queue, saver, file, wanted, sent>>

SaveSteps(w) == TakeSnapshot(w) \/ WriteSnapshot(w) \/ WriteFails(w)
QueueSteps(q) == QueueMerge(q) \/ QueueSaved(q) \/ QueueStart(q)
WorkerSteps == WorkerStops \/ WorkerStarts \/ Notify \/ WorkerApplies \/ WorkerSaved

Next ==
  \/ Read \/ ReadOrdinarySim
  \/ \E q \in Queuers : Change(q) \/ ReceiptsSend(q) \/ QueueMerge(q) \/ QueueSaved(q) \/ QueueStart(q)
  \/ WorkerStops \/ WorkerStarts \/ Notify \/ WorkerApplies \/ WorkerSaved
  \/ \E w \in Savers : TakeSnapshot(w) \/ WriteSnapshot(w) \/ WriteFails(w)
  \/ \E c \in Clients, h \in Handles, on \in BOOLEAN : Lock(c, h, on)
  \/ Crash \/ Restart \/ Swap

\* Threads run, rc.local restarts the agent, the data connection comes back and somebody
\* looks at the dashboard (which reads the card).
Fairness ==
  /\ \A w \in Savers : WF_vars(SaveSteps(w))
  /\ \A q \in Queuers : WF_vars(QueueSteps(q))
  /\ WF_vars(WorkerSteps) /\ WF_vars(Restart) /\ WF_vars(Read)

Spec == Init /\ [][Next]_vars /\ Fairness

(***************************************************************************)
(* Properties                                                              *)
(***************************************************************************)

\* esim.rs:9-10, 2170: the agent delivers only receipts of changes made here, or those a
\* Send receipts request asked for, never the card's backlog, across restarts and lost
\* state files, while nobody exchanges the card.
OnlyWantedAreSent == budget.swaps = 0 => sent \subseteq wanted

\* start_receipt_worker() and the worker's exit agree on one flag: queued receipts always
\* have a running worker, a thread that queued some and is about to start one, or were given up.
NoOrphanReceipts ==
  up /\ pending # {} => run.at # "off" \/ gaveUp \/ \E q \in Queuers : queue[q].at \in {"save", "start"}

\* test undelivered_receipts_stay_pending: a receipt that was queued stays pending until
\* a server has it or it left the card, also when it was queued during a delivery run.
QueuedStaysPending ==
  [][ (up /\ up' /\ budget.swaps = 0)
        => \A s \in pending \ pending' : <<card, s>> \in sent \/ s \notin notes[card] ]_vars

\* Delivery ends: everything is delivered, or the worker has given up; only a card that is
\* not in the slot is waited for.
DeliverySettles == (up /\ pending # {}) ~> (~up \/ pending = {} \/ gaveUp \/ slot = None)
===============================================================================
