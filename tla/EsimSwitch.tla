------------------------------ MODULE EsimSwitch ------------------------------
(***************************************************************************)
(* agent/src/esim.rs: one profile change at a time (enable, disable,       *)
(* delete, nickname), with its journal, the helper run that writes to the  *)
(* card, the read-back that settles a lost answer, and recovery after a    *)
(* restart.  The helper (esim-helper/src/main.rs) is a process of its own: *)
(* it outlives an agent that crashes, and its flock keeps other runs off   *)
(* the card until it ends.                                                 *)
(*                                                                         *)
(* A profile is named by the client's handle.  Requests the agent refuses  *)
(* change nothing and are not actions.  A read that fails changes nothing  *)
(* modelled here; detection and its statuses are EsimDetect's, the receipt *)
(* worker, the locks and the state file are EsimReceipts'.                 *)
(***************************************************************************)
EXTENDS Naturals, FiniteSets

CONSTANTS
  Eids,          \* cards
  Profiles,      \* profile handles, over all cards
  OnCard,        \* the profiles each card can hold
  Backlog,       \* how many receipts each card holds at the start, not made here
  MaxOps,        \* bound: operation_ids
  Bounds,        \* bounds, one of which a behaviour has: the first card, operation_ids
                 \* used by clients, agent crashes, cards exchanged in the slot, and
                 \* whether removing the journal may fail
  None

Ids    == 1 .. MaxOps
Kinds  == {"enable", "disable", "delete", "nickname"}
States == {"absent", "disabled", "enabled"}
Request == [id : Ids, kind : Kinds, target : Profiles, rev : Nat]
Resolved == {"succeeded", "busy", "refused", "failed", "unknown"}

\* A profile change as admit() claims it, a helper run, and a list read from a card.
Operation == [id : Ids, kind : Kinds, target : Profiles, eid : Eids, expect : Profiles \cup {None},
              before : SUBSET Nat, state : Resolved \cup {"pending", "reloading", "verifying"}]
HelperRun == [id : Ids, kind : Kinds, target : Profiles, eid : Eids, expect : Profiles \cup {None},
              phase : {"check", "write", "changed", "applied", "busy", "refused"}]
List == [eid : Eids, prof : [Profiles -> States], notes : SUBSET Nat]

ASSUME EsimConstants ==
  /\ None \notin Operation \cup HelperRun \cup List
  /\ OnCard \in [Eids -> SUBSET Profiles]
  /\ \A e, f \in Eids : e # f => OnCard[e] \cap OnCard[f] = {}
  /\ Backlog \in [Eids -> Nat] /\ MaxOps \in Nat
  /\ Bounds \subseteq [first : Eids, ops : 0 .. MaxOps, crash : Nat, swap : Nat, file : BOOLEAN]

VARIABLES
  cards,     \* what each card holds: profile states, receipts, last receipt number
  slot,      \* the card in the SIM slot
  helper,    \* the helper run that writes, or None: its request and progress
  up,        \* the agent runs
  inv,       \* Inner::inventory, or None: content and receipts
  rev,       \* Inner::revision
  op,        \* Inner::operation, or None
  journal,   \* the operation journal on disk, or None
  thread,    \* the thread of the unresolved operation: "none", "journal",
             \* "start", "wait", "verify"
  accepted,  \* that thread's `accepted' argument of verify()
  tails,     \* what threads still do after they resolved their operation
  queued,    \* history: receipts handed to queue_receipts()
  requests,  \* requests clients have sent; the network may repeat them
  used,      \* number of operation_ids used
  made,      \* history: receipts created by changes made here
  applied,   \* history: ids whose latest admission changed a card
  sent,      \* history: how often the write of each id's latest admission left
  budget     \* crashes and swaps so far, and the bounds: max

agent == <<up, inv, rev, op, journal, thread, accepted, tails, queued>>
world == <<requests, used, made, applied, sent>>
vars  == <<cards, slot, helper, agent, world, budget>>

Active(prof) ==
  IF \E p \in Profiles : prof[p] = "enabled"
  THEN CHOOSE p \in Profiles : prof[p] = "enabled" ELSE None

\* The values the variables range over.
TypeOK ==
  /\ cards \in [Eids -> [prof : [Profiles -> States], notes : SUBSET Nat, seq : Nat]]
  /\ slot \in Eids /\ helper \in HelperRun \cup {None}
  /\ up \in BOOLEAN /\ inv \in List \cup {None} /\ rev \in Nat
  /\ op \in Operation \cup {None} /\ journal \in Operation \cup {None}
  /\ thread \in {"none", "journal", "start", "wait", "verify"} /\ accepted \in BOOLEAN
  /\ tails \subseteq [id : Ids, step : {"clear", "read", "queue"}, next : {"done", "read", "queue"},
                      new : SUBSET (Eids \X Nat)]
  /\ requests \subseteq Request /\ used \in 0 .. MaxOps
  /\ queued \subseteq Eids \X Nat /\ made \subseteq Eids \X Nat
  /\ applied \subseteq Ids /\ sent \in [Ids -> Nat]
  /\ budget \in [crash : Nat, swap : Nat, max : Bounds]

Init ==
  /\ cards = [e \in Eids |-> [prof |-> [p \in Profiles |-> IF p \in OnCard[e] THEN "disabled" ELSE "absent"],
                              notes |-> 1 .. Backlog[e], seq |-> Backlog[e]]]
  /\ helper = None
  /\ up = TRUE /\ inv = None /\ rev = 0
  /\ op = None /\ journal = None
  /\ thread = "none" /\ accepted = FALSE /\ tails = {}
  /\ queued = {}
  /\ requests = {} /\ used = 0
  /\ made = {} /\ applied = {} /\ sent = [i \in Ids |-> 0]
  /\ \E b \in Bounds : slot = b.first /\ budget = [crash |-> 0, swap |-> 0, max |-> b]

Busy == op # None /\ op.state \notin Resolved

(***************************************************************************)
(* read_card() and absorb_read() for a read that succeeds: one helper run  *)
(* under the card mutex and the flock.  The revision counts changes of the *)
(* content.                                                                *)
(***************************************************************************)
Readable == up /\ helper = None

Absorb ==
  LET changed == inv = None \/ inv.eid # slot \/ inv.prof # cards[slot].prof
  IN /\ inv' = [eid |-> slot, prof |-> cards[slot].prof, notes |-> cards[slot].notes]
     /\ rev' = IF changed THEN rev + 1 ELSE rev

\* profiles(), refresh() and detect(): they look at the operation before they
\* wait for the card, so a change may have been admitted by the time they read.
Refresh ==
  /\ Readable
  /\ Absorb
  /\ UNCHANGED <<cards, slot, helper, up, op, journal, thread, accepted, tails, queued, world, budget>>

(***************************************************************************)
(* Clients send requests for the list they see.                            *)
(***************************************************************************)
Ask(kind, target) ==
  /\ up /\ inv # None /\ used < budget.max.ops
  /\ inv.prof[target] # "absent"
  /\ used' = used + 1
  /\ requests' = requests \cup
       {[id |-> used + 1, kind |-> kind, target |-> target, rev |-> rev]}
  /\ UNCHANGED <<cards, slot, helper, agent, made, applied, sent, budget>>

(***************************************************************************)
(* admit(): checks and claim under one lock.  A request that repeats the   *)
(* latest operation_id is answered with that operation.  Locked profiles,  *)
(* profile classes and a missing helper only refuse more requests and are  *)
(* left out of the guard.                                                  *)
(***************************************************************************)
Admissible(r) ==
  /\ op # None => op.id # r.id
  /\ ~Busy
  /\ inv # None
  /\ r.rev = rev
  /\ inv.prof[r.target] # "absent"
  /\ CASE r.kind = "enable"  -> inv.prof[r.target] = "disabled"
       [] r.kind = "disable" -> inv.prof[r.target] = "enabled"
       [] r.kind = "delete"  -> inv.prof[r.target] = "disabled"
       [] OTHER -> TRUE

\* switch() goes on to the journal; nickname() has none.
Admit(r) ==
  /\ up /\ r \in requests
  /\ Admissible(r)
  /\ op' = [id |-> r.id, kind |-> r.kind, target |-> r.target, eid |-> inv.eid,
            expect |-> Active(inv.prof), before |-> inv.notes, state |-> "pending"]
  /\ thread' = IF r.kind = "nickname" THEN "start" ELSE "journal"
  /\ applied' = applied \ {r.id} /\ sent' = [sent EXCEPT ![r.id] = 0]
  /\ UNCHANGED <<cards, slot, helper, up, inv, rev, journal, accepted, tails, queued,
                 requests, used, made, budget>>

WriteJournal ==
  /\ up /\ thread = "journal"
  /\ journal' = op
  /\ thread' = "start"
  /\ UNCHANGED <<cards, slot, helper, up, inv, rev, op, accepted, tails, queued, world, budget>>

\* atomic_write() fails before the new journal is in place, or after, in syncing its directory.
WriteJournalFails ==
  /\ up /\ thread = "journal"
  /\ journal' \in {journal, op}
  /\ op' = None
  /\ thread' = "none"
  /\ UNCHANGED <<cards, slot, helper, up, inv, rev, accepted, tails, queued, world, budget>>

(***************************************************************************)
(* The helper run.  It checks the card and the profiles in the session of  *)
(* the write; `phase' is what has happened to the write.                   *)
(***************************************************************************)
StartHelper ==
  /\ up /\ thread = "start" /\ helper = None
  /\ helper' = [id |-> op.id, kind |-> op.kind, target |-> op.target, eid |-> op.eid,
                expect |-> op.expect, phase |-> "check"]
  /\ thread' = "wait"
  /\ UNCHANGED <<cards, slot, up, inv, rev, op, journal, accepted, tails, queued, world, budget>>

SwitchExpected(prof, h, before) == prof[h.target] = before /\ Active(prof) = h.expect
DeleteExpected(prof, h)         == prof[h.target] = "disabled"
NicknameExpected(prof, h)       == prof[h.target] # "absent"

StateExpected(h) ==
  LET prof == cards[slot].prof
  IN CASE h.kind = "enable"   -> SwitchExpected(prof, h, "disabled")
       [] h.kind = "disable"  -> SwitchExpected(prof, h, "enabled")
       [] h.kind = "delete"   -> DeleteExpected(prof, h)
       [] h.kind = "nickname" -> NicknameExpected(prof, h)

HelperCheck ==
  /\ helper # None /\ helper.phase = "check"
  /\ helper' = [helper EXCEPT !.phase =
                  IF slot = helper.eid /\ StateExpected(helper) THEN "write" ELSE "changed"]
  /\ UNCHANGED <<cards, slot, agent, world, budget>>

Change(prof, kind, target) ==
  [p \in Profiles |->
     CASE kind = "enable"  /\ p = target -> "enabled"
       [] kind = "enable"  /\ p # target /\ prof[p] = "enabled" -> "disabled"
       [] kind = "disable" /\ p = target -> "disabled"
       [] kind = "delete"  /\ p = target -> "absent"
       [] OTHER -> prof[p]]

\* The card carries the write out, creating at most one receipt, or refuses it.
HelperWrite ==
  /\ helper # None /\ helper.phase = "write" /\ slot = helper.eid
  /\ sent' = [sent EXCEPT ![helper.id] = @ + 1]
  /\ \/ \E n \in {0, 1} :
          /\ helper.kind = "nickname" => n = 0
          /\ cards' = [cards EXCEPT ![slot] =
                         [prof |-> Change(@.prof, helper.kind, helper.target),
                          notes |-> @.notes \cup {@.seq + i : i \in 1 .. n},
                          seq |-> @.seq + n]]
          /\ made' = made \cup {<<slot, cards[slot].seq + i>> : i \in 1 .. n}
          /\ applied' = applied \cup {helper.id}
          /\ helper' = [helper EXCEPT !.phase = "applied"]
     \/ /\ \E answer \in {"busy", "refused"} : helper' = [helper EXCEPT !.phase = answer]
        /\ UNCHANGED <<cards, made, applied>>
  /\ UNCHANGED <<slot, agent, requests, used, budget>>

\* How the run can end for the agent: the answer it has, `notsent' (lock_busy,
\* cancelled, transport, ...) while no write has left, `lost' (outcome_unknown, or
\* killed at the deadline), `garbled' (no readable answer), `missing' (no helper).
Endings(phase) ==
  {"lost", "garbled"} \cup
    (CASE phase = "check"   -> {"notsent", "missing"}
       [] phase = "write"   -> {"notsent"}
       [] phase = "applied" -> {"ok"}
       [] OTHER             -> {phase})

(***************************************************************************)
(* finish(): the operation is resolved, and only then, outside the lock,   *)
(* its journal removed; what the thread does next is part of its tail.     *)
(***************************************************************************)
Tail(step, next, new) == [id |-> op.id, step |-> step, next |-> next, new |-> new]

Finish(state, next, new) ==
  /\ op' = [op EXCEPT !.state = state]
  /\ thread' = "none" /\ accepted' = FALSE
  /\ tails' = tails \cup {Tail("clear", next, new)}

Verify(state, wasAccepted) ==
  /\ op' = [op EXCEPT !.state = state]
  /\ thread' = "verify" /\ accepted' = wasAccepted
  /\ UNCHANGED tails

SettleSwitch_GarbledIsFailed(ending) ==
  CASE ending = "ok" -> Verify(IF op.kind = "delete" THEN "verifying" ELSE "reloading", TRUE)
    [] ending = "busy" -> Finish(IF op.kind = "delete" THEN "refused" ELSE "busy", "done", {})
    [] ending = "refused" -> Finish("refused", "done", {})
    [] ending = "changed" -> Finish("refused", "read", {})
    [] ending \in {"lost"} -> Verify("verifying", FALSE)
    [] ending \in {"notsent", "missing", "garbled"} -> Finish("failed", "done", {})

SettleSwitch_RetriesBusy(ending) ==
  CASE ending = "ok" -> Verify(IF op.kind = "delete" THEN "verifying" ELSE "reloading", TRUE)
    [] ending = "busy" -> thread' = "start" /\ UNCHANGED <<op, accepted, tails>>
    [] ending = "refused" -> Finish("refused", "done", {})
    [] ending = "changed" -> Finish("refused", "read", {})
    [] ending \in {"lost", "garbled"} -> Verify("verifying", FALSE)
    [] ending \in {"notsent", "missing"} -> Finish("failed", "done", {})

\* run_switch() on the helper's ending.
SettleSwitch(ending) ==
  CASE ending = "ok" -> Verify(IF op.kind = "delete" THEN "verifying" ELSE "reloading", TRUE)
    [] ending = "busy" -> Finish(IF op.kind = "delete" THEN "refused" ELSE "busy", "done", {})
    [] ending = "refused" -> Finish("refused", "done", {})
    [] ending = "changed" -> Finish("refused", "read", {})
    [] ending \in {"lost", "garbled"} -> Verify("verifying", FALSE)
    [] ending \in {"notsent", "missing"} -> Finish("failed", "done", {})

\* nickname() on the helper's ending: no journal, no read-back before it answers.
SettleNickname(ending) ==
  /\ op' = [op EXCEPT !.state =
              CASE ending = "ok" -> "succeeded"
                [] ending \in {"busy", "refused", "changed"} -> "refused"
                [] ending = "lost" -> "unknown"
                [] ending \in {"garbled", "notsent", "missing"} -> "failed"]
  /\ thread' = "none" /\ accepted' = FALSE
  /\ tails' = tails \cup {Tail("read", "done", {})}

HelperEnds ==
  /\ helper # None
  /\ helper' = None
  /\ IF up /\ thread = "wait"
     THEN \E ending \in Endings(helper.phase) :
            IF op.kind = "nickname" THEN SettleNickname(ending) ELSE SettleSwitch(ending)
     ELSE UNCHANGED <<op, thread, accepted, tails>>
  /\ UNCHANGED <<cards, slot, up, inv, rev, journal, queued, world, budget>>

(***************************************************************************)
(* verify(): read until the change shows, the opposite shows (for a write  *)
(* whose answer was lost), or the window closes.                           *)
(***************************************************************************)
Done_DeletedIfInactive(kind, state) ==
  CASE kind = "enable" -> state = "enabled"
    [] kind = "delete" -> state # "enabled"
    [] OTHER -> state = "disabled"

Done(kind, state) ==
  CASE kind = "enable" -> state = "enabled"
    [] kind = "delete" -> state = "absent"
    [] OTHER -> state = "disabled"

VerifyRead_WholeList ==
  /\ thread = "verify" /\ Readable
  /\ Absorb
  /\ LET state == inv'.prof[op.target]
     IN CASE Done(op.kind, state) ->
               Finish("succeeded", "queue", {<<slot, n>> : n \in inv'.notes})
          [] ~Done(op.kind, state) /\ state = "absent" -> Finish("unknown", "done", {})
          [] ~Done(op.kind, state) /\ state # "absent" /\ ~accepted -> Finish("failed", "done", {})
          [] OTHER -> UNCHANGED <<op, thread, accepted, tails>>
  /\ UNCHANGED <<cards, slot, helper, up, journal, queued, world, budget>>

VerifyRead ==
  /\ thread = "verify" /\ Readable
  /\ Absorb
  /\ LET state == inv'.prof[op.target]
     IN CASE Done(op.kind, state) ->
               Finish("succeeded", "queue", {<<slot, n>> : n \in inv'.notes \ op.before})
          [] ~Done(op.kind, state) /\ state = "absent" -> Finish("unknown", "done", {})
          [] ~Done(op.kind, state) /\ state # "absent" /\ ~accepted -> Finish("failed", "done", {})
          [] OTHER -> UNCHANGED <<op, thread, accepted, tails>>
  /\ UNCHANGED <<cards, slot, helper, up, journal, queued, world, budget>>

\* A read that fails only updates the message and the state shown meanwhile.
VerifyReadFails ==
  /\ up /\ thread = "verify"
  /\ op.kind # "delete"
  /\ op' = [op EXCEPT !.state = IF accepted THEN "reloading" ELSE "verifying"]
  /\ UNCHANGED <<cards, slot, helper, up, inv, rev, journal, thread, accepted, tails, queued, world, budget>>

VerifyWindowCloses_OnlyLost ==
  /\ ~accepted
  /\ up /\ thread = "verify"
  /\ Finish("unknown", "done", {})
  /\ UNCHANGED <<cards, slot, helper, up, inv, rev, journal, queued, world, budget>>

VerifyWindowCloses ==
  /\ up /\ thread = "verify"
  /\ Finish("unknown", "done", {})
  /\ UNCHANGED <<cards, slot, helper, up, inv, rev, journal, queued, world, budget>>

(***************************************************************************)
(* Tails: clear_journal(), then a read, the receipts of the change, or     *)
(* nothing.                                                                *)
(***************************************************************************)
ClearJournal(t) ==
  /\ up /\ t \in tails /\ t.step = "clear"
  /\ journal' = None \/ (budget.max.file /\ UNCHANGED journal)
  /\ tails' = (tails \ {t}) \cup
       (IF t.next = "done" \/ (t.next = "queue" /\ t.new = {}) THEN {}
        ELSE {[t EXCEPT !.step = t.next, !.next = "done"]})
  /\ UNCHANGED <<cards, slot, helper, up, inv, rev, op, thread, accepted, queued, world, budget>>

\* queue_change_receipts(): merge and save.
QueueReceipts(t) ==
  /\ up /\ t \in tails /\ t.step = "queue"
  /\ queued' = queued \cup t.new
  /\ tails' = tails \ {t}
  /\ UNCHANGED <<cards, slot, helper, up, inv, rev, op, journal, thread, accepted, world, budget>>

TailRead(t) ==
  /\ Readable /\ t \in tails /\ t.step = "read"
  /\ \/ Absorb
     \/ UNCHANGED <<inv, rev>>
  /\ tails' = tails \ {t}
  /\ UNCHANGED <<cards, slot, helper, up, op, journal, thread, accepted, queued, world, budget>>

(***************************************************************************)
(* Crash and recover(): the journalled change is read back, never sent.    *)
(***************************************************************************)
Crash ==
  /\ up /\ budget.crash < budget.max.crash
  /\ budget' = [budget EXCEPT !.crash = @ + 1]
  /\ up' = FALSE
  /\ inv' = None /\ rev' = 0 /\ op' = None
  /\ thread' = "none" /\ accepted' = FALSE /\ tails' = {}
  /\ UNCHANGED <<cards, slot, helper, journal, queued, world>>

Recover ==
  /\ ~up
  /\ up' = TRUE
  /\ IF journal = None THEN UNCHANGED <<op, thread>>
     ELSE /\ op' = [journal EXCEPT !.state = "verifying"]
          /\ thread' = "verify"
  /\ UNCHANGED <<cards, slot, helper, inv, rev, journal, accepted, tails, queued, world, budget>>

\* Somebody exchanges the card.
Swap ==
  /\ budget.swap < budget.max.swap
  /\ budget' = [budget EXCEPT !.swap = @ + 1]
  /\ slot' \in Eids \ {slot}
  /\ UNCHANGED <<cards, helper, agent, world>>

Tailing == \E t \in tails : ClearJournal(t) \/ QueueReceipts(t) \/ TailRead(t)

Next ==
  \/ Refresh
  \/ \E k \in Kinds, p \in Profiles : Ask(k, p)
  \/ \E r \in requests : Admit(r)
  \/ WriteJournal \/ WriteJournalFails
  \/ StartHelper \/ HelperCheck \/ HelperWrite \/ HelperEnds
  \/ VerifyRead \/ VerifyReadFails \/ VerifyWindowCloses
  \/ Tailing
  \/ Crash \/ Recover \/ Swap

\* Threads run, the helper stops itself at its deadline, the verify window closes
\* and rc.local restarts the agent.  Clients, cards and crashes owe nothing.
Fairness ==
  /\ WF_vars(WriteJournal \/ WriteJournalFails) /\ WF_vars(StartHelper)
  /\ WF_vars(HelperEnds) /\ WF_vars(VerifyWindowCloses)
  /\ WF_vars(Tailing) /\ WF_vars(Recover)

Spec == Init /\ [][Next]_vars /\ Fairness

(***************************************************************************)
(* Properties                                                              *)
(***************************************************************************)

\* docs/AGENT.md:149-153: succeeded means the change is on the card it was asked for
\* (verify() and nickname()), while nobody exchanges the card.
SucceededIsTrue ==
  [][ (budget.swap = 0 /\ op # None /\ op' # None /\ op.id = op'.id /\ op.state # "succeeded" /\ op'.state = "succeeded")
        => LET state == cards[op.eid].prof[op.target]
           IN CASE op.kind = "nickname" -> op.id \in applied
                [] op.kind = "enable"   -> state = "enabled"
                [] op.kind = "disable"  -> state = "disabled"
                [] op.kind = "delete"   -> state = "absent" ]_vars

\* busy, refused and failed say that nothing changed (esim.rs:636-641, 1440-1478,
\* 1551-1556), also when the answer was lost or the agent restarted in between.
NothingChangedIsTrue ==
  (op # None /\ op.kind # "nickname" /\ op.state \in {"busy", "refused", "failed"})
     => op.id \notin applied

\* A write is never retried, by a lost answer or by a restart: one admission, one write.
NeverReplayed == \A i \in Ids : sent[i] <= 1

\* esim.rs:904: a change in flight is read back after a restart, so its journal is on
\* disk while its write runs.
InFlightIsJournaled ==
  (up /\ thread = "wait" /\ op.kind # "nickname") => (journal # None /\ journal.id = op.id)

\* esim.rs:9-10: receipts are sent only for changes made here, never for the backlog found
\* on the card, across lost answers and restarts, while nobody exchanges the card.
ReceiptsOnlyForOwnChanges == budget.swap = 0 => queued \subseteq made

\* Every admitted change is settled: answered, read back, or unknown.
OperationSettles == Busy ~> ~Busy

===============================================================================
