-------------------------- MODULE EsimDownloadProofs --------------------------
(***************************************************************************)
(* Proofs about EsimDownload, for any cards, cancels, restarts and         *)
(* exchanges of the card.  The invariant follows the one install of a      *)
(* behaviour: no card has changed while it may still be cancelled, the     *)
(* order to install passes through the control channels, and what the      *)
(* operation and the journal remember of the card is older than the        *)
(* install.                                                                *)
(***************************************************************************)
EXTENDS EsimDownload, TLAPS

\* A list of receipts or profiles from before the install.
Fresh(items) == \A e \in Eids : Own(e) \notin items

\* No card has been written to.
Untouched == wrote = {} /\ \A e \in Eids : Fresh(cards[e].profs) /\ Fresh(cards[e].notes)

\* A card holds its own profiles; the new one is the one written, and left its receipt.
CardInv ==
  /\ \A e \in Eids : /\ <<e, 0>> \in cards[e].profs /\ cards[e].profs \subseteq {<<e, 0>>, Own(e)}
                     /\ cards[e].notes \subseteq {<<e, 0>>, Own(e)}
                     /\ Own(e) \in cards[e].profs => Own(e) \in cards[e].notes
                     /\ Own(e) \in cards[e].profs <=> Own(e) \in wrote
  /\ inv # None => /\ <<inv.eid, 0>> \in inv.profs /\ inv.profs \subseteq cards[inv.eid].profs
                   /\ inv.notes \subseteq cards[inv.eid].notes
                   /\ Own(inv.eid) \in inv.profs => Own(inv.eid) \in inv.notes

\* Until the helper loads the package, and if it says so afterwards, nothing was written.
UntouchedInv ==
  /\ "download" \notin asked => op = None /\ journal = None /\ helper = None /\ thread = "none" /\ Untouched
  /\ thread \in {"wan", "journal", "start"} => /\ helper = None /\ Untouched
                                               /\ Running(op) /\ op.state = "connecting"
  /\ helper # None =>
       /\ helper.phase # "ended" => Untouched
       /\ helper.phase = "ended" => helper.answer # None
       /\ helper.answer \in {"download_cancelled", "download_failed", "not_started"} => wrote = {}

\* The order to install comes from the user.
Consented(ctl) == \A i \in 1 .. Len(ctl) : ctl[i] = "install" => "install" \in asked
ConsentInv ==
  /\ InstalledOnlyIfConfirmed
  /\ Consented(controls)
  /\ helper # None => Consented(helper.ctl) /\ (helper.phase \in {"prepare", "load"} => "install" \in asked)

\* What the operation and the journal know of their card.
Remembers(x) == x.profs = {<<x.eid, 0>>} /\ Fresh(x.before) /\ wrote \subseteq {Own(x.eid)}
RecordInv ==
  /\ Running(op) => Remembers(op)
  /\ journal # None => journal.kind = "download" /\ Remembers(journal)
  /\ Running(op) /\ journal # None => journal.eid = op.eid
  /\ helper # None => /\ Fresh(helper.before) /\ wrote \subseteq {Own(helper.eid)}
                      /\ Running(op) => op.eid = helper.eid
                      /\ journal # None => journal.eid = helper.eid

\* The thread's position, the state shown and what was found.
ThreadInv ==
  /\ up = FALSE => inv = None /\ op = None /\ thread = "none" /\ found = None
  /\ "download" \notin asked => found = None
  /\ thread = "run" => helper # None
  /\ thread \in {"run", "settle", "name", "finish"} => Running(op) /\ op.state \notin Resolved
  /\ found # None => thread \in {"name", "finish", "clear_queue", "queue", "none"}
  /\ thread \in {"name", "finish"} => found # None
  /\ Running(op) => /\ op.state = "succeeded" => found # None
                    /\ op.state \in {"cancelled", "failed"} => helper = None /\ wrote = {}

\* While nobody exchanges the card.
SameCard ==
  budget.swap = 0 =>
    /\ inv # None => inv.eid = slot
    /\ op # None => op.eid = slot
    /\ journal # None => journal.eid = slot
    /\ named \subseteq wrote
    /\ found # None => /\ found = Own(slot) /\ found \in wrote
                       /\ inv # None /\ Own(slot) \in inv.notes
                       /\ thread = "none" /\ Running(op) => Own(slot) \in queued

DownloadInv ==
  TypeOK /\ CardInv /\ UntouchedInv /\ ConsentInv /\ RecordInv /\ ThreadInv /\ SameCard

(***************************************************************************)
(* What the steps do to the records.                                       *)
(***************************************************************************)

\* Setting fields of an operation.
LEMMA StateOnly ==
  ASSUME NEW x \in Operation, NEW s \in OpStates, NEW y, y = [x EXCEPT !.state = s]
  PROVE  y \in Operation /\ y # None /\ y.state = s /\ y.kind = x.kind /\ y.eid = x.eid
         /\ y.profs = x.profs /\ y.before = x.before
<1>1. y \in Operation /\ y.state = s /\ y.kind = x.kind /\ y.eid = x.eid /\ y.profs = x.profs /\ y.before = x.before
  BY DEF Operation
<1> QED
  BY <1>1, DownloadConstants

\* A read that succeeds copies the card in the slot.
LEMMA ReadingCopies ==
  ASSUME TypeOK, Reading
  PROVE  /\ inv' \in List /\ inv' # None
         /\ inv'.eid = slot /\ inv'.profs = cards[slot].profs /\ inv'.notes = cards[slot].notes
<1>1. cards[slot] \in [profs : SUBSET Items, notes : SUBSET Items] /\ slot \in Eids
  BY DEF TypeOK
<1>2. inv' = [eid |-> slot, profs |-> cards[slot].profs, notes |-> cards[slot].notes]
  BY DEF Reading
<1>3. inv' \in List
  BY <1>1, <1>2 DEF List
<1> QED
  BY <1>2, <1>3, DownloadConstants

\* A step of the helper before its end, that writes to no card.
Moves ==
  /\ helper # None /\ helper.phase # "ended"
  /\ helper' \in HelperRun /\ helper' # None /\ helper'.eid = helper.eid
  /\ helper'.ctl = helper.ctl \/ (helper.ctl # <<>> /\ helper'.ctl = Tail(helper.ctl))
  /\ helper'.phase = "ended" => helper'.answer # None
  /\ helper'.before = helper.before \/ helper'.before = cards[slot].notes
  /\ helper'.phase \in {"prepare", "load"} =>
       helper.phase \in {"prepare", "load"} \/ (helper.ctl # <<>> /\ Head(helper.ctl) = "install")
  /\ lines' \in Seq({"preview", "prepare", "load"})
  /\ UNCHANGED <<cards, slot, agent, history, budget>>

\* The end of the helper with an answer.
LEMMA EndMoves ==
  ASSUME TypeOK, helper # None, NEW a \in Answers, End(a)
  PROVE  /\ helper' \in HelperRun /\ helper' # None /\ helper'.phase = "ended" /\ helper'.answer = a
         /\ helper'.eid = helper.eid /\ helper'.ctl = helper.ctl /\ helper'.before = helper.before
         /\ a # None
<1>1. helper \in HelperRun
  BY DEF TypeOK
<1>2. /\ helper' \in HelperRun /\ helper'.phase = "ended" /\ helper'.answer = a
      /\ helper'.eid = helper.eid /\ helper'.ctl = helper.ctl /\ helper'.before = helper.before
  BY <1>1 DEF End, HelperRun
<1> QED
  BY <1>2, DownloadConstants

\* Each of the helper's steps but the install is such a move.
LEMMA HelperMoves ==
  ASSUME TypeOK,
         HelperCheck \/ HelperAuthenticate \/ HelperDecide \/ HelperPrepare \/ Terminate \/ HelperDies
  PROVE  Moves
<1>1. helper # None /\ helper \in HelperRun /\ helper.phase # "ended" /\ UNCHANGED <<cards, slot, agent, history, budget>>
  BY DEF TypeOK, HelperCheck, HelperAuthenticate, HelperDecide, HelperPrepare, Terminate, HelperDies
<1>2. lines \in Seq({"preview", "prepare", "load"}) /\ cards[slot].notes \in SUBSET Items
  BY DEF TypeOK
<1>3. ASSUME NEW a \in Answers, End(a), lines' = lines PROVE Moves
  BY <1>1, <1>2, <1>3, EndMoves DEF Moves
<1>4. ASSUME NEW ph \in {"preview", "load"}, helper' = [helper EXCEPT !.phase = ph],
             ph = "load" => helper.phase = "prepare",
             lines' = (IF up THEN Append(lines, ph) ELSE lines)
      PROVE  Moves
  <2>1. /\ helper' \in HelperRun /\ helper'.eid = helper.eid /\ helper'.ctl = helper.ctl
        /\ helper'.before = helper.before /\ helper'.phase = ph
    BY <1>1, <1>4 DEF HelperRun
  <2>2. lines' \in Seq({"preview", "prepare", "load"})
    BY <1>2, <1>4
  <2> QED
    BY <1>1, <1>4, <2>1, <2>2, DownloadConstants DEF Moves
<1>5. CASE HelperCheck
  <2>1. CASE helper' = [helper EXCEPT !.phase = "auth", !.before = cards[slot].notes]
    <3>1. /\ helper' \in HelperRun /\ helper'.eid = helper.eid /\ helper'.ctl = helper.ctl
          /\ helper'.before = cards[slot].notes /\ helper'.phase = "auth"
      BY <1>1, <1>2, <2>1 DEF HelperRun
    <3> QED
      BY <1>1, <1>2, <1>5, <3>1, DownloadConstants DEF Moves, HelperCheck
  <2>2. CASE End("not_started")
    BY <1>3, <1>5, <2>2 DEF HelperCheck, Answers
  <2> QED
    BY <1>5, <2>1, <2>2 DEF HelperCheck
<1>6. CASE HelperAuthenticate
  <2>1. CASE FailOrCancel /\ UNCHANGED lines
    BY <1>3, <2>1 DEF FailOrCancel, Answers
  <2>2. CASE Step("preview", "preview")
    BY <1>4, <2>2 DEF Step
  <2> QED
    BY <1>6, <2>1, <2>2 DEF HelperAuthenticate
<1>7. CASE HelperDecide
  <2>1. CASE /\ helper.ctl # <<>> /\ Head(helper.ctl) = "install"
             /\ helper' = [helper EXCEPT !.phase = "prepare", !.ctl = Tail(@)]
             /\ lines' = IF up THEN Append(lines, "prepare") ELSE lines
    <3>1. Tail(helper.ctl) \in Seq(Controls)
      BY <1>1, <2>1 DEF HelperRun
    <3>2. /\ helper' \in HelperRun /\ helper'.eid = helper.eid /\ helper'.ctl = Tail(helper.ctl)
          /\ helper'.before = helper.before /\ helper'.phase = "prepare"
      BY <1>1, <2>1, <3>1 DEF HelperRun
    <3>3. lines' \in Seq({"preview", "prepare", "load"})
      BY <1>2, <2>1
    <3> QED
      BY <1>1, <2>1, <3>2, <3>3, DownloadConstants DEF Moves
  <2>2. CASE End("download_cancelled") /\ UNCHANGED lines
    BY <1>3, <2>2 DEF Answers
  <2> QED
    BY <1>7, <2>1, <2>2 DEF HelperDecide
<1>8. CASE HelperPrepare
  <2>1. CASE FailOrCancel /\ UNCHANGED lines
    BY <1>3, <2>1 DEF FailOrCancel, Answers
  <2>2. CASE Step("load", "load")
    BY <1>4, <1>8, <2>2 DEF Step, HelperPrepare
  <2> QED
    BY <1>8, <2>1, <2>2 DEF HelperPrepare
<1>9. CASE Terminate
  <2>1. helper' = [helper EXCEPT !.term = TRUE] /\ lines' = lines
    BY <1>9 DEF Terminate
  <2>2. /\ helper' \in HelperRun /\ helper'.eid = helper.eid /\ helper'.ctl = helper.ctl
        /\ helper'.before = helper.before /\ helper'.phase = helper.phase
    BY <1>1, <2>1 DEF HelperRun
  <2> QED
    BY <1>1, <1>2, <2>1, <2>2, DownloadConstants DEF Moves
<1>10. CASE HelperDies
  BY <1>3, <1>10 DEF HelperDies, Answers
<1> QED
  BY <1>5, <1>6, <1>7, <1>8, <1>9, <1>10

\* A control line for the helper.
LEMMA SendKeeps ==
  ASSUME TypeOK, helper # None, NEW c \in Controls, Send(c)
  PROVE  /\ helper' \in HelperRun /\ helper' # None /\ helper'.phase = helper.phase /\ helper'.answer = helper.answer
         /\ helper'.eid = helper.eid /\ helper'.before = helper.before /\ helper'.ctl = Append(helper.ctl, c)
<1>1. helper \in HelperRun
  BY DEF TypeOK
<1>2. Append(helper.ctl, c) \in Seq(Controls)
  BY <1>1 DEF HelperRun
<1>3. /\ helper' \in HelperRun /\ helper'.phase = helper.phase /\ helper'.answer = helper.answer
      /\ helper'.eid = helper.eid /\ helper'.before = helper.before /\ helper'.ctl = Append(helper.ctl, c)
  BY <1>1, <1>2 DEF HelperRun, Send
<1> QED
  BY <1>3, DownloadConstants

\* The install: the card takes the profile or refuses it, or the helper cannot tell.
Loads ==
  /\ helper # None /\ helper.phase = "load"
  /\ helper' \in HelperRun /\ helper' # None /\ helper'.phase = "ended" /\ helper'.answer # None
  /\ helper'.eid = helper.eid /\ helper'.ctl = helper.ctl /\ helper'.before = helper.before
  /\ \/ /\ slot = helper.eid
        /\ cards' = [cards EXCEPT ![slot] =
                             [profs |-> @.profs \cup {Own(slot)}, notes |-> @.notes \cup {<<slot, 1>>}]]
        /\ wrote' = {Own(slot)}
        /\ helper'.answer \notin {"download_cancelled", "download_failed", "not_started"}
     \/ slot = helper.eid /\ cards' = [cards EXCEPT ![slot].notes = @ \cup {<<slot, 1>>}] /\ UNCHANGED wrote
     \/ UNCHANGED <<cards, wrote>>
  /\ UNCHANGED <<slot, lines, agent, asked, named, budget>>

\* What HelperLoad does, in the one form the preservation lemmas use.
LEMMA HelperLoads ==
  ASSUME TypeOK, HelperLoad
  PROVE  Loads
<1>1. helper # None /\ helper.phase = "load"
  BY DEF HelperLoad
<1>2. \A a \in Answers : End(a) =>
        /\ helper' \in HelperRun /\ helper' # None /\ helper'.phase = "ended" /\ helper'.answer # None
        /\ helper'.eid = helper.eid /\ helper'.ctl = helper.ctl /\ helper'.before = helper.before /\ helper'.answer = a
  BY <1>1, EndMoves
<1> QED
  BY <1>1, <1>2 DEF HelperLoad, Loads, Answers

\* The answer settles the operation, or leaves it to the read-back.
Ends ==
  /\ helper # None /\ helper.phase = "ended" /\ helper' = None
  /\ op' \in Operation /\ op' # None /\ op'.kind = op.kind /\ op'.eid = op.eid /\ op'.profs = op.profs
  /\ op'.before \in {op.before, helper.before}
  /\ reported' \in BOOLEAN
  /\ \/ thread' = "settle" /\ op'.state \in {op.state, "verifying"}
     \/ /\ thread' \in {"clear", "clear_queue"} /\ op'.state \in {"cancelled", "failed"}
        /\ helper.answer \in {"download_cancelled", "download_failed", "not_started"}
  /\ UNCHANGED <<cards, slot, lines, up, inv, controls, journal, found, queued, history, budget>>

\* What taking the helper's answer does, in the one form the preservation lemmas use.
LEMMA AnswerEnds ==
  ASSUME TypeOK, UntouchedInv, ThreadInv, ReadAnswer
  PROVE  Ends
<1>1. /\ helper # None /\ helper.phase = "ended" /\ helper' = None /\ helper \in HelperRun
      /\ UNCHANGED <<cards, slot, lines, up, inv, controls, journal, found, queued, history, budget>>
  BY DEF ReadAnswer, TypeOK
<1>2. op \in Operation /\ op # None /\ reported \in BOOLEAN
  BY DEF TypeOK, ThreadInv, Running, ReadAnswer
<1>3. helper.answer \in Answers /\ helper.before \in SUBSET Items
  BY <1>1 DEF UntouchedInv, HelperRun
<1>4. Answered(helper.answer, helper.before)
  BY DEF ReadAnswer
<1>5. CASE helper.answer = "ok"
  <2>1. op' = [op EXCEPT !.state = "verifying", !.before = helper.before] /\ thread' = "settle" /\ reported' = TRUE
    BY <1>4, <1>5 DEF Answered
  <2>2. /\ op' \in Operation /\ op'.kind = op.kind /\ op'.eid = op.eid /\ op'.profs = op.profs
        /\ op'.before = helper.before /\ op'.state = "verifying"
    BY <1>2, <1>3, <2>1 DEF Operation, OpStates
  <2> QED
    BY <1>1, <2>1, <2>2, DownloadConstants DEF Ends
<1>6. CASE helper.answer \in {"download_cancelled", "not_started"}
  <2>1. PICK s \in {"cancelled", "failed"} : Finish(s) /\ reported' = reported
    BY <1>4, <1>6 DEF Answered
  <2>2. s \in OpStates
    BY DEF OpStates, Resolved
  <2>3. op' = [op EXCEPT !.state = s] /\ thread' = "clear"
    BY <2>1 DEF Finish
  <2>4. /\ op' \in Operation /\ op' # None /\ op'.kind = op.kind /\ op'.eid = op.eid /\ op'.profs = op.profs
        /\ op'.before = op.before /\ op'.state = s
    BY <1>2, <2>2, <2>3, StateOnly
  <2> QED
    BY <1>1, <1>2, <1>6, <2>1, <2>3, <2>4 DEF Ends
<1>7. CASE helper.answer = "download_failed"
  <2>1. op' = [op EXCEPT !.state = "failed", !.before = helper.before] /\ thread' = "clear_queue" /\ reported' = reported
    BY <1>4, <1>7 DEF Answered
  <2>2. /\ op' \in Operation /\ op'.kind = op.kind /\ op'.eid = op.eid /\ op'.profs = op.profs
        /\ op'.before = helper.before /\ op'.state = "failed"
    BY <1>2, <1>3, <2>1 DEF Operation, OpStates, Resolved
  <2> QED
    BY <1>1, <1>2, <1>7, <2>1, <2>2, DownloadConstants DEF Ends
<1>8. CASE helper.answer = "outcome_unknown"
  <2>1. op' = [op EXCEPT !.before = helper.before] /\ thread' = "settle" /\ reported' = FALSE
    BY <1>4, <1>8 DEF Answered
  <2>2. /\ op' \in Operation /\ op'.kind = op.kind /\ op'.eid = op.eid /\ op'.profs = op.profs
        /\ op'.before = helper.before /\ op'.state = op.state
    BY <1>2, <1>3, <2>1 DEF Operation
  <2> QED
    BY <1>1, <2>1, <2>2, DownloadConstants DEF Ends
<1>9. CASE helper.answer = "lost"
  <2>1. op' = op /\ thread' = "settle" /\ reported' = FALSE
    BY <1>4, <1>9 DEF Answered
  <2> QED
    BY <1>1, <1>2, <2>1 DEF Ends
<1> QED
  BY <1>3, <1>5, <1>6, <1>7, <1>8, <1>9 DEF Answers

\* A read of settle_download(): the new profile, none, or one more read.
Settles ==
  /\ helper = None /\ up /\ op # None /\ op \in Operation
  /\ inv' \in List /\ inv' # None
  /\ inv'.eid = slot /\ inv'.profs = cards[slot].profs /\ inv'.notes = cards[slot].notes
  /\ \/ op' = op /\ found' \in cards[slot].profs \ op.profs /\ thread' \in {"name", "finish"}
     \/ /\ cards[slot].profs \subseteq op.profs
        /\ op' \in Operation /\ op' # None /\ op'.state = "failed" /\ op'.kind = op.kind /\ op'.eid = op.eid
        /\ op'.profs = op.profs /\ op'.before = op.before
        /\ thread' = "clear" /\ found' = found
     \/ UNCHANGED <<op, thread, found>>
  /\ UNCHANGED <<cards, slot, helper, lines, up, controls, journal, reported, queued, history, budget>>

\* What reading the card back after a lost answer does, in one form.
LEMMA SettleReads ==
  ASSUME TypeOK, ThreadInv, SettleRead
  PROVE  Settles
<1>1. helper = None /\ up /\ op # None /\ op \in Operation
  BY DEF SettleRead, Readable, ThreadInv, Running, TypeOK
<1>2. /\ inv' \in List /\ inv' # None
      /\ inv'.eid = slot /\ inv'.profs = cards[slot].profs /\ inv'.notes = cards[slot].notes
  BY ReadingCopies DEF SettleRead
<1>3. /\ \/ op' = op /\ found' \in cards[slot].profs \ op.profs /\ thread' \in {"name", "finish"}
         \/ cards[slot].profs \ op.profs = {} /\ Finish("failed") /\ found' = found
         \/ UNCHANGED <<op, thread, found>>
      /\ UNCHANGED <<cards, slot, helper, lines, up, controls, journal, reported, queued, history, budget>>
  BY <1>2 DEF SettleRead
<1>4. CASE cards[slot].profs \ op.profs = {} /\ Finish("failed") /\ found' = found
  <2>1. /\ op' \in Operation /\ op' # None /\ op'.state = "failed" /\ op'.kind = op.kind /\ op'.eid = op.eid
        /\ op'.profs = op.profs /\ op'.before = op.before
    BY <1>1, <1>4, StateOnly DEF Finish, OpStates, Resolved
  <2> QED
    BY <1>1, <1>2, <1>3, <1>4, <2>1 DEF Settles, Finish
<1> QED
  BY <1>1, <1>2, <1>3, <1>4 DEF Settles

\* Another state of the same operation, by a client, a progress line or the thread.
Shows(state) ==
  /\ op # None /\ op' \in Operation /\ op' # None /\ op'.kind = op.kind /\ op'.eid = op.eid
  /\ op'.profs = op.profs /\ op'.before = op.before /\ op'.state = state

\* DownloadConfirm() hands the answer to the thread.
LEMMA ConfirmShows ==
  ASSUME TypeOK, NEW install \in BOOLEAN, NEW nickname \in BOOLEAN, DownloadConfirm(install, nickname)
  PROVE  Shows("connecting") /\ Running(op)
<1>1. op # None /\ op \in Operation /\ Running(op)
  BY DEF DownloadConfirm, TypeOK, Running
<1>2. op' = [op EXCEPT !.nickname = nickname, !.state = "connecting"]
  BY DEF DownloadConfirm
<1>3. /\ op' \in Operation /\ op'.kind = op.kind /\ op'.eid = op.eid /\ op'.profs = op.profs
      /\ op'.before = op.before /\ op'.state = "connecting"
  BY <1>1, <1>2 DEF Operation, OpStates
<1> QED
  BY <1>1, <1>3, DownloadConstants DEF Shows

\* A progress line shows a state that is not final.
LEMMA ProgressShows ==
  ASSUME TypeOK, ThreadInv, OnProgress
  PROVE  \E s \in OpStates \ Resolved : Shows(s) /\ Running(op)
<1>1. op # None /\ op \in Operation /\ Running(op) /\ lines # <<>> /\ lines \in Seq({"preview", "prepare", "load"})
  BY DEF OnProgress, TypeOK, ThreadInv, Running
<1>2. Head(lines) \in {"preview", "prepare", "load"}
  BY <1>1
<1>3. PICK s \in {"awaiting", "connecting", "installing"} : op' = [op EXCEPT !.state = s]
  BY <1>2 DEF OnProgress
<1>4. s \in OpStates \ Resolved
  BY DEF OpStates, Resolved
<1> QED
  BY <1>1, <1>3, <1>4, StateOnly DEF Shows

\* The window of settle_download() closes, or the thread reports success.
LEMMA FinishShows ==
  ASSUME TypeOK, ThreadInv, SettleWindowCloses \/ SettleFinish
  PROVE  Running(op) /\ Shows(IF thread = "settle" THEN "unknown" ELSE "succeeded")
<1>1. op # None /\ op \in Operation /\ Running(op) /\ thread \in {"settle", "finish"}
  BY DEF SettleWindowCloses, SettleFinish, TypeOK, ThreadInv, Running
<1>2. op' = [op EXCEPT !.state = IF thread = "settle" THEN "unknown" ELSE "succeeded"]
  BY DEF SettleWindowCloses, SettleFinish, Finish
<1> QED
  BY <1>1, <1>2, StateOnly DEF Shows, OpStates, Resolved

\* recover() takes the operation from the journal.
LEMMA RecoverReads ==
  ASSUME TypeOK, Recover
  PROVE  \/ journal = None /\ UNCHANGED <<op, thread>>
         \/ /\ journal # None /\ thread' = "settle" /\ op' \in Operation /\ op' # None /\ op'.state = "verifying"
            /\ op'.kind = journal.kind /\ op'.eid = journal.eid /\ op'.profs = journal.profs
            /\ op'.before = journal.before
<1>1. CASE journal = None
  BY <1>1 DEF Recover
<1>2. CASE journal # None
  <2>1. journal \in Operation
    BY <1>2 DEF TypeOK
  <2> QED
    BY <1>2, <2>1, StateOnly DEF Recover, OpStates
<1> QED
  BY <1>1, <1>2

\* A claim: the operation's record is made from the list.
LEMMA ClaimTyped ==
  ASSUME TypeOK, Download \/ NextChange
  PROVE  /\ op' \in Operation /\ op' # None /\ inv # None /\ inv \in List
         /\ op'.eid = inv.eid /\ op'.before = inv.notes
         /\ Download => op'.kind = "download" /\ op'.state = "connecting" /\ op'.profs = inv.profs
         /\ NextChange => op'.kind = "other"
<1>1. inv # None /\ inv \in List
  BY DEF Download, NextChange, TypeOK
<1>2. inv.eid \in Eids /\ inv.notes \in SUBSET Items /\ inv.profs \in SUBSET Items
  BY <1>1 DEF List
<1>3. ASSUME NEW k \in {"download", "other"}, NEW s \in {"connecting", "pending"}, NEW ps \in SUBSET Items,
             op' = [kind |-> k, state |-> s, before |-> inv.notes, profs |-> ps, eid |-> inv.eid, nickname |-> FALSE]
      PROVE  /\ op' \in Operation /\ op' # None /\ op'.eid = inv.eid /\ op'.before = inv.notes
             /\ op'.kind = k /\ op'.state = s /\ op'.profs = ps
  <2>1. op' \in Operation
    BY <1>2, <1>3 DEF Operation, OpStates
  <2> QED
    BY <1>3, <2>1, DownloadConstants
<1>4. CASE Download
  <2>1. /\ op' \in Operation /\ op' # None /\ op'.eid = inv.eid /\ op'.before = inv.notes
        /\ op'.kind = "download" /\ op'.state = "connecting" /\ op'.profs = inv.profs
    BY <1>2, <1>3, <1>4 DEF Download
  <2>2. ~NextChange
    BY <1>4 DEF Download, NextChange
  <2> QED
    BY <1>1, <2>1, <2>2
<1>5. CASE NextChange
  <2>1. /\ op' \in Operation /\ op' # None /\ op'.eid = inv.eid /\ op'.before = inv.notes /\ op'.kind = "other"
    BY <1>2, <1>3, <1>5 DEF NextChange
  <2>2. ~Download
    BY <1>5 DEF Download, NextChange
  <2> QED
    BY <1>1, <2>1, <2>2
<1> QED
  BY <1>4, <1>5

\* A new helper process knows the card of its operation and no controls.
LEMMA StartsFresh ==
  ASSUME TypeOK, UntouchedInv, StartHelper
  PROVE  /\ helper' \in HelperRun /\ helper' # None /\ helper'.phase = "check" /\ helper'.eid = op.eid
         /\ helper'.ctl = <<>> /\ helper'.before = {} /\ helper'.answer = None /\ Running(op) /\ Untouched
         /\ op \in Operation
<1>1. op \in Operation /\ Running(op) /\ Untouched
  BY DEF StartHelper, UntouchedInv, Running, TypeOK
<1>2. helper' = [phase |-> "check", eid |-> op.eid, ctl |-> <<>>, term |-> FALSE, before |-> {}, answer |-> None]
  BY DEF StartHelper
<1>3. <<>> \in Seq(Controls)
  OBVIOUS
<1>4. helper' \in HelperRun
  BY <1>1, <1>2, <1>3 DEF HelperRun, Operation
<1> QED
  BY <1>1, <1>2, <1>4, DownloadConstants

\* A crash leaves the helper with one more control, or no helper.
LEMMA CrashKeeps ==
  ASSUME TypeOK, Crash
  PROVE  \/ helper = None /\ helper' = None
         \/ /\ helper # None /\ helper' \in HelperRun /\ helper' # None /\ helper'.phase = helper.phase
            /\ helper'.answer = helper.answer /\ helper'.eid = helper.eid /\ helper'.before = helper.before
            /\ helper'.ctl = Append(helper.ctl, "cancel")
<1>1. CASE helper = None
  BY <1>1 DEF Crash
<1>2. CASE helper # None
  <2>1. Send("cancel") /\ "cancel" \in Controls
    BY <1>2 DEF Crash, Send, Controls
  <2> QED
    BY <1>2, <2>1, SendKeeps
<1> QED
  BY <1>1, <1>2

\* Every step keeps the types.
LEMMA StepTyped == DownloadInv /\ [Next]_vars => TypeOK'
<1> SUFFICES ASSUME DownloadInv, [Next]_vars PROVE TypeOK'
    OBVIOUS
<1>0. TypeOK /\ UntouchedInv /\ ThreadInv
  BY DEF DownloadInv
<1> USE <1>0 DEF TypeOK, agent, history
<1>1. CASE Refresh
  BY <1>1, ReadingCopies DEF Refresh
<1>2. CASE Download
  <2>1. op' \in Operation /\ controls' = <<>> /\ asked' = asked \cup {"download"} /\ thread' = "wan"
    BY <1>2, ClaimTyped DEF Download
  <2> QED
    BY <1>2, <2>1 DEF Download
<1>3. CASE WanUp
  BY <1>3 DEF WanUp
<1>4. CASE Abandon
  BY <1>4 DEF Abandon
<1>5. CASE WriteJournal
  BY <1>5 DEF WriteJournal
<1>6. CASE StartHelper
  BY <1>6, <1>0, StartsFresh DEF StartHelper
<1>7. ASSUME NEW install \in BOOLEAN, NEW nickname \in BOOLEAN, DownloadConfirm(install, nickname)
      PROVE  TypeOK'
  <2>1. op' \in Operation
    BY <1>7, ConfirmShows DEF Shows
  <2>2. PICK c \in Controls : controls' = Append(controls, c) /\ asked' = asked \cup {c}
    BY <1>7 DEF DownloadConfirm, Controls
  <2> QED
    BY <1>7, <2>1, <2>2 DEF DownloadConfirm
<1>8. CASE DownloadCancel
  <2>1. budget' \in [crash : Nat, swap : Nat, cancel : Nat, max : Bounds]
    BY <1>8 DEF DownloadCancel
  <2>2. "cancel" \in Controls
    BY DEF Controls
  <2> QED
    BY <1>8, <2>1, <2>2 DEF DownloadCancel
<1>9. CASE ForwardControl
  <2>1. Head(controls) \in Controls /\ Tail(controls) \in Seq(Controls)
    BY <1>9 DEF ForwardControl
  <2>2. helper' \in HelperRun
    BY <1>9, <2>1, SendKeeps DEF ForwardControl
  <2> QED
    BY <1>9, <2>1, <2>2 DEF ForwardControl
<1>10. CASE PreviewExpires
  <2>1. helper' \in HelperRun
    BY <1>10, SendKeeps DEF PreviewExpires, Controls
  <2> QED
    BY <1>10, <2>1 DEF PreviewExpires
<1>11. CASE OnProgress
  <2>1. op' \in Operation
    BY <1>11, <1>0, ProgressShows DEF Shows
  <2>2. Tail(lines) \in Seq({"preview", "prepare", "load"})
    BY <1>11 DEF OnProgress
  <2> QED
    BY <1>11, <2>1, <2>2 DEF OnProgress
<1>12. CASE ReadAnswer
  <2>1. Ends
    BY <1>12, <1>0, AnswerEnds
  <2> QED
    BY <2>1 DEF Ends
<1>13. CASE Moves
  BY <1>13 DEF Moves
<1>14. CASE HelperLoad
  <2>1. Loads
    BY <1>14, HelperLoads
  <2>2. Own(slot) \in Items
    BY DEF Own, Items
  <2>3. cards' \in [Eids -> [profs : SUBSET Items, notes : SUBSET Items]] /\ wrote' \subseteq Items
    <3>1. CASE UNCHANGED <<cards, wrote>>
      BY <3>1
    <3>2. CASE cards' = [cards EXCEPT ![slot].notes = @ \cup {<<slot, 1>>}] /\ UNCHANGED wrote
      BY <2>2, <3>2 DEF Own
    <3>3. CASE /\ cards' = [cards EXCEPT ![slot] =
                             [profs |-> @.profs \cup {Own(slot)}, notes |-> @.notes \cup {<<slot, 1>>}]]
               /\ wrote' = {Own(slot)}
      BY <2>2, <3>3 DEF Own
    <3> QED
      BY <2>1, <3>1, <3>2, <3>3 DEF Loads
  <2> QED
    BY <2>1, <2>3 DEF Loads
<1>15. CASE HelperLeaves
  BY <1>15 DEF HelperLeaves
<1>16. CASE SettleRead
  <2>1. Settles
    BY <1>16, <1>0, SettleReads
  <2>2. found' \in Items \cup {None}
    BY <2>1 DEF Settles
  <2> QED
    BY <2>1, <2>2 DEF Settles
<1>17. CASE SettleWindowCloses
  <2>1. op' \in Operation
    BY <1>17, <1>0, FinishShows DEF Shows
  <2> QED
    BY <1>17, <2>1 DEF SettleWindowCloses, Finish
<1>18. CASE SettleName
  <2>1. inv' \in List \cup {None}
    BY <1>18, ReadingCopies DEF SettleName
  <2>2. named' \subseteq Items
    BY <1>18 DEF SettleName
  <2> QED
    BY <1>18, <2>1, <2>2 DEF SettleName
<1>19. CASE SettleFinish
  <2>1. op' \in Operation
    BY <1>19, <1>0, FinishShows DEF Shows
  <2> QED
    BY <1>19, <2>1 DEF SettleFinish
<1>20. CASE ClearJournal
  BY <1>20 DEF ClearJournal
<1>21. CASE QueueReceipts
  <2>1. inv # None => inv.notes \subseteq Items
    BY DEF List
  <2> QED
    BY <1>21, <2>1 DEF QueueReceipts
<1>22. CASE NextChange
  BY <1>22, ClaimTyped DEF NextChange
<1>23. CASE Crash
  <2>1. helper' \in HelperRun \cup {None}
    BY <1>23, CrashKeeps
  <2>2. budget' \in [crash : Nat, swap : Nat, cancel : Nat, max : Bounds]
    BY <1>23 DEF Crash
  <2>3. up' \in BOOLEAN /\ reported' \in BOOLEAN
    BY <1>23, Zenon DEF Crash
  <2> QED
    BY <1>23, <2>1, <2>2, <2>3 DEF Crash
<1>24. CASE Recover
  <2>1. op' \in Operation \cup {None} /\ thread' \in {thread, "settle"}
    BY <1>24, RecoverReads
  <2>2. up' \in BOOLEAN
    BY <1>24, Zenon DEF Recover
  <2> QED
    BY <1>24, <2>1, <2>2 DEF Recover
<1>25. CASE Swap
  <2>1. budget' \in [crash : Nat, swap : Nat, cancel : Nat, max : Bounds]
    <3>1. budget \in [crash : Nat, swap : Nat, cancel : Nat, max : Bounds]
      OBVIOUS
    <3>2. budget' = [budget EXCEPT !.swap = @ + 1]
      BY <1>25 DEF Swap
    <3> HIDE <1>0 DEF TypeOK
    <3> QED
      BY <3>1, <3>2
  <2> QED
    BY <1>25, <2>1 DEF Swap
<1>26. CASE UNCHANGED vars
  BY <1>26 DEF vars
<1> QED
  BY <1>1, <1>2, <1>3, <1>4, <1>5, <1>6, <1>7, <1>8, <1>9, <1>10, <1>11, <1>12, <1>13,
     <1>14, <1>15, <1>16, <1>17, <1>18, <1>19, <1>20, <1>21, <1>22, <1>23, <1>24, <1>25, <1>26, <1>0, HelperMoves DEF Next

(***************************************************************************)
(* Cards and consent.                                                      *)
(***************************************************************************)

\* The install is the first write, and leaves at most the new profile and its receipt.
LEMMA LoadWrites ==
  ASSUME DownloadInv, HelperLoad
  PROVE  /\ Loads /\ Untouched /\ slot \in Eids
         /\ \A e \in Eids : e # slot => cards'[e] = cards[e]
         /\ cards'[slot].profs = cards[slot].profs \cup wrote' /\ wrote' \subseteq {Own(slot)}
         /\ cards[slot].notes \subseteq cards'[slot].notes /\ cards'[slot].notes \subseteq cards[slot].notes \cup {Own(slot)}
         /\ wrote' # {} => Own(slot) \in cards'[slot].notes /\ slot = helper.eid
<1>1. TypeOK /\ UntouchedInv
  BY DEF DownloadInv
<1>2. Loads
  BY <1>1, HelperLoads
<1>3. Untouched /\ wrote = {}
  BY <1>1, <1>2 DEF Loads, UntouchedInv, Untouched
<1>4. cards \in [Eids -> [profs : SUBSET Items, notes : SUBSET Items]] /\ slot \in Eids
  BY <1>1 DEF TypeOK
<1>5. CASE UNCHANGED <<cards, wrote>>
  BY <1>2, <1>3, <1>4, <1>5
<1>6. CASE cards' = [cards EXCEPT ![slot].notes = @ \cup {<<slot, 1>>}] /\ UNCHANGED wrote
  <2>1. \A e \in Eids : e # slot => cards'[e] = cards[e]
    BY <1>4, <1>6
  <2>2. cards'[slot].profs = cards[slot].profs /\ cards'[slot].notes = cards[slot].notes \cup {Own(slot)}
    BY <1>4, <1>6 DEF Own
  <2> QED
    BY <1>2, <1>3, <1>4, <1>6, <2>1, <2>2
<1>7. CASE /\ slot = helper.eid
           /\ cards' = [cards EXCEPT ![slot] =
                             [profs |-> @.profs \cup {Own(slot)}, notes |-> @.notes \cup {<<slot, 1>>}]]
           /\ wrote' = {Own(slot)}
  <2>1. \A e \in Eids : e # slot => cards'[e] = cards[e]
    BY <1>4, <1>7
  <2>2. cards'[slot].profs = cards[slot].profs \cup {Own(slot)} /\ cards'[slot].notes = cards[slot].notes \cup {Own(slot)}
    BY <1>4, <1>7 DEF Own
  <2> QED
    BY <1>2, <1>3, <1>4, <1>7, <2>1, <2>2
<1> QED
  BY <1>2, <1>5, <1>6, <1>7 DEF Loads

\* What a card in its proper state gives to a reader.
LEMMA ReadingKeepsCards ==
  ASSUME DownloadInv, Reading, UNCHANGED <<cards, wrote>>
  PROVE  CardInv'
<1>1. TypeOK /\ CardInv
  BY DEF DownloadInv
<1>2. slot \in Eids
  BY <1>1 DEF TypeOK
<1>3. /\ inv'.eid = slot /\ inv'.profs = cards[slot].profs /\ inv'.notes = cards[slot].notes
  BY <1>1, ReadingCopies
<1> QED
  BY <1>1, <1>2, <1>3 DEF CardInv

\* The cards hold what was written, and lists are read from them.
LEMMA StepCards == DownloadInv /\ [Next]_vars => CardInv'
<1> SUFFICES ASSUME DownloadInv, [Next]_vars PROVE CardInv'
    OBVIOUS
<1>0. TypeOK /\ CardInv
  BY DEF DownloadInv
<1> USE <1>0 DEF CardInv, agent, history
<1>1. CASE Refresh
  BY <1>1, ReadingKeepsCards DEF Refresh
<1>2. CASE Download
  BY <1>2 DEF Download
<1>3. CASE WanUp
  BY <1>3 DEF WanUp
<1>4. CASE Abandon
  BY <1>4 DEF Abandon
<1>5. CASE WriteJournal
  BY <1>5 DEF WriteJournal
<1>6. CASE StartHelper
  BY <1>6 DEF StartHelper
<1>7. ASSUME NEW install \in BOOLEAN, NEW nickname \in BOOLEAN, DownloadConfirm(install, nickname)
      PROVE  CardInv'
  BY <1>7 DEF DownloadConfirm
<1>8. CASE DownloadCancel
  BY <1>8 DEF DownloadCancel
<1>9. CASE ForwardControl
  BY <1>9 DEF ForwardControl
<1>10. CASE PreviewExpires
  BY <1>10 DEF PreviewExpires
<1>11. CASE OnProgress
  BY <1>11 DEF OnProgress
<1>12. CASE ReadAnswer
  BY <1>12 DEF ReadAnswer
<1>13. CASE Moves
  BY <1>13 DEF Moves
<1>14. CASE HelperLoad
  <2>1. /\ \A e \in Eids : e # slot => cards'[e] = cards[e]
        /\ cards'[slot].profs = cards[slot].profs \cup wrote' /\ wrote' \subseteq {Own(slot)} /\ wrote = {}
        /\ cards[slot].notes \subseteq cards'[slot].notes /\ cards'[slot].notes \subseteq cards[slot].notes \cup {Own(slot)}
        /\ wrote' # {} => Own(slot) \in cards'[slot].notes
        /\ slot \in Eids /\ UNCHANGED inv
    BY <1>14, LoadWrites DEF Untouched, Loads
  <2>2. inv # None => inv.eid \in Eids
    BY DEF TypeOK, List
  <2>3. \A e \in Eids : e # slot => Own(e) # Own(slot)
    BY DEF Own
  <2>4. ASSUME NEW e \in Eids
        PROVE  /\ <<e, 0>> \in cards'[e].profs /\ cards'[e].profs \subseteq {<<e, 0>>, Own(e)}
               /\ cards'[e].notes \subseteq {<<e, 0>>, Own(e)}
               /\ Own(e) \in cards'[e].profs => Own(e) \in cards'[e].notes
               /\ Own(e) \in cards'[e].profs <=> Own(e) \in wrote'
               /\ cards[e].profs \subseteq cards'[e].profs /\ cards[e].notes \subseteq cards'[e].notes
    <3>1. CASE e # slot
      BY <2>1, <2>3, <3>1
    <3>2. CASE e = slot
      BY <2>1, <3>2
    <3> QED
      BY <3>1, <3>2
  <2>5. inv' # None => /\ <<inv'.eid, 0>> \in inv'.profs /\ inv'.profs \subseteq cards'[inv'.eid].profs
                       /\ inv'.notes \subseteq cards'[inv'.eid].notes
                       /\ Own(inv'.eid) \in inv'.profs => Own(inv'.eid) \in inv'.notes
    BY <2>1, <2>2, <2>4
  <2> QED
    BY <2>4, <2>5
<1>15. CASE HelperLeaves
  BY <1>15 DEF HelperLeaves
<1>16. CASE SettleRead
  BY <1>16, ReadingKeepsCards DEF SettleRead
<1>17. CASE SettleWindowCloses
  BY <1>17 DEF SettleWindowCloses
<1>18. CASE SettleName
  <2>1. CASE Reading
    BY <1>18, <2>1, ReadingKeepsCards DEF SettleName
  <2>2. CASE UNCHANGED inv
    BY <1>18, <2>2 DEF SettleName
  <2> QED
    BY <1>18, <2>1, <2>2 DEF SettleName
<1>19. CASE SettleFinish
  BY <1>19 DEF SettleFinish
<1>20. CASE ClearJournal
  BY <1>20 DEF ClearJournal
<1>21. CASE QueueReceipts
  BY <1>21 DEF QueueReceipts
<1>22. CASE NextChange
  BY <1>22 DEF NextChange
<1>23. CASE Crash
  BY <1>23 DEF Crash
<1>24. CASE Recover
  BY <1>24 DEF Recover
<1>25. CASE Swap
  BY <1>25 DEF Swap
<1>26. CASE UNCHANGED vars
  BY <1>26 DEF vars
<1> QED
  BY <1>1, <1>2, <1>3, <1>4, <1>5, <1>6, <1>7, <1>8, <1>9, <1>10, <1>11, <1>12, <1>13,
     <1>14, <1>15, <1>16, <1>17, <1>18, <1>19, <1>20, <1>21, <1>22, <1>23, <1>24, <1>25, <1>26, <1>0, HelperMoves DEF Next

\* Nothing is written before the helper loads the package.
LEMMA StepUntouched == DownloadInv /\ [Next]_vars => UntouchedInv'
<1> SUFFICES ASSUME DownloadInv, [Next]_vars PROVE UntouchedInv'
    OBVIOUS
<1>0. TypeOK /\ UntouchedInv /\ ThreadInv
  BY DEF DownloadInv
<1> USE <1>0 DEF UntouchedInv, Untouched, agent, history
<1>1. CASE Refresh
  BY <1>1 DEF Refresh
<1>2. CASE Download
  <2>1. Running(op)' /\ op'.state = "connecting"
    BY <1>2, ClaimTyped DEF Running
  <2> QED
    BY <1>2, <2>1 DEF Download
<1>3. CASE WanUp
  BY <1>3 DEF WanUp
<1>4. CASE Abandon
  BY <1>4 DEF Abandon
<1>5. CASE WriteJournal
  BY <1>5 DEF WriteJournal
<1>6. CASE StartHelper
  BY <1>6, StartsFresh DEF StartHelper, Running
<1>7. ASSUME NEW install \in BOOLEAN, NEW nickname \in BOOLEAN, DownloadConfirm(install, nickname)
      PROVE  UntouchedInv'
  <2>1. Shows("connecting") /\ Running(op)
    BY <1>7, ConfirmShows
  <2>2. "download" \in asked /\ asked \subseteq asked'
    BY <1>7, <2>1 DEF DownloadConfirm, Running
  <2>3. Running(op)' /\ op'.state = "connecting"
    BY <2>1 DEF Shows, Running
  <2> QED
    BY <1>7, <2>2, <2>3 DEF DownloadConfirm
<1>8. CASE DownloadCancel
  BY <1>8 DEF DownloadCancel, Running
<1>9. CASE ForwardControl
  <2>1. Head(controls) \in Controls
    BY <1>9 DEF ForwardControl, TypeOK
  <2>2. helper # None /\ helper' # None /\ helper'.phase = helper.phase /\ helper'.answer = helper.answer
    BY <1>9, <2>1, SendKeeps DEF ForwardControl
  <2> QED
    BY <1>9, <2>2 DEF ForwardControl, Running
<1>10. CASE PreviewExpires
  <2>1. helper # None /\ helper' # None /\ helper'.phase = helper.phase /\ helper'.answer = helper.answer
    BY <1>10, SendKeeps DEF PreviewExpires, Controls
  <2> QED
    BY <1>10, <2>1 DEF PreviewExpires, Running
<1>11. CASE OnProgress
  <2>1. Running(op) /\ op # None /\ thread = "run"
    BY <1>11, ProgressShows DEF OnProgress, Running
  <2> QED
    BY <1>11, <2>1 DEF OnProgress
<1>12. CASE ReadAnswer
  <2>1. Ends
    BY <1>12, AnswerEnds
  <2> QED
    BY <2>1 DEF Ends
<1>13. CASE Moves
  BY <1>13 DEF Moves, Running
<1>14. CASE HelperLoad
  <2>1. Loads /\ Untouched
    BY <1>14, LoadWrites
  <2> QED
    BY <2>1 DEF Loads, Untouched
<1>15. CASE HelperLeaves
  BY <1>15 DEF HelperLeaves
<1>16. CASE SettleRead
  <2>1. Settles
    BY <1>16, SettleReads
  <2> QED
    BY <2>1 DEF Settles
<1>17. CASE SettleWindowCloses
  BY <1>17, FinishShows DEF SettleWindowCloses, Finish, Running
<1>18. CASE SettleName
  BY <1>18 DEF SettleName
<1>19. CASE SettleFinish
  BY <1>19, FinishShows DEF SettleFinish, Running
<1>20. CASE ClearJournal
  BY <1>20 DEF ClearJournal
<1>21. CASE QueueReceipts
  BY <1>21 DEF QueueReceipts
<1>22. CASE NextChange
  <2>1. op # None /\ op.state # "connecting"
    BY <1>22 DEF NextChange, Resolved
  <2> QED
    BY <1>22, <2>1 DEF NextChange
<1>23. CASE Crash
  <2>1. helper = None <=> helper' = None
    BY <1>23, CrashKeeps
  <2>2. helper # None => helper'.phase = helper.phase /\ helper'.answer = helper.answer
    BY <1>23, CrashKeeps
  <2> QED
    BY <1>23, <2>1, <2>2 DEF Crash
<1>24. CASE Recover
  <2>1. thread' = "settle" \/ UNCHANGED <<op, thread>>
    BY <1>24, RecoverReads
  <2>2. journal = None => UNCHANGED <<op, thread>>
    BY <1>24 DEF Recover
  <2> QED
    BY <1>24, <2>1, <2>2 DEF Recover, Running
<1>25. CASE Swap
  BY <1>25 DEF Swap
<1>26. CASE UNCHANGED vars
  BY <1>26 DEF vars
<1> QED
  BY <1>1, <1>2, <1>3, <1>4, <1>5, <1>6, <1>7, <1>8, <1>9, <1>10, <1>11, <1>12, <1>13,
     <1>14, <1>15, <1>16, <1>17, <1>18, <1>19, <1>20, <1>21, <1>22, <1>23, <1>24, <1>25, <1>26, <1>0, HelperMoves DEF Next

\* A channel of controls whose orders to install are all in A.
LEMMA ConsentAppended ==
  ASSUME NEW ctl \in Seq(Controls), NEW c \in Controls, NEW A, NEW B, A \subseteq B,
         \A i \in 1 .. Len(ctl) : ctl[i] = "install" => "install" \in A,
         c = "install" => "install" \in B
  PROVE  \A i \in 1 .. Len(Append(ctl, c)) : Append(ctl, c)[i] = "install" => "install" \in B
<1> SUFFICES ASSUME NEW i \in 1 .. Len(Append(ctl, c)), Append(ctl, c)[i] = "install" PROVE "install" \in B
    OBVIOUS
<1>1. Len(Append(ctl, c)) = Len(ctl) + 1
  OBVIOUS
<1>2. CASE i = Len(ctl) + 1
  BY <1>2
<1>3. CASE i \in 1 .. Len(ctl)
  BY <1>3
<1> QED
  BY <1>1, <1>2, <1>3

\* Dropping the first control line leaves only lines that were there, consent included.
LEMMA ConsentTail ==
  ASSUME NEW ctl \in Seq(Controls), ctl # <<>>, NEW A,
         \A i \in 1 .. Len(ctl) : ctl[i] = "install" => "install" \in A
  PROVE  /\ \A i \in 1 .. Len(Tail(ctl)) : Tail(ctl)[i] = "install" => "install" \in A
         /\ Head(ctl) = "install" => "install" \in A
         /\ Head(ctl) \in Controls
<1>1. Len(ctl) \in Nat /\ Len(ctl) > 0 /\ Head(ctl) = ctl[1] /\ Head(ctl) \in Controls
  OBVIOUS
<1>2. \A i \in 1 .. Len(Tail(ctl)) : Tail(ctl)[i] = ctl[i + 1] /\ i + 1 \in 1 .. Len(ctl)
  BY <1>1
<1> QED
  BY <1>1, <1>2

\* An order to install on its way to the card comes from a confirmed preview.
LEMMA StepConsent == DownloadInv /\ [Next]_vars => ConsentInv'
<1> SUFFICES ASSUME DownloadInv, [Next]_vars PROVE ConsentInv'
    OBVIOUS
<1>0. TypeOK /\ UntouchedInv
  BY DEF DownloadInv
<1>a. ConsentInv
  BY DEF DownloadInv
<1> USE <1>a DEF ConsentInv, Consented, InstalledOnlyIfConfirmed, agent, history
<1>1. CASE Refresh
  BY <1>1 DEF Refresh
<1>2. CASE Download
  <2>1. asked \subseteq asked' /\ controls' = <<>> /\ Len(<<>>) = 0 /\ UNCHANGED <<wrote, helper>>
    BY <1>2 DEF Download
  <2>2. \A i \in 1 .. Len(controls') : controls'[i] = "install" => "install" \in asked'
    BY <2>1
  <2> QED
    BY <2>1, <2>2
<1>3. CASE WanUp
  BY <1>3 DEF WanUp
<1>4. CASE Abandon
  <2>1. UNCHANGED <<asked, wrote, helper>> /\ controls' = <<>> /\ Len(<<>>) = 0
    BY <1>4 DEF Abandon
  <2> QED
    BY <2>1
<1>5. CASE WriteJournal
  BY <1>5 DEF WriteJournal
<1>6. CASE StartHelper
  <2>1. helper'.ctl = <<>> /\ Len(<<>>) = 0 /\ helper'.phase = "check" /\ UNCHANGED <<asked, wrote, controls>>
    BY <1>6, <1>0, StartsFresh DEF StartHelper
  <2> QED
    BY <2>1
<1>7. ASSUME NEW install \in BOOLEAN, NEW nickname \in BOOLEAN, DownloadConfirm(install, nickname)
      PROVE  ConsentInv'
  <2>1. PICK c \in Controls : controls' = Append(controls, c) /\ asked' = asked \cup {c}
    BY <1>7 DEF DownloadConfirm, Controls
  <2>2. UNCHANGED <<wrote, helper>> /\ asked \subseteq asked' /\ controls \in Seq(Controls)
    BY <1>7, <1>0, <2>1 DEF DownloadConfirm, TypeOK
  <2>3. \A i \in 1 .. Len(Append(controls, c)) : Append(controls, c)[i] = "install" => "install" \in asked'
    BY <2>1, <2>2, ConsentAppended
  <2> QED
    BY <2>1, <2>2, <2>3
<1>8. CASE DownloadCancel
  <2>1. controls' = Append(controls, "cancel") /\ asked' = asked \cup {"cancel"} /\ "cancel" \in Controls
    BY <1>8 DEF DownloadCancel, Controls
  <2>2. UNCHANGED <<wrote, helper>> /\ asked \subseteq asked' /\ controls \in Seq(Controls)
    BY <1>8, <1>0, <2>1 DEF DownloadCancel, TypeOK
  <2>3. \A i \in 1 .. Len(Append(controls, "cancel")) : Append(controls, "cancel")[i] = "install" => "install" \in asked'
    BY <2>1, <2>2, ConsentAppended
  <2> QED
    BY <2>1, <2>2, <2>3
<1>9. CASE ForwardControl
  <2>1. /\ controls # <<>> /\ controls \in Seq(Controls) /\ helper # None /\ helper \in HelperRun
        /\ UNCHANGED <<asked, wrote>>
        /\ controls' = Tail(controls) /\ Send(Head(controls))
    BY <1>9, <1>0 DEF ForwardControl, TypeOK
  <2>2. /\ \A i \in 1 .. Len(Tail(controls)) : Tail(controls)[i] = "install" => "install" \in asked
        /\ Head(controls) = "install" => "install" \in asked
        /\ Head(controls) \in Controls
    BY <2>1, ConsentTail
  <2>3. helper'.phase = helper.phase /\ helper'.ctl = Append(helper.ctl, Head(controls)) /\ helper.ctl \in Seq(Controls)
    BY <1>0, <2>1, <2>2, SendKeeps DEF HelperRun
  <2>4. \A i \in 1 .. Len(helper'.ctl) : helper'.ctl[i] = "install" => "install" \in asked
    <3>1. \A i \in 1 .. Len(helper.ctl) : helper.ctl[i] = "install" => "install" \in asked
      BY <2>1
    <3> HIDE <1>a
    <3> QED
      BY <2>2, <2>3, <3>1, ConsentAppended
  <2> QED
    BY <2>1, <2>2, <2>3, <2>4
<1>10. CASE PreviewExpires
  <2>1. /\ helper # None /\ helper \in HelperRun /\ UNCHANGED <<asked, wrote, controls>>
        /\ Send("timeout") /\ "timeout" \in Controls
    BY <1>10, <1>0 DEF PreviewExpires, TypeOK, Controls
  <2>2. helper'.phase = helper.phase /\ helper'.ctl = Append(helper.ctl, "timeout") /\ helper.ctl \in Seq(Controls)
    BY <1>0, <2>1, SendKeeps DEF HelperRun
  <2>3. \A i \in 1 .. Len(helper'.ctl) : helper'.ctl[i] = "install" => "install" \in asked
    <3>1. \A i \in 1 .. Len(helper.ctl) : helper.ctl[i] = "install" => "install" \in asked
      BY <2>1
    <3> HIDE <1>a
    <3> QED
      BY <2>1, <2>2, <3>1, ConsentAppended
  <2> QED
    BY <2>1, <2>2, <2>3
<1>11. CASE OnProgress
  BY <1>11 DEF OnProgress
<1>12. CASE ReadAnswer
  BY <1>12 DEF ReadAnswer
<1>13. CASE Moves
  <2>1. helper # None /\ helper \in HelperRun /\ helper.ctl \in Seq(Controls) /\ UNCHANGED <<asked, wrote, controls>>
    BY <1>13, <1>0 DEF Moves, TypeOK, HelperRun
  <2>2. CASE helper'.ctl = helper.ctl /\ (helper'.phase \in {"prepare", "load"} => helper.phase \in {"prepare", "load"})
    BY <2>1, <2>2
  <2>3. CASE helper.ctl # <<>>
    <3>1. /\ \A i \in 1 .. Len(Tail(helper.ctl)) : Tail(helper.ctl)[i] = "install" => "install" \in asked
          /\ Head(helper.ctl) = "install" => "install" \in asked
      BY <2>1, <2>3, ConsentTail
    <3> QED
      BY <1>13, <2>1, <3>1 DEF Moves
  <2> QED
    BY <1>13, <2>2, <2>3 DEF Moves
<1>14. CASE HelperLoad
  <2>1. Loads
    BY <1>14, <1>0, HelperLoads
  <2>2. helper # None /\ "install" \in asked /\ UNCHANGED <<asked, controls>> /\ helper'.ctl = helper.ctl
    BY <2>1 DEF Loads
  <2> QED
    BY <2>2
<1>15. CASE HelperLeaves
  BY <1>15 DEF HelperLeaves
<1>16. CASE SettleRead
  BY <1>16 DEF SettleRead
<1>17. CASE SettleWindowCloses
  BY <1>17 DEF SettleWindowCloses
<1>18. CASE SettleName
  BY <1>18 DEF SettleName
<1>19. CASE SettleFinish
  BY <1>19 DEF SettleFinish
<1>20. CASE ClearJournal
  BY <1>20 DEF ClearJournal
<1>21. CASE QueueReceipts
  BY <1>21 DEF QueueReceipts
<1>22. CASE NextChange
  BY <1>22 DEF NextChange
<1>23. CASE Crash
  <2>1. UNCHANGED <<asked, wrote>> /\ controls' = <<>> /\ Len(<<>>) = 0
    BY <1>23 DEF Crash
  <2>2. CASE helper' = None
    BY <2>1, <2>2
  <2>3. CASE helper # None /\ helper'.phase = helper.phase /\ helper'.ctl = Append(helper.ctl, "cancel")
    <3>1. helper.ctl \in Seq(Controls) /\ "cancel" \in Controls
      BY <1>0, <2>3 DEF TypeOK, HelperRun, Controls
    <3>2. \A i \in 1 .. Len(helper'.ctl) : helper'.ctl[i] = "install" => "install" \in asked
      <4>1. \A i \in 1 .. Len(helper.ctl) : helper.ctl[i] = "install" => "install" \in asked
        BY <2>3
      <4> HIDE <1>a
      <4> QED
        BY <2>3, <3>1, <4>1, ConsentAppended
    <3> QED
      BY <2>1, <2>3, <3>2
  <2> QED
    BY <1>23, <1>0, <2>2, <2>3, CrashKeeps
<1>24. CASE Recover
  BY <1>24 DEF Recover
<1>25. CASE Swap
  BY <1>25 DEF Swap
<1>26. CASE UNCHANGED vars
  BY <1>26 DEF vars
<1> QED
  BY <1>1, <1>2, <1>3, <1>4, <1>5, <1>6, <1>7, <1>8, <1>9, <1>10, <1>11, <1>12, <1>13,
     <1>14, <1>15, <1>16, <1>17, <1>18, <1>19, <1>20, <1>21, <1>22, <1>23, <1>24, <1>25, <1>26, <1>0, HelperMoves DEF Next

(***************************************************************************)
(* What the operation, the journal and the helper remember.                *)
(***************************************************************************)

\* What is remembered of the card is older than the install, and names the card it went to.
LEMMA StepRecords == DownloadInv /\ [Next]_vars => RecordInv'
<1> SUFFICES ASSUME DownloadInv, [Next]_vars PROVE RecordInv'
    OBVIOUS
<1>0. TypeOK /\ UntouchedInv /\ CardInv /\ ThreadInv
  BY DEF DownloadInv
<1>a. RecordInv
  BY DEF DownloadInv
<1> USE <1>a DEF RecordInv, Remembers, agent, history
<1>1. CASE Refresh
  BY <1>1 DEF Refresh
<1>2. CASE Download
  <2>1. /\ op'.eid = inv.eid /\ op'.before = inv.notes /\ op'.profs = inv.profs
        /\ inv # None /\ inv.eid \in Eids
    BY <1>2, <1>0, ClaimTyped DEF List
  <2>2. Untouched /\ journal = None /\ helper = None /\ UNCHANGED <<journal, helper, wrote>>
    BY <1>2, <1>0 DEF Download, UntouchedInv
  <2>3. inv.profs = {<<inv.eid, 0>>}
    BY <1>0, <2>1, <2>2 DEF CardInv, Untouched, Fresh
  <2>4. Fresh(inv.notes)
    BY <1>0, <2>1, <2>2 DEF CardInv, Untouched, Fresh
  <2> QED
    BY <2>1, <2>2, <2>3, <2>4 DEF Untouched
<1>3. CASE WanUp
  BY <1>3 DEF WanUp
<1>4. CASE Abandon
  <2>1. Running(op) /\ helper = None
    BY <1>4, <1>0 DEF Abandon, UntouchedInv
  <2> QED
    BY <1>4, <2>1 DEF Abandon, Running
<1>5. CASE WriteJournal
  <2>1. Running(op)
    BY <1>5, <1>0 DEF WriteJournal, UntouchedInv
  <2> QED
    BY <1>5, <2>1 DEF WriteJournal, Running
<1>6. CASE StartHelper
  <2>1. /\ helper'.eid = op.eid /\ helper'.before = {} /\ Running(op) /\ Untouched
        /\ UNCHANGED <<op, journal, wrote>>
    BY <1>6, <1>0, StartsFresh DEF StartHelper
  <2> QED
    BY <2>1 DEF Fresh, Untouched
<1>7. ASSUME NEW install \in BOOLEAN, NEW nickname \in BOOLEAN, DownloadConfirm(install, nickname)
      PROVE  RecordInv'
  BY <1>7, <1>0, ConfirmShows DEF DownloadConfirm, Shows, Running
<1>8. CASE DownloadCancel
  BY <1>8 DEF DownloadCancel
<1>9. CASE ForwardControl
  <2>1. Head(controls) \in Controls
    BY <1>9, <1>0 DEF ForwardControl, TypeOK
  <2>2. helper # None /\ helper'.eid = helper.eid /\ helper'.before = helper.before
    BY <1>9, <1>0, <2>1, SendKeeps DEF ForwardControl
  <2> QED
    BY <1>9, <2>2 DEF ForwardControl
<1>10. CASE PreviewExpires
  <2>1. helper # None /\ helper'.eid = helper.eid /\ helper'.before = helper.before
    BY <1>10, <1>0, SendKeeps DEF PreviewExpires, Controls
  <2> QED
    BY <1>10, <2>1 DEF PreviewExpires
<1>11. CASE OnProgress
  BY <1>11, <1>0, ProgressShows DEF OnProgress, Shows, Running
<1>12. CASE ReadAnswer
  <2>1. Ends
    BY <1>12, <1>0, AnswerEnds
  <2>2. Running(op)
    BY <1>12, <1>0 DEF ReadAnswer, ThreadInv
  <2> QED
    BY <2>1, <2>2 DEF Ends, Running
<1>13. CASE Moves
  <2>1. Fresh(cards[slot].notes)
    BY <1>13, <1>0 DEF Moves, UntouchedInv, Untouched, TypeOK
  <2> QED
    BY <1>13, <2>1 DEF Moves
<1>14. CASE HelperLoad
  <2>1. /\ helper # None /\ helper'.eid = helper.eid /\ helper'.before = helper.before
        /\ UNCHANGED <<op, journal>> /\ wrote' \subseteq {Own(slot)}
        /\ wrote' # {} => slot = helper.eid
    BY <1>14, LoadWrites DEF Loads
  <2>2. wrote' \subseteq {Own(helper.eid)}
    BY <2>1
  <2> QED
    BY <2>1, <2>2
<1>15. CASE HelperLeaves
  BY <1>15 DEF HelperLeaves
<1>16. CASE SettleRead
  <2>1. Settles
    BY <1>16, <1>0, SettleReads
  <2> QED
    BY <2>1 DEF Settles, Running
<1>17. CASE SettleWindowCloses
  BY <1>17, <1>0, FinishShows DEF SettleWindowCloses, Shows, Running
<1>18. CASE SettleName
  BY <1>18 DEF SettleName
<1>19. CASE SettleFinish
  BY <1>19, <1>0, FinishShows DEF SettleFinish, Shows, Running
<1>20. CASE ClearJournal
  BY <1>20 DEF ClearJournal
<1>21. CASE QueueReceipts
  BY <1>21 DEF QueueReceipts
<1>22. CASE NextChange
  <2>1. op'.kind = "other"
    BY <1>22, <1>0, ClaimTyped
  <2> QED
    BY <1>22, <2>1 DEF NextChange, Running
<1>23. CASE Crash
  <2>1. helper' # None => helper # None /\ helper'.eid = helper.eid /\ helper'.before = helper.before
    BY <1>23, <1>0, CrashKeeps
  <2> QED
    BY <1>23, <2>1 DEF Crash, Running
<1>24. CASE Recover
  BY <1>24, <1>0, RecoverReads DEF Recover, Running
<1>25. CASE Swap
  BY <1>25 DEF Swap
<1>26. CASE UNCHANGED vars
  BY <1>26 DEF vars
<1> QED
  BY <1>1, <1>2, <1>3, <1>4, <1>5, <1>6, <1>7, <1>8, <1>9, <1>10, <1>11, <1>12, <1>13,
     <1>14, <1>15, <1>16, <1>17, <1>18, <1>19, <1>20, <1>21, <1>22, <1>23, <1>24, <1>25, <1>26, <1>0, HelperMoves DEF Next

\* A read-back without a new profile: nothing was written, to whichever card.
LEMMA NothingNew ==
  ASSUME DownloadInv, Running(op), cards[slot].profs \subseteq op.profs
  PROVE  wrote = {}
<1>1. TypeOK /\ CardInv /\ RecordInv
  BY DEF DownloadInv
<1>2. slot \in Eids
  BY <1>1 DEF TypeOK
<1>3. op.profs = {<<op.eid, 0>>} /\ wrote \subseteq {Own(op.eid)}
  BY <1>1 DEF RecordInv, Remembers
<1>4. <<slot, 0>> \in op.profs
  BY <1>1, <1>2 DEF CardInv
<1>5. slot = op.eid
  BY <1>3, <1>4
<1>6. Own(slot) \notin cards[slot].profs
  BY <1>3 DEF Own
<1>7. Own(slot) \notin wrote
  BY <1>1, <1>2, <1>6 DEF CardInv
<1> QED
  BY <1>3, <1>5, <1>7

\* The thread, the state shown and what was found agree after every step.
LEMMA StepThreads == DownloadInv /\ [Next]_vars => ThreadInv'
<1> SUFFICES ASSUME DownloadInv, [Next]_vars PROVE ThreadInv'
    OBVIOUS
<1>0. TypeOK /\ UntouchedInv /\ CardInv /\ RecordInv
  BY DEF DownloadInv
<1>a. ThreadInv
  BY DEF DownloadInv
<1>b. up \in BOOLEAN
  BY <1>0 DEF TypeOK
<1> USE <1>a DEF ThreadInv, agent, history
<1>1. CASE Refresh
  BY <1>1, <1>b DEF Refresh, Readable
<1>2. CASE Download
  <2>1. op' # None /\ op'.state = "connecting" /\ op'.kind = "download"
    BY <1>2, <1>0, ClaimTyped
  <2>2. up' = up /\ up = TRUE /\ thread' = "wan" /\ found' = found /\ found = None
    BY <1>2, <1>b DEF Download
  <2>3. "download" \in asked'
    BY <1>2 DEF Download
  <2> QED
    BY <1>2, <2>1, <2>2, <2>3 DEF Download, Running
<1>3. CASE WanUp
  BY <1>3, <1>b DEF WanUp
<1>4. CASE Abandon
  BY <1>4, <1>b DEF Abandon, Running
<1>5. CASE WriteJournal
  BY <1>5, <1>b DEF WriteJournal
<1>6. CASE StartHelper
  <2>1. Running(op) /\ op.state = "connecting" /\ helper' # None /\ up = TRUE
    BY <1>6, <1>0, <1>b, StartsFresh DEF StartHelper, UntouchedInv
  <2> QED
    BY <1>6, <2>1 DEF StartHelper, Resolved
<1>7. ASSUME NEW install \in BOOLEAN, NEW nickname \in BOOLEAN, DownloadConfirm(install, nickname)
      PROVE  ThreadInv'
  <2>1. Shows("connecting") /\ Running(op) /\ up = TRUE /\ "download" \in asked
    BY <1>7, <1>0, <1>b, ConfirmShows DEF DownloadConfirm, UntouchedInv, Running
  <2>2. Running(op)' /\ op'.state = "connecting" /\ "download" \in asked'
    BY <1>7, <2>1 DEF Shows, Running, DownloadConfirm
  <2> QED
    BY <1>7, <2>1, <2>2 DEF DownloadConfirm, Resolved
<1>8. CASE DownloadCancel
  BY <1>8, <1>b DEF DownloadCancel
<1>9. CASE ForwardControl
  <2>1. Head(controls) \in Controls
    BY <1>9, <1>0 DEF ForwardControl, TypeOK
  <2>2. helper # None /\ helper' # None
    BY <1>9, <1>0, <2>1, SendKeeps DEF ForwardControl
  <2> QED
    BY <1>9, <2>2 DEF ForwardControl
<1>10. CASE PreviewExpires
  <2>1. helper # None /\ helper' # None
    BY <1>10, <1>0, SendKeeps DEF PreviewExpires, Controls
  <2> QED
    BY <1>10, <2>1 DEF PreviewExpires
<1>11. CASE OnProgress
  <2>1. PICK st \in OpStates \ Resolved : Shows(st) /\ Running(op)
    BY <1>11, <1>0, ProgressShows
  <2>2. Running(op)' /\ op'.state \notin Resolved /\ up = TRUE
    BY <1>11, <1>b, <2>1 DEF Shows, Running, OnProgress
  <2> QED
    BY <1>11, <2>2 DEF OnProgress, Resolved
<1>12. CASE ReadAnswer
  <2>1. Ends /\ Running(op) /\ thread = "run" /\ op.state \notin Resolved /\ up = TRUE /\ found = None
    BY <1>12, <1>0, <1>b, AnswerEnds DEF ReadAnswer
  <2>2. Running(op)' /\ helper' = None /\ found' = None /\ UNCHANGED <<wrote, asked, up>>
    BY <2>1 DEF Ends, Running
  <2>3. CASE thread' = "settle" /\ op'.state \in {op.state, "verifying"}
    BY <2>1, <2>2, <2>3 DEF Resolved
  <2>4. CASE /\ thread' \in {"clear", "clear_queue"} /\ op'.state \in {"cancelled", "failed"}
             /\ helper.answer \in {"download_cancelled", "download_failed", "not_started"}
    <3>1. wrote = {}
      BY <1>0, <2>1, <2>4 DEF Ends, UntouchedInv
    <3> QED
      BY <2>1, <2>2, <2>4, <3>1
  <2> QED
    BY <2>1, <2>3, <2>4 DEF Ends
<1>13. CASE Moves
  BY <1>13 DEF Moves
<1>14. CASE HelperLoad
  <2>1. Loads
    BY <1>14, <1>0, HelperLoads
  <2> QED
    BY <2>1 DEF Loads
<1>15. CASE HelperLeaves
  BY <1>15 DEF HelperLeaves
<1>16. CASE SettleRead
  <2>1. Settles /\ Running(op) /\ thread = "settle" /\ op.state \notin Resolved /\ up = TRUE /\ found = None
    BY <1>16, <1>0, <1>b, SettleReads DEF SettleRead, Readable
  <2>2. "download" \in asked /\ UNCHANGED <<asked, wrote, up>> /\ helper' = None
    BY <1>0, <2>1 DEF Settles, UntouchedInv, Running
  <2>3. CASE op' = op /\ found' \in cards[slot].profs \ op.profs /\ thread' \in {"name", "finish"}
    <3>1. found' # None
      BY <1>0, <2>3, DownloadConstants DEF TypeOK
    <3> QED
      BY <2>1, <2>2, <2>3, <3>1 DEF Resolved
  <2>4. CASE /\ cards[slot].profs \subseteq op.profs /\ op' # None /\ op'.state = "failed"
             /\ thread' = "clear" /\ found' = found
    <3>1. wrote = {}
      BY <2>1, <2>4, NothingNew
    <3> QED
      BY <2>1, <2>2, <2>4, <3>1
  <2>5. CASE UNCHANGED <<op, thread, found>>
    BY <2>1, <2>2, <2>5 DEF Resolved
  <2> QED
    BY <2>1, <2>3, <2>4, <2>5 DEF Settles
<1>17. CASE SettleWindowCloses
  <2>1. Shows("unknown") /\ Running(op) /\ thread = "settle" /\ up = TRUE /\ thread' = "clear"
    BY <1>17, <1>0, <1>b, FinishShows DEF SettleWindowCloses, Finish
  <2> QED
    BY <1>17, <2>1 DEF SettleWindowCloses, Shows
<1>18. CASE SettleName
  BY <1>18, <1>b DEF SettleName
<1>19. CASE SettleFinish
  <2>1. Shows("succeeded") /\ Running(op) /\ thread = "finish" /\ up = TRUE
    BY <1>19, <1>0, <1>b, FinishShows DEF SettleFinish
  <2> QED
    BY <1>19, <2>1 DEF SettleFinish, Shows
<1>20. CASE ClearJournal
  BY <1>20, <1>b DEF ClearJournal
<1>21. CASE QueueReceipts
  BY <1>21, <1>b DEF QueueReceipts
<1>22. CASE NextChange
  <2>1. op' # None /\ op'.kind = "other" /\ up = TRUE /\ op.state \in Resolved /\ Running(op)
    BY <1>22, <1>0, <1>b, ClaimTyped DEF NextChange, Running
  <2> QED
    BY <1>22, <2>1 DEF NextChange, Running
<1>23. CASE Crash
  <2>1. op' = None /\ thread' = "none" /\ found' = None /\ inv' = None
    BY <1>23 DEF Crash
  <2> QED
    BY <2>1 DEF Running
<1>24. CASE Recover
  <2>1. up = FALSE /\ up' = TRUE /\ UNCHANGED <<found, asked, helper, wrote, journal>>
    BY <1>24, <1>b DEF Recover
  <2>2. op = None /\ thread = "none" /\ found = None
    BY <2>1
  <2>3. CASE UNCHANGED <<op, thread>>
    BY <2>1, <2>2, <2>3 DEF Running
  <2>4. CASE journal # None /\ thread' = "settle" /\ op' # None /\ op'.state = "verifying" /\ op'.kind = journal.kind
    BY <1>0, <2>1, <2>2, <2>4 DEF Running, RecordInv, Resolved
  <2> QED
    BY <1>24, <1>0, <2>3, <2>4, RecoverReads
<1>25. CASE Swap
  BY <1>25 DEF Swap
<1>26. CASE UNCHANGED vars
  BY <1>26 DEF vars
<1> QED
  BY <1>1, <1>2, <1>3, <1>4, <1>5, <1>6, <1>7, <1>8, <1>9, <1>10, <1>11, <1>12, <1>13,
     <1>14, <1>15, <1>16, <1>17, <1>18, <1>19, <1>20, <1>21, <1>22, <1>23, <1>24, <1>25, <1>26, <1>0, HelperMoves DEF Next

(***************************************************************************)
(* While nobody exchanges the card.                                        *)
(***************************************************************************)

\* A read keeps what was found and its receipt in sight.
LEMMA ReadingSees ==
  ASSUME DownloadInv, Reading, budget.swap = 0
  PROVE  inv' # None /\ inv'.eid = slot /\ (found # None => Own(slot) \in inv'.notes)
<1>1. TypeOK /\ CardInv /\ SameCard
  BY DEF DownloadInv
<1>2. slot \in Eids
  BY <1>1 DEF TypeOK
<1> QED
  BY <1>1, <1>2, ReadingCopies DEF CardInv, SameCard

\* Without an exchange of cards the profile found is the one installed, with its receipt.
LEMMA StepSameCard == DownloadInv /\ [Next]_vars => SameCard'
<1> SUFFICES ASSUME DownloadInv, [Next]_vars PROVE SameCard'
    OBVIOUS
<1>0. TypeOK /\ UntouchedInv /\ CardInv /\ RecordInv /\ ThreadInv
  BY DEF DownloadInv
<1>a. SameCard
  BY DEF DownloadInv
<1> USE <1>a DEF SameCard, agent, history
<1>1. CASE Refresh
  BY <1>1, ReadingSees DEF Refresh
<1>2. CASE Download
  <2>1. found = None /\ op'.eid = inv.eid /\ inv # None
    BY <1>2, <1>0, ClaimTyped DEF Download, ThreadInv
  <2> QED
    BY <1>2, <2>1 DEF Download
<1>3. CASE WanUp
  <2>1. found = None
    BY <1>3, <1>0 DEF WanUp, ThreadInv
  <2> QED
    BY <1>3, <2>1 DEF WanUp
<1>4. CASE Abandon
  <2>1. found = None
    BY <1>4, <1>0 DEF Abandon, ThreadInv
  <2> QED
    BY <1>4, <2>1 DEF Abandon
<1>5. CASE WriteJournal
  <2>1. op # None
    BY <1>5, <1>0 DEF WriteJournal, UntouchedInv, Running
  <2>2. found = None
    BY <1>5, <1>0 DEF WriteJournal, ThreadInv
  <2> QED
    BY <1>5, <2>1, <2>2 DEF WriteJournal
<1>6. CASE StartHelper
  <2>1. found = None
    BY <1>6, <1>0 DEF StartHelper, ThreadInv
  <2> QED
    BY <1>6, <2>1 DEF StartHelper
<1>7. ASSUME NEW install \in BOOLEAN, NEW nickname \in BOOLEAN, DownloadConfirm(install, nickname)
      PROVE  SameCard'
  BY <1>7, <1>0, ConfirmShows DEF DownloadConfirm, Shows, Running
<1>8. CASE DownloadCancel
  <2>1. budget'.swap = budget.swap
    BY <1>8, <1>0 DEF DownloadCancel, TypeOK
  <2> QED
    BY <1>8, <2>1 DEF DownloadCancel
<1>9. CASE ForwardControl
  BY <1>9 DEF ForwardControl
<1>10. CASE PreviewExpires
  BY <1>10 DEF PreviewExpires
<1>11. CASE OnProgress
  BY <1>11, <1>0, ProgressShows DEF OnProgress, Shows, Running
<1>12. CASE ReadAnswer
  <2>1. Ends /\ op # None
    BY <1>12, <1>0, AnswerEnds DEF ReadAnswer, ThreadInv, Running
  <2>2. found = None
    BY <1>12, <1>0 DEF ReadAnswer, ThreadInv
  <2> QED
    BY <2>1, <2>2 DEF Ends
<1>13. CASE Moves
  BY <1>13 DEF Moves
<1>14. CASE HelperLoad
  <2>1. wrote = {} /\ UNCHANGED <<inv, op, journal, found, named, slot, budget>>
    BY <1>14, LoadWrites DEF Loads, Untouched
  <2> QED
    BY <2>1
<1>15. CASE HelperLeaves
  BY <1>15 DEF HelperLeaves
<1>16. CASE SettleRead
  <2>1. Settles /\ Running(op) /\ found = None
    BY <1>16, <1>0, SettleReads DEF SettleRead, ThreadInv
  <2>2. SUFFICES ASSUME budget.swap = 0, found' # None
                 PROVE  found' = Own(slot) /\ found' \in wrote /\ Own(slot) \in cards[slot].notes /\ thread' # "none"
    BY <2>1 DEF Settles, Running
  <2>3. found' \in cards[slot].profs \ op.profs /\ thread' \in {"name", "finish"}
    BY <2>1, <2>2 DEF Settles
  <2>4. op.eid = slot /\ op.profs = {<<slot, 0>>} /\ slot \in Eids
    BY <1>0, <2>1, <2>2 DEF RecordInv, Remembers, Running, TypeOK
  <2>5. found' = Own(slot)
    BY <1>0, <2>3, <2>4 DEF CardInv
  <2> QED
    BY <1>0, <2>3, <2>4, <2>5 DEF CardInv
<1>17. CASE SettleWindowCloses
  <2>1. found = None /\ Shows("unknown")
    BY <1>17, <1>0, FinishShows DEF SettleWindowCloses, ThreadInv
  <2> QED
    BY <1>17, <2>1 DEF SettleWindowCloses, Shows
<1>18. CASE SettleName
  <2>1. /\ named' \subseteq named \cup {found} /\ thread' = "finish" /\ found # None
        /\ UNCHANGED <<slot, op, journal, found, wrote, queued, budget>>
    BY <1>18, <1>0 DEF SettleName, ThreadInv
  <2>2. CASE Reading
    BY <2>1, <2>2, ReadingSees
  <2>3. CASE UNCHANGED inv
    BY <2>1, <2>3
  <2> QED
    BY <1>18, <2>2, <2>3 DEF SettleName
<1>19. CASE SettleFinish
  <2>1. Shows("succeeded") /\ thread' = "clear_queue"
    BY <1>19, <1>0, FinishShows DEF SettleFinish
  <2> QED
    BY <1>19, <2>1 DEF SettleFinish, Shows
<1>20. CASE ClearJournal
  <2>1. found # None => thread' # "none"
    BY <1>20, <1>0 DEF ClearJournal, ThreadInv
  <2> QED
    BY <1>20, <2>1 DEF ClearJournal
<1>21. CASE QueueReceipts
  <2>1. slot \in Eids
    BY <1>0 DEF TypeOK
  <2>2. ASSUME budget.swap = 0, found # None, Running(op) PROVE Own(slot) \in queued'
    <3>1. Own(slot) \notin op.before
      BY <1>0, <2>1, <2>2 DEF RecordInv, Remembers, Fresh
    <3> QED
      BY <1>21, <2>2, <3>1 DEF QueueReceipts, Running
  <2> QED
    BY <1>21, <2>2 DEF QueueReceipts
<1>22. CASE NextChange
  <2>1. op'.kind = "other" /\ op'.eid = inv.eid /\ inv # None
    BY <1>22, <1>0, ClaimTyped
  <2> QED
    BY <1>22, <2>1 DEF NextChange, Running
<1>23. CASE Crash
  <2>1. budget'.swap = budget.swap
    BY <1>23, <1>0 DEF Crash, TypeOK
  <2> QED
    BY <1>23, <2>1 DEF Crash
<1>24. CASE Recover
  <2>1. up = FALSE
    BY <1>24, <1>0 DEF Recover, TypeOK
  <2>2. found = None
    BY <1>0, <2>1 DEF ThreadInv
  <2> QED
    BY <1>24, <1>0, <2>2, RecoverReads DEF Recover
<1>25. CASE Swap
  <2>1. budget'.swap = budget.swap + 1 /\ budget.swap \in Nat
    BY <1>25, <1>0 DEF Swap, TypeOK
  <2>2. budget'.swap # 0
    BY <2>1
  <2> QED
    BY <2>2
<1>26. CASE UNCHANGED vars
  BY <1>26 DEF vars
<1> QED
  BY <1>1, <1>2, <1>3, <1>4, <1>5, <1>6, <1>7, <1>8, <1>9, <1>10, <1>11, <1>12, <1>13,
     <1>14, <1>15, <1>16, <1>17, <1>18, <1>19, <1>20, <1>21, <1>22, <1>23, <1>24, <1>25, <1>26, <1>0, HelperMoves DEF Next

(***************************************************************************)
(* The theorems.                                                           *)
(***************************************************************************)

\* The invariant holds when the agent first starts.
LEMMA InitHolds == Init => DownloadInv
<1> SUFFICES ASSUME Init PROVE DownloadInv
    OBVIOUS
<1>1. cards = [e \in Eids |-> [profs |-> {<<e, 0>>}, notes |-> {<<e, 0>>}]]
  BY DEF Init
<1>2. \A e \in Eids : cards[e].profs = {<<e, 0>>} /\ cards[e].notes = {<<e, 0>>}
  BY <1>1
<1>3. cards \in [Eids -> [profs : SUBSET Items, notes : SUBSET Items]]
  BY <1>1 DEF Items
<1>4. up \in BOOLEAN /\ reported \in BOOLEAN
  BY Zenon DEF Init
<1>5. lines \in Seq({"preview", "prepare", "load"}) /\ controls \in Seq(Controls) /\ Len(controls) = 0
  BY DEF Init
<1>6. budget \in [crash : Nat, swap : Nat, cancel : Nat, max : Bounds]
  BY DEF Init
<1>7. TypeOK
  BY <1>3, <1>4, <1>5, <1>6 DEF Init, TypeOK
<1>8. CardInv
  BY <1>2 DEF Init, CardInv, Own
<1>9. Untouched
  BY <1>2 DEF Init, Untouched, Fresh, Own
<1>10. UntouchedInv
  BY <1>9 DEF Init, UntouchedInv
<1>11. ConsentInv
  BY <1>5 DEF Init, ConsentInv, Consented, InstalledOnlyIfConfirmed
<1>12. RecordInv
  BY DEF Init, RecordInv, Running
<1>13. ThreadInv
  BY DEF Init, ThreadInv, Running
<1>14. SameCard
  BY DEF Init, SameCard
<1> QED
  BY <1>7, <1>8, <1>10, <1>11, <1>12, <1>13, <1>14 DEF DownloadInv

\* Every step of clients, the thread, the helper, crashes and cards preserves it.
LEMMA StepHolds == DownloadInv /\ [Next]_vars => DownloadInv'
BY StepTyped, StepCards, StepUntouched, StepConsent, StepRecords, StepThreads, StepSameCard DEF DownloadInv

\* A download keeps its types and its inductive invariant.
THEOREM DownloadInvariant == Spec => [](TypeOK /\ DownloadInv)
<1>1. DownloadInv => TypeOK
  BY DEF DownloadInv
<1> QED
  BY <1>1, InitHolds, StepHolds, PTL DEF Spec

\* run_download() and the helper's decide(): a profile reaches a card only after the user
\* confirmed the preview, whatever timeouts, cancels and crashes race with the answer.
THEOREM InstallsAreConfirmed == Spec => []InstalledOnlyIfConfirmed
<1>1. DownloadInv => InstalledOnlyIfConfirmed
  BY DEF DownloadInv, ConsentInv
<1> QED
  BY <1>1, DownloadInvariant, PTL

\* run_download() and settle_download(): cancelled and failed mean that nothing was installed;
\* succeeded names the installed profile.
THEOREM OutcomesAreTrue == Spec => []OutcomeIsTrue
<1>1. DownloadInv => OutcomeIsTrue
  BY DEF DownloadInv, ThreadInv, SameCard, OutcomeIsTrue
<1> QED
  BY <1>1, DownloadInvariant, PTL

\* queue_new_receipts_after_read(): the receipt of a successful install is queued when the
\* thread is done.
THEOREM InstallReceiptsQueued == Spec => []InstallReceiptQueued
<1>1. DownloadInv => InstallReceiptQueued
  BY DEF DownloadInv, SameCard, InstallReceiptQueued, Own
<1> QED
  BY <1>1, DownloadInvariant, PTL
===============================================================================
