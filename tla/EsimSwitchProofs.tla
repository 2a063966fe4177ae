--------------------------- MODULE EsimSwitchProofs ---------------------------
(***************************************************************************)
(* Proofs about EsimSwitch, for any cards, profiles, requests, crashes and *)
(* exchanges of the card.  The invariant says who may write to the card    *)
(* and what the journal knows: a helper run belongs to the thread that     *)
(* waits for it, or it outlived an agent that has read nothing since; and  *)
(* a change that was applied is still visible on its card for as long as   *)
(* an operation or the journal refers to it.                               *)
(***************************************************************************)
EXTENDS EsimSwitch, TLAPS

\* The change x and the helper run (or other record of a change) h are the same.
Match(x, h) == x.id = h.id /\ x.kind = h.kind /\ x.target = h.target /\ x.eid = h.eid

\* Some client asked for x; an operation_id names one request.
Asked(x) == \E r \in requests : r.id = x.id /\ r.kind = x.kind /\ r.target = x.target

RequestInv ==
  /\ \A r \in requests : r.id <= used
  /\ \A r, s \in requests : r.id = s.id => r = s
  /\ op # None => Asked(op)
  /\ journal # None => Asked(journal)
  /\ helper # None => Asked(helper)

\* A profile is found on its own card only.
HomeInv ==
  /\ \A e \in Eids, p \in Profiles : cards[e].prof[p] # "absent" => p \in OnCard[e]
  /\ inv # None => \A p \in Profiles : inv.prof[p] # "absent" => p \in OnCard[inv.eid]
  /\ op # None => op.target \in OnCard[op.eid]
  /\ journal # None => journal.target \in OnCard[journal.eid]
  /\ helper # None => helper.target \in OnCard[helper.eid]

\* What the thread's position says about its operation, its helper run and the journal.
ThreadInv ==
  /\ up = FALSE => inv = None /\ op = None /\ thread = "none" /\ tails = {}
  /\ thread # "none" => op # None /\ op.state \notin Resolved
  /\ thread \in {"journal", "verify"} => op.kind # "nickname"
  /\ journal # None => journal.kind # "nickname"
  /\ thread \in {"journal", "start"} => helper = None /\ sent[op.id] = 0 /\ op.id \notin applied
  /\ thread = "wait" => helper # None /\ Match(op, helper)
  /\ thread \in {"start", "wait", "verify"} /\ op.kind # "nickname" /\ journal # None => Match(journal, op)

\* A helper run whose agent is gone keeps the new agent from reading, so from admitting.
HelperInv ==
  helper # None =>
    /\ thread # "wait" => inv = None /\ (op # None => op.state \notin {"busy", "refused", "failed"})
    /\ helper.kind # "nickname" /\ journal # None => Match(journal, helper)
    /\ helper.kind # "nickname" /\ thread = "verify" => Match(op, helper)
    /\ helper.id \in applied <=> helper.phase = "applied"
    /\ helper.phase \in {"check", "write"} => sent[helper.id] = 0

\* An applied change shows on its card.
Visible(x) == x.id \in applied => Done(x.kind, cards[x.eid].prof[x.target])

VisibleInv ==
  /\ helper # None /\ helper.kind # "nickname" => Visible(helper)
  /\ journal # None => Visible(journal)
  /\ thread = "verify" => Visible(op)

\* The receipts found at the start are part of every list read since; the others were made here.
Old(e) == 1 .. Backlog[e]
ReceiptInv ==
  /\ \A e \in Eids : Old(e) \subseteq cards[e].notes
  /\ \A e \in Eids : \A n \in cards[e].notes : n \in Old(e) \/ <<e, n>> \in made
  /\ inv # None => Old(inv.eid) \subseteq inv.notes
  /\ op # None => Old(op.eid) \subseteq op.before
  /\ journal # None => Old(journal.eid) \subseteq journal.before

\* While nobody exchanges the card, everything is about the card in the slot.
SameCard ==
  budget.swap = 0 =>
    /\ inv # None => inv.eid = slot
    /\ op # None => op.eid = slot
    /\ journal # None => journal.eid = slot
    /\ queued \subseteq made /\ \A t \in tails : t.new \subseteq made

SwitchInv ==
  /\ TypeOK /\ RequestInv /\ HomeInv /\ ThreadInv /\ HelperInv /\ VisibleInv /\ ReceiptInv /\ SameCard
  /\ NeverReplayed /\ NothingChangedIsTrue

(***************************************************************************)
(* What the operators of the model do.                                     *)
(***************************************************************************)

\* x is the change y, in whatever state.
SameChange(x, y) == Match(x, y) /\ x.before = y.before /\ x.expect = y.expect

\* A read that succeeds copies the card in the slot.
LEMMA AbsorbCopies ==
  ASSUME TypeOK, Absorb
  PROVE  /\ inv' \in List /\ inv' # None /\ rev' \in Nat
         /\ inv'.eid = slot /\ inv'.prof = cards[slot].prof /\ inv'.notes = cards[slot].notes
<1>1. cards[slot] \in [prof : [Profiles -> States], notes : SUBSET Nat, seq : Nat]
  BY DEF TypeOK
<1>2. inv' = [eid |-> slot, prof |-> cards[slot].prof, notes |-> cards[slot].notes]
  BY DEF Absorb
<1>3. inv' \in List
  BY <1>1, <1>2 DEF TypeOK, List
<1>4. rev' \in Nat
  BY DEF Absorb, TypeOK
<1> QED
  BY <1>2, <1>3, <1>4, EsimConstants

\* Setting the state of an operation keeps the change it is about.
LEMMA StateOnly ==
  ASSUME NEW x \in Operation, NEW s \in Resolved \cup {"pending", "reloading", "verifying"},
         NEW y, y = [x EXCEPT !.state = s]
  PROVE  y \in Operation /\ y # None /\ SameChange(y, x) /\ y.state = s
<1>1. y \in Operation
  BY DEF Operation
<1>2. SameChange(y, x) /\ y.state = s
  BY DEF Operation, SameChange, Match
<1> QED
  BY <1>1, <1>2, EsimConstants

\* What the card does to its profiles: the change asked for and, for an enable, the
\* profile that was enabled; no profile appears.
LEMMA ChangeIsDone ==
  ASSUME NEW prof \in [Profiles -> States], NEW kind \in Kinds, NEW target \in Profiles
  PROVE  /\ Change(prof, kind, target) \in [Profiles -> States]
         /\ kind # "nickname" => Done(kind, Change(prof, kind, target)[target])
         /\ \A p \in Profiles : kind = "nickname" => Change(prof, kind, target)[p] = prof[p]
         /\ \A p \in Profiles : p # target /\ prof[p] = "absent" => Change(prof, kind, target)[p] = "absent"
<1>1. CASE kind = "enable"
  <2> DEFINE new == Change(prof, kind, target)
  <2>1. \A p \in Profiles : /\ p = target => new[p] = "enabled"
                            /\ p # target /\ prof[p] = "enabled" => new[p] = "disabled"
                            /\ p # target /\ prof[p] # "enabled" => new[p] = prof[p]
    BY <1>1 DEF Change
  <2>2. new \in [Profiles -> States]
    <3>1. \A p \in Profiles : new[p] \in States
      BY <2>1 DEF States
    <3>2. new = [p \in Profiles |-> new[p]]
      BY DEF Change
    <3> HIDE DEF new
    <3> QED
      BY <3>1, <3>2
  <2>3. \A p \in Profiles : p # target /\ prof[p] = "absent" => new[p] = "absent"
    BY <2>1
  <2> QED
    BY <1>1, <2>1, <2>2, <2>3 DEF Done
<1>2. CASE kind = "disable"
  BY <1>2 DEF Change, Done, States, Kinds
<1>3. CASE kind = "delete"
  BY <1>3 DEF Change, Done, States, Kinds
<1>4. CASE kind = "nickname"
  BY <1>4 DEF Change, Done, States, Kinds
<1> QED
  BY <1>1, <1>2, <1>3, <1>4 DEF Kinds

TailRecord == [id : Ids, step : {"clear", "read", "queue"}, next : {"done", "read", "queue"},
               new : SUBSET (Eids \X Nat)]

\* finish() resolves the operation and leaves a tail.
LEMMA FinishResolves ==
  ASSUME TypeOK, op # None, NEW s \in Resolved, NEW n \in {"done", "read", "queue"},
         NEW new \in SUBSET (Eids \X Nat), Finish(s, n, new)
  PROVE  /\ op' \in Operation /\ op' # None /\ SameChange(op', op) /\ op'.state = s
         /\ thread' = "none" /\ accepted' = FALSE
         /\ \E t \in TailRecord : t.new = new /\ tails' = tails \cup {t}
<1>1. op \in Operation
  BY DEF TypeOK
<1>2. op' \in Operation /\ op' # None /\ SameChange(op', op) /\ op'.state = s
  BY <1>1, StateOnly DEF Finish
<1>3. Tail("clear", n, new) \in TailRecord /\ Tail("clear", n, new).new = new
  BY <1>1 DEF Tail, TailRecord, Operation
<1> QED
  BY <1>2, <1>3 DEF Finish

\* How the end of a helper run settles the operation of the thread that waits for it.
Settled(phase) ==
  /\ op' \in Operation /\ op' # None /\ SameChange(op', op) /\ accepted' \in BOOLEAN
  /\ \/ /\ thread' = "verify" /\ op.kind # "nickname" /\ op'.state \notin Resolved
        /\ tails' = tails
     \/ /\ thread' = "none" /\ op'.state \in Resolved
        /\ \E t \in TailRecord : t.new = {} /\ tails' = tails \cup {t}
        /\ op.kind # "nickname" => op'.state \in {"busy", "refused", "failed"} /\ phase # "applied"
        /\ op'.state = "succeeded" => op.kind = "nickname" /\ phase = "applied"

\* run_switch() and nickname() settle by the ending of the run.
LEMMA RunIsSettled ==
  ASSUME TypeOK, op # None, helper # None, NEW e \in Endings(helper.phase),
         IF op.kind = "nickname" THEN SettleNickname(e) ELSE SettleSwitch(e)
  PROVE  Settled(helper.phase)
<1>1. op \in Operation /\ helper \in HelperRun
  BY DEF TypeOK
<1>2. helper.phase \in {"check", "write", "changed", "applied", "busy", "refused"}
  BY <1>1 DEF HelperRun
<1>3. e \in {"lost", "garbled", "notsent", "missing", "ok", "changed", "busy", "refused"}
  BY <1>2 DEF Endings
<1>4. /\ e = "ok" => helper.phase = "applied"
      /\ e \in {"notsent", "missing", "changed", "busy", "refused"} => helper.phase # "applied"
  BY <1>2 DEF Endings
<1>5. CASE op.kind = "nickname"
  <2>1. SettleNickname(e)
    BY <1>5
  <2> DEFINE s == CASE e = "ok" -> "succeeded"
                    [] e \in {"busy", "refused", "changed"} -> "refused"
                    [] e = "lost" -> "unknown"
                    [] e \in {"garbled", "notsent", "missing"} -> "failed"
  <2>2. s \in Resolved /\ (s = "succeeded" => e = "ok")
    BY <1>3 DEF Resolved
  <2>3. op' = [op EXCEPT !.state = s] /\ thread' = "none" /\ accepted' = FALSE
        /\ tails' = tails \cup {Tail("read", "done", {})}
    BY <2>1 DEF SettleNickname
  <2> HIDE DEF s
  <2>4. op' \in Operation /\ op' # None /\ SameChange(op', op) /\ op'.state = s
    BY <1>1, <2>2, <2>3, StateOnly
  <2>5. Tail("read", "done", {}) \in TailRecord /\ Tail("read", "done", {}).new = {}
    BY <1>1 DEF Tail, TailRecord, Operation
  <2> QED
    BY <1>4, <1>5, <2>2, <2>3, <2>4, <2>5 DEF Settled
<1>6. CASE op.kind # "nickname"
  <2>1. SettleSwitch(e)
    BY <1>6
  <2>2. CASE e \in {"ok", "lost", "garbled"}
    <3>1. PICK s \in {"verifying", "reloading"}, a \in BOOLEAN : Verify(s, a)
      BY <2>1, <2>2 DEF SettleSwitch
    <3>2. op' \in Operation /\ op' # None /\ SameChange(op', op) /\ op'.state = s
      BY <1>1, <3>1, StateOnly DEF Verify
    <3> QED
      BY <1>6, <3>1, <3>2 DEF Settled, Verify, Resolved
  <2>3. CASE e \notin {"ok", "lost", "garbled"}
    <3>1. PICK s \in {"busy", "refused", "failed"}, n \in {"done", "read"} : Finish(s, n, {})
      BY <1>3, <2>1, <2>3 DEF SettleSwitch
    <3>2. s \in Resolved /\ {} \in SUBSET (Eids \X Nat)
      BY DEF Resolved
    <3>3. op' \in Operation /\ op' # None /\ SameChange(op', op) /\ op'.state = s
      BY <1>1, <3>1, <3>2, StateOnly DEF Finish
    <3>4. Tail("clear", n, {}) \in TailRecord /\ Tail("clear", n, {}).new = {}
      BY <1>1 DEF Tail, TailRecord, Operation
    <3>5. helper.phase # "applied"
      BY <1>3, <1>4, <2>3
    <3> QED
      BY <1>6, <3>1, <3>2, <3>3, <3>4, <3>5 DEF Settled, Finish
  <2> QED
    BY <2>2, <2>3
<1> QED
  BY <1>5, <1>6

(***************************************************************************)
(* Types.                                                                  *)
(***************************************************************************)
\* The types hold when the agent first starts.
LEMMA InitTyped == Init => TypeOK
<1> SUFFICES ASSUME Init PROVE TypeOK
    OBVIOUS
<1>1. cards \in [Eids -> [prof : [Profiles -> States], notes : SUBSET Nat, seq : Nat]]
  BY EsimConstants DEF Init, States
<1>2. PICK b \in Bounds : slot = b.first /\ budget = [crash |-> 0, swap |-> 0, max |-> b]
  BY DEF Init
<1>3. slot \in Eids /\ budget \in [crash : Nat, swap : Nat, max : Bounds]
  BY <1>2, EsimConstants
<1>4. sent \in [Ids -> Nat] /\ used \in 0 .. MaxOps
  BY EsimConstants DEF Init
<1>5. up \in BOOLEAN /\ accepted \in BOOLEAN
  BY Zenon DEF Init
<1> QED
  BY <1>1, <1>3, <1>4, <1>5 DEF Init, TypeOK

\* Every step keeps the types; a thread that settles something has an operation.
LEMMA StepTyped == TypeOK /\ ThreadInv /\ [Next]_vars => TypeOK'
<1> SUFFICES ASSUME TypeOK, ThreadInv, [Next]_vars PROVE TypeOK'
    OBVIOUS
<1> USE DEF TypeOK, agent, world
<1>1. CASE Refresh
  BY <1>1, AbsorbCopies DEF Refresh
<1>2. ASSUME NEW k \in Kinds, NEW p \in Profiles, Ask(k, p) PROVE TypeOK'
  <2>1. used + 1 \in Ids
    BY <1>2, EsimConstants DEF Ask, Ids
  <2>2. used' \in 0 .. MaxOps
    BY <1>2, <2>1 DEF Ask, Ids
  <2>3. [id |-> used + 1, kind |-> k, target |-> p, rev |-> rev] \in Request
    BY <2>1 DEF Request
  <2> QED
    BY <1>2, <2>2, <2>3 DEF Ask
<1>3. ASSUME NEW r \in requests, Admit(r) PROVE TypeOK'
  <2>1. r \in Request /\ inv \in List
    BY <1>3 DEF Admit, Admissible
  <2>2. Active(inv.prof) \in Profiles \cup {None}
    BY DEF Active
  <2>3. op' \in Operation
    BY <1>3, <2>1, <2>2 DEF Admit, Request, List, Operation
  <2>4. thread' \in {"none", "journal", "start", "wait", "verify"}
    BY <1>3 DEF Admit
  <2>5. applied' \subseteq Ids /\ sent' \in [Ids -> Nat]
    BY <1>3 DEF Admit
  <2> QED
    BY <1>3, <2>3, <2>4, <2>5 DEF Admit
<1>4. CASE WriteJournal
  BY <1>4 DEF WriteJournal
<1>5. CASE WriteJournalFails
  BY <1>5 DEF WriteJournalFails
<1>6. CASE StartHelper
  <2>1. op \in Operation
    BY <1>6 DEF StartHelper, ThreadInv
  <2>2. helper' \in HelperRun
    BY <1>6, <2>1 DEF StartHelper, Operation, HelperRun
  <2> QED
    BY <1>6, <2>2 DEF StartHelper
<1>7. CASE HelperCheck
  <2>1. helper \in HelperRun
    BY <1>7 DEF HelperCheck
  <2>2. PICK ph \in {"write", "changed"} : helper' = [helper EXCEPT !.phase = ph]
    BY <1>7 DEF HelperCheck
  <2>3. helper' \in HelperRun
    BY <2>1, <2>2 DEF HelperRun
  <2> QED
    BY <1>7, <2>3 DEF HelperCheck
<1>8. CASE HelperWrite
  <2>1. helper \in HelperRun
    BY <1>8 DEF HelperWrite
  <2>2. PICK ph \in {"applied", "busy", "refused"} : helper' = [helper EXCEPT !.phase = ph]
    BY <1>8 DEF HelperWrite
  <2>3. helper' \in HelperRun
    BY <2>1, <2>2 DEF HelperRun
  <2>4. sent' \in [Ids -> Nat]
    BY <1>8, <2>1 DEF HelperWrite, HelperRun
  <2>5. cards' \in [Eids -> [prof : [Profiles -> States], notes : SUBSET Nat, seq : Nat]]
        /\ made' \subseteq Eids \X Nat /\ applied' \subseteq Ids
    <3>1. CASE UNCHANGED <<cards, made, applied>>
      BY <3>1
    <3>2. ASSUME NEW n \in {0, 1},
                 cards' = [cards EXCEPT ![slot] =
                            [prof |-> Change(@.prof, helper.kind, helper.target),
                             notes |-> @.notes \cup {@.seq + i : i \in 1 .. n},
                             seq |-> @.seq + n]],
                 made' = made \cup {<<slot, cards[slot].seq + i>> : i \in 1 .. n},
                 applied' = applied \cup {helper.id}
          PROVE  cards' \in [Eids -> [prof : [Profiles -> States], notes : SUBSET Nat, seq : Nat]]
                 /\ made' \subseteq Eids \X Nat /\ applied' \subseteq Ids
      <4>1. cards[slot].seq \in Nat /\ cards[slot].prof \in [Profiles -> States] /\ cards[slot].notes \subseteq Nat
        OBVIOUS
      <4>2. Change(cards[slot].prof, helper.kind, helper.target) \in [Profiles -> States]
        BY <2>1, <4>1, ChangeIsDone DEF HelperRun
      <4>3. {cards[slot].seq + i : i \in 1 .. n} \subseteq Nat
            /\ {<<slot, cards[slot].seq + i>> : i \in 1 .. n} \subseteq Eids \X Nat
            /\ cards[slot].seq + n \in Nat
        BY <4>1
      <4>4. cards' \in [Eids -> [prof : [Profiles -> States], notes : SUBSET Nat, seq : Nat]]
        BY <3>2, <4>1, <4>2, <4>3
      <4> QED
        BY <2>1, <3>2, <4>3, <4>4 DEF HelperRun
    <3> QED
      BY <1>8, <3>1, <3>2 DEF HelperWrite
  <2> QED
    BY <1>8, <2>3, <2>4, <2>5 DEF HelperWrite
<1>9. CASE HelperEnds
  <2>1. CASE ~(up /\ thread = "wait")
    BY <1>9, <2>1 DEF HelperEnds
  <2>2. CASE up /\ thread = "wait"
    <3>1. op # None /\ helper # None
      BY <1>9, <2>2 DEF HelperEnds, ThreadInv
    <3>2. Settled(helper.phase)
      <4>1. PICK e \in Endings(helper.phase) : IF op.kind = "nickname" THEN SettleNickname(e) ELSE SettleSwitch(e)
        BY <1>9, <2>2 DEF HelperEnds
      <4> HIDE DEF TypeOK
      <4>2. TypeOK
        OBVIOUS
      <4> QED
        BY <3>1, <4>1, <4>2, RunIsSettled
    <3> QED
      BY <1>9, <3>2 DEF HelperEnds, Settled, TailRecord
  <2> QED
    BY <2>1, <2>2
<1>10. CASE VerifyRead
  <2>1. op \in Operation
    BY <1>10 DEF VerifyRead, ThreadInv
  <2>2. inv' \in List /\ rev' \in Nat /\ inv'.notes \subseteq Nat
    BY <1>10, AbsorbCopies DEF VerifyRead
  <2>3. op' \in Operation /\ thread' \in {"none", "verify"} /\ accepted' \in BOOLEAN
        /\ tails' \subseteq TailRecord
    <3>1. CASE UNCHANGED <<op, thread, accepted, tails>>
      BY <1>10, <2>1, <3>1 DEF VerifyRead, TailRecord
    <3>2. ASSUME NEW s \in Resolved, NEW n \in {"done", "read", "queue"},
                 NEW new \in SUBSET (Eids \X Nat), Finish(s, n, new)
          PROVE  op' \in Operation /\ thread' \in {"none", "verify"} /\ accepted' \in BOOLEAN
                 /\ tails' \subseteq TailRecord
      <4>1. op # None
        BY <2>1, EsimConstants
      <4>2. /\ op' \in Operation /\ thread' = "none" /\ accepted' = FALSE
            /\ \E t \in TailRecord : t.new = new /\ tails' = tails \cup {t}
        BY <3>2, <4>1, FinishResolves
      <4> QED
        BY <4>2 DEF TailRecord
    <3>3. {<<slot, n>> : n \in inv'.notes \ op.before} \in SUBSET (Eids \X Nat)
      BY <2>2
    <3> QED
      BY <1>10, <3>1, <3>2, <3>3 DEF VerifyRead, Resolved
  <2> QED
    BY <1>10, <2>2, <2>3 DEF VerifyRead, TailRecord
<1>11. CASE VerifyReadFails
  <2>1. op \in Operation
    BY <1>11 DEF VerifyReadFails, ThreadInv
  <2>2. op' \in Operation
    BY <1>11, <2>1, StateOnly DEF VerifyReadFails
  <2> QED
    BY <1>11, <2>2 DEF VerifyReadFails
<1>12. CASE VerifyWindowCloses
  <2>1. op \in Operation /\ op # None
    BY <1>12 DEF VerifyWindowCloses, ThreadInv
  <2>2. /\ op' \in Operation /\ thread' = "none" /\ accepted' = FALSE
        /\ \E t \in TailRecord : t.new = {} /\ tails' = tails \cup {t}
    BY <1>12, <2>1, FinishResolves DEF VerifyWindowCloses, Resolved
  <2> QED
    BY <1>12, <2>2 DEF VerifyWindowCloses, TailRecord
<1>13. ASSUME NEW t \in tails, ClearJournal(t) PROVE TypeOK'
  <2>1. journal' \in Operation \cup {None}
    BY <1>13 DEF ClearJournal
  <2>2. [t EXCEPT !.step = t.next, !.next = "done"] \in TailRecord \/ t.next = "done"
    BY DEF TailRecord
  <2>3. tails' \subseteq TailRecord
    BY <1>13, <2>2 DEF ClearJournal, TailRecord
  <2> QED
    BY <1>13, <2>1, <2>3 DEF ClearJournal, TailRecord
<1>14. ASSUME NEW t \in tails, QueueReceipts(t) PROVE TypeOK'
  BY <1>14 DEF QueueReceipts
<1>15. ASSUME NEW t \in tails, TailRead(t) PROVE TypeOK'
  <2>1. inv' \in List \cup {None} /\ rev' \in Nat
    BY <1>15, AbsorbCopies DEF TailRead
  <2> QED
    BY <1>15, <2>1 DEF TailRead
<1>16. CASE Crash
  <2>1. up' \in BOOLEAN /\ accepted' \in BOOLEAN
    BY <1>16, Zenon DEF Crash
  <2>2. budget' \in [crash : Nat, swap : Nat, max : Bounds]
    BY <1>16 DEF Crash
  <2> QED
    BY <1>16, <2>1, <2>2 DEF Crash
<1>17. CASE Recover
  <2>1. up' \in BOOLEAN
    BY <1>17, Zenon DEF Recover
  <2>2. op' \in Operation \cup {None} /\ thread' \in {"none", "journal", "start", "wait", "verify"}
    BY <1>17, StateOnly DEF Recover
  <2> QED
    BY <1>17, <2>1, <2>2 DEF Recover
<1>18. CASE Swap
  <2>1. budget' \in [crash : Nat, swap : Nat, max : Bounds]
    BY <1>18 DEF Swap
  <2> QED
    BY <1>18, <2>1 DEF Swap
<1>19. CASE UNCHANGED vars
  BY <1>19 DEF vars
<1> QED
  BY <1>1, <1>2, <1>3, <1>4, <1>5, <1>6, <1>7, <1>8, <1>9, <1>10, <1>11, <1>12, <1>13, <1>14,
     <1>15, <1>16, <1>17, <1>18, <1>19 DEF Next, Tailing

(***************************************************************************)
(* The steps that settle an operation, as the other proofs use them.       *)
(***************************************************************************)

\* The end of a helper run matters to the agent only if its thread waits.
LEMMA RunEnds ==
  ASSUME SwitchInv, HelperEnds
  PROVE  /\ helper # None /\ helper' = None
         /\ UNCHANGED <<cards, slot, up, inv, rev, journal, queued, world, budget>>
         /\ \/ thread # "wait" /\ UNCHANGED <<op, thread, tails>>
            \/ thread = "wait" /\ op # None /\ Settled(helper.phase)
<1>1. TypeOK /\ ThreadInv
  BY DEF SwitchInv
<1>2. up \in BOOLEAN
  BY <1>1 DEF TypeOK
<1>3. CASE thread = "wait"
  <2>1. up = TRUE /\ op # None
    BY <1>1, <1>2, <1>3 DEF ThreadInv
  <2>2. PICK e \in Endings(helper.phase) : IF op.kind = "nickname" THEN SettleNickname(e) ELSE SettleSwitch(e)
    BY <1>3, <2>1 DEF HelperEnds
  <2> QED
    BY <1>1, <1>3, <2>1, <2>2, RunIsSettled DEF HelperEnds
<1>4. CASE thread # "wait"
  BY <1>4 DEF HelperEnds
<1> QED
  BY <1>3, <1>4

\* The change of the operation shows on the card in the slot.
Shows == Done(op.kind, cards[slot].prof[op.target])

\* A read of verify(): it goes on reading, or the operation is resolved by what it read.
LEMMA ReadSettles ==
  ASSUME SwitchInv, VerifyRead
  PROVE  /\ helper = None /\ op # None /\ op \in Operation /\ thread = "verify" /\ op.kind # "nickname"
         /\ inv' \in List /\ inv' # None
         /\ inv'.eid = slot /\ inv'.prof = cards[slot].prof /\ inv'.notes = cards[slot].notes
         /\ op' \in Operation /\ op' # None /\ SameChange(op', op)
         /\ \/ thread' = "verify" /\ op' = op /\ tails' = tails
            \/ /\ thread' = "none" /\ op'.state \in {"succeeded", "unknown", "failed"}
               /\ op'.state = "succeeded" => Shows
               /\ op'.state = "failed" => cards[slot].prof[op.target] # "absent" /\ ~Shows
               /\ \E t \in TailRecord :
                    /\ tails' = tails \cup {t}
                    /\ t.new \in {{}, {<<slot, n>> : n \in cards[slot].notes \ op.before}}
<1>1. TypeOK /\ ThreadInv
  BY DEF SwitchInv
<1>2. op # None /\ op \in Operation /\ thread = "verify" /\ op.kind # "nickname"
  BY <1>1 DEF VerifyRead, ThreadInv, TypeOK
<1>3. /\ inv' \in List /\ inv' # None
      /\ inv'.eid = slot /\ inv'.prof = cards[slot].prof /\ inv'.notes = cards[slot].notes
  BY <1>1, AbsorbCopies DEF VerifyRead
<1>4. helper = None
  BY DEF VerifyRead, Readable
<1> DEFINE Got == {<<slot, n>> : n \in cards[slot].notes \ op.before}
<1>5. Got \in SUBSET (Eids \X Nat)
  BY <1>1 DEF TypeOK
<1>6. \/ UNCHANGED <<op, thread, accepted, tails>>
      \/ Shows /\ Finish("succeeded", "queue", Got)
      \/ Finish("unknown", "done", {})
      \/ ~Shows /\ cards[slot].prof[op.target] # "absent" /\ Finish("failed", "done", {})
  <2> HIDE DEF Got
  <2>1. Got = {<<slot, n>> : n \in inv'.notes \ op.before}
    BY <1>3 DEF Got
  <2> QED
    BY <1>3, <2>1 DEF VerifyRead, Shows
<1>7. CASE UNCHANGED <<op, thread, accepted, tails>>
  BY <1>2, <1>3, <1>4, <1>7 DEF SameChange, Match
<1>8. ASSUME NEW s \in {"succeeded", "unknown", "failed"}, NEW n \in {"done", "queue"},
             NEW new \in {{}, Got}, Finish(s, n, new)
      PROVE  /\ op' \in Operation /\ op' # None /\ SameChange(op', op)
             /\ thread' = "none" /\ op'.state = s
             /\ \E t \in TailRecord : tails' = tails \cup {t} /\ t.new = new
  <2>1. s \in Resolved /\ n \in {"done", "read", "queue"} /\ new \in SUBSET (Eids \X Nat)
    BY <1>5 DEF Resolved
  <2> QED
    BY <1>1, <1>2, <1>8, <2>1, FinishResolves
<1> HIDE DEF Got
<1>9. CASE Shows /\ Finish("succeeded", "queue", Got)
  BY <1>2, <1>3, <1>4, <1>8, <1>9 DEF Got
<1>10. CASE Finish("unknown", "done", {})
  BY <1>2, <1>3, <1>4, <1>8, <1>10 DEF Got
<1>11. CASE ~Shows /\ cards[slot].prof[op.target] # "absent" /\ Finish("failed", "done", {})
  BY <1>2, <1>3, <1>4, <1>8, <1>11 DEF Got
<1> QED
  BY <1>6, <1>7, <1>9, <1>10, <1>11

\* The window of verify() closes.
LEMMA WindowCloses ==
  ASSUME SwitchInv, VerifyWindowCloses
  PROVE  /\ op # None /\ thread = "verify" /\ op' \in Operation /\ op' # None /\ SameChange(op', op)
         /\ thread' = "none" /\ op'.state = "unknown"
         /\ \E t \in TailRecord : tails' = tails \cup {t} /\ t.new = {}
<1>1. TypeOK /\ ThreadInv
  BY DEF SwitchInv
<1>2. op # None /\ thread = "verify"
  BY <1>1 DEF VerifyWindowCloses, ThreadInv
<1> QED
  BY <1>1, <1>2, FinishResolves DEF VerifyWindowCloses, Resolved

\* A failed read of verify() shows another state of the same unresolved operation.
LEMMA ReadFails ==
  ASSUME SwitchInv, VerifyReadFails
  PROVE  /\ op # None /\ op' \in Operation /\ op' # None /\ SameChange(op', op)
         /\ thread = "verify" /\ op'.state \notin Resolved
<1>1. op \in Operation /\ op # None
  BY DEF SwitchInv, TypeOK, ThreadInv, VerifyReadFails
<1>2. PICK s \in {"reloading", "verifying"} : op' = [op EXCEPT !.state = s]
  BY DEF VerifyReadFails
<1>3. s \in Resolved \cup {"pending", "reloading", "verifying"}
  OBVIOUS
<1> QED
  BY <1>1, <1>2, <1>3, StateOnly DEF VerifyReadFails, Resolved

\* recover() takes the change from the journal.
LEMMA RecoverReads ==
  ASSUME SwitchInv, Recover
  PROVE  \/ journal = None /\ UNCHANGED <<op, thread>>
         \/ /\ journal # None /\ thread' = "verify" /\ op' \in Operation /\ op' # None
            /\ SameChange(op', journal) /\ op'.state = "verifying"
<1>1. CASE journal = None
  BY <1>1 DEF Recover
<1>2. CASE journal # None
  <2>1. journal \in Operation
    BY <1>2 DEF SwitchInv, TypeOK
  <2> QED
    BY <1>2, <2>1, StateOnly DEF Recover
<1> QED
  BY <1>1, <1>2

(***************************************************************************)
(* Requests and homes.                                                     *)
(***************************************************************************)
\* Ask() is the only source of requests, and its ids grow; the others only copy one.
LEMMA StepRequests == SwitchInv /\ [Next]_vars => RequestInv'
<1> SUFFICES ASSUME SwitchInv, [Next]_vars PROVE RequestInv'
    OBVIOUS
<1>0. RequestInv /\ TypeOK /\ ThreadInv
  BY DEF SwitchInv
<1> USE <1>0 DEF RequestInv, Asked, agent, world
<1>1. CASE Refresh
  BY <1>1 DEF Refresh
<1>2. ASSUME NEW k \in Kinds, NEW p \in Profiles, Ask(k, p) PROVE RequestInv'
  <2> DEFINE new == [id |-> used + 1, kind |-> k, target |-> p, rev |-> rev]
  <2>1. requests' = requests \cup {new} /\ used' = used + 1 /\ new.id = used + 1
        /\ UNCHANGED <<op, journal, helper>>
    BY <1>2 DEF Ask
  <2>2. used \in Nat /\ \A r \in requests : r.id \in Nat
    BY EsimConstants DEF TypeOK, Request, Ids
  <2> HIDE DEF new
  <2>3. \A r \in requests' : r.id <= used'
    BY <2>1, <2>2
  <2>4. \A r, s \in requests' : r.id = s.id => r = s
    BY <2>1, <2>2
  <2> QED
    BY <2>1, <2>3, <2>4
<1>3. ASSUME NEW r \in requests, Admit(r) PROVE RequestInv'
  <2>1. op'.id = r.id /\ op'.kind = r.kind /\ op'.target = r.target
    BY <1>3 DEF Admit
  <2> QED
    BY <1>3, <2>1 DEF Admit
<1>4. CASE WriteJournal
  BY <1>4 DEF WriteJournal, ThreadInv
<1>5. CASE WriteJournalFails
  BY <1>5 DEF WriteJournalFails
<1>6. CASE StartHelper
  <2>1. helper'.id = op.id /\ helper'.kind = op.kind /\ helper'.target = op.target /\ op # None
    BY <1>6 DEF StartHelper, ThreadInv
  <2> QED
    BY <1>6, <2>1 DEF StartHelper
<1>7. CASE HelperCheck
  <2>1. helper # None /\ helper'.id = helper.id /\ helper'.kind = helper.kind /\ helper'.target = helper.target
    BY <1>7 DEF HelperCheck, TypeOK, HelperRun
  <2> QED
    BY <1>7, <2>1 DEF HelperCheck
<1>8. CASE HelperWrite
  <2>1. helper # None /\ helper'.id = helper.id /\ helper'.kind = helper.kind /\ helper'.target = helper.target
    BY <1>8 DEF HelperWrite, TypeOK, HelperRun
  <2> QED
    BY <1>8, <2>1 DEF HelperWrite
<1>9. CASE HelperEnds
  BY <1>9, RunEnds DEF Settled, SameChange, Match
<1>10. CASE VerifyRead
  <2>1. op # None /\ SameChange(op', op)
    BY <1>10, ReadSettles
  <2> QED
    BY <1>10, <2>1 DEF VerifyRead, SameChange, Match
<1>11. CASE VerifyReadFails
  BY <1>11, ReadFails DEF VerifyReadFails, SameChange, Match
<1>12. CASE VerifyWindowCloses
  BY <1>12, WindowCloses DEF VerifyWindowCloses, SameChange, Match
<1>13. ASSUME NEW t \in tails, ClearJournal(t) PROVE RequestInv'
  BY <1>13 DEF ClearJournal
<1>14. ASSUME NEW t \in tails, QueueReceipts(t) PROVE RequestInv'
  BY <1>14 DEF QueueReceipts
<1>15. ASSUME NEW t \in tails, TailRead(t) PROVE RequestInv'
  BY <1>15 DEF TailRead
<1>16. CASE Crash
  BY <1>16 DEF Crash
<1>17. CASE Recover
  BY <1>17, RecoverReads DEF Recover, SameChange, Match
<1>18. CASE Swap
  BY <1>18 DEF Swap
<1>19. CASE UNCHANGED vars
  BY <1>19 DEF vars
<1> QED
  BY <1>1, <1>2, <1>3, <1>4, <1>5, <1>6, <1>7, <1>8, <1>9, <1>10, <1>11, <1>12, <1>13, <1>14,
     <1>15, <1>16, <1>17, <1>18, <1>19 DEF Next, Tailing

\* A helper run that has not ended keeps its request; the write may apply it to the card.
Applies(n) ==
  /\ cards' = [cards EXCEPT ![slot] =
                 [prof |-> Change(@.prof, helper.kind, helper.target),
                  notes |-> @.notes \cup {@.seq + i : i \in 1 .. n},
                  seq |-> @.seq + n]]
  /\ made' = made \cup {<<slot, cards[slot].seq + i>> : i \in 1 .. n}
  /\ applied' = applied \cup {helper.id}
  /\ helper'.phase = "applied"

\* The check before the write moves the run on and keeps its request.
LEMMA CheckKeepsRequest ==
  ASSUME SwitchInv, HelperCheck
  PROVE  /\ helper # None /\ helper' # None /\ helper' \in HelperRun
         /\ Match(helper', helper) /\ helper.phase = "check" /\ helper'.phase \in {"write", "changed"}
<1>1. helper \in HelperRun /\ helper # None /\ helper.phase = "check"
  BY DEF HelperCheck, SwitchInv, TypeOK
<1>2. PICK ph \in {"write", "changed"} : helper' = [helper EXCEPT !.phase = ph]
  BY DEF HelperCheck
<1> QED
  BY <1>1, <1>2, EsimConstants DEF HelperRun, Match

\* The write keeps the request of the run, and the agent knows nothing of it yet.
LEMMA WriteKeepsRequest ==
  ASSUME SwitchInv, HelperWrite
  PROVE  /\ helper # None /\ helper' # None /\ helper \in HelperRun /\ helper' \in HelperRun
         /\ Match(helper', helper) /\ helper.phase = "write" /\ slot = helper.eid
         /\ sent' = [sent EXCEPT ![helper.id] = @ + 1]
         /\ UNCHANGED <<slot, agent, requests, used, budget>>
         /\ \/ \E n \in {0, 1} : Applies(n)
            \/ helper'.phase \in {"busy", "refused"} /\ UNCHANGED <<cards, made, applied>>
<1>1. helper \in HelperRun /\ helper # None /\ helper.phase = "write"
  BY DEF HelperWrite, SwitchInv, TypeOK
<1>2. PICK ph \in {"applied", "busy", "refused"} : helper' = [helper EXCEPT !.phase = ph]
  BY DEF HelperWrite
<1>3. helper' # None /\ helper' \in HelperRun /\ Match(helper', helper) /\ helper'.phase = ph
  BY <1>1, <1>2, EsimConstants DEF HelperRun, Match
<1>4. \/ \E n \in {0, 1} : Applies(n)
      \/ helper'.phase \in {"busy", "refused"} /\ UNCHANGED <<cards, made, applied>>
  <2>1. \A x : helper' = [helper EXCEPT !.phase = x] => helper'.phase = x
    BY <1>1 DEF HelperRun
  <2> QED
    BY <2>1 DEF HelperWrite, Applies
<1> QED
  BY <1>1, <1>3, <1>4 DEF HelperWrite

\* What an applied write leaves on the card.
LEMMA WriteChangesCard ==
  ASSUME SwitchInv, HelperWrite, NEW n \in {0, 1}, Applies(n)
  PROVE  /\ \A e \in Eids : e # slot => cards'[e] = cards[e]
         /\ cards'[slot].notes = cards[slot].notes \cup {cards[slot].seq + i : i \in 1 .. n}
         /\ helper.kind # "nickname" => Done(helper.kind, cards'[slot].prof[helper.target])
         /\ \A p \in Profiles : helper.kind = "nickname" => cards'[slot].prof[p] = cards[slot].prof[p]
         /\ \A p \in Profiles : p # helper.target /\ cards[slot].prof[p] = "absent" => cards'[slot].prof[p] = "absent"
<1>1. cards \in [Eids -> [prof : [Profiles -> States], notes : SUBSET Nat, seq : Nat]] /\ slot \in Eids
  BY DEF SwitchInv, TypeOK
<1>2. helper.kind \in Kinds /\ helper.target \in Profiles
  BY WriteKeepsRequest DEF HelperRun
<1>3. cards'[slot].prof = Change(cards[slot].prof, helper.kind, helper.target)
  BY <1>1 DEF Applies
<1>4. cards'[slot].notes = cards[slot].notes \cup {cards[slot].seq + i : i \in 1 .. n}
  BY <1>1 DEF Applies
<1>5. \A e \in Eids : e # slot => cards'[e] = cards[e]
  BY <1>1 DEF Applies
<1>6. cards[slot].prof \in [Profiles -> States]
  BY <1>1
<1> QED
  BY <1>2, <1>3, <1>4, <1>5, <1>6, ChangeIsDone

\* Lists, operations, journal and helper runs name profiles of the card they were read from.
LEMMA StepHomes == SwitchInv /\ [Next]_vars => HomeInv'
<1> SUFFICES ASSUME SwitchInv, [Next]_vars PROVE HomeInv'
    OBVIOUS
<1>0. HomeInv /\ TypeOK /\ ThreadInv
  BY DEF SwitchInv
<1>a. cards \in [Eids -> [prof : [Profiles -> States], notes : SUBSET Nat, seq : Nat]] /\ slot \in Eids
  BY <1>0 DEF TypeOK
<1>b. Absorb => /\ inv' # None
                /\ \A p \in Profiles : inv'.prof[p] # "absent" => p \in OnCard[inv'.eid]
  BY <1>0, <1>a, AbsorbCopies DEF HomeInv
<1> USE <1>0 DEF HomeInv, agent, world
<1>1. CASE Refresh
  BY <1>1, <1>b DEF Refresh
<1>2. ASSUME NEW k \in Kinds, NEW p \in Profiles, Ask(k, p) PROVE HomeInv'
  BY <1>2 DEF Ask
<1>3. ASSUME NEW r \in requests, Admit(r) PROVE HomeInv'
  <2>1. op'.target = r.target /\ op'.eid = inv.eid /\ r.target \in Profiles
    BY <1>3 DEF Admit, TypeOK, Request
  <2>2. r.target \in OnCard[inv.eid]
    BY <1>3, <2>1 DEF Admit, Admissible
  <2> QED
    BY <1>3, <2>1, <2>2 DEF Admit
<1>4. CASE WriteJournal
  BY <1>4 DEF WriteJournal, ThreadInv
<1>5. CASE WriteJournalFails
  BY <1>5 DEF WriteJournalFails
<1>6. CASE StartHelper
  <2>1. helper'.eid = op.eid /\ helper'.target = op.target /\ op # None
    BY <1>6 DEF StartHelper, ThreadInv
  <2> QED
    BY <1>6, <2>1 DEF StartHelper
<1>7. CASE HelperCheck
  BY <1>7, CheckKeepsRequest DEF HelperCheck, Match
<1>8. CASE HelperWrite
  <2>1. \A e \in Eids, p \in Profiles : cards'[e].prof[p] # "absent" => p \in OnCard[e]
    <3>1. CASE UNCHANGED cards
      BY <3>1
    <3>2. ASSUME NEW n \in {0, 1}, Applies(n),
                 NEW e \in Eids, NEW p \in Profiles, cards'[e].prof[p] # "absent"
          PROVE  p \in OnCard[e]
      <4>1. slot = helper.eid /\ helper.target \in OnCard[helper.eid]
        BY <1>8, WriteKeepsRequest
      <4>2. e # slot => cards'[e] = cards[e]
        BY <1>8, <3>2, WriteChangesCard
      <4>3. p # helper.target /\ cards[slot].prof[p] = "absent" => cards'[slot].prof[p] = "absent"
        BY <1>8, <3>2, WriteChangesCard
      <4> QED
        BY <3>2, <4>1, <4>2, <4>3
    <3> QED
      BY <1>8, <3>1, <3>2, WriteKeepsRequest
  <2> QED
    BY <1>8, <2>1, WriteKeepsRequest DEF Match
<1>9. CASE HelperEnds
  BY <1>9, RunEnds DEF Settled, SameChange, Match
<1>10. CASE VerifyRead
  <2>1. op # None /\ SameChange(op', op)
    BY <1>10, ReadSettles
  <2> QED
    BY <1>10, <1>b, <2>1 DEF VerifyRead, SameChange, Match
<1>11. CASE VerifyReadFails
  BY <1>11, ReadFails DEF VerifyReadFails, SameChange, Match
<1>12. CASE VerifyWindowCloses
  BY <1>12, WindowCloses DEF VerifyWindowCloses, SameChange, Match
<1>13. ASSUME NEW t \in tails, ClearJournal(t) PROVE HomeInv'
  BY <1>13 DEF ClearJournal
<1>14. ASSUME NEW t \in tails, QueueReceipts(t) PROVE HomeInv'
  BY <1>14 DEF QueueReceipts
<1>15. ASSUME NEW t \in tails, TailRead(t) PROVE HomeInv'
  BY <1>15, <1>b DEF TailRead
<1>16. CASE Crash
  BY <1>16 DEF Crash
<1>17. CASE Recover
  BY <1>17, RecoverReads DEF Recover, SameChange, Match
<1>18. CASE Swap
  BY <1>18 DEF Swap
<1>19. CASE UNCHANGED vars
  BY <1>19 DEF vars
<1> QED
  BY <1>1, <1>2, <1>3, <1>4, <1>5, <1>6, <1>7, <1>8, <1>9, <1>10, <1>11, <1>12, <1>13, <1>14,
     <1>15, <1>16, <1>17, <1>18, <1>19 DEF Next, Tailing

(***************************************************************************)
(* Who writes: threads and helper runs.                                    *)
(***************************************************************************)

\* A change is admitted only when no helper run is left: the list it needs was read since.
LEMMA AdmitFindsNoRun ==
  ASSUME SwitchInv, NEW r \in requests, Admit(r)
  PROVE  helper = None /\ thread = "none" /\ inv # None /\ inv \in List /\ r \in Request
<1>1. ThreadInv /\ HelperInv /\ TypeOK
  BY DEF SwitchInv
<1>2. inv # None /\ ~Busy
  BY DEF Admit, Admissible
<1>3. thread = "none"
  BY <1>1, <1>2 DEF ThreadInv, Busy
<1>4. helper = None
  BY <1>1, <1>2, <1>3 DEF HelperInv
<1> QED
  BY <1>1, <1>2, <1>3, <1>4 DEF TypeOK

\* What each step of the agent leaves to its thread, its journal and its helper run.
LEMMA StepThreads == SwitchInv /\ TypeOK' /\ [Next]_vars => ThreadInv'
<1> SUFFICES ASSUME SwitchInv, TypeOK', [Next]_vars PROVE ThreadInv'
    OBVIOUS
<1>0. TypeOK /\ ThreadInv
  BY DEF SwitchInv
<1>a. up \in BOOLEAN /\ up' \in BOOLEAN
  BY <1>0 DEF TypeOK
<1> USE <1>0 DEF ThreadInv, agent, world
<1>1. CASE Refresh
  BY <1>a, <1>1 DEF Refresh, Readable
<1>2. ASSUME NEW k \in Kinds, NEW p \in Profiles, Ask(k, p) PROVE ThreadInv'
  BY <1>2 DEF Ask
<1>3. ASSUME NEW r \in requests, Admit(r) PROVE ThreadInv'
  <2>1. helper = None
    BY <1>3, AdmitFindsNoRun
  <2>2. op' # None /\ op'.state = "pending" /\ op'.id = r.id /\ op'.kind = r.kind
    <3>1. op' \in Operation \cup {None} /\ op'.state = "pending" /\ op'.id = r.id /\ op'.kind = r.kind
      BY <1>3 DEF Admit, TypeOK
    <3>2. op' \in Operation
      <4>1. r \in Request /\ inv \in List
        BY <1>3, AdmitFindsNoRun
      <4>2. Active(inv.prof) \in Profiles \cup {None}
        BY DEF Active
      <4> QED
        BY <1>3, <4>1, <4>2 DEF Admit, Request, List, Operation
    <3> QED
      BY <3>1, <3>2, EsimConstants
  <2>3. r.id \in Ids /\ sent \in [Ids -> Nat]
    BY <1>3, AdmitFindsNoRun DEF Request, TypeOK
  <2>4. sent'[r.id] = 0 /\ r.id \notin applied'
    BY <1>3, <2>3 DEF Admit
  <2>5. up' = TRUE /\ thread' = IF r.kind = "nickname" THEN "start" ELSE "journal"
    BY <1>3, <1>a DEF Admit
  <2> QED
    BY <1>3, <2>1, <2>2, <2>4, <2>5 DEF Admit, Resolved
<1>4. CASE WriteJournal
  BY <1>4 DEF WriteJournal, Match
<1>5. CASE WriteJournalFails
  BY <1>5 DEF WriteJournalFails
<1>6. CASE StartHelper
  <2>1. op # None /\ op \in Operation
    BY <1>6 DEF StartHelper, TypeOK
  <2>2. helper' \in HelperRun
    BY <1>6, <2>1 DEF StartHelper, Operation, HelperRun
  <2>3. helper' # None /\ Match(op, helper')
    BY <1>6, <2>2, EsimConstants DEF StartHelper, Match
  <2> QED
    BY <1>6, <2>3 DEF StartHelper, Match
<1>7. CASE HelperCheck
  BY <1>7, CheckKeepsRequest DEF HelperCheck, Match
<1>8. CASE HelperWrite
  BY <1>8, WriteKeepsRequest DEF Match
<1>9. CASE HelperEnds
  BY <1>9, RunEnds DEF Settled, SameChange, Match
<1>10. CASE VerifyRead
  <2>1. /\ op # None /\ op.kind # "nickname" /\ thread = "verify"
        /\ op' # None /\ SameChange(op', op)
        /\ \/ thread' = "verify" /\ op' = op
           \/ thread' = "none"
    BY <1>10, ReadSettles
  <2>2. up = TRUE /\ up' = TRUE /\ helper = None
    BY <1>10, <1>a DEF VerifyRead, Readable
  <2> QED
    BY <1>10, <2>1, <2>2 DEF VerifyRead, SameChange, Match
<1>11. CASE VerifyReadFails
  BY <1>a, <1>11, ReadFails DEF VerifyReadFails, SameChange, Match
<1>12. CASE VerifyWindowCloses
  BY <1>a, <1>12, WindowCloses DEF VerifyWindowCloses, SameChange, Match
<1>13. ASSUME NEW t \in tails, ClearJournal(t) PROVE ThreadInv'
  BY <1>a, <1>13 DEF ClearJournal
<1>14. ASSUME NEW t \in tails, QueueReceipts(t) PROVE ThreadInv'
  BY <1>a, <1>14 DEF QueueReceipts
<1>15. ASSUME NEW t \in tails, TailRead(t) PROVE ThreadInv'
  BY <1>a, <1>15 DEF TailRead, Readable
<1>16. CASE Crash
  BY <1>16 DEF Crash
<1>17. CASE Recover
  <2>1. up' = TRUE /\ up = FALSE
    BY <1>17, <1>a DEF Recover
  <2> QED
    BY <1>17, <2>1, RecoverReads DEF Recover, SameChange, Match, Resolved
<1>18. CASE Swap
  BY <1>18 DEF Swap
<1>19. CASE UNCHANGED vars
  BY <1>19 DEF vars
<1> QED
  BY <1>1, <1>2, <1>3, <1>4, <1>5, <1>6, <1>7, <1>8, <1>9, <1>10, <1>11, <1>12, <1>13, <1>14,
     <1>15, <1>16, <1>17, <1>18, <1>19 DEF Next, Tailing

\* A helper run and the agent that started it, or that came after it, agree.
LEMMA StepRuns == SwitchInv /\ [Next]_vars => HelperInv'
<1> SUFFICES ASSUME SwitchInv, [Next]_vars PROVE HelperInv'
    OBVIOUS
<1>0. TypeOK /\ ThreadInv /\ HelperInv
  BY DEF SwitchInv
<1>a. up \in BOOLEAN
  BY <1>0 DEF TypeOK
<1> USE <1>0 DEF HelperInv, agent, world
<1>1. CASE Refresh
  BY <1>1 DEF Refresh, Readable
<1>2. ASSUME NEW k \in Kinds, NEW p \in Profiles, Ask(k, p) PROVE HelperInv'
  BY <1>2 DEF Ask
<1>3. ASSUME NEW r \in requests, Admit(r) PROVE HelperInv'
  BY <1>3, AdmitFindsNoRun DEF Admit
<1>4. CASE WriteJournal
  BY <1>4 DEF WriteJournal, ThreadInv
<1>5. CASE WriteJournalFails
  BY <1>5 DEF WriteJournalFails, ThreadInv
<1>6. CASE StartHelper
  BY <1>6 DEF StartHelper, ThreadInv, Match
<1>7. CASE HelperCheck
  BY <1>7, CheckKeepsRequest DEF HelperCheck, Match
<1>8. CASE HelperWrite
  <2>1. /\ helper # None /\ Match(helper', helper) /\ helper.phase = "write"
        /\ UNCHANGED <<inv, op, journal, thread>> /\ helper'.phase \notin {"check", "write"}
        /\ helper'.id \in applied' <=> helper'.phase = "applied"
    BY <1>8, WriteKeepsRequest DEF Applies, Match
  <2> QED
    BY <2>1 DEF Match
<1>9. CASE HelperEnds
  BY <1>9 DEF HelperEnds
<1>10. CASE VerifyRead
  BY <1>10 DEF VerifyRead, Readable
<1>11. CASE VerifyReadFails
  BY <1>11, ReadFails DEF VerifyReadFails, SameChange, Match, Resolved
<1>12. CASE VerifyWindowCloses
  BY <1>12, WindowCloses DEF VerifyWindowCloses
<1>13. ASSUME NEW t \in tails, ClearJournal(t) PROVE HelperInv'
  BY <1>13 DEF ClearJournal
<1>14. ASSUME NEW t \in tails, QueueReceipts(t) PROVE HelperInv'
  BY <1>14 DEF QueueReceipts
<1>15. ASSUME NEW t \in tails, TailRead(t) PROVE HelperInv'
  BY <1>15 DEF TailRead, Readable
<1>16. CASE Crash
  BY <1>16 DEF Crash
<1>17. CASE Recover
  <2>1. inv = None /\ op = None /\ thread = "none"
    BY <1>17, <1>a DEF Recover, ThreadInv
  <2> QED
    BY <1>17, <2>1, RecoverReads DEF Recover, SameChange, Match
<1>18. CASE Swap
  BY <1>18 DEF Swap
<1>19. CASE UNCHANGED vars
  BY <1>19 DEF vars
<1> QED
  BY <1>1, <1>2, <1>3, <1>4, <1>5, <1>6, <1>7, <1>8, <1>9, <1>10, <1>11, <1>12, <1>13, <1>14,
     <1>15, <1>16, <1>17, <1>18, <1>19 DEF Next, Tailing

(***************************************************************************)
(* What the card shows.                                                    *)
(***************************************************************************)

\* A change x that is not a nickname, and that a switching helper run can only be the run of,
\* stays visible when the helper run writes: the run is x's own and shows, or it sets a nickname.
LEMMA WriteKeepsVisible ==
  ASSUME SwitchInv, HelperWrite, NEW x \in Operation, x.kind # "nickname", Asked(x), Visible(x),
         helper.kind # "nickname" => Match(x, helper)
  PROVE  x.id \in applied' => Done(x.kind, cards'[x.eid].prof[x.target])
<1>1. x.eid \in Eids /\ x.target \in Profiles
  BY DEF Operation
<1>2. slot = helper.eid /\ helper # None
  BY WriteKeepsRequest
<1>3. CASE UNCHANGED <<cards, applied>>
  BY <1>3 DEF Visible
<1>4. ASSUME NEW n \in {0, 1}, Applies(n)
      PROVE  x.id \in applied' => Done(x.kind, cards'[x.eid].prof[x.target])
  <2>1. CASE helper.kind # "nickname"
    BY <1>2, <1>4, <2>1, WriteChangesCard DEF Match
  <2>2. CASE helper.kind = "nickname"
    <3>1. x.id # helper.id
      BY <1>2, <2>2 DEF SwitchInv, RequestInv, Asked
    <3>2. x.id \in applied' => x.id \in applied
      BY <1>4, <3>1 DEF Applies
    <3>3. cards'[x.eid].prof[x.target] = cards[x.eid].prof[x.target]
      <4>1. x.eid # slot => cards'[x.eid] = cards[x.eid]
        BY <1>1, <1>4, WriteChangesCard
      <4>2. cards'[slot].prof[x.target] = cards[slot].prof[x.target]
        BY <1>1, <1>4, <2>2, WriteChangesCard
      <4> QED
        BY <4>1, <4>2
    <3> QED
      BY <3>2, <3>3 DEF Visible
  <2> QED
    BY <2>1, <2>2
<1> QED
  BY <1>3, <1>4, WriteKeepsRequest

\* Nothing but its own reversal hides an applied change, and no reversal is admitted meanwhile.
LEMMA StepVisible == SwitchInv /\ [Next]_vars => VisibleInv'
<1> SUFFICES ASSUME SwitchInv, [Next]_vars PROVE VisibleInv'
    OBVIOUS
<1>0. TypeOK /\ ThreadInv /\ HelperInv /\ VisibleInv /\ RequestInv
  BY DEF SwitchInv
<1> USE <1>0 DEF VisibleInv, Visible, agent, world
<1>1. CASE Refresh
  BY <1>1 DEF Refresh
<1>2. ASSUME NEW k \in Kinds, NEW p \in Profiles, Ask(k, p) PROVE VisibleInv'
  BY <1>2 DEF Ask
<1>3. ASSUME NEW r \in requests, Admit(r) PROVE VisibleInv'
  BY <1>3, AdmitFindsNoRun DEF Admit
<1>4. CASE WriteJournal
  BY <1>4 DEF WriteJournal, ThreadInv
<1>5. CASE WriteJournalFails
  BY <1>5 DEF WriteJournalFails, ThreadInv
<1>6. CASE StartHelper
  BY <1>6 DEF StartHelper, ThreadInv
<1>7. CASE HelperCheck
  BY <1>7, CheckKeepsRequest DEF HelperCheck, Match
<1>8. CASE HelperWrite
  <2>1. /\ helper # None /\ helper' # None /\ Match(helper', helper) /\ slot = helper.eid
        /\ UNCHANGED <<op, journal, thread>>
    BY <1>8, WriteKeepsRequest
  <2>2. helper'.kind # "nickname" => Visible(helper)'
    <3>1. CASE UNCHANGED <<cards, applied>>
      BY <2>1, <3>1 DEF Match
    <3>2. ASSUME NEW n \in {0, 1}, Applies(n) PROVE helper'.kind # "nickname" => Visible(helper)'
      BY <1>8, <2>1, <3>2, WriteChangesCard DEF Match
    <3> QED
      BY <1>8, <3>1, <3>2, WriteKeepsRequest
  <2>3. journal' # None => Visible(journal)'
    <3>1. CASE journal = None
      BY <2>1, <3>1
    <3>2. CASE journal # None
      <4>1. journal \in Operation /\ journal.kind # "nickname" /\ Asked(journal) /\ Visible(journal)
        BY <3>2 DEF TypeOK, ThreadInv, RequestInv
      <4>2. helper.kind # "nickname" => Match(journal, helper)
        BY <2>1, <3>2 DEF HelperInv
      <4>3. journal.id \in applied' => Done(journal.kind, cards'[journal.eid].prof[journal.target])
        BY <1>8, <4>1, <4>2, WriteKeepsVisible
      <4> QED
        BY <2>1, <4>3
    <3> QED
      BY <3>1, <3>2
  <2>4. thread' = "verify" => Visible(op)'
    <3>1. CASE thread # "verify"
      BY <2>1, <3>1
    <3>2. CASE thread = "verify"
      <4>1. op \in Operation /\ op.kind # "nickname" /\ Asked(op) /\ Visible(op)
        BY <3>2 DEF TypeOK, ThreadInv, RequestInv
      <4>2. helper.kind # "nickname" => Match(op, helper)
        BY <2>1, <3>2 DEF HelperInv
      <4>3. op.id \in applied' => Done(op.kind, cards'[op.eid].prof[op.target])
        BY <1>8, <4>1, <4>2, WriteKeepsVisible
      <4> QED
        BY <2>1, <4>3
    <3> QED
      BY <3>1, <3>2
  <2> QED
    BY <2>2, <2>3, <2>4
<1>9. CASE HelperEnds
  BY <1>9, RunEnds DEF Settled, SameChange, Match, ThreadInv
<1>10. CASE VerifyRead
  BY <1>10, ReadSettles DEF VerifyRead
<1>11. CASE VerifyReadFails
  BY <1>11, ReadFails DEF VerifyReadFails, SameChange, Match
<1>12. CASE VerifyWindowCloses
  BY <1>12, WindowCloses DEF VerifyWindowCloses
<1>13. ASSUME NEW t \in tails, ClearJournal(t) PROVE VisibleInv'
  BY <1>13 DEF ClearJournal
<1>14. ASSUME NEW t \in tails, QueueReceipts(t) PROVE VisibleInv'
  BY <1>14 DEF QueueReceipts
<1>15. ASSUME NEW t \in tails, TailRead(t) PROVE VisibleInv'
  BY <1>15 DEF TailRead
<1>16. CASE Crash
  BY <1>16 DEF Crash
<1>17. CASE Recover
  BY <1>17, RecoverReads DEF Recover, SameChange, Match
<1>18. CASE Swap
  BY <1>18 DEF Swap
<1>19. CASE UNCHANGED vars
  BY <1>19 DEF vars
<1> QED
  BY <1>1, <1>2, <1>3, <1>4, <1>5, <1>6, <1>7, <1>8, <1>9, <1>10, <1>11, <1>12, <1>13, <1>14,
     <1>15, <1>16, <1>17, <1>18, <1>19 DEF Next, Tailing

\* The answers `busy', `refused' and `failed' stay true.
LEMMA StepNothingChanged == SwitchInv /\ [Next]_vars => NothingChangedIsTrue'
<1> SUFFICES ASSUME SwitchInv, [Next]_vars PROVE NothingChangedIsTrue'
    OBVIOUS
<1>0. TypeOK /\ ThreadInv /\ HelperInv /\ VisibleInv /\ HomeInv /\ NothingChangedIsTrue
  BY DEF SwitchInv
<1> USE <1>0 DEF NothingChangedIsTrue, agent, world
<1>1. CASE Refresh
  BY <1>1 DEF Refresh
<1>2. ASSUME NEW k \in Kinds, NEW p \in Profiles, Ask(k, p) PROVE NothingChangedIsTrue'
  BY <1>2 DEF Ask
<1>3. ASSUME NEW r \in requests, Admit(r) PROVE NothingChangedIsTrue'
  BY <1>3 DEF Admit
<1>4. CASE WriteJournal
  BY <1>4 DEF WriteJournal
<1>5. CASE WriteJournalFails
  BY <1>5 DEF WriteJournalFails
<1>6. CASE StartHelper
  BY <1>6 DEF StartHelper
<1>7. CASE HelperCheck
  BY <1>7 DEF HelperCheck
<1>8. CASE HelperWrite
  <2>1. helper # None /\ UNCHANGED <<op, thread>>
    BY <1>8, WriteKeepsRequest
  <2>2. op # None => op.state \notin {"busy", "refused", "failed"}
    BY <2>1 DEF ThreadInv, HelperInv, Resolved
  <2> QED
    BY <2>1, <2>2
<1>9. CASE HelperEnds
  BY <1>9, RunEnds DEF Settled, SameChange, Match, ThreadInv, HelperInv, Resolved
<1>10. CASE VerifyRead
  <2>1. /\ op # None /\ thread = "verify" /\ op' # None /\ SameChange(op', op) /\ op \in Operation
        /\ UNCHANGED applied
        /\ \/ op' = op
           \/ /\ op'.state \in {"succeeded", "unknown", "failed"}
              /\ op'.state = "failed" => cards[slot].prof[op.target] # "absent" /\ ~Shows
    BY <1>10, ReadSettles DEF VerifyRead
  <2>2. CASE op' = op
    BY <2>1, <2>2
  <2>3. CASE op'.state = "failed" /\ cards[slot].prof[op.target] # "absent" /\ ~Shows
    <3>1. slot \in Eids /\ op.eid \in Eids /\ op.target \in Profiles
      BY <2>1 DEF TypeOK, Operation
    <3>2. op.target \in OnCard[slot] /\ op.target \in OnCard[op.eid]
      BY <2>1, <2>3, <3>1 DEF HomeInv
    <3>3. slot = op.eid
      BY <3>1, <3>2, EsimConstants
    <3>4. op.id \notin applied
      BY <2>1, <2>3, <3>3 DEF VisibleInv, Visible, Shows
    <3> QED
      BY <2>1, <3>4 DEF SameChange, Match
  <2>4. CASE op'.state \in {"succeeded", "unknown"}
    BY <2>4
  <2> QED
    BY <2>1, <2>2, <2>3, <2>4
<1>11. CASE VerifyReadFails
  BY <1>11, ReadFails DEF VerifyReadFails, Resolved
<1>12. CASE VerifyWindowCloses
  BY <1>12, WindowCloses DEF VerifyWindowCloses
<1>13. ASSUME NEW t \in tails, ClearJournal(t) PROVE NothingChangedIsTrue'
  BY <1>13 DEF ClearJournal
<1>14. ASSUME NEW t \in tails, QueueReceipts(t) PROVE NothingChangedIsTrue'
  BY <1>14 DEF QueueReceipts
<1>15. ASSUME NEW t \in tails, TailRead(t) PROVE NothingChangedIsTrue'
  BY <1>15 DEF TailRead
<1>16. CASE Crash
  BY <1>16 DEF Crash
<1>17. CASE Recover
  BY <1>17, RecoverReads DEF Recover
<1>18. CASE Swap
  BY <1>18 DEF Swap
<1>19. CASE UNCHANGED vars
  BY <1>19 DEF vars
<1> QED
  BY <1>1, <1>2, <1>3, <1>4, <1>5, <1>6, <1>7, <1>8, <1>9, <1>10, <1>11, <1>12, <1>13, <1>14,
     <1>15, <1>16, <1>17, <1>18, <1>19 DEF Next, Tailing

\* No step sends the write of an admission a second time.
LEMMA StepNeverReplayed == SwitchInv /\ [Next]_vars => NeverReplayed'
<1> SUFFICES ASSUME SwitchInv, [Next]_vars PROVE NeverReplayed'
    OBVIOUS
<1>0. TypeOK /\ HelperInv /\ NeverReplayed
  BY DEF SwitchInv
<1>1. CASE UNCHANGED sent
  BY <1>0, <1>1 DEF NeverReplayed
<1>2. ASSUME NEW r \in requests, Admit(r) PROVE NeverReplayed'
  BY <1>0, <1>2 DEF NeverReplayed, Admit, TypeOK
<1>3. CASE HelperWrite
  <2>1. helper # None /\ helper.phase = "write" /\ sent' = [sent EXCEPT ![helper.id] = @ + 1]
    BY <1>3, WriteKeepsRequest
  <2>2. sent[helper.id] = 0
    BY <1>0, <2>1 DEF HelperInv
  <2> QED
    BY <1>0, <2>1, <2>2 DEF NeverReplayed, TypeOK
<1> QED
  BY <1>1, <1>2, <1>3 DEF Next, Tailing, Refresh, Ask, WriteJournal, WriteJournalFails, StartHelper,
     HelperCheck, HelperEnds, VerifyRead, VerifyReadFails, VerifyWindowCloses, ClearJournal,
     QueueReceipts, TailRead, Crash, Recover, Swap, world, vars

(***************************************************************************)
(* Receipts.                                                               *)
(***************************************************************************)
\* Lists and operations are read after the start, so the backlog is part of what they hold.
LEMMA StepReceipts == SwitchInv /\ [Next]_vars => ReceiptInv'
<1> SUFFICES ASSUME SwitchInv, [Next]_vars PROVE ReceiptInv'
    OBVIOUS
<1>0. TypeOK /\ ThreadInv /\ ReceiptInv
  BY DEF SwitchInv
<1>a. cards \in [Eids -> [prof : [Profiles -> States], notes : SUBSET Nat, seq : Nat]] /\ slot \in Eids
  BY <1>0 DEF TypeOK
<1>b. Absorb => inv' # None /\ Old(inv'.eid) \subseteq inv'.notes
  BY <1>0, <1>a, AbsorbCopies DEF ReceiptInv
<1> USE <1>0 DEF ReceiptInv, agent, world
<1>1. CASE Refresh
  BY <1>1, <1>b DEF Refresh
<1>2. ASSUME NEW k \in Kinds, NEW p \in Profiles, Ask(k, p) PROVE ReceiptInv'
  BY <1>2 DEF Ask
<1>3. ASSUME NEW r \in requests, Admit(r) PROVE ReceiptInv'
  <2>1. op'.before = inv.notes /\ op'.eid = inv.eid /\ inv # None
    BY <1>3 DEF Admit, Admissible
  <2> QED
    BY <1>3, <2>1 DEF Admit
<1>4. CASE WriteJournal
  BY <1>4 DEF WriteJournal, ThreadInv
<1>5. CASE WriteJournalFails
  BY <1>5 DEF WriteJournalFails
<1>6. CASE StartHelper
  BY <1>6 DEF StartHelper
<1>7. CASE HelperCheck
  BY <1>7 DEF HelperCheck
<1>8. CASE HelperWrite
  <2>1. UNCHANGED <<inv, op, journal>>
    BY <1>8, WriteKeepsRequest
  <2>2. CASE UNCHANGED <<cards, made>>
    BY <2>1, <2>2
  <2>3. ASSUME NEW n \in {0, 1}, Applies(n) PROVE ReceiptInv'
    <3>1. \A e \in Eids : e # slot => cards'[e] = cards[e]
      BY <1>8, <2>3, WriteChangesCard
    <3>2. cards'[slot].notes = cards[slot].notes \cup {cards[slot].seq + i : i \in 1 .. n}
      BY <1>8, <2>3, WriteChangesCard
    <3>3. made' = made \cup {<<slot, cards[slot].seq + i>> : i \in 1 .. n}
      BY <2>3 DEF Applies
    <3>4. \A e \in Eids : Old(e) \subseteq cards'[e].notes
      BY <3>1, <3>2
    <3>5. \A e \in Eids : \A m \in cards'[e].notes : m \in Old(e) \/ <<e, m>> \in made'
      BY <3>1, <3>2, <3>3
    <3> QED
      BY <2>1, <3>4, <3>5
  <2> QED
    BY <1>8, <2>2, <2>3, WriteKeepsRequest
<1>9. CASE HelperEnds
  BY <1>9, RunEnds DEF Settled, SameChange, Match
<1>10. CASE VerifyRead
  <2>1. op # None /\ SameChange(op', op)
    BY <1>10, ReadSettles
  <2> QED
    BY <1>10, <1>b, <2>1 DEF VerifyRead, SameChange, Match
<1>11. CASE VerifyReadFails
  BY <1>11, ReadFails DEF VerifyReadFails, SameChange, Match
<1>12. CASE VerifyWindowCloses
  BY <1>12, WindowCloses DEF VerifyWindowCloses, SameChange, Match
<1>13. ASSUME NEW t \in tails, ClearJournal(t) PROVE ReceiptInv'
  BY <1>13 DEF ClearJournal
<1>14. ASSUME NEW t \in tails, QueueReceipts(t) PROVE ReceiptInv'
  BY <1>14 DEF QueueReceipts
<1>15. ASSUME NEW t \in tails, TailRead(t) PROVE ReceiptInv'
  BY <1>15, <1>b DEF TailRead
<1>16. CASE Crash
  BY <1>16 DEF Crash
<1>17. CASE Recover
  BY <1>17, RecoverReads DEF Recover, SameChange, Match
<1>18. CASE Swap
  BY <1>18 DEF Swap
<1>19. CASE UNCHANGED vars
  BY <1>19 DEF vars
<1> QED
  BY <1>1, <1>2, <1>3, <1>4, <1>5, <1>6, <1>7, <1>8, <1>9, <1>10, <1>11, <1>12, <1>13, <1>14,
     <1>15, <1>16, <1>17, <1>18, <1>19 DEF Next, Tailing

\* Without an exchange of cards only receipts made here are queued.
LEMMA StepSameCard == SwitchInv /\ [Next]_vars => SameCard'
<1> SUFFICES ASSUME SwitchInv, [Next]_vars PROVE SameCard'
    OBVIOUS
<1>0. TypeOK /\ ThreadInv /\ ReceiptInv /\ SameCard
  BY DEF SwitchInv
<1>a. Absorb => inv' # None /\ inv'.eid = slot
  BY <1>0, AbsorbCopies
<1> USE <1>0 DEF SameCard, agent, world
<1>1. CASE Refresh
  BY <1>1, <1>a DEF Refresh
<1>2. ASSUME NEW k \in Kinds, NEW p \in Profiles, Ask(k, p) PROVE SameCard'
  BY <1>2 DEF Ask
<1>3. ASSUME NEW r \in requests, Admit(r) PROVE SameCard'
  <2>1. op'.eid = inv.eid /\ inv # None
    BY <1>3 DEF Admit, Admissible
  <2> QED
    BY <1>3, <2>1 DEF Admit
<1>4. CASE WriteJournal
  BY <1>4 DEF WriteJournal, ThreadInv
<1>5. CASE WriteJournalFails
  BY <1>5 DEF WriteJournalFails
<1>6. CASE StartHelper
  BY <1>6 DEF StartHelper
<1>7. CASE HelperCheck
  BY <1>7 DEF HelperCheck
<1>8. CASE HelperWrite
  <2>1. made \subseteq made' /\ UNCHANGED <<inv, op, journal, slot, budget, queued, tails>>
    BY <1>8, WriteKeepsRequest DEF Applies
  <2> QED
    BY <2>1
<1>9. CASE HelperEnds
  <2>1. UNCHANGED <<slot, inv, journal, queued, made, budget>>
    BY <1>9, RunEnds
  <2>2. CASE UNCHANGED <<op, tails>>
    BY <2>1, <2>2
  <2>3. CASE op # None /\ Settled(helper.phase)
    <3>1. op'.eid = op.eid
      BY <2>3 DEF Settled, SameChange, Match
    <3>2. tails' = tails \/ \E t : t.new = {} /\ tails' = tails \cup {t}
      BY <2>3 DEF Settled
    <3> QED
      BY <2>1, <2>3, <3>1, <3>2
  <2> QED
    BY <1>9, <2>2, <2>3, RunEnds
<1>10. CASE VerifyRead
  <2>1. /\ op # None /\ op \in Operation /\ SameChange(op', op) /\ inv'.eid = slot
        /\ UNCHANGED <<slot, journal, queued, made, budget>>
    BY <1>10, ReadSettles DEF VerifyRead
  <2>2. SUFFICES ASSUME budget.swap = 0 PROVE \A t \in tails' : t.new \subseteq made
    BY <2>1 DEF SameChange, Match
  <2>3. {<<slot, n>> : n \in cards[slot].notes \ op.before} \subseteq made
    <3>1. op.eid = slot /\ slot \in Eids
      BY <2>1, <2>2 DEF TypeOK
    <3>2. \A n \in cards[slot].notes \ op.before : <<slot, n>> \in made
      BY <2>1, <3>1 DEF ReceiptInv
    <3> QED
      BY <3>2
  <2>4. \/ tails' = tails
        \/ \E t \in TailRecord :
             /\ tails' = tails \cup {t}
             /\ t.new \in {{}, {<<slot, n>> : n \in cards[slot].notes \ op.before}}
    BY <1>10, ReadSettles
  <2> QED
    BY <2>2, <2>3, <2>4
<1>11. CASE VerifyReadFails
  BY <1>11, ReadFails DEF VerifyReadFails, SameChange, Match
<1>12. CASE VerifyWindowCloses
  <2>1. op # None /\ SameChange(op', op) /\ \E t \in TailRecord : tails' = tails \cup {t} /\ t.new = {}
    BY <1>12, WindowCloses
  <2> QED
    BY <1>12, <2>1 DEF VerifyWindowCloses, SameChange, Match
<1>13. ASSUME NEW t \in tails, ClearJournal(t) PROVE SameCard'
  <2>1. t \in TailRecord
    BY DEF TypeOK, TailRecord
  <2>2. [t EXCEPT !.step = t.next, !.next = "done"].new = t.new
    BY <2>1 DEF TailRecord
  <2>3. \A u \in tails' : u \in tails \/ u.new = t.new
    BY <1>13, <2>2 DEF ClearJournal
  <2> QED
    BY <1>13, <2>3 DEF ClearJournal
<1>14. ASSUME NEW t \in tails, QueueReceipts(t) PROVE SameCard'
  BY <1>14 DEF QueueReceipts
<1>15. ASSUME NEW t \in tails, TailRead(t) PROVE SameCard'
  BY <1>15, <1>a DEF TailRead
<1>16. CASE Crash
  <2>1. budget'.swap = budget.swap
    BY <1>16 DEF Crash, TypeOK
  <2> QED
    BY <1>16, <2>1 DEF Crash
<1>17. CASE Recover
  BY <1>17, RecoverReads DEF Recover, SameChange, Match
<1>18. CASE Swap
  <2>1. budget'.swap = budget.swap + 1 /\ budget.swap \in Nat
    BY <1>18 DEF Swap, TypeOK
  <2>2. budget'.swap # 0
    BY <2>1
  <2> QED
    BY <2>2
<1>19. CASE UNCHANGED vars
  BY <1>19 DEF vars
<1> QED
  BY <1>1, <1>2, <1>3, <1>4, <1>5, <1>6, <1>7, <1>8, <1>9, <1>10, <1>11, <1>12, <1>13, <1>14,
     <1>15, <1>16, <1>17, <1>18, <1>19 DEF Next, Tailing

(***************************************************************************)
(* The theorems.                                                           *)
(***************************************************************************)
\* The invariant holds when the agent first starts.
LEMMA InitHolds == Init => SwitchInv
<1> SUFFICES ASSUME Init PROVE SwitchInv
    OBVIOUS
<1>1. TypeOK
  BY InitTyped
<1>2. RequestInv /\ HelperInv /\ VisibleInv /\ NothingChangedIsTrue
  BY DEF Init, RequestInv, HelperInv, VisibleInv, NothingChangedIsTrue
<1>3. HomeInv
  BY EsimConstants DEF Init, HomeInv
<1>4. ThreadInv
  BY DEF Init, ThreadInv
<1>5. ReceiptInv
  BY DEF Init, ReceiptInv, Old
<1>6. SameCard
  BY DEF Init, SameCard
<1>7. NeverReplayed
  BY DEF Init, NeverReplayed
<1> QED
  BY <1>1, <1>2, <1>3, <1>4, <1>5, <1>6, <1>7 DEF SwitchInv

\* Every step of clients, threads, helper runs, crashes and cards preserves it.
LEMMA StepHolds == SwitchInv /\ [Next]_vars => SwitchInv'
<1> SUFFICES ASSUME SwitchInv, [Next]_vars PROVE SwitchInv'
    OBVIOUS
<1>1. TypeOK'
  BY StepTyped DEF SwitchInv
<1> QED
  BY <1>1, StepRequests, StepHomes, StepThreads, StepRuns, StepVisible, StepNothingChanged,
     StepNeverReplayed, StepReceipts, StepSameCard DEF SwitchInv

\* The profile changes keep their types and their inductive invariant.
THEOREM SwitchInvariant == Spec => [](TypeOK /\ SwitchInv)
<1>1. SwitchInv => TypeOK
  BY DEF SwitchInv
<1> QED
  BY <1>1, InitHolds, StepHolds, PTL DEF Spec

\* run_switch(), verify() and recover(): whatever the helper run, the network and the restarts
\* do, the write of an admitted change leaves at most once.
THEOREM NeverSentTwice == Spec => []NeverReplayed
<1>1. SwitchInv => NeverReplayed
  BY DEF SwitchInv
<1> QED
  BY <1>1, SwitchInvariant, PTL

\* finish() with busy, refused or failed: the card was not changed.
THEOREM RefusalsAreTrue == Spec => []NothingChangedIsTrue
<1>1. SwitchInv => NothingChangedIsTrue
  BY DEF SwitchInv
<1> QED
  BY <1>1, SwitchInvariant, PTL

\* queue_change_receipts(): only receipts of changes made here are queued while the card stays.
THEOREM OwnReceiptsOnly == Spec => []ReceiptsOnlyForOwnChanges
<1>1. SwitchInv => ReceiptsOnlyForOwnChanges
  BY DEF SwitchInv, SameCard, ReceiptsOnlyForOwnChanges
<1> QED
  BY <1>1, SwitchInvariant, PTL

\* The step that answers `succeeded', as an action.
SucceedsTruly ==
  (budget.swap = 0 /\ op # None /\ op' # None /\ op.id = op'.id /\ op.state # "succeeded" /\ op'.state = "succeeded")
     => LET state == cards[op.eid].prof[op.target]
        IN CASE op.kind = "nickname" -> op.id \in applied
             [] op.kind = "enable"   -> state = "enabled"
             [] op.kind = "disable"  -> state = "disabled"
             [] op.kind = "delete"   -> state = "absent"

\* Only nickname() and verify() answer `succeeded', and both with the change on the card.
LEMMA StepSucceeds == SwitchInv /\ [Next]_vars => SucceedsTruly
<1> SUFFICES ASSUME SwitchInv, [Next]_vars,
                    budget.swap = 0, op # None, op' # None, op.state # "succeeded", op'.state = "succeeded"
             PROVE  LET state == cards[op.eid].prof[op.target]
                    IN CASE op.kind = "nickname" -> op.id \in applied
                         [] op.kind = "enable"   -> state = "enabled"
                         [] op.kind = "disable"  -> state = "disabled"
                         [] op.kind = "delete"   -> state = "absent"
  BY DEF SucceedsTruly
<1>0. TypeOK /\ ThreadInv /\ HelperInv /\ SameCard
  BY DEF SwitchInv
<1>1. op.kind \in Kinds
  BY <1>0 DEF TypeOK, Operation
<1>2. CASE HelperEnds
  <2>1. op.kind = "nickname" /\ helper.phase = "applied" /\ thread = "wait" /\ helper # None
    BY <1>2, RunEnds DEF Settled, Resolved
  <2>2. op.id \in applied
    BY <1>0, <2>1 DEF ThreadInv, HelperInv, Match
  <2> QED
    BY <2>1, <2>2
<1>3. CASE VerifyRead
  <2>1. Shows /\ op.kind # "nickname"
    BY <1>3, ReadSettles
  <2>2. op.eid = slot
    BY <1>0 DEF SameCard
  <2>3. Done(op.kind, cards[op.eid].prof[op.target]) /\ op.kind \in {"enable", "disable", "delete"}
    BY <1>1, <2>1, <2>2 DEF Shows, Kinds
  <2>4. CASE op.kind = "enable"
    BY <2>3, <2>4 DEF Done
  <2>5. CASE op.kind = "disable"
    BY <2>3, <2>5 DEF Done
  <2>6. CASE op.kind = "delete"
    BY <2>3, <2>6 DEF Done
  <2> QED
    BY <2>3, <2>4, <2>5, <2>6
<1>4. ASSUME NEW r \in requests, Admit(r) PROVE FALSE
  BY <1>4 DEF Admit
<1>5. CASE VerifyReadFails
  BY <1>5, ReadFails DEF Resolved
<1>6. CASE VerifyWindowCloses
  BY <1>6, WindowCloses
<1>7. CASE Recover
  BY <1>7, RecoverReads
<1>8. CASE WriteJournalFails \/ Crash
  BY <1>8 DEF WriteJournalFails, Crash
<1>9. CASE op' = op
  BY <1>9
<1> QED
  BY <1>2, <1>3, <1>4, <1>5, <1>6, <1>7, <1>8, <1>9 DEF Next, Tailing, Refresh, Ask, WriteJournal,
     StartHelper, HelperCheck, HelperWrite, ClearJournal, QueueReceipts, TailRead, Swap, agent, vars

\* verify() and nickname(): `succeeded' is answered only when the change is on the card.
THEOREM SuccessIsTrue == Spec => SucceededIsTrue
<1>1. SwitchInv /\ [Next]_vars => [SucceedsTruly]_vars
  BY StepSucceeds
<1> QED
  BY <1>1, SwitchInvariant, PTL DEF Spec, SucceededIsTrue, SucceedsTruly
===============================================================================
