-------------------------- MODULE EsimReceiptsProofs --------------------------
(***************************************************************************)
(* Proofs about EsimReceipts, for any cards, clients, limits and faults.   *)
(* NoOrphanReceipts needs that the worker flag tells the truth about the   *)
(* thread, and the type invariant that a round in progress was not over    *)
(* the limit.                                                              *)
(***************************************************************************)
EXTENDS EsimReceipts, TLAPS

\* Receipts::worker is set exactly while a worker thread exists.
WorkerFlag == worker <=> run.at # "off"

\* A delivery in progress started below the limit, and only resets happened since.
RoundInProgress == run.at \in {"notify", "apply"} => round < MaxRounds

ReceiptInv == TypeOK /\ WorkerFlag /\ RoundInProgress /\ NoOrphanReceipts

USE ReceiptConstants

\* The invariant holds when the agent starts without a state file.
LEMMA InitHolds == Init => ReceiptInv
<1> SUFFICES ASSUME Init PROVE ReceiptInv
    OBVIOUS
<1>1. saver \in [Savers -> [at : {"idle", "snap", "write"}, snap : Snapshot]] /\ file \in Snapshot
  BY DEF Init, Idle, Empty, Snapshot
<1>2. notes \in [Eids -> SUBSET Seqs] /\ last \in [Eids -> 0 .. MaxSeq]
  BY DEF Init, Seqs
<1>3. /\ inv \in [eid : Eids \cup {None}, notes : SUBSET Seqs]
      /\ queue \in [Queuers -> [at : {"off", "merge", "save", "start"}, seqs : SUBSET Seqs]]
      /\ run \in [at : {"off", "look", "notify", "apply", "save"}, seqs : SUBSET Seqs, eid : Eids \cup {None},
                 answer : {"none", "ok", "changed", "failed"}, gone : SUBSET Seqs]
  BY DEF Init, NoInventory, NoQueue, NoRun
<1>4. round \in 0 .. MaxRounds
  BY DEF Init
<1>5. budget \in [sends : Nat, locks : Nat, crashes : Nat, swaps : Nat, max : Bounds]
  BY DEF Init
<1>6. TypeOK
  BY <1>1, <1>2, <1>3, <1>4, <1>5, Zenon DEF Init, TypeOK
<1>7. run.at = "off"
  BY DEF Init, NoRun
<1> QED
  BY <1>6, <1>7 DEF Init, ReceiptInv, WorkerFlag, RoundInProgress, NoOrphanReceipts

\* save_state() keeps its own type whoever calls it.
LEMMA SavingTyped ==
  ASSUME saver \in [Savers -> [at : {"idle", "snap", "write"}, snap : Snapshot]],
         NEW w \in Savers, Saving(w)
  PROVE  saver' \in [Savers -> [at : {"idle", "snap", "write"}, snap : Snapshot]]
BY DEF Saving

\* The types absorb_read() leaves behind.
LEMMA AbsorbTyped ==
  ASSUME TypeOK, NEW n \in SUBSET Seqs, Absorb(n)
  PROVE  /\ inv' \in [eid : Eids \cup {None}, notes : SUBSET Seqs]
         /\ card' \in Eids \cup {None} /\ pending' \in SUBSET Seqs /\ round' \in 0 .. MaxRounds
         /\ gaveUp' \in BOOLEAN /\ round' <= round
         /\ pending' # {} => (pending' = pending /\ gaveUp' = gaveUp)
<1>1. slot \in Eids \cup {None} /\ pending \in SUBSET Seqs /\ round \in 0 .. MaxRounds /\ gaveUp \in BOOLEAN
  BY DEF TypeOK
<1>2. inv' \in [eid : Eids \cup {None}, notes : SUBSET Seqs] /\ card' \in Eids \cup {None}
  BY <1>1 DEF Absorb
<1>3. CASE card = slot
  BY <1>1, <1>2, <1>3 DEF Absorb
<1>4. CASE card # slot
  <2>1. pending' = {} /\ round' = 0 /\ gaveUp' = FALSE
    BY <1>4 DEF Absorb
  <2>2. round' \in 0 .. MaxRounds /\ round' <= round
    BY <1>1, <2>1
  <2>3. gaveUp' \in BOOLEAN
    BY <2>1
  <2> QED
    BY <1>1, <1>2, <2>1, <2>2, <2>3
<1> QED
  BY <1>3, <1>4

\* Every step of clients, threads, cards and the agent preserves it.
LEMMA StepHolds == ReceiptInv /\ [Next]_vars => ReceiptInv'
<1> SUFFICES ASSUME ReceiptInv, [Next]_vars PROVE ReceiptInv'
    OBVIOUS
<1> USE DEF ReceiptInv, TypeOK, WorkerFlag, RoundInProgress, NoOrphanReceipts, memory
<1>1. CASE Read
  <2>1. saver' \in [Savers -> [at : {"idle", "snap", "write"}, snap : Snapshot]]
    BY <1>1, SavingTyped DEF Read, Savers
  <2>2. notes[slot] \in SUBSET Seqs /\ Absorb(notes[slot])
    BY <1>1 DEF Read
  <2> HIDE DEF Absorb
  <2> QED
    BY <1>1, <2>1, <2>2, AbsorbTyped DEF Read
<1>2. CASE ReadOrdinarySim
  BY <1>2 DEF ReadOrdinarySim, NoInventory
<1>3. ASSUME NEW q \in Queuers, Change(q) PROVE ReceiptInv'
  <2>1. PICK n : /\ n = last[slot] + 1
                 /\ last' = [last EXCEPT ![slot] = n]
                 /\ notes' = [notes EXCEPT ![slot] = @ \cup {n}]
                 /\ Absorb(notes[slot] \cup {n})
                 /\ queue' = [queue EXCEPT ![q] = [at |-> "merge", seqs |-> {n}]]
    BY <1>3 DEF Change
  <2>2. n \in Seqs
    <3>1. slot \in Eids /\ last[slot] \in 0 .. MaxSeq /\ last[slot] < budget.max.seq
      BY <1>3 DEF Change
    <3>2. budget.max \in Bounds
      OBVIOUS
    <3>3. budget.max.seq \in 1 .. MaxSeq
      BY <3>2 DEF Seqs
    <3> QED
      BY <2>1, <3>1, <3>3 DEF Seqs
  <2>3. last' \in [Eids -> 0 .. MaxSeq] /\ notes' \in [Eids -> SUBSET Seqs]
    <3>1. slot \in Eids /\ n \in 0 .. MaxSeq
      BY <1>3, <2>2 DEF Change, Seqs
    <3>2. notes[slot] \cup {n} \in SUBSET Seqs
      BY <2>2, <3>1
    <3> QED
      BY <2>1, <3>1, <3>2
  <2>4. notes[slot] \cup {n} \in SUBSET Seqs
    BY <1>3, <2>2 DEF Change
  <2> QED
    BY <1>3, <2>1, <2>2, <2>3, <2>4, AbsorbTyped DEF Change
<1>4. ASSUME NEW q \in Queuers, ReceiptsSend(q) PROVE ReceiptInv'
  BY <1>4 DEF ReceiptsSend
<1>5. ASSUME NEW q \in Queuers, QueueMerge(q) PROVE ReceiptInv'
  <2>1. saver' \in [Savers -> [at : {"idle", "snap", "write"}, snap : Snapshot]]
    BY <1>5, SavingTyped DEF QueueMerge, Savers
  <2>2. pending' \in SUBSET Seqs /\ round' \in 0 .. MaxRounds
    BY <1>5 DEF QueueMerge
  <2>3. gaveUp' \in BOOLEAN
    BY <1>5 DEF QueueMerge
  <2>4. queue' \in [Queuers -> [at : {"off", "merge", "save", "start"}, seqs : SUBSET Seqs]] /\ queue'[q].at = "save"
    BY <1>5 DEF QueueMerge
  <2>5. RoundInProgress'
    BY <1>5 DEF QueueMerge
  <2> QED
    BY <1>5, <2>1, <2>2, <2>3, <2>4, <2>5 DEF QueueMerge
<1>6. ASSUME NEW q \in Queuers, QueueSaved(q) PROVE ReceiptInv'
  BY <1>6 DEF QueueSaved
<1>7. ASSUME NEW q \in Queuers, QueueStart(q) PROVE ReceiptInv'
  BY <1>7 DEF QueueStart, StartWorker, NoRun, NoQueue
<1>8. CASE WorkerStops
  BY <1>8 DEF WorkerStops, NoRun
<1>9. CASE WorkerStarts
  BY <1>9 DEF WorkerStarts, NoRun
<1>10. CASE Notify
  <2> DEFINE Typed(r) == r \in [at : {"apply"}, seqs : SUBSET Seqs, eid : Eids \cup {None},
                               answer : {"ok", "changed", "failed"}, gone : SUBSET Seqs]
  <2>1. run.seqs \in SUBSET Seqs /\ run.gone \in SUBSET Seqs /\ run.eid \in Eids \cup {None}
    OBVIOUS
  <2>2. notes' \in [Eids -> SUBSET Seqs] /\ Typed(run')
    <3>1. CASE \E accepted, removed \in SUBSET (run.seqs \cap notes[slot]) :
                 /\ notes' = [notes EXCEPT ![slot] = @ \ removed]
                 /\ \/ run' = [run EXCEPT !.at = "apply", !.answer = "ok",
                                         !.gone = accepted \cup (run.seqs \ notes[slot])]
                    \/ run' = [run EXCEPT !.at = "apply", !.answer = "failed"]
      <4>1. PICK accepted, removed \in SUBSET (run.seqs \cap notes[slot]) :
              /\ notes' = [notes EXCEPT ![slot] = @ \ removed]
              /\ \/ run' = [run EXCEPT !.at = "apply", !.answer = "ok",
                                      !.gone = accepted \cup (run.seqs \ notes[slot])]
                 \/ run' = [run EXCEPT !.at = "apply", !.answer = "failed"]
        BY <3>1
      <4>2. notes' \in [Eids -> SUBSET Seqs]
        <5>1. CASE slot \in Eids
          <6>1. notes[slot] \ removed \in SUBSET Seqs
            BY <5>1
          <6> QED
            BY <4>1, <6>1
        <5>2. CASE slot = None
          BY <4>1, <5>2
        <5> QED
          BY <5>1, <5>2
      <4>3. accepted \cup (run.seqs \ notes[slot]) \in SUBSET Seqs
        BY <2>1
      <4>4. Typed(run')
        <5>1. CASE run' = [run EXCEPT !.at = "apply", !.answer = "ok",
                                      !.gone = accepted \cup (run.seqs \ notes[slot])]
          BY <2>1, <4>3, <5>1
        <5>2. CASE run' = [run EXCEPT !.at = "apply", !.answer = "failed"]
          BY <2>1, <5>2
        <5> QED
          BY <4>1, <5>1, <5>2
      <4> QED
        BY <4>2, <4>4
    <3>2. CASE /\ notes' = notes
               /\ \E answer \in {"changed", "failed"} : run' = [run EXCEPT !.at = "apply", !.answer = answer]
      BY <2>1, <3>2
    <3> QED
      BY <1>10, <3>1, <3>2 DEF Notify
  <2> QED
    BY <1>10, <2>2 DEF Notify
<1>11. CASE WorkerApplies
  <2>1. saver' \in [Savers -> [at : {"idle", "snap", "write"}, snap : Snapshot]]
    BY <1>11, SavingTyped DEF WorkerApplies, Savers
  <2>2. round' \in 0 .. MaxRounds
    BY <1>11 DEF WorkerApplies
  <2>3. pending' \in SUBSET Seqs /\ pending' \subseteq pending
    BY <1>11 DEF WorkerApplies
  <2> QED
    BY <1>11, <2>1, <2>2, <2>3 DEF WorkerApplies
<1>12. CASE WorkerSaved
  BY <1>12 DEF WorkerSaved, NoRun
<1>13. ASSUME NEW w \in Savers, TakeSnapshot(w) PROVE ReceiptInv'
  BY <1>13 DEF TakeSnapshot, Snapshot
<1>14. ASSUME NEW w \in Savers, WriteSnapshot(w) PROVE ReceiptInv'
  BY <1>14 DEF WriteSnapshot, Idle, Empty, Snapshot
<1>15. ASSUME NEW w \in Savers, WriteFails(w) PROVE ReceiptInv'
  BY <1>15 DEF WriteFails, Idle, Empty, Snapshot
<1>16. ASSUME NEW c \in Clients, NEW h \in Handles, NEW on \in BOOLEAN, Lock(c, h, on) PROVE ReceiptInv'
  BY <1>16 DEF Lock, Saving, Savers
<1>17. CASE Crash
  <2>1. saver' \in [Savers -> [at : {"idle", "snap", "write"}, snap : Snapshot]]
    BY <1>17 DEF Crash, Idle, Empty, Snapshot
  <2>2. /\ inv' \in [eid : Eids \cup {None}, notes : SUBSET Seqs]
        /\ queue' \in [Queuers -> [at : {"off", "merge", "save", "start"}, seqs : SUBSET Seqs]]
        /\ run' \in [at : {"off", "look", "notify", "apply", "save"}, seqs : SUBSET Seqs,
                     eid : Eids \cup {None}, answer : {"none", "ok", "changed", "failed"}, gone : SUBSET Seqs]
        /\ run'.at = "off"
    BY <1>17 DEF Crash, NoInventory, NoRun, NoQueue
  <2>3. budget' \in [sends : Nat, locks : Nat, crashes : Nat, swaps : Nat, max : Bounds]
    BY <1>17 DEF Crash
  <2>4. up' = FALSE /\ worker' = FALSE
    BY <1>17 DEF Crash
  <2>5. /\ up' \in BOOLEAN /\ worker' \in BOOLEAN /\ ~up' /\ ~worker'
    BY <2>4
  <2> QED
    BY <1>17, <2>1, <2>2, <2>3, <2>5 DEF Crash
<1>18. CASE Restart
  <2>1. card' \in Eids \cup {None} /\ locked' \in SUBSET Handles /\ pending' \in SUBSET Seqs
    BY <1>18 DEF Restart, Snapshot
  <2> DEFINE Typed(r) == r \in [at : {"off", "look"}, seqs : SUBSET Seqs, eid : Eids \cup {None},
                               answer : {"none"}, gone : SUBSET Seqs]
  <2>2. round' \in 0 .. MaxRounds
    BY <1>18 DEF Restart
  <2>3. CASE file.pending = {}
    <3>1. worker' = FALSE /\ run' = NoRun
      BY <1>18, <2>3 DEF Restart
    <3>2. Typed(run') /\ run'.at = "off"
      BY <3>1 DEF NoRun
    <3> QED
      BY <1>18, <2>1, <2>2, <2>3, <3>1, <3>2 DEF Restart
  <2>4. CASE file.pending # {}
    <3>1. worker' = TRUE /\ run' = [NoRun EXCEPT !.at = "look"]
      BY <1>18, <2>4 DEF Restart
    <3>2. Typed(run') /\ run'.at = "look"
      BY <3>1 DEF NoRun
    <3> QED
      BY <1>18, <2>1, <2>2, <2>4, <3>1, <3>2 DEF Restart
  <2> QED
    BY <2>3, <2>4
<1>19. CASE Swap
  BY <1>19 DEF Swap
<1>20. CASE UNCHANGED vars
  BY <1>20 DEF vars, memory
<1> QED
  BY <1>1, <1>2, <1>3, <1>4, <1>5, <1>6, <1>7, <1>8, <1>9, <1>10, <1>11, <1>12, <1>13, <1>14,
     <1>15, <1>16, <1>17, <1>18, <1>19, <1>20 DEF Next

\* The invariant holds in every reachable state: queued receipts are never left without a
\* worker, whatever the cards, the restarts, the file errors and the number of clients.
THEOREM ReceiptsInvariant == Spec => []ReceiptInv
BY InitHolds, StepHolds, PTL DEF Spec

\* Type correctness; in particular the rounds never pass RECEIPT_MAX_ROUNDS.
THEOREM ReceiptsTypeCorrect == Spec => []TypeOK
<1>1. ReceiptInv => TypeOK
  BY DEF ReceiptInv
<1> QED
  BY <1>1, ReceiptsInvariant, PTL

\* Queued receipts have a running worker, a thread about to start one, or were given up.
THEOREM NothingOrphaned == Spec => []NoOrphanReceipts
<1>1. ReceiptInv => NoOrphanReceipts
  BY DEF ReceiptInv
<1> QED
  BY <1>1, ReceiptsInvariant, PTL

(***************************************************************************)
(* What is delivered.  While nobody exchanges the card, every list of      *)
(* receipts the agent holds, in memory, in a thread's snapshot, in the     *)
(* file or in a worker's copy, is of the card in the slot and holds        *)
(* wanted receipts only.                                                   *)
(***************************************************************************)
\* The receipts S are remembered with the card c: c is the card in the slot unless S is
\* empty, and every one of S was made here or asked for.
Here(c, S) ==
  /\ c \in {None, slot} /\ (S # {} => c = slot)
  /\ \A s \in S : <<slot, s>> \in wanted /\ s <= last[slot]

\* The card and the last list read from it.
CardKnown ==
  /\ slot \in Eids /\ \A s \in notes[slot] : s <= last[slot]
  /\ inv.eid \in {None, slot} /\ (inv.eid = slot => card = slot)
  /\ inv.notes # {} => inv.eid = slot
  /\ \A s \in inv.notes : s <= last[slot]
  /\ up = FALSE => inv.eid = None /\ \A q \in Queuers : queue[q].seqs = {}

ListsHere ==
  /\ Here(card, pending) /\ Here(card, run.seqs) /\ \A q \in Queuers : Here(card, queue[q].seqs)
  /\ Here(file.card, file.pending)
  /\ \A w \in Savers : Here(saver[w].snap.card, saver[w].snap.pending)

\* A delivery is of this card, and what it reports as gone is delivered or off the card.
RunHere ==
  /\ run.at \in {"notify", "apply"} => run.eid = slot /\ card = slot /\ run.answer # "changed"
  /\ run.gone \subseteq run.seqs
  /\ run.at = "apply" /\ run.answer = "ok" => \A s \in run.gone : <<slot, s>> \in sent \/ s \notin notes[slot]

DeliveryInv == budget.swaps = 0 => sent \subseteq wanted /\ CardKnown /\ ListsHere /\ RunHere

\* The step QueuedStaysPending allows.
Stays ==
  (up /\ up' /\ budget.swaps = 0)
    => \A s \in pending \ pending' : <<card, s>> \in sent \/ s \notin notes[card]

\* Nothing is wanted, sent or queued when the agent starts.
LEMMA InitDelivers == Init => DeliveryInv
<1> SUFFICES ASSUME Init PROVE DeliveryInv
    OBVIOUS
<1>1. CardKnown
  BY DEF Init, CardKnown, NoInventory
<1>2. ListsHere
  BY DEF Init, ListsHere, Here, NoQueue, NoRun, Idle, Empty
<1>3. RunHere
  BY DEF Init, RunHere, NoRun
<1> QED
  BY <1>1, <1>2, <1>3 DEF Init, DeliveryInv

\* absorb_read() of the card in the slot keeps the remembered receipts.
LEMMA AbsorbHere ==
  ASSUME TypeOK, CardKnown, ListsHere, NEW n, Absorb(n)
  PROVE  /\ card' = slot /\ inv' = [eid |-> slot, notes |-> n]
         /\ pending' = pending
<1>1. CASE card = slot
  BY <1>1 DEF Absorb
<1>2. CASE card # slot
  BY <1>2 DEF Absorb, ListsHere, Here
<1> QED
  BY <1>1, <1>2

\* Every step keeps the lists on their card, and drops a wanted receipt only as QueuedStaysPending allows.
LEMMA StepDelivers == ReceiptInv /\ DeliveryInv /\ [Next]_vars => DeliveryInv' /\ Stays
<1> SUFFICES ASSUME ReceiptInv, DeliveryInv, [Next]_vars PROVE DeliveryInv' /\ Stays
    OBVIOUS
<1> USE DEF memory
<1>0. TypeOK
  BY DEF ReceiptInv
<1>a. CASE Swap
  BY <1>0, <1>a DEF Swap, TypeOK, DeliveryInv, Stays
<1>b. CASE budget.swaps # 0 /\ ~Swap
  <2>1. budget'.swaps = budget.swaps
    BY <1>0, <1>b DEF Next, vars, TypeOK, Read, ReadOrdinarySim, Change, ReceiptsSend, QueueMerge, QueueSaved,
       QueueStart, WorkerStops, WorkerStarts, Notify, WorkerApplies, WorkerSaved, TakeSnapshot, WriteSnapshot,
       WriteFails, Lock, Crash, Restart
  <2> QED
    BY <1>b, <2>1 DEF DeliveryInv, Stays
<1>c. ASSUME budget.swaps = 0, ~Swap
      PROVE  (sent \subseteq wanted /\ CardKnown /\ ListsHere /\ RunHere)' /\ Stays
  <2>0. sent \subseteq wanted /\ CardKnown /\ ListsHere /\ RunHere
    BY <1>c DEF DeliveryInv
  <2> USE DEF TypeOK, CardKnown, ListsHere, RunHere, Here, Stays
  <2>1. CASE Read
    <3>1. Absorb(notes[slot])
      BY <2>1 DEF Read
    <3>2. card' = slot /\ inv' = [eid |-> slot, notes |-> notes[slot]] /\ pending' = pending
      BY <1>0, <2>0, <3>1, AbsorbHere
    <3>3. \A w \in Savers : saver'[w].snap = saver[w].snap
      BY <1>0, <2>1 DEF Read, Saving
    <3> QED
      BY <1>0, <2>0, <2>1, <3>2, <3>3 DEF Read
  <2>2. CASE ReadOrdinarySim
    BY <1>0, <2>0, <2>2 DEF ReadOrdinarySim, NoInventory
  <2>3. ASSUME NEW q \in Queuers, Change(q)
        PROVE  (sent \subseteq wanted /\ CardKnown /\ ListsHere /\ RunHere)' /\ Stays
    <3> DEFINE n == last[slot] + 1
    <3>1. slot \in Eids /\ card = slot /\ last[slot] \in Nat /\ Absorb(notes[slot] \cup {n})
      BY <1>0, <2>3 DEF Change
    <3>2. inv' = [eid |-> slot, notes |-> notes[slot] \cup {n}] /\ pending' = pending /\ card' = card
      BY <1>0, <2>0, <3>1, AbsorbHere
    <3>3. /\ last'[slot] = n /\ notes'[slot] = notes[slot] \cup {n} /\ slot' = slot
          /\ queue'[q].seqs = {n} /\ (\A p \in Queuers : p # q => queue'[p] = queue[p])
          /\ wanted' = wanted \cup {<<slot, n>>} /\ sent' = sent
          /\ run' = run /\ saver' = saver /\ file' = file
      BY <1>0, <2>3, <3>1 DEF Change
    <3> HIDE DEF n
    <3>4. n = last[slot] + 1
      BY DEF n
    <3>5. \A s \in run.seqs : s <= last[slot] /\ s \in Nat
      <4>1. run.seqs \subseteq Nat
        BY <1>0 DEF Seqs
      <4> QED
        BY <2>0, <4>1
    <3>6. CardKnown'
      <4>1. \A s \in notes[slot] : s \in Nat /\ s <= last[slot]
        BY <1>0, <2>0, <3>1 DEF Seqs
      <4>2. \A s \in notes[slot] \cup {n} : s <= n
        BY <3>1, <3>4, <4>1
      <4>3. up' = up /\ up = TRUE
        BY <1>0, <2>3 DEF Change
      <4> QED
        BY <3>1, <3>2, <3>3, <4>2, <4>3
    <3>7. \A s \in Nat : s <= last[slot] => s <= n
      BY <3>1, <3>4
    <3>8. ListsHere'
      <4>1. pending \subseteq Nat /\ file.pending \subseteq Nat /\ run.seqs \subseteq Nat
        BY <1>0 DEF Seqs, Snapshot
      <4>2. \A w \in Savers : saver[w].snap.pending \subseteq Nat
        BY <1>0 DEF Seqs, Snapshot
      <4>3. n <= n /\ \A p \in Queuers : queue[p].seqs \subseteq Nat
        BY <1>0, <3>1, <3>4 DEF Seqs
      <4> QED
        BY <2>0, <3>1, <3>2, <3>3, <3>7, <4>1, <4>2, <4>3
    <3>9. RunHere'
      BY <1>0, <2>0, <3>1, <3>2, <3>3, <3>4, <3>5
    <3> QED
      BY <2>0, <3>2, <3>3, <3>6, <3>8, <3>9
  <2>4. ASSUME NEW q \in Queuers, ReceiptsSend(q)
        PROVE  (sent \subseteq wanted /\ CardKnown /\ ListsHere /\ RunHere)' /\ Stays
    BY <1>0, <2>0, <2>4 DEF ReceiptsSend
  <2>5. ASSUME NEW q \in Queuers, QueueMerge(q)
        PROVE  (sent \subseteq wanted /\ CardKnown /\ ListsHere /\ RunHere)' /\ Stays
    BY <1>0, <2>0, <2>5 DEF QueueMerge, Saving
  <2>6. ASSUME NEW q \in Queuers, QueueSaved(q)
        PROVE  (sent \subseteq wanted /\ CardKnown /\ ListsHere /\ RunHere)' /\ Stays
    BY <1>0, <2>0, <2>6 DEF QueueSaved
  <2>7. ASSUME NEW q \in Queuers, QueueStart(q)
        PROVE  (sent \subseteq wanted /\ CardKnown /\ ListsHere /\ RunHere)' /\ Stays
    BY <1>0, <2>0, <2>7 DEF QueueStart, StartWorker, NoRun, NoQueue
  <2>8. CASE WorkerStops
    BY <1>0, <2>0, <2>8 DEF WorkerStops, NoRun
  <2>9. CASE WorkerStarts
    BY <1>0, <2>0, <2>9 DEF WorkerStarts, NoRun
  <2>10. CASE Notify
    <3>1. /\ run.eid = slot /\ card = slot
          /\ UNCHANGED <<last, slot, up, memory, queue, saver, file, wanted, budget>>
      BY <2>0, <2>10 DEF Notify
    <3>2. PICK accepted, removed \in SUBSET (run.seqs \cap notes[slot]) :
             /\ removed \subseteq accepted
             /\ notes' = [notes EXCEPT ![slot] = @ \ removed]
             /\ sent' = sent \cup {<<slot, s>> : s \in accepted}
             /\ \/ run' = [run EXCEPT !.at = "apply", !.answer = "ok",
                                     !.gone = accepted \cup (run.seqs \ notes[slot])]
                \/ run' = [run EXCEPT !.at = "apply", !.answer = "failed"]
      BY <2>10, <3>1 DEF Notify
    <3>3. notes'[slot] = notes[slot] \ removed
      BY <1>0, <2>0, <3>2
    <3>4. CardKnown' /\ ListsHere' /\ (sent \subseteq wanted)' /\ Stays
      <4>1. run'.seqs = run.seqs
        BY <1>0, <3>2
      <4> QED
        BY <2>0, <3>1, <3>2, <3>3, <4>1
    <3>5. CASE run' = [run EXCEPT !.at = "apply", !.answer = "ok", !.gone = accepted \cup (run.seqs \ notes[slot])]
      <4>1. /\ run'.eid = slot /\ run'.answer = "ok" /\ run'.seqs = run.seqs
            /\ run'.gone = accepted \cup (run.seqs \ notes[slot])
        BY <1>0, <3>1, <3>5
      <4> QED
        BY <2>0, <3>1, <3>2, <3>3, <3>4, <4>1
    <3>6. CASE run' = [run EXCEPT !.at = "apply", !.answer = "failed"]
      BY <1>0, <2>0, <3>1, <3>4, <3>6
    <3> QED
      BY <3>2, <3>4, <3>5, <3>6
  <2>11. CASE WorkerApplies
    BY <1>0, <2>0, <2>11 DEF WorkerApplies, Saving
  <2>12. CASE WorkerSaved
    BY <1>0, <2>0, <2>12 DEF WorkerSaved, NoRun
  <2>13. ASSUME NEW w \in Savers, TakeSnapshot(w) \/ WriteSnapshot(w) \/ WriteFails(w)
         PROVE  (sent \subseteq wanted /\ CardKnown /\ ListsHere /\ RunHere)' /\ Stays
    BY <1>0, <2>0, <2>13 DEF TakeSnapshot, WriteSnapshot, WriteFails, Idle, Empty
  <2>14. ASSUME NEW c \in Clients, NEW h \in Handles, NEW on \in BOOLEAN, Lock(c, h, on)
         PROVE  (sent \subseteq wanted /\ CardKnown /\ ListsHere /\ RunHere)' /\ Stays
    BY <1>0, <2>0, <2>14 DEF Lock, Saving
  <2>15. CASE Crash
    <3>1. \A w \in Savers : saver'[w].snap.card = None /\ saver'[w].snap.pending = {}
      BY <2>15 DEF Crash, Idle, Empty
    <3>2. run'.at = "off" /\ run'.seqs = {} /\ run'.gone = {} /\ (\A q \in Queuers : queue'[q].seqs = {}) /\ inv'.eid = None /\ inv'.notes = {}
      BY <2>15 DEF Crash, NoRun, NoQueue, NoInventory
    <3>3. UNCHANGED <<notes, last, slot, card, pending, file, wanted, sent>> /\ ~up'
      BY <2>15 DEF Crash
    <3>4. CardKnown' /\ ListsHere' /\ RunHere'
      BY <2>0, <3>1, <3>2, <3>3
    <3>5. Stays
      BY <3>3, Zenon
    <3> QED
      BY <2>0, <3>3, <3>4, <3>5
  <2>16. CASE Restart
    <3>1. up = FALSE /\ inv.eid = None /\ (\A q \in Queuers : queue[q].seqs = {}) /\ inv.notes = {}
      BY <1>0, <2>0, <2>16 DEF Restart
    <3>2. /\ card' = file.card /\ pending' = file.pending /\ up' = TRUE
          /\ UNCHANGED <<notes, last, slot, inv, queue, saver, file, wanted, sent>>
      BY <2>16 DEF Restart
    <3>3. run'.seqs = {} /\ run'.gone = {} /\ run'.at \in {"off", "look"}
      BY <2>16 DEF Restart, NoRun
    <3>4. CardKnown' /\ ListsHere' /\ RunHere'
      BY <2>0, <3>1, <3>2, <3>3
    <3>5. Stays
      BY <3>1
    <3> QED
      BY <2>0, <3>2, <3>4, <3>5
  <2>17. CASE UNCHANGED vars
    BY <1>0, <2>0, <2>17 DEF vars
  <2> QED
    BY <1>c, <2>1, <2>2, <2>3, <2>4, <2>5, <2>6, <2>7, <2>8, <2>9, <2>10, <2>11, <2>12, <2>13, <2>14,
       <2>15, <2>16, <2>17 DEF Next
<1> QED
  BY <1>a, <1>b, <1>c DEF DeliveryInv

\* What is delivered, for any number of cards, receipts, restarts and failing state writes.
THEOREM DeliveryInvariant == Spec => []DeliveryInv
BY InitDelivers, StepDelivers, ReceiptsInvariant, PTL DEF Spec

\* The agent delivers only receipts of changes made here and those a Send receipts request
\* asked for, never the card's backlog (esim.rs:9-10, 2170).
THEOREM OnlyWanted == Spec => []OnlyWantedAreSent
<1>1. DeliveryInv => OnlyWantedAreSent
  BY DEF DeliveryInv, OnlyWantedAreSent
<1> QED
  BY <1>1, DeliveryInvariant, PTL

\* A queued receipt stays pending until a server has it or it left the card, however
\* queueing, reads and deliveries interleave (receipt_worker(), absorb_read()).
THEOREM PendingUntilDelivered == Spec => QueuedStaysPending
<1>1. ReceiptInv /\ DeliveryInv /\ [Next]_vars => [Stays]_vars
  BY StepDelivers
<1> QED
  BY <1>1, ReceiptsInvariant, DeliveryInvariant, PTL DEF Spec, QueuedStaysPending, Stays
===============================================================================
