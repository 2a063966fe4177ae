------------------------- MODULE UciTransactionProofs -------------------------
(***************************************************************************)
(* What UciTransaction promises for any options and packages, and any      *)
(* number of changes, firmware writes and failing commands: staged values  *)
(* reach nobody else's commit, and a change is made in full or undone.     *)
(***************************************************************************)
EXTENDS UciTransaction, TLAPS

\* Past both checks: the packages are being committed, applied or restored.
Committing == {"commit", "apply", "unset", "recommit", "reapply"}

\* A requested value is in the private staging area of a job, for an option of that job, or
\* was committed by a job that had passed both checks.
PrivateInv ==
  /\ \A o \in Options : shared[o] # "new"
  /\ \A o \in Options \ begun : live[o] # "new" /\ radio[o] # "new"
  /\ job # None =>
       /\ job.todo \subseteq job.changes
       /\ \A o \in Options \ job.changes : job.stage[o] = None
       /\ job.at \in Committing => job.changes \subseteq begun

\* What is staged and what is live of the options that are the job's own, per step of execute().
\* One fault began a restoration; with no second one it stages and commits the old values.
ProgressInv ==
  job # None =>
    LET own == job.changes \ touched
        waits(o) == PackageOf[o] \in job.packages
        undisturbed == job.faults <= 1
    IN /\ job.at \in {"unset", "recommit", "reapply"} => job.faults >= 1
       /\ job.at \in {"check", "set", "recheck", "unset"} => job.packages = PackagesOf(job.changes)
       /\ job.at \in {"apply", "reapply"} => job.packages = {}
       /\ job.at \in {"check", "set"} => \A o \in job.changes \ job.todo : job.stage[o] = "new"
       /\ job.at = "check" => job.todo = job.changes
       /\ job.at = "recheck" => \A o \in job.changes : job.stage[o] = "new"
       /\ job.at = "commit" => /\ \A o \in job.changes : waits(o) => job.stage[o] = "new"
                               /\ \A o \in own : live[o] = IF waits(o) THEN job.before[o] ELSE "new"
       /\ job.at = "apply" => \A o \in own : live[o] = "new"
       /\ job.at = "unset" /\ undisturbed
            => \A o \in job.changes \ job.todo : job.stage[o] = job.before[o]
       /\ job.at = "recommit" /\ undisturbed
            => /\ \A o \in job.changes : waits(o) => job.stage[o] = job.before[o]
               /\ \A o \in own : ~waits(o) => live[o] = job.before[o]
       /\ job.at = "reapply" /\ undisturbed => \A o \in own : live[o] = job.before[o]

UciInv == TypeOK /\ PrivateInv /\ ProgressInv

\* Overlaying, committing and dropping a staging area keep the options' values.
LEMMA StagingTypes ==
  ASSUME UciConstants, NEW stage \in [Options -> Values \cup {None}],
         NEW base \in [Options -> Values], NEW p, live \in [Options -> Values]
  PROVE  /\ Overlay(stage, base) \in [Options -> Values]
         /\ Committed(stage, p) \in [Options -> Values]
         /\ Without(stage, p) \in [Options -> Values \cup {None}]
BY DEF Overlay, Committed, Without

\* The packages of a set of options are packages.
LEMMA PackagesType ==
  ASSUME UciConstants, NEW changes \in SUBSET Options
  PROVE  PackagesOf(changes) \in SUBSET {Packages[i] : i \in DOMAIN Packages}
BY DEF UciConstants, PackagesOf


\* k is job j moved to step a, with the rest of its loop, staging area, packages and faults.
Moved(j, k, a, todo, stage, packages, faults) ==
  /\ k \in Job
  /\ k.at = a /\ k.todo = todo /\ k.stage = stage /\ k.packages = packages /\ k.faults = faults
  /\ k.changes = j.changes /\ k.before = j.before

\* The updates of a job that the actions make, field by field.
LEMMA Moves ==
  ASSUME NEW j \in Job, NEW a \in Steps
  PROVE  /\ Moved(j, [j EXCEPT !.at = a], a, j.todo, j.stage, j.packages, j.faults)
         /\ \A o \in Options, v \in Values \cup {None} :
              Moved(j, [j EXCEPT !.stage[o] = v, !.todo = @ \ {o}, !.at = a],
                    a, j.todo \ {o}, [j.stage EXCEPT ![o] = v], j.packages, j.faults)
         /\ \A o \in Options, v \in Values \cup {None}, n \in Nat :
              Moved(j, [j EXCEPT !.stage[o] = v, !.todo = @ \ {o}, !.faults = n, !.at = a],
                    a, j.todo \ {o}, [j.stage EXCEPT ![o] = v], j.packages, n)
         /\ \A p : \A stage \in [Options -> Values \cup {None}] :
              Moved(j, [j EXCEPT !.stage = stage, !.packages = @ \ {p}, !.at = a],
                    a, j.todo, stage, j.packages \ {p}, j.faults)
         /\ \A n \in Nat, packages \in SUBSET {Packages[i] : i \in DOMAIN Packages} :
              Moved(j, [j EXCEPT !.at = a, !.todo = j.changes, !.packages = packages, !.faults = n],
                    a, j.changes, j.stage, packages, n)
         /\ \A p : \A n \in Nat :
              Moved(j, [j EXCEPT !.packages = @ \ {p}, !.faults = n, !.at = a],
                    a, j.todo, j.stage, j.packages \ {p}, n)
<1> USE DEF Job, Moved
<1>1. Moved(j, [j EXCEPT !.at = a], a, j.todo, j.stage, j.packages, j.faults)
  OBVIOUS
<1>2. ASSUME NEW o \in Options, NEW v \in Values \cup {None}
      PROVE  Moved(j, [j EXCEPT !.stage[o] = v, !.todo = @ \ {o}, !.at = a],
                    a, j.todo \ {o}, [j.stage EXCEPT ![o] = v], j.packages, j.faults)
  OBVIOUS
<1>3. ASSUME NEW o \in Options, NEW v \in Values \cup {None}, NEW n \in Nat
      PROVE  Moved(j, [j EXCEPT !.stage[o] = v, !.todo = @ \ {o}, !.faults = n, !.at = a],
                    a, j.todo \ {o}, [j.stage EXCEPT ![o] = v], j.packages, n)
  OBVIOUS
<1>4. ASSUME NEW p, NEW stage \in [Options -> Values \cup {None}]
      PROVE  Moved(j, [j EXCEPT !.stage = stage, !.packages = @ \ {p}, !.at = a],
                    a, j.todo, stage, j.packages \ {p}, j.faults)
  OBVIOUS
<1>5. ASSUME NEW n \in Nat, NEW packages \in SUBSET {Packages[i] : i \in DOMAIN Packages}
      PROVE  Moved(j, [j EXCEPT !.at = a, !.todo = j.changes, !.packages = packages, !.faults = n],
                    a, j.changes, j.stage, packages, n)
  OBVIOUS
<1>6. ASSUME NEW n \in Nat, NEW p
      PROVE  Moved(j, [j EXCEPT !.packages = @ \ {p}, !.faults = n, !.at = a],
                    a, j.todo, j.stage, j.packages \ {p}, n)
  OBVIOUS
<1> QED BY <1>1, <1>2, <1>3, <1>4, <1>5, <1>6

\* A command that may fail uses up the budget or leaves it.
LEMMA BudgetType ==
  ASSUME TypeOK, NoFault \/ Faulty
  PROVE  budget' \in [requests : Nat, firmware : Nat, faults : Nat]
BY DEF TypeOK, NoFault, Faulty

\* check(): the next step or the end.
LEMMA CheckMoves ==
  ASSUME UciConstants, TypeOK, Check
  PROVE  /\ job \in Job /\ budget' \in [requests : Nat, firmware : Nat, faults : Nat]
         /\ \/ job' = None
            \/ /\ job.at = "check"
               /\ Moved(job, job', "set", job.todo, job.stage, job.packages, job.faults)
            \/ /\ job.at = "recheck" /\ Unchanged
               /\ Moved(job, job', "commit", job.todo, job.stage, job.packages, job.faults)
<1>1. job \in Job
  BY DEF Check, TypeOK
<1>2. \/ job' = None
      \/ job.at = "check" /\ job' = [job EXCEPT !.at = "set"]
      \/ job.at = "recheck" /\ Unchanged /\ job' = [job EXCEPT !.at = "commit"]
  BY DEF Check, Ends
<1>3. \A a \in Steps : Moved(job, [job EXCEPT !.at = a], a, job.todo, job.stage, job.packages, job.faults)
  BY <1>1, Moves
<1>4. NoFault \/ Faulty
  BY DEF Check
<1> QED BY <1>1, <1>2, <1>3, <1>4, BudgetType DEF Steps

\* set(): one option is staged, or the change ends.
LEMMA SetMoves ==
  ASSUME UciConstants, TypeOK, Set
  PROVE  /\ job \in Job /\ job.at = "set"
         /\ budget' \in [requests : Nat, firmware : Nat, faults : Nat]
         /\ \/ job' = None
            \/ \E o \in job.todo :
                 Moved(job, job', IF job.todo = {o} THEN "recheck" ELSE "set", job.todo \ {o},
                       [job.stage EXCEPT ![o] = "new"], job.packages, job.faults)
<1>1. job \in Job /\ job.at = "set"
  BY DEF Set, TypeOK
<1>2. NoFault \/ Faulty
  BY DEF Set
<1>3. CASE job' = None
  BY <1>1, <1>2, <1>3, BudgetType
<1>4. CASE job' # None
  <2>1. PICK o \in job.todo :
          job' = [job EXCEPT !.stage[o] = "new", !.todo = @ \ {o},
                             !.at = IF job.todo = {o} THEN "recheck" ELSE @]
    BY <1>4 DEF Set, Ends
  <2>2. o \in Options
    BY <1>1 DEF Job
  <2>3. (IF job.todo = {o} THEN "recheck" ELSE job.at) \in Steps
    BY <1>1 DEF Steps
  <2>4. Moved(job, job', IF job.todo = {o} THEN "recheck" ELSE job.at, job.todo \ {o},
              [job.stage EXCEPT ![o] = "new"], job.packages, job.faults)
    BY <1>1, <2>1, <2>2, <2>3, Moves DEF Values
  <2> QED BY <1>1, <1>2, <2>4, BudgetType
<1> QED BY <1>3, <1>4

\* A failure of a commit or of the reload: the restoration begins.
LEMMA RestoreMoves ==
  ASSUME UciConstants, job \in Job, Restore
  PROVE  Moved(job, job', "unset", job.changes, job.stage, PackagesOf(job.changes), job.faults + 1)
<1>1. job.faults + 1 \in Nat /\ PackagesOf(job.changes) \in SUBSET {Packages[i] : i \in DOMAIN Packages}
  BY PackagesType DEF Job
<1> QED BY <1>1, Moves DEF Restore, Steps

\* A package is committed.
LEMMA PackageMoves ==
  ASSUME UciConstants, TypeOK, job \in Job, NEW p, NEW then \in Steps, PackageDone(p, then)
  PROVE  Moved(job, job', IF job.packages = {p} THEN then ELSE job.at, job.todo,
               Without(job.stage, p), job.packages \ {p}, job.faults)
<1> DEFINE w == Without(job.stage, p)
           a == IF job.packages = {p} THEN then ELSE job.at
<1>1. w \in [Options -> Values \cup {None}]
  BY DEF Without, Job
<1>2. a \in Steps
  BY DEF Job
<1>3. job' = [job EXCEPT !.stage = w, !.packages = @ \ {p}, !.at = a]
  BY DEF PackageDone
<1> HIDE DEF w, a
<1>4. Moved(job, job', a, job.todo, w, job.packages \ {p}, job.faults)
  BY <1>1, <1>2, <1>3, Moves
<1> QED BY <1>4 DEF w, a

\* The loop of commits: one package, or the restoration.
LEMMA CommitMoves ==
  ASSUME UciConstants, TypeOK, Commit
  PROVE  /\ job \in Job /\ job.at = "commit"
         /\ budget' \in [requests : Nat, firmware : Nat, faults : Nat]
         /\ \E p \in job.packages :
              \/ /\ live' = Committed(job.stage, p)
                 /\ Moved(job, job', IF job.packages = {p} THEN "apply" ELSE "commit", job.todo,
                          Without(job.stage, p), job.packages \ {p}, job.faults)
              \/ /\ live' \in {live, Committed(job.stage, p)}
                 /\ Moved(job, job', "unset", job.changes, job.stage, PackagesOf(job.changes), job.faults + 1)
<1>1. job \in Job /\ job.at = "commit"
  BY DEF Commit, TypeOK
<1>2. NoFault \/ Faulty
  BY DEF Commit
<1>3. PICK p \in job.packages :
        \/ live' = Committed(job.stage, p) /\ PackageDone(p, "apply")
        \/ live' \in {live, Committed(job.stage, p)} /\ Restore
  BY DEF Commit
<1>4. "apply" \in Steps
  BY DEF Steps
<1> QED BY <1>1, <1>2, <1>3, <1>4, BudgetType, PackageMoves, RestoreMoves

\* The reload: the change is made, or the restoration begins.
LEMMA ApplyMoves ==
  ASSUME UciConstants, TypeOK, Apply
  PROVE  /\ job \in Job /\ job.at = "apply"
         /\ budget' \in [requests : Nat, firmware : Nat, faults : Nat]
         /\ \/ job' = None /\ radio' = live
            \/ /\ radio' \in {radio, live}
               /\ Moved(job, job', "unset", job.changes, job.stage, PackagesOf(job.changes), job.faults + 1)
<1>1. job \in Job /\ job.at = "apply"
  BY DEF Apply, TypeOK
<1>2. NoFault \/ Faulty
  BY DEF Apply
<1>3. \/ job' = None /\ radio' = live
      \/ radio' \in {radio, live} /\ Restore
  BY DEF Apply, Ends
<1> QED BY <1>1, <1>2, <1>3, BudgetType, RestoreMoves

\* The restoration stages one old value, or notes that it could not.
LEMMA UnsetMoves ==
  ASSUME UciConstants, TypeOK, Unset
  PROVE  /\ job \in Job /\ job.at = "unset"
         /\ budget' \in [requests : Nat, firmware : Nat, faults : Nat]
         /\ \E o \in job.todo :
              \/ Moved(job, job', IF job.todo = {o} THEN "recommit" ELSE "unset", job.todo \ {o},
                       [job.stage EXCEPT ![o] = job.before[o]], job.packages, job.faults)
              \/ Moved(job, job', IF job.todo = {o} THEN "recommit" ELSE "unset", job.todo \ {o},
                       job.stage, job.packages, job.faults + 1)
<1>1. job \in Job /\ job.at = "unset"
  BY DEF Unset, TypeOK
<1>2. NoFault \/ Faulty
  BY DEF Unset
<1>3. PICK o \in job.todo, ok \in BOOLEAN :
        job' = [job EXCEPT !.stage[o] = IF ok THEN job.before[o] ELSE @, !.todo = @ \ {o},
                           !.faults = IF ok THEN @ ELSE @ + 1,
                           !.at = IF job.todo = {o} THEN "recommit" ELSE @]
  BY DEF Unset
<1> DEFINE v == IF ok THEN job.before[o] ELSE job.stage[o]
           n == IF ok THEN job.faults ELSE job.faults + 1
           a == IF job.todo = {o} THEN "recommit" ELSE job.at
<1>4. o \in Options /\ v \in Values \cup {None} /\ n \in Nat
  BY <1>1 DEF Job
<1>5. a \in Steps
  BY <1>1 DEF Steps
<1>6. Moved(job, job', a, job.todo \ {o}, [job.stage EXCEPT ![o] = v], job.packages, n)
  <2> HIDE DEF v, n, a
  <2>1. job' = [job EXCEPT !.stage[o] = v, !.todo = @ \ {o}, !.faults = n, !.at = a]
    BY <1>3 DEF v, n, a
  <2> QED BY <1>1, <1>4, <1>5, <2>1, Moves
<1>7. [job.stage EXCEPT ![o] = job.stage[o]] = job.stage
  BY <1>1 DEF Job
<1> QED BY <1>1, <1>2, <1>6, <1>7, BudgetType

\* The restoration commits one package, or notes that it could not.
LEMMA RecommitMoves ==
  ASSUME UciConstants, TypeOK, Recommit
  PROVE  /\ job \in Job /\ job.at = "recommit"
         /\ budget' \in [requests : Nat, firmware : Nat, faults : Nat]
         /\ \E p \in job.packages :
              \/ /\ live' = Committed(job.stage, p)
                 /\ Moved(job, job', IF job.packages = {p} THEN "reapply" ELSE "recommit", job.todo,
                          Without(job.stage, p), job.packages \ {p}, job.faults)
              \/ /\ live' \in {live, Committed(job.stage, p)}
                 /\ Moved(job, job', IF job.packages = {p} THEN "reapply" ELSE "recommit", job.todo,
                          job.stage, job.packages \ {p}, job.faults + 1)
<1>1. job \in Job /\ job.at = "recommit"
  BY DEF Recommit, TypeOK
<1>2. NoFault \/ Faulty
  BY DEF Recommit
<1>3. PICK p \in job.packages :
        \/ live' = Committed(job.stage, p) /\ PackageDone(p, "reapply")
        \/ /\ live' \in {live, Committed(job.stage, p)}
           /\ job' = [job EXCEPT !.packages = @ \ {p}, !.faults = @ + 1,
                                 !.at = IF job.packages = {p} THEN "reapply" ELSE @]
  BY DEF Recommit
<1>4. "reapply" \in Steps /\ job.faults + 1 \in Nat
      /\ (IF job.packages = {p} THEN "reapply" ELSE job.at) \in Steps
  BY <1>1 DEF Steps, Job
<1>5. Moved(job, [job EXCEPT !.packages = @ \ {p}, !.faults = @ + 1,
                             !.at = IF job.packages = {p} THEN "reapply" ELSE @],
            IF job.packages = {p} THEN "reapply" ELSE job.at, job.todo, job.stage,
            job.packages \ {p}, job.faults + 1)
  BY <1>1, <1>4, Moves
<1> QED BY <1>1, <1>2, <1>3, <1>4, <1>5, BudgetType, PackageMoves
\* The steps of a transaction change the job, the files and the budget within their types.
LEMMA TypeStep ==
  ASSUME UciConstants, TypeOK, Next
  PROVE  TypeOK'
<1> USE DEF TypeOK
<1>0. Shown \in [Options -> Values]
  BY StagingTypes DEF Shown
<1>1. CASE FirmwareSets
  BY <1>1 DEF FirmwareSets, Values
<1>2. CASE FirmwareCommits
  <2>1. PICK i \in DOMAIN Packages :
          /\ live' = Committed(shared, Packages[i]) /\ shared' = Without(shared, Packages[i])
          /\ touched' = IF job = None THEN touched
                        ELSE touched \cup {o \in Options : PackageOf[o] = Packages[i] /\ shared[o] # None}
          /\ radio' = live'
          /\ UNCHANGED <<job, begun, budget>>
    BY <1>2 DEF FirmwareCommits
  <2>2. live' \in [Options -> Values] /\ shared' \in [Options -> Values \cup {None}]
    BY <2>1, StagingTypes
  <2> QED BY <2>1, <2>2
<1>3. CASE WifiSet
  <2>1. PICK wanted \in SUBSET Options :
          job' = IF {o \in wanted : Shown[o] # "new"} = {} THEN None
                 ELSE Begin({o \in wanted : Shown[o] # "new"})
    BY <1>3 DEF WifiSet
  <2> DEFINE changes == {o \in wanted : Shown[o] # "new"}
  <2>2. Begin(changes) \in Job
    BY <1>0, PackagesType DEF Begin, Job, Steps
  <2> QED BY <1>3, <2>1, <2>2 DEF WifiSet
<1>4. CASE Check
  BY <1>4, CheckMoves DEF Check, Moved, Job
<1>5. CASE Set
  BY <1>5, SetMoves DEF Set, Moved
<1>6. CASE Commit
  <2>1. \A p : Committed(job.stage, p) \in [Options -> Values]
    BY <1>6, CommitMoves, StagingTypes DEF Job
  <2> QED BY <1>6, <2>1, CommitMoves DEF Commit, Moved
<1>7. CASE Apply
  BY <1>7, ApplyMoves DEF Apply, Moved
<1>8. CASE Unset
  BY <1>8, UnsetMoves DEF Unset, Moved
<1>9. CASE Recommit
  <2>1. \A p : Committed(job.stage, p) \in [Options -> Values]
    BY <1>9, RecommitMoves, StagingTypes DEF Job
  <2>2. job' \in Job
    BY <1>9, RecommitMoves DEF Moved
  <2>3. \E p : live' \in {live, Committed(job.stage, p)}
    BY <1>9, RecommitMoves
  <2>4. live' \in [Options -> Values]
    BY <2>1, <2>3
  <2> QED BY <1>9, <2>2, <2>4, RecommitMoves DEF Recommit
<1>10. CASE Reapply
  <2>1. NoFault \/ Faulty
    BY <1>10 DEF Reapply
  <2> QED BY <1>10, <2>1, BudgetType DEF Reapply, Ends
<1> QED
  BY <1>1, <1>2, <1>3, <1>4, <1>5, <1>6, <1>7, <1>8, <1>9, <1>10 DEF Next, Transaction

\* No step moves a requested value out of the job that staged it, but its own commit.
LEMMA PrivateStep ==
  ASSUME UciConstants, TypeOK, TypeOK', PrivateInv, Next
  PROVE  PrivateInv'
<1> USE DEF TypeOK, PrivateInv, UciConstants
<1>1. CASE FirmwareSets
  BY <1>1 DEF FirmwareSets
<1>2. CASE FirmwareCommits
  <2>1. PICK p : live' = Committed(shared, p) /\ shared' = Without(shared, p)
    BY <1>2 DEF FirmwareCommits
  <2>2. \A o \in Options : live'[o] \in {live[o], shared[o]} /\ shared'[o] \in {shared[o], None}
    BY <2>1 DEF Committed, Without
  <2>3. None # "new"
    BY DEF Values
  <2> QED BY <1>2, <2>2, <2>3 DEF FirmwareCommits
<1>3. CASE WifiSet
  <2>1. job' = None \/ \E changes \in SUBSET Options : job' = Begin(changes)
    BY <1>3 DEF WifiSet
  <2>2. job' # None => job'.todo = job'.changes /\ \A o \in Options : job'.stage[o] = None
    BY <2>1 DEF Begin
  <2>3. job' # None => job'.at = "check"
    BY <2>1 DEF Begin
  <2> QED BY <1>3, <2>2, <2>3 DEF WifiSet, Committing
<1>4. CASE Check
  BY <1>4, CheckMoves DEF Check, Moved, Job, Committing
<1>5. CASE Set
  <2>1. job \in Job
    BY <1>5, SetMoves
  <2>2. UNCHANGED <<live, shared, radio, begun>> /\ job # None /\ job.at = "set"
    BY <1>5 DEF Set
  <2>3. CASE job' = None
    BY <2>2, <2>3
  <2>4. ASSUME NEW q \in job.todo,
               Moved(job, job', IF job.todo = {q} THEN "recheck" ELSE "set", job.todo \ {q},
                     [job.stage EXCEPT ![q] = "new"], job.packages, job.faults)
        PROVE  PrivateInv'
    <3>1. \A o \in Options \ job.changes : job'.stage[o] = None
      <4>1. SUFFICES ASSUME NEW o \in Options \ job.changes PROVE job'.stage[o] = None
        OBVIOUS
      <4>2. job.stage \in [Options -> Values \cup {None}] /\ q # o /\ job.stage[o] = None
        BY <2>1, <2>2 DEF Job
      <4> QED BY <2>4, <4>2 DEF Moved
    <3> QED BY <2>2, <2>4, <3>1 DEF Moved, Committing
  <2> QED BY <1>5, <2>3, <2>4, SetMoves
<1>6. CASE Commit
  <2>1. /\ job.at \in Committing
        /\ \A p : \A o \in Options \ job.changes :
             Without(job.stage, p)[o] = None /\ Committed(job.stage, p)[o] = live[o]
    BY <1>6, CommitMoves DEF Without, Committed, Committing
  <2> QED BY <1>6, <2>1, CommitMoves DEF Commit, Moved
<1>7. CASE Apply
  BY <1>7, ApplyMoves DEF Apply, Moved, Committing
<1>8. CASE Unset
  <2>1. job' # None /\ \A o \in Options \ job.changes : job'.stage[o] = None
    BY <1>8, UnsetMoves DEF Moved, Job
  <2>2. job.at \in Committing
    BY <1>8, UnsetMoves DEF Committing
  <2> QED BY <1>8, <2>1, <2>2, UnsetMoves DEF Unset, Moved
<1>9. CASE Recommit
  <2>1. /\ job.at \in Committing
        /\ \A p : \A o \in Options \ job.changes :
             Without(job.stage, p)[o] = None /\ Committed(job.stage, p)[o] = live[o]
    BY <1>9, RecommitMoves DEF Without, Committed, Committing
  <2>2. PICK p : live' \in {live, Committed(job.stage, p)} /\ job'.stage \in {job.stage, Without(job.stage, p)}
    BY <1>9, RecommitMoves DEF Moved
  <2>3. /\ job'.at \in Committing /\ job'.changes = job.changes /\ job'.todo = job.todo
        /\ UNCHANGED <<shared, radio, begun>>
    BY <1>9, RecommitMoves DEF Recommit, Moved, Committing
  <2> QED BY <1>9, <2>1, <2>2, <2>3, RecommitMoves
<1>10. CASE Reapply
  BY <1>10 DEF Reapply, Ends, Committing
<1> QED
  BY <1>1, <1>2, <1>3, <1>4, <1>5, <1>6, <1>7, <1>8, <1>9, <1>10 DEF Next, Transaction

\* Every step of execute() leaves the job's own options as the next step expects them, and the
\* firmware's commits take what they write out of the job's own.
LEMMA ProgressStep ==
  ASSUME UciConstants, TypeOK, TypeOK', ProgressInv, Next
  PROVE  ProgressInv'
<1> USE DEF TypeOK, ProgressInv, UciConstants
<1>1. CASE FirmwareSets
  BY <1>1 DEF FirmwareSets
<1>2. CASE FirmwareCommits
  <2>1. SUFFICES ASSUME job # None PROVE ProgressInv'
    BY <1>2 DEF FirmwareCommits
  <2>2. UNCHANGED job /\ touched \subseteq touched'
    BY <1>2 DEF FirmwareCommits
  <2>3. \A o \in Options \ touched' : live'[o] = live[o]
    BY <1>2, <2>1 DEF FirmwareCommits, Committed
  <2>4. job \in Job
    BY <2>1
  <2> QED BY <2>2, <2>3, <2>4 DEF Job
<1>3. CASE WifiSet
  <2>1. job' = None \/ \E changes \in SUBSET Options : job' = Begin(changes)
    BY <1>3 DEF WifiSet
  <2> QED BY <2>1 DEF Begin
<1>4. CASE Check
  <2>1. CASE job' = None
    BY <2>1
  <2>2. CASE job.at = "check" /\ Moved(job, job', "set", job.todo, job.stage, job.packages, job.faults)
    BY <1>4, <2>2, CheckMoves DEF Moved
  <2>3. CASE /\ job.at = "recheck" /\ Unchanged
             /\ Moved(job, job', "commit", job.todo, job.stage, job.packages, job.faults)
    <3>0. job \in Job
      BY <1>4, CheckMoves
    <3>1. \A o \in job.changes : PackageOf[o] \in PackagesOf(job.changes) /\ o \in Options
      BY <3>0 DEF PackagesOf, Job
    <3>2. \A o \in job.changes : shared[o] = None /\ Shown[o] = job.before[o]
      BY <2>3, <3>1 DEF Unchanged
    <3>3. \A o \in job.changes : live[o] = job.before[o]
      BY <3>1, <3>2 DEF Shown, Overlay
    <3>4. job.packages = PackagesOf(job.changes)
      BY <2>3, <3>0
    <3> QED BY <1>4, <2>3, <3>0, <3>1, <3>3, <3>4 DEF Check, Moved
  <2> QED BY <1>4, <2>1, <2>2, <2>3, CheckMoves
<1>5. CASE Set
  <2>1. CASE job' = None
    BY <2>1
  <2>2. ASSUME NEW o \in job.todo,
               Moved(job, job', IF job.todo = {o} THEN "recheck" ELSE "set", job.todo \ {o},
                     [job.stage EXCEPT ![o] = "new"], job.packages, job.faults)
        PROVE  ProgressInv'
    <3>1. job \in Job /\ job.at = "set"
      BY <1>5, SetMoves
    <3>2. \A q \in job.changes : q \notin job.todo \ {o} => job'.stage[q] = "new"
      BY <2>2, <3>1 DEF Moved, Job
    <3> QED BY <2>2, <3>1, <3>2 DEF Moved
  <2> QED BY <1>5, <2>1, <2>2, SetMoves
<1>6. CASE Commit
  <2>1. job \in Job /\ job.at = "commit" /\ UNCHANGED touched
    BY <1>6, CommitMoves DEF Commit
  <2>2. ASSUME NEW p \in job.packages, live' = Committed(job.stage, p),
               Moved(job, job', IF job.packages = {p} THEN "apply" ELSE "commit", job.todo,
                     Without(job.stage, p), job.packages \ {p}, job.faults)
        PROVE  ProgressInv'
    <3>1. \A o \in job.changes \ touched :
            live'[o] = IF PackageOf[o] \in job.packages \ {p} THEN job.before[o] ELSE "new"
      BY <2>1, <2>2 DEF Committed, Job, Values
    <3>2. \A o \in job.changes : PackageOf[o] \in job.packages \ {p} => Without(job.stage, p)[o] = "new"
      BY <2>1 DEF Without, Job
    <3>3. CASE job.packages = {p}
      BY <2>1, <2>2, <3>1, <3>3 DEF Moved
    <3>4. CASE job.packages # {p}
      BY <2>1, <2>2, <3>1, <3>2, <3>4 DEF Moved
    <3> QED BY <3>3, <3>4
  <2>3. CASE Moved(job, job', "unset", job.changes, job.stage, PackagesOf(job.changes), job.faults + 1)
    BY <2>1, <2>3 DEF Moved, Job
  <2> QED BY <1>6, <2>2, <2>3, CommitMoves
<1>7. CASE Apply
  <2>1. CASE Moved(job, job', "unset", job.changes, job.stage, PackagesOf(job.changes), job.faults + 1)
    BY <1>7, <2>1, ApplyMoves DEF Moved, Job
  <2> QED BY <1>7, <2>1, ApplyMoves
<1>8. CASE Unset
  <2>1. job \in Job /\ job.at = "unset" /\ UNCHANGED <<touched, live>>
    BY <1>8, UnsetMoves DEF Unset
  <2>2. PICK o \in job.todo :
          \/ Moved(job, job', IF job.todo = {o} THEN "recommit" ELSE "unset", job.todo \ {o},
                   [job.stage EXCEPT ![o] = job.before[o]], job.packages, job.faults)
          \/ Moved(job, job', IF job.todo = {o} THEN "recommit" ELSE "unset", job.todo \ {o},
                   job.stage, job.packages, job.faults + 1)
    BY <1>8, UnsetMoves
  <2>3. job.faults >= 1 /\ job'.faults >= 1
    BY <2>1, <2>2 DEF Moved, Job
  <2>4. job'.faults <= 1 => \A q \in job.changes : q \notin job.todo \ {o} => job'.stage[q] = job.before[q]
    BY <2>1, <2>2, <2>3 DEF Moved, Job
  <2>5. \A q \in job.changes : PackageOf[q] \in job.packages
    BY <2>1 DEF PackagesOf
  <2> QED BY <2>1, <2>2, <2>3, <2>4, <2>5 DEF Moved
<1>9. CASE Recommit
  <2>1. job \in Job /\ job.at = "recommit" /\ UNCHANGED touched
    BY <1>9, RecommitMoves DEF Recommit
  <2>2. ASSUME NEW p \in job.packages, live' = Committed(job.stage, p),
               Moved(job, job', IF job.packages = {p} THEN "reapply" ELSE "recommit", job.todo,
                     Without(job.stage, p), job.packages \ {p}, job.faults)
        PROVE  ProgressInv'
    <3>1. job.faults <= 1 => \A o \in job.changes \ touched :
            PackageOf[o] \notin job.packages \ {p} => live'[o] = job.before[o]
      BY <2>1, <2>2 DEF Committed, Job
    <3>2. job.faults <= 1 => \A o \in job.changes :
            PackageOf[o] \in job.packages \ {p} => Without(job.stage, p)[o] = job.before[o]
      BY <2>1 DEF Without, Job
    <3>3. CASE job.packages = {p}
      BY <2>1, <2>2, <3>1, <3>3 DEF Moved
    <3>4. CASE job.packages # {p}
      BY <2>1, <2>2, <3>1, <3>2, <3>4 DEF Moved
    <3> QED BY <3>3, <3>4
  <2>3. ASSUME NEW p \in job.packages,
               Moved(job, job', IF job.packages = {p} THEN "reapply" ELSE "recommit", job.todo,
                     job.stage, job.packages \ {p}, job.faults + 1)
        PROVE  ProgressInv'
    <3>1. job'.faults > 1
      BY <2>1, <2>3 DEF Moved, Job
    <3> QED BY <2>1, <2>3, <3>1 DEF Moved, Job
  <2> QED BY <1>9, <2>2, <2>3, RecommitMoves
<1>10. CASE Reapply
  BY <1>10 DEF Reapply, Ends
<1> QED
  BY <1>1, <1>2, <1>3, <1>4, <1>5, <1>6, <1>7, <1>8, <1>9, <1>10 DEF Next, Transaction

\* The inductive invariant: types, private staging, and the progress of execute().
THEOREM UciInvariant == Spec => []UciInv
<1>1. Init => UciInv
  BY UciConstants DEF Init, UciInv, TypeOK, PrivateInv, ProgressInv, Values, UciConstants
<1>2. UciInv /\ [Next]_vars => UciInv'
  <2>1. SUFFICES ASSUME UciInv, [Next]_vars PROVE UciInv'
    OBVIOUS
  <2>2. CASE Next
    BY <2>1, <2>2, UciConstants, TypeStep, PrivateStep, ProgressStep DEF UciInv
  <2>3. CASE UNCHANGED vars
    BY <2>1, <2>3 DEF vars, UciInv, TypeOK, PrivateInv, ProgressInv
  <2> QED BY <2>1, <2>2, <2>3
<1> QED BY <1>1, <1>2, PTL DEF Spec

\* uci_transaction.rs:1: the live configuration and the radio hold a requested value only of
\* an option that a request past both checks began to commit.
THEOREM StagingIsPrivate == Spec => []NothingLeaks
<1>1. UciInv => NothingLeaks
  BY DEF UciInv, PrivateInv, NothingLeaks
<1> QED BY <1>1, UciInvariant, PTL

\* execute(): a change that ends well is committed and applied in full, and one that failed
\* once is undone in the files and on the radio.
THEOREM MadeOrUndone == Spec => AllOrNothing
<1> DEFINE Step ==
      JobEnds => \A o \in Own :
        /\ job.at = "apply" => live'[o] = "new" /\ radio'[o] = "new"
        /\ job.at \in {"recommit", "reapply"} /\ FaultsOfJob <= 1
             => live'[o] = job.before[o] /\ radio'[o] = job.before[o]
<1>1. UciInv /\ [Next]_vars => [Step]_vars
  <2>1. SUFFICES ASSUME UciInv, Next, JobEnds PROVE Step
    OBVIOUS
  <2>2. job \in Job /\ job # None /\ job' = None
    BY <2>1 DEF JobEnds, UciInv, TypeOK
  <2>3. CASE job.at = "apply"
    <3>1. Apply
      BY <2>1, <2>2, <2>3 DEF Next, Transaction, FirmwareSets, FirmwareCommits, WifiSet, Check, Set,
           Commit, Unset, Recommit, Reapply
    <3>2. radio' = live /\ live' = live /\ touched' = touched
      BY <2>2, <3>1, ApplyMoves, UciConstants, <2>1 DEF Moved, UciInv, UciConstants, Apply
    <3> QED BY <2>1, <2>2, <2>3, <3>2 DEF Own, UciInv, ProgressInv
  <2>4. CASE job.at = "reapply"
    <3>1. Reapply
      BY <2>1, <2>2, <2>4 DEF Next, Transaction, FirmwareSets, FirmwareCommits, WifiSet, Check, Set,
           Commit, Unset, Recommit, Apply
    <3>2. live' = live /\ touched' = touched
      BY <3>1 DEF Reapply
    <3>3. job.faults >= 1
      BY <2>1, <2>2, <2>4 DEF UciInv, ProgressInv
    <3>4. FaultsOfJob <= 1 => job.faults <= 1 /\ radio' = live
      BY <2>1, <2>2, <3>1, <3>3 DEF Reapply, FaultsOfJob, Faulty, NoFault, Job, UciInv, TypeOK
    <3> QED BY <2>1, <2>2, <2>4, <3>2, <3>4 DEF Own, UciInv, ProgressInv
  <2>5. CASE job.at = "recommit"
    <3>1. Recommit
      BY <2>1, <2>2, <2>5 DEF Next, Transaction, FirmwareSets, FirmwareCommits, WifiSet, Check, Set,
           Commit, Unset, Reapply, Apply
    <3>2. job' \in Job
      BY <2>1, <3>1, RecommitMoves, UciConstants DEF Moved, UciInv
    <3> QED BY <2>2, <3>2, UciConstants DEF UciConstants
  <2> QED BY <2>3, <2>4, <2>5
<1> QED BY <1>1, UciInvariant, PTL DEF Spec, AllOrNothing
===============================================================================
