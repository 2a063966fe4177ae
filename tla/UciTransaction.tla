---------------------------- MODULE UciTransaction ----------------------------
(***************************************************************************)
(* agent/src/uci_transaction.rs and wifi_set() of wifi.rs: a Wi-Fi change  *)
(* is planned from one dump of the configuration, staged privately,        *)
(* compared with the live configuration, committed package by package and  *)
(* applied, or put back.  The firmware stages and commits changes of its   *)
(* own at any time.  Settings the plan rejects change nothing.             *)
(***************************************************************************)
EXTENDS Integers

CONSTANTS
  Options,      \* UCI options
  Packages,     \* their packages, in the order they are committed
  PackageOf,
  MaxRequests,  \* bound: Wi-Fi changes
  MaxFirmware,  \* bound: options the firmware sets
  MaxFaults,    \* bound: uci and reload commands that fail
  None

Values == {"old", "new", "firmware"}
Steps == {"check", "set", "recheck", "commit", "apply", "unset", "recommit", "reapply"}

\* A change under way: where execute() is, the options its loop has yet to do, the changes with
\* the values they had, the private staging area, the packages yet to commit, and ghost: the
\* commits, reloads and restorations that failed.
Job ==
  [at : Steps, todo : SUBSET Options, changes : SUBSET Options, before : [Options -> Values],
   stage : [Options -> Values \cup {None}],
   packages : SUBSET {Packages[i] : i \in DOMAIN Packages}, faults : Nat]

ASSUME UciConstants ==
  /\ PackageOf \in [Options -> {Packages[i] : i \in DOMAIN Packages}]
  /\ {MaxRequests, MaxFirmware, MaxFaults} \subseteq Nat
  /\ None \notin Values \cup Job

VARIABLES
  live,     \* /etc/config
  shared,   \* the default staging area, the firmware's: option values, or None
  radio,    \* what the last reload applied
  job,      \* the wifi_set() that holds WIFI_CHANGE, or None
  touched,  \* ghost: options the firmware committed during the job
  begun,    \* ghost: options some job has begun to commit
  budget

vars == <<live, shared, radio, job, touched, begun, budget>>

\* The values the variables range over.
TypeOK ==
  /\ live \in [Options -> Values] /\ radio \in [Options -> Values]
  /\ shared \in [Options -> Values \cup {None}]
  /\ job \in Job \cup {None}
  /\ touched \subseteq Options /\ begun \subseteq Options
  /\ budget \in [requests : Nat, firmware : Nat, faults : Nat]

Init ==
  /\ live = [o \in Options |-> "old"] /\ radio = live
  /\ shared = [o \in Options |-> None]
  /\ job = None /\ touched = {} /\ begun = {}
  /\ budget = [requests |-> 0, firmware |-> 0, faults |-> 0]

Overlay(stage, base) == [o \in Options |-> IF stage[o] = None THEN base[o] ELSE stage[o]]

\* What `uci get' and `uci show' print: the default staging area included.
Shown == Overlay(shared, live)

\* configs(): the packages of some options.
PackagesOf(changes) == {PackageOf[o] : o \in changes}

\* `uci commit' of one package from a staging area, and what stays staged.
Committed(stage, p) == [o \in Options |-> IF PackageOf[o] = p /\ stage[o] # None THEN stage[o] ELSE live[o]]
Without(stage, p) == [o \in Options |-> IF PackageOf[o] = p THEN None ELSE stage[o]]

(***************************************************************************)
(* The firmware.                                                           *)
(***************************************************************************)
FirmwareSets ==
  /\ budget.firmware < MaxFirmware /\ budget' = [budget EXCEPT !.firmware = @ + 1]
  /\ \E o \in Options : shared' = [shared EXCEPT ![o] = "firmware"]
  /\ UNCHANGED <<live, radio, job, touched, begun>>

FirmwareCommits ==
  \E i \in DOMAIN Packages :
    /\ \E o \in Options : PackageOf[o] = Packages[i] /\ shared[o] # None
    /\ live' = Committed(shared, Packages[i]) /\ shared' = Without(shared, Packages[i])
    /\ touched' = IF job = None THEN touched
                  ELSE touched \cup {o \in Options : PackageOf[o] = Packages[i] /\ shared[o] # None}
    /\ radio' = live'
    /\ UNCHANGED <<job, begun, budget>>

(***************************************************************************)
(* wifi_set() up to the transaction: the dump and the plan.                *)
(***************************************************************************)
Begin(changes) ==
  [at |-> "check", todo |-> changes, changes |-> changes, before |-> Shown,
   stage |-> [o \in Options |-> None], packages |-> PackagesOf(changes), faults |-> 0]

\* A request that changes nothing ends without a transaction.
WifiSet ==
  /\ job = None /\ budget.requests < MaxRequests
  /\ budget' = [budget EXCEPT !.requests = @ + 1]
  /\ \E wanted \in SUBSET Options :
       LET changes == {o \in wanted : Shown[o] # "new"}
       IN job' = IF changes = {} THEN None ELSE Begin(changes)
  /\ touched' = {}
  /\ UNCHANGED <<live, shared, radio, begun>>

(***************************************************************************)
(* execute().                                                              *)
(***************************************************************************)
Faulty == budget.faults < MaxFaults /\ budget' = [budget EXCEPT !.faults = @ + 1]
NoFault == UNCHANGED budget

Ends == job' = None

\* check(), its reads taken together: no package has firmware changes pending, and the options are as planned.
Unchanged ==
  /\ \A o \in Options : PackageOf[o] \in PackagesOf(job.changes) => shared[o] = None
  /\ \A o \in job.changes : Shown[o] = job.before[o]

Check ==
  /\ job # None /\ job.at \in {"check", "recheck"}
  /\ \/ Unchanged /\ NoFault /\ job' = [job EXCEPT !.at = IF @ = "check" THEN "set" ELSE "commit"]
     \/ ~Unchanged /\ NoFault /\ Ends
     \/ Faulty /\ Ends
  /\ begun' = IF job' # None /\ job.at = "recheck" THEN begun \cup job.changes ELSE begun
  /\ UNCHANGED <<live, shared, radio, touched>>

Set_Shared ==
  /\ job # None /\ job.at = "set"
  /\ \E o \in job.todo :
       \/ /\ NoFault /\ shared' = [shared EXCEPT ![o] = "new"]
          /\ job' = [job EXCEPT !.stage[o] = "new", !.todo = @ \ {o},
                                !.at = IF job.todo = {o} THEN "recheck" ELSE @]
       \/ Faulty /\ Ends /\ UNCHANGED shared
  /\ UNCHANGED <<live, radio, touched, begun>>

\* The private staging directory goes with the request.
Set ==
  /\ job # None /\ job.at = "set"
  /\ \E o \in job.todo :
       \/ /\ NoFault
          /\ job' = [job EXCEPT !.stage[o] = "new", !.todo = @ \ {o},
                                !.at = IF job.todo = {o} THEN "recheck" ELSE @]
       \/ Faulty /\ Ends
  /\ UNCHANGED <<live, shared, radio, touched, begun>>

\* The set of packages is walked in its order.
IsNext(p) ==
  \E i \in DOMAIN Packages :
    p = Packages[i] /\ p \in job.packages /\ \A j \in 1..(i - 1) : Packages[j] \notin job.packages

\* A package is committed; the last one is followed by the reload.
PackageDone(p, then) ==
  job' = [job EXCEPT !.stage = Without(@, p), !.packages = @ \ {p},
                     !.at = IF job.packages = {p} THEN then ELSE @]

\* The restoration begins, whatever was committed.
Restore ==
  job' = [job EXCEPT !.at = "unset", !.todo = job.changes, !.packages = PackagesOf(job.changes), !.faults = @ + 1]

\* A commit that fails may have written the package.
Commit ==
  /\ job # None /\ job.at = "commit"
  /\ \E p \in job.packages :
       /\ IsNext(p)
       /\ \/ NoFault /\ live' = Committed(job.stage, p) /\ PackageDone(p, "apply")
          \/ Faulty /\ live' \in {live, Committed(job.stage, p)} /\ Restore
  /\ UNCHANGED <<shared, radio, touched, begun>>

Apply ==
  /\ job # None /\ job.at = "apply"
  /\ \/ NoFault /\ radio' = live /\ Ends
     \/ Faulty /\ radio' \in {radio, live} /\ Restore
  /\ UNCHANGED <<live, shared, touched, begun>>

\* The restoration goes on after an error of its own.
Unset ==
  /\ job # None /\ job.at = "unset"
  /\ \E o \in job.todo :
       \E ok \in BOOLEAN :
         /\ IF ok THEN NoFault ELSE Faulty
         /\ job' = [job EXCEPT !.stage[o] = IF ok THEN job.before[o] ELSE @, !.todo = @ \ {o},
                               !.faults = IF ok THEN @ ELSE @ + 1,
                               !.at = IF job.todo = {o} THEN "recommit" ELSE @]
  /\ UNCHANGED <<live, shared, radio, touched, begun>>

Recommit_NoReload ==
  /\ job # None /\ job.at = "recommit" /\ NoFault
  /\ \E p \in job.packages :
       /\ IsNext(p) /\ live' = Committed(job.stage, p)
       /\ IF job.packages = {p} THEN Ends ELSE PackageDone(p, "reapply")
  /\ UNCHANGED <<shared, radio, touched, begun>>

Recommit ==
  /\ job # None /\ job.at = "recommit"
  /\ \E p \in job.packages :
       /\ IsNext(p)
       /\ \/ NoFault /\ live' = Committed(job.stage, p) /\ PackageDone(p, "reapply")
          \/ /\ Faulty /\ live' \in {live, Committed(job.stage, p)}
             /\ job' = [job EXCEPT !.packages = @ \ {p}, !.faults = @ + 1,
                                   !.at = IF job.packages = {p} THEN "reapply" ELSE @]
  /\ UNCHANGED <<shared, radio, touched, begun>>

Reapply ==
  /\ job # None /\ job.at = "reapply"
  /\ \/ NoFault /\ radio' = live
     \/ Faulty /\ radio' \in {radio, live}
  /\ Ends
  /\ UNCHANGED <<live, shared, touched, begun>>

Transaction == Check \/ Set \/ Commit \/ Apply \/ Unset \/ Recommit \/ Reapply
Next == FirmwareSets \/ FirmwareCommits \/ WifiSet \/ Transaction

Spec == Init /\ [][Next]_vars

(***************************************************************************)
(* Properties                                                              *)
(***************************************************************************)
JobEnds == job # None /\ job' = None
FaultsOfJob == job.faults + (budget'.faults - budget.faults)
Own == job.changes \ touched'

\* ARCHITECTURE.md:134: "Restores the previous values on any failure".  A change that
\* succeeds is committed in every package and applied; when one commit or reload failed, the
\* options and the radio are as they were before.  Options the firmware committed meanwhile
\* are the firmware's.
AllOrNothing ==
  [][JobEnds => \A o \in Own :
       /\ job.at = "apply" => live'[o] = "new" /\ radio'[o] = "new"
       /\ job.at \in {"recommit", "reapply"} /\ FaultsOfJob <= 1
            => live'[o] = job.before[o] /\ radio'[o] = job.before[o]]_vars

\* uci_transaction.rs:1: "Private UCI staging prevents failed requests leaking into another
\* commit": an option has a requested value only if a request that passed both checks began to
\* commit it, whatever other requests and the firmware commit.
NothingLeaks == \A o \in Options \ begun : live[o] # "new" /\ radio[o] # "new"
===============================================================================
