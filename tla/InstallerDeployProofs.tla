------------------------ MODULE InstallerDeployProofs ------------------------
(***************************************************************************)
(* InstallerDeploy, for any targets and releases and any number of         *)
(* transactions, failing steps, power losses and abandoned commands: the   *)
(* modem can always be brought back, reports are true, stops are kept.     *)
(*                                                                         *)
(* Recoverable is not inductive: whether a step of the transaction script  *)
(* may touch the files depends on what the steps before it left, and a     *)
(* phase trusts the answer of the command that began the transaction.      *)
(* DeployInv says what each of them relies on while no command runs beside *)
(* one that was given up.                                                  *)
(***************************************************************************)
EXTENDS InstallerDeploy, TLAPS

\* Known() and a marker that leads back, on modem d.
KnownOn(d, i) == d.tx[i].identity /\ d.tx[i].state \in {"pending", "committed", "restored"}
Leads(d) == d.active # 0 /\ KnownOn(d, d.active)

\* The modem, whatever runs on it, with h the files before each transaction: a known transaction
\* has a complete snapshot, a marker that leads back holds the lock, files of two installations
\* are under such a marker, and under the lock of a preparation nothing was replaced.
ModemInv(d, h) ==
  /\ \A i \in Ids : KnownOn(d, i) => d.tx[i].saved = h[i] /\ Whole(h[i])
  /\ Leads(d) => d.lock = d.active
  /\ Whole(d.files) \/ Leads(d)
  /\ \A i \in Ids : d.lock = i /\ d.tx[i].state = "dir" => d.files = h[i]

\* What a command relies on where it is.
CommandInv(d, h, c) ==
  /\ c.at \in {"lock", "owner", "dir", "identity", "restore"} => c.todo = Targets
  /\ c.at \in BeginSteps => d.files = h[c.id]
  /\ c.at \in BeginSteps \ {"lock"} => Whole(d.files)
  /\ c.at = "owner" => d.lock = Unowned
  /\ c.at \in {"dir", "identity", "copy", "mark", "sync"} => d.lock = c.id
  /\ c.at \in {"lock", "owner", "dir"} => d.tx[c.id].state = "none"
  /\ c.at \in {"identity", "copy"} => d.tx[c.id].state = "dir"
  /\ c.at = "copy" => /\ d.tx[c.id].identity
                      /\ \A t \in Targets \ c.todo : d.tx[c.id].saved[t] = d.files[t]
  /\ c.at \in {"mark", "sync", "put back", "install"} => KnownOn(d, c.id)
  /\ c.at \in {"sync", "put back", "install"} => d.active = c.id
  /\ c.at = "put back" => \A t \in Targets \ c.todo : d.files[t] = d.tx[c.id].saved[t]
  /\ c.at \in {"complete", "unmark"} => Whole(d.files)
  /\ c.at \in {"disown", "unlock", "erase"} => d.active = 0

\* Transactions that were not begun have left nothing.
FreshInv(d, n) == \A i \in Ids : i > n => d.tx[i].state = "none"

\* Until a command is started beside an abandoned one, at most one command runs.
AloneInv ==
  /\ cmd # None /\ cmd.at # "fail" => orphans = {}
  /\ \A c, d \in orphans : c = d

Put(n) == \A t \in Writes[Phases[n]] : dev.files[t] = worker.release
PutBefore == \A n \in DOMAIN Phases : n < worker.phase => Put(n)
Owns == dev.active = worker.id /\ KnownOn(dev, worker.id)

\* What the installer relies on between the commands of an installation.
WorkerInv ==
  /\ worker.at = "begun" =>
       /\ cmd # None /\ cmd.id = worker.id /\ cmd.at \in BeginSteps \cup {"ok", "fail"}
       /\ cmd.at = "ok" => Owns
  /\ worker.at = "deploy" => cmd = None /\ orphans = {} /\ Owns /\ PutBefore
  /\ worker.at = "deployed" =>
       /\ cmd # None /\ cmd.at \in {"install", "ok", "fail"} /\ worker.phase \in DOMAIN Phases
       /\ cmd.at # "fail" => Owns /\ PutBefore
       /\ cmd.at = "install" =>
            /\ cmd.id = worker.id /\ cmd.release = worker.release
            /\ \A t \in Writes[Phases[worker.phase]] \ cmd.todo : dev.files[t] = worker.release
       /\ cmd.at = "ok" => Put(worker.phase)

\* A restoration, or the discarding of a preparation, ends with the files as they were.
UndoSteps == {"restore", "put back", "discard", "erase", "unmark", "disown", "unlock", "ok", "fail"}
UndoInv ==
  worker.at \in {"undone", "recovering"} =>
    /\ cmd # None /\ cmd.at \in UndoSteps /\ cmd.id = worker.id
    /\ cmd.at \in {"erase", "unmark", "disown", "unlock", "ok"} => dev.files = history.files[worker.id]
    /\ cmd.at = "ok" => dev.active = 0

\* A completed installation is the release's.
CompleteInv ==
  worker.at = "completed" =>
    /\ cmd # None /\ cmd.at \in {"complete", "unmark", "disown", "unlock", "ok", "fail"}
    /\ cmd.at # "fail" => dev.files = Uniform(worker.release)
    /\ cmd.at = "ok" => dev.active = 0

\* What the types of the operation do not say.
Early == {"prepare", "read", "download", "export", "prepared", "unlock", "approve", "upload", "wait", "lost",
          "verify", "begin"}
Late == {"begun", "deploy", "deployed", "completed"}
StepInv ==
  /\ worker.at \in (Early \ {"prepare"}) \cup Late => worker.release # None /\ worker.pin \in {None, worker.release}
  /\ worker.at \in Early \cup Late => worker.dry \/ worker.pin # None
  /\ worker.at \in {"begin"} \cup Late => ~worker.dry
  /\ worker.at \in Late \cup {"undo", "undone", "recover", "recovering"} => worker.id \in Ids
  /\ worker.at \in Early => begun < budget.begins
  /\ worker.at \in Early \cup {"begun"} => worker.phase = 1
BudgetInv ==
  /\ budget \in [begins : Nat, faults : Nat, losses : Nat, abandons : Nat, stops : Nat, newest : Nat]
  /\ 1..budget.begins \subseteq Ids
CommandsInv ==
  /\ \A c \in orphans \cup {cmd} : c # None =>
       /\ c.at \in BeginSteps => c.id <= begun
       /\ c.at = "install" => c.release # None
  /\ \A c \in orphans : ~Answered(c)
OperationInv == StepInv /\ BudgetInv /\ CommandsInv

SafeInv ==
  ~late => /\ ModemInv(dev, history.files) /\ FreshInv(dev, begun)
           /\ AloneInv /\ WorkerInv /\ UndoInv /\ CompleteInv
           /\ \A c \in orphans : CommandInv(dev, history.files, c)
           /\ cmd # None => CommandInv(dev, history.files, cmd)

DeployInv == TypeOK /\ OperationInv /\ SafeInv

(***************************************************************************)
(* The updates the commands make, field by field.                          *)
(***************************************************************************)
\* Transactions are numbered from 1.
LEMMA IdFacts ==
  ASSUME InstallerConstants
  PROVE  Ids \subseteq Nat \ {0}
BY DEF InstallerConstants, Ids

\* A transaction nobody began has no state.
LEMMA EmptyTransaction == NoTx \in Transaction /\ NoTx.state = "none"
BY DEF NoTx, Transaction, Versions

\* Modem e is d with these files, transactions, lock and marker.
Became(d, e, files, tx, lock, active) ==
  /\ e \in Modem
  /\ e.files = files /\ e.tx = tx /\ e.lock = lock /\ e.active = active /\ e.unlocked = d.unlocked

\* The lock, the marker, a transaction, or one target is written.
LEMMA ModemUpdates ==
  ASSUME NEW d \in Modem
  PROVE  /\ Became(d, d, d.files, d.tx, d.lock, d.active)
         /\ \A l \in Ids \cup {Free, Unowned} :
              Became(d, [d EXCEPT !.lock = l], d.files, d.tx, l, d.active)
         /\ \A a \in Ids \cup {0} :
              Became(d, [d EXCEPT !.active = a], d.files, d.tx, d.lock, a)
         /\ \A l \in Ids \cup {Free, Unowned} : \A a \in Ids \cup {0} :
              Became(d, [d EXCEPT !.lock = l, !.active = a], d.files, d.tx, l, a)
         /\ \A i \in Ids : \A x \in Transaction :
              Became(d, [d EXCEPT !.tx[i] = x], d.files, [d.tx EXCEPT ![i] = x], d.lock, d.active)
         /\ \A i \in Ids : \A x \in Transaction :
              Became(d, [d EXCEPT !.tx[i] = x, !.lock = Free], d.files, [d.tx EXCEPT ![i] = x], Free, d.active)
         /\ \A t \in Targets : \A v \in Versions :
              Became(d, [d EXCEPT !.files[t] = v], [d.files EXCEPT ![t] = v], d.tx, d.lock, d.active)
<1> USE DEF Modem, Became
<1>1. Became(d, d, d.files, d.tx, d.lock, d.active)
  OBVIOUS
<1>2. ASSUME NEW l \in Ids \cup {Free, Unowned}
      PROVE  Became(d, [d EXCEPT !.lock = l], d.files, d.tx, l, d.active)
  OBVIOUS
<1>3. ASSUME NEW a \in Ids \cup {0}
      PROVE  Became(d, [d EXCEPT !.active = a], d.files, d.tx, d.lock, a)
  OBVIOUS
<1>4. ASSUME NEW l \in Ids \cup {Free, Unowned}, NEW a \in Ids \cup {0}
      PROVE  Became(d, [d EXCEPT !.lock = l, !.active = a], d.files, d.tx, l, a)
  OBVIOUS
<1>5. ASSUME NEW i \in Ids, NEW x \in Transaction
      PROVE  Became(d, [d EXCEPT !.tx[i] = x], d.files, [d.tx EXCEPT ![i] = x], d.lock, d.active)
  OBVIOUS
<1>6. ASSUME NEW i \in Ids, NEW x \in Transaction
      PROVE  Became(d, [d EXCEPT !.tx[i] = x, !.lock = Free], d.files, [d.tx EXCEPT ![i] = x], Free, d.active)
  OBVIOUS
<1>7. ASSUME NEW t \in Targets, NEW v \in Versions
      PROVE  Became(d, [d EXCEPT !.files[t] = v], [d.files EXCEPT ![t] = v], d.tx, d.lock, d.active)
  OBVIOUS
<1> QED BY <1>1, <1>2, <1>3, <1>4, <1>5, <1>6, <1>7

\* The state of a transaction, its identity record or one file of its snapshot is written.
LEMMA TransactionUpdates ==
  ASSUME NEW x \in Transaction
  PROVE  /\ \A s \in {"none", "dir", "pending", "committed", "restored"} :
              /\ [x EXCEPT !.state = s] \in Transaction /\ [x EXCEPT !.state = s].state = s
              /\ [x EXCEPT !.state = s].identity = x.identity /\ [x EXCEPT !.state = s].saved = x.saved
         /\ [x EXCEPT !.identity = TRUE] \in Transaction /\ [x EXCEPT !.identity = TRUE].state = x.state
         /\ [x EXCEPT !.identity = TRUE].identity /\ [x EXCEPT !.identity = TRUE].saved = x.saved
         /\ \A t \in Targets : \A v \in Versions :
              /\ [x EXCEPT !.saved[t] = v] \in Transaction /\ [x EXCEPT !.saved[t] = v].state = x.state
              /\ [x EXCEPT !.saved[t] = v].identity = x.identity
              /\ [x EXCEPT !.saved[t] = v].saved = [x.saved EXCEPT ![t] = v]
<1> USE DEF Transaction
<1>1. ASSUME NEW s \in {"none", "dir", "pending", "committed", "restored"}
      PROVE  /\ [x EXCEPT !.state = s] \in Transaction /\ [x EXCEPT !.state = s].state = s
             /\ [x EXCEPT !.state = s].identity = x.identity /\ [x EXCEPT !.state = s].saved = x.saved
  OBVIOUS
<1>2. /\ [x EXCEPT !.identity = TRUE] \in Transaction /\ [x EXCEPT !.identity = TRUE].state = x.state
      /\ [x EXCEPT !.identity = TRUE].identity /\ [x EXCEPT !.identity = TRUE].saved = x.saved
  OBVIOUS
<1>3. ASSUME NEW t \in Targets, NEW v \in Versions
      PROVE  /\ [x EXCEPT !.saved[t] = v] \in Transaction /\ [x EXCEPT !.saved[t] = v].state = x.state
             /\ [x EXCEPT !.saved[t] = v].identity = x.identity
             /\ [x EXCEPT !.saved[t] = v].saved = [x.saved EXCEPT ![t] = v]
  OBVIOUS
<1> QED BY <1>1, <1>2, <1>3

\* Command e is c at another step, with these targets left.
Went(c, e, at, todo) ==
  e \in Command /\ e.at = at /\ e.todo = todo /\ e.id = c.id /\ e.release = c.release

\* A command moves, with one target less or not.
LEMMA CommandUpdates ==
  ASSUME NEW c \in Command, NEW at \in CommandSteps
  PROVE  /\ Went(c, [c EXCEPT !.at = at], at, c.todo)
         /\ \A t : Went(c, [[c EXCEPT !.todo = @ \ {t}] EXCEPT !.at = at], at, c.todo \ {t})
<1>1. Went(c, [c EXCEPT !.at = at], at, c.todo)
  BY DEF Command, Went
<1>2. ASSUME NEW t
      PROVE  Went(c, [[c EXCEPT !.todo = @ \ {t}] EXCEPT !.at = at], at, c.todo \ {t})
  BY DEF Command, Went
<1> QED BY <1>1, <1>2

\* The next target to do is one of those left.
LEMMA FirstIs ==
  ASSUME NEW S, S # {}
  PROVE  First(S) \in S
BY DEF First

(***************************************************************************)
(* What a step of command c does: modem d and command e come of it.        *)
(***************************************************************************)
FailsTo(c, d, e) ==
  /\ Went(c, e, "fail", c.todo)
  /\ \/ IF Trapped(c) THEN Became(dev, d, dev.files, [dev.tx EXCEPT ![c.id] = NoTx], Free, dev.active) ELSE d = dev
     \/ c.at = "dir" /\ Became(dev, d, dev.files, dev.tx, Free, dev.active)

WritesTx(c, d, x) == Became(dev, d, dev.files, [dev.tx EXCEPT ![c.id] = x], dev.lock, dev.active)

BeginsTo(c, d, e) ==
  \/ FailsTo(c, d, e)
  \/ /\ c.at = "lock" /\ dev.lock = Free /\ Went(c, e, "owner", c.todo)
     /\ Became(dev, d, dev.files, dev.tx, Unowned, dev.active)
  \/ /\ c.at = "owner" /\ Went(c, e, "dir", c.todo)
     /\ Became(dev, d, dev.files, dev.tx, c.id, dev.active)
  \/ /\ c.at = "dir" /\ Went(c, e, "identity", c.todo)
     /\ WritesTx(c, d, [dev.tx[c.id] EXCEPT !.state = "dir"])
  \/ /\ c.at = "identity" /\ Went(c, e, "copy", c.todo)
     /\ WritesTx(c, d, [dev.tx[c.id] EXCEPT !.identity = TRUE])
  \/ /\ c.at = "copy"
     /\ \E t \in c.todo : /\ Went(c, e, "copy", c.todo \ {t})
                         /\ WritesTx(c, d, [dev.tx[c.id] EXCEPT !.saved[t] = dev.files[t]])
  \/ /\ c.at = "copy" /\ c.todo = {} /\ Went(c, e, "mark", c.todo)
     /\ WritesTx(c, d, [dev.tx[c.id] EXCEPT !.state = "pending"])
  \/ /\ c.at = "mark" /\ Went(c, e, "sync", c.todo)
     /\ Became(dev, d, dev.files, dev.tx, dev.lock, c.id)
  \/ c.at = "sync" /\ Went(c, e, "ok", c.todo) /\ d = dev

RestoresTo(c, d, e) ==
  \/ FailsTo(c, d, e)
  \/ /\ c.at = "restore" /\ MayRestore(c.id) /\ Went(c, e, "put back", c.todo)
     /\ Became(dev, d, dev.files, dev.tx, IF dev.active = 0 THEN c.id ELSE dev.lock, c.id)
  \/ /\ c.at = "put back"
     /\ \E t \in c.todo :
          /\ Went(c, e, "put back", c.todo \ {t})
          /\ Became(dev, d, [dev.files EXCEPT ![t] = dev.tx[c.id].saved[t]], dev.tx, dev.lock, dev.active)
  \/ /\ c.at = "put back" /\ c.todo = {} /\ Went(c, e, "unmark", c.todo)
     /\ WritesTx(c, d, [dev.tx[c.id] EXCEPT !.state = "restored"])

EndsTo(c, d, e) ==
  \/ FailsTo(c, d, e)
  \/ /\ c.at = "complete" /\ MayComplete(c.id) /\ Went(c, e, "unmark", c.todo)
     /\ WritesTx(c, d, [dev.tx[c.id] EXCEPT !.state = "committed"])
  \/ /\ c.at = "discard" /\ MayDiscard(c.id) /\ Went(c, e, "erase", c.todo) /\ d = dev
  \/ /\ c.at = "erase" /\ Went(c, e, "disown", c.todo) /\ WritesTx(c, d, NoTx)
  \/ /\ c.at = "unmark" /\ Went(c, e, "disown", c.todo)
     /\ Became(dev, d, dev.files, dev.tx, dev.lock, 0)
  \/ /\ c.at = "disown" /\ Went(c, e, "unlock", c.todo)
     /\ Became(dev, d, dev.files, dev.tx, IF dev.lock = Free THEN Free ELSE Unowned, dev.active)
  \/ /\ c.at = "unlock" /\ Went(c, e, "ok", c.todo)
     /\ Became(dev, d, dev.files, dev.tx, Free, dev.active)

InstallsTo(c, d, e) ==
  \/ c.todo = {} /\ Went(c, e, "ok", c.todo) /\ d = dev
  \/ \E t \in c.todo : /\ Went(c, e, "install", c.todo \ {t})
                       /\ Became(dev, d, [dev.files EXCEPT ![t] = c.release], dev.tx, dev.lock, dev.active)

\* A command that fails is answered; the trap of `begin' erases what it prepared.
LEMMA FailedOutcome ==
  ASSUME dev \in Modem, NEW c \in Command
  PROVE  FailsTo(c, Failed(c).dev, Failed(c).cmd)
<1>1. Went(c, Failed(c).cmd, "fail", c.todo)
  BY CommandUpdates DEF Failed, CommandSteps
<1>2. c.id \in Ids
  BY DEF Command
<1>3. Became(dev, [dev EXCEPT !.tx[c.id] = NoTx, !.lock = Free],
             dev.files, [dev.tx EXCEPT ![c.id] = NoTx], Free, dev.active)
  BY <1>2, EmptyTransaction, ModemUpdates
<1> QED BY <1>1, <1>3 DEF FailsTo, Failed

\* A fault in a command: it fails, and `begin' may have given the lock back.
LEMMA FaultOutcome ==
  ASSUME dev \in Modem, NEW c \in Command, NEW f \in Failures(c)
  PROVE  FailsTo(c, f.dev, f.cmd) /\ f.cmd = [c EXCEPT !.at = "fail"]
<1>1. CASE f = Failed(c)
  BY <1>1, FailedOutcome DEF Failed
<1>2. CASE c.at = "dir" /\ f = Unlocks(c)
  <2>1. Went(c, f.cmd, "fail", c.todo)
    BY <1>2, CommandUpdates DEF Unlocks, CommandSteps
  <2>2. Became(dev, f.dev, dev.files, dev.tx, Free, dev.active)
    BY <1>2 DEF Unlocks, Became, Modem
  <2> QED BY <1>2, <2>1, <2>2 DEF FailsTo, Unlocks
<1> QED BY <1>1, <1>2 DEF Failures

\* The steps of `begin'.
LEMMA BeginOutcome ==
  ASSUME dev \in Modem, NEW c \in Command, c.at \in BeginSteps,
         NEW d, NEW e, d = Outcome(c).dev, e = Outcome(c).cmd
  PROVE  BeginsTo(c, d, e)
<1> DEFINE x == dev.tx[c.id]
           t == First(c.todo)
<1>1. c.id \in Ids /\ c.todo \subseteq Targets /\ x \in Transaction
  BY DEF Command, Modem
<1>2. FailsTo(c, Failed(c).dev, Failed(c).cmd)
  BY FailedOutcome
<1>3. \A at \in CommandSteps : /\ Went(c, [c EXCEPT !.at = at], at, c.todo)
                               /\ Went(c, [[c EXCEPT !.todo = @ \ {t}] EXCEPT !.at = at], at, c.todo \ {t})
  BY CommandUpdates
<1>4. \A y \in Transaction : WritesTx(c, [dev EXCEPT !.tx[c.id] = y], y)
  BY <1>1, ModemUpdates DEF WritesTx
<1>5. CASE c.at = "lock" /\ dev.lock # Free
  <2>1. d = Failed(c).dev /\ e = Failed(c).cmd
    BY <1>5 DEF Outcome, Begin, BeginSteps
  <2> QED BY <1>2, <2>1 DEF BeginsTo
<1>6. CASE c.at = "lock" /\ dev.lock = Free
  <2>1. /\ d = [dev EXCEPT !.lock = Unowned]
        /\ e = [c EXCEPT !.at = "owner"]
    BY <1>6 DEF Outcome, Begin, Step, BeginSteps
  <2>3. Went(c, e, "owner", c.todo)
    BY <1>3, <2>1 DEF CommandSteps, BeginSteps
  <2>4. Became(dev, [dev EXCEPT !.lock = Unowned], dev.files, dev.tx, Unowned, dev.active)
    BY <1>1, ModemUpdates
  <2>5. Became(dev, d, dev.files, dev.tx, Unowned, dev.active)
    BY <2>1, <2>4
  <2> QED BY <1>6, <2>3, <2>5 DEF BeginsTo
<1>7. CASE c.at = "owner"
  <2>1. /\ d = [dev EXCEPT !.lock = c.id]
        /\ e = [c EXCEPT !.at = "dir"]
    BY <1>7 DEF Outcome, Begin, Step, BeginSteps
  <2>3. Went(c, e, "dir", c.todo)
    BY <1>3, <2>1 DEF CommandSteps, BeginSteps
  <2>4. Became(dev, [dev EXCEPT !.lock = c.id], dev.files, dev.tx, c.id, dev.active)
    BY <1>1, ModemUpdates
  <2>5. Became(dev, d, dev.files, dev.tx, c.id, dev.active)
    BY <2>1, <2>4
  <2> QED BY <1>7, <2>3, <2>5 DEF BeginsTo
<1>8. CASE c.at = "dir"
  <2>1. /\ d = [dev EXCEPT !.tx[c.id] = [x EXCEPT !.state = "dir"]]
        /\ e = [c EXCEPT !.at = "identity"]
    BY <1>8 DEF Outcome, Begin, Step, BeginSteps
  <2>3. Went(c, e, "identity", c.todo)
    BY <1>3, <2>1 DEF CommandSteps, BeginSteps
  <2>4. [x EXCEPT !.state = "dir"] \in Transaction
    BY <1>1, TransactionUpdates
  <2>5. WritesTx(c, d, [x EXCEPT !.state = "dir"])
    BY <1>4, <2>1, <2>4
  <2> QED BY <1>8, <2>3, <2>5 DEF BeginsTo
<1>9. CASE c.at \in {"identity", "copy"} /\ x.state = "none"
  <2>1. d = Failed(c).dev /\ e = Failed(c).cmd
    BY <1>9 DEF Outcome, Begin, BeginSteps
  <2> QED BY <1>2, <2>1 DEF BeginsTo
<1>10. CASE c.at = "identity" /\ x.state # "none"
  <2>1. /\ d = [dev EXCEPT !.tx[c.id] = [x EXCEPT !.identity = TRUE]]
        /\ e = [c EXCEPT !.at = "copy"]
    BY <1>10 DEF Outcome, Begin, Step, BeginSteps
  <2>3. Went(c, e, "copy", c.todo)
    BY <1>3, <2>1 DEF CommandSteps, BeginSteps
  <2>4. [x EXCEPT !.identity = TRUE] \in Transaction
    BY <1>1, TransactionUpdates
  <2>5. WritesTx(c, d, [x EXCEPT !.identity = TRUE])
    BY <1>4, <2>1, <2>4
  <2> QED BY <1>10, <2>3, <2>5 DEF BeginsTo
<1>11. CASE c.at = "copy" /\ x.state # "none" /\ c.todo # {}
  <2>1. /\ d = [dev EXCEPT !.tx[c.id] = [x EXCEPT !.saved[t] = dev.files[t]]]
        /\ e = [[c EXCEPT !.todo = @ \ {t}] EXCEPT !.at = "copy"]
    BY <1>11 DEF Outcome, Begin, Step, BeginSteps
  <2>2. t \in c.todo /\ t \in Targets /\ dev.files[t] \in Versions /\ x.saved[t] \in Versions
    BY <1>1, <1>11, FirstIs DEF Modem, Transaction
  <2> HIDE DEF t
  <2>3. Went(c, e, "copy", c.todo \ {t})
    BY <1>3, <2>1 DEF CommandSteps, BeginSteps
  <2>4. [x EXCEPT !.saved[t] = dev.files[t]] \in Transaction
    BY <1>1, <2>2, TransactionUpdates
  <2>5. WritesTx(c, d, [x EXCEPT !.saved[t] = dev.files[t]])
    BY <1>4, <2>1, <2>4
  <2> QED BY <1>11, <2>2, <2>3, <2>5 DEF BeginsTo
<1>12. CASE c.at = "copy" /\ x.state # "none" /\ c.todo = {}
  <2>1. /\ d = [dev EXCEPT !.tx[c.id] = [x EXCEPT !.state = "pending"]]
        /\ e = [c EXCEPT !.at = "mark"]
    BY <1>12 DEF Outcome, Begin, Step, BeginSteps
  <2>3. Went(c, e, "mark", c.todo)
    BY <1>3, <2>1 DEF CommandSteps, BeginSteps
  <2>4. [x EXCEPT !.state = "pending"] \in Transaction
    BY <1>1, TransactionUpdates
  <2>5. WritesTx(c, d, [x EXCEPT !.state = "pending"])
    BY <1>4, <2>1, <2>4
  <2> QED BY <1>12, <2>3, <2>5 DEF BeginsTo
<1>13. CASE c.at = "mark"
  <2>1. /\ d = [dev EXCEPT !.active = c.id]
        /\ e = [c EXCEPT !.at = "sync"]
    BY <1>13 DEF Outcome, Begin, Step, BeginSteps
  <2>3. Went(c, e, "sync", c.todo)
    BY <1>3, <2>1 DEF CommandSteps, BeginSteps
  <2>4. Became(dev, [dev EXCEPT !.active = c.id], dev.files, dev.tx, dev.lock, c.id)
    BY <1>1, ModemUpdates
  <2>5. Became(dev, d, dev.files, dev.tx, dev.lock, c.id)
    BY <2>1, <2>4
  <2> QED BY <1>13, <2>3, <2>5 DEF BeginsTo
<1>14. CASE c.at = "sync"
  <2>1. /\ d = dev
        /\ e = [c EXCEPT !.at = "ok"]
    BY <1>14 DEF Outcome, Begin, Step, BeginSteps
  <2>3. Went(c, e, "ok", c.todo)
    BY <1>3, <2>1 DEF CommandSteps, BeginSteps
  <2>5. d = dev
    BY <2>1
  <2> QED BY <1>14, <2>3, <2>5 DEF BeginsTo
<1> QED BY <1>5, <1>6, <1>7, <1>8, <1>9, <1>10, <1>11, <1>12, <1>13, <1>14 DEF BeginSteps

\* The steps of `restore'.
LEMMA RestoreOutcome ==
  ASSUME dev \in Modem, NEW c \in Command, c.at \in {"restore", "put back"},
         NEW d, NEW e, d = Outcome(c).dev, e = Outcome(c).cmd
  PROVE  RestoresTo(c, d, e)
<1> DEFINE x == dev.tx[c.id]
           t == First(c.todo)
<1>1. c.id \in Ids /\ c.todo \subseteq Targets /\ x \in Transaction
  BY DEF Command, Modem
<1>2. FailsTo(c, Failed(c).dev, Failed(c).cmd)
  BY FailedOutcome
<1>3. \A at \in CommandSteps : /\ Went(c, [c EXCEPT !.at = at], at, c.todo)
                               /\ Went(c, [[c EXCEPT !.todo = @ \ {t}] EXCEPT !.at = at], at, c.todo \ {t})
  BY CommandUpdates
<1>4. \A y \in Transaction : WritesTx(c, [dev EXCEPT !.tx[c.id] = y], y)
  BY <1>1, ModemUpdates DEF WritesTx
<1>5. CASE c.at = "restore" /\ ~MayRestore(c.id)
  <2>1. d = Failed(c).dev /\ e = Failed(c).cmd
    BY <1>5 DEF Outcome, Restore, BeginSteps
  <2> QED BY <1>2, <2>1 DEF RestoresTo
<1>6. CASE c.at = "restore" /\ MayRestore(c.id)
  <2>1. /\ d = [dev EXCEPT !.lock = IF dev.active = 0 THEN c.id ELSE @, !.active = c.id]
        /\ e = [c EXCEPT !.at = "put back"]
    BY <1>6 DEF Outcome, Restore, Step, BeginSteps
  <2>3. Went(c, e, "put back", c.todo)
    BY <1>3, <2>1 DEF CommandSteps, BeginSteps
  <2>4. Became(dev, [dev EXCEPT !.lock = IF dev.active = 0 THEN c.id ELSE @, !.active = c.id],
               dev.files, dev.tx, IF dev.active = 0 THEN c.id ELSE dev.lock, c.id)
    BY <1>1, ModemUpdates DEF Modem
  <2>5. Became(dev, d, dev.files, dev.tx, IF dev.active = 0 THEN c.id ELSE dev.lock, c.id)
    BY <2>1, <2>4
  <2> QED BY <1>6, <2>3, <2>5 DEF RestoresTo
<1>7. CASE c.at = "put back" /\ c.todo # {}
  <2>1. /\ d = [dev EXCEPT !.files[t] = x.saved[t]]
        /\ e = [[c EXCEPT !.todo = @ \ {t}] EXCEPT !.at = "put back"]
    BY <1>7 DEF Outcome, Restore, Step, BeginSteps
  <2>2. t \in c.todo /\ t \in Targets /\ dev.files[t] \in Versions /\ x.saved[t] \in Versions
    BY <1>1, <1>7, FirstIs DEF Modem, Transaction
  <2> HIDE DEF t
  <2>3. Went(c, e, "put back", c.todo \ {t})
    BY <1>3, <2>1 DEF CommandSteps, BeginSteps
  <2>4. Became(dev, [dev EXCEPT !.files[t] = x.saved[t]],
               [dev.files EXCEPT ![t] = x.saved[t]], dev.tx, dev.lock, dev.active)
    BY <1>1, <2>2, ModemUpdates
  <2>5. Became(dev, d, [dev.files EXCEPT ![t] = x.saved[t]], dev.tx, dev.lock, dev.active)
    BY <2>1, <2>4
  <2> QED BY <1>7, <2>2, <2>3, <2>5 DEF RestoresTo
<1>8. CASE c.at = "put back" /\ c.todo = {}
  <2>1. /\ d = [dev EXCEPT !.tx[c.id] = [x EXCEPT !.state = "restored"]]
        /\ e = [c EXCEPT !.at = "unmark"]
    BY <1>8 DEF Outcome, Restore, Step, BeginSteps
  <2>3. Went(c, e, "unmark", c.todo)
    BY <1>3, <2>1 DEF CommandSteps, BeginSteps
  <2>4. [x EXCEPT !.state = "restored"] \in Transaction
    BY <1>1, TransactionUpdates
  <2>5. WritesTx(c, d, [x EXCEPT !.state = "restored"])
    BY <1>4, <2>1, <2>4
  <2> QED BY <1>8, <2>3, <2>5 DEF RestoresTo
<1> QED BY <1>5, <1>6, <1>7, <1>8

\* The steps of `complete' and `discard-incomplete', and the release of marker and lock.
LEMMA EndOutcome ==
  ASSUME dev \in Modem, NEW c \in Command, c.at \in {"complete", "discard", "erase", "unmark", "disown", "unlock"},
         NEW d, NEW e, d = Outcome(c).dev, e = Outcome(c).cmd
  PROVE  EndsTo(c, d, e)
<1> DEFINE x == dev.tx[c.id]
           t == First(c.todo)
<1>1. c.id \in Ids /\ c.todo \subseteq Targets /\ x \in Transaction
  BY DEF Command, Modem
<1>2. FailsTo(c, Failed(c).dev, Failed(c).cmd)
  BY FailedOutcome
<1>3. \A at \in CommandSteps : /\ Went(c, [c EXCEPT !.at = at], at, c.todo)
                               /\ Went(c, [[c EXCEPT !.todo = @ \ {t}] EXCEPT !.at = at], at, c.todo \ {t})
  BY CommandUpdates
<1>4. \A y \in Transaction : WritesTx(c, [dev EXCEPT !.tx[c.id] = y], y)
  BY <1>1, ModemUpdates DEF WritesTx
<1>5. CASE c.at = "complete" /\ MayComplete(c.id)
  <2>1. /\ d = [dev EXCEPT !.tx[c.id] = [x EXCEPT !.state = "committed"]]
        /\ e = [c EXCEPT !.at = "unmark"]
    BY <1>5 DEF Outcome, Commit, Discard, Release, Step, BeginSteps
  <2>3. Went(c, e, "unmark", c.todo)
    BY <1>3, <2>1 DEF CommandSteps, BeginSteps
  <2>4. [x EXCEPT !.state = "committed"] \in Transaction
    BY <1>1, TransactionUpdates
  <2>5. WritesTx(c, d, [x EXCEPT !.state = "committed"])
    BY <1>4, <2>1, <2>4
  <2> QED BY <1>5, <2>3, <2>5 DEF EndsTo
<1>6. CASE c.at = "complete" /\ ~MayComplete(c.id)
  <2>1. d = Failed(c).dev /\ e = Failed(c).cmd
    BY <1>6 DEF Outcome, Commit, Discard, Release, BeginSteps
  <2> QED BY <1>2, <2>1 DEF EndsTo
<1>7. CASE c.at = "discard" /\ MayDiscard(c.id)
  <2>1. /\ d = dev
        /\ e = [c EXCEPT !.at = "erase"]
    BY <1>7 DEF Outcome, Commit, Discard, Release, Step, BeginSteps
  <2>3. Went(c, e, "erase", c.todo)
    BY <1>3, <2>1 DEF CommandSteps, BeginSteps
  <2>5. d = dev
    BY <2>1
  <2> QED BY <1>7, <2>3, <2>5 DEF EndsTo
<1>8. CASE c.at = "discard" /\ ~MayDiscard(c.id)
  <2>1. d = Failed(c).dev /\ e = Failed(c).cmd
    BY <1>8 DEF Outcome, Commit, Discard, Release, BeginSteps
  <2> QED BY <1>2, <2>1 DEF EndsTo
<1>9. CASE c.at = "erase"
  <2>1. /\ d = [dev EXCEPT !.tx[c.id] = NoTx]
        /\ e = [c EXCEPT !.at = "disown"]
    BY <1>9 DEF Outcome, Commit, Discard, Release, Step, BeginSteps
  <2>3. Went(c, e, "disown", c.todo)
    BY <1>3, <2>1 DEF CommandSteps, BeginSteps
  <2>4. NoTx \in Transaction
    BY <1>1, EmptyTransaction
  <2>5. WritesTx(c, d, NoTx)
    BY <1>4, <2>1, <2>4
  <2> QED BY <1>9, <2>3, <2>5 DEF EndsTo
<1>10. CASE c.at = "unmark"
  <2>1. /\ d = [dev EXCEPT !.active = 0]
        /\ e = [c EXCEPT !.at = "disown"]
    BY <1>10 DEF Outcome, Commit, Discard, Release, Step, BeginSteps
  <2>3. Went(c, e, "disown", c.todo)
    BY <1>3, <2>1 DEF CommandSteps, BeginSteps
  <2>4. Became(dev, [dev EXCEPT !.active = 0], dev.files, dev.tx, dev.lock, 0)
    BY <1>1, ModemUpdates
  <2>5. Became(dev, d, dev.files, dev.tx, dev.lock, 0)
    BY <2>1, <2>4
  <2> QED BY <1>10, <2>3, <2>5 DEF EndsTo
<1>11. CASE c.at = "disown"
  <2>1. /\ d = [dev EXCEPT !.lock = IF @ = Free THEN Free ELSE Unowned]
        /\ e = [c EXCEPT !.at = "unlock"]
    BY <1>11 DEF Outcome, Commit, Discard, Release, Step, BeginSteps
  <2>3. Went(c, e, "unlock", c.todo)
    BY <1>3, <2>1 DEF CommandSteps, BeginSteps
  <2>4. Became(dev, [dev EXCEPT !.lock = IF @ = Free THEN Free ELSE Unowned],
               dev.files, dev.tx, IF dev.lock = Free THEN Free ELSE Unowned, dev.active)
    BY <1>1, ModemUpdates
  <2>5. Became(dev, d, dev.files, dev.tx, IF dev.lock = Free THEN Free ELSE Unowned, dev.active)
    BY <2>1, <2>4
  <2> QED BY <1>11, <2>3, <2>5 DEF EndsTo
<1>12. CASE c.at = "unlock" /\ dev.lock = Unowned
  <2>1. /\ d = [dev EXCEPT !.lock = Free]
        /\ e = [c EXCEPT !.at = "ok"]
    BY <1>12 DEF Outcome, Commit, Discard, Release, Step, BeginSteps
  <2>3. Went(c, e, "ok", c.todo)
    BY <1>3, <2>1 DEF CommandSteps, BeginSteps
  <2>4. Became(dev, [dev EXCEPT !.lock = Free], dev.files, dev.tx, Free, dev.active)
    BY <1>1, ModemUpdates
  <2>5. Became(dev, d, dev.files, dev.tx, Free, dev.active)
    BY <2>1, <2>4
  <2> QED BY <1>12, <2>3, <2>5 DEF EndsTo
<1>13. CASE c.at = "unlock" /\ dev.lock # Unowned
  <2>1. d = Failed(c).dev /\ e = Failed(c).cmd
    BY <1>13 DEF Outcome, Commit, Discard, Release, BeginSteps
  <2> QED BY <1>2, <2>1 DEF EndsTo
<1> QED BY <1>5, <1>6, <1>7, <1>8, <1>9, <1>10, <1>11, <1>12, <1>13

\* The steps of a phase.
LEMMA InstallOutcome ==
  ASSUME dev \in Modem, NEW c \in Command, c.at = "install", c.release \in Versions,
         NEW d, NEW e, d = Outcome(c).dev, e = Outcome(c).cmd
  PROVE  InstallsTo(c, d, e)
<1> DEFINE x == dev.tx[c.id]
           t == First(c.todo)
<1>1. c.id \in Ids /\ c.todo \subseteq Targets /\ x \in Transaction
  BY DEF Command, Modem
<1>2. FailsTo(c, Failed(c).dev, Failed(c).cmd)
  BY FailedOutcome
<1>3. \A at \in CommandSteps : /\ Went(c, [c EXCEPT !.at = at], at, c.todo)
                               /\ Went(c, [[c EXCEPT !.todo = @ \ {t}] EXCEPT !.at = at], at, c.todo \ {t})
  BY CommandUpdates
<1>4. \A y \in Transaction : WritesTx(c, [dev EXCEPT !.tx[c.id] = y], y)
  BY <1>1, ModemUpdates DEF WritesTx
<1>5. CASE c.todo = {}
  <2>1. /\ d = dev
        /\ e = [c EXCEPT !.at = "ok"]
    BY <1>5 DEF Outcome, Install, Step, BeginSteps
  <2>3. Went(c, e, "ok", c.todo)
    BY <1>3, <2>1 DEF CommandSteps, BeginSteps
  <2>5. d = dev
    BY <2>1
  <2> QED BY <1>5, <2>3, <2>5 DEF InstallsTo
<1>6. CASE c.todo # {}
  <2>1. /\ d = [dev EXCEPT !.files[t] = c.release]
        /\ e = [[c EXCEPT !.todo = @ \ {t}] EXCEPT !.at = "install"]
    BY <1>6 DEF Outcome, Install, Step, BeginSteps
  <2>2. t \in c.todo /\ t \in Targets /\ dev.files[t] \in Versions /\ x.saved[t] \in Versions
    BY <1>1, <1>6, FirstIs DEF Modem, Transaction
  <2> HIDE DEF t
  <2>3. Went(c, e, "install", c.todo \ {t})
    BY <1>3, <2>1 DEF CommandSteps, BeginSteps
  <2>4. Became(dev, [dev EXCEPT !.files[t] = c.release],
               [dev.files EXCEPT ![t] = c.release], dev.tx, dev.lock, dev.active)
    BY <1>1, <2>2, ModemUpdates
  <2>5. Became(dev, d, [dev.files EXCEPT ![t] = c.release], dev.tx, dev.lock, dev.active)
    BY <2>1, <2>4
  <2> QED BY <1>6, <2>2, <2>3, <2>5 DEF InstallsTo
<1> QED BY <1>5, <1>6

\* Two sets of files are the same if every target is.
LEMMA SameFiles ==
  ASSUME NEW f \in [Targets -> Versions], NEW g \in [Targets -> Versions], \A t \in Targets : f[t] = g[t]
  PROVE  f = g
OBVIOUS

\* One transaction is written, the others are as they were.
LEMMA TxWritten ==
  ASSUME dev \in Modem, NEW c \in Command, NEW d, NEW y, WritesTx(c, d, y)
  PROVE  /\ d \in Modem /\ d.files = dev.files /\ d.lock = dev.lock /\ d.active = dev.active
         /\ d.tx[c.id] = y /\ \A i \in Ids : i # c.id => d.tx[i] = dev.tx[i]
         /\ d.unlocked = dev.unlocked
<1>1. c.id \in Ids /\ dev.tx \in [Ids -> Transaction]
  BY DEF Command, Modem
<1> QED BY <1>1 DEF WritesTx, Became

\* Only the state of the transaction is written.
LEMMA StateWritten ==
  ASSUME dev \in Modem, NEW c \in Command, NEW d, NEW s \in {"none", "dir", "pending", "committed", "restored"},
         WritesTx(c, d, [dev.tx[c.id] EXCEPT !.state = s])
  PROVE  /\ d.files = dev.files /\ d.lock = dev.lock /\ d.active = dev.active
         /\ d.tx[c.id].state = s /\ d.tx[c.id].identity = dev.tx[c.id].identity
         /\ d.tx[c.id].saved = dev.tx[c.id].saved
         /\ \A i \in Ids : i # c.id => d.tx[i] = dev.tx[i]
<1> DEFINE y == [dev.tx[c.id] EXCEPT !.state = s]
<1>1. dev.tx[c.id] \in Transaction
  BY DEF Command, Modem
<1>2. y.state = s /\ y.identity = dev.tx[c.id].identity /\ y.saved = dev.tx[c.id].saved
  BY <1>1, TransactionUpdates
<1>3. WritesTx(c, d, y)
  OBVIOUS
<1> HIDE DEF y
<1> QED BY <1>2, <1>3, TxWritten

\* Whatever the steps do, the modem and the command keep their types.
LEMMA OutcomeType ==
  ASSUME InstallerConstants, dev \in Modem, NEW c \in Command, ~Answered(c),
         c.at = "install" => c.release # None,
         NEW d, NEW e, d = Outcome(c).dev, e = Outcome(c).cmd
  PROVE  /\ d \in Modem /\ d.unlocked = dev.unlocked
         /\ e \in Command /\ e.id = c.id /\ e.release = c.release
         /\ e.at \in BeginSteps => c.at \in BeginSteps
         /\ e.at = "install" => c.at = "install"
<1> DEFINE Kept == /\ d \in Modem /\ d.unlocked = dev.unlocked
                   /\ e \in Command /\ e.id = c.id /\ e.release = c.release
                   /\ e.at \in BeginSteps => c.at \in BeginSteps
                   /\ e.at = "install" => c.at = "install"
<1>1. CASE FailsTo(c, d, e)
  BY <1>1 DEF FailsTo, Went, Became, BeginSteps
<1>2. CASE c.at \in BeginSteps
  <2>1. BeginsTo(c, d, e)
    BY <1>2, BeginOutcome
  <2> QED BY <1>1, <1>2, <2>1 DEF BeginsTo, WritesTx, Went, Became
<1>3. CASE c.at \in {"restore", "put back"}
  <2>1. RestoresTo(c, d, e)
    BY <1>3, RestoreOutcome
  <2> QED BY <1>1, <2>1 DEF RestoresTo, WritesTx, Went, Became, BeginSteps
<1>4. CASE c.at \in {"complete", "discard", "erase", "unmark", "disown", "unlock"}
  <2>1. EndsTo(c, d, e)
    BY <1>4, EndOutcome
  <2> QED BY <1>1, <2>1 DEF EndsTo, WritesTx, Went, Became, BeginSteps
<1>5. CASE c.at = "install"
  <2>1. c.release \in Versions
    BY <1>5 DEF Command, Versions
  <2>2. InstallsTo(c, d, e)
    BY <1>5, <2>1, InstallOutcome
  <2> QED BY <1>5, <2>2 DEF InstallsTo, Went, Became, BeginSteps
<1> QED BY <1>2, <1>3, <1>4, <1>5 DEF Answered, Command, CommandSteps

\* A failure leaves the modem recoverable; the trap only erases a preparation.
LEMMA FailSafe ==
  ASSUME InstallerConstants, dev \in Modem, NEW c \in Command, NEW h, NEW d, NEW e,
         ModemInv(dev, h), CommandInv(dev, h, c), FailsTo(c, d, e)
  PROVE  ModemInv(d, h) /\ CommandInv(d, h, e)
<1>1. CommandInv(d, h, e)
  BY DEF CommandInv, FailsTo, Went, BeginSteps
<1>2. CASE ~Trapped(c) /\ d = dev
  BY <1>1, <1>2
<1>4. CASE c.at = "dir" /\ Became(dev, d, dev.files, dev.tx, Free, dev.active)
  <2>1. d.files = dev.files /\ d.lock = Free /\ d.active = dev.active /\ d.tx = dev.tx
    BY <1>4 DEF Became
  <2>2. Whole(dev.files) /\ dev.lock = c.id /\ Free \notin Ids /\ c.id \in Ids
    BY <1>4, IdFacts DEF CommandInv, BeginSteps, Free, Command
  <2>3. KnownOn(dev, c.id) => FALSE
    BY <1>4 DEF CommandInv, KnownOn
  <2>4. ~Leads(d)
    BY <2>1, <2>2, <2>3 DEF Leads, ModemInv, KnownOn
  <2> QED BY <1>1, <2>1, <2>2, <2>4 DEF ModemInv, KnownOn
<1>3. CASE Trapped(c)
  <2>1. c.id \in Ids /\ dev.tx \in [Ids -> Transaction]
    BY DEF Command, Modem
  <2>2. /\ d.files = dev.files /\ d.lock = Free /\ d.active = dev.active
        /\ d.tx[c.id] = NoTx /\ \A i \in Ids : i # c.id => d.tx[i] = dev.tx[i]
    BY <1>3, <2>1 DEF FailsTo, Became, Trapped
  <2>3. Whole(dev.files) /\ dev.lock = c.id
    BY <1>3 DEF CommandInv, Trapped, BeginSteps
  <2>4. \A i \in Ids : KnownOn(d, i) => i # c.id /\ KnownOn(dev, i)
    BY <2>2, EmptyTransaction DEF KnownOn
  <2>5. ~Leads(d)
    BY <2>2, <2>3, <2>4 DEF Leads, ModemInv, Modem
  <2>6. Free \notin Ids
    BY IdFacts DEF Free
  <2> QED BY <1>1, <2>2, <2>3, <2>4, <2>5, <2>6 DEF ModemInv
<1> QED BY <1>2, <1>3, <1>4 DEF FailsTo

\* `begin' changes no target, and marks a transaction only when its snapshot is complete.
LEMMA BeginSafe ==
  ASSUME InstallerConstants, dev \in Modem, NEW c \in Command, NEW h \in [Ids -> [Targets -> Versions]], NEW d, NEW e,
         ModemInv(dev, h), CommandInv(dev, h, c), c.at \in BeginSteps, BeginsTo(c, d, e)
  PROVE  ModemInv(d, h) /\ CommandInv(d, h, e)
<1> USE DEF KnownOn, Leads, Went
<1>1. c.id \in Ids /\ c.id # 0 /\ c.id # Free /\ c.id # Unowned /\ Unowned # Free
      /\ dev.files \in [Targets -> Versions] /\ dev.tx[c.id] \in Transaction
      /\ Free \notin Ids /\ Unowned \notin Ids /\ dev.active \in Ids \cup {0}
  BY IdFacts DEF Command, Modem, Free, Unowned
<1>2. CASE FailsTo(c, d, e)
  BY <1>2, FailSafe
<1>3. CASE /\ c.at = "lock" /\ dev.lock = Free /\ Went(c, e, "owner", c.todo)
           /\ Became(dev, d, dev.files, dev.tx, Unowned, dev.active)
  BY <1>1, <1>3 DEF Became, ModemInv, CommandInv, BeginSteps
<1>4. CASE /\ c.at = "owner" /\ Went(c, e, "dir", c.todo)
           /\ Became(dev, d, dev.files, dev.tx, c.id, dev.active)
  BY <1>1, <1>4 DEF Became, ModemInv, CommandInv, BeginSteps
<1>5. CASE /\ c.at = "dir" /\ Went(c, e, "identity", c.todo)
           /\ WritesTx(c, d, [dev.tx[c.id] EXCEPT !.state = "dir"])
  <2>1. /\ d.files = dev.files /\ d.lock = dev.lock /\ d.active = dev.active /\ d.tx[c.id].state = "dir"
        /\ \A i \in Ids : i # c.id => d.tx[i] = dev.tx[i]
    BY <1>5, StateWritten
  <2> QED BY <1>1, <1>5, <2>1 DEF ModemInv, CommandInv, BeginSteps
<1>6. CASE /\ c.at = "identity" /\ Went(c, e, "copy", c.todo)
           /\ WritesTx(c, d, [dev.tx[c.id] EXCEPT !.identity = TRUE])
  <2>1. /\ d.files = dev.files /\ d.lock = dev.lock /\ d.active = dev.active
        /\ d.tx[c.id].state = dev.tx[c.id].state /\ d.tx[c.id].identity
        /\ \A i \in Ids : i # c.id => d.tx[i] = dev.tx[i]
    <3> DEFINE y == [dev.tx[c.id] EXCEPT !.identity = TRUE]
    <3>1. y.state = dev.tx[c.id].state /\ y.identity
      BY <1>1, TransactionUpdates
    <3>2. WritesTx(c, d, y)
      BY <1>6
    <3> HIDE DEF y
    <3> QED BY <3>1, <3>2, TxWritten
  <2> QED BY <1>1, <1>6, <2>1 DEF ModemInv, CommandInv, BeginSteps
<1>7. ASSUME c.at = "copy", NEW t \in c.todo, Went(c, e, "copy", c.todo \ {t}),
             WritesTx(c, d, [dev.tx[c.id] EXCEPT !.saved[t] = dev.files[t]])
      PROVE  ModemInv(d, h) /\ CommandInv(d, h, e)
  <2>1. t \in Targets /\ dev.files[t] \in Versions /\ dev.tx[c.id].saved \in [Targets -> Versions]
    BY <1>1, <1>7 DEF Command, Transaction
  <2>2. /\ d.files = dev.files /\ d.lock = dev.lock /\ d.active = dev.active
        /\ d.tx[c.id].state = dev.tx[c.id].state /\ d.tx[c.id].identity = dev.tx[c.id].identity
        /\ d.tx[c.id].saved = [dev.tx[c.id].saved EXCEPT ![t] = dev.files[t]]
        /\ \A i \in Ids : i # c.id => d.tx[i] = dev.tx[i]
    <3> DEFINE y == [dev.tx[c.id] EXCEPT !.saved[t] = dev.files[t]]
    <3>1. /\ y.state = dev.tx[c.id].state /\ y.identity = dev.tx[c.id].identity
          /\ y.saved = [dev.tx[c.id].saved EXCEPT ![t] = dev.files[t]]
      BY <1>1, <2>1, TransactionUpdates
    <3>2. WritesTx(c, d, y)
      BY <1>7
    <3> HIDE DEF y
    <3> QED BY <3>1, <3>2, TxWritten
  <2>3. \A u \in Targets \ (c.todo \ {t}) : d.tx[c.id].saved[u] = d.files[u]
    BY <1>7, <2>1, <2>2 DEF CommandInv
  <2> QED BY <1>1, <1>7, <2>2, <2>3 DEF ModemInv, CommandInv, BeginSteps
<1>8. CASE /\ c.at = "copy" /\ c.todo = {} /\ Went(c, e, "mark", c.todo)
           /\ WritesTx(c, d, [dev.tx[c.id] EXCEPT !.state = "pending"])
  <2>1. /\ d.files = dev.files /\ d.lock = dev.lock /\ d.active = dev.active
        /\ d.tx[c.id].state = "pending" /\ d.tx[c.id].identity = dev.tx[c.id].identity
        /\ d.tx[c.id].saved = dev.tx[c.id].saved
        /\ \A i \in Ids : i # c.id => d.tx[i] = dev.tx[i]
    BY <1>8, StateWritten
  <2>2. dev.tx[c.id].saved = dev.files
    BY <1>1, <1>8 DEF CommandInv, Transaction
  <2> QED BY <1>1, <1>8, <2>1, <2>2 DEF ModemInv, CommandInv, BeginSteps
<1>9. CASE /\ c.at = "mark" /\ Went(c, e, "sync", c.todo)
           /\ Became(dev, d, dev.files, dev.tx, dev.lock, c.id)
  BY <1>1, <1>9 DEF Became, ModemInv, CommandInv, BeginSteps
<1>10. CASE c.at = "sync" /\ Went(c, e, "ok", c.todo) /\ d = dev
  BY <1>1, <1>10 DEF CommandInv, BeginSteps
<1> QED BY <1>2, <1>3, <1>4, <1>5, <1>6, <1>7, <1>8, <1>9, <1>10 DEF BeginsTo

\* How far a step of a restoration comes, and a step of a phase.
Restoring(c, d, e, h) ==
  e.at \in {"put back", "unmark", "fail"} /\ (e.at = "unmark" => d.files = h[c.id])
Installing(c, d, e) ==
  /\ d.tx = dev.tx /\ d.active = dev.active /\ e.at \in {"install", "ok"}
  /\ e.at = "ok" => c.todo = {} /\ d = dev
  /\ e.at = "install" => \E t \in c.todo :
       e.todo = c.todo \ {t} /\ d.files = [dev.files EXCEPT ![t] = c.release]

\* `restore' holds the marker while it replaces targets, and lets go when all are as before.
LEMMA RestoreSafe ==
  ASSUME InstallerConstants, dev \in Modem, NEW c \in Command, NEW h \in [Ids -> [Targets -> Versions]], NEW d, NEW e,
         ModemInv(dev, h), CommandInv(dev, h, c), c.at \in {"restore", "put back"}, RestoresTo(c, d, e)
  PROVE  ModemInv(d, h) /\ CommandInv(d, h, e) /\ Restoring(c, d, e, h)
<1> USE DEF Restoring, KnownOn, Leads, Went
<1>1. c.id \in Ids /\ c.id # 0 /\ dev.files \in [Targets -> Versions] /\ dev.tx[c.id] \in Transaction
  BY IdFacts DEF Command, Modem
<1>2. CASE FailsTo(c, d, e)
  BY <1>2, FailSafe DEF FailsTo
<1>3. CASE /\ c.at = "restore" /\ MayRestore(c.id) /\ Went(c, e, "put back", c.todo)
           /\ Became(dev, d, dev.files, dev.tx, IF dev.active = 0 THEN c.id ELSE dev.lock, c.id)
  <2>1. KnownOn(dev, c.id) /\ dev.active \in {0, c.id}
    BY <1>3 DEF MayRestore, Known
  <2>2. d.files = dev.files /\ d.tx = dev.tx /\ d.active = c.id /\ d.lock = c.id
    BY <1>1, <1>3, <2>1 DEF Became, ModemInv
  <2>3. c.todo = Targets
    BY <1>3 DEF CommandInv
  <2>4. ModemInv(d, h)
    BY <1>1, <2>1, <2>2 DEF ModemInv
  <2> QED BY <1>1, <1>3, <2>1, <2>2, <2>3, <2>4 DEF CommandInv, BeginSteps
<1>4. ASSUME c.at = "put back", NEW t \in c.todo, Went(c, e, "put back", c.todo \ {t}),
             Became(dev, d, [dev.files EXCEPT ![t] = dev.tx[c.id].saved[t]], dev.tx, dev.lock, dev.active)
      PROVE  ModemInv(d, h) /\ CommandInv(d, h, e)
  <2>1. /\ d.files = [dev.files EXCEPT ![t] = dev.tx[c.id].saved[t]]
        /\ d.tx = dev.tx /\ d.lock = dev.lock /\ d.active = dev.active
    BY <1>4 DEF Became
  <2>2. KnownOn(dev, c.id) /\ dev.active = c.id /\ dev.lock = c.id
    BY <1>1, <1>4 DEF CommandInv, ModemInv
  <2>3. \A u \in Targets \ (c.todo \ {t}) : d.files[u] = d.tx[c.id].saved[u]
    <3>1. \A u \in Targets \ c.todo : dev.files[u] = dev.tx[c.id].saved[u]
      BY <1>4 DEF CommandInv
    <3>2. d.files[t] = dev.tx[c.id].saved[t] /\ \A u \in Targets : u # t => d.files[u] = dev.files[u]
      BY <1>1, <1>4, <2>1 DEF Command
    <3> QED BY <2>1, <3>1, <3>2
  <2>4. Leads(d) /\ KnownOn(d, c.id) /\ d.active = c.id /\ d.lock = c.id
    BY <1>1, <2>1, <2>2
  <2>5. ModemInv(d, h)
    BY <2>1, <2>2, <2>4 DEF ModemInv
  <2> HIDE DEF KnownOn, Leads
  <2> QED BY <1>4, <2>3, <2>4, <2>5 DEF CommandInv, BeginSteps
<1>5. CASE /\ c.at = "put back" /\ c.todo = {} /\ Went(c, e, "unmark", c.todo)
           /\ WritesTx(c, d, [dev.tx[c.id] EXCEPT !.state = "restored"])
  <2>1. /\ d.files = dev.files /\ d.lock = dev.lock /\ d.active = dev.active
        /\ d.tx[c.id].state = "restored" /\ d.tx[c.id].identity = dev.tx[c.id].identity
        /\ d.tx[c.id].saved = dev.tx[c.id].saved
        /\ \A i \in Ids : i # c.id => d.tx[i] = dev.tx[i]
    <3>1. WritesTx(c, d, [dev.tx[c.id] EXCEPT !.state = "restored"])
      BY <1>5
    <3> QED BY <3>1, StateWritten
  <2>2. dev.files = dev.tx[c.id].saved
    <3>1. \A t \in Targets : dev.files[t] = dev.tx[c.id].saved[t]
      BY <1>5 DEF CommandInv
    <3>2. dev.tx[c.id].saved \in [Targets -> Versions]
      BY <1>1 DEF Transaction
    <3> QED BY <1>1, <3>1, <3>2, SameFiles
  <2>3. KnownOn(dev, c.id) /\ dev.active = c.id /\ dev.lock = c.id
    BY <1>1, <1>5 DEF CommandInv, ModemInv
  <2>4. dev.files = h[c.id] /\ Whole(dev.files)
    BY <1>1, <2>2, <2>3 DEF ModemInv
  <2>5. ModemInv(d, h)
    BY <1>1, <2>1, <2>3, <2>4 DEF ModemInv
  <2> QED BY <1>5, <2>1, <2>4, <2>5 DEF CommandInv, BeginSteps
<1> QED BY <1>2, <1>3, <1>4, <1>5 DEF RestoresTo

\* The end of a transaction: the marker goes only when the targets are of one installation.
LEMMA EndSafe ==
  ASSUME InstallerConstants, dev \in Modem, NEW c \in Command, NEW h \in [Ids -> [Targets -> Versions]], NEW d, NEW e,
         ModemInv(dev, h), CommandInv(dev, h, c), EndsTo(c, d, e),
         c.at \in {"complete", "discard", "erase", "unmark", "disown", "unlock"}
  PROVE  /\ ModemInv(d, h) /\ CommandInv(d, h, e) /\ d.files = dev.files
         /\ e.at \in {"unmark", "erase", "disown", "unlock", "ok", "fail"}
         /\ e.at = "erase" => d.files = h[c.id]
         /\ c.at = "discard" => e.at \in {"erase", "fail"}
         /\ c.at # "discard" => e.at # "erase"
         /\ e.at = "ok" => d.active = 0
<1> USE DEF KnownOn, Leads, Went
<1>1. c.id \in Ids /\ c.id # 0 /\ dev.tx[c.id] \in Transaction /\ Free \notin Ids /\ Unowned \notin Ids
  BY IdFacts DEF Command, Modem, Free, Unowned
<1>2. CASE FailsTo(c, d, e)
  <2>1. d = dev
    BY <1>2 DEF FailsTo, Trapped
  <2> QED BY <1>2, <2>1, FailSafe DEF FailsTo
<1>3. CASE /\ c.at = "complete" /\ MayComplete(c.id) /\ Went(c, e, "unmark", c.todo)
           /\ WritesTx(c, d, [dev.tx[c.id] EXCEPT !.state = "committed"])
  <2>1. /\ d.files = dev.files /\ d.lock = dev.lock /\ d.active = dev.active
        /\ d.tx[c.id].state = "committed" /\ d.tx[c.id].identity = dev.tx[c.id].identity
        /\ d.tx[c.id].saved = dev.tx[c.id].saved
        /\ \A i \in Ids : i # c.id => d.tx[i] = dev.tx[i]
    BY <1>3, StateWritten
  <2>2. KnownOn(dev, c.id) /\ dev.active = c.id
    BY <1>3 DEF MayComplete, Known
  <2>3. ModemInv(d, h)
    BY <1>1, <2>1, <2>2 DEF ModemInv
  <2> QED BY <1>3, <2>1, <2>3 DEF CommandInv, BeginSteps
<1>4. CASE c.at = "discard" /\ MayDiscard(c.id) /\ Went(c, e, "erase", c.todo) /\ d = dev
  BY <1>1, <1>4 DEF MayDiscard, ModemInv, CommandInv, BeginSteps
<1>5. CASE c.at = "erase" /\ Went(c, e, "disown", c.todo) /\ WritesTx(c, d, NoTx)
  <2>1. /\ d.files = dev.files /\ d.lock = dev.lock /\ d.active = dev.active
        /\ d.tx[c.id].state = "none" /\ \A i \in Ids : i # c.id => d.tx[i] = dev.tx[i]
    BY <1>1, <1>5, TxWritten, EmptyTransaction
  <2>2. dev.active = 0
    BY <1>5 DEF CommandInv
  <2>3. ModemInv(d, h)
    BY <1>1, <2>1, <2>2 DEF ModemInv
  <2> QED BY <1>5, <2>1, <2>2, <2>3 DEF CommandInv, BeginSteps
<1>6. CASE /\ c.at = "unmark" /\ Went(c, e, "disown", c.todo)
           /\ Became(dev, d, dev.files, dev.tx, dev.lock, 0)
  BY <1>1, <1>6 DEF Became, ModemInv, CommandInv, BeginSteps
<1>7. CASE /\ c.at = "disown" /\ Went(c, e, "unlock", c.todo)
           /\ Became(dev, d, dev.files, dev.tx, IF dev.lock = Free THEN Free ELSE Unowned, dev.active)
  BY <1>1, <1>7 DEF Became, ModemInv, CommandInv, BeginSteps
<1>8. CASE /\ c.at = "unlock" /\ Went(c, e, "ok", c.todo)
           /\ Became(dev, d, dev.files, dev.tx, Free, dev.active)
  BY <1>1, <1>8 DEF Became, ModemInv, CommandInv, BeginSteps
<1> QED BY <1>2, <1>3, <1>4, <1>5, <1>6, <1>7, <1>8 DEF EndsTo

\* A phase replaces targets under a marker that leads back.
LEMMA InstallSafe ==
  ASSUME InstallerConstants, dev \in Modem, NEW c \in Command, NEW h \in [Ids -> [Targets -> Versions]], NEW d, NEW e,
         ModemInv(dev, h), CommandInv(dev, h, c), c.at = "install", InstallsTo(c, d, e)
  PROVE  ModemInv(d, h) /\ CommandInv(d, h, e) /\ Installing(c, d, e)
<1> USE DEF Installing, KnownOn, Leads, Went
<1>1. c.id \in Ids /\ c.id # 0 /\ KnownOn(dev, c.id) /\ dev.active = c.id /\ dev.lock = c.id
  BY IdFacts DEF Command, CommandInv, ModemInv
<1>2. CASE c.todo = {} /\ Went(c, e, "ok", c.todo) /\ d = dev
  BY <1>2 DEF CommandInv, BeginSteps
<1>3. ASSUME NEW t \in c.todo, Went(c, e, "install", c.todo \ {t}),
             Became(dev, d, [dev.files EXCEPT ![t] = c.release], dev.tx, dev.lock, dev.active)
      PROVE  ModemInv(d, h) /\ CommandInv(d, h, e) /\ d.tx = dev.tx /\ d.active = dev.active
             /\ d.files = [dev.files EXCEPT ![t] = c.release]
  <2>1. d.tx = dev.tx /\ d.active = dev.active /\ d.lock = dev.lock /\ d.files = [dev.files EXCEPT ![t] = c.release]
    BY <1>3 DEF Became
  <2>2. ModemInv(d, h)
    BY <1>1, <2>1 DEF ModemInv
  <2> QED BY <1>1, <1>3, <2>1, <2>2 DEF CommandInv, BeginSteps
<1> QED BY <1>2, <1>3 DEF InstallsTo

\* Only a transaction that was begun gets a state.
LEMMA OutcomeFresh ==
  ASSUME InstallerConstants, dev \in Modem, NEW c \in Command, NEW h, NEW n \in Nat, ~Answered(c),
         CommandInv(dev, h, c), FreshInv(dev, n), c.at \in BeginSteps => c.id <= n,
         c.at = "install" => c.release # None,
         NEW d, NEW e, d = Outcome(c).dev, e = Outcome(c).cmd
  PROVE  FreshInv(d, n)
<1>1. c.id \in Ids /\ c.id \in Nat /\ Ids \subseteq Nat /\ dev.tx \in [Ids -> Transaction]
  BY IdFacts DEF Command, Modem
<1>2. ASSUME NEW y, WritesTx(c, d, y), y.state = "none" \/ c.id <= n
      PROVE  FreshInv(d, n)
  BY <1>1, <1>2, TxWritten DEF FreshInv
<1>3. ASSUME FailsTo(c, d, e)
      PROVE  FreshInv(d, n)
  <2>1. CASE ~Trapped(c)
    BY <1>3, <2>1 DEF FailsTo, FreshInv, Became
  <2>2. CASE Trapped(c)
    <3>1. d.tx[c.id] = NoTx /\ \A i \in Ids : i # c.id => d.tx[i] = dev.tx[i]
      BY <1>1, <1>3, <2>2 DEF FailsTo, Became, Trapped
    <3> QED BY <3>1, EmptyTransaction DEF FreshInv
  <2> QED BY <2>1, <2>2
<1>4. KnownOn(dev, c.id) => c.id <= n
  BY <1>1 DEF FreshInv, KnownOn
<1>5. d.tx = dev.tx => FreshInv(d, n)
  BY DEF FreshInv
<1>6. CASE c.at \in BeginSteps
  <2>1. BeginsTo(c, d, e)
    BY <1>6, BeginOutcome
  <2>2. (\E y : WritesTx(c, d, y)) \/ d.tx = dev.tx \/ FailsTo(c, d, e)
    BY <2>1 DEF BeginsTo, Became
  <2> QED BY <1>2, <1>3, <1>5, <1>6, <2>2
<1>7. CASE c.at \in {"restore", "put back"}
  <2>1. RestoresTo(c, d, e)
    BY <1>7, RestoreOutcome
  <2>2. c.at = "put back" => c.id <= n
    BY <1>4 DEF CommandInv
  <2>3. (c.at = "put back" /\ \E y : WritesTx(c, d, y)) \/ d.tx = dev.tx \/ FailsTo(c, d, e)
    BY <2>1 DEF RestoresTo, Became
  <2> QED BY <1>2, <1>3, <1>5, <2>2, <2>3
<1>8. CASE c.at \in {"complete", "discard", "erase", "unmark", "disown", "unlock"}
  <2>1. EndsTo(c, d, e)
    BY <1>8, EndOutcome
  <2>2. MayComplete(c.id) => c.id <= n
    BY <1>4 DEF MayComplete, Known, KnownOn
  <2>3. \/ MayComplete(c.id) /\ \E y : WritesTx(c, d, y)
        \/ WritesTx(c, d, NoTx) \/ d.tx = dev.tx \/ FailsTo(c, d, e)
    BY <2>1 DEF EndsTo, Became
  <2> QED BY <1>2, <1>3, <1>5, <2>2, <2>3, EmptyTransaction
<1>9. CASE c.at = "install"
  <2>1. c.release \in Versions
    BY <1>9 DEF Command, Versions
  <2>2. InstallsTo(c, d, e)
    BY <1>9, <2>1, InstallOutcome
  <2> QED BY <1>5, <2>2 DEF InstallsTo, Became
<1> QED BY <1>6, <1>7, <1>8, <1>9 DEF Answered, Command, CommandSteps

\* A step of a command leaves the modem recoverable, and the command with what it relies on.
LEMMA OutcomeSafe ==
  ASSUME InstallerConstants, dev \in Modem, NEW c \in Command, NEW h \in [Ids -> [Targets -> Versions]], ~Answered(c),
         ModemInv(dev, h), CommandInv(dev, h, c), c.at = "install" => c.release # None,
         NEW d, NEW e, d = Outcome(c).dev, e = Outcome(c).cmd
  PROVE  ModemInv(d, h) /\ CommandInv(d, h, e)
<1>1. CASE c.at \in BeginSteps
  BY <1>1, BeginOutcome, BeginSafe
<1>2. CASE c.at \in {"restore", "put back"}
  BY <1>2, RestoreOutcome, RestoreSafe
<1>3. CASE c.at \in {"complete", "discard", "erase", "unmark", "disown", "unlock"}
  BY <1>3, EndOutcome, EndSafe
<1>4. CASE c.at = "install"
  <2>1. c.release \in Versions
    BY <1>4 DEF Command, Versions
  <2>2. InstallsTo(c, d, e)
    BY <1>4, <2>1, InstallOutcome
  <2> QED BY <1>4, <2>2, InstallSafe
<1> QED BY <1>1, <1>2, <1>3, <1>4 DEF Answered, Command, CommandSteps

(***************************************************************************)
(* The steps of the commands on the modem.                                 *)
(***************************************************************************)
\* What the proofs below use of the invariant about a command that runs.
LEMMA RunningCommand ==
  ASSUME InstallerConstants, TypeOK, OperationInv, NEW c \in orphans \cup {cmd}, c # None
  PROVE  /\ dev \in Modem /\ c \in Command /\ history.files \in [Ids -> [Targets -> Versions]] /\ begun \in Nat
         /\ c.at \in BeginSteps => c.id <= begun
         /\ c.at = "install" => c.release # None
BY DEF TypeOK, OperationInv, CommandsInv

\* A step of the command the installer waits for.
LEMMA CommandStepSafe ==
  ASSUME InstallerConstants, TypeOK, OperationInv, SafeInv, CommandStep, ~late
  PROVE  SafeInv'
<1> DEFINE h == history.files
<1>1. /\ cmd # None /\ ~Answered(cmd) /\ cmd \in Command /\ dev \in Modem /\ h \in [Ids -> [Targets -> Versions]]
      /\ dev' = Outcome(cmd).dev /\ cmd' = Outcome(cmd).cmd
      /\ orphans' = orphans /\ worker' = worker /\ history' = history /\ begun' = begun /\ begun \in Nat
      /\ cmd.at \in BeginSteps => cmd.id <= begun
      /\ cmd.at = "install" => cmd.release # None
  BY RunningCommand DEF CommandStep, Host
<1>2. /\ ModemInv(dev, h) /\ FreshInv(dev, begun) /\ AloneInv /\ WorkerInv /\ UndoInv /\ CompleteInv
      /\ CommandInv(dev, h, cmd)
  BY <1>1 DEF SafeInv
<1>3. ModemInv(dev', h) /\ CommandInv(dev', h, cmd')
  BY <1>1, <1>2, OutcomeSafe
<1>4. FreshInv(dev', begun)
  BY <1>1, <1>2, OutcomeFresh
<1>5. orphans = {}
  BY <1>1, <1>2 DEF AloneInv, Answered
<1>6. cmd' \in Command /\ cmd'.id = cmd.id /\ cmd'.release = cmd.release
  BY <1>1, OutcomeType
<1>7. cmd' # None
  BY <1>6 DEF InstallerConstants
<1>8. WorkerInv'
  <2>1. CASE worker.at = "begun"
    <3>1. cmd.at \in BeginSteps /\ cmd.id = worker.id
      BY <1>1, <1>2, <2>1 DEF WorkerInv, Answered
    <3>2. BeginsTo(cmd, dev', cmd')
      BY <1>1, <3>1, BeginOutcome
    <3>3. cmd'.at \in BeginSteps \cup {"ok", "fail"}
      BY <3>2 DEF BeginsTo, FailsTo, Went, BeginSteps
    <3>4. cmd'.at = "ok" => cmd.at = "sync" /\ dev' = dev
      BY <3>2 DEF BeginsTo, FailsTo, Went
    <3>5. cmd'.at = "ok" => Owns'
      BY <1>1, <1>2, <3>1, <3>4 DEF CommandInv, Owns, KnownOn
    <3> QED BY <1>1, <1>6, <1>7, <2>1, <3>1, <3>3, <3>5 DEF WorkerInv
  <2>2. CASE worker.at = "deployed"
    <3>1. /\ cmd.at = "install" /\ cmd.id = worker.id /\ cmd.release = worker.release
          /\ Owns /\ PutBefore /\ worker.phase \in DOMAIN Phases
          /\ \A t \in Writes[Phases[worker.phase]] \ cmd.todo : dev.files[t] = worker.release
      BY <1>1, <1>2, <2>2 DEF WorkerInv, Answered
    <3>2. cmd.release \in Versions
      BY <1>1, <3>1 DEF Command, Versions
    <3>3. InstallsTo(cmd, dev', cmd')
      BY <1>1, <3>1, <3>2, InstallOutcome
    <3>4. /\ dev'.tx = dev.tx /\ dev'.active = dev.active /\ cmd'.at \in {"install", "ok"}
          /\ cmd'.at = "ok" => cmd.todo = {} /\ dev' = dev
          /\ cmd'.at = "install" => \E t \in cmd.todo :
               cmd'.todo = cmd.todo \ {t} /\ dev'.files = [dev.files EXCEPT ![t] = cmd.release]
      <4>1. Installing(cmd, dev', cmd')
        BY <1>1, <1>2, <3>1, <3>3, InstallSafe
      <4> QED BY <4>1 DEF Installing
    <3>5. Owns'
      BY <1>1, <3>1, <3>4 DEF Owns, KnownOn
    <3>6. CASE cmd'.at = "ok"
      <4>1. PutBefore' /\ Put(worker.phase)'
        BY <1>1, <3>1, <3>4, <3>6 DEF PutBefore, Put
      <4> QED BY <1>1, <1>7, <2>2, <3>1, <3>5, <3>6, <4>1 DEF WorkerInv
    <3>7. CASE cmd'.at = "install"
      <4>1. PICK t \in cmd.todo : cmd'.todo = cmd.todo \ {t} /\ dev'.files = [dev.files EXCEPT ![t] = cmd.release]
        BY <3>4, <3>7
      <4>2. dev.files \in [Targets -> Versions] /\ t \in Targets
        BY <1>1, <4>1 DEF Modem, Command
      <4>3. dev'.files[t] = worker.release /\ \A u \in Targets : u # t => dev'.files[u] = dev.files[u]
        BY <3>1, <4>1, <4>2
      <4>4. \A n \in DOMAIN Phases : Writes[Phases[n]] \subseteq Targets
        BY DEF InstallerConstants
      <4>5. PutBefore'
        BY <1>1, <3>1, <4>3, <4>4 DEF PutBefore, Put
      <4>6. \A u \in Writes[Phases[worker.phase]] \ cmd'.todo : dev'.files[u] = worker.release
        BY <3>1, <4>1, <4>3, <4>4
      <4> QED BY <1>1, <1>6, <1>7, <2>2, <3>1, <3>5, <3>7, <4>5, <4>6 DEF WorkerInv
    <3> QED BY <3>4, <3>6, <3>7
  <2>3. worker.at # "deploy"
    BY <1>1, <1>2 DEF WorkerInv
  <2>4. CASE worker.at \notin {"begun", "deployed"}
    BY <1>1, <2>3, <2>4 DEF WorkerInv
  <2> QED BY <2>1, <2>2, <2>4
<1>9. UndoInv'
  <2>1. CASE worker.at \in {"undone", "recovering"}
    <3>1. /\ cmd.at \in UndoSteps \ {"ok", "fail"} /\ cmd.id = worker.id
          /\ cmd.at \in {"erase", "unmark", "disown", "unlock"} => dev.files = h[worker.id]
      BY <1>1, <1>2, <2>1 DEF UndoInv, Answered
    <3>2. CASE cmd.at \in {"restore", "put back"}
      <4>1. cmd'.at \in {"put back", "unmark", "fail"} /\ (cmd'.at = "unmark" => dev'.files = h[cmd.id])
        <5>1. RestoresTo(cmd, dev', cmd')
          BY <1>1, <3>2, RestoreOutcome
        <5>2. Restoring(cmd, dev', cmd', h)
          BY <1>1, <1>2, <3>2, <5>1, RestoreSafe
        <5> QED BY <5>2 DEF Restoring
      <4> QED BY <1>1, <1>6, <1>7, <3>1, <4>1 DEF UndoInv, UndoSteps
    <3>3. CASE cmd.at \in {"discard", "erase", "unmark", "disown", "unlock"}
      <4>1. /\ dev'.files = dev.files /\ cmd'.at \in {"unmark", "erase", "disown", "unlock", "ok", "fail"}
            /\ cmd'.at = "erase" => dev'.files = h[cmd.id]
            /\ cmd.at = "discard" => cmd'.at \in {"erase", "fail"}
            /\ cmd'.at = "ok" => dev'.active = 0
        BY <1>1, <1>2, <3>3, EndOutcome, EndSafe
      <4> QED BY <1>1, <1>6, <1>7, <3>1, <3>3, <4>1 DEF UndoInv, UndoSteps
    <3> QED BY <3>1, <3>2, <3>3 DEF UndoSteps
  <2>2. CASE worker.at \notin {"undone", "recovering"}
    BY <1>1, <2>2 DEF UndoInv
  <2> QED BY <2>1, <2>2
<1>10. CompleteInv'
  <2>1. CASE worker.at = "completed"
    <3>1. cmd.at \in {"complete", "unmark", "disown", "unlock"} /\ dev.files = Uniform(worker.release)
      BY <1>1, <1>2, <2>1 DEF CompleteInv, Answered
    <3>2. /\ dev'.files = dev.files /\ cmd'.at \in {"unmark", "erase", "disown", "unlock", "ok", "fail"}
          /\ cmd.at # "discard" => cmd'.at # "erase"
          /\ cmd'.at = "ok" => dev'.active = 0
      BY <1>1, <1>2, <3>1, EndOutcome, EndSafe
    <3> QED BY <1>1, <1>7, <3>1, <3>2 DEF CompleteInv
  <2>2. CASE worker.at # "completed"
    BY <1>1, <2>2 DEF CompleteInv
  <2> QED BY <2>1, <2>2
<1>11. AloneInv'
  BY <1>1, <1>5 DEF AloneInv
<1> QED BY <1>1, <1>3, <1>4, <1>5, <1>8, <1>9, <1>10, <1>11 DEF SafeInv

\* A command at "fail" relies on nothing.
LEMMA FailedRelies ==
  ASSUME NEW d, NEW h, NEW c, c.at = "fail"
  PROVE  CommandInv(d, h, c)
BY DEF CommandInv, BeginSteps

\* While the installer waits for a command that failed, what the modem does breaks none of its trust.
LEMMA NothingAwaited ==
  ASSUME SafeInv, ~late, worker' = worker, history' = history, cmd' = None \/ cmd'.at = "fail",
         worker.at \in {"begun", "deployed", "undone", "recovering", "completed"} => cmd' # None,
         worker.at \in {"begun", "undone", "recovering"} => cmd'.id = cmd.id,
         worker.at # "deploy"
  PROVE  WorkerInv' /\ UndoInv' /\ CompleteInv'
<1>1. WorkerInv /\ UndoInv /\ CompleteInv
  BY DEF SafeInv
<1>2. WorkerInv'
  BY <1>1 DEF WorkerInv
<1>3. UndoInv'
  BY <1>1 DEF UndoInv, UndoSteps
<1>4. CompleteInv'
  BY <1>1 DEF CompleteInv
<1> QED BY <1>2, <1>3, <1>4

\* A command the installer gave up on goes on alone.
LEMMA OrphanStepSafe ==
  ASSUME InstallerConstants, TypeOK, OperationInv, SafeInv, OrphanStep, ~late
  PROVE  SafeInv'
<1> DEFINE h == history.files
<1>1. PICK c \in orphans :
        /\ dev' = Outcome(c).dev
        /\ orphans' = (orphans \ {c}) \cup (IF Answered(Outcome(c).cmd) THEN {} ELSE {Outcome(c).cmd})
        /\ UNCHANGED <<cmd, Host, budget>>
  BY DEF OrphanStep
<1>2. cmd' = cmd /\ worker' = worker /\ history' = history /\ begun' = begun
  BY <1>1 DEF Host
<1>3. /\ ModemInv(dev, h) /\ FreshInv(dev, begun) /\ AloneInv /\ WorkerInv /\ CommandInv(dev, h, c)
  BY DEF SafeInv
<1>4. c \in Command /\ c # None
  BY DEF TypeOK, InstallerConstants
<1>5. /\ dev \in Modem /\ h \in [Ids -> [Targets -> Versions]] /\ begun \in Nat
      /\ c.at \in BeginSteps => c.id <= begun
      /\ c.at = "install" => c.release # None
  BY <1>4, RunningCommand
<1>6. ~Answered(c) /\ orphans = {c} /\ (cmd = None \/ cmd.at = "fail")
  BY <1>3 DEF AloneInv, OperationInv, CommandsInv
<1>7. ModemInv(dev', h) /\ CommandInv(dev', h, Outcome(c).cmd)
  BY <1>1, <1>3, <1>4, <1>5, <1>6, OutcomeSafe
<1>8. FreshInv(dev', begun)
  BY <1>1, <1>3, <1>4, <1>5, <1>6, OutcomeFresh
<1>9. orphans' = {} \/ (orphans' = {Outcome(c).cmd} /\ ~Answered(Outcome(c).cmd))
  BY <1>1, <1>6
<1>10. AloneInv'
  BY <1>2, <1>6, <1>9 DEF AloneInv
<1>11. worker.at # "deploy"
  BY <1>3, <1>6 DEF WorkerInv
<1>12. worker.at \in {"begun", "deployed", "undone", "recovering", "completed"} => cmd # None
  BY DEF SafeInv, WorkerInv, UndoInv, CompleteInv
<1>13. WorkerInv' /\ UndoInv' /\ CompleteInv'
  BY <1>2, <1>6, <1>11, <1>12, NothingAwaited
<1>14. cmd' # None => CommandInv(dev', h, cmd')
  BY <1>2, <1>6, FailedRelies
<1> QED BY <1>2, <1>7, <1>8, <1>9, <1>10, <1>13, <1>14 DEF SafeInv

\* The installer is told that its command failed: it failed, was given up, or the power was lost.
LEMMA CommandEndsSafe ==
  ASSUME InstallerConstants, TypeOK, OperationInv, SafeInv, ~late, CommandFails \/ CommandAbandoned \/ PowerLoss
  PROVE  SafeInv'
<1> DEFINE h == history.files
<1>1. /\ worker' = worker /\ history' = history /\ begun' = begun
      /\ cmd # None => /\ cmd' = [cmd EXCEPT !.at = "fail"]
                       /\ cmd.at # "fail" \/ PowerLoss
      /\ cmd = None => cmd' = None /\ PowerLoss
  BY DEF CommandFails, CommandAbandoned, PowerLoss, Failures, Failed, Unlocks, Host, Answered
<1>2. /\ ModemInv(dev, h) /\ FreshInv(dev, begun) /\ AloneInv /\ WorkerInv
      /\ cmd # None => CommandInv(dev, h, cmd)
      /\ \A c \in orphans : CommandInv(dev, h, c)
      /\ worker.at \in {"begun", "deployed", "undone", "recovering", "completed"} => cmd # None
  BY DEF SafeInv, WorkerInv, UndoInv, CompleteInv
<1>3. cmd # None => Went(cmd, cmd', "fail", cmd.todo)
  <2>1. cmd # None => cmd \in Command
    BY DEF TypeOK
  <2>2. "fail" \in CommandSteps
    BY DEF CommandSteps
  <2>3. cmd # None => Went(cmd, [cmd EXCEPT !.at = "fail"], "fail", cmd.todo)
    BY <2>1, <2>2, CommandUpdates
  <2> QED BY <1>1, <2>3
<1>4. cmd' = None \/ cmd'.at = "fail"
  BY <1>1, <1>3 DEF Went
<1>5. cmd' # None => CommandInv(dev', h, cmd')
  BY <1>4, FailedRelies
<1>6. cmd # None => cmd' # None /\ cmd'.id = cmd.id
  BY <1>3 DEF Went, InstallerConstants
<1>7. CASE worker.at # "deploy"
  <2>1. WorkerInv' /\ UndoInv' /\ CompleteInv'
    <3>1. worker.at \in {"begun", "undone", "recovering"} => cmd'.id = cmd.id
      BY <1>2, <1>6
    <3>2. worker.at \in {"begun", "deployed", "undone", "recovering", "completed"} => cmd' # None
      BY <1>2, <1>6
    <3> QED BY <1>1, <1>4, <1>7, <3>1, <3>2, NothingAwaited
  <2>2. CASE CommandFails
    <3>1. orphans = {} /\ orphans' = {} /\ cmd \in Command /\ dev \in Modem /\ cmd # None
      BY <1>2, <2>2 DEF CommandFails, AloneInv, Answered, TypeOK
    <3>2. PICK f \in Failures(cmd) : dev' = f.dev /\ cmd' = f.cmd
      BY <2>2 DEF CommandFails
    <3>3. FailsTo(cmd, dev', cmd')
      BY <3>1, <3>2, FaultOutcome
    <3>4. ModemInv(dev', h)
      BY <1>2, <3>1, <3>3, FailSafe
    <3>5. FreshInv(dev', begun)
      <4>1. CASE ~Trapped(cmd)
        BY <1>2, <3>3, <4>1 DEF FailsTo, FreshInv, Became
      <4>2. CASE Trapped(cmd)
        <5>1. dev'.tx = [dev.tx EXCEPT ![cmd.id] = NoTx] /\ dev.tx \in [Ids -> Transaction]
          BY <3>1, <3>3, <4>2 DEF FailsTo, Became, Modem, Trapped
        <5> QED BY <1>2, <5>1, EmptyTransaction DEF FreshInv
      <4> QED BY <4>1, <4>2
    <3>6. AloneInv'
      BY <3>1 DEF AloneInv
    <3> QED BY <1>1, <1>5, <2>1, <3>1, <3>4, <3>5, <3>6 DEF SafeInv
  <2>3. CASE CommandAbandoned
    <3>1. dev' = dev /\ cmd # None /\ orphans = {} /\ orphans' = IF Answered(cmd) THEN {} ELSE {cmd}
      BY <1>2, <2>3 DEF CommandAbandoned, Orphaned, AloneInv
    <3>2. AloneInv'
      BY <1>4, <3>1 DEF AloneInv
    <3> QED BY <1>1, <1>2, <1>5, <2>1, <3>1, <3>2 DEF SafeInv
  <2>4. CASE PowerLoss
    <3>1. dev' = dev /\ orphans' = {}
      BY <2>4 DEF PowerLoss
    <3>2. AloneInv'
      BY <3>1 DEF AloneInv
    <3> QED BY <1>1, <1>2, <1>5, <2>1, <3>1, <3>2 DEF SafeInv
  <2> QED BY <2>2, <2>3, <2>4
<1>8. CASE worker.at = "deploy"
  BY <1>1, <1>2, <1>8 DEF WorkerInv, PowerLoss
<1> QED BY <1>7, <1>8

(***************************************************************************)
(* The steps of the installer.                                             *)
(***************************************************************************)
\* The steps of an operation that wait for a command or trust one.
Trusting == {"begun", "deploy", "deployed", "completed", "undone", "recovering"}

\* A step that leaves the modem and its commands alone, to where no command is trusted.
LEMMA HostStepSafe ==
  ASSUME SafeInv, cmd' = cmd, orphans' = orphans, late' = late, begun' = begun,
         dev'.files = dev.files, dev'.tx = dev.tx, dev'.lock = dev.lock, dev'.active = dev.active,
         history'.files = history.files, worker' = worker \/ worker'.at \notin Trusting
  PROVE  SafeInv'
<1> SUFFICES ASSUME ~late PROVE SafeInv'
  BY DEF SafeInv
<1> DEFINE h == history.files
<1>1. ModemInv(dev', h)
  BY DEF SafeInv, ModemInv, KnownOn, Leads
<1>2. FreshInv(dev', begun) /\ AloneInv'
  BY DEF SafeInv, FreshInv, AloneInv
<1>3. ASSUME NEW c, CommandInv(dev, h, c)
      PROVE  CommandInv(dev', h, c)
  BY <1>3 DEF CommandInv, KnownOn
<1>4. WorkerInv' /\ UndoInv' /\ CompleteInv'
  <2>1. CASE worker' = worker
    <3>1. WorkerInv /\ UndoInv /\ CompleteInv
      BY DEF SafeInv
    <3>2. WorkerInv'
      BY <2>1, <3>1 DEF WorkerInv, Owns, KnownOn, PutBefore, Put
    <3>3. UndoInv'
      BY <2>1, <3>1 DEF UndoInv
    <3>4. CompleteInv'
      BY <2>1, <3>1 DEF CompleteInv
    <3> QED BY <3>2, <3>3, <3>4
  <2>2. CASE worker'.at \notin Trusting
    BY <2>2 DEF Trusting, WorkerInv, UndoInv, CompleteInv
  <2> QED BY <2>1, <2>2
<1> QED BY <1>1, <1>2, <1>3, <1>4 DEF SafeInv

\* A step in which the installer takes the answer of a command, to where no command is trusted.
LEMMA AnswerSafe ==
  ASSUME SafeInv, dev' = dev, cmd' = None, late' = late, begun' = begun, history' = history,
         worker'.at \notin Trusting,
         \/ orphans' = orphans
         \/ orphans' = {}
         \/ ~late /\ cmd # None /\ ~Answered(cmd) /\ orphans' = orphans \cup {cmd}
  PROVE  SafeInv'
<1> SUFFICES ASSUME ~late PROVE SafeInv'
  BY DEF SafeInv
<1>1. ModemInv(dev, history.files) /\ FreshInv(dev, begun) /\ AloneInv
  BY DEF SafeInv
<1>2. \A c \in orphans' : CommandInv(dev, history.files, c)
  BY DEF SafeInv
<1>3. AloneInv'
  BY <1>1 DEF AloneInv, Answered
<1>4. WorkerInv' /\ UndoInv' /\ CompleteInv'
  BY DEF Trusting, WorkerInv, UndoInv, CompleteInv
<1> QED BY <1>1, <1>2, <1>3, <1>4 DEF SafeInv

\* A command is started: no other runs, or the step is not followed further.
LEMMA RunSafe ==
  ASSUME InstallerConstants, SafeInv, ~late', dev' = dev, history' = history, begun' = begun, orphans' = orphans,
         NEW op, NEW id, NEW todo, NEW release, Run(op, id, todo, release),
         CommandInv(dev, history.files, [at |-> op, id |-> id, todo |-> todo, release |-> release]),
         WorkerInv' /\ UndoInv' /\ CompleteInv'
  PROVE  SafeInv'
<1>1. ~late /\ orphans = {} /\ cmd' = [at |-> op, id |-> id, todo |-> todo, release |-> release]
  BY DEF Run
<1>2. ModemInv(dev, history.files) /\ FreshInv(dev, begun)
  BY <1>1 DEF SafeInv
<1>3. AloneInv'
  BY <1>1 DEF AloneInv
<1> QED BY <1>1, <1>2, <1>3 DEF SafeInv

\* The steps an operation in progress may be at.
OperationSteps ==
  {"prepare", "read", "download", "export", "prepared", "unlock", "approve", "upload", "wait", "lost",
   "verify", "begin", "begun", "deploy", "deployed", "completed", "undo", "undone", "recover", "recovering"}

\* Outside the idle and the closed application the worker is an operation.
LEMMA InOperation ==
  ASSUME TypeOK, worker.at \notin {"idle", "closed"}
  PROVE  worker \in Operation
BY DEF TypeOK

\* Operation v is w at another step, with this release, transaction and phase.
Moved(w, v, at, release, id, phase) ==
  /\ v \in Operation /\ v.at = at /\ v.release = release /\ v.id = id /\ v.phase = phase
  /\ v.dry = w.dry /\ v.locked = w.locked /\ v.pin = w.pin

\* The step, the release, the transaction or the phase of an operation is written.
LEMMA OperationUpdates ==
  ASSUME NEW w \in Operation
  PROVE  /\ \A s \in OperationSteps :
              Moved(w, [w EXCEPT !.at = s], s, w.release, w.id, w.phase)
         /\ \A s \in OperationSteps : \A r \in Releases \cup {None} :
              Moved(w, [w EXCEPT !.at = s, !.release = r], s, r, w.id, w.phase)
         /\ \A s \in OperationSteps : \A i \in Ids \cup {0} :
              Moved(w, [w EXCEPT !.at = s, !.id = i], s, w.release, i, w.phase)
         /\ \A s \in OperationSteps : \A n \in 1..(Len(Phases) + 2) :
              Moved(w, [w EXCEPT !.at = s, !.phase = n], s, w.release, w.id, n)
         /\ \A n \in 1..(Len(Phases) + 2) :
              Moved(w, [w EXCEPT !.phase = n], w.at, w.release, w.id, n)
<1> USE DEF Operation, OperationSteps, Moved
<1> DEFINE P == 1..(Len(Phases) + 2)
<1> HIDE DEF P
<1>0. w.phase \in P
  BY DEF P
<1>1. ASSUME NEW s \in OperationSteps
      PROVE  Moved(w, [w EXCEPT !.at = s], s, w.release, w.id, w.phase)
  BY <1>0 DEF P
<1>2. ASSUME NEW s \in OperationSteps, NEW r \in Releases \cup {None}
      PROVE  Moved(w, [w EXCEPT !.at = s, !.release = r], s, r, w.id, w.phase)
  BY <1>0 DEF P
<1>3. ASSUME NEW s \in OperationSteps, NEW i \in Ids \cup {0}
      PROVE  Moved(w, [w EXCEPT !.at = s, !.id = i], s, w.release, i, w.phase)
  BY <1>0 DEF P
<1>4. ASSUME NEW s \in OperationSteps, NEW n \in P
      PROVE  Moved(w, [w EXCEPT !.at = s, !.phase = n], s, w.release, w.id, n)
  BY DEF P
<1>5. ASSUME NEW n \in P
      PROVE  Moved(w, [w EXCEPT !.phase = n], w.at, w.release, w.id, n)
  BY DEF P
<1> QED BY <1>1, <1>2, <1>3, <1>4, <1>5 DEF P

\* Goto() moves the operation and changes nothing else of it.
LEMMA GotoMoves ==
  ASSUME TypeOK, worker.at \notin {"idle", "closed"}, NEW s \in OperationSteps, Goto(s)
  PROVE  Moved(worker, worker', s, worker.release, worker.id, worker.phase)
BY InOperation, OperationUpdates DEF Goto

\* There are four phases.
LEMMA PhaseCount == DOMAIN Phases = 1..4 /\ Len(Phases) = 4
BY DEF Phases

\* A transaction is begun with the files as they are.
LEMMA BeginTransactionSafe ==
  ASSUME InstallerConstants, TypeOK, OperationInv, SafeInv, BeginTransaction, ~late'
  PROVE  SafeInv'
<1> DEFINE i == begun + 1
           c == [at |-> "lock", id |-> i, todo |-> Targets, release |-> None]
<1>1. /\ worker.at = "begin" /\ dev' = dev /\ orphans' = orphans /\ begun' = i
      /\ history' = [history EXCEPT !.files[i] = dev.files] /\ cmd' = c
      /\ ~late /\ orphans = {} /\ worker' = [worker EXCEPT !.at = "begun", !.id = i]
  BY DEF BeginTransaction, Run, At
<1>2. i \in Ids /\ begun \in Nat /\ i > begun
  <2>1. begun \in Nat /\ begun < budget.begins /\ budget.begins \in Nat /\ 1..budget.begins \subseteq Ids
    BY <1>1 DEF OperationInv, StepInv, BudgetInv, TypeOK, Early
  <2> QED BY <2>1
<1>3. dev.tx[i].state = "none"
  BY <1>1, <1>2 DEF SafeInv, FreshInv
<1>4. Moved(worker, worker', "begun", worker.release, i, worker.phase)
  <2>1. worker \in Operation
    BY <1>1, InOperation
  <2>2. Moved(worker, [worker EXCEPT !.at = "begun", !.id = i], "begun", worker.release, i, worker.phase)
    BY <1>2, <2>1, OperationUpdates DEF OperationSteps
  <2> QED BY <1>1, <2>2
<1>5. history'.files[i] = dev.files /\ \A j \in Ids : j # i => history'.files[j] = history.files[j]
  <2>1. history \in [files : [Ids -> [Targets -> Versions]], refused : BOOLEAN]
    BY DEF TypeOK
  <2> QED BY <1>1, <1>2, <2>1
<1>6. ModemInv(dev, history'.files)
  <2>1. ModemInv(dev, history.files)
    BY <1>1 DEF SafeInv
  <2> QED BY <1>3, <1>5, <2>1 DEF ModemInv, KnownOn
<1>7. c \in Command /\ c.at = "lock" /\ c.id = i /\ c.todo = Targets
  BY <1>2 DEF Command, CommandSteps, BeginSteps
<1>8. CommandInv(dev, history'.files, c)
  BY <1>3, <1>5, <1>7 DEF CommandInv, BeginSteps
<1>9. FreshInv(dev, i)
  <2>1. FreshInv(dev, begun)
    BY <1>1 DEF SafeInv
  <2>2. \A j \in Ids : j > i => j > begun
    <3>1. begun \in Nat /\ i = begun + 1
      BY <1>2
    <3>2. \A j \in Nat : j > i => j > begun
      <4> HIDE DEF i
      <4> QED BY ONLY <3>1
    <3> QED BY <3>2, IdFacts
  <2> QED BY <2>1, <2>2 DEF FreshInv
<1>10. c # None
  BY <1>7 DEF InstallerConstants
<1> HIDE DEF c, i
<1>11. WorkerInv' /\ UndoInv' /\ CompleteInv' /\ AloneInv'
  BY <1>1, <1>4, <1>7, <1>10 DEF WorkerInv, UndoInv, CompleteInv, AloneInv, Moved, BeginSteps
<1> QED BY <1>1, <1>6, <1>8, <1>9, <1>11 DEF SafeInv

\* A transaction that was begun is the installer's own.
LEMMA BegunSafe ==
  ASSUME InstallerConstants, TypeOK, OperationInv, SafeInv, Begun, ~late'
  PROVE  SafeInv'
<1>1. /\ worker.at = "begun" /\ cmd # None /\ Answered(cmd) /\ cmd' = None
      /\ dev' = dev /\ orphans' = orphans /\ late' = late /\ begun' = begun /\ history' = history
  BY DEF Begun, Awaited, At, Quiet, End
<1>2. CASE End("failed")
  BY <1>1, <1>2, AnswerSafe DEF End, Trusting
<1>3. CASE cmd.at = "ok" /\ Goto("deploy")
  <2>1. Moved(worker, worker', "deploy", worker.release, worker.id, worker.phase)
    BY <1>1, <1>3, GotoMoves DEF OperationSteps
  <2>2. ModemInv(dev, history.files) /\ FreshInv(dev, begun) /\ AloneInv /\ WorkerInv
    BY <1>1 DEF SafeInv
  <2>3. orphans = {} /\ Owns
    BY <1>1, <1>3, <2>2 DEF AloneInv, WorkerInv
  <2>4. worker.phase = 1
    BY <1>1 DEF OperationInv, StepInv
  <2>5. PutBefore'
    BY <2>1, <2>4, PhaseCount DEF PutBefore, Moved
  <2>6. Owns'
    BY <1>1, <2>1, <2>3 DEF Owns, Moved
  <2>7. WorkerInv' /\ UndoInv' /\ CompleteInv' /\ AloneInv'
    BY <1>1, <2>1, <2>3, <2>5, <2>6 DEF WorkerInv, UndoInv, CompleteInv, AloneInv, Moved
  <2> QED BY <1>1, <2>2, <2>3, <2>7 DEF SafeInv
<1> QED BY <1>2, <1>3 DEF Begun

\* A phase replaces targets under the marker of the transaction.
LEMMA PhaseSafe ==
  ASSUME InstallerConstants, TypeOK, OperationInv, SafeInv, NEW n \in DOMAIN Phases, Phase(n), ~late'
  PROVE  SafeInv'
<1> DEFINE c == [at |-> "install", id |-> worker.id, todo |-> Writes[Phases[n]], release |-> worker.release]
<1>1. /\ worker.at = "deploy" /\ worker.phase = n /\ ~late /\ orphans = {} /\ cmd' = c
      /\ dev' = dev /\ orphans' = orphans /\ begun' = begun /\ history' = history
      /\ Run("install", worker.id, Writes[Phases[n]], worker.release) /\ Goto("deployed")
  BY DEF Phase, At, Run, Quiet
<1>2. Moved(worker, worker', "deployed", worker.release, worker.id, worker.phase)
  BY <1>1, GotoMoves DEF OperationSteps
<1>3. Owns /\ PutBefore
  BY <1>1 DEF SafeInv, WorkerInv
<1>4. c.at = "install" /\ c.id = worker.id /\ c.todo = Writes[Phases[n]] /\ c.release = worker.release /\ c # None
  <2>1. worker.id \in Ids /\ worker.release \in Releases \cup {None}
    BY <1>1, InOperation DEF OperationInv, StepInv, Late, Operation
  <2>2. Writes[Phases[n]] \subseteq Targets
    BY DEF InstallerConstants
  <2>3. c \in Command
    BY <2>1, <2>2 DEF Command, CommandSteps
  <2> QED BY <2>3 DEF InstallerConstants
<1>5. CommandInv(dev, history.files, c)
  BY <1>3, <1>4 DEF CommandInv, BeginSteps, Owns
<1>6. Owns' /\ PutBefore'
  BY <1>1, <1>2, <1>3 DEF Owns, PutBefore, Put, Moved
<1>7. WorkerInv' /\ UndoInv' /\ CompleteInv'
  <2> HIDE DEF c
  <2> QED BY <1>1, <1>2, <1>4, <1>6 DEF WorkerInv, UndoInv, CompleteInv, Moved
<1> QED BY <1>1, <1>5, <1>7, RunSafe

\* The targets of a phase that ended well are the release's.
LEMMA PhaseEndsSafe ==
  ASSUME InstallerConstants, TypeOK, OperationInv, SafeInv, NEW n \in DOMAIN Phases, PhaseEnds(n), ~late'
  PROVE  SafeInv'
<1>1. /\ worker.at = "deployed" /\ worker.phase = n /\ cmd # None /\ cmd' = None
      /\ dev' = dev /\ orphans' = orphans /\ late' = late /\ begun' = begun /\ history' = history
  BY DEF PhaseEnds, Awaited, At, Quiet
<1>2. CASE Goto("undo")
  <2>1. worker'.at = "undo"
    BY <1>1, <1>2, GotoMoves DEF OperationSteps, Moved
  <2> QED BY <1>1, <2>1, AnswerSafe DEF Trusting
<1>3. CASE cmd.at = "ok" /\ worker' = [worker EXCEPT !.at = "deploy", !.phase = n + 1]
  <2>1. Moved(worker, worker', "deploy", worker.release, worker.id, n + 1)
    <3>1. worker \in Operation /\ n + 1 \in 1..(Len(Phases) + 2)
      BY <1>1, InOperation, PhaseCount
    <3>2. Moved(worker, [worker EXCEPT !.at = "deploy", !.phase = n + 1], "deploy", worker.release, worker.id, n + 1)
      BY <3>1, OperationUpdates DEF OperationSteps
    <3> QED BY <1>3, <3>2
  <2>2. ModemInv(dev, history.files) /\ FreshInv(dev, begun) /\ AloneInv /\ WorkerInv
    BY <1>1 DEF SafeInv
  <2>3. orphans = {} /\ Owns /\ PutBefore /\ Put(n)
    BY <1>1, <1>3, <2>2 DEF AloneInv, WorkerInv
  <2>4. PutBefore'
    BY <1>1, <2>1, <2>3, PhaseCount DEF PutBefore, Put, Moved
  <2>5. Owns'
    BY <1>1, <2>1, <2>3 DEF Owns, Moved
  <2>6. WorkerInv' /\ UndoInv' /\ CompleteInv' /\ AloneInv'
    BY <1>1, <2>1, <2>3, <2>4, <2>5 DEF WorkerInv, UndoInv, CompleteInv, AloneInv, Moved
  <2> QED BY <1>1, <2>2, <2>3, <2>6 DEF SafeInv
<1> QED BY <1>2, <1>3 DEF PhaseEnds

\* A restart ends whatever still ran, and the installation is verified again or undone.
LEMMA RebootSafe ==
  ASSUME InstallerConstants, TypeOK, OperationInv, SafeInv, Reboot, ~late'
  PROVE  SafeInv'
<1>1. /\ worker.at = "deploy" /\ worker.phase = 5 /\ cmd = None /\ cmd' = None /\ orphans' = {}
      /\ dev' = dev /\ late' = late /\ begun' = begun /\ history' = history
  BY PhaseCount DEF Reboot, At, Quiet
<1>2. CASE Goto("undo")
  <2>1. worker'.at = "undo"
    BY <1>1, <1>2, GotoMoves DEF OperationSteps, Moved
  <2> QED BY <1>1, <2>1, AnswerSafe DEF Trusting
<1>3. CASE worker' = [worker EXCEPT !.phase = @ + 1]
  <2>1. Moved(worker, worker', "deploy", worker.release, worker.id, 6)
    <3>1. worker \in Operation /\ 6 \in 1..(Len(Phases) + 2)
      BY <1>1, InOperation, PhaseCount
    <3>2. Moved(worker, [worker EXCEPT !.phase = 6], "deploy", worker.release, worker.id, 6)
      BY <1>1, <3>1, OperationUpdates
    <3>3. worker' = [worker EXCEPT !.phase = 6]
      BY <1>1, <1>3, <3>1 DEF Operation
    <3> QED BY <3>2, <3>3
  <2>2. ModemInv(dev, history.files) /\ FreshInv(dev, begun) /\ WorkerInv
    BY <1>1 DEF SafeInv
  <2>3. Owns /\ PutBefore
    BY <1>1, <2>2 DEF WorkerInv
  <2>4. Owns' /\ PutBefore'
    BY <1>1, <2>1, <2>3, PhaseCount DEF Owns, PutBefore, Put, Moved
  <2>5. WorkerInv' /\ UndoInv' /\ CompleteInv' /\ AloneInv'
    BY <1>1, <2>1, <2>4 DEF WorkerInv, UndoInv, CompleteInv, AloneInv, Moved
  <2> QED BY <1>1, <2>2, <2>5 DEF SafeInv
<1> QED BY <1>2, <1>3 DEF Reboot

\* After the last phase every target is the release's.
LEMMA AllPut ==
  ASSUME InstallerConstants, TypeOK, PutBefore, worker.at = "deploy", worker.phase > Len(Phases)
  PROVE  dev.files = Uniform(worker.release) /\ (worker.release # None => Whole(dev.files))
<1>1. worker.phase \in Nat /\ worker.release \in Releases \cup {None}
  BY InOperation DEF Operation
<1>2. \A t \in Targets : dev.files[t] = worker.release
  <2>1. ASSUME NEW t \in Targets
        PROVE  dev.files[t] = worker.release
    <3>1. PICK n \in DOMAIN Phases : t \in Writes[Phases[n]]
      BY DEF InstallerConstants
    <3>2. n < worker.phase
      BY <1>1, PhaseCount
    <3> QED BY <3>1, <3>2 DEF PutBefore, Put
  <2> QED BY <2>1
<1>3. dev.files \in [Targets -> Versions]
  BY DEF TypeOK, Modem
<1>4. dev.files = Uniform(worker.release)
  BY <1>2, <1>3 DEF Uniform
<1> QED BY <1>1, <1>4 DEF Whole, Versions

\* The transaction is completed over a complete installation.
LEMMA CompleteSafe ==
  ASSUME InstallerConstants, TypeOK, OperationInv, SafeInv, Complete, ~late'
  PROVE  SafeInv'
<1> DEFINE c == [at |-> "complete", id |-> worker.id, todo |-> {}, release |-> None]
<1>1. /\ worker.at = "deploy" /\ worker.phase > Len(Phases) /\ ~late /\ orphans = {} /\ cmd' = c
      /\ dev' = dev /\ orphans' = orphans /\ begun' = begun /\ history' = history
      /\ Run("complete", worker.id, {}, None) /\ Goto("completed")
  BY DEF Complete, At, Run, Quiet
<1>2. Moved(worker, worker', "completed", worker.release, worker.id, worker.phase)
  BY <1>1, GotoMoves DEF OperationSteps
<1>3. PutBefore /\ worker.release # None
  BY <1>1 DEF SafeInv, WorkerInv, OperationInv, StepInv, Late
<1>4. dev.files = Uniform(worker.release) /\ Whole(dev.files)
  BY <1>1, <1>3, AllPut
<1>5. c.at = "complete" /\ c # None
  <2>1. worker.id \in Ids
    BY <1>1 DEF OperationInv, StepInv, Late
  <2>2. c \in Command
    BY <2>1 DEF Command, CommandSteps
  <2> QED BY <2>2 DEF InstallerConstants
<1>6. CommandInv(dev, history.files, c)
  BY <1>4, <1>5 DEF CommandInv, BeginSteps
<1>7. WorkerInv' /\ UndoInv' /\ CompleteInv'
  <2> HIDE DEF c
  <2> QED BY <1>1, <1>2, <1>4, <1>5 DEF WorkerInv, UndoInv, CompleteInv, Moved
<1> QED BY <1>1, <1>6, <1>7, RunSafe

\* The answer of `complete' ends the installation or has it undone.
LEMMA CompletedSafe ==
  ASSUME InstallerConstants, TypeOK, OperationInv, SafeInv, Completed, ~late'
  PROVE  SafeInv'
<1>1. /\ worker.at = "completed" /\ cmd' = None
      /\ dev' = dev /\ orphans' = orphans /\ late' = late /\ begun' = begun /\ history' = history
  BY DEF Completed, Awaited, At, Quiet, End
<1>2. worker'.at \in {"idle", "undo"}
  <2>1. CASE End("success")
    BY <2>1 DEF End
  <2>2. CASE Goto("undo")
    BY <1>1, <2>2, GotoMoves DEF OperationSteps, Moved
  <2> QED BY <2>1, <2>2 DEF Completed
<1> QED BY <1>1, <1>2, AnswerSafe DEF Trusting

\* A restoration, or the discarding of a preparation, is started.
LEMMA UndoRunSafe ==
  ASSUME InstallerConstants, TypeOK, OperationInv, SafeInv, ~late', NEW op \in {"restore", "discard", "fail"},
         NEW s \in {"undone", "recovering"}, worker.at \in {"undo", "recover"},
         dev' = dev, history' = history, begun' = begun, orphans' = orphans,
         Run(op, worker.id, Targets, None), Goto(s)
  PROVE  SafeInv'
<1> DEFINE c == [at |-> op, id |-> worker.id, todo |-> Targets, release |-> None]
<1>1. Moved(worker, worker', s, worker.release, worker.id, worker.phase)
  BY GotoMoves DEF OperationSteps
<1>2. cmd' = c /\ c.at = op /\ c.id = worker.id /\ c.todo = Targets /\ c # None
  <2>1. worker.id \in Ids
    BY DEF OperationInv, StepInv
  <2>2. c \in Command
    BY <2>1 DEF Command, CommandSteps
  <2> QED BY <2>2 DEF InstallerConstants, Run
<1>3. CommandInv(dev, history.files, c)
  BY <1>2 DEF CommandInv, BeginSteps
<1>4. WorkerInv' /\ UndoInv' /\ CompleteInv'
  <2> HIDE DEF c
  <2> QED BY <1>1, <1>2 DEF WorkerInv, UndoInv, UndoSteps, CompleteInv, Moved
<1> QED BY <1>3, <1>4, RunSafe

\* The application dies: its command goes on alone.
LEMMA KilledSafe ==
  ASSUME SafeInv, Killed, ~late'
  PROVE  SafeInv'
<1>1. /\ dev' = dev /\ cmd' = None /\ late' = late /\ begun' = begun /\ history' = history /\ worker'.at = "closed"
      /\ \/ orphans' = orphans
         \/ cmd # None /\ ~Answered(cmd) /\ orphans' = orphans \cup {cmd}
  BY DEF Killed, Orphaned
<1> QED BY <1>1, AnswerSafe DEF Trusting

(***************************************************************************)
(* Every step keeps the invariant.                                         *)
(***************************************************************************)
\* The parts of TypeOK that the steps change together.
ViewOK ==
  /\ ctl \in Control
  /\ plan \in Finding \cup {None} /\ checked \in Releases \cup {None}
  /\ seen \in [current : BOOLEAN, result : Finding] \cup {None}
  /\ cache \subseteq Releases /\ latest \in Releases
  /\ history \in [files : [Ids -> [Targets -> Versions]], refused : BOOLEAN]
CommandsOK == cmd \in Command \cup {None} /\ orphans \subseteq Command
WorkerOK == worker \in Operation \cup {[at |-> "idle"], [at |-> "closed"]}

\* They are all of TypeOK.
LEMMA TypeParts == TypeOK <=> dev \in Modem /\ CommandsOK /\ WorkerOK /\ ViewOK /\ late \in BOOLEAN /\ begun \in Nat
BY DEF TypeOK, ViewOK, CommandsOK, WorkerOK

\* A failure, a power loss, an abandoned command or a stop is counted.
LEMMA SpendKeeps ==
  ASSUME BudgetInv, NEW what \in {"faults", "losses", "abandons", "stops"}, Spend(what)
  PROVE  BudgetInv' /\ budget'.begins = budget.begins
<1> DEFINE B == [begins : Nat, faults : Nat, losses : Nat, abandons : Nat, stops : Nat, newest : Nat]
<1>1. budget \in B /\ budget[what] > 0 /\ budget' = [budget EXCEPT ![what] = @ - 1]
  BY DEF BudgetInv, Spend
<1>2. budget[what] - 1 \in Nat
  BY <1>1
<1>3. budget' \in B /\ budget'.begins = budget.begins
  BY <1>1, <1>2
<1> QED BY <1>3 DEF BudgetInv

\* A step that changes neither the modem's transactions nor the commands.
LEMMA HostStep ==
  ASSUME DeployInv, UNCHANGED <<cmd, orphans, late, begun>>, BudgetInv', budget'.begins = budget.begins,
         dev' \in Modem, dev'.files = dev.files, dev'.tx = dev.tx, dev'.lock = dev.lock, dev'.active = dev.active,
         ViewOK', history'.files = history.files,
         worker' = worker \/ (WorkerOK' /\ worker'.at \notin Trusting /\ StepInv')
  PROVE  DeployInv'
<1>1. SafeInv'
  BY HostStepSafe DEF DeployInv
<1>2. WorkerOK'
  BY TypeParts DEF DeployInv, WorkerOK
<1>3. CommandsOK' /\ late' \in BOOLEAN /\ begun' \in Nat
  BY TypeParts DEF DeployInv, CommandsOK
<1>4. TypeOK'
  BY <1>2, <1>3 DEF TypeOK, ViewOK, CommandsOK, WorkerOK
<1>5. StepInv'
  BY DEF DeployInv, OperationInv, StepInv
<1>6. CommandsInv'
  BY DEF DeployInv, OperationInv, CommandsInv
<1> QED BY <1>1, <1>4, <1>5, <1>6 DEF DeployInv, OperationInv

\* The same, with the modem and the budget as they were.
LEMMA QuietStep ==
  ASSUME DeployInv, UNCHANGED <<Device, budget>>, ViewOK', history'.files = history.files,
         worker' = worker \/ (WorkerOK' /\ worker'.at \notin Trusting /\ StepInv')
  PROVE  DeployInv'
<1>1. BudgetInv' /\ budget'.begins = budget.begins
  BY DEF DeployInv, OperationInv, BudgetInv
<1>2. dev' = dev /\ UNCHANGED <<cmd, orphans, late, begun>> /\ dev \in Modem
  BY DEF Device, DeployInv, TypeOK
<1> QED BY <1>1, <1>2, HostStep

\* Outside an operation nothing is required of it.
LEMMA NoOperation ==
  ASSUME worker' \in {[at |-> "idle"], [at |-> "closed"]}
  PROVE  WorkerOK' /\ worker'.at \notin Trusting /\ StepInv'
BY DEF WorkerOK, Trusting, StepInv, Early, Late

\* The flags of Control are set one by one.
LEMMA ControlSteps ==
  ASSUME ctl \in Control
  PROVE  /\ FinishControl => ctl' \in Control
         /\ StartControl => ctl' \in Control
         /\ EnterCritical => ctl' \in Control
<1>1. FinishControl => ctl' \in Control
  BY DEF FinishControl, Control
<1>2. StartControl => ctl' \in Control
  BY DEF StartControl, Control
<1>3. EnterCritical => ctl' \in Control
  BY DEF EnterCritical, Control
<1> QED BY <1>1, <1>2, <1>3

\* The end of an operation.
LEMMA EndView ==
  ASSUME TypeOK, worker.at \notin {"idle", "closed"}, NEW outcome, End(outcome)
  PROVE  ViewOK' /\ history' = history /\ worker' = [at |-> "idle"]
<1>1. worker.release \in Releases \cup {None}
  BY InOperation DEF Operation
<1>2. ctl' \in Control
  BY ControlSteps DEF TypeOK, End
<1> QED BY <1>1, <1>2 DEF End, ViewOK, TypeOK

\* The operation ends with nothing asked of the modem.
LEMMA EndStep ==
  ASSUME DeployInv, UNCHANGED <<Device, budget>>, worker.at \notin {"idle", "closed"}, NEW outcome, End(outcome)
  PROVE  DeployInv'
BY EndView, NoOperation, QuietStep DEF DeployInv

\* The operation goes on before the transaction begins.
LEMMA EarlyStep ==
  ASSUME DeployInv, UNCHANGED <<Device, budget>>, worker.at \in Early \ {"prepare"},
         NEW s \in Early \ {"prepare"}, Goto(s), s = "begin" => ~worker.dry, ViewOK', history'.files = history.files
  PROVE  DeployInv'
<1>1. Moved(worker, worker', s, worker.release, worker.id, worker.phase)
  BY GotoMoves DEF DeployInv, OperationSteps, Early
<1>2. begun' = begun /\ budget' = budget
  BY DEF Device
<1>3. StepInv'
  BY <1>1, <1>2 DEF DeployInv, OperationInv, StepInv, Early, Late, Moved
<1>4. WorkerOK' /\ worker'.at \notin Trusting
  BY <1>1 DEF WorkerOK, Moved, Trusting, Early
<1> QED BY <1>3, <1>4, QuietStep

\* What the user sees keeps its types when it is left alone.
LEMMA QuietView ==
  ASSUME TypeOK, Quiet, ctl' \in Control
  PROVE  ViewOK' /\ history' = history
BY DEF TypeOK, ViewOK, Quiet, View

\* What a detection finds is of its kind.
LEMMA DetectedIs ==
  ASSUME InstallerConstants, dev \in Modem
  PROVE  /\ Detected \in Finding
         /\ Inspected \in [kind : {"none", "invalid"}, id : {0}] \cup [kind : {"pending", "incomplete"}, id : Ids]
<1>1. dev.active \in Ids \cup {0} /\ dev.lock \in Ids \cup {Free, Unowned}
  BY DEF Modem
<1>2. Inspected \in [kind : {"none", "invalid"}, id : {0}] \cup [kind : {"pending", "incomplete"}, id : Ids]
  BY <1>1 DEF Inspected
<1> QED BY <1>2 DEF Detected, Finding

\* The user's requests, detections, and the world outside.
LEMMA UserStep ==
  ASSUME InstallerConstants, DeployInv,
         \/ Stop \/ (\E a \in BOOLEAN : Confirm(a)) \/ DetectBegins \/ DetectEnds \/ Invalidate
         \/ Published \/ Closed \/ Reopened
  PROVE  DeployInv'
<1> USE DEF DeployInv
<1>1. CASE Stop
  <2>1. BudgetInv' /\ budget'.begins = budget.begins
    BY <1>1, SpendKeeps DEF Stop, OperationInv
  <2>2. ViewOK' /\ history'.files = history.files
    <3>1. history \in [files : [Ids -> [Targets -> Versions]], refused : BOOLEAN]
      BY DEF TypeOK
    <3>2. history' = [history EXCEPT !.refused = ctl.running] /\ ctl' = [ctl EXCEPT !.stopped = TRUE]
      BY <1>1 DEF Stop
    <3>3. ctl.running \in BOOLEAN /\ ctl' \in Control
      BY <3>2 DEF TypeOK, Control
    <3>4. history' \in [files : [Ids -> [Targets -> Versions]], refused : BOOLEAN] /\ history'.files = history.files
      BY <3>1, <3>2, <3>3
    <3> QED BY <1>1, <3>3, <3>4 DEF Stop, View, ViewOK, TypeOK
  <2>3. dev' = dev /\ UNCHANGED <<cmd, orphans, late, begun>> /\ dev \in Modem /\ worker' = worker
    BY <1>1 DEF Stop, Device, TypeOK
  <2> QED BY <2>1, <2>2, <2>3, HostStep
<1>2. ASSUME NEW a \in BOOLEAN, Confirm(a)
      PROVE  DeployInv'
  <2>1. ctl' \in Control
    BY <1>2 DEF Confirm, TypeOK, Control
  <2>2. ViewOK'
    BY <1>2, <2>1 DEF Confirm, View, ViewOK, TypeOK
  <2> QED BY <1>2, <2>2, QuietStep DEF Confirm
<1>3. CASE DetectBegins
  <2>1. Detected \in Finding
    BY DetectedIs DEF TypeOK
  <2>2. ViewOK'
    BY <1>3, <2>1 DEF DetectBegins, ViewOK, TypeOK
  <2> QED BY <1>3, <2>2, QuietStep DEF DetectBegins
<1>4. CASE DetectEnds
  <2>1. ViewOK'
    BY <1>4 DEF DetectEnds, ViewOK, TypeOK
  <2> QED BY <1>4, <2>1, QuietStep DEF DetectEnds
<1>5. CASE Invalidate
  <2>1. ViewOK'
    BY <1>5 DEF Invalidate, ViewOK, TypeOK
  <2> QED BY <1>5, <2>1, QuietStep DEF Invalidate
<1>6. CASE Published
  <2>1. ViewOK'
    BY <1>6 DEF Published, View, ViewOK, TypeOK
  <2> QED BY <1>6, <2>1, QuietStep DEF Published
<1>7. CASE Closed
  <2>1. ViewOK'
    BY <1>7 DEF Closed, ViewOK, TypeOK
  <2> QED BY <1>7, <2>1, NoOperation, QuietStep DEF Closed
<1>8. CASE Reopened
  BY <1>8, QuietView, NoOperation, QuietStep DEF Reopened, TypeOK
<1> QED BY <1>1, <1>2, <1>3, <1>4, <1>5, <1>6, <1>7, <1>8

\* An installation or a recovery starts.
LEMMA StartStep ==
  ASSUME InstallerConstants, DeployInv, (\E dry \in BOOLEAN : InstallStarts(dry)) \/ Recover
  PROVE  DeployInv'
<1> USE DEF DeployInv
<1>1. ASSUME StartControl, UNCHANGED View, UNCHANGED latest
      PROVE  ViewOK' /\ history'.files = history.files
  <2>1. history \in [files : [Ids -> [Targets -> Versions]], refused : BOOLEAN]
    BY DEF TypeOK
  <2>2. history' = [history EXCEPT !.refused = FALSE]
    BY <1>1 DEF StartControl
  <2>3. history' \in [files : [Ids -> [Targets -> Versions]], refused : BOOLEAN] /\ history'.files = history.files
    BY <2>1, <2>2
  <2>4. ctl' \in Control
    BY <1>1, ControlSteps DEF TypeOK
  <2> QED BY <1>1, <2>3, <2>4 DEF View, ViewOK, TypeOK
<1>2. ASSUME NEW dry \in BOOLEAN, InstallStarts(dry)
      PROVE  DeployInv'
  <2>1. plan \in Finding /\ checked \in Releases \cup {None} /\ (dry \/ checked # None) /\ begun < budget.begins
    BY <1>2 DEF InstallStarts, Valid, TypeOK
  <2>2. plan.locked \in BOOLEAN
    BY <2>1 DEF Finding
  <2>3. worker' = [at |-> "prepare", dry |-> dry, locked |-> plan.locked, pin |-> IF dry THEN None ELSE checked,
                   release |-> None, id |-> 0, phase |-> 1]
    BY <1>2 DEF InstallStarts
  <2>4. /\ worker' \in Operation /\ worker'.at = "prepare" /\ worker'.dry = dry /\ worker'.phase = 1
        /\ worker'.pin = IF dry THEN None ELSE checked
    BY <2>1, <2>2, <2>3, PhaseCount DEF Operation
  <2>5. begun' = begun /\ budget' = budget
    BY <1>2 DEF InstallStarts, Device
  <2>6. StepInv'
    BY <2>1, <2>4, <2>5 DEF StepInv, Early, Late
  <2>7. WorkerOK' /\ worker'.at \notin Trusting
    BY <2>4 DEF WorkerOK, Trusting
  <2> QED BY <1>1, <1>2, <2>6, <2>7, QuietStep DEF InstallStarts
<1>3. CASE Recover
  <2>1. plan \in Finding /\ plan.found.kind \in {"pending", "incomplete"}
    BY <1>3 DEF Recover, TypeOK
  <2>2. plan.found.id \in Ids
    BY <2>1 DEF Finding
  <2>3. worker' = [at |-> "recover", dry |-> FALSE, locked |-> FALSE, pin |-> None, release |-> None,
                   id |-> plan.found.id, phase |-> 1]
    BY <1>3 DEF Recover
  <2>4. worker' \in Operation /\ worker'.at = "recover" /\ worker'.id = plan.found.id
    BY <2>2, <2>3, PhaseCount DEF Operation
  <2>5. StepInv' /\ WorkerOK' /\ worker'.at \notin Trusting
    BY <2>2, <2>4 DEF StepInv, WorkerOK, Early, Late, Trusting
  <2> QED BY <1>1, <1>3, <2>5, QuietStep DEF Recover
<1> QED BY <1>2, <1>3

\* The release is the one that was checked.
LEMMA PrepareStep ==
  ASSUME InstallerConstants, DeployInv, Prepare
  PROVE  DeployInv'
<1> USE DEF DeployInv
<1>1. worker.at = "prepare" /\ worker \in Operation
  BY InOperation DEF Prepare, At
<1>2. PICK bundle \in {r \in Releases : r <= budget.newest} \cup {None}, online \in BOOLEAN :
        \E r \in Found(bundle, online) :
          /\ Pinned(r)
          /\ worker' = [worker EXCEPT !.at = IF bundle = None /\ online /\ Cached(r) = {} THEN "download" ELSE "read",
                                      !.release = r]
  BY DEF Prepare
<1>3. PICK r \in Found(bundle, online) :
        /\ Pinned(r)
        /\ worker' = [worker EXCEPT !.at = IF bundle = None /\ online /\ Cached(r) = {} THEN "download" ELSE "read",
                                    !.release = r]
  BY <1>2
<1>4. r \in Releases
  <2>1. latest \in Releases /\ cache \subseteq Releases /\ worker.pin \in Releases \cup {None}
    BY <1>1 DEF TypeOK, Operation
  <2>2. CASE bundle # None
    BY <1>3, <2>2 DEF Found
  <2>3. CASE bundle = None /\ online
    BY <1>3, <2>1, <2>3 DEF Found
  <2>4. CASE bundle = None /\ ~online
    BY <1>3, <2>1, <2>4 DEF Found, Cached
  <2> QED BY <2>2, <2>3, <2>4
<1>5. r # None /\ worker.pin \in {None, r}
  BY <1>3, <1>4 DEF InstallerConstants, Pinned
<1>6. PICK s \in {"download", "read"} : worker' = [worker EXCEPT !.at = s, !.release = r]
  BY <1>3
<1>7. Moved(worker, worker', s, r, worker.id, worker.phase)
  <2>1. Moved(worker, [worker EXCEPT !.at = s, !.release = r], s, r, worker.id, worker.phase)
    BY <1>1, <1>4, OperationUpdates DEF OperationSteps
  <2> QED BY <1>6, <2>1
<1>8. UNCHANGED <<Device, budget>> /\ Quiet /\ ctl' \in Control
  BY DEF Prepare, TypeOK
<1>9. begun' = begun /\ budget' = budget
  BY <1>8 DEF Device
<1>10. StepInv'
  BY <1>1, <1>5, <1>7, <1>9 DEF OperationInv, StepInv, Early, Late, Moved
<1>11. WorkerOK' /\ worker'.at \notin Trusting
  BY <1>7 DEF WorkerOK, Moved, Trusting
<1> QED BY <1>8, <1>10, <1>11, QuietView, QuietStep

\* The steps of an operation before its transaction, and a recovery stopped before it starts.
LEMMA EarlySteps ==
  ASSUME InstallerConstants, DeployInv,
         \/ PrepareFails \/ ReadBundle \/ Download \/ Export \/ Prepared \/ PrepareUnlock \/ Approved
         \/ WaitForModem \/ Verified \/ RecoverStopped
  PROVE  DeployInv'
<1>0. TypeOK /\ ctl \in Control /\ (Quiet /\ ctl' \in Control => ViewOK' /\ history' = history)
  BY QuietView DEF DeployInv, TypeOK
<1>1. ASSUME UNCHANGED <<Device, budget>>, worker.at \notin {"idle", "closed"}, NEW outcome, End(outcome)
      PROVE  DeployInv'
  BY <1>1, EndStep
<1>2. ASSUME UNCHANGED <<Device, budget>>, worker.at \in Early \ {"prepare"}, NEW s \in Early \ {"prepare"}, Goto(s),
             s = "begin" => ~worker.dry, Quiet, ctl' \in Control
      PROVE  DeployInv'
  BY <1>0, <1>2, EarlyStep
<1>3. CASE PrepareFails
  BY <1>1, <1>3 DEF PrepareFails, At
<1>4. CASE ReadBundle
  BY <1>0, <1>1, <1>2, <1>4 DEF ReadBundle, At, Early
<1>5. CASE Download
  BY <1>0, <1>1, <1>2, <1>5 DEF Download, At, Early
<1>6. CASE Export
  <2>1. CASE End("failed")
    BY <1>1, <1>6, <2>1 DEF Export, At
  <2>2. CASE /\ cache' = cache \cup {worker.release} /\ Goto("prepared")
             /\ UNCHANGED <<ctl, plan, checked, seen, latest, report, history>>
    <3>1. worker.at = "export"
      BY <1>6 DEF Export, At
    <3>2. worker.release \in Releases
      BY <1>0, <3>1, InOperation DEF Operation, DeployInv, OperationInv, StepInv, Early
    <3>3. ViewOK'
      BY <1>0, <2>2, <3>2 DEF ViewOK, TypeOK
    <3>4. UNCHANGED <<Device, budget>>
      BY <1>6 DEF Export
    <3> QED BY <2>2, <3>1, <3>3, <3>4, EarlyStep DEF Early
  <2> QED BY <1>6, <2>1, <2>2 DEF Export
<1>7. CASE Prepared
  BY <1>0, <1>1, <1>2, <1>7 DEF Prepared, RootChannel, At, Early
<1>8. CASE PrepareUnlock
  <2>1. CASE \E outcome : End(outcome)
    BY <1>1, <1>8, <2>1 DEF PrepareUnlock, At
  <2>2. CASE Goto("approve") /\ Quiet /\ ctl' = [ctl EXCEPT !.waiting = TRUE, !.approval = None]
    <3>1. ctl' \in Control
      BY <1>0, <2>2 DEF Control
    <3> QED BY <1>2, <1>8, <2>2, <3>1 DEF PrepareUnlock, At, Early
  <2> QED BY <1>8, <2>1, <2>2 DEF PrepareUnlock
<1>9. CASE Approved
  <2>1. CASE \E outcome : End(outcome)
    BY <1>1, <1>9, <2>1 DEF Approved, At
  <2>2. CASE Goto("upload") /\ Quiet /\ ctl' = [ctl EXCEPT !.waiting = FALSE, !.critical = TRUE]
    <3>1. ctl' \in Control
      BY <1>0, <2>2 DEF Control
    <3> QED BY <1>2, <1>9, <2>2, <3>1 DEF Approved, At, Early
  <2> QED BY <1>9, <2>1, <2>2 DEF Approved
<1>10. CASE WaitForModem
  BY <1>0, <1>1, <1>2, <1>10 DEF WaitForModem, At, Early
<1>11. CASE Verified
  <2>1. CASE \E outcome : End(outcome)
    BY <1>1, <1>11, <2>1 DEF Verified, At
  <2>2. CASE ~worker.dry /\ EnterCritical /\ Goto("begin") /\ Quiet
    <3>1. ctl' \in Control
      BY <1>0, <2>2, ControlSteps
    <3> QED BY <1>2, <1>11, <2>2, <3>1 DEF Verified, At, Early
  <2> QED BY <1>11, <2>1, <2>2 DEF Verified
<1>12. CASE RecoverStopped
  <2>1. ctl' \in Control
    BY <1>0, <1>12, ControlSteps DEF RecoverStopped
  <2> QED BY <1>0, <1>12, <2>1, NoOperation, QuietStep DEF RecoverStopped
<1> QED BY <1>3, <1>4, <1>5, <1>6, <1>7, <1>8, <1>9, <1>10, <1>11, <1>12

\* Unlocking the modem touches no target and no transaction.
LEMMA UploadStep ==
  ASSUME InstallerConstants, DeployInv, Upload
  PROVE  DeployInv'
<1>1. PICK done \in BOOLEAN :
        /\ dev' = [dev EXCEPT !.unlocked = @ \/ done]
        /\ Goto(IF done THEN "wait" ELSE "lost")
  BY DEF Upload
<1>2. PICK s \in {"wait", "lost"} : Goto(s)
  BY <1>1
<1>3. TypeOK /\ worker.at = "upload" /\ Quiet /\ UNCHANGED <<cmd, orphans, late, begun, ctl, budget>>
  BY DEF Upload, At, DeployInv
<1>4. Moved(worker, worker', s, worker.release, worker.id, worker.phase)
  BY <1>2, <1>3, GotoMoves DEF OperationSteps
<1>5. StepInv'
  BY <1>3, <1>4 DEF DeployInv, OperationInv, StepInv, Early, Late, Moved
<1>6. WorkerOK' /\ worker'.at \notin Trusting
  BY <1>4 DEF WorkerOK, Moved, Trusting
<1>7. ViewOK' /\ history' = history
  BY <1>3, QuietView DEF TypeOK
<1>8. dev' \in Modem /\ dev'.files = dev.files /\ dev'.tx = dev.tx /\ dev'.lock = dev.lock /\ dev'.active = dev.active
  <2>1. dev \in Modem
    BY <1>3 DEF TypeOK
  <2>2. (dev.unlocked \/ done) \in BOOLEAN
    OBVIOUS
  <2> QED BY <1>1, <2>1, <2>2 DEF Modem
<1>9. BudgetInv' /\ budget'.begins = budget.begins
  BY <1>3 DEF DeployInv, OperationInv, BudgetInv
<1> QED BY <1>3, <1>5, <1>6, <1>7, <1>8, <1>9, HostStep

\* The answer of a command is taken.
LEMMA AnswerStep ==
  ASSUME DeployInv, ~late' => SafeInv', UNCHANGED <<dev, begun, budget, late>>,
         cmd' = None, orphans' \subseteq orphans, ViewOK', WorkerOK', StepInv'
  PROVE  DeployInv'
<1>1. CommandsOK' /\ CommandsInv' /\ BudgetInv'
  BY DEF DeployInv, TypeOK, OperationInv, CommandsOK, CommandsInv, BudgetInv
<1>2. TypeOK'
  BY <1>1 DEF DeployInv, TypeOK, CommandsOK, ViewOK, WorkerOK
<1> QED BY <1>1, <1>2 DEF DeployInv, OperationInv, SafeInv

\* A command is started for a transaction that was begun.
LEMMA RunStep ==
  ASSUME DeployInv, ~late' => SafeInv', UNCHANGED <<dev, begun, budget, orphans>>, Quiet, ctl' \in Control,
         NEW op \in CommandSteps \ BeginSteps, NEW todo \in SUBSET Targets, NEW release \in Releases \cup {None},
         worker.id \in Ids, worker.at \notin {"idle", "closed"}, Run(op, worker.id, todo, release),
         op = "install" => release # None, NEW s \in OperationSteps, Goto(s), StepInv'
  PROVE  DeployInv'
<1> DEFINE c == [at |-> op, id |-> worker.id, todo |-> todo, release |-> release]
<1>1. c \in Command /\ c.at = op /\ c.release = release
  BY DEF Command
<1>2. cmd' = c /\ late' \in BOOLEAN
  BY DEF Run
<1> HIDE DEF c
<1>3. CommandsOK' /\ CommandsInv' /\ BudgetInv'
  BY <1>1, <1>2 DEF DeployInv, TypeOK, OperationInv, CommandsOK, CommandsInv, BudgetInv
<1>4. ViewOK' /\ WorkerOK'
  BY QuietView, GotoMoves DEF DeployInv, Moved, WorkerOK
<1>5. TypeOK'
  BY <1>2, <1>3, <1>4 DEF DeployInv, TypeOK, CommandsOK, ViewOK, WorkerOK
<1> QED BY <1>3, <1>5 DEF DeployInv, OperationInv, SafeInv

\* A transaction is begun under a number of its own.
LEMMA BeginTransactionStep ==
  ASSUME InstallerConstants, DeployInv, BeginTransaction
  PROVE  DeployInv'
<1> DEFINE i == begun + 1
           c == [at |-> "lock", id |-> i, todo |-> Targets, release |-> None]
<1>1. /\ worker.at = "begin" /\ dev' = dev /\ orphans' = orphans /\ begun' = i /\ budget' = budget
      /\ history' = [history EXCEPT !.files[i] = dev.files] /\ cmd' = c /\ late' = (late \/ orphans # {})
      /\ worker' = [worker EXCEPT !.at = "begun", !.id = i] /\ UNCHANGED <<View, latest, ctl>>
  BY DEF BeginTransaction, Run, At
<1>2. i \in Ids /\ begun \in Nat /\ i \in Nat /\ begun < i
  <2>1. begun \in Nat /\ begun < budget.begins /\ budget.begins \in Nat /\ 1..budget.begins \subseteq Ids
    BY <1>1 DEF DeployInv, OperationInv, StepInv, BudgetInv, TypeOK, Early
  <2> QED BY <2>1
<1>3. Moved(worker, worker', "begun", worker.release, i, worker.phase)
  <2>1. worker \in Operation
    BY <1>1, InOperation DEF DeployInv
  <2>2. Moved(worker, [worker EXCEPT !.at = "begun", !.id = i], "begun", worker.release, i, worker.phase)
    BY <1>2, <2>1, OperationUpdates DEF OperationSteps
  <2> QED BY <1>1, <2>2
<1>4. c \in Command /\ c.at = "lock" /\ c.id = i
  BY <1>2 DEF Command, CommandSteps, BeginSteps
<1>5. history' \in [files : [Ids -> [Targets -> Versions]], refused : BOOLEAN]
  <2>1. history \in [files : [Ids -> [Targets -> Versions]], refused : BOOLEAN] /\ dev.files \in [Targets -> Versions]
    BY DEF DeployInv, TypeOK, Modem
  <2> QED BY <1>1, <1>2, <2>1
<1>6. ASSUME NEW e \in orphans
      PROVE  e \in Command /\ (e.at \in BeginSteps => e.id <= i) /\ (e.at = "install" => e.release # None)
  <2>1. e \in Command /\ e # None
    BY DEF DeployInv, TypeOK, InstallerConstants
  <2>2. (e.at \in BeginSteps => e.id <= begun) /\ (e.at = "install" => e.release # None) /\ e.id \in Nat
    BY <2>1, IdFacts DEF DeployInv, OperationInv, CommandsInv, Command
  <2> QED BY <1>2, <2>1, <2>2
<1> HIDE DEF i, c
<1>7. CommandsOK' /\ CommandsInv'
  <2>1. CommandsOK'
    BY <1>1, <1>4, <1>6 DEF CommandsOK
  <2>2. i <= i
    BY <1>2
  <2>3. ASSUME NEW e \in orphans \cup {c}
        PROVE  (e.at \in BeginSteps => e.id <= i) /\ (e.at = "install" => e.release # None)
    BY <1>4, <1>6, <2>2
  <2>4. \A e \in orphans : ~Answered(e)
    BY DEF DeployInv, OperationInv, CommandsInv
  <2> QED BY <1>1, <2>1, <2>3, <2>4 DEF CommandsInv
<1>8. TypeOK'
  <2>1. late' \in BOOLEAN
    BY <1>1
  <2> QED BY <1>1, <1>2, <1>3, <1>5, <1>7, <2>1 DEF DeployInv, TypeOK, CommandsOK, Moved, View
<1>9. StepInv' /\ BudgetInv'
  BY <1>1, <1>2, <1>3 DEF DeployInv, OperationInv, StepInv, BudgetInv, Early, Late, Moved
<1>10. SafeInv'
  <2>1. ~late' => SafeInv'
    BY BeginTransactionSafe DEF DeployInv
  <2> QED BY <2>1 DEF SafeInv
<1> QED BY <1>7, <1>8, <1>9, <1>10 DEF DeployInv, OperationInv

\* The installer takes the answers of its commands.
LEMMA AnswerSteps ==
  ASSUME InstallerConstants, DeployInv,
         \/ Begun \/ (\E n \in DOMAIN Phases : PhaseEnds(n)) \/ Reboot \/ Completed \/ Undone \/ Recovered
  PROVE  DeployInv'
<1>0. TypeOK /\ OperationInv /\ SafeInv /\ (Quiet /\ ctl' \in Control => ViewOK')
  BY QuietView DEF DeployInv
<1>1. ASSUME worker.at \notin {"idle", "closed"}, NEW outcome, End(outcome)
      PROVE  ViewOK' /\ WorkerOK' /\ StepInv' /\ worker'.at \notin Trusting /\ history' = history
  BY <1>0, <1>1, EndView, NoOperation
<1>2. ASSUME worker.at \in {"deploy", "deployed", "completed"}, Goto("undo")
      PROVE  WorkerOK' /\ StepInv'
  <2>1. Moved(worker, worker', "undo", worker.release, worker.id, worker.phase)
    BY <1>0, <1>2, GotoMoves DEF OperationSteps
  <2> QED BY <1>0, <1>2, <2>1 DEF OperationInv, StepInv, WorkerOK, Moved, Early, Late
<1>3. CASE Begun
  <2>1. ~late' => SafeInv'
    BY <1>0, <1>3, BegunSafe
  <2>2. worker.at = "begun" /\ cmd' = None /\ UNCHANGED <<dev, begun, budget, late, orphans>>
    BY <1>3 DEF Begun, Awaited, At
  <2>3. CASE End("failed")
    BY <1>1, <2>1, <2>2, <2>3, AnswerStep
  <2>4. CASE Goto("deploy") /\ UNCHANGED ctl /\ Quiet
    <3>1. Moved(worker, worker', "deploy", worker.release, worker.id, worker.phase)
      BY <1>0, <2>2, <2>4, GotoMoves DEF OperationSteps
    <3>2. WorkerOK' /\ StepInv'
      BY <1>0, <2>2, <3>1 DEF OperationInv, StepInv, WorkerOK, Moved, Early, Late
    <3>3. ViewOK'
      BY <1>0, <2>4 DEF TypeOK
    <3> QED BY <2>1, <2>2, <3>2, <3>3, AnswerStep
  <2> QED BY <1>3, <2>3, <2>4 DEF Begun
<1>4. ASSUME NEW n \in DOMAIN Phases, PhaseEnds(n)
      PROVE  DeployInv'
  <2>1. ~late' => SafeInv'
    BY <1>0, <1>4, PhaseEndsSafe
  <2>2. worker.at = "deployed" /\ cmd' = None /\ UNCHANGED <<dev, begun, budget, late, orphans, ctl>> /\ Quiet
    BY <1>4 DEF PhaseEnds, Awaited, At
  <2>3. ViewOK'
    BY <1>0, <2>2 DEF TypeOK
  <2>4. CASE Goto("undo")
    BY <1>2, <2>1, <2>2, <2>3, <2>4, AnswerStep
  <2>5. CASE worker' = [worker EXCEPT !.at = "deploy", !.phase = n + 1]
    <3>1. Moved(worker, worker', "deploy", worker.release, worker.id, n + 1)
      <4>1. worker \in Operation /\ n + 1 \in 1..(Len(Phases) + 2)
        BY <1>0, <2>2, InOperation, PhaseCount
      <4>2. Moved(worker, [worker EXCEPT !.at = "deploy", !.phase = n + 1], "deploy", worker.release, worker.id, n + 1)
        BY <4>1, OperationUpdates DEF OperationSteps
      <4> QED BY <2>5, <4>2
    <3>2. WorkerOK' /\ StepInv'
      BY <1>0, <2>2, <3>1 DEF OperationInv, StepInv, WorkerOK, Moved, Early, Late
    <3> QED BY <2>1, <2>2, <2>3, <3>2, AnswerStep
  <2> QED BY <1>4, <2>4, <2>5 DEF PhaseEnds
<1>5. CASE Reboot
  <2>1. ~late' => SafeInv'
    BY <1>0, <1>5, RebootSafe
  <2>2. /\ worker.at = "deploy" /\ worker.phase = 5 /\ cmd' = None /\ orphans' = {}
        /\ UNCHANGED <<dev, begun, budget, late, ctl>> /\ Quiet
    BY <1>5, PhaseCount DEF Reboot, At
  <2>3. ViewOK'
    BY <1>0, <2>2 DEF TypeOK
  <2>4. CASE Goto("undo")
    BY <1>2, <2>1, <2>2, <2>3, <2>4, AnswerStep
  <2>5. CASE worker' = [worker EXCEPT !.phase = @ + 1]
    <3>1. Moved(worker, worker', "deploy", worker.release, worker.id, 6)
      <4>1. worker \in Operation /\ 6 \in 1..(Len(Phases) + 2)
        BY <1>0, <2>2, InOperation, PhaseCount
      <4>2. Moved(worker, [worker EXCEPT !.phase = 6], "deploy", worker.release, worker.id, 6)
        BY <2>2, <4>1, OperationUpdates
      <4>3. worker' = [worker EXCEPT !.phase = 6]
        BY <2>2, <2>5, <4>1 DEF Operation
      <4> QED BY <4>2, <4>3
    <3>2. WorkerOK' /\ StepInv'
      BY <1>0, <2>2, <3>1 DEF OperationInv, StepInv, WorkerOK, Moved, Early, Late
    <3> QED BY <2>1, <2>2, <2>3, <3>2, AnswerStep
  <2> QED BY <1>5, <2>4, <2>5 DEF Reboot
<1>6. CASE Completed
  <2>1. ~late' => SafeInv'
    BY <1>0, <1>6, CompletedSafe
  <2>2. worker.at = "completed" /\ cmd' = None /\ UNCHANGED <<dev, begun, budget, late, orphans>>
    BY <1>6 DEF Completed, Awaited, At
  <2>3. CASE End("success")
    BY <1>1, <2>1, <2>2, <2>3, AnswerStep
  <2>4. CASE Goto("undo") /\ UNCHANGED ctl /\ Quiet
    <3>1. ViewOK'
      BY <1>0, <2>4 DEF TypeOK
    <3> QED BY <1>2, <2>1, <2>2, <2>4, <3>1, AnswerStep
  <2> QED BY <1>6, <2>3, <2>4 DEF Completed
<1>7. CASE Undone \/ Recovered
  <2>1. /\ worker.at \in {"undone", "recovering"} /\ cmd' = None /\ UNCHANGED <<dev, begun, budget, late, orphans>>
        /\ \E outcome : End(outcome)
    BY <1>7 DEF Undone, Recovered, Awaited, At
  <2>2. ViewOK' /\ WorkerOK' /\ StepInv' /\ worker'.at \notin Trusting /\ history' = history
    BY <1>1, <2>1
  <2>3. ~late' => SafeInv'
    BY <1>0, <2>1, <2>2, AnswerSafe
  <2> QED BY <2>1, <2>2, <2>3, AnswerStep
<1> QED BY <1>3, <1>4, <1>5, <1>6, <1>7

\* The installer starts its commands.
LEMMA RunSteps ==
  ASSUME InstallerConstants, DeployInv,
         (\E n \in DOMAIN Phases : Phase(n)) \/ Complete \/ Undo \/ RecoverRuns
  PROVE  DeployInv'
<1>0. TypeOK /\ OperationInv /\ SafeInv /\ ctl \in Control
  BY DEF DeployInv, TypeOK
<1>1. ASSUME NEW s \in {"deployed", "completed", "undone", "recovering"}, Goto(s), UNCHANGED <<begun, budget>>,
             worker.at \in {"deploy", "undo", "recover"}, s \in {"deployed", "completed"} => worker.at = "deploy"
      PROVE  StepInv'
  <2>1. Moved(worker, worker', s, worker.release, worker.id, worker.phase)
    BY <1>0, <1>1, GotoMoves DEF OperationSteps
  <2> QED BY <1>0, <1>1, <2>1 DEF OperationInv, StepInv, Moved, Early, Late
<1>2. worker.at \in {"deploy", "undo", "recover"} => worker.id \in Ids /\ worker.release \in Releases \cup {None}
  BY <1>0, InOperation DEF OperationInv, StepInv, Late, Operation
<1>3. ASSUME NEW n \in DOMAIN Phases, Phase(n)
      PROVE  DeployInv'
  <2>1. ~late' => SafeInv'
    BY <1>0, <1>3, PhaseSafe
  <2>2. /\ worker.at = "deploy" /\ UNCHANGED <<dev, begun, budget, orphans>> /\ Quiet /\ ctl' \in Control
        /\ Run("install", worker.id, Writes[Phases[n]], worker.release) /\ Goto("deployed")
    BY <1>0, <1>3 DEF Phase, At
  <2>3. Writes[Phases[n]] \subseteq Targets /\ worker.release # None
    BY <1>0, <2>2 DEF InstallerConstants, OperationInv, StepInv, Late
  <2>4. StepInv'
    BY <1>1, <2>2
  <2> QED BY <1>2, <2>1, <2>2, <2>3, <2>4, RunStep DEF CommandSteps, BeginSteps, OperationSteps
<1>4. CASE Complete
  <2>1. ~late' => SafeInv'
    BY <1>0, <1>4, CompleteSafe
  <2>2. /\ worker.at = "deploy" /\ UNCHANGED <<dev, begun, budget, orphans>> /\ Quiet /\ ctl' \in Control
        /\ Run("complete", worker.id, {}, None) /\ Goto("completed")
    BY <1>0, <1>4 DEF Complete, At
  <2>3. StepInv'
    BY <1>1, <2>2
  <2> QED BY <1>2, <2>1, <2>2, <2>3, RunStep DEF CommandSteps, BeginSteps, OperationSteps
<1>5. ASSUME NEW op \in {"restore", "discard", "fail"}, NEW s \in {"undone", "recovering"},
             worker.at \in {"undo", "recover"}, UNCHANGED <<dev, begun, budget, orphans>>, Quiet, ctl' \in Control,
             Run(op, worker.id, Targets, None), Goto(s)
      PROVE  DeployInv'
  <2>1. ~late' => SafeInv'
    BY <1>0, <1>5, UndoRunSafe DEF Quiet
  <2>2. StepInv'
    BY <1>1, <1>5
  <2> QED BY <1>2, <1>5, <2>1, <2>2, RunStep DEF CommandSteps, BeginSteps, OperationSteps
<1>6. CASE Undo
  BY <1>0, <1>5, <1>6 DEF Undo, At
<1>7. CASE RecoverRuns
  <2>1. ctl' \in Control
    BY <1>0, <1>7, ControlSteps DEF RecoverRuns
  <2>2. PICK op \in {"restore", "discard", "fail"} : Run(op, worker.id, Targets, None)
    BY <1>7 DEF RecoverRuns
  <2> QED BY <1>5, <1>7, <2>1, <2>2 DEF RecoverRuns, At
<1> QED BY <1>3, <1>4, <1>6, <1>7

\* What a command still has to do remains of its kind when it goes on or fails.
LEMMA OutcomeKind ==
  ASSUME InstallerConstants, TypeOK, OperationInv, NEW c \in orphans \cup {cmd}, c # None, ~Answered(c),
         NEW d, NEW e,
         (d = Outcome(c).dev /\ e = Outcome(c).cmd) \/ (\E f \in Failures(c) : d = f.dev /\ e = f.cmd)
  PROVE  /\ d \in Modem /\ e \in Command
         /\ e.at \in BeginSteps => e.id <= begun
         /\ e.at = "install" => e.release # None
<1>1. /\ dev \in Modem /\ c \in Command /\ (c.at \in BeginSteps => c.id <= begun)
      /\ c.at = "install" => c.release # None
  BY RunningCommand
<1>2. CASE d = Outcome(c).dev /\ e = Outcome(c).cmd
  <2>1. /\ d \in Modem /\ e \in Command /\ e.id = c.id /\ e.release = c.release
        /\ e.at \in BeginSteps => c.at \in BeginSteps
        /\ e.at = "install" => c.at = "install"
    BY <1>1, <1>2, OutcomeType
  <2> QED BY <1>1, <2>1
<1>3. CASE \E f \in Failures(c) : d = f.dev /\ e = f.cmd
  <2>1. PICK f \in Failures(c) : d = f.dev /\ e = f.cmd
    BY <1>3
  <2>2. FailsTo(c, d, e)
    BY <1>1, <2>1, FaultOutcome
  <2> QED BY <1>1, <2>2 DEF FailsTo, Went, Became, BeginSteps
<1> QED BY <1>2, <1>3

\* A step of a command, its failure, its abandonment, and a power loss.
LEMMA CommandActions ==
  ASSUME InstallerConstants, DeployInv, CommandStep \/ OrphanStep \/ CommandFails \/ CommandAbandoned \/ PowerLoss
  PROVE  DeployInv'
<1>0. TypeOK /\ OperationInv /\ SafeInv /\ dev \in Modem /\ CommandsOK /\ CommandsInv
  BY DEF DeployInv, TypeOK, OperationInv, CommandsOK
<1>1. /\ UNCHANGED <<worker, ctl, plan, checked, seen, cache, latest, history, late, begun>>
      /\ BudgetInv' /\ budget'.begins = budget.begins
  <2>1. UNCHANGED Host
    BY DEF CommandStep, OrphanStep, CommandFails, CommandAbandoned, PowerLoss
  <2>2. (\E what \in {"faults", "losses", "abandons"} : Spend(what)) \/ budget' = budget
    BY DEF CommandStep, OrphanStep, CommandFails, CommandAbandoned, PowerLoss
  <2>3. BudgetInv' /\ budget'.begins = budget.begins
    BY <1>0, <2>2, SpendKeeps DEF OperationInv, BudgetInv
  <2> QED BY <2>1, <2>3 DEF Host
<1>2. SafeInv'
  <2>1. ~late => SafeInv'
    BY <1>0, CommandStepSafe, OrphanStepSafe, CommandEndsSafe
  <2> QED BY <1>1, <2>1 DEF SafeInv
<1>3. StepInv' /\ ViewOK' /\ WorkerOK' /\ late' \in BOOLEAN /\ begun' \in Nat
  BY <1>0, <1>1 DEF OperationInv, StepInv, TypeOK, ViewOK, WorkerOK
<1>4. ASSUME dev' \in Modem, CommandsOK', CommandsInv'
      PROVE  DeployInv'
  <2>1. TypeOK'
    BY <1>3, <1>4 DEF TypeOK, ViewOK, WorkerOK, CommandsOK
  <2> QED BY <1>1, <1>2, <1>3, <1>4, <2>1 DEF DeployInv, OperationInv
<1>5. CASE CommandStep \/ CommandFails
  <2>1. /\ cmd # None /\ ~Answered(cmd) /\ orphans' = orphans
        /\ \/ dev' = Outcome(cmd).dev /\ cmd' = Outcome(cmd).cmd
           \/ \E f \in Failures(cmd) : dev' = f.dev /\ cmd' = f.cmd
    BY <1>5 DEF CommandStep, CommandFails
  <2>2. /\ dev' \in Modem /\ cmd' \in Command
        /\ cmd'.at \in BeginSteps => cmd'.id <= begun
        /\ cmd'.at = "install" => cmd'.release # None
    BY <1>0, <2>1, OutcomeKind
  <2>3. CommandsOK' /\ CommandsInv'
    BY <1>0, <1>1, <2>1, <2>2 DEF CommandsOK, CommandsInv
  <2> QED BY <1>4, <2>2, <2>3
<1>6. CASE OrphanStep
  <2>1. PICK c \in orphans :
          /\ dev' = Outcome(c).dev
          /\ orphans' = (orphans \ {c}) \cup (IF Answered(Outcome(c).cmd) THEN {} ELSE {Outcome(c).cmd})
          /\ cmd' = cmd
    BY <1>6 DEF OrphanStep
  <2> DEFINE e == Outcome(c).cmd
  <2>2. c \in Command /\ c # None /\ ~Answered(c)
    BY <1>0 DEF CommandsOK, CommandsInv, InstallerConstants
  <2>3. /\ dev' \in Modem /\ e \in Command
        /\ e.at \in BeginSteps => e.id <= begun
        /\ e.at = "install" => e.release # None
    BY <1>0, <2>1, <2>2, OutcomeKind
  <2>4. orphans' \subseteq orphans \cup {e} /\ (e \in orphans' => e \in orphans \/ ~Answered(e))
    BY <2>1
  <2> HIDE DEF e
  <2>5. CommandsOK' /\ CommandsInv'
    BY <1>0, <1>1, <2>1, <2>3, <2>4 DEF CommandsOK, CommandsInv
  <2> QED BY <1>4, <2>3, <2>5
<1>7. CASE CommandAbandoned \/ PowerLoss
  <2>1. /\ dev' = dev /\ orphans' \subseteq orphans \cup {cmd}
        /\ cmd \in orphans' => cmd \in orphans \/ (cmd # None /\ ~Answered(cmd))
    BY <1>7 DEF CommandAbandoned, PowerLoss, Orphaned
  <2>2. cmd' = None \/ (cmd' \in Command /\ cmd'.at = "fail")
    <3>1. cmd' = None \/ (cmd # None /\ cmd' = [cmd EXCEPT !.at = "fail"])
      BY <1>7 DEF CommandAbandoned, PowerLoss
    <3>2. cmd # None => Went(cmd, [cmd EXCEPT !.at = "fail"], "fail", cmd.todo)
      BY <1>0, CommandUpdates DEF CommandsOK, CommandSteps
    <3> QED BY <3>1, <3>2 DEF Went
  <2>3. CommandsOK' /\ CommandsInv'
    BY <1>0, <1>1, <2>1, <2>2 DEF CommandsOK, CommandsInv, BeginSteps
  <2> QED BY <1>0, <1>4, <2>1, <2>3
<1> QED BY <1>5, <1>6, <1>7

\* The application dies, and its command goes on.
LEMMA KilledStep ==
  ASSUME InstallerConstants, DeployInv, Killed
  PROVE  DeployInv'
<1>1. /\ worker' = [at |-> "closed"] /\ plan' = None /\ checked' = None /\ seen' = None /\ cmd' = None
      /\ UNCHANGED <<dev, cache, latest, history, late, begun>>
      /\ orphans' \subseteq orphans \cup {cmd}
      /\ cmd \in orphans' => cmd \in orphans \/ (cmd # None /\ ~Answered(cmd))
  BY DEF Killed, Orphaned
<1>2. BudgetInv'
  BY SpendKeeps DEF Killed, DeployInv, OperationInv
<1>3. ctl' \in Control
  BY ControlSteps DEF Killed, DeployInv, TypeOK
<1>4. StepInv' /\ WorkerOK'
  BY <1>1, NoOperation
<1>5. CommandsInv' /\ CommandsOK'
  BY <1>1 DEF DeployInv, OperationInv, TypeOK, CommandsInv, CommandsOK
<1>6. TypeOK'
  BY <1>1, <1>3, <1>4, <1>5 DEF DeployInv, TypeOK, WorkerOK, CommandsOK
<1>7. SafeInv'
  <2>1. ~late' => SafeInv'
    BY KilledSafe DEF DeployInv
  <2> QED BY <2>1 DEF SafeInv
<1> QED BY <1>2, <1>4, <1>5, <1>6, <1>7 DEF DeployInv, OperationInv

\* At first nothing was begun, and the files are of one installation.
LEMMA InitDeploy ==
  ASSUME InstallerConstants, Init
  PROVE  DeployInv
<1>1. Oldest \in Releases
  BY DEF Oldest, InstallerConstants
<1>2. PICK v \in {Absent, Oldest}, open \in BOOLEAN :
        dev = [files |-> Uniform(v), tx |-> [i \in Ids |-> NoTx], lock |-> Free, active |-> 0, unlocked |-> open]
  BY DEF Init
<1>3. v \in Versions /\ Uniform(v) \in [Targets -> Versions]
  BY <1>1 DEF Versions, Uniform
<1>4. /\ dev \in Modem /\ dev.files = Uniform(v) /\ dev.lock = Free /\ dev.active = 0
      /\ dev.tx = [i \in Ids |-> NoTx]
  BY <1>2, <1>3, EmptyTransaction DEF Modem
<1>5. /\ cmd = None /\ orphans = {} /\ worker = [at |-> "idle"] /\ late = FALSE /\ begun = 0
      /\ ctl = [running |-> FALSE, critical |-> FALSE, stopped |-> FALSE, waiting |-> FALSE, approval |-> None]
      /\ plan = None /\ checked = None /\ seen = None /\ cache = {} /\ latest = Oldest
      /\ history = [files |-> [i \in Ids |-> dev.files], refused |-> FALSE]
  BY DEF Init
<1>6. TypeOK
  <2>1. ctl \in Control
    BY <1>5 DEF Control
  <2>2. history \in [files : [Ids -> [Targets -> Versions]], refused : BOOLEAN]
    BY <1>3, <1>4, <1>5
  <2> QED BY <1>1, <1>4, <1>5, <2>1, <2>2 DEF TypeOK
<1>7. StepInv /\ CommandsInv
  BY <1>5 DEF StepInv, CommandsInv, Early, Late
<1>8. BudgetInv
  <2>1. PICK b \in Bounds : budget = b
    BY DEF Init
  <2> QED BY <2>1 DEF BudgetInv, InstallerConstants, Ids
<1>9. \A i \in Ids : dev.tx[i].state = "none"
  BY <1>4, EmptyTransaction
<1>10. SafeInv
  <2>1. ModemInv(dev, history.files)
    BY <1>3, <1>4, <1>9 DEF ModemInv, KnownOn, Leads, Whole
  <2>2. FreshInv(dev, begun) /\ AloneInv /\ WorkerInv /\ UndoInv /\ CompleteInv
    BY <1>5, <1>9 DEF FreshInv, AloneInv, WorkerInv, UndoInv, CompleteInv
  <2> QED BY <1>5, <2>1, <2>2 DEF SafeInv
<1> QED BY <1>6, <1>7, <1>8, <1>10 DEF DeployInv, OperationInv

\* Every step keeps the invariant.
LEMMA DeployStep ==
  ASSUME InstallerConstants, DeployInv, [Next]_vars
  PROVE  DeployInv'
<1>1. CASE CommandStep \/ OrphanStep \/ CommandFails \/ CommandAbandoned \/ PowerLoss
  BY <1>1, CommandActions
<1>2. CASE Stop \/ (\E a \in BOOLEAN : Confirm(a)) \/ DetectBegins \/ DetectEnds \/ Invalidate
           \/ Published \/ Closed \/ Reopened
  BY <1>2, UserStep
<1>3. CASE (\E dry \in BOOLEAN : InstallStarts(dry)) \/ Recover
  BY <1>3, StartStep
<1>4. CASE Prepare
  BY <1>4, PrepareStep
<1>5. CASE PrepareFails \/ ReadBundle \/ Download \/ Export \/ Prepared \/ PrepareUnlock \/ Approved
           \/ WaitForModem \/ Verified \/ RecoverStopped
  BY <1>5, EarlySteps
<1>6. CASE Upload
  BY <1>6, UploadStep
<1>7. CASE BeginTransaction
  BY <1>7, BeginTransactionStep
<1>8. CASE Begun \/ VerifyAgent \/ VerifySsh \/ VerifyDashboard \/ VerifyManifest \/ Reboot \/ Completed
           \/ Undone \/ Recovered
  <2>1. VerifyAgent \/ VerifySsh \/ VerifyDashboard \/ VerifyManifest => \E n \in DOMAIN Phases : PhaseEnds(n)
    BY PhaseCount DEF VerifyAgent, VerifySsh, VerifyDashboard, VerifyManifest
  <2> QED BY <1>8, <2>1, AnswerSteps
<1>9. CASE DeployAgent \/ Harden \/ DeployDashboard \/ WriteManifest \/ Complete \/ Undo \/ RecoverRuns
  <2>1. DeployAgent \/ Harden \/ DeployDashboard \/ WriteManifest => \E n \in DOMAIN Phases : Phase(n)
    BY PhaseCount DEF DeployAgent, Harden, DeployDashboard, WriteManifest
  <2> QED BY <1>9, <2>1, RunSteps
<1>10. CASE Killed
  BY <1>10, KilledStep
<1>11. CASE UNCHANGED vars
  <2>1. UNCHANGED <<Device, budget, worker>> /\ ViewOK' /\ history' = history
    BY <1>11 DEF vars, Device, DeployInv, TypeOK, ViewOK
  <2> QED BY <2>1, QuietStep
<1> QED BY <1>1, <1>2, <1>3, <1>4, <1>5, <1>6, <1>7, <1>8, <1>9, <1>10, <1>11 DEF Next, Worker

\* The invariant holds in every state of every behaviour of the installer and the modem.
THEOREM DeployInvariant == Spec => []DeployInv
<1>1. Init => DeployInv
  BY InitDeploy, InstallerConstants
<1>2. DeployInv /\ [Next]_vars => DeployInv'
  BY DeployStep, InstallerConstants
<1> QED BY <1>1, <1>2, PTL DEF Spec

\* The modem can always be brought back (transaction.sh, perform_install()): unless a command was
\* started beside one that was given up, its files are of one installation, or the marker names a
\* transaction that can be restored, with a complete snapshot.
THEOREM AlwaysRecoverable == Spec => []Recoverable
<1>1. DeployInv => Recoverable
  <2> SUFFICES ASSUME DeployInv, ~late, ~Whole(dev.files)
               PROVE  dev.active # 0 /\ MayRestore(dev.active) /\ Whole(dev.tx[dev.active].saved)
    BY DEF Recoverable
  <2>1. ModemInv(dev, history.files) /\ dev.active \in Ids \cup {0}
    BY DEF DeployInv, SafeInv, TypeOK, Modem
  <2>2. Leads(dev)
    BY <2>1 DEF ModemInv
  <2> QED BY <2>1, <2>2 DEF ModemInv, Leads, KnownOn, MayRestore, Known
<1> QED BY <1>1, DeployInvariant, PTL

\* What the user is told at the end of an operation is so (perform_install(), recover_device()).
THEOREM ReportsAreTrue == Spec => ReportIsTrue
<1> DEFINE True ==
      report' # report /\ report' # None /\ ~late' =>
        /\ report'.outcome = "success" => dev'.files = Uniform(worker.pin) /\ dev'.active = 0
        /\ report'.outcome = "restored" => dev'.files = history.files[report'.id] /\ dev'.active = 0
<1>1. DeployInv /\ [Next]_vars => True
  <2> SUFFICES ASSUME DeployInv, [Next]_vars, report' # report, report' # None, ~late'
               PROVE  /\ report'.outcome = "success" => dev'.files = Uniform(worker.pin) /\ dev'.active = 0
                      /\ report'.outcome = "restored" => dev'.files = history.files[report'.id] /\ dev'.active = 0
    OBVIOUS
  <2>1. ASSUME NEW outcome \in {"failed", "checked", "stopped", "unrecovered"}, End(outcome)
        PROVE  report'.outcome \notin {"success", "restored"}
    BY <2>1 DEF End
  <2>2. CASE PrepareFails \/ ReadBundle \/ Download \/ Export \/ Prepared \/ PrepareUnlock \/ Approved
             \/ WaitForModem \/ Verified \/ Begun
    BY <2>1, <2>2 DEF PrepareFails, ReadBundle, Download, Export, Prepared, PrepareUnlock, Approved,
                      WaitForModem, Verified, Begun, Quiet
  <2>3. CASE Completed
    <3>1. /\ worker.at = "completed" /\ cmd # None /\ late' = late /\ dev' = dev
          /\ cmd.at = "ok" /\ End("success")
      BY <2>3 DEF Completed, Awaited, At, Quiet
    <3>2. dev.files = Uniform(worker.release) /\ dev.active = 0
      BY <3>1 DEF DeployInv, SafeInv, CompleteInv
    <3>3. worker.pin = worker.release
      BY <3>1 DEF DeployInv, OperationInv, StepInv, Late
    <3> QED BY <3>1, <3>2, <3>3 DEF End
  <2>4. CASE Undone \/ Recovered
    <3>1. worker.at \in {"undone", "recovering"} /\ late' = late /\ dev' = dev /\ cmd # None
      BY <2>4 DEF Undone, Recovered, Awaited, At
    <3>2. CASE cmd.at = "ok" /\ End("restored")
      <4>1. dev.files = history.files[worker.id] /\ dev.active = 0
        BY <3>1, <3>2 DEF DeployInv, SafeInv, UndoInv
      <4> QED BY <3>1, <3>2, <4>1 DEF End
    <3>3. CASE End("unrecovered")
      BY <2>1, <3>3
    <3> QED BY <2>4, <3>2, <3>3 DEF Undone, Recovered
  <2>5. CASE (\E dry \in BOOLEAN : InstallStarts(dry)) \/ Recover
    BY <2>5 DEF InstallStarts, Recover, StartControl
  <2>6. CASE CommandStep \/ OrphanStep \/ CommandFails \/ CommandAbandoned \/ PowerLoss
    BY <2>6 DEF CommandStep, OrphanStep, CommandFails, CommandAbandoned, PowerLoss, Host
  <2>7. CASE Stop \/ (\E a \in BOOLEAN : Confirm(a)) \/ DetectBegins \/ DetectEnds \/ Invalidate
             \/ Published \/ Killed \/ Closed \/ Reopened \/ UNCHANGED vars
    BY <2>7 DEF Stop, Confirm, DetectBegins, DetectEnds, Invalidate, Published, Killed, Closed, Reopened, Quiet, vars
  <2>8. CASE Prepare \/ Upload \/ BeginTransaction \/ Reboot \/ Complete \/ Undo \/ RecoverStopped \/ RecoverRuns
    BY <2>8 DEF Prepare, Upload, BeginTransaction, Reboot, Complete, Undo, RecoverStopped, RecoverRuns, Quiet
  <2>9. CASE \/ DeployAgent \/ Harden \/ DeployDashboard \/ WriteManifest
             \/ VerifyAgent \/ VerifySsh \/ VerifyDashboard \/ VerifyManifest
    BY <2>9 DEF DeployAgent, Harden, DeployDashboard, WriteManifest, VerifyAgent, VerifySsh, VerifyDashboard,
                VerifyManifest, Phase, PhaseEnds, Quiet
  <2> QED BY <2>2, <2>3, <2>4, <2>5, <2>6, <2>7, <2>8, <2>9 DEF Next, Worker
<1> QED BY <1>1, DeployInvariant, PTL DEF Spec, ReportIsTrue

(***************************************************************************)
(* A stop that was accepted is kept.                                       *)
(***************************************************************************)
\* An accepted stop finds the operation outside its critical part, where the modem is unlocked and
\* transactions begin, and cannot be withdrawn before the next operation.
StopInv ==
  /\ history.refused => ctl.stopped /\ ~ctl.critical
  /\ worker.at \in {"upload", "begin"} => ctl.critical

\* The flags that each step of Control sets.
LEMMA ControlFlags ==
  ASSUME TypeOK
  PROVE  /\ FinishControl => ctl'.stopped = ctl.stopped /\ ~ctl'.critical
         /\ EnterCritical => ~ctl.stopped /\ ctl'.critical
         /\ StartControl => ~history'.refused
<1>1. FinishControl => ctl'.stopped = ctl.stopped /\ ~ctl'.critical
  BY DEF FinishControl, TypeOK, Control
<1>2. EnterCritical => ~ctl.stopped /\ ctl'.critical
  BY DEF EnterCritical, TypeOK, Control
<1>3. StartControl => ~history'.refused
  BY DEF StartControl, TypeOK
<1> QED BY <1>1, <1>2, <1>3

\* Every step keeps it.
LEMMA StopStep ==
  ASSUME TypeOK, StopInv, [Next]_vars
  PROVE  StopInv'
<1>1. ASSUME NEW outcome, End(outcome)
      PROVE  StopInv'
  BY <1>1, ControlFlags DEF End, StopInv
<1>2. ASSUME worker.at \notin {"idle", "closed"}, NEW s \in OperationSteps \ {"upload", "begin"}, Goto(s),
             history' = history, ctl' = ctl
      PROVE  StopInv'
  BY <1>2, GotoMoves DEF StopInv, Moved
<1>3. ASSUME worker' = worker, history' = history, ctl' = ctl
      PROVE  StopInv'
  BY <1>3 DEF StopInv
<1>4. CASE CommandStep \/ OrphanStep \/ CommandFails \/ CommandAbandoned \/ PowerLoss
  BY <1>3, <1>4 DEF CommandStep, OrphanStep, CommandFails, CommandAbandoned, PowerLoss, Host
<1>5. CASE DetectBegins \/ DetectEnds \/ Invalidate \/ Published \/ UNCHANGED vars
  BY <1>3, <1>5 DEF DetectBegins, DetectEnds, Invalidate, Published, vars
<1>6. CASE Closed \/ Reopened
  BY <1>6 DEF Closed, Reopened, Quiet, StopInv
<1>7. CASE Stop
  <2>1. ctl' = [ctl EXCEPT !.stopped = TRUE] /\ ~ctl.critical /\ worker' = worker
    BY <1>7 DEF Stop
  <2>2. ctl'.stopped /\ ctl'.critical = ctl.critical
    BY <2>1 DEF TypeOK, Control
  <2> QED BY <2>1, <2>2 DEF StopInv
<1>8. ASSUME NEW a \in BOOLEAN, Confirm(a)
      PROVE  StopInv'
  <2>1. ctl' = [ctl EXCEPT !.approval = a] /\ worker' = worker /\ history' = history
    BY <1>8 DEF Confirm
  <2>2. ctl'.stopped = ctl.stopped /\ ctl'.critical = ctl.critical
    BY <2>1 DEF TypeOK, Control
  <2> QED BY <2>1, <2>2 DEF StopInv
<1>9. CASE (\E dry \in BOOLEAN : InstallStarts(dry)) \/ Recover
  <2>1. StartControl /\ worker'.at \in {"prepare", "recover"}
    BY <1>9 DEF InstallStarts, Recover
  <2> QED BY <2>1, ControlFlags DEF StopInv
<1>10. CASE Killed \/ RecoverStopped
  <2>1. FinishControl /\ history' = history /\ worker'.at \in {"closed", "idle"}
    BY <1>10 DEF Killed, RecoverStopped, Quiet
  <2> QED BY <2>1, ControlFlags DEF StopInv
<1>11. CASE Prepare
  <2>1. PICK s \in {"download", "read"} : \E r : worker' = [worker EXCEPT !.at = s, !.release = r]
    BY <1>11 DEF Prepare
  <2>2. worker \in Operation /\ history' = history /\ ctl' = ctl
    BY <1>11, InOperation DEF Prepare, At, Quiet
  <2>3. worker'.at = s
    BY <2>1, <2>2 DEF Operation
  <2> QED BY <2>2, <2>3 DEF StopInv
<1>12. CASE PrepareFails \/ ReadBundle \/ Download \/ Export \/ Prepared
  BY <1>1, <1>2, <1>12 DEF PrepareFails, ReadBundle, Download, Export, Prepared, RootChannel, At, Quiet, OperationSteps
<1>13. CASE PrepareUnlock
  <2>1. CASE \E outcome : End(outcome)
    BY <1>1, <2>1
  <2>2. CASE Goto("approve") /\ Quiet /\ ctl' = [ctl EXCEPT !.waiting = TRUE, !.approval = None]
    <3>1. ctl'.stopped = ctl.stopped /\ ctl'.critical = ctl.critical
      BY <2>2 DEF TypeOK, Control
    <3>2. worker'.at = "approve"
      BY <1>13, <2>2, GotoMoves DEF PrepareUnlock, At, OperationSteps, Moved
    <3> QED BY <2>2, <3>1, <3>2 DEF StopInv, Quiet
  <2> QED BY <1>13, <2>1, <2>2 DEF PrepareUnlock
<1>14. CASE Approved
  <2>1. CASE \E outcome : End(outcome)
    BY <1>1, <2>1
  <2>2. CASE ~ctl.stopped /\ Quiet /\ ctl' = [ctl EXCEPT !.waiting = FALSE, !.critical = TRUE]
    <3>1. ctl'.critical
      BY <2>2 DEF TypeOK, Control
    <3> QED BY <2>2, <3>1 DEF StopInv, Quiet
  <2> QED BY <1>14, <2>1, <2>2 DEF Approved
<1>15. CASE Upload
  <2>1. worker.at = "upload" /\ history' = history /\ ctl' = ctl /\ \E s \in {"wait", "lost"} : Goto(s)
    BY <1>15 DEF Upload, At, Quiet
  <2> QED BY <1>2, <2>1 DEF OperationSteps
<1>16. CASE WaitForModem
  BY <1>1, <1>2, <1>16 DEF WaitForModem, At, Quiet, OperationSteps
<1>17. CASE Verified
  <2>1. CASE \E outcome : End(outcome)
    BY <1>1, <2>1
  <2>2. CASE EnterCritical /\ Quiet
    BY <2>2, ControlFlags DEF StopInv, Quiet
  <2> QED BY <1>17, <2>1, <2>2 DEF Verified
<1>18. CASE BeginTransaction
  <2>1. /\ worker' = [worker EXCEPT !.at = "begun", !.id = begun + 1] /\ ctl' = ctl /\ worker.at = "begin"
        /\ history' = [history EXCEPT !.files[begun + 1] = dev.files]
    BY <1>18 DEF BeginTransaction, At
  <2>2. worker'.at = "begun" /\ history'.refused = history.refused
    <3>1. worker \in Operation /\ history \in [files : [Ids -> [Targets -> Versions]], refused : BOOLEAN]
      BY <2>1, InOperation DEF TypeOK
    <3>2. worker'.at = "begun"
      BY <2>1, <3>1 DEF Operation
    <3>3. history'.refused = history.refused
      BY <2>1, <3>1
    <3> QED BY <3>2, <3>3
  <2> QED BY <2>1, <2>2 DEF StopInv
<1>19. CASE Begun \/ Completed \/ Undone \/ Recovered
  BY <1>1, <1>2, <1>19 DEF Begun, Completed, Undone, Recovered, Awaited, At, Quiet, OperationSteps
<1>20. CASE DeployAgent \/ Harden \/ DeployDashboard \/ WriteManifest \/ Complete \/ Undo
  <2>1. Phase(1) \/ Phase(2) \/ Phase(3) \/ Phase(4) \/ Complete \/ Undo
    BY <1>20 DEF DeployAgent, Harden, DeployDashboard, WriteManifest
  <2> QED BY <1>2, <2>1 DEF Phase, Complete, Undo, At, Quiet, OperationSteps
<1>21. ASSUME NEW n \in 1..4, PhaseEnds(n)
      PROVE  StopInv'
  <2>1. worker.at = "deployed" /\ ctl' = ctl /\ history' = history
    BY <1>21 DEF PhaseEnds, Awaited, At, Quiet
  <2>2. CASE Goto("undo")
    BY <1>2, <2>1, <2>2 DEF OperationSteps
  <2>3. CASE worker' = [worker EXCEPT !.at = "deploy", !.phase = n + 1]
    <3>1. worker \in Operation
      BY <2>1, InOperation
    <3>2. worker'.at = "deploy"
      BY <2>3, <3>1 DEF Operation
    <3> QED BY <2>1, <3>2 DEF StopInv
  <2> QED BY <1>21, <2>2, <2>3 DEF PhaseEnds
<1>22. CASE Reboot
  <2>1. worker.at = "deploy" /\ ctl' = ctl /\ history' = history
    BY <1>22 DEF Reboot, At, Quiet
  <2>2. CASE Goto("undo")
    BY <1>2, <2>1, <2>2 DEF OperationSteps
  <2>3. CASE worker' = [worker EXCEPT !.phase = @ + 1]
    <3>1. worker \in Operation
      BY <2>1, InOperation
    <3>2. worker'.at = "deploy"
      BY <2>1, <2>3, <3>1 DEF Operation
    <3> QED BY <2>1, <3>2 DEF StopInv
  <2> QED BY <1>22, <2>2, <2>3 DEF Reboot
<1>23. CASE RecoverRuns
  <2>1. worker'.at = "recovering"
    BY <1>23, GotoMoves DEF RecoverRuns, At, OperationSteps, Moved
  <2> QED BY <1>23, <2>1, ControlFlags DEF RecoverRuns, StopInv, Quiet
<1> QED BY <1>4, <1>5, <1>6, <1>7, <1>8, <1>9, <1>10, <1>11, <1>12, <1>13, <1>14, <1>15, <1>16, <1>17, <1>18, <1>19,
           <1>20, <1>21, <1>22, <1>23
        DEF Next, Worker, VerifyAgent, VerifySsh, VerifyDashboard, VerifyManifest

\* Only the upload of a patched backup unlocks the modem, and only a transaction's start counts one.
LEMMA UnlockSteps ==
  ASSUME InstallerConstants, DeployInv, [Next]_vars, ~Upload, ~BeginTransaction
  PROVE  begun' = begun /\ dev'.unlocked = dev.unlocked
<1>1. CASE CommandStep \/ OrphanStep \/ CommandFails \/ CommandAbandoned \/ PowerLoss
  <2>1. begun' = begun
    BY <1>1 DEF CommandStep, OrphanStep, CommandFails, CommandAbandoned, PowerLoss, Host
  <2>2. ASSUME NEW c \in orphans \cup {cmd}, c # None, ~Answered(c), dev' = Outcome(c).dev
        PROVE  dev'.unlocked = dev.unlocked
    <3>1. dev \in Modem /\ c \in Command /\ (c.at = "install" => c.release # None)
      BY <2>2, RunningCommand DEF DeployInv
    <3> QED BY <2>2, <3>1, OutcomeType
  <2>3. CASE CommandStep
    BY <2>1, <2>2, <2>3 DEF CommandStep
  <2>4. CASE OrphanStep
    <3>1. PICK c \in orphans : dev' = Outcome(c).dev
      BY <2>4 DEF OrphanStep
    <3>2. c # None /\ ~Answered(c)
      BY DEF DeployInv, TypeOK, OperationInv, CommandsInv, InstallerConstants
    <3> QED BY <2>1, <2>2, <3>1, <3>2
  <2>5. CASE CommandFails
    <3>1. cmd \in Command /\ dev \in Modem
      BY <2>5 DEF CommandFails, DeployInv, TypeOK
    <3>2. PICK f \in Failures(cmd) : dev' = f.dev
      BY <2>5 DEF CommandFails
    <3>3. FailsTo(cmd, dev', f.cmd)
      BY <3>1, <3>2, FaultOutcome
    <3> QED BY <2>1, <3>3 DEF FailsTo, Became
  <2>6. CASE CommandAbandoned \/ PowerLoss
    BY <2>1, <2>6 DEF CommandAbandoned, PowerLoss
  <2> QED BY <1>1, <2>3, <2>4, <2>5, <2>6
<1>2. CASE ~(CommandStep \/ OrphanStep \/ CommandFails \/ CommandAbandoned \/ PowerLoss)
  <2>1. CASE Stop \/ (\E a \in BOOLEAN : Confirm(a)) \/ DetectBegins \/ DetectEnds \/ Invalidate
             \/ (\E dry \in BOOLEAN : InstallStarts(dry)) \/ Recover
             \/ Published \/ Killed \/ Closed \/ Reopened \/ UNCHANGED vars
    BY <2>1 DEF Stop, Confirm, DetectBegins, DetectEnds, Invalidate, InstallStarts, Recover, Published, Killed,
                Closed, Reopened, Device, vars
  <2>2. CASE \/ Prepare \/ PrepareFails \/ ReadBundle \/ Download \/ Export \/ Prepared \/ PrepareUnlock \/ Approved
             \/ WaitForModem \/ Verified \/ Begun \/ Reboot \/ Complete \/ Completed \/ Undo \/ Undone
             \/ RecoverStopped \/ RecoverRuns \/ Recovered
    BY <2>2 DEF Prepare, PrepareFails, ReadBundle, Download, Export, Prepared, PrepareUnlock, Approved, WaitForModem,
                Verified, Begun, Reboot, Complete, Completed, Undo, Undone, RecoverStopped, RecoverRuns, Recovered,
                Device
  <2>3. CASE \/ DeployAgent \/ Harden \/ DeployDashboard \/ WriteManifest
             \/ VerifyAgent \/ VerifySsh \/ VerifyDashboard \/ VerifyManifest
    BY <2>3 DEF DeployAgent, Harden, DeployDashboard, WriteManifest, VerifyAgent, VerifySsh, VerifyDashboard,
                VerifyManifest, Phase, PhaseEnds
  <2> QED BY <1>2, <2>1, <2>2, <2>3 DEF Next, Worker
<1> QED BY <1>1, <1>2

\* After a stop that was accepted the operation changes nothing (Control::stop, await_approval,
\* enter_critical).
THEOREM StopsAreKept == Spec => StopIsKept
<1> DEFINE Kept == history.refused /\ history'.refused =>
                     ~ctl'.critical /\ begun' = begun /\ dev'.unlocked = dev.unlocked
<1>1. Init => StopInv
  BY DEF Init, StopInv
<1>2. DeployInv /\ StopInv /\ [Next]_vars => StopInv'
  BY StopStep DEF DeployInv
<1>3. DeployInv /\ StopInv /\ StopInv' /\ [Next]_vars => Kept
  <2> SUFFICES ASSUME DeployInv, StopInv, StopInv', [Next]_vars, history.refused, history'.refused
               PROVE  ~ctl'.critical /\ begun' = begun /\ dev'.unlocked = dev.unlocked
    OBVIOUS
  <2>1. ~ctl'.critical /\ ~ctl.critical
    BY DEF StopInv
  <2>2. ~Upload /\ ~BeginTransaction
    BY <2>1 DEF StopInv, Upload, BeginTransaction, At
  <2> QED BY <2>1, <2>2, UnlockSteps, InstallerConstants
<1>4. Spec => []StopInv
  BY <1>1, <1>2, DeployInvariant, PTL DEF Spec
<1> QED BY <1>3, <1>4, DeployInvariant, PTL DEF Spec, StopIsKept
=============================================================================
