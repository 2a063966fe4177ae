------------------------------ MODULE EsimDetect ------------------------------
(***************************************************************************)
(* agent/src/esim.rs: what the slot holds.  The heartbeat starts detect()  *)
(* in the background; detect() skips the card read while the modem's SIM   *)
(* description (sim_key) is the one it saw last.  An eSIM card that        *)
(* reloads after a change and an ordinary SIM give the same answer         *)
(* (absorb_read()).  Changes themselves are EsimSwitch's.                  *)
(***************************************************************************)
EXTENDS Naturals

CONSTANTS
  Cards,       \* eSIM cards
  Plain,       \* ordinary SIMs
  Operator,    \* what the modem reports of each: country, network and name
  MaxSwaps,    \* bound: SIMs exchanged in the slot
  MaxChanges,  \* bound: eSIM changes
  MaxFaults,   \* bound: reads that fail for another reason
  None

Sims == Cards \cup Plain

ASSUME DetectConstants ==
  /\ Cards \cap Plain = {} /\ Sims # {} /\ None \notin Sims
  /\ MaxSwaps \in Nat /\ MaxChanges \in Nat /\ MaxFaults \in Nat

VARIABLES
  sim,       \* the SIM in the slot
  loaded,    \* the modem has loaded it: "sim ready"
  recent,    \* an eSIM change: "none", "running", or "ended" within the reload window
  status,    \* Inner::status
  inv,       \* the card of Inner::inventory, or None
  known,     \* Inner::card, or None
  simKey,    \* Inner::sim_key, or None
  detect,    \* detect()'s position and the key it read
  budget

vars == <<sim, loaded, recent, status, inv, known, simKey, detect, budget>>

Statuses == {"detecting", "ready", "unsupported", "unavailable", "helper_missing"}
Keys == [loaded : BOOLEAN, operator : {Operator[s] : s \in Sims} \cup {None}]

\* The values the variables range over.
TypeOK ==
  /\ sim \in Sims /\ loaded \in BOOLEAN
  /\ recent \in {"none", "running", "ended"}
  /\ status \in Statuses
  /\ inv \in Cards \cup {None} /\ known \in Cards \cup {None}
  /\ simKey \in Keys \cup {None}
  /\ detect.at \in {"off", "key", "check", "read", "end"}
  /\ detect.key \in Keys \cup {None}

Init ==
  /\ sim \in Sims /\ loaded \in BOOLEAN /\ recent = "none"
  /\ status = "detecting" /\ inv = None /\ known = None /\ simKey = None
  /\ detect = [at |-> "off", key |-> None]
  /\ budget = [swaps |-> 0, changes |-> 0, faults |-> 0]

(***************************************************************************)
(* The modem.                                                              *)
(***************************************************************************)
Swap ==
  /\ budget.swaps < MaxSwaps
  /\ budget' = [budget EXCEPT !.swaps = @ + 1]
  /\ sim' \in Sims \ {sim} /\ loaded' = FALSE
  /\ UNCHANGED <<recent, status, inv, known, simKey, detect>>

SimLoads ==
  /\ ~loaded /\ loaded' = TRUE
  /\ UNCHANGED <<sim, recent, status, inv, known, simKey, detect, budget>>

\* sim_key(): what get_sim_info answers now; a SIM not loaded yet has no operator.
SimKey == [loaded |-> loaded, operator |-> IF loaded THEN Operator[sim] ELSE None]

(***************************************************************************)
(* absorb_read(): how a read of the card changes the status.  `reload' is  *)
(* TRUE while an eSIM card may be reloading after a change.                *)
(***************************************************************************)
InChange == recent # "none"

Answers(reload) ==
  (IF sim \in Cards /\ loaded /\ ~reload THEN {"ok"} ELSE {"isdr_unavailable"})
    \cup (IF budget.faults < MaxFaults THEN {"transport", "read_failed", "missing"} ELSE {})

AbsorbRead(answer) ==
  CASE answer = "ok" ->
         status' = "ready" /\ inv' = sim /\ known' = sim
    [] answer = "isdr_unavailable" /\ known # None /\ (InChange \/ ~loaded) ->
         UNCHANGED <<status, inv, known>>
    [] answer = "isdr_unavailable" /\ ~(known # None /\ (InChange \/ ~loaded)) ->
         status' = "unsupported" /\ inv' = None /\ UNCHANGED known
    [] answer = "transport" ->
         status' = (IF known = None THEN "unavailable" ELSE status) /\ UNCHANGED <<inv, known>>
    [] answer = "missing" -> status' = "helper_missing" /\ UNCHANGED <<inv, known>>
    [] OTHER -> UNCHANGED <<status, inv, known>>

\* A card may answer as if it were not there for as long as its change is recent.
ReadCard ==
  \E reload \in IF InChange THEN BOOLEAN ELSE {FALSE} :
    \E answer \in Answers(reload) :
      /\ AbsorbRead(answer)
      /\ budget' = IF answer \in {"ok", "isdr_unavailable"} THEN budget
                   ELSE [budget EXCEPT !.faults = @ + 1]

(***************************************************************************)
(* summary() and detect().                                                 *)
(***************************************************************************)
Summary ==
  /\ detect.at = "off" /\ recent # "running"
  /\ detect' = [at |-> "key", key |-> None]
  /\ UNCHANGED <<sim, loaded, recent, status, inv, known, simKey, budget>>

DetectKey ==
  /\ detect.at = "key"
  /\ \/ /\ detect' = [at |-> "check", key |-> SimKey] /\ UNCHANGED budget
     \/ \* the modem does not answer
        /\ budget.faults < MaxFaults
        /\ budget' = [budget EXCEPT !.faults = @ + 1]
        /\ detect' = [at |-> "check", key |-> None]
  /\ UNCHANGED <<sim, loaded, recent, status, inv, known, simKey>>

Skips_AnyKey ==
  status = "unsupported" \/ (status = "ready" /\ inv # None)

Skips ==
  /\ detect.key # None /\ detect.key = simKey
  /\ status = "unsupported" \/ (status = "ready" /\ inv # None)

DetectCheck ==
  /\ detect.at = "check"
  /\ detect' = [detect EXCEPT !.at = IF Skips THEN "end" ELSE "read"]
  /\ UNCHANGED <<sim, loaded, recent, status, inv, known, simKey, budget>>

DetectRead ==
  /\ detect.at = "read"
  /\ ReadCard
  /\ detect' = [detect EXCEPT !.at = "end"]
  /\ UNCHANGED <<sim, loaded, recent, simKey>>

DetectEnd ==
  /\ detect.at = "end"
  /\ simKey' = detect.key
  /\ detect' = [at |-> "off", key |-> None]
  /\ UNCHANGED <<sim, loaded, recent, status, inv, known, budget>>

\* profiles(): only for somebody who has the eSIM tab open.
Profiles ==
  /\ recent # "running" /\ status \notin {"unsupported", "helper_missing"}
  /\ ReadCard
  /\ UNCHANGED <<sim, loaded, recent, simKey, detect>>

(***************************************************************************)
(* An eSIM change runs, ends, and the reload window after it closes.  Its  *)
(* read-backs absorb reads as well.                                        *)
(***************************************************************************)
ChangeStarts ==
  /\ recent # "running" /\ inv # None /\ budget.changes < MaxChanges
  /\ recent' = "running"
  /\ budget' = [budget EXCEPT !.changes = @ + 1]
  /\ UNCHANGED <<sim, loaded, status, inv, known, simKey, detect>>

ChangeReads ==
  /\ recent = "running" /\ ReadCard
  /\ UNCHANGED <<sim, loaded, recent, simKey, detect>>

ChangeEnds ==
  /\ recent = "running" /\ recent' = "ended"
  /\ UNCHANGED <<sim, loaded, status, inv, known, simKey, detect, budget>>

WindowCloses ==
  /\ recent = "ended" /\ recent' = "none"
  /\ UNCHANGED <<sim, loaded, status, inv, known, simKey, detect, budget>>

Next ==
  \/ Swap \/ SimLoads
  \/ Summary \/ DetectKey \/ DetectCheck \/ DetectRead \/ DetectEnd
  \/ Profiles
  \/ ChangeStarts \/ ChangeReads \/ ChangeEnds \/ WindowCloses

\* The dashboard polls the heartbeat, threads run, changes end and SIMs load.  Nobody
\* has to open the eSIM tab.
Fairness ==
  /\ WF_vars(Summary) /\ WF_vars(DetectKey) /\ WF_vars(DetectCheck) /\ WF_vars(DetectRead) /\ WF_vars(DetectEnd)
  /\ WF_vars(SimLoads) /\ WF_vars(ChangeEnds) /\ WF_vars(WindowCloses)

Spec == Init /\ [][Next]_vars /\ Fairness

(***************************************************************************)
(* Properties                                                              *)
(***************************************************************************)

StatusIsRight ==
  IF sim \in Cards THEN status = "ready" /\ inv = sim ELSE status = "unsupported"

\* docs/AGENT.md:93-102: with the heartbeat polled, the status comes to match a SIM put in
\* the slot at any point of a detection, unless it is exchanged again, a read fails, or an
\* eSIM change has been made.
Disturbed == budget.swaps > 1 \/ budget.faults > 0 \/ budget.changes > 0

StatusFollowsSim == \A s \in Sims : (sim = s) ~> (sim # s \/ StatusIsRight \/ Disturbed)

===============================================================================
