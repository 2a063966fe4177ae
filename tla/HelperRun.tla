------------------------------- MODULE HelperRun -------------------------------
(***************************************************************************)
(* One helper process and the agent that runs it: process-runner/src/      *)
(* lib.rs (output_with_grace() for a read, LineSession for a download) and *)
(* the calls in agent/src/esim.rs.  At the runner's deadline, a margin     *)
(* after the helper's own, the group gets SIGTERM and its standard input   *)
(* is closed; after the grace it is killed.                                *)
(*                                                                         *)
(* Time is the order in which the limits pass.  Past its own deadline the  *)
(* helper waits only for the close of its channel, which has an allowance, *)
(* and inside a server call, whose name lookup and TLS handshake have no   *)
(* limit: the runner ends that.                                            *)
(***************************************************************************)
EXTENDS RspSession

CONSTANTS
  CloseAllowance,   \* CLOSE_ALLOWANCE, in seconds
  Margin,           \* per operation, the runner's deadline after the helper's
  Grace             \* HELPER_GRACE

ASSUME RunConstants == CloseAllowance \in Nat /\ Grace \in Nat /\ Margin \in [{"read", "download"} -> Nat]

VARIABLE
  agent    \* the runner: "reading", "stopping" (SIGTERM sent), "over" or "dead"; what the run
           \* gave the agent (outcome), the progress lines read (seen), the control lines sent,
           \* whether the helper was held in a server call when the time was up (held)

vars == <<uim, modem, stop, helper, card, server, clock, budget, agent>>
procedure == <<uim, modem, card, server>>

RunInit == Init /\ agent = [state |-> "reading", outcome |-> None, seen |-> 0, sent |-> {}, held |-> FALSE]

Alive   == helper.pc \notin Over
Running == agent.state \in {"reading", "stopping"}
Closed  == IF Download THEN [helper EXCEPT !.ctl = Append(@, "cancel")] ELSE helper   \* end of input
Gone    == IF Alive THEN [helper EXCEPT !.pc = "killed"] ELSE helper
Ended(outcome) == agent' = [agent EXCEPT !.state = "over", !.outcome = outcome]

\* next_line() with a progress line: the agent sees the preview, then the install.
ReadProgress ==
  /\ Running /\ agent.seen < helper.said
  /\ agent' = [agent EXCEPT !.seen = @ + 1]
  /\ UNCHANGED <<procedure, stop, helper, clock, budget>>

\* A control line: a decision at the preview, or a cancel before the install is seen.
SendControl(c) ==
  /\ agent.state = "reading" /\ Alive /\ Download /\ budget.lines < budget.max.lines
  /\ IF c = "cancel" THEN agent.seen < 2
     ELSE agent.seen = 1 /\ agent.sent \cap {"install", "decline", "timeout"} = {}
  /\ helper' = [helper EXCEPT !.ctl = Append(@, c)]
  /\ agent' = [agent EXCEPT !.sent = @ \cup {c}]
  /\ budget' = [budget EXCEPT !.lines = @ + 1]
  /\ UNCHANGED <<procedure, stop, clock>>

\* output_with_grace(): the output of a read, once the helper has exited and its pipes are
\* closed, also in the grace.
CollectOutput ==
  /\ Running /\ ~Download /\ helper.pc = "exited" /\ Ended(helper.end.result)
  /\ UNCHANGED <<procedure, stop, helper, clock, budget>>

\* next_line() with the answer, the last line of a download; dropping the session stops and
\* reaps the helper, which has let the card go by then.
ReadAnswer ==
  /\ Running /\ Download /\ helper.pc = "exited" /\ agent.seen = helper.said
  /\ Ended(helper.end.result)
  /\ UNCHANGED <<procedure, stop, helper, clock, budget>>

\* End of output without an answer.
ReadEof ==
  /\ Running /\ helper.pc = "killed" /\ agent.seen = helper.said
  /\ Ended("garbled")
  /\ UNCHANGED <<procedure, stop, helper, clock, budget>>

Terminate ==
  /\ agent.state = "reading" /\ clock = 3
  /\ agent' = [agent EXCEPT !.state = "stopping"]
  /\ stop' = (stop \/ Alive) /\ helper' = IF Alive THEN Closed ELSE helper
  /\ UNCHANGED <<procedure, clock, budget>>

\* Mutant: after the grace the runner goes on waiting for the helper.
Kill_WaitsForExit ==
  /\ agent.state = "stopping" /\ clock = 4 /\ ~Alive
  /\ UNCHANGED helper /\ Ended("killed")
  /\ UNCHANGED <<procedure, stop, clock, budget>>
Kill ==
  /\ agent.state = "stopping" /\ clock = 4
  /\ helper' = Gone /\ Ended("killed")
  /\ UNCHANGED <<procedure, stop, clock, budget>>

\* An error of a pipe, or more output than the limit: killed without notice.
PipeFails ==
  /\ Running /\ CanFault /\ Fault(TRUE)
  /\ helper' = Gone /\ Ended("garbled")
  /\ UNCHANGED <<procedure, stop, clock>>

(***************************************************************************)
(* Outside: the clock, a stop signal to every process, deaths.             *)
(***************************************************************************)
Closing == helper.pc = "close"
Calling == helper.pc \in ServerSteps
Passes(limit) == Calling \/ (Closing /\ CloseAllowance >= limit)
Tick ==
  /\ Alive
  /\ \/ clock < 2 /\ UNCHANGED agent
     \/ /\ clock = 2 /\ Passes(Margin[budget.max.op])
        /\ agent' = [agent EXCEPT !.held = Calling]
     \/ /\ clock = 3 /\ agent.state = "stopping" /\ (agent.held \/ Passes(Margin[budget.max.op] + Grace))
        /\ UNCHANGED agent
  /\ clock' = clock + 1
  /\ UNCHANGED <<procedure, stop, helper, budget>>

Shutdown ==
  /\ Alive /\ ~stop /\ budget.stops < budget.max.stops
  /\ stop' = TRUE /\ budget' = [budget EXCEPT !.stops = @ + 1]
  /\ UNCHANGED <<procedure, helper, clock, agent>>

\* The helper outlives the agent: its input ends, and nobody reads its answer.
AgentDies ==
  /\ Running /\ budget.max.dies /\ agent' = [agent EXCEPT !.state = "dead"]
  /\ helper' = IF Alive THEN Closed ELSE helper
  /\ UNCHANGED <<procedure, stop, clock, budget>>

HelperDies ==
  /\ Running /\ Alive /\ budget.max.dies /\ helper' = Gone
  /\ UNCHANGED <<procedure, stop, clock, budget, agent>>

Helper == HelperStep /\ UNCHANGED agent
Modem  == ModemServes /\ UNCHANGED agent
Runner == ReadProgress \/ CollectOutput \/ ReadAnswer \/ ReadEof \/ Terminate \/ Kill
Next ==
  \/ Helper \/ Modem \/ Runner
  \/ \E c \in {"install", "decline", "timeout", "cancel"} : SendControl(c)
  \/ PipeFails \/ Tick \/ Shutdown \/ AgentDies \/ HelperDies

\* Time passes, the runner looks at it, and the helper goes on unless it is held in a server
\* call.  Nothing makes the modem answer or a server call end.
Spec == RunInit /\ [][Next]_vars /\ WF_vars(Tick) /\ WF_vars(Runner) /\ WF_vars(Steps /\ UNCHANGED agent)

(***************************************************************************)
(* Properties.                                                             *)
(***************************************************************************)
\* What the run said, in the words of InstallPromise: "ok" with the receipt's number is an
\* install; "ok" without one, an unknown outcome and a run without an answer leave it open.
Told ==
  IF agent.state # "over" THEN None
  ELSE CASE agent.outcome = "ok" /\ Download /\ helper.end.receipt   -> "installed"
         [] agent.outcome \in {"cancelled", "failed", "not_started"} -> "nothing"
         [] agent.outcome = "ok" /\ ~Download                        -> "nothing"
         [] OTHER                                                    -> "unknown"
Promise == INSTANCE InstallPromise WITH consent <- "install" \in agent.sent, installed <- card.profile, told <- Told

\* download(), load_bound_profile_package() and LineSession implement InstallPromise: late and
\* lost answers, stop signals, a cancel racing the install and deaths included.
KeepsPromise == Promise!Spec

\* note_channel_leak(): a logical channel left open on the card is not silent.  Once the run is
\* over, a channel the modem still holds was reported as a leak, or the run gave no answer at
\* all, or the modem never said which channel it had opened (qrtr_uim.rs:394: that open is
\* answered as failed, and the run reports no leak).
LeakIsReported ==
  agent.state = "over" /\ modem.open /\ ~modem.nameless
    => uim.leak \/ agent.outcome \in {"killed", "garbled"}

\* From the first segment on neither a stop signal nor a cancel ends the install: it breaks
\* off only over a fault of the card, the modem or the package, or at the deadline.
InstallRunsToTheEnd ==
  [][uim.installing /\ helper.pc = "load" /\ helper'.pc # "load" /\ helper'.end # None /\ helper'.end.result = "unknown"
       => budget'.faults > 0 \/ clock >= 2]_vars

\* The operator's order follows the user: it is rejected only by a decline, and a cancel, a
\* decline or a preview left unanswered reaches the card and the server with its own reason
\* when nothing failed on the way and no stop signal came.
OrderFollowsUser ==
  /\ server.order = "endUserRejection" => "decline" \in agent.sent
  /\ agent.state = "over" /\ agent.outcome = "cancelled" /\ card.session # "none"
       /\ budget.faults = 0 /\ ~stop /\ clock < 2
     => card.session = helper.end.reason /\ server.order = helper.end.reason

\* Every run ends: the helper exits or is killed, and the agent has its outcome, whether or not
\* the modem answers and the server calls end.  Only a helper whose agent died has nobody to
\* end a server call for it.
RunEnds ==
  \/ <>(helper.pc \in Over /\ agent.state \in {"over", "dead"})
  \/ <>[](agent.state = "dead" /\ Calling)
===============================================================================
