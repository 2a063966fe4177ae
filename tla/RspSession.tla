------------------------------ MODULE RspSession ------------------------------
(***************************************************************************)
(* The helper process: one run of zte-esim (esim-helper/src/main.rs), for  *)
(* a read of the card or for a profile download (esim-helper/src/          *)
(* download.rs) over the card commands of euicc/src/download.rs and the    *)
(* server calls of euicc/src/es9p.rs and esim-helper/src/https.rs.         *)
(*                                                                         *)
(* Codes, certificates, signatures and the profile's contents are left     *)
(* out; an answer is told apart by what the procedure does with it.  The   *)
(* card and the operator's server are external: the card keeps one RSP     *)
(* session, the server one order.                                          *)
(***************************************************************************)
EXTENDS UimChannel, FiniteSets

CONSTANTS
  Segments,   \* segments of a whole profile package
  Bounds      \* what one run is bounded by: its operation (op), the faults of the modem, the
              \* card, the network and the server (faults), stop signals from outside (stops),
              \* control lines (lines) and whether the agent or the helper may die (dies)

\* The reasons CancelSession carries (euicc/src/rsp.rs).
Reasons == {"endUserRejection", "postponed", "timeout", "undefined", "loadBppError"}

\* A request to the modem, and how a run ends: the reason to cancel the card session with (None:
\* nothing to cancel), whether the server is told, the result for the agent, and whether that
\* carries the number of a receipt.
Message ==
  [txn : Nat, kind : {"open", "close", "apdu"},
   cmd : [name : {"open", "close", "read", "challenge", "authenticate", "prepare", "load", "cancel"}, reason : Reasons \cup {None}]]
Ending ==
  [result : {"ok", "failed", "cancelled", "unknown", "not_started"}, reason : Reasons \cup {None}, notify : BOOLEAN, receipt : BOOLEAN]

ASSUME SessionConstants ==
  /\ Segments \in Nat \ {0, 1}
  /\ None \notin Message \cup Ending \cup Reasons \cup {"installed", "nothing", "unknown"}
  /\ Bounds \subseteq [op : {"read", "download"}, faults : Nat, stops : Nat, lines : Nat, dies : BOOLEAN]

VARIABLES
  helper,   \* the process: where it is (pc), whether the card session is known (session), the
            \* package's plan and the next segment, how the run ended (end), the control lines
            \* not read yet (ctl), the progress lines printed (said)
  card,     \* its RSP session, the segments it took, the profile, the receipt of the session
  server,   \* the order at the operator and the RSP session there
  clock,    \* 0 plenty of time, 1 less than INSTALL_MIN left, 2 the helper's deadline is past,
            \* 3 the runner's too, 4 the runner's grace as well
  budget    \* faults, stops and lines so far, and the bounds: max

CardSteps   == {"read", "challenge", "authenticate", "prepare", "load", "cancel"}
ServerSteps == {"initiate", "client", "package", "inform"}
Over        == {"exited", "killed"}

Init ==
  /\ uim = Client /\ modem = [wire |-> <<>>, back |-> <<>>, open |-> FALSE, nameless |-> FALSE] /\ stop = FALSE
  /\ helper = [pc |-> "connect", session |-> FALSE, plan |-> <<>>, seg |-> 1, end |-> None, ctl |-> <<>>, said |-> 0]
  /\ card = [session |-> "none", took |-> 0, profile |-> FALSE]
  /\ server = [at |-> "none", order |-> "free"]
  /\ clock = 0
  /\ \E b \in Bounds : budget = [faults |-> 0, stops |-> 0, lines |-> 0, max |-> b]

CanFault == budget.faults < budget.max.faults
Fault(f) == budget' = IF f THEN [budget EXCEPT !.faults = @ + 1] ELSE budget
Download == budget.max.op = "download"

(***************************************************************************)
(* How a run ends: what Stop carries is an Ending.                         *)
(***************************************************************************)
Stop(result, reason, notify) == [result |-> result, reason |-> reason, notify |-> notify, receipt |-> FALSE]
Failed(reason)   == Stop("failed", reason, TRUE)
StopUser(c)      ==
  Stop("cancelled", CASE c = "decline" -> "endUserRejection" [] c = "timeout" -> "timeout" [] OTHER -> "postponed", TRUE)
StopCard(lost)   == Failed(IF lost THEN "timeout" ELSE "undefined")
StopServer(r)    ==
  CASE r \in {"transport", "status"} -> Failed("timeout")
    [] r = "reported"                -> Stop("failed", "undefined", FALSE)
    [] OTHER                         -> Failed("undefined")

\* cancelled(ctl): a stop signal, or a Cancel among the lines not read yet; reading it drops
\* the lines up to it, or all of them.
Pressed == stop \/ \E i \in DOMAIN helper.ctl : helper.ctl[i] = "cancel"
Drained ==
  LET read == {i \in DOMAIN helper.ctl : \A j \in 1 .. i - 1 : helper.ctl[j] # "cancel"}
  IN IF stop THEN helper.ctl ELSE SubSeq(helper.ctl, Cardinality(read) + 1, Len(helper.ctl))

\* Mutant: a late Cancel also replaces an unknown outcome.
Stopping_AnyEnding(s, known) ==
  LET e == IF s.reason # None /\ Pressed THEN StopUser("cancel") ELSE s
  IN [helper EXCEPT !.end = e, !.ctl = Drained, !.session = known,
                    !.pc = IF known /\ e.reason # None THEN "cancel" ELSE "close"]
\* download() after steps(): a Cancel pressed while the failing step ran means postpone, and a
\* card session that is known is cancelled, when there is a reason.
Stopping(s, known) ==
  LET asks == s.reason # None /\ s.result = "failed"
      e == IF asks /\ Pressed THEN StopUser("cancel") ELSE s
  IN [helper EXCEPT !.end = e, !.ctl = IF asks THEN Drained ELSE @, !.session = known,
                    !.pc = IF known /\ e.reason # None THEN "cancel" ELSE "close"]
Ends(s) == helper' = Stopping(s, helper.session)

\* Mutant: the card session is noted only after the look for a Cancel.
Checked_NotedLate(next, known) ==
  helper' = IF Pressed THEN [Stopping(StopUser("cancel"), helper.session) EXCEPT !.ctl = Drained]
            ELSE [helper EXCEPT !.pc = next, !.ctl = <<>>, !.session = known]
\* A step that succeeded, followed by the look for a Cancel.
Checked(next, known) ==
  helper' = IF Pressed THEN [Stopping(StopUser("cancel"), known) EXCEPT !.ctl = Drained]
            ELSE [helper EXCEPT !.pc = next, !.ctl = <<>>, !.session = known]

\* A run that ends before the operation: no channel yet, or the card could not be read.
NotStarted == helper' = [helper EXCEPT !.end = Stop("not_started", None, FALSE), !.pc = "answer"]
NotRead    == helper' = [helper EXCEPT !.end = Stop("not_started", None, FALSE), !.pc = "close"]

(***************************************************************************)
(* The package.  bpp_segments() plans the segments to send; `bad' is where *)
(* a part is missing.  Elements are read up to the first malformed one, so *)
(* a cut package gives a shorter plan and no error.                        *)
(***************************************************************************)
Packages == {"whole", "cut", "part_missing", "no_package"}
Plan(package) ==
  CASE package = "whole"        -> [i \in 1 .. Segments |-> "segment"]
    [] package = "cut"          -> [i \in 1 .. Segments - 1 |-> "segment"]
    [] package = "part_missing" -> Append([i \in 1 .. Segments - 1 |-> "segment"], "bad")
    [] package = "no_package"   -> <<"bad">>

(***************************************************************************)
(* The card (external): what a command does to it and what it answers.     *)
(* authenticate_server() passes on an answer that reports an error: the    *)
(* server judges it.                                                       *)
(***************************************************************************)
Took(c) == IF c.took + 1 = Segments THEN [session |-> "ended", took |-> Segments, profile |-> TRUE]
           ELSE [c EXCEPT !.took = @ + 1]
Execute(cmd, refuses) ==
  CASE cmd.name = "authenticate" -> IF refuses THEN {<<card, "ok">>, <<card, "bad">>}
                                    ELSE {<<[card EXCEPT !.session = "open"], "ok">>}
    [] cmd.name = "load"   -> IF card.session # "open" THEN {<<card, "bad">>}
                              ELSE IF refuses THEN {<<[card EXCEPT !.session = "ended"], "refused">>, <<card, "bad">>}
                              ELSE {<<Took(card), IF Took(card).profile THEN "installed" ELSE "more">>}
    [] cmd.name = "cancel" -> {<<[card EXCEPT !.session = IF @ = "open" THEN cmd.reason ELSE @], IF refuses THEN "bad" ELSE "ok">>}
    [] OTHER               -> {<<card, IF refuses THEN "bad" ELSE "ok">>}

\* `odd': the card refuses the command, or the answer to an open has no channel number.
ModemServes ==
  /\ modem.wire # <<>>
  /\ LET m == Head(modem.wire) IN
     \E ok \in BOOLEAN, odd \in BOOLEAN, delivered \in BOOLEAN :
       /\ odd => m.kind # "close"
       /\ Cardinality({x \in 1 .. 3 : <<~ok, odd, ~delivered>>[x]}) <= IF CanFault THEN 1 ELSE 0
       /\ Fault(~ok \/ odd \/ ~delivered)
       /\ \/ m.kind = "apdu" /\ ok /\ modem.open
             /\ \E r \in Execute(m.cmd, odd) : card' = r[1] /\ Serve(TRUE, r[2], delivered)
          \/ (m.kind = "apdu" => ~ok \/ ~modem.open)
             /\ card' = card /\ Serve(ok /\ m.kind # "apdu", IF odd THEN "no_id" ELSE "ok", delivered)
  /\ UNCHANGED <<uim, stop, helper, server, clock>>

(***************************************************************************)
(* The channel: Card::session(), Euicc::open() and the drop of both.       *)
(***************************************************************************)
Lookup(found) == (found \/ stop \/ clock >= 2 \/ CanFault) /\ Fault(~found /\ ~stop /\ clock < 2)

Connect ==
  /\ helper.pc = "connect"
  /\ \E found \in BOOLEAN :
       /\ Lookup(found)
       /\ IF found /\ ~stop THEN helper' = [helper EXCEPT !.pc = "open"] ELSE NotStarted
  /\ UNCHANGED <<uim, modem, stop, card, server, clock>>

OpenChannel ==
  /\ helper.pc = "open" /\ uim.pending = None /\ SendOpen
  /\ UNCHANGED <<stop, helper, card, server, clock, budget>>

CloseChannel ==
  /\ helper.pc = "close" /\ uim.pending = None /\ SendClose
  /\ UNCHANGED <<stop, helper, card, server, clock, budget>>

(***************************************************************************)
(* The card commands.  Lost is what the procedure does when a command      *)
(* fails on the way, Bad when the card answers with an error status or     *)
(* data that cannot be read.                                               *)
(***************************************************************************)
Lost == CASE helper.pc = "read"   -> NotRead
          [] helper.pc = "load"   -> Ends(Stop("unknown", "loadBppError", TRUE))
          [] helper.pc = "cancel" -> helper' = [helper EXCEPT !.pc = "close"]
          [] OTHER                -> Ends(StopCard(TRUE))
Bad == IF helper.pc \in {"read", "load", "cancel"} THEN Lost ELSE Ends(StopCard(FALSE))

\* Euicc::command() through the Guard: refused, or sent.
Command(cmd) ==
  /\ IF GuardAllows THEN SendApdu(cmd, cmd.name = "load") /\ UNCHANGED helper
     ELSE Lost /\ UNCHANGED <<uim, modem>>
  /\ UNCHANGED budget

\* A request built from what the server gave: given up before it is sent when a part of that
\* is missing.
Built(cmd) == \/ Command(cmd)
              \/ CanFault /\ Fault(TRUE) /\ Bad /\ UNCHANGED <<uim, modem>>

At(step) == helper.pc = step /\ uim.pending = None /\ UNCHANGED <<stop, card, server, clock>>

ReadCard           == At("read") /\ Command(Plain("read"))
GetChallenge       == At("challenge") /\ Command(Plain("challenge"))
\* The activation code asks for a confirmation code and none was given.
NeedsCode          == At("challenge") /\ CanFault /\ Fault(TRUE) /\ Ends(Stop("failed", None, TRUE)) /\ UNCHANGED <<uim, modem>>
AuthenticateServer == At("authenticate") /\ Built(Plain("authenticate"))
PrepareDownload    == At("prepare") /\ Built(Plain("prepare"))
CancelSession      == At("cancel") /\ Command([name |-> "cancel", reason |-> helper.end.reason])

\* load_bound_profile_package(): the next segment, or the place where a part is missing, which
\* is found only after the segments before it were sent.
LoadBoundProfilePackage ==
  /\ At("load")
  /\ IF helper.plan[helper.seg] = "segment" THEN Command(Plain("load"))
     ELSE Bad /\ UNCHANGED <<uim, modem, budget>>

\* The answer to one segment: nothing yet, the profile is in, or the card ended the session
\* with an error.  The last answer decides.
Loaded(data) ==
  IF data = "refused" THEN helper' = Stopping(Stop("failed", None, TRUE), FALSE)
  ELSE IF helper.seg = Len(helper.plan)
       THEN helper' = [helper EXCEPT !.pc = "close", !.end = [Stop("ok", None, FALSE) EXCEPT !.receipt = data = "installed"]]
       ELSE helper' = [helper EXCEPT !.seg = @ + 1]

\* What the procedure does with an answer.
Answered(data) ==
  IF data = "error" THEN IF helper.pc = "open" THEN NotStarted
                         ELSE IF helper.pc = "close" THEN helper' = [helper EXCEPT !.pc = "answer"] ELSE Lost
  ELSE IF data = "bad" THEN Bad
  ELSE CASE helper.pc = "open"   -> IF data = "no_id" THEN NotStarted ELSE helper' = [helper EXCEPT !.pc = "read"]
         [] helper.pc = "close"  -> helper' = [helper EXCEPT !.pc = "answer"]
         [] helper.pc = "read"   -> helper' = IF Download THEN [helper EXCEPT !.pc = "challenge"]
                                              ELSE [helper EXCEPT !.pc = "close", !.end = Stop("ok", None, FALSE)]
         [] helper.pc = "challenge"    -> Checked("initiate", FALSE)
         [] helper.pc = "authenticate" -> Checked("client", TRUE)
         [] helper.pc = "prepare"      -> Checked("package", TRUE)
         [] helper.pc = "load"         -> Loaded(data)
         [] helper.pc = "cancel"       -> helper' = [helper EXCEPT !.pc = IF helper.end.notify THEN "inform" ELSE "close"]

Receive ==
  /\ helper.pc \notin Over /\ HasAnswer
  /\ LET a == Head(modem.back) IN uim' = AfterAnswer(a.kind, a.data) /\ Answered(a.data)
  /\ modem' = [modem EXCEPT !.back = Tail(@)]
  /\ UNCHANGED <<stop, card, server, clock, budget>>

Skip == helper.pc \notin Over /\ SkipStale /\ UNCHANGED <<helper, card, server, clock, budget>>

\* The wait ends without an answer: the time is up (for a close, its own allowance), a stop
\* signal, or the modem's service went away while the answer was still to come.
GiveUp ==
  /\ helper.pc \notin Over /\ uim.pending # None /\ ~HasAnswer
  /\ LET p == uim.pending
         due == AnswerLost \/ (p.kind = "apdu" /\ Interruptible) \/ clock >= 2
     IN /\ due \/ CanFault
        /\ Fault(~due)
        /\ uim' = AfterLoss(p.kind)
        /\ CASE p.kind = "open"  -> NotStarted
             [] p.kind = "close" -> helper' = [helper EXCEPT !.pc = "answer"]
             [] OTHER            -> Lost
  /\ UNCHANGED <<modem, stop, card, server, clock>>

(***************************************************************************)
(* The server calls.  post() ends without an answer once stopped or late,  *)
(* as soon as it looks: its name lookup and TLS handshake have no limit.   *)
(* A connection that breaks off leaves a cut answer: an error when it was  *)
(* chunked, else a body that is not JSON.                                  *)
(***************************************************************************)
Posts == {"none", "cut_chunked", "cut", "status", "failure", "hollow", "whole"}
Received(a) == IF a = "cut_chunked" THEN "none" ELSE a

\* exchange() and read_response(): an error status, a failure the server reports, and a body
\* without the members asked for; one that has them is taken whatever its status says.
Reply(a) ==
  CASE Received(a) = "none"    -> "transport"
    [] Received(a) = "status"  -> "status"
    [] Received(a) = "failure" -> "reported"
    [] Received(a) = "whole"   -> "ok"
    [] OTHER                   -> "malformed"

\* One call with the answer a: the server takes it (s is the server then) unless it refuses
\* it or it never arrives.  An odd answer has its members and content the next step cannot
\* use.  `sound' says whether the server can answer as asked.
Call(step, sound, s, a, odd) ==
  /\ helper.pc = step
  /\ \E reached \in BOOLEAN :
       LET forced == stop \/ clock >= 2 IN
       /\ forced => a \in {"none", "cut_chunked"}
       /\ a # "none" => reached
       /\ a = "whole" => sound
       /\ a = "whole" \/ forced \/ CanFault \/ (~sound /\ a = "failure")
       /\ odd => a = "whole" /\ CanFault
       /\ Fault(odd \/ (a # "whole" /\ ~forced /\ CanFault))
       /\ server' = IF reached /\ a \notin {"status", "failure"} THEN s ELSE server
  /\ UNCHANGED <<uim, modem, stop, card, clock>>

InitiateAuthentication ==
  \E a \in Posts :
    /\ Call("initiate", TRUE, [server EXCEPT !.at = "begun"], a, FALSE)
    /\ IF Reply(a) = "ok" THEN Checked("authenticate", FALSE) ELSE Ends(StopServer(Reply(a)))

\* The preview follows, unless the metadata cannot be read, or the operator wants a
\* confirmation code nobody gave: postponed keeps the order open.
AuthenticateClient ==
  \E a \in Posts, odd \in BOOLEAN :
    /\ Call("client", card.session = "open", [server EXCEPT !.at = "client"], a, odd)
    /\ IF Reply(a) # "ok" THEN Ends(StopServer(Reply(a)))
       ELSE IF odd THEN \E reason \in {"undefined", "postponed"} : Ends(Failed(reason))
       ELSE helper' = [helper EXCEPT !.pc = "preview", !.said = 1]

\* Nothing is written unless enough time is left to finish.
GetBoundProfilePackage ==
  \E a \in Posts, odd \in BOOLEAN :
    /\ Call("package", TRUE, [server EXCEPT !.at = "bound"], a, odd)
    /\ IF Reply(a) # "ok" THEN Ends(StopServer(Reply(a)))
       ELSE IF Pressed THEN Checked("load", TRUE)
       ELSE IF clock > 0 THEN Ends(Failed("timeout"))
       ELSE \E p \in Packages : (odd <=> p # "whole")
              /\ helper' = [helper EXCEPT !.pc = "load", !.plan = Plan(p), !.said = 2, !.ctl = <<>>]

\* The server is told with the response the card signed; that it failed is only logged.
InformServer ==
  LET told == IF card.session \in Reasons THEN card.session ELSE server.order
  IN \E a \in Posts :
       /\ Call("inform", TRUE, [server EXCEPT !.order = told], a, FALSE)
       /\ helper' = [helper EXCEPT !.pc = "close"]

\* decision(): a stop signal counts as Cancel, then the next line; the wait has its own limit.
Decide ==
  /\ helper.pc = "preview"
  /\ \/ stop /\ Ends(StopUser("cancel"))
     \/ ~stop /\ helper.ctl # <<>>
        /\ LET h == [helper EXCEPT !.ctl = Tail(@)] IN
           helper' = IF Head(helper.ctl) = "install" THEN [h EXCEPT !.pc = "prepare"]
                     ELSE [Stopping(StopUser(Head(helper.ctl)), TRUE) EXCEPT !.ctl = Tail(helper.ctl)]
     \/ ~stop /\ helper.ctl = <<>> /\ Ends(StopUser("timeout"))
  /\ UNCHANGED <<uim, modem, stop, card, server, clock, budget>>

\* main(): the answer is the last line, printed after the card was let go.
PrintAnswer ==
  /\ helper.pc = "answer" /\ helper' = [helper EXCEPT !.pc = "exited"]
  /\ UNCHANGED <<uim, modem, stop, card, server, clock, budget>>

\* The server calls, and every other step: those come to an end in the time they have.
Calls == InitiateAuthentication \/ AuthenticateClient \/ GetBoundProfilePackage \/ InformServer
Steps ==
  \/ Connect \/ OpenChannel \/ CloseChannel \/ Receive \/ Skip \/ GiveUp
  \/ ReadCard \/ NeedsCode \/ GetChallenge \/ AuthenticateServer \/ PrepareDownload \/ LoadBoundProfilePackage \/ CancelSession
  \/ Decide \/ PrintAnswer
HelperStep == Steps \/ Calls
===============================================================================
