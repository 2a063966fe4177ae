--------------------------- MODULE HelperRunProofs ---------------------------
(***************************************************************************)
(* What one run of the helper guarantees, for any number of segments,      *)
(* faults, stop signals, control lines and any limits of time, and that it *)
(* implements InstallPromise.                                              *)
(*                                                                         *)
(* The card, the modem, the helper and the agent each act on what another  *)
(* did several steps before, so the invariant is about what is on its way  *)
(* between them.  While the procedure goes forward there is at most one    *)
(* request in flight (FlightInv).  Once it has given one up, late requests *)
(* may still reach the card: ConsentInv and OutcomeInv say which ones can  *)
(* install, ChannelInv which ones can open or close the channel.           *)
(* SoundInv and OrderInv follow the card's session while nothing failed.   *)
(***************************************************************************)
EXTENDS HelperRun, SequenceTheorems, FiniteSetTheorems, TLAPS

Lines == {"install", "decline", "timeout", "cancel"}
Known == {"client", "preview", "prepare", "package", "load"}
Forward == {"connect", "open", "read", "challenge", "initiate", "authenticate"} \cup Known
Winding == {"cancel", "inform", "close", "answer", "exited"}
Nothing == {"cancelled", "failed", "not_started"}

Answer ==
  [txn : Nat, kind : {"open", "close", "apdu"}, data : {"ok", "error", "no_id", "bad", "refused", "more", "installed"}]
ClientState ==
  [channel : BOOLEAN, unknown : BOOLEAN, txn : Nat, pending : Message \cup {None}, leak : BOOLEAN, installing : BOOLEAN]
ModemState == [wire : Seq(Message), back : Seq(Answer), open : BOOLEAN, nameless : BOOLEAN]
HelperState ==
  [pc : Forward \cup Winding \cup {"killed"}, session : BOOLEAN, plan : Seq({"segment", "bad"}), seg : Nat,
   end : Ending \cup {None}, ctl : Seq(Lines), said : Nat]
CardState == [session : Reasons \cup {"none", "open", "ended"}, took : Nat, profile : BOOLEAN]
ServerState == [at : {"none", "begun", "client", "bound"}, order : Reasons \cup {"free"}]
BudgetState == [faults : Nat, stops : Nat, lines : Nat, max : Bounds]
AgentState ==
  [state : {"reading", "stopping", "over", "dead"},
   outcome : {None, "ok", "failed", "cancelled", "unknown", "not_started", "killed", "garbled"},
   seen : Nat, sent : SUBSET Lines, held : BOOLEAN]

\* The types of the run's state.
TypeOK ==
  /\ uim \in ClientState /\ modem \in ModemState /\ stop \in BOOLEAN
  /\ helper \in HelperState /\ card \in CardState /\ server \in ServerState
  /\ clock \in 0 .. 4 /\ budget \in BudgetState /\ agent \in AgentState

\* Where the procedure is decides whether it has an ending, holds the channel and knows of a card
\* session, and which request it may be waiting for.
PlaceInv ==
  /\ helper.pc \in Forward => helper.end = None
  /\ helper.pc \in Winding => helper.end # None
  /\ helper.pc \in Forward => (helper.session <=> helper.pc \in Known)
  /\ ~Download => helper.pc \in {"connect", "open", "read", "close", "answer", "exited", "killed"}
  /\ helper.pc \in {"connect", "open"} => ~uim.channel
  /\ helper.pc \in (Forward \ {"connect", "open"}) \cup {"cancel", "inform"} => uim.channel
  /\ helper.pc = "close" => (uim.channel <=> uim.pending = None)
  /\ helper.pc # "killed" /\ uim.pending # None =>
       /\ helper.pc \in CardSteps \cup {"open", "close"}
       /\ uim.pending.cmd.name = helper.pc
       /\ uim.pending.kind = IF helper.pc \in CardSteps THEN "apdu" ELSE helper.pc
  /\ helper.pc = "cancel" => helper.end.reason # None
  /\ \A i \in 1 .. Len(modem.wire) : modem.wire[i].cmd.name = "cancel" => modem.wire[i].cmd.reason # None

\* One request at most is on its way, or its answer, or it was lost by a fault.
InFlight ==
  IF uim.pending = None THEN modem.wire = <<>> /\ modem.back = <<>>
  ELSE \/ modem.wire = <<uim.pending>> /\ modem.back = <<>>
       \/ modem.wire = <<>> /\ Len(modem.back) = 1 /\ Matches(modem.back[1])
       \/ modem.wire = <<>> /\ modem.back = <<>> /\ budget.faults > 0
FlightInv == helper.pc \in Forward => InFlight

\* Nothing is loaded without consent, and a card that took the profile has ended its session.
ConsentInv ==
  /\ \A i \in 1 .. Len(helper.ctl) : helper.ctl[i] \in agent.sent \cup {"cancel"}
  /\ helper.pc \in {"prepare", "package", "load"} \/ uim.installing => "install" \in agent.sent
  /\ uim.installing => Download /\ helper.pc \in {"load", "killed"} \cup Winding
  /\ \A i \in 1 .. Len(modem.wire) : modem.wire[i].kind = "apdu" =>
       /\ modem.wire[i].cmd.name = "load" => uim.installing
       /\ modem.wire[i].cmd.name = "authenticate" => ~uim.installing
  /\ card.profile => uim.installing /\ card.session = "ended"

\* What the helper ends with is so on the card, and nothing on its way can change that.
OutcomeInv ==
  /\ \A i \in 1 .. Len(modem.back) :
       /\ modem.back[i].kind # "apdu" => modem.back[i].data \in {"ok", "error", "no_id"}
       /\ modem.back[i].data = "installed" => card.profile
       /\ modem.back[i].data = "refused" => uim.installing /\ card.session = "ended" /\ ~card.profile
  /\ helper.end # None =>
       /\ helper.end.result \in Nothing => ~card.profile /\ (uim.installing => card.session = "ended")
       /\ helper.end.receipt => card.profile
  /\ agent.state = "over" /\ agent.outcome \notin {"killed", "garbled"}
       => helper.pc = "exited" /\ agent.outcome = helper.end.result

\* Who has the channel open: the modem for as long as the client has it, and nothing is left
\* behind a close, except one the modem opened without saying which.
ChannelInv ==
  /\ uim.channel => modem.open
  /\ helper.pc = "connect" => ~modem.open /\ uim.pending = None
  /\ helper.pc = "open" =>
       IF modem.back = <<>> THEN uim.pending = None \/ modem.wire # <<>> => ~modem.open
       ELSE modem.open = (modem.back[1].data # "error") /\ (modem.back[1].data = "no_id" => modem.nameless)
  /\ \A i \in 1 .. Len(modem.wire) : modem.wire[i].kind = "close" =>
       i = Len(modem.wire) /\ ~uim.channel /\ helper.pc \in {"close", "answer", "exited", "killed"}
  /\ \A i \in 1 .. Len(modem.back) : modem.back[i].kind = "close" =>
       /\ modem.wire = <<>> /\ ~uim.channel /\ helper.pc \in {"close", "answer", "exited", "killed"}
       /\ modem.back[i].data # "error" => ~modem.open
  /\ helper.pc \in {"answer", "exited"} /\ ~uim.leak => (modem.open => modem.nameless) /\ modem.wire = <<>>

\* While nothing failed, the card is where the procedure takes it to be.
Answered1 == modem.back # <<>>
SoundInv ==
  budget.faults = 0 /\ helper.pc \in Forward =>
    /\ Answered1 => modem.back[1].data \notin {"error", "bad", "refused"}
    /\ helper.pc \notin Known /\ helper.pc # "authenticate" => card.session = "none"
    /\ helper.pc = "authenticate" => card.session = IF Answered1 THEN "open" ELSE "none"
    /\ helper.pc \in Known \ {"load"} => card.session = "open"
    /\ helper.pc # "load" => helper.seg = 1 /\ card.took = 0
    /\ helper.pc = "load" =>
         /\ helper.plan = Plan("whole") /\ helper.seg \in 1 .. Segments
         /\ card.took = IF Answered1 THEN helper.seg ELSE helper.seg - 1
         /\ ~Answered1 \/ helper.seg < Segments => card.session = "open"

\* Nothing failed, no stop signal, plenty of time.
Clean == budget.faults = 0 /\ ~stop /\ clock < 2

\* An order is rejected only by a decline, and a run the user ended cancels with its reason, first
\* on the card, then at the server.
Declined == "decline" \in agent.sent
OrderInv ==
  /\ helper.end # None /\ helper.end.reason = "endUserRejection" => Declined
  /\ \A i \in 1 .. Len(modem.wire) : modem.wire[i].cmd.reason = "endUserRejection" => Declined
  /\ card.session = "endUserRejection" => Declined
  /\ server.order = "endUserRejection" => Declined
CancelInv ==
  Clean /\ helper.pc \in Winding =>
    /\ InFlight
    /\ modem.back # <<>> => modem.back[1].data \notin {"error", "bad"}
    /\ helper.end.result = "cancelled" =>
         /\ helper.end.notify /\ helper.end.reason \in Reasons
         /\ helper.pc = "cancel" =>
              /\ uim.pending # None => uim.pending.cmd.reason = helper.end.reason
              /\ card.session = IF Answered1 THEN helper.end.reason ELSE "open"
         /\ helper.pc = "inform" => card.session = helper.end.reason
         /\ helper.pc \in {"close", "answer", "exited"} =>
              card.session = "none" \/ (card.session = helper.end.reason /\ server.order = helper.end.reason)

RunInv ==
  /\ TypeOK /\ PlaceInv /\ FlightInv /\ ConsentInv /\ OutcomeInv
  /\ ChannelInv /\ SoundInv /\ OrderInv /\ CancelInv

(***************************************************************************)
(* Control lines and endings.                                              *)
(***************************************************************************)

\* Lines that were waiting before.
Within(ctl) ==
  ctl \in Seq(Lines) /\ \A i \in 1 .. Len(ctl) : \E j \in 1 .. Len(helper.ctl) : ctl[i] = helper.ctl[j]

\* Reading the control lines leaves lines that were there.
LEMMA LinesWithin ==
  ASSUME TypeOK
  PROVE  /\ Within(<<>>) /\ Within(helper.ctl) /\ Within(Drained)
         /\ helper.ctl # <<>> => Within(Tail(helper.ctl)) /\ Head(helper.ctl) = helper.ctl[1] /\ Len(helper.ctl) >= 1
<1>1. helper.ctl \in Seq(Lines)
  BY DEF TypeOK, HelperState
<1>2. Within(<<>>) /\ Within(helper.ctl)
  BY <1>1 DEF Within
<1>3. helper.ctl # <<>> => Within(Tail(helper.ctl)) /\ Head(helper.ctl) = helper.ctl[1] /\ Len(helper.ctl) >= 1
  BY <1>1 DEF Within
<1>4. Within(Drained)
  <2> DEFINE read == {i \in DOMAIN helper.ctl : \A j \in 1 .. i - 1 : helper.ctl[j] # "cancel"}
             n == Cardinality(read)
  <2>1. CASE stop
    BY <1>2, <2>1 DEF Drained
  <2>2. CASE ~stop
    <3>1. DOMAIN helper.ctl = 1 .. Len(helper.ctl) /\ Len(helper.ctl) \in Nat
      BY <1>1
    <3>2. IsFiniteSet(1 .. Len(helper.ctl)) /\ read \subseteq 1 .. Len(helper.ctl)
      BY <3>1, FS_Interval
    <3>3. n \in Nat
      BY <3>2, FS_Subset, FS_CardinalityType
    <3>4. Drained = SubSeq(helper.ctl, n + 1, Len(helper.ctl))
      BY <2>2 DEF Drained
    <3> HIDE DEF n
    <3>5. \A i \in n + 1 .. Len(helper.ctl) : helper.ctl[i] \in Lines
      BY <1>1, <3>3
    <3>6. /\ Drained \in Seq(Lines) /\ Len(Drained) = IF n + 1 <= Len(helper.ctl) THEN Len(helper.ctl) - (n + 1) + 1 ELSE 0
          /\ \A i \in 1 .. Len(helper.ctl) - (n + 1) + 1 : Drained[i] = helper.ctl[n + 1 + i - 1]
      BY <3>1, <3>3, <3>4, <3>5, SubSeqProperties
    <3>7. \A i \in 1 .. Len(Drained) : Drained[i] = helper.ctl[n + i] /\ n + i \in 1 .. Len(helper.ctl)
      BY <3>1, <3>3, <3>6
    <3> QED
      BY <3>6, <3>7 DEF Within
  <2> QED
    BY <2>1, <2>2
<1> QED
  BY <1>2, <1>3, <1>4

\* The endings of a run.
LEMMA StopEnds ==
  ASSUME NEW r \in {"failed", "cancelled", "unknown", "not_started", "ok"}, NEW x \in Reasons \cup {None}, NEW n \in BOOLEAN
  PROVE  /\ Stop(r, x, n) \in Ending /\ Stop(r, x, n).result = r /\ Stop(r, x, n).reason = x
         /\ Stop(r, x, n).notify = n /\ Stop(r, x, n).receipt = FALSE
BY DEF Stop, Ending

\* A user ends a run with the reason of the decision.
LEMMA UserEnds ==
  ASSUME NEW c
  PROVE  /\ StopUser(c) \in Ending /\ StopUser(c).result = "cancelled" /\ StopUser(c).reason \in Reasons
         /\ StopUser(c).notify /\ ~StopUser(c).receipt
         /\ StopUser(c).reason = "endUserRejection" => c = "decline"
<1>1. \E x \in Reasons : StopUser(c) = Stop("cancelled", x, TRUE) /\ (x = "endUserRejection" => c = "decline")
  BY DEF StopUser, Reasons
<1>2. PICK x \in Reasons : StopUser(c) = Stop("cancelled", x, TRUE) /\ (x = "endUserRejection" => c = "decline")
  BY <1>1
<1>3. /\ StopUser(c) \in Ending /\ StopUser(c).result = "cancelled" /\ StopUser(c).reason = x
      /\ StopUser(c).notify = TRUE /\ StopUser(c).receipt = FALSE
  BY <1>2 DEF Stop, Ending
<1> QED
  BY <1>2, <1>3

\* An ending of a step that failed.
Failure(s) ==
  s \in Ending /\ s.result = "failed" /\ s.reason # "endUserRejection" /\ ~s.receipt

\* The endings of failing steps.
LEMMA Failures ==
  /\ \A x \in {"undefined", "timeout", "postponed", None}, n \in BOOLEAN : Failure(Stop("failed", x, n))
  /\ \A x \in {"undefined", "timeout", "postponed"} : Failure(Failed(x))
  /\ \A l \in BOOLEAN : Failure(StopCard(l))
  /\ \A r : Failure(StopServer(r))
<1>1. \A x \in {"undefined", "timeout", "postponed", None}, n \in BOOLEAN : Failure(Stop("failed", x, n))
  BY SessionConstants DEF Failure, Reasons, Stop, Ending
<1>2. \A x \in {"undefined", "timeout", "postponed"} : Failure(Failed(x))
  BY <1>1 DEF Failed
<1>3. \A l \in BOOLEAN : Failure(StopCard(l))
  BY <1>2 DEF StopCard
<1>4. ASSUME NEW r PROVE Failure(StopServer(r))
  <2>1. StopServer(r) \in {Failed("timeout"), Stop("failed", "undefined", FALSE), Failed("undefined")}
    BY DEF StopServer
  <2> QED
    BY <1>1, <1>2, <2>1
<1> QED
  BY <1>1, <1>2, <1>3, <1>4

(***************************************************************************)
(* The moves of the procedure, field by field.                             *)
(***************************************************************************)

\* On to the next step, or to the next of the steps that end the run.
Goes(to) ==
  /\ helper' \in HelperState /\ helper'.pc = to /\ helper'.end = helper.end /\ Within(helper'.ctl)
  /\ to \in Forward => (helper'.session <=> to \in Known)
  /\ to # "load" => helper'.seg = helper.seg

\* The end of a run that has loaded nothing; known says whether there is a card session to cancel.
Stops(known) ==
  /\ helper' \in HelperState /\ Within(helper'.ctl) /\ helper'.session = known
  /\ helper'.end \in Ending /\ helper'.end.result \in Nothing \cup {"ok"} /\ ~helper'.end.receipt
  /\ helper'.end.result = "cancelled" => helper'.end.notify /\ helper'.end.reason \in Reasons
  /\ helper'.end.reason = "endUserRejection" => \E j \in 1 .. Len(helper.ctl) : helper.ctl[j] = "decline"
  /\ helper'.pc = IF known /\ helper'.end.reason # None THEN "cancel" ELSE "close"

\* The end of a run while it loads: broken off, refused by the card, or done.
Breaks ==
  /\ helper' \in HelperState /\ Within(helper'.ctl) /\ helper'.pc \in {"cancel", "close"}
  /\ helper'.end \in Ending /\ helper'.end.result = "unknown" /\ ~helper'.end.receipt
  /\ helper'.end.reason = "loadBppError"
Refused ==
  /\ helper' \in HelperState /\ Within(helper'.ctl) /\ helper'.pc = "close"
  /\ helper'.end \in Ending /\ helper'.end.result = "failed" /\ ~helper'.end.receipt
  /\ helper'.end.reason # "endUserRejection"
Done(data) ==
  /\ helper' \in HelperState /\ Within(helper'.ctl) /\ helper'.pc = "close"
  /\ helper'.end \in Ending /\ helper'.end.result = "ok" /\ helper'.end.receipt = (data = "installed")
  /\ helper'.end.reason # "endUserRejection"

\* The run could not begin.
GivesIn ==
  /\ helper' \in HelperState /\ Within(helper'.ctl) /\ helper'.pc = "answer"
  /\ helper'.end \in Ending /\ helper'.end.result = "not_started" /\ ~helper'.end.receipt
  /\ helper'.end.reason # "endUserRejection"

\* What Stopping() makes of an ending.
LEMMA StoppingEnds ==
  ASSUME TypeOK, NEW s \in Ending, NEW known \in BOOLEAN, NEW q, Within(q)
  PROVE  LET h == Stopping(s, known)
             g == [h EXCEPT !.ctl = q]
         IN /\ h \in HelperState /\ Within(h.ctl) /\ h.session = known
            /\ h.end \in {s, StopUser("cancel")}
            /\ s.result # "failed" \/ s.reason = None => h.end = s
            /\ h.pc = IF known /\ h.end.reason # None THEN "cancel" ELSE "close"
            /\ g \in HelperState /\ g.ctl = q /\ g.session = known /\ g.end = h.end /\ g.pc = h.pc
<1> DEFINE h == Stopping(s, known)
           asks == s.reason # None /\ s.result = "failed"
           e == IF asks /\ Pressed THEN StopUser("cancel") ELSE s
           g == [h EXCEPT !.ctl = q]
<1>1. helper \in HelperState /\ Within(helper.ctl) /\ Within(Drained) /\ q \in Seq(Lines)
  BY LinesWithin DEF TypeOK, Within
<1>2. e \in Ending /\ e \in {s, StopUser("cancel")} /\ (s.result # "failed" \/ s.reason = None => e = s)
  BY UserEnds
<1> HIDE DEF e
<1>3. h = [helper EXCEPT !.end = e, !.ctl = IF asks THEN Drained ELSE @, !.session = known,
                         !.pc = IF known /\ e.reason # None THEN "cancel" ELSE "close"]
  BY DEF Stopping, e
<1>4. (IF asks THEN Drained ELSE helper.ctl) \in Seq(Lines)
  BY <1>1 DEF Within
<1>5. /\ h \in HelperState /\ h.ctl = (IF asks THEN Drained ELSE helper.ctl) /\ h.session = known
      /\ h.end = e /\ h.pc = IF known /\ e.reason # None THEN "cancel" ELSE "close"
  BY <1>1, <1>2, <1>3, <1>4 DEF HelperState, Winding
<1> HIDE DEF h
<1>6. g \in HelperState /\ g.ctl = q /\ g.session = known /\ g.end = h.end /\ g.pc = h.pc
  BY <1>1, <1>5 DEF HelperState
<1>7. Within(h.ctl)
  BY <1>1, <1>5
<1> QED
  BY <1>2, <1>5, <1>6, <1>7 DEF h

\* A step that failed ends the run.
LEMMA FailureStops ==
  ASSUME TypeOK, NEW s, Failure(s), Ends(s)
  PROVE  Stops(helper.session)
<1>1. helper.session \in BOOLEAN
  BY DEF TypeOK, HelperState
<1>2. helper' = Stopping(s, helper.session) /\ Within(<<>>) /\ s \in Ending
  BY LinesWithin DEF Ends, Failure
<1>3. /\ helper' \in HelperState /\ Within(helper'.ctl) /\ helper'.session = helper.session
      /\ helper'.end \in {s, StopUser("cancel")}
      /\ helper'.pc = IF helper.session /\ helper'.end.reason # None THEN "cancel" ELSE "close"
  BY <1>1, <1>2, StoppingEnds
<1> QED
  BY <1>3, UserEnds DEF Stops, Failure, Nothing

\* So does the user.
LEMMA UserStops ==
  ASSUME TypeOK, NEW known \in BOOLEAN, NEW c, NEW q, Within(q),
         c = "decline" => \E j \in 1 .. Len(helper.ctl) : helper.ctl[j] = "decline",
         helper' = [Stopping(StopUser(c), known) EXCEPT !.ctl = q] \/ helper' = Stopping(StopUser(c), known)
  PROVE  Stops(known)
<1>1. StopUser(c) \in Ending /\ StopUser(c).result = "cancelled"
  BY UserEnds
<1>2. /\ helper' \in HelperState /\ Within(helper'.ctl) /\ helper'.session = known /\ helper'.end = StopUser(c)
      /\ helper'.pc = IF known /\ helper'.end.reason # None THEN "cancel" ELSE "close"
  <2>1. CASE helper' = Stopping(StopUser(c), known)
    BY <1>1, <2>1, StoppingEnds
  <2>2. CASE helper' = [Stopping(StopUser(c), known) EXCEPT !.ctl = q]
    BY <1>1, <2>2, StoppingEnds
  <2> QED
    BY <2>1, <2>2
<1> QED
  BY <1>2, UserEnds DEF Stops, Nothing

\* A step that succeeded goes on, unless a Cancel is waiting.
LEMMA CheckedMoves ==
  ASSUME TypeOK, NEW next \in Forward \ {"load"}, NEW known \in BOOLEAN, Checked(next, known), known <=> next \in Known
  PROVE  Stops(known) \/ Goes(next)
<1>1. CASE Pressed
  <2>1. helper' = [Stopping(StopUser("cancel"), known) EXCEPT !.ctl = Drained]
    BY <1>1 DEF Checked
  <2>2. Within(Drained)
    BY LinesWithin
  <2>3. "cancel" = "decline" => \E j \in 1 .. Len(helper.ctl) : helper.ctl[j] = "decline"
    OBVIOUS
  <2> QED
    BY <2>1, <2>2, <2>3, UserStops
<1>2. CASE ~Pressed
  <2>1. helper' = [helper EXCEPT !.pc = next, !.ctl = <<>>, !.session = known] /\ helper \in HelperState
    BY <1>2 DEF Checked, TypeOK
  <2>2. /\ helper' \in HelperState /\ helper'.pc = next /\ helper'.end = helper.end /\ helper'.ctl = <<>>
        /\ helper'.session = known /\ helper'.seg = helper.seg
    BY <2>1, EmptySeq DEF HelperState
  <2> QED
    BY <2>2, LinesWithin DEF Goes
<1> QED
  BY <1>1, <1>2

\* What a card command that failed makes of the run.
LEMMA LostMoves ==
  ASSUME TypeOK, helper.pc \in CardSteps, Lost \/ Bad
  PROVE  /\ helper.pc = "load" => Breaks
         /\ helper.pc = "cancel" => Goes("close")
         /\ helper.pc \notin {"load", "cancel", "read"} => Stops(helper.session)
         /\ helper.pc = "read" => \E known \in BOOLEAN : Stops(known) /\ known = helper.session /\ helper'.pc = "close"
<1>0. helper \in HelperState /\ helper.session \in BOOLEAN /\ Within(helper.ctl) /\ Within(<<>>)
  BY LinesWithin DEF TypeOK, HelperState
<1>1. CASE helper.pc = "load"
  <2>1. helper' = Stopping(Stop("unknown", "loadBppError", TRUE), helper.session)
    BY <1>1 DEF Lost, Bad, Ends
  <2>2. Stop("unknown", "loadBppError", TRUE) \in Ending /\ Stop("unknown", "loadBppError", TRUE).result = "unknown"
        /\ ~Stop("unknown", "loadBppError", TRUE).receipt /\ Stop("unknown", "loadBppError", TRUE).reason = "loadBppError"
    BY DEF Reasons, Stop, Ending
  <2>3. /\ helper' \in HelperState /\ Within(helper'.ctl) /\ helper'.end = Stop("unknown", "loadBppError", TRUE)
        /\ helper'.pc \in {"cancel", "close"}
    BY <1>0, <2>1, <2>2, StoppingEnds
  <2> QED
    BY <1>1, <2>2, <2>3 DEF Breaks
<1>2. CASE helper.pc = "cancel"
  <2>1. helper' = [helper EXCEPT !.pc = "close"]
    BY <1>2 DEF Lost, Bad
  <2>2. /\ helper' \in HelperState /\ helper'.pc = "close" /\ helper'.end = helper.end /\ helper'.ctl = helper.ctl
        /\ helper'.seg = helper.seg
    BY <1>0, <2>1 DEF HelperState, Winding
  <2> QED
    BY <1>0, <1>2, <2>2 DEF Goes, Forward, Known
<1>3. CASE helper.pc = "read"
  <2> DEFINE s == Stop("not_started", None, FALSE)
  <2>1. helper' = [helper EXCEPT !.end = s, !.pc = "close"]
    BY <1>3 DEF Lost, Bad, NotRead
  <2>2. s \in Ending /\ s.result = "not_started" /\ ~s.receipt /\ s.reason = None
    BY StopEnds
  <2> HIDE DEF s
  <2>3. /\ helper' \in HelperState /\ helper'.pc = "close" /\ helper'.end = s /\ helper'.ctl = helper.ctl
        /\ helper'.session = helper.session
    BY <1>0, <2>1, <2>2 DEF HelperState, Winding
  <2> QED
    BY <1>0, <1>3, <2>2, <2>3, SessionConstants DEF Stops, Nothing, Reasons
<1>4. CASE helper.pc \notin {"load", "cancel", "read"}
  <2>1. Ends(StopCard(TRUE)) \/ Ends(StopCard(FALSE))
    BY <1>4 DEF Lost, Bad
  <2> QED
    BY <1>4, <2>1, Failures, FailureStops
<1> QED
  BY <1>1, <1>2, <1>3, <1>4

(***************************************************************************)
(* The steps of the run, in the forms the invariants are proved for.  A    *)
(* step of the helper is local, or it sends, receives, skips or gives up.  *)
(***************************************************************************)

\* The faults only grow.
Spends == budget' \in BudgetState /\ budget'.max = budget.max /\ budget'.faults >= budget.faults

LocalNext ==
  {<<"connect", "open">>, <<"initiate", "authenticate">>, <<"client", "preview">>, <<"preview", "prepare">>,
   <<"package", "load">>, <<"answer", "exited">>, <<"cancel", "close">>}
LocalGoes ==
  \E to \in Forward \cup Winding :
    /\ <<helper.pc, to>> \in LocalNext /\ Goes(to) /\ server'.order = server.order
    /\ to = "prepare" => \E j \in 1 .. Len(helper.ctl) : helper.ctl[j] = "install"
    /\ to = "load" => helper'.seg = helper.seg /\ (budget'.faults = 0 => helper'.plan = Plan("whole"))
    /\ to = "close" => stop
LocalStops ==
  /\ helper.pc \in Forward \ {"connect", "open", "load"} /\ Stops(helper.session) /\ server'.order = server.order
LocalBreaks ==
  /\ helper.pc = "load" /\ Breaks /\ server'.order = server.order
  /\ uim.installing => budget'.faults > 0
LocalGivesIn == helper.pc = "connect" /\ GivesIn /\ server'.order = server.order
Informs ==
  LET told == IF card.session \in Reasons THEN card.session ELSE server.order IN
  /\ helper.pc = "inform" /\ Goes("close") /\ server'.order \in {server.order, told}
  /\ budget'.faults = 0 /\ ~stop /\ clock < 2 => server'.order = told

\* A step without the modem.
Local ==
  /\ UNCHANGED <<uim, modem, stop, card, clock>> /\ uim.pending = None
  /\ Spends /\ server' \in ServerState
  /\ LocalGoes \/ LocalStops \/ LocalBreaks \/ LocalGivesIn \/ Informs

\* A request goes out.
Sends ==
  /\ UNCHANGED <<helper, stop, card, server, clock, budget>> /\ uim.pending = None
  /\ helper.pc \in CardSteps \cup {"open", "close"}
  /\ \E m \in Message :
       /\ m.cmd.name = helper.pc /\ m.kind = IF helper.pc \in CardSteps THEN "apdu" ELSE helper.pc
       /\ m.cmd.reason = IF helper.pc = "cancel" THEN helper.end.reason ELSE None
       /\ uim' \in ClientState /\ uim'.pending = m /\ uim'.leak = uim.leak
       /\ uim'.channel = (uim.channel /\ helper.pc # "close")
       /\ uim'.installing = (uim.installing \/ helper.pc = "load")
       /\ modem' \in ModemState /\ modem'.wire = Append(modem.wire, m)
       /\ modem'.back = modem.back /\ modem'.open = modem.open /\ modem'.nameless = modem.nameless
       /\ helper.pc # "open" => uim.channel

\* What the procedure does with the answer to its request.
Takes(data) ==
  \/ helper.pc = "open" /\ (IF data = "ok" THEN Goes("read") ELSE GivesIn)
  \/ helper.pc = "close" /\ Goes("answer")
  \/ helper.pc = "read" /\ (Stops(FALSE) \/ (Download /\ Goes("challenge")))
  \/ helper.pc = "challenge" /\ (Stops(FALSE) \/ Goes("initiate"))
  \/ helper.pc = "authenticate" /\ data \in {"error", "bad"} /\ Stops(FALSE)
  \/ helper.pc = "authenticate" /\ data \notin {"error", "bad"} /\ (Stops(TRUE) \/ Goes("client"))
  \/ helper.pc = "prepare" /\ (Stops(TRUE) \/ Goes("package"))
  \/ helper.pc = "load" /\ data \in {"error", "bad"} /\ Breaks
  \/ helper.pc = "load" /\ data = "refused" /\ Refused
  \/ helper.pc = "load" /\ data \notin {"error", "bad", "refused"} /\ Done(data)
  \/ /\ helper.pc = "load" /\ data \notin {"error", "bad", "refused"} /\ Goes("load")
     /\ helper'.plan = helper.plan /\ helper'.seg = helper.seg + 1 /\ helper.seg # Len(helper.plan)
  \/ helper.pc = "cancel" /\ Goes("inform")
  \/ helper.pc = "cancel" /\ Goes("close") /\ (data \in {"error", "bad"} \/ ~helper.end.notify)

\* An answer is read and dropped from what is on its way.
Reads ==
  /\ modem.back # <<>>
  /\ modem' \in ModemState /\ modem'.back = Tail(modem.back) /\ modem'.wire = modem.wire
  /\ modem'.open = modem.open /\ modem'.nameless = modem.nameless
Receives ==
  /\ UNCHANGED <<stop, card, server, clock, budget>>
  /\ helper.pc \notin Over /\ uim.pending # None /\ Reads /\ Matches(Head(modem.back))
  /\ uim' \in ClientState /\ uim'.pending = None /\ uim'.installing = uim.installing
  /\ uim'.leak = (uim.leak \/ (helper.pc = "close" /\ Head(modem.back).data = "error"))
  /\ uim'.channel = IF helper.pc = "open" THEN Head(modem.back).data = "ok" ELSE uim.channel
  /\ Takes(Head(modem.back).data)
Skips ==
  /\ UNCHANGED <<uim, helper, stop, card, server, clock, budget>>
  /\ helper.pc \notin Over /\ uim.pending # None /\ Reads /\ ~Matches(Head(modem.back))

\* The wait ends without an answer.
GivesUp ==
  /\ UNCHANGED <<modem, stop, card, server, clock>> /\ Spends
  /\ helper.pc \notin Over /\ uim.pending # None /\ ~HasAnswer
  /\ uim' \in ClientState /\ uim'.pending = None /\ uim'.installing = uim.installing /\ uim'.channel = uim.channel
  /\ uim'.leak = (uim.leak \/ helper.pc \in {"open", "close"})
  /\ InFlight => budget'.faults > 0 \/ clock >= 2 \/ (stop /\ ~uim.installing)
  /\ \/ helper.pc = "open" /\ GivesIn
     \/ helper.pc = "close" /\ Goes("answer")
     \/ helper.pc = "load" /\ Breaks
     \/ helper.pc = "cancel" /\ Goes("close")
     \/ helper.pc \in {"read", "challenge", "authenticate", "prepare"} /\ Stops(helper.session)

\* Counting a fault.
LEMMA FaultSpends ==
  ASSUME TypeOK, NEW f \in BOOLEAN, Fault(f)
  PROVE  Spends /\ (f => budget'.faults > 0) /\ (~f => budget' = budget)
<1>1. budget \in BudgetState
  BY DEF TypeOK
<1>2. CASE f
  BY <1>1, <1>2 DEF Fault, Spends, BudgetState
<1>3. CASE ~f
  BY <1>1, <1>3 DEF Fault, Spends, BudgetState
<1> QED
  BY <1>2, <1>3

\* Leaving the budget alone.
LEMMA NothingSpent ==
  ASSUME TypeOK, UNCHANGED budget
  PROVE  Spends
BY DEF TypeOK, Spends, BudgetState

\* A server call: nothing but the server, the budget and the procedure moves.
LEMMA CallMoves ==
  ASSUME TypeOK, PlaceInv, NEW step \in ServerSteps, NEW sound, NEW s \in ServerState, NEW a, NEW odd \in BOOLEAN,
         Call(step, sound, s, a, odd)
  PROVE  /\ UNCHANGED <<uim, modem, stop, card, clock>> /\ uim.pending = None /\ helper.pc = step
         /\ Spends /\ server' \in {s, server}
         /\ odd => budget'.faults > 0
         /\ sound = TRUE /\ budget'.faults = 0 /\ ~stop /\ clock < 2 => server' = s
<1>1. UNCHANGED <<uim, modem, stop, card, clock>> /\ helper.pc = step
  BY DEF Call
<1>2. uim.pending = None
  BY <1>1 DEF PlaceInv, ServerSteps, CardSteps
<1> DEFINE forced == stop \/ clock >= 2
           f == odd \/ (a # "whole" /\ ~forced /\ CanFault)
<1>3. PICK reached \in BOOLEAN :
        /\ forced => a \in {"none", "cut_chunked"}
        /\ a # "none" => reached
        /\ a = "whole" \/ forced \/ CanFault \/ (~sound /\ a = "failure")
        /\ Fault(f)
        /\ server' = IF reached /\ a \notin {"status", "failure"} THEN s ELSE server
  BY DEF Call
<1>4. stop \in BOOLEAN /\ clock \in 0 .. 4
  BY DEF TypeOK
<1>5. f \in BOOLEAN
  OBVIOUS
<1>6. Spends /\ (f => budget'.faults > 0)
  BY <1>3, <1>5, FaultSpends
<1>7. ASSUME sound = TRUE, budget'.faults = 0, ~stop, clock < 2 PROVE server' = s
  <2>1. ~forced /\ ~f
    BY <1>4, <1>6, <1>7
  <2>2. a = "whole"
    BY <1>3, <1>7, <2>1
  <2> QED
    BY <1>3, <2>2
<1> QED
  BY <1>1, <1>2, <1>3, <1>6, <1>7

\* The lookup of the modem's service.
LEMMA ConnectIsLocal ==
  ASSUME TypeOK, PlaceInv, Connect
  PROVE  Local
<1>1. /\ helper.pc = "connect" /\ UNCHANGED <<uim, modem, stop, card, server, clock>>
      /\ helper' = [helper EXCEPT !.pc = "open"] \/ NotStarted
      /\ \E f \in BOOLEAN : Fault(f)
  BY DEF Connect, Lookup
<1>2. Spends /\ uim.pending = None /\ server' \in ServerState /\ server'.order = server.order
  BY <1>1, FaultSpends DEF PlaceInv, CardSteps, TypeOK
<1>3. helper \in HelperState /\ Within(helper.ctl) /\ ~helper.session
  BY <1>1, LinesWithin DEF TypeOK, PlaceInv, Known, Forward
<1>4. CASE helper' = [helper EXCEPT !.pc = "open"]
  <2>1. /\ helper' \in HelperState /\ helper'.pc = "open" /\ helper'.end = helper.end /\ helper'.ctl = helper.ctl
        /\ helper'.session = helper.session /\ helper'.seg = helper.seg
    BY <1>3, <1>4 DEF HelperState, Forward
  <2>2. Goes("open")
    BY <1>3, <2>1 DEF Goes, Known
  <2>3. "open" \in Forward \cup Winding /\ <<helper.pc, "open">> \in LocalNext
    BY <1>1 DEF Forward, LocalNext
  <2>4. LocalGoes
    BY <1>2, <2>2, <2>3 DEF LocalGoes
  <2> QED
    BY <1>1, <1>2, <2>4 DEF Local
<1>5. CASE NotStarted
  <2> DEFINE s == Stop("not_started", None, FALSE)
  <2>1. s \in Ending /\ s.result = "not_started" /\ ~s.receipt /\ s.reason = None
    BY StopEnds
  <2>2. helper' = [helper EXCEPT !.end = s, !.pc = "answer"]
    BY <1>5 DEF NotStarted
  <2> HIDE DEF s
  <2>3. helper' \in HelperState /\ helper'.pc = "answer" /\ helper'.end = s /\ helper'.ctl = helper.ctl
    BY <1>3, <2>1, <2>2 DEF HelperState, Winding
  <2>4. LocalGivesIn
    BY <1>1, <1>2, <1>3, <2>1, <2>3, SessionConstants DEF LocalGivesIn, GivesIn, Reasons
  <2> QED
    BY <1>1, <1>2, <2>4 DEF Local
<1> QED
  BY <1>1, <1>4, <1>5

\* A server call that ends the run.
LEMMA CallStops ==
  ASSUME TypeOK, PlaceInv, NEW s, Failure(s), Ends(s), UNCHANGED <<uim, modem, stop, card, clock>>, uim.pending = None,
         Spends, server' \in ServerState, server'.order = server.order, helper.pc \in {"initiate", "client", "package"}
  PROVE  Local
<1>1. Stops(helper.session)
  BY FailureStops
<1>2. helper.pc \in Forward \ {"connect", "open", "load"}
  BY DEF Forward, Known
<1> QED
  BY <1>1, <1>2 DEF Local, LocalStops

\* Server calls move the procedure only: initiateAuthentication.
LEMMA InitiateIsLocal ==
  ASSUME TypeOK, PlaceInv, InitiateAuthentication
  PROVE  Local
<1> DEFINE s == [server EXCEPT !.at = "begun"]
<1>1. PICK a \in Posts :
        /\ Call("initiate", TRUE, s, a, FALSE)
        /\ IF Reply(a) = "ok" THEN Checked("authenticate", FALSE) ELSE Ends(StopServer(Reply(a)))
  BY DEF InitiateAuthentication
<1>2. s \in ServerState /\ s.order = server.order /\ server \in ServerState
  BY DEF TypeOK, ServerState
<1> HIDE DEF s
<1>3. /\ UNCHANGED <<uim, modem, stop, card, clock>> /\ uim.pending = None /\ helper.pc = "initiate"
      /\ Spends /\ server' \in {s, server}
  BY <1>1, <1>2, CallMoves DEF ServerSteps
<1>4. server' \in ServerState /\ server'.order = server.order
  BY <1>2, <1>3
<1>5. CASE Reply(a) # "ok"
  BY <1>1, <1>3, <1>4, <1>5, Failures, CallStops
<1>6. CASE Reply(a) = "ok"
  <2>1. /\ "authenticate" \in Forward \ {"load"} /\ "authenticate" \notin Known
        /\ ~helper.session /\ helper.session \in BOOLEAN
    BY <1>3 DEF Forward, Known, PlaceInv, TypeOK, HelperState
  <2>2. Stops(FALSE) \/ Goes("authenticate")
    BY <1>1, <1>6, <2>1, CheckedMoves
  <2>3. CASE Stops(FALSE)
    BY <1>3, <1>4, <2>1, <2>3 DEF Local, LocalStops, Forward
  <2>4. CASE Goes("authenticate")
    <3>1. "authenticate" \in Forward \cup Winding /\ <<helper.pc, "authenticate">> \in LocalNext
      BY <1>3 DEF Forward, LocalNext
    <3>2. LocalGoes
      BY <1>4, <2>4, <3>1 DEF LocalGoes
    <3> QED
      BY <1>3, <1>4, <3>2 DEF Local
  <2> QED
    BY <2>2, <2>3, <2>4
<1> QED
  BY <1>5, <1>6

\* authenticateClient, followed by the preview.
LEMMA ClientIsLocal ==
  ASSUME TypeOK, PlaceInv, AuthenticateClient
  PROVE  Local
<1> DEFINE s == [server EXCEPT !.at = "client"]
<1>1. PICK a \in Posts, odd \in BOOLEAN :
        /\ Call("client", card.session = "open", s, a, odd)
        /\ IF Reply(a) # "ok" THEN Ends(StopServer(Reply(a)))
           ELSE IF odd THEN \E reason \in {"undefined", "postponed"} : Ends(Failed(reason))
           ELSE helper' = [helper EXCEPT !.pc = "preview", !.said = 1]
  BY DEF AuthenticateClient
<1>2. s \in ServerState /\ s.order = server.order /\ server \in ServerState
  BY DEF TypeOK, ServerState
<1> HIDE DEF s
<1>3. /\ UNCHANGED <<uim, modem, stop, card, clock>> /\ uim.pending = None /\ helper.pc = "client"
      /\ Spends /\ server' \in {s, server}
  <2>1. "client" \in ServerSteps
    BY DEF ServerSteps
  <2> DEFINE sound == card.session = "open"
  <2>2. Call("client", sound, s, a, odd)
    BY <1>1
  <2> HIDE DEF sound
  <2> QED
    BY <1>2, <2>1, <2>2, CallMoves
<1>4. server' \in ServerState /\ server'.order = server.order
  BY <1>2, <1>3
<1>5. CASE Reply(a) # "ok"
  BY <1>1, <1>3, <1>4, <1>5, Failures, CallStops
<1>6. CASE Reply(a) = "ok" /\ odd
  <2>1. PICK reason \in {"undefined", "postponed"} : Ends(Failed(reason))
    BY <1>1, <1>6
  <2>2. Failure(Failed(reason))
    BY Failures
  <2> QED
    BY <1>3, <1>4, <2>1, <2>2, CallStops
<1>7. CASE Reply(a) = "ok" /\ ~odd
  <2>1. helper' = [helper EXCEPT !.pc = "preview", !.said = 1] /\ helper \in HelperState /\ helper.session
    BY <1>1, <1>3, <1>7 DEF TypeOK, PlaceInv, Forward, Known
  <2>2. /\ helper' \in HelperState /\ helper'.pc = "preview" /\ helper'.end = helper.end /\ helper'.ctl = helper.ctl
        /\ helper'.session = helper.session /\ helper'.seg = helper.seg
    BY <2>1 DEF HelperState, Forward, Known
  <2>3. Goes("preview")
    BY <2>1, <2>2, LinesWithin DEF Goes, Known
  <2>4. "preview" \in Forward \cup Winding /\ <<helper.pc, "preview">> \in LocalNext
    BY <1>3 DEF Forward, Known, LocalNext
  <2>5. LocalGoes
    BY <1>4, <2>3, <2>4 DEF LocalGoes
  <2> QED
    BY <1>3, <1>4, <2>5 DEF Local
<1> QED
  BY <1>5, <1>6, <1>7

\* What bpp_segments() plans is a sequence of segments.
LEMMA Plans ==
  ASSUME NEW p \in Packages
  PROVE  Plan(p) \in Seq({"segment", "bad"})
<1>1. Segments \in Nat /\ Segments - 1 \in Nat
  BY SessionConstants
<1>2. \A n \in Nat : [i \in 1 .. n |-> "segment"] \in Seq({"segment", "bad"})
  BY IsASeq
<1>3. CASE p = "whole"
  BY <1>1, <1>2, <1>3 DEF Plan
<1>4. CASE p = "cut"
  BY <1>1, <1>2, <1>4 DEF Plan
<1>5. CASE p = "part_missing"
  BY <1>1, <1>2, <1>5 DEF Plan
<1>6. CASE p = "no_package"
  BY <1>6 DEF Plan
<1> QED
  BY <1>3, <1>4, <1>5, <1>6 DEF Packages

\* getBoundProfilePackage: the plan is whole unless a fault was counted.
LEMMA PackageIsLocal ==
  ASSUME TypeOK, PlaceInv, GetBoundProfilePackage
  PROVE  Local
<1> DEFINE s == [server EXCEPT !.at = "bound"]
<1>1. PICK a \in Posts, odd \in BOOLEAN :
        /\ Call("package", TRUE, s, a, odd)
        /\ IF Reply(a) # "ok" THEN Ends(StopServer(Reply(a)))
           ELSE IF Pressed THEN Checked("load", TRUE)
           ELSE IF clock > 0 THEN Ends(Failed("timeout"))
           ELSE \E p \in Packages : (odd <=> p # "whole")
                  /\ helper' = [helper EXCEPT !.pc = "load", !.plan = Plan(p), !.said = 2, !.ctl = <<>>]
  BY DEF GetBoundProfilePackage
<1>2. s \in ServerState /\ s.order = server.order /\ server \in ServerState
  BY DEF TypeOK, ServerState
<1> HIDE DEF s
<1>3. /\ UNCHANGED <<uim, modem, stop, card, clock>> /\ uim.pending = None /\ helper.pc = "package"
      /\ Spends /\ server' \in {s, server} /\ (odd => budget'.faults > 0)
  <2>1. "package" \in ServerSteps
    BY DEF ServerSteps
  <2>2. Call("package", TRUE, s, a, odd)
    BY <1>1
  <2> QED
    BY <1>2, <2>1, <2>2, CallMoves
<1>4. server' \in ServerState /\ server'.order = server.order
  BY <1>2, <1>3
<1>5. helper \in HelperState /\ helper.session /\ helper.session \in BOOLEAN
  BY <1>3 DEF TypeOK, PlaceInv, Forward, Known, HelperState
<1>6. CASE Reply(a) # "ok"
  BY <1>1, <1>3, <1>4, <1>6, Failures, CallStops
<1>7. CASE Reply(a) = "ok" /\ Pressed
  <2>1. helper' = [Stopping(StopUser("cancel"), TRUE) EXCEPT !.ctl = Drained]
    BY <1>1, <1>7 DEF Checked
  <2>2. "cancel" = "decline" => \E j \in 1 .. Len(helper.ctl) : helper.ctl[j] = "decline"
    OBVIOUS
  <2>3. Stops(TRUE)
    BY <2>1, <2>2, LinesWithin, UserStops
  <2> QED
    BY <1>3, <1>4, <1>5, <2>3 DEF Local, LocalStops, Forward, Known
<1>8. CASE Reply(a) = "ok" /\ ~Pressed /\ clock > 0
  <2>1. Failure(Failed("timeout")) /\ Ends(Failed("timeout"))
    BY <1>1, <1>8, Failures
  <2> QED
    BY <1>3, <1>4, <2>1, CallStops
<1>9. CASE Reply(a) = "ok" /\ ~Pressed /\ ~(clock > 0)
  <2>1. PICK p \in Packages : (odd <=> p # "whole")
                  /\ helper' = [helper EXCEPT !.pc = "load", !.plan = Plan(p), !.said = 2, !.ctl = <<>>]
    BY <1>1, <1>9
  <2>2. Plan(p) \in Seq({"segment", "bad"}) /\ <<>> \in Seq(Lines)
    BY Plans
  <2>3. /\ helper' \in HelperState /\ helper'.pc = "load" /\ helper'.end = helper.end /\ helper'.ctl = <<>>
        /\ helper'.session = helper.session /\ helper'.seg = helper.seg /\ helper'.plan = Plan(p)
    BY <1>5, <2>1, <2>2 DEF HelperState, Forward, Known
  <2>4. Goes("load")
    BY <1>5, <2>3, LinesWithin DEF Goes, Known
  <2>5. "load" \in Forward \cup Winding /\ <<helper.pc, "load">> \in LocalNext
    BY <1>3 DEF Forward, Known, LocalNext
  <2>6. budget'.faults = 0 => helper'.plan = Plan("whole")
    BY <1>3, <2>1, <2>3
  <2>7. LocalGoes
    BY <1>4, <2>3, <2>4, <2>5, <2>6 DEF LocalGoes
  <2> QED
    BY <1>3, <1>4, <2>7 DEF Local
<1> QED
  BY <1>6, <1>7, <1>8, <1>9

\* Telling the server what the card signed.
LEMMA InformIsLocal ==
  ASSUME TypeOK, PlaceInv, InformServer
  PROVE  Local
<1> DEFINE told == IF card.session \in Reasons THEN card.session ELSE server.order
           s == [server EXCEPT !.order = told]
<1>1. PICK a \in Posts : Call("inform", TRUE, s, a, FALSE) /\ helper' = [helper EXCEPT !.pc = "close"]
  BY DEF InformServer
<1>2. server \in ServerState /\ server.order \in Reasons \cup {"free"}
  BY DEF TypeOK, ServerState
<1>3. told \in Reasons \cup {"free"}
  BY <1>2
<1>4. s \in ServerState /\ s.order = told
  BY <1>2, <1>3 DEF ServerState
<1> HIDE DEF s
<1>5. "inform" \in ServerSteps
  BY DEF ServerSteps
<1>6. /\ UNCHANGED <<uim, modem, stop, card, clock>> /\ uim.pending = None /\ helper.pc = "inform"
      /\ Spends /\ server' \in {s, server}
      /\ budget'.faults = 0 /\ ~stop /\ clock < 2 => server' = s
  BY <1>1, <1>4, <1>5, CallMoves
<1>7. helper \in HelperState
  BY DEF TypeOK
<1>8. /\ helper' \in HelperState /\ helper'.pc = "close" /\ helper'.end = helper.end /\ helper'.ctl = helper.ctl
      /\ helper'.seg = helper.seg
  BY <1>1, <1>7 DEF HelperState, Winding
<1>9. Goes("close")
  BY <1>8, LinesWithin DEF Goes, Forward, Known
<1>10. server' \in ServerState /\ server'.order \in {server.order, told}
       /\ (budget'.faults = 0 /\ ~stop /\ clock < 2 => server'.order = told)
  BY <1>2, <1>4, <1>6
<1>11. Informs
  BY <1>6, <1>9, <1>10 DEF Informs
<1> QED
  BY <1>6, <1>10, <1>11 DEF Local

\* The user's decision: install only when that line is waiting.
LEMMA DecideIsLocal ==
  ASSUME TypeOK, PlaceInv, Decide
  PROVE  Local
<1>1. helper.pc = "preview" /\ UNCHANGED <<uim, modem, stop, card, server, clock, budget>>
  BY DEF Decide
<1>2. /\ uim.pending = None /\ Spends /\ server' \in ServerState /\ server'.order = server.order
      /\ helper \in HelperState /\ helper.session /\ helper.session \in BOOLEAN
  BY <1>1, NothingSpent DEF TypeOK, HelperState, PlaceInv, CardSteps, Forward, Known
<1>3. ASSUME Stops(TRUE) PROVE Local
  <2>1. LocalStops
    BY <1>1, <1>2, <1>3 DEF LocalStops, Forward, Known
  <2> QED
    BY <1>1, <1>2, <2>1 DEF Local
<1>4. ASSUME NEW c \in {"cancel", "timeout"}, Ends(StopUser(c)) PROVE Local
  <2>1. helper' = Stopping(StopUser(c), TRUE) /\ Within(<<>>) /\ c # "decline"
    BY <1>2, <1>4, LinesWithin DEF Ends
  <2> QED
    BY <1>3, <2>1, UserStops
<1>5. CASE stop /\ Ends(StopUser("cancel"))
  BY <1>4, <1>5
<1>6. CASE ~stop /\ helper.ctl = <<>> /\ Ends(StopUser("timeout"))
  BY <1>4, <1>6
<1>7. CASE /\ ~stop /\ helper.ctl # <<>> /\ Head(helper.ctl) = "install"
           /\ helper' = [[helper EXCEPT !.ctl = Tail(@)] EXCEPT !.pc = "prepare"]
  <2>1. Within(Tail(helper.ctl)) /\ Head(helper.ctl) = helper.ctl[1] /\ Len(helper.ctl) >= 1 /\ helper.ctl \in Seq(Lines)
    BY <1>7, LinesWithin DEF TypeOK, HelperState
  <2>2. Tail(helper.ctl) \in Seq(Lines)
    BY <2>1 DEF Within
  <2>3. /\ helper' \in HelperState /\ helper'.pc = "prepare" /\ helper'.end = helper.end
        /\ helper'.ctl = Tail(helper.ctl) /\ helper'.session = helper.session /\ helper'.seg = helper.seg
    BY <1>2, <1>7, <2>2 DEF HelperState, Forward, Known
  <2>4. Goes("prepare")
    BY <1>2, <2>1, <2>3 DEF Goes, Known
  <2>5. "prepare" \in Forward \cup Winding /\ <<helper.pc, "prepare">> \in LocalNext
    BY <1>1 DEF Forward, Known, LocalNext
  <2>6. 1 \in 1 .. Len(helper.ctl) /\ helper.ctl[1] = "install"
    BY <1>7, <2>1
  <2>7. LocalGoes
    BY <1>2, <2>4, <2>5, <2>6 DEF LocalGoes
  <2> QED
    BY <1>1, <1>2, <2>7 DEF Local
<1>8. CASE /\ ~stop /\ helper.ctl # <<>>
           /\ helper' = [Stopping(StopUser(Head(helper.ctl)), TRUE) EXCEPT !.ctl = Tail(helper.ctl)]
  <2>1. Within(Tail(helper.ctl)) /\ Head(helper.ctl) = helper.ctl[1] /\ Len(helper.ctl) >= 1
        /\ helper.ctl \in Seq(Lines)
    BY <1>8, LinesWithin DEF TypeOK, HelperState
  <2>2. 1 \in 1 .. Len(helper.ctl)
    BY <2>1
  <2>3. Head(helper.ctl) = "decline" => \E j \in 1 .. Len(helper.ctl) : helper.ctl[j] = "decline"
    BY <2>1, <2>2
  <2>4. Stops(TRUE)
    BY <1>8, <2>1, <2>3, UserStops
  <2> QED
    BY <1>3, <2>4
<1> QED
  BY <1>5, <1>6, <1>7, <1>8 DEF Decide

\* Printing the answer.
LEMMA PrintIsLocal ==
  ASSUME TypeOK, PlaceInv, PrintAnswer
  PROVE  Local
<1>1. /\ helper.pc = "answer" /\ UNCHANGED <<uim, modem, stop, card, server, clock, budget>>
      /\ helper' = [helper EXCEPT !.pc = "exited"]
  BY DEF PrintAnswer
<1>2. /\ uim.pending = None /\ Spends /\ server' \in ServerState /\ server'.order = server.order /\ helper \in HelperState
  BY <1>1, NothingSpent DEF TypeOK, PlaceInv, CardSteps
<1>3. /\ helper' \in HelperState /\ helper'.pc = "exited" /\ helper'.end = helper.end /\ helper'.ctl = helper.ctl
      /\ helper'.seg = helper.seg
  BY <1>1, <1>2 DEF HelperState, Winding
<1>4. Goes("exited")
  BY <1>3, LinesWithin DEF Goes, Forward, Known
<1>5. "exited" \in Forward \cup Winding /\ <<helper.pc, "exited">> \in LocalNext
  BY <1>1 DEF Winding, LocalNext
<1>6. LocalGoes
  BY <1>2, <1>4, <1>5 DEF LocalGoes
<1> QED
  BY <1>1, <1>2, <1>6 DEF Local

\* A command that failed before it was sent.
LEMMA UnsentIsLocal ==
  ASSUME TypeOK, PlaceInv, helper.pc \in CardSteps, uim.pending = None,
         UNCHANGED <<uim, modem, stop, card, server, clock>>, Spends, Lost \/ Bad,
         helper.pc = "cancel" => stop,
         helper.pc = "load" /\ uim.installing => budget'.faults > 0
  PROVE  Local
<1>1. server' \in ServerState /\ server'.order = server.order
  BY DEF TypeOK
<1>2. CASE helper.pc = "load"
  BY <1>1, <1>2, LostMoves DEF Local, LocalBreaks
<1>3. CASE helper.pc = "cancel"
  <2>1. Goes("close") /\ "close" \in Forward \cup Winding /\ <<helper.pc, "close">> \in LocalNext
    BY <1>3, LostMoves DEF Winding, LocalNext
  <2>2. LocalGoes
    BY <1>1, <1>3, <2>1 DEF LocalGoes
  <2> QED
    BY <1>1, <2>2 DEF Local
<1>4. CASE helper.pc \notin {"load", "cancel"}
  <2>1. Stops(helper.session)
    BY <1>4, LostMoves
  <2>2. helper.pc \in Forward \ {"connect", "open", "load"}
    BY <1>4 DEF CardSteps, Forward, Known
  <2>3. LocalStops
    BY <1>1, <2>1, <2>2 DEF LocalStops
  <2> QED
    BY <1>1, <2>3 DEF Local
<1> QED
  BY <1>2, <1>3, <1>4

\* A request is sent with the next transaction number.
LEMMA RequestSends ==
  ASSUME TypeOK, NEW c \in ClientState, NEW kind \in {"open", "close", "apdu"}, NEW cmd, Request(c, kind, cmd),
         cmd \in [name : {"open", "close", "read", "challenge", "authenticate", "prepare", "load", "cancel"},
                 reason : Reasons \cup {None}]
  PROVE  \E m \in Message :
           /\ m.cmd = cmd /\ m.kind = kind
           /\ uim' \in ClientState /\ uim'.pending = m /\ uim'.leak = c.leak
           /\ uim'.channel = c.channel /\ uim'.installing = c.installing
           /\ modem' \in ModemState /\ modem'.wire = Append(modem.wire, m)
           /\ modem'.back = modem.back /\ modem'.open = modem.open /\ modem'.nameless = modem.nameless
<1> DEFINE m == [txn |-> c.txn + 1, kind |-> kind, cmd |-> cmd]
<1>1. m \in Message /\ m.cmd = cmd /\ m.kind = kind /\ m.txn = c.txn + 1 /\ m.txn \in Nat
  BY DEF Message, ClientState
<1>2. uim' = [c EXCEPT !.txn = m.txn, !.pending = m] /\ modem' = [modem EXCEPT !.wire = Append(@, m)]
  BY DEF Request
<1> HIDE DEF m
<1>3. /\ uim' \in ClientState /\ uim'.pending = m /\ uim'.leak = c.leak
      /\ uim'.channel = c.channel /\ uim'.installing = c.installing
  BY <1>1, <1>2 DEF ClientState
<1>4. modem \in ModemState /\ modem.wire \in Seq(Message)
  BY DEF TypeOK, ModemState
<1>5. Append(modem.wire, m) \in Seq(Message)
  BY <1>1, <1>4
<1>6. /\ modem' \in ModemState /\ modem'.wire = Append(modem.wire, m)
      /\ modem'.back = modem.back /\ modem'.open = modem.open /\ modem'.nameless = modem.nameless
  BY <1>2, <1>4, <1>5 DEF ModemState
<1> QED
  BY <1>1, <1>3, <1>6

\* Opening the channel.
LEMMA OpenSends ==
  ASSUME TypeOK, PlaceInv, OpenChannel
  PROVE  Sends
<1>1. /\ helper.pc = "open" /\ uim.pending = None /\ UNCHANGED <<helper, stop, card, server, clock, budget>>
      /\ Request(uim, "open", Plain("open")) /\ ~uim.channel
  BY DEF OpenChannel, SendOpen
<1>2. /\ uim \in ClientState /\ uim.channel \in BOOLEAN /\ uim.installing \in BOOLEAN
      /\ Plain("open") \in [name : {"open", "close", "read", "challenge", "authenticate", "prepare", "load", "cancel"},
                            reason : Reasons \cup {None}]
      /\ Plain("open").name = "open" /\ Plain("open").reason = None
  BY DEF TypeOK, ClientState, Plain
<1>3. PICK m \in Message :
           /\ m.cmd = Plain("open") /\ m.kind = "open"
           /\ uim' \in ClientState /\ uim'.pending = m /\ uim'.leak = uim.leak
           /\ uim'.channel = uim.channel /\ uim'.installing = uim.installing
           /\ modem' \in ModemState /\ modem'.wire = Append(modem.wire, m)
           /\ modem'.back = modem.back /\ modem'.open = modem.open /\ modem'.nameless = modem.nameless
  BY <1>1, <1>2, RequestSends
<1>4. uim'.channel = (uim.channel /\ helper.pc # "close") /\ uim'.installing = (uim.installing \/ helper.pc = "load")
  BY <1>1, <1>2, <1>3
<1> QED
  BY <1>1, <1>2, <1>3, <1>4 DEF Sends, CardSteps

\* Closing it, which gives it up first.
LEMMA CloseSends ==
  ASSUME TypeOK, PlaceInv, CloseChannel
  PROVE  Sends
<1> DEFINE c == [uim EXCEPT !.channel = FALSE]
<1>1. /\ helper.pc = "close" /\ uim.pending = None /\ UNCHANGED <<helper, stop, card, server, clock, budget>>
      /\ Request(c, "close", Plain("close")) /\ uim.channel
  BY DEF CloseChannel, SendClose
<1>2. /\ uim \in ClientState /\ uim.channel \in BOOLEAN /\ uim.installing \in BOOLEAN
      /\ Plain("close") \in [name : {"open", "close", "read", "challenge", "authenticate", "prepare", "load", "cancel"},
                             reason : Reasons \cup {None}]
      /\ Plain("close").name = "close" /\ Plain("close").reason = None
  BY DEF TypeOK, ClientState, Plain
<1>3. c \in ClientState /\ c.channel = FALSE /\ c.leak = uim.leak /\ c.installing = uim.installing
  BY <1>2 DEF ClientState
<1> HIDE DEF c
<1>4. PICK m \in Message :
           /\ m.cmd = Plain("close") /\ m.kind = "close"
           /\ uim' \in ClientState /\ uim'.pending = m /\ uim'.leak = c.leak
           /\ uim'.channel = c.channel /\ uim'.installing = c.installing
           /\ modem' \in ModemState /\ modem'.wire = Append(modem.wire, m)
           /\ modem'.back = modem.back /\ modem'.open = modem.open /\ modem'.nameless = modem.nameless
  BY <1>1, <1>2, <1>3, RequestSends
<1>5. uim'.channel = (uim.channel /\ helper.pc # "close") /\ uim'.installing = (uim.installing \/ helper.pc = "load")
  BY <1>1, <1>2, <1>3, <1>4
<1> QED
  BY <1>1, <1>2, <1>3, <1>4, <1>5 DEF Sends, CardSteps

\* A card command is sent, or fails at the Guard.
LEMMA CommandSends ==
  ASSUME TypeOK, PlaceInv, NEW step \in CardSteps, At(step), NEW cmd, Command(cmd),
         cmd \in [name : CardSteps, reason : Reasons \cup {None}],
         cmd.name = step, cmd.reason = IF step = "cancel" THEN helper.end.reason ELSE None
  PROVE  Sends \/ Local
<1>1. helper.pc = step /\ uim.pending = None /\ UNCHANGED <<stop, card, server, clock, budget>>
  BY DEF At, Command
<1>2. CASE GuardAllows
  <2> DEFINE c == [uim EXCEPT !.installing = @ \/ (cmd.name = "load")]
  <2>1. uim.channel /\ Request(c, "apdu", cmd) /\ UNCHANGED helper
    BY <1>2 DEF Command, SendApdu
  <2>2. uim \in ClientState /\ uim.installing \in BOOLEAN /\ uim.channel \in BOOLEAN
    BY DEF TypeOK, ClientState
  <2>3. /\ c \in ClientState /\ c.channel = uim.channel /\ c.leak = uim.leak
        /\ c.installing = (uim.installing \/ helper.pc = "load")
    BY <1>1, <2>2 DEF ClientState
  <2> HIDE DEF c
  <2>4. cmd \in [name : {"open", "close", "read", "challenge", "authenticate", "prepare", "load", "cancel"},
                 reason : Reasons \cup {None}]
    BY DEF CardSteps
  <2>5. PICK m \in Message :
           /\ m.cmd = cmd /\ m.kind = "apdu"
           /\ uim' \in ClientState /\ uim'.pending = m /\ uim'.leak = c.leak
           /\ uim'.channel = c.channel /\ uim'.installing = c.installing
           /\ modem' \in ModemState /\ modem'.wire = Append(modem.wire, m)
           /\ modem'.back = modem.back /\ modem'.open = modem.open /\ modem'.nameless = modem.nameless
    BY <2>1, <2>3, <2>4, RequestSends
  <2>6. uim'.channel = (uim.channel /\ helper.pc # "close")
    BY <1>1, <2>1, <2>2, <2>3, <2>5 DEF CardSteps
  <2> QED
    BY <1>1, <2>1, <2>3, <2>5, <2>6 DEF Sends
<1>3. CASE ~GuardAllows
  <2>1. Lost /\ UNCHANGED <<uim, modem>> /\ stop /\ ~uim.installing
    BY <1>3 DEF Command, GuardAllows
  <2> QED
    BY <1>1, <2>1, NothingSpent, UnsentIsLocal
<1> QED
  BY <1>2, <1>3

\* The commands of the procedure.
LEMMA CardCommands ==
  ASSUME TypeOK, PlaceInv, SoundInv,
         \/ ReadCard \/ NeedsCode \/ GetChallenge \/ AuthenticateServer \/ PrepareDownload
         \/ LoadBoundProfilePackage \/ CancelSession
  PROVE  Sends \/ Local
<1>1. ASSUME NEW name \in CardSteps
      PROVE  /\ Plain(name) \in [name : CardSteps, reason : Reasons \cup {None}]
             /\ Plain(name).name = name /\ Plain(name).reason = None
  BY DEF Plain
<1>2. ASSUME NEW name \in CardSteps \ {"cancel"}, At(name), Command(Plain(name)) PROVE Sends \/ Local
  BY <1>1, <1>2, CommandSends
<1>3. ASSUME NEW name \in {"authenticate", "prepare"}, At(name), Built(Plain(name)) PROVE Sends \/ Local
  <2>1. CASE Command(Plain(name))
    BY <1>2, <1>3, <2>1 DEF CardSteps
  <2>2. CASE CanFault /\ Fault(TRUE) /\ Bad /\ UNCHANGED <<uim, modem>>
    <3>1. Spends
      BY <2>2, FaultSpends
    <3> QED
      BY <1>3, <2>2, <3>1, UnsentIsLocal DEF At, CardSteps
  <2> QED
    BY <1>3, <2>1, <2>2 DEF Built
<1>4. CASE ReadCard
  BY <1>2, <1>4 DEF ReadCard, CardSteps
<1>5. CASE GetChallenge
  BY <1>2, <1>5 DEF GetChallenge, CardSteps
<1>6. CASE AuthenticateServer
  BY <1>3, <1>6 DEF AuthenticateServer
<1>7. CASE PrepareDownload
  BY <1>3, <1>7 DEF PrepareDownload
<1>8. CASE CancelSession
  <2> DEFINE cmd == [name |-> "cancel", reason |-> helper.end.reason]
  <2>1. At("cancel") /\ Command(cmd) /\ helper.pc = "cancel"
    BY <1>8 DEF CancelSession, At
  <2>2. helper.end \in Ending
    BY <2>1 DEF PlaceInv, Winding, TypeOK, HelperState
  <2>3. cmd \in [name : CardSteps, reason : Reasons \cup {None}] /\ cmd.name = "cancel" /\ cmd.reason = helper.end.reason
    BY <2>2 DEF Ending, CardSteps
  <2> HIDE DEF cmd
  <2> QED
    BY <2>1, <2>3, CommandSends DEF CardSteps
<1>9. CASE NeedsCode
  <2>1. /\ helper.pc = "challenge" /\ uim.pending = None /\ UNCHANGED <<uim, modem, stop, card, server, clock>>
        /\ Fault(TRUE) /\ Ends(Stop("failed", None, TRUE))
    BY <1>9 DEF NeedsCode, At
  <2>2. Spends /\ server' \in ServerState /\ server'.order = server.order
    BY <2>1, FaultSpends DEF TypeOK
  <2>3. Stops(helper.session)
    BY <2>1, Failures, FailureStops
  <2>4. LocalStops
    BY <2>1, <2>2, <2>3 DEF LocalStops, Forward
  <2> QED
    BY <2>1, <2>2, <2>4 DEF Local
<1>10. CASE LoadBoundProfilePackage
  <2>1. /\ helper.pc = "load" /\ uim.pending = None /\ UNCHANGED <<stop, card, server, clock>>
        /\ At("load")
    BY <1>10 DEF LoadBoundProfilePackage, At
  <2>2. CASE helper.plan[helper.seg] = "segment"
    BY <1>2, <1>10, <2>2 DEF LoadBoundProfilePackage, CardSteps
  <2>3. CASE helper.plan[helper.seg] # "segment"
    <3>1. Bad /\ UNCHANGED <<uim, modem, budget>>
      BY <1>10, <2>3 DEF LoadBoundProfilePackage
    <3>2. ASSUME budget.faults = 0 PROVE FALSE
      <4>1. helper.plan = Plan("whole") /\ helper.seg \in 1 .. Segments
        BY <2>1, <3>2 DEF SoundInv, Forward, Known
      <4>2. Plan("whole") = [i \in 1 .. Segments |-> "segment"]
        BY DEF Plan
      <4> QED
        BY <2>3, <4>1, <4>2
    <3>3. Spends /\ budget.faults \in Nat
      BY <3>1, NothingSpent DEF TypeOK, BudgetState
    <3>4. budget'.faults > 0
      BY <3>1, <3>2, <3>3
    <3> QED
      BY <2>1, <3>1, <3>3, <3>4, UnsentIsLocal DEF CardSteps
  <2> QED
    BY <2>2, <2>3
<1> QED
  BY <1>4, <1>5, <1>6, <1>7, <1>8, <1>9, <1>10

\* The next answer is one of those on their way.
LEMMA BackHead ==
  ASSUME TypeOK, modem.back # <<>>
  PROVE  /\ Head(modem.back) \in Answer /\ Head(modem.back) = modem.back[1] /\ 1 \in 1 .. Len(modem.back)
         /\ Tail(modem.back) \in Seq(Answer) /\ Len(Tail(modem.back)) = Len(modem.back) - 1
         /\ \A i \in 1 .. Len(Tail(modem.back)) : Tail(modem.back)[i] = modem.back[i + 1] /\ i + 1 \in 1 .. Len(modem.back)
<1>1. modem.back \in Seq(Answer)
  BY DEF TypeOK, ModemState
<1> QED
  BY <1>1

\* Reading an answer.
LEMMA DropReads ==
  ASSUME TypeOK, modem.back # <<>>, modem' = [modem EXCEPT !.back = Tail(@)]
  PROVE  Reads
<1>1. modem \in ModemState /\ Tail(modem.back) \in Seq(Answer)
  BY BackHead DEF TypeOK
<1> QED
  BY <1>1 DEF Reads, ModemState

\* Skipping an answer to another request.
LEMMA SkipForm ==
  ASSUME TypeOK, Skip
  PROVE  Skips
<1>1. /\ helper.pc \notin Over /\ uim.pending # None /\ modem.back # <<>> /\ ~Matches(Head(modem.back))
      /\ modem' = [modem EXCEPT !.back = Tail(@)] /\ UNCHANGED <<uim, helper, stop, card, server, clock, budget>>
  BY DEF Skip, SkipStale
<1> QED
  BY <1>1, DropReads DEF Skips

\* The run that could not begin.
LEMMA NotStartedGivesIn ==
  ASSUME TypeOK, NotStarted
  PROVE  GivesIn
<1> DEFINE s == Stop("not_started", None, FALSE)
<1>1. s \in Ending /\ s.result = "not_started" /\ ~s.receipt /\ s.reason = None
  BY StopEnds
<1>2. helper' = [helper EXCEPT !.end = s, !.pc = "answer"] /\ helper \in HelperState /\ Within(helper.ctl)
  BY LinesWithin DEF NotStarted, TypeOK
<1> HIDE DEF s
<1>3. helper' \in HelperState /\ helper'.pc = "answer" /\ helper'.end = s /\ helper'.ctl = helper.ctl
  BY <1>1, <1>2 DEF HelperState, Winding
<1> QED
  BY <1>1, <1>2, <1>3, SessionConstants DEF GivesIn, Reasons

\* On to a step that ends the run.
LEMMA WindGoes ==
  ASSUME TypeOK, NEW to \in Winding, helper' = [helper EXCEPT !.pc = to]
  PROVE  Goes(to)
<1>1. helper \in HelperState /\ Within(helper.ctl) /\ to \notin Forward
  BY LinesWithin DEF TypeOK, Winding, Forward, Known
<1>2. /\ helper' \in HelperState /\ helper'.pc = to /\ helper'.end = helper.end /\ helper'.ctl = helper.ctl
      /\ helper'.seg = helper.seg
  BY <1>1 DEF HelperState
<1> QED
  BY <1>1, <1>2 DEF Goes

\* What Loaded() makes of an answer to a segment.
LEMMA LoadedTakes ==
  ASSUME TypeOK, PlaceInv, helper.pc = "load", NEW data, data \notin {"error", "bad"}, Loaded(data)
  PROVE  Takes(data)
<1>1. helper \in HelperState /\ Within(helper.ctl) /\ Within(<<>>) /\ helper.seg \in Nat
  BY LinesWithin DEF TypeOK, HelperState
<1>2. CASE data = "refused"
  <2> DEFINE s == Stop("failed", None, TRUE)
  <2>1. s \in Ending /\ s.result = "failed" /\ ~s.receipt /\ s.reason = None
    BY DEF Stop, Ending
  <2>2. helper' = Stopping(s, FALSE)
    BY <1>2 DEF Loaded
  <2> HIDE DEF s
  <2>3. helper' \in HelperState /\ Within(helper'.ctl) /\ helper'.end = s /\ helper'.pc = "close"
    BY <1>1, <2>1, <2>2, StoppingEnds
  <2> QED
    BY <1>2, <2>1, <2>3, SessionConstants DEF Takes, Refused, Reasons
<1>3. CASE data # "refused" /\ helper.seg = Len(helper.plan)
  <2> DEFINE s == [Stop("ok", None, FALSE) EXCEPT !.receipt = data = "installed"]
  <2>1. s \in Ending /\ s.result = "ok" /\ s.receipt = (data = "installed") /\ s.reason = None
    BY DEF Stop, Ending
  <2>2. helper' = [helper EXCEPT !.pc = "close", !.end = s]
    BY <1>3 DEF Loaded
  <2> HIDE DEF s
  <2>3. helper' \in HelperState /\ helper'.ctl = helper.ctl /\ helper'.end = s /\ helper'.pc = "close"
    BY <1>1, <2>1, <2>2 DEF HelperState, Winding
  <2>4. Done(data)
    BY <1>1, <2>1, <2>3, SessionConstants DEF Done, Reasons
  <2> QED
    BY <1>3, <2>4 DEF Takes
<1>4. CASE data # "refused" /\ helper.seg # Len(helper.plan)
  <2>1. helper' = [helper EXCEPT !.seg = @ + 1]
    BY <1>4 DEF Loaded
  <2>2. /\ helper' \in HelperState /\ helper'.pc = "load" /\ helper'.end = helper.end /\ helper'.ctl = helper.ctl
        /\ helper'.session = helper.session /\ helper'.seg = helper.seg + 1 /\ helper'.plan = helper.plan
    BY <1>1, <2>1 DEF HelperState
  <2>3. Goes("load")
    BY <1>1, <2>2 DEF Goes, PlaceInv, Forward, Known
  <2> QED
    BY <1>4, <2>2, <2>3 DEF Takes
<1> QED
  BY <1>2, <1>3, <1>4

\* What the procedure does with an answer.
LEMMA AnsweredTakes ==
  ASSUME TypeOK, PlaceInv, helper.pc \in CardSteps \cup {"open", "close"}, NEW data, Answered(data),
         helper.pc \in {"open", "close"} => data \in {"ok", "error", "no_id"}
  PROVE  Takes(data)
<1>0. helper \in HelperState /\ Within(helper.ctl) /\ helper.session \in BOOLEAN
  BY LinesWithin DEF TypeOK, HelperState
<1>1. CASE helper.pc = "open"
  <2>1. CASE data \in {"error", "no_id"}
    BY <1>1, <2>1, NotStartedGivesIn DEF Answered, Takes
  <2>2. CASE data = "ok"
    <3>1. helper' = [helper EXCEPT !.pc = "read"]
      BY <1>1, <2>2 DEF Answered
    <3>2. /\ helper' \in HelperState /\ helper'.pc = "read" /\ helper'.end = helper.end /\ helper'.ctl = helper.ctl
          /\ helper'.session = helper.session /\ helper'.seg = helper.seg
      BY <1>0, <3>1 DEF HelperState, Forward
    <3>3. Goes("read")
      BY <1>0, <1>1, <3>2 DEF Goes, PlaceInv, Forward, Known
    <3> QED
      BY <1>1, <2>2, <3>3 DEF Takes
  <2> QED
    BY <1>1, <2>1, <2>2
<1>2. CASE helper.pc = "close"
  <2>1. helper' = [helper EXCEPT !.pc = "answer"]
    BY <1>2 DEF Answered
  <2>2. Goes("answer")
    BY <2>1, WindGoes DEF Winding
  <2> QED
    BY <1>2, <2>2 DEF Takes
<1>3. CASE helper.pc \in CardSteps /\ data \in {"error", "bad"}
  <2>1. Lost \/ Bad
    BY <1>3 DEF Answered, CardSteps
  <2>2. helper.pc \in {"read", "challenge", "authenticate"} => ~helper.session
    BY DEF PlaceInv, Forward, Known
  <2>3. helper.pc = "prepare" => helper.session
    BY DEF PlaceInv, Forward, Known
  <2>4. CASE helper.pc = "load"
    BY <1>3, <2>1, <2>4, LostMoves DEF Takes
  <2>5. CASE helper.pc = "cancel"
    BY <1>3, <2>1, <2>5, LostMoves DEF Takes
  <2>6. CASE helper.pc \in {"read", "challenge", "authenticate"}
    <3>1. Stops(FALSE)
      BY <1>0, <1>3, <2>1, <2>2, <2>6, LostMoves
    <3> QED
      BY <1>3, <2>6, <3>1 DEF Takes
  <2>7. CASE helper.pc = "prepare"
    <3>1. Stops(TRUE)
      BY <1>0, <1>3, <2>1, <2>3, <2>7, LostMoves
    <3> QED
      BY <2>7, <3>1 DEF Takes
  <2> QED
    BY <1>3, <2>4, <2>5, <2>6, <2>7 DEF CardSteps
<1>4. CASE helper.pc = "read" /\ data \notin {"error", "bad"}
  <2>1. CASE Download
    <3>1. helper' = [helper EXCEPT !.pc = "challenge"]
      BY <1>4, <2>1 DEF Answered
    <3>2. /\ helper' \in HelperState /\ helper'.pc = "challenge" /\ helper'.end = helper.end /\ helper'.ctl = helper.ctl
          /\ helper'.session = helper.session /\ helper'.seg = helper.seg
      BY <1>0, <3>1 DEF HelperState, Forward
    <3>3. Goes("challenge")
      BY <1>0, <1>4, <3>2 DEF Goes, PlaceInv, Forward, Known
    <3> QED
      BY <1>4, <2>1, <3>3 DEF Takes
  <2>2. CASE ~Download
    <3> DEFINE s == Stop("ok", None, FALSE)
    <3>1. s \in Ending /\ s.result = "ok" /\ ~s.receipt /\ s.reason = None
      BY StopEnds
    <3>2. helper' = [helper EXCEPT !.pc = "close", !.end = s]
      BY <1>4, <2>2 DEF Answered
    <3> HIDE DEF s
    <3>3. /\ helper' \in HelperState /\ helper'.pc = "close" /\ helper'.end = s /\ helper'.ctl = helper.ctl
          /\ helper'.session = helper.session
      BY <1>0, <3>1, <3>2 DEF HelperState, Winding
    <3>4. ~helper.session
      BY <1>4 DEF PlaceInv, Forward, Known
    <3>5. Stops(FALSE)
      BY <1>0, <3>1, <3>3, <3>4, SessionConstants DEF Stops, Reasons
    <3> QED
      BY <1>4, <3>5 DEF Takes
  <2> QED
    BY <2>1, <2>2
<1>5. CASE helper.pc = "challenge" /\ data \notin {"error", "bad"}
  <2>1. Checked("initiate", FALSE)
    BY <1>5 DEF Answered
  <2>2. Stops(FALSE) \/ Goes("initiate")
    BY <2>1, CheckedMoves DEF Forward, Known
  <2> QED
    BY <1>5, <2>2 DEF Takes
<1>6. CASE helper.pc = "authenticate" /\ data \notin {"error", "bad"}
  <2>1. Checked("client", TRUE)
    BY <1>6 DEF Answered
  <2>2. Stops(TRUE) \/ Goes("client")
    BY <2>1, CheckedMoves DEF Forward, Known
  <2> QED
    BY <1>6, <2>2 DEF Takes
<1>7. CASE helper.pc = "prepare" /\ data \notin {"error", "bad"}
  <2>1. Checked("package", TRUE)
    BY <1>7 DEF Answered
  <2>2. Stops(TRUE) \/ Goes("package")
    BY <2>1, CheckedMoves DEF Forward, Known
  <2> QED
    BY <1>7, <2>2 DEF Takes
<1>8. CASE helper.pc = "load" /\ data \notin {"error", "bad"}
  <2>1. Loaded(data)
    BY <1>8 DEF Answered
  <2> QED
    BY <1>8, <2>1, LoadedTakes
<1>9. CASE helper.pc = "cancel" /\ data \notin {"error", "bad"}
  <2>1. helper' = [helper EXCEPT !.pc = IF helper.end.notify THEN "inform" ELSE "close"]
    BY <1>9 DEF Answered
  <2>2. CASE helper.end.notify
    BY <1>9, <2>1, <2>2, WindGoes DEF Winding, Takes
  <2>3. CASE ~helper.end.notify
    BY <1>9, <2>1, <2>3, WindGoes DEF Winding, Takes
  <2> QED
    BY <2>2, <2>3
<1> QED
  BY <1>1, <1>2, <1>3, <1>4, <1>5, <1>6, <1>7, <1>8, <1>9 DEF CardSteps

\* Receiving the answer: the client and the procedure.
LEMMA ReceiveForm ==
  ASSUME TypeOK, PlaceInv, OutcomeInv, Receive
  PROVE  Receives
<1> DEFINE a == Head(modem.back)
<1>1. /\ helper.pc \notin Over /\ uim.pending # None /\ modem.back # <<>> /\ Matches(a)
      /\ uim' = AfterAnswer(a.kind, a.data) /\ Answered(a.data)
      /\ modem' = [modem EXCEPT !.back = Tail(@)] /\ UNCHANGED <<stop, card, server, clock, budget>>
  BY DEF Receive, HasAnswer
<1>2. Reads /\ a \in Answer /\ a = modem.back[1] /\ 1 \in 1 .. Len(modem.back)
  BY <1>1, DropReads, BackHead
<1>3. /\ helper.pc \in CardSteps \cup {"open", "close"} /\ a.kind = IF helper.pc \in CardSteps THEN "apdu" ELSE helper.pc
  BY <1>1 DEF PlaceInv, Over, Matches
<1>4. helper.pc \in {"open", "close"} => a.data \in {"ok", "error", "no_id"} /\ a.kind = helper.pc
  BY <1>2, <1>3 DEF OutcomeInv, CardSteps
<1>5. Takes(a.data)
  BY <1>1, <1>3, <1>4, AnsweredTakes
<1>6. uim \in ClientState /\ uim.channel \in BOOLEAN /\ uim.leak \in BOOLEAN /\ uim.installing \in BOOLEAN
  BY DEF TypeOK, ClientState
<1> HIDE DEF a
<1>7. /\ uim' \in ClientState /\ uim'.pending = None /\ uim'.installing = uim.installing
      /\ uim'.leak = (uim.leak \/ (helper.pc = "close" /\ a.data = "error"))
      /\ uim'.channel = IF helper.pc = "open" THEN a.data = "ok" ELSE uim.channel
  <2>1. CASE helper.pc = "open"
    BY <1>1, <1>3, <1>6, <2>1 DEF AfterAnswer, ClientState, CardSteps
  <2>2. CASE helper.pc = "close"
    BY <1>1, <1>3, <1>6, <2>2 DEF AfterAnswer, ClientState, CardSteps
  <2>3. CASE helper.pc \in CardSteps
    <3>1. uim' = [uim EXCEPT !.pending = None] /\ helper.pc \notin {"open", "close"}
      BY <1>1, <1>3, <2>3 DEF AfterAnswer, CardSteps
    <3> QED
      BY <1>6, <3>1 DEF ClientState
  <2> QED
    BY <1>3, <2>1, <2>2, <2>3
<1> QED
  BY <1>1, <1>2, <1>5, <1>7 DEF Receives, a

\* Giving up the wait: with one request in flight, only over a fault, the deadline or a stop signal.
LEMMA GiveUpForm ==
  ASSUME TypeOK, PlaceInv, GiveUp
  PROVE  GivesUp
<1> DEFINE p == uim.pending
           due == AnswerLost \/ (p.kind = "apdu" /\ Interruptible) \/ clock >= 2
<1>1. /\ helper.pc \notin Over /\ uim.pending # None /\ ~HasAnswer /\ UNCHANGED <<modem, stop, card, server, clock>>
      /\ Fault(~due) /\ uim' = AfterLoss(p.kind)
      /\ CASE p.kind = "open"  -> NotStarted
           [] p.kind = "close" -> helper' = [helper EXCEPT !.pc = "answer"]
           [] OTHER            -> Lost
  BY DEF GiveUp
<1>2. helper.pc \in CardSteps \cup {"open", "close"} /\ p.kind = IF helper.pc \in CardSteps THEN "apdu" ELSE helper.pc
  BY <1>1 DEF PlaceInv, Over
<1>3. stop \in BOOLEAN /\ clock \in 0 .. 4 /\ uim \in ClientState /\ uim.leak \in BOOLEAN
  BY DEF TypeOK, ClientState
<1>4. (~due) \in BOOLEAN
  OBVIOUS
<1>5. Spends /\ (~due => budget'.faults > 0)
  BY <1>1, <1>4, FaultSpends
<1>6. /\ uim' \in ClientState /\ uim'.pending = None /\ uim'.installing = uim.installing /\ uim'.channel = uim.channel
      /\ uim'.leak = (uim.leak \/ helper.pc \in {"open", "close"})
  <2>1. CASE helper.pc \in CardSteps
    <3>1. uim' = [uim EXCEPT !.pending = None] /\ helper.pc \notin {"open", "close"}
      BY <1>1, <1>2, <2>1 DEF AfterLoss, CardSteps
    <3> QED
      BY <1>3, <3>1 DEF ClientState
  <2>2. CASE helper.pc \notin CardSteps
    <3>1. uim' = [uim EXCEPT !.pending = None, !.unknown = TRUE, !.leak = TRUE] /\ helper.pc \in {"open", "close"}
      BY <1>1, <1>2, <2>2 DEF AfterLoss
    <3> QED
      BY <1>3, <3>1 DEF ClientState
  <2> QED
    BY <2>1, <2>2
<1>7. ASSUME InFlight PROVE budget'.faults > 0 \/ clock >= 2 \/ (stop /\ ~uim.installing)
  <2>1. CASE ~due
    BY <1>5, <2>1
  <2>2. CASE due /\ AnswerLost
    <3>1. CASE modem.wire = <<uim.pending>>
      <4>1. 1 \in DOMAIN modem.wire /\ modem.wire[1].txn = uim.pending.txn
        BY <3>1
      <4> QED
        BY <2>2, <4>1 DEF AnswerLost
    <3>2. CASE Len(modem.back) = 1 /\ Matches(modem.back[1])
      <4>1. modem.back # <<>> /\ Head(modem.back) = modem.back[1]
        BY <3>2, BackHead DEF TypeOK, ModemState
      <4> QED
        BY <1>1, <3>2, <4>1 DEF HasAnswer
    <3>3. CASE budget.faults > 0
      BY <1>5, <3>3 DEF Spends, BudgetState, TypeOK
    <3> QED
      BY <1>1, <1>7, <3>1, <3>2, <3>3 DEF InFlight
  <2>3. CASE due /\ ~AnswerLost
    BY <2>3 DEF Interruptible
  <2> QED
    BY <2>1, <2>2, <2>3
<1>8. \/ helper.pc = "open" /\ GivesIn
      \/ helper.pc = "close" /\ Goes("answer")
      \/ helper.pc = "load" /\ Breaks
      \/ helper.pc = "cancel" /\ Goes("close")
      \/ helper.pc \in {"read", "challenge", "authenticate", "prepare"} /\ Stops(helper.session)
  <2>1. CASE helper.pc = "open"
    <3>1. NotStarted
      BY <1>1, <1>2, <2>1 DEF CardSteps
    <3> QED
      BY <2>1, <3>1, NotStartedGivesIn
  <2>2. CASE helper.pc = "close"
    <3>1. helper' = [helper EXCEPT !.pc = "answer"]
      BY <1>1, <1>2, <2>2 DEF CardSteps
    <3> QED
      BY <2>2, <3>1, WindGoes DEF Winding
  <2>3. CASE helper.pc \in CardSteps
    <3>1. Lost
      BY <1>1, <1>2, <2>3
    <3> QED
      BY <2>3, <3>1, LostMoves DEF CardSteps
  <2> QED
    BY <1>2, <2>1, <2>2, <2>3
<1> QED
  BY <1>1, <1>5, <1>6, <1>7, <1>8 DEF GivesUp

\* Every step of the helper has one of the five forms.
LEMMA HelperForms ==
  ASSUME RunInv, HelperStep
  PROVE  Local \/ Sends \/ Receives \/ Skips \/ GivesUp
<1> USE DEF RunInv
<1>1. CASE \/ Connect \/ InitiateAuthentication \/ AuthenticateClient \/ GetBoundProfilePackage
           \/ InformServer \/ Decide \/ PrintAnswer
  BY <1>1, ConnectIsLocal, InitiateIsLocal, ClientIsLocal, PackageIsLocal, InformIsLocal, DecideIsLocal, PrintIsLocal
<1>2. CASE \/ ReadCard \/ NeedsCode \/ GetChallenge \/ AuthenticateServer \/ PrepareDownload
           \/ LoadBoundProfilePackage \/ CancelSession
  BY <1>2, CardCommands
<1>3. CASE OpenChannel \/ CloseChannel
  BY <1>3, OpenSends, CloseSends
<1>4. CASE Receive
  BY <1>4, ReceiveForm
<1>5. CASE Skip
  BY <1>5, SkipForm
<1>6. CASE GiveUp
  BY <1>6, GiveUpForm
<1> QED
  BY <1>1, <1>2, <1>3, <1>4, <1>5, <1>6 DEF HelperStep, Steps, Calls

(***************************************************************************)
(* The card and the modem.                                                 *)
(***************************************************************************)

\* What serving the request m does to the card, and the data of its answer.
CardTakes(m, data) ==
  /\ card' \in CardState
  /\ \/ data = "error" /\ card' = card /\ (modem.open => budget'.faults > 0)
     \/ modem.open /\ m.cmd.name = "authenticate" /\ data \in {"ok", "bad"} /\ card' = card /\ budget'.faults > 0
     \/ /\ modem.open /\ m.cmd.name = "authenticate" /\ data = "ok"
        /\ card'.session = "open" /\ card'.took = card.took /\ card'.profile = card.profile
     \/ /\ modem.open /\ m.cmd.name = "load" /\ data = "bad" /\ card' = card
        /\ card.session = "open" => budget'.faults > 0
     \/ /\ modem.open /\ m.cmd.name = "load" /\ data = "refused" /\ budget'.faults > 0 /\ card.session = "open"
        /\ card'.session = "ended" /\ card'.profile = card.profile
     \/ /\ modem.open /\ m.cmd.name = "load" /\ data = "installed" /\ card.session = "open"
        /\ card'.session = "ended" /\ card'.profile /\ card'.took = Segments /\ card.took + 1 = Segments
     \/ /\ modem.open /\ m.cmd.name = "load" /\ data = "more" /\ card.session = "open" /\ ~card'.profile
        /\ card'.session = "open" /\ card'.took = card.took + 1 /\ card.took + 1 # Segments
     \/ /\ modem.open /\ m.cmd.name = "cancel" /\ data \in {"ok", "bad"} /\ (data = "bad" => budget'.faults > 0)
        /\ card'.session = IF card.session = "open" THEN m.cmd.reason ELSE card.session
        /\ card'.took = card.took /\ card'.profile = card.profile
     \/ /\ modem.open /\ m.cmd.name \notin {"authenticate", "load", "cancel"} /\ card' = card
        /\ data \in {"ok", "bad"} /\ (data = "bad" => budget'.faults > 0)

\* The modem serves the request m with an answer that arrives or is lost.
ServesOne(m, data, delivered) ==
  /\ modem' \in ModemState /\ modem'.wire = Tail(modem.wire)
  /\ modem'.nameless = (modem.nameless \/ data = "no_id")
  /\ modem'.back = IF delivered THEN Append(modem.back, [txn |-> m.txn, kind |-> m.kind, data |-> data])
                      ELSE modem.back
  /\ ~delivered => budget'.faults > 0
  /\ m.kind = "apdu" => CardTakes(m, data) /\ modem'.open = modem.open
  /\ m.kind # "apdu" =>
       /\ card' = card /\ data \in {"ok", "error", "no_id"} /\ (data # "ok" => budget'.faults > 0)
       /\ modem'.open = IF data = "error" THEN modem.open ELSE m.kind = "open"
Serves ==
  /\ UNCHANGED <<uim, stop, helper, server, clock>> /\ modem.wire # <<>> /\ Spends
  /\ \E data \in {"ok", "error", "no_id", "bad", "refused", "more", "installed"}, delivered \in BOOLEAN :
       ServesOne(Head(modem.wire), data, delivered)

\* The next request is one of those on their way.
LEMMA WireHead ==
  ASSUME TypeOK, modem.wire # <<>>
  PROVE  /\ Head(modem.wire) \in Message /\ Head(modem.wire) = modem.wire[1] /\ 1 \in 1 .. Len(modem.wire)
         /\ Tail(modem.wire) \in Seq(Message) /\ Len(Tail(modem.wire)) = Len(modem.wire) - 1
         /\ \A i \in 1 .. Len(Tail(modem.wire)) : Tail(modem.wire)[i] = modem.wire[i + 1] /\ i + 1 \in 1 .. Len(modem.wire)
<1>1. modem.wire \in Seq(Message)
  BY DEF TypeOK, ModemState
<1> QED
  BY <1>1

\* What a command does to the card.
LEMMA ExecuteTakes ==
  ASSUME TypeOK, NEW m \in Message, m.cmd.name = "cancel" => m.cmd.reason # None, modem.open, NEW refuses \in BOOLEAN,
         card.profile => card.session = "ended",
         refuses => budget'.faults > 0, NEW r \in Execute(m.cmd, refuses), card' = r[1]
  PROVE  CardTakes(m, r[2]) /\ r[2] \in {"ok", "bad", "refused", "more", "installed"}
<1>1. card \in CardState /\ card.took \in Nat /\ Segments \in Nat
  BY SessionConstants DEF TypeOK, CardState
<1>2. CASE m.cmd.name = "authenticate"
  <2>1. \/ refuses /\ r[1] = card /\ r[2] \in {"ok", "bad"}
        \/ r[1] = [card EXCEPT !.session = "open"] /\ r[2] = "ok"
    BY <1>2 DEF Execute
  <2>2. CASE refuses /\ r[1] = card /\ r[2] \in {"ok", "bad"}
    BY <1>1, <1>2, <2>2 DEF CardTakes
  <2>3. CASE r[1] = [card EXCEPT !.session = "open"] /\ r[2] = "ok"
    <3>1. card' \in CardState /\ card'.session = "open" /\ card'.took = card.took /\ card'.profile = card.profile
      BY <1>1, <2>3 DEF CardState
    <3> QED
      BY <1>2, <2>3, <3>1 DEF CardTakes
  <2> QED
    BY <2>1, <2>2, <2>3
<1>3. CASE m.cmd.name = "load"
  <2>1. \/ card.session # "open" /\ r[1] = card /\ r[2] = "bad"
        \/ card.session = "open" /\ refuses /\ r[1] = [card EXCEPT !.session = "ended"] /\ r[2] = "refused"
        \/ card.session = "open" /\ refuses /\ r[1] = card /\ r[2] = "bad"
        \/ card.session = "open" /\ r[1] = Took(card) /\ r[2] = IF Took(card).profile THEN "installed" ELSE "more"
    BY <1>3 DEF Execute
  <2>2. CASE r[1] = card /\ r[2] = "bad" /\ (card.session = "open" => refuses)
    BY <1>1, <1>3, <2>2 DEF CardTakes
  <2>3. CASE card.session = "open" /\ refuses /\ r[1] = [card EXCEPT !.session = "ended"] /\ r[2] = "refused"
    <3>1. card' \in CardState /\ card'.session = "ended" /\ card'.profile = card.profile
      BY <1>1, <2>3 DEF CardState
    <3> QED
      BY <1>3, <2>3, <3>1 DEF CardTakes
  <2>4. CASE card.session = "open" /\ r[1] = Took(card) /\ r[2] = IF Took(card).profile THEN "installed" ELSE "more"
    <3>1. CASE card.took + 1 = Segments
      <4>1. card' = [session |-> "ended", took |-> Segments, profile |-> TRUE] /\ r[2] = "installed"
        BY <2>4, <3>1 DEF Took
      <4>2. card' \in CardState /\ card'.session = "ended" /\ card'.profile /\ card'.took = Segments
        BY <1>1, <4>1 DEF CardState
      <4> QED
        BY <1>3, <2>4, <3>1, <4>1, <4>2 DEF CardTakes
    <3>2. CASE card.took + 1 # Segments
      <4>1. card' = [card EXCEPT !.took = @ + 1]
        BY <2>4, <3>2 DEF Took
      <4>2. card' \in CardState /\ card'.session = "open" /\ card'.profile = card.profile /\ card'.took = card.took + 1
        BY <1>1, <2>4, <4>1 DEF CardState
      <4>3. r[2] = IF card.profile THEN "installed" ELSE "more"
        BY <2>4, <4>1, <4>2
      <4> QED
        BY <1>3, <2>4, <3>2, <4>2, <4>3 DEF CardTakes
    <3> QED
      BY <3>1, <3>2
  <2> QED
    BY <2>1, <2>2, <2>3, <2>4
<1>4. CASE m.cmd.name = "cancel"
  <2>1. r[1] = [card EXCEPT !.session = IF @ = "open" THEN m.cmd.reason ELSE @] /\ r[2] = IF refuses THEN "bad" ELSE "ok"
    BY <1>4 DEF Execute
  <2>2. m.cmd.reason \in Reasons
    BY <1>4 DEF Message
  <2>3. /\ card' \in CardState /\ card'.took = card.took /\ card'.profile = card.profile
        /\ card'.session = IF card.session = "open" THEN m.cmd.reason ELSE card.session
    BY <1>1, <2>1, <2>2 DEF CardState
  <2> QED
    BY <1>4, <2>1, <2>3 DEF CardTakes
<1>5. CASE m.cmd.name \notin {"authenticate", "load", "cancel"}
  <2>1. r[1] = card /\ r[2] = IF refuses THEN "bad" ELSE "ok"
    BY <1>5 DEF Execute
  <2> QED
    BY <1>1, <1>5, <2>1 DEF CardTakes
<1> QED
  BY <1>2, <1>3, <1>4, <1>5

\* The modem serves one request.
LEMMA ModemForm ==
  ASSUME TypeOK, PlaceInv, ConsentInv, ModemServes
  PROVE  Serves
<1> DEFINE m == Head(modem.wire)
<1>1. PICK ok \in BOOLEAN, odd \in BOOLEAN, delivered \in BOOLEAN :
        /\ Fault(~ok \/ odd \/ ~delivered)
        /\ \/ m.kind = "apdu" /\ ok /\ modem.open
              /\ \E r \in Execute(m.cmd, odd) : card' = r[1] /\ Serve(TRUE, r[2], delivered)
           \/ (m.kind = "apdu" => ~ok \/ ~modem.open)
              /\ card' = card /\ Serve(ok /\ m.kind # "apdu", IF odd THEN "no_id" ELSE "ok", delivered)
  BY DEF ModemServes
<1>2. modem.wire # <<>> /\ UNCHANGED <<uim, stop, helper, server, clock>>
  BY DEF ModemServes
<1>3. /\ m \in Message /\ m = modem.wire[1] /\ 1 \in 1 .. Len(modem.wire) /\ Tail(modem.wire) \in Seq(Message)
      /\ modem \in ModemState /\ modem.back \in Seq(Answer) /\ modem.open \in BOOLEAN /\ modem.nameless \in BOOLEAN
      /\ m.txn \in Nat /\ m.kind \in {"open", "close", "apdu"}
  BY <1>2, WireHead DEF TypeOK, ModemState, Message
<1>4. Spends /\ (~ok \/ odd \/ ~delivered => budget'.faults > 0)
  <2>1. (~ok \/ odd \/ ~delivered) \in BOOLEAN
    OBVIOUS
  <2> QED
    BY <1>1, <2>1, FaultSpends
<1>5. card \in CardState /\ (card.profile => card.session = "ended") /\ (m.cmd.name = "cancel" => m.cmd.reason # None)
  BY <1>3 DEF TypeOK, ConsentInv, PlaceInv
<1> HIDE DEF m
<1>6. ASSUME NEW data \in {"ok", "error", "no_id", "bad", "refused", "more", "installed"}
      PROVE  LET back == IF delivered THEN Append(modem.back, [txn |-> m.txn, kind |-> m.kind, data |-> data])
                            ELSE modem.back
             IN /\ back \in Seq(Answer)
                /\ \A open, nameless \in BOOLEAN :
                     modem' = [wire |-> Tail(modem.wire), back |-> back, open |-> open, nameless |-> nameless] =>
                     modem' \in ModemState /\ modem'.wire = Tail(modem.wire) /\ modem'.back = back /\ modem'.open = open
                     /\ modem'.nameless = nameless
  <2> DEFINE a == [txn |-> m.txn, kind |-> m.kind, data |-> data]
             back == IF delivered THEN Append(modem.back, a) ELSE modem.back
  <2>1. a \in Answer
    BY <1>3 DEF Answer
  <2>2. back \in Seq(Answer)
    BY <1>3, <2>1
  <2> HIDE DEF a, back
  <2>3. \A open, nameless \in BOOLEAN : modem' = [wire |-> Tail(modem.wire), back |-> back, open |-> open, nameless |-> nameless] =>
          modem' \in ModemState /\ modem'.wire = Tail(modem.wire) /\ modem'.back = back /\ modem'.open = open
                     /\ modem'.nameless = nameless
    BY <1>3, <2>2 DEF ModemState
  <2> QED
    BY <2>2, <2>3 DEF a, back
<1>7. CASE m.kind = "apdu" /\ ok /\ modem.open
           /\ \E r \in Execute(m.cmd, odd) : card' = r[1] /\ Serve(TRUE, r[2], delivered)
  <2>1. PICK r \in Execute(m.cmd, odd) : card' = r[1] /\ Serve(TRUE, r[2], delivered)
    BY <1>7
  <2>2. CardTakes(m, r[2]) /\ r[2] \in {"ok", "bad", "refused", "more", "installed"}
    BY <1>3, <1>4, <1>5, <1>7, <2>1, ExecuteTakes
  <2>3. modem' = [wire |-> Tail(modem.wire),
                  back |-> IF delivered THEN Append(modem.back, [txn |-> m.txn, kind |-> m.kind, data |-> r[2]])
                              ELSE modem.back,
                  open |-> modem.open, nameless |-> modem.nameless \/ r[2] = "no_id"]
    BY <1>7, <2>1 DEF Serve, m
  <2>4. ServesOne(m, r[2], delivered)
    BY <1>3, <1>4, <1>6, <1>7, <2>2, <2>3 DEF ServesOne
  <2> QED
    BY <1>2, <1>4, <2>2, <2>4 DEF Serves, m
<1>8. CASE (m.kind = "apdu" => ~ok \/ ~modem.open)
           /\ card' = card /\ Serve(ok /\ m.kind # "apdu", IF odd THEN "no_id" ELSE "ok", delivered)
  <2> DEFINE data == IF ok /\ m.kind # "apdu" THEN (IF odd THEN "no_id" ELSE "ok") ELSE "error"
             open == IF data = "error" THEN modem.open ELSE m.kind = "open"
  <2>1. modem' = [wire |-> Tail(modem.wire),
                  back |-> IF delivered THEN Append(modem.back, [txn |-> m.txn, kind |-> m.kind, data |-> data])
                              ELSE modem.back,
                  open |-> open, nameless |-> modem.nameless \/ data = "no_id"]
    BY <1>3, <1>8 DEF Serve, m
  <2>2. open \in BOOLEAN /\ data \in {"ok", "error", "no_id", "bad", "refused", "more", "installed"}
    BY <1>3
  <2>3. modem' \in ModemState /\ modem'.wire = Tail(modem.wire) /\ modem'.open = open
        /\ modem'.nameless = (modem.nameless \/ data = "no_id")
        /\ modem'.back = IF delivered THEN Append(modem.back, [txn |-> m.txn, kind |-> m.kind, data |-> data])
                            ELSE modem.back
    BY <1>6, <2>1, <2>2
  <2>4. m.kind = "apdu" => CardTakes(m, data) /\ modem'.open = modem.open
    BY <1>4, <1>5, <1>8, <2>3 DEF CardTakes
  <2>5. m.kind # "apdu" => (data # "ok" => budget'.faults > 0)
    BY <1>4
  <2>6. ServesOne(m, data, delivered)
    BY <1>4, <1>8, <2>2, <2>3, <2>4, <2>5 DEF ServesOne
  <2> QED
    BY <1>2, <1>4, <2>2, <2>6 DEF Serves, m
<1> QED
  BY <1>1, <1>7, <1>8 DEF m

(***************************************************************************)
(* The agent, the clock and the deaths.                                    *)
(***************************************************************************)

\* The agent or the outside acts: the helper goes on as it was, with another control line or
\* without, or it is dead; an outcome once given stays.
Attends ==
  /\ UNCHANGED <<uim, modem, card, server>> /\ Spends
  /\ helper' \in HelperState /\ helper'.end = helper.end /\ helper'.session = helper.session
  /\ helper'.plan = helper.plan /\ helper'.seg = helper.seg
  /\ helper'.pc = helper.pc \/ (helper'.pc = "killed" /\ helper.pc \notin Over)
  /\ agent' \in AgentState /\ agent.sent \subseteq agent'.sent
  /\ \A i \in 1 .. Len(helper'.ctl) :
       (\E j \in 1 .. Len(helper.ctl) : helper'.ctl[i] = helper.ctl[j]) \/ helper'.ctl[i] \in agent'.sent \cup {"cancel"}
  /\ stop' \in BOOLEAN /\ (stop => stop') /\ clock' \in 0 .. 4 /\ clock' >= clock
  /\ agent'.state = "over" /\ agent'.outcome \notin {"killed", "garbled"}
       => helper'.pc = "exited" /\ agent'.outcome = helper'.end.result
  /\ agent.state = "over" => agent'.state = "over" /\ agent'.outcome = agent.outcome /\ agent'.sent = agent.sent
  /\ agent'.state = "over" => agent'.sent = agent.sent

\* The helper that gets another line, and the one that is killed.
LEMMA LineAdded ==
  ASSUME TypeOK, NEW c \in Lines
  PROVE  LET h == [helper EXCEPT !.ctl = Append(@, c)] IN
         /\ h \in HelperState /\ h.end = helper.end /\ h.session = helper.session /\ h.plan = helper.plan
         /\ h.seg = helper.seg /\ h.pc = helper.pc
         /\ \A i \in 1 .. Len(h.ctl) : (\E j \in 1 .. Len(helper.ctl) : h.ctl[i] = helper.ctl[j]) \/ h.ctl[i] = c
<1> DEFINE q == Append(helper.ctl, c)
           h == [helper EXCEPT !.ctl = q]
<1>1. helper \in HelperState /\ helper.ctl \in Seq(Lines)
  BY DEF TypeOK, HelperState
<1>2. /\ q \in Seq(Lines) /\ Len(q) = Len(helper.ctl) + 1 /\ Len(helper.ctl) \in Nat
      /\ \A i \in 1 .. Len(helper.ctl) : q[i] = helper.ctl[i] /\ q[Len(helper.ctl) + 1] = c
  BY <1>1, AppendProperties
<1>3. q[Len(helper.ctl) + 1] = c
  BY <1>1, AppendProperties
<1>4. \A i \in 1 .. Len(q) : (\E j \in 1 .. Len(helper.ctl) : q[i] = helper.ctl[j]) \/ q[i] = c
  <2> SUFFICES ASSUME NEW i \in 1 .. Len(q) PROVE (\E j \in 1 .. Len(helper.ctl) : q[i] = helper.ctl[j]) \/ q[i] = c
    OBVIOUS
  <2>1. i \in 1 .. Len(helper.ctl) \/ i = Len(helper.ctl) + 1
    BY <1>2
  <2> QED
    BY <1>2, <1>3, <2>1
<1> HIDE DEF q
<1>5. /\ h \in HelperState /\ h.end = helper.end /\ h.session = helper.session /\ h.plan = helper.plan
      /\ h.seg = helper.seg /\ h.pc = helper.pc /\ h.ctl = q
  BY <1>1, <1>2 DEF HelperState
<1> QED
  BY <1>4, <1>5 DEF q

\* What a step of the agent or the outside leaves of the helper.
HelperLeft ==
  /\ helper' \in HelperState /\ helper'.end = helper.end /\ helper'.session = helper.session
  /\ helper'.plan = helper.plan /\ helper'.seg = helper.seg
  /\ helper'.pc = helper.pc \/ (helper'.pc = "killed" /\ helper.pc \notin Over)
  /\ \A i \in 1 .. Len(helper'.ctl) :
       (\E j \in 1 .. Len(helper.ctl) : helper'.ctl[i] = helper.ctl[j]) \/ helper'.ctl[i] \in agent'.sent \cup {"cancel"}

\* The helper that is left alone, has its input closed or is killed.
LEMMA HelperIsLeft ==
  ASSUME TypeOK, helper' \in {helper, Closed, Gone}
  PROVE  HelperLeft
<1>1. helper \in HelperState /\ helper.ctl \in Seq(Lines)
  BY DEF TypeOK, HelperState
<1>2. CASE helper' = helper
  BY <1>1, <1>2 DEF HelperLeft
<1>3. CASE helper' = [helper EXCEPT !.ctl = Append(@, "cancel")]
  BY <1>3, LineAdded DEF HelperLeft, Lines
<1>4. CASE helper' = [helper EXCEPT !.pc = "killed"] /\ Alive
  <2>1. /\ helper' \in HelperState /\ helper'.end = helper.end /\ helper'.session = helper.session
        /\ helper'.plan = helper.plan /\ helper'.seg = helper.seg /\ helper'.pc = "killed" /\ helper'.ctl = helper.ctl
    BY <1>1, <1>4 DEF HelperState
  <2> QED
    BY <1>4, <2>1 DEF HelperLeft, Alive
<1> QED
  BY <1>2, <1>3, <1>4 DEF Closed, Gone

\* The agent stays as it is, or learns the outcome.
LEMMA AgentStays ==
  ASSUME TypeOK, OutcomeInv, UNCHANGED <<uim, modem, card, server>>, Spends, HelperLeft,
         stop' \in BOOLEAN, stop => stop', clock' \in 0 .. 4, clock' >= clock,
         agent' \in AgentState, agent'.sent = agent.sent, agent'.state = agent.state \/ agent'.state # "over",
         agent'.outcome = agent.outcome, agent.state = "over" => agent'.state = "over"
  PROVE  Attends
<1>1. agent'.state = "over" /\ agent'.outcome \notin {"killed", "garbled"}
       => helper'.pc = "exited" /\ agent'.outcome = helper'.end.result
  BY DEF OutcomeInv, HelperLeft, Over
<1> QED
  BY <1>1 DEF Attends, HelperLeft

\* The runner ends with an outcome; any but a kill or garbled output is the helper's own result.
LEMMA AgentEnds ==
  ASSUME TypeOK, OutcomeInv, UNCHANGED <<uim, modem, card, server, stop, clock>>, Spends, HelperLeft,
         Running, NEW outcome \in {"ok", "failed", "cancelled", "unknown", "not_started", "killed", "garbled"},
         Ended(outcome),
         outcome \notin {"killed", "garbled"} => helper'.pc = "exited" /\ outcome = helper'.end.result
  PROVE  Attends
<1>1. agent \in AgentState /\ stop \in BOOLEAN /\ clock \in 0 .. 4 /\ agent.state # "over"
  BY DEF TypeOK, Running
<1>2. agent' \in AgentState /\ agent'.state = "over" /\ agent'.outcome = outcome /\ agent'.sent = agent.sent
  BY <1>1 DEF Ended, AgentState
<1> QED
  BY <1>1, <1>2 DEF Attends, HelperLeft

\* Every step of the runner and of the outside.
LEMMA RunnerForm ==
  ASSUME TypeOK, PlaceInv, OutcomeInv,
         \/ Runner \/ \E c \in {"install", "decline", "timeout", "cancel"} : SendControl(c)
         \/ PipeFails \/ Tick \/ Shutdown \/ AgentDies \/ HelperDies
  PROVE  Attends
<1>0. /\ agent \in AgentState /\ stop \in BOOLEAN /\ clock \in 0 .. 4 /\ agent.sent \in SUBSET Lines /\ agent.seen \in Nat
      /\ helper \in HelperState /\ budget \in BudgetState
      /\ agent.state \in {"reading", "stopping", "over", "dead"} /\ agent.held \in BOOLEAN
  BY DEF TypeOK, AgentState
<1>1. CASE ReadProgress
  <2>1. /\ agent' = [agent EXCEPT !.seen = @ + 1] /\ UNCHANGED <<uim, modem, card, server, stop, helper, clock, budget>>
    BY <1>1 DEF ReadProgress, procedure
  <2>2. agent' \in AgentState /\ agent'.sent = agent.sent /\ agent'.state = agent.state /\ agent'.outcome = agent.outcome
    BY <1>0, <2>1 DEF AgentState
  <2> QED
    BY <1>0, <2>1, <2>2, NothingSpent, HelperIsLeft, AgentStays
<1>2. ASSUME NEW c \in Lines, SendControl(c) PROVE Attends
  <2>1. /\ agent.state = "reading" /\ UNCHANGED <<uim, modem, card, server, stop, clock>>
        /\ helper' = [helper EXCEPT !.ctl = Append(@, c)]
        /\ agent' = [agent EXCEPT !.sent = @ \cup {c}] /\ budget' = [budget EXCEPT !.lines = @ + 1]
    BY <1>2 DEF SendControl, procedure
  <2>2. /\ agent' \in AgentState /\ agent'.sent = agent.sent \cup {c} /\ agent'.state = "reading"
        /\ agent'.outcome = agent.outcome
    BY <1>0, <2>1 DEF AgentState
  <2>3. Spends
    BY <1>0, <2>1 DEF Spends, BudgetState
  <2>4. /\ helper' \in HelperState /\ helper'.end = helper.end /\ helper'.session = helper.session
        /\ helper'.plan = helper.plan /\ helper'.seg = helper.seg /\ helper'.pc = helper.pc
        /\ \A i \in 1 .. Len(helper'.ctl) :
             (\E j \in 1 .. Len(helper.ctl) : helper'.ctl[i] = helper.ctl[j]) \/ helper'.ctl[i] = c
    BY <2>1, LineAdded
  <2> QED
    BY <1>0, <2>1, <2>2, <2>3, <2>4 DEF Attends
<1>3. CASE CollectOutput \/ ReadAnswer
  <2>1. /\ Running /\ helper.pc = "exited" /\ Ended(helper.end.result)
        /\ UNCHANGED <<uim, modem, card, server, stop, helper, clock, budget>>
    BY <1>3 DEF CollectOutput, ReadAnswer, procedure
  <2>2. helper.end \in Ending
    BY <1>0, <2>1 DEF PlaceInv, Winding, HelperState
  <2>3. helper.end.result \in {"ok", "failed", "cancelled", "unknown", "not_started", "killed", "garbled"}
    BY <2>2 DEF Ending
  <2> QED
    BY <2>1, <2>3, NothingSpent, HelperIsLeft, AgentEnds
<1>4. CASE ReadEof
  <2>1. /\ Running /\ Ended("garbled") /\ UNCHANGED <<uim, modem, card, server, stop, helper, clock, budget>>
    BY <1>4 DEF ReadEof, procedure
  <2> QED
    BY <2>1, NothingSpent, HelperIsLeft, AgentEnds
<1>5. CASE Terminate
  <2>1. /\ agent.state = "reading" /\ agent' = [agent EXCEPT !.state = "stopping"]
        /\ stop' = (stop \/ Alive) /\ helper' \in {helper, Closed}
        /\ UNCHANGED <<uim, modem, card, server, clock, budget>>
    BY <1>5 DEF Terminate, procedure
  <2>2. agent' \in AgentState /\ agent'.sent = agent.sent /\ agent'.state = "stopping" /\ agent'.outcome = agent.outcome
    BY <1>0, <2>1 DEF AgentState
  <2>3. stop' \in BOOLEAN /\ (stop => stop')
    BY <2>1 DEF Alive
  <2>4. HelperLeft
    BY <2>1, HelperIsLeft
  <2> QED
    BY <1>0, <2>1, <2>2, <2>3, <2>4, NothingSpent, AgentStays
<1>6. CASE Kill
  <2>1. /\ Running /\ Ended("killed") /\ helper' = Gone /\ UNCHANGED <<uim, modem, card, server, stop, clock, budget>>
    BY <1>6 DEF Kill, procedure, Running
  <2> QED
    BY <2>1, NothingSpent, HelperIsLeft, AgentEnds
<1>7. CASE PipeFails
  <2>1. /\ Running /\ Ended("garbled") /\ helper' = Gone /\ Fault(TRUE)
        /\ UNCHANGED <<uim, modem, card, server, stop, clock>>
    BY <1>7 DEF PipeFails, procedure
  <2>2. Spends
    BY <2>1, FaultSpends
  <2> QED
    BY <2>1, <2>2, HelperIsLeft, AgentEnds
<1>8. CASE Tick
  <2>1. /\ clock < 4 /\ clock' = clock + 1 /\ UNCHANGED <<uim, modem, card, server, stop, helper, budget>>
        /\ agent' = agent \/ agent' = [agent EXCEPT !.held = Calling]
    BY <1>0, <1>8 DEF Tick, procedure
  <2>2. agent' \in AgentState /\ agent'.sent = agent.sent /\ agent'.state = agent.state /\ agent'.outcome = agent.outcome
    <3>1. Calling \in BOOLEAN
      BY DEF Calling, ServerSteps
    <3> QED
      BY <1>0, <2>1, <3>1 DEF AgentState
  <2>3. clock' \in 0 .. 4 /\ clock' >= clock
    BY <1>0, <2>1
  <2> QED
    BY <1>0, <2>1, <2>2, <2>3, NothingSpent, HelperIsLeft, AgentStays
<1>9. CASE Shutdown
  <2>1. /\ stop' = TRUE /\ budget' = [budget EXCEPT !.stops = @ + 1]
        /\ UNCHANGED <<uim, modem, card, server, helper, clock, agent>>
    BY <1>9 DEF Shutdown, procedure
  <2>2. Spends
    BY <1>0, <2>1 DEF Spends, BudgetState
  <2> QED
    BY <1>0, <2>1, <2>2, HelperIsLeft, AgentStays
<1>10. CASE AgentDies
  <2>1. /\ agent' = [agent EXCEPT !.state = "dead"] /\ helper' \in {helper, Closed} /\ Running
        /\ UNCHANGED <<uim, modem, card, server, stop, clock, budget>>
    BY <1>10 DEF AgentDies, procedure
  <2>2. agent' \in AgentState /\ agent'.sent = agent.sent /\ agent'.state = "dead" /\ agent'.outcome = agent.outcome
    BY <1>0, <2>1 DEF AgentState
  <2>3. HelperLeft /\ agent.state # "over"
    BY <2>1, HelperIsLeft DEF Running
  <2> QED
    BY <1>0, <2>1, <2>2, <2>3, NothingSpent, AgentStays
<1>11. CASE HelperDies
  <2>1. helper' = Gone /\ UNCHANGED <<uim, modem, card, server, stop, clock, budget, agent>>
    BY <1>11 DEF HelperDies, procedure
  <2> QED
    BY <1>0, <2>1, NothingSpent, HelperIsLeft, AgentStays
<1> QED
  BY <1>1, <1>2, <1>3, <1>4, <1>5, <1>6, <1>7, <1>8, <1>9, <1>10, <1>11 DEF Runner, Lines

\* Every step of the run has one of the seven forms.
LEMMA StepForms ==
  ASSUME RunInv, Next
  PROVE  \/ (Local \/ Sends \/ Receives \/ Skips \/ GivesUp \/ Serves) /\ UNCHANGED agent
         \/ Attends
<1>1. CASE Helper
  BY <1>1, HelperForms DEF Helper
<1>2. CASE Modem
  BY <1>2, ModemForm DEF Modem, RunInv
<1>3. CASE ~Helper /\ ~Modem
  BY <1>3, RunnerForm DEF Next, RunInv
<1> QED
  BY <1>1, <1>2, <1>3

(***************************************************************************)
(* The invariant is kept.                                                  *)
(***************************************************************************)

\* The steps of one kind.
HelperKind == Local \/ Sends \/ Receives \/ Skips \/ GivesUp
StepKind == (HelperKind /\ UNCHANGED agent) \/ (Serves /\ UNCHANGED agent) \/ Attends

\* Where a step can end.
LEMMA HelperTyped ==
  ASSUME TypeOK, HelperKind
  PROVE  helper' \in HelperState /\ budget'.max = budget.max /\ budget'.faults >= budget.faults
         /\ budget' \in BudgetState
<1>1. budget \in BudgetState /\ helper \in HelperState /\ (budget' = budget => Spends)
  BY NothingSpent DEF TypeOK
<1>2. CASE Local
  BY <1>2 DEF Local, LocalGoes, LocalStops, LocalBreaks, LocalGivesIn, Informs, Goes, Stops, Breaks, GivesIn, Spends
<1>3. CASE Sends \/ Skips
  BY <1>1, <1>3 DEF Sends, Skips, Spends
<1>4. CASE Receives
  BY <1>1, <1>4 DEF Receives, Takes, Goes, Stops, Breaks, GivesIn, Refused, Done, Spends
<1>5. CASE GivesUp
  BY <1>5 DEF GivesUp, Goes, Stops, Breaks, GivesIn, Spends
<1> QED
  BY <1>2, <1>3, <1>4, <1>5 DEF HelperKind

\* Types are kept.
LEMMA TypeKept ==
  ASSUME TypeOK, StepKind
  PROVE  TypeOK'
<1>1. CASE HelperKind /\ UNCHANGED agent
  <2>1. helper' \in HelperState /\ budget' \in BudgetState
    BY <1>1, HelperTyped
  <2>2. CASE Local
    BY <1>1, <2>1, <2>2 DEF Local, TypeOK
  <2>3. CASE Sends
    BY <1>1, <2>1, <2>3 DEF Sends, TypeOK
  <2>4. CASE Receives
    BY <1>1, <2>1, <2>4 DEF Receives, Reads, TypeOK
  <2>5. CASE Skips
    BY <1>1, <2>1, <2>5 DEF Skips, Reads, TypeOK
  <2>6. CASE GivesUp
    BY <1>1, <2>1, <2>6 DEF GivesUp, TypeOK
  <2> QED
    BY <1>1, <2>2, <2>3, <2>4, <2>5, <2>6 DEF HelperKind
<1>2. CASE Serves /\ UNCHANGED agent
  <2>1. card' \in CardState /\ modem' \in ModemState
    BY <1>2 DEF Serves, ServesOne, CardTakes, TypeOK
  <2> QED
    BY <1>2, <2>1 DEF Serves, Spends, TypeOK
<1>3. CASE Attends
  BY <1>3 DEF Attends, Spends, TypeOK
<1> QED
  BY <1>1, <1>2, <1>3 DEF StepKind

\* Where the procedure can be after a step of its own.
LEMMA PlaceKeptLocal ==
  ASSUME TypeOK, PlaceInv, Local
  PROVE  PlaceInv'
<1>1. /\ UNCHANGED <<uim, modem>> /\ uim.pending = None /\ budget'.max = budget.max
      /\ helper.session \in BOOLEAN /\ None \notin Ending /\ None \notin Reasons
  BY SessionConstants DEF Local, Spends, TypeOK, HelperState
<1>2. CASE LocalGoes
  BY <1>1, <1>2 DEF PlaceInv, LocalGoes, LocalNext, Goes, Forward, Known, Winding, Download
<1>3. CASE LocalStops
  BY <1>1, <1>3 DEF PlaceInv, LocalStops, Stops, Forward, Known, Winding, Download
<1>4. CASE LocalBreaks
  BY <1>1, <1>4 DEF PlaceInv, LocalBreaks, Breaks, Forward, Known, Winding, Download, Reasons
<1>5. CASE LocalGivesIn
  BY <1>1, <1>5 DEF PlaceInv, LocalGivesIn, GivesIn, Forward, Known, Winding, Download
<1>6. CASE Informs
  BY <1>1, <1>6 DEF PlaceInv, Informs, Goes, Forward, Known, Winding, Download
<1> QED
  BY <1>2, <1>3, <1>4, <1>5, <1>6 DEF Local

\* Appending a request.
LEMMA WireAppend ==
  ASSUME TypeOK, NEW m \in Message
  PROVE  LET w == Append(modem.wire, m) IN
         /\ Len(w) = Len(modem.wire) + 1 /\ Len(modem.wire) \in Nat /\ w[Len(w)] = m /\ w # <<>>
         /\ \A i \in 1 .. Len(w) : (i \in 1 .. Len(modem.wire) /\ w[i] = modem.wire[i]) \/ (i = Len(w) /\ w[i] = m)
         /\ modem.wire = <<>> => w = <<m>>
<1> DEFINE w == Append(modem.wire, m)
<1>1. modem.wire \in Seq(Message)
  BY DEF TypeOK, ModemState
<1>2. /\ w \in Seq(Message) /\ Len(w) = Len(modem.wire) + 1 /\ Len(modem.wire) \in Nat
      /\ \A i \in 1 .. Len(modem.wire) : w[i] = modem.wire[i]
  BY <1>1, AppendProperties
<1>3. w[Len(modem.wire) + 1] = m
  BY <1>1, AppendProperties
<1>4. modem.wire = <<>> => w = <<m>>
  BY <1>1
<1> HIDE DEF w
<1>5. \A i \in 1 .. Len(w) : (i \in 1 .. Len(modem.wire) /\ w[i] = modem.wire[i]) \/ (i = Len(w) /\ w[i] = m)
  <2> SUFFICES ASSUME NEW i \in 1 .. Len(w)
               PROVE  (i \in 1 .. Len(modem.wire) /\ w[i] = modem.wire[i]) \/ (i = Len(w) /\ w[i] = m)
    OBVIOUS
  <2>1. i \in 1 .. Len(modem.wire) \/ i = Len(modem.wire) + 1
    BY <1>2
  <2> QED
    BY <1>2, <1>3, <2>1
<1>6. w # <<>>
  BY <1>2
<1> QED
  BY <1>2, <1>3, <1>4, <1>5, <1>6 DEF w

\* Where the procedure is after sending.
LEMMA PlaceKeptSends ==
  ASSUME TypeOK, PlaceInv, Sends
  PROVE  PlaceInv'
<1>1. PICK m \in Message :
       /\ m.cmd.name = helper.pc /\ m.kind = IF helper.pc \in CardSteps THEN "apdu" ELSE helper.pc
       /\ m.cmd.reason = IF helper.pc = "cancel" THEN helper.end.reason ELSE None
       /\ uim'.pending = m /\ uim'.channel = (uim.channel /\ helper.pc # "close")
       /\ modem'.wire = Append(modem.wire, m) /\ (helper.pc # "open" => uim.channel)
  BY DEF Sends
<1>2. /\ UNCHANGED <<helper, budget>> /\ m # None /\ uim.channel \in BOOLEAN
      /\ helper.pc \in CardSteps \cup {"open", "close"}
  BY SessionConstants DEF Sends, TypeOK, ClientState
<1>3. \A i \in 1 .. Len(modem'.wire) : modem'.wire[i].cmd.name = "cancel" => modem'.wire[i].cmd.reason # None
  BY <1>1, WireAppend DEF PlaceInv
<1> QED
  BY <1>1, <1>2, <1>3 DEF PlaceInv, Download, Forward, Known, CardSteps

\* Where it is after an answer.
LEMMA PlaceKeptReceives ==
  ASSUME TypeOK, PlaceInv, Receives
  PROVE  PlaceInv'
<1> DEFINE a == Head(modem.back)
<1>1. /\ UNCHANGED budget /\ modem'.wire = modem.wire /\ uim'.pending = None /\ uim.pending # None /\ helper.pc \notin Over
      /\ uim'.channel = IF helper.pc = "open" THEN a.data = "ok" ELSE uim.channel
      /\ Takes(a.data) /\ None \notin Ending /\ None \notin Reasons /\ helper.pc \in CardSteps \cup {"open", "close"}
  BY SessionConstants DEF Receives, Reads, PlaceInv, Over
<1>2. helper.pc \in {"read", "challenge", "authenticate"} => ~helper.session
  BY DEF PlaceInv, Forward, Known
<1> HIDE DEF a
<1>3. CASE helper.pc = "open"
  BY <1>1, <1>3 DEF PlaceInv, Takes, GivesIn, Goes, Forward, Known, Winding, Download
<1>4. CASE helper.pc = "close"
  BY <1>1, <1>4 DEF PlaceInv, Takes, Goes, Forward, Known, Winding, Download
<1>5. CASE helper.pc \in {"read", "challenge", "authenticate", "prepare"}
  <2>1. CASE Stops(FALSE) \/ (Stops(TRUE) /\ helper.pc # "read")
    BY <1>1, <1>5, <2>1 DEF PlaceInv, Stops, Forward, Known, Winding, Download
  <2>2. CASE \/ helper.pc = "read" /\ Goes("challenge") /\ Download
             \/ helper.pc = "challenge" /\ Goes("initiate")
             \/ helper.pc = "authenticate" /\ Goes("client")
             \/ helper.pc = "prepare" /\ Goes("package")
    BY <1>1, <1>5, <2>2 DEF PlaceInv, Goes, Forward, Known, Winding, Download
  <2>3. CASE helper.pc = "read" \/ helper.pc = "challenge"
    BY <1>1, <2>1, <2>2, <2>3 DEF Takes
  <2>4. CASE helper.pc = "authenticate" \/ helper.pc = "prepare"
    BY <1>1, <2>1, <2>2, <2>4 DEF Takes
  <2> QED
    BY <1>5, <2>3, <2>4
<1>6. CASE helper.pc = "load"
  <2>1. CASE Breaks \/ Refused \/ Done(a.data)
    BY <1>1, <1>6, <2>1 DEF PlaceInv, Breaks, Refused, Done, Forward, Known, Winding, Download, Reasons
  <2>2. CASE Goes("load")
    BY <1>1, <1>6, <2>2 DEF PlaceInv, Goes, Forward, Known, Winding, Download
  <2> QED
    BY <1>1, <1>6, <2>1, <2>2 DEF Takes
<1>7. CASE helper.pc = "cancel"
  BY <1>1, <1>7 DEF PlaceInv, Takes, Goes, Forward, Known, Winding, Download
<1> QED
  BY <1>1, <1>3, <1>4, <1>5, <1>6, <1>7 DEF CardSteps

\* Where it is after giving up.
LEMMA PlaceKeptGivesUp ==
  ASSUME TypeOK, PlaceInv, GivesUp
  PROVE  PlaceInv'
<1>1. /\ budget'.max = budget.max /\ UNCHANGED modem /\ uim'.pending = None /\ uim.pending # None /\ helper.pc \notin Over
      /\ uim'.channel = uim.channel /\ None \notin Ending /\ None \notin Reasons
  BY SessionConstants DEF GivesUp, Spends
<1>2. CASE helper.pc = "open" /\ GivesIn
  BY <1>1, <1>2 DEF PlaceInv, GivesIn, Forward, Known, Winding, Download
<1>3. CASE helper.pc = "close" /\ Goes("answer")
  BY <1>1, <1>3 DEF PlaceInv, Goes, Forward, Known, Winding, Download
<1>4. CASE helper.pc = "load" /\ Breaks
  BY <1>1, <1>4 DEF PlaceInv, Breaks, Forward, Known, Winding, Download, Reasons
<1>5. CASE helper.pc = "cancel" /\ Goes("close")
  BY <1>1, <1>5 DEF PlaceInv, Goes, Forward, Known, Winding, Download
<1>6. CASE helper.pc \in {"read", "challenge", "authenticate", "prepare"} /\ Stops(helper.session)
  BY <1>1, <1>6 DEF PlaceInv, Stops, Forward, Known, Winding, Download
<1> QED
  BY <1>2, <1>3, <1>4, <1>5, <1>6 DEF GivesUp

\* Where the procedure is: kept by every step.
LEMMA PlaceKept ==
  ASSUME TypeOK, PlaceInv, StepKind
  PROVE  PlaceInv'
<1>1. CASE Local \/ Sends \/ Receives \/ GivesUp
  BY <1>1, PlaceKeptLocal, PlaceKeptSends, PlaceKeptReceives, PlaceKeptGivesUp
<1>2. CASE Skips
  BY <1>2 DEF Skips, Reads, PlaceInv, Download
<1>3. CASE Serves
  <2>1. modem.wire # <<>> /\ modem'.wire = Tail(modem.wire) /\ UNCHANGED <<uim, helper>> /\ budget'.max = budget.max
    BY <1>3 DEF Serves, ServesOne, Spends
  <2>2. \A i \in 1 .. Len(modem'.wire) : modem'.wire[i].cmd.name = "cancel" => modem'.wire[i].cmd.reason # None
    BY <2>1, WireHead DEF PlaceInv
  <2> QED
    BY <2>1, <2>2 DEF PlaceInv, Download
<1>4. CASE Attends
  <2>1. /\ UNCHANGED <<uim, modem>> /\ budget'.max = budget.max
        /\ helper'.end = helper.end /\ helper'.session = helper.session
        /\ helper'.pc = helper.pc \/ helper'.pc = "killed"
    BY <1>4 DEF Attends, Spends
  <2>2. CASE helper'.pc = helper.pc
    BY <2>1, <2>2 DEF PlaceInv, Download
  <2>3. CASE helper'.pc = "killed"
    BY <2>1, <2>3 DEF PlaceInv, Download, Forward, Known, Winding
  <2> QED
    BY <2>1, <2>2, <2>3
<1> QED
  BY <1>1, <1>2, <1>3, <1>4 DEF StepKind, HelperKind

\* What a step of the helper leaves alone, and what it never undoes.
LEMMA HelperMoves ==
  ASSUME TypeOK, PlaceInv, HelperKind
  PROVE  /\ UNCHANGED <<card, stop, clock>> /\ helper.pc \notin Over /\ Within(helper'.ctl)
         /\ helper'.pc \in Forward => helper.pc \in Forward
         /\ helper'.pc # "connect" /\ (helper'.pc = "killed" => helper.pc = "killed")
         /\ uim.installing => uim'.installing
         /\ uim'.installing => uim.installing \/ (Sends /\ helper.pc = "load")
<1>1. Within(helper.ctl)
  BY LinesWithin
<1>2. CASE Local
  <2>1. UNCHANGED <<uim, card, stop, clock>>
    BY <1>2 DEF Local
  <2>2. CASE LocalGoes
    BY <2>1, <2>2 DEF LocalGoes, LocalNext, Goes, Forward, Known, Winding, Over
  <2>3. CASE LocalStops \/ LocalBreaks \/ LocalGivesIn
    BY <2>1, <2>3 DEF LocalStops, LocalBreaks, LocalGivesIn, Stops, Breaks, GivesIn, Forward, Known, Over
  <2>4. CASE Informs
    BY <2>1, <2>4 DEF Informs, Goes, Forward, Known, Over
  <2> QED
    BY <1>2, <2>2, <2>3, <2>4 DEF Local
<1>3. CASE Sends
  BY <1>1, <1>3 DEF Sends, CardSteps, Over, Forward
<1>4. CASE Skips
  BY <1>1, <1>4 DEF Skips, Over, PlaceInv, CardSteps
<1>5. CASE Receives
  <2>1. /\ UNCHANGED <<card, stop, clock>> /\ helper.pc \notin Over
        /\ uim'.installing = uim.installing /\ Takes(Head(modem.back).data)
    BY <1>5 DEF Receives
  <2>2. /\ Within(helper'.ctl) /\ (helper'.pc \in Forward => helper.pc \in Forward)
        /\ helper'.pc # "connect" /\ helper'.pc # "killed"
    BY <2>1 DEF Takes, Goes, Stops, Breaks, Refused, Done, GivesIn, Forward, Known
  <2> QED
    BY <2>1, <2>2
<1>6. CASE GivesUp
  BY <1>6 DEF GivesUp, Goes, Stops, Breaks, GivesIn, Forward, Known
<1> QED
  BY <1>2, <1>3, <1>4, <1>5, <1>6 DEF HelperKind

\* One request at most stays on its way.
LEMMA FlightKept ==
  ASSUME TypeOK, PlaceInv, FlightInv, StepKind
  PROVE  FlightInv'
<1> SUFFICES ASSUME helper'.pc \in Forward PROVE InFlight'
  BY DEF FlightInv
<1>0. /\ modem.wire \in Seq(Message) /\ modem.back \in Seq(Answer) /\ budget.faults \in Nat
      /\ helper.pc \in Forward => InFlight
  BY DEF TypeOK, ModemState, BudgetState, FlightInv
<1>1. CASE Local
  BY <1>0, <1>1, HelperMoves DEF HelperKind, Local, InFlight
<1>2. CASE Sends
  <2>1. modem.wire = <<>> /\ modem.back = <<>> /\ helper.pc \in Forward
    BY <1>0, <1>2 DEF Sends, InFlight
  <2>2. PICK m \in Message : uim'.pending = m /\ modem'.wire = Append(modem.wire, m) /\ modem'.back = modem.back
    BY <1>2 DEF Sends
  <2> QED
    BY <2>1, <2>2, WireAppend, SessionConstants DEF InFlight
<1>3. CASE Receives \/ Skips
  <2>1. helper.pc \in Forward /\ uim.pending # None /\ Reads
    BY <1>3, HelperMoves DEF HelperKind, Receives, Skips
  <2>2. modem.wire = <<>> /\ Len(modem.back) = 1 /\ Matches(modem.back[1])
    BY <1>0, <2>1 DEF InFlight, Reads
  <2>3. Matches(Head(modem.back)) /\ Tail(modem.back) = <<>>
    <3>1. Head(modem.back) = modem.back[1] /\ Tail(modem.back) \in Seq(Answer) /\ Len(Tail(modem.back)) = 0
      BY <2>1, <2>2, BackHead DEF Reads
    <3> QED
      BY <2>2, <3>1, EmptySeq
  <2> QED
    BY <1>3, <2>2, <2>3 DEF Receives, Skips, Reads, InFlight
<1>4. CASE GivesUp
  BY <1>4 DEF GivesUp, Goes, Stops, Breaks, GivesIn, Forward, Known
<1>5. CASE Serves
  <2>1. /\ helper.pc \in Forward /\ modem.wire # <<>> /\ UNCHANGED <<uim, helper>>
    BY <1>5 DEF Serves
  <2>2. uim.pending # None /\ modem.wire = <<uim.pending>> /\ modem.back = <<>> /\ Head(modem.wire) = uim.pending
    BY <1>0, <2>1 DEF InFlight
  <2>3. PICK data \in {"ok", "error", "no_id", "bad", "refused", "more", "installed"}, delivered \in BOOLEAN :
          ServesOne(uim.pending, data, delivered)
    BY <1>5, <2>2 DEF Serves
  <2>4. modem'.wire = <<>>
    BY <2>2, <2>3 DEF ServesOne
  <2>5. CASE delivered
    <3> DEFINE a == [txn |-> uim.pending.txn, kind |-> uim.pending.kind, data |-> data]
    <3>1. modem'.back = <<a>>
      BY <2>2, <2>3, <2>5 DEF ServesOne
    <3>2. a.txn = uim.pending.txn /\ a.kind = uim.pending.kind
      OBVIOUS
    <3> HIDE DEF a
    <3>3. Len(modem'.back) = 1 /\ modem'.back[1] = a
      BY <3>1
    <3> QED
      BY <2>1, <2>2, <2>4, <3>2, <3>3 DEF InFlight, Matches
  <2>6. CASE ~delivered
    BY <2>1, <2>2, <2>3, <2>4, <2>6 DEF ServesOne, InFlight
  <2> QED
    BY <2>5, <2>6
<1>6. CASE Attends
  <2>1. UNCHANGED <<uim, modem>> /\ helper.pc \in Forward /\ budget'.faults >= budget.faults /\ budget'.faults \in Nat
    BY <1>6 DEF Attends, Forward, Known, Spends, BudgetState
  <2> QED
    BY <1>0, <2>1 DEF InFlight, Matches
<1> QED
  BY <1>1, <1>2, <1>3, <1>4, <1>5, <1>6 DEF StepKind, HelperKind

\* Serving a request: which one, and what becomes of the answers on their way.
LEMMA Served ==
  ASSUME TypeOK, Serves
  PROVE  LET m == modem.wire[1] IN
         /\ 1 \in 1 .. Len(modem.wire) /\ m \in Message
         /\ UNCHANGED <<uim, stop, helper, server, clock>> /\ Spends /\ modem' \in ModemState
         /\ Len(modem'.wire) = Len(modem.wire) - 1
         /\ \A i \in 1 .. Len(modem'.wire) : modem'.wire[i] = modem.wire[i + 1] /\ i + 1 \in 1 .. Len(modem.wire)
         /\ \E data \in {"ok", "error", "no_id", "bad", "refused", "more", "installed"} :
              /\ \A i \in 1 .. Len(modem'.back) :
                   \/ i \in 1 .. Len(modem.back) /\ modem'.back[i] = modem.back[i]
                   \/ modem'.back[i].kind = m.kind /\ modem'.back[i].data = data
              /\ m.kind = "apdu" => CardTakes(m, data) /\ modem'.open = modem.open
              /\ m.kind # "apdu" =>
                   /\ card' = card /\ data \in {"ok", "error", "no_id"} /\ (data # "ok" => budget'.faults > 0)
                   /\ modem'.open = IF data = "error" THEN modem.open ELSE m.kind = "open"
<1> DEFINE m == modem.wire[1]
<1>1. /\ UNCHANGED <<uim, stop, helper, server, clock>> /\ Spends /\ modem.wire # <<>>
  BY DEF Serves
<1>2. /\ Head(modem.wire) = m /\ 1 \in 1 .. Len(modem.wire) /\ m \in Message
      /\ Len(Tail(modem.wire)) = Len(modem.wire) - 1
      /\ \A i \in 1 .. Len(Tail(modem.wire)) : Tail(modem.wire)[i] = modem.wire[i + 1] /\ i + 1 \in 1 .. Len(modem.wire)
  BY <1>1, WireHead
<1>3. PICK data \in {"ok", "error", "no_id", "bad", "refused", "more", "installed"}, delivered \in BOOLEAN :
        ServesOne(m, data, delivered)
  BY <1>2 DEF Serves
<1>4. modem'.wire = Tail(modem.wire) /\ modem' \in ModemState
  BY <1>3 DEF ServesOne
<1>5. \A i \in 1 .. Len(modem'.back) :
        \/ i \in 1 .. Len(modem.back) /\ modem'.back[i] = modem.back[i]
        \/ modem'.back[i].kind = m.kind /\ modem'.back[i].data = data
  <2>1. CASE ~delivered
    BY <1>3, <2>1 DEF ServesOne
  <2>2. CASE delivered
    <3> DEFINE a == [txn |-> m.txn, kind |-> m.kind, data |-> data]
    <3>1. modem'.back = Append(modem.back, a)
      BY <1>3, <2>2 DEF ServesOne
    <3>2. a \in Answer /\ a.kind = m.kind /\ a.data = data
      BY <1>2 DEF Message, Answer
    <3> HIDE DEF a
    <3>3. modem.back \in Seq(Answer)
      BY DEF TypeOK, ModemState
    <3>4. /\ Len(modem'.back) = Len(modem.back) + 1 /\ Len(modem.back) \in Nat
          /\ \A i \in 1 .. Len(modem.back) : modem'.back[i] = modem.back[i]
      BY <3>1, <3>2, <3>3, AppendProperties
    <3>5. modem'.back[Len(modem.back) + 1] = a
      BY <3>1, <3>2, <3>3, AppendProperties
    <3> SUFFICES ASSUME NEW i \in 1 .. Len(modem'.back)
                 PROVE  \/ i \in 1 .. Len(modem.back) /\ modem'.back[i] = modem.back[i]
                        \/ modem'.back[i].kind = m.kind /\ modem'.back[i].data = data
      OBVIOUS
    <3>6. i \in 1 .. Len(modem.back) \/ i = Len(modem.back) + 1
      BY <3>4
    <3> QED
      BY <3>2, <3>4, <3>5, <3>6
  <2> QED
    BY <2>1, <2>2
<1>6. /\ m.kind = "apdu" => CardTakes(m, data) /\ modem'.open = modem.open
      /\ m.kind # "apdu" =>
           /\ card' = card /\ data \in {"ok", "error", "no_id"} /\ (data # "ok" => budget'.faults > 0)
           /\ modem'.open = IF data = "error" THEN modem.open ELSE m.kind = "open"
  BY <1>3 DEF ServesOne
<1> HIDE DEF m
<1> QED
  BY <1>1, <1>2, <1>4, <1>5, <1>6 DEF m

\* Nothing is loaded without consent: kept.
LEMMA ConsentKept ==
  ASSUME TypeOK, PlaceInv, FlightInv, ConsentInv, StepKind
  PROVE  ConsentInv'
<1>0. agent.sent \in SUBSET Lines /\ modem.wire \in Seq(Message)
  BY DEF TypeOK, AgentState, ModemState
<1>1. CASE HelperKind /\ UNCHANGED agent
  <2>1. /\ UNCHANGED card /\ Within(helper'.ctl) /\ helper.pc \notin Over
        /\ uim.installing => uim'.installing
        /\ uim'.installing => uim.installing \/ (Sends /\ helper.pc = "load")
        /\ budget'.max = budget.max
    BY <1>1, HelperMoves, HelperTyped
  <2>2. \A i \in 1 .. Len(helper'.ctl) : helper'.ctl[i] \in agent'.sent \cup {"cancel"}
    BY <1>1, <2>1 DEF ConsentInv, Within
  <2>3. helper'.pc \in {"prepare", "package", "load"} \/ uim'.installing => "install" \in agent'.sent
    <3>1. CASE Local
      <4>1. CASE LocalGoes
        BY <1>1, <2>1, <3>1, <4>1 DEF Local, LocalGoes, LocalNext, Goes, ConsentInv
      <4>2. CASE LocalStops \/ LocalBreaks \/ LocalGivesIn \/ Informs
        BY <1>1, <2>1, <3>1, <4>2
          DEF Local, LocalStops, LocalBreaks, LocalGivesIn, Informs, Stops, Breaks, GivesIn, Goes, ConsentInv
      <4> QED
        BY <3>1, <4>1, <4>2 DEF Local
    <3>2. CASE Sends \/ Skips
      BY <1>1, <2>1, <3>2 DEF Sends, Skips, ConsentInv
    <3>3. CASE Receives
      BY <1>1, <3>3 DEF Receives, Takes, Goes, Stops, Breaks, Refused, Done, GivesIn, ConsentInv
    <3>4. CASE GivesUp
      BY <1>1, <3>4 DEF GivesUp, Goes, Stops, Breaks, GivesIn, ConsentInv
    <3> QED
      BY <1>1, <3>1, <3>2, <3>3, <3>4 DEF HelperKind
  <2>4. uim'.installing => Download' /\ helper'.pc \in {"load", "killed"} \cup Winding
    <3>1. CASE Local
      BY <2>1, <3>1 DEF Local, LocalGoes, LocalNext, LocalStops, LocalBreaks, LocalGivesIn, Informs, Stops, Breaks,
        GivesIn, Goes,
        ConsentInv, Download, Winding, Forward, Known
    <3>2. CASE Sends \/ Skips
      BY <2>1, <3>2 DEF Sends, Skips, ConsentInv, Download, PlaceInv
    <3>3. CASE Receives
      BY <2>1, <3>3 DEF Receives, Takes, Goes, Stops, Breaks, Refused, Done, GivesIn, ConsentInv, Download, Winding
    <3>4. CASE GivesUp
      BY <2>1, <3>4 DEF GivesUp, Goes, Stops, Breaks, GivesIn, ConsentInv, Download, Winding
    <3> QED
      BY <1>1, <3>1, <3>2, <3>3, <3>4 DEF HelperKind
  <2>5. \A i \in 1 .. Len(modem'.wire) : modem'.wire[i].kind = "apdu" =>
          /\ modem'.wire[i].cmd.name = "load" => uim'.installing
          /\ modem'.wire[i].cmd.name = "authenticate" => ~uim'.installing
    <3>1. CASE Sends
      <4>1. PICK m \in Message :
             /\ m.cmd.name = helper.pc /\ modem'.wire = Append(modem.wire, m)
             /\ uim'.installing = (uim.installing \/ helper.pc = "load")
        BY <3>1 DEF Sends
      <4>2. helper.pc = "load" => Len(modem.wire) = 0
        BY <3>1 DEF Sends, FlightInv, InFlight, Forward, Known
      <4>3. \A i \in 1 .. Len(modem'.wire) :
              (i \in 1 .. Len(modem.wire) /\ modem'.wire[i] = modem.wire[i]) \/ modem'.wire[i] = m
        BY <4>1, WireAppend
      <4>4. ~uim.installing \/ helper.pc # "authenticate"
        BY DEF ConsentInv, Winding
      <4> SUFFICES ASSUME NEW i \in 1 .. Len(modem'.wire), modem'.wire[i].kind = "apdu"
                   PROVE  /\ modem'.wire[i].cmd.name = "load" => uim'.installing
                          /\ modem'.wire[i].cmd.name = "authenticate" => ~uim'.installing
        OBVIOUS
      <4>5. CASE modem'.wire[i] = m
        BY <4>1, <4>4, <4>5
      <4>6. CASE i \in 1 .. Len(modem.wire) /\ modem'.wire[i] = modem.wire[i]
        <5>1. helper.pc # "load"
          BY <4>2, <4>6
        <5> QED
          BY <4>1, <4>6, <5>1 DEF ConsentInv
      <4> QED
        BY <4>3, <4>5, <4>6
    <3>2. CASE ~Sends
      <4>1. modem'.wire = modem.wire /\ uim'.installing = uim.installing
        BY <1>1, <3>2 DEF HelperKind, Local, Receives, Reads, Skips, GivesUp
      <4> QED
        BY <4>1 DEF ConsentInv
    <3> QED
      BY <3>1, <3>2
  <2> QED
    BY <1>1, <2>1, <2>2, <2>3, <2>4, <2>5 DEF ConsentInv
<1>2. CASE Serves /\ UNCHANGED agent
  <2> DEFINE m == modem.wire[1]
  <2>1. /\ 1 \in 1 .. Len(modem.wire) /\ UNCHANGED <<uim, helper>> /\ budget'.max = budget.max
        /\ \A i \in 1 .. Len(modem'.wire) : modem'.wire[i] = modem.wire[i + 1] /\ i + 1 \in 1 .. Len(modem.wire)
        /\ card' = card \/ (m.kind = "apdu" /\ \E data : CardTakes(m, data))
    BY <1>2, Served DEF Spends
  <2>2. card'.profile => uim'.installing /\ card'.session = "ended"
    BY <2>1 DEF ConsentInv, CardTakes
  <2> QED
    BY <1>2, <2>1, <2>2 DEF ConsentInv, Download
<1>3. CASE Attends
  BY <1>0, <1>3 DEF Attends, ConsentInv, Spends, Download, Winding
<1> QED
  BY <1>1, <1>2, <1>3 DEF StepKind

\* The card never gives a profile back, and takes none once the session with an install has ended.
LEMMA CardKeeps ==
  ASSUME TypeOK, ConsentInv, Serves
  PROVE  /\ card.profile => card'.profile
         /\ uim.installing /\ card.session = "ended" => card'.session = "ended" /\ card'.profile = card.profile
         /\ ~uim.installing => card'.profile = card.profile
<1> DEFINE m == modem.wire[1]
<1>1. /\ 1 \in 1 .. Len(modem.wire) /\ (card' = card \/ (m.kind = "apdu" /\ \E data : CardTakes(m, data)))
      /\ card.profile \in BOOLEAN
  BY Served DEF TypeOK, CardState
<1>2. CASE card' = card
  BY <1>2
<1>3. CASE m.kind = "apdu" /\ \E data : CardTakes(m, data)
  BY <1>1, <1>3 DEF ConsentInv, CardTakes, CardState
<1> QED
  BY <1>1, <1>2, <1>3

\* A step that sets the ending.
LEMMA EndingMoves ==
  ASSUME TypeOK, PlaceInv, ConsentInv, OutcomeInv, HelperKind, helper'.end # helper.end
  PROVE  /\ helper'.end # None
         /\ helper'.end.result \in Nothing => ~card.profile /\ (uim'.installing => card.session = "ended")
         /\ helper'.end.receipt => card.profile
<1>0. /\ uim.installing => helper.pc \in {"load", "killed"} \cup Winding
      /\ card.profile => uim.installing
      /\ None \notin Ending
  BY SessionConstants DEF ConsentInv
<1>1. CASE Local
  BY <1>0, <1>1 DEF Local, LocalGoes, LocalStops, LocalBreaks, LocalGivesIn, Informs, Stops, Breaks, GivesIn, Goes,
    Forward, Known, Winding, Nothing
<1>2. CASE Sends \/ Skips
  BY <1>2 DEF Sends, Skips
<1>3. CASE Receives
  <2> DEFINE a == modem.back[1]
  <2>1. /\ uim'.installing = uim.installing /\ Takes(a.data) /\ 1 \in 1 .. Len(modem.back)
    BY <1>3, BackHead DEF Receives, Reads
  <2>2. /\ a.data = "installed" => card.profile
        /\ a.data = "refused" => uim.installing /\ card.session = "ended" /\ ~card.profile
    BY <2>1 DEF OutcomeInv
  <2> HIDE DEF a
  <2>3. CASE helper.pc = "load"
    BY <1>0, <2>1, <2>2, <2>3 DEF Takes, Goes, Breaks, Refused, Done, Nothing
  <2>4. CASE helper.pc # "load"
    <3>1. (\E known \in BOOLEAN : Stops(known)) \/ GivesIn
      BY <2>1, <2>4 DEF Takes, Goes
    <3>2. helper.pc \in {"open", "read", "challenge", "authenticate", "prepare"}
      BY <2>1, <2>4 DEF Takes, Goes
    <3> QED
      BY <1>0, <2>1, <3>1, <3>2 DEF Stops, GivesIn, Winding
  <2> QED
    BY <2>3, <2>4
<1>4. CASE GivesUp
  BY <1>0, <1>4 DEF GivesUp, Goes, Stops, Breaks, GivesIn, Winding, Nothing
<1> QED
  BY <1>1, <1>2, <1>3, <1>4 DEF HelperKind

\* What the helper ends with stays so.
LEMMA OutcomeKept ==
  ASSUME TypeOK, PlaceInv, ConsentInv, OutcomeInv, StepKind
  PROVE  OutcomeInv'
<1>1. CASE HelperKind /\ UNCHANGED agent
  <2>1. /\ UNCHANGED card /\ helper.pc \notin Over
        /\ uim.installing => uim'.installing
        /\ uim'.installing => uim.installing \/ (Sends /\ helper.pc = "load")
    BY <1>1, HelperMoves
  <2>2. \A i \in 1 .. Len(modem'.back) : \E j \in 1 .. Len(modem.back) : modem'.back[i] = modem.back[j]
    <3>1. CASE Local \/ Sends \/ GivesUp
      BY <3>1 DEF Local, Sends, GivesUp
    <3>2. CASE Receives \/ Skips
      <4>1. modem'.back = Tail(modem.back) /\ modem.back # <<>>
        BY <3>2 DEF Receives, Skips, Reads
      <4> QED
        BY <4>1, BackHead
    <3> QED
      BY <1>1, <3>1, <3>2 DEF HelperKind
  <2>3. helper'.end # None =>
          /\ helper'.end.result \in Nothing => ~card.profile /\ (uim'.installing => card.session = "ended")
          /\ helper'.end.receipt => card.profile
    <3>1. CASE helper'.end # helper.end
      BY <1>1, <3>1, EndingMoves
    <3>2. CASE helper'.end = helper.end
      <4>1. helper.end # None => ~(Sends /\ helper.pc = "load")
        BY DEF PlaceInv, Forward, Known
      <4> QED
        BY <2>1, <3>2, <4>1 DEF OutcomeInv
    <3> QED
      BY <3>1, <3>2
  <2>4. ~(agent'.state = "over" /\ agent'.outcome \notin {"killed", "garbled"})
    BY <1>1, <2>1 DEF OutcomeInv, Over
  <2> QED
    BY <2>1, <2>2, <2>3, <2>4 DEF OutcomeInv
<1>2. CASE Serves /\ UNCHANGED agent
  <2> DEFINE m == modem.wire[1]
  <2>1. /\ 1 \in 1 .. Len(modem.wire) /\ UNCHANGED <<uim, helper>> /\ m \in Message
    BY <1>2, Served
  <2>2. PICK data \in {"ok", "error", "no_id", "bad", "refused", "more", "installed"} :
          /\ \A i \in 1 .. Len(modem'.back) :
               \/ i \in 1 .. Len(modem.back) /\ modem'.back[i] = modem.back[i]
               \/ modem'.back[i].kind = m.kind /\ modem'.back[i].data = data
          /\ m.kind = "apdu" => CardTakes(m, data)
          /\ m.kind # "apdu" => data \in {"ok", "error", "no_id"}
    BY <1>2, Served
  <2>3. /\ card.profile => card'.profile
        /\ uim.installing /\ card.session = "ended" => card'.session = "ended" /\ card'.profile = card.profile
        /\ ~uim.installing => card'.profile = card.profile
    BY <1>2, CardKeeps
  <2>4. /\ data = "installed" => card'.profile
        /\ data = "refused" => uim'.installing /\ card'.session = "ended" /\ ~card'.profile
    BY <2>1, <2>2 DEF CardTakes, ConsentInv
  <2>5. ASSUME NEW i \in 1 .. Len(modem'.back)
        PROVE  /\ modem'.back[i].kind # "apdu" => modem'.back[i].data \in {"ok", "error", "no_id"}
               /\ modem'.back[i].data = "installed" => card'.profile
               /\ modem'.back[i].data = "refused" => uim'.installing /\ card'.session = "ended" /\ ~card'.profile
    <3>1. CASE i \in 1 .. Len(modem.back) /\ modem'.back[i] = modem.back[i]
      BY <2>1, <2>3, <3>1 DEF OutcomeInv
    <3>2. CASE modem'.back[i].kind = m.kind /\ modem'.back[i].data = data
      BY <2>2, <2>4, <3>2
    <3> QED
      BY <2>2, <3>1, <3>2
  <2>6. helper'.end # None =>
          /\ helper'.end.result \in Nothing => ~card'.profile /\ (uim'.installing => card'.session = "ended")
          /\ helper'.end.receipt => card'.profile
    BY <2>1, <2>3 DEF OutcomeInv
  <2> QED
    BY <1>2, <2>1, <2>5, <2>6 DEF OutcomeInv
<1>3. CASE Attends
  BY <1>3 DEF Attends, OutcomeInv
<1> QED
  BY <1>1, <1>2, <1>3 DEF StepKind

\* The answer to the one request in flight.
LEMMA OneAnswer ==
  ASSUME TypeOK, InFlight, uim.pending # None, Reads
  PROVE  /\ modem.wire = <<>> /\ Len(modem.back) = 1 /\ Matches(modem.back[1]) /\ Head(modem.back) = modem.back[1]
         /\ modem'.back = <<>> /\ modem'.wire = <<>>
<1>1. modem.back \in Seq(Answer) /\ modem.back # <<>>
  BY DEF TypeOK, ModemState, Reads
<1>2. modem.wire = <<>> /\ Len(modem.back) = 1 /\ Matches(modem.back[1])
  BY <1>1 DEF InFlight
<1>3. Head(modem.back) = modem.back[1]
  BY <1>1, BackHead
<1>4. Tail(modem.back) = <<>>
  <2>1. Tail(modem.back) \in Seq(Answer) /\ Len(Tail(modem.back)) = 0
    BY <1>1, <1>2, BackHead
  <2> QED
    BY <2>1, EmptySeq
<1> QED
  BY <1>2, <1>3, <1>4 DEF Reads

\* Serving the one request in flight.
LEMMA OneServed ==
  ASSUME TypeOK, InFlight, Serves
  PROVE  /\ uim.pending # None /\ modem.wire = <<uim.pending>> /\ modem.back = <<>> /\ modem'.wire = <<>>
         /\ UNCHANGED <<uim, stop, helper, server, clock>>
         /\ \E data \in {"ok", "error", "no_id", "bad", "refused", "more", "installed"} :
              /\ modem'.nameless = (modem.nameless \/ data = "no_id")
              /\ \/ modem'.back = <<>> /\ budget'.faults > 0
                 \/ /\ modem'.back # <<>> /\ modem'.back[1].data = data /\ Len(modem'.back) = 1
                    /\ modem'.back[1].txn = uim.pending.txn /\ modem'.back[1].kind = uim.pending.kind
              /\ uim.pending.kind = "apdu" => CardTakes(uim.pending, data) /\ modem'.open = modem.open
              /\ uim.pending.kind # "apdu" =>
                   /\ card' = card /\ data \in {"ok", "error", "no_id"} /\ (data # "ok" => budget'.faults > 0)
                   /\ modem'.open = IF data = "error" THEN modem.open ELSE uim.pending.kind = "open"
<1>1. modem.wire # <<>> /\ UNCHANGED <<uim, stop, helper, server, clock>>
  BY DEF Serves
<1>2. uim.pending # None /\ modem.wire = <<uim.pending>> /\ modem.back = <<>> /\ Head(modem.wire) = uim.pending
  BY <1>1 DEF InFlight
<1>3. PICK data \in {"ok", "error", "no_id", "bad", "refused", "more", "installed"}, delivered \in BOOLEAN :
        ServesOne(uim.pending, data, delivered)
  BY <1>2 DEF Serves
<1>4. modem'.wire = <<>>
  BY <1>2, <1>3 DEF ServesOne
<1>5. CASE delivered
  <2> DEFINE a == [txn |-> uim.pending.txn, kind |-> uim.pending.kind, data |-> data]
  <2>1. modem'.back = <<a>>
    BY <1>2, <1>3, <1>5 DEF ServesOne
  <2>2. a.txn = uim.pending.txn /\ a.kind = uim.pending.kind /\ a.data = data
    OBVIOUS
  <2> HIDE DEF a
  <2>3. modem'.back # <<>> /\ Len(modem'.back) = 1 /\ modem'.back[1] = a
    BY <2>1
  <2> QED
    BY <1>1, <1>2, <1>3, <1>4, <2>2, <2>3 DEF ServesOne
<1>6. CASE ~delivered
  BY <1>1, <1>2, <1>3, <1>4, <1>6 DEF ServesOne
<1> QED
  BY <1>5, <1>6

\* The channel while the client opens it.
LEMMA OpenKept ==
  ASSUME TypeOK, PlaceInv, FlightInv, ChannelInv, StepKind, helper'.pc = "open"
  PROVE  IF modem'.back = <<>> THEN uim'.pending = None \/ modem'.wire # <<>> => ~modem'.open
         ELSE modem'.open = (modem'.back[1].data # "error") /\ (modem'.back[1].data = "no_id" => modem'.nameless)
<1>1. CASE HelperKind
  <2>1. helper.pc \in Forward
    BY <1>1, HelperMoves DEF Forward
  <2>2. CASE Local
    <3>1. modem.back = <<>> /\ helper.pc = "connect" /\ UNCHANGED modem
      BY <2>1, <2>2 DEF FlightInv, InFlight, Local, LocalGoes, LocalNext, LocalStops, LocalBreaks, LocalGivesIn,
        Informs, Goes,
        Stops, Breaks, GivesIn
    <3> QED
      BY <3>1 DEF ChannelInv
  <2>3. CASE Sends
    <3>1. helper.pc = "open" /\ uim.pending = None /\ modem.back = <<>> /\ modem'.back = <<>> /\ modem'.open = modem.open
      BY <2>1, <2>3 DEF Sends, FlightInv, InFlight
    <3> QED
      BY <3>1 DEF ChannelInv
  <2>4. CASE Receives
    BY <2>4 DEF Receives, Takes, Goes, Stops, Breaks, Refused, Done, GivesIn
  <2>5. CASE Skips
    BY <2>1, <2>5, OneAnswer DEF Skips, FlightInv
  <2>6. CASE GivesUp
    BY <2>6 DEF GivesUp, Goes, Stops, Breaks, GivesIn
  <2> QED
    BY <1>1, <2>2, <2>3, <2>4, <2>5, <2>6 DEF HelperKind
<1>2. CASE Serves
  <2>1. helper.pc = "open" /\ InFlight
    BY <1>2 DEF Serves, FlightInv, Forward
  <2>2. uim.pending # None /\ modem.back = <<>> /\ modem.wire # <<>> /\ modem'.wire = <<>> /\ uim' = uim
    BY <1>2, <2>1, OneServed DEF Serves
  <2>3. ~modem.open /\ uim.pending.kind = "open"
    BY <2>1, <2>2 DEF ChannelInv, PlaceInv, CardSteps
  <2>4. \/ modem'.back = <<>>
        \/ /\ modem'.back # <<>> /\ modem'.open = IF modem'.back[1].data = "error" THEN modem.open ELSE TRUE
           /\ modem'.back[1].data = "no_id" => modem'.nameless
    BY <1>2, <2>1, <2>3, OneServed
  <2>5. modem.open = FALSE
    BY <2>3 DEF TypeOK, ModemState
  <2> QED
    BY <2>2, <2>4, <2>5
<1>3. CASE Attends
  BY <1>3 DEF Attends, ChannelInv
<1> QED
  BY <1>1, <1>2, <1>3 DEF StepKind

\* Where a close may be on its way.
Behind == {"close", "answer", "exited", "killed"}

\* Closes and their answers are the last things on their way.
LEMMA CloseKept ==
  ASSUME TypeOK, PlaceInv, FlightInv, ChannelInv, StepKind
  PROVE  /\ \A i \in 1 .. Len(modem'.wire) : modem'.wire[i].kind = "close" =>
              i = Len(modem'.wire) /\ ~uim'.channel /\ helper'.pc \in Behind
         /\ \A i \in 1 .. Len(modem'.back) : modem'.back[i].kind = "close" =>
              /\ modem'.wire = <<>> /\ ~uim'.channel /\ helper'.pc \in Behind
              /\ modem'.back[i].data # "error" => ~modem'.open
<1> USE DEF Behind
<1>0. modem.wire \in Seq(Message) /\ modem.back \in Seq(Answer)
  BY DEF TypeOK, ModemState
<1>1. CASE Sends
  <2>1. PICK m \in Message :
          /\ m.kind = IF helper.pc \in CardSteps THEN "apdu" ELSE helper.pc
          /\ uim'.channel = (uim.channel /\ helper.pc # "close") /\ modem'.wire = Append(modem.wire, m)
          /\ modem'.back = modem.back /\ modem'.open = modem.open /\ (helper.pc # "open" => uim.channel)
          /\ UNCHANGED helper /\ uim.pending = None
    BY <1>1 DEF Sends
  <2>2. CASE helper.pc = "open"
    <3>1. modem.wire = <<>> /\ modem.back = <<>>
      BY <2>1, <2>2 DEF FlightInv, InFlight, Forward
    <3>2. Len(modem'.wire) = 1 /\ modem'.wire[1] = m /\ m.kind = "open"
      BY <2>1, <2>2, <3>1, WireAppend DEF CardSteps
    <3> QED
      BY <2>1, <3>1, <3>2
  <2>3. CASE helper.pc # "open"
    <3>1. /\ \A i \in 1 .. Len(modem.wire) : modem.wire[i].kind # "close"
          /\ \A i \in 1 .. Len(modem.back) : modem.back[i].kind # "close"
      BY <2>1, <2>3 DEF ChannelInv
    <3>2. \A i \in 1 .. Len(modem'.wire) :
            (i \in 1 .. Len(modem.wire) /\ modem'.wire[i] = modem.wire[i]) \/ (i = Len(modem'.wire) /\ modem'.wire[i] = m)
      BY <2>1, WireAppend
    <3>3. m.kind = "close" => helper'.pc = "close" /\ ~uim'.channel
      BY <2>1, <2>3 DEF CardSteps
    <3> QED
      BY <2>1, <3>1, <3>2, <3>3
  <2> QED
    BY <2>2, <2>3
<1>2. CASE HelperKind /\ ~Sends
  <2>1. /\ modem'.wire = modem.wire /\ modem'.open = modem.open
        /\ \A i \in 1 .. Len(modem'.back) : \E j \in 1 .. Len(modem.back) : modem'.back[i] = modem.back[j]
    <3>1. CASE Local \/ GivesUp
      BY <3>1 DEF Local, GivesUp
    <3>2. CASE Receives \/ Skips
      BY <3>2, BackHead DEF Receives, Skips, Reads
    <3> QED
      BY <1>2, <3>1, <3>2 DEF HelperKind
  <2>2. helper.pc \in Behind /\ ~uim.channel => helper'.pc \in Behind /\ ~uim'.channel
    <3>1. CASE Local
      BY <3>1 DEF Local, LocalGoes, LocalNext, LocalStops, LocalBreaks, LocalGivesIn, Informs, Goes, Forward, Known
    <3>2. CASE Receives
      BY <3>2 DEF Receives, Takes, Goes
    <3>3. CASE Skips
      BY <3>3 DEF Skips
    <3>4. CASE GivesUp
      BY <3>4 DEF GivesUp, Goes
    <3> QED
      BY <1>2, <3>1, <3>2, <3>3, <3>4 DEF HelperKind
  <2> QED
    BY <2>1, <2>2 DEF ChannelInv
<1>3. CASE Serves
  <2> DEFINE m == modem.wire[1]
  <2>1. /\ 1 \in 1 .. Len(modem.wire) /\ m \in Message /\ UNCHANGED <<uim, helper>> /\ modem' \in ModemState
        /\ Len(modem'.wire) = Len(modem.wire) - 1
        /\ \A i \in 1 .. Len(modem'.wire) : modem'.wire[i] = modem.wire[i + 1] /\ i + 1 \in 1 .. Len(modem.wire)
    BY <1>3, Served
  <2>2. PICK data :
          /\ \A i \in 1 .. Len(modem'.back) :
               \/ i \in 1 .. Len(modem.back) /\ modem'.back[i] = modem.back[i]
               \/ modem'.back[i].kind = m.kind /\ modem'.back[i].data = data
          /\ m.kind # "apdu" => modem'.open = IF data = "error" THEN modem.open ELSE m.kind = "open"
    BY <1>3, Served
  <2> HIDE DEF m
  <2>3. \A i \in 1 .. Len(modem.back) : modem.back[i].kind # "close"
    BY <1>3 DEF Serves, ChannelInv
  <2>4. m.kind = "close" => Len(modem.wire) = 1 /\ ~uim.channel /\ helper.pc \in Behind
    BY <2>1 DEF ChannelInv, m
  <2>5. m.kind = "close" => modem'.wire = <<>>
    BY <2>1, <2>4 DEF ModemState
  <2>6. ASSUME NEW i \in 1 .. Len(modem'.wire), modem'.wire[i].kind = "close"
        PROVE  i = Len(modem'.wire) /\ ~uim'.channel /\ helper'.pc \in Behind
    BY <1>0, <2>1, <2>6 DEF ChannelInv
  <2>7. ASSUME NEW i \in 1 .. Len(modem'.back), modem'.back[i].kind = "close"
        PROVE  /\ modem'.wire = <<>> /\ ~uim'.channel /\ helper'.pc \in Behind
               /\ modem'.back[i].data # "error" => ~modem'.open
    <3>1. m.kind = "close" /\ modem'.back[i].data = data
      BY <2>2, <2>3, <2>7
    <3> QED
      BY <2>1, <2>2, <2>4, <2>5, <3>1
  <2> QED
    BY <2>6, <2>7
<1>4. CASE Attends
  BY <1>4 DEF Attends, ChannelInv
<1> QED
  BY <1>1, <1>2, <1>3, <1>4 DEF StepKind

\* Who has the channel open: kept.
LEMMA ChannelKept ==
  ASSUME TypeOK, PlaceInv, FlightInv, OutcomeInv, ChannelInv, StepKind
  PROVE  ChannelInv'
<1>1. uim'.channel => modem'.open
  <2>1. CASE Receives
    <3>1. CASE helper.pc = "open"
      <4>1. InFlight /\ uim.pending # None /\ Reads
        BY <2>1, <3>1 DEF Receives, FlightInv, Forward
      <4>2. Head(modem.back) = modem.back[1] /\ modem.back # <<>>
        BY <4>1, OneAnswer DEF Reads
      <4> QED
        BY <2>1, <3>1, <4>2 DEF Receives, Reads, ChannelInv
    <3>2. CASE helper.pc # "open"
      BY <2>1, <3>2 DEF Receives, Reads, ChannelInv
    <3> QED
      BY <3>1, <3>2
  <2>2. CASE Local \/ Sends \/ Skips \/ GivesUp \/ Attends
    BY <2>2 DEF Local, Sends, Skips, GivesUp, Attends, Reads, ChannelInv
  <2>3. CASE Serves
    <3> DEFINE m == modem.wire[1]
    <3>1. /\ 1 \in 1 .. Len(modem.wire) /\ m \in Message /\ UNCHANGED uim
          /\ modem'.open = modem.open \/ (m.kind # "apdu" /\ modem'.open = (m.kind = "open"))
      BY <2>3, Served
    <3>2. m.kind \in {"open", "close", "apdu"}
      BY <3>1 DEF Message
    <3> QED
      BY <3>1, <3>2 DEF ChannelInv
  <2> QED
    BY <2>1, <2>2, <2>3 DEF StepKind, HelperKind
<1>2. helper'.pc = "connect" => ~modem'.open /\ uim'.pending = None
  <2>1. CASE HelperKind
    BY <2>1, HelperMoves
  <2>2. CASE Serves
    BY <2>2, OneServed DEF Serves, ChannelInv, FlightInv, Forward
  <2>3. CASE Attends
    BY <2>3 DEF Attends, ChannelInv
  <2> QED
    BY <2>1, <2>2, <2>3 DEF StepKind
<1>3. helper'.pc \in {"answer", "exited"} /\ ~uim'.leak => (modem'.open => modem'.nameless) /\ modem'.wire = <<>>
  <2> SUFFICES ASSUME helper'.pc \in {"answer", "exited"}, ~uim'.leak PROVE (modem'.open => modem'.nameless) /\ modem'.wire = <<>>
    OBVIOUS
  <2>1. CASE Local
    <3>1. UNCHANGED <<uim, modem>> /\ (helper.pc = "connect" \/ helper.pc = "answer")
      BY <2>1 DEF Local, LocalGoes, LocalNext, LocalStops, LocalBreaks, LocalGivesIn, Informs, Goes, Stops, Breaks, GivesIn
    <3>2. helper.pc = "connect" => modem.wire = <<>>
      BY <2>1 DEF Local, FlightInv, InFlight, Forward
    <3> QED
      BY <3>1, <3>2 DEF ChannelInv
  <2>2. CASE Sends
    BY <2>2 DEF Sends, CardSteps
  <2>3. CASE Receives
    <3>1. helper.pc \in {"open", "close"}
      BY <2>3 DEF Receives, Takes, Goes, Stops, Breaks, Refused, Done
    <3>2. CASE helper.pc = "open"
      <4>1. InFlight /\ uim.pending # None /\ Reads
        BY <2>3, <3>2 DEF Receives, FlightInv, Forward
      <4>2. Head(modem.back) = modem.back[1] /\ modem'.wire = <<>> /\ modem.back # <<>>
            /\ modem'.open = modem.open /\ modem'.nameless = modem.nameless
        BY <4>1, OneAnswer DEF Reads
      <4>3. Head(modem.back).data # "ok" /\ Head(modem.back).data \in {"ok", "error", "no_id"}
        <5>1. Head(modem.back).data # "ok"
          BY <2>3, <3>2 DEF Receives, Takes, Goes
        <5>2. Head(modem.back).kind = "open" /\ 1 \in 1 .. Len(modem.back)
          BY <2>3, <3>2, <4>2, BackHead DEF Receives, Matches, PlaceInv, CardSteps, Over
        <5> QED
          BY <4>2, <5>1, <5>2 DEF OutcomeInv
      <4> QED
        BY <3>2, <4>2, <4>3 DEF ChannelInv
    <3>3. CASE helper.pc = "close"
      <4>1. /\ modem.back # <<>> /\ Matches(Head(modem.back)) /\ uim.pending # None /\ modem'.wire = modem.wire
            /\ modem'.open = modem.open /\ Head(modem.back).data # "error"
        BY <2>3, <3>3 DEF Receives, Reads
      <4>2. modem.back[1].kind = "close" /\ modem.back[1].data # "error" /\ 1 \in 1 .. Len(modem.back)
        BY <3>3, <4>1, BackHead DEF Matches, PlaceInv, CardSteps
      <4> QED
        BY <4>1, <4>2 DEF ChannelInv
    <3> QED
      BY <3>1, <3>2, <3>3
  <2>4. CASE Skips \/ Attends
    BY <2>4 DEF Skips, Reads, Attends, ChannelInv
  <2>5. CASE GivesUp
    BY <2>5 DEF GivesUp, Goes, Stops, Breaks
  <2>6. CASE Serves
    BY <2>6 DEF Serves, ChannelInv
  <2> QED
    BY <2>1, <2>2, <2>3, <2>4, <2>5, <2>6 DEF StepKind, HelperKind
<1> QED
  BY <1>1, <1>2, <1>3, OpenKept, CloseKept DEF ChannelInv, Behind

\* While nothing failed, the card is where the procedure takes it to be: kept.
LEMMA SoundKept ==
  ASSUME TypeOK, PlaceInv, FlightInv, ChannelInv, SoundInv, StepKind
  PROVE  SoundInv'
<1> SUFFICES ASSUME budget'.faults = 0, helper'.pc \in Forward
             PROVE  /\ Answered1' => modem'.back[1].data \notin {"error", "bad", "refused"}
                    /\ helper'.pc \notin Known /\ helper'.pc # "authenticate" => card'.session = "none"
                    /\ helper'.pc = "authenticate" => card'.session = IF Answered1' THEN "open" ELSE "none"
                    /\ helper'.pc \in Known \ {"load"} => card'.session = "open"
                    /\ helper'.pc # "load" => helper'.seg = 1 /\ card'.took = 0
                    /\ helper'.pc = "load" =>
                         /\ helper'.plan = Plan("whole") /\ helper'.seg \in 1 .. Segments
                         /\ card'.took = IF Answered1' THEN helper'.seg ELSE helper'.seg - 1
                         /\ ~Answered1' \/ helper'.seg < Segments => card'.session = "open"
  BY DEF SoundInv
<1>0. Segments \in Nat \ {0, 1} /\ budget.faults \in Nat /\ helper.seg \in Nat /\ card.took \in Nat
  BY SessionConstants DEF TypeOK, BudgetState, HelperState, CardState
<1>1. CASE HelperKind
  <2>0. helper.pc \in Forward /\ InFlight /\ UNCHANGED card /\ budget.faults = 0
    BY <1>0, <1>1, HelperMoves, HelperTyped DEF FlightInv, BudgetState
  <2>1. CASE Local
    <3>1. ~Answered1 /\ ~Answered1'
      BY <2>0, <2>1 DEF Local, InFlight, Answered1
    <3>2. LocalGoes
      BY <2>1 DEF Local, LocalStops, LocalBreaks, LocalGivesIn, Informs, Goes, Stops, Breaks, GivesIn, Forward, Known
    <3>3. PICK to \in Forward \cup Winding :
            /\ <<helper.pc, to>> \in LocalNext /\ helper'.pc = to /\ (to # "load" => helper'.seg = helper.seg)
            /\ to = "load" => helper'.seg = helper.seg /\ helper'.plan = Plan("whole")
      BY <3>2 DEF LocalGoes, Goes
    <3>4. /\ to \in {"open", "authenticate", "preview", "prepare", "load"}
          /\ helper.pc \notin Known \cup {"authenticate"} <=> to \in {"open", "authenticate"}
          /\ helper.pc \in Known \ {"load"} <=> to \in {"preview", "prepare", "load"}
          /\ helper.pc # "load"
      BY <3>3 DEF LocalNext, Forward, Known
    <3>5. helper'.seg = 1 /\ card.took = 0
      BY <2>0, <3>3, <3>4 DEF SoundInv
    <3>6. card.session = IF to \in {"open", "authenticate"} THEN "none" ELSE "open"
      BY <2>0, <3>4 DEF SoundInv
    <3> QED
      BY <1>0, <2>0, <3>1, <3>3, <3>4, <3>5, <3>6 DEF Known
  <2>2. CASE Sends
    BY <2>0, <2>2 DEF Sends, SoundInv, Answered1
  <2>3. CASE Receives
    <3>1. uim.pending # None /\ Reads /\ Takes(Head(modem.back).data)
      BY <2>3 DEF Receives
    <3>2. Answered1 /\ ~Answered1' /\ Head(modem.back) = modem.back[1]
      BY <2>0, <3>1, OneAnswer DEF Answered1, Reads
    <3>3. CASE helper.pc = "load"
      <4>1. /\ helper'.pc = "load" /\ helper'.plan = helper.plan /\ helper'.seg = helper.seg + 1
            /\ helper.seg # Len(helper.plan)
        BY <3>1, <3>3 DEF Takes, Goes, Breaks, Refused, Done, Forward, Known
      <4>2. helper.plan = Plan("whole") /\ helper.seg \in 1 .. Segments /\ card.took = helper.seg
            /\ (helper.seg < Segments => card.session = "open")
        BY <2>0, <3>2, <3>3 DEF SoundInv, Forward, Known
      <4>3. Len(Plan("whole")) = Segments
        BY <1>0 DEF Plan
      <4> QED
        BY <1>0, <2>0, <3>2, <4>1, <4>2, <4>3 DEF Known
    <3>4. CASE helper.pc # "load"
      <4>1. \/ helper.pc = "open" /\ Goes("read")
            \/ helper.pc = "read" /\ Goes("challenge")
            \/ helper.pc = "challenge" /\ Goes("initiate")
            \/ helper.pc = "authenticate" /\ Goes("client")
            \/ helper.pc = "prepare" /\ Goes("package")
        BY <3>1, <3>4 DEF Takes, Goes, Stops, Breaks, Refused, Done, GivesIn, Forward, Known
      <4>2. helper'.seg = helper.seg /\ helper'.pc \in {"read", "challenge", "initiate", "client", "package"}
        BY <4>1 DEF Goes
      <4>3. helper.seg = 1 /\ card.took = 0
        BY <2>0, <3>4 DEF SoundInv
      <4>4. card.session = IF helper'.pc \in {"client", "package"} THEN "open" ELSE "none"
        <5>1. CASE helper.pc \in {"open", "read", "challenge"}
          BY <2>0, <4>1, <5>1 DEF SoundInv, Goes, Known
        <5>2. CASE helper.pc = "authenticate"
          BY <2>0, <3>2, <4>1, <5>2 DEF SoundInv, Goes
        <5>3. CASE helper.pc = "prepare"
          BY <2>0, <4>1, <5>3 DEF SoundInv, Goes, Known
        <5> QED
          BY <4>1, <5>1, <5>2, <5>3
      <4> QED
        BY <2>0, <3>2, <4>2, <4>3, <4>4 DEF Known
    <3> QED
      BY <3>3, <3>4
  <2>4. CASE Skips
    BY <2>0, <2>4, OneAnswer DEF Skips
  <2>5. CASE GivesUp
    BY <2>5 DEF GivesUp, Goes, Stops, Breaks, GivesIn, Forward, Known
  <2> QED
    BY <1>1, <2>1, <2>2, <2>3, <2>4, <2>5 DEF HelperKind
<1>2. CASE Serves
  <2>0. helper.pc \in Forward /\ InFlight /\ budget.faults = 0 /\ UNCHANGED helper
    BY <1>0, <1>2 DEF Serves, FlightInv, Spends, BudgetState
  <2>1. uim.pending # None /\ ~Answered1
    BY <1>2, <2>0, OneServed DEF Answered1
  <2>2. PICK data \in {"ok", "error", "no_id", "bad", "refused", "more", "installed"} :
          /\ modem'.back # <<>> /\ modem'.back[1].data = data
          /\ uim.pending.kind = "apdu" => CardTakes(uim.pending, data)
          /\ uim.pending.kind # "apdu" => card' = card /\ data = "ok"
    BY <1>2, <2>0, OneServed
  <2>3. /\ helper.pc \in CardSteps \cup {"open", "close"} /\ uim.pending.cmd.name = helper.pc
        /\ uim.pending.kind = IF helper.pc \in CardSteps THEN "apdu" ELSE helper.pc
        /\ helper.pc \notin {"connect", "open"} => uim.channel
    BY <2>0, <2>1 DEF PlaceInv, Forward, Known
  <2>4. helper.pc # "open" => modem.open
    BY <2>0, <2>3 DEF ChannelInv, CardSteps
  <2>5. CASE helper.pc = "open"
    BY <2>0, <2>2, <2>3, <2>5 DEF SoundInv, CardSteps, Answered1, Known
  <2>6. CASE helper.pc # "open"
    <3>1. CardTakes(uim.pending, data) /\ helper.pc \in {"read", "challenge", "authenticate", "prepare", "load"}
      BY <2>0, <2>2, <2>3, <2>6 DEF Forward, Known, CardSteps
    <3>2. CASE helper.pc \in {"read", "challenge", "prepare"}
      <4>1. card' = card /\ data = "ok"
        BY <2>3, <2>4, <3>1, <3>2 DEF CardTakes
      <4> QED
        BY <2>0, <2>2, <3>2, <4>1 DEF SoundInv, Answered1, Known
    <3>3. CASE helper.pc = "authenticate"
      <4>1. card'.session = "open" /\ card'.took = card.took /\ data = "ok"
        BY <2>3, <2>4, <3>1, <3>3 DEF CardTakes
      <4> QED
        BY <2>0, <2>2, <3>3, <4>1 DEF SoundInv, Answered1, Known
    <3>4. CASE helper.pc = "load"
      <4>1. /\ helper.plan = Plan("whole") /\ helper.seg \in 1 .. Segments
            /\ card.took = helper.seg - 1 /\ card.session = "open"
        BY <2>0, <2>1, <3>4 DEF SoundInv
      <4>2. /\ data \in {"more", "installed"} /\ card'.took = card.took + 1
            /\ data = "installed" => card.took + 1 = Segments
            /\ data = "more" => card'.session = "open"
        BY <2>3, <2>4, <3>1, <3>4, <4>1 DEF CardTakes
      <4> QED
        BY <1>0, <2>0, <2>2, <3>4, <4>1, <4>2 DEF Answered1, Known
    <3> QED
      BY <3>1, <3>2, <3>3, <3>4
  <2> QED
    BY <2>5, <2>6
<1>3. CASE Attends
  <2>1. /\ UNCHANGED <<modem, card>> /\ budget.faults = 0 /\ helper'.pc = helper.pc /\ helper'.plan = helper.plan
        /\ helper'.seg = helper.seg
    BY <1>0, <1>3 DEF Attends, Spends, BudgetState, Forward, Known
  <2> QED
    BY <2>1 DEF SoundInv, Answered1
<1> QED
  BY <1>1, <1>2, <1>3 DEF StepKind

\* Rejections come from the user: kept.
LEMMA OrderKept ==
  ASSUME TypeOK, PlaceInv, ConsentInv, OrderInv, StepKind
  PROVE  OrderInv'
<1>0. /\ None \notin Reasons /\ agent.sent \in SUBSET Lines /\ (Declined => Declined')
      /\ (\E j \in 1 .. Len(helper.ctl) : helper.ctl[j] = "decline") => Declined
  <2>1. agent.sent \subseteq agent'.sent
    BY DEF StepKind, Attends
  <2> QED
    BY <2>1, SessionConstants DEF TypeOK, AgentState, Declined, ConsentInv
<1>1. CASE HelperKind /\ UNCHANGED agent
  <2>1. UNCHANGED card
    BY <1>1, HelperMoves
  <2>2. helper'.end # None /\ helper'.end.reason = "endUserRejection" => Declined
    <3>1. CASE helper'.end = helper.end
      BY <3>1 DEF OrderInv
    <3>2. CASE helper'.end # helper.end
      <4>1. CASE Local
        BY <1>0, <3>2, <4>1 DEF Local, LocalGoes, LocalStops, LocalBreaks, LocalGivesIn, Informs, Stops, Breaks,
          GivesIn, Goes
      <4>2. CASE Sends \/ Skips
        BY <3>2, <4>2 DEF Sends, Skips
      <4>3. CASE Receives
        BY <1>0, <3>2, <4>3 DEF Receives, Takes, Goes, Stops, Breaks, Refused, Done, GivesIn
      <4>4. CASE GivesUp
        BY <1>0, <3>2, <4>4 DEF GivesUp, Goes, Stops, Breaks, GivesIn
      <4> QED
        BY <1>1, <4>1, <4>2, <4>3, <4>4 DEF HelperKind
    <3> QED
      BY <3>1, <3>2
  <2>3. \A i \in 1 .. Len(modem'.wire) : modem'.wire[i].cmd.reason = "endUserRejection" => Declined
    <3>1. CASE Sends
      <4>1. PICK m \in Message :
              /\ m.cmd.reason = IF helper.pc = "cancel" THEN helper.end.reason ELSE None
              /\ modem'.wire = Append(modem.wire, m)
        BY <3>1 DEF Sends
      <4>2. helper.pc = "cancel" => helper.end # None
        BY DEF PlaceInv, Winding
      <4>3. m.cmd.reason = "endUserRejection" => Declined
        BY <1>0, <4>1, <4>2 DEF OrderInv, Reasons
      <4> QED
        BY <4>1, <4>3, WireAppend DEF OrderInv
    <3>2. CASE ~Sends
      <4>1. modem'.wire = modem.wire
        BY <1>1, <3>2 DEF HelperKind, Local, Receives, Reads, Skips, GivesUp
      <4> QED
        BY <4>1 DEF OrderInv
    <3> QED
      BY <3>1, <3>2
  <2>4. server'.order = "endUserRejection" => Declined
    <3>1. CASE Local
      BY <3>1 DEF Local, LocalGoes, LocalStops, LocalBreaks, LocalGivesIn, Informs, OrderInv
    <3>2. CASE ~Local
      BY <1>1, <3>2 DEF HelperKind, Sends, Receives, Skips, GivesUp, OrderInv
    <3> QED
      BY <3>1, <3>2
  <2> QED
    BY <1>0, <2>1, <2>2, <2>3, <2>4 DEF OrderInv
<1>2. CASE Serves /\ UNCHANGED agent
  <2> DEFINE m == modem.wire[1]
  <2>1. /\ 1 \in 1 .. Len(modem.wire) /\ UNCHANGED <<uim, helper, server>>
        /\ \A i \in 1 .. Len(modem'.wire) : modem'.wire[i] = modem.wire[i + 1] /\ i + 1 \in 1 .. Len(modem.wire)
        /\ card' = card \/ (m.kind = "apdu" /\ \E data : CardTakes(m, data))
    BY <1>2, Served
  <2>2. card'.session = "endUserRejection" => Declined
    BY <2>1 DEF OrderInv, CardTakes
  <2> QED
    BY <1>0, <2>1, <2>2 DEF OrderInv
<1>3. CASE Attends
  BY <1>0, <1>3 DEF Attends, OrderInv
<1> QED
  BY <1>1, <1>2, <1>3 DEF StepKind

\* What CancelInv asks of a run that the user ended.
UserEnded ==
  /\ helper.end.notify /\ helper.end.reason \in Reasons
  /\ helper.pc = "cancel" =>
       /\ uim.pending # None => uim.pending.cmd.reason = helper.end.reason
       /\ card.session = IF Answered1 THEN helper.end.reason ELSE "open"
  /\ helper.pc = "inform" => card.session = helper.end.reason
  /\ helper.pc \in {"close", "answer", "exited"} =>
       card.session = "none" \/ (card.session = helper.end.reason /\ server.order = helper.end.reason)

\* A local step that begins or goes on with the end of an undisturbed run.
LEMMA CancelKeptLocal ==
  ASSUME TypeOK, PlaceInv, FlightInv, SoundInv, CancelInv, Local, Clean, Clean', helper'.pc \in Winding
  PROVE  /\ InFlight' /\ ~Answered1'
         /\ helper'.end.result = "cancelled" => UserEnded'
<1>1. UNCHANGED <<uim, modem, card, stop, clock>> /\ uim.pending = None
  BY DEF Local
<1>2. helper.pc \in Forward \cup Winding => InFlight
  BY DEF FlightInv, CancelInv
<1>3. CASE LocalGoes
  <2>1. helper.pc = "answer" /\ helper'.pc = "exited" /\ helper'.end = helper.end /\ server'.order = server.order
    BY <1>3 DEF LocalGoes, LocalNext, Goes, Clean, Winding
  <2>2. InFlight' /\ ~Answered1'
    BY <1>1, <1>2, <2>1 DEF InFlight, Answered1, Winding
  <2> QED
    BY <1>1, <2>1, <2>2 DEF CancelInv, UserEnded, Winding
<1>4. CASE LocalStops
  <2>1. /\ helper.pc \in Forward \ {"connect", "open", "load"} /\ Stops(helper.session) /\ helper.session \in BOOLEAN
        /\ helper.session <=> helper.pc \in Known
    BY <1>4 DEF LocalStops, TypeOK, HelperState, PlaceInv
  <2>2. InFlight' /\ ~Answered1 /\ ~Answered1'
    BY <1>1, <1>2, <2>1 DEF InFlight, Answered1
  <2>3. card.session = IF helper.session THEN "open" ELSE "none"
    BY <2>1, <2>2 DEF SoundInv, Clean
  <2>4. None \notin Reasons
    BY SessionConstants
  <2> QED
    BY <1>1, <2>1, <2>2, <2>3, <2>4 DEF Stops, UserEnded
<1>5. CASE LocalBreaks \/ LocalGivesIn
  <2>1. helper.pc \in Forward /\ helper'.end.result # "cancelled"
    BY <1>5 DEF LocalBreaks, LocalGivesIn, Breaks, GivesIn, Forward, Known
  <2> QED
    BY <1>1, <1>2, <2>1 DEF InFlight, Answered1
<1>6. CASE Informs
  <2>1. helper.pc = "inform" /\ helper'.pc = "close" /\ helper'.end = helper.end
    BY <1>6 DEF Informs, Goes
  <2>2. InFlight' /\ ~Answered1'
    BY <1>1, <1>2, <2>1 DEF InFlight, Answered1, Winding
  <2>3. ASSUME helper.end.result = "cancelled" PROVE UserEnded'
    <3>1. helper.end.notify /\ helper.end.reason \in Reasons /\ card.session = helper.end.reason
      BY <2>1, <2>3 DEF CancelInv, Winding
    <3>2. server'.order = card.session
      BY <1>1, <1>6, <3>1 DEF Informs, Clean
    <3> QED
      BY <1>1, <2>1, <3>1, <3>2 DEF UserEnded
  <2> QED
    BY <2>1, <2>2, <2>3
<1> QED
  BY <1>3, <1>4, <1>5, <1>6 DEF Local

\* So does the answer to its one request.
LEMMA CancelKeptReceives ==
  ASSUME TypeOK, PlaceInv, FlightInv, SoundInv, CancelInv, Receives, Clean, helper'.pc \in Winding
  PROVE  /\ InFlight' /\ ~Answered1'
         /\ helper'.end.result = "cancelled" => UserEnded'
<1> DEFINE a == modem.back[1]
<1>1. /\ helper.pc \notin Over /\ uim.pending # None /\ Reads /\ uim'.pending = None /\ UNCHANGED <<card, server>>
      /\ helper.pc \in CardSteps \cup {"open", "close"} /\ modem.back # <<>>
  BY DEF Receives, Reads, PlaceInv, Over
<1>2. helper.pc \in Forward \cup Winding
  BY <1>1 DEF CardSteps, Forward, Known, Winding
<1>3. InFlight
  BY <1>2 DEF FlightInv, CancelInv
<1>4. InFlight' /\ Answered1 /\ ~Answered1' /\ Head(modem.back) = a
  BY <1>1, <1>3, OneAnswer DEF InFlight, Answered1
<1>5. Takes(a.data)
  BY <1>4 DEF Receives
<1> HIDE DEF a
<1>6. SUFFICES ASSUME helper'.end.result = "cancelled" PROVE UserEnded'
  BY <1>4
<1>7. CASE helper.pc \in {"read", "challenge"}
  <2>1. Stops(FALSE)
    BY <1>5, <1>7 DEF Takes, Goes, Winding
  <2>2. card.session = "none"
    BY <1>7 DEF SoundInv, Clean, Forward, Known
  <2> QED
    BY <1>1, <1>6, <2>1, <2>2 DEF Stops, UserEnded
<1>8. CASE helper.pc \in {"authenticate", "prepare"}
  <2>1. a.data \notin {"error", "bad"} /\ card.session = "open"
    BY <1>4, <1>8 DEF SoundInv, Clean, Forward, Known, a
  <2>2. Stops(TRUE)
    BY <1>5, <1>8, <2>1 DEF Takes, Goes, Winding
  <2>3. None \notin Reasons
    BY SessionConstants
  <2> QED
    BY <1>1, <1>4, <1>6, <2>1, <2>2, <2>3 DEF Stops, UserEnded
<1>9. CASE helper.pc = "cancel"
  <2>1. helper'.end = helper.end
    BY <1>5, <1>9 DEF Takes, Goes
  <2>2. /\ a.data \notin {"error", "bad"} /\ helper.end.notify /\ helper.end.reason \in Reasons
        /\ card.session = helper.end.reason
    BY <1>4, <1>6, <1>9, <2>1 DEF CancelInv, Winding, Answered1, a
  <2>3. helper'.pc = "inform"
    BY <1>5, <1>9, <2>2 DEF Takes, Goes
  <2> QED
    BY <1>1, <2>1, <2>2, <2>3 DEF UserEnded
<1>10. CASE helper.pc = "close"
  <2>1. helper'.end = helper.end /\ helper'.pc = "answer"
    BY <1>5, <1>10 DEF Takes, Goes
  <2> QED
    BY <1>1, <1>6, <1>10, <2>1 DEF CancelInv, Winding, UserEnded
<1>11. CASE helper.pc \in {"open", "load"}
  BY <1>5, <1>6, <1>11 DEF Takes, GivesIn, Goes, Breaks, Refused, Done, Winding
<1> QED
  BY <1>1, <1>7, <1>8, <1>9, <1>10, <1>11 DEF CardSteps

\* So does serving it.
LEMMA CancelKeptServes ==
  ASSUME TypeOK, PlaceInv, ChannelInv, CancelInv, Serves, Clean, Clean', helper.pc \in Winding
  PROVE  /\ InFlight' /\ modem'.back[1].data \notin {"error", "bad"}
         /\ helper'.end.result = "cancelled" => UserEnded'
<1>1. InFlight /\ budget'.faults = 0
  BY DEF CancelInv, Clean
<1>2. /\ uim.pending # None /\ modem.back = <<>> /\ modem'.wire = <<>> /\ UNCHANGED <<uim, helper, server>>
  BY <1>1, OneServed
<1>3. PICK data \in {"ok", "error", "no_id", "bad", "refused", "more", "installed"} :
        /\ modem'.back # <<>> /\ modem'.back[1].data = data /\ Len(modem'.back) = 1
        /\ modem'.back[1].txn = uim.pending.txn /\ modem'.back[1].kind = uim.pending.kind
        /\ uim.pending.kind = "apdu" => CardTakes(uim.pending, data)
        /\ uim.pending.kind # "apdu" => card' = card /\ data = "ok"
  BY <1>1, OneServed
<1>4. InFlight' /\ ~Answered1 /\ Answered1'
  BY <1>2, <1>3 DEF InFlight, Answered1, Matches
<1>5. /\ helper.pc \in {"cancel", "close"} /\ uim.pending.cmd.name = helper.pc
      /\ uim.pending.kind = IF helper.pc = "cancel" THEN "apdu" ELSE "close"
  BY <1>2 DEF PlaceInv, Winding, CardSteps
<1>6. CASE helper.pc = "close"
  BY <1>2, <1>3, <1>4, <1>5, <1>6 DEF CancelInv, UserEnded, Winding
<1>7. CASE helper.pc = "cancel"
  <2>1. modem.open
    BY <1>7 DEF PlaceInv, ChannelInv
  <2>2. data = "ok" /\ card'.session = IF card.session = "open" THEN uim.pending.cmd.reason ELSE card.session
    BY <1>1, <1>3, <1>5, <1>7, <2>1 DEF CardTakes
  <2>3. ASSUME helper.end.result = "cancelled" PROVE UserEnded'
    <3>1. /\ helper.end.notify /\ helper.end.reason \in Reasons /\ uim.pending.cmd.reason = helper.end.reason
          /\ card.session = "open"
      BY <1>2, <1>4, <1>7, <2>3 DEF CancelInv, Winding
    <3> QED
      BY <1>2, <1>4, <1>7, <2>2, <3>1 DEF UserEnded
  <2> QED
    BY <1>2, <1>3, <1>4, <2>2, <2>3
<1> QED
  BY <1>5, <1>6, <1>7

\* An undisturbed run that the user ended cancels with its reason: kept.
LEMMA CancelKept ==
  ASSUME TypeOK, PlaceInv, FlightInv, ChannelInv, SoundInv, CancelInv, StepKind
  PROVE  CancelInv'
<1> SUFFICES ASSUME Clean', helper'.pc \in Winding
             PROVE  /\ InFlight' /\ (modem'.back # <<>> => modem'.back[1].data \notin {"error", "bad"})
                    /\ helper'.end.result = "cancelled" => UserEnded'
  BY DEF CancelInv, UserEnded
<1>0. Clean
  <2>1. budget'.faults >= budget.faults /\ budget'.faults \in Nat /\ budget.faults \in Nat
    <3>1. CASE HelperKind
      BY <3>1, HelperTyped DEF TypeOK, BudgetState
    <3>2. CASE Serves \/ Attends
      BY <3>2 DEF Serves, Attends, Spends, TypeOK, BudgetState
    <3> QED
      BY <3>1, <3>2 DEF StepKind
  <2>2. (stop => stop') /\ clock' >= clock /\ clock \in 0 .. 4 /\ clock' \in 0 .. 4
    <3>1. CASE HelperKind
      BY <3>1, HelperMoves DEF TypeOK
    <3>2. CASE Serves \/ Attends
      BY <3>2 DEF Serves, Attends, TypeOK
    <3> QED
      BY <3>1, <3>2 DEF StepKind
  <2> QED
    BY <2>1, <2>2 DEF Clean
<1>1. helper.pc \in Forward \cup Winding => InFlight
  BY <1>0 DEF FlightInv, CancelInv
<1>2. CASE Local
  BY <1>0, <1>2, CancelKeptLocal DEF Answered1
<1>3. CASE Receives
  BY <1>0, <1>3, CancelKeptReceives DEF Answered1
<1>4. CASE Sends
  <2>1. PICK m \in Message :
          /\ m.cmd.reason = (IF helper.pc = "cancel" THEN helper.end.reason ELSE None)
          /\ uim'.pending = m /\ modem'.wire = Append(modem.wire, m) /\ modem'.back = modem.back
          /\ UNCHANGED <<helper, card, server>> /\ uim.pending = None /\ helper.pc \in Winding
    BY <1>4 DEF Sends
  <2>2. modem.wire = <<>> /\ modem.back = <<>> /\ m # None
    BY <1>1, <2>1, SessionConstants DEF InFlight
  <2>3. InFlight'
    BY <2>1, <2>2, WireAppend DEF InFlight
  <2> QED
    BY <1>0, <2>1, <2>2, <2>3 DEF CancelInv, UserEnded, Answered1
<1>5. CASE Skips
  <2>1. helper.pc \in Winding /\ uim.pending # None /\ Reads /\ ~Matches(Head(modem.back))
    BY <1>5 DEF Skips
  <2> QED
    BY <1>1, <2>1, OneAnswer
<1>6. CASE GivesUp
  <2>1. helper.pc \in Forward \cup Winding
    BY <1>6 DEF GivesUp, Forward, Known, Winding
  <2>2. budget'.faults = 0 /\ ~stop /\ ~(clock >= 2)
    BY <1>0 DEF Clean, TypeOK
  <2> QED
    BY <1>0, <1>1, <1>6, <2>1, <2>2 DEF GivesUp
<1>7. CASE Serves
  BY <1>0, <1>7, CancelKeptServes DEF Serves
<1>8. CASE Attends
  <2>1. UNCHANGED <<uim, modem, card, server>> /\ helper'.pc = helper.pc /\ helper'.end = helper.end
    BY <1>8 DEF Attends, Winding
  <2>2. budget.faults = 0 /\ budget'.faults = 0
    BY <1>0 DEF Clean
  <2>3. InFlight'
    BY <1>1, <2>1, <2>2 DEF InFlight, Matches
  <2> QED
    BY <1>0, <2>1, <2>3 DEF CancelInv, UserEnded, Answered1
<1> QED
  BY <1>2, <1>3, <1>4, <1>5, <1>6, <1>7, <1>8 DEF StepKind, HelperKind

(***************************************************************************)
(* The theorems.                                                           *)
(***************************************************************************)

\* A run begins with nothing on its way, no channel and a card without a session.
LEMMA RunBegins ==
  ASSUME RunInit
  PROVE  RunInv
<1>1. /\ uim = Client /\ modem = [wire |-> <<>>, back |-> <<>>, open |-> FALSE, nameless |-> FALSE] /\ stop = FALSE
      /\ helper = [pc |-> "connect", session |-> FALSE, plan |-> <<>>, seg |-> 1, end |-> None, ctl |-> <<>>, said |-> 0]
      /\ card = [session |-> "none", took |-> 0, profile |-> FALSE]
      /\ server = [at |-> "none", order |-> "free"] /\ clock = 0
      /\ agent = [state |-> "reading", outcome |-> None, seen |-> 0, sent |-> {}, held |-> FALSE]
  BY DEF RunInit, Init
<1>2. budget \in BudgetState
  BY DEF RunInit, Init, BudgetState
<1>3. TypeOK
  <2>1. uim \in ClientState
    BY <1>1 DEF Client, ClientState
  <2>2. modem \in ModemState
    BY <1>1 DEF ModemState
  <2>3. helper \in HelperState
    BY <1>1 DEF HelperState, Forward
  <2>4. card \in CardState /\ server \in ServerState
    BY <1>1 DEF CardState, ServerState
  <2>5. agent \in AgentState
    BY <1>1 DEF AgentState
  <2>6. clock \in 0 .. 4
    BY <1>1
  <2>7. stop \in BOOLEAN
    BY <1>1
  <2> QED
    BY <1>2, <2>1, <2>2, <2>3, <2>4, <2>5, <2>6, <2>7 DEF TypeOK
<1>4. /\ uim.pending = None /\ ~uim.channel /\ ~uim.installing /\ modem.wire = <<>> /\ modem.back = <<>> /\ ~modem.open
      /\ helper.pc = "connect" /\ ~helper.session /\ helper.end = None /\ helper.ctl = <<>> /\ helper.seg = 1
      /\ card.session = "none" /\ card.took = 0 /\ ~card.profile /\ server.order = "free" /\ agent.state = "reading"
      /\ Len(modem.wire) = 0 /\ Len(modem.back) = 0 /\ Len(helper.ctl) = 0
  BY <1>1 DEF Client
<1>5. PlaceInv /\ FlightInv
  BY <1>4 DEF PlaceInv, FlightInv, InFlight, Forward, Known, Winding
<1>6. ConsentInv /\ OutcomeInv
  BY <1>4 DEF ConsentInv, OutcomeInv
<1>7. ChannelInv /\ SoundInv
  BY <1>4 DEF ChannelInv, SoundInv, Answered1, Known
<1>8. OrderInv /\ CancelInv
  BY <1>4 DEF OrderInv, CancelInv, Winding
<1> QED
  BY <1>3, <1>5, <1>6, <1>7, <1>8 DEF RunInv

\* Every step keeps the invariant.
LEMMA RunKept ==
  ASSUME RunInv, [Next]_vars
  PROVE  RunInv'
<1>1. CASE Next
  <2>1. StepKind
    BY <1>1, StepForms DEF StepKind, HelperKind
  <2>2. TypeOK /\ PlaceInv /\ FlightInv /\ ConsentInv /\ OutcomeInv /\ ChannelInv /\ SoundInv /\ OrderInv /\ CancelInv
    BY DEF RunInv
  <2>3. TypeOK' /\ PlaceInv' /\ FlightInv'
    BY <2>1, <2>2, TypeKept, PlaceKept, FlightKept
  <2>4. ConsentInv' /\ OutcomeInv'
    BY <2>1, <2>2, ConsentKept, OutcomeKept
  <2>5. ChannelInv' /\ SoundInv'
    BY <2>1, <2>2, ChannelKept, SoundKept
  <2>6. OrderInv' /\ CancelInv'
    BY <2>1, <2>2, OrderKept, CancelKept
  <2> QED
    BY <2>3, <2>4, <2>5, <2>6 DEF RunInv
<1>2. CASE UNCHANGED vars
  <2>1. UNCHANGED <<uim, modem, stop, helper, card, server, clock, budget, agent>>
    BY <1>2 DEF vars
  <2>2. TypeOK' /\ PlaceInv' /\ FlightInv'
    BY <2>1 DEF RunInv, TypeOK, PlaceInv, FlightInv, InFlight, Matches, Download
  <2>3. ConsentInv' /\ OutcomeInv'
    BY <2>1 DEF RunInv, ConsentInv, OutcomeInv, Download
  <2>4. ChannelInv' /\ SoundInv'
    BY <2>1 DEF RunInv, ChannelInv, SoundInv, Answered1
  <2>5. OrderInv' /\ CancelInv'
    BY <2>1 DEF RunInv, OrderInv, Declined, CancelInv, Clean, InFlight, Matches, Answered1
  <2> QED
    BY <2>2, <2>3, <2>4, <2>5 DEF RunInv
<1> QED
  BY <1>1, <1>2

\* The invariant of one run: what is in flight between the helper, the modem and the card, and
\* what the ending, the channel, the card's session and the order then can be.
THEOREM RunInvariant == Spec => []RunInv
<1>1. RunInit => RunInv
  BY RunBegins
<1>2. RunInv /\ [Next]_vars => RunInv'
  BY RunKept
<1> QED
  BY <1>1, <1>2, PTL DEF Spec

\* A channel that a run leaves open on the card is reported, unless the run gave no answer or the
\* modem never said which channel it opened: a helper that printed its answer without a leak has
\* closed the channel it was given, and nothing is on its way.
THEOREM LeaksAreReported == Spec => []LeakIsReported
<1>1. RunInv => LeakIsReported
  BY DEF RunInv, OutcomeInv, ChannelInv, LeakIsReported
<1> QED
  BY <1>1, RunInvariant, PTL

\* The order at the operator follows the user: rejected only by a decline, and a run the user
\* ended, undisturbed, reaches the card and the server with its own reason.
THEOREM OrdersFollowUser == Spec => []OrderFollowsUser
<1>1. ASSUME RunInv PROVE OrderFollowsUser
  <2>1. server.order = "endUserRejection" => "decline" \in agent.sent
    BY <1>1 DEF RunInv, OrderInv, Declined
  <2>2. ASSUME agent.state = "over", agent.outcome = "cancelled", card.session # "none", budget.faults = 0, ~stop, clock < 2
        PROVE  card.session = helper.end.reason /\ server.order = helper.end.reason
    <3>1. helper.pc = "exited" /\ helper.end.result = "cancelled"
      BY <1>1, <2>2 DEF RunInv, OutcomeInv
    <3> QED
      BY <1>1, <2>2, <3>1 DEF RunInv, CancelInv, Clean, Winding
  <2> QED
    BY <2>1, <2>2 DEF OrderFollowsUser
<1> QED
  BY <1>1, RunInvariant, PTL

\* From the first segment on the install breaks off only over a fault or at the deadline.
THEOREM InstallsRunToTheEnd == Spec => InstallRunsToTheEnd
<1>1. ASSUME RunInv, [Next]_vars, uim.installing, helper.pc = "load", helper'.pc # "load", helper'.end # None,
             helper'.end.result = "unknown"
      PROVE  budget'.faults > 0 \/ clock >= 2
  <2>0. /\ TypeOK /\ PlaceInv /\ FlightInv /\ SoundInv /\ InFlight /\ helper.end = None
        /\ budget.faults \in Nat
    BY <1>1 DEF RunInv, TypeOK, BudgetState, PlaceInv, FlightInv, Forward, Known
  <2>1. StepKind
    <3>1. Next
      BY <1>1 DEF vars
    <3> QED
      BY <1>1, <3>1, StepForms DEF StepKind, HelperKind
  <2>2. CASE Local
    BY <1>1, <2>0, <2>2 DEF Local, LocalGoes, LocalNext, LocalStops, LocalBreaks, LocalGivesIn, Informs
  <2>3. CASE Sends \/ Skips \/ Serves
    BY <1>1, <2>3 DEF Sends, Skips, Serves
  <2>4. CASE Receives
    <3>1. uim.pending # None /\ Reads /\ Takes(Head(modem.back).data) /\ UNCHANGED budget
      BY <2>4 DEF Receives
    <3>2. Head(modem.back) = modem.back[1] /\ Answered1
      BY <2>0, <3>1, OneAnswer DEF Answered1, Reads
    <3>3. Head(modem.back).data \in {"error", "bad"}
      BY <1>1, <3>1 DEF Takes, Goes, Refused, Done
    <3> QED
      BY <1>1, <2>0, <3>1, <3>2, <3>3 DEF SoundInv, Forward, Known
  <2>5. CASE GivesUp
    BY <1>1, <2>0, <2>5 DEF GivesUp
  <2>6. CASE Attends
    BY <1>1, <2>0, <2>6 DEF Attends
  <2> QED
    BY <2>1, <2>2, <2>3, <2>4, <2>5, <2>6 DEF StepKind, HelperKind
<1>2. RunInv /\ [Next]_vars =>
        [uim.installing /\ helper.pc = "load" /\ helper'.pc # "load" /\ helper'.end # None /\ helper'.end.result = "unknown"
           => budget'.faults > 0 \/ clock >= 2]_vars
  BY <1>1
<1> QED
  BY <1>2, RunInvariant, PTL DEF Spec, InstallRunsToTheEnd

\* What a step does to the promise's state.
LEMMA PromiseKept ==
  ASSUME RunInv, RunInv', StepKind
  PROVE  \/ Promise!Next
         \/ UNCHANGED <<"install" \in agent.sent, card.profile, Told>>
<1>0. /\ TypeOK /\ PlaceInv /\ ConsentInv /\ OutcomeInv /\ TypeOK' /\ PlaceInv' /\ ConsentInv' /\ OutcomeInv'
      /\ card.profile \in BOOLEAN /\ card'.profile \in BOOLEAN
  BY DEF RunInv, TypeOK, CardState
<1>1. CASE HelperKind /\ UNCHANGED agent
  <2>1. UNCHANGED card /\ helper.pc \notin Over /\ budget'.max = budget.max
    BY <1>0, <1>1, HelperMoves, HelperTyped
  <2>2. agent.state # "over" \/ agent.outcome \in {"killed", "garbled"}
    BY <1>0, <2>1 DEF OutcomeInv, Over
  <2>3. Told' = Told
    BY <1>1, <2>2 DEF Told
  <2> QED
    BY <1>1, <2>1, <2>3
<1>2. CASE Serves /\ UNCHANGED agent
  <2>1. UNCHANGED <<helper, uim>> /\ budget'.max = budget.max /\ (card.profile => card'.profile)
    BY <1>0, <1>2, CardKeeps DEF Serves, Spends
  <2>2. Told' = Told
    BY <1>2, <2>1 DEF Told, Download
  <2>3. CASE card'.profile = card.profile
    BY <1>2, <2>2, <2>3
  <2>4. CASE card'.profile # card.profile
    <3>1. ~card.profile /\ card'.profile /\ card'.profile = TRUE
      BY <1>0, <2>1, <2>4
    <3>2. uim.installing /\ "install" \in agent.sent /\ Download
      BY <1>0, <1>2, <2>1, <3>1 DEF ConsentInv
    <3>3. Told \in {None, "unknown"}
      <4>1. CASE agent.state # "over"
        BY <4>1 DEF Told
      <4>2. CASE agent.state = "over" /\ agent.outcome \in {"killed", "garbled"}
        BY <4>2 DEF Told
      <4>3. CASE agent.state = "over" /\ agent.outcome \notin {"killed", "garbled"}
        <5>1. helper.pc = "exited" /\ agent.outcome = helper.end.result /\ helper.end # None
          BY <1>0, <4>3 DEF OutcomeInv, PlaceInv, Winding
        <5>2. ~helper.end.receipt /\ helper.end.result \notin Nothing
          BY <1>0, <2>1, <3>1, <5>1 DEF OutcomeInv
        <5> QED
          BY <3>2, <4>3, <5>1, <5>2 DEF Told, Nothing
      <4> QED
        BY <4>1, <4>2, <4>3
    <3> QED
      BY <1>2, <2>2, <3>1, <3>2, <3>3 DEF Promise!Next, Promise!Install
  <2> QED
    BY <2>3, <2>4
<1>3. CASE Attends
  <2>1. /\ UNCHANGED card /\ helper'.end = helper.end /\ budget'.max = budget.max /\ agent.sent \subseteq agent'.sent
    BY <1>3 DEF Attends, Spends
  <2>2. CASE agent.state = "over"
    <3>1. agent'.state = "over" /\ agent'.outcome = agent.outcome /\ agent'.sent = agent.sent
      BY <1>3, <2>2 DEF Attends
    <3>2. Told' = Told
      BY <2>1, <2>2, <3>1 DEF Told, Download
    <3> QED
      BY <2>1, <3>1, <3>2
  <2>3. CASE agent.state # "over" /\ agent'.state # "over"
    <3>1. Told = None /\ Told' = None
      BY <2>3 DEF Told
    <3>2. ("install" \in agent'.sent) = TRUE \/ ("install" \in agent'.sent) = ("install" \in agent.sent)
      BY <2>1
    <3> QED
      BY <2>1, <3>1, <3>2 DEF Promise!Next, Promise!Consent
  <2>4. CASE agent.state # "over" /\ agent'.state = "over"
    <3>1. Told = None /\ agent'.sent = agent.sent
      BY <1>3, <2>4 DEF Told, Attends
    <3>2. Told' \in {"unknown", IF card.profile THEN "installed" ELSE "nothing"}
      <4>1. CASE agent'.outcome \in {"killed", "garbled"}
        BY <2>4, <4>1 DEF Told
      <4>2. CASE agent'.outcome \notin {"killed", "garbled"}
        <5>1. helper'.pc = "exited" /\ agent'.outcome = helper'.end.result /\ helper'.end # None
          BY <1>0, <2>4, <4>2 DEF OutcomeInv, PlaceInv, Winding
        <5>2. /\ helper'.end.receipt => card.profile
              /\ helper'.end.result \in Nothing => ~card.profile
          BY <1>0, <2>1, <5>1 DEF OutcomeInv
        <5>3. card.profile => Download'
          BY <1>0, <2>1 DEF ConsentInv, Download
        <5> QED
          BY <2>4, <5>1, <5>2, <5>3 DEF Told, Nothing
      <4> QED
        BY <4>1, <4>2
    <3> QED
      BY <2>1, <3>1, <3>2 DEF Promise!Next, Promise!Tell
  <2> QED
    BY <2>2, <2>3, <2>4
<1> QED
  BY <1>1, <1>2, <1>3 DEF StepKind

\* download(), load_bound_profile_package() and LineSession implement InstallPromise, for any
\* number of segments, faults, stop signals and control lines.
THEOREM ImplementsPromise == Spec => KeepsPromise
<1>1. RunInit => Promise!Init
  BY DEF RunInit, Init, Promise!Init, Told
<1>2. RunInv /\ RunInv' /\ [Next]_vars => [Promise!Next]_(<<"install" \in agent.sent, card.profile, Told>>)
  <2> SUFFICES ASSUME RunInv, RunInv', [Next]_vars
               PROVE  Promise!Next \/ UNCHANGED <<"install" \in agent.sent, card.profile, Told>>
    OBVIOUS
  <2>1. CASE Next
    <3>1. StepKind
      BY <2>1, StepForms DEF StepKind, HelperKind
    <3> QED
      BY <3>1, PromiseKept
  <2>2. CASE UNCHANGED vars
    BY <2>2 DEF vars, Told, Download
  <2> QED
    BY <2>1, <2>2
<1> QED
  BY <1>1, <1>2, RunInvariant, PTL DEF Spec, KeepsPromise, Promise!Spec

\* What a user may rely on: consent before the install, and true words.
Honest ==
  /\ card.profile => "install" \in agent.sent
  /\ Told = "installed" => card.profile
  /\ Told = "nothing" => ~card.profile

\* esim.rs:1746-1775: a user who is told that a profile was installed has it, one who is told
\* that nothing was installed does not get it later, and neither without consent.
THEOREM RunIsHonest == Spec => []Honest
<1>1. ASSUME RunInv PROVE Honest
  <2>0. ConsentInv /\ OutcomeInv /\ PlaceInv
    BY <1>1 DEF RunInv
  <2>1. card.profile => "install" \in agent.sent /\ Download
    BY <2>0 DEF ConsentInv
  <2>2. ASSUME Told \in {"installed", "nothing"}
        PROVE  (Told = "installed" => card.profile) /\ (Told = "nothing" => ~card.profile)
    <3>1. agent.state = "over" /\ agent.outcome \notin {"killed", "garbled"}
      BY <2>2, SessionConstants DEF Told
    <3>2. helper.pc = "exited" /\ agent.outcome = helper.end.result /\ helper.end # None
      BY <2>0, <3>1 DEF OutcomeInv, PlaceInv, Winding
    <3>3. /\ helper.end.receipt => card.profile
          /\ helper.end.result \in Nothing => ~card.profile
      BY <2>0, <3>2 DEF OutcomeInv
    <3> QED
      BY <2>1, <3>1, <3>2, <3>3 DEF Told, Nothing
  <2> QED
    BY <2>1, <2>2 DEF Honest
<1> QED
  BY <1>1, RunInvariant, PTL
==============================================================================
