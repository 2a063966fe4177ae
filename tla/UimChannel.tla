------------------------------ MODULE UimChannel ------------------------------
(***************************************************************************)
(* esim-helper/src/qrtr_uim.rs, the Guard of esim-helper/src/main.rs and   *)
(* the session type of euicc/src/lib.rs: APDUs to the card over a logical  *)
(* channel the modem allots.  Requests and answers are datagrams that may  *)
(* be lost or late; an answer is matched by transaction and message.  A    *)
(* stop signal ends a wait early, except while a channel is opened or      *)
(* closed and once a profile package is being loaded.                      *)
(*                                                                         *)
(* One exchange stands for one ES10 command: its STORE DATA blocks and GET *)
(* RESPONSE rounds are not told apart.  The card's side is the operator    *)
(* Execute's argument, supplied by the module that knows the commands.     *)
(***************************************************************************)
EXTENDS Naturals, Sequences

CONSTANTS None

VARIABLES
  uim,     \* UimClient, and the flags of main.rs: the channel held, whether its state is
           \* unknown, the last transaction, the request awaiting its answer (or None),
           \* CHANNEL_LEAK and INSTALLING
  modem,   \* requests and answers on their way, whether it holds a channel open for us, and
           \* (ghost) whether it has not said which
  stop     \* CANCELLED

Client == [channel |-> FALSE, unknown |-> FALSE, txn |-> 0, pending |-> None, leak |-> FALSE, installing |-> FALSE]

\* Mutant: the install is not excepted.
Interruptible_Install == stop
Interruptible == stop /\ ~uim.installing

\* What the Guard lets pass: nothing once stopped, unless the install has started.
GuardAllows == ~stop \/ uim.installing

\* Mutant: any response is taken for the answer.
Matches_Any(a) == TRUE
\* An answer to the pending request, not one to a request given up on.
Matches(a) == a.txn = uim.pending.txn /\ a.kind = uim.pending.kind

\* A command without a reason.
Plain(name) == [name |-> name, reason |-> None]

\* request_until() up to the wait: c is the client that sends.
Request(c, kind, cmd) ==
  LET m == [txn |-> c.txn + 1, kind |-> kind, cmd |-> cmd] IN
  /\ uim' = [c EXCEPT !.txn = m.txn, !.pending = m]
  /\ modem' = [modem EXCEPT !.wire = Append(@, m)]

\* UimClient::open_channel() and close_channel(): both requests are waited for whatever the
\* stop flag says, and the channel is given up before its close is sent.
SendOpen  == ~uim.channel /\ ~uim.unknown /\ Request(uim, "open", Plain("open"))
SendClose == uim.channel /\ Request([uim EXCEPT !.channel = FALSE], "close", Plain("close"))

\* UimClient::transmit() below the Guard; loading marks the install as begun.
SendApdu(cmd, loading) ==
  uim.channel /\ Request([uim EXCEPT !.installing = @ \/ loading], "apdu", cmd)

\* The client after an answer, or after giving up on it.  An open that succeeded without a
\* channel's number ("no_id") is an error like a refused one: the client has no channel then,
\* and nothing is noted.
AfterAnswer(kind, data) ==
  CASE kind = "open"  -> [uim EXCEPT !.pending = None, !.channel = data = "ok"]
    [] kind = "close" -> [uim EXCEPT !.pending = None, !.unknown = data = "error", !.leak = @ \/ data = "error"]
    [] OTHER          -> [uim EXCEPT !.pending = None]
AfterLoss(kind) ==
  IF kind = "apdu" THEN [uim EXCEPT !.pending = None]
  ELSE [uim EXCEPT !.pending = None, !.unknown = TRUE, !.leak = TRUE]

\* An indication or an answer to a request given up on: request_until() reads on.
SkipStale ==
  /\ uim.pending # None /\ modem.back # <<>> /\ ~Matches(Head(modem.back))
  /\ modem' = [modem EXCEPT !.back = Tail(@)]
  /\ UNCHANGED <<uim, stop>>

\* The answer the client is waiting for is the next one to read.
HasAnswer == uim.pending # None /\ modem.back # <<>> /\ Matches(Head(modem.back))

\* Nothing the modem holds or has sent can still answer the pending request.
AnswerLost ==
  \A q \in {modem.wire, modem.back} : \A i \in DOMAIN q : q[i].txn # uim.pending.txn

(***************************************************************************)
(* The modem: a logical channel per open, none left after a close; an APDU *)
(* needs the channel.  `answer' is what an accepted request is answered    *)
(* with: what the card returns for a command, or the channel's number.     *)
(***************************************************************************)
Serve(ok, answer, delivered) ==
  LET m == Head(modem.wire)
      data == IF ok THEN answer ELSE "error"
  IN modem' = [wire |-> Tail(modem.wire),
               back |-> IF delivered THEN Append(modem.back, [txn |-> m.txn, kind |-> m.kind, data |-> data])
                        ELSE modem.back,
               open |-> IF ~ok THEN modem.open ELSE CASE m.kind = "open" -> TRUE [] m.kind = "close" -> FALSE [] OTHER -> modem.open,
               nameless |-> modem.nameless \/ data = "no_id"]
===============================================================================
