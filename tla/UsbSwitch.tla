------------------------------ MODULE UsbSwitch ------------------------------
(***************************************************************************)
(* agent/src/usb.rs: changing the USB composition.  The agent rebuilds the *)
(* configfs gadget in steps that can each fail: the gadget is captured,    *)
(* unbound, emptied, rebuilt and bound again, its network interface joins  *)
(* the bridge; after a failure the captured gadget is put back as far as   *)
(* possible.  Other modes are left to the firmware, which may also change  *)
(* the composition on its own.                                             *)
(***************************************************************************)
EXTENDS Agent, Integers, FiniteSets

CONSTANTS
  Slots,       \* names of the links of a configuration
  Adb,         \* composition links beyond network and storage that the firmware keeps
  UsbBounds    \* bounds a behaviour may have: requests, faults, stock, crashes

Modes == {"ecm", "rndis", "ncm"}
Nets == {"ecm0", "rndis0", "ncm0"}
Compositions == [Slots -> Modes \cup {"storage", Adb, None}]

\* The steps of a change, in their order: before the gadget is touched, the new composition,
\* and the restoration.
Steps == {"firmware", "wait", "recheck", "capture",
          "leave", "unbind", "unlink", "attrs", "link", "bind", "join", "leave_again",
          "r_unbind", "r_unlink", "r_attrs", "r_link", "r_bind", "r_bridge", "end"}

\* A GadgetSnapshot, and the thread that holds the guard: what it has captured, and whether
\* something went wrong in the restoration.
Snapshots == [bound : BOOLEAN, links : Compositions, attrs : Modes \cup {"mixed"}, bridge : SUBSET Nets]
Jobs == [at : Steps, mode : Modes, snapshot : Snapshots \cup {None}, errors : BOOLEAN]

ASSUME UsbConstants ==
  /\ {"f1", "f2", "f3"} \subseteq Slots
  /\ \A b \in UsbBounds : {b.requests, b.faults, b.stock, b.crashes} \subseteq Nat
  /\ None \notin Modes \cup {"failed", "restored", "broken", "unwritten"} \cup Jobs

VARIABLES
  g,          \* the gadget: bound, links, attrs; the interfaces present and in br-lan
  busy,       \* USB_BUSY
  asks,       \* requests that passed their checks and have not taken the guard
  job,        \* the thread that holds the guard, or None
  default,    \* usb_default_mode in the configuration file
  lastError,  \* the error file: None, "failed", "restored" (rollback complete), "broken" (it was not);
              \* "unwritten" after an error that could not be written
  power,      \* mode_main_state
  alive,      \* the agent runs
  touched,    \* ghost: the firmware changed the gadget since job captured it
  cut,        \* ghost: the agent died during a change
  usbBudget

usbVars == <<g, busy, asks, job, default, lastError, power, alive, touched, cut, usbBudget>>

(***************************************************************************)
(* Gadget and kernel.                                                      *)
(***************************************************************************)
InterfaceOf(mode) == CASE mode = "ecm" -> "ecm0" [] mode = "rndis" -> "rndis0" [] mode = "ncm" -> "ncm0"

NoLinks == [s \in Slots |-> None]

\* The composition the agent builds: the network function and mass storage.
Composition(mode) == [NoLinks EXCEPT !["f1"] = mode, !["f2"] = "storage"]

\* A composition of the firmware, in use.
StockGadget(mode) ==
  [bound |-> TRUE, links |-> [Composition(mode) EXCEPT !["f3"] = Adb], attrs |-> mode,
   nets |-> {InterfaceOf(mode)}, bridge |-> {InterfaceOf(mode)}]

Functions(links) == {links[s] : s \in Slots} \ {None}
Interfaces(links) == {InterfaceOf(m) : m \in Functions(links) \cap Modes}

\* detect_active_usb_mode(), for compositions with links.
Active(mode) == mode \in Functions(g.links)

\* An unbound gadget has no interfaces, and they leave the bridge.
Unbound(gadget) == [gadget EXCEPT !.bound = FALSE, !.nets = {}, !.bridge = {}]

\* The host sees a network that leads somewhere.
Usable == g.bound /\ g.bridge \cap Interfaces(g.links) \cap g.nets # {}

UsbInit ==
  /\ \E m \in {"ecm", "rndis"} : g = StockGadget(m)
  /\ busy = FALSE /\ asks = {} /\ job = None /\ default \in {None, "ncm"} /\ lastError = None
  /\ power = "unset" /\ alive = FALSE /\ touched = FALSE /\ cut = FALSE
  /\ \E b \in UsbBounds : usbBudget = b

UsbSpend(what) == usbBudget[what] > 0 /\ usbBudget' = [usbBudget EXCEPT ![what] = @ - 1]
Fault == UsbSpend("faults")
NoFault == UNCHANGED usbBudget

\* SwitchGuard: taken with the job, given back when the job ends.
Start(j) == ~busy /\ busy' = TRUE /\ job' = j /\ touched' = FALSE
Release == busy' = FALSE /\ job' = None /\ UNCHANGED touched
Advance(at) == job' = [job EXCEPT !.at = at] /\ UNCHANGED <<busy, touched>>

At(step) == job # None /\ job.at = step

\* fs::write() and fs::remove_file() of the error file, whose results are ignored.
WriteError(error) == lastError' \in {error, "unwritten"}
RemoveError == lastError' \in {None, lastError}

(***************************************************************************)
(* Handlers.                                                               *)
(***************************************************************************)
\* usb_mode_set() up to the guard: NCM, and ECM from NCM, are switched by the agent.  The
\* preflight checks look at files that do not come and go; requests they reject change nothing.
ModeSet(mode) ==
  /\ alive /\ UsbSpend("requests")
  /\ asks' = asks \cup {[mode |-> mode,
                         own |-> mode = "ncm" \/ (mode = "ecm" /\ Active("ncm"))]}
  /\ UNCHANGED <<g, busy, job, default, lastError, power, alive, touched>>

\* The guard: refused with 409 while another change is in progress.
TakeGuard(a) ==
  /\ asks' = asks \ {a}
  /\ \/ Start([at |-> IF a.own THEN "capture" ELSE "firmware", mode |-> a.mode,
               snapshot |-> None, errors |-> FALSE])
     \/ busy /\ UNCHANGED <<busy, job, touched>>
  /\ UNCHANGED <<g, default, lastError, power, alive, usbBudget>>

\* The firmware is asked for one of its modes while the guard is held.
FirmwareMode ==
  /\ At("firmware") /\ Release
  /\ \/ NoFault /\ g' = StockGadget(job.mode)
     \/ Fault /\ UNCHANGED g
  /\ UNCHANGED <<asks, default, lastError, power, alive>>

\* usb_default_set(): the whole handler runs under the guard.
DefaultSet(mode) ==
  /\ alive /\ ~busy /\ UsbSpend("requests")
  /\ default' \in {mode, default}
  /\ UNCHANGED <<g, busy, asks, job, lastError, power, alive, touched>>

(***************************************************************************)
(* enforce_usb_mode_on_boot().                                             *)
(***************************************************************************)
Charging == power = "charging"

AgentStarts ==
  /\ ~alive /\ alive' = TRUE
  /\ IF default = "ncm" /\ ~Charging
     THEN Start([at |-> "wait", mode |-> "ncm", snapshot |-> None, errors |-> FALSE])
     ELSE UNCHANGED <<busy, job, touched>>
  /\ UNCHANGED <<g, asks, default, lastError, power, usbBudget>>

\* wait_for_usb_boot_ready(): the firmware's own interface is in the bridge.
BootReady == Functions(g.links) # {} /\ g.bridge \cap {"ecm0", "rndis0"} # {}

BootWait ==
  /\ At("wait")
  /\ IF BootReady THEN Advance("recheck") /\ UNCHANGED lastError ELSE Release /\ WriteError("failed")
  /\ UNCHANGED <<g, asks, default, power, alive, usbBudget>>

\* The state is read once to know that it is available and once more to compare it; the
\* second read may fail alone, and then counts as not charging.
BootRecheck ==
  /\ At("recheck")
  /\ \/ power = "unset" /\ NoFault /\ WriteError("failed") /\ Release
     \/ Fault /\ WriteError("failed") /\ Release
     \/ Charging /\ NoFault /\ UNCHANGED lastError /\ Release
     \/ /\ power # "unset" /\ (IF Charging THEN Fault ELSE NoFault)
        /\ IF Active("ncm") THEN RemoveError /\ Release
                            ELSE Advance("capture") /\ UNCHANGED lastError
  /\ UNCHANGED <<g, asks, default, power, alive>>

(***************************************************************************)
(* transactional_switch(): the snapshot and the new composition.           *)
(***************************************************************************)
Rest == UNCHANGED <<asks, default, lastError, power, alive>>

\* One step of the switch: it succeeds with `good', or fails with `bad' and the rollback begins.
Step(here, good, bad, next) ==
  /\ At(here) /\ Rest
  /\ \/ good /\ NoFault /\ Advance(next)
     \/ bad /\ Fault /\ Advance("r_unbind")

\* What GadgetSnapshot keeps of the gadget.
Captured(gadget) == [bound |-> gadget.bound, links |-> gadget.links, attrs |-> gadget.attrs, bridge |-> gadget.bridge]

Capture_KeepsGuard ==
  /\ At("capture")
  /\ \/ /\ Functions(g.links) # {} /\ NoFault /\ touched' = FALSE
        /\ job' = [job EXCEPT !.snapshot = Captured(g), !.at = IF job.mode = "ecm" THEN "leave" ELSE "unbind"]
        /\ UNCHANGED <<busy, lastError>>
     \/ Fault /\ WriteError("failed") /\ job' = None /\ UNCHANGED <<busy, touched>>
  /\ UNCHANGED <<g, asks, default, power, alive>>

\* GadgetSnapshot::capture(): nothing was changed yet when it fails.
Capture ==
  /\ At("capture")
  /\ \/ /\ Functions(g.links) # {} /\ NoFault /\ touched' = FALSE
        /\ job' = [job EXCEPT !.snapshot = Captured(g), !.at = IF job.mode = "ecm" THEN "leave" ELSE "unbind"]
        /\ UNCHANGED <<busy, lastError>>
     \/ (IF Functions(g.links) = {} THEN NoFault ELSE Fault) /\ WriteError("failed") /\ Release
  /\ UNCHANGED <<g, asks, default, power, alive>>

\* remove_bridge_member() for the NCM interfaces, before an ECM composition and after it.
Leave ==
  \/ Step("leave", g' = [g EXCEPT !.bridge = @ \ {"ncm0"}], UNCHANGED g, "unbind")
  \/ /\ At("leave_again") /\ UNCHANGED <<asks, default, power, alive>>
     /\ \/ g' = [g EXCEPT !.bridge = @ \ {"ncm0"}] /\ NoFault /\ RemoveError /\ Release
        \/ UNCHANGED <<g, lastError>> /\ Fault /\ Advance("r_unbind")

Unbind == Step("unbind", g' = Unbound(g), UNCHANGED g, "unlink")

\* remove_config_links() stops at the first link it cannot remove.  A bound gadget loses its binding.
Unlinked(kept) == [Unbound(g) EXCEPT !.links = [s \in Slots |-> IF s \in kept THEN @[s] ELSE None]]
Unlink ==
  Step("unlink", g' = Unlinked({}), \E kept \in SUBSET Slots : g' = Unlinked(kept), "attrs")

Attrs ==
  Step("attrs", g' = [g EXCEPT !.attrs = job.mode], g' = [g EXCEPT !.attrs = "mixed"], "link")

\* symlink() fails where the firmware made a link of its own meanwhile.
Link ==
  LET free == g.links["f1"] = None /\ g.links["f2"] = None
  IN \/ Step("link", free /\ g' = [g EXCEPT !.links = [@ EXCEPT !["f1"] = job.mode, !["f2"] = "storage"]],
             \/ UNCHANGED g
             \/ g.links["f1"] = None /\ g' = [g EXCEPT !.links = [@ EXCEPT !["f1"] = job.mode]],
             "bind")
     \/ /\ At("link") /\ ~free /\ NoFault /\ Advance("r_unbind") /\ UNCHANGED g /\ Rest

\* Binding brings the interfaces up, at once or late.
Bound(gadget, nets) == [gadget EXCEPT !.bound = TRUE, !.nets = nets]
Bind ==
  \/ Step("bind", ~g.bound /\ g' = Bound(g, Interfaces(g.links)),
          UNCHANGED g \/ (~g.bound /\ g' = Bound(g, {})), "join")
  \/ At("bind") /\ g.bound /\ NoFault /\ UNCHANGED g /\ Advance("r_unbind") /\ Rest

InterfaceAppears ==
  /\ g.bound /\ ~(Interfaces(g.links) \subseteq g.nets)
  /\ g' = [g EXCEPT !.nets = Interfaces(g.links)]
  /\ UNCHANGED <<busy, asks, job, default, lastError, power, alive, touched, usbBudget>>

Join_NoBridge ==
  /\ At("join") /\ UNCHANGED <<g, asks, default, power, alive>>
  /\ NoFault
  /\ IF job.mode = "ncm" THEN RemoveError /\ Release ELSE Advance("leave_again") /\ UNCHANGED lastError

\* The interface is waited for, brought up and bridged; after NCM that is the end of the switch.
Join ==
  LET i == InterfaceOf(job.mode)
  IN /\ At("join") /\ UNCHANGED <<asks, default, power, alive>>
     /\ \/ /\ i \in g.nets /\ NoFault
           /\ g' = [g EXCEPT !.bridge = @ \cup {i}]
           /\ IF job.mode = "ncm" THEN RemoveError /\ Release ELSE Advance("leave_again") /\ UNCHANGED lastError
        \/ (IF i \in g.nets THEN Fault ELSE NoFault) /\ UNCHANGED <<g, lastError>> /\ Advance("r_unbind")

(***************************************************************************)
(* restore(): every step is tried, whatever became of the one before.      *)
(***************************************************************************)
\* One step of the restoration: what went well, or what went wrong and is recorded.
Try(here, good, bad, next) ==
  /\ At(here) /\ Rest /\ UNCHANGED <<busy, touched>>
  /\ \/ good /\ NoFault /\ job' = [job EXCEPT !.at = next]
     \/ bad /\ Fault /\ job' = [job EXCEPT !.at = next, !.errors = TRUE]

\* A gadget that is not bound may refuse to be unbound.
RestoreUnbind ==
  \/ Try("r_unbind", g' = Unbound(g), UNCHANGED g, "r_unlink")
  \/ /\ At("r_unbind") /\ ~g.bound /\ NoFault /\ UNCHANGED <<g, busy, touched>> /\ Rest
     /\ job' = [job EXCEPT !.at = "r_unlink", !.errors = TRUE]

RestoreUnlink ==
  Try("r_unlink", g' = Unlinked({}), \E kept \in SUBSET Slots : g' = Unlinked(kept), "r_attrs")

RestoreAttrs ==
  Try("r_attrs", g' = [g EXCEPT !.attrs = job.snapshot.attrs], g' = [g EXCEPT !.attrs = "mixed"], "r_link")

Relinked(made) == [g EXCEPT !.links = [s \in Slots |-> IF s \in made THEN job.snapshot.links[s] ELSE @[s]]]

RestoreLinks_FirstOnly ==
  LET free == {s \in {"f1", "f2"} : job.snapshot.links[s] # None /\ g.links[s] = None}
  IN /\ At("r_link") /\ Rest /\ UNCHANGED <<busy, touched>>
     /\ NoFault /\ g' = Relinked(free) /\ job' = [job EXCEPT !.at = "r_bind"]

\* Each captured link is made again; one that is still there is in the way.
RestoreLinks ==
  LET wanted == {s \in Slots : job.snapshot.links[s] # None}
      free   == {s \in wanted : g.links[s] = None}
  IN /\ At("r_link") /\ Rest /\ UNCHANGED <<busy, touched>>
     /\ \/ NoFault /\ g' = Relinked(free)
           /\ job' = [job EXCEPT !.at = "r_bind", !.errors = @ \/ free # wanted]
        \/ Fault /\ (\E made \in SUBSET free : g' = Relinked(made))
           /\ job' = [job EXCEPT !.at = "r_bind", !.errors = TRUE]

\* The controller captured; a gadget without functions, or one still bound, is refused.
RestoreBind ==
  LET can == ~g.bound /\ Functions(g.links) # {}
  IN \/ Try("r_bind", (IF job.snapshot.bound THEN can /\ g' = Bound(g, Interfaces(g.links)) ELSE g' = Unbound(g)),
            UNCHANGED g \/ (job.snapshot.bound /\ can /\ g' = Bound(g, {})), "r_bridge")
     \/ /\ At("r_bind") /\ job.snapshot.bound /\ ~can /\ NoFault /\ UNCHANGED <<g, busy, touched>> /\ Rest
        /\ job' = [job EXCEPT !.at = "r_bridge", !.errors = TRUE]

\* Other USB members leave the bridge, the captured ones are waited for and join it.
RestoreBridge ==
  LET missing == job.snapshot.bridge \ g.nets
  IN /\ At("r_bridge") /\ Rest /\ UNCHANGED <<busy, touched>>
     /\ \/ NoFault /\ g' = [g EXCEPT !.bridge = job.snapshot.bridge \ missing]
           /\ job' = [job EXCEPT !.at = "end", !.errors = @ \/ missing # {}]
        \/ Fault /\ (\E bridge \in SUBSET ((job.snapshot.bridge \ missing) \cup g.bridge) : g' = [g EXCEPT !.bridge = bridge])
           /\ job' = [job EXCEPT !.at = "end", !.errors = TRUE]

\* with_rollback(): the error says whether the restoration was complete.
Report ==
  /\ At("end") /\ Release
  /\ WriteError(IF job.errors THEN "broken" ELSE "restored")
  /\ UNCHANGED <<g, asks, default, power, alive, usbBudget>>

(***************************************************************************)
(* The rest of the device.                                                 *)
(***************************************************************************)
StockChanges ==
  /\ UsbSpend("stock") /\ touched' = TRUE
  /\ \E m \in {"ecm", "rndis"} : g' = StockGadget(m)
  /\ UNCHANGED <<busy, asks, job, default, lastError, power, alive>>

\* mode_main_state settles during boot; a charging device can be switched on.
PowerChanges ==
  /\ \/ power = "unset" /\ power' \in {"on", "charging"}
     \/ power = "charging" /\ power' = "on"
  /\ UNCHANGED <<g, busy, asks, job, default, lastError, alive, touched, usbBudget>>

AgentDies ==
  /\ alive /\ UsbSpend("crashes") /\ alive' = FALSE /\ cut' = (cut \/ busy)
  /\ busy' = FALSE /\ asks' = {} /\ job' = None /\ touched' = FALSE
  /\ UNCHANGED <<g, default, lastError, power>>

Reboots ==
  /\ UsbSpend("crashes") /\ alive' = FALSE /\ cut' = FALSE
  /\ busy' = FALSE /\ asks' = {} /\ job' = None /\ touched' = FALSE
  /\ g' = StockGadget("ecm") /\ lastError' = None /\ power' = "unset"
  /\ UNCHANGED default

JobStep ==
  \/ FirmwareMode \/ BootWait \/ BootRecheck
  \/ Capture \/ Leave \/ Unbind \/ Unlink \/ Attrs \/ Link \/ Bind \/ Join
  \/ RestoreUnbind \/ RestoreUnlink \/ RestoreAttrs \/ RestoreLinks \/ RestoreBind \/ RestoreBridge \/ Report

UsbNext ==
  \/ /\ \/ \E m \in Modes : ModeSet(m)
        \/ \E m \in {"ecm", "ncm"} : DefaultSet(m)
        \/ \E a \in asks : TakeGuard(a)
        \/ AgentStarts \/ JobStep
        \/ InterfaceAppears \/ StockChanges \/ PowerChanges
     /\ UNCHANGED cut
  \/ AgentDies \/ Reboots

\* The thread of a change runs to its end: every wait in it has a deadline.
UsbSpec == UsbInit /\ [][UsbNext]_usbVars /\ WF_usbVars(JobStep /\ UNCHANGED cut)

(***************************************************************************)
(* Properties.                                                             *)
(***************************************************************************)
\* What the gadget may be: the bridge's members are interfaces that are present, and those
\* belong to a linked function of a bound gadget.
Gadgets ==
  {gadget \in [bound : BOOLEAN, links : Compositions, attrs : Modes \cup {"mixed"}, nets : SUBSET Nets, bridge : SUBSET Nets] :
     /\ gadget.bridge \subseteq gadget.nets /\ gadget.nets \subseteq Interfaces(gadget.links)
     /\ gadget.nets # {} => gadget.bound}

\* The values the variables range over.
UsbTypeOK ==
  /\ g \in Gadgets /\ job \in Jobs \cup {None} /\ busy = (job # None)
  /\ asks \subseteq [mode : Modes, own : BOOLEAN]
  /\ default \in {None, "ecm", "ncm"} /\ lastError \in {None, "failed", "restored", "broken", "unwritten"}
  /\ touched \in BOOLEAN /\ cut \in BOOLEAN

\* Whenever with_rollback() answers "previous USB composition restored", the gadget has the
\* binding, links, attributes and bridge members captured before the switch, unless the
\* firmware changed it meanwhile.
RestoredIsRestored ==
  [][Report /\ lastError' = "restored" /\ ~touched => Captured(g') = job.snapshot]_usbVars

\* A change that leaves the host without a network says so: unless a crash cut the change off,
\* an idle agent with a gadget that is unbound or not bridged has an error on record, or had
\* one and could not write it.
BrokenIsReported ==
  ~busy /\ ~Usable /\ ~cut => lastError # None

\* Every change ends and gives the guard back, whatever fails on the way.
ChangeEnds == busy ~> ~busy
==============================================================================
