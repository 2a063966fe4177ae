---------------------------- MODULE InstallPromise ----------------------------
(***************************************************************************)
(* What a download promises the user, whatever the helper, the modem and   *)
(* the network do: a profile is installed only with the user's consent,    *)
(* "installed" and "nothing was installed" are true when they are said,    *)
(* and nothing is installed after "nothing was installed".                 *)
(***************************************************************************)
CONSTANTS None

VARIABLES
  consent,     \* the user has accepted the preview
  installed,   \* the profile is on the card
  told         \* what the run said: "installed", "nothing", "unknown", or None so far

Init == consent = FALSE /\ installed = FALSE /\ told = None

Consent == told = None /\ consent' = TRUE /\ UNCHANGED <<installed, told>>

Install ==
  /\ consent /\ ~installed /\ told \in {None, "unknown"}
  /\ installed' = TRUE /\ UNCHANGED <<consent, told>>

Tell ==
  /\ told = None
  /\ told' \in {"unknown", IF installed THEN "installed" ELSE "nothing"}
  /\ UNCHANGED <<consent, installed>>

Next == Consent \/ Install \/ Tell

Spec == Init /\ [][Next]_<<consent, installed, told>>
===============================================================================
