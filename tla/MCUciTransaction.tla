--------------------------- MODULE MCUciTransaction ---------------------------
(* UciTransaction for TLC: two options of `wireless' and one of `zte_mbb'. *)
EXTENDS UciTransaction

CommitOrder == <<"wireless", "zte_mbb">>
PackageOfOption == [o \in Options |-> IF o = "wifi_onoff" THEN "zte_mbb" ELSE "wireless"]
===============================================================================
