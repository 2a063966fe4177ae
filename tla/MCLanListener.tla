---------------------------- MODULE MCLanListener ----------------------------
(* LanListener for TLC: two addresses, two other settings, and one           *)
(* combination validate_lan_settings refuses.                                *)
EXTENDS LanListener

MCIps  == {1, 2}
MCOpts == {"a", "b"}
MCValid == [ip : MCIps, opt : MCOpts] \ {[ip |-> 2, opt |-> "b"]}

\* Two changes across a crash; a change that meets the stock UI, a crash and every
\* fault; a change under ZTE_AGENT_BIND; two changes with a stock UI write.
MCEnvironments ==
  { [fixed |-> FALSE, faults |-> {"ubus", "file"}, changes |-> 2, crashes |-> 1, stock |-> 0],
    [fixed |-> FALSE, faults |-> {"ubus", "uci", "file", "sync"},
     changes |-> 1, crashes |-> 1, stock |-> 1],
    [fixed |-> TRUE, faults |-> {"ubus", "file"}, changes |-> 1, crashes |-> 1, stock |-> 1],
    [fixed |-> FALSE, faults |-> {}, changes |-> 2, crashes |-> 0, stock |-> 1] }
==============================================================================
