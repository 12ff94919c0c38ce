---------------------------- MODULE MCClientRun ----------------------------
(* Two clients with a place each; main is run twice.                       *)
EXTENDS ClientRun

MCSiteOf == <<"s1", "s2">>
MCStatTypes == <<"memory">>
MCAlerts == [c \in 1..2 |-> <<[type |-> "memory", limit |-> 1]>>]
MCReadings == {[t \in {"memory"} |-> 1]}
============================================================================
