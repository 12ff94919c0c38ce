---------------------------- MODULE MCCollector ----------------------------
(* Two clients that share machine and paths, as two of the config.xml that *)
(* comes with the program do, one statistic that is always due, both       *)
(* modes; the mail address of the second client is refused.                *)
EXTENDS Collector

MCSiteOf == <<"s1", "s1">>
MCStatTypes == <<"memory">>
MCAlerts == [c \in 1..2 |-> <<[type |-> "memory", limit |-> 1]>>]
MCReadings == {[t \in {"memory"} |-> 1]}
MCLetters == [stat : {"memory"}, epoch : 1..1]
============================================================================
