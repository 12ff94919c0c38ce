------------------------------ MODULE MCRerun ------------------------------
(* One client, two statistics with an alert each, one of them twice;       *)
(* main is run twice.                                                      *)
EXTENDS Collector

MCSiteOf == <<"s1">>
MCStatTypes == <<"memory", "cpu">>
MCAlerts == << <<[type |-> "memory", limit |-> 2],
                 [type |-> "cpu", limit |-> 1],
                 [type |-> "memory", limit |-> 1]>> >>
MCReadings == {[t \in {"memory", "cpu"} |-> 1], [t \in {"memory", "cpu"} |-> 2]}
MCLetters == [stat : {"memory", "cpu"}, epoch : 1..2]
============================================================================
