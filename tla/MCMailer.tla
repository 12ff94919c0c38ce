------------------------------ MODULE MCMailer ------------------------------
(* Two threads share the mail connection; the address of one is refused. *)
EXTENDS Mailer

MCNumClients == 2
MCSites == {"s1", "s2"}
MCSiteOf == <<"s1", "s2">>
MCStatTypes == <<"memory">>
MCAlerts == [c \in 1..2 |-> <<[type |-> "memory", limit |-> 1]>>]
MCReadings == {[t \in {"memory"} |-> 1]}
MCBadMailboxes == {2}
MCLetters == {"memory"}
============================================================================
