------------------------------- MODULE Fleet -------------------------------
(***************************************************************************)
(* The configuration the collector (ssh-client/src/server/server.py) runs  *)
(* with: the client machines in the order of config.xml, the place on the  *)
(* remote machine each of them uses, its alerts, and what the measuring    *)
(* script can report.  It declares constants only; every module of the     *)
(* collector extends it.                                                   *)
(***************************************************************************)
EXTENDS Naturals, Sequences, FiniteSets

CONSTANTS
    NumClients,   \* number of valid <client> elements, in document order
    Sites,        \* places (machine, execpath, outpath) on the remote machines
    SiteOf,       \* SiteOf[c] is the place client c uploads to and reads from
    StatTypes,    \* the statistics one output holds, in document order
    Alerts,       \* Alerts[c] is the sequence of the alerts of client c
    Readings,     \* what a script can measure: functions from types to values
    BadMailboxes  \* the clients whose mail address the mail server refuses

Clients == 1..NumClients
StatSet == {StatTypes[i] : i \in DOMAIN StatTypes}

ASSUME NumClientsAssumption == NumClients \in Nat \ {0}
ASSUME SiteAssumption == SiteOf \in [Clients -> Sites]
ASSUME StatTypesAssumption ==
    /\ StatTypes \in Seq(StatSet) /\ Len(StatTypes) > 0
    /\ \A i, j \in DOMAIN StatTypes : StatTypes[i] = StatTypes[j] => i = j
ASSUME AlertsAssumption ==
    \A c \in Clients : \A i \in DOMAIN Alerts[c] : Alerts[c][i].limit \in Nat
ASSUME ReadingsAssumption == Readings \subseteq [StatSet -> Nat] /\ Readings # {}
ASSUME MailboxAssumption == BadMailboxes \subseteq Clients

(* No other client uses the place of c: what the README asks for ("path on *)
(* the remote machine ... shall be defined per machine") and config.xml    *)
(* breaks.                                                                 *)
OwnPlace(c) == \A d \in Clients \ {c} : SiteOf[d] # SiteOf[c]

(* Client.get_alert_for_stat_type, the first alert of the type, and        *)
(* Alert.is_mail_required on it: a later alert of the type has no say.     *)
MailRequired(c, type, value) ==
    \E i \in DOMAIN Alerts[c] :
        /\ Alerts[c][i].type = type
        /\ \A j \in 1..(i - 1) : Alerts[c][j].type # type
        /\ value >= Alerts[c][i].limit

(* The statistics of a reading that are due a mail.                        *)
DueStats(c, reading) == {t \in StatSet : MailRequired(c, t, reading[t])}
============================================================================
