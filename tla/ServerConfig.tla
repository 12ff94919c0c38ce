---------------------------- MODULE ServerConfig ----------------------------
(***************************************************************************)
(* Server.read_config of ssh-client's server.py: the parts of the          *)
(* configuration document are read one after another, and each can end the *)
(* reading; a client that is not valid is left out.                        *)
(***************************************************************************)
EXTENDS Naturals, Sequences

CONSTANT Documents   \* the configuration files to consider

(* Client and Alert abstracted: whether the seven attributes of a client   *)
(* are there and good, and for each alert whether its two are.             *)
ConfiguredClients == [attributes : BOOLEAN, alerts : Seq(BOOLEAN)]

ASSUME DocumentsAssumption ==
    \A d \in Documents :
        /\ d.file \in {"good", "unreadable", "malformed"}
        /\ d.srcpath \in {"good", "missing", "no value", "no file"}
        /\ d.hasClients \in BOOLEAN
        /\ d.clients \in Seq(ConfiguredClients)
        /\ d.database \in {"good", "missing", "invalid", "down"}
        /\ d.mailer \in {"good", "missing", "invalid"}
        /\ d.multithread \in {"missing", "true", "other"}

VARIABLES
    document,      \* the configuration file
    reading,       \* the part that is read next, or how reading ended
    index,         \* the client that is read next
    clients,       \* Server.clients, as positions in the document
    tables,        \* whether the tables have been created
    multithread    \* Server.multithread_enabled

configVars == <<document, reading, index, clients, tables, multithread>>

ConfigInit ==
    /\ document \in Documents
    /\ reading = "file" /\ index = 1 /\ clients = <<>>
    /\ tables = FALSE /\ multithread = FALSE

(* One part: go on with the next, or return False. *)
Part(part, good, next) ==
    /\ reading = part
    /\ reading' = IF good THEN next ELSE "failed"

ReadFile ==
    /\ Part("file", document.file = "good", "srcpath")
    /\ UNCHANGED <<document, index, clients, tables, multithread>>

ReadSrcpath ==
    /\ Part("srcpath", document.srcpath = "good", "clients")
    /\ UNCHANGED <<document, index, clients, tables, multithread>>

FindClients ==
    /\ Part("clients", document.hasClients, "client")
    /\ UNCHANGED <<document, index, clients, tables, multithread>>

(* An alert that is not valid makes its client invalid, which is skipped.  *)
(* Mutant: what the log line says, the alert is skipped.                   *)
IsValid(client) == client.attributes /\ \A i \in DOMAIN client.alerts : client.alerts[i]

ReadClientSkippingAlerts ==
    /\ reading = "client" /\ index <= Len(document.clients)
    /\ clients' = IF document.clients[index].attributes THEN Append(clients, index) ELSE clients
    /\ index' = index + 1
    /\ UNCHANGED <<document, reading, tables, multithread>>

ReadClient ==
    /\ reading = "client" /\ index <= Len(document.clients)
    /\ clients' = IF IsValid(document.clients[index]) THEN Append(clients, index) ELSE clients
    /\ index' = index + 1
    /\ UNCHANGED <<document, reading, tables, multithread>>

ClientsRead ==
    /\ reading = "client" /\ index > Len(document.clients)
    /\ reading' = "database"
    /\ UNCHANGED <<document, index, clients, tables, multithread>>

(* The constructor of Database creates the tables, or exits.               *)
ReadDatabase ==
    \/ /\ Part("database", document.database = "good", "mailer")
       /\ document.database # "down"
       /\ tables' = (document.database = "good")
       /\ UNCHANGED <<document, index, clients, multithread>>
    \/ /\ reading = "database" /\ document.database = "down"
       /\ reading' = "exited"
       /\ UNCHANGED <<document, index, clients, tables, multithread>>

ReadMailer ==
    /\ Part("mailer", document.mailer = "good", "multithread")
    /\ UNCHANGED <<document, index, clients, tables, multithread>>

ReadMultithread ==
    /\ Part("multithread", TRUE, "valid")
    /\ multithread' = (document.multithread = "true")
    /\ UNCHANGED <<document, index, clients, tables>>

ReadConfig ==
    \/ ReadFile \/ ReadSrcpath \/ FindClients \/ ReadClient \/ ClientsRead
    \/ ReadDatabase \/ ReadMailer \/ ReadMultithread

-----------------------------------------------------------------------------
(* What the reading amounts to: the server is valid when every part but    *)
(* the clients is good; then its clients are the valid ones, in the order  *)
(* of the document, and a client loses its place by any mistake of its own *)
(* or of one of its alerts.  Where the documentation disagrees with itself *)
(* this is what the tests ask for: a wrong client leaves a valid server    *)
(* without it (test_server.py:1559), a wrong alert an invalid client       *)
(* (test_server.py:787).  README.md:232 and the log line server.py:380 say *)
(* otherwise, which is MistakesStop below.                                 *)
Good ==
    /\ document.file = "good" /\ document.srcpath = "good"
    /\ document.hasClients
    /\ document.database = "good" /\ document.mailer = "good"

Ascending(s) == \A i, j \in DOMAIN s : i < j => s[i] < s[j]

ConfigAgrees ==
    /\ reading = "valid" =>
          /\ Good /\ tables
          /\ multithread <=> document.multithread = "true"
          /\ Ascending(clients)
          /\ \A k \in DOMAIN document.clients :
                (\E i \in DOMAIN clients : clients[i] = k) <=>
                    document.clients[k].attributes
                    /\ FALSE \notin {document.clients[k].alerts[a] :
                                        a \in DOMAIN document.clients[k].alerts}
    /\ reading \in {"failed", "exited"} => ~Good
    /\ reading = "exited" => ~tables

(* README.md:232: execution stops if the configuration has an error, a     *)
(* field or tag that is missing or invalid.  So a reading that goes on to  *)
(* a run has found none, neither in a client nor in an alert.              *)
MistakesStop ==
    reading = "valid" => Good /\ \A k \in DOMAIN document.clients : IsValid(document.clients[k])
=============================================================================
