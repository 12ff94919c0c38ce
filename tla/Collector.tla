----------------------------- MODULE Collector -----------------------------
(***************************************************************************)
(* Class Server of ssh-client/src/server/server.py: run() connects the     *)
(* mailer, handles the clients one after the other or in a thread each,    *)
(* and disconnects.  It composes Client.run (ClientRun) and the mail       *)
(* connection (Mailer) with did_client_executed, which stores the          *)
(* statistics of an output, mails the alerts they are due, and stores its  *)
(* logs.  An exception nobody catches ends the thread of its client, or,   *)
(* when the clients are handled in line, the run.                          *)
(***************************************************************************)
EXTENDS Mailer, ClientRun

ASSUME LettersAssumption == Letters = [stat : StatSet, epoch : Epochs]

VARIABLES
    multithread,  \* Server.multithread_enabled, read from the configuration
    main,         \* where Server.run is
    turn,         \* the next client to start
    stage,        \* stage[c]: where did_client_executed is for client c
    at,           \* at[c]: the statistic handle_client_stat is at
    mailed,       \* history: mailed[c][t], what send returned for an alert
    machinestat,  \* machinestat[c]: the batches committed for c, in order
    machinelog    \* machinelog[c]: the same for the log table

collectorVars == <<multithread, main, turn, stage, at, mailed, machinestat, machinelog>>
tableVars == <<machinestat, machinelog>>
vars == <<mailerVars, clientVars, collectorVars>>

MainSteps == {"start", "clients", "quit", "done", "failed"}
Stages == {"waiting", "stats", "alerts", "mailing", "logs", "complete", "skipped", "died"}
Batches == [epoch : Epochs, report : Reports]

Dead(c) == pc[c] = "died" \/ stage[c] = "died"
Settled(c) ==
    pc[c] \in {"skipped", "died"} \/ stage[c] \in {"complete", "skipped", "died"}

Unmailed == [c \in Clients |-> [t \in StatSet |-> "none"]]

Init ==
    /\ MailerInit
    /\ ClientInit
    /\ multithread \in BOOLEAN
    /\ main = "start"
    /\ turn = 1
    /\ stage = [c \in Clients |-> "waiting"]
    /\ at = [c \in Clients |-> 1]
    /\ mailed = Unmailed
    /\ machinestat = [c \in Clients |-> <<>>]
    /\ machinelog = [c \in Clients |-> <<>>]

-----------------------------------------------------------------------------
(* Server.run, the main thread.                                            *)

MailerConnect ==
    /\ main = "start"
    /\ \/ Connect /\ main' = "clients"
       \/ ConnectRaises /\ main' = "failed"
    /\ UNCHANGED <<clientVars, multithread, turn, stage, at, mailed, tableVars>>

(* Mutant: a client is started whatever the one before is doing. *)
StartClientAtOnce ==
    /\ main = "clients"
    /\ turn <= NumClients
    /\ Start(turn)
    /\ turn' = turn + 1
    /\ UNCHANGED <<mailerVars, multithread, main, stage, at, mailed, tableVars>>

(* handle_client and thread.start: with threads every client is started at *)
(* once, without them a client is started when the one before is settled.  *)
StartClient ==
    /\ main = "clients"
    /\ turn <= NumClients
    /\ multithread \/ \A c \in 1..(turn - 1) : Settled(c) /\ ~Dead(c)
    /\ Start(turn)
    /\ turn' = turn + 1
    /\ UNCHANGED <<mailerVars, multithread, main, stage, at, mailed, tableVars>>

(* Mutants: the threads are not joined; the join waits for completion. *)
JoinNothing ==
    /\ main = "clients"
    /\ turn > NumClients
    /\ multithread \/ \A c \in Clients : ~Dead(c)
    /\ main' = "quit"
    /\ UNCHANGED <<mailerVars, clientVars, multithread, turn, stage, at, mailed, tableVars>>

JoinComplete ==
    /\ main = "clients"
    /\ turn > NumClients
    /\ \A c \in Clients : stage[c] = "complete"
    /\ main' = "quit"
    /\ UNCHANGED <<mailerVars, clientVars, multithread, turn, stage, at, mailed, tableVars>>

Join ==
    /\ main = "clients"
    /\ turn > NumClients
    /\ \A c \in Clients : Settled(c)
    /\ multithread \/ \A c \in Clients : ~Dead(c)
    /\ main' = "quit"
    /\ UNCHANGED <<mailerVars, clientVars, multithread, turn, stage, at, mailed, tableVars>>

(* Mutant: the exception of a thread is an exception of the run. *)
AbortAnyway ==
    /\ main = "clients"
    /\ \E c \in Clients : Dead(c)
    /\ main' = "failed"
    /\ UNCHANGED <<mailerVars, clientVars, multithread, turn, stage, at, mailed, tableVars>>

(* Without threads the exception of a client is the exception of the run.  *)
Abort ==
    /\ main = "clients"
    /\ ~multithread
    /\ \E c \in Clients : Dead(c)
    /\ main' = "failed"
    /\ UNCHANGED <<mailerVars, clientVars, multithread, turn, stage, at, mailed, tableVars>>

MailerDisconnect ==
    /\ main = "quit"
    /\ \/ Disconnect /\ main' = "done"
       \/ DisconnectRaises /\ main' = "failed"
    /\ UNCHANGED <<clientVars, multithread, turn, stage, at, mailed, tableVars>>

-----------------------------------------------------------------------------
(* did_client_executed, in the thread of client c.                         *)

Proceed(c, label) == stage' = [stage EXCEPT ![c] = label]

(* Mutant: the alerts are handled before the statistics are stored. *)
DecodeAlertsFirst(c) ==
    /\ pc[c] = "notified"
    /\ stage[c] = "waiting"
    /\ Proceed(c, IF output[c] \in Reports /\ output[c].intact
                  THEN "alerts" ELSE "skipped")
    /\ UNCHANGED <<mailerVars, clientVars, multithread, main, turn, at, mailed, tableVars>>

(* decrypt(output.strip()) and deserialize: an empty output or one that    *)
(* lost a byte to strip gives no XML, and the client is skipped.           *)
Decode(c) ==
    /\ pc[c] = "notified"
    /\ stage[c] = "waiting"
    /\ Proceed(c, IF output[c] \in Reports /\ output[c].intact
                  THEN "stats" ELSE "skipped")
    /\ UNCHANGED <<mailerVars, clientVars, multithread, main, turn, at, mailed, tableVars>>

Batch(c) == [epoch |-> epoch, report |-> output[c]]

(* Mutant: a commit that failed is ignored.                                *)
InsertStatsRegardless(c) ==
    /\ stage[c] = "stats"
    /\ Proceed(c, "alerts")
    /\ \/ machinestat' = [machinestat EXCEPT ![c] = Append(@, Batch(c))]
       \/ UNCHANGED machinestat
    /\ UNCHANGED <<mailerVars, clientVars, multithread, main, turn, at, mailed, machinelog>>

(* Database.insert_stats: one session, one commit.  A commit that raises   *)
(* may have been applied: the database's answer is what was lost.          *)
InsertStats(c) ==
    /\ stage[c] = "stats"
    /\ \/ /\ machinestat' = [machinestat EXCEPT ![c] = Append(@, Batch(c))]
          /\ \E label \in {"alerts", "died"} : Proceed(c, label)
       \/ Proceed(c, "died") /\ UNCHANGED machinestat
    /\ UNCHANGED <<mailerVars, clientVars, multithread, main, turn, at, mailed, machinelog>>

StatAt(c) == StatTypes[at[c]]
(* Mutant: an alert is due above its limit only, not at it. *)
DueAbove(c) == MailRequired(c, StatAt(c), output[c].reading[StatAt(c)] - 1)

Due(c) == MailRequired(c, StatAt(c), output[c].reading[StatAt(c)])

(* handle_client_stat for a statistic that needs no mail.                  *)
PassStat(c) ==
    /\ stage[c] = "alerts"
    /\ at[c] <= Len(StatTypes) /\ ~Due(c)
    /\ at' = [at EXCEPT ![c] = @ + 1]
    /\ UNCHANGED <<mailerVars, clientVars, multithread, main, turn, stage, mailed, tableVars>>

(* Mutant: every mail is about the first statistic. *)
MailFirstAlert(c) ==
    /\ stage[c] = "alerts"
    /\ at[c] <= Len(StatTypes) /\ Due(c)
    /\ Send(c, [stat |-> StatTypes[1], epoch |-> epoch])
    /\ Proceed(c, "mailing")
    /\ UNCHANGED <<clientVars, multithread, main, turn, at, mailed, tableVars>>

(* handle_client_stat for one that does: Mailer.send, and its return.      *)
MailAlert(c) ==
    /\ stage[c] = "alerts"
    /\ at[c] <= Len(StatTypes) /\ Due(c)
    /\ Send(c, [stat |-> StatAt(c), epoch |-> epoch])
    /\ Proceed(c, "mailing")
    /\ UNCHANGED <<clientVars, multithread, main, turn, at, mailed, tableVars>>

(* Mutant: an exception is taken for a result. *)
MailReturnsAnything(c) ==
    /\ stage[c] = "mailing"
    /\ dialog[c] \in Outcomes
    /\ mailed' = [mailed EXCEPT ![c][StatAt(c)] = dialog[c]]
    /\ at' = [at EXCEPT ![c] = @ + 1]
    /\ Proceed(c, "alerts")
    /\ UNCHANGED <<mailerVars, clientVars, multithread, main, turn, tableVars>>

MailReturns(c) ==
    /\ stage[c] = "mailing"
    /\ \/ /\ dialog[c] \in {"sent", "refused"}
          /\ mailed' = [mailed EXCEPT ![c][StatAt(c)] = dialog[c]]
          /\ at' = [at EXCEPT ![c] = @ + 1]
          /\ Proceed(c, "alerts")
       \/ dialog[c] = "raised" /\ Proceed(c, "died") /\ UNCHANGED <<mailed, at>>
    /\ UNCHANGED <<mailerVars, clientVars, multithread, main, turn, tableVars>>

StatsDone(c) ==
    /\ stage[c] = "alerts"
    /\ at[c] > Len(StatTypes)
    /\ Proceed(c, "logs")
    /\ UNCHANGED <<mailerVars, clientVars, multithread, main, turn, at, mailed, tableVars>>

InsertLogs(c) ==
    /\ stage[c] = "logs"
    /\ \/ /\ machinelog' = [machinelog EXCEPT ![c] = Append(@, Batch(c))]
          /\ \E label \in {"complete", "died"} : Proceed(c, label)
       \/ Proceed(c, "died") /\ UNCHANGED machinelog
    /\ UNCHANGED <<mailerVars, clientVars, multithread, main, turn, at, mailed, machinestat>>

-----------------------------------------------------------------------------
(* Mutant: the new run goes on where the handler of the old one was. *)
NewRunResumes ==
    /\ Rerun
    /\ connection' = "none"
    /\ dialog' = [c \in Clients |-> "idle"]
    /\ waiting' = [c \in Clients |-> FALSE]
    /\ smtp' = [mode |-> "ready", to |-> {}]
    /\ replies' = <<>>
    /\ main' = "start"
    /\ turn' = 1
    /\ mailed' = Unmailed
    /\ UNCHANGED <<letter, delivered, multithread, stage, at, tableVars>>

(* main is run again: a new Server, Mailer and connection, the same        *)
(* configuration, database and machines.                                   *)
NewRun ==
    /\ Rerun
    /\ connection' = "none"
    /\ dialog' = [c \in Clients |-> "idle"]
    /\ waiting' = [c \in Clients |-> FALSE]
    /\ smtp' = [mode |-> "ready", to |-> {}]
    /\ replies' = <<>>
    /\ main' = "start"
    /\ turn' = 1
    /\ stage' = [c \in Clients |-> "waiting"]
    /\ at' = [c \in Clients |-> 1]
    /\ mailed' = Unmailed
    /\ UNCHANGED <<letter, delivered, multithread, tableVars>>

MainStep ==
    MailerConnect \/ StartClient \/ Join \/ Abort \/ MailerDisconnect

HandlerStep(c) ==
    \/ Decode(c) \/ InsertStats(c) \/ PassStat(c) \/ MailAlert(c)
    \/ MailReturns(c) \/ StatsDone(c) \/ InsertLogs(c)

(* One step of the code that runs for client c, in its thread or in line.  *)
ThreadStep(c) ==
    \/ RunStep(c) /\ UNCHANGED <<mailerVars, collectorVars>>
    \/ MailerStep(c) /\ UNCHANGED <<clientVars, collectorVars>>
    \/ HandlerStep(c)

Environment ==
    \/ \E c \in Clients : SessionLost(c) /\ UNCHANGED <<mailerVars, collectorVars>>
    \/ Drop /\ UNCHANGED <<clientVars, collectorVars>>

Next ==
    \/ MainStep
    \/ \E c \in Clients : ThreadStep(c)
    \/ \E p \in Scripts : ScriptStep(p) /\ UNCHANGED <<mailerVars, collectorVars>>
    \/ Environment
    \/ NewRun

Fairness ==
    /\ WF_vars(MainStep)
    /\ \A c \in Clients : WF_vars(ThreadStep(c))
    /\ \A p \in Scripts : WF_vars(ScriptStep(p) /\ UNCHANGED <<mailerVars, collectorVars>>)

Spec == Init /\ [][Next]_vars
FairSpec == Spec /\ Fairness

-----------------------------------------------------------------------------
(* The type invariant: every variable holds a value of its kind.           *)
TypeOK ==
    /\ MailerTypeOK
    /\ ClientTypeOK
    /\ multithread \in BOOLEAN
    /\ main \in MainSteps
    /\ turn \in 1..(NumClients + 1)
    /\ stage \in [Clients -> Stages]
    /\ at \in [Clients -> 1..(Len(StatTypes) + 1)]
    /\ mailed \in [Clients -> [StatSet -> {"none", "sent", "refused"}]]
    /\ machinestat \in [Clients -> Seq(Batches)]
    /\ machinelog \in [Clients -> Seq(Batches)]

(* A mail can be traced to the table: when the mail server has accepted an *)
(* alert of a client, the statistics that caused it are already committed  *)
(* (insert_stats before handle_client_stat), whatever thread sent it.      *)
RowsBeforeMail ==
    \A m \in delivered :
        \E i \in DOMAIN machinestat[m.owner] :
            LET b == machinestat[m.owner][i]
            IN  b.epoch = m.letter.epoch
                /\ m.letter.stat \in DueStats(m.owner, b.report.reading)

(* Each run commits at most one batch of statistics and one of logs for a  *)
(* client, and never the logs of an output whose statistics it did not     *)
(* commit.                                                                 *)
Increasing(batches) ==
    \A i, j \in DOMAIN batches : i < j => batches[i].epoch < batches[j].epoch

OneBatchPerRun ==
    \A c \in Clients :
        /\ Increasing(machinestat[c])
        /\ Increasing(machinelog[c])
        /\ \A i \in DOMAIN machinelog[c] :
              \E j \in DOMAIN machinestat[c] : machinelog[c][i] = machinestat[c][j]

(* The logs of an output are stored only when every alert its statistics   *)
(* are due was tried, so that a batch of logs marks a client whose alerts  *)
(* were all handled (did_client_executed, lines 1058-1061).                *)
AlertsBeforeLogs ==
    \A c \in Clients : \A i \in DOMAIN machinelog[c] :
        machinelog[c][i].epoch = epoch =>
            \A t \in DueStats(c, machinelog[c][i].report.reading) :
                mailed[c][t] # "none"

(* With threads the clients are isolated: the run fails before any of them *)
(* started or after all of them are settled, never because of one.  And in *)
(* both modes the mailer is disconnected only when all are settled.        *)
ThreadsIsolated ==
    /\ main = "failed" /\ multithread =>
          (\A c \in Clients : pc[c] = "idle") \/ (\A c \in Clients : Settled(c))
    /\ main \in {"quit", "done"} => \A c \in Clients : Settled(c)

(* Without threads one dialogue is in progress at a time, so every mail    *)
(* goes to the client it is about and to nobody else, and send returns     *)
(* True only for a mail that was accepted, whatever refusals, timeouts and *)
(* dropped lines came before it.                                           *)
SequentialMail ==
    ~multithread =>
        /\ \A m \in delivered : m.to = {m.owner}
        /\ \A c \in Clients, t \in StatSet : mailed[c][t] = "sent" =>
              [owner |-> c, letter |-> [stat |-> t, epoch |-> epoch], to |-> {c}]
                  \in delivered

(* Every run ends: with lost replies, scripts that fail and clients that   *)
(* die, main never waits for something that cannot come.                   *)
RunTerminates == main = "start" ~> main \in {"done", "failed"}

(* "if an error occurs on one of them on any step, skip that client and    *)
(* continue with the next one" (ssh-client/README.md:233).                 *)
SkipAndContinue ==
    main = "failed" /\ (\E c \in Clients : Dead(c)) =>
        \A c \in Clients : pc[c] # "idle"

-----------------------------------------------------------------------------
(* The mapping to what a run promises.                                     *)
StatusOf(c) ==
    CASE Dead(c)                                          -> "lost"
      [] pc[c] = "skipped" \/ stage[c] = "skipped"        -> "skipped"
      [] stage[c] = "complete"                            -> "complete"
      [] stage[c] \in {"alerts", "mailing", "logs"}       -> "stored"
      [] OTHER                                            -> "pending"

Verdict == IF main \in {"done", "failed"} THEN main ELSE "running"

Promise == INSTANCE Collection WITH
    Members <- Clients,
    status <- [c \in Clients |-> StatusOf(c)],
    verdict <- Verdict

(* The collector keeps the promise of Collection.                          *)
ImplementsCollection == Promise!CollectionSpec
============================================================================
