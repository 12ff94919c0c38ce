--------------------------- MODULE CollectorProofs ---------------------------
(***************************************************************************)
(* For any number of clients and of runs, in both modes: the type          *)
(* invariant of the collector, that a mail can be traced to a committed    *)
(* row, that each run commits at most one batch per table and client, that *)
(* logs are stored after all alerts were tried, that threads are isolated, *)
(* and that without threads mail goes where it should.                     *)
(***************************************************************************)
EXTENDS Collector, MailerProofs, ClientRunProofs

Stored == {"alerts", "mailing", "logs", "complete"}

(* The thread of client c: how its variables hang together.                *)
ThreadInv(c) ==
    /\ stage[c] # "waiting" => pc[c] = "notified"
    /\ stage[c] \in Stored \union {"stats"} => output[c] \in Reports
    /\ Sending(c) => stage[c] = "mailing"
    /\ stage[c] = "mailing" =>
          /\ at[c] <= Len(StatTypes) /\ Due(c)
          /\ letter[c] = [stat |-> StatAt(c), epoch |-> epoch]

(* The rows of client c.                                                   *)
StatsInv(c) ==
    /\ Increasing(machinestat[c])
    /\ \A i \in DOMAIN machinestat[c] :
          /\ machinestat[c][i].epoch <= epoch
          /\ stage[c] \in {"waiting", "stats"} => machinestat[c][i].epoch < epoch
    /\ stage[c] \in Stored =>
          \E i \in DOMAIN machinestat[c] : machinestat[c][i] = Batch(c)

(* The alerts of client c that are behind it, and all of them.             *)
Tried(c, i) ==
    StatTypes[i] \in DueStats(c, output[c].reading) => mailed[c][StatTypes[i]] # "none"

AllTried(c) == \A i \in 1..Len(StatTypes) : Tried(c, i)

LogsInv(c) ==
    /\ Increasing(machinelog[c])
    /\ \A i \in DOMAIN machinelog[c] :
          /\ machinelog[c][i].epoch <= epoch
          /\ machinelog[c][i].epoch = epoch =>
                /\ stage[c] \in {"complete", "died"}
                /\ machinelog[c][i].report = output[c] /\ AllTried(c)
          /\ \E j \in DOMAIN machinestat[c] : machinelog[c][i] = machinestat[c][j]

AlertsInv(c) ==
    /\ stage[c] \in Stored => \A i \in 1..(at[c] - 1) : Tried(c, i)
    /\ stage[c] \in {"waiting", "stats"} => at[c] = 1
    /\ stage[c] \in {"logs", "complete"} => at[c] > Len(StatTypes)

ClientRowInv(c) == ThreadInv(c) /\ StatsInv(c) /\ LogsInv(c) /\ AlertsInv(c)

(* The main thread and the clients it has started.                         *)
MainInv ==
    /\ main = "start" => turn = 1
    /\ \A c \in Clients : c >= turn => pc[c] = "idle"
    /\ ~multithread => \A c \in Clients : c < turn - 1 => Settled(c) /\ ~Dead(c)
    /\ main \in {"quit", "done"} => \A c \in Clients : Settled(c)
    /\ main = "failed" => \A c \in Clients : pc[c] = "idle" \/ Settled(c)
    /\ ThreadsIsolated

CollectorInv ==
    /\ TypeOK
    /\ MailerInv
    /\ ClientInv
    /\ \A c \in Clients : ClientRowInv(c)
    /\ MainInv
    /\ RowsBeforeMail

-----------------------------------------------------------------------------
(* Type correctness, one lemma per group of steps.                         *)
LEMMA CollectorTypes ==
    ASSUME TypeOK
    PROVE  /\ stage \in [Clients -> Stages]
           /\ at \in [Clients -> 1..(Len(StatTypes) + 1)]
           /\ mailed \in [Clients -> [StatSet -> {"none", "sent", "refused"}]]
           /\ machinestat \in [Clients -> Seq(Batches)]
           /\ machinelog \in [Clients -> Seq(Batches)]
           /\ epoch \in Epochs /\ output \in [Clients -> {NoFile} \union Contents]
           /\ pc \in [Clients -> Steps \union Ends]
           /\ dialog \in [Clients -> {"idle"} \union Commands \union Outcomes]
           /\ letter \in [Clients -> Letters]
  BY DEF TypeOK, ClientTypeOK, MailerTypeOK

LEMMA StatTypesFacts ==
    /\ Len(StatTypes) \in Nat /\ Len(StatTypes) > 0
    /\ DOMAIN StatTypes = 1..Len(StatTypes)
    /\ \A i \in 1..Len(StatTypes) : StatTypes[i] \in StatSet
  BY StatTypesAssumption

LEMMA EpochIsNat == TypeOK => epoch \in Nat
  BY MaxEpochAssumption DEF TypeOK, ClientTypeOK, Epochs

LEMMA BatchIsBatch ==
    ASSUME TypeOK, NEW c \in Clients, output[c] \in Reports
    PROVE  Batch(c) \in Batches
  BY DEF TypeOK, ClientTypeOK, Batch, Batches

LEMMA CollectorInitInv == Init => CollectorInv
  <1> SUFFICES ASSUME Init PROVE CollectorInv
    OBVIOUS
  <1>1. MailerInv /\ ClientInv
    BY MailerInitInv, ClientInitInv DEF Init
  <1>2. TypeOK
    BY <1>1, NumClientsAssumption, StatTypesFacts
    DEF Init, TypeOK, MailerInv, ClientInv, MainSteps, Stages, Unmailed, Clients
  <1>3. ASSUME NEW c \in Clients PROVE ClientRowInv(c)
    <2>1. /\ stage[c] = "waiting" /\ at[c] = 1 /\ dialog[c] = "idle"
          /\ machinestat[c] = <<>> /\ machinelog[c] = <<>>
      BY DEF Init, MailerInit
    <2> QED BY <2>1 DEF ClientRowInv, ThreadInv, StatsInv, LogsInv, AlertsInv, Increasing,
                        Sending, Commands, Stored
  <1>4. MainInv
    BY DEF Init, ClientInit, MainInv, ThreadsIsolated, Clients
  <1>5. RowsBeforeMail
    BY DEF Init, MailerInit, RowsBeforeMail
  <1> QED BY <1>1, <1>2, <1>3, <1>4, <1>5 DEF CollectorInv

-----------------------------------------------------------------------------
(* Steps that leave the rows and the handler of a client alone keep what   *)
(* is said of it, whatever its sendmail does meanwhile.                    *)
HandlerIdle(c) ==
    /\ epoch' = epoch /\ output'[c] = output[c]
    /\ stage[c] # "waiting" => pc'[c] = pc[c]
    /\ stage'[c] = stage[c] /\ at'[c] = at[c] /\ mailed'[c] = mailed[c]
    /\ machinestat'[c] = machinestat[c] /\ machinelog'[c] = machinelog[c]
    /\ Sending(c)' => Sending(c)
    /\ letter'[c] = letter[c]

LEMMA IdleKeeps ==
    ASSUME NEW c \in Clients, ClientRowInv(c), HandlerIdle(c)
    PROVE  ClientRowInv(c)'
  <1>1. Batch(c)' = Batch(c)
    BY DEF HandlerIdle, Batch
  <1>2. Due(c)' <=> Due(c)
    BY DEF HandlerIdle, Due, StatAt, MailRequired
  <1>3. StatAt(c)' = StatAt(c)
    BY DEF HandlerIdle, StatAt
  <1>4. ThreadInv(c)'
    BY <1>2, <1>3 DEF HandlerIdle, ClientRowInv, ThreadInv
  <1>5. StatsInv(c)'
    BY <1>1 DEF HandlerIdle, ClientRowInv, StatsInv, Increasing
  <1>6. LogsInv(c)'
    BY DEF HandlerIdle, ClientRowInv, LogsInv, Increasing, AllTried, Tried, DueStats,
           MailRequired
  <1>7. AlertsInv(c)'
    BY DEF HandlerIdle, ClientRowInv, AlertsInv, Tried, DueStats, MailRequired
  <1> QED BY <1>4, <1>5, <1>6, <1>7 DEF ClientRowInv

(* Delivered mails and rows only grow; a mail already traced stays traced. *)
LEMMA TracedKeeps ==
    ASSUME RowsBeforeMail, delivered' = delivered, MailerTypeOK,
           \A c \in Clients : \A i \in DOMAIN machinestat[c] :
              i \in DOMAIN machinestat'[c] /\ machinestat'[c][i] = machinestat[c][i]
    PROVE  RowsBeforeMail'
  <1> SUFFICES ASSUME NEW m \in delivered
               PROVE  \E i \in DOMAIN machinestat'[m.owner] :
                         LET b == machinestat'[m.owner][i]
                         IN  b.epoch = m.letter.epoch
                             /\ m.letter.stat \in DueStats(m.owner, b.report.reading)
    BY DEF RowsBeforeMail, DueStats, MailRequired
  <1>1. m.owner \in Clients
    BY DEF MailerTypeOK, Mails
  <1> QED BY <1>1 DEF RowsBeforeMail

-----------------------------------------------------------------------------
(* A client that started and is not settled is one the main thread is      *)
(* still waiting for, and in line the last one it started.                 *)
Active(c) == pc[c] # "idle" /\ ~Settled(c)

LEMMA ActiveClient ==
    ASSUME TypeOK, MainInv, NEW c \in Clients, Active(c)
    PROVE  main = "clients" /\ c < turn /\ (~multithread => c >= turn - 1)
  <1>1. main \in MainSteps /\ turn \in Nat /\ c \in Nat
    BY NumClientsAssumption DEF TypeOK, Clients
  <1>2. c < turn
    BY <1>1 DEF MainInv, Active
  <1>3. ~multithread => c >= turn - 1
    BY <1>1 DEF MainInv, Active
  <1>4. main # "start"
    BY <1>1, <1>2, NumClientsAssumption DEF MainInv, Clients
  <1>5. main \notin {"quit", "done", "failed"}
    BY DEF MainInv, Active
  <1> QED BY <1>1, <1>2, <1>3, <1>4, <1>5 DEF MainSteps

LEMMA ActiveKeepsMain ==
    ASSUME TypeOK, MainInv, NEW c \in Clients, Active(c),
           UNCHANGED <<main, turn, multithread>>,
           \A d \in Clients \ {c} : pc'[d] = pc[d] /\ stage'[d] = stage[d]
    PROVE  MainInv'
  <1>1. main = "clients" /\ c < turn /\ (~multithread => c >= turn - 1)
    BY ActiveClient
  <1>2. turn \in Nat /\ \A d \in Clients : d \in Nat
    BY NumClientsAssumption DEF TypeOK, Clients
  <1> QED BY <1>1, <1>2 DEF MainInv, ThreadsIsolated, Settled, Dead

-----------------------------------------------------------------------------
(* Steps of Client.run.                                                    *)
LEMMA RunFacts ==
    ASSUME ClientTypeOK, NEW c \in Clients, Start(c) \/ RunStep(c) \/ SessionLost(c)
    PROVE  /\ pc[c] \in Steps /\ epoch' = epoch
           /\ RunStep(c) \/ SessionLost(c) => pc[c] # "idle"
           /\ \A d \in Clients \ {c} : pc'[d] = pc[d] /\ output'[d] = output[d]
  <1> USE DEF ClientTypeOK, Goto, Steps
  <1>1. CASE Start(c) BY <1>1
      DEF Start, RunStep, SshConnect, Put, Upload, Exec, Await, Read, RemoveExec,
          RemoveOut, SessionLost
  <1>2. CASE SshConnect(c) BY <1>2 DEF SshConnect
  <1>3. CASE Put(c) BY <1>3 DEF Put
  <1>4. CASE Upload(c) BY <1>4 DEF Upload
  <1>5. CASE Exec(c) BY <1>5 DEF Exec
  <1>6. CASE Await(c) BY <1>6 DEF Await
  <1>7. CASE SessionLost(c) BY <1>7 DEF SessionLost
  <1>8. CASE Read(c) BY <1>8 DEF Read
  <1>9. CASE RemoveExec(c) BY <1>9 DEF RemoveExec
  <1>10. CASE RemoveOut(c) BY <1>10 DEF RemoveOut
  <1> QED BY <1>1, <1>2, <1>3, <1>4, <1>5, <1>6, <1>7, <1>8, <1>9, <1>10 DEF RunStep

(* Before its output is handed over a client has no stage.                 *)
LEMMA StepsAreWaiting ==
    ASSUME NEW c \in Clients, ThreadInv(c), pc[c] \in Steps
    PROVE  stage[c] = "waiting" /\ ~Settled(c)
  BY DEF ThreadInv, Steps, Settled

LEMMA RunStepRows ==
    ASSUME CollectorInv, NEW c \in Clients, Start(c) \/ RunStep(c) \/ SessionLost(c),
           UNCHANGED <<mailerVars, stage, at, mailed, tableVars>>
    PROVE  \A d \in Clients : ClientRowInv(d)'
  <1>1. /\ pc[c] \in Steps /\ epoch' = epoch
        /\ \A d \in Clients \ {c} : pc'[d] = pc[d] /\ output'[d] = output[d]
    BY RunFacts DEF CollectorInv, TypeOK
  <1>2. stage[c] = "waiting"
    BY <1>1, StepsAreWaiting DEF CollectorInv, ClientRowInv
  <1>3. UNCHANGED <<stage, at, mailed, machinestat, machinelog, dialog, letter>>
    BY DEF mailerVars, tableVars
  <1>4. ASSUME NEW d \in Clients \ {c} PROVE ClientRowInv(d)'
    <2>1. HandlerIdle(d)
      BY <1>1, <1>3 DEF HandlerIdle, Sending
    <2> QED BY <2>1, IdleKeeps DEF CollectorInv
  <1>5. ClientRowInv(c)'
    <2>1. ThreadInv(c)'
      BY <1>2, <1>3 DEF CollectorInv, ClientRowInv, ThreadInv, Sending, Stored
    <2>2. StatsInv(c)'
      BY <1>1, <1>2, <1>3 DEF CollectorInv, ClientRowInv, StatsInv, Increasing, Stored
    <2>3. LogsInv(c)'
      BY <1>1, <1>2, <1>3 DEF CollectorInv, ClientRowInv, LogsInv, Increasing
    <2>4. AlertsInv(c)'
      BY <1>2, <1>3 DEF CollectorInv, ClientRowInv, AlertsInv, Stored
    <2> QED BY <2>1, <2>2, <2>3, <2>4 DEF ClientRowInv
  <1> QED BY <1>4, <1>5

LEMMA RunStepKeeps ==
    ASSUME CollectorInv, NEW c \in Clients, RunStep(c) \/ SessionLost(c),
           UNCHANGED <<mailerVars, collectorVars>>
    PROVE  CollectorInv'
  <1>1. UNCHANGED <<mailerVars, stage, at, mailed, tableVars, main, turn, multithread,
                    connection, dialog, waiting, letter, smtp, replies, delivered,
                    machinestat, machinelog>>
    BY DEF collectorVars, mailerVars, tableVars
  <1>2. ClientInv'
    BY RunStepInv DEF CollectorInv
  <1>3. MailerInv'
    BY <1>1 DEF CollectorInv, MailerInv, MailerTypeOK, OneGo, GoAt, Holds
  <1>4. TypeOK'
    BY <1>1, <1>2, <1>3 DEF CollectorInv, ClientInv, MailerInv, TypeOK
  <1>5. \A d \in Clients : ClientRowInv(d)'
    BY <1>1, RunStepRows
  <1>6. MainInv'
    <2>1. pc[c] \in Steps /\ pc[c] # "idle" /\ \A d \in Clients \ {c} : pc'[d] = pc[d]
      BY RunFacts DEF CollectorInv, TypeOK
    <2>2. Active(c)
      BY <2>1, StepsAreWaiting DEF CollectorInv, ClientRowInv, Active
    <2> QED BY <1>1, <2>1, <2>2, ActiveKeepsMain DEF CollectorInv
  <1>7. RowsBeforeMail'
    BY <1>1, TracedKeeps DEF CollectorInv, MailerInv
  <1> QED BY <1>2, <1>3, <1>4, <1>5, <1>6, <1>7 DEF CollectorInv

-----------------------------------------------------------------------------
(* Steps of the main thread.                                               *)
LEMMA MainThreadRows ==
    ASSUME CollectorInv, MailerInv',
           UNCHANGED <<clientVars, stage, at, mailed, tableVars, multithread,
                       dialog, letter, delivered>>,
           main' \in MainSteps, UNCHANGED turn
    PROVE  /\ TypeOK' /\ ClientInv' /\ RowsBeforeMail'
           /\ \A c \in Clients : ClientRowInv(c)'
  <1>1. UNCHANGED <<epoch, pc, output, machinestat, machinelog>>
    BY DEF clientVars, tableVars
  <1>2. ClientInv'
    BY ClientStutterInv DEF CollectorInv
  <1>3. TypeOK'
    BY <1>1, <1>2 DEF CollectorInv, TypeOK, MailerInv, ClientInv
  <1>4. ASSUME NEW c \in Clients PROVE ClientRowInv(c)'
    <2>1. HandlerIdle(c)
      BY <1>1 DEF HandlerIdle, Sending
    <2> QED BY <2>1, IdleKeeps DEF CollectorInv
  <1>5. RowsBeforeMail'
    BY <1>1, TracedKeeps DEF CollectorInv, MailerInv
  <1> QED BY <1>2, <1>3, <1>4, <1>5

LEMMA StartClientKeeps ==
    ASSUME CollectorInv, StartClient
    PROVE  CollectorInv'
  <1>1. /\ main = "clients" /\ turn \in Clients /\ turn' = turn + 1
        /\ multithread \/ \A c \in 1..(turn - 1) : Settled(c) /\ ~Dead(c)
        /\ Start(turn) /\ pc[turn] = "idle"
        /\ UNCHANGED <<mailerVars, multithread, main, stage, at, mailed, tableVars>>
    BY NumClientsAssumption DEF StartClient, CollectorInv, TypeOK, Clients, Start
  <1>2. UNCHANGED <<connection, dialog, waiting, letter, smtp, replies, delivered,
                    machinestat, machinelog>>
    BY <1>1 DEF mailerVars, tableVars
  <1>3. ClientInv'
    BY <1>1, RunStepInv DEF CollectorInv
  <1>4. MailerInv'
    BY <1>2 DEF CollectorInv, MailerInv, MailerTypeOK, OneGo, GoAt, Holds
  <1>5. turn' \in 1..(NumClients + 1) /\ turn \in Nat /\ \A c \in Clients : c \in Nat
    BY <1>1, NumClientsAssumption DEF Clients
  <1>6. TypeOK'
    BY <1>1, <1>2, <1>3, <1>4, <1>5 DEF CollectorInv, ClientInv, MailerInv, TypeOK
  <1>7. \A d \in Clients : ClientRowInv(d)'
    BY <1>1, RunStepRows
  <1>8. MainInv'
    <2>1. \A d \in Clients \ {turn} : pc'[d] = pc[d]
      BY <1>1, RunFacts DEF CollectorInv, TypeOK
    <2>2. \A d \in Clients : d < turn' - 1 => d \in 1..(turn - 1)
      BY <1>1, <1>5 DEF Clients
    <2>3. \A d \in Clients : d >= turn' => d >= turn /\ d # turn
      BY <1>1, <1>5
    <2> QED BY <1>1, <1>5, <2>1, <2>2, <2>3
        DEF CollectorInv, MainInv, ThreadsIsolated, Settled, Dead
  <1>9. RowsBeforeMail'
    BY <1>2, TracedKeeps DEF CollectorInv, MailerInv
  <1> QED BY <1>3, <1>4, <1>6, <1>7, <1>8, <1>9 DEF CollectorInv

LEMMA MainStepKeeps ==
    ASSUME CollectorInv, MainStep
    PROVE  CollectorInv'
  <1> USE DEF CollectorInv
  <1>1. CASE MailerConnect
    <2>1. /\ main = "start" /\ main' \in {"clients", "failed"}
          /\ Connect \/ ConnectRaises
          /\ UNCHANGED <<clientVars, multithread, turn, stage, at, mailed, tableVars>>
      BY <1>1 DEF MailerConnect
    <2>2. UNCHANGED <<dialog, letter, delivered, pc>>
      BY <2>1 DEF Connect, ConnectRaises, clientVars
    <2>3. MailerInv'
      BY <2>1, ConnectionInv
    <2>4. MainInv'
      BY <2>1, <2>2, NumClientsAssumption
      DEF MainInv, ThreadsIsolated, Settled, Dead, Clients
    <2> QED BY <2>1, <2>2, <2>3, <2>4, MainThreadRows DEF MainSteps
  <1>2. CASE StartClient
    BY <1>2, StartClientKeeps
  <1>3. CASE Join \/ Abort
    <2>1. /\ main' \in {"quit", "failed"}
          /\ UNCHANGED <<mailerVars, clientVars, multithread, turn, stage, at, mailed,
                         tableVars>>
      BY <1>3 DEF Join, Abort
    <2>2. UNCHANGED <<connection, dialog, waiting, letter, smtp, replies, delivered, pc>>
      BY <2>1 DEF mailerVars, clientVars
    <2>3. MailerInv'
      BY <2>2 DEF MailerInv, MailerTypeOK, OneGo, GoAt, Holds
    <2>4. MainInv'
      <3>1. CASE Join
        BY <2>1, <2>2, <3>1 DEF Join, MainInv, ThreadsIsolated, Settled, Dead
      <3>2. CASE Abort
        <4>1. PICK c \in Clients : Dead(c)
          BY <3>2 DEF Abort
        <4>2. turn \in Nat /\ \A d \in Clients : d \in Nat
          BY NumClientsAssumption DEF TypeOK, Clients
        <4>3. ~multithread /\ main' = "failed"
          BY <3>2 DEF Abort
        <4>4. pc[c] # "idle" /\ Settled(c)
          BY <4>1 DEF Dead, Settled, ClientRowInv, ThreadInv
        <4>5. c = turn - 1
          BY <4>1, <4>2, <4>3, <4>4 DEF MainInv
        <4>6. \A d \in Clients : pc[d] = "idle" \/ Settled(d)
          BY <4>2, <4>3, <4>4, <4>5 DEF MainInv
        <4> QED BY <2>1, <2>2, <4>3, <4>6 DEF MainInv, ThreadsIsolated, Settled, Dead
      <3> QED BY <1>3, <3>1, <3>2
    <2> QED BY <2>1, <2>2, <2>3, <2>4, MainThreadRows DEF MainSteps
  <1>4. CASE MailerDisconnect
    <2>1. /\ main = "quit" /\ main' \in {"done", "failed"}
          /\ Disconnect \/ DisconnectRaises
          /\ UNCHANGED <<clientVars, multithread, turn, stage, at, mailed, tableVars>>
      BY <1>4 DEF MailerDisconnect
    <2>2. UNCHANGED <<dialog, letter, delivered, pc>>
      BY <2>1 DEF Disconnect, DisconnectRaises, clientVars
    <2>3. MailerInv'
      BY <2>1, ConnectionInv
    <2>4. MainInv'
      BY <2>1, <2>2 DEF MainInv, ThreadsIsolated, Settled, Dead
    <2> QED BY <2>1, <2>2, <2>3, <2>4, MainThreadRows DEF MainSteps
  <1> QED BY <1>1, <1>2, <1>3, <1>4 DEF MainStep

-----------------------------------------------------------------------------
(* Steps of the mail dialogue.  The only one with an effect on the rows'   *)
(* invariants is the acceptance of a text.                                 *)
LEMMA MailerStepFacts ==
    ASSUME MailerTypeOK, NEW t \in Clients, MailerStep(t)
    PROVE  /\ Sending(t) /\ letter' = letter
           /\ \A c \in Clients : Sending(c)' => Sending(c)
           /\ delivered' \subseteq delivered \union
                 {[owner |-> t, letter |-> letter[t], to |-> smtp.to]}
  <1> USE DEF MailerTypeOK
  <1>1. CASE Transmit(t)
    <2>1. delivered' \subseteq delivered \union
                 {[owner |-> t, letter |-> letter[t], to |-> smtp.to]}
      <3>1. CASE smtp.mode = "gone" BY <1>1, <3>1 DEF Transmit
      <3>2. CASE smtp.mode = "data" BY <1>1, <3>2 DEF Transmit, TakeText
      <3>3. CASE smtp.mode \notin {"gone", "data"} BY <1>1, <3>3 DEF Transmit, TakeCommand
      <3> QED BY <3>1, <3>2, <3>3
    <2> QED BY <1>1, <2>1 DEF Transmit, Sending
  <1>2. CASE Receive(t)
    BY <1>2 DEF Receive, Sending
  <1>3. CASE NoAnswer(t)
    BY <1>3 DEF NoAnswer, Sending, Commands
  <1> QED BY <1>1, <1>2, <1>3 DEF MailerStep

LEMMA MailerStepKeeps ==
    ASSUME CollectorInv, NEW t \in Clients, MailerStep(t),
           UNCHANGED <<clientVars, collectorVars>>
    PROVE  CollectorInv'
  <1> USE DEF CollectorInv
  <1>1. UNCHANGED <<epoch, pc, output, multithread, main, turn, stage, at, mailed,
                    machinestat, machinelog>>
    BY DEF clientVars, collectorVars, tableVars
  <1>2. MailerInv' /\ ClientInv'
    BY MailerStepInv, ClientStutterInv
  <1>3. TypeOK'
    BY <1>1, <1>2 DEF MailerInv, ClientInv, TypeOK
  <1>4. /\ Sending(t) /\ letter' = letter
        /\ \A c \in Clients : Sending(c)' => Sending(c)
        /\ delivered' \subseteq delivered \union
              {[owner |-> t, letter |-> letter[t], to |-> smtp.to]}
    BY MailerStepFacts DEF TypeOK
  <1>5. ASSUME NEW c \in Clients PROVE ClientRowInv(c)'
    <2>1. HandlerIdle(c)
      BY <1>1, <1>4 DEF HandlerIdle
    <2> QED BY <2>1, IdleKeeps
  <1>6. MainInv'
    BY <1>1 DEF MainInv, ThreadsIsolated, Settled, Dead
  <1>7. RowsBeforeMail'
    <2> SUFFICES ASSUME NEW m \in delivered'
                 PROVE  \E i \in DOMAIN machinestat[m.owner] :
                           LET b == machinestat[m.owner][i]
                           IN  b.epoch = m.letter.epoch
                               /\ m.letter.stat \in DueStats(m.owner, b.report.reading)
      BY <1>1 DEF RowsBeforeMail, DueStats, MailRequired
    <2>1. CASE m \in delivered
      BY <2>1 DEF RowsBeforeMail
    <2>2. CASE m = [owner |-> t, letter |-> letter[t], to |-> smtp.to]
      <3>1. /\ stage[t] = "mailing" /\ at[t] <= Len(StatTypes) /\ Due(t)
            /\ letter[t] = [stat |-> StatAt(t), epoch |-> epoch]
        BY <1>4 DEF ClientRowInv, ThreadInv
      <3>2. PICK i \in DOMAIN machinestat[t] : machinestat[t][i] = Batch(t)
        BY <3>1 DEF ClientRowInv, StatsInv, Stored
      <3>3. at[t] \in 1..Len(StatTypes)
        BY <3>1, StatTypesFacts DEF TypeOK
      <3>4. StatAt(t) \in StatSet
        BY <3>3, StatTypesFacts DEF StatAt
      <3>5. StatAt(t) \in DueStats(t, output[t].reading)
        BY <3>1, <3>4 DEF Due, DueStats
      <3> QED BY <2>2, <3>1, <3>2, <3>5 DEF Batch
    <2> QED BY <1>4, <2>1, <2>2
  <1> QED BY <1>2, <1>3, <1>5, <1>6, <1>7

LEMMA DropKeeps ==
    ASSUME CollectorInv, Drop, UNCHANGED <<clientVars, collectorVars>>
    PROVE  CollectorInv'
  <1> USE DEF CollectorInv
  <1>1. UNCHANGED <<clientVars, stage, at, mailed, tableVars, multithread, main, turn,
                    dialog, letter, delivered, pc>>
    BY DEF Drop, collectorVars, tableVars, clientVars
  <1>2. MailerInv'
    BY DropInv
  <1>3. main' \in MainSteps
    BY <1>1 DEF TypeOK
  <1>4. MainInv'
    BY <1>1 DEF MainInv, ThreadsIsolated, Settled, Dead
  <1> QED BY <1>1, <1>2, <1>3, <1>4, MainThreadRows

-----------------------------------------------------------------------------
(* Steps of the scripts.                                                   *)
LEMMA ScriptKeeps ==
    ASSUME CollectorInv, NEW p \in Scripts, ScriptStep(p),
           UNCHANGED <<mailerVars, collectorVars>>
    PROVE  CollectorInv'
  <1> USE DEF CollectorInv
  <1>1. UNCHANGED <<epoch, pc, output, multithread, main, turn, stage, at, mailed,
                    machinestat, machinelog, connection, dialog, waiting, letter,
                    smtp, replies, delivered>>
    BY DEF mailerVars, collectorVars, tableVars, ScriptStep, Load, OpenOut, Write,
           WriteUnlinked, ScriptFails
  <1>2. ClientInv'
    BY ScriptStepInv
  <1>3. MailerInv'
    BY <1>1 DEF MailerInv, MailerTypeOK, OneGo, GoAt, Holds
  <1>4. TypeOK'
    BY <1>1, <1>2, <1>3 DEF MailerInv, ClientInv, TypeOK
  <1>5. ASSUME NEW c \in Clients PROVE ClientRowInv(c)'
    <2>1. HandlerIdle(c)
      BY <1>1 DEF HandlerIdle, Sending
    <2> QED BY <2>1, IdleKeeps
  <1>6. MainInv'
    BY <1>1 DEF MainInv, ThreadsIsolated, Settled, Dead
  <1>7. RowsBeforeMail'
    BY <1>1, TracedKeeps DEF MailerInv
  <1> QED BY <1>2, <1>3, <1>4, <1>5, <1>6, <1>7

-----------------------------------------------------------------------------
(* Steps of did_client_executed.                                           *)
LEMMA HandlerFacts ==
    ASSUME TypeOK, MailerInv, NEW c \in Clients, HandlerStep(c)
    PROVE  /\ UNCHANGED <<clientVars, multithread, main, turn, delivered>>
           /\ UNCHANGED <<epoch, pc, output>>
           /\ pc[c] = "notified" \/ stage[c] # "waiting"
           /\ stage[c] \in {"waiting", "stats", "alerts", "mailing", "logs"}
           /\ \A d \in Clients \ {c} :
                 /\ stage'[d] = stage[d] /\ at'[d] = at[d] /\ mailed'[d] = mailed[d]
                 /\ machinestat'[d] = machinestat[d] /\ machinelog'[d] = machinelog[d]
                 /\ dialog'[d] = dialog[d] /\ letter'[d] = letter[d]
  <1> USE CollectorTypes DEF Proceed, mailerVars, clientVars, tableVars
  <1>1. CASE Decode(c) BY <1>1 DEF Decode
  <1>2. CASE InsertStats(c) BY <1>2 DEF InsertStats
  <1>3. CASE PassStat(c) BY <1>3 DEF PassStat
  <1>4. CASE MailAlert(c) BY <1>4 DEF MailAlert, Send
  <1>5. CASE MailReturns(c) BY <1>5 DEF MailReturns
  <1>6. CASE StatsDone(c) BY <1>6 DEF StatsDone
  <1>7. CASE InsertLogs(c) BY <1>7 DEF InsertLogs
  <1> QED BY <1>1, <1>2, <1>3, <1>4, <1>5, <1>6, <1>7 DEF HandlerStep

LEMMA HandlerTypes ==
    ASSUME CollectorInv, NEW c \in Clients, HandlerStep(c)
    PROVE  TypeOK' /\ MailerInv' /\ ClientInv'
  <1> USE DEF CollectorInv
  <1>1. UNCHANGED <<clientVars, multithread, main, turn>>
    BY HandlerFacts
  <1>2. ClientInv'
    BY <1>1, ClientStutterInv
  <1>3. MailerInv'
    <2>1. CASE MailAlert(c)
      <3>1. at[c] \in 1..Len(StatTypes)
        BY <2>1, StatTypesFacts DEF MailAlert, TypeOK
      <3>2. [stat |-> StatAt(c), epoch |-> epoch] \in Letters
        BY <3>1, LettersAssumption, StatTypesFacts DEF StatAt, TypeOK, ClientTypeOK
      <3> QED BY <2>1, <3>2, SendInv DEF MailAlert
    <2>2. CASE UNCHANGED mailerVars
      BY <2>2 DEF mailerVars, MailerInv, MailerTypeOK, OneGo, GoAt, Holds
    <2> QED BY <2>1, <2>2 DEF HandlerStep, Decode, InsertStats, PassStat, MailReturns,
                              StatsDone, InsertLogs
  <1>4. TypeOK'
    <2> SUFFICES /\ stage' \in [Clients -> Stages]
                 /\ at' \in [Clients -> 1..(Len(StatTypes) + 1)]
                 /\ mailed' \in [Clients -> [StatSet -> {"none", "sent", "refused"}]]
                 /\ machinestat' \in [Clients -> Seq(Batches)]
                 /\ machinelog' \in [Clients -> Seq(Batches)]
      BY <1>1, <1>2, <1>3 DEF MailerInv, ClientInv, TypeOK
    <2> USE CollectorTypes, StatTypesFacts DEF Proceed, tableVars, Stages
    <2>1. CASE Decode(c) BY <2>1 DEF Decode
    <2>2. CASE InsertStats(c)
      <3>1. Batch(c) \in Batches
        BY <2>2, BatchIsBatch DEF InsertStats, ClientRowInv, ThreadInv
      <3>2. Append(machinestat[c], Batch(c)) \in Seq(Batches)
        BY <3>1, AppendProperties
      <3>3. machinestat' \in [Clients -> Seq(Batches)]
        BY <2>2, <3>2 DEF InsertStats
      <3>4. stage' \in [Clients -> Stages]
        BY <2>2 DEF InsertStats
      <3> QED BY <2>2, <3>3, <3>4 DEF InsertStats
    <2>3. CASE PassStat(c) BY <2>3 DEF PassStat
    <2>4. CASE MailAlert(c) BY <2>4 DEF MailAlert
    <2>5. CASE MailReturns(c)
      <3>1. at[c] \in 1..Len(StatTypes)
        BY <2>5 DEF MailReturns, ClientRowInv, ThreadInv
      <3>2. StatAt(c) \in StatSet
        BY <3>1 DEF StatAt
      <3>3. mailed' \in [Clients -> [StatSet -> {"none", "sent", "refused"}]]
        <4>1. CASE UNCHANGED mailed
          BY <4>1
        <4>2. CASE /\ dialog[c] \in {"sent", "refused"}
                   /\ mailed' = [mailed EXCEPT ![c][StatAt(c)] = dialog[c]]
          BY <3>2, <4>2
        <4> QED BY <2>5, <4>1, <4>2 DEF MailReturns
      <3>4. at' \in [Clients -> 1..(Len(StatTypes) + 1)]
        <4>1. at' = at \/ at' = [at EXCEPT ![c] = at[c] + 1]
          BY <2>5 DEF MailReturns
        <4>2. at[c] + 1 \in 1..(Len(StatTypes) + 1)
          BY <3>1
        <4> QED BY <4>1, <4>2
      <3>5. stage' \in [Clients -> Stages]
        BY <2>5 DEF MailReturns
      <3> QED BY <2>5, <3>3, <3>4, <3>5 DEF MailReturns
    <2>6. CASE StatsDone(c) BY <2>6 DEF StatsDone
    <2>7. CASE InsertLogs(c)
      <3>1. Batch(c) \in Batches
        BY <2>7, BatchIsBatch DEF InsertLogs, ClientRowInv, ThreadInv, Stored
      <3>2. Append(machinelog[c], Batch(c)) \in Seq(Batches)
        BY <3>1, AppendProperties
      <3>3. machinelog' \in [Clients -> Seq(Batches)]
        BY <2>7, <3>2 DEF InsertLogs
      <3>4. stage' \in [Clients -> Stages]
        BY <2>7 DEF InsertLogs
      <3> QED BY <2>7, <3>3, <3>4 DEF InsertLogs
    <2> QED BY <2>1, <2>2, <2>3, <2>4, <2>5, <2>6, <2>7 DEF HandlerStep
  <1> QED BY <1>2, <1>3, <1>4

(* A commit appends one batch of this run behind those of earlier runs.    *)
LEMMA CommitFacts ==
    ASSUME NEW batches \in Seq(Batches), NEW b \in Batches, Increasing(batches),
           \A i \in DOMAIN batches : batches[i].epoch < b.epoch
    PROVE  /\ Increasing(Append(batches, b))
           /\ \A i \in DOMAIN batches :
                 i \in DOMAIN Append(batches, b) /\ Append(batches, b)[i] = batches[i]
           /\ Len(batches) + 1 \in DOMAIN Append(batches, b)
           /\ Append(batches, b)[Len(batches) + 1] = b
           /\ \A i \in DOMAIN Append(batches, b) :
                 i \in DOMAIN batches \/ i = Len(batches) + 1
  <1>1. /\ Len(Append(batches, b)) = Len(batches) + 1
        /\ DOMAIN Append(batches, b) = 1..(Len(batches) + 1)
        /\ DOMAIN batches = 1..Len(batches) /\ Len(batches) \in Nat
        /\ \A i \in 1..Len(batches) : Append(batches, b)[i] = batches[i]
        /\ Append(batches, b)[Len(batches) + 1] = b
    OBVIOUS
  <1> HIDE DEF Batches
  <1> QED BY <1>1 DEF Increasing

LEMMA InsertStatsRows ==
    ASSUME CollectorInv, NEW c \in Clients, InsertStats(c)
    PROVE  ClientRowInv(c)'
  <1> USE DEF CollectorInv, ClientRowInv
  <1>1. /\ stage[c] = "stats" /\ output[c] \in Reports /\ ~Sending(c)
        /\ UNCHANGED <<epoch, pc, output, at, mailed, machinelog, dialog, letter>>
        /\ \/ /\ machinestat'[c] = Append(machinestat[c], Batch(c))
              /\ stage'[c] \in {"alerts", "died"}
           \/ machinestat'[c] = machinestat[c] /\ stage'[c] = "died"
    BY CollectorTypes DEF InsertStats, Proceed, ThreadInv, mailerVars, clientVars
  <1>2. Batch(c) \in Batches /\ Batch(c).epoch = epoch /\ Batch(c)' = Batch(c)
    BY <1>1, BatchIsBatch DEF Batch
  <1>3. machinestat[c] \in Seq(Batches) /\ Increasing(machinestat[c])
        /\ \A i \in DOMAIN machinestat[c] : machinestat[c][i].epoch < Batch(c).epoch
    BY <1>1, <1>2, CollectorTypes DEF StatsInv
  <1>4. ThreadInv(c)'
    BY <1>1 DEF ThreadInv, Sending, Stored
  <1>5. AlertsInv(c)'
    BY <1>1 DEF AlertsInv, Stored
  <1>6. CASE machinestat'[c] = machinestat[c] /\ stage'[c] = "died"
    <2>1. StatsInv(c)'
      BY <1>1, <1>6 DEF StatsInv, Increasing, Stored
    <2>2. LogsInv(c)'
      BY <1>1, <1>6 DEF LogsInv, Increasing
    <2> QED BY <1>4, <1>5, <2>1, <2>2
  <1>7. CASE machinestat'[c] = Append(machinestat[c], Batch(c)) /\ stage'[c] \in {"alerts", "died"}
    <2>1. /\ Increasing(machinestat'[c])
          /\ \A i \in DOMAIN machinestat[c] :
                i \in DOMAIN machinestat'[c] /\ machinestat'[c][i] = machinestat[c][i]
          /\ Len(machinestat[c]) + 1 \in DOMAIN machinestat'[c]
          /\ machinestat'[c][Len(machinestat[c]) + 1] = Batch(c)
          /\ \A i \in DOMAIN machinestat'[c] :
                i \in DOMAIN machinestat[c] \/ i = Len(machinestat[c]) + 1
      BY <1>2, <1>3, <1>7, CommitFacts
    <2>2. epoch <= epoch
      BY EpochIsNat
    <2>3. StatsInv(c)'
      <3>1. Increasing(machinestat[c])'
        BY <2>1 DEF Increasing
      <3>2. \A i \in DOMAIN machinestat'[c] : machinestat'[c][i].epoch <= epoch
        BY <1>2, <2>1, <2>2 DEF StatsInv
      <3> QED BY <1>1, <1>2, <1>7, <2>1, <3>1, <3>2 DEF StatsInv
    <2>4. LogsInv(c)'
      BY <1>1, <2>1 DEF LogsInv, Increasing
    <2> QED BY <1>4, <1>5, <2>3, <2>4
  <1> QED BY <1>1, <1>6, <1>7

LEMMA InsertLogsRows ==
    ASSUME CollectorInv, NEW c \in Clients, InsertLogs(c)
    PROVE  ClientRowInv(c)'
  <1> USE DEF CollectorInv, ClientRowInv
  <1>1. /\ stage[c] = "logs" /\ output[c] \in Reports /\ ~Sending(c)
        /\ UNCHANGED <<epoch, pc, output, at, mailed, machinestat, dialog, letter>>
        /\ \/ /\ machinelog'[c] = Append(machinelog[c], Batch(c))
              /\ stage'[c] \in {"complete", "died"}
           \/ machinelog'[c] = machinelog[c] /\ stage'[c] = "died"
    BY CollectorTypes DEF InsertLogs, Proceed, ThreadInv, Stored, mailerVars, clientVars
  <1>2. Batch(c) \in Batches /\ Batch(c).epoch = epoch /\ Batch(c)' = Batch(c)
        /\ Batch(c).report = output[c]
    BY <1>1, BatchIsBatch DEF Batch
  <1>3. epoch \in Nat /\ \A i \in DOMAIN machinelog[c] : machinelog[c][i].epoch \in Nat
    <2>1. \A i \in DOMAIN machinelog[c] : machinelog[c][i] \in Batches
      BY CollectorTypes
    <2> QED BY <2>1, EpochIsNat, MaxEpochAssumption DEF Batches, Epochs
  <1>4. machinelog[c] \in Seq(Batches) /\ Increasing(machinelog[c])
        /\ \A i \in DOMAIN machinelog[c] : machinelog[c][i].epoch < Batch(c).epoch
    <2>1. ASSUME NEW i \in DOMAIN machinelog[c]
          PROVE  machinelog[c][i].epoch <= epoch /\ machinelog[c][i].epoch # epoch
      BY <1>1 DEF LogsInv
    <2>2. machinelog[c] \in Seq(Batches) /\ Increasing(machinelog[c])
      BY CollectorTypes DEF LogsInv
    <2> QED BY <1>2, <1>3, <2>1, <2>2
  <1>5. ThreadInv(c)'
    BY <1>1 DEF ThreadInv, Sending, Stored
  <1>6. AlertsInv(c)'
    BY <1>1 DEF AlertsInv, Stored, Tried
  <1>7. StatsInv(c)'
    BY <1>1, <1>2 DEF StatsInv, Increasing, Stored
  <1>8. CASE machinelog'[c] = machinelog[c] /\ stage'[c] = "died"
    <2>1. LogsInv(c)'
      BY <1>1, <1>8 DEF LogsInv, Increasing
    <2> QED BY <1>5, <1>6, <1>7, <2>1
  <1>9. CASE machinelog'[c] = Append(machinelog[c], Batch(c)) /\ stage'[c] \in {"complete", "died"}
    <2>1. /\ Increasing(machinelog'[c])
          /\ \A i \in DOMAIN machinelog[c] :
                i \in DOMAIN machinelog'[c] /\ machinelog'[c][i] = machinelog[c][i]
          /\ machinelog'[c][Len(machinelog[c]) + 1] = Batch(c)
          /\ \A i \in DOMAIN machinelog'[c] :
                i \in DOMAIN machinelog[c] \/ i = Len(machinelog[c]) + 1
      BY <1>2, <1>4, <1>9, CommitFacts
    <2>2. epoch <= epoch
      BY <1>3
    <2>3. PICK j \in DOMAIN machinestat[c] : machinestat[c][j] = Batch(c)
      BY <1>1 DEF StatsInv, Stored
    <2>4. LogsInv(c)'
      <3>1. Increasing(machinelog[c])'
        BY <2>1 DEF Increasing
      <3>2. ASSUME NEW i \in DOMAIN machinelog'[c]
            PROVE  /\ machinelog'[c][i].epoch <= epoch
                   /\ machinelog'[c][i].epoch = epoch =>
                         machinelog'[c][i].report = output[c] /\ AllTried(c)
                   /\ \E k \in DOMAIN machinestat[c] :
                         machinelog'[c][i] = machinestat[c][k]
        <4>1. CASE i \in DOMAIN machinelog[c]
          BY <2>1, <4>1 DEF LogsInv
        <4>2. CASE i = Len(machinelog[c]) + 1
          <5>1. machinelog'[c][i] = Batch(c) /\ Batch(c) = machinestat[c][j]
            BY <2>1, <2>3, <4>2
          <5>2. Batch(c).epoch = epoch /\ Batch(c).report = output[c]
            BY <1>2
          <5>3. AllTried(c)
            BY <1>1, CollectorTypes, StatTypesFacts DEF AlertsInv, Stored, AllTried
          <5> QED BY <2>2, <2>3, <5>1, <5>2, <5>3
        <4> QED BY <2>1, <4>1, <4>2
      <3>3. AllTried(c)' <=> AllTried(c)
        BY <1>1 DEF AllTried, Tried, DueStats, MailRequired
      <3> QED BY <1>1, <1>9, <3>1, <3>2, <3>3 DEF LogsInv
    <2> QED BY <1>5, <1>6, <1>7, <2>4
  <1> QED BY <1>1, <1>8, <1>9

(* The handler's steps that commit nothing.                                *)
LEMMA NoCommitRows ==
    ASSUME CollectorInv, NEW c \in Clients,
           UNCHANGED <<epoch, output, machinestat, machinelog>>,
           stage[c] \notin {"waiting", "complete", "died"},
           stage'[c] \in Stored \ {"complete"} => stage[c] \in Stored,
           stage'[c] \notin {"waiting", "stats", "complete"}
    PROVE  StatsInv(c)' /\ LogsInv(c)'
  <1> USE DEF CollectorInv, ClientRowInv
  <1>1. Batch(c)' = Batch(c)
    BY DEF Batch
  <1>2. StatsInv(c)'
    BY <1>1 DEF StatsInv, Increasing, Stored
  <1>3. LogsInv(c)'
    BY DEF LogsInv, Increasing
  <1> QED BY <1>2, <1>3

LEMMA DecodeRows ==
    ASSUME CollectorInv, NEW c \in Clients, Decode(c)
    PROVE  ClientRowInv(c)'
  <1> USE DEF CollectorInv, ClientRowInv
  <1>1. /\ stage[c] = "waiting" /\ pc[c] = "notified" /\ ~Sending(c)
        /\ UNCHANGED <<epoch, pc, output, at, mailed, machinestat, machinelog, dialog, letter>>
        /\ \/ stage'[c] = "stats" /\ output[c] \in Reports
           \/ stage'[c] = "skipped"
    BY CollectorTypes DEF Decode, Proceed, ThreadInv, mailerVars, clientVars, tableVars
  <1>2. ThreadInv(c)' /\ AlertsInv(c)'
    BY <1>1 DEF ThreadInv, AlertsInv, Sending, Stored
  <1>3. StatsInv(c)' /\ LogsInv(c)'
    BY <1>1 DEF StatsInv, LogsInv, Increasing, Stored
  <1> QED BY <1>2, <1>3

LEMMA AlertRows ==
    ASSUME CollectorInv, NEW c \in Clients,
           PassStat(c) \/ MailAlert(c) \/ MailReturns(c) \/ StatsDone(c)
    PROVE  ClientRowInv(c)'
  <1> USE DEF CollectorInv, ClientRowInv
  <1>1. at[c] \in Nat /\ 1 <= at[c] /\ at[c] <= Len(StatTypes) + 1 /\ Len(StatTypes) \in Nat
    BY CollectorTypes, StatTypesFacts
  <1>2. /\ UNCHANGED <<epoch, pc, output, machinestat, machinelog>>
        /\ stage[c] \in {"alerts", "mailing"}
        /\ stage'[c] \in {"alerts", "mailing", "logs", "died"}
    BY CollectorTypes DEF PassStat, MailAlert, MailReturns, StatsDone, Proceed,
       clientVars, tableVars
  <1>3. StatsInv(c)' /\ LogsInv(c)'
    BY <1>2, NoCommitRows DEF Stored
  <1>4. pc[c] = "notified" /\ output[c] \in Reports
    BY <1>2 DEF ThreadInv, Stored
  <1>5. \A i \in 1..(at[c] - 1) : Tried(c, i)
    BY <1>2 DEF AlertsInv, Stored
  <1>6. CASE PassStat(c)
    <2>1. /\ stage[c] = "alerts" /\ stage' = stage /\ dialog' = dialog
          /\ at[c] <= Len(StatTypes) /\ ~Due(c) /\ at'[c] = at[c] + 1 /\ mailed' = mailed
      BY <1>6, CollectorTypes DEF PassStat, mailerVars
    <2>2. ThreadInv(c)'
      BY <1>2, <1>4, <2>1 DEF ThreadInv, Sending
    <2>3. Tried(c, at[c])
      BY <2>1 DEF Tried, Due, StatAt, DueStats
    <2>4. \A i \in 1..(at'[c] - 1) : Tried(c, i)
      BY <1>1, <1>5, <2>1, <2>3
    <2>5. AlertsInv(c)'
      BY <1>2, <2>1, <2>4 DEF AlertsInv, Tried
    <2> QED BY <1>3, <2>2, <2>5
  <1>7. CASE MailAlert(c)
    <2>1. /\ stage'[c] = "mailing" /\ UNCHANGED <<at, mailed>>
          /\ at[c] <= Len(StatTypes) /\ Due(c)
          /\ letter'[c] = [stat |-> StatAt(c), epoch |-> epoch]
      BY <1>7, CollectorTypes DEF MailAlert, Send, Proceed
    <2>2. Due(c)' /\ StatAt(c)' = StatAt(c)
      BY <1>2, <2>1 DEF Due, StatAt, MailRequired
    <2>3. ThreadInv(c)'
      BY <1>2, <1>4, <2>1, <2>2 DEF ThreadInv
    <2>4. AlertsInv(c)'
      BY <1>2, <1>5, <2>1 DEF AlertsInv, Tried
    <2> QED BY <1>3, <2>3, <2>4
  <1>8. CASE MailReturns(c)
    <2>1. UNCHANGED dialog /\ ~Sending(c)
      BY <1>8 DEF MailReturns, mailerVars, Sending, Commands
    <2>2. CASE stage'[c] = "died"
      BY <1>2, <1>3, <1>4, <2>1, <2>2 DEF ThreadInv, AlertsInv, Sending, Stored
    <2>3. CASE stage'[c] # "died"
      <3>1. /\ stage'[c] = "alerts" /\ at'[c] = at[c] + 1
            /\ dialog[c] \in {"sent", "refused"}
            /\ mailed' = [mailed EXCEPT ![c][StatAt(c)] = dialog[c]]
        BY <1>8, <2>3, CollectorTypes DEF MailReturns, Proceed
      <3>2. at[c] \in 1..Len(StatTypes) /\ StatAt(c) \in StatSet
        <4>1. at[c] <= Len(StatTypes)
          BY <1>8 DEF MailReturns, ThreadInv
        <4>2. at[c] \in 1..Len(StatTypes)
          BY <1>1, <4>1
        <4> QED BY <4>2, StatTypesFacts DEF StatAt
      <3>3. \A t \in StatSet : mailed'[c][t] = IF t = StatAt(c) THEN dialog[c] ELSE mailed[c][t]
        BY <3>1, CollectorTypes
      <3>4. \A i \in 1..(at'[c] - 1) : Tried(c, i)'
        <4> SUFFICES ASSUME NEW i \in 1..(at'[c] - 1),
                            StatTypes[i] \in DueStats(c, output[c].reading)
                     PROVE  mailed'[c][StatTypes[i]] # "none"
          BY <1>2 DEF Tried, DueStats
        <4>1. StatTypes[i] \in StatSet
          BY DEF DueStats
        <4>2. CASE StatTypes[i] = StatAt(c)
          BY <3>1, <3>3, <4>1, <4>2
        <4>3. CASE StatTypes[i] # StatAt(c)
          <5>1. i \in 1..(at[c] - 1)
            BY <1>1, <3>1, <4>3 DEF StatAt
          <5> QED BY <1>5, <3>3, <4>1, <4>3, <5>1 DEF Tried
        <4> QED BY <4>2, <4>3
      <3>5. AlertsInv(c)'
        BY <3>1, <3>4 DEF AlertsInv, Stored
      <3>6. ThreadInv(c)'
        BY <1>2, <1>4, <2>1, <3>1 DEF ThreadInv, Sending
      <3> QED BY <1>3, <3>5, <3>6
    <2> QED BY <2>2, <2>3
  <1>9. CASE StatsDone(c)
    <2>1. /\ stage[c] = "alerts" /\ stage'[c] = "logs" /\ UNCHANGED <<at, mailed, dialog>>
          /\ at[c] > Len(StatTypes)
      BY <1>9, CollectorTypes DEF StatsDone, Proceed, mailerVars
    <2>2. ThreadInv(c)'
      BY <1>2, <1>4, <2>1 DEF ThreadInv, Sending
    <2>3. AlertsInv(c)'
      BY <1>2, <1>5, <2>1 DEF AlertsInv, Tried
    <2> QED BY <1>3, <2>2, <2>3
  <1> QED BY <1>6, <1>7, <1>8, <1>9

LEMMA RowsGrow ==
    ASSUME TypeOK, NEW c \in Clients, HandlerStep(c), TypeOK'
    PROVE  \A d \in Clients : \A i \in DOMAIN machinestat[d] :
              i \in DOMAIN machinestat'[d] /\ machinestat'[d][i] = machinestat[d][i]
  <1>1. CASE UNCHANGED machinestat
    BY <1>1
  <1>2. CASE machinestat' = [machinestat EXCEPT ![c] = Append(machinestat[c], Batch(c))]
    <2>1. machinestat[c] \in Seq(Batches)
          /\ machinestat'[c] = Append(machinestat[c], Batch(c))
          /\ \A d \in Clients \ {c} : machinestat'[d] = machinestat[d]
      BY <1>2, CollectorTypes
    <2>2. \A i \in DOMAIN machinestat[c] :
             i \in DOMAIN machinestat'[c] /\ machinestat'[c][i] = machinestat[c][i]
      <3> HIDE DEF Batches, Batch
      <3> QED BY <2>1
    <2> QED BY <2>1, <2>2
  <1> QED BY <1>1, <1>2 DEF HandlerStep, Decode, InsertStats, PassStat, MailAlert,
                            MailReturns, StatsDone, InsertLogs, tableVars

LEMMA HandlerKeeps ==
    ASSUME CollectorInv, NEW c \in Clients, HandlerStep(c)
    PROVE  CollectorInv'
  <1> USE DEF CollectorInv
  <1>1. TypeOK' /\ MailerInv' /\ ClientInv'
    BY HandlerTypes
  <1>2. /\ UNCHANGED <<multithread, main, turn, delivered, epoch, pc, output>>
        /\ pc[c] = "notified" \/ stage[c] # "waiting"
        /\ stage[c] \in {"waiting", "stats", "alerts", "mailing", "logs"}
        /\ \A d \in Clients \ {c} :
              /\ stage'[d] = stage[d] /\ at'[d] = at[d] /\ mailed'[d] = mailed[d]
              /\ machinestat'[d] = machinestat[d] /\ machinelog'[d] = machinelog[d]
              /\ dialog'[d] = dialog[d] /\ letter'[d] = letter[d]
    BY HandlerFacts
  <1>3. ClientRowInv(c)'
    BY DecodeRows, InsertStatsRows, AlertRows, InsertLogsRows DEF HandlerStep
  <1>4. ASSUME NEW d \in Clients \ {c} PROVE ClientRowInv(d)'
    <2>1. HandlerIdle(d)
      BY <1>2 DEF HandlerIdle, Sending
    <2> QED BY <2>1, IdleKeeps
  <1>5. MainInv'
    <2>1. Active(c)
      BY <1>2 DEF ClientRowInv, ThreadInv, Active, Settled
    <2> QED BY <1>2, <2>1, ActiveKeepsMain
  <1>6. RowsBeforeMail'
    BY <1>1, <1>2, RowsGrow, TracedKeeps DEF TypeOK
  <1> QED BY <1>1, <1>3, <1>4, <1>5, <1>6

-----------------------------------------------------------------------------
(* main is run again.                                                      *)
LEMMA NewRunKeeps ==
    ASSUME CollectorInv, NewRun
    PROVE  CollectorInv'
  <1> USE DEF CollectorInv
  <1>1. /\ epoch' = epoch + 1 /\ epoch \in Nat
        /\ pc' = [c \in Clients |-> "idle"]
        /\ UNCHANGED <<machinestat, machinelog, delivered, letter, multithread>>
        /\ stage' = [c \in Clients |-> "waiting"] /\ at' = [c \in Clients |-> 1]
        /\ dialog' = [c \in Clients |-> "idle"] /\ main' = "start" /\ turn' = 1
        /\ mailed' = Unmailed /\ connection' = "none" /\ replies' = <<>>
        /\ waiting' = [c \in Clients |-> FALSE] /\ smtp' = [mode |-> "ready", to |-> {}]
    BY EpochIsNat DEF NewRun, Rerun, tableVars
  <1>2. ClientInv'
    BY RerunInv DEF NewRun
  <1>3. MailerInv'
    <2>1. MailerTypeOK'
      BY <1>1 DEF TypeOK, MailerTypeOK, Modes
    <2>2. OneGo'
      BY <1>1 DEF OneGo, GoAt, Holds
    <2> QED BY <2>1, <2>2 DEF MailerInv
  <1>4. TypeOK'
    <2>1. at' \in [Clients -> 1..(Len(StatTypes) + 1)]
      BY <1>1, StatTypesFacts
    <2>2. turn' \in 1..(NumClients + 1)
      BY <1>1, NumClientsAssumption
    <2>3. mailed' \in [Clients -> [StatSet -> {"none", "sent", "refused"}]]
      BY <1>1 DEF Unmailed
    <2> QED BY <1>1, <1>2, <1>3, <2>1, <2>2, <2>3
        DEF TypeOK, MailerInv, ClientInv, MainSteps, Stages
  <1>5. ASSUME NEW c \in Clients PROVE ClientRowInv(c)'
    <2>1. /\ stage'[c] = "waiting" /\ at'[c] = 1 /\ dialog'[c] = "idle"
          /\ machinestat'[c] = machinestat[c] /\ machinelog'[c] = machinelog[c]
      BY <1>1
    <2>2. \A i \in DOMAIN machinestat[c] : machinestat[c][i].epoch \in Nat
      <3>1. \A i \in DOMAIN machinestat[c] : machinestat[c][i] \in Batches
        BY CollectorTypes
      <3> QED BY <3>1, MaxEpochAssumption DEF Batches, Epochs
    <2>3. \A i \in DOMAIN machinelog[c] : machinelog[c][i].epoch \in Nat
      <3>1. \A i \in DOMAIN machinelog[c] : machinelog[c][i] \in Batches
        BY CollectorTypes
      <3> QED BY <3>1, MaxEpochAssumption DEF Batches, Epochs
    <2>4. ThreadInv(c)' /\ AlertsInv(c)'
      BY <2>1 DEF ThreadInv, AlertsInv, Sending, Commands, Stored
    <2>5. StatsInv(c)'
      BY <1>1, <2>1, <2>2 DEF ClientRowInv, StatsInv, Increasing, Stored
    <2>6. LogsInv(c)'
      BY <1>1, <2>1, <2>3 DEF ClientRowInv, LogsInv, Increasing
    <2> QED BY <2>4, <2>5, <2>6 DEF ClientRowInv
  <1>6. MainInv'
    BY <1>1 DEF MainInv, ThreadsIsolated, Clients
  <1>7. RowsBeforeMail'
    BY <1>1, TracedKeeps DEF TypeOK
  <1> QED BY <1>2, <1>3, <1>4, <1>5, <1>6, <1>7

LEMMA StutterKeeps ==
    ASSUME CollectorInv, UNCHANGED vars
    PROVE  CollectorInv'
  <1> USE DEF CollectorInv
  <1>1. UNCHANGED <<clientVars, stage, at, mailed, tableVars, multithread, main, turn,
                    dialog, letter, delivered, pc, connection, waiting, smtp, replies>>
    BY DEF vars, mailerVars, collectorVars, clientVars, tableVars
  <1>2. MailerInv'
    BY <1>1 DEF MailerInv, MailerTypeOK, OneGo, GoAt, Holds
  <1>3. MainInv'
    BY <1>1 DEF MainInv, ThreadsIsolated, Settled, Dead
  <1> QED BY <1>1, <1>2, <1>3, MainThreadRows DEF TypeOK

LEMMA CollectorNextInv == CollectorInv /\ [Next]_vars => CollectorInv'
  <1> SUFFICES ASSUME CollectorInv, [Next]_vars PROVE CollectorInv'
    OBVIOUS
  <1>1. CASE MainStep
    BY <1>1, MainStepKeeps
  <1>2. ASSUME NEW c \in Clients, ThreadStep(c) PROVE CollectorInv'
    BY <1>2, RunStepKeeps, MailerStepKeeps, HandlerKeeps DEF ThreadStep
  <1>3. ASSUME NEW p \in Scripts, ScriptStep(p), UNCHANGED <<mailerVars, collectorVars>>
        PROVE  CollectorInv'
    BY <1>3, ScriptKeeps
  <1>4. CASE Environment
    BY <1>4, RunStepKeeps, DropKeeps DEF Environment
  <1>5. CASE NewRun
    BY <1>5, NewRunKeeps
  <1>6. CASE UNCHANGED vars
    BY <1>6, StutterKeeps
  <1> QED BY <1>1, <1>2, <1>3, <1>4, <1>5, <1>6 DEF Next

LEMMA CollectorInvariant == Spec => []CollectorInv
  BY CollectorInitInv, CollectorNextInv, PTL DEF Spec

-----------------------------------------------------------------------------
(* The type invariant, for any number of clients and of runs.              *)
THEOREM CollectorTyping == Spec => []TypeOK
  <1>1. CollectorInv => TypeOK
    BY DEF CollectorInv
  <1> QED BY <1>1, CollectorInvariant, PTL

(* A mail can be traced to a committed row of the client it is about.      *)
THEOREM MailsAreTraced == Spec => []RowsBeforeMail
  <1>1. CollectorInv => RowsBeforeMail
    BY DEF CollectorInv
  <1> QED BY <1>1, CollectorInvariant, PTL

(* At most one batch per run, client and table, and no logs without the    *)
(* statistics of the same output.                                          *)
THEOREM BatchesAreSingle == Spec => []OneBatchPerRun
  <1>1. CollectorInv => OneBatchPerRun
    BY DEF CollectorInv, ClientRowInv, StatsInv, LogsInv, OneBatchPerRun
  <1> QED BY <1>1, CollectorInvariant, PTL

(* A batch of logs marks a client whose due alerts were all tried.         *)
THEOREM LogsCloseTheAlerts == Spec => []AlertsBeforeLogs
  <1>1. CollectorInv => AlertsBeforeLogs
    <2> SUFFICES ASSUME CollectorInv, NEW c \in Clients, NEW i \in DOMAIN machinelog[c],
                        machinelog[c][i].epoch = epoch,
                        NEW t \in DueStats(c, machinelog[c][i].report.reading)
                 PROVE  mailed[c][t] # "none"
      BY DEF AlertsBeforeLogs
    <2>1. machinelog[c][i].report = output[c] /\ AllTried(c)
      BY DEF CollectorInv, ClientRowInv, LogsInv
    <2>2. PICK j \in 1..Len(StatTypes) : StatTypes[j] = t
      BY StatTypesFacts DEF DueStats, StatSet
    <2> QED BY <2>1, <2>2 DEF AllTried, Tried
  <1> QED BY <1>1, CollectorInvariant, PTL

(* With threads no client can end the run, and the mailer is disconnected  *)
(* only when every client is settled.                                      *)
THEOREM ClientsAreIsolated == Spec => []ThreadsIsolated
  <1>1. CollectorInv => ThreadsIsolated
    BY DEF CollectorInv, MainInv
  <1> QED BY <1>1, CollectorInvariant, PTL

-----------------------------------------------------------------------------
(* Without threads the dialogue is a conversation of two.  What the thread *)
(* t that mails can find when it writes its next command, and when it reads*)
(* the reply to one: nothing from a server that is gone, a refusal, or what*)
(* it asked for, and never a reply or a recipient of an earlier mail.      *)
Accepted(t) == [owner |-> t, letter |-> letter[t], to |-> {t}] \in delivered
Quiet == replies = <<>> /\ smtp.mode # "data"
ServerAt(mode, to) == smtp.mode \in {mode, "gone"} /\ smtp.to = to

Writes(t) ==
    /\ replies = <<>>
    /\ dialog[t] \in {"mail", "rset"} => smtp.mode # "data"
    /\ dialog[t] = "rcpt" => ServerAt("mail", {})
    /\ dialog[t] = "data" => ServerAt("rcpt", {t})
    /\ dialog[t] = "body" => ServerAt("data", {t})

Silent  == replies = <<>> /\ smtp.mode = "gone"
Refused == replies = <<"err">> /\ smtp.mode # "data"
Granted(t) ==
    \/ dialog[t] = "mail" /\ replies = <<"ok">> /\ ServerAt("mail", {})
    \/ dialog[t] = "rcpt" /\ replies = <<"ok">> /\ ServerAt("rcpt", {t})
    \/ dialog[t] = "data" /\ replies = <<"go">> /\ ServerAt("data", {t})
    \/ dialog[t] = "body" /\ replies = <<"ok">> /\ smtp.mode # "data" /\ Accepted(t)
    \/ dialog[t] = "rset" /\ replies = <<"ok">> /\ smtp.mode # "data"

Talk(t) ==
    IF waiting[t] THEN Silent \/ Refused \/ Granted(t) ELSE Writes(t)

(* A mail that send returned True for, or is about to, was accepted.       *)
SentInv ==
    /\ \A m \in delivered : m.to = {m.owner}
    /\ \A c \in Clients, t \in StatSet : mailed[c][t] = "sent" =>
          [owner |-> c, letter |-> [stat |-> t, epoch |-> epoch], to |-> {c}]
              \in delivered
    /\ \A c \in Clients : stage[c] = "mailing" /\ dialog[c] = "sent" => Accepted(c)

LineInv ==
    /\ \A c \in Clients : waiting[c] => Sending(c)
    /\ connection = "none" => Quiet
    /\ Live /\ (\A c \in Clients : ~Sending(c)) => Quiet
    /\ Live => \A c \in Clients : Sending(c) => Talk(c)

DialogueInv == ~multithread => SentInv /\ LineInv

(* Without threads one client at a time is past its start and not settled. *)
LEMMA OneActive ==
    ASSUME CollectorInv, ~multithread, NEW c \in Clients, NEW d \in Clients,
           Active(c), Active(d)
    PROVE  c = d
  <1>1. c < turn /\ c >= turn - 1 /\ d < turn /\ d >= turn - 1
    BY ActiveClient DEF CollectorInv
  <1>2. turn \in Nat /\ c \in Nat /\ d \in Nat
    BY NumClientsAssumption DEF CollectorInv, TypeOK, Clients
  <1> QED BY <1>1, <1>2

LEMMA HandlerIsActive ==
    ASSUME CollectorInv, NEW c \in Clients,
           Sending(c) \/ stage[c] \in {"stats", "alerts", "mailing", "logs"}
    PROVE  Active(c) /\ (Sending(c) => stage[c] = "mailing")
  BY DEF CollectorInv, ClientRowInv, ThreadInv, Active, Settled

LEMMA OneTalker ==
    ASSUME CollectorInv, ~multithread, NEW c \in Clients, Sending(c)
    PROVE  \A d \in Clients \ {c} : ~Sending(d)
  BY OneActive, HandlerIsActive

LEMMA DialogueInit == Init => DialogueInv
  BY DEF Init, MailerInit, DialogueInv, SentInv, LineInv, Quiet, Live, Sending, Unmailed,
         Commands

(* Steps that have nothing to do with mail.                                *)
LEMMA DialogueIdle ==
    ASSUME DialogueInv, UNCHANGED <<mailerVars, mailed, epoch, multithread>>,
           \A c \in Clients : stage'[c] = "mailing" => stage[c] = "mailing"
    PROVE  DialogueInv'
  <1>1. UNCHANGED <<connection, dialog, waiting, letter, smtp, replies, delivered>>
    BY DEF mailerVars
  <1>2. SentInv => SentInv'
    BY <1>1 DEF SentInv, Accepted
  <1>3. LineInv => LineInv'
    BY <1>1 DEF LineInv, Quiet, Live, Sending, Talk, Writes, Silent, Refused, Granted,
                Accepted, ServerAt
  <1> QED BY <1>2, <1>3 DEF DialogueInv

LEMMA DialogueConnection ==
    ASSUME CollectorInv, DialogueInv, MailerConnect \/ MailerDisconnect
    PROVE  DialogueInv'
  <1>1. UNCHANGED <<epoch, multithread, stage, mailed, dialog, waiting, letter, smtp,
                    replies, delivered>>
    BY DEF MailerConnect, MailerDisconnect, Connect, ConnectRaises, Disconnect,
           DisconnectRaises, clientVars
  <1> SUFFICES ASSUME ~multithread PROVE SentInv' /\ LineInv'
    BY <1>1 DEF DialogueInv
  <1>2. SentInv'
    BY <1>1 DEF DialogueInv, SentInv, Accepted
  <1>3. CASE MailerConnect
    <2>1. \A c \in Clients : ~Sending(c)
      BY <1>3, HandlerIsActive, ActiveClient DEF MailerConnect, CollectorInv
    <2>2. connection = "none" \/ connection' = connection
      BY <1>3 DEF MailerConnect, Connect, ConnectRaises
    <2> QED BY <1>1, <1>2, <2>1, <2>2 DEF DialogueInv, LineInv, Quiet, Live, Sending
  <1>4. CASE MailerDisconnect
    <2>1. connection' \in {"none", "closed"} /\ (connection' = "none" => connection = "none")
      BY <1>4 DEF MailerDisconnect, Disconnect, DisconnectRaises
    <2> QED BY <1>1, <1>2, <2>1 DEF DialogueInv, LineInv, Quiet, Live, Sending
  <1> QED BY <1>2, <1>3, <1>4

LEMMA DialogueDrop ==
    ASSUME CollectorInv, DialogueInv, Drop, UNCHANGED <<clientVars, collectorVars>>
    PROVE  DialogueInv'
  <1>1. /\ UNCHANGED <<epoch, multithread, stage, mailed, connection, dialog, waiting,
                       letter, replies, delivered>>
        /\ smtp'.mode = "gone" /\ smtp'.to = smtp.to
    BY DEF Drop, clientVars, collectorVars, CollectorInv, MailerInv, MailerTypeOK
  <1>2. SentInv => SentInv'
    BY <1>1 DEF SentInv, Accepted
  <1>3. LineInv => LineInv'
    BY <1>1 DEF LineInv, Quiet, Live, Sending, Talk, Writes, Silent, Refused, Granted,
                Accepted, ServerAt
  <1> QED BY <1>1, <1>2, <1>3 DEF DialogueInv

-----------------------------------------------------------------------------
(* The talker's own steps.                                                 *)
LEMMA DialogueTransmit ==
    ASSUME CollectorInv, DialogueInv, NEW t \in Clients, Transmit(t),
           UNCHANGED <<clientVars, collectorVars>>
    PROVE  DialogueInv'
  <1>1. /\ UNCHANGED <<epoch, multithread, stage, mailed, connection, dialog, letter>>
        /\ Sending(t) /\ ~waiting[t] /\ Live
        /\ waiting' = [waiting EXCEPT ![t] = TRUE]
    BY DEF Transmit, clientVars, collectorVars
  <1> SUFFICES ASSUME ~multithread PROVE SentInv' /\ LineInv'
    BY <1>1 DEF DialogueInv
  <1>2. /\ \A d \in Clients \ {t} : ~Sending(d) /\ waiting'[d] = waiting[d]
        /\ waiting'[t] /\ Sending(t)' /\ \A d \in Clients : Sending(d)' <=> Sending(d)
    BY <1>1, OneTalker DEF CollectorInv, MailerInv, MailerTypeOK, Sending
  <1>3. SentInv /\ Writes(t) /\ \A d \in Clients : waiting[d] => Sending(d)
    BY <1>1 DEF DialogueInv, LineInv, Talk
  <1>4. ASSUME (Silent \/ Refused \/ Granted(t))' PROVE LineInv'
    BY <1>1, <1>2, <1>3, <1>4 DEF LineInv, Live, Talk
  <1>5. ASSUME UNCHANGED delivered PROVE SentInv'
    BY <1>1, <1>3, <1>5 DEF SentInv, Accepted
  <1>6. CASE smtp.mode = "gone"
    <2>1. UNCHANGED <<smtp, replies, delivered>>
      BY <1>6 DEF Transmit
    <2>2. Silent'
      BY <1>3, <1>6, <2>1 DEF Writes, Silent
    <2> QED BY <1>4, <1>5, <2>1, <2>2
  <1>7. CASE smtp.mode = "data"
    <2>1. dialog[t] = "body" /\ smtp.to = {t} /\ replies = <<>>
      BY <1>1, <1>3, <1>7 DEF Writes, ServerAt, Sending, Commands
    <2>2. TakeText(t)
      BY <1>7 DEF Transmit
    <2>3. CASE Answer("ready", {}, "ok") /\ delivered' = delivered \union
                  {[owner |-> t, letter |-> letter[t], to |-> smtp.to]}
      <3>1. replies' = <<"ok">> /\ smtp'.mode = "ready"
        BY <2>1, <2>3 DEF Answer
      <3>2. Accepted(t)'
        BY <1>1, <2>1, <2>3 DEF Accepted
      <3>3. Granted(t)'
        BY <1>1, <2>1, <3>1, <3>2 DEF Granted
      <3>4. \A m \in delivered' : m.to = {m.owner}
        BY <1>3, <2>1, <2>3 DEF SentInv
      <3>5. SentInv'
        BY <1>1, <1>3, <2>3, <3>4 DEF SentInv, Accepted
      <3> QED BY <1>4, <3>3, <3>5
    <2>4. CASE Answer("ready", {}, "err") /\ UNCHANGED delivered
      <3>1. Refused'
        BY <2>1, <2>4 DEF Answer, Refused
      <3> QED BY <1>4, <1>5, <2>4, <3>1
    <2> QED BY <2>1, <2>2, <2>3, <2>4 DEF TakeText
  <1>8. CASE smtp.mode \notin {"gone", "data"}
    <2>1. TakeCommand(t) /\ UNCHANGED delivered
      BY <1>8 DEF Transmit, TakeCommand
    <2>2. replies = <<>> /\ dialog[t] # "body"
      BY <1>3, <1>8 DEF Writes, ServerAt
    <2>3. \A r : Append(replies, r) = <<r>>
      BY <2>2
    <2>4. CASE Answer(smtp.mode, smtp.to, "err")
      <3>1. Refused'
        BY <1>8, <2>3, <2>4 DEF Answer, Refused
      <3> QED BY <1>4, <1>5, <2>1, <3>1
    <2>5. CASE dialog[t] = "mail" /\ Answer("mail", {}, "ok")
      <3>1. Granted(t)'
        BY <1>1, <2>3, <2>5 DEF Answer, Granted, ServerAt
      <3> QED BY <1>4, <1>5, <2>1, <3>1
    <2>6. CASE dialog[t] = "rcpt" /\ Answer("rcpt", smtp.to \union {t}, "ok")
      <3>1. smtp.to = {}
        BY <1>3, <2>6 DEF Writes, ServerAt
      <3>2. Granted(t)'
        BY <1>1, <2>3, <2>6, <3>1 DEF Answer, Granted, ServerAt
      <3> QED BY <1>4, <1>5, <2>1, <3>2
    <2>7. CASE dialog[t] = "data" /\ Answer("data", smtp.to, "go")
      <3>1. smtp.to = {t}
        BY <1>3, <2>7 DEF Writes, ServerAt
      <3>2. Granted(t)'
        BY <1>1, <2>3, <2>7, <3>1 DEF Answer, Granted, ServerAt
      <3> QED BY <1>4, <1>5, <2>1, <3>2
    <2>8. CASE dialog[t] = "rset" /\ Answer("ready", {}, "ok")
      <3>1. Granted(t)'
        BY <1>1, <2>3, <2>8 DEF Answer, Granted
      <3> QED BY <1>4, <1>5, <2>1, <3>1
    <2> QED BY <2>1, <2>2, <2>4, <2>5, <2>6, <2>7, <2>8
        DEF TakeCommand, TakeMail, TakeRcpt, TakeData
  <1> QED BY <1>6, <1>7, <1>8

LEMMA DialogueReceive ==
    ASSUME CollectorInv, DialogueInv, NEW t \in Clients, Receive(t),
           UNCHANGED <<clientVars, collectorVars>>
    PROVE  DialogueInv'
  <1>1. /\ UNCHANGED <<epoch, multithread, stage, mailed, connection, letter, smtp,
                       delivered>>
        /\ Sending(t) /\ waiting[t] /\ Live /\ replies # <<>> /\ replies' = Tail(replies)
        /\ waiting' = [waiting EXCEPT ![t] = FALSE]
        /\ dialog' = [dialog EXCEPT ![t] = NextCommand(dialog[t], Head(replies))]
    BY DEF Receive, clientVars, collectorVars
  <1> SUFFICES ASSUME ~multithread PROVE SentInv' /\ LineInv'
    BY <1>1 DEF DialogueInv
  <1>2. /\ \A d \in Clients \ {t} : /\ ~Sending(d) /\ ~Sending(d)'
                                    /\ ~waiting'[d] /\ dialog'[d] = dialog[d]
        /\ ~waiting'[t] /\ dialog'[t] = NextCommand(dialog[t], Head(replies))
    BY <1>1, OneTalker
    DEF CollectorInv, MailerInv, MailerTypeOK, Sending, DialogueInv, LineInv
  <1>3. SentInv /\ (Refused \/ Granted(t))
    BY <1>1 DEF DialogueInv, LineInv, Talk, Silent
  <1>4. PICK r : replies = <<r>>
    BY <1>3 DEF Refused, Granted
  <1>5. replies' = <<>> /\ Head(replies) = r
    BY <1>1, <1>4
  <1>6. IF Sending(t)' THEN Writes(t)' ELSE Quiet'
    <2>1. CASE Refused
      <3>1. r = "err" /\ smtp'.mode # "data"
        BY <1>1, <1>4, <2>1 DEF Refused
      <3>2. dialog'[t] \in {"rset", "refused"}
        BY <1>1, <1>2, <1>5, <3>1 DEF NextCommand, Sending, Commands
      <3> QED BY <1>5, <3>1, <3>2 DEF Writes, Quiet, Sending, Commands
    <2>2. CASE Granted(t)
      <3>1. \/ dialog'[t] = "rcpt" /\ ServerAt("mail", {})
            \/ dialog'[t] = "data" /\ ServerAt("rcpt", {t})
            \/ dialog'[t] = "body" /\ ServerAt("data", {t})
            \/ dialog'[t] \in {"sent", "refused"} /\ smtp.mode # "data"
        BY <1>2, <1>4, <1>5, <2>2 DEF NextCommand, Granted
      <3> QED BY <1>1, <1>5, <3>1 DEF Writes, ServerAt, Quiet, Sending, Commands
    <2> QED BY <1>3, <2>1, <2>2
  <1>7. dialog'[t] = "sent" => Accepted(t)
    BY <1>1, <1>2, <1>3, <1>4, <1>5
    DEF NextCommand, Granted, Refused, Sending, Commands
  <1>8. SentInv'
    BY <1>1, <1>2, <1>3, <1>7 DEF SentInv, Accepted
  <1>9. LineInv'
    BY <1>1, <1>2, <1>6 DEF LineInv, Live, Talk, Writes, Quiet
  <1> QED BY <1>8, <1>9

LEMMA DialogueNoAnswer ==
    ASSUME CollectorInv, DialogueInv, NEW t \in Clients, NoAnswer(t),
           UNCHANGED <<clientVars, collectorVars>>
    PROVE  DialogueInv'
  <1>1. /\ UNCHANGED <<epoch, multithread, stage, mailed, letter, smtp, replies, delivered>>
        /\ connection' = "closed"
        /\ waiting' = [waiting EXCEPT ![t] = FALSE]
        /\ dialog' = [dialog EXCEPT ![t] = "raised"]
    BY DEF NoAnswer, clientVars, collectorVars
  <1>2. \A d \in Clients : /\ dialog'[d] = IF d = t THEN "raised" ELSE dialog[d]
                           /\ waiting'[d] = IF d = t THEN FALSE ELSE waiting[d]
    BY <1>1 DEF CollectorInv, MailerInv, MailerTypeOK
  <1>3. SentInv => SentInv'
    BY <1>1, <1>2 DEF SentInv, Accepted
  <1>4. LineInv => LineInv'
    BY <1>1, <1>2 DEF LineInv, Live, Sending
  <1> QED BY <1>1, <1>3, <1>4 DEF DialogueInv

-----------------------------------------------------------------------------
(* The handler hands a mail over and takes the result; main is run again.  *)
LEMMA DialogueMailAlert ==
    ASSUME CollectorInv, DialogueInv, NEW c \in Clients, MailAlert(c)
    PROVE  DialogueInv'
  <1>1. /\ UNCHANGED <<epoch, multithread, mailed, connection, waiting, smtp, replies,
                       delivered>>
        /\ stage[c] = "alerts" /\ ~Sending(c)
        /\ dialog'[c] = CASE connection = "none"   -> "refused"
                          [] connection = "closed" -> "raised"
                          [] OTHER                 -> "mail"
        /\ \A d \in Clients \ {c} : /\ stage'[d] = stage[d] /\ dialog'[d] = dialog[d]
                                    /\ letter'[d] = letter[d]
    BY CollectorTypes DEF MailAlert, Send, Proceed, clientVars, CollectorInv
  <1> SUFFICES ASSUME ~multithread PROVE SentInv' /\ LineInv'
    BY <1>1 DEF DialogueInv
  <1>2. \A d \in Clients : ~Sending(d)
    BY <1>1, HandlerIsActive, OneActive
  <1>3. /\ Live => dialog'[c] = "mail"
        /\ ~Live => dialog'[c] \in {"refused", "raised"}
        /\ dialog'[c] # "sent"
    <2>1. connection \in {"none", "open", "auth", "closed"}
      BY DEF CollectorInv, MailerInv, MailerTypeOK
    <2> QED BY <1>1, <2>1 DEF Live
  <1>4. SentInv'
    BY <1>1, <1>3 DEF DialogueInv, SentInv, Accepted
  <1>5. \A d \in Clients : ~waiting[d]
    BY <1>2 DEF DialogueInv, LineInv
  <1>6. Live => Quiet
    BY <1>2 DEF DialogueInv, LineInv
  <1>7. Live => Writes(c)'
    BY <1>1, <1>3, <1>6 DEF Writes, Quiet
  <1>8. \A d \in Clients \ {c} : ~Sending(d)'
    BY <1>1, <1>2 DEF Sending
  <1>9. LineInv'
    <2>1. Live' => Sending(c)'
      BY <1>1, <1>3 DEF Live, Sending, Commands
    <2> QED BY <1>1, <1>5, <1>7, <1>8, <2>1 DEF DialogueInv, LineInv, Live, Talk, Quiet
  <1> QED BY <1>4, <1>9

LEMMA DialogueMailReturns ==
    ASSUME CollectorInv, DialogueInv, NEW c \in Clients, MailReturns(c)
    PROVE  DialogueInv'
  <1>1. /\ UNCHANGED <<mailerVars, epoch, multithread>>
        /\ stage[c] = "mailing" /\ stage'[c] # "mailing"
        /\ \A d \in Clients \ {c} : stage'[d] = stage[d]
        /\ \/ UNCHANGED mailed
           \/ mailed' = [mailed EXCEPT ![c][StatAt(c)] = dialog[c]]
    BY CollectorTypes DEF MailReturns, Proceed, clientVars, CollectorInv
  <1>2. CASE UNCHANGED mailed
    BY <1>1, <1>2, DialogueIdle
  <1>3. CASE mailed' = [mailed EXCEPT ![c][StatAt(c)] = dialog[c]]
    <2>1. UNCHANGED <<connection, dialog, waiting, letter, smtp, replies, delivered>>
      BY <1>1 DEF mailerVars
    <2>2. \A d \in Clients, t \in StatSet : mailed'[d][t] = "sent" =>
             mailed[d][t] = "sent" \/ (d = c /\ t = StatAt(c) /\ dialog[c] = "sent")
      BY <1>3, CollectorTypes DEF CollectorInv
    <2>3. letter[c] = [stat |-> StatAt(c), epoch |-> epoch]
      BY <1>1 DEF CollectorInv, ClientRowInv, ThreadInv
    <2>4. SentInv => SentInv'
      <3> SUFFICES ASSUME SentInv PROVE SentInv'
        OBVIOUS
      <3>1. \A d \in Clients, t \in StatSet : mailed'[d][t] = "sent" =>
               [owner |-> d, letter |-> [stat |-> t, epoch |-> epoch], to |-> {d}]
                   \in delivered
        BY <1>1, <2>2, <2>3 DEF SentInv, Accepted
      <3> QED BY <1>1, <2>1, <3>1 DEF SentInv, Accepted
    <2>5. LineInv => LineInv'
      BY <2>1 DEF LineInv, Quiet, Live, Sending, Talk, Writes, Silent, Refused, Granted,
                  Accepted, ServerAt
    <2> QED BY <1>1, <2>4, <2>5 DEF DialogueInv
  <1> QED BY <1>1, <1>2, <1>3

LEMMA DialogueNewRun ==
    ASSUME DialogueInv, NewRun
    PROVE  DialogueInv'
  <1>1. /\ connection' = "none" /\ replies' = <<>> /\ smtp' = [mode |-> "ready", to |-> {}]
        /\ dialog' = [c \in Clients |-> "idle"] /\ waiting' = [c \in Clients |-> FALSE]
        /\ mailed' = Unmailed /\ UNCHANGED <<delivered, multithread>>
    BY DEF NewRun
  <1>2. LineInv'
    BY <1>1 DEF LineInv, Quiet, Live, Sending, Commands
  <1>3. SentInv => SentInv'
    BY <1>1 DEF SentInv, Unmailed
  <1> QED BY <1>1, <1>2, <1>3 DEF DialogueInv

LEMMA DialogueNext ==
    CollectorInv /\ DialogueInv /\ [Next]_vars => DialogueInv'
  <1> SUFFICES ASSUME CollectorInv, DialogueInv, [Next]_vars PROVE DialogueInv'
    OBVIOUS
  <1>1. CASE MainStep
    <2>1. CASE MailerConnect \/ MailerDisconnect
      BY <2>1, DialogueConnection
    <2>2. CASE StartClient \/ Join \/ Abort
      BY <2>2, DialogueIdle DEF StartClient, Start, Join, Abort, clientVars
    <2> QED BY <1>1, <2>1, <2>2 DEF MainStep
  <1>2. ASSUME NEW c \in Clients, RunStep(c) \/ SessionLost(c),
               UNCHANGED <<mailerVars, collectorVars>>
        PROVE  DialogueInv'
    <2>1. epoch' = epoch
      BY <1>2, RunFacts DEF CollectorInv, TypeOK
    <2> QED BY <1>2, <2>1, DialogueIdle DEF collectorVars
  <1>3. ASSUME NEW c \in Clients, MailerStep(c), UNCHANGED <<clientVars, collectorVars>>
        PROVE  DialogueInv'
    BY <1>3, DialogueTransmit, DialogueReceive, DialogueNoAnswer DEF MailerStep
  <1>4. ASSUME NEW c \in Clients, HandlerStep(c) PROVE DialogueInv'
    <2>1. CASE MailAlert(c)
      BY <2>1, DialogueMailAlert
    <2>2. CASE MailReturns(c)
      BY <2>2, DialogueMailReturns
    <2>3. CASE Decode(c) \/ InsertStats(c) \/ PassStat(c) \/ StatsDone(c) \/ InsertLogs(c)
      <3>1. /\ UNCHANGED <<mailerVars, mailed, epoch, multithread>>
            /\ \A d \in Clients : stage'[d] = "mailing" => stage[d] = "mailing"
        BY <2>3, CollectorTypes DEF Decode, InsertStats, PassStat, StatsDone, InsertLogs,
           Proceed, clientVars, CollectorInv
      <3> QED BY <3>1, DialogueIdle
    <2> QED BY <1>4, <2>1, <2>2, <2>3 DEF HandlerStep
  <1>5. ASSUME NEW p \in Scripts, ScriptStep(p), UNCHANGED <<mailerVars, collectorVars>>
        PROVE  DialogueInv'
    <2>1. epoch' = epoch
      BY <1>5 DEF ScriptStep, Load, OpenOut, Write, WriteUnlinked, ScriptFails
    <2> QED BY <1>5, <2>1, DialogueIdle DEF collectorVars
  <1>6. CASE Drop /\ UNCHANGED <<clientVars, collectorVars>>
    BY <1>6, DialogueDrop
  <1>7. CASE NewRun
    BY <1>7, DialogueNewRun
  <1>8. CASE UNCHANGED vars
    BY <1>8, DialogueIdle DEF vars, clientVars, collectorVars
  <1> QED BY <1>1, <1>2, <1>3, <1>4, <1>5, <1>6, <1>7, <1>8
      DEF Next, ThreadStep, Environment

(* Without threads every mail reaches the client it is about and nobody    *)
(* else, and send returns True only for a mail that was accepted, for any  *)
(* number of clients, of statistics and of runs.                           *)
THEOREM MailInLineIsTrue == Spec => []SequentialMail
  <1>1. DialogueInv => SequentialMail
    BY DEF DialogueInv, SentInv, SequentialMail
  <1> QED BY <1>1, DialogueInit, DialogueNext, CollectorInvariant, PTL DEF Spec
============================================================================
