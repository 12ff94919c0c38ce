------------------------- MODULE CollectorRefinement -------------------------
(***************************************************************************)
(* The collector implements what it is made of and what it promises: seen  *)
(* through the variables of ClientRun it is a behaviour of ClientRun, so   *)
(* that every theorem about Client.run holds of the whole program, and     *)
(* seen through StatusOf and Verdict it is a behaviour of Collection.      *)
(***************************************************************************)
EXTENDS CollectorProofs

LEMMA StepIsClientStep == TypeOK /\ [Next]_vars => [ClientNext]_clientVars
  <1> SUFFICES ASSUME TypeOK, [Next]_vars PROVE [ClientNext]_clientVars
    OBVIOUS
  <1>1. CASE MainStep
    <2>1. CASE StartClient
      <3>1. turn \in Clients
        BY <2>1, NumClientsAssumption DEF TypeOK, StartClient, Clients
      <3> QED BY <2>1, <3>1 DEF StartClient, ClientNext
    <2>2. CASE UNCHANGED clientVars
      BY <2>2
    <2> QED BY <1>1, <2>1, <2>2
        DEF MainStep, MailerConnect, Join, Abort, MailerDisconnect
  <1>2. ASSUME NEW c \in Clients, ThreadStep(c) PROVE [ClientNext]_clientVars
    <2>1. CASE RunStep(c)
      BY <2>1 DEF ClientNext
    <2>2. CASE UNCHANGED clientVars
      BY <2>2
    <2> QED BY <1>2, <2>1, <2>2
        DEF ThreadStep, HandlerStep, Decode, InsertStats, PassStat, MailAlert,
            MailReturns, StatsDone, InsertLogs
  <1>3. ASSUME NEW p \in Scripts, ScriptStep(p) PROVE [ClientNext]_clientVars
    BY <1>3 DEF ClientNext
  <1>4. CASE Environment
    BY <1>4 DEF Environment, ClientNext
  <1>5. CASE NewRun
    BY <1>5 DEF NewRun, ClientNext
  <1>6. CASE UNCHANGED vars
    BY <1>6 DEF vars
  <1> QED BY <1>1, <1>2, <1>3, <1>4, <1>5, <1>6 DEF Next

(* The collector is a behaviour of ClientRun.                              *)
THEOREM CollectorRunsClients == Spec => ClientSpec
  <1>1. Init => ClientInit
    BY DEF Init
  <1> QED BY <1>1, StepIsClientStep, CollectorTyping, PTL DEF Spec, ClientSpec

(* So an output of the collector comes from its client's place, and if     *)
(* nobody shares that place, the script finds its file and an old output   *)
(* is read only for the reasons StaleOnlyAfterFailure names.               *)
THEOREM CollectorOutputs == Spec => [](OwnOutput /\ ScriptPresent /\ StaleOnlyAfterFailure)
  BY CollectorRunsClients, OutputsAreOwn, ScriptsArePresent, StaleOutputsExplained, PTL

-----------------------------------------------------------------------------
(* What the handler's stages and the steps of Client.run mean to the       *)
(* promise.                                                                *)
LEMMA StatusCases ==
    ASSUME NEW c \in Clients, ThreadInv(c)
    PROVE  /\ Dead(c) => StatusOf(c) = "lost"
           /\ pc[c] = "skipped" \/ stage[c] = "skipped" => StatusOf(c) = "skipped"
           /\ stage[c] = "complete" => StatusOf(c) = "complete"
           /\ stage[c] \in {"alerts", "mailing", "logs"} => StatusOf(c) = "stored"
           /\ pc[c] \notin {"skipped", "died"} /\ stage[c] \in {"waiting", "stats"}
                 => StatusOf(c) = "pending"
  BY DEF ThreadInv, StatusOf, Dead

LEMMA NextStatusCases ==
    ASSUME NEW c \in Clients, CollectorInv'
    PROVE  /\ Dead(c)' => StatusOf(c)' = "lost"
           /\ pc'[c] = "skipped" \/ stage'[c] = "skipped" => StatusOf(c)' = "skipped"
           /\ stage'[c] = "complete" => StatusOf(c)' = "complete"
           /\ stage'[c] \in {"alerts", "mailing", "logs"} => StatusOf(c)' = "stored"
           /\ pc'[c] \notin {"skipped", "died"} /\ stage'[c] \in {"waiting", "stats"}
                 => StatusOf(c)' = "pending"
  <1>1. ThreadInv(c)'
    BY DEF CollectorInv, ClientRowInv
  <1> QED BY <1>1 DEF ThreadInv, StatusOf, Dead

LEMMA PromiseInit == Init => Promise!CollectionInit
  <1> SUFFICES ASSUME Init PROVE Promise!CollectionInit
    OBVIOUS
  <1>1. ASSUME NEW c \in Clients PROVE StatusOf(c) = "pending"
    BY DEF Init, ClientInit, StatusOf, Dead
  <1>2. Verdict = "running"
    BY DEF Init, Verdict
  <1> QED BY <1>1, <1>2 DEF Promise!CollectionInit

(* A client's status moves as Collection says while the run goes on.       *)
Moves(from, to) ==
    \/ from = "pending" /\ to \in {"skipped", "stored", "lost"}
    \/ from = "stored" /\ to \in {"complete", "lost"}

LEMMA PromiseMove ==
    ASSUME NEW c \in Clients, main = "clients", main' = main,
           \A d \in Clients \ {c} : StatusOf(d)' = StatusOf(d),
           StatusOf(c)' = StatusOf(c) \/ Moves(StatusOf(c), StatusOf(c)')
    PROVE  [Promise!CollectionNext]_Promise!collectionVars
  <1> DEFINE st == [d \in Clients |-> StatusOf(d)]
  <1>1. Verdict = "running" /\ Verdict' = "running"
    BY DEF Verdict
  <1>2. CASE StatusOf(c)' = StatusOf(c)
    <2>1. st' = st
      BY <1>2
    <2> QED BY <1>1, <2>1 DEF Promise!collectionVars
  <1>3. CASE Moves(StatusOf(c), StatusOf(c)')
    <2>1. st' = [st EXCEPT ![c] = StatusOf(c)']
      OBVIOUS
    <2>2. st[c] = StatusOf(c)
      OBVIOUS
    <2> HIDE DEF st
    <2>3. Promise!Skip(c) \/ Promise!Store(c) \/ Promise!Complete(c) \/ Promise!Lose(c)
      BY <1>1, <1>3, <2>1, <2>2
      DEF Moves, Promise!Settle, Promise!Skip, Promise!Store, Promise!Complete,
          Promise!Lose, st
    <2> QED BY <2>3 DEF Promise!CollectionNext
  <1> QED BY <1>2, <1>3

LEMMA SameStatus ==
    ASSUME \A d \in Clients : StatusOf(d)' = StatusOf(d), Verdict' = Verdict
    PROVE  [Promise!CollectionNext]_Promise!collectionVars
  BY DEF Promise!collectionVars

LEMMA UntouchedStatus ==
    ASSUME NEW d \in Clients, pc'[d] = pc[d], stage'[d] = stage[d]
    PROVE  StatusOf(d)' = StatusOf(d)
  BY DEF StatusOf, Dead

-----------------------------------------------------------------------------
LEMMA PromiseRunStep ==
    ASSUME CollectorInv, CollectorInv', NEW c \in Clients, RunStep(c) \/ SessionLost(c),
           UNCHANGED <<mailerVars, collectorVars>>
    PROVE  [Promise!CollectionNext]_Promise!collectionVars
  <1>1. /\ pc[c] \in Steps /\ pc[c] # "idle"
        /\ \A d \in Clients \ {c} : pc'[d] = pc[d]
    BY RunFacts DEF CollectorInv, TypeOK
  <1>2. UNCHANGED <<stage, main, turn, multithread>>
    BY DEF collectorVars
  <1>3. stage[c] = "waiting" /\ Active(c)
    BY <1>1, StepsAreWaiting DEF CollectorInv, ClientRowInv, Active
  <1>4. main = "clients"
    BY <1>3, ActiveClient DEF CollectorInv
  <1>5. StatusOf(c) = "pending"
    BY <1>1, <1>3, StatusCases DEF CollectorInv, ClientRowInv, Steps
  <1>6. StatusOf(c)' \in {"pending", "skipped", "lost"}
    <2>1. stage'[c] = "waiting"
      BY <1>2, <1>3
    <2>2. CASE pc'[c] \in {"skipped", "died"}
      BY <2>2, NextStatusCases DEF Dead
    <2>3. CASE pc'[c] \notin {"skipped", "died"}
      BY <2>1, <2>3, NextStatusCases
    <2> QED BY <2>2, <2>3
  <1> QED BY <1>1, <1>2, <1>4, <1>5, <1>6, PromiseMove, UntouchedStatus DEF Moves

LEMMA PromiseHandlerStep ==
    ASSUME CollectorInv, CollectorInv', NEW c \in Clients, HandlerStep(c)
    PROVE  [Promise!CollectionNext]_Promise!collectionVars
  <1>1. /\ UNCHANGED <<main, pc>>
        /\ pc[c] = "notified" \/ stage[c] # "waiting"
        /\ stage[c] \in {"waiting", "stats", "alerts", "mailing", "logs"}
        /\ \A d \in Clients \ {c} : stage'[d] = stage[d]
    BY HandlerFacts DEF CollectorInv
  <1>2. pc[c] = "notified" /\ Active(c)
    BY <1>1 DEF CollectorInv, ClientRowInv, ThreadInv, Active, Settled
  <1>3. main = "clients"
    BY <1>2, ActiveClient DEF CollectorInv
  <1>4. \/ stage[c] = "waiting" /\ stage'[c] \in {"stats", "skipped"}
        \/ stage[c] = "stats" /\ stage'[c] \in {"alerts", "died"}
        \/ stage[c] \in {"alerts", "mailing"}
            /\ stage'[c] \in {"alerts", "mailing", "logs", "died"}
        \/ stage[c] = "logs" /\ stage'[c] \in {"complete", "died"}
    <2> USE CollectorTypes DEF CollectorInv, Proceed
    <2>1. CASE Decode(c) BY <2>1 DEF Decode
    <2>2. CASE InsertStats(c) BY <2>2 DEF InsertStats
    <2>3. CASE PassStat(c) BY <2>3 DEF PassStat
    <2>4. CASE MailAlert(c) BY <2>4 DEF MailAlert
    <2>5. CASE MailReturns(c) BY <2>5 DEF MailReturns
    <2>6. CASE StatsDone(c) BY <2>6 DEF StatsDone
    <2>7. CASE InsertLogs(c) BY <2>7 DEF InsertLogs
    <2> QED BY <2>1, <2>2, <2>3, <2>4, <2>5, <2>6, <2>7 DEF HandlerStep
  <1>5. StatusOf(c)' = StatusOf(c) \/ Moves(StatusOf(c), StatusOf(c)')
    <2>1. ThreadInv(c) /\ pc[c] = "notified" /\ pc'[c] = "notified"
      BY <1>1, <1>2 DEF CollectorInv, ClientRowInv
    <2>2. CASE stage'[c] = "died"
      <3>1. StatusOf(c)' = "lost"
        BY <2>1, <2>2, NextStatusCases DEF Dead
      <3> QED BY <1>4, <2>1, <2>2, <3>1, StatusCases DEF Moves
    <2>3. CASE stage'[c] = "skipped"
      <3>1. StatusOf(c)' = "skipped"
        BY <2>1, <2>3, NextStatusCases DEF Dead
      <3> QED BY <1>4, <2>1, <2>3, <3>1, StatusCases DEF Moves
    <2>4. CASE stage'[c] = "complete"
      <3>1. StatusOf(c)' = "complete"
        BY <2>1, <2>4, NextStatusCases DEF Dead
      <3> QED BY <1>4, <2>1, <2>4, <3>1, StatusCases DEF Moves
    <2>5. CASE stage'[c] \in {"alerts", "mailing", "logs"}
      <3>1. StatusOf(c)' = "stored"
        BY <2>1, <2>5, NextStatusCases DEF Dead
      <3> QED BY <1>4, <2>1, <2>5, <3>1, StatusCases DEF Moves
    <2>6. CASE stage'[c] = "stats"
      <3>1. StatusOf(c)' = "pending"
        BY <2>1, <2>6, NextStatusCases DEF Dead
      <3> QED BY <1>4, <2>1, <2>6, <3>1, StatusCases DEF Moves
    <2> QED BY <1>4, <2>2, <2>3, <2>4, <2>5, <2>6
  <1> QED BY <1>1, <1>3, <1>5, PromiseMove, UntouchedStatus

LEMMA PromiseMainStep ==
    ASSUME CollectorInv, CollectorInv', MainStep
    PROVE  [Promise!CollectionNext]_Promise!collectionVars
  <1> DEFINE st == [d \in Clients |-> StatusOf(d)]
  <1>1. CASE StartClient
    <2>1. /\ main = "clients" /\ turn \in Clients /\ UNCHANGED <<main, stage>>
          /\ pc' = [pc EXCEPT ![turn] = "connect"] /\ pc[turn] = "idle"
      BY <1>1, NumClientsAssumption
      DEF StartClient, CollectorInv, TypeOK, Clients, Start, Goto
    <2>2. stage[turn] = "waiting"
      BY <2>1 DEF CollectorInv, ClientRowInv, ThreadInv
    <2>3. ASSUME NEW d \in Clients PROVE StatusOf(d)' = StatusOf(d)
      <3>1. CASE d # turn
        <4>1. pc'[d] = pc[d] /\ stage'[d] = stage[d]
          BY <2>1, <3>1
        <4> QED BY <4>1, UntouchedStatus
      <3>2. CASE d = turn
        <4>1. pc'[d] = "connect" /\ stage'[d] = "waiting"
          BY <2>1, <2>2, <3>2 DEF CollectorInv, TypeOK, ClientTypeOK
        <4> QED BY <2>1, <2>2, <3>2, <4>1 DEF StatusOf, Dead
      <3> QED BY <3>1, <3>2
    <2>4. Verdict' = Verdict
      BY <2>1 DEF Verdict
    <2> QED BY <2>3, <2>4, SameStatus
  <1>2. CASE ~StartClient
    <2>1. /\ UNCHANGED <<pc, stage>> /\ main \in {"start", "clients", "quit"}
          /\ main' \in {"clients", "quit", "done", "failed"}
      BY <1>2 DEF MainStep, MailerConnect, Join, Abort, MailerDisconnect, clientVars
    <2>2. \A d \in Clients : StatusOf(d)' = StatusOf(d)
      BY <2>1, UntouchedStatus
    <2>3. st' = st
      BY <2>2
    <2>4. Verdict = "running"
      BY <2>1 DEF Verdict
    <2>5. CASE main' \in {"clients", "quit"}
      <3>1. Verdict' = Verdict
        BY <2>4, <2>5 DEF Verdict
      <3> QED BY <2>2, <3>1, SameStatus
    <2>6. CASE main' = "done"
      <3>1. Verdict' = "done"
        BY <2>6 DEF Verdict
      <3>2. ASSUME NEW c \in Clients PROVE st[c] \notin {"pending", "stored"}
        <4>1. Settled(c) /\ ThreadInv(c)
          BY <2>1, <2>6 DEF CollectorInv, MainInv, ClientRowInv, Settled
        <4> QED BY <4>1, StatusCases DEF Settled, Dead
      <3>3. Promise!Done
        BY <2>3, <2>4, <3>1, <3>2 DEF Promise!Done, Promise!Unsettled
      <3> QED BY <3>3 DEF Promise!CollectionNext
    <2>7. CASE main' = "failed"
      <3>1. Verdict' = "failed"
        BY <2>7 DEF Verdict
      <3>2. ASSUME NEW c \in Clients PROVE st[c] # "stored"
        <4>1. (pc[c] = "idle" \/ Settled(c)) /\ ThreadInv(c)
          BY <2>1, <2>7 DEF CollectorInv, MainInv, ClientRowInv, Settled
        <4>2. CASE pc[c] = "idle"
          <5>1. stage[c] = "waiting"
            BY <4>1, <4>2 DEF ThreadInv
          <5> QED BY <4>1, <4>2, <5>1, StatusCases
        <4>3. CASE Settled(c)
          BY <4>1, <4>3, StatusCases DEF Settled, Dead
        <4> QED BY <4>1, <4>2, <4>3
      <3>3. Promise!Fail
        BY <2>3, <2>4, <3>1, <3>2 DEF Promise!Fail
      <3> QED BY <3>3 DEF Promise!CollectionNext
    <2> QED BY <2>1, <2>5, <2>6, <2>7
  <1> QED BY <1>1, <1>2

LEMMA PromiseNewRun ==
    ASSUME NewRun
    PROVE  [Promise!CollectionNext]_Promise!collectionVars
  <1>1. /\ pc' = [c \in Clients |-> "idle"] /\ main' = "start"
        /\ stage' = [c \in Clients |-> "waiting"]
    BY DEF NewRun, Rerun
  <1>2. ASSUME NEW c \in Clients PROVE StatusOf(c)' = "pending"
    <2>1. pc'[c] = "idle" /\ stage'[c] = "waiting"
      BY <1>1
    <2> QED BY <2>1 DEF StatusOf, Dead
  <1>3. Verdict' = "running"
    BY <1>1 DEF Verdict
  <1>4. Promise!NewRun
    BY <1>2, <1>3 DEF Promise!NewRun
  <1> QED BY <1>4 DEF Promise!CollectionNext

LEMMA PromiseStep ==
    CollectorInv /\ CollectorInv' /\ [Next]_vars
        => [Promise!CollectionNext]_Promise!collectionVars
  <1> SUFFICES ASSUME CollectorInv, CollectorInv', [Next]_vars
               PROVE  [Promise!CollectionNext]_Promise!collectionVars
    OBVIOUS
  <1>1. CASE UNCHANGED <<pc, stage, main>>
    <2>1. \A d \in Clients : StatusOf(d)' = StatusOf(d)
      BY <1>1, UntouchedStatus
    <2>2. Verdict' = Verdict
      BY <1>1 DEF Verdict
    <2> QED BY <2>1, <2>2, SameStatus
  <1>2. CASE MainStep
    BY <1>2, PromiseMainStep
  <1>3. ASSUME NEW c \in Clients, ThreadStep(c)
        PROVE  [Promise!CollectionNext]_Promise!collectionVars
    <2>1. CASE MailerStep(c) /\ UNCHANGED <<clientVars, collectorVars>>
      BY <1>1, <2>1 DEF clientVars, collectorVars
    <2> QED BY <1>3, <2>1, PromiseRunStep, PromiseHandlerStep DEF ThreadStep
  <1>4. ASSUME NEW p \in Scripts, ScriptStep(p) /\ UNCHANGED <<mailerVars, collectorVars>>
        PROVE  UNCHANGED <<pc, stage, main>>
    BY <1>4 DEF ScriptStep, Load, OpenOut, Write, WriteUnlinked, ScriptFails, collectorVars
  <1>5. CASE Environment
    <2>1. CASE Drop /\ UNCHANGED <<clientVars, collectorVars>>
      BY <1>1, <2>1 DEF clientVars, collectorVars
    <2> QED BY <1>5, <2>1, PromiseRunStep DEF Environment
  <1>6. CASE NewRun
    BY <1>6, PromiseNewRun
  <1>7. CASE UNCHANGED vars
    BY <1>1, <1>7 DEF vars, clientVars, collectorVars
  <1> QED BY <1>1, <1>2, <1>3, <1>4, <1>5, <1>6, <1>7 DEF Next

(* The collector keeps the promise of Collection, for every configuration. *)
THEOREM CollectorKeepsPromise == Spec => ImplementsCollection
  BY PromiseInit, PromiseStep, CollectorInvariant, PTL
  DEF Spec, ImplementsCollection, Promise!CollectionSpec
============================================================================
