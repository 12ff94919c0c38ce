--------------------------- MODULE ClientRunProofs ---------------------------
(***************************************************************************)
(* For any number of clients and of runs: the type invariant of Client.run *)
(* and that an output comes from the client's place; of a client that has  *)
(* its place to itself also that its script finds its file whole, and that *)
(* an old or empty output is read only after a failed or beside an older   *)
(* script.                                                                 *)
(***************************************************************************)
EXTENDS ClientRun, TLAPS

Early  == {"idle", "connect", "put", "upload", "exec"}
Late   == {"read", "rmexec", "rmout", "notified"}
Over   == {"ended", "failed"}

(* What holds of scripts and steps whatever places the clients have.       *)
Bookkeeping ==
    /\ \A p \in Scripts : p.epoch > epoch => phase[p] = "none"
    /\ \A c \in Clients : pc[c] \in Early => phase[Own(c)] = "none"
    /\ \A c \in Clients : pc[c] \in Late => phase[Own(c)] \in Over
    /\ \A c \in Clients : output[c] # NoFile =>
          pc[c] \in (Late \ {"read"}) \union {"died"} /\ phase[Own(c)] \in Over

(* A report lies where it was written, and is read from there.             *)
FromPlace(s, contents) == contents.kind = "report" => SiteOf[contents.by.client] = s

Origin ==
    /\ \A s \in Sites : FromPlace(s, outFile[s])
    /\ \A c \in Clients : FromPlace(SiteOf[c], output[c])

(* Client c and its files, if no other client shares its place.            *)
ScriptIsThere(c) ==
    pc[c] = "exec" \/ (pc[c] = "wait" /\ phase[Own(c)] = "spawned")
        => execFile[OnPath(c)] = "script"

Linked(c) == phase[Own(c)] # "unlinked"

OthersStopped(c) ==
    alone[c] /\ phase[Own(c)] # "none" =>
        \A p \in Scripts : p.client = c /\ p # Own(c) => phase[p] \notin Running

IsOwnReport(c, contents) == contents.kind = "report" /\ contents.by = Own(c)

FileIsFresh(c) ==
    alone[c] /\ phase[Own(c)] = "ended" /\ pc[c] \in {"wait", "read"}
        => IsOwnReport(c, outFile[OnPath(c)])

OutputIsFresh(c) ==
    alone[c] /\ phase[Own(c)] = "ended" /\ output[c] # NoFile
        => IsOwnReport(c, output[c])

PlaceInv(c) ==
    /\ ScriptIsThere(c)
    /\ Linked(c) /\ OthersStopped(c)
    /\ FileIsFresh(c) /\ OutputIsFresh(c)

ClientInv ==
    /\ ClientTypeOK
    /\ Bookkeeping
    /\ Origin
    /\ \A c \in Clients : OwnPlace(c) => PlaceInv(c)

-----------------------------------------------------------------------------
LEMMA OwnIsScript ==
    ASSUME epoch \in Epochs, NEW c \in Clients
    PROVE  Own(c) \in Scripts /\ Own(c).client = c /\ Own(c).epoch = epoch
  BY DEF Own, Scripts

LEMMA ScriptIsOwn ==
    ASSUME epoch \in Epochs, NEW p \in Scripts, p.epoch = epoch
    PROVE  p.client \in Clients /\ p = Own(p.client)
  BY DEF Own, Scripts

LEMMA ClientInitInv == ClientInit => ClientInv
  <1> SUFFICES ASSUME ClientInit PROVE ClientInv
    OBVIOUS
  <1>1. ClientTypeOK
    BY MaxEpochAssumption, SiteAssumption
    DEF ClientInit, ClientTypeOK, Epochs, Steps, Phases, Contents
  <1>2. \A p \in Scripts : phase[p] = "none"
    BY DEF ClientInit
  <1>3. \A c \in Clients : Own(c) \in Scripts
    BY <1>1, OwnIsScript DEF ClientTypeOK
  <1>4. Bookkeeping
    BY <1>2, <1>3 DEF ClientInit, Bookkeeping, Late
  <1>5. ASSUME NEW c \in Clients PROVE PlaceInv(c)
    <2>1. OnPath(c) \in Sites
      BY SiteAssumption DEF OnPath
    <2> QED BY <1>2, <1>3, <2>1
        DEF ClientInit, PlaceInv, ScriptIsThere, Linked,
            OthersStopped, FileIsFresh, OutputIsFresh, NoFile
  <1>6. Origin
    BY DEF ClientInit, Origin, FromPlace, NoFile
  <1> QED BY <1>1, <1>4, <1>5, <1>6 DEF ClientInv

-----------------------------------------------------------------------------
(* Type correctness of every step.                                         *)
LEMMA RunStepTyping ==
    ASSUME ClientTypeOK, NEW c \in Clients, Start(c) \/ RunStep(c) \/ SessionLost(c)
    PROVE  ClientTypeOK'
  <1> USE SiteAssumption DEF ClientTypeOK, Goto, OnPath
  <1>0. Own(c) \in Scripts
    BY OwnIsScript
  <1>1. CASE Start(c) BY <1>1 DEF Start, Steps
  <1>2. CASE SshConnect(c) BY <1>2 DEF SshConnect, Steps, Ends
  <1>3. CASE Put(c) BY <1>3 DEF Put, Steps, Ends
  <1>4. CASE Upload(c) BY <1>4 DEF Upload, Steps, Ends
  <1>5. CASE Exec(c) BY <1>0, <1>5 DEF Exec, Steps, Ends, Phases, Running
  <1>6. CASE Await(c) BY <1>6 DEF Await, Steps
  <1>7. CASE SessionLost(c) BY <1>7 DEF SessionLost, Ends
  <1>8. CASE Read(c) BY <1>8 DEF Read, Steps, Ends
  <1>9. CASE RemoveExec(c) BY <1>9 DEF RemoveExec, Steps, Ends
  <1>10. CASE RemoveOut(c) BY <1>10 DEF RemoveOut, Ends, Phases, Running
  <1> QED BY <1>1, <1>2, <1>3, <1>4, <1>5, <1>6, <1>7, <1>8, <1>9, <1>10 DEF RunStep

LEMMA ScriptStepTyping ==
    ASSUME ClientTypeOK, NEW p \in Scripts, ScriptStep(p)
    PROVE  ClientTypeOK'
  <1> USE DEF ClientTypeOK, Become, Phases, Running
  <1>1. At(p) \in Sites
    BY SiteAssumption DEF At, Scripts
  <1>2. CASE Load(p) BY <1>2 DEF Load
  <1>3. CASE OpenOut(p) BY <1>1, <1>3 DEF OpenOut, Contents
  <1>4. CASE Write(p) BY <1>1, <1>4 DEF Write, Contents, Reports
  <1>5. CASE WriteUnlinked(p) BY <1>5 DEF WriteUnlinked
  <1>6. CASE ScriptFails(p) BY <1>6 DEF ScriptFails
  <1> QED BY <1>2, <1>3, <1>4, <1>5, <1>6 DEF ScriptStep

-----------------------------------------------------------------------------
(* A step that leaves a client's variables, files and scripts alone keeps  *)
(* what is said about it.                                                  *)
Untouched(d) ==
    /\ epoch' = epoch
    /\ pc'[d] = pc[d] /\ output'[d] = output[d] /\ alone'[d] = alone[d]
    /\ execFile'[OnPath(d)] = execFile[OnPath(d)]
    /\ outFile'[OnPath(d)] = outFile[OnPath(d)]
    /\ \A p \in Scripts : p.client = d => phase'[p] = phase[p]

LEMMA UntouchedKeeps ==
    ASSUME epoch \in Epochs, NEW d \in Clients, PlaceInv(d), Untouched(d)
    PROVE  PlaceInv(d)'
  <1>1. Own(d) \in Scripts /\ Own(d).client = d
    BY OwnIsScript
  <1>2. Own(d)' = Own(d) /\ OnPath(d)' = OnPath(d) /\ phase'[Own(d)] = phase[Own(d)]
    BY <1>1 DEF Untouched, Own, OnPath
  <1> QED BY <1>1, <1>2
      DEF Untouched, PlaceInv, ScriptIsThere, Linked,
          OthersStopped, IsOwnReport, FileIsFresh, OutputIsFresh

LEMMA OthersUntouched ==
    ASSUME ClientTypeOK, NEW c \in Clients, NEW d \in Clients, c # d, OwnPlace(d),
           Start(c) \/ RunStep(c) \/ SessionLost(c)
    PROVE  Untouched(d)
  <1>1. OnPath(c) # OnPath(d) /\ OnPath(c) \in Sites /\ OnPath(d) \in Sites
    BY SiteAssumption DEF OnPath, OwnPlace
  <1>2. \A p \in Scripts : p.client = d => p # Own(c) /\ SiteOf[p.client] # OnPath(c)
    BY <1>1 DEF Own, OnPath
  <1> USE <1>1, <1>2 DEF ClientTypeOK, Goto, Untouched
  <1>3. CASE Start(c) BY <1>3 DEF Start
  <1>4. CASE SshConnect(c) BY <1>4 DEF SshConnect
  <1>5. CASE Put(c) BY <1>5 DEF Put
  <1>6. CASE Upload(c) BY <1>6 DEF Upload
  <1>7. CASE Exec(c) BY <1>7 DEF Exec
  <1>8. CASE Await(c) BY <1>8 DEF Await
  <1>9. CASE SessionLost(c) BY <1>9 DEF SessionLost
  <1>10. CASE Read(c) BY <1>10 DEF Read
  <1>11. CASE RemoveExec(c) BY <1>11 DEF RemoveExec
  <1>12. CASE RemoveOut(c) BY <1>12 DEF RemoveOut
  <1> QED BY <1>3, <1>4, <1>5, <1>6, <1>7, <1>8, <1>9, <1>10, <1>11, <1>12 DEF RunStep

LEMMA OtherPlaceUntouched ==
    ASSUME ClientTypeOK, NEW p \in Scripts, NEW d \in Clients, p.client # d,
           OwnPlace(d), ScriptStep(p)
    PROVE  Untouched(d)
  <1>1. At(p) # OnPath(d) /\ At(p) \in Sites /\ OnPath(d) \in Sites
    BY SiteAssumption DEF At, OnPath, OwnPlace, Scripts
  <1> USE <1>1 DEF ClientTypeOK, Become, Untouched
  <1>2. CASE Load(p) BY <1>2 DEF Load
  <1>3. CASE OpenOut(p) BY <1>3 DEF OpenOut
  <1>4. CASE Write(p) BY <1>4 DEF Write
  <1>5. CASE WriteUnlinked(p) BY <1>5 DEF WriteUnlinked
  <1>6. CASE ScriptFails(p) BY <1>6 DEF ScriptFails
  <1> QED BY <1>2, <1>3, <1>4, <1>5, <1>6 DEF ScriptStep

-----------------------------------------------------------------------------
(* The bookkeeping under a step of a client and of a script.               *)
LEMMA RunStepBooks ==
    ASSUME ClientTypeOK, Bookkeeping, NEW c \in Clients,
           Start(c) \/ RunStep(c) \/ SessionLost(c)
    PROVE  Bookkeeping'
  <1>1. \A d \in Clients : Own(d) \in Scripts /\ Own(d).client = d /\ Own(d).epoch = epoch
    BY OwnIsScript DEF ClientTypeOK
  <1>2. epoch \in Epochs /\ pc[c] \in Steps \union Ends
    BY DEF ClientTypeOK
  <1> USE <1>1, <1>2 DEF ClientTypeOK, Bookkeeping, Goto, Early, Late, Over
  <1>3. ASSUME epoch' = epoch PROVE \A d \in Clients : Own(d)' = Own(d)
    BY <1>3 DEF Own
  <1>4. CASE Start(c) BY <1>3, <1>4 DEF Start
  <1>5. CASE SshConnect(c) BY <1>3, <1>5 DEF SshConnect
  <1>6. CASE Put(c) BY <1>3, <1>6 DEF Put
  <1>7. CASE Upload(c) BY <1>3, <1>7 DEF Upload
  <1>8. CASE Exec(c)
    <2>1. \A d \in Clients : d # c => Own(d) # Own(c)
      BY <1>1
    <2>2. /\ epoch' = epoch /\ output' = output
          /\ phase' = phase \/ phase' = [phase EXCEPT ![Own(c)] = "spawned"]
          /\ pc[c] = "exec" /\ pc'[c] \in {"wait", "skipped", "died"}
          /\ \A d \in Clients \ {c} : pc'[d] = pc[d]
      BY <1>8 DEF Exec
    <2>3. \A p \in Scripts : p # Own(c) => phase'[p] = phase[p]
      BY <2>2
    <2> QED BY <1>1, <1>3, <2>1, <2>2, <2>3 DEF Epochs
  <1>9. CASE Await(c) BY <1>3, <1>9 DEF Await
  <1>10. CASE SessionLost(c) BY <1>3, <1>10 DEF SessionLost
  <1>11. CASE Read(c) BY <1>3, <1>11 DEF Read
  <1>12. CASE RemoveExec(c) BY <1>3, <1>12 DEF RemoveExec
  <1>13. CASE RemoveOut(c) BY <1>3, <1>13 DEF RemoveOut
  <1> QED BY <1>4, <1>5, <1>6, <1>7, <1>8, <1>9, <1>10, <1>11, <1>12, <1>13 DEF RunStep

LEMMA ScriptStepBooks ==
    ASSUME ClientTypeOK, Bookkeeping, NEW p \in Scripts, ScriptStep(p)
    PROVE  Bookkeeping'
  <1>1. \A d \in Clients : Own(d) \in Scripts /\ Own(d)' = Own(d)
    BY OwnIsScript DEF ClientTypeOK, ScriptStep, Load, OpenOut, Write, WriteUnlinked,
                       ScriptFails, Own
  <1>2. UNCHANGED <<epoch, pc, output>>
    BY DEF ScriptStep, Load, OpenOut, Write, WriteUnlinked, ScriptFails
  <1>3. phase[p] \in Running
    BY DEF ScriptStep, Load, OpenOut, Write, WriteUnlinked, ScriptFails, Running
  <1>4. \A q \in Scripts : q # p => phase'[q] = phase[q]
    BY DEF ScriptStep, Load, OpenOut, Write, WriteUnlinked, ScriptFails, Become, ClientTypeOK
  <1>5. phase[p] \notin Over \union {"none"}
    BY <1>3 DEF Running, Over
  <1> QED BY <1>1, <1>2, <1>4, <1>5 DEF Bookkeeping

-----------------------------------------------------------------------------
(* Where reports come from, whoever shares a place.                        *)
LEMMA RunStepOrigin ==
    ASSUME ClientTypeOK, Origin, NEW c \in Clients, Start(c) \/ RunStep(c) \/ SessionLost(c)
    PROVE  Origin'
  <1>1. OnPath(c) = SiteOf[c] /\ SiteOf[c] \in Sites
    BY SiteAssumption DEF OnPath
  <1>2. CASE Read(c)
    BY <1>1, <1>2 DEF Read, Origin, FromPlace, ClientTypeOK
  <1>3. CASE RemoveOut(c)
    BY <1>1, <1>3 DEF RemoveOut, Origin, FromPlace, NoFile, ClientTypeOK
  <1>4. CASE UNCHANGED <<outFile, output>>
    BY <1>4 DEF Origin, FromPlace
  <1> QED BY <1>2, <1>3, <1>4
      DEF Start, RunStep, SshConnect, Put, Upload, Exec, Await, SessionLost, RemoveExec

LEMMA ScriptStepOrigin ==
    ASSUME ClientTypeOK, Origin, NEW p \in Scripts, ScriptStep(p)
    PROVE  Origin'
  <1>1. At(p) = SiteOf[p.client] /\ At(p) \in Sites
    BY SiteAssumption DEF At, Scripts
  <1>2. CASE OpenOut(p)
    BY <1>1, <1>2 DEF OpenOut, Origin, FromPlace, Nothing, ClientTypeOK
  <1>3. CASE Write(p)
    BY <1>1, <1>3 DEF Write, Origin, FromPlace, ClientTypeOK
  <1>4. CASE UNCHANGED <<outFile, output>>
    BY <1>4 DEF Origin, FromPlace
  <1> QED BY <1>2, <1>3, <1>4 DEF ScriptStep, Load, WriteUnlinked, ScriptFails

-----------------------------------------------------------------------------
(* What is said of client c under its own steps, if its place is its own.  *)
LEMMA RunStepPlace ==
    ASSUME ClientTypeOK, Bookkeeping, NEW c \in Clients, OwnPlace(c), PlaceInv(c),
           Start(c) \/ RunStep(c) \/ SessionLost(c)
    PROVE  PlaceInv(c)'
  <1>1. Own(c) \in Scripts /\ Own(c).client = c
    BY OwnIsScript DEF ClientTypeOK
  <1>2. OnPath(c) \in Sites
    BY SiteAssumption DEF OnPath
  <1>3. epoch' = epoch
    BY DEF Start, RunStep, SshConnect, Put, Upload, Exec, Await, SessionLost, Read,
           RemoveExec, RemoveOut
  <1>4. Own(c)' = Own(c)
    BY <1>3 DEF Own
  <1> USE <1>1, <1>2, <1>3, <1>4
      DEF ClientTypeOK, Bookkeeping, Goto, Early, Late, Over,
          PlaceInv, ScriptIsThere, Linked, OthersStopped,
          IsOwnReport, FileIsFresh, OutputIsFresh
  <1>5. CASE Start(c) BY <1>5 DEF Start
  <1>6. CASE SshConnect(c) BY <1>6 DEF SshConnect
  <1>7. CASE Put(c) BY <1>7 DEF Put
  <1>8. CASE Upload(c)
    <2>1. ~Contended(c)
      BY DEF Contended, OwnPlace, OnPath
    <2> QED BY <1>8, <2>1 DEF Upload
  <1>9. CASE Exec(c)
    <2>1. phase[Own(c)] = "none" /\ output[c] = NoFile
      BY <1>9 DEF Exec
    <2>2. /\ UNCHANGED <<execFile, outFile, output>>
          /\ \/ pc'[c] \in {"skipped", "died"} /\ UNCHANGED <<phase, alone>>
             \/ /\ pc'[c] = "wait" /\ execFile[OnPath(c)] = "script"
                /\ phase' = [phase EXCEPT ![Own(c)] = "spawned"]
                /\ alone'[c] =>
                      \A p \in Scripts : p.client = c => phase[p] \notin Running
      BY <1>9 DEF Exec
    <2>3. /\ phase'[Own(c)] \in {"none", "spawned"}
          /\ \A p \in Scripts : p # Own(c) => phase'[p] = phase[p]
      BY <2>1, <2>2
    <2>4. Linked(c)' /\ FileIsFresh(c)'
          /\ OutputIsFresh(c)'
      BY <2>1, <2>2, <2>3
    <2>5. ScriptIsThere(c)'
      BY <2>2, <2>3
    <2>6. OthersStopped(c)'
      BY <2>1, <2>2, <2>3
    <2> QED BY <2>4, <2>5, <2>6
  <1>10. CASE Await(c) BY <1>10 DEF Await
  <1>11. CASE SessionLost(c) BY <1>11 DEF SessionLost
  <1>12. CASE Read(c) BY <1>12 DEF Read
  <1>13. CASE RemoveExec(c) BY <1>13 DEF RemoveExec
  <1>14. CASE RemoveOut(c)
    <2>1. /\ phase[Own(c)] \in Over
          /\ UNCHANGED <<execFile, output, alone>>
          /\ pc'[c] \in {"notified", "died"}
          /\ outFile'[OnPath(c)] \in {outFile[OnPath(c)], NoFile}
      BY <1>14 DEF RemoveOut
    <2>2. /\ phase'[Own(c)] = phase[Own(c)]
          /\ \A p \in Scripts : phase[p] \notin Running => phase'[p] \notin Running
      BY <1>14, <2>1 DEF RemoveOut, Running
    <2> QED BY <2>1, <2>2 DEF NoFile
  <1> QED BY <1>5, <1>6, <1>7, <1>8, <1>9, <1>10, <1>11, <1>12, <1>13, <1>14
          DEF RunStep

(* And under the steps of its scripts.                                     *)
LEMMA ScriptStepPlace ==
    ASSUME ClientTypeOK, Bookkeeping, NEW p \in Scripts, PlaceInv(p.client),
           ScriptStep(p)
    PROVE  PlaceInv(p.client)'
  <1> DEFINE c == p.client
  <1>1. c \in Clients /\ Own(c) \in Scripts /\ Own(c).client = c
    BY OwnIsScript DEF ClientTypeOK, Scripts
  <1>2. OnPath(c) \in Sites /\ At(p) = OnPath(c)
    BY <1>1, SiteAssumption DEF OnPath, At
  <1>3. /\ UNCHANGED <<epoch, pc, execFile, output, alone>>
        /\ phase[p] \in Running
        /\ \A q \in Scripts : q # p => phase'[q] = phase[q]
    BY DEF ScriptStep, Load, OpenOut, Write, WriteUnlinked, ScriptFails, Running,
           Become, ClientTypeOK
  <1>4. Own(c)' = Own(c)
    BY <1>3 DEF Own
  <1>5. ScriptIsThere(c)'
    <2>1. phase'[p] # "spawned"
      BY DEF ScriptStep, Load, OpenOut, Write, WriteUnlinked, ScriptFails, Become,
             ClientTypeOK
    <2> QED BY <1>1, <1>3, <1>4, <2>1 DEF PlaceInv, ScriptIsThere, OnPath
  <1>6. phase[Own(c)] # "unlinked" => phase'[Own(c)] # "unlinked"
    BY <1>1, <1>3 DEF ScriptStep, Load, OpenOut, Write, WriteUnlinked, ScriptFails,
                      Become, ClientTypeOK
  <1>7. OthersStopped(c)'
    BY <1>1, <1>3, <1>4 DEF PlaceInv, OthersStopped, Running
  <1>8. FileIsFresh(c)'
    <2> SUFFICES ASSUME alone[c], phase'[Own(c)] = "ended", pc[c] \in {"wait", "read"}
                 PROVE  IsOwnReport(c, outFile[OnPath(c)])'
      BY <1>3, <1>4 DEF FileIsFresh
    <2>1. p = Own(c)
      <3>1. phase[Own(c)] # "none"
        BY <1>1, <1>3 DEF Running
      <3> QED BY <1>3, <3>1 DEF PlaceInv, OthersStopped
    <2>2. Write(p)
      BY <1>6, <2>1 DEF PlaceInv, Linked, ScriptStep, Load, OpenOut, WriteUnlinked,
                  ScriptFails, Become, ClientTypeOK
    <2> QED BY <1>2, <1>4, <2>1, <2>2 DEF Write, IsOwnReport, OnPath, ClientTypeOK
  <1>9. OutputIsFresh(c)'
    <2> SUFFICES ASSUME alone[c], phase'[Own(c)] = "ended", output[c] # NoFile
                 PROVE  IsOwnReport(c, output[c])'
      BY <1>3, <1>4 DEF OutputIsFresh
    <2>1. p # Own(c)
      BY <1>1, <1>3 DEF Bookkeeping, Running, Over
    <2> QED BY <1>1, <1>3, <1>4, <2>1 DEF PlaceInv, OutputIsFresh, IsOwnReport
  <1> QED BY <1>4, <1>5, <1>6, <1>7, <1>8, <1>9 DEF PlaceInv, Linked

-----------------------------------------------------------------------------
LEMMA RunStepInv ==
    ASSUME ClientInv, NEW c \in Clients, Start(c) \/ RunStep(c) \/ SessionLost(c)
    PROVE  ClientInv'
  <1>1. ClientTypeOK'
    BY RunStepTyping DEF ClientInv
  <1>2. Bookkeeping'
    BY RunStepBooks DEF ClientInv
  <1>3. ASSUME NEW d \in Clients, OwnPlace(d) PROVE PlaceInv(d)'
    <2>1. CASE d = c
      BY <1>3, <2>1, RunStepPlace DEF ClientInv
    <2>2. CASE d # c
      <3>1. Untouched(d)
        BY <1>3, <2>2, OthersUntouched DEF ClientInv
      <3> QED BY <1>3, <3>1, UntouchedKeeps DEF ClientInv, ClientTypeOK
    <2> QED BY <2>1, <2>2
  <1>4. Origin'
    BY RunStepOrigin DEF ClientInv
  <1> QED BY <1>1, <1>2, <1>3, <1>4 DEF ClientInv, OwnPlace

LEMMA ScriptStepInv ==
    ASSUME ClientInv, NEW p \in Scripts, ScriptStep(p)
    PROVE  ClientInv'
  <1>1. ClientTypeOK'
    BY ScriptStepTyping DEF ClientInv
  <1>2. Bookkeeping'
    BY ScriptStepBooks DEF ClientInv
  <1>3. ASSUME NEW d \in Clients, OwnPlace(d) PROVE PlaceInv(d)'
    <2>1. CASE d = p.client
      BY <1>3, <2>1, ScriptStepPlace DEF ClientInv
    <2>2. CASE d # p.client
      <3>1. Untouched(d)
        BY <1>3, <2>2, OtherPlaceUntouched DEF ClientInv
      <3> QED BY <1>3, <3>1, UntouchedKeeps DEF ClientInv, ClientTypeOK
    <2> QED BY <2>1, <2>2
  <1>4. Origin'
    BY ScriptStepOrigin DEF ClientInv
  <1> QED BY <1>1, <1>2, <1>3, <1>4 DEF ClientInv, OwnPlace

LEMMA RerunInv ==
    ASSUME ClientInv, Rerun
    PROVE  ClientInv'
  <1>1. /\ epoch' = epoch + 1 /\ epoch \in Nat /\ epoch + 1 \in Epochs
        /\ pc' = [c \in Clients |-> "idle"]
        /\ output' = [c \in Clients |-> NoFile]
        /\ UNCHANGED <<execFile, outFile, phase, alone>>
    BY MaxEpochAssumption DEF Rerun, ClientInv, ClientTypeOK, Epochs
  <1>2. ClientTypeOK'
    BY <1>1 DEF ClientInv, ClientTypeOK, Steps
  <1>3. ASSUME NEW c \in Clients PROVE phase[Own(c)'] = "none" /\ Own(c)' \in Scripts
    <2>1. Own(c)' = [client |-> c, epoch |-> epoch + 1]
      BY <1>1 DEF Own
    <2>2. Own(c)' \in Scripts /\ Own(c)'.epoch > epoch
      BY <1>1, <2>1 DEF Scripts
    <2> QED BY <2>2 DEF ClientInv, Bookkeeping
  <1>4. Bookkeeping'
    <2>1. \A p \in Scripts : p.epoch > epoch + 1 => phase[p] = "none"
      BY <1>1 DEF ClientInv, Bookkeeping, Scripts, Epochs
    <2> QED BY <1>1, <1>3, <2>1 DEF Bookkeeping, Late
  <1>5. ASSUME NEW c \in Clients, OwnPlace(c) PROVE PlaceInv(c)'
    BY <1>1, <1>3, <1>5
    DEF ClientInv, PlaceInv, ScriptIsThere, Linked,
        OthersStopped, FileIsFresh, OutputIsFresh, OnPath, NoFile
  <1>6. Origin'
    BY <1>1 DEF ClientInv, Origin, FromPlace, NoFile
  <1> QED BY <1>2, <1>4, <1>5, <1>6 DEF ClientInv, OwnPlace

LEMMA ClientStutterInv ==
    ASSUME ClientInv, UNCHANGED clientVars
    PROVE  ClientInv'
  <1>1. \A c \in Clients : Own(c)' = Own(c)
    BY DEF clientVars, Own
  <1> QED BY <1>1
      DEF clientVars, ClientInv, ClientTypeOK, Bookkeeping, PlaceInv, 
          ScriptIsThere, Linked, OthersStopped, IsOwnReport,
          FileIsFresh, OutputIsFresh, OwnPlace, OnPath, Origin, FromPlace

LEMMA ClientNextInv == ClientInv /\ [ClientNext]_clientVars => ClientInv'
  BY RunStepInv, ScriptStepInv, RerunInv, ClientStutterInv DEF ClientNext

LEMMA ClientInvImplies ==
    ClientInv => ClientTypeOK /\ OwnOutput /\ ScriptPresent /\ StaleOnlyAfterFailure
  BY DEF ClientInv, PlaceInv, Origin, FromPlace, OwnOutput, ScriptIsThere, ScriptPresent,
         OutputIsFresh, IsOwnReport, StaleOnlyAfterFailure

LEMMA ClientInvariant == ClientSpec => []ClientInv
  BY ClientInitInv, ClientNextInv, PTL DEF ClientSpec

(* The type invariant, for any number of clients and of runs.              *)
THEOREM ClientTyping == ClientSpec => []ClientTypeOK
  BY ClientInvImplies, ClientInvariant, PTL

(* No output comes from another place, so that a client with a place of    *)
(* its own never gets another's (Client.run, server.py lines 543-562),     *)
(* whatever crashes, failures and leftovers.                               *)
THEOREM OutputsAreOwn == ClientSpec => []OwnOutput
  BY ClientInvImplies, ClientInvariant, PTL

(* The started script of a client with a place of its own finds its file   *)
(* whole.                                                                  *)
THEOREM ScriptsArePresent == ClientSpec => []ScriptPresent
  BY ClientInvImplies, ClientInvariant, PTL

(* A client with a place of its own reads an old or empty output only      *)
(* after this run's script failed or beside an older script that was still *)
(* running.                                                                *)
THEOREM StaleOutputsExplained == ClientSpec => []StaleOnlyAfterFailure
  BY ClientInvImplies, ClientInvariant, PTL
============================================================================
