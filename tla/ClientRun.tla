----------------------------- MODULE ClientRun -----------------------------
(***************************************************************************)
(* Client.run of ssh-client/src/server/server.py and what it does on the   *)
(* remote machines: copy client.py to the client's place, run it there,    *)
(* read the file it wrote, remove both files, and tell the observers.      *)
(*                                                                         *)
(* The two files of a place and the scripts outlive the collector: main is *)
(* run again (epoch counts its runs), finds what earlier runs left, and a  *)
(* script started by a run that was killed goes on.  paramiko and the      *)
(* remote machines are external.  What client.py writes is one record: who *)
(* started it, the reading, and whether the ciphertext survives the        *)
(* output.strip() and decryption of did_client_executed.                   *)
(***************************************************************************)
EXTENDS Fleet

CONSTANT MaxEpoch   \* bound on the runs of main

ASSUME MaxEpochAssumption == MaxEpoch \in Nat \ {0}

Epochs  == 1..MaxEpoch
Scripts == [client : Clients, epoch : Epochs]

NoFile   == [kind |-> "nofile"]
Nothing  == [kind |-> "empty"]
Reports  == [kind : {"report"}, by : Scripts, reading : Readings, intact : BOOLEAN]
Contents == {Nothing} \union Reports

VARIABLES
    epoch,       \* the run of main in progress
    pc,          \* pc[c]: where Client.run of client c is
    execFile,    \* execFile[s]: absent, partial (an upload began), script
    outFile,     \* outFile[s]: NoFile, or the contents of the file
    phase,       \* phase[p]: how far script p has come
    output,      \* output[c]: the local variable, NoFile for None
    alone        \* history: no older script of c ran when c's was started

clientVars == <<epoch, pc, execFile, outFile, phase, output, alone>>

Running == {"spawned", "loaded", "writing", "unlinked"}
Phases  == {"none", "ended", "failed"} \union Running

Steps == {"idle", "connect", "put", "upload", "exec", "wait", "read",
          "rmexec", "rmout"}
Ends  == {"skipped", "died", "notified"}

Own(c) == [client |-> c, epoch |-> epoch]
(* Mutant: every client reads and writes at the place of the first. *)
OnFirstPath(c) == SiteOf[1]

OnPath(c) == SiteOf[c]
Goto(c, label) == pc' = [pc EXCEPT ![c] = label]

ClientInit ==
    /\ epoch = 1
    /\ pc = [c \in Clients |-> "idle"]
    /\ execFile = [s \in Sites |-> "absent"]
    /\ outFile = [s \in Sites |-> NoFile]
    /\ phase = [p \in Scripts |-> "none"]
    /\ output = [c \in Clients |-> NoFile]
    /\ alone = [c \in Clients |-> TRUE]

-----------------------------------------------------------------------------
(* One action per remote call of Client.run.  "skipped" is the path that   *)
(* ends in notify_observers(None) and a return, "died" an exception that   *)
(* no clause of Client.run names.                                          *)

Start(c) ==
    /\ pc[c] = "idle"
    /\ Goto(c, "connect")
    /\ UNCHANGED <<epoch, execFile, outFile, phase, output, alone>>

(* Mutant: a failed connection returns without notifying the observers. *)
SshConnectUnnotified(c) ==
    /\ pc[c] = "connect"
    /\ \E label \in {"put", "returned", "died"} : Goto(c, label)
    /\ UNCHANGED <<epoch, execFile, outFile, phase, output, alone>>

(* ssh.connect, whose failures are caught, and open_sftp, whose are not.   *)
SshConnect(c) ==
    /\ pc[c] = "connect"
    /\ \E label \in {"put", "skipped", "died"} : Goto(c, label)
    /\ UNCHANGED <<epoch, execFile, outFile, phase, output, alone>>

(* sftp.put opens the local file, then the remote one for writing, which   *)
(* empties it.  Only an OSError is caught; in Python 2 a failure of the    *)
(* remote side is an IOError, which is not one.                            *)
Put(c) ==
    /\ pc[c] = "put"
    /\ \/ /\ \E label \in {"skipped", "died"} : Goto(c, label)
          /\ UNCHANGED execFile
       \/ /\ Goto(c, "upload")
          /\ execFile' = [execFile EXCEPT ![OnPath(c)] = "partial"]
    /\ UNCHANGED <<epoch, outFile, phase, output, alone>>

(* Another client of this run may have used c's place: its upload may have *)
(* emptied the file c is filling.                                          *)
Contended(c) ==
    \E d \in Clients \ {c} :
        OnPath(d) = OnPath(c) /\ pc[d] \notin {"idle", "connect", "put"}

(* Mutant: the script is started without waiting for its upload. *)
UploadUnconfirmed(c) ==
    /\ pc[c] = "upload"
    /\ \/ Goto(c, "died") /\ UNCHANGED execFile
       \/ /\ Goto(c, "exec")
          /\ \E f \in {"partial", "script"} :
                execFile' = [execFile EXCEPT ![OnPath(c)] = f]
    /\ UNCHANGED <<epoch, outFile, phase, output, alone>>

(* The transfer completes and the size is compared; or it breaks off.      *)
Upload(c) ==
    /\ pc[c] = "upload"
    /\ \/ Goto(c, "died") /\ UNCHANGED execFile
       \/ /\ execFile[OnPath(c)] # "absent"
          /\ Goto(c, "exec")
          /\ \E f \in IF Contended(c) THEN {"partial", "script"} ELSE {"script"} :
                execFile' = [execFile EXCEPT ![OnPath(c)] = f]
    /\ UNCHANGED <<epoch, outFile, phase, output, alone>>

(* ssh.exec_command: the remote shell starts the script.                   *)
Exec(c) ==
    /\ pc[c] = "exec"
    /\ \/ /\ \E label \in {"skipped", "died"} : Goto(c, label)
          /\ UNCHANGED <<phase, alone>>
       \/ /\ Goto(c, "wait")
          /\ phase' = [phase EXCEPT ![Own(c)] = "spawned"]
          /\ alone' = [alone EXCEPT ![c] =
                \A p \in Scripts : p.client = c => phase[p] \notin Running]
    /\ UNCHANGED <<epoch, execFile, outFile, output>>

(* Mutants: nobody reads the streams, so nobody waits for the script; the  *)
(* wait is for a script that succeeds.                                     *)
AwaitNothing(c) ==
    /\ pc[c] = "wait"
    /\ Goto(c, "read")
    /\ UNCHANGED <<epoch, execFile, outFile, phase, output, alone>>

AwaitSuccess(c) ==
    /\ pc[c] = "wait"
    /\ phase[Own(c)] = "ended"
    /\ Goto(c, "read")
    /\ UNCHANGED <<epoch, execFile, outFile, phase, output, alone>>

(* stdout.read() and stderr.read() return when the script has ended; no    *)
(* one looks at its exit status.  There is no timeout.                     *)
Await(c) ==
    /\ pc[c] = "wait"
    /\ phase[Own(c)] \in {"ended", "failed"}
    /\ Goto(c, "read")
    /\ UNCHANGED <<epoch, execFile, outFile, phase, output, alone>>

(* The session is lost: the reads return, and sftp.open fails, with an     *)
(* IOError (caught) or an exception of paramiko's (not caught).            *)
SessionLost(c) ==
    /\ pc[c] \in {"wait", "read"}
    /\ \E label \in {"skipped", "died"} : Goto(c, label)
    /\ UNCHANGED <<epoch, execFile, outFile, phase, output, alone>>

Read(c) ==
    /\ pc[c] = "read"
    /\ output' = [output EXCEPT ![c] = outFile[OnPath(c)]]
    /\ Goto(c, IF outFile[OnPath(c)] = NoFile THEN "skipped" ELSE "rmexec")
    /\ UNCHANGED <<epoch, execFile, outFile, phase, alone>>

(* The two removals share a try: an SSHException in either ends both and   *)
(* is logged, an IOError (no such file, say) is not caught.  A script that *)
(* has the output file open when it is removed writes to no name any more. *)
RemoveExec(c) ==
    /\ pc[c] = "rmexec"
    /\ \/ /\ \E label \in {"notified", "died"} : Goto(c, label)
          /\ UNCHANGED execFile
       \/ /\ execFile[OnPath(c)] # "absent"
          /\ execFile' = [execFile EXCEPT ![OnPath(c)] = "absent"]
          /\ Goto(c, "rmout")
    /\ UNCHANGED <<epoch, outFile, phase, output, alone>>

RemoveOut(c) ==
    /\ pc[c] = "rmout"
    /\ \/ /\ \E label \in {"notified", "died"} : Goto(c, label)
          /\ UNCHANGED <<outFile, phase>>
       \/ /\ outFile[OnPath(c)] # NoFile
          /\ outFile' = [outFile EXCEPT ![OnPath(c)] = NoFile]
          /\ phase' = [p \in Scripts |->
                IF phase[p] = "writing" /\ SiteOf[p.client] = OnPath(c)
                THEN "unlinked" ELSE phase[p]]
          /\ Goto(c, "notified")
    /\ UNCHANGED <<epoch, execFile, output, alone>>

-----------------------------------------------------------------------------
(* client.py on the remote machine, as process p: python loads the file,   *)
(* run() measures, opens the output file for writing, writes it, ends.     *)

At(p) == SiteOf[p.client]
Become(p, label) == phase' = [phase EXCEPT ![p] = label]

(* An absent or incomplete file does not run.                              *)
Load(p) ==
    /\ phase[p] = "spawned"
    /\ Become(p, IF execFile[At(p)] = "script" THEN "loaded" ELSE "failed")
    /\ UNCHANGED <<epoch, pc, execFile, outFile, output, alone>>

OpenOut(p) ==
    /\ phase[p] = "loaded"
    /\ Become(p, "writing")
    /\ outFile' = [outFile EXCEPT ![At(p)] = Nothing]
    /\ UNCHANGED <<epoch, pc, execFile, output, alone>>

(* The file is one block, so it is written in one step.                    *)
Write(p) ==
    /\ phase[p] = "writing"
    /\ Become(p, "ended")
    /\ \E r \in Readings, i \in BOOLEAN :
         outFile' = [outFile EXCEPT ![At(p)] =
             [kind |-> "report", by |-> p, reading |-> r, intact |-> i]]
    /\ UNCHANGED <<epoch, pc, execFile, output, alone>>

WriteUnlinked(p) ==
    /\ phase[p] = "unlinked"
    /\ Become(p, "ended")
    /\ UNCHANGED <<epoch, pc, execFile, outFile, output, alone>>

(* An import, a measurement or the disk fails.                             *)
ScriptFails(p) ==
    /\ phase[p] \in {"loaded", "writing"}
    /\ Become(p, "failed")
    /\ UNCHANGED <<epoch, pc, execFile, outFile, output, alone>>

-----------------------------------------------------------------------------
(* main is run again, after the last run ended or was killed at any point. *)
(* A killed run's sessions are gone, its scripts and files are not.        *)
Rerun ==
    /\ epoch < MaxEpoch
    /\ epoch' = epoch + 1
    /\ pc' = [c \in Clients |-> "idle"]
    /\ output' = [c \in Clients |-> NoFile]
    /\ UNCHANGED <<execFile, outFile, phase, alone>>

RunStep(c) ==
    \/ SshConnect(c) \/ Put(c) \/ Upload(c) \/ Exec(c) \/ Await(c)
    \/ Read(c) \/ RemoveExec(c) \/ RemoveOut(c)

ScriptStep(p) ==
    Load(p) \/ OpenOut(p) \/ Write(p) \/ WriteUnlinked(p) \/ ScriptFails(p)

ClientNext ==
    \/ \E c \in Clients : Start(c) \/ RunStep(c) \/ SessionLost(c)
    \/ \E p \in Scripts : ScriptStep(p)
    \/ Rerun

(* The collector's threads and the remote scripts are scheduled; a session *)
(* need not be lost.                                                       *)
ClientFairness ==
    /\ \A c \in Clients : WF_clientVars(RunStep(c))
    /\ \A p \in Scripts : WF_clientVars(ScriptStep(p))

ClientSpec == ClientInit /\ [][ClientNext]_clientVars
ClientFairSpec == ClientSpec /\ ClientFairness

-----------------------------------------------------------------------------
(* The type invariant: every variable holds a value of its kind.           *)
ClientTypeOK ==
    /\ epoch \in Epochs
    /\ pc \in [Clients -> Steps \union Ends]
    /\ execFile \in [Sites -> {"absent", "partial", "script"}]
    /\ outFile \in [Sites -> {NoFile} \union Contents]
    /\ phase \in [Scripts -> Phases]
    /\ output \in [Clients -> {NoFile} \union Contents]
    /\ alone \in [Clients -> BOOLEAN]

(* What Client.run hands to the observers of c was measured for a client   *)
(* that shares c's place, hence for c itself if nobody does (server.py     *)
(* lines 543-562).                                                         *)
OwnOutput ==
    \A c \in Clients :
        output[c].kind = "report" => SiteOf[output[c].by.client] = SiteOf[c]

(* If the place of c is its own, the script a run has started for c finds  *)
(* its file whole when python comes to load it: the upload has ended and   *)
(* nobody, not an earlier run's leftovers either, has touched it, whatever *)
(* other clients do to each other at a place they share.                   *)
ScriptPresent ==
    \A c \in Clients :
        OwnPlace(c) /\ pc[c] = "wait" /\ phase[Own(c)] = "spawned"
            => execFile[OnPath(c)] = "script"

(* An empty or an old output is read for one of two reasons only: the      *)
(* script of this run failed, which Client.run does not look at, or an     *)
(* older script of the client was still running beside it.  So if the      *)
(* place of c is its own and neither is the case, the output is the report *)
(* this run's script wrote, whatever earlier runs left behind.             *)
StaleOnlyAfterFailure ==
    \A c \in Clients :
        OwnPlace(c) /\ output[c] # NoFile /\ phase[Own(c)] = "ended" /\ alone[c]
            => output[c].kind = "report" /\ output[c].by = Own(c)

(* "output produced by the client" (server.py:283) and "if an error occurs *)
(* on one of them on any step, skip that client" (README.md:233): what a   *)
(* run hands to the observers of c was written by the script this very run *)
(* started for c.                                                          *)
FreshOutput ==
    \A c \in Clients :
        output[c].kind = "report" => output[c].by = Own(c)

(* Client.run of every client that started ends, one way or another, or    *)
(* the run is killed: nothing it waits for can fail to come.               *)
RunEnds == \A c \in Clients : pc[c] = "connect" ~> pc[c] \in Ends \union {"idle"}
============================================================================
