------------------------------ MODULE Messenger ------------------------------
(***************************************************************************)
(* The chat of messenger/: server.py accepts connections in one thread and *)
(* reads each of them in a receiver thread of its own, which sends what it *)
(* read to every other session; client.py sends what its user types and    *)
(* shows what its receiver thread reads.                                   *)
(*                                                                         *)
(* Nothing marks where a message ends: recv returns what the stream holds, *)
(* so texts sent one after the other may be read as one, and an exit word  *)
(* behind a text as a part of it.  The texts of a client are numbered, so  *)
(* that what was read at once is an interval; a single text is never split *)
(* (it is short), and reads are bounded by what was sent.  Sessions are    *)
(* never removed.  The window of the server is not closed.                 *)
(***************************************************************************)
EXTENDS Naturals, Sequences

CONSTANTS
    Users,   \* the clients that may connect
    Texts,   \* Texts[c]: how many texts the user of c types at most
    Leavers, \* the clients that may be closed or killed
    NoOne    \* no client

ASSUME TextsAssumption == Texts \in [Users -> Nat]
ASSUME LeaversAssumption == Leavers \subseteq Users
ASSUME NoOneAssumption == NoOne \notin Users

VARIABLES
    client,     \* client[c]: the process, see below
    typed,      \* typed[c]: texts c has sent
    exit,       \* exit[c]: its exit word: none, sent, read by the server
    read,       \* read[c]: texts of c the server has read
    toClient,   \* toClient[c]: what the server has sent to c and c not read
    shown,      \* shown[c]: what c has shown
    server,     \* the global of that name: None until its constructor returns
    accepting,  \* whose session the accept thread has made, not appended yet
    sessions,   \* TCPserver.sessions, by client
    receiver,   \* receiver[c]: the receiver thread of c's session
    message,    \* message[c]: what that thread is sending around
    next        \* next[c]: the session its loop is at

messengerVars == <<client, typed, exit, read, toClient, shown,
                   server, accepting, sessions, receiver, message, next>>

Bye == [kind |-> "exit"]
Messages(c) == {m \in [kind : {"text"}, from : {c}, first : 1..Texts[c], last : 1..Texts[c]] :
                   m.first <= m.last}
AllMessages == UNION {Messages(c) : c \in Users}
Packets == {Bye} \union AllMessages

(* on: window and receiver thread; deaf: the thread has died, the window   *)
(* still sends; closing: the window is gone, the thread still reads;       *)
(* stuck: the thread waits for the window that is gone.                    *)
ClientStates   == {"off", "on", "deaf", "closing", "stuck", "gone"}
ReceiverStates == {"none", "reading", "sending", "ended", "died"}

Registered(c) == \E i \in DOMAIN sessions : sessions[i] = c

MessengerInit ==
    /\ client = [c \in Users |-> "off"]
    /\ typed = [c \in Users |-> 0]
    /\ exit = [c \in Users |-> "none"]
    /\ read = [c \in Users |-> 0]
    /\ toClient = [c \in Users |-> <<>>]
    /\ shown = [c \in Users |-> <<>>]
    /\ server = "None"
    /\ accepting = NoOne
    /\ sessions = <<>>
    /\ receiver = [c \in Users |-> "none"]
    /\ message = [c \in Users |-> Bye]
    /\ next = [c \in Users |-> 1]

-----------------------------------------------------------------------------
(* client.py.                                                              *)

Connect(c) ==
    /\ client[c] = "off"
    /\ client' = [client EXCEPT ![c] = "on"]
    /\ UNCHANGED <<typed, exit, read, toClient, shown, server, accepting, sessions,
                   receiver, message, next>>

(* TCPsender.send: the flag is_connected outlives the receiver thread.     *)
Type(c) ==
    /\ client[c] \in {"on", "deaf"}
    /\ typed[c] < Texts[c]
    /\ typed' = [typed EXCEPT ![c] = @ + 1]
    /\ UNCHANGED <<client, exit, read, toClient, shown, server, accepting, sessions,
                   receiver, message, next>>

(* handleExit: send exit, destroy the window.  The process ends when its   *)
(* receiver thread does.                                                   *)
CloseWindow(c) ==
    /\ c \in Leavers /\ client[c] \in {"on", "deaf"}
    /\ exit' = [exit EXCEPT ![c] = "sent"]
    /\ client' = [client EXCEPT ![c] = IF @ = "on" THEN "closing" ELSE "gone"]
    /\ UNCHANGED <<typed, read, toClient, shown, server, accepting, sessions,
                   receiver, message, next>>

(* TCPclient.run reads: one message is shown; exit ends the thread; any    *)
(* more is no JSON document and an exception does.  With the window gone a *)
(* message cannot be shown.                                                *)
ShowNext(c) ==
    /\ client[c] = "on"
    /\ Head(toClient[c]) # Bye
    /\ shown' = [shown EXCEPT ![c] = Append(@, Head(toClient[c]))]
    /\ toClient' = [toClient EXCEPT ![c] = Tail(@)]
    /\ UNCHANGED client

ReadTogether(c) ==
    /\ \E n \in 2..Len(toClient[c]) :
          toClient' = [toClient EXCEPT ![c] = SubSeq(@, n + 1, Len(@))]
    /\ client' = [client EXCEPT ![c] = IF @ = "on" THEN "deaf" ELSE "gone"]
    /\ UNCHANGED shown

ReadClosing(c) ==
    /\ client[c] = "closing"
    /\ toClient' = [toClient EXCEPT ![c] = Tail(@)]
    /\ client' \in {[client EXCEPT ![c] = s] :
                        s \in IF Head(toClient[c]) = Bye THEN {"gone"} ELSE {"gone", "stuck"}}
    /\ UNCHANGED shown

ClientReceive(c) ==
    /\ client[c] \in {"on", "closing"}
    /\ toClient[c] # <<>>
    /\ ShowNext(c) \/ ReadTogether(c) \/ ReadClosing(c)
    /\ UNCHANGED <<typed, exit, read, server, accepting, sessions, receiver,
                   message, next>>

(* The process is killed.                                                  *)
Crash(c) ==
    /\ c \in Leavers /\ client[c] \in {"on", "deaf", "closing", "stuck"}
    /\ client' = [client EXCEPT ![c] = "gone"]
    /\ UNCHANGED <<typed, exit, read, toClient, shown, server, accepting, sessions,
                   receiver, message, next>>

-----------------------------------------------------------------------------
(* server.py.                                                              *)

(* The main thread: TCPserver.__init__ has started the accept thread, and  *)
(* only when it has returned is there a server for the receiver threads.   *)
AssignServer ==
    /\ server = "None"
    /\ server' = "TCPserver"
    /\ UNCHANGED <<client, typed, exit, read, toClient, shown, accepting, sessions,
                   receiver, message, next>>

(* TCPserver.accept: the constructor of the session starts the receiver    *)
(* thread, and only then is the session appended.                          *)
Accept(c) ==
    /\ accepting = NoOne
    /\ client[c] # "off" /\ receiver[c] = "none"
    /\ accepting' = c
    /\ receiver' = [receiver EXCEPT ![c] = "reading"]
    /\ UNCHANGED <<client, typed, exit, read, toClient, shown, server, sessions,
                   message, next>>

(* Mutant: the newest session comes first. *)
RegisterFirst ==
    /\ accepting # NoOne
    /\ sessions' = <<accepting>> \o sessions
    /\ accepting' = NoOne
    /\ UNCHANGED <<client, typed, exit, read, toClient, shown, server, receiver,
                   message, next>>

Register ==
    /\ accepting # NoOne
    /\ sessions' = Append(sessions, accepting)
    /\ accepting' = NoOne
    /\ UNCHANGED <<client, typed, exit, read, toClient, shown, server, receiver,
                   message, next>>

(* conn.send to d.  Sent to a process that is gone it is lost, and the     *)
(* connection reset: the next send raises.                                 *)
SendTo(d, packet) == toClient' = [toClient EXCEPT ![d] = Append(@, packet)]
Reset(d) == client[d] = "gone" /\ toClient[d] # <<>>

Become(c, state) == receiver' = [receiver EXCEPT ![c] = state]

(* Mutants: an empty read is a message too; the loop over the sessions is  *)
(* not begun anew.                                                         *)
ReceiveNothing(c) ==
    /\ receiver[c] = "reading"
    /\ \E n \in read[c]..typed[c] :
          /\ read' = [read EXCEPT ![c] = n]
          /\ message' = [message EXCEPT ![c] =
                [kind |-> "text", from |-> c, first |-> read[c] + 1, last |-> n]]
    /\ next' = [next EXCEPT ![c] = 1]
    /\ Become(c, "sending")
    /\ UNCHANGED <<client, typed, exit, toClient, shown, server, accepting, sessions>>

ReceiveGoesOn(c) ==
    /\ receiver[c] = "reading"
    /\ \E n \in (read[c] + 1)..typed[c] :
          /\ read' = [read EXCEPT ![c] = n]
          /\ message' = [message EXCEPT ![c] =
                [kind |-> "text", from |-> c, first |-> read[c] + 1, last |-> n]]
    /\ Become(c, "sending")
    /\ UNCHANGED <<client, typed, exit, toClient, shown, server, accepting,
                   sessions, next>>

(* The thread of c reads some texts, with the exit word behind the last or *)
(* not, and takes them for one message.                                    *)
ReceiveText(c) ==
    /\ receiver[c] = "reading"
    /\ \E n \in (read[c] + 1)..typed[c] :
          /\ read' = [read EXCEPT ![c] = n]
          /\ message' = [message EXCEPT ![c] =
                [kind |-> "text", from |-> c, first |-> read[c] + 1, last |-> n]]
          /\ \/ UNCHANGED exit
             \/ n = typed[c] /\ exit[c] = "sent" /\ exit' = [exit EXCEPT ![c] = "read"]
    /\ next' = [next EXCEPT ![c] = 1]
    /\ Become(c, "sending")
    /\ UNCHANGED <<client, typed, toClient, shown, server, accepting, sessions>>

(* It reads the exit word alone: it answers, if it finds its session.  The *)
(* sessions of None are an AttributeError.                                 *)
ReceiveExit(c) ==
    /\ receiver[c] = "reading"
    /\ read[c] = typed[c] /\ exit[c] = "sent"
    /\ exit' = [exit EXCEPT ![c] = "read"]
    /\ \/ /\ server # "None" /\ Registered(c) /\ ~Reset(c)
          /\ SendTo(c, Bye) /\ Become(c, "ended")
       \/ /\ server # "None" /\ Registered(c) /\ Reset(c)
          /\ Become(c, "died") /\ UNCHANGED toClient
       \/ /\ server # "None" /\ ~Registered(c)
          /\ Become(c, "ended") /\ UNCHANGED toClient
       \/ /\ server = "None"
          /\ Become(c, "died") /\ UNCHANGED toClient
    /\ UNCHANGED <<client, typed, read, shown, server, accepting, sessions, message,
                   next>>

(* The connection is closed, or reset because its client left something    *)
(* unread.                                                                 *)
Hangup(c) ==
    /\ receiver[c] = "reading" /\ client[c] = "gone"
    /\ (read[c] = typed[c] /\ exit[c] # "sent") \/ Reset(c)
    /\ Become(c, "ended")
    /\ UNCHANGED <<client, typed, exit, read, toClient, shown, server, accepting,
                   sessions, message, next>>

(* One turn of the loop over server.sessions, which may grow meanwhile: a  *)
(* session of c itself is passed over; a send that raises ends the thread. *)
PassOwn(c) ==
    /\ sessions[next[c]] = c
    /\ next' = [next EXCEPT ![c] = @ + 1]
    /\ UNCHANGED <<toClient, receiver>>

(* Mutant: a client's own session is not passed over. *)
SendToAll(c) ==
    /\ ~Reset(sessions[next[c]])
    /\ SendTo(sessions[next[c]], message[c])
    /\ next' = [next EXCEPT ![c] = @ + 1]
    /\ UNCHANGED receiver

SendOn(c) ==
    /\ sessions[next[c]] # c /\ ~Reset(sessions[next[c]])
    /\ SendTo(sessions[next[c]], message[c])
    /\ next' = [next EXCEPT ![c] = @ + 1]
    /\ UNCHANGED receiver

(* Mutant: a send may raise though the peer is there. *)
SendMayFail(c) ==
    /\ sessions[next[c]] # c
    /\ Become(c, "died")
    /\ UNCHANGED <<toClient, next>>

SendFails(c) ==
    /\ sessions[next[c]] # c /\ Reset(sessions[next[c]])
    /\ Become(c, "died")
    /\ UNCHANGED <<toClient, next>>

Broadcast(c) ==
    /\ receiver[c] = "sending" /\ server # "None"
    /\ next[c] <= Len(sessions)
    /\ PassOwn(c) \/ SendOn(c) \/ SendFails(c)
    /\ UNCHANGED <<client, typed, exit, read, shown, server, accepting, sessions,
                   message>>

(* The loop does not begin where there is no server yet.                   *)
NoServer(c) ==
    /\ receiver[c] = "sending" /\ server = "None"
    /\ Become(c, "died")
    /\ UNCHANGED <<client, typed, exit, read, toClient, shown, server, accepting,
                   sessions, message, next>>

(* Mutant: the last session is forgotten. *)
EndBroadcastEarly(c) ==
    /\ receiver[c] = "sending" /\ server # "None"
    /\ next[c] >= Len(sessions)
    /\ Become(c, "reading")
    /\ UNCHANGED <<client, typed, exit, read, toClient, shown, server, accepting,
                   sessions, message, next>>

EndBroadcast(c) ==
    /\ receiver[c] = "sending" /\ server # "None"
    /\ next[c] > Len(sessions)
    /\ Become(c, "reading")
    /\ UNCHANGED <<client, typed, exit, read, toClient, shown, server, accepting,
                   sessions, message, next>>

-----------------------------------------------------------------------------
AcceptThread == Register \/ \E c \in Users : Accept(c)

ReceiverThread(c) ==
    \/ ReceiveText(c) \/ ReceiveExit(c) \/ Hangup(c)
    \/ NoServer(c) \/ Broadcast(c) \/ EndBroadcast(c)

UserStep(c) == Connect(c) \/ Type(c) \/ CloseWindow(c) \/ Crash(c)

MessengerNext ==
    \/ AssignServer
    \/ AcceptThread
    \/ \E c \in Users : UserStep(c) \/ ClientReceive(c) \/ ReceiverThread(c)

(* Every thread is scheduled; nobody has to type, leave or crash.          *)
MessengerFairness ==
    /\ WF_messengerVars(AssignServer)
    /\ WF_messengerVars(AcceptThread)
    /\ \A c \in Users : WF_messengerVars(ReceiverThread(c))
    /\ \A c \in Users : WF_messengerVars(ClientReceive(c))

MessengerSpec == MessengerInit /\ [][MessengerNext]_messengerVars
MessengerFairSpec == MessengerSpec /\ MessengerFairness

-----------------------------------------------------------------------------
(* The type invariant: every variable holds a value of its kind.           *)
MessengerTypeOK ==
    /\ client \in [Users -> ClientStates]
    /\ \A c \in Users : typed[c] \in 0..Texts[c] /\ read[c] \in 0..typed[c]
    /\ exit \in [Users -> {"none", "sent", "read"}]
    /\ toClient \in [Users -> Seq(Packets)]
    /\ shown \in [Users -> Seq(AllMessages)]
    /\ server \in {"None", "TCPserver"}
    /\ accepting \in Users \union {NoOne}
    /\ sessions \in Seq(Users)
    /\ receiver \in [Users -> ReceiverStates]
    /\ message \in [Users -> Packets]
    /\ next \in [Users -> Nat \ {0}]

(* Whoever reads along misses nothing: of any one sender a client shows an *)
(* unbroken stretch of texts, each once and in the order they were typed,  *)
(* though sessions are appended while threads loop over them and texts are *)
(* read together (server.py lines 41-64).                                  *)
Contiguous ==
    \A c \in Users : \A i, j \in DOMAIN shown[c] :
        /\ i < j /\ shown[c][i].from = shown[c][j].from
        /\ \A k \in (i + 1)..(j - 1) : shown[c][k].from # shown[c][i].from
        => shown[c][j].first = shown[c][i].last + 1

(* What was handed to c, shown or on its way.                              *)
Handed(c) ==
    {shown[c][i] : i \in DOMAIN shown[c]} \union {toClient[c][i] : i \in DOMAIN toClient[c]}

(* Two clients agree on a third: when the thread of d has not died and is  *)
(* not in the middle of its loop, a message of d that one of them got was  *)
(* handed to the other one too, if that one got an earlier one.            *)
Agreement ==
    \A b, c, d \in Users :
        client[b] = "on" /\ client[c] = "on" /\ receiver[d] \in {"reading", "ended"} =>
            \A m \in Handed(b) \ Handed(c) : \A e \in Handed(c) :
                ~(m # Bye /\ e # Bye /\ m.from = d /\ e.from = d /\ e.first <= m.first)

(* A thread that dies while everybody is there has found no server to loop *)
(* over (line 62), and of what it read nothing was sent to anybody: nobody *)
(* sees a message that others miss.                                        *)
SomebodyLeft == \E c \in Users : client[c] \in {"closing", "stuck", "gone"}

DiesSilent ==
    ~SomebodyLeft =>
        \A c, d \in Users : receiver[c] = "died" =>
            \A m \in Handed(d) : m # Bye => m.from # c

Shows(d, c, n) ==
    \E i \in DOMAIN shown[d] :
        shown[d][i].from = c /\ n \in shown[d][i].first..shown[d][i].last

SeenTexts(d, c) == {n \in 1..Texts[c] : Shows(d, c, n)}

(* What the chat promises, seen by its own variables.                      *)
Promise == INSTANCE Chat WITH
    Members <- Users,
    posted <- read,
    seen <- [d \in Users |-> [c \in Users |-> SeenTexts(d, c)]]

(* The chat keeps the promise of Chat.                                     *)
ImplementsChat == Promise!ChatSpec

(* A text that the server has yet to read is shown by every client that    *)
(* has a session by then, unless that client has lost its receiver thread, *)
(* the sender's thread met no server, or somebody has left.                *)
TextArrives ==
    \A c \in Users : \A d \in Users \ {c} : \A n \in 1..Texts[c] :
        Registered(d) /\ read[c] < n /\ n <= typed[c] /\ server # "None" /\ receiver[c] # "died"
            ~> Shows(d, c, n) \/ client[d] = "deaf" \/ SomebodyLeft
============================================================================
