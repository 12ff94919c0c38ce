---------------------------- MODULE SocketClient ----------------------------
(***************************************************************************)
(* xsocket/client.py with tcpclient.py and udpclient.py: a client program  *)
(* connects, with retries that are recursive calls and perhaps TLS on top, *)
(* runs up to three loops in threads, joins them and disconnects.          *)
(*                                                                         *)
(* A TCP connection is a stream of messages to the server and a flag the   *)
(* other way, "there is something to read": a client looks at nothing it   *)
(* reads but whether it is empty.                                          *)
(***************************************************************************)
EXTENDS Naturals, Sequences

CONSTANTS
    Clients,    \* the addresses clients have
    Setups,     \* the command lines to consider, see SetupsAssumption
    MaxSends    \* bound: messages a thread's loop sends in a run

Loops == {"send", "recv", "sendrecv"}
SslVersions == {"none", "one", "all", "unknown"}

ASSUME MaxSendsAssumption == MaxSends \in Nat
ASSUME SetupsAssumption ==
    \A s \in Setups :
        /\ s.protocol \in {"tcp", "udp"}
        /\ s.sendloop \in BOOLEAN /\ s.recvloop \in BOOLEAN   \* of the server
        /\ s.loops \in [Clients -> SUBSET Loops]
        /\ s.sslversion \in [Clients -> SslVersions]
        /\ s.trials \in Nat                    \* maximum_trial_count
        /\ s.runs \in [Clients -> Nat]         \* bound: runs at an address

VARIABLES
    setup,      \* the command lines
    client,     \* client[c]: the program at address c, see ClientTypeOK
    thread,     \* thread[c][l]: the thread of loop l
    port,       \* the server's socket: unbound, open, closed
    link,       \* link[c]: c's connection, see Links
    backlog,    \* connections the server has not accepted
    pending,    \* pending[c]: what c wrote into a connection in the backlog
    unread,     \* unread[c]: what the session of c has not read of it
    datagrams,  \* what the server's UDP socket holds
    down        \* down[c]: c has something to read

networkVars == <<port, link, backlog, pending, unread, datagrams, down>>
clientVars == <<setup, client, thread, networkVars>>

Runs == {"off", "connecting", "unwinding", "looping", "closed", "raised", "exited"}
Links == {"none", "queued", "served", "dropped", "reset", "foreign"}
Ended == {"closed", "raised", "exited"}

Udp == setup.protocol = "udp"
Ssl(c) == setup.sslversion[c]
Idle == [l \in Loops |-> "off"]
Fresh(n) == [run |-> IF n = 0 THEN "off" ELSE "connecting", times |-> n,
             trial |-> 0, frames |-> 1, layers |-> 0, sends |-> 0]

ClientInit ==
    /\ setup \in Setups
    /\ client = [c \in Clients |-> Fresh(0)]
    /\ thread = [c \in Clients |-> Idle]
    /\ port = "unbound"
    /\ link = [c \in Clients |-> "none"]
    /\ backlog = <<>>
    /\ pending = [c \in Clients |-> <<>>]
    /\ unread = [c \in Clients |-> <<>>]
    /\ datagrams = <<>>
    /\ down = [c \in Clients |-> FALSE]

(* The program is started, perhaps again at an address that was in use; an *)
(* address is free once its old connection is out of the backlog.          *)
StartClient(c) ==
    /\ client[c].run \in Ended \union {"off"}
    /\ client[c].times < setup.runs[c]
    /\ \A i \in DOMAIN backlog : backlog[i] # c
    /\ client' = [client EXCEPT ![c] = Fresh(client[c].times + 1)]
    /\ thread' = [thread EXCEPT ![c] = Idle]
    /\ pending' = [pending EXCEPT ![c] = <<>>]
    /\ down' = [down EXCEPT ![c] = FALSE]
    /\ UNCHANGED <<setup, port, link, backlog, unread, datagrams>>

(* The program ends: its socket is closed with it. *)
End(c, how) ==
    /\ client' = [client EXCEPT ![c].run = how]
    /\ link' = [link EXCEPT ![c] = "none"]
    /\ UNCHANGED <<setup, thread, port, backlog, pending, unread, datagrams, down>>

-----------------------------------------------------------------------------
(* connect.  connectx does nothing for UDP; a TCP connection waits in the  *)
(* backlog of the server (listen(1) keeps two), one that will carry TLS    *)
(* goes to a server of another make.                                       *)
Connected(c) ==
    /\ client[c].run = "connecting"
    /\ client' = [client EXCEPT ![c].run = "unwinding"]
    /\ \/ Udp /\ UNCHANGED <<link, backlog>>
       \/ /\ ~Udp /\ Ssl(c) # "none"
          /\ link' = [link EXCEPT ![c] = "foreign"] /\ UNCHANGED backlog
       \/ /\ ~Udp /\ Ssl(c) = "none" /\ port = "open" /\ Len(backlog) < 2
          /\ link' = [link EXCEPT ![c] = "queued"] /\ backlog' = Append(backlog, c)
    /\ UNCHANGED <<setup, thread, port, pending, unread, datagrams, down>>

(* A failure is counted, and connect called again by itself, or it raises  *)
(* through all the calls.  Mutant: counted down.                           *)
RetryCountsDown(c) ==
    /\ client[c].run = "connecting" /\ ~Udp
    /\ client[c].trial + 1 < setup.trials
    /\ client' = [client EXCEPT ![c].trial = @ - 1, ![c].frames = @ + 1]
    /\ UNCHANGED <<setup, thread, networkVars>>

Retry(c) ==
    /\ client[c].run = "connecting" /\ ~Udp
    /\ client[c].trial + 1 < setup.trials
    /\ client' = [client EXCEPT ![c].trial = @ + 1, ![c].frames = @ + 1]
    /\ UNCHANGED <<setup, thread, networkVars>>

GiveUp(c) ==
    /\ client[c].run = "connecting" /\ ~Udp
    /\ client[c].trial + 1 >= setup.trials
    /\ End(c, "raised")

(* Every call, the innermost first, goes on with TLS, and the outermost    *)
(* returns to run, which starts the threads.                               *)
First(l) == IF l = "recv" THEN "receiving" ELSE "sending"

Return(c, frames, layers) ==
    /\ client' = [client EXCEPT ![c].frames = frames, ![c].layers = layers,
                                ![c].run = IF frames = 0 THEN "looping" ELSE @]
    /\ thread' = IF frames > 0 THEN thread ELSE
                 [thread EXCEPT ![c] = [l \in Loops |->
                     IF l \in setup.loops[c] THEN First(l) ELSE "off"]]
    /\ UNCHANGED <<setup, networkVars>>

(* Mutant: the call that has retried leaves the rest to the one it made.   *)
ReturnInner(c) ==
    /\ client[c].run = "unwinding"
    /\ Ssl(c) = "none" \/ client[c].frames > 1
    /\ Return(c, IF Ssl(c) = "none" THEN client[c].frames - 1 ELSE 0, client[c].layers)

Plain(c) ==
    /\ client[c].run = "unwinding" /\ Ssl(c) = "none"
    /\ Return(c, client[c].frames - 1, 0)

(* connectssl.  A handshake can only succeed on a stream that carries no   *)
(* TLS session yet; when it fails the program exits, with "all" too, since *)
(* SystemExit is no Exception.                                             *)
Handshake(c) ==
    /\ client[c].run = "unwinding" /\ Ssl(c) \in {"one", "all"} /\ ~Udp
    /\ client[c].layers = 0
    /\ Return(c, client[c].frames - 1, 1)

HandshakeFails(c) ==
    /\ client[c].run = "unwinding" /\ Ssl(c) \in {"one", "all"} /\ ~Udp
    /\ End(c, "exited")

(* wrap_socket refuses (always for UDP), with "all" for every version, or  *)
(* the version is unknown.                                                 *)
WrapFails(c) ==
    /\ client[c].run = "unwinding" /\ Ssl(c) # "none"
    /\ End(c, "raised")

Unwind(c) == Plain(c) \/ Handshake(c) \/ HandshakeFails(c) \/ WrapFails(c)

-----------------------------------------------------------------------------
(* The loops.  An exception ends a thread; that includes the one that an   *)
(* empty message, or the pair a UDP recvx returns, raises in recv.         *)
Phase(c, l, next) == thread' = [thread EXCEPT ![c][l] = next]
AfterSend(l) == IF l = "sendrecv" THEN "receiving" ELSE "sending"
AfterRecv(l) == IF l = "sendrecv" THEN "sending" ELSE "receiving"
Gone(c) == link[c] \in {"dropped", "reset"}

Message(c) == [from |-> c, run |-> client[c].times, nr |-> client[c].sends + 1]
Counted(c) == client' = [client EXCEPT ![c].sends = @ + 1]

(* Into a connection the server has closed a send may pass once, and is    *)
(* answered with a reset.                                                  *)
Send(c, l) ==
    /\ thread[c][l] = "sending" /\ client[c].sends < MaxSends
    /\ Phase(c, l, AfterSend(l)) /\ Counted(c)
    /\ \/ /\ Udp
          /\ \/ port = "open" /\ datagrams' = Append(datagrams, Message(c))
             \/ UNCHANGED datagrams          \* lost
          /\ UNCHANGED <<link, pending, unread>>
       \/ /\ link[c] = "queued"
          /\ pending' = [pending EXCEPT ![c] = Append(@, Message(c))]
          /\ UNCHANGED <<link, unread, datagrams>>
       \/ /\ link[c] = "served"
          /\ unread' = [unread EXCEPT ![c] = Append(@, Message(c))]
          /\ UNCHANGED <<link, pending, datagrams>>
       \/ /\ link[c] = "dropped" /\ link' = [link EXCEPT ![c] = "reset"]
          /\ UNCHANGED <<pending, unread, datagrams>>
       \/ link[c] = "foreign" /\ UNCHANGED <<link, pending, unread, datagrams>>
    /\ UNCHANGED <<setup, port, backlog, down>>

(* Mutant: the error is swallowed, as a session of the server does it.     *)
SendSwallows(c, l) ==
    /\ thread[c][l] = "sending" /\ Gone(c)
    /\ UNCHANGED clientVars

SendRaises(c, l) ==
    /\ thread[c][l] = "sending" /\ Gone(c)
    /\ Phase(c, l, "ended")
    /\ UNCHANGED <<setup, client, networkVars>>

Recv(c, l) ==
    /\ thread[c][l] = "receiving" /\ down[c]
    /\ Phase(c, l, IF Udp THEN "ended" ELSE AfterRecv(l))
    /\ down' = [down EXCEPT ![c] = FALSE]
    /\ UNCHANGED <<setup, client, port, link, backlog, pending, unread, datagrams>>

(* The end of the stream, a reset, or nothing for as long as the timeout,  *)
(* which connect sets when there is no TLS.                                *)
RecvRaises(c, l) ==
    /\ thread[c][l] = "receiving"
    /\ Gone(c) \/ Ssl(c) = "none"
    /\ Phase(c, l, "ended")
    /\ UNCHANGED <<setup, client, networkVars>>

(* run joins the threads and disconnects.                                  *)
Disconnect(c) ==
    /\ client[c].run = "looping"
    /\ \A l \in setup.loops[c] : thread[c][l] = "ended"
    /\ End(c, "closed")

(* The program is killed, the usual end of a loop that sends over UDP.     *)
Kill(c) ==
    /\ client[c].run = "looping"
    /\ client' = [client EXCEPT ![c].run = "exited"]
    /\ thread' = [thread EXCEPT ![c] = Idle]
    /\ link' = [link EXCEPT ![c] = "none"]
    /\ UNCHANGED <<setup, port, backlog, pending, unread, datagrams, down>>

ClientStep(c) ==
    \/ Connected(c) \/ Retry(c) \/ GiveUp(c) \/ Unwind(c) \/ Disconnect(c)
    \/ \E l \in Loops : Send(c, l) \/ SendRaises(c, l) \/ Recv(c, l) \/ RecvRaises(c, l)

(* The server of another make. *)
Foreign(c) ==
    /\ link[c] = "foreign"
    /\ \/ down' = [down EXCEPT ![c] = TRUE] /\ UNCHANGED link
       \/ link' = [link EXCEPT ![c] = "dropped"] /\ UNCHANGED down
    /\ UNCHANGED <<setup, client, thread, port, backlog, pending, unread, datagrams>>

-----------------------------------------------------------------------------
(* The number of attempts is limited, over all the calls of connect within *)
(* each other; maximum_trial_count 0 is an attempt as well.                *)
AttemptsLimited ==
    \A c \in Clients : client[c].frames <= IF setup.trials = 0 THEN 1 ELSE setup.trials

(* A client that asked for TLS talks through one TLS session, however many *)
(* calls of connect have gone on to open one.                              *)
TlsOnce ==
    \A c \in Clients : client[c].run = "looping" =>
        client[c].layers = IF Ssl(c) = "none" THEN 0 ELSE 1

(* No thread is left to use a socket that disconnect has closed.           *)
DisconnectLast ==
    \A c \in Clients : client[c].run = "closed" =>
        \A l \in Loops : thread[c][l] \in {"off", "ended"}

(* The promises of connect and run.                                        *)
ClientOrderly == AttemptsLimited /\ TlsOnce /\ DisconnectLast
=============================================================================
