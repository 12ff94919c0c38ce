------------------------------ MODULE Sockets -------------------------------
(***************************************************************************)
(* xsocket/server.py and session.py with tcpserver.py and udpserver.py,    *)
(* between the clients of SocketClient: an accept thread keeps a session   *)
(* for every address it has ever met, and each session has a thread that   *)
(* sends and one that receives, if the command line says so.               *)
(***************************************************************************)
EXTENDS SocketClient

VARIABLES
    main,       \* Server.run: off, accepting, joined, stopped, raised
    sessions,   \* the addresses in Server.sessions
    accepted,   \* UDP: what accept has taken and not reported yet, once for
                \* each report it will make
    held,       \* UDP: held[c] is what the session of c has taken and not reported
    reports     \* history: reports[c] is what Server.on_recv_success was called
                \* with for the session of c

serverVars == <<main, sessions, accepted, held, reports>>
socketVars == <<clientVars, serverVars>>

MainStates == {"off", "accepting", "joined", "stopped", "raised"}

Nothing == [c \in Clients |-> <<>>]

Init ==
    /\ ClientInit
    /\ main = "off" /\ sessions = {}
    /\ accepted = <<>> /\ held = Nothing /\ reports = Nothing

-----------------------------------------------------------------------------
(* Server.start. *)
StartServer ==
    /\ main = "off"
    /\ main' = "accepting" /\ port' = "open"
    /\ UNCHANGED <<setup, client, thread, link, backlog, pending, unread, datagrams, down,
                   sessions, accepted, held, reports>>

(* accept over TCP: an address that has a session gets no other, and the   *)
(* new connection, which nobody keeps, is closed.                          *)
Accepted(c, known) ==
    /\ link' = [link EXCEPT ![c] = IF @ # "queued" THEN @
                                   ELSE IF known THEN "dropped" ELSE "served"]
    /\ unread' = IF known THEN unread ELSE [unread EXCEPT ![c] = pending[c]]
    /\ pending' = [pending EXCEPT ![c] = <<>>]
    /\ backlog' = Tail(backlog)
    /\ UNCHANGED <<setup, client, thread, port, datagrams, down, main, accepted, held, reports>>

(* Mutant: the new connection of a known address is not closed, though     *)
(* nobody will ever read it.                                               *)
AcceptTcpKeeps ==
    /\ main = "accepting" /\ backlog # <<>>
    /\ LET c == Head(backlog) IN
       /\ link' = [link EXCEPT ![c] = IF @ = "queued" THEN "served" ELSE @]
       /\ unread' = IF c \in sessions THEN unread ELSE [unread EXCEPT ![c] = pending[c]]
       /\ pending' = [pending EXCEPT ![c] = <<>>]
       /\ sessions' = sessions \union {c}
    /\ backlog' = Tail(backlog)
    /\ UNCHANGED <<setup, client, thread, port, datagrams, down, main, accepted, held, reports>>

(* Mutant: a known address is given the new connection.                    *)
AcceptTcpReplaces ==
    /\ main = "accepting" /\ backlog # <<>>
    /\ Accepted(Head(backlog), FALSE)
    /\ sessions' = sessions \union {Head(backlog)}

AcceptTcp ==
    /\ main = "accepting" /\ backlog # <<>>
    /\ Accepted(Head(backlog), Head(backlog) \in sessions)
    /\ sessions' = sessions \union {Head(backlog)}

(* accept over UDP takes a datagram and reports it itself, after a known   *)
(* session has told its observer, the server; the threads of the sessions  *)
(* go on meanwhile.                                                        *)
AcceptUdp ==
    /\ main = "accepting" /\ accepted = <<>> /\ datagrams # <<>>
    /\ LET d == Head(datagrams) IN
       accepted' = IF d.from \in sessions THEN <<d, d>> ELSE <<d>>
    /\ datagrams' = Tail(datagrams)
    /\ UNCHANGED <<setup, client, thread, port, link, backlog, pending, unread, down,
                   main, sessions, held, reports>>

AcceptReports ==
    /\ accepted # <<>>
    /\ LET d == Head(accepted) IN
       /\ reports' = [reports EXCEPT ![d.from] = Append(@, d)]
       /\ sessions' = IF Len(accepted) = 1 THEN sessions \union {d.from} ELSE sessions
    /\ accepted' = Tail(accepted)
    /\ UNCHANGED <<clientVars, main, held>>

(* An exception of accept ends its thread, and run goes on behind join.    *)
AcceptRaises ==
    /\ main = "accepting" /\ accepted = <<>>
    /\ main' = "joined"
    /\ UNCHANGED <<clientVars, sessions, accepted, held, reports>>

(* The loop over the sessions takes an address, a pair, for the address    *)
(* and its session: it raises unless there is no session, and only then is *)
(* the socket closed.  A process without threads ends.                     *)
Threads == sessions # {} /\ (setup.sendloop \/ setup.recvloop)

CloseAll ==
    /\ port' = "closed" /\ datagrams' = <<>> /\ backlog' = <<>>
    /\ link' = [c \in Clients |-> IF link[c] \in {"queued", "served"} THEN "reset" ELSE link[c]]
    /\ UNCHANGED <<setup, client, thread, pending, unread, down, sessions, accepted, held,
                   reports>>

Finish ==
    /\ main = "joined"
    /\ main' = IF sessions = {} THEN "stopped" ELSE "raised"
    /\ IF Threads THEN UNCHANGED <<clientVars, sessions, accepted, held, reports>> ELSE CloseAll

-----------------------------------------------------------------------------
(* Session.recv in its loop.  Nothing ends the loop, an end of stream is   *)
(* reported like a message (not modelled: nothing looks at it).            *)
SessionRecvOwn(c) ==
    /\ c \in sessions /\ setup.recvloop /\ ~Udp
    /\ unread[c] # <<>>
    /\ reports' = [reports EXCEPT ![c] = Append(@, Head(unread[c]))]
    /\ unread' = [unread EXCEPT ![c] = Tail(@)]
    /\ UNCHANGED <<setup, client, thread, port, link, backlog, pending, datagrams, down,
                   main, sessions, accepted, held>>

(* Mutant: the session looks at the datagram and leaves it there.          *)
SessionRecvPeeks(c) ==
    /\ c \in sessions /\ setup.recvloop /\ Udp
    /\ datagrams # <<>> /\ held[c] = <<>>
    /\ held' = [held EXCEPT ![c] = <<Head(datagrams)>>]
    /\ UNCHANGED <<clientVars, main, sessions, accepted, reports>>

(* A UDP session reads the server's socket, takes what comes and reports   *)
(* it as its own; the other sessions and accept go on in between.          *)
SessionRecvAny(c) ==
    /\ c \in sessions /\ setup.recvloop /\ Udp
    /\ datagrams # <<>> /\ held[c] = <<>>
    /\ held' = [held EXCEPT ![c] = <<Head(datagrams)>>]
    /\ datagrams' = Tail(datagrams)
    /\ UNCHANGED <<setup, client, thread, port, link, backlog, pending, unread, down,
                   main, sessions, accepted, reports>>

SessionReports(c) ==
    /\ held[c] # <<>>
    /\ reports' = [reports EXCEPT ![c] = Append(@, Head(held[c]))]
    /\ held' = [held EXCEPT ![c] = <<>>]
    /\ UNCHANGED <<clientVars, main, sessions, accepted>>

SessionRecv(c) == SessionRecvOwn(c) \/ SessionRecvAny(c) \/ SessionReports(c)

(* Session.send in its loop: to a client that is gone, an error nobody     *)
(* hears of.                                                               *)
SessionSend(c) ==
    /\ c \in sessions /\ setup.sendloop
    /\ IF Udp THEN client[c].run \notin Ended ELSE link[c] = "served"
    /\ ~down[c] /\ down' = [down EXCEPT ![c] = TRUE]
    /\ UNCHANGED <<setup, client, thread, port, link, backlog, pending, unread, datagrams,
                   serverVars>>

Accept == AcceptTcp \/ AcceptUdp \/ AcceptReports
Server == StartServer \/ Accept \/ AcceptRaises \/ Finish
Session(c) == SessionRecv(c) \/ SessionSend(c)

Next ==
    \/ Server
    \/ \E c \in Clients :
          \/ Session(c)
          \/ (StartClient(c) \/ ClientStep(c) \/ Kill(c) \/ Foreign(c)) /\ UNCHANGED serverVars

(* The threads of server and clients are scheduled.  Nobody has to start,  *)
(* accept need not raise, and no timeout has to come in time, save that of *)
(* an attempt to connect.                                                  *)
Fairness ==
    /\ WF_socketVars(StartServer) /\ WF_socketVars(Accept) /\ WF_socketVars(Finish)
    /\ \A c \in Clients :
          /\ WF_socketVars(SessionRecv(c)) /\ WF_socketVars(SessionSend(c))
          /\ WF_socketVars((Connected(c) \/ Retry(c) \/ GiveUp(c) \/ Unwind(c) \/ Disconnect(c))
                           /\ UNCHANGED serverVars)
          /\ \A l \in Loops :
                WF_socketVars((Send(c, l) \/ SendRaises(c, l)
                               \/ (Gone(c) /\ RecvRaises(c, l))) /\ UNCHANGED serverVars)

Spec == Init /\ [][Next]_socketVars
FairSpec == Spec /\ Fairness

-----------------------------------------------------------------------------
(* The type invariant. *)
Messages == [from : Clients, run : Nat \ {0}, nr : 1..MaxSends]

SocketTypeOK ==
    /\ setup \in Setups
    /\ client \in [Clients -> [run : Runs, times : Nat, trial : Nat, frames : Nat,
                               layers : 0..1, sends : Nat]]
    /\ thread \in [Clients -> [Loops -> {"off", "sending", "receiving", "ended"}]]
    /\ port \in {"unbound", "open", "closed"}
    /\ link \in [Clients -> Links]
    /\ backlog \in Seq(Clients) /\ Len(backlog) <= 2
    /\ pending \in [Clients -> Seq(Messages)] /\ unread \in [Clients -> Seq(Messages)]
    /\ datagrams \in Seq(Messages)
    /\ down \in [Clients -> BOOLEAN]
    /\ main \in MainStates /\ sessions \subseteq Clients
    /\ accepted \in Seq(Messages)
    /\ held \in [Clients -> Seq(Messages)]
    /\ reports \in [Clients -> Seq(Messages)]

(* Over TCP the messages reported for an address are those of one run of   *)
(* its program, from the first, in order and without a gap, also when the  *)
(* program was run again and its new connection dropped.  Over UDP without *)
(* receive loops they are at least the sender's (server.py lines 57-68,    *)
(* udpserver.py lines 28-37).                                              *)
Gapless(s, c, n) == \A i \in DOMAIN s : s[i] = [from |-> c, run |-> n, nr |-> i]

FaithfulReports ==
    /\ ~Udp => \A c \in Clients :
          reports[c] = <<>> \/ \E n \in 1..client[c].times : Gapless(reports[c], c, n)
    /\ ~setup.recvloop => \A c \in Clients :
          \A i \in DOMAIN reports[c] : reports[c][i].from = c

(* Nothing a program writes is lost or comes twice while its connection    *)
(* lasts: what it has written in this run waits in the backlog, or is what *)
(* its session has reported followed by what it has still to read, also    *)
(* when an earlier run had the session before (server.py lines 41-68).     *)
Written(c) == [i \in 1..client[c].sends |-> [from |-> c, run |-> client[c].times, nr |-> i]]

NothingLost ==
    \A c \in Clients :
        /\ link[c] = "queued" => pending[c] = Written(c)
        /\ link[c] = "served" => reports[c] \o unread[c] = Written(c)

(* All UDP sessions and accept read one socket, and each takes what comes  *)
(* and reports it while the others go on: a message is taken by one of     *)
(* them only and reported for one session only, and twice only for the     *)
(* session of its sender, by accept (udpserver.py lines 13-15 and 28-37,   *)
(* session.py lines 63-71).  The order of two reports is not promised.     *)
TakenOnce ==
    Udp => \A c, d \in Clients :
        /\ \A i \in DOMAIN reports[c] :
              /\ \A j \in DOMAIN datagrams : datagrams[j] # reports[c][i]
              /\ <<reports[c][i]>> # held[d]
              /\ \A j \in DOMAIN reports[d] :
                    reports[c][i] = reports[d][j] => c = d /\ (i = j \/ reports[c][i].from = c)
              /\ \A j, k \in DOMAIN reports[c] :
                    i < j /\ j < k => reports[c][i] # reports[c][j] \/ reports[c][j] # reports[c][k]
        /\ held[c] # <<>> /\ held[c] = held[d] => c = d

(* A client that is connecting gets somewhere; one whose connection the    *)
(* server has dropped or lost ends, whichever of its loops noticed first;  *)
(* and what reached a session with a thread that receives is reported, or  *)
(* over UDP the server whose sessions have such threads.                   *)
ConnectSettles(c) == (client[c].run = "connecting") ~> (client[c].run # "connecting")
DroppedEnds(c) == Gone(c) ~> (client[c].run \in Ended)
ReportedSoon(c) == (unread[c] # <<>> /\ c \in sessions /\ setup.recvloop) ~> (unread[c] = <<>>)
TakenSoon ==
    (datagrams # <<>> /\ Threads /\ setup.recvloop)
        ~> (datagrams = <<>> /\ accepted = <<>> /\ held = Nothing)

SocketsSettle ==
    /\ \A c \in Clients : ConnectSettles(c) /\ DroppedEnds(c) /\ ReportedSoon(c)
    /\ TakenSoon
=============================================================================
