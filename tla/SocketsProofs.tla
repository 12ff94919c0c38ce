---------------------------- MODULE SocketsProofs ----------------------------
(***************************************************************************)
(* For any number of clients and any command lines: the type invariant,    *)
(* the promises of connect and run, that the messages a TCP session reports*)
(* are those of one run of its client without a gap and none is lost while *)
(* the connection lasts, and that a UDP message is taken only once.        *)
(*                                                                         *)
(* The argument for the stream: an address is in the backlog at most once, *)
(* and its program cannot be started again before it has left it, so what  *)
(* waits there is one run's; a session is given one connection, the first, *)
(* so what it reports and has still to read is one run's from the start.   *)
(*                                                                         *)
(* The argument for the datagrams: a message that has been sent is in one  *)
(* place (Place): in the socket's queue, in the hands of accept or of one  *)
(* session, or reported, and then for one session only.  Every step moves  *)
(* it on, and a new message is in none of the places, as its program       *)
(* counts its runs and what it sends.                                      *)
(***************************************************************************)
EXTENDS Sockets, SequenceTheorems, TLAPS

(* The program at an address.  Calls of connect are counted while the last *)
(* of them is still trying; only the threads of the loops that were asked  *)
(* for move, and only while run waits for them.                            *)
Active(c, l) == thread[c][l] \in {"sending", "receiving"}

ProgramInv(c) ==
    /\ client[c].run # "off" => client[c].times > 0
    /\ client[c].run \in {"connecting", "unwinding"} => client[c].frames > 0
    /\ client[c].run = "connecting" => client[c].frames = client[c].trial + 1
    /\ client[c].frames <= IF setup.trials = 0 THEN 1 ELSE setup.trials
    /\ client[c].run = "looping" =>
          client[c].layers = IF Ssl(c) = "none" THEN 0 ELSE 1
    /\ \A l \in Loops : Active(c, l) => client[c].run = "looping" /\ l \in setup.loops[c]

(* The stream of address c over TCP.  What its program has written into a  *)
(* connection waits in the backlog, or has gone to the session, which has  *)
(* reported a part of it; a connection is one run's, and a session gets at *)
(* most one.                                                               *)
InBacklog(c) == \E i \in DOMAIN backlog : backlog[i] = c

Received(c, n) ==
    /\ Gapless(reports[c], c, n)
    /\ \A i \in DOMAIN unread[c] :
          unread[c][i] = [from |-> c, run |-> n, nr |-> Len(reports[c]) + i]
    /\ link[c] = "served" =>
          n = client[c].times /\ Len(reports[c]) + Len(unread[c]) = client[c].sends

StreamInv(c) ==
    /\ client[c].run \notin {"unwinding", "looping"} => link[c] = "none"
    /\ client[c].run \in {"off", "connecting", "unwinding"} => client[c].sends = 0
    /\ client[c].run \in {"off", "connecting"} => ~InBacklog(c) /\ pending[c] = <<>>
    /\ link[c] = "queued" => InBacklog(c) /\ Len(pending[c]) = client[c].sends
    /\ InBacklog(c) => Gapless(pending[c], c, client[c].times)
    /\ c \notin sessions => link[c] # "served" /\ unread[c] = <<>> /\ reports[c] = <<>>
    /\ c \in sessions => \E n \in 1..client[c].times : Received(c, n)

Unique == \A i, j \in DOMAIN backlog : backlog[i] = backlog[j] => i = j

TcpInv ==
    /\ datagrams = <<>> /\ accepted = <<>> /\ \A c \in Clients : held[c] = <<>>
    /\ Unique /\ \A c \in Clients : StreamInv(c)

UdpInv == backlog = <<>> /\ \A c \in Clients : link[c] = "none"

NetInv == IF Udp THEN UdpInv ELSE TcpInv

(* Without receive loops accept alone reports, each sender's as its own.   *)
OwnReports ==
    ~setup.recvloop => \A c \in Clients :
        held[c] = <<>> /\ \A i \in DOMAIN reports[c] : reports[c][i].from = c

SocketInv ==
    /\ SocketTypeOK
    /\ \A c \in Clients : ProgramInv(c)
    /\ NetInv
    /\ OwnReports

-----------------------------------------------------------------------------
Programs == [run : Runs, times : Nat, trial : Nat, frames : Nat, layers : 0..1, sends : Nat]
Threading == [Loops -> {"off", "sending", "receiving", "ended"}]

LEMMA SocketTypes ==
    ASSUME SocketTypeOK, NEW c \in Clients
    PROVE  /\ client[c] \in Programs /\ thread[c] \in Threading
           /\ link[c] \in Links /\ pending[c] \in Seq(Messages)
           /\ unread[c] \in Seq(Messages) /\ reports[c] \in Seq(Messages)
           /\ setup.trials \in Nat /\ setup.loops[c] \in SUBSET Loops
           /\ setup.protocol \in {"tcp", "udp"} /\ setup.recvloop \in BOOLEAN
  BY SetupsAssumption DEF SocketTypeOK, Programs, Threading

LEMMA SocketInitInv == Init => SocketInv
  <1> SUFFICES ASSUME Init PROVE SocketInv
    OBVIOUS
  <1>1. SocketTypeOK
    BY SetupsAssumption
    DEF Init, ClientInit, Nothing, SocketTypeOK, Fresh, Idle, Runs, Links, MainStates
  <1>2. ASSUME NEW c \in Clients PROVE ProgramInv(c)
    <2>1. setup.trials \in Nat
      BY SetupsAssumption DEF Init, ClientInit
    <2> QED BY <2>1 DEF Init, ClientInit, ProgramInv, Active, Fresh, Idle
  <1>3. ASSUME NEW c \in Clients PROVE StreamInv(c)
    BY DEF Init, ClientInit, Nothing, StreamInv, InBacklog, Fresh
  <1>4. NetInv
    BY <1>3 DEF Init, ClientInit, Nothing, NetInv, TcpInv, UdpInv, Unique
  <1>5. OwnReports
    <2>1. \A c \in Clients : held[c] = <<>> /\ reports[c] = <<>>
      BY DEF Init, Nothing
    <2>2. ASSUME NEW c \in Clients, NEW i \in DOMAIN reports[c] PROVE FALSE
      BY <2>1
    <2> QED BY <2>1, <2>2 DEF OwnReports
  <1> QED BY <1>1, <1>2, <1>4, <1>5 DEF SocketInv

-----------------------------------------------------------------------------
(* What a step leaves alone.                                               *)
ProgramSame(c) == client'[c] = client[c] /\ thread'[c] = thread[c]

StreamSame(c) ==
    /\ client'[c] = client[c] /\ link'[c] = link[c] /\ pending'[c] = pending[c]
    /\ unread'[c] = unread[c] /\ reports'[c] = reports[c]
    /\ c \in sessions' <=> c \in sessions
    /\ InBacklog(c)' <=> InBacklog(c)

LEMMA ProgramKeeps ==
    ASSUME NEW c \in Clients, ProgramInv(c), ProgramSame(c), setup' = setup
    PROVE  ProgramInv(c)'
  BY DEF ProgramInv, ProgramSame, Active, Ssl

LEMMA StreamKeeps ==
    ASSUME NEW c \in Clients, StreamInv(c), StreamSame(c)
    PROVE  StreamInv(c)'
  <1>1. \A n : Received(c, n) => Received(c, n)'
    BY DEF StreamSame, Received, Gapless
  <1>2. Gapless(pending[c], c, client[c].times) => Gapless(pending[c], c, client[c].times)'
    BY DEF StreamSame, Gapless
  <1> QED BY <1>1, <1>2 DEF StreamInv, StreamSame

LEMMA ServerKeeps ==
    ASSUME OwnReports, UNCHANGED <<setup, serverVars>>
    PROVE  OwnReports'
  BY DEF OwnReports, serverVars

(* A step that changes what is said of client c only.                      *)
LEMMA OneClient ==
    ASSUME SocketInv, NEW c \in Clients, UNCHANGED <<setup, accepted, held>>,
           SocketTypeOK', OwnReports',
           \A d \in Clients \ {c} : ProgramSame(d), ProgramInv(c)',
           ~Udp => /\ datagrams' = datagrams /\ Unique'
                   /\ \A d \in Clients \ {c} : StreamSame(d)
                   /\ StreamInv(c)',
           Udp => backlog' = backlog /\ link' = link
    PROVE  SocketInv'
  <1>1. ASSUME NEW d \in Clients PROVE ProgramInv(d)'
    BY ProgramKeeps DEF SocketInv
  <1>2. NetInv'
    <2>1. Udp' <=> Udp
      BY DEF Udp
    <2>2. CASE Udp
      BY <2>1, <2>2 DEF SocketInv, NetInv, UdpInv
    <2>3. CASE ~Udp
      <3>1. ASSUME NEW d \in Clients PROVE StreamInv(d)'
        BY <2>3, StreamKeeps DEF SocketInv, NetInv, TcpInv
      <3> QED BY <2>1, <2>3, <3>1 DEF SocketInv, NetInv, TcpInv
    <2> QED BY <2>2, <2>3
  <1> QED BY <1>1, <1>2 DEF SocketInv

(* Steps of a program and its threads that the network does not see.       *)
LEMMA ProgramOnly ==
    ASSUME SocketInv, NEW c \in Clients,
           UNCHANGED <<setup, port, link, backlog, pending, unread, datagrams, serverVars>>,
           SocketTypeOK', \A d \in Clients \ {c} : ProgramSame(d), ProgramInv(c)',
           client'[c].times = client[c].times, client'[c].sends = client[c].sends,
           client'[c].run = client[c].run
              \/ (client[c].run = "unwinding" /\ client'[c].run = "looping")
    PROVE  SocketInv'
  <1>1. UNCHANGED <<sessions, reports, main, accepted, held>> /\ OwnReports'
    BY ServerKeeps DEF SocketInv, serverVars
  <1>2. ASSUME ~Udp
        PROVE  Unique' /\ (\A d \in Clients \ {c} : StreamSame(d)) /\ StreamInv(c)'
    <2>1. \A d \in Clients : InBacklog(d)' <=> InBacklog(d)
      BY DEF InBacklog
    <2>2. StreamInv(c)'
      <3>1. StreamInv(c)
        BY <1>2 DEF SocketInv, NetInv, TcpInv
      <3>2. \A n : Received(c, n) => Received(c, n)'
        BY <1>1 DEF Received, Gapless
      <3>3. Gapless(pending[c], c, client[c].times)
            => Gapless(pending[c], c, client[c].times)'
        BY DEF Gapless
      <3> QED BY <1>1, <2>1, <3>1, <3>2, <3>3 DEF StreamInv
    <2> QED BY <1>1, <1>2, <2>1, <2>2
        DEF SocketInv, NetInv, TcpInv, Unique, StreamSame, ProgramSame
  <1> QED BY <1>1, <1>2, OneClient

-----------------------------------------------------------------------------
(* The programs after one of them has made an assignment.                 *)
LEMMA SetClient ==
    ASSUME SocketTypeOK, NEW c \in Clients, NEW e \in Programs,
           client' = [client EXCEPT ![c] = e]
    PROVE  /\ client' \in [Clients -> Programs] /\ client'[c] = e
           /\ \A d \in Clients \ {c} : client'[d] = client[d]
  <1>1. client \in [Clients -> Programs]
    BY DEF SocketTypeOK, Programs
  <1> QED BY <1>1

(* The programs' side of the type invariant. *)
LEMMA ProgramTypes ==
    ASSUME SocketTypeOK, client' \in [Clients -> Programs], thread' \in [Clients -> Threading],
           UNCHANGED <<setup, port, link, backlog, pending, unread, datagrams, serverVars>>,
           down' \in [Clients -> BOOLEAN]
    PROVE  SocketTypeOK'
  BY DEF SocketTypeOK, serverVars, Programs, Threading

-----------------------------------------------------------------------------
(* connect retries, goes on, and returns to run.                           *)
LEMMA RetryInv ==
    ASSUME SocketInv, NEW c \in Clients, Retry(c), UNCHANGED serverVars
    PROVE  SocketInv'
  <1> DEFINE e == [client[c] EXCEPT !.trial = client[c].trial + 1,
                                    !.frames = client[c].frames + 1]
  <1>1. /\ client[c] \in Programs /\ client[c].run = "connecting"
        /\ client[c].trial \in Nat /\ client[c].frames \in Nat /\ SocketTypeOK
        /\ client[c].trial + 1 < setup.trials /\ setup.trials \in Nat
        /\ thread \in [Clients -> Threading]
    BY SocketTypes DEF Retry, SocketInv, SocketTypeOK, Programs, Threading
  <1>2. /\ client' = [client EXCEPT ![c] = e]
        /\ UNCHANGED <<setup, thread, port, link, backlog, pending, unread, datagrams, down>>
    BY DEF Retry, networkVars
  <1>3. /\ e \in Programs /\ e.run = client[c].run /\ e.times = client[c].times
        /\ e.trial = client[c].trial + 1 /\ e.frames = client[c].frames + 1
        /\ e.sends = client[c].sends
    <2>1. client[c].trial + 1 \in Nat /\ client[c].frames + 1 \in Nat
      BY <1>1
    <2> QED BY <1>1, <2>1 DEF Programs
  <1> HIDE DEF e
  <1>4. /\ client' \in [Clients -> Programs] /\ client'[c] = e
        /\ \A d \in Clients \ {c} : ProgramSame(d)
    BY <1>1, <1>2, <1>3, SetClient DEF ProgramSame
  <1>5. SocketTypeOK'
    BY <1>1, <1>2, <1>4, ProgramTypes DEF SocketTypeOK
  <1>6. ProgramInv(c)'
    BY <1>1, <1>2, <1>3, <1>4 DEF SocketInv, ProgramInv, Active, Ssl
  <1> QED BY <1>2, <1>3, <1>4, <1>5, <1>6, ProgramOnly

LEMMA ReturnInv ==
    ASSUME SocketInv, NEW c \in Clients, client[c].run = "unwinding",
           NEW layers \in 0..1, layers = IF Ssl(c) = "none" THEN 0 ELSE 1,
           Return(c, client[c].frames - 1, layers), UNCHANGED serverVars
    PROVE  SocketInv'
  <1> DEFINE F == client[c].frames - 1
             R == IF F = 0 THEN "looping" ELSE client[c].run
             e == [client[c] EXCEPT !.frames = F, !.layers = layers, !.run = R]
  <1>1. /\ client[c] \in Programs /\ setup.trials \in Nat /\ SocketTypeOK
        /\ thread \in [Clients -> Threading] /\ setup.loops[c] \in SUBSET Loops
        /\ client[c].frames \in Nat /\ F \in Nat /\ (F = 0 \/ F > 0) /\ R \in Runs
    <2>1. client[c] \in Programs /\ setup.trials \in Nat /\ setup.loops[c] \in SUBSET Loops
      BY SocketTypes DEF SocketInv
    <2>2. client[c].frames \in Nat /\ client[c].frames > 0
      BY <2>1 DEF SocketInv, ProgramInv, Programs
    <2>3. thread \in [Clients -> Threading] /\ SocketTypeOK
      BY DEF SocketInv, SocketTypeOK, Threading
    <2> QED BY <2>1, <2>2, <2>3 DEF Runs
  <1>2. /\ client' = [client EXCEPT ![c] = e]
        /\ UNCHANGED <<setup, port, link, backlog, pending, unread, datagrams, down>>
    BY DEF Return, networkVars
  <1>3. /\ e \in Programs /\ e.run = R /\ e.times = client[c].times
        /\ e.frames = F /\ e.layers = layers /\ e.sends = client[c].sends
    BY <1>1 DEF Programs
  <1>4. /\ thread' \in [Clients -> Threading]
        /\ \A d \in Clients \ {c} : thread'[d] = thread[d]
        /\ F # 0 => thread'[c] = thread[c]
        /\ F = 0 => \A l \in Loops : thread'[c][l] # "off" => l \in setup.loops[c]
    <2>1. CASE F = 0
      <3> DEFINE started == [l \in Loops |-> IF l \in setup.loops[c] THEN First(l) ELSE "off"]
      <3>1. thread' = [thread EXCEPT ![c] = started]
        BY <1>1, <2>1 DEF Return
      <3>2. started \in Threading
        BY DEF Threading, First
      <3> QED BY <1>1, <2>1, <3>1, <3>2
    <2>2. CASE F # 0
      <3>1. thread' = thread
        BY <1>1, <2>2, client[c].frames - 1 > 0 DEF Return
      <3> QED BY <1>1, <2>2, <3>1
    <2> QED BY <2>1, <2>2
  <1> HIDE DEF e
  <1>5. /\ client' \in [Clients -> Programs] /\ client'[c] = e
        /\ \A d \in Clients \ {c} : ProgramSame(d)
    BY <1>1, <1>2, <1>3, <1>4, SetClient DEF ProgramSame
  <1>6. SocketTypeOK'
    BY <1>1, <1>2, <1>4, <1>5, ProgramTypes DEF SocketTypeOK
  <1>7. ProgramInv(c)'
    <2>1. ProgramInv(c)
      BY DEF SocketInv
    <2> QED BY <1>1, <1>2, <1>3, <1>4, <1>5, <2>1 DEF ProgramInv, Active, Ssl
  <1> QED BY <1>2, <1>3, <1>5, <1>6, <1>7, ProgramOnly

(* A thread fails to send, reads, or gives up reading.                     *)
LEMMA ThreadInv ==
    ASSUME SocketInv, NEW c \in Clients, NEW l \in Loops,
           SendRaises(c, l) \/ Recv(c, l) \/ RecvRaises(c, l), UNCHANGED serverVars
    PROVE  SocketInv'
  <1>1. PICK next \in {"off", "sending", "receiving", "ended"} :
           /\ Active(c, l) /\ thread' = [thread EXCEPT ![c][l] = next]
           /\ down' \in [Clients -> BOOLEAN]
           /\ UNCHANGED <<setup, client, port, link, backlog, pending, unread, datagrams>>
    BY DEF SendRaises, Recv, RecvRaises, Phase, AfterRecv, Active, networkVars,
           SocketInv, SocketTypeOK
  <1>2. /\ thread' \in [Clients -> Threading]
        /\ \A d \in Clients \ {c} : thread'[d] = thread[d]
        /\ \A k \in Loops : k # l => thread'[c][k] = thread[c][k]
    BY <1>1 DEF SocketInv, SocketTypeOK, Threading
  <1>3. SocketTypeOK'
    BY <1>1, <1>2 DEF SocketInv, SocketTypeOK, serverVars, Threading
  <1>4. ProgramInv(c)'
    BY <1>1, <1>2 DEF SocketInv, ProgramInv, Active, Ssl
  <1> QED BY <1>1, <1>2, <1>3, <1>4, ProgramOnly DEF ProgramSame

-----------------------------------------------------------------------------
(* The program ends.                                                       *)
LEMMA EndInv ==
    ASSUME SocketInv, NEW c \in Clients, NEW how \in Ended,
           client[c].run \in {"connecting", "unwinding", "looping"},
           client' = [client EXCEPT ![c].run = how],
           link' = [link EXCEPT ![c] = "none"],
           thread' \in [Clients -> Threading],
           \A d \in Clients \ {c} : thread'[d] = thread[d],
           \A l \in Loops : ~Active(c, l)',
           UNCHANGED <<setup, port, backlog, pending, unread, datagrams, down, serverVars>>
    PROVE  SocketInv'
  <1> DEFINE e == [client[c] EXCEPT !.run = how]
  <1>1. client[c] \in Programs /\ setup.trials \in Nat /\ SocketTypeOK
    BY SocketTypes DEF SocketInv
  <1>2. /\ e \in Programs /\ e.run = how /\ e.times = client[c].times
        /\ e.frames = client[c].frames
    <2>1. how \in Runs
      BY DEF Ended, Runs
    <2> QED BY <1>1, <2>1 DEF Programs
  <1>3. /\ client' \in [Clients -> Programs] /\ link' \in [Clients -> Links]
        /\ client'[c] = e /\ link'[c] = "none"
        /\ \A d \in Clients \ {c} : client'[d] = client[d] /\ link'[d] = link[d]
    <2>1. client' = [client EXCEPT ![c] = e]
      OBVIOUS
    <2>2. /\ link' \in [Clients -> Links] /\ link'[c] = "none"
          /\ \A d \in Clients \ {c} : link'[d] = link[d]
      BY DEF SocketInv, SocketTypeOK, Links
    <2> HIDE DEF e
    <2> QED BY <1>1, <1>2, <2>1, <2>2, SetClient
  <1> HIDE DEF e
  <1>4. UNCHANGED <<sessions, reports, main, accepted, held>> /\ OwnReports'
    BY ServerKeeps DEF SocketInv, serverVars
  <1>5. SocketTypeOK'
    BY <1>3, <1>4 DEF SocketInv, SocketTypeOK, Programs, Threading
  <1>6. ProgramInv(c)'
    BY <1>1, <1>2, <1>3 DEF SocketInv, ProgramInv, Ended
  <1>7. \A d \in Clients : InBacklog(d)' <=> InBacklog(d)
    BY DEF InBacklog
  <1>8. ASSUME ~Udp PROVE StreamInv(c)'
    <2>1. StreamInv(c)
      BY <1>8 DEF SocketInv, NetInv, TcpInv
    <2>2. \A n : Received(c, n) => Received(c, n)'
      BY <1>3, <1>4 DEF Received, Gapless
    <2>3. Gapless(pending[c], c, client[c].times) => Gapless(pending[c], c, client[c].times)'
      BY <1>2, <1>3 DEF Gapless
    <2> QED BY <1>2, <1>3, <1>4, <1>7, <2>1, <2>2, <2>3 DEF StreamInv, Ended
  <1>9. Udp => link' = link
    BY <1>3 DEF SocketInv, NetInv, UdpInv, SocketTypeOK
  <1> QED BY <1>3, <1>4, <1>5, <1>6, <1>7, <1>8, <1>9, OneClient
      DEF ProgramSame, StreamSame, Unique, SocketInv, NetInv, TcpInv

LEMMA EndingInv ==
    ASSUME SocketInv, NEW c \in Clients, UNCHANGED serverVars,
           GiveUp(c) \/ HandshakeFails(c) \/ WrapFails(c) \/ Disconnect(c) \/ Kill(c)
    PROVE  SocketInv'
  <1>1. thread \in [Clients -> Threading] /\ Idle \in Threading
    BY DEF SocketInv, SocketTypeOK, Threading, Idle
  <1>2. PICK how \in Ended :
           /\ client' = [client EXCEPT ![c].run = how]
           /\ link' = [link EXCEPT ![c] = "none"]
           /\ client[c].run \in {"connecting", "unwinding", "looping"}
           /\ thread' = thread \/ thread' = [thread EXCEPT ![c] = Idle]
           /\ UNCHANGED <<setup, port, backlog, pending, unread, datagrams, down>>
    BY DEF GiveUp, HandshakeFails, WrapFails, Disconnect, Kill, End, Ended
  <1>3. /\ thread' \in [Clients -> Threading]
        /\ \A d \in Clients \ {c} : thread'[d] = thread[d]
    BY <1>1, <1>2
  <1>4. \A l \in Loops : ~Active(c, l)'
    <2>1. CASE thread' = [thread EXCEPT ![c] = Idle]
      BY <1>1, <2>1 DEF Active, Idle
    <2>2. CASE thread' = thread /\ client[c].run # "looping"
      BY <2>2 DEF SocketInv, ProgramInv, Active
    <2>3. CASE Disconnect(c)
      <3>1. thread' = thread /\ \A l \in setup.loops[c] : thread[c][l] = "ended"
        BY <2>3 DEF Disconnect, End
      <3>2. \A l \in Loops : Active(c, l) => l \in setup.loops[c]
        BY DEF SocketInv, ProgramInv
      <3> QED BY <3>1, <3>2 DEF Active
    <2> QED BY <1>2, <2>1, <2>2, <2>3 DEF GiveUp, HandshakeFails, WrapFails, Kill, End
  <1> QED BY <1>2, <1>3, <1>4, EndInv

-----------------------------------------------------------------------------
(* The backlog: one connection joins it at the end, the first one leaves.  *)
LEMMA BacklogGrows ==
    ASSUME SocketTypeOK, Unique, NEW c \in Clients, ~InBacklog(c),
           backlog' = Append(backlog, c)
    PROVE  /\ Unique' /\ InBacklog(c)' /\ backlog' \in Seq(Clients)
           /\ Len(backlog') = Len(backlog) + 1
           /\ \A d \in Clients \ {c} : InBacklog(d)' <=> InBacklog(d)
  <1>1. /\ backlog \in Seq(Clients) /\ backlog' \in Seq(Clients)
        /\ Len(backlog) \in Nat /\ Len(backlog') = Len(backlog) + 1
        /\ DOMAIN backlog = 1..Len(backlog) /\ DOMAIN backlog' = 1..(Len(backlog) + 1)
        /\ \A i \in 1..Len(backlog) : backlog'[i] = backlog[i]
        /\ backlog'[Len(backlog) + 1] = c
    BY DEF SocketTypeOK
  <1>2. \A i \in DOMAIN backlog' : i \in DOMAIN backlog \/ i = Len(backlog) + 1
    BY <1>1
  <1>3. Unique'
    BY <1>1, <1>2 DEF Unique, InBacklog
  <1>4. InBacklog(c)'
    BY <1>1 DEF InBacklog
  <1>5. \A d \in Clients \ {c} : InBacklog(d)' <=> InBacklog(d)
    BY <1>1, <1>2 DEF InBacklog
  <1> QED BY <1>1, <1>3, <1>4, <1>5

LEMMA BacklogShrinks ==
    ASSUME SocketTypeOK, Unique, backlog # <<>>, backlog' = Tail(backlog)
    PROVE  /\ Unique' /\ Head(backlog) \in Clients /\ InBacklog(Head(backlog))
           /\ backlog' \in Seq(Clients) /\ Len(backlog') = Len(backlog) - 1
           /\ \A d \in Clients : InBacklog(d)' <=> InBacklog(d) /\ d # Head(backlog)
  <1>1. /\ backlog \in Seq(Clients) /\ backlog' \in Seq(Clients) /\ Len(backlog) \in Nat \ {0}
        /\ DOMAIN backlog = 1..Len(backlog) /\ DOMAIN backlog' = 1..(Len(backlog) - 1)
        /\ Len(backlog') = Len(backlog) - 1
        /\ \A i \in 1..(Len(backlog) - 1) : backlog'[i] = backlog[i + 1]
        /\ Head(backlog) = backlog[1] /\ backlog[1] \in Clients
    BY HeadTailProperties DEF SocketTypeOK
  <1>2. 1 \in DOMAIN backlog
    BY <1>1
  <1>3. \A i \in DOMAIN backlog' : i + 1 \in DOMAIN backlog /\ i + 1 # 1
                                   /\ backlog'[i] = backlog[i + 1]
    BY <1>1
  <1>4. Unique'
    BY <1>1, <1>3 DEF Unique
  <1>5. ASSUME NEW d \in Clients PROVE InBacklog(d)' <=> InBacklog(d) /\ d # Head(backlog)
    <2>1. ASSUME NEW i \in DOMAIN backlog', backlog'[i] = d
          PROVE  InBacklog(d) /\ d # Head(backlog)
      BY <1>1, <1>2, <1>3, <2>1 DEF Unique, InBacklog
    <2>2. ASSUME NEW i \in DOMAIN backlog, backlog[i] = d, d # Head(backlog)
          PROVE  InBacklog(d)'
      <3>1. i - 1 \in DOMAIN backlog' /\ backlog'[i - 1] = d
        BY <1>1, <2>2
      <3> QED BY <3>1 DEF InBacklog
    <2> QED BY <2>1, <2>2 DEF InBacklog
  <1> QED BY <1>1, <1>2, <1>4, <1>5 DEF InBacklog

-----------------------------------------------------------------------------
(* The program is started again, and connects.                             *)
LEMMA StartInv ==
    ASSUME SocketInv, NEW c \in Clients, StartClient(c), UNCHANGED serverVars
    PROVE  SocketInv'
  <1> DEFINE e == Fresh(client[c].times + 1)
  <1>1. /\ client[c] \in Programs /\ client[c].times \in Nat /\ setup.trials \in Nat
        /\ SocketTypeOK /\ thread \in [Clients -> Threading] /\ Idle \in Threading
    BY SocketTypes DEF SocketInv, SocketTypeOK, Programs, Threading, Idle
  <1>2. /\ client' = [client EXCEPT ![c] = e] /\ thread' = [thread EXCEPT ![c] = Idle]
        /\ pending' = [pending EXCEPT ![c] = <<>>] /\ down' = [down EXCEPT ![c] = FALSE]
        /\ UNCHANGED <<setup, port, link, backlog, unread, datagrams, main, sessions, accepted, held, reports>>
        /\ client[c].run \in Ended \union {"off"} /\ ~InBacklog(c)
    BY DEF StartClient, serverVars, InBacklog
  <1>3. /\ e \in Programs /\ e.run = "connecting" /\ e.times = client[c].times + 1
        /\ e.trial = 0 /\ e.frames = 1 /\ e.sends = 0
    BY <1>1 DEF Fresh, Programs, Runs
  <1> HIDE DEF e
  <1>4. /\ client' \in [Clients -> Programs] /\ client'[c] = e
        /\ \A d \in Clients \ {c} : client'[d] = client[d]
    BY <1>1, <1>2, <1>3, SetClient
  <1>5. /\ thread' \in [Clients -> Threading] /\ thread'[c] = Idle
        /\ \A d \in Clients \ {c} : thread'[d] = thread[d]
    BY <1>1, <1>2
  <1>6. /\ pending' \in [Clients -> Seq(Messages)] /\ pending'[c] = <<>>
        /\ \A d \in Clients \ {c} : pending'[d] = pending[d]
        /\ down' \in [Clients -> BOOLEAN]
    BY <1>1, <1>2 DEF SocketTypeOK
  <1>7. SocketTypeOK'
    BY <1>1, <1>2, <1>4, <1>5, <1>6 DEF SocketTypeOK, Programs, Threading
  <1>8. ProgramInv(c)'
    BY <1>1, <1>2, <1>3, <1>4, <1>5 DEF ProgramInv, Active, Idle
  <1>9. \A d \in Clients : InBacklog(d)' <=> InBacklog(d)
    BY <1>2 DEF InBacklog
  <1>10. ASSUME ~Udp PROVE StreamInv(c)'
    <2>1. StreamInv(c)
      BY <1>10 DEF SocketInv, NetInv, TcpInv
    <2>2. link[c] = "none"
      BY <1>2, <2>1 DEF StreamInv, Ended
    <2>3. \A n : Received(c, n) => Received(c, n)'
      BY <1>2, <2>2 DEF Received, Gapless
    <2>4. \A n \in 1..client[c].times : n \in 1..(client[c].times + 1)
      BY <1>1
    <2> QED BY <1>2, <1>3, <1>4, <1>6, <1>9, <2>1, <2>2, <2>3, <2>4 DEF StreamInv
  <1>11. OwnReports'
    BY <1>2, ServerKeeps DEF SocketInv, serverVars
  <1> QED BY <1>2, <1>4, <1>5, <1>6, <1>7, <1>8, <1>9, <1>10, <1>11, OneClient
      DEF ProgramSame, StreamSame, Unique, SocketInv, NetInv, TcpInv

LEMMA ConnectedInv ==
    ASSUME SocketInv, NEW c \in Clients, Connected(c), UNCHANGED serverVars
    PROVE  SocketInv'
  <1> DEFINE e == [client[c] EXCEPT !.run = "unwinding"]
  <1>1. /\ client[c] \in Programs /\ setup.trials \in Nat /\ SocketTypeOK
        /\ client[c].run = "connecting"
    BY SocketTypes DEF SocketInv, Connected
  <1>2. /\ client' = [client EXCEPT ![c] = e]
        /\ UNCHANGED <<setup, thread, port, pending, unread, datagrams, down,
                       main, sessions, accepted, held, reports>>
    BY DEF Connected, serverVars
  <1>3. /\ e \in Programs /\ e.run = "unwinding" /\ e.times = client[c].times
        /\ e.frames = client[c].frames /\ e.sends = client[c].sends
    BY <1>1 DEF Programs, Runs
  <1> HIDE DEF e
  <1>4. /\ client' \in [Clients -> Programs] /\ client'[c] = e
        /\ \A d \in Clients \ {c} : client'[d] = client[d]
    BY <1>1, <1>2, <1>3, SetClient
  <1>5. ProgramInv(c)'
    BY <1>1, <1>2, <1>3, <1>4 DEF SocketInv, ProgramInv, Active
  <1>6. OwnReports'
    BY <1>2, ServerKeeps DEF SocketInv, serverVars
  <1>7. CASE Udp
    <2>1. UNCHANGED <<link, backlog>>
      BY <1>7 DEF Connected
    <2>2. SocketTypeOK'
      BY <1>1, <1>2, <1>4, <2>1 DEF SocketTypeOK, Programs
    <2> QED BY <1>2, <1>4, <1>5, <1>6, <1>7, <2>1, <2>2, OneClient DEF ProgramSame
  <1>8. CASE ~Udp
    <2>1. /\ StreamInv(c) /\ Unique
          /\ ~InBacklog(c) /\ pending[c] = <<>> /\ client[c].sends = 0
      BY <1>1, <1>8 DEF SocketInv, NetInv, TcpInv, StreamInv
    <2>2. /\ link'[c] \in {"foreign", "queued"} /\ link' \in [Clients -> Links]
          /\ \A d \in Clients \ {c} : link'[d] = link[d]
          /\ \/ link'[c] = "foreign" /\ UNCHANGED backlog
             \/ link'[c] = "queued" /\ backlog' = Append(backlog, c) /\ Len(backlog) < 2
      BY <1>1, <1>8 DEF Connected, SocketTypeOK, Links
    <2>3. /\ Unique' /\ backlog' \in Seq(Clients) /\ Len(backlog') <= 2
          /\ link'[c] = "queued" => InBacklog(c)'
          /\ \A d \in Clients \ {c} : InBacklog(d)' <=> InBacklog(d)
      <3>1. CASE UNCHANGED backlog /\ link'[c] = "foreign"
        BY <1>1, <2>1, <3>1 DEF Unique, InBacklog, SocketTypeOK
      <3>2. CASE backlog' = Append(backlog, c) /\ Len(backlog) < 2
        <4>1. Len(backlog) \in Nat
          BY <1>1 DEF SocketTypeOK
        <4> QED BY <1>1, <2>1, <3>2, <4>1, BacklogGrows
      <3> QED BY <2>2, <3>1, <3>2
    <2>4. SocketTypeOK'
      BY <1>1, <1>2, <1>4, <2>2, <2>3 DEF SocketTypeOK, Programs
    <2>5. \A n : Received(c, n) => Received(c, n)'
      BY <1>2, <2>2 DEF Received, Gapless
    <2>6. Gapless(pending[c], c, client[c].times)'
      BY <1>2, <2>1 DEF Gapless
    <2>7. StreamInv(c)'
      BY <1>2, <1>3, <1>4, <2>1, <2>2, <2>3, <2>5, <2>6 DEF StreamInv
    <2> QED BY <1>2, <1>4, <1>5, <1>6, <1>8, <2>2, <2>3, <2>4, <2>7, OneClient
        DEF ProgramSame, StreamSame
  <1> QED BY <1>7, <1>8

-----------------------------------------------------------------------------
(* A message is sent; the server of another make sends or closes.          *)
LEMMA AppendFacts ==
    ASSUME NEW s \in Seq(Messages), NEW m \in Messages, NEW t, t = Append(s, m)
    PROVE  /\ t \in Seq(Messages) /\ Len(s) \in Nat /\ Len(t) = Len(s) + 1
           /\ \A i \in DOMAIN t : \/ i \in DOMAIN s /\ t[i] = s[i]
                                  \/ i = Len(s) + 1 /\ t[i] = m
  <1> HIDE DEF Messages
  <1>1. /\ t \in Seq(Messages) /\ Len(s) \in Nat /\ Len(t) = Len(s) + 1
        /\ DOMAIN s = 1..Len(s) /\ DOMAIN t = 1..(Len(s) + 1)
        /\ \A i \in 1..Len(s) : t[i] = s[i]
        /\ t[Len(s) + 1] = m
    OBVIOUS
  <1> QED BY <1>1

LEMMA OneMore ==
    \A a, b, s \in Nat : a + b = s => a + (b + 1) = s + 1
  OBVIOUS

LEMMA SendInv ==
    ASSUME SocketInv, NEW c \in Clients, NEW l \in Loops, Send(c, l), UNCHANGED serverVars
    PROVE  SocketInv'
  <1> DEFINE m == Message(c)
             e == [client[c] EXCEPT !.sends = client[c].sends + 1]
  <1>1. /\ client[c] \in Programs /\ client[c].sends \in Nat /\ client[c].sends + 1 \in Nat
        /\ client[c].times \in Nat /\ SocketTypeOK
        /\ client[c].sends < MaxSends /\ MaxSends \in Nat
    BY SocketTypes, MaxSendsAssumption DEF SocketInv, Send, Programs
  <1>2. Active(c, l) /\ client[c].run = "looping" /\ client[c].times > 0
    BY DEF SocketInv, ProgramInv, Send, Active
  <1>3. /\ m \in Messages
        /\ m = [from |-> c, run |-> client[c].times, nr |-> client[c].sends + 1]
    BY <1>1, <1>2 DEF Message, Messages
  <1>4. /\ client' = [client EXCEPT ![c] = e]
        /\ thread' = [thread EXCEPT ![c][l] = AfterSend(l)]
        /\ UNCHANGED <<setup, port, backlog, down, main, sessions, accepted, held, reports>>
    BY DEF Send, Counted, Phase, serverVars
  <1>5. /\ e \in Programs /\ e.run = client[c].run /\ e.times = client[c].times
        /\ e.trial = client[c].trial /\ e.frames = client[c].frames
        /\ e.layers = client[c].layers /\ e.sends = client[c].sends + 1
    BY <1>1 DEF Programs
  <1> HIDE DEF e, m
  <1>6. /\ client' \in [Clients -> Programs] /\ client'[c] = e
        /\ \A d \in Clients \ {c} : client'[d] = client[d]
    BY <1>1, <1>4, <1>5, SetClient
  <1>7. /\ thread' \in [Clients -> Threading]
        /\ \A d \in Clients \ {c} : thread'[d] = thread[d]
        /\ \A k \in Loops : k # l => thread'[c][k] = thread[c][k]
    BY <1>1, <1>4 DEF SocketTypeOK, Threading, AfterSend
  <1>8. ProgramInv(c)'
    BY <1>2, <1>4, <1>5, <1>6, <1>7 DEF SocketInv, ProgramInv, Active, Ssl
  <1>9. OwnReports'
    BY <1>4, ServerKeeps DEF SocketInv, serverVars
  <1>10. CASE Udp
    <2>1. UNCHANGED <<link, pending, unread>>
          /\ (datagrams' = datagrams \/ datagrams' = Append(datagrams, m))
      BY <1>10 DEF Send, SocketInv, NetInv, UdpInv, m
    <2>2. datagrams' \in Seq(Messages)
      <3>1. datagrams \in Seq(Messages)
        BY <1>1 DEF SocketTypeOK
      <3> QED BY <1>3, <2>1, <3>1, AppendFacts
    <2>3. SocketTypeOK'
      BY <1>1, <1>4, <1>6, <1>7, <2>1, <2>2 DEF SocketTypeOK, Programs, Threading
    <2> QED BY <1>4, <1>6, <1>7, <1>8, <1>9, <1>10, <2>1, <2>3, OneClient DEF ProgramSame
  <1>11. CASE ~Udp
    <2>1. /\ StreamInv(c) /\ Unique /\ \A d \in Clients : InBacklog(d)' <=> InBacklog(d)
          /\ pending[c] \in Seq(Messages) /\ unread[c] \in Seq(Messages)
          /\ reports[c] \in Seq(Messages)
          /\ pending \in [Clients -> Seq(Messages)] /\ unread \in [Clients -> Seq(Messages)]
      BY <1>1, <1>4, <1>11, SocketTypes
      DEF SocketInv, NetInv, TcpInv, InBacklog, SocketTypeOK
    <2>2. Unique' /\ UNCHANGED datagrams
      BY <1>4, <1>11, <2>1 DEF Unique, Send
    <2>3. ASSUME SocketTypeOK', StreamInv(c)',
                 \A d \in Clients \ {c} : /\ link'[d] = link[d] /\ pending'[d] = pending[d]
                                          /\ unread'[d] = unread[d]
          PROVE  SocketInv'
      BY <1>4, <1>6, <1>7, <1>8, <1>9, <1>11, <2>1, <2>2, <2>3, OneClient
      DEF ProgramSame, StreamSame
    <2>4. CASE link[c] = "queued" /\ pending' = [pending EXCEPT ![c] = Append(pending[c], m)]
               /\ UNCHANGED <<link, unread>>
      <3>1. /\ pending' \in [Clients -> Seq(Messages)]
            /\ pending'[c] = Append(pending[c], m) /\ pending'[c] \in Seq(Messages)
            /\ \A d \in Clients \ {c} : pending'[d] = pending[d]
        BY <1>3, <2>1, <2>4, AppendFacts
      <3>2. SocketTypeOK'
        BY <1>1, <1>4, <1>6, <1>7, <2>2, <2>4, <3>1 DEF SocketTypeOK, Programs, Threading
      <3>3. /\ InBacklog(c) /\ Len(pending[c]) = client[c].sends
            /\ Gapless(pending[c], c, client[c].times)
        BY <2>1, <2>4 DEF StreamInv
      <3>4. /\ Gapless(pending'[c], c, client[c].times)
            /\ Len(pending'[c]) = client[c].sends + 1
        <4>1. /\ Len(pending'[c]) = Len(pending[c]) + 1
              /\ \A i \in DOMAIN pending'[c] :
                    \/ i \in DOMAIN pending[c] /\ pending'[c][i] = pending[c][i]
                    \/ i = Len(pending[c]) + 1 /\ pending'[c][i] = m
          BY <1>3, <2>1, <3>1, AppendFacts
        <4> QED BY <1>1, <1>3, <3>3, <4>1 DEF Gapless
      <3>5. \A n : Received(c, n) => Received(c, n)'
        BY <1>4, <2>4 DEF Received, Gapless
      <3>6. Gapless(pending[c], c, client[c].times)'
        BY <1>5, <1>6, <3>4 DEF Gapless
      <3>7. StreamInv(c)'
        BY <1>2, <1>4, <1>5, <1>6, <2>1, <2>4, <3>4, <3>5, <3>6 DEF StreamInv
      <3> QED BY <2>3, <2>4, <3>1, <3>2, <3>7
    <2>5. CASE link[c] = "served" /\ unread' = [unread EXCEPT ![c] = Append(unread[c], m)]
               /\ UNCHANGED <<link, pending>>
      <3>1. /\ unread' \in [Clients -> Seq(Messages)]
            /\ unread'[c] = Append(unread[c], m) /\ unread'[c] \in Seq(Messages)
            /\ \A d \in Clients \ {c} : unread'[d] = unread[d]
        BY <1>3, <2>1, <2>5, AppendFacts
      <3>2. SocketTypeOK'
        BY <1>1, <1>4, <1>6, <1>7, <2>2, <2>5, <3>1 DEF SocketTypeOK, Programs, Threading
      <3>3. PICK n \in 1..client[c].times : Received(c, n)
        BY <2>1, <2>5 DEF StreamInv
      <3>4. n = client[c].times /\ Len(reports[c]) + Len(unread[c]) = client[c].sends
        BY <2>5, <3>3 DEF Received
      <3>5. Len(unread'[c]) = Len(unread[c]) + 1
        BY <1>3, <2>1, <3>1, AppendFacts
      <3>6. Len(reports[c]) + (Len(unread[c]) + 1) = client[c].sends + 1
        <4>1. client[c].sends \in Nat /\ Len(reports[c]) \in Nat /\ Len(unread[c]) \in Nat
          BY <1>1, <2>1
        <4>2. Len(reports[c]) + Len(unread[c]) = client[c].sends
          BY <3>4
        <4> QED BY <4>1, <4>2, OneMore, Zenon
      <3>7. \A i \in DOMAIN unread'[c] :
               unread'[c][i] = [from |-> c, run |-> n, nr |-> Len(reports[c]) + i]
        <4>1. m = [from |-> c, run |-> n, nr |-> Len(reports[c]) + (Len(unread[c]) + 1)]
          BY <1>3, <3>4, <3>6
        <4>2. \A i \in DOMAIN unread'[c] :
                 \/ i \in DOMAIN unread[c] /\ unread'[c][i] = unread[c][i]
                 \/ i = Len(unread[c]) + 1 /\ unread'[c][i] = m
          BY <1>3, <2>1, <3>1, AppendFacts
        <4> QED BY <3>3, <4>1, <4>2 DEF Received
      <3>8. Received(c, n)'
        <4>1. Len(reports[c]) + Len(unread'[c]) = e.sends
          BY <1>5, <3>5, <3>6
        <4>2. Gapless(reports[c], c, n)'
          BY <1>4, <3>3 DEF Received, Gapless
        <4> QED BY <1>4, <1>5, <1>6, <3>4, <3>7, <4>1, <4>2 DEF Received
      <3>9. StreamInv(c)'
        BY <1>2, <1>4, <1>5, <1>6, <2>1, <2>5, <3>3, <3>8 DEF StreamInv, Gapless
      <3> QED BY <2>3, <2>5, <3>1, <3>2, <3>9
    <2>6. CASE /\ link[c] \in {"dropped", "foreign"} /\ UNCHANGED <<pending, unread>>
               /\ UNCHANGED link \/ link' = [link EXCEPT ![c] = "reset"]
      <3>1. /\ link' \in [Clients -> Links] /\ link'[c] \in {"dropped", "foreign", "reset"}
            /\ \A d \in Clients \ {c} : link'[d] = link[d]
        BY <1>1, <2>6 DEF SocketTypeOK, Links
      <3>2. SocketTypeOK'
        BY <1>1, <1>4, <1>6, <1>7, <2>2, <2>6, <3>1 DEF SocketTypeOK, Programs, Threading
      <3>3. \A n : Received(c, n) => Received(c, n)'
        BY <1>4, <2>6, <3>1 DEF Received, Gapless
      <3>4. Gapless(pending[c], c, client[c].times) => Gapless(pending[c], c, client[c].times)'
        BY <1>5, <1>6, <2>6 DEF Gapless
      <3>5. StreamInv(c)'
        BY <1>2, <1>4, <1>5, <1>6, <2>1, <2>6, <3>1, <3>3, <3>4 DEF StreamInv
      <3> QED BY <2>3, <2>6, <3>1, <3>2, <3>5
    <2> QED BY <1>11, <2>4, <2>5, <2>6 DEF Send, m
  <1> QED BY <1>10, <1>11

LEMMA ForeignInv ==
    ASSUME SocketInv, NEW c \in Clients, Foreign(c), UNCHANGED serverVars
    PROVE  SocketInv'
  <1>1. /\ link[c] = "foreign" /\ SocketTypeOK
        /\ UNCHANGED <<setup, client, thread, port, backlog, pending, unread, datagrams,
                       main, sessions, accepted, held, reports>>
    BY DEF Foreign, SocketInv, serverVars
  <1>2. /\ link' \in [Clients -> Links] /\ link'[c] \in {"foreign", "dropped"}
        /\ \A d \in Clients \ {c} : link'[d] = link[d]
        /\ down' \in [Clients -> BOOLEAN]
    BY <1>1 DEF Foreign, SocketTypeOK, Links
  <1>3. ~Udp /\ StreamInv(c) /\ Unique
    BY <1>1 DEF SocketInv, NetInv, UdpInv, TcpInv
  <1>4. SocketTypeOK'
    BY <1>1, <1>2 DEF SocketTypeOK
  <1>5. OwnReports'
    BY <1>1, ServerKeeps DEF SocketInv, serverVars
  <1>6. \A d \in Clients : InBacklog(d)' <=> InBacklog(d)
    BY <1>1 DEF InBacklog
  <1>7. StreamInv(c)'
    <2>1. \A n : Received(c, n) => Received(c, n)'
      BY <1>1, <1>2 DEF Received, Gapless
    <2>2. Gapless(pending[c], c, client[c].times) => Gapless(pending[c], c, client[c].times)'
      BY <1>1 DEF Gapless
    <2> QED BY <1>1, <1>2, <1>3, <1>6, <2>1, <2>2 DEF StreamInv
  <1>8. ProgramInv(c)'
    BY <1>1, ProgramKeeps DEF ProgramSame, SocketInv
  <1> QED BY <1>1, <1>2, <1>3, <1>4, <1>5, <1>6, <1>7, <1>8, OneClient
      DEF ProgramSame, StreamSame, Unique

-----------------------------------------------------------------------------
(* The server: steps that touch neither a stream nor a program.            *)
LEMMA StreamsSame ==
    ASSUME SocketInv, SocketTypeOK',
           UNCHANGED <<setup, client, thread, link, backlog, pending, unread, datagrams,
                       sessions, accepted, held, reports>>
    PROVE  SocketInv'
  <1>1. \A d \in Clients : InBacklog(d)' <=> InBacklog(d)
    BY DEF InBacklog
  <1>2. ASSUME NEW d \in Clients PROVE ProgramInv(d)'
    BY ProgramKeeps DEF SocketInv, ProgramSame
  <1>3. NetInv'
    <2>1. Udp' <=> Udp
      BY DEF Udp
    <2>2. ASSUME ~Udp, NEW d \in Clients PROVE StreamInv(d)'
      BY <1>1, <2>2, StreamKeeps DEF SocketInv, NetInv, TcpInv, StreamSame
    <2> QED BY <2>1, <2>2 DEF SocketInv, NetInv, TcpInv, UdpInv, Unique
  <1>4. OwnReports'
    BY DEF SocketInv, OwnReports
  <1> QED BY <1>2, <1>3, <1>4 DEF SocketInv

LEMMA MainThreadInv ==
    ASSUME SocketInv, StartServer \/ AcceptRaises \/ (Finish /\ Threads)
    PROVE  SocketInv'
  <1>1. UNCHANGED <<setup, client, thread, link, backlog, pending, unread, datagrams, down,
                    sessions, accepted, held, reports>>
    BY DEF StartServer, AcceptRaises, Finish, clientVars, networkVars
  <1>2. /\ port' = port \/ port' = "open"
        /\ main' \in {"accepting", "joined", "stopped", "raised"}
        /\ main' \in {"stopped", "raised"} \/ main \notin {"stopped", "raised"}
    BY DEF StartServer, AcceptRaises, Finish, clientVars, networkVars
  <1>3. SocketTypeOK'
    BY <1>1, <1>2 DEF SocketInv, SocketTypeOK, MainStates
  <1> QED BY <1>1, <1>3, StreamsSame

LEMMA SessionSendInv ==
    ASSUME SocketInv, NEW c \in Clients, SessionSend(c)
    PROVE  SocketInv'
  <1>1. /\ UNCHANGED <<setup, client, thread, port, link, backlog, pending, unread, datagrams,
                       main, sessions, accepted, held, reports>>
        /\ down' = [down EXCEPT ![c] = TRUE]
    BY DEF SessionSend, serverVars
  <1>2. SocketTypeOK'
    BY <1>1 DEF SocketInv, SocketTypeOK
  <1> QED BY <1>1, <1>2, StreamsSame

(* run closes the socket: what waited there is reset.                      *)
LEMMA CloseInv ==
    ASSUME SocketInv, Finish, ~Threads
    PROVE  SocketInv'
  <1>1. /\ main' \in {"stopped", "raised"} /\ port' = "closed"
        /\ datagrams' = <<>> /\ backlog' = <<>>
        /\ link' = [c \in Clients |->
                      IF link[c] \in {"queued", "served"} THEN "reset" ELSE link[c]]
        /\ UNCHANGED <<setup, client, thread, pending, unread, down, sessions, accepted, held,
                       reports>>
    BY DEF Finish, CloseAll
  <1>2. SocketTypeOK'
    BY <1>1 DEF SocketInv, SocketTypeOK, MainStates, Links
  <1>3. ASSUME NEW d \in Clients PROVE ProgramInv(d)'
    BY <1>1, ProgramKeeps DEF SocketInv, ProgramSame
  <1>4. NetInv'
    <2>1. Udp' <=> Udp
      BY <1>1 DEF Udp
    <2>2. ASSUME ~Udp, NEW d \in Clients PROVE StreamInv(d)'
      <3>1. StreamInv(d)
        BY <2>2 DEF SocketInv, NetInv, TcpInv
      <3>2. ~InBacklog(d)'
        BY <1>1 DEF InBacklog
      <3>3. /\ link'[d] \notin {"queued", "served"}
            /\ link[d] = "none" => link'[d] = "none"
        BY <1>1
      <3>4. \A n : Received(d, n) => Received(d, n)'
        BY <1>1, <3>3 DEF Received, Gapless
      <3> QED BY <1>1, <3>1, <3>2, <3>3, <3>4 DEF StreamInv
    <2>3. Unique' /\ (~Udp => accepted' = <<>> /\ \A d \in Clients : held'[d] = <<>>)
      BY <1>1 DEF Unique, SocketInv, NetInv, TcpInv
    <2>4. Udp => UdpInv'
      BY <1>1 DEF SocketInv, NetInv, UdpInv
    <2> QED BY <1>1, <2>1, <2>2, <2>3, <2>4 DEF NetInv, TcpInv
  <1>5. OwnReports'
    BY <1>1 DEF SocketInv, OwnReports
  <1> QED BY <1>2, <1>3, <1>4, <1>5 DEF SocketInv

(* The accept thread takes a connection.                                   *)
LEMMA AcceptTcpOf ==
    ASSUME SocketInv, NEW c \in Clients, backlog # <<>>, c = Head(backlog), AcceptTcp
    PROVE  SocketInv'
  <1>1. /\ main = "accepting" /\ backlog # <<>> /\ backlog' = Tail(backlog)
        /\ link' = [link EXCEPT ![c] = IF link[c] # "queued" THEN link[c]
                                       ELSE IF c \in sessions THEN "dropped" ELSE "served"]
        /\ unread' = IF c \in sessions THEN unread ELSE [unread EXCEPT ![c] = pending[c]]
        /\ pending' = [pending EXCEPT ![c] = <<>>]
        /\ sessions' = sessions \union {c}
        /\ UNCHANGED <<setup, client, thread, port, datagrams, down, main, accepted, held, reports>>
    BY DEF AcceptTcp, Accepted
  <1>2. ~Udp /\ TcpInv /\ SocketTypeOK
    BY <1>1 DEF SocketInv, NetInv, UdpInv
  <1>3. /\ Unique' /\ InBacklog(c) /\ backlog' \in Seq(Clients)
        /\ Len(backlog') = Len(backlog) - 1
        /\ \A d \in Clients : InBacklog(d)' <=> InBacklog(d) /\ d # c
    BY <1>1, <1>2, BacklogShrinks DEF TcpInv
  <1>4. StreamInv(c)
    BY <1>2, <1>3 DEF TcpInv
  <1>5. /\ link' \in [Clients -> Links] /\ \A d \in Clients \ {c} : link'[d] = link[d]
        /\ link'[c] = IF link[c] # "queued" THEN link[c]
                      ELSE IF c \in sessions THEN "dropped" ELSE "served"
    BY <1>1, <1>2, <1>3 DEF SocketTypeOK, Links
  <1>6. /\ pending[c] \in Seq(Messages) /\ reports[c] \in Seq(Messages)
        /\ pending \in [Clients -> Seq(Messages)] /\ unread \in [Clients -> Seq(Messages)]
    BY <1>2, <1>3 DEF SocketTypeOK
  <1>7. /\ pending' \in [Clients -> Seq(Messages)] /\ pending'[c] = <<>>
        /\ \A d \in Clients \ {c} : pending'[d] = pending[d]
    BY <1>1, <1>3, <1>6
  <1>8. /\ unread' \in [Clients -> Seq(Messages)]
        /\ unread'[c] = IF c \in sessions THEN unread[c] ELSE pending[c]
        /\ \A d \in Clients \ {c} : unread'[d] = unread[d]
    BY <1>1, <1>3, <1>6
  <1>9. SocketTypeOK'
    <2>1. Len(backlog') <= 2
      BY <1>2, <1>3 DEF SocketTypeOK
    <2> QED BY <1>1, <1>2, <1>3, <1>5, <1>7, <1>8, <2>1 DEF SocketTypeOK
  <1>10. StreamInv(c)'
    <2>1. client[c].times \in Nat /\ client[c].times > 0
      <3>1. client[c].run # "off"
        BY <1>3, <1>4 DEF StreamInv
      <3>2. client[c] \in Programs
        BY <1>2, <1>3, SocketTypes
      <3> QED BY <1>3, <3>1, <3>2 DEF SocketInv, ProgramInv, Programs
    <2>2. \E n \in 1..client[c].times : Received(c, n)'
      <3>1. CASE c \in sessions
        <4>1. PICK n \in 1..client[c].times : Received(c, n)
          BY <1>4, <3>1 DEF StreamInv
        <4>2. Received(c, n)'
          BY <1>1, <1>5, <1>8, <3>1, <4>1 DEF Received, Gapless
        <4> QED BY <4>2
      <3>2. CASE c \notin sessions
        <4> PICK n \in 1..client[c].times : n = client[c].times
          BY <2>1
        <4>1. /\ reports[c] = <<>> /\ unread'[c] = pending[c] /\ link[c] # "served"
              /\ Gapless(pending[c], c, client[c].times)
          BY <1>3, <1>4, <1>8, <3>2 DEF StreamInv
        <4>2. link'[c] = "served" => Len(pending[c]) = client[c].sends
          BY <1>4, <1>5, <4>1 DEF StreamInv
        <4>3. Len(reports[c]) = 0 /\ Len(pending[c]) \in Nat
              /\ \A i \in DOMAIN pending[c] : i \in Nat
          BY <1>6, <4>1
        <4>4. Gapless(reports[c], c, n)'
          BY <1>1, <4>1 DEF Gapless
        <4> QED BY <1>1, <4>1, <4>2, <4>3, <4>4 DEF Received, Gapless
      <3> QED BY <3>1, <3>2
    <2>3. ~InBacklog(c)' /\ c \in sessions' /\ link'[c] # "queued"
          /\ (link[c] = "none" => link'[c] = "none")
      BY <1>1, <1>3, <1>5
    <2> QED BY <1>1, <1>3, <1>4, <1>7, <2>2, <2>3 DEF StreamInv
  <1>11. OwnReports'
    BY <1>1 DEF SocketInv, OwnReports
  <1>12. \A d \in Clients \ {c} : ProgramSame(d) /\ StreamSame(d)
    BY <1>1, <1>3, <1>5, <1>7, <1>8 DEF ProgramSame, StreamSame
  <1>13. ProgramInv(c)'
    BY <1>1, <1>3, ProgramKeeps DEF ProgramSame, SocketInv
  <1> QED BY <1>1, <1>2, <1>3, <1>9, <1>10, <1>11, <1>12, <1>13, OneClient

LEMMA AcceptTcpInv ==
    ASSUME SocketInv, AcceptTcp
    PROVE  SocketInv'
  <1>1. backlog # <<>> /\ Head(backlog) \in Clients
    BY DEF AcceptTcp, SocketInv, SocketTypeOK
  <1>2. PICK c \in Clients : c = Head(backlog)
    BY <1>1
  <1> QED BY <1>1, <1>2, AcceptTcpOf

(* A step that touches no program and no connection.                       *)
LEMMA ReportsOnly ==
    ASSUME SocketInv, SocketTypeOK', OwnReports',
           UNCHANGED <<setup, client, thread, link, backlog>>,
           ~Udp => TcpInv'
    PROVE  SocketInv'
  <1>1. Udp' <=> Udp
    BY DEF Udp
  <1>2. ASSUME NEW d \in Clients PROVE ProgramInv(d)'
    BY ProgramKeeps DEF SocketInv, ProgramSame
  <1>3. Udp => UdpInv'
    BY DEF SocketInv, NetInv, UdpInv
  <1> QED BY <1>1, <1>2, <1>3 DEF SocketInv, NetInv

(* A message is taken from the server's UDP socket.                        *)
LEMMA TakeFacts ==
    ASSUME SocketTypeOK, datagrams # <<>>, datagrams' = Tail(datagrams)
    PROVE  /\ Head(datagrams) \in Messages /\ datagrams' \in Seq(Messages)
           /\ Head(datagrams) = datagrams[1] /\ 1 \in DOMAIN datagrams
           /\ \A i \in DOMAIN datagrams' :
                 /\ i \in Nat \ {0} /\ i + 1 \in DOMAIN datagrams
                 /\ datagrams'[i] = datagrams[i + 1]
  <1> HIDE DEF Messages
  <1>1. datagrams \in Seq(Messages)
    BY DEF SocketTypeOK
  <1>2. /\ Tail(datagrams) \in Seq(Messages) /\ Len(datagrams) \in Nat \ {0}
        /\ DOMAIN datagrams = 1..Len(datagrams)
        /\ DOMAIN Tail(datagrams) = 1..(Len(datagrams) - 1)
        /\ \A i \in 1..(Len(datagrams) - 1) : Tail(datagrams)[i] = datagrams[i + 1]
        /\ Head(datagrams) = datagrams[1] /\ datagrams[1] \in Messages
    BY <1>1, HeadTailProperties
  <1> QED BY <1>2

LEMMA AcceptUdpInv ==
    ASSUME SocketInv, AcceptUdp
    PROVE  SocketInv'
  <1>1. /\ datagrams # <<>> /\ datagrams' = Tail(datagrams)
        /\ UNCHANGED <<setup, client, thread, port, link, backlog, pending, unread, down,
                       main, sessions, held, reports>>
    BY DEF AcceptUdp
  <1>2. PICK d \in Messages : d = Head(datagrams)
    BY <1>1, TakeFacts DEF SocketInv
  <1>3. accepted' \in {<<d>>, <<d, d>>}
    BY <1>2 DEF AcceptUdp
  <1>4. accepted' \in Seq(Messages)
    <2>1. <<d>> \in Seq(Messages) /\ <<d, d>> \in Seq(Messages)
      OBVIOUS
    <2> QED BY <1>3, <2>1
  <1>5. datagrams' \in Seq(Messages)
    BY <1>1, TakeFacts DEF SocketInv
  <1>6. SocketTypeOK'
    BY <1>1, <1>4, <1>5 DEF SocketInv, SocketTypeOK
  <1>7. OwnReports'
    BY <1>1 DEF SocketInv, OwnReports
  <1>8. Udp
    BY <1>1 DEF SocketInv, NetInv, TcpInv
  <1> QED BY <1>1, <1>6, <1>7, <1>8, ReportsOnly

(* A report is made.                                                       *)
LEMMA ReportFacts ==
    ASSUME SocketTypeOK, NEW c \in Clients, NEW m \in Messages,
           reports' = [reports EXCEPT ![c] = Append(reports[c], m)]
    PROVE  /\ reports' \in [Clients -> Seq(Messages)] /\ Len(reports[c]) \in Nat
           /\ Len(reports'[c]) = Len(reports[c]) + 1
           /\ \A d \in Clients \ {c} : reports'[d] = reports[d]
           /\ \A i \in DOMAIN reports'[c] : \/ i \in DOMAIN reports[c]
                                                /\ reports'[c][i] = reports[c][i]
                                            \/ i = Len(reports[c]) + 1 /\ reports'[c][i] = m
  <1>1. reports \in [Clients -> Seq(Messages)] /\ reports[c] \in Seq(Messages)
    BY DEF SocketTypeOK
  <1>2. reports'[c] = Append(reports[c], m) /\ \A d \in Clients \ {c} : reports'[d] = reports[d]
    BY <1>1
  <1>3. /\ reports'[c] \in Seq(Messages) /\ Len(reports[c]) \in Nat
        /\ Len(reports'[c]) = Len(reports[c]) + 1
        /\ \A i \in DOMAIN reports'[c] : \/ i \in DOMAIN reports[c]
                                             /\ reports'[c][i] = reports[c][i]
                                         \/ i = Len(reports[c]) + 1 /\ reports'[c][i] = m
    BY <1>1, <1>2, AppendFacts
  <1>4. reports' \in [Clients -> Seq(Messages)]
    BY <1>1, <1>2, <1>3
  <1> QED BY <1>2, <1>3, <1>4

LEMMA AcceptReportsInv ==
    ASSUME SocketInv, AcceptReports
    PROVE  SocketInv'
  <1>1. /\ accepted # <<>> /\ accepted' = Tail(accepted)
        /\ UNCHANGED <<setup, client, thread, port, link, backlog, pending, unread, datagrams,
                       down, main, held>>
    BY DEF AcceptReports, clientVars, networkVars
  <1>2. PICK m \in Messages : m = Head(accepted)
    BY <1>1 DEF SocketInv, SocketTypeOK
  <1>3. PICK c \in Clients : c = m.from
    BY <1>2 DEF Messages
  <1>4. /\ reports' = [reports EXCEPT ![c] = Append(reports[c], m)]
        /\ sessions' \in {sessions, sessions \union {c}}
    BY <1>2, <1>3 DEF AcceptReports
  <1>5. /\ reports' \in [Clients -> Seq(Messages)]
        /\ \A d \in Clients \ {c} : reports'[d] = reports[d]
        /\ \A i \in DOMAIN reports'[c] : \/ i \in DOMAIN reports[c]
                                             /\ reports'[c][i] = reports[c][i]
                                         \/ reports'[c][i] = m
    <2>1. SocketTypeOK
      BY DEF SocketInv
    <2>2. reports' = [reports EXCEPT ![c] = Append(reports[c], m)]
      BY <1>4
    <2>3. /\ reports' \in [Clients -> Seq(Messages)]
          /\ \A d \in Clients \ {c} : reports'[d] = reports[d]
      BY <2>1, <2>2, ReportFacts
    <2>4. \A i \in DOMAIN reports'[c] : \/ i \in DOMAIN reports[c]
                                            /\ reports'[c][i] = reports[c][i]
                                        \/ i = Len(reports[c]) + 1 /\ reports'[c][i] = m
      BY <2>1, <2>2, ReportFacts
    <2> QED BY <2>3, <2>4
  <1>6. accepted' \in Seq(Messages)
    BY <1>1 DEF SocketInv, SocketTypeOK
  <1>7. SocketTypeOK'
    BY <1>1, <1>3, <1>4, <1>5, <1>6 DEF SocketInv, SocketTypeOK
  <1>8. OwnReports'
    BY <1>1, <1>3, <1>5 DEF SocketInv, OwnReports
  <1>9. Udp
    BY <1>1 DEF SocketInv, NetInv, TcpInv
  <1> QED BY <1>1, <1>7, <1>8, <1>9, ReportsOnly

LEMMA SessionRecvAnyInv ==
    ASSUME SocketInv, NEW c \in Clients, SessionRecvAny(c)
    PROVE  SocketInv'
  <1>1. /\ setup.recvloop /\ Udp /\ datagrams # <<>> /\ datagrams' = Tail(datagrams)
        /\ held' = [held EXCEPT ![c] = <<Head(datagrams)>>]
        /\ UNCHANGED <<setup, client, thread, port, link, backlog, pending, unread, down,
                       main, sessions, accepted, reports>>
    BY DEF SessionRecvAny
  <1>2. Head(datagrams) \in Messages /\ datagrams' \in Seq(Messages)
    BY <1>1, TakeFacts DEF SocketInv
  <1>3. held' \in [Clients -> Seq(Messages)]
    <2>1. held \in [Clients -> Seq(Messages)]
      BY DEF SocketInv, SocketTypeOK
    <2>2. <<Head(datagrams)>> \in Seq(Messages)
      BY <1>2
    <2> QED BY <1>1, <2>1, <2>2
  <1>4. SocketTypeOK'
    BY <1>1, <1>2, <1>3 DEF SocketInv, SocketTypeOK
  <1>5. OwnReports'
    BY <1>1 DEF OwnReports
  <1> QED BY <1>1, <1>4, <1>5, ReportsOnly

LEMMA SessionReportsInv ==
    ASSUME SocketInv, NEW c \in Clients, SessionReports(c)
    PROVE  SocketInv'
  <1>1. /\ held[c] # <<>> /\ held' = [held EXCEPT ![c] = <<>>]
        /\ reports' = [reports EXCEPT ![c] = Append(reports[c], Head(held[c]))]
        /\ UNCHANGED <<setup, client, thread, port, link, backlog, pending, unread, datagrams,
                       down, main, sessions, accepted>>
    BY DEF SessionReports, clientVars, networkVars
  <1>2. SocketTypeOK /\ held \in [Clients -> Seq(Messages)] /\ held[c] \in Seq(Messages)
    BY DEF SocketInv, SocketTypeOK
  <1>3. PICK m \in Messages : m = Head(held[c])
    BY <1>1, <1>2
  <1>4. reports' \in [Clients -> Seq(Messages)]
    BY <1>1, <1>2, <1>3, ReportFacts
  <1>5. held' \in [Clients -> Seq(Messages)]
    BY <1>1, <1>2
  <1>6. SocketTypeOK'
    BY <1>1, <1>2, <1>4, <1>5 DEF SocketTypeOK
  <1>7. setup.recvloop /\ Udp
    BY <1>1 DEF SocketInv, OwnReports, NetInv, TcpInv
  <1>8. OwnReports'
    BY <1>1, <1>7 DEF OwnReports
  <1> QED BY <1>1, <1>6, <1>7, <1>8, ReportsOnly

(* A session reads one message of its client's stream and reports it.      *)
LEMMA SessionRecvOwnInv ==
    ASSUME SocketInv, NEW c \in Clients, SessionRecvOwn(c)
    PROVE  SocketInv'
  <1>1. /\ c \in sessions /\ setup.recvloop /\ ~Udp /\ unread[c] # <<>>
        /\ reports' = [reports EXCEPT ![c] = Append(reports[c], Head(unread[c]))]
        /\ unread' = [unread EXCEPT ![c] = Tail(unread[c])]
        /\ UNCHANGED <<setup, client, thread, port, link, backlog, pending, datagrams, down,
                       main, sessions, accepted, held>>
    BY DEF SessionRecvOwn
  <1>2. /\ SocketTypeOK /\ TcpInv /\ StreamInv(c)
        /\ reports[c] \in Seq(Messages) /\ unread[c] \in Seq(Messages)
        /\ reports \in [Clients -> Seq(Messages)] /\ unread \in [Clients -> Seq(Messages)]
    BY <1>1 DEF SocketInv, NetInv, TcpInv, SocketTypeOK
  <1>3. PICK m \in Messages : m = Head(unread[c]) /\ m = unread[c][1]
    BY <1>1, <1>2, HeadTailProperties
  <1>4. /\ unread'[c] \in Seq(Messages) /\ unread'[c] = Tail(unread[c])
        /\ Len(unread[c]) \in Nat \ {0} /\ Len(unread'[c]) = Len(unread[c]) - 1
        /\ \A i \in DOMAIN unread'[c] :
              i \in Nat /\ i + 1 \in DOMAIN unread[c] /\ unread'[c][i] = unread[c][i + 1]
    <2> HIDE DEF Messages
    <2>1. unread'[c] = Tail(unread[c])
      BY <1>1, <1>2
    <2>2. /\ Tail(unread[c]) \in Seq(Messages) /\ Len(unread[c]) \in Nat \ {0}
          /\ Len(Tail(unread[c])) = Len(unread[c]) - 1
          /\ DOMAIN unread[c] = 1..Len(unread[c])
          /\ DOMAIN Tail(unread[c]) = 1..(Len(unread[c]) - 1)
          /\ \A i \in 1..(Len(unread[c]) - 1) : Tail(unread[c])[i] = unread[c][i + 1]
      BY <1>1, <1>2, HeadTailProperties
    <2> QED BY <2>1, <2>2
  <1>5. /\ reports'[c] = Append(reports[c], m)
        /\ reports'[c] \in Seq(Messages) /\ Len(reports[c]) \in Nat
        /\ Len(reports'[c]) = Len(reports[c]) + 1
        /\ \A i \in DOMAIN reports'[c] : \/ i \in DOMAIN reports[c]
                                              /\ reports'[c][i] = reports[c][i]
                                         \/ i = Len(reports[c]) + 1 /\ reports'[c][i] = m
    BY <1>1, <1>2, <1>3, AppendFacts
  <1>6. /\ reports' \in [Clients -> Seq(Messages)] /\ unread' \in [Clients -> Seq(Messages)]
        /\ \A d \in Clients \ {c} : reports'[d] = reports[d] /\ unread'[d] = unread[d]
    BY <1>1, <1>2, <1>3, <1>4, <1>5
  <1>7. SocketTypeOK'
    BY <1>1, <1>2, <1>6 DEF SocketTypeOK
  <1>8. PICK n \in 1..client[c].times : Received(c, n)
    BY <1>1, <1>2 DEF StreamInv
  <1>9. m = [from |-> c, run |-> n, nr |-> Len(reports[c]) + 1]
    <2>1. 1 \in DOMAIN unread[c]
      BY <1>2, <1>4
    <2> QED BY <1>3, <1>8, <2>1 DEF Received
  <1>10. Received(c, n)'
    <2>1. Gapless(reports[c], c, n)'
      BY <1>5, <1>8, <1>9 DEF Received, Gapless
    <2>2. \A i \in DOMAIN unread'[c] :
             unread'[c][i] = [from |-> c, run |-> n, nr |-> Len(reports'[c]) + i]
      <3> TAKE i \in DOMAIN unread'[c]
      <3>1. i \in Nat /\ i + 1 \in DOMAIN unread[c] /\ unread'[c][i] = unread[c][i + 1]
        BY <1>4
      <3>2. unread[c][i + 1] = [from |-> c, run |-> n, nr |-> Len(reports[c]) + (i + 1)]
        BY <1>8, <3>1 DEF Received
      <3>3. Len(reports[c]) + (i + 1) = Len(reports'[c]) + i
        <4>1. Len(reports'[c]) = Len(reports[c]) + 1 /\ Len(reports[c]) \in Nat /\ i \in Nat
          BY <1>5, <3>1
        <4>2. \A a, j, b \in Nat : b = a + 1 => a + (j + 1) = b + j
          OBVIOUS
        <4>3. Len(reports'[c]) \in Nat
          BY <4>1
        <4> QED BY <4>1, <4>2, <4>3, Zenon
      <3> QED BY <3>1, <3>2, <3>3
    <2>3. Len(reports'[c]) + Len(unread'[c]) = Len(reports[c]) + Len(unread[c])
      <3>1. \A a, b \in Nat : b # 0 => (a + 1) + (b - 1) = a + b
        OBVIOUS
      <3>2. /\ Len(reports'[c]) = Len(reports[c]) + 1 /\ Len(reports[c]) \in Nat
            /\ Len(unread'[c]) = Len(unread[c]) - 1 /\ Len(unread[c]) \in Nat
            /\ Len(unread[c]) # 0
        BY <1>4, <1>5
      <3> QED BY <3>1, <3>2, Zenon
    <2> QED BY <1>1, <1>8, <2>1, <2>2, <2>3 DEF Received
  <1>11. \A d \in Clients : InBacklog(d)' <=> InBacklog(d)
    BY <1>1 DEF InBacklog
  <1>12. StreamInv(c)'
    <2>1. Gapless(pending[c], c, client[c].times) => Gapless(pending[c], c, client[c].times)'
      BY <1>1 DEF Gapless
    <2> QED BY <1>1, <1>2, <1>8, <1>10, <1>11, <2>1 DEF StreamInv
  <1>13. ASSUME NEW d \in Clients \ {c} PROVE StreamInv(d)'
    <2>1. StreamInv(d)
      BY <1>2 DEF TcpInv
    <2> QED BY <1>1, <1>6, <1>11, <2>1, StreamKeeps DEF StreamSame
  <1>14. TcpInv'
    BY <1>1, <1>2, <1>12, <1>13 DEF TcpInv, Unique
  <1>15. OwnReports'
    BY <1>1 DEF SocketInv, OwnReports
  <1> QED BY <1>1, <1>7, <1>14, <1>15, ReportsOnly

-----------------------------------------------------------------------------
(* All steps.                                                              *)
LEMMA ClientInv ==
    ASSUME SocketInv, NEW c \in Clients, UNCHANGED serverVars,
           StartClient(c) \/ ClientStep(c) \/ Kill(c) \/ Foreign(c)
    PROVE  SocketInv'
  <1>1. CASE Plain(c)
    BY <1>1, ReturnInv DEF Plain
  <1>2. CASE Handshake(c)
    BY <1>2, ReturnInv DEF Handshake
  <1>3. CASE \E l \in Loops : Send(c, l)
    BY <1>3, SendInv
  <1>4. CASE \E l \in Loops : SendRaises(c, l) \/ Recv(c, l) \/ RecvRaises(c, l)
    BY <1>4, ThreadInv
  <1> QED BY <1>1, <1>2, <1>3, <1>4, StartInv, ConnectedInv, RetryInv, EndingInv, ForeignInv
      DEF ClientStep, Unwind

LEMMA SocketNextInv == SocketInv /\ [Next]_socketVars => SocketInv'
  <1> SUFFICES ASSUME SocketInv, [Next]_socketVars PROVE SocketInv'
    OBVIOUS
  <1>1. CASE Server
    BY <1>1, MainThreadInv, CloseInv, AcceptTcpInv, AcceptUdpInv, AcceptReportsInv
    DEF Server, Accept
  <1>2. ASSUME NEW c \in Clients, Session(c) PROVE SocketInv'
    BY <1>2, SessionRecvOwnInv, SessionRecvAnyInv, SessionReportsInv, SessionSendInv
    DEF Session, SessionRecv
  <1>3. CASE UNCHANGED socketVars
    <2>1. SocketTypeOK'
      BY <1>3 DEF SocketInv, SocketTypeOK, socketVars, clientVars, networkVars, serverVars
    <2> QED BY <1>3, <2>1, StreamsSame DEF socketVars, clientVars, networkVars, serverVars
  <1> QED BY <1>1, <1>2, <1>3, ClientInv DEF Next

LEMMA SocketInvImplies ==
    SocketInv => SocketTypeOK /\ ClientOrderly /\ FaithfulReports
  <1> SUFFICES ASSUME SocketInv
               PROVE  ClientOrderly /\ FaithfulReports
    BY DEF SocketInv
  <1>1. ASSUME NEW c \in Clients, NEW l \in Loops, client[c].run = "closed"
        PROVE  thread[c][l] \in {"off", "ended"}
    <2>1. ~Active(c, l)
      BY <1>1 DEF SocketInv, ProgramInv
    <2>2. thread[c] \in Threading
      BY SocketTypes DEF SocketInv
    <2> QED BY <2>1, <2>2 DEF Active, Threading
  <1>2. ClientOrderly
    BY <1>1 DEF SocketInv, ProgramInv, ClientOrderly, AttemptsLimited, TlsOnce, DisconnectLast
  <1>3. ASSUME ~Udp, NEW c \in Clients
        PROVE  reports[c] = <<>> \/ \E n \in 1..client[c].times : Gapless(reports[c], c, n)
    BY <1>3 DEF SocketInv, NetInv, TcpInv, StreamInv, Received
  <1>4. FaithfulReports
    BY <1>3 DEF SocketInv, OwnReports, FaithfulReports
  <1> QED BY <1>2, <1>4

LEMMA SocketAlways == Spec => []SocketInv
  BY SocketInitInv, SocketNextInv, PTL DEF Spec

(* The types of the state of clients, connections and server.              *)
THEOREM SocketTyping == Spec => []SocketTypeOK
  BY SocketAlways, SocketInvImplies, PTL

(* connect calls itself no more often than it was told to, opens one TLS   *)
(* session however many of its calls go on to, and disconnect, which run   *)
(* calls behind the joins, closes a socket no thread uses.                 *)
THEOREM ClientsAreOrderly == Spec => []ClientOrderly
  BY SocketAlways, SocketInvImplies, PTL

(* What the server reports over TCP for an address is the beginning of what*)
(* one run of the program there has sent, though the address may connect   *)
(* again and again; over UDP, without receive loops, a report names its    *)
(* sender.                                                                 *)
THEOREM ReportsAreFaithful == Spec => []FaithfulReports
  BY SocketAlways, SocketInvImplies, PTL

-----------------------------------------------------------------------------
(* A connection that lasts has lost nothing.                               *)
GoesOn(a, b, c, n) == \A i \in DOMAIN b : b[i] = [from |-> c, run |-> n, nr |-> Len(a) + i]

LEMMA JoinedGapless ==
    ASSUME NEW a \in Seq(Messages), NEW b \in Seq(Messages), NEW s, s = a \o b,
           NEW c, NEW n, Gapless(a, c, n), GoesOn(a, b, c, n)
    PROVE  s \in Seq(Messages) /\ Len(s) = Len(a) + Len(b) /\ Gapless(s, c, n)
  <1>1. /\ s \in Seq(Messages) /\ Len(s) = Len(a) + Len(b)
        /\ Len(a) \in Nat /\ Len(b) \in Nat
        /\ DOMAIN s = 1..Len(s) /\ DOMAIN a = 1..Len(a) /\ DOMAIN b = 1..Len(b)
        /\ \A i \in 1..Len(s) : s[i] = IF i <= Len(a) THEN a[i] ELSE b[i - Len(a)]
    <2> HIDE DEF Messages
    <2> QED BY ConcatProperties
  <1>2. ASSUME NEW i \in DOMAIN s PROVE s[i] = [from |-> c, run |-> n, nr |-> i]
    <2>1. CASE i <= Len(a)
      BY <1>1, <2>1 DEF Gapless
    <2>2. CASE ~(i <= Len(a))
      <3>1. i - Len(a) \in DOMAIN b /\ s[i] = b[i - Len(a)] /\ Len(a) + (i - Len(a)) = i
        BY <1>1, <2>2
      <3> QED BY <3>1 DEF GoesOn
    <2> QED BY <2>1, <2>2
  <1> QED BY <1>1, <1>2 DEF Gapless

LEMMA SocketKeepsAll == SocketInv => NothingLost
  <1> SUFFICES ASSUME SocketInv, NEW c \in Clients
               PROVE  /\ link[c] = "queued" => pending[c] = Written(c)
                      /\ link[c] = "served" => reports[c] \o unread[c] = Written(c)
    BY DEF NothingLost
  <1>1. /\ client[c].sends \in Nat /\ client[c].times \in Nat
        /\ pending[c] \in Seq(Messages) /\ unread[c] \in Seq(Messages)
        /\ reports[c] \in Seq(Messages)
    BY SocketTypes DEF SocketInv, Programs
  <1>2. ASSUME NEW s \in Seq(Messages), Len(s) = client[c].sends,
               Gapless(s, c, client[c].times)
        PROVE  s = Written(c)
    <2> HIDE DEF Messages
    <2>1. DOMAIN s = 1..client[c].sends /\ s = [i \in DOMAIN s |-> s[i]]
      BY <1>2
    <2>2. \A i \in 1..client[c].sends : s[i] = [from |-> c, run |-> client[c].times, nr |-> i]
      BY <1>2, <2>1 DEF Gapless
    <2> QED BY <2>1, <2>2 DEF Written
  <1>3. ASSUME link[c] \in {"queued", "served"} PROVE StreamInv(c)
    BY <1>3 DEF SocketInv, NetInv, UdpInv, TcpInv
  <1>4. CASE link[c] = "queued"
    BY <1>1, <1>2, <1>3, <1>4 DEF StreamInv
  <1>5. CASE link[c] = "served"
    <2>1. PICK n \in 1..client[c].times : Received(c, n)
      BY <1>3, <1>5 DEF StreamInv
    <2>2. n = client[c].times /\ Len(reports[c]) + Len(unread[c]) = client[c].sends
      BY <1>5, <2>1 DEF Received
    <2>3. PICK s : s = reports[c] \o unread[c]
      OBVIOUS
    <2>4. s \in Seq(Messages) /\ Len(s) = client[c].sends /\ Gapless(s, c, n)
      <3>1. Gapless(reports[c], c, n) /\ GoesOn(reports[c], unread[c], c, n)
        BY <2>1 DEF Received, GoesOn
      <3>2. s \in Seq(Messages) /\ Gapless(s, c, n) /\ Len(s) = Len(reports[c]) + Len(unread[c])
        BY <1>1, <2>3, <3>1, JoinedGapless
      <3> QED BY <2>2, <3>2
    <2>5. s = Written(c)
      BY <1>2, <2>2, <2>4
    <2> QED BY <1>5, <2>3, <2>5
  <1> QED BY <1>4, <1>5

-----------------------------------------------------------------------------
(* Where a message can be over UDP.  It is in one place only, and the two  *)
(* reports accept may make of it are the only exception.                   *)
Sent(m) ==
    \/ m.run < client[m.from].times
    \/ m.run = client[m.from].times /\ m.nr <= client[m.from].sends

Queued(m) == \E i \in DOMAIN datagrams : datagrams[i] = m
Accepting(m) == accepted \in {<<m>>, <<m, m>>}
HeldBy(c, m) == held[c] = <<m>>
Reported(c, m) == \E i \in DOMAIN reports[c] : reports[c][i] = m

Once(c, m) ==
    \A i, j \in DOMAIN reports[c] : reports[c][i] = m /\ reports[c][j] = m => i = j
Twice(c, m) ==
    \A i, j, k \in DOMAIN reports[c] :
        reports[c][i] = m /\ reports[c][j] = m /\ reports[c][k] = m => i = j \/ j = k \/ i = k

Place(m) ==
    /\ Queued(m) => /\ Sent(m) /\ ~Accepting(m)
                    /\ \A c \in Clients : ~HeldBy(c, m) /\ ~Reported(c, m)
    /\ Accepting(m) =>
          /\ Sent(m)
          /\ \A c \in Clients :
                /\ ~HeldBy(c, m)
                /\ Reported(c, m) => c = m.from /\ accepted = <<m>> /\ Once(c, m)
    /\ \A c \in Clients :
          /\ HeldBy(c, m) =>
                /\ Sent(m)
                /\ \A d \in Clients : ~Reported(d, m) /\ (HeldBy(d, m) => c = d)
          /\ Reported(c, m) =>
                /\ Sent(m) /\ (Once(c, m) \/ (c = m.from /\ Twice(c, m)))
                /\ \A d \in Clients : Reported(d, m) => c = d

Distinct == \A i, j \in DOMAIN datagrams : datagrams[i] = datagrams[j] => i = j

TakenInv ==
    Udp => /\ Distinct
           /\ \A c \in Clients : held[c] = <<>> \/ \E m \in Messages : HeldBy(c, m)
           /\ accepted = <<>> \/ \E m \in Messages : Accepting(m)
           /\ \A m \in Messages : Place(m)

LEMMA TakenInit == Init => TakenInv
  <1> SUFFICES ASSUME Init PROVE TakenInv
    OBVIOUS
  <1>1. /\ datagrams = <<>> /\ accepted = <<>>
        /\ \A c \in Clients : held[c] = <<>> /\ reports[c] = <<>>
    BY DEF Init, ClientInit, Nothing
  <1>2. Distinct
    BY <1>1 DEF Distinct
  <1>3. ASSUME NEW m \in Messages PROVE Place(m)
    <2>1. ~Queued(m) /\ ~Accepting(m)
      BY <1>1 DEF Queued, Accepting
    <2>2. \A c \in Clients : ~HeldBy(c, m) /\ ~Reported(c, m)
      <3> SUFFICES ASSUME NEW c \in Clients PROVE ~HeldBy(c, m) /\ ~Reported(c, m)
        OBVIOUS
      <3>1. ASSUME NEW i \in DOMAIN reports[c] PROVE FALSE
        BY <1>1
      <3> QED BY <1>1, <3>1 DEF HeldBy, Reported
    <2> QED BY <2>1, <2>2 DEF Place
  <1> QED BY <1>1, <1>2, <1>3 DEF TakenInv

(* Nothing is unsent, and the socket of the server loses what it loses.    *)
Onward(c) ==
    \/ client'[c].times > client[c].times
    \/ client'[c].times = client[c].times /\ client'[c].sends >= client[c].sends

LEMMA SentStays ==
    ASSUME SocketTypeOK, SocketTypeOK', NEW m \in Messages, Onward(m.from), Sent(m)
    PROVE  Sent(m)'
  <1>1. /\ m.run \in Nat /\ m.nr \in Nat /\ m.from \in Clients
        /\ client[m.from].times \in Nat /\ client[m.from].sends \in Nat
        /\ client'[m.from].times \in Nat /\ client'[m.from].sends \in Nat
    <2>1. PICK f \in Clients : f = m.from /\ m.run \in Nat /\ m.nr \in Nat
      BY MaxSendsAssumption DEF Messages
    <2>2. client[f] \in Programs
      BY SocketTypes
    <2>3. client'[f] \in Programs
      BY DEF SocketTypeOK, Programs
    <2> QED BY <2>1, <2>2, <2>3 DEF Programs
  <1> QED BY <1>1 DEF Sent, Onward

LEMMA NothingTaken ==
    ASSUME SocketTypeOK, SocketTypeOK', TakenInv, UNCHANGED <<setup, accepted, held, reports>>,
           \A c \in Clients : Onward(c),
           datagrams' = datagrams \/ datagrams' = <<>>
    PROVE  TakenInv'
  <1> SUFFICES ASSUME Udp PROVE TakenInv'
    BY DEF TakenInv, Udp
  <1>1. Distinct'
    BY DEF TakenInv, Distinct
  <1>2. ASSUME NEW m \in Messages PROVE Place(m)'
    <2>1. Place(m)
      BY DEF TakenInv
    <2>2. Queued(m)' => Queued(m)
      BY DEF Queued
    <2>3. Sent(m) => Sent(m)'
      <3>1. m.from \in Clients
        BY DEF Messages
      <3> QED BY <3>1, SentStays
    <2>4. Accepting(m)' <=> Accepting(m)
      BY DEF Accepting
    <2>5. \A c \in Clients : /\ HeldBy(c, m)' <=> HeldBy(c, m)
                             /\ Reported(c, m)' <=> Reported(c, m)
                             /\ Once(c, m)' <=> Once(c, m)
                             /\ Twice(c, m)' <=> Twice(c, m)
      BY DEF HeldBy, Reported, Once, Twice
    <2> QED BY <2>1, <2>2, <2>3, <2>4, <2>5 DEF Place
  <1> QED BY <1>1, <1>2 DEF TakenInv, HeldBy, Accepting

(* A program sends a message that is nowhere yet.                          *)
LEMMA TakenSend ==
    ASSUME SocketInv, SocketTypeOK', TakenInv, NEW c \in Clients, NEW l \in Loops,
           Send(c, l), UNCHANGED serverVars
    PROVE  TakenInv'
  <1>1. /\ UNCHANGED <<setup, accepted, held, reports>>
        /\ client' = [client EXCEPT ![c].sends = @ + 1]
    BY DEF Send, Counted, serverVars
  <1>2. \A d \in Clients : client[d] \in Programs
    BY SocketTypes DEF SocketInv
  <1>3. ASSUME NEW d \in Clients PROVE Onward(d)
    <2>1. client[d].sends \in Nat /\ client[d].times \in Nat
      BY <1>2 DEF Programs
    <2>2. client'[d].times = client[d].times
          /\ client'[d].sends \in {client[d].sends, client[d].sends + 1}
      BY <1>1, <1>2 DEF SocketInv, SocketTypeOK, Programs
    <2> QED BY <2>1, <2>2 DEF Onward
  <1>4. CASE UNCHANGED datagrams
    BY <1>1, <1>3, <1>4, NothingTaken DEF SocketInv
  <1>5. CASE Udp /\ datagrams' = Append(datagrams, Message(c))
    <2>1. PICK k : k = Message(c)
      OBVIOUS
    <2>2. /\ client[c].sends \in Nat /\ client[c].times \in Nat
          /\ client[c].sends < MaxSends /\ MaxSends \in Nat /\ client[c].times > 0
      <3>1. client[c].run # "off"
        BY DEF SocketInv, ProgramInv, Send, Active
      <3> QED BY <1>2, <3>1, MaxSendsAssumption DEF SocketInv, ProgramInv, Send, Programs
    <2>3. k \in Messages /\ k.from = c /\ k.run = client[c].times /\ k.nr = client[c].sends + 1
      BY <2>1, <2>2 DEF Message, Messages
    <2>4. ~Sent(k) /\ Sent(k)'
      <3>1. ~Sent(k)
        BY <2>2, <2>3 DEF Sent
      <3>2. client'[c].times = client[c].times /\ client'[c].sends = client[c].sends + 1
        BY <1>1, <1>2, <2>2 DEF SocketInv, SocketTypeOK, Programs
      <3> QED BY <2>2, <2>3, <3>1, <3>2 DEF Sent
    <2>5. /\ Len(datagrams) \in Nat
          /\ \A i \in DOMAIN datagrams' : \/ i \in DOMAIN datagrams
                                              /\ datagrams'[i] = datagrams[i]
                                          \/ i = Len(datagrams) + 1 /\ datagrams'[i] = k
      <3>1. datagrams \in Seq(Messages) /\ datagrams' = Append(datagrams, k)
        BY <1>5, <2>1 DEF SocketInv, SocketTypeOK
      <3> QED BY <2>3, <3>1, AppendFacts
    <2>6. Place(k)
      BY <1>5, <2>3 DEF TakenInv
    <2>7. Distinct'
      BY <1>5, <2>4, <2>5, <2>6 DEF TakenInv, Distinct, Place, Queued
    <2>8. ASSUME NEW m \in Messages PROVE Place(m)'
      <3>1. Place(m)
        BY <1>5 DEF TakenInv
      <3>2. Queued(m)' => Queued(m) \/ m = k
        BY <2>5 DEF Queued
      <3>3. Sent(m) => Sent(m)'
        <4>1. m.from \in Clients
          BY DEF Messages
        <4> QED BY <1>3, <4>1, SentStays DEF SocketInv
      <3>4. Accepting(m)' <=> Accepting(m)
        BY <1>1 DEF Accepting
      <3>5. \A d \in Clients : /\ HeldBy(d, m)' <=> HeldBy(d, m)
                               /\ Reported(d, m)' <=> Reported(d, m)
                               /\ Once(d, m)' <=> Once(d, m)
                               /\ Twice(d, m)' <=> Twice(d, m)
        BY <1>1 DEF HeldBy, Reported, Once, Twice
      <3> QED BY <1>1, <2>4, <3>1, <3>2, <3>3, <3>4, <3>5 DEF Place
    <2> QED BY <1>1, <1>5, <2>7, <2>8 DEF TakenInv, HeldBy, Accepting
  <1> QED BY <1>4, <1>5 DEF Send

(* A message is taken, by a session or by accept.                          *)
LEMMA QueueShrinks ==
    ASSUME SocketTypeOK, Distinct, datagrams # <<>>, datagrams' = Tail(datagrams)
    PROVE  /\ Distinct' /\ Queued(Head(datagrams))
           /\ \A m : Queued(m)' => Queued(m) /\ m # Head(datagrams)
  <1>1. /\ Head(datagrams) = datagrams[1] /\ 1 \in DOMAIN datagrams
        /\ \A i \in DOMAIN datagrams' :
              /\ i \in Nat \ {0} /\ i + 1 \in DOMAIN datagrams
              /\ datagrams'[i] = datagrams[i + 1]
    BY TakeFacts
  <1>2. \A i \in DOMAIN datagrams' : i + 1 # 1 /\ i \in Nat
    BY <1>1
  <1>3. Distinct'
    BY <1>1, <1>2 DEF Distinct
  <1>4. Queued(Head(datagrams))
    BY <1>1 DEF Queued
  <1>5. ASSUME NEW m, Queued(m)' PROVE Queued(m) /\ m # Head(datagrams)
    BY <1>1, <1>2, <1>5 DEF Queued, Distinct
  <1> QED BY <1>3, <1>4, <1>5

LEMMA TakenSession ==
    ASSUME SocketInv, TakenInv, NEW c \in Clients, SessionRecvAny(c)
    PROVE  TakenInv'
  <1>1. /\ Udp /\ datagrams # <<>> /\ held[c] = <<>> /\ datagrams' = Tail(datagrams)
        /\ held' = [held EXCEPT ![c] = <<Head(datagrams)>>]
        /\ UNCHANGED <<setup, client, accepted, reports>>
    BY DEF SessionRecvAny
  <1>2. PICK k \in Messages : k = Head(datagrams)
    BY <1>1, TakeFacts DEF SocketInv
  <1>3. /\ Distinct' /\ Queued(k)
        /\ \A m : Queued(m)' => Queued(m) /\ m # k
    BY <1>1, <1>2, QueueShrinks DEF SocketInv, TakenInv
  <1>4. held'[c] = <<k>> /\ \A d \in Clients \ {c} : held'[d] = held[d]
    BY <1>1, <1>2 DEF SocketInv, SocketTypeOK
  <1>5. ASSUME NEW m \in Messages PROVE Place(m)'
    <2>1. Place(m) /\ Place(k)
      BY <1>1 DEF TakenInv
    <2>2. \A d \in Clients : HeldBy(d, m)' <=> HeldBy(d, m) \/ (d = c /\ m = k)
      BY <1>1, <1>4 DEF HeldBy
    <2>3. (Sent(m)' <=> Sent(m)) /\ (Accepting(m)' <=> Accepting(m))
      BY <1>1 DEF Sent, Accepting
    <2>4. \A d \in Clients : /\ Reported(d, m)' <=> Reported(d, m)
                             /\ Once(d, m)' <=> Once(d, m)
                             /\ Twice(d, m)' <=> Twice(d, m)
      BY <1>1 DEF Reported, Once, Twice
    <2> QED BY <1>1, <1>3, <2>1, <2>2, <2>3, <2>4 DEF Place
  <1>6. \A d \in Clients : held'[d] = <<>> \/ \E m \in Messages : HeldBy(d, m)'
    BY <1>1, <1>2, <1>4 DEF TakenInv, HeldBy
  <1> QED BY <1>1, <1>3, <1>5, <1>6 DEF TakenInv, Accepting

LEMMA TakenAccept ==
    ASSUME SocketInv, TakenInv, AcceptUdp
    PROVE  TakenInv'
  <1>1. /\ datagrams # <<>> /\ accepted = <<>> /\ datagrams' = Tail(datagrams)
        /\ UNCHANGED <<setup, client, held, reports>>
    BY DEF AcceptUdp
  <1>2. PICK k \in Messages : k = Head(datagrams)
    BY <1>1, TakeFacts DEF SocketInv
  <1>3. accepted' \in {<<k>>, <<k, k>>} /\ Udp
    BY <1>1, <1>2 DEF AcceptUdp, SocketInv, NetInv, TcpInv
  <1>4. /\ Distinct' /\ Queued(k)
        /\ \A m : Queued(m)' => Queued(m) /\ m # k
    BY <1>1, <1>2, <1>3, QueueShrinks DEF SocketInv, TakenInv
  <1>5. ASSUME NEW m \in Messages PROVE Place(m)'
    <2>1. Place(m) /\ Place(k)
      BY <1>3 DEF TakenInv
    <2>2. Accepting(m)' <=> m = k
      BY <1>3 DEF Accepting
    <2>3. Sent(m)' <=> Sent(m)
      BY <1>1 DEF Sent
    <2>4. \A d \in Clients : /\ HeldBy(d, m)' <=> HeldBy(d, m)
                             /\ Reported(d, m)' <=> Reported(d, m)
                             /\ Once(d, m)' <=> Once(d, m)
                             /\ Twice(d, m)' <=> Twice(d, m)
      BY <1>1 DEF HeldBy, Reported, Once, Twice
    <2>5. CASE m = k
      BY <1>4, <2>1, <2>2, <2>3, <2>4, <2>5 DEF Place
    <2>6. CASE m # k
      BY <1>4, <2>1, <2>2, <2>3, <2>4, <2>6 DEF Place
    <2> QED BY <2>5, <2>6
  <1>6. \E m \in Messages : Accepting(m)'
    BY <1>3 DEF Accepting
  <1> QED BY <1>1, <1>3, <1>4, <1>5, <1>6 DEF TakenInv, HeldBy

(* One more report, of a message that may have been reported before.       *)
LEMMA ReportMade ==
    ASSUME SocketTypeOK, NEW c \in Clients, NEW k \in Messages,
           reports' = [reports EXCEPT ![c] = Append(reports[c], k)]
    PROVE  /\ Len(reports[c]) \in Nat
           /\ Len(reports'[c]) = Len(reports[c]) + 1
           /\ DOMAIN reports'[c] = 1..(Len(reports[c]) + 1)
           /\ \A d \in Clients \ {c} : reports'[d] = reports[d]
           /\ DOMAIN reports[c] = 1..Len(reports[c])
           /\ \A i \in 1..Len(reports[c]) : reports'[c][i] = reports[c][i]
           /\ reports'[c][Len(reports[c]) + 1] = k
  <1>1. reports \in [Clients -> Seq(Messages)] /\ reports[c] \in Seq(Messages)
    BY DEF SocketTypeOK
  <1>2. reports'[c] = Append(reports[c], k) /\ \A d \in Clients \ {c} : reports'[d] = reports[d]
    BY <1>1
  <1> HIDE DEF Messages
  <1> QED BY <1>1, <1>2

LEMMA ReportAgain ==
    ASSUME NEW c \in Clients, NEW k \in Messages, NEW m \in Messages,
           Len(reports[c]) \in Nat,
           DOMAIN reports'[c] = 1..(Len(reports[c]) + 1),
           DOMAIN reports[c] = 1..Len(reports[c]),
           \A i \in 1..Len(reports[c]) : reports'[c][i] = reports[c][i],
           reports'[c][Len(reports[c]) + 1] = k
    PROVE  /\ m # k => /\ Reported(c, m)' <=> Reported(c, m)
                       /\ Once(c, m)' <=> Once(c, m)
                       /\ Twice(c, m)' <=> Twice(c, m)
           /\ Reported(c, k)'
           /\ ~Reported(c, k) => Once(c, k)'
           /\ Once(c, k) => Twice(c, k)'
  <1>1. /\ \A i \in DOMAIN reports'[c] :
              i \in DOMAIN reports[c] \/ (i = Len(reports[c]) + 1 /\ reports'[c][i] = k)
        /\ \A i \in DOMAIN reports[c] :
              i \in DOMAIN reports'[c] /\ reports'[c][i] = reports[c][i]
        /\ Len(reports[c]) + 1 \in DOMAIN reports'[c]
    OBVIOUS
  <1>2. ASSUME m # k PROVE /\ Reported(c, m)' <=> Reported(c, m)
                           /\ Once(c, m)' <=> Once(c, m)
                           /\ Twice(c, m)' <=> Twice(c, m)
    BY <1>1, <1>2 DEF Reported, Once, Twice
  <1>3. Reported(c, k)'
    BY <1>1 DEF Reported
  <1>4. ~Reported(c, k) => Once(c, k)'
    BY <1>1 DEF Reported, Once
  <1>5. Once(c, k) => Twice(c, k)'
    BY <1>1 DEF Once, Twice
  <1> QED BY <1>2, <1>3, <1>4, <1>5

(* A session reports what it has taken, as its own.                        *)
LEMMA TakenReport ==
    ASSUME SocketInv, TakenInv, NEW c \in Clients, SessionReports(c)
    PROVE  TakenInv'
  <1>1. /\ held[c] # <<>> /\ held' = [held EXCEPT ![c] = <<>>]
        /\ reports' = [reports EXCEPT ![c] = Append(reports[c], Head(held[c]))]
        /\ UNCHANGED <<setup, client, datagrams, accepted>>
    BY DEF SessionReports, clientVars, networkVars
  <1>2. Udp
    BY <1>1 DEF SocketInv, NetInv, TcpInv
  <1>3. PICK k \in Messages : held[c] = <<k>> /\ Head(held[c]) = k
    BY <1>1, <1>2 DEF TakenInv, HeldBy
  <1>4. held'[c] = <<>> /\ \A d \in Clients \ {c} : held'[d] = held[d]
    BY <1>1 DEF SocketInv, SocketTypeOK
  <1>5. reports' = [reports EXCEPT ![c] = Append(reports[c], k)]
    BY <1>1, <1>3
  <1>6. /\ Len(reports[c]) \in Nat /\ Len(reports'[c]) = Len(reports[c]) + 1
        /\ DOMAIN reports'[c] = 1..(Len(reports[c]) + 1)
        /\ \A d \in Clients \ {c} : reports'[d] = reports[d]
        /\ DOMAIN reports[c] = 1..Len(reports[c])
        /\ \A i \in 1..Len(reports[c]) : reports'[c][i] = reports[c][i]
        /\ reports'[c][Len(reports[c]) + 1] = k
    BY <1>5, ReportMade DEF SocketInv
  <1>7. ASSUME NEW m \in Messages PROVE Place(m)'
    <2>1. Place(m) /\ Place(k)
      BY <1>2 DEF TakenInv
    <2>2. \A d \in Clients : HeldBy(d, m)' <=> HeldBy(d, m) /\ d # c
      <3>1. ~HeldBy(c, m)'
        BY <1>4, <<m>> # <<>> DEF HeldBy
      <3>2. \A d \in Clients \ {c} : HeldBy(d, m)' <=> HeldBy(d, m)
        BY <1>4 DEF HeldBy
      <3> QED BY <3>1, <3>2
    <2>3. /\ Sent(m)' <=> Sent(m)
          /\ Accepting(m)' <=> Accepting(m)
          /\ Queued(m)' <=> Queued(m)
      BY <1>1 DEF Sent, Accepting, Queued
    <2>4. \A d \in Clients \ {c} : /\ Reported(d, m)' <=> Reported(d, m)
                                   /\ Once(d, m)' <=> Once(d, m)
                                   /\ Twice(d, m)' <=> Twice(d, m)
      BY <1>6 DEF Reported, Once, Twice
    <2>5. HeldBy(c, k) /\ \A d \in Clients : ~Reported(d, k)
      BY <1>3, <2>1 DEF HeldBy, Place
    <2>6. CASE m = k
      <3>1. Reported(c, m)' /\ Once(c, m)'
        BY <1>6, <2>5, <2>6, ReportAgain
      <3> QED BY <2>1, <2>2, <2>3, <2>4, <2>5, <2>6, <3>1 DEF Place
    <2>7. CASE m # k
      <3>1. /\ Reported(c, m)' <=> Reported(c, m)
            /\ Once(c, m)' <=> Once(c, m)
            /\ Twice(c, m)' <=> Twice(c, m)
        BY <1>6, <2>7, ReportAgain
      <3>2. \A d \in Clients : /\ Reported(d, m)' <=> Reported(d, m)
                               /\ Once(d, m)' <=> Once(d, m)
                               /\ Twice(d, m)' <=> Twice(d, m)
        BY <2>4, <3>1
      <3> QED BY <1>1, <2>1, <2>2, <2>3, <3>2 DEF Place
    <2> QED BY <2>6, <2>7
  <1>8. \A d \in Clients : held'[d] = <<>> \/ \E m \in Messages : HeldBy(d, m)'
    BY <1>2, <1>4 DEF TakenInv, HeldBy
  <1> QED BY <1>1, <1>2, <1>7, <1>8 DEF TakenInv, Distinct, Accepting

(* accept reports what it has taken, perhaps for the first of two times.   *)
LEMMA TakenAcceptReports ==
    ASSUME SocketInv, TakenInv, AcceptReports
    PROVE  TakenInv'
  <1>1. /\ accepted # <<>> /\ accepted' = Tail(accepted)
        /\ UNCHANGED <<setup, client, datagrams, held>>
    BY DEF AcceptReports, clientVars, networkVars
  <1>2. Udp
    BY <1>1 DEF SocketInv, NetInv, TcpInv
  <1>3. PICK k \in Messages : Accepting(k)
    BY <1>1, <1>2 DEF TakenInv
  <1>4. PICK c \in Clients : c = k.from
    BY DEF Messages
  <1>5. /\ Head(accepted) = k
        /\ accepted = <<k, k>> => accepted' = <<k>>
        /\ accepted = <<k>> => accepted' = <<>>
    <2>1. Head(<<k>>) = k /\ Head(<<k, k>>) = k
      OBVIOUS
    <2>2. Tail(<<k>>) = <<>> /\ Tail(<<k, k>>) = <<k>>
      OBVIOUS
    <2>3. accepted = <<k>> \/ accepted = <<k, k>>
      BY <1>3 DEF Accepting
    <2> QED BY <1>1, <2>1, <2>2, <2>3
  <1>6. reports' = [reports EXCEPT ![c] = Append(reports[c], k)]
    BY <1>4, <1>5 DEF AcceptReports
  <1>7. /\ Len(reports[c]) \in Nat /\ Len(reports'[c]) = Len(reports[c]) + 1
        /\ DOMAIN reports'[c] = 1..(Len(reports[c]) + 1)
        /\ \A d \in Clients \ {c} : reports'[d] = reports[d]
        /\ DOMAIN reports[c] = 1..Len(reports[c])
        /\ \A i \in 1..Len(reports[c]) : reports'[c][i] = reports[c][i]
        /\ reports'[c][Len(reports[c]) + 1] = k
    BY <1>6, ReportMade DEF SocketInv
  <1>8. ASSUME NEW m \in Messages PROVE Place(m)'
    <2>1. Place(m) /\ Place(k)
      BY <1>2 DEF TakenInv
    <2>2. Accepting(m)' => m = k /\ accepted = <<k, k>> /\ accepted' = <<k>>
      BY <1>3, <1>5 DEF Accepting
    <2>3. /\ Sent(m)' <=> Sent(m)
          /\ Queued(m)' <=> Queued(m)
          /\ \A d \in Clients : HeldBy(d, m)' <=> HeldBy(d, m)
      BY <1>1 DEF Sent, Queued, HeldBy
    <2>4. \A d \in Clients \ {c} : /\ Reported(d, m)' <=> Reported(d, m)
                                   /\ Once(d, m)' <=> Once(d, m)
                                   /\ Twice(d, m)' <=> Twice(d, m)
      BY <1>7 DEF Reported, Once, Twice
    <2>5. /\ Sent(k) /\ ~Queued(k) /\ \A d \in Clients : ~HeldBy(d, k)
          /\ \A d \in Clients : Reported(d, k) => d = c /\ accepted = <<k>> /\ Once(d, k)
      BY <1>3, <1>4, <2>1 DEF Place
    <2>6. CASE m = k
      <3>1. /\ Reported(c, m)'
            /\ ~Reported(c, m) => Once(c, m)'
            /\ Once(c, m) => Twice(c, m)'
        BY <1>7, <2>6, ReportAgain
      <3>2. \A d \in Clients : Reported(d, m)' => d = c
        BY <2>4, <2>5, <2>6
      <3>3. Once(c, m)' \/ Twice(c, m)'
        BY <2>5, <2>6, <3>1
      <3>4. accepted = <<k, k>> => ~Reported(c, k)
        BY <2>5, <<k, k>> # <<k>>
      <3>5. Accepting(m)' => Once(c, m)' /\ accepted' = <<m>>
        BY <2>2, <2>6, <3>1, <3>4
      <3> QED BY <1>4, <2>3, <2>5, <2>6, <3>1, <3>2, <3>3, <3>5 DEF Place
    <2>7. CASE m # k
      <3>1. /\ Reported(c, m)' <=> Reported(c, m)
            /\ Once(c, m)' <=> Once(c, m)
            /\ Twice(c, m)' <=> Twice(c, m)
        BY <1>7, <2>7, ReportAgain
      <3>2. \A d \in Clients : /\ Reported(d, m)' <=> Reported(d, m)
                               /\ Once(d, m)' <=> Once(d, m)
                               /\ Twice(d, m)' <=> Twice(d, m)
        BY <2>4, <3>1
      <3> QED BY <2>1, <2>2, <2>3, <2>7, <3>2 DEF Place
    <2> QED BY <2>6, <2>7
  <1>9. accepted' = <<>> \/ \E m \in Messages : Accepting(m)'
    <2>1. accepted' = <<>> \/ Accepting(k)'
      BY <1>3, <1>5 DEF Accepting
    <2> QED BY <2>1
  <1> QED BY <1>1, <1>2, <1>8, <1>9 DEF TakenInv, Distinct, HeldBy

(* The steps that take nothing.                                            *)
LEMMA OnwardStart ==
    ASSUME SocketInv, NEW c \in Clients, NEW d \in Clients, StartClient(c)
    PROVE  Onward(d)
  <1>1. client[c] \in Programs /\ client[d] \in Programs
    BY SocketTypes DEF SocketInv
  <1>2. client[c].times \in Nat /\ client[d].times \in Nat /\ client[d].sends \in Nat
    BY <1>1 DEF Programs
  <1>3. client' = [client EXCEPT ![c] = Fresh(client[c].times + 1)]
        /\ client \in [Clients -> Programs]
    BY DEF StartClient, SocketInv, SocketTypeOK, Programs
  <1>4. CASE d = c
    <2>1. client'[d].times = client[d].times + 1
      BY <1>3, <1>4 DEF Fresh
    <2> QED BY <1>2, <2>1 DEF Onward
  <1>5. CASE d # c
    BY <1>2, <1>3, <1>5 DEF Onward
  <1> QED BY <1>4, <1>5

LEMMA OnwardElse ==
    ASSUME SocketInv, NEW c \in Clients, NEW d \in Clients,
           Kill(c) \/ Foreign(c) \/ Connected(c) \/ Retry(c) \/ GiveUp(c) \/ Unwind(c)
           \/ Disconnect(c)
           \/ (\E l \in Loops : SendRaises(c, l) \/ Recv(c, l) \/ RecvRaises(c, l))
    PROVE  Onward(d) /\ UNCHANGED <<setup, datagrams>>
  <1>1. client[d] \in Programs /\ client \in [Clients -> Programs]
    BY SocketTypes DEF SocketInv, SocketTypeOK, Programs
  <1>2. client[d].times \in Nat /\ client[d].sends \in Nat
    BY <1>1 DEF Programs
  <1>3. client'[d].times = client[d].times /\ client'[d].sends = client[d].sends
    <2>1. CASE \E run : client' = [client EXCEPT ![c].run = run]
      BY <1>1, <2>1 DEF Programs
    <2>2. CASE Retry(c)
      BY <1>1, <2>2 DEF Retry, Programs
    <2>3. CASE Plain(c) \/ Handshake(c)
      BY <1>1, <2>3 DEF Plain, Handshake, Return, Programs
    <2>4. CASE client' = client
      BY <2>4
    <2>5. CASE HandshakeFails(c) \/ WrapFails(c) \/ GiveUp(c) \/ Disconnect(c)
      BY <2>1, <2>5 DEF HandshakeFails, WrapFails, GiveUp, Disconnect, End
    <2> QED BY <2>1, <2>2, <2>3, <2>4, <2>5
        DEF Kill, Foreign, Connected, Unwind, SendRaises, Recv, RecvRaises
  <1>4. UNCHANGED <<setup, datagrams>>
    BY DEF Kill, Foreign, Connected, Retry, GiveUp, Unwind, Plain, Handshake,
           HandshakeFails, WrapFails, Return, Disconnect, End, SendRaises, Recv,
           RecvRaises, networkVars
  <1> QED BY <1>2, <1>3, <1>4 DEF Onward

LEMMA TakenNext == SocketInv /\ SocketInv' /\ TakenInv /\ [Next]_socketVars => TakenInv'
  <1> SUFFICES ASSUME SocketInv, SocketTypeOK', TakenInv, [Next]_socketVars
               PROVE  TakenInv'
    BY DEF SocketInv
  <1>1. ASSUME UNCHANGED <<setup, client, accepted, held, reports>>,
               datagrams' = datagrams \/ datagrams' = <<>>
        PROVE  TakenInv'
    <2>1. ASSUME NEW d \in Clients PROVE Onward(d)
      <3>1. client[d].times \in Nat /\ client[d].sends \in Nat
        BY SocketTypes DEF SocketInv, Programs
      <3> QED BY <1>1, <3>1 DEF Onward
    <2> QED BY <1>1, <2>1, NothingTaken DEF SocketInv
  <1>2. CASE StartServer \/ AcceptTcp \/ AcceptRaises \/ Finish
    BY <1>1, <1>2 DEF StartServer, AcceptTcp, Accepted, AcceptRaises, Finish, CloseAll,
                      clientVars, networkVars
  <1>3. CASE AcceptUdp \/ AcceptReports
    BY <1>3, TakenAccept, TakenAcceptReports
  <1>4. ASSUME NEW c \in Clients, Session(c) PROVE TakenInv'
    <2>1. CASE SessionRecvOwn(c)
      BY <2>1 DEF SessionRecvOwn, TakenInv, Udp
    <2>2. CASE SessionSend(c)
      BY <1>1, <2>2 DEF SessionSend, serverVars
    <2> QED BY <1>4, <2>1, <2>2, TakenSession, TakenReport DEF Session, SessionRecv
  <1>5. ASSUME NEW c \in Clients, UNCHANGED serverVars,
               StartClient(c) \/ ClientStep(c) \/ Kill(c) \/ Foreign(c)
        PROVE  TakenInv'
    <2>1. UNCHANGED <<accepted, held, reports>>
      BY <1>5 DEF serverVars
    <2>2. CASE StartClient(c)
      <3>1. \A d \in Clients : Onward(d)
        BY <2>2, OnwardStart
      <3> QED BY <2>1, <2>2, <3>1, NothingTaken DEF StartClient, SocketInv
    <2>3. CASE \E l \in Loops : Send(c, l)
      BY <1>5, <2>3, TakenSend
    <2>4. CASE Kill(c) \/ Foreign(c) \/ Connected(c) \/ Retry(c) \/ GiveUp(c) \/ Unwind(c)
               \/ Disconnect(c)
               \/ (\E l \in Loops : SendRaises(c, l) \/ Recv(c, l) \/ RecvRaises(c, l))
      <3>1. \A d \in Clients : Onward(d)
        BY <2>4, OnwardElse
      <3>2. UNCHANGED <<setup, datagrams>>
        BY <2>4, OnwardElse
      <3> QED BY <2>1, <3>1, <3>2, NothingTaken DEF SocketInv
    <2> QED BY <1>5, <2>2, <2>3, <2>4 DEF ClientStep
  <1>6. CASE UNCHANGED socketVars
    BY <1>1, <1>6 DEF socketVars, clientVars, networkVars, serverVars
  <1> QED BY <1>2, <1>3, <1>4, <1>5, <1>6 DEF Next, Server, Accept

LEMMA TakenImplies == SocketInv /\ TakenInv => TakenOnce
  <1> SUFFICES ASSUME SocketInv, TakenInv, Udp, NEW c \in Clients, NEW d \in Clients
               PROVE  /\ \A i \in DOMAIN reports[c] :
                           /\ \A j \in DOMAIN datagrams : datagrams[j] # reports[c][i]
                           /\ <<reports[c][i]>> # held[d]
                           /\ \A j \in DOMAIN reports[d] : reports[c][i] = reports[d][j] =>
                                 c = d /\ (i = j \/ reports[c][i].from = c)
                           /\ \A j, k \in DOMAIN reports[c] : i < j /\ j < k =>
                                 \/ reports[c][i] # reports[c][j]
                                 \/ reports[c][j] # reports[c][k]
                      /\ held[c] # <<>> /\ held[c] = held[d] => c = d
    BY DEF TakenOnce
  <1>1. ASSUME held[c] # <<>>, held[c] = held[d] PROVE c = d
    <2>1. PICK m \in Messages : HeldBy(c, m)
      BY <1>1 DEF TakenInv
    <2> QED BY <1>1, <2>1 DEF TakenInv, Place, HeldBy
  <1>2. reports[c] \in Seq(Messages) /\ reports[d] \in Seq(Messages)
    BY SocketTypes DEF SocketInv
  <1>3. ASSUME NEW i \in DOMAIN reports[c]
        PROVE  /\ \A j \in DOMAIN datagrams : datagrams[j] # reports[c][i]
               /\ <<reports[c][i]>> # held[d]
               /\ \A j \in DOMAIN reports[d] : reports[c][i] = reports[d][j] =>
                     c = d /\ (i = j \/ reports[c][i].from = c)
               /\ \A j, k \in DOMAIN reports[c] : i < j /\ j < k =>
                     \/ reports[c][i] # reports[c][j]
                     \/ reports[c][j] # reports[c][k]
    <2>1. PICK m \in Messages : m = reports[c][i]
      BY <1>2
    <2>2. Reported(c, m) /\ Place(m)
      BY <2>1 DEF Reported, TakenInv
    <2>3. /\ ~Queued(m) /\ ~HeldBy(d, m)
          /\ Reported(d, m) => c = d
          /\ Once(c, m) \/ (c = m.from /\ Twice(c, m))
      BY <2>2 DEF Place
    <2>4. \A j \in DOMAIN datagrams : datagrams[j] # reports[c][i]
      BY <2>1, <2>3 DEF Queued
    <2>5. <<reports[c][i]>> # held[d]
      BY <2>1, <2>3 DEF HeldBy
    <2>6. ASSUME NEW j \in DOMAIN reports[d], reports[c][i] = reports[d][j]
          PROVE  c = d /\ (i = j \/ reports[c][i].from = c)
      <3>1. Reported(d, m) /\ c = d
        BY <2>1, <2>3, <2>6 DEF Reported
      <3> QED BY <2>1, <2>3, <2>6, <3>1 DEF Once
    <2>7. ASSUME NEW j \in DOMAIN reports[c], NEW k \in DOMAIN reports[c], i < j, j < k
          PROVE  reports[c][i] # reports[c][j] \/ reports[c][j] # reports[c][k]
      <3>1. i \in Nat /\ j \in Nat /\ k \in Nat
        BY <1>2
      <3>2. i # j /\ j # k /\ i # k
        BY <2>7, <3>1
      <3> QED BY <2>1, <2>3, <3>2 DEF Once, Twice
    <2> QED BY <2>4, <2>5, <2>6, <2>7
  <1> QED BY <1>1, <1>3

LEMMA TakenAlways == Spec => []TakenInv
  BY TakenInit, TakenNext, SocketAlways, PTL DEF Spec

-----------------------------------------------------------------------------
(* What a program has written while its TCP connection lasts is all there, *)
(* reported or to be read, though the address may have had a session       *)
(* before (server.py lines 41-68).                                         *)
THEOREM ConnectionsLoseNothing == Spec => []NothingLost
  BY SocketAlways, SocketKeepsAll, PTL

(* However many threads read the one UDP socket, a message is reported for *)
(* one session only, and twice only by accept for its sender's.            *)
THEOREM DatagramsAreTakenOnce == Spec => []TakenOnce
  BY SocketAlways, TakenAlways, TakenImplies, PTL
=============================================================================
