--------------------------- MODULE MessengerProofs ---------------------------
(***************************************************************************)
(* For any number of users and texts: the type invariant of the chat, that *)
(* of each sender a client shows an unbroken stretch of texts, that two    *)
(* clients agree on what a third has sent, that a thread that dies owes    *)
(* nobody a text, that the program implements Chat, and that whoever has a *)
(* session before a text is read misses neither it nor a later one.        *)
(*                                                                         *)
(* What a client that reads along has shown and what is on its way to it   *)
(* is one line of messages.  The invariant says where the line ends for    *)
(* each sender: at the last text its thread has read, or at the one before *)
(* the message the thread is sending around, if its loop has still to come *)
(* to the client.  New sessions are appended, so no loop misses one.       *)
(***************************************************************************)
EXTENDS Messenger, SequenceTheorems, WellFoundedInduction, TLAPS

(* What the server has sent to d, shown or on its way.                     *)
Line(d) == shown[d] \o toClient[d]

(* Consecutive messages of one sender fit together; the last of sender c   *)
(* ends with text n.                                                       *)
Chained(s) ==
    \A i, j \in DOMAIN s :
        /\ i < j /\ s[i].from = s[j].from
        /\ \A k \in (i + 1)..(j - 1) : s[k].from # s[i].from
        => s[j].first = s[i].last + 1

Ends(s, c, n) ==
    \A i \in DOMAIN s :
        s[i].from = c /\ (\A k \in (i + 1)..Len(s) : s[k].from # c) => s[i].last = n

(* The loop of c's thread has the session of d before it, or behind it.    *)
Sending(c) == receiver[c] = "sending"
Ahead(c, d) == Sending(c) /\ \E p \in DOMAIN sessions : next[c] <= p /\ sessions[p] = d
Passed(c, d) == Sending(c) /\ \E p \in DOMAIN sessions : p < next[c] /\ sessions[p] = d

(* An address has one session at most, and nothing is sent to a client     *)
(* before it has one; only a client whose window is closed is answered.    *)
Unique == \A p, q \in DOMAIN sessions : sessions[p] = sessions[q] => p = q

ThreadInv(c) ==
    /\ client[c] = "off" => receiver[c] = "none"
    /\ receiver[c] = "none" \/ accepting = c => ~Registered(c)
    /\ accepting = c => receiver[c] # "none"
    /\ ~Registered(c) => shown[c] = <<>> /\ toClient[c] = <<>>
    /\ exit[c] # "none" => client[c] \notin {"off", "on", "deaf"}
    /\ next[c] <= Len(sessions) + 1
    /\ Sending(c) => message[c] \in Messages(c) /\ message[c].last = read[c]

(* The line of a client that has read everything so far, and what it holds *)
(* of the texts of c: up to the last message the thread of c has read, or  *)
(* the last but one if the loop has still to come to d.                    *)
LineInv(d) == client[d] = "on" => toClient[d] \in Seq(AllMessages) /\ Chained(Line(d))

Earlier(c, m) ==
    /\ m.last <= read[c]
    /\ Sending(c) => m = message[c] \/ m.last < message[c].first

FlowInv(c, d) ==
    client[d] = "on" /\ receiver[c] # "died" =>
        /\ Ends(Line(d), c, IF Ahead(c, d) THEN message[c].first - 1 ELSE read[c])
        /\ \A m \in Handed(d) : m.from = c => c # d /\ Earlier(c, m)
        /\ Passed(c, d) /\ c # d => message[c] \in Handed(d)

(* What b got of d's messages, c gets too, once it got an earlier one.     *)
AgreeInv(b, c, d) ==
    client[b] = "on" /\ client[c] = "on" /\ receiver[d] # "died" =>
        \A m \in Handed(b) : \A e \in Handed(c) :
            m.from = d /\ e.from = d /\ e.first <= m.first =>
                m \in Handed(c) \/ (Ahead(d, c) /\ m = message[d])

(* All of it.                                                              *)
ChatTypes == MessengerTypeOK /\ typed \in [Users -> Nat] /\ read \in [Users -> Nat]

ChatInv ==
    /\ ChatTypes
    /\ Unique
    /\ \A c \in Users : ThreadInv(c) /\ LineInv(c) /\ Chained(shown[c])
    /\ \A c, d \in Users : FlowInv(c, d)
    /\ \A b, c, d \in Users : AgreeInv(b, c, d)

-----------------------------------------------------------------------------
(* Messages.                                                               *)
LEMMA MessageFields ==
    ASSUME NEW m \in AllMessages
    PROVE  /\ m.from \in Users /\ m \in Messages(m.from) /\ m # Bye
           /\ m.first \in Nat \ {0} /\ m.last \in Nat \ {0} /\ m.first <= m.last
  <1>1. PICK c \in Users : m \in Messages(c)
    BY DEF AllMessages
  <1>2. m.from = c /\ m.kind = "text" /\ m.first \in 1..Texts[c] /\ m.last \in 1..Texts[c]
        /\ m.first <= m.last
    BY <1>1 DEF Messages
  <1>3. Texts[c] \in Nat
    BY TextsAssumption
  <1> QED BY <1>1, <1>2, <1>3 DEF Bye

LEMMA NewMessage ==
    ASSUME NEW c \in Users, NEW a \in Nat, NEW n \in (a + 1)..Texts[c]
    PROVE  [kind |-> "text", from |-> c, first |-> a + 1, last |-> n] \in Messages(c)
  <1>1. Texts[c] \in Nat
    BY TextsAssumption
  <1> QED BY <1>1 DEF Messages

LEMMA MessagesOfUsers ==
    \A c \in Users : Messages(c) \subseteq AllMessages /\ Messages(c) \subseteq Packets
  BY DEF AllMessages, Packets

-----------------------------------------------------------------------------
(* Types.                                                                  *)
LEMMA ChatTypesInit == MessengerInit => ChatTypes
  <1> SUFFICES ASSUME MessengerInit PROVE ChatTypes
    OBVIOUS
  <1>1. ASSUME NEW c \in Users PROVE typed[c] \in 0..Texts[c] /\ read[c] \in 0..typed[c]
    <2>1. Texts[c] \in Nat /\ typed[c] = 0 /\ read[c] = 0
      BY TextsAssumption DEF MessengerInit
    <2> QED BY <2>1
  <1> QED BY <1>1 DEF MessengerInit, ChatTypes, MessengerTypeOK, ClientStates, ReceiverStates,
                      Packets

LEMMA ChatTypesClient ==
    ASSUME ChatTypes, NEW c \in Users, UserStep(c) \/ ClientReceive(c)
    PROVE  ChatTypes'
  <1>1. CASE Type(c)
    <2>1. /\ typed' = [typed EXCEPT ![c] = typed[c] + 1] /\ typed[c] < Texts[c]
          /\ UNCHANGED <<client, exit, read, toClient, shown, server, accepting, sessions,
                         receiver, message, next>>
      BY <1>1 DEF Type
    <2>2. typed \in [Users -> Nat] /\ read \in [Users -> Nat]
      BY DEF ChatTypes
    <2>3. ASSUME NEW d \in Users PROVE typed'[d] \in 0..Texts[d] /\ read[d] \in 0..typed'[d]
      <3>1. Texts[d] \in Nat /\ typed[d] \in 0..Texts[d] /\ read[d] \in 0..typed[d]
        BY TextsAssumption DEF ChatTypes, MessengerTypeOK
      <3>2. typed'[d] = IF d = c THEN typed[d] + 1 ELSE typed[d]
        BY <2>1, <2>2
      <3> QED BY <2>1, <3>1, <3>2
    <2>4. typed' \in [Users -> Nat]
      BY <2>1, <2>2
    <2> QED BY <2>1, <2>3, <2>4 DEF ChatTypes, MessengerTypeOK
  <1>2. CASE Connect(c) \/ CloseWindow(c) \/ Crash(c)
    BY <1>2 DEF ChatTypes, MessengerTypeOK, Connect, CloseWindow, Crash, ClientStates
  <1>3. CASE ClientReceive(c)
    <2>1. /\ toClient[c] \in Seq(Packets) /\ toClient[c] # <<>> /\ shown[c] \in Seq(AllMessages)
          /\ UNCHANGED <<typed, exit, read, server, accepting, sessions, receiver, message,
                         next>>
          /\ ChatTypes
      BY <1>3 DEF ChatTypes, MessengerTypeOK, ClientReceive
    <2>2. Head(toClient[c]) \in Packets /\ Tail(toClient[c]) \in Seq(Packets)
      BY <2>1, HeadTailProperties
    <2>3. CASE ShowNext(c)
      <3>1. /\ toClient' = [toClient EXCEPT ![c] = Tail(toClient[c])] /\ client' = client
            /\ shown' = [shown EXCEPT ![c] = Append(shown[c], Head(toClient[c]))]
            /\ Head(toClient[c]) \in AllMessages
        BY <2>2, <2>3 DEF ShowNext, Packets
      <3>2. Append(shown[c], Head(toClient[c])) \in Seq(AllMessages)
        BY <2>1, <3>1, AppendProperties
      <3> QED BY <2>1, <2>2, <3>1, <3>2 DEF ChatTypes, MessengerTypeOK
    <2>4. CASE ReadTogether(c)
      <3>1. PICK n \in 2..Len(toClient[c]) :
               toClient' = [toClient EXCEPT ![c] = SubSeq(toClient[c], n + 1, Len(toClient[c]))]
        BY <2>4 DEF ReadTogether
      <3>2. SubSeq(toClient[c], n + 1, Len(toClient[c])) \in Seq(Packets)
        <4>1. Len(toClient[c]) \in Nat /\ \A i \in 1..Len(toClient[c]) : toClient[c][i] \in Packets
          BY <2>1
        <4>2. n + 1 \in Int /\ Len(toClient[c]) \in Int
              /\ \A i \in (n + 1)..Len(toClient[c]) : toClient[c][i] \in Packets
          BY <4>1
        <4> QED BY <4>2, SubSeqProperties
      <3> QED BY <2>1, <2>4, <3>1, <3>2
          DEF ReadTogether, ChatTypes, MessengerTypeOK, ClientStates
    <2>5. CASE ReadClosing(c)
      <3>1. /\ toClient' = [toClient EXCEPT ![c] = Tail(toClient[c])] /\ shown' = shown
            /\ client' \in [Users -> ClientStates]
        BY <2>1, <2>5 DEF ReadClosing, ChatTypes, MessengerTypeOK, ClientStates
      <3> QED BY <2>1, <2>2, <3>1 DEF ChatTypes, MessengerTypeOK
    <2> QED BY <1>3, <2>3, <2>4, <2>5 DEF ClientReceive
  <1> QED BY <1>1, <1>2, <1>3 DEF UserStep

(* The thread of c takes its next session: which there is.                 *)
LEMMA SendTypes ==
    ASSUME ChatTypes, NEW x \in Users, NEW m \in Packets, SendTo(x, m)
    PROVE  /\ toClient' \in [Users -> Seq(Packets)]
           /\ toClient'[x] = Append(toClient[x], m)
           /\ \A d \in Users \ {x} : toClient'[d] = toClient[d]
  <1>1. Append(toClient[x], m) \in Seq(Packets)
    BY AppendProperties DEF ChatTypes, MessengerTypeOK
  <1> QED BY <1>1 DEF ChatTypes, MessengerTypeOK, SendTo

LEMMA ChatTypesReceiver ==
    ASSUME ChatTypes, NEW c \in Users, ReceiverThread(c)
    PROVE  ChatTypes'
  <1>1. CASE ReceiveText(c)
    <2>1. PICK n \in (read[c] + 1)..typed[c] :
             /\ read' = [read EXCEPT ![c] = n]
             /\ message' = [message EXCEPT ![c] =
                   [kind |-> "text", from |-> c, first |-> read[c] + 1, last |-> n]]
             /\ exit' \in [Users -> {"none", "sent", "read"}]
      BY <1>1 DEF ReceiveText, ChatTypes, MessengerTypeOK
    <2>2. /\ read[c] \in Nat /\ typed[c] \in Nat /\ Texts[c] \in Nat /\ typed[c] <= Texts[c]
          /\ n \in Nat /\ n <= typed[c]
      BY TextsAssumption DEF ChatTypes, MessengerTypeOK
    <2>3. n \in (read[c] + 1)..Texts[c]
      BY <2>2
    <2>4. message' \in [Users -> Packets]
      BY <2>1, <2>2, <2>3, NewMessage, MessagesOfUsers DEF ChatTypes, MessengerTypeOK
    <2>5. read' \in [Users -> Nat] /\ \A d \in Users : read'[d] \in 0..typed[d]
      BY <2>1, <2>2 DEF ChatTypes, MessengerTypeOK
    <2> QED BY <1>1, <2>1, <2>4, <2>5
        DEF ReceiveText, Become, ChatTypes, MessengerTypeOK, ReceiverStates
  <1>2. CASE ReceiveExit(c)
    <2>1. /\ exit' \in [Users -> {"none", "sent", "read"}]
          /\ receiver' \in [Users -> ReceiverStates]
          /\ UNCHANGED <<client, typed, read, shown, server, accepting, sessions, message,
                         next>>
      BY <1>2 DEF ReceiveExit, Become, ChatTypes, MessengerTypeOK, ReceiverStates
    <2>2. toClient' \in [Users -> Seq(Packets)]
      <3>1. Bye \in Packets /\ toClient \in [Users -> Seq(Packets)]
        BY DEF Packets, ChatTypes, MessengerTypeOK
      <3> QED BY <1>2, <3>1, SendTypes DEF ReceiveExit
    <2> QED BY <2>1, <2>2 DEF ChatTypes, MessengerTypeOK
  <1>3. CASE Hangup(c) \/ NoServer(c) \/ EndBroadcast(c)
    BY <1>3 DEF Hangup, NoServer, EndBroadcast, Become, ChatTypes, MessengerTypeOK, ReceiverStates
  <1>4. CASE Broadcast(c)
    <2>1. /\ UNCHANGED <<client, typed, exit, read, shown, server, accepting, sessions,
                         message>>
          /\ next[c] \in Nat \ {0} /\ next[c] <= Len(sessions) /\ sessions \in Seq(Users)
          /\ message[c] \in Packets
      BY <1>4 DEF Broadcast, ChatTypes, MessengerTypeOK
    <2>2. next[c] \in 1..Len(sessions) /\ next[c] + 1 \in Nat \ {0}
      BY <2>1
    <2>3. sessions[next[c]] \in Users
      BY <2>1, <2>2, ElementOfSeq
    <2>4. /\ toClient' \in [Users -> Seq(Packets)]
          /\ next' \in [Users -> Nat \ {0}] /\ receiver' \in [Users -> ReceiverStates]
      BY <1>4, <2>1, <2>2, <2>3, SendTypes
      DEF Broadcast, PassOwn, SendOn, SendFails, Become, ChatTypes, MessengerTypeOK,
          ReceiverStates
    <2> QED BY <2>1, <2>4 DEF ChatTypes, MessengerTypeOK
  <1> QED BY <1>1, <1>2, <1>3, <1>4 DEF ReceiverThread

LEMMA ChatTypesAccept ==
    ASSUME ChatTypes, AcceptThread
    PROVE  ChatTypes'
  <1>1. CASE Register
    <2>1. Append(sessions, accepting) \in Seq(Users)
      BY <1>1, AppendProperties DEF Register, ChatTypes, MessengerTypeOK
    <2> QED BY <1>1, <2>1 DEF Register, ChatTypes, MessengerTypeOK
  <1>2. ASSUME NEW c \in Users, Accept(c) PROVE ChatTypes'
    BY <1>2 DEF Accept, ChatTypes, MessengerTypeOK, ReceiverStates
  <1> QED BY <1>1, <1>2 DEF AcceptThread

LEMMA ChatTypesNext == ChatTypes /\ [MessengerNext]_messengerVars => ChatTypes'
  <1>1. ASSUME ChatTypes, UNCHANGED messengerVars \/ AssignServer PROVE ChatTypes'
    BY <1>1 DEF ChatTypes, MessengerTypeOK, messengerVars, AssignServer
  <1> QED BY <1>1, ChatTypesClient, ChatTypesReceiver, ChatTypesAccept DEF MessengerNext

(* Every variable holds a value of its kind.                               *)
THEOREM MessengerTyping == MessengerSpec => []MessengerTypeOK
  <1>1. MessengerSpec => []ChatTypes
    BY ChatTypesInit, ChatTypesNext, PTL DEF MessengerSpec
  <1>2. ChatTypes => MessengerTypeOK
    BY DEF ChatTypes
  <1> QED BY <1>1, <1>2, PTL

-----------------------------------------------------------------------------
(* Lines.                                                                  *)
LEMMA ConcatElements ==
    ASSUME NEW s \in Seq(AllMessages), NEW t \in Seq(AllMessages)
    PROVE  {(s \o t)[i] : i \in DOMAIN (s \o t)}
               = {s[i] : i \in DOMAIN s} \union {t[i] : i \in DOMAIN t}
  <1> DEFINE u == s \o t
  <1>1. /\ Len(s) \in Nat /\ Len(t) \in Nat
        /\ DOMAIN s = 1..Len(s) /\ DOMAIN t = 1..Len(t) /\ DOMAIN u = 1..(Len(s) + Len(t))
        /\ \A i \in 1..(Len(s) + Len(t)) : u[i] = IF i <= Len(s) THEN s[i] ELSE t[i - Len(s)]
    <2> HIDE DEF AllMessages
    <2> QED BY ConcatProperties, LenProperties
  <1> HIDE DEF u
  <1>2. \A i \in DOMAIN s : i \in DOMAIN u /\ u[i] = s[i]
    BY <1>1
  <1>3. \A i \in DOMAIN t : i + Len(s) \in DOMAIN u /\ u[i + Len(s)] = t[i]
    BY <1>1
  <1>4. \A i \in DOMAIN u :
           \/ i \in DOMAIN s /\ u[i] = s[i]
           \/ i - Len(s) \in DOMAIN t /\ u[i] = t[i - Len(s)]
    BY <1>1
  <1>5. {u[i] : i \in DOMAIN u} = {s[i] : i \in DOMAIN s} \union {t[i] : i \in DOMAIN t}
    BY <1>2, <1>3, <1>4
  <1> QED BY <1>5 DEF u

(* A message that goes on where the line of its sender ends.               *)
LEMMA Chaining ==
    ASSUME NEW s \in Seq(AllMessages), NEW m \in AllMessages, NEW t, t = Append(s, m),
           Chained(s), Ends(s, m.from, m.first - 1)
    PROVE  Chained(t)
  <1>1. /\ Len(s) \in Nat /\ DOMAIN s = 1..Len(s) /\ DOMAIN t = 1..(Len(s) + 1)
        /\ \A i \in 1..Len(s) : t[i] = s[i] /\ s[i] \in AllMessages
        /\ t[Len(s) + 1] = m /\ m.first \in Nat \ {0}
    <2>1. m.first \in Nat \ {0}
      BY MessageFields
    <2> HIDE DEF AllMessages
    <2> QED BY <2>1, AppendProperties, LenProperties, ElementOfSeq
  <1> SUFFICES ASSUME NEW i \in DOMAIN t, NEW j \in DOMAIN t, i < j, t[i].from = t[j].from,
                      \A k \in (i + 1)..(j - 1) : t[k].from # t[i].from
               PROVE  t[j].first = t[i].last + 1
    BY DEF Chained
  <1>2. i \in DOMAIN s /\ t[i] = s[i] /\ s[i].last \in Nat
    <2>1. i \in 1..Len(s)
      BY <1>1
    <2> QED BY <1>1, <2>1, MessageFields
  <1>3. CASE j \in DOMAIN s
    <2>1. t[j] = s[j] /\ \A k \in (i + 1)..(j - 1) : t[k] = s[k]
      BY <1>1, <1>2, <1>3
    <2>2. \A k \in (i + 1)..(j - 1) : s[k].from # s[i].from
      BY <1>2, <2>1
    <2> QED BY <1>2, <1>3, <2>1, <2>2 DEF Chained
  <1>4. CASE j \notin DOMAIN s
    <2>1. j = Len(s) + 1 /\ t[j] = m
      BY <1>1, <1>4
    <2>2. \A k \in (i + 1)..Len(s) : s[k].from # m.from
      BY <1>1, <1>2, <2>1
    <2>3. s[i].last = m.first - 1
      BY <1>2, <2>1, <2>2 DEF Ends
    <2> QED BY <1>1, <1>2, <2>1, <2>3
  <1> QED BY <1>3, <1>4

LEMMA Ending ==
    ASSUME NEW s \in Seq(AllMessages), NEW m \in AllMessages, NEW t, t = Append(s, m)
    PROVE  /\ Ends(t, m.from, m.last)
           /\ \A c, n : c # m.from /\ Ends(s, c, n) => Ends(t, c, n)
  <1>1. /\ Len(s) \in Nat /\ DOMAIN s = 1..Len(s) /\ DOMAIN t = 1..(Len(s) + 1)
        /\ Len(t) = Len(s) + 1
        /\ \A i \in 1..Len(s) : t[i] = s[i]
        /\ t[Len(s) + 1] = m
    <2> HIDE DEF AllMessages
    <2> QED BY AppendProperties, LenProperties
  <1>2. Ends(t, m.from, m.last)
    <2> SUFFICES ASSUME NEW i \in DOMAIN t, \A k \in (i + 1)..Len(t) : t[k].from # m.from
                 PROVE  t[i].last = m.last
      BY DEF Ends
    <2>1. CASE i = Len(s) + 1
      BY <1>1, <2>1
    <2>2. CASE i # Len(s) + 1
      <3>1. Len(s) + 1 \in (i + 1)..Len(t)
        BY <1>1, <2>2
      <3> QED BY <1>1, <3>1
    <2> QED BY <2>1, <2>2
  <1>3. ASSUME NEW c, NEW n, c # m.from, Ends(s, c, n) PROVE Ends(t, c, n)
    <2> SUFFICES ASSUME NEW i \in DOMAIN t, t[i].from = c,
                        \A k \in (i + 1)..Len(t) : t[k].from # c
                 PROVE  t[i].last = n
      BY DEF Ends
    <2>1. i \in DOMAIN s /\ t[i] = s[i]
      <3>1. i # Len(s) + 1
        BY <1>1, <1>3
      <3> QED BY <1>1, <3>1
    <2>2. \A k \in (i + 1)..Len(s) : s[k].from # c
      BY <1>1, <2>1
    <2> QED BY <1>3, <2>1, <2>2 DEF Ends
  <1> QED BY <1>2, <1>3

LEMMA Beginning ==
    ASSUME NEW s \in Seq(AllMessages), NEW t \in Seq(AllMessages), Chained(s \o t)
    PROVE  Chained(s)
  <1> DEFINE u == s \o t
  <1>1. /\ Len(s) \in Nat /\ Len(t) \in Nat /\ DOMAIN s = 1..Len(s)
        /\ DOMAIN u = 1..(Len(s) + Len(t)) /\ \A i \in 1..Len(s) : u[i] = s[i]
    <2> HIDE DEF AllMessages
    <2> QED BY ConcatProperties, LenProperties
  <1>2. Chained(u)
    OBVIOUS
  <1> HIDE DEF u
  <1> SUFFICES ASSUME NEW i \in DOMAIN s, NEW j \in DOMAIN s, i < j, s[i].from = s[j].from,
                      \A k \in (i + 1)..(j - 1) : s[k].from # s[i].from
               PROVE  s[j].first = s[i].last + 1
    BY DEF Chained
  <1>3. /\ i \in DOMAIN u /\ j \in DOMAIN u /\ u[i] = s[i] /\ u[j] = s[j]
        /\ \A k \in (i + 1)..(j - 1) : u[k] = s[k]
    BY <1>1
  <1>4. \A k \in (i + 1)..(j - 1) : u[k].from # u[i].from
    BY <1>3
  <1> QED BY <1>2, <1>3, <1>4 DEF Chained

(* What SendTo and ShowNext do to a line.                                  *)
LEMMA AppendBehind ==
    ASSUME NEW S, NEW s \in Seq(S), NEW t \in Seq(S), NEW m \in S
    PROVE  s \o Append(t, m) = Append(s \o t, m)
  <1>1. <<m>> \in Seq(S)
    OBVIOUS
  <1>2. PICK u \in Seq(S) : u = <<m>>
    BY <1>1
  <1>3. Append(t, m) = t \o u
    BY <1>2, AppendIsConcat
  <1>4. s \o t \in Seq(S)
    BY ConcatProperties
  <1>5. Append(s \o t, m) = (s \o t) \o u
    BY <1>2, <1>4, AppendIsConcat
  <1> QED BY <1>3, <1>5, ConcatAssociative

LEMMA MoveHead ==
    ASSUME NEW S, NEW s \in Seq(S), NEW t \in Seq(S), t # <<>>
    PROVE  Append(s, Head(t)) \o Tail(t) = s \o t
  <1>1. /\ Head(t) \in S /\ Tail(t) \in Seq(S) /\ Len(Tail(t)) = Len(t) - 1
        /\ Len(t) \in Nat \ {0} /\ \A i \in 1..Len(Tail(t)) : Tail(t)[i] = t[i + 1]
    BY HeadTailProperties, EmptySeq
  <1>2. <<Head(t)>> \in Seq(S)
    BY <1>1
  <1>3. PICK h \in S, u \in Seq(S), r \in Seq(S) : h = Head(t) /\ u = <<h>> /\ r = Tail(t)
    BY <1>1, <1>2
  <1>4. Append(s, h) = s \o u
    BY <1>3, AppendIsConcat
  <1>5. t = u \o r
    <2>1. Len(u) = 1 /\ u[1] = t[1] /\ Len(r) \in Nat /\ Len(t) = Len(r) + 1
      BY <1>1, <1>3
    <2>2. /\ u \o r \in Seq(S) /\ Len(u \o r) = Len(u) + Len(r)
          /\ \A i \in 1..Len(u) + Len(r) :
                (u \o r)[i] = IF i <= Len(u) THEN u[i] ELSE r[i - Len(u)]
      BY ConcatProperties
    <2>3. ASSUME NEW i \in 1..Len(t) PROVE (u \o r)[i] = t[i]
      <3>1. CASE i = 1
        BY <2>1, <2>2, <3>1
      <3>2. CASE i # 1
        <4>1. i - 1 \in 1..Len(r) /\ (i - 1) + 1 = i /\ ~(i <= 1)
          BY <2>1, <3>2
        <4>2. r[i - 1] = t[i]
          BY <1>1, <1>3, <4>1
        <4> QED BY <2>1, <2>2, <4>1, <4>2
      <3> QED BY <3>1, <3>2
    <2> QED BY <2>1, <2>2, <2>3, SeqEqual
  <1>6. (s \o u) \o r = s \o (u \o r)
    BY ConcatAssociative
  <1> QED BY <1>3, <1>4, <1>5, <1>6

LEMMA LineGrows ==
    ASSUME NEW d \in Users, NEW m \in AllMessages, shown' = shown,
           shown[d] \in Seq(AllMessages), toClient[d] \in Seq(AllMessages),
           toClient'[d] = Append(toClient[d], m)
    PROVE  /\ toClient'[d] \in Seq(AllMessages)
           /\ Line(d)' = Append(Line(d), m)
           /\ Handed(d)' = Handed(d) \union {m}
  <1> HIDE DEF AllMessages
  <1>1. toClient'[d] \in Seq(AllMessages)
    BY AppendProperties
  <1>2. Line(d)' = Append(Line(d), m)
    <2>1. shown[d] \o Append(toClient[d], m) = Append(shown[d] \o toClient[d], m)
      <3>1. PICK s \in Seq(AllMessages), t \in Seq(AllMessages) : s = shown[d] /\ t = toClient[d]
        OBVIOUS
      <3>2. s \o Append(t, m) = Append(s \o t, m)
        BY AppendBehind
      <3> QED BY <3>1, <3>2
    <2> QED BY <2>1 DEF Line
  <1>3. \A x : (\E i \in DOMAIN toClient'[d] : x = toClient'[d][i])
               <=> x = m \/ \E i \in DOMAIN toClient[d] : x = toClient[d][i]
    <2>1. /\ Len(toClient[d]) \in Nat /\ DOMAIN toClient[d] = 1..Len(toClient[d])
          /\ DOMAIN toClient'[d] = 1..(Len(toClient[d]) + 1)
          /\ \A i \in 1..Len(toClient[d]) : toClient'[d][i] = toClient[d][i]
          /\ toClient'[d][Len(toClient[d]) + 1] = m
      BY AppendProperties, LenProperties
    <2>2. \A i \in DOMAIN toClient'[d] : i \in DOMAIN toClient[d] \/ i = Len(toClient[d]) + 1
      BY <2>1
    <2>3. \A i \in DOMAIN toClient[d] : i \in DOMAIN toClient'[d]
      BY <2>1
    <2>4. Len(toClient[d]) + 1 \in DOMAIN toClient'[d]
      BY <2>1
    <2> QED BY <2>1, <2>2, <2>3, <2>4
  <1>4. Handed(d)' = Handed(d) \union {m}
    BY <1>3 DEF Handed
  <1> QED BY <1>1, <1>2, <1>4

LEMMA LineShown ==
    ASSUME NEW d \in Users, shown[d] \in Seq(AllMessages), toClient[d] \in Seq(AllMessages),
           toClient[d] # <<>>, toClient'[d] = Tail(toClient[d]),
           shown'[d] = Append(shown[d], Head(toClient[d]))
    PROVE  /\ shown'[d] \in Seq(AllMessages) /\ toClient'[d] \in Seq(AllMessages)
           /\ Line(d)' = Line(d)
           /\ Handed(d)' = Handed(d)
  <1>1. Head(toClient[d]) \in AllMessages /\ toClient'[d] \in Seq(AllMessages)
    BY HeadTailProperties
  <1>2. shown'[d] \in Seq(AllMessages)
    BY <1>1, AppendProperties
  <1>3. Line(d)' = Line(d)
    BY MoveHead DEF Line
  <1>4. /\ Handed(d) = {Line(d)[i] : i \in DOMAIN Line(d)}
        /\ Handed(d)' = {Line(d)'[i] : i \in DOMAIN Line(d)'}
    BY <1>1, <1>2, ConcatElements DEF Handed, Line
  <1> QED BY <1>1, <1>2, <1>3, <1>4

-----------------------------------------------------------------------------
(* The initial states, and clients that are not there yet.                 *)
LEMMA ChatInit == MessengerInit => ChatInv
  <1> SUFFICES ASSUME MessengerInit PROVE ChatInv
    OBVIOUS
  <1>1. ChatTypes
    BY ChatTypesInit
  <1>2. /\ sessions = <<>> /\ accepting = NoOne /\ NoOne \notin Users
        /\ \A c \in Users : /\ client[c] = "off" /\ receiver[c] = "none" /\ exit[c] = "none"
                            /\ shown[c] = <<>> /\ toClient[c] = <<>> /\ next[c] = 1
    BY NoOneAssumption DEF MessengerInit
  <1>3. Unique /\ \A c \in Users : ~Registered(c)
    BY <1>2 DEF Unique, Registered
  <1>4. ASSUME NEW c \in Users PROVE ThreadInv(c) /\ LineInv(c) /\ Chained(shown[c])
    <2>1. ThreadInv(c)
      BY <1>2, <1>3 DEF ThreadInv, Sending
    <2> QED BY <1>2, <2>1 DEF LineInv, Chained
  <1> QED BY <1>1, <1>2, <1>3, <1>4 DEF ChatInv, FlowInv, AgreeInv

LEMMA TypeFacts ==
    ASSUME ChatTypes
    PROVE  /\ client \in [Users -> ClientStates] /\ receiver \in [Users -> ReceiverStates]
           /\ exit \in [Users -> {"none", "sent", "read"}]
           /\ toClient \in [Users -> Seq(Packets)] /\ shown \in [Users -> Seq(AllMessages)]
           /\ typed \in [Users -> Nat] /\ read \in [Users -> Nat]
           /\ next \in [Users -> Nat \ {0}] /\ message \in [Users -> Packets]
           /\ sessions \in Seq(Users) /\ Len(sessions) \in Nat
           /\ DOMAIN sessions = 1..Len(sessions)
  BY DEF ChatTypes, MessengerTypeOK

LEMMA OffEmpty ==
    ASSUME ChatInv, NEW d \in Users, client[d] = "off" \/ ~Registered(d)
    PROVE  Line(d) = <<>> /\ Handed(d) = {} /\ ~Registered(d)
  <1>1. ~Registered(d) /\ shown[d] = <<>> /\ toClient[d] = <<>>
    BY DEF ChatInv, ThreadInv
  <1> QED BY <1>1 DEF Line, Handed

LEMMA OnLine ==
    ASSUME ChatInv, NEW d \in Users, client[d] = "on"
    PROVE  /\ shown[d] \in Seq(AllMessages) /\ toClient[d] \in Seq(AllMessages)
           /\ Line(d) \in Seq(AllMessages) /\ Handed(d) \subseteq AllMessages
  <1>1. shown[d] \in Seq(AllMessages) /\ toClient[d] \in Seq(AllMessages)
    BY TypeFacts DEF ChatInv, LineInv
  <1>2. Line(d) \in Seq(AllMessages)
    BY <1>1, ConcatProperties DEF Line
  <1>3. Handed(d) \subseteq AllMessages
    BY <1>1 DEF Handed
  <1> QED BY <1>1, <1>2, <1>3

-----------------------------------------------------------------------------
(* Steps that move no loop on: the clients that read along have the same   *)
(* lines as before, or are new; threads begin and end reading or die.      *)
OnSame(d) ==
    client'[d] = "on" =>
        /\ client[d] \in {"on", "off"}
        /\ toClient'[d] \in Seq(AllMessages)
        /\ Line(d)' = Line(d) /\ Handed(d)' = Handed(d)

PhaseSame(c) ==
    \/ receiver'[c] = receiver[c]
    \/ receiver'[c] = "died"
    \/ {receiver[c], receiver'[c]} \subseteq {"none", "reading", "ended"}

(* How the line of d and the loop of c's thread go on together: the loop   *)
(* stays where it is to d, and the line as it is or with another sender's  *)
(* message behind it; or the thread reads; or d gets what it sends.        *)
LoopStays(c, d) ==
    receiver'[c] # "died" =>
        /\ receiver[c] # "died" /\ read'[c] = read[c]
        /\ Ahead(c, d)' <=> Ahead(c, d)
        /\ Ahead(c, d) => message'[c] = message[c]

Advances(c, d) ==
    \/ LoopStays(c, d) /\ Line(d)' = Line(d)
    \/ LoopStays(c, d) /\ \E m \in AllMessages : m.from # c /\ Line(d)' = Append(Line(d), m)
    \/ /\ receiver[c] # "died" /\ ~Ahead(c, d) /\ Ahead(c, d)'
       /\ message'[c].first = read[c] + 1 /\ Line(d)' = Line(d)
    \/ /\ receiver[c] # "died" /\ Ahead(c, d)
       /\ \E m \in AllMessages : m = message[c] /\ m.from = c /\ Line(d)' = Append(Line(d), m)

AllAdvance ==
    \A c, d \in Users :
        c # d /\ Registered(d) /\ client[d] = "on" /\ client'[d] = "on" => Advances(c, d)

LEMMA LoopSame ==
    ASSUME NEW c \in Users, NEW d \in Users, PhaseSame(c), receiver'[c] # "died",
           UNCHANGED <<read, sessions, message, next>>
    PROVE  /\ Sending(c)' <=> Sending(c)
           /\ Ahead(c, d)' <=> Ahead(c, d)
           /\ Passed(c, d)' <=> Passed(c, d)
           /\ \A m : Earlier(c, m)' <=> Earlier(c, m)
           /\ receiver[c] # "died" \/ receiver[c] = receiver'[c]
  <1>1. Sending(c)' <=> Sending(c)
    BY DEF PhaseSame, Sending
  <1> QED BY <1>1 DEF Ahead, Passed, Earlier, PhaseSame

LEMMA FlowKeeps ==
    ASSUME ChatInv, NEW c \in Users, NEW d \in Users, OnSame(d), PhaseSame(c),
           UNCHANGED <<read, sessions, message, next>>
    PROVE  FlowInv(c, d)'
  <1> SUFFICES ASSUME client'[d] = "on", receiver'[c] # "died"
               PROVE  /\ Ends(Line(d), c, IF Ahead(c, d) THEN message[c].first - 1 ELSE read[c])'
                      /\ \A m \in Handed(d)' : m.from = c => c # d /\ Earlier(c, m)'
                      /\ (Passed(c, d) /\ c # d => message[c] \in Handed(d))'
    BY DEF FlowInv
  <1>1. /\ Ahead(c, d)' <=> Ahead(c, d)
        /\ Passed(c, d)' <=> Passed(c, d)
        /\ \A m : Earlier(c, m)' <=> Earlier(c, m)
        /\ receiver[c] # "died" \/ receiver[c] = receiver'[c]
    BY LoopSame
  <1>2. Line(d)' = Line(d) /\ Handed(d)' = Handed(d) /\ client[d] \in {"on", "off"}
    BY DEF OnSame
  <1>3. CASE client[d] = "on"
    <2>1. /\ Ends(Line(d), c, IF Ahead(c, d) THEN message[c].first - 1 ELSE read[c])
          /\ \A m \in Handed(d) : m.from = c => c # d /\ Earlier(c, m)
          /\ Passed(c, d) /\ c # d => message[c] \in Handed(d)
      BY <1>1, <1>3 DEF ChatInv, FlowInv
    <2> QED BY <1>1, <1>2, <2>1 DEF Ends
  <1>4. CASE client[d] = "off"
    <2>1. Line(d) = <<>> /\ Handed(d) = {} /\ ~Registered(d)
      BY <1>4, OffEmpty
    <2>2. ~Passed(c, d)
      BY <2>1 DEF Passed, Registered
    <2> QED BY <1>1, <1>2, <2>1, <2>2 DEF Ends
  <1> QED BY <1>2, <1>3, <1>4

LEMMA AgreeKeeps ==
    ASSUME ChatInv, NEW b \in Users, NEW c \in Users, NEW d \in Users,
           OnSame(b), OnSame(c), PhaseSame(d),
           UNCHANGED <<read, sessions, message, next>>
    PROVE  AgreeInv(b, c, d)'
  <1> SUFFICES ASSUME client'[b] = "on", client'[c] = "on", receiver'[d] # "died",
                      NEW m \in Handed(b)', NEW e \in Handed(c)',
                      m.from = d, e.from = d, e.first <= m.first
               PROVE  m \in Handed(c)' \/ (Ahead(d, c)' /\ m = message'[d])
    BY DEF AgreeInv
  <1>1. /\ m \in Handed(b) /\ e \in Handed(c) /\ Handed(c)' = Handed(c)
        /\ client[b] \in {"on", "off"} /\ client[c] \in {"on", "off"}
    BY DEF OnSame
  <1>2. client[b] = "on" /\ client[c] = "on"
    BY <1>1, OffEmpty
  <1>3. (Ahead(d, c)' <=> Ahead(d, c)) /\ receiver[d] # "died"
    BY LoopSame
  <1>4. m \in Handed(c) \/ (Ahead(d, c) /\ m = message[d])
    BY <1>1, <1>2, <1>3 DEF ChatInv, AgreeInv
  <1> QED BY <1>1, <1>3, <1>4

LEMMA StreamsKeep ==
    ASSUME ChatInv, ChatTypes', \A c \in Users : OnSame(c) /\ PhaseSame(c),
           \A c \in Users : ThreadInv(c)', \A c \in Users : Chained(shown[c])',
           UNCHANGED <<read, sessions, message, next>>
    PROVE  ChatInv' /\ AllAdvance
  <1>1. ASSUME NEW d \in Users PROVE LineInv(d)'
    <2> SUFFICES ASSUME client'[d] = "on" PROVE (toClient[d] \in Seq(AllMessages) /\ Chained(Line(d)))'
      BY DEF LineInv
    <2>1. /\ toClient'[d] \in Seq(AllMessages) /\ Line(d)' = Line(d)
          /\ client[d] \in {"on", "off"}
      BY DEF OnSame
    <2>2. CASE client[d] = "on"
      BY <2>1, <2>2 DEF ChatInv, LineInv, Chained
    <2>3. CASE client[d] = "off"
      BY <2>1, <2>3, OffEmpty DEF Chained
    <2> QED BY <2>1, <2>2, <2>3
  <1>2. Unique'
    BY DEF ChatInv, Unique
  <1>3. ASSUME NEW c \in Users, NEW d \in Users, client'[d] = "on" PROVE Advances(c, d)
    <2>1. LoopStays(c, d)
      BY LoopSame DEF LoopStays
    <2>2. Line(d)' = Line(d)
      BY <1>3 DEF OnSame
    <2> QED BY <2>1, <2>2 DEF Advances
  <1> QED BY <1>1, <1>2, <1>3, FlowKeeps, AgreeKeeps DEF ChatInv, AllAdvance

(* Clients.                                                                *)
LEMMA UserInv ==
    ASSUME ChatInv, NEW c \in Users, UserStep(c)
    PROVE  ChatInv' /\ AllAdvance
  <1>1. /\ client' \in [Users -> ClientStates]
        /\ \A d \in Users : client'[d] = client[d]
                            \/ (d = c /\ client'[d] \in {"on", "closing", "gone"})
        /\ \A d \in Users : client'[d] = "on" => client[d] \in {"on", "off"}
        /\ \A d \in Users : exit'[d] = exit[d]
                            \/ (d = c /\ client'[d] \in {"closing", "gone"})
        /\ client'[c] = "on" => exit'[c] = exit[c]
        /\ client[c] = "off" => client'[c] = "on"
        /\ client[c] \in {"closing", "stuck"} => client'[c] = "gone"
        /\ UNCHANGED <<read, toClient, shown, accepting, sessions, receiver, message, next>>
    BY TypeFacts
    DEF UserStep, Connect, Type, CloseWindow, Crash, ChatInv, ClientStates
  <1>2. ChatTypes'
    BY ChatTypesClient DEF ChatInv
  <1>3. ASSUME NEW d \in Users PROVE ThreadInv(d)'
    BY <1>1 DEF ChatInv, ThreadInv, Registered, Sending
  <1>4. ASSUME NEW d \in Users PROVE OnSame(d) /\ PhaseSame(d)
    <2>1. client[d] \in {"on", "off"} => toClient[d] \in Seq(AllMessages)
      <3>1. client[d] = "off" => toClient[d] = <<>>
        BY DEF ChatInv, ThreadInv
      <3>2. client[d] = "on" => toClient[d] \in Seq(AllMessages)
        BY DEF ChatInv, LineInv
      <3>3. <<>> \in Seq(AllMessages)
        BY EmptySeq
      <3> QED BY <3>1, <3>2, <3>3
    <2>2. client'[d] = "on" => client[d] \in {"on", "off"}
      BY <1>1
    <2>3. Line(d)' = Line(d) /\ Handed(d)' = Handed(d)
      BY <1>1 DEF Line, Handed
    <2> QED BY <1>1, <2>1, <2>2, <2>3 DEF OnSame, PhaseSame
  <1>5. ASSUME NEW d \in Users PROVE Chained(shown[d])'
    BY <1>1 DEF ChatInv, Chained
  <1> QED BY <1>1, <1>2, <1>3, <1>4, <1>5, StreamsKeep

LEMMA ClientReceiveInv ==
    ASSUME ChatInv, NEW c \in Users, ClientReceive(c)
    PROVE  ChatInv' /\ AllAdvance
  <1>1. /\ client[c] \in {"on", "closing"} /\ toClient[c] # <<>>
        /\ UNCHANGED <<typed, exit, read, accepting, sessions, receiver, message, next>>
        /\ ChatTypes /\ Registered(c)
    BY DEF ClientReceive, ChatInv, ThreadInv
  <1>2. /\ \A d \in Users \ {c} : /\ client'[d] = client[d] /\ shown'[d] = shown[d]
                                  /\ toClient'[d] = toClient[d]
        /\ client'[c] # "off" /\ (client'[c] \in {"on", "deaf"} => client[c] = "on")
    BY <1>1, TypeFacts DEF ClientReceive, ShowNext, ReadTogether, ReadClosing, ClientStates
  <1>3. ChatTypes'
    BY ChatTypesClient DEF ChatInv
  <1>4. ASSUME NEW d \in Users PROVE ThreadInv(d)'
    <2>1. CASE d = c
      BY <1>1, <1>2, <2>1 DEF ChatInv, ThreadInv, Registered, Sending
    <2>2. CASE d # c
      BY <1>1, <1>2, <2>2 DEF ChatInv, ThreadInv, Registered, Sending
    <2> QED BY <2>1, <2>2
  <1>5. client'[c] = "on" => ShowNext(c) /\ client[c] = "on"
    BY <1>1, TypeFacts DEF ClientReceive, ShowNext, ReadTogether, ReadClosing, ClientStates
  <1>6. ASSUME client'[c] = "on"
        PROVE  /\ toClient'[c] \in Seq(AllMessages)
               /\ Line(c)' = Line(c) /\ Handed(c)' = Handed(c) /\ Chained(shown[c])'
    <2>1. /\ toClient[c] \in Seq(AllMessages) /\ shown[c] \in Seq(AllMessages)
          /\ Chained(Line(c))
      BY <1>1, <1>5, <1>6, TypeFacts DEF ChatInv, LineInv
    <2>2. toClient'[c] = Tail(toClient[c]) /\ shown'[c] = Append(shown[c], Head(toClient[c]))
      BY <1>1, <1>5, <1>6, TypeFacts DEF ShowNext
    <2>3. /\ shown'[c] \in Seq(AllMessages) /\ toClient'[c] \in Seq(AllMessages)
          /\ Line(c)' = Line(c) /\ Handed(c)' = Handed(c)
      BY <1>1, <2>1, <2>2, LineShown
    <2>4. Chained(shown'[c])
      BY <2>1, <2>3, Beginning DEF Line
    <2> QED BY <2>3, <2>4 DEF Chained
  <1>7. ASSUME NEW d \in Users PROVE OnSame(d) /\ PhaseSame(d)
    <2>1. CASE d = c
      BY <1>1, <1>5, <1>6, <2>1 DEF OnSame, PhaseSame
    <2>2. CASE d # c
      <3>1. client[d] = "on" => toClient[d] \in Seq(AllMessages)
        BY DEF ChatInv, LineInv
      <3>2. client[d] = "off" => toClient[d] = <<>>
        BY DEF ChatInv, ThreadInv
      <3> QED BY <1>1, <1>2, <2>2, <3>1, <3>2 DEF OnSame, PhaseSame, Line, Handed
    <2> QED BY <2>1, <2>2
  <1>8. ASSUME NEW d \in Users PROVE Chained(shown[d])'
    <2>1. CASE d # c
      BY <1>2, <2>1 DEF ChatInv, Chained
    <2>2. CASE d = c /\ client'[c] # "on"
      <3>1. shown' = shown
        BY <1>1, <2>2, TypeFacts DEF ClientReceive, ShowNext, ReadTogether, ReadClosing
      <3> QED BY <3>1 DEF ChatInv, Chained
    <2> QED BY <1>6, <2>1, <2>2
  <1> QED BY <1>1, <1>3, <1>4, <1>7, <1>8, StreamsKeep

(* Threads that begin, end or die.                                         *)
LEMMA QuietThreadInv ==
    ASSUME ChatInv, NEW c \in Users,
           \/ Accept(c) \/ ReceiveExit(c) \/ Hangup(c) \/ NoServer(c)
           \/ Broadcast(c) /\ SendFails(c)
    PROVE  ChatInv' /\ AllAdvance
  <1>1. /\ UNCHANGED <<client, read, shown, sessions, message, next>>
        /\ \A d \in Users \ {c} : /\ receiver'[d] = receiver[d] /\ toClient'[d] = toClient[d]
                                  /\ exit'[d] = exit[d]
        /\ exit'[c] # "none" => exit[c] # "none"
        /\ toClient'[c] # toClient[c] => exit[c] # "none" /\ Registered(c)
        /\ receiver'[c] \in {"reading", "ended", "died"}
        /\ receiver'[c] = "reading" => client[c] # "off"
        /\ receiver[c] = "none" => accepting' = c /\ client[c] # "off"
        /\ \/ accepting' = accepting
           \/ accepting' = c /\ receiver[c] = "none"
        /\ \/ receiver'[c] = "died"
           \/ {receiver[c], receiver'[c]} \subseteq {"none", "reading", "ended"}
    <2>1. ChatTypes
      BY DEF ChatInv
    <2> QED BY <2>1, TypeFacts
        DEF Accept, ReceiveExit, Hangup, NoServer, Broadcast, SendFails, Become, SendTo
  <1>2. ChatTypes'
    BY ChatTypesAccept, ChatTypesReceiver DEF AcceptThread, ReceiverThread, ChatInv
  <1>3. ASSUME NEW d \in Users PROVE ThreadInv(d)'
    <2>1. Registered(d)' <=> Registered(d)
      BY <1>1 DEF Registered
    <2>2. CASE d = c
      BY <1>1, <2>1, <2>2 DEF ChatInv, ThreadInv, Sending
    <2>3. CASE d # c
      BY <1>1, <2>1, <2>3 DEF ChatInv, ThreadInv, Sending
    <2> QED BY <2>2, <2>3
  <1>4. ASSUME NEW d \in Users PROVE OnSame(d) /\ PhaseSame(d)
    <2>1. PhaseSame(d)
      BY <1>1 DEF PhaseSame
    <2>2. ASSUME client'[d] = "on" PROVE toClient'[d] = toClient[d]
      BY <1>1, <2>2 DEF ChatInv, ThreadInv
    <2> QED BY <1>1, <2>1, <2>2 DEF OnSame, Line, Handed, ChatInv, LineInv
  <1>5. ASSUME NEW d \in Users PROVE Chained(shown[d])'
    BY <1>1 DEF ChatInv, Chained
  <1> QED BY <1>1, <1>2, <1>3, <1>4, <1>5, StreamsKeep

-----------------------------------------------------------------------------
(* A new session, behind those that are there.                             *)
LEMMA RegisterInv ==
    ASSUME ChatInv, Register
    PROVE  ChatInv' /\ AllAdvance
  <1>1. PICK x \in Users : x = accepting
    BY DEF Register, ChatInv, ChatTypes, MessengerTypeOK
  <1>2. /\ sessions' = Append(sessions, x) /\ accepting' = NoOne /\ NoOne \notin Users
        /\ UNCHANGED <<client, typed, exit, read, toClient, shown, receiver, message, next>>
    BY <1>1, NoOneAssumption DEF Register
  <1>3. /\ sessions \in Seq(Users) /\ Len(sessions) \in Nat /\ DOMAIN sessions = 1..Len(sessions)
        /\ next \in [Users -> Nat \ {0}]
    BY TypeFacts DEF ChatInv
  <1>4. /\ DOMAIN sessions' = 1..(Len(sessions) + 1) /\ Len(sessions') = Len(sessions) + 1
        /\ \A p \in DOMAIN sessions : sessions'[p] = sessions[p]
        /\ sessions'[Len(sessions) + 1] = x
    BY <1>2, <1>3, AppendProperties
  <1>5. /\ ~Registered(x) /\ Line(x) = <<>> /\ Handed(x) = {}
        /\ \A d \in Users : Registered(d)' <=> Registered(d) \/ d = x
    <2>1. ~Registered(x)
      BY <1>1 DEF ChatInv, ThreadInv
    <2>2. ASSUME NEW d \in Users PROVE Registered(d)' <=> Registered(d) \/ d = x
      <3>1. \A p \in DOMAIN sessions' : p \in DOMAIN sessions \/ p = Len(sessions) + 1
        BY <1>3, <1>4
      <3>2. /\ \A p \in DOMAIN sessions : p \in DOMAIN sessions'
            /\ Len(sessions) + 1 \in DOMAIN sessions'
        BY <1>3, <1>4
      <3> QED BY <1>4, <3>1, <3>2 DEF Registered
    <2> QED BY <2>1, <2>2, OffEmpty
  <1>6. \A d \in Users : /\ Line(d)' = Line(d) /\ Handed(d)' = Handed(d)
                         /\ Sending(d)' <=> Sending(d)
                         /\ \A m : Earlier(d, m)' <=> Earlier(d, m)
    BY <1>2 DEF Line, Handed, Sending, Earlier
  <1>7. ASSUME NEW c \in Users, NEW d \in Users
        PROVE  /\ Passed(c, d)' <=> Passed(c, d)
               /\ d # x => (Ahead(c, d)' <=> Ahead(c, d))
    <2>1. next[c] \in Nat /\ next[c] <= Len(sessions) + 1
      BY <1>3 DEF ChatInv, ThreadInv
    <2>2. \A p \in DOMAIN sessions' : p < next[c] => p \in DOMAIN sessions
      BY <1>3, <1>4, <2>1
    <2>3. \A p \in DOMAIN sessions : p \in DOMAIN sessions'
      BY <1>3, <1>4
    <2>4. \A p \in DOMAIN sessions' : p \in DOMAIN sessions \/ sessions'[p] = x
      BY <1>3, <1>4
    <2> QED BY <1>2, <1>4, <1>6, <2>2, <2>3, <2>4 DEF Passed, Ahead
  <1>8. ChatTypes'
    BY ChatTypesAccept DEF AcceptThread, ChatInv
  <1>9. Unique'
    <2> SUFFICES ASSUME NEW p \in DOMAIN sessions', NEW q \in DOMAIN sessions',
                        sessions'[p] = sessions'[q]
                 PROVE  p = q
      BY DEF Unique
    <2>1. \A r \in DOMAIN sessions : sessions[r] # x
      BY <1>5 DEF Registered
    <2>2. \A r \in DOMAIN sessions' : r \in DOMAIN sessions \/ r = Len(sessions) + 1
      BY <1>3, <1>4
    <2> QED BY <1>4, <2>1, <2>2 DEF ChatInv, Unique
  <1>10. ASSUME NEW d \in Users
         PROVE  ThreadInv(d)' /\ LineInv(d)' /\ Chained(shown[d])'
    <2>1. next[d] <= Len(sessions') + 1
      <3>1. next[d] \in Nat /\ next[d] <= Len(sessions) + 1
        BY <1>3 DEF ChatInv, ThreadInv
      <3> QED BY <1>3, <1>4, <3>1
    <2>2. receiver[x] # "none"
      BY <1>1 DEF ChatInv, ThreadInv
    <2>3. ThreadInv(d)'
      BY <1>1, <1>2, <1>5, <1>6, <2>1, <2>2 DEF ChatInv, ThreadInv
    <2>4. LineInv(d)'
      BY <1>2, <1>6 DEF ChatInv, LineInv, Chained
    <2>5. Chained(shown[d])'
      BY <1>2 DEF ChatInv, Chained
    <2> QED BY <2>3, <2>4, <2>5
  <1>11. ASSUME NEW c \in Users, NEW d \in Users PROVE FlowInv(c, d)'
    <2>1. CASE d = x
      <3>1. ~Passed(c, d) /\ DOMAIN Line(d) = {}
        BY <1>5, <2>1 DEF Passed, Registered
      <3>2. \A n : Ends(Line(d), c, n)
        BY <3>1 DEF Ends
      <3> QED BY <1>5, <1>6, <1>7, <2>1, <3>1, <3>2 DEF FlowInv, Ends
    <2>2. CASE d # x
      <3>1. FlowInv(c, d)
        BY DEF ChatInv
      <3> QED BY <1>2, <1>6, <1>7, <2>2, <3>1 DEF FlowInv, Ends
    <2> QED BY <2>1, <2>2
  <1>12. ASSUME NEW b \in Users, NEW c \in Users, NEW d \in Users PROVE AgreeInv(b, c, d)'
    <2>1. AgreeInv(b, c, d)
      BY DEF ChatInv
    <2>2. CASE c = x
      BY <1>5, <1>6, <2>2 DEF AgreeInv
    <2>3. CASE c # x
      BY <1>2, <1>6, <1>7, <2>1, <2>3 DEF AgreeInv
    <2> QED BY <2>2, <2>3
  <1>13. ASSUME NEW c \in Users, NEW d \in Users, Registered(d) PROVE Advances(c, d)
    <2>1. LoopStays(c, d)
      BY <1>2, <1>5, <1>7, <1>13 DEF LoopStays
    <2> QED BY <1>6, <2>1 DEF Advances
  <1> QED BY <1>8, <1>9, <1>10, <1>11, <1>12, <1>13 DEF ChatInv, AllAdvance

-----------------------------------------------------------------------------
(* The loop of one thread: the lines stay as they are, the other threads   *)
(* where they are.                                                         *)
OthersSame(c) ==
    /\ UNCHANGED <<client, typed, shown, accepting, sessions>>
    /\ \A t \in Users \ {c} : /\ receiver'[t] = receiver[t] /\ message'[t] = message[t]
                              /\ next'[t] = next[t] /\ read'[t] = read[t]
                              /\ exit'[t] = exit[t]

LEMMA OthersKeep ==
    ASSUME NEW c \in Users, OthersSame(c), NEW t \in Users \ {c}
    PROVE  /\ \A d : (Ahead(t, d)' <=> Ahead(t, d)) /\ (Passed(t, d)' <=> Passed(t, d))
           /\ \A m : Earlier(t, m)' <=> Earlier(t, m)
           /\ Sending(t)' <=> Sending(t)
  BY DEF OthersSame, Ahead, Passed, Earlier, Sending

LEMMA ThreadsKeep ==
    ASSUME ChatInv, NEW c \in Users, OthersSame(c),
           \A d \in Users : toClient'[d] = toClient[d] \/ Registered(d),
           receiver[c] # "none", receiver'[c] # "none",
           exit'[c] # "none" => exit[c] # "none",
           next'[c] <= Len(sessions) + 1,
           receiver'[c] = "sending" => message'[c] \in Messages(c) /\ message'[c].last = read'[c]
    PROVE  \A d \in Users : ThreadInv(d)'
  <1> SUFFICES ASSUME NEW d \in Users PROVE ThreadInv(d)'
    OBVIOUS
  <1>1. (Registered(d)' <=> Registered(d)) /\ UNCHANGED <<client, shown, accepting, sessions>>
    BY DEF OthersSame, Registered
  <1>2. ThreadInv(d)
    BY DEF ChatInv
  <1>3. CASE d = c
    BY <1>1, <1>2, <1>3 DEF ThreadInv, Sending
  <1>4. CASE d # c
    BY <1>1, <1>2, <1>4 DEF OthersSame, ThreadInv, Sending
  <1> QED BY <1>3, <1>4

LEMMA OneThread ==
    ASSUME ChatInv, ChatTypes', NEW c \in Users, OthersSame(c), toClient' = toClient,
           \A d \in Users : ThreadInv(d)',
           \A d \in Users : FlowInv(c, d)',
           \A b, d \in Users : AgreeInv(b, d, c)',
           \A d \in Users \ {c} : Registered(d) => Advances(c, d)
    PROVE  ChatInv' /\ AllAdvance
  <1>1. \A d \in Users : Line(d)' = Line(d) /\ Handed(d)' = Handed(d)
    BY DEF OthersSame, Line, Handed
  <1>2. Unique' /\ UNCHANGED <<client, shown, toClient>>
    BY DEF OthersSame, ChatInv, Unique
  <1>3. ASSUME NEW d \in Users PROVE LineInv(d)' /\ Chained(shown[d])'
    BY <1>1, <1>2 DEF ChatInv, LineInv, Chained
  <1>4. ASSUME NEW t \in Users, NEW d \in Users PROVE FlowInv(t, d)'
    <2>1. CASE t # c
      <3>1. FlowInv(t, d)
        BY DEF ChatInv
      <3>2. receiver'[t] = receiver[t] /\ message'[t] = message[t] /\ read'[t] = read[t]
        BY <2>1 DEF OthersSame
      <3> QED BY <1>1, <1>2, <2>1, <3>1, <3>2, OthersKeep DEF FlowInv, Ends
    <2> QED BY <2>1
  <1>5. ASSUME NEW b \in Users, NEW d \in Users, NEW t \in Users PROVE AgreeInv(b, d, t)'
    <2>1. CASE t # c
      <3>1. AgreeInv(b, d, t)
        BY DEF ChatInv
      <3>2. receiver'[t] = receiver[t] /\ message'[t] = message[t]
        BY <2>1 DEF OthersSame
      <3> QED BY <1>1, <1>2, <2>1, <3>1, <3>2, OthersKeep DEF AgreeInv
    <2> QED BY <2>1
  <1>6. ASSUME NEW t \in Users \ {c}, NEW d \in Users PROVE Advances(t, d)
    <2>1. LoopStays(t, d)
      BY OthersKeep DEF OthersSame, LoopStays
    <2> QED BY <1>1, <2>1 DEF Advances
  <1> QED BY <1>2, <1>3, <1>4, <1>5, <1>6 DEF ChatInv, AllAdvance

(* What a line holds of c when its thread reads, and when its loop ends.   *)
LEMMA EndBroadcastInv ==
    ASSUME ChatInv, NEW c \in Users, EndBroadcast(c)
    PROVE  ChatInv' /\ AllAdvance
  <1>1. /\ receiver[c] = "sending" /\ receiver'[c] = "reading" /\ next[c] > Len(sessions)
        /\ OthersSame(c) /\ UNCHANGED <<toClient, message, next, read, exit>>
    BY TypeFacts DEF EndBroadcast, Become, OthersSame, ChatInv
  <1>2. ChatTypes'
    BY ChatTypesReceiver DEF ReceiverThread, ChatInv
  <1>3. \A d \in Users : ThreadInv(d)'
    BY <1>1, ThreadsKeep DEF ChatInv, ThreadInv
  <1>4. Sending(c) /\ ~Sending(c)' /\ \A d : ~Ahead(c, d) /\ ~Ahead(c, d)' /\ ~Passed(c, d)'
    <2>1. \A p \in DOMAIN sessions : ~(next[c] <= p)
      <3>1. /\ DOMAIN sessions = 1..Len(sessions) /\ Len(sessions) \in Nat /\ next[c] \in Nat
        BY TypeFacts DEF ChatInv
      <3> QED BY <1>1, <3>1
    <2> QED BY <1>1, <2>1 DEF Sending, Ahead, Passed
  <1>5. \A d \in Users : Line(d)' = Line(d) /\ Handed(d)' = Handed(d)
    BY <1>1 DEF OthersSame, Line, Handed
  <1>6. ASSUME NEW d \in Users PROVE FlowInv(c, d)'
    <2>1. FlowInv(c, d) /\ client' = client
      BY <1>1 DEF ChatInv, OthersSame
    <2> QED BY <1>1, <1>4, <1>5, <2>1 DEF FlowInv, Ends, Earlier
  <1>7. ASSUME NEW b \in Users, NEW d \in Users PROVE AgreeInv(b, d, c)'
    <2>1. AgreeInv(b, d, c) /\ client' = client
      BY <1>1 DEF ChatInv, OthersSame
    <2> QED BY <1>1, <1>4, <1>5, <2>1 DEF AgreeInv
  <1>8. ASSUME NEW d \in Users PROVE Advances(c, d)
    <2>1. LoopStays(c, d)
      BY <1>1, <1>4 DEF LoopStays
    <2> QED BY <1>5, <2>1 DEF Advances
  <1> QED BY <1>1, <1>2, <1>3, <1>6, <1>7, <1>8, OneThread

LEMMA ReceiveTextInv ==
    ASSUME ChatInv, NEW c \in Users, ReceiveText(c)
    PROVE  ChatInv' /\ AllAdvance
  <1>1. PICK n \in (read[c] + 1)..typed[c] :
           /\ receiver[c] = "reading" /\ receiver'[c] = "sending" /\ next'[c] = 1
           /\ read'[c] = n
           /\ message'[c] = [kind |-> "text", from |-> c, first |-> read[c] + 1, last |-> n]
           /\ exit'[c] # "none" => exit[c] # "none"
           /\ OthersSame(c) /\ toClient' = toClient
    BY TypeFacts DEF ReceiveText, Become, OthersSame, ChatInv
  <1>2. ChatTypes'
    BY ChatTypesReceiver DEF ReceiverThread, ChatInv
  <1>3. /\ read[c] \in Nat /\ n \in Nat /\ read[c] < n /\ n <= Texts[c] /\ Texts[c] \in Nat
        /\ Len(sessions) \in Nat /\ DOMAIN sessions = 1..Len(sessions)
    <2>1. typed[c] \in Nat /\ typed[c] <= Texts[c] /\ Texts[c] \in Nat /\ read[c] \in Nat
      BY TextsAssumption DEF ChatInv, ChatTypes, MessengerTypeOK
    <2> QED BY <1>1, <2>1, TypeFacts DEF ChatInv
  <1>4. message'[c] \in Messages(c) /\ message'[c].last = n /\ message'[c].first = read[c] + 1
    <2>1. n \in (read[c] + 1)..Texts[c]
      BY <1>3
    <2> QED BY <1>1, <1>3, <2>1, NewMessage
  <1>5. \A d \in Users : ThreadInv(d)'
    BY <1>1, <1>3, <1>4, ThreadsKeep DEF ChatInv
  <1>6. /\ ~Sending(c) /\ Sending(c)'
        /\ \A d \in Users : ~Passed(c, d)' /\ ~Ahead(c, d) /\ (Ahead(c, d)' <=> Registered(d))
    BY <1>1, <1>3 DEF Sending, Passed, Ahead, Registered, OthersSame
  <1>7. \A d \in Users : Line(d)' = Line(d) /\ Handed(d)' = Handed(d)
    BY <1>1 DEF OthersSame, Line, Handed
  <1>8. ASSUME NEW d \in Users PROVE FlowInv(c, d)'
    <2> SUFFICES ASSUME client[d] = "on"
                 PROVE  /\ Ends(Line(d), c,
                                IF Ahead(c, d) THEN message[c].first - 1 ELSE read[c])'
                        /\ \A m \in Handed(d)' : m.from = c => c # d /\ Earlier(c, m)'
      BY <1>1, <1>6 DEF FlowInv, OthersSame
    <2>1. /\ Ends(Line(d), c, read[c])
          /\ \A m \in Handed(d) : m.from = c => c # d /\ Earlier(c, m)
      BY <1>1, <1>6 DEF ChatInv, FlowInv
    <2>2. Ends(Line(d), c, IF Ahead(c, d) THEN message[c].first - 1 ELSE read[c])'
      <3>1. CASE Registered(d)
        <4>1. message'[c].first - 1 = read[c] /\ Ahead(c, d)'
          BY <1>3, <1>4, <1>6, <3>1
        <4> QED BY <1>7, <2>1, <4>1 DEF Ends
      <3>2. CASE ~Registered(d)
        BY <1>6, <1>7, <3>2, OffEmpty DEF Ends
      <3> QED BY <3>1, <3>2
    <2>3. ASSUME NEW m \in Handed(d), m.from = c PROVE Earlier(c, m)'
      <3>1. m \in AllMessages
        BY <2>3, OnLine
      <3>2. m.last \in Nat /\ m.last <= read[c]
        BY <2>1, <2>3, <3>1, MessageFields DEF Earlier
      <3> QED BY <1>1, <1>3, <1>4, <3>2 DEF Earlier
    <2> QED BY <1>7, <2>1, <2>2, <2>3
  <1>9. ASSUME NEW b \in Users, NEW d \in Users PROVE AgreeInv(b, d, c)'
    <2>1. AgreeInv(b, d, c) /\ client' = client
      BY <1>1 DEF ChatInv, OthersSame
    <2> QED BY <1>1, <1>6, <1>7, <2>1 DEF AgreeInv
  <1>10. ASSUME NEW d \in Users, Registered(d) PROVE Advances(c, d)
    BY <1>1, <1>4, <1>6, <1>7, <1>10 DEF Advances
  <1> QED BY <1>1, <1>2, <1>5, <1>8, <1>9, <1>10, OneThread

(* One turn of the loop: past the client's own session, to another's, or   *)
(* out of the loop with an exception.                                      *)
LEMMA PassOwnInv ==
    ASSUME ChatInv, NEW c \in Users, Broadcast(c), PassOwn(c)
    PROVE  ChatInv' /\ AllAdvance
  <1>1. /\ receiver[c] = "sending" /\ receiver'[c] = "sending" /\ next'[c] = next[c] + 1
        /\ next[c] <= Len(sessions) /\ sessions[next[c]] = c
        /\ OthersSame(c) /\ UNCHANGED <<toClient, message, read, exit>>
    BY TypeFacts DEF Broadcast, PassOwn, OthersSame, ChatInv
  <1>2. ChatTypes'
    BY ChatTypesReceiver DEF ReceiverThread, ChatInv
  <1>3. /\ next[c] \in Nat \ {0} /\ Len(sessions) \in Nat
        /\ DOMAIN sessions = 1..Len(sessions)
    BY TypeFacts DEF ChatInv
  <1>4. \A d \in Users : ThreadInv(d)'
    <2>1. next'[c] <= Len(sessions) + 1
      BY <1>1, <1>3
    <2>2. message'[c] \in Messages(c) /\ message'[c].last = read'[c]
      BY <1>1 DEF ChatInv, ThreadInv, Sending
    <2> QED BY <1>1, <2>1, <2>2, ThreadsKeep
  <1>5. Sending(c) /\ Sending(c)'
        /\ \A d \in Users : d # c => (Ahead(c, d)' <=> Ahead(c, d))
                                     /\ (Passed(c, d)' <=> Passed(c, d))
    <2>1. \A p \in DOMAIN sessions : (next[c] <= p <=> next[c] + 1 <= p \/ p = next[c])
                                     /\ (p < next[c] + 1 <=> p < next[c] \/ p = next[c])
      BY <1>3
    <2>2. UNCHANGED sessions
      BY <1>1 DEF OthersSame
    <2> QED BY <1>1, <2>1, <2>2 DEF Sending, Ahead, Passed
  <1>6. \A d \in Users : Line(d)' = Line(d) /\ Handed(d)' = Handed(d)
    BY <1>1 DEF OthersSame, Line, Handed
  <1>7. ASSUME NEW d \in Users PROVE FlowInv(c, d)'
    <2>1. FlowInv(c, d) /\ client' = client
      BY <1>1 DEF ChatInv, OthersSame
    <2>2. CASE d # c
      BY <1>1, <1>5, <1>6, <2>1, <2>2 DEF FlowInv, Ends, Earlier
    <2>3. CASE d = c
      <3> SUFFICES ASSUME client[c] = "on" PROVE FlowInv(c, c)'
        BY <2>1, <2>3 DEF FlowInv
      <3>1. \A m \in Handed(c) : m.from # c
        BY <1>1, <2>1, <2>3 DEF FlowInv
      <3>2. \A i \in DOMAIN Line(c) : Line(c)[i] \in Handed(c)
        <4>1. Handed(c) = {Line(c)[i] : i \in DOMAIN Line(c)}
          BY OnLine, ConcatElements DEF Line, Handed
        <4> QED BY <4>1
      <3>3. Ends(Line(c), c, IF Ahead(c, c) THEN message[c].first - 1 ELSE read[c])'
        BY <1>6, <3>1, <3>2 DEF Ends
      <3> QED BY <1>6, <3>1, <3>3 DEF FlowInv
    <2> QED BY <2>2, <2>3
  <1>8. ASSUME NEW b \in Users, NEW d \in Users PROVE AgreeInv(b, d, c)'
    <2>1. AgreeInv(b, d, c) /\ client' = client
      BY <1>1 DEF ChatInv, OthersSame
    <2>2. CASE d # c
      BY <1>1, <1>5, <1>6, <2>1, <2>2 DEF AgreeInv
    <2>3. CASE d = c
      <3>1. client[c] = "on" => \A m \in Handed(c) : m.from # c
        BY <1>1 DEF ChatInv, FlowInv
      <3> QED BY <1>6, <2>1, <2>3, <3>1 DEF AgreeInv
    <2> QED BY <2>2, <2>3
  <1>9. ASSUME NEW d \in Users \ {c} PROVE Advances(c, d)
    <2>1. LoopStays(c, d)
      BY <1>1, <1>5 DEF LoopStays
    <2> QED BY <1>6, <2>1 DEF Advances
  <1> QED BY <1>1, <1>2, <1>4, <1>7, <1>8, <1>9, OneThread

(* It comes to client x: its message, which goes on where the line of x    *)
(* ends, is put behind it.                                                 *)
LEMMA SendOnInv ==
    ASSUME ChatInv, NEW c \in Users, Broadcast(c), SendOn(c)
    PROVE  ChatInv' /\ AllAdvance
  <1>1. /\ receiver[c] = "sending" /\ receiver'[c] = "sending" /\ next'[c] = next[c] + 1
        /\ next[c] <= Len(sessions) /\ sessions[next[c]] # c
        /\ SendTo(sessions[next[c]], message[c])
        /\ OthersSame(c) /\ UNCHANGED <<message, read, exit>>
    BY TypeFacts DEF Broadcast, SendOn, OthersSame, ChatInv
  <1>2. ChatTypes'
    BY ChatTypesReceiver DEF ReceiverThread, ChatInv
  <1>3. /\ next[c] \in Nat \ {0} /\ Len(sessions) \in Nat /\ next[c] \in DOMAIN sessions
        /\ DOMAIN sessions = 1..Len(sessions) /\ sessions[next[c]] \in Users
    <2>1. /\ next[c] \in Nat \ {0} /\ Len(sessions) \in Nat /\ sessions \in Seq(Users)
          /\ DOMAIN sessions = 1..Len(sessions)
      BY TypeFacts DEF ChatInv
    <2>2. next[c] \in 1..Len(sessions)
      BY <1>1, <2>1
    <2> QED BY <2>1, <2>2, ElementOfSeq
  <1>4. PICK x \in Users, M \in AllMessages : x = sessions[next[c]] /\ M = message[c]
    BY <1>1, <1>3, MessagesOfUsers DEF ChatInv, ThreadInv, Sending
  <1>5. /\ x # c /\ Registered(x) /\ M \in Messages(c) /\ M.from = c /\ M.last = read[c]
        /\ M.first \in Nat \ {0} /\ M.last \in Nat /\ M.first <= M.last /\ message'[c] = M
        /\ read'[c] = read[c] /\ client' = client /\ sessions' = sessions /\ shown' = shown
    <2>1. M \in Messages(c) /\ M.last = read[c]
      BY <1>1, <1>4 DEF ChatInv, ThreadInv, Sending
    <2>2. M.from = c
      BY <2>1 DEF Messages
    <2> QED BY <1>1, <1>3, <1>4, <2>1, <2>2, MessageFields DEF Registered, OthersSame
  <1>6. /\ toClient'[x] = Append(toClient[x], M)
        /\ \A d \in Users \ {x} : toClient'[d] = toClient[d]
    <2>1. M \in Packets
      BY DEF Packets
    <2> QED BY <1>1, <1>4, <2>1, SendTypes DEF ChatInv
  <1>7. \A d \in Users : ThreadInv(d)'
    <2>1. next'[c] <= Len(sessions) + 1
      BY <1>1, <1>3
    <2> QED BY <1>1, <1>5, <1>6, <2>1, ThreadsKeep
  <1>8. /\ Sending(c) /\ Sending(c)' /\ Ahead(c, x) /\ ~Ahead(c, x)' /\ Passed(c, x)'
        /\ \A d \in Users : d # x => (Ahead(c, d)' <=> Ahead(c, d))
                                     /\ (Passed(c, d)' <=> Passed(c, d))
    <2>1. \A p \in DOMAIN sessions : (next[c] <= p <=> next[c] + 1 <= p \/ p = next[c])
                                     /\ (p < next[c] + 1 <=> p < next[c] \/ p = next[c])
      BY <1>3
    <2>2. \A p \in DOMAIN sessions : sessions[p] = x => p = next[c] /\ ~(next[c] + 1 <= p)
                                                        /\ p < next[c] + 1 /\ next[c] <= p
      BY <1>3, <1>4 DEF ChatInv, Unique
    <2> QED BY <1>1, <1>3, <1>4, <1>5, <2>1, <2>2 DEF Sending, Ahead, Passed
  <1>9. \A d \in Users \ {x} : Line(d)' = Line(d) /\ Handed(d)' = Handed(d)
    BY <1>5, <1>6 DEF Line, Handed
  <1>10. ASSUME client[x] = "on"
         PROVE  /\ Line(x) \in Seq(AllMessages) /\ toClient'[x] \in Seq(AllMessages)
                /\ Line(x)' = Append(Line(x), M)
                /\ Handed(x)' = Handed(x) \union {M}
    BY <1>5, <1>6, <1>10, OnLine, LineGrows
  <1>11. ASSUME NEW d \in Users PROVE LineInv(d)' /\ Chained(shown[d])'
    <2>1. Chained(shown[d])'
      BY <1>5 DEF ChatInv, Chained
    <2>2. CASE d # x
      BY <1>5, <1>6, <1>9, <2>2 DEF ChatInv, LineInv, Chained
    <2>3. CASE d = x /\ client[x] = "on"
      <3>1. Chained(Line(x)) /\ Ends(Line(x), c, M.first - 1)
        BY <1>1, <1>4, <1>8, <2>3 DEF ChatInv, LineInv, FlowInv
      <3>2. Chained(Append(Line(x), M))
        BY <1>5, <1>10, <2>3, <3>1, Chaining
      <3>3. toClient'[x] \in Seq(AllMessages) /\ Chained(Line(x)')
        BY <1>10, <2>3, <3>2
      <3>4. Chained(Line(d))'
        BY <2>3, <3>3 DEF Chained
      <3>5. LineInv(d)'
        BY <2>3, <3>3, <3>4 DEF LineInv
      <3> QED BY <2>1, <3>5
    <2>4. CASE d = x /\ client[x] # "on"
      BY <1>5, <2>1, <2>4 DEF LineInv
    <2> QED BY <2>1, <2>2, <2>3, <2>4
  <1>12. ASSUME NEW t \in Users, NEW d \in Users PROVE FlowInv(t, d)'
    <2> SUFFICES ASSUME client[d] = "on", receiver'[t] # "died" PROVE FlowInv(t, d)'
      BY <1>5 DEF FlowInv
    <2>1. /\ receiver[t] # "died" /\ read'[t] = read[t] /\ message'[t] = message[t]
          /\ Sending(t)' <=> Sending(t)
          /\ \A m : Earlier(t, m)' <=> Earlier(t, m)
      BY <1>1, <1>4, <1>5, <1>8, OthersKeep DEF OthersSame, Earlier
    <2>2. /\ Ends(Line(d), t, IF Ahead(t, d) THEN message[t].first - 1 ELSE read[t])
          /\ \A m \in Handed(d) : m.from = t => t # d /\ Earlier(t, m)
          /\ Passed(t, d) /\ t # d => message[t] \in Handed(d)
      BY <2>1 DEF ChatInv, FlowInv
    <2>3. CASE d # x
      <3>1. (Ahead(t, d)' <=> Ahead(t, d)) /\ (Passed(t, d)' <=> Passed(t, d))
        BY <1>1, <1>8, <2>3, OthersKeep
      <3> QED BY <1>9, <2>1, <2>2, <2>3, <3>1 DEF FlowInv, Ends
    <2>4. CASE d = x /\ t # c
      <3>1. (Ahead(t, d)' <=> Ahead(t, d)) /\ (Passed(t, d)' <=> Passed(t, d))
        BY <1>1, <2>4, OthersKeep
      <3>2. \A n : Ends(Line(x), t, n) => Ends(Append(Line(x), M), t, n)
        BY <1>5, <1>10, <2>4, Ending
      <3>3. PICK n : n = IF Ahead(t, d) THEN message[t].first - 1 ELSE read[t]
        OBVIOUS
      <3>4. Ends(Line(x)', t, n)
        BY <1>10, <2>2, <2>4, <3>2, <3>3
      <3>5. Ends(Line(d), t, IF Ahead(t, d) THEN message[t].first - 1 ELSE read[t])'
        BY <2>1, <2>4, <3>1, <3>3, <3>4 DEF Ends
      <3>6. Handed(d)' = Handed(d) \union {M} /\ M.from # t
        BY <1>5, <1>10, <2>4
      <3> QED BY <2>1, <2>2, <3>1, <3>5, <3>6 DEF FlowInv
    <2>5. CASE d = x /\ t = c
      <3>1. Ends(Append(Line(x), M), c, read[c])
        BY <1>5, <1>10, <2>5, Ending
      <3>2. Earlier(c, M)'
        BY <1>5, <1>8 DEF Earlier
      <3> QED BY <1>5, <1>8, <1>10, <2>1, <2>2, <2>5, <3>1, <3>2 DEF FlowInv, Ends
    <2> QED BY <2>3, <2>4, <2>5
  <1>13. ASSUME NEW b \in Users, NEW d \in Users, NEW t \in Users PROVE AgreeInv(b, d, t)'
    <2> SUFFICES ASSUME client[b] = "on", client[d] = "on", receiver'[t] # "died",
                        NEW m \in Handed(b)', NEW e \in Handed(d)',
                        m.from = t, e.from = t, e.first <= m.first
                 PROVE  m \in Handed(d)' \/ (Ahead(t, d)' /\ m = message'[t])
      BY <1>5 DEF AgreeInv
    <2>1. /\ m \in Handed(b) \/ (b = x /\ m = M)
          /\ e \in Handed(d) \/ (d = x /\ e = M)
          /\ Handed(d) \subseteq Handed(d)' /\ (d = x => M \in Handed(d)')
      BY <1>9, <1>10
    <2>2. receiver[t] # "died"
      BY <1>1 DEF OthersSame
    <2>3. ASSUME m \in Handed(b), e \in Handed(d)
          PROVE  m \in Handed(d) \/ (Ahead(t, d) /\ m = message[t])
      BY <2>2, <2>3 DEF ChatInv, AgreeInv
    <2>4. CASE t # c
      <3>1. (Ahead(t, d)' <=> Ahead(t, d)) /\ message'[t] = message[t]
        BY <1>1, <2>4, OthersKeep DEF OthersSame
      <3> QED BY <1>5, <2>1, <2>3, <2>4, <3>1
    <2>5. CASE t = c /\ m = M
      <3>1. CASE d = x
        BY <2>1, <2>5, <3>1
      <3>2. CASE d # x
        <4>1. e \in Handed(d) /\ c # d
          BY <2>1, <2>2, <2>5, <3>2 DEF ChatInv, FlowInv
        <4>2. Registered(d)
          BY <4>1, OffEmpty
        <4>3. Passed(c, d) \/ Ahead(c, d)
          BY <1>3, <1>8, <4>2 DEF Registered, Passed, Ahead
        <4>4. Passed(c, d) => M \in Handed(d)
          BY <1>4, <2>2, <2>5, <4>1 DEF ChatInv, FlowInv
        <4> QED BY <1>5, <1>8, <2>1, <2>5, <3>2, <4>3, <4>4
      <3> QED BY <3>1, <3>2
    <2>6. CASE t = c /\ m # M
      <3>1. m \in Handed(b) /\ Earlier(c, m) /\ m \in AllMessages
        BY <2>1, <2>2, <2>6, OnLine DEF ChatInv, FlowInv
      <3>2. m.last < M.first /\ m.first \in Nat /\ m.last \in Nat /\ m.first <= m.last
        BY <1>4, <1>8, <2>6, <3>1, MessageFields DEF Earlier
      <3>3. e # M
        BY <1>5, <3>2
      <3> QED BY <1>4, <2>1, <2>3, <2>6, <3>1, <3>3
    <2> QED BY <2>4, <2>5, <2>6
  <1>14. Unique'
    BY <1>5 DEF ChatInv, Unique
  <1>15. ASSUME NEW t \in Users, NEW d \in Users, client[d] = "on" PROVE Advances(t, d)
    <2>1. CASE d # x
      <3>1. LoopStays(t, d)
        BY <1>1, <1>5, <1>8, <2>1, OthersKeep DEF OthersSame, LoopStays
      <3> QED BY <1>9, <2>1, <3>1 DEF Advances
    <2>2. CASE d = x /\ t # c
      <3>1. LoopStays(t, d)
        BY <1>1, <2>2, OthersKeep DEF OthersSame, LoopStays
      <3> QED BY <1>5, <1>10, <1>15, <2>2, <3>1 DEF Advances
    <2>3. CASE d = x /\ t = c
      BY <1>1, <1>4, <1>5, <1>8, <1>10, <1>15, <2>3 DEF Advances
    <2> QED BY <2>1, <2>2, <2>3
  <1> QED BY <1>2, <1>7, <1>11, <1>12, <1>13, <1>14, <1>15 DEF ChatInv, AllAdvance

-----------------------------------------------------------------------------
(* All steps.                                                              *)
LEMMA ChatNext == ChatInv /\ [MessengerNext]_messengerVars => ChatInv' /\ AllAdvance
  <1> SUFFICES ASSUME ChatInv, [MessengerNext]_messengerVars
               PROVE  ChatInv' /\ AllAdvance
    OBVIOUS
  <1>1. ASSUME NEW c \in Users, ReceiverThread(c) PROVE ChatInv' /\ AllAdvance
    BY <1>1, ReceiveTextInv, QuietThreadInv, EndBroadcastInv, PassOwnInv, SendOnInv
    DEF ReceiverThread, Broadcast
  <1>2. CASE AcceptThread
    BY <1>2, RegisterInv, QuietThreadInv DEF AcceptThread
  <1>3. CASE UNCHANGED messengerVars \/ AssignServer
    <2>1. /\ UNCHANGED <<client, typed, exit, read, toClient, shown, accepting, sessions,
                         receiver, message, next>>
          /\ ChatTypes'
      BY <1>3, ChatTypesNext DEF messengerVars, AssignServer, ChatInv
    <2>2. \A d \in Users : Line(d)' = Line(d) /\ Handed(d)' = Handed(d)
      BY <2>1 DEF Line, Handed
    <2>3. \A d \in Users : OnSame(d) /\ PhaseSame(d)
      BY <2>1, <2>2 DEF OnSame, PhaseSame, ChatInv, LineInv
    <2>4. \A d \in Users : ThreadInv(d)' /\ Chained(shown[d])'
      BY <2>1 DEF ChatInv, ThreadInv, Registered, Sending, Chained
    <2> QED BY <2>1, <2>3, <2>4, StreamsKeep
  <1> QED BY <1>1, <1>2, <1>3, UserInv, ClientReceiveInv DEF MessengerNext

LEMMA ChatAlways == MessengerSpec => []ChatInv
  BY ChatInit, ChatNext, PTL DEF MessengerSpec

(* Of any one sender a client shows an unbroken stretch of texts, each once*)
(* and in the order they were typed, though sessions are appended while    *)
(* threads loop over them and texts are read together.                     *)
THEOREM ShownIsUnbroken == MessengerSpec => []Contiguous
  <1>1. ChatInv => Contiguous
    BY DEF ChatInv, Chained, Contiguous
  <1> QED BY <1>1, ChatAlways, PTL

(* What one client got of another's messages, a third that reads along and *)
(* has got an earlier one gets too, once the loop of the sender's thread is*)
(* over.                                                                   *)
THEOREM ClientsAgree == MessengerSpec => []Agreement
  <1>1. ASSUME ChatInv, NEW b \in Users, NEW c \in Users, NEW d \in Users,
               client[b] = "on", client[c] = "on", receiver[d] \in {"reading", "ended"},
               NEW m \in Handed(b), m \notin Handed(c), NEW e \in Handed(c),
               m # Bye, e # Bye, m.from = d, e.from = d, e.first <= m.first
        PROVE  FALSE
    BY <1>1 DEF ChatInv, AgreeInv, Ahead, Sending
  <1>2. ChatInv => Agreement
    BY <1>1 DEF Agreement
  <1> QED BY <1>2, ChatAlways, PTL

-----------------------------------------------------------------------------
(* Threads that die.                                                       *)

(* Before there is a server nothing has been sent.                         *)
NoServerInv == server = "None" => \A d \in Users : Handed(d) = {}

LEMMA MessageOfThread ==
    ASSUME ChatInv, NEW t \in Users, receiver[t] = "sending"
    PROVE  message[t] \in Messages(t) /\ message[t].from = t /\ message[t] \in AllMessages
  <1>1. message[t] \in Messages(t)
    BY DEF ChatInv, ThreadInv, Sending
  <1> QED BY <1>1, MessagesOfUsers DEF Messages

(* What is handed to d comes from a thread that is sending, or is an       *)
(* answer to an exit.                                                      *)
LEMMA AppendElements ==
    ASSUME NEW S, NEW s \in Seq(S), NEW m \in S, NEW t, t = Append(s, m)
    PROVE  {t[i] : i \in DOMAIN t} = {s[i] : i \in DOMAIN s} \union {m}
  <1>1. /\ Len(s) \in Nat /\ DOMAIN s = 1..Len(s) /\ DOMAIN t = 1..(Len(s) + 1)
        /\ \A i \in 1..Len(s) : t[i] = s[i]
        /\ t[Len(s) + 1] = m
    BY AppendProperties, LenProperties
  <1>2. /\ \A i \in DOMAIN s : i \in DOMAIN t /\ t[i] = s[i]
        /\ \A i \in DOMAIN t : (i \in DOMAIN s /\ t[i] = s[i]) \/ t[i] = m
        /\ Len(s) + 1 \in DOMAIN t
    BY <1>1
  <1> QED BY <1>1, <1>2

LEMMA HandedBy ==
    ASSUME ChatTypes, NEW x \in Users, NEW m \in Packets, SendTo(x, m), shown' = shown
    PROVE  /\ Handed(x)' = Handed(x) \union {m}
           /\ \A d \in Users \ {x} : Handed(d)' = Handed(d)
  <1>1. /\ toClient'[x] = Append(toClient[x], m)
        /\ \A d \in Users \ {x} : toClient'[d] = toClient[d]
    BY SendTypes
  <1>2. PICK s, t : s \in Seq(Packets) /\ s = toClient[x] /\ t = toClient'[x]
    <2>1. toClient[x] \in Seq(Packets)
      BY DEF ChatTypes, MessengerTypeOK
    <2> QED BY <2>1
  <1>3. t = Append(s, m)
    BY <1>1, <1>2
  <1>4. {t[i] : i \in DOMAIN t} = {s[i] : i \in DOMAIN s} \union {m}
    BY <1>3, AppendElements
  <1>5. Handed(x) = {shown[x][i] : i \in DOMAIN shown[x]} \union {s[i] : i \in DOMAIN s}
    BY <1>2 DEF Handed
  <1>6. Handed(x)' = {shown[x][i] : i \in DOMAIN shown[x]} \union {t[i] : i \in DOMAIN t}
    BY <1>2 DEF Handed
  <1>7. Handed(x)' = Handed(x) \union {m}
    BY <1>4, <1>5, <1>6
  <1> QED BY <1>1, <1>7 DEF Handed

LEMMA SubsequenceElements ==
    ASSUME NEW S, NEW s \in Seq(S), NEW a \in Nat \ {0}, NEW b \in Nat, b = Len(s),
           NEW t, t = SubSeq(s, a, b)
    PROVE  {t[i] : i \in DOMAIN t} \subseteq {s[i] : i \in DOMAIN s}
  <1>1. DOMAIN s = 1..b /\ \A i \in a..b : s[i] \in S
    OBVIOUS
  <1>2. a \in Int /\ b \in Int
    OBVIOUS
  <1>3. /\ SubSeq(s, a, b) \in Seq(S)
        /\ Len(SubSeq(s, a, b)) = IF a <= b THEN b - a + 1 ELSE 0
        /\ \A i \in 1..(b - a + 1) : SubSeq(s, a, b)[i] = s[a + i - 1]
    BY <1>1, <1>2, SubSeqProperties
  <1>4. /\ t \in Seq(S) /\ Len(t) = IF a <= b THEN b - a + 1 ELSE 0
        /\ \A i \in 1..(b - a + 1) : t[i] = s[a + i - 1]
    BY <1>3
  <1>5. DOMAIN t = 1..Len(t)
    BY <1>4
  <1>6. DOMAIN t = 1..(b - a + 1)
    BY <1>4, <1>5
  <1>7. \A i \in DOMAIN t : a + i - 1 \in DOMAIN s /\ t[i] = s[a + i - 1]
    BY <1>1, <1>4, <1>6
  <1> QED BY <1>7

LEMMA HandedShrinks ==
    ASSUME ChatTypes, NEW c \in Users, ClientReceive(c), NEW d \in Users
    PROVE  Handed(d)' \subseteq Handed(d)
  <1>1. /\ toClient[c] # <<>> /\ toClient[c] \in Seq(Packets) /\ shown[c] \in Seq(AllMessages)
        /\ toClient \in [Users -> Seq(Packets)] /\ shown \in [Users -> Seq(AllMessages)]
        /\ client[c] \in {"on", "closing"}
    BY TypeFacts DEF ClientReceive
  <1>2. PICK s, t : s \in Seq(Packets) /\ s = toClient[c] /\ t = toClient'[c]
    BY <1>1
  <1>3. PICK u, v : u \in Seq(AllMessages) /\ u = shown[c] /\ v = shown'[c]
    BY <1>1
  <1>4. /\ Handed(c) = {u[i] : i \in DOMAIN u} \union {s[i] : i \in DOMAIN s}
        /\ Handed(c)' = {v[i] : i \in DOMAIN v} \union {t[i] : i \in DOMAIN t}
    BY <1>2, <1>3 DEF Handed
  <1>5. /\ Head(s) \in Packets /\ Tail(s) \in Seq(Packets) /\ Len(s) \in Nat \ {0}
        /\ DOMAIN s = 1..Len(s) /\ Head(s) = s[1] /\ Len(Tail(s)) = Len(s) - 1
        /\ \A i \in 1..Len(Tail(s)) : Tail(s)[i] = s[i + 1]
    BY <1>1, <1>2, HeadTailProperties, EmptySeq
  <1>6. Head(s) \in {s[i] : i \in DOMAIN s}
    BY <1>5
  <1>7. ASSUME t = Tail(s) PROVE {t[i] : i \in DOMAIN t} \subseteq {s[i] : i \in DOMAIN s}
    <2>1. DOMAIN t = 1..(Len(s) - 1) /\ \A i \in 1..(Len(s) - 1) : t[i] = s[i + 1]
      BY <1>5, <1>7
    <2>2. \A i \in DOMAIN t : i + 1 \in DOMAIN s /\ t[i] = s[i + 1]
      BY <1>5, <2>1
    <2> QED BY <2>2
  <1>8. CASE d # c
    <2>1. toClient'[d] = toClient[d] /\ shown'[d] = shown[d]
      BY <1>1, <1>8 DEF ClientReceive, ShowNext, ReadTogether, ReadClosing
    <2> QED BY <2>1 DEF Handed
  <1>9. CASE d = c /\ ShowNext(c)
    <2>1. t = Tail(s) /\ v = Append(u, Head(s)) /\ Head(s) # Bye
      BY <1>1, <1>2, <1>3, <1>9 DEF ShowNext
    <2>2. Head(s) \in AllMessages
      BY <1>5, <2>1 DEF Packets
    <2>3. {v[i] : i \in DOMAIN v} = {u[i] : i \in DOMAIN u} \union {Head(s)}
      BY <2>1, <2>2, AppendElements
    <2> QED BY <1>4, <1>6, <1>7, <1>9, <2>1, <2>3
  <1>10. CASE d = c /\ ReadTogether(c)
    <2>1. v = u
      BY <1>3, <1>10 DEF ReadTogether
    <2>2. PICK n \in 2..Len(s) : t = SubSeq(s, n + 1, Len(s))
      BY <1>1, <1>2, <1>10 DEF ReadTogether
    <2>3. PICK a, b : a \in Nat \ {0} /\ b \in Nat /\ a = n + 1 /\ b = Len(s)
      BY <1>5
    <2>4. t = SubSeq(s, a, b)
      BY <2>2, <2>3
    <2>5. {t[i] : i \in DOMAIN t} \subseteq {s[i] : i \in DOMAIN s}
      BY <2>3, <2>4, SubsequenceElements
    <2> QED BY <1>4, <1>10, <2>1, <2>5
  <1>11. CASE d = c /\ ReadClosing(c)
    <2>1. t = Tail(s) /\ v = u
      BY <1>1, <1>2, <1>3, <1>11 DEF ReadClosing
    <2> QED BY <1>4, <1>7, <1>11, <2>1
  <1> QED BY <1>8, <1>9, <1>10, <1>11 DEF ClientReceive

LEMMA HandedGrows ==
    ASSUME ChatInv, [MessengerNext]_messengerVars, NEW d \in Users,
           NEW m \in Handed(d)', m \notin Handed(d)
    PROVE  /\ server # "None"
           /\ m # Bye => \E t \in Users \ {d} : /\ receiver[t] = "sending"
                                                /\ receiver'[t] = "sending" /\ m = message[t]
  <1>1. ChatTypes
    BY DEF ChatInv
  <1>2. ASSUME UNCHANGED <<shown, toClient>> PROVE FALSE
    BY <1>2 DEF Handed
  <1>3. ASSUME NEW c \in Users, ClientReceive(c) PROVE FALSE
    BY <1>1, <1>3, HandedShrinks
  <1>4. ASSUME NEW c \in Users, ReceiveExit(c) PROVE server # "None" /\ m = Bye
    <2>1. server # "None" /\ SendTo(c, Bye) /\ shown' = shown
      BY <1>2, <1>4 DEF ReceiveExit
    <2>2. Bye \in Packets
      BY DEF Packets
    <2> QED BY <1>1, <2>1, <2>2, HandedBy
  <1>5. ASSUME NEW c \in Users, Broadcast(c)
        PROVE  /\ server # "None" /\ receiver[c] = "sending" /\ receiver'[c] = "sending"
               /\ m = message[c] /\ d # c
    <2>1. /\ SendOn(c) /\ sessions[next[c]] # c /\ server # "None" /\ receiver[c] = "sending" /\ shown' = shown
          /\ next[c] <= Len(sessions) /\ receiver' = receiver
          /\ SendTo(sessions[next[c]], message[c])
      BY <1>2, <1>5 DEF Broadcast, PassOwn, SendOn, SendFails
    <2>2. sessions[next[c]] \in Users
      <3>1. /\ next[c] \in Nat \ {0} /\ Len(sessions) \in Nat /\ sessions \in Seq(Users)
        BY <1>1, TypeFacts
      <3>2. next[c] \in 1..Len(sessions)
        BY <2>1, <3>1
      <3> QED BY <3>1, <3>2, ElementOfSeq
    <2>3. PICK x \in Users, p \in Packets : x = sessions[next[c]] /\ p = message[c]
      BY <1>1, <2>2, TypeFacts
    <2>4. m = p /\ d = x
      BY <1>1, <2>1, <2>3, HandedBy
    <2> QED BY <2>1, <2>3, <2>4
  <1>6. \/ \E c \in Users : ClientReceive(c) \/ ReceiveExit(c) \/ Broadcast(c)
        \/ UNCHANGED <<shown, toClient>>
    BY DEF MessengerNext, messengerVars, AssignServer, AcceptThread, Register, Accept, UserStep,
           Connect, Type, CloseWindow, Crash, ReceiverThread, ReceiveText, Hangup, NoServer,
           EndBroadcast
  <1> QED BY <1>2, <1>3, <1>4, <1>5, <1>6

(* Who has left stays away; only then, or without a server, threads die.   *)
LEMMA LeavingLasts ==
    ASSUME ChatInv, [MessengerNext]_messengerVars, SomebodyLeft
    PROVE  SomebodyLeft'
  <1>1. PICK d \in Users : client[d] \in {"closing", "stuck", "gone"}
    BY DEF SomebodyLeft
  <1>2. client \in [Users -> ClientStates]
    BY TypeFacts DEF ChatInv
  <1>3. client'[d] \in {"closing", "stuck", "gone"}
    <2>1. CASE \E c \in Users : UserStep(c)
      BY <1>1, <1>2, <2>1 DEF UserStep, Connect, Type, CloseWindow, Crash
    <2>2. CASE \E c \in Users : ClientReceive(c)
      BY <1>1, <1>2, <2>2 DEF ClientReceive, ShowNext, ReadTogether, ReadClosing
    <2>3. client' = client \/ \E c \in Users : UserStep(c) \/ ClientReceive(c)
      BY DEF MessengerNext, messengerVars, AssignServer, AcceptThread, Register, Accept,
             ReceiverThread, ReceiveText, ReceiveExit, Hangup, NoServer, Broadcast, EndBroadcast
    <2> QED BY <1>1, <2>1, <2>2, <2>3
  <1> QED BY <1>3 DEF SomebodyLeft

LEMMA Dying ==
    ASSUME ChatInv, [MessengerNext]_messengerVars, NEW c \in Users,
           receiver[c] # "died", receiver'[c] = "died"
    PROVE  SomebodyLeft \/ server = "None"
  <1>1. receiver \in [Users -> ReceiverStates]
    BY TypeFacts DEF ChatInv
  <1>2. ReceiveExit(c) \/ NoServer(c) \/ (Broadcast(c) /\ SendFails(c))
    BY <1>1
    DEF MessengerNext, messengerVars, AssignServer, AcceptThread, Register, Accept, UserStep,
        Connect, Type, CloseWindow, Crash, ClientReceive, ReceiverThread, ReceiveText,
        ReceiveExit, Hangup, NoServer, Broadcast, PassOwn, SendOn, SendFails, EndBroadcast, Become
  <1>3. CASE ReceiveExit(c)
    <2>1. exit[c] # "none"
      BY <1>3 DEF ReceiveExit
    <2>2. client[c] \in ClientStates /\ client[c] \notin {"off", "on", "deaf"}
      BY <2>1, TypeFacts DEF ChatInv, ThreadInv
    <2> QED BY <2>2 DEF SomebodyLeft, ClientStates
  <1>4. CASE NoServer(c)
    BY <1>4 DEF NoServer
  <1>5. CASE Broadcast(c) /\ SendFails(c)
    <2>1. /\ next[c] \in Nat \ {0} /\ Len(sessions) \in Nat /\ sessions \in Seq(Users)
          /\ next[c] <= Len(sessions) /\ Reset(sessions[next[c]])
      BY <1>5, TypeFacts DEF ChatInv, Broadcast, SendFails
    <2>2. next[c] \in 1..Len(sessions)
      BY <2>1
    <2>3. sessions[next[c]] \in Users
      BY <2>1, <2>2, ElementOfSeq
    <2> QED BY <2>1, <2>3 DEF Reset, SomebodyLeft
  <1> QED BY <1>2, <1>3, <1>4, <1>5

(* A thread that dies while everybody is there has met no server, and of   *)
(* what it read nobody has got anything (server.py lines 62 and 140).      *)
THEOREM DeadThreadsSilent == MessengerSpec => []DiesSilent
  <1> DEFINE I == ChatInv /\ NoServerInv /\ DiesSilent
  <1>1. MessengerInit => I
    <2> SUFFICES ASSUME MessengerInit PROVE I
      OBVIOUS
    <2>1. ChatInv
      BY ChatInit
    <2>2. \A d \in Users : client[d] = "off" /\ receiver[d] = "none"
      BY DEF MessengerInit
    <2> QED BY <2>1, <2>2, OffEmpty DEF NoServerInv, DiesSilent
  <1>2. I /\ [MessengerNext]_messengerVars => I'
    <2> SUFFICES ASSUME I, [MessengerNext]_messengerVars PROVE I'
      OBVIOUS
    <2>1. ChatInv'
      BY ChatNext
    <2>2. server' = "None" => server = "None"
      BY DEF MessengerNext, messengerVars, AssignServer, AcceptThread, Register, Accept,
             UserStep, Connect, Type, CloseWindow, Crash, ClientReceive, ReceiverThread,
             ReceiveText, ReceiveExit, Hangup, NoServer, Broadcast, EndBroadcast
    <2>3. NoServerInv'
      <3> SUFFICES ASSUME server' = "None", NEW d \in Users, NEW m \in Handed(d)' PROVE FALSE
        BY DEF NoServerInv
      <3>1. m \notin Handed(d)
        BY <2>2 DEF NoServerInv
      <3> QED BY <2>2, <3>1, HandedGrows
    <2>4. DiesSilent'
      <3> SUFFICES ASSUME ~SomebodyLeft', NEW c \in Users, NEW d \in Users,
                          receiver'[c] = "died", NEW m \in Handed(d)', m # Bye
                   PROVE  m.from # c
        BY DEF DiesSilent
      <3>1. ~SomebodyLeft
        BY LeavingLasts
      <3>2. CASE m \in Handed(d)
        <4>1. receiver[c] = "died"
          BY <3>1, <3>2, Dying DEF NoServerInv
        <4> QED BY <3>1, <3>2, <4>1 DEF DiesSilent
      <3>3. CASE m \notin Handed(d)
        <4>1. PICK t \in Users : /\ receiver[t] = "sending" /\ receiver'[t] = "sending"
                                 /\ m = message[t]
          BY <3>3, HandedGrows
        <4>2. t # c
          BY <4>1
        <4> QED BY <4>1, <4>2, MessageOfThread
      <3> QED BY <3>2, <3>3
    <2> QED BY <2>1, <2>3, <2>4
  <1>3. I => DiesSilent
    OBVIOUS
  <1> QED BY <1>1, <1>2, <1>3, PTL DEF MessengerSpec

-----------------------------------------------------------------------------
(* Chained lines rise.                                                     *)
LEMMA GreatestIndex ==
    ASSUME NEW n \in Nat, NEW T \in SUBSET (0..n), T # {}
    PROVE  \E x \in T : \A y \in T : y <= x
  <1>1. PICK below : below = {n - y : y \in T}
    OBVIOUS
  <1>2. below \in SUBSET Nat /\ below # {}
    <2>1. \A y \in T : y \in 0..n
      OBVIOUS
    <2>2. \A y \in T : n - y \in Nat
      BY <2>1
    <2> QED BY <1>1, <2>2
  <1>3. PICK x \in below : \A y \in below : <<y, x>> \notin OpToRel(<, Nat)
    BY <1>2, WFMin, NatLessThanWellFounded, Zenon
  <1>4. \A y \in below : ~(y < x)
    BY <1>2, <1>3, Zenon DEF OpToRel
  <1>5. PICK z \in T : x = n - z
    BY <1>1, <1>3
  <1>6. ASSUME NEW y \in T PROVE y <= z
    <2>1. n - y \in below /\ y \in 0..n /\ z \in 0..n
      BY <1>1
    <2>2. ~(n - y < n - z)
      BY <1>4, <1>5, <2>1
    <2> QED BY <2>1, <2>2
  <1> QED BY <1>6

LEMMA ChainedRises ==
    ASSUME NEW s \in Seq(AllMessages), Chained(s), NEW i \in DOMAIN s, NEW j \in DOMAIN s,
           i < j, s[i].from = s[j].from
    PROVE  s[i].last < s[j].first
  <1>1. /\ Len(s) \in Nat /\ DOMAIN s = 1..Len(s)
        /\ \A k \in DOMAIN s : /\ s[k].first \in Nat /\ s[k].last \in Nat
                               /\ s[k].first <= s[k].last
    <2>1. Len(s) \in Nat /\ DOMAIN s = 1..Len(s) /\ \A k \in DOMAIN s : s[k] \in AllMessages
      <3> HIDE DEF AllMessages
      <3> QED BY LenProperties, ElementOfSeq
    <2> QED BY <2>1, MessageFields
  <1>2. PICK bad : bad = {k \in DOMAIN s : i < k /\ s[k].from = s[i].from
                                           /\ ~(s[i].last < s[k].first)}
    OBVIOUS
  <1> SUFFICES ASSUME bad # {} PROVE FALSE
    BY <1>2
  <1>3. bad \in SUBSET Nat
    BY <1>1, <1>2
  <1>4. PICK k \in bad : \A y \in bad : <<y, k>> \notin OpToRel(<, Nat)
    BY <1>3, WFMin, NatLessThanWellFounded, Zenon
  <1>5. \A y \in bad : ~(y < k)
    BY <1>3, <1>4, Zenon DEF OpToRel
  <1>6. PICK T : T = {l \in i..(k - 1) : s[l].from = s[i].from}
    OBVIOUS
  <1>7. /\ k \in DOMAIN s /\ k \in Nat /\ i \in Nat /\ i < k /\ i \in T /\ T \in SUBSET (0..k)
        /\ s[k].from = s[i].from /\ ~(s[i].last < s[k].first)
    <2>1. /\ k \in DOMAIN s /\ i < k /\ s[k].from = s[i].from /\ ~(s[i].last < s[k].first)
      BY <1>2, <1>4
    <2>2. k \in Nat /\ i \in Nat /\ i \in i..(k - 1)
      BY <1>1, <2>1
    <2>3. T \in SUBSET (0..k)
      BY <1>6, <2>2
    <2> QED BY <1>6, <2>1, <2>2, <2>3
  <1>8. PICK g \in T : \A l \in T : l <= g
    BY <1>7, GreatestIndex
  <1>9. /\ g \in DOMAIN s /\ g \in i..(k - 1) /\ s[g].from = s[k].from
        /\ \A l \in (g + 1)..(k - 1) : s[l].from # s[g].from
    <2>1. g \in i..(k - 1) /\ s[g].from = s[i].from /\ g \in DOMAIN s
      BY <1>1, <1>6, <1>7, <1>8
    <2>2. ASSUME NEW l \in (g + 1)..(k - 1), s[l].from = s[g].from PROVE FALSE
      <3>1. l \in T
        BY <1>6, <1>7, <2>1, <2>2
      <3> QED BY <1>7, <1>8, <2>1, <2>2, <3>1
    <2> QED BY <1>2, <1>4, <2>1, <2>2
  <1>10. s[k].first = s[g].last + 1
    BY <1>7, <1>9 DEF Chained
  <1>11. CASE g = i
    BY <1>1, <1>7, <1>10, <1>11
  <1>12. CASE g # i
    <2>1. g < k /\ i < g /\ s[g].from = s[i].from
      BY <1>6, <1>7, <1>8, <1>9, <1>12
    <2>2. s[i].last < s[g].first
      BY <1>2, <1>5, <1>9, <2>1
    <2> QED BY <1>1, <1>7, <1>9, <1>10, <2>2
  <1> QED BY <1>11, <1>12

(* A message behind a chained line goes on where the last one of its       *)
(* sender ended, and behind all of them.                                   *)
LEMMA ChainGoesOn ==
    ASSUME NEW s \in Seq(AllMessages), NEW m \in AllMessages, NEW t, t = Append(s, m),
           Chained(t)
    PROVE  /\ \A i \in DOMAIN s : s[i].from = m.from => s[i].last < m.first
           /\ (\E i \in DOMAIN s : s[i].from = m.from)
                 => \E i \in DOMAIN s : s[i].from = m.from /\ m.first = s[i].last + 1
  <1>1. /\ Len(s) \in Nat /\ DOMAIN s = 1..Len(s) /\ DOMAIN t = 1..(Len(s) + 1)
        /\ \A i \in 1..Len(s) : t[i] = s[i]
        /\ t[Len(s) + 1] = m /\ t \in Seq(AllMessages)
    <2> HIDE DEF AllMessages
    <2> QED BY AppendProperties, LenProperties
  <1>2. PICK n : n = Len(s) + 1 /\ n \in DOMAIN t /\ n \in Nat
    BY <1>1
  <1>3. ASSUME NEW i \in DOMAIN s, s[i].from = m.from PROVE s[i].last < m.first
    <2>1. i \in DOMAIN t /\ i < n /\ t[i] = s[i] /\ t[n] = m
      BY <1>1, <1>2
    <2>2. t[i].last < t[n].first
      BY <1>1, <1>2, <1>3, <2>1, ChainedRises
    <2> QED BY <2>1, <2>2
  <1>4. ASSUME NEW i \in DOMAIN s, s[i].from = m.from
        PROVE  \E g \in DOMAIN s : s[g].from = m.from /\ m.first = s[g].last + 1
    <2>1. PICK T : T = {l \in DOMAIN s : s[l].from = m.from}
      OBVIOUS
    <2>2. i \in T /\ T \in SUBSET (0..n)
      BY <1>1, <1>2, <1>4, <2>1
    <2>3. PICK g \in T : \A l \in T : l <= g
      BY <1>2, <2>2, GreatestIndex
    <2>4. /\ g \in DOMAIN s /\ g \in DOMAIN t /\ g < n /\ t[g] = s[g] /\ t[n] = m
          /\ t[g].from = t[n].from
      BY <1>1, <1>2, <2>1, <2>3
    <2>5. \A l \in (g + 1)..(n - 1) : t[l].from # t[g].from
      <3> SUFFICES ASSUME NEW l \in (g + 1)..(n - 1), t[l].from = t[g].from PROVE FALSE
        OBVIOUS
      <3>1. l \in DOMAIN s /\ t[l] = s[l] /\ ~(l <= g)
        BY <1>1, <1>2, <2>4
      <3> QED BY <2>1, <2>3, <2>4, <3>1
    <2>6. t[n].first = t[g].last + 1
      BY <1>2, <2>4, <2>5 DEF Chained
    <2> QED BY <2>4, <2>6
  <1> QED BY <1>3, <1>4

-----------------------------------------------------------------------------
(* Nobody is handed a message of its own, or a text the server has not     *)
(* read, dead threads included.                                            *)
PostedInv ==
    \A d \in Users : \A m \in Handed(d) :
        m # Bye => m.from \in Users \ {d} /\ m.last <= read[m.from]

LEMMA ReadGrows ==
    ASSUME ChatTypes, [MessengerNext]_messengerVars, NEW c \in Users
    PROVE  read[c] \in Nat /\ read'[c] \in Nat /\ read[c] <= read'[c]
  <1>1. read \in [Users -> Nat] /\ read' \in [Users -> Nat] /\ typed \in [Users -> Nat]
    BY ChatTypesNext, TypeFacts DEF ChatTypes
  <1>2. CASE \E t \in Users : ReceiveText(t)
    <2>1. PICK t \in Users : ReceiveText(t)
      BY <1>2
    <2>2. PICK n \in (read[t] + 1)..typed[t] : read' = [read EXCEPT ![t] = n]
      BY <2>1 DEF ReceiveText
    <2>3. read[t] \in Nat /\ typed[t] \in Nat
      BY <1>1
    <2>4. read[t] <= n
      BY <2>2, <2>3
    <2> QED BY <1>1, <2>2, <2>4
  <1>3. CASE read' = read
    BY <1>1, <1>3
  <1>4. read' = read \/ \E t \in Users : ReceiveText(t)
    BY DEF MessengerNext, messengerVars, AssignServer, AcceptThread, Register, Accept, UserStep,
           Connect, Type, CloseWindow, Crash, ClientReceive, ReceiverThread, ReceiveExit,
           Hangup, NoServer, Broadcast, EndBroadcast
  <1> QED BY <1>2, <1>3, <1>4

LEMMA HandedPackets ==
    ASSUME ChatTypes, NEW d \in Users, NEW m \in Handed(d)
    PROVE  m \in Packets
  <1>1. PICK u, s : u \in Seq(AllMessages) /\ u = shown[d] /\ s \in Seq(Packets) /\ s = toClient[d]
    BY TypeFacts
  <1>2. \A i \in DOMAIN u : u[i] \in AllMessages
    BY <1>1
  <1>3. \A i \in DOMAIN s : s[i] \in Packets
    BY <1>1
  <1> QED BY <1>1, <1>2, <1>3 DEF Handed, Packets

LEMMA PostedAlways == MessengerSpec => []PostedInv
  <1>1. MessengerInit => PostedInv
    <2> SUFFICES ASSUME MessengerInit, NEW d \in Users PROVE Handed(d) = {}
      BY DEF PostedInv
    <2>1. ChatInv /\ client[d] = "off"
      BY ChatInit DEF MessengerInit
    <2> QED BY <2>1, OffEmpty
  <1>2. ChatInv /\ PostedInv /\ [MessengerNext]_messengerVars => PostedInv'
    <2> SUFFICES ASSUME ChatInv, PostedInv, [MessengerNext]_messengerVars,
                        NEW d \in Users, NEW m \in Handed(d)', m # Bye
                 PROVE  m.from \in Users \ {d} /\ m.last <= read'[m.from]
      BY DEF PostedInv
    <2>1. ChatTypes
      BY DEF ChatInv
    <2>2. CASE m \in Handed(d)
      <3>1. m \in AllMessages
        BY <2>1, <2>2, HandedPackets DEF Packets
      <3>2. m.last \in Nat
        BY <3>1, MessageFields
      <3>3. PICK c \in Users \ {d} : c = m.from
        BY <2>2 DEF PostedInv
      <3>4. m.last <= read[c]
        BY <2>2, <3>3 DEF PostedInv
      <3>5. read[c] \in Nat /\ read'[c] \in Nat /\ read[c] <= read'[c]
        BY <2>1, ReadGrows
      <3> QED BY <3>2, <3>3, <3>4, <3>5
    <2>3. CASE m \notin Handed(d)
      <3>1. PICK t \in Users \ {d} : receiver[t] = "sending" /\ m = message[t]
        BY <2>3, HandedGrows
      <3>2. m.from = t /\ m.last = read[t]
        BY <3>1, MessageOfThread DEF ChatInv, ThreadInv, Sending
      <3>3. read[t] \in Nat /\ read'[t] \in Nat /\ read[t] <= read'[t]
        BY <2>1, ReadGrows
      <3> QED BY <3>2, <3>3
    <2> QED BY <2>2, <2>3
  <1> QED BY <1>1, <1>2, ChatAlways, PTL DEF MessengerSpec

-----------------------------------------------------------------------------
(* The chat implements Chat: only a client that shows a message changes    *)
(* what is seen, and that message goes on where its sender's last ended.   *)
LEMMA SeenSame ==
    ASSUME shown' = shown
    PROVE  \A d, c \in Users : SeenTexts(d, c)' = SeenTexts(d, c)
  BY DEF SeenTexts, Shows

LEMMA SeenNext ==
    ASSUME ChatTypes, NEW d \in Users, NEW m \in AllMessages,
           NEW c, NEW a, NEW b, c = m.from, a = m.first, b = m.last,
           shown'[d] = Append(shown[d], m), \A x \in Users \ {d} : shown'[x] = shown[x]
    PROVE  /\ SeenTexts(d, c)' = SeenTexts(d, c) \union a..b
           /\ \A x, y \in Users : x # d \/ y # c => SeenTexts(x, y)' = SeenTexts(x, y)
  <1>1. shown \in [Users -> Seq(AllMessages)]
    BY TypeFacts
  <1>2. PICK u, v : u \in Seq(AllMessages) /\ u = shown[d] /\ v = shown'[d] /\ v = Append(u, m)
    BY <1>1
  <1>3. /\ Len(u) \in Nat /\ DOMAIN u = 1..Len(u) /\ DOMAIN v = 1..(Len(u) + 1)
        /\ \A i \in 1..Len(u) : v[i] = u[i]
        /\ v[Len(u) + 1] = m
    <2> HIDE DEF AllMessages
    <2> QED BY <1>2, AppendProperties, LenProperties
  <1>4. /\ \A i \in DOMAIN u : i \in DOMAIN v /\ v[i] = u[i]
        /\ \A i \in DOMAIN v : (i \in DOMAIN u /\ v[i] = u[i]) \/ v[i] = m
        /\ \E i \in DOMAIN v : v[i] = m
    BY <1>3
  <1>5. ASSUME NEW y \in Users, NEW n
        PROVE  Shows(d, y, n)' <=> Shows(d, y, n) \/ (y = c /\ n \in a..b)
    <2>1. Shows(d, y, n) <=> \E i \in DOMAIN u : u[i].from = y /\ n \in u[i].first..u[i].last
      BY <1>2 DEF Shows
    <2>2. Shows(d, y, n)' <=> \E i \in DOMAIN v : v[i].from = y /\ n \in v[i].first..v[i].last
      BY <1>2 DEF Shows
    <2> HIDE DEF Shows
    <2> QED BY <1>4, <2>1, <2>2
  <1>6. c \in Users /\ a..b \subseteq 1..Texts[c]
    <2>1. c \in Users /\ m \in Messages(c)
      BY MessageFields
    <2>2. Texts[c] \in Nat
      BY <2>1, TextsAssumption
    <2> QED BY <2>1, <2>2 DEF Messages
  <1>7. SeenTexts(d, c)' = SeenTexts(d, c) \union a..b
    BY <1>5, <1>6 DEF SeenTexts
  <1>8. ASSUME NEW x \in Users, NEW y \in Users, x # d \/ y # c
        PROVE  SeenTexts(x, y)' = SeenTexts(x, y)
    <2>1. CASE x # d
      BY <1>1, <2>1 DEF SeenTexts, Shows
    <2>2. CASE x = d /\ y # c
      BY <1>5, <2>2 DEF SeenTexts
    <2> QED BY <1>8, <2>1, <2>2
  <1> QED BY <1>7, <1>8

LEMMA ChatStutters ==
    ASSUME UNCHANGED <<typed, read, shown>>
    PROVE  [Promise!ChatNext]_Promise!chatVars
  <1>1. \A d, c \in Users : SeenTexts(d, c)' = SeenTexts(d, c)
    BY SeenSame
  <1> QED BY <1>1 DEF Promise!chatVars

LEMMA ChatSays ==
    ASSUME NEW c \in Users, Type(c)
    PROVE  Promise!ChatNext
  <1>1. \A d, b \in Users : SeenTexts(d, b)' = SeenTexts(d, b)
    BY SeenSame DEF Type
  <1>2. Promise!Say(c)
    BY <1>1 DEF Type, Promise!Say
  <1> QED BY <1>2 DEF Promise!ChatNext

LEMMA ChatPosts ==
    ASSUME NEW c \in Users, ReceiveText(c)
    PROVE  Promise!ChatNext
  <1>1. \A d, b \in Users : SeenTexts(d, b)' = SeenTexts(d, b)
    BY SeenSame DEF ReceiveText
  <1>2. /\ \E n \in (read[c] + 1)..typed[c] : read' = [read EXCEPT ![c] = n]
        /\ typed' = typed
    BY DEF ReceiveText
  <1>3. [d \in Users |-> [b \in Users |-> SeenTexts(d, b)]]'
            = [d \in Users |-> [b \in Users |-> SeenTexts(d, b)]]
    BY <1>1
  <1>4. Promise!Post(c)
    BY <1>2, <1>3 DEF Promise!Post
  <1> QED BY <1>4 DEF Promise!ChatNext

LEMMA ChatSees ==
    ASSUME ChatInv, ChatInv', PostedInv, NEW d \in Users, ClientReceive(d), ShowNext(d)
    PROVE  Promise!ChatNext
  <1>1. /\ ChatTypes /\ toClient[d] \in Seq(Packets) /\ toClient[d] # <<>>
        /\ shown[d] \in Seq(AllMessages) /\ shown \in [Users -> Seq(AllMessages)]
    BY TypeFacts DEF ChatInv, ClientReceive
  <1>2. PICK m : m = Head(toClient[d])
    OBVIOUS
  <1>3. /\ m \in Packets /\ m # Bye /\ m \in Handed(d)
        /\ shown' = [shown EXCEPT ![d] = Append(shown[d], m)] /\ UNCHANGED <<typed, read>>
    <2>1. /\ m \in Packets /\ m = toClient[d][1] /\ 1 \in DOMAIN toClient[d]
      BY <1>1, <1>2, HeadTailProperties, EmptySeq
    <2>2. m \in Handed(d)
      BY <2>1 DEF Handed
    <2> QED BY <1>2, <2>1, <2>2 DEF ClientReceive, ShowNext
  <1>4. m \in AllMessages
    BY <1>3 DEF Packets
  <1>5. PICK c \in Users, a \in Nat \ {0}, b \in Nat \ {0} :
           c = m.from /\ a = m.first /\ b = m.last /\ a <= b
    BY <1>4, MessageFields
  <1>6. c # d /\ b <= read[c] /\ read[c] \in Nat
    BY <1>1, <1>3, <1>5, TypeFacts DEF PostedInv
  <1>7. PICK u, v : /\ u = shown[d] /\ u \in Seq(AllMessages) /\ v = shown'[d]
                    /\ v = Append(u, m)
    BY <1>1, <1>3
  <1>8. Chained(v)
    <2>1. Chained(shown[d])'
      BY DEF ChatInv
    <2> QED BY <1>7, <2>1 DEF Chained
  <1>9. /\ \A i \in DOMAIN u : u[i].from = c => u[i].last < a
        /\ (\E i \in DOMAIN u : u[i].from = c)
              => \E i \in DOMAIN u : u[i].from = c /\ a = u[i].last + 1
    BY <1>4, <1>5, <1>7, <1>8, ChainGoesOn
  <1>10. \A i \in DOMAIN u : /\ u[i].first \in Nat \ {0} /\ u[i].last \in Nat \ {0}
                             /\ u[i].first <= u[i].last /\ u[i] \in Messages(u[i].from)
    BY <1>7, MessageFields
  <1>11. PICK old : old = SeenTexts(d, c)
    OBVIOUS
  <1>12. /\ \A n \in old : n \in Nat /\ n < a
         /\ old # {} => a - 1 \in old
    <2>1. \A n : n \in old <=> n \in 1..Texts[c] /\ \E i \in DOMAIN u :
                                   u[i].from = c /\ n \in u[i].first..u[i].last
      BY <1>7, <1>11 DEF SeenTexts, Shows
    <2>2. ASSUME NEW n \in old PROVE n \in Nat /\ n < a
      <3>1. PICK i \in DOMAIN u : u[i].from = c /\ n \in u[i].first..u[i].last
        BY <2>1
      <3> QED BY <1>9, <1>10, <3>1
    <2>3. ASSUME old # {} PROVE a - 1 \in old
      <3>1. \E i \in DOMAIN u : u[i].from = c
        BY <2>1, <2>3
      <3>2. PICK i \in DOMAIN u : u[i].from = c /\ a = u[i].last + 1
        BY <1>9, <3>1
      <3>3. u[i].last \in 1..Texts[c]
        BY <1>10, <3>2 DEF Messages
      <3>4. a - 1 = u[i].last /\ a - 1 \in u[i].first..u[i].last
        BY <1>10, <3>2
      <3> QED BY <2>1, <3>2, <3>3, <3>4
    <2> QED BY <2>2, <2>3
  <1>13. /\ SeenTexts(d, c)' = old \union a..b
         /\ \A x, y \in Users : x # d \/ y # c => SeenTexts(x, y)' = SeenTexts(x, y)
    <2>1. ChatTypes /\ c = m.from /\ a = m.first /\ b = m.last
      BY <1>1, <1>5
    <2>2. /\ shown'[d] = Append(shown[d], m)
          /\ \A x \in Users \ {d} : shown'[x] = shown[x]
      BY <1>1, <1>3
    <2>3. /\ SeenTexts(d, c)' = SeenTexts(d, c) \union a..b
          /\ \A x, y \in Users : x # d \/ y # c => SeenTexts(x, y)' = SeenTexts(x, y)
      BY <1>4, <2>1, <2>2, SeenNext
    <2> QED BY <1>11, <2>3
  <1>14. b \in 1..read[c] /\ a \in 1..b /\ a \in a..b /\ a \notin old
    BY <1>5, <1>6, <1>12
  <1>15. PICK before, after :
            /\ before = [x \in Users |-> [y \in Users |-> SeenTexts(x, y)]]
            /\ after = [x \in Users |-> [y \in Users |-> SeenTexts(x, y)']]
    OBVIOUS
  <1>16. after = [before EXCEPT ![d][c] = @ \union a..b]
    BY <1>11, <1>13, <1>15
  <1>17. before[d][c] = old /\ after[d][c] = old \union a..b
    BY <1>11, <1>13, <1>15
  <1>18. Promise!GoesOn(before[d][c], a)
    BY <1>12, <1>17 DEF Promise!GoesOn
  <1>19. [x \in Users |-> [y \in Users |-> SeenTexts(x, y)]]' = after
    BY <1>15
  <1>20. a \in after[d][c] \ before[d][c]
    BY <1>14, <1>17
  <1>21. Promise!See(d, c)
    BY <1>3, <1>6, <1>14, <1>15, <1>16, <1>18, <1>19, <1>20 DEF Promise!See
  <1> QED BY <1>21 DEF Promise!ChatNext

LEMMA PromiseStep ==
    ChatInv /\ ChatInv' /\ PostedInv /\ [MessengerNext]_messengerVars
        => [Promise!ChatNext]_Promise!chatVars
  <1> SUFFICES ASSUME ChatInv, ChatInv', PostedInv, [MessengerNext]_messengerVars
               PROVE  [Promise!ChatNext]_Promise!chatVars
    OBVIOUS
  <1>1. \/ UNCHANGED <<typed, read, shown>>
        \/ \E c \in Users : \/ Type(c) \/ ReceiveText(c)
                            \/ ClientReceive(c) /\ ShowNext(c)
    BY DEF MessengerNext, messengerVars, AssignServer, AcceptThread, Register, Accept, UserStep,
           Connect, CloseWindow, Crash, ClientReceive, ReadTogether, ReadClosing,
           ReceiverThread, ReceiveExit, Hangup, NoServer, Broadcast, EndBroadcast
  <1> QED BY <1>1, ChatStutters, ChatSays, ChatPosts, ChatSees

LEMMA PromiseInit == MessengerInit => Promise!ChatInit
  <1> SUFFICES ASSUME MessengerInit PROVE Promise!ChatInit
    OBVIOUS
  <1>1. /\ typed = [c \in Users |-> 0] /\ read = [c \in Users |-> 0]
        /\ \A d \in Users : DOMAIN shown[d] = {}
    BY DEF MessengerInit
  <1>2. \A d, c \in Users : SeenTexts(d, c) = {}
    BY <1>1 DEF SeenTexts, Shows
  <1> QED BY <1>1, <1>2 DEF Promise!ChatInit

(* The chat keeps the promise of Chat, for any users and texts.            *)
THEOREM MessengerImplementsChat == MessengerSpec => ImplementsChat
  BY PromiseInit, PromiseStep, ChatAlways, PostedAlways, PTL
  DEF MessengerSpec, ImplementsChat, Promise!ChatSpec

-----------------------------------------------------------------------------
(* Whoever has a session when text n of c is still to be read: what it     *)
(* gets of c begins with n, or before it.                                  *)
Begun(s, c, n) ==
    \A i \in DOMAIN s : s[i].from = c =>
        \E j \in DOMAIN s : j <= i /\ s[j].from = c /\ s[j].first <= n

NoneOf(s, c) == \A i \in DOMAIN s : s[i].from # c

InTime(c, d, n) ==
    /\ Registered(d)
    /\ Begun(shown[d], c, n)
    /\ client[d] = "on" =>
          /\ Begun(Line(d), c, n)
          /\ receiver[c] # "died" /\ NoneOf(Line(d), c) =>
                 IF Ahead(c, d) THEN message[c].first <= n ELSE read[c] < n

LEMMA Stretch ==
    ASSUME NEW s \in Seq(AllMessages), Chained(s), NEW c, NEW n \in Nat,
           NEW i \in DOMAIN s, NEW j \in DOMAIN s, j <= i,
           s[i].from = c, s[j].from = c, s[j].first <= n, n <= s[i].last
    PROVE  \E l \in DOMAIN s : s[l].from = c /\ n \in s[l].first..s[l].last
  <1>1. /\ Len(s) \in Nat /\ DOMAIN s = 1..Len(s)
        /\ \A k \in DOMAIN s : /\ s[k].first \in Nat /\ s[k].last \in Nat
                               /\ s[k].first <= s[k].last
    <2>1. Len(s) \in Nat /\ DOMAIN s = 1..Len(s) /\ \A k \in DOMAIN s : s[k] \in AllMessages
      <3> HIDE DEF AllMessages
      <3> QED BY LenProperties, ElementOfSeq
    <2> QED BY <2>1, MessageFields
  <1>2. PICK up : up = {k \in j..i : s[k].from = c /\ n <= s[k].last}
    OBVIOUS
  <1>3. i \in up /\ up \in SUBSET Nat
    BY <1>1, <1>2
  <1>4. PICK l \in up : \A y \in up : <<y, l>> \notin OpToRel(<, Nat)
    BY <1>3, WFMin, NatLessThanWellFounded, Zenon
  <1>5. \A y \in up : ~(y < l)
    BY <1>3, <1>4, Zenon DEF OpToRel
  <1>6. l \in DOMAIN s /\ l \in j..i /\ s[l].from = c /\ n <= s[l].last /\ l \in Nat
    <2>1. l \in j..i /\ s[l].from = c /\ n <= s[l].last
      BY <1>2, <1>4
    <2> QED BY <1>1, <2>1
  <1>7. CASE l = j
    BY <1>1, <1>6, <1>7
  <1>8. CASE l # j
    <2>1. PICK T : T = {k \in j..(l - 1) : s[k].from = c}
      OBVIOUS
    <2>2. j \in T /\ T \in SUBSET (0..l)
      <3>1. j \in Nat /\ j \in j..(l - 1)
        BY <1>1, <1>6, <1>8
      <3>2. T \in SUBSET (0..l)
        BY <1>6, <2>1, <3>1
      <3> QED BY <2>1, <3>1, <3>2
    <2>3. PICK g \in T : \A k \in T : k <= g
      BY <1>6, <2>2, GreatestIndex
    <2>4. g \in DOMAIN s /\ g \in j..(l - 1) /\ s[g].from = c /\ g < l /\ g \in j..i
      BY <1>1, <1>6, <2>1, <2>3
    <2>5. \A k \in (g + 1)..(l - 1) : s[k].from # s[g].from
      <3> SUFFICES ASSUME NEW k \in (g + 1)..(l - 1), s[k].from = c PROVE FALSE
        BY <2>4
      <3>1. k \in T /\ ~(k <= g)
        BY <1>1, <1>6, <2>1, <2>4
      <3> QED BY <2>3, <3>1
    <2>6. s[l].first = s[g].last + 1
      BY <1>6, <2>4, <2>5 DEF Chained
    <2>7. ~(n <= s[g].last)
      BY <1>2, <1>5, <2>4
    <2>8. s[l].first <= n
      BY <1>1, <1>6, <2>4, <2>6, <2>7
    <2> QED BY <1>1, <1>6, <2>8
  <1> QED BY <1>7, <1>8

LEMMA Beginnings ==
    ASSUME NEW s \in Seq(AllMessages), NEW m \in AllMessages, NEW t, t = Append(s, m),
           NEW c, NEW n, Begun(s, c, n)
    PROVE  /\ m.from # c => Begun(t, c, n) /\ (NoneOf(t, c) => NoneOf(s, c))
           /\ m.from = c /\ (NoneOf(s, c) => m.first <= n) => Begun(t, c, n) /\ ~NoneOf(t, c)
  <1>1. /\ Len(s) \in Nat /\ DOMAIN s = 1..Len(s) /\ DOMAIN t = 1..(Len(s) + 1)
        /\ \A i \in 1..Len(s) : t[i] = s[i]
        /\ t[Len(s) + 1] = m
    <2> HIDE DEF AllMessages
    <2> QED BY AppendProperties, LenProperties
  <1>2. PICK e : /\ e \in Nat /\ e \in DOMAIN t /\ t[e] = m
                 /\ \A i \in DOMAIN s : i \in DOMAIN t /\ t[i] = s[i] /\ i <= e /\ i <= i
                 /\ \A i \in DOMAIN t : i \in DOMAIN s \/ i = e
                 /\ e <= e
    <2>1. PICK e \in Nat : e = Len(s) + 1
      BY <1>1
    <2>2. e \in DOMAIN t /\ t[e] = m
      BY <1>1, <2>1
    <2>3. \A i \in DOMAIN s : i \in DOMAIN t /\ t[i] = s[i] /\ i <= e /\ i <= i
      BY <1>1, <2>1
    <2>4. \A i \in DOMAIN t : i \in DOMAIN s \/ i = e
      BY <1>1, <2>1
    <2> QED BY <2>1, <2>2, <2>3, <2>4
  <1>3. \A i \in DOMAIN s : t[i].from = c =>
           \E j \in DOMAIN t : j <= i /\ t[j].from = c /\ t[j].first <= n
    BY <1>2 DEF Begun
  <1>4. ASSUME m.from # c PROVE Begun(t, c, n) /\ (NoneOf(t, c) => NoneOf(s, c))
    BY <1>2, <1>3, <1>4 DEF Begun, NoneOf
  <1>5. ASSUME m.from = c, NoneOf(s, c) => m.first <= n
        PROVE  Begun(t, c, n) /\ ~NoneOf(t, c)
    <2>1. \E j \in DOMAIN t : j <= e /\ t[j].from = c /\ t[j].first <= n
      <3>1. CASE NoneOf(s, c)
        BY <1>2, <1>5, <3>1
      <3>2. CASE ~NoneOf(s, c)
        <4>1. PICK i \in DOMAIN s : s[i].from = c
          BY <3>2 DEF NoneOf
        <4>2. PICK j \in DOMAIN s : s[j].from = c /\ s[j].first <= n
          BY <4>1 DEF Begun
        <4> QED BY <1>2, <4>2
      <3> QED BY <3>1, <3>2
    <2> QED BY <1>2, <1>3, <1>5, <2>1 DEF Begun, NoneOf
  <1> QED BY <1>4, <1>5

LEMMA BegunFirst ==
    ASSUME NEW s \in Seq(AllMessages), NEW t \in Seq(AllMessages), NEW c, NEW n,
           Begun(s \o t, c, n)
    PROVE  Begun(s, c, n)
  <1>1. PICK u : u = s \o t
    OBVIOUS
  <1>2. /\ Len(s) \in Nat /\ Len(t) \in Nat /\ DOMAIN s = 1..Len(s)
        /\ DOMAIN u = 1..(Len(s) + Len(t)) /\ \A i \in 1..Len(s) : u[i] = s[i]
    <2> HIDE DEF AllMessages
    <2> QED BY <1>1, ConcatProperties, LenProperties
  <1>3. Begun(u, c, n)
    BY <1>1
  <1>4. /\ \A i \in DOMAIN s : i \in DOMAIN u /\ u[i] = s[i]
        /\ \A i \in DOMAIN s : \A j \in DOMAIN u : j <= i => j \in DOMAIN s
    BY <1>2
  <1> QED BY <1>3, <1>4 DEF Begun

LEMMA InTimeBegins ==
    ASSUME ChatInv, PostedInv, NEW c \in Users, NEW d \in Users \ {c}, NEW n \in Nat,
           Registered(d), read[c] < n
    PROVE  InTime(c, d, n)
  <1>1. read[c] \in Nat /\ shown[d] \in Seq(AllMessages)
    BY TypeFacts DEF ChatInv
  <1>2. ASSUME NEW m \in AllMessages, m.from = c, m.last <= read[c] PROVE m.first <= n
    <2>1. m.first \in Nat /\ m.last \in Nat /\ m.first <= m.last
      BY MessageFields
    <2> QED BY <1>1, <1>2, <2>1
  <1>3. ASSUME NEW m \in Handed(d), m \in AllMessages, m.from = c PROVE m.first <= n
    <2>1. m # Bye
      BY <1>3, MessageFields
    <2> QED BY <1>2, <1>3, <2>1 DEF PostedInv
  <1>4. ASSUME NEW s \in Seq(AllMessages), \A i \in DOMAIN s : s[i] \in Handed(d)
        PROVE  Begun(s, c, n)
    <2>1. ASSUME NEW i \in DOMAIN s, s[i].from = c PROVE i <= i /\ s[i].first <= n
      <3>1. s[i] \in AllMessages /\ i \in Nat
        BY <1>4
      <3> QED BY <1>3, <1>4, <2>1, <3>1
    <2> QED BY <2>1 DEF Begun
  <1>5. Begun(shown[d], c, n)
    BY <1>1, <1>4 DEF Handed
  <1>6. ASSUME client[d] = "on" PROVE Begun(Line(d), c, n)
    <2>1. /\ shown[d] \in Seq(AllMessages) /\ toClient[d] \in Seq(AllMessages)
          /\ Line(d) \in Seq(AllMessages)
      BY <1>6, OnLine
    <2>2. Handed(d) = {Line(d)[i] : i \in DOMAIN Line(d)}
      BY <2>1, ConcatElements DEF Handed, Line
    <2> QED BY <1>4, <2>1, <2>2
  <1>7. ASSUME Ahead(c, d) PROVE message[c].first <= n
    <2>1. receiver[c] = "sending" /\ message[c].last = read[c]
      BY <1>7 DEF Ahead, Sending, ChatInv, ThreadInv
    <2>2. message[c] \in AllMessages /\ message[c].from = c
      BY <2>1, MessageOfThread
    <2> QED BY <1>1, <1>2, <2>1, <2>2
  <1> QED BY <1>5, <1>6, <1>7 DEF InTime

LEMMA InTimeStays ==
    ASSUME ChatInv, NEW c \in Users, NEW d \in Users \ {c}, NEW n \in Nat,
           InTime(c, d, n), [MessengerNext]_messengerVars
    PROVE  InTime(c, d, n)'
  <1>1. ChatInv' /\ AllAdvance
    BY ChatNext
  <1>2. Registered(d)'
    <2>1. CASE sessions' = sessions
      BY <2>1 DEF Registered, InTime
    <2>2. CASE Register
      <3>1. sessions' = Append(sessions, accepting) /\ sessions \in Seq(Users) /\ accepting \in Users
        BY <2>2 DEF Register, ChatInv, ChatTypes, MessengerTypeOK
      <3>2. \A p \in DOMAIN sessions : p \in DOMAIN sessions' /\ sessions'[p] = sessions[p]
        BY <3>1, AppendProperties
      <3> QED BY <3>2 DEF Registered, InTime
    <2>3. sessions' = sessions \/ Register
      BY DEF MessengerNext, messengerVars, AssignServer, AcceptThread, Accept, UserStep,
             Connect, Type, CloseWindow, Crash, ClientReceive, ReceiverThread, ReceiveText,
             ReceiveExit, Hangup, NoServer, Broadcast, EndBroadcast
    <2> QED BY <2>1, <2>2, <2>3
  <1>3. client'[d] = "on" => client[d] = "on"
    <2>1. client[d] # "off"
      BY OffEmpty DEF InTime
    <2> QED BY <2>1, TypeFacts
        DEF ChatInv, MessengerNext, messengerVars, AssignServer, AcceptThread, Register, Accept,
            UserStep, Connect, Type, CloseWindow, Crash, ClientReceive, ShowNext, ReadTogether,
            ReadClosing, ReceiverThread, ReceiveText, ReceiveExit, Hangup, NoServer, Broadcast,
            EndBroadcast
  <1>4. shown'[d] = shown[d] \/ client'[d] = "on"
    BY TypeFacts
    DEF ChatInv, MessengerNext, messengerVars, AssignServer, AcceptThread, Register, Accept,
        UserStep, Connect, Type, CloseWindow, Crash, ClientReceive, ShowNext, ReadTogether,
        ReadClosing, ReceiverThread, ReceiveText, ReceiveExit, Hangup, NoServer, Broadcast,
        EndBroadcast
  <1>5. ASSUME client'[d] = "on"
        PROVE  /\ Begun(Line(d)', c, n)
               /\ receiver'[c] # "died" /\ NoneOf(Line(d)', c) =>
                      IF Ahead(c, d)' THEN message'[c].first <= n ELSE read'[c] < n
    <2>1. /\ client[d] = "on" /\ Begun(Line(d), c, n) /\ Line(d) \in Seq(AllMessages)
          /\ receiver[c] # "died" /\ NoneOf(Line(d), c) =>
                 IF Ahead(c, d) THEN message[c].first <= n ELSE read[c] < n
      BY <1>3, <1>5, OnLine DEF InTime
    <2>2. Advances(c, d)
      BY <1>1, <1>5, <2>1 DEF AllAdvance, InTime
    <2>3. CASE LoopStays(c, d) /\ Line(d)' = Line(d)
      BY <2>1, <2>3 DEF LoopStays, Begun, NoneOf
    <2>4. CASE LoopStays(c, d)
               /\ \E m \in AllMessages : m.from # c /\ Line(d)' = Append(Line(d), m)
      <3>1. PICK m \in AllMessages : m.from # c /\ Line(d)' = Append(Line(d), m)
        BY <2>4
      <3>2. PICK s, t : s = Line(d) /\ t = Line(d)'
        OBVIOUS
      <3>3. Begun(t, c, n) /\ (NoneOf(t, c) => NoneOf(s, c))
        BY <2>1, <3>1, <3>2, Beginnings
      <3> QED BY <2>1, <2>4, <3>2, <3>3 DEF LoopStays
    <2>5. CASE /\ receiver[c] # "died" /\ ~Ahead(c, d) /\ Ahead(c, d)'
               /\ message'[c].first = read[c] + 1 /\ Line(d)' = Line(d)
      <3>1. read[c] \in Nat
        BY TypeFacts DEF ChatInv
      <3>2. NoneOf(Line(d), c) => message'[c].first <= n
        BY <2>1, <2>5, <3>1
      <3> QED BY <2>1, <2>5, <3>2 DEF Begun, NoneOf
    <2>6. CASE /\ receiver[c] # "died" /\ Ahead(c, d)
               /\ \E m \in AllMessages : m = message[c] /\ m.from = c
                                       /\ Line(d)' = Append(Line(d), m)
      <3>1. PICK m \in AllMessages : m = message[c] /\ m.from = c /\ Line(d)' = Append(Line(d), m)
        BY <2>6
      <3>2. PICK s, t : s = Line(d) /\ t = Line(d)'
        OBVIOUS
      <3>3. Begun(t, c, n) /\ ~NoneOf(t, c)
        BY <2>1, <2>6, <3>1, <3>2, Beginnings
      <3> QED BY <3>2, <3>3
    <2> QED BY <2>2, <2>3, <2>4, <2>5, <2>6 DEF Advances
  <1>6. Begun(shown'[d], c, n)
    <2>1. CASE shown'[d] = shown[d]
      BY <2>1 DEF InTime
    <2>2. CASE client'[d] = "on"
      <3>1. shown'[d] \in Seq(AllMessages) /\ toClient'[d] \in Seq(AllMessages)
        <4>1. ChatTypes' /\ LineInv(d)'
          BY <1>1 DEF ChatInv
        <4> QED BY <2>2, <4>1 DEF ChatTypes, MessengerTypeOK, LineInv
      <3>2. Begun(shown'[d] \o toClient'[d], c, n)
        BY <1>5, <2>2 DEF Line
      <3> QED BY <3>1, <3>2, BegunFirst
    <2> QED BY <1>4, <2>1, <2>2
  <1>7. Begun(shown[d], c, n)'
    BY <1>6 DEF Begun
  <1>8. client'[d] = "on" =>
          (/\ Begun(Line(d), c, n)
           /\ receiver[c] # "died" /\ NoneOf(Line(d), c) =>
                  IF Ahead(c, d) THEN message[c].first <= n ELSE read[c] < n)'
    BY <1>5 DEF Begun, NoneOf
  <1> QED BY <1>2, <1>7, <1>8 DEF InTime

(* Whoever has a session when text n of c is still to be read and shows n  *)
(* or a later text of c shows n: the appended sessions, the loops and the  *)
(* texts read together make no client miss the text it was there for       *)
(* (server.py lines 41-64 and 112).                                        *)
NothingMissed ==
    \A c \in Users : \A d \in Users \ {c} : \A n \in 1..Texts[c] :
        [](Registered(d) /\ read[c] < n =>
               [](\A k \in n..Texts[c] : Shows(d, c, k) => Shows(d, c, n)))

LEMMA InTimeShows ==
    ASSUME ChatInv, NEW c \in Users, NEW d \in Users, NEW n \in Nat, InTime(c, d, n),
           NEW k \in Nat, n <= k, Shows(d, c, k)
    PROVE  Shows(d, c, n)
  <1>1. PICK s : s = shown[d] /\ s \in Seq(AllMessages) /\ Chained(s)
    BY TypeFacts DEF ChatInv, Chained
  <1>2. PICK i \in DOMAIN s : s[i].from = c /\ k \in s[i].first..s[i].last
    BY <1>1 DEF Shows
  <1>3. PICK j \in DOMAIN s : j <= i /\ s[j].from = c /\ s[j].first <= n
    BY <1>1, <1>2 DEF InTime, Begun
  <1>4. n <= s[i].last
    <2>1. s[i].first \in Nat /\ s[i].last \in Nat
      BY <1>1, <1>2, MessageFields
    <2> QED BY <1>2, <2>1
  <1>5. \E l \in DOMAIN s : s[l].from = c /\ n \in s[l].first..s[l].last
    <2>1. s \in Seq(AllMessages)
      BY <1>1
    <2>2. Chained(s)
      BY <1>1
    <2>3. s[i].from = c
      BY <1>2
    <2>4. j <= i
      BY <1>3
    <2>5. s[j].from = c
      BY <1>3
    <2>6. s[j].first <= n
      BY <1>3
    <2> QED BY <1>4, <2>1, <2>2, <2>3, <2>4, <2>5, <2>6, Stretch, Zenon
  <1> QED BY <1>1, <1>5 DEF Shows

(* Nobody misses a text it was there for.                                  *)
THEOREM NobodyMissesText == MessengerSpec => NothingMissed
  <1> SUFFICES ASSUME NEW c \in Users, NEW d \in Users \ {c}, NEW n \in 1..Texts[c]
               PROVE  MessengerSpec =>
                        [](Registered(d) /\ read[c] < n =>
                               [](\A k \in n..Texts[c] : Shows(d, c, k) => Shows(d, c, n)))
    BY DEF NothingMissed
  <1> DEFINE Before == Registered(d) /\ read[c] < n
             After == \A k \in n..Texts[c] : Shows(d, c, k) => Shows(d, c, n)
  <1>1. n \in Nat /\ \A k \in n..Texts[c] : k \in Nat /\ n <= k
    BY TextsAssumption
  <1>2. ChatInv /\ PostedInv /\ Before => InTime(c, d, n)
    BY <1>1, InTimeBegins
  <1>3. ChatInv /\ InTime(c, d, n) /\ [MessengerNext]_messengerVars => InTime(c, d, n)'
    BY <1>1, InTimeStays
  <1>4. ChatInv /\ InTime(c, d, n) => After
    BY <1>1, InTimeShows
  <1> QED BY <1>2, <1>3, <1>4, ChatAlways, PostedAlways, PTL DEF MessengerSpec

=============================================================================
