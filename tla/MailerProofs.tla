---------------------------- MODULE MailerProofs ----------------------------
(***************************************************************************)
(* For any number of threads sharing the mail connection: the type         *)
(* invariant, that the texts of mails reach only a mail server that        *)
(* collects one, and that stolen replies do not outlive the mails.         *)
(*                                                                         *)
(* The reply "go" is a token: at most one exists, in the reply stream or   *)
(* in the hands of the thread that is about to send its text, and while it *)
(* exists the mail server collects a text.  Whoever steals the token       *)
(* destroys it, so a text can be lost but never misread.                   *)
(***************************************************************************)
EXTENDS Mailer, SequenceTheorems, FiniteSetTheorems, TLAPS

Holds(t) == dialog[t] = "body" /\ ~waiting[t]
GoAt(i)  == i \in DOMAIN replies /\ replies[i] = "go"

OneGo ==
    /\ \A i, j \in Nat : GoAt(i) /\ GoAt(j) => i = j
    /\ \A t, u \in Clients : Holds(t) /\ Holds(u) => t = u
    /\ \A i \in Nat, t \in Clients : ~(GoAt(i) /\ Holds(t))
    /\ \A i \in Nat : GoAt(i) => smtp.mode \in {"data", "gone"}
    /\ \A t \in Clients : Holds(t) => smtp.mode \in {"data", "gone"}

MailerInv == MailerTypeOK /\ OneGo

-----------------------------------------------------------------------------
(* The reply stream after one more reply, and after one less.              *)
LEMMA GoAfterAppend ==
    ASSUME MailerTypeOK, NEW r \in {"ok", "go", "err"}, replies' = Append(replies, r)
    PROVE  /\ replies' \in Seq({"ok", "go", "err"})
           /\ \A i \in Nat : GoAt(i)' => GoAt(i) \/ (i = Len(replies) + 1 /\ r = "go")
  BY DEF MailerTypeOK, GoAt

LEMMA GoAfterTail ==
    ASSUME MailerTypeOK, replies # <<>>, replies' = Tail(replies)
    PROVE  /\ replies' \in Seq({"ok", "go", "err"})
           /\ Head(replies) \in {"ok", "go", "err"}
           /\ Head(replies) = "go" <=> GoAt(1)
           /\ \A i \in Nat : GoAt(i)' => i \in Nat \ {0} /\ GoAt(i + 1)
  BY DEF MailerTypeOK, GoAt

-----------------------------------------------------------------------------
LEMMA MailerInitInv == MailerInit => MailerInv
  <1> SUFFICES ASSUME MailerInit PROVE MailerInv
    OBVIOUS
  <1>1. MailerTypeOK
    BY DEF MailerInit, MailerTypeOK, Commands, Outcomes, Modes, Mails
  <1>2. OneGo
    BY DEF MailerInit, OneGo, GoAt, Holds
  <1> QED BY <1>1, <1>2 DEF MailerInv

(* The actions that touch neither side of the dialogue: only connection.   *)
LEMMA ConnectionInv ==
    ASSUME MailerInv, Connect \/ ConnectRaises \/ Disconnect \/ DisconnectRaises
    PROVE  MailerInv'
  <1>1. UNCHANGED <<dialog, waiting, letter, smtp, replies, delivered>>
    BY DEF Connect, ConnectRaises, Disconnect, DisconnectRaises
  <1>2. connection' \in {"none", "open", "auth", "closed"}
    BY DEF Connect, ConnectRaises, Disconnect, DisconnectRaises, MailerInv, MailerTypeOK
  <1>3. MailerTypeOK'
    BY <1>1, <1>2 DEF MailerInv, MailerTypeOK
  <1>4. OneGo'
    BY <1>1 DEF MailerInv, OneGo, GoAt, Holds
  <1> QED BY <1>3, <1>4 DEF MailerInv

LEMMA SendInv ==
    ASSUME MailerInv, NEW t \in Clients, NEW m \in Letters, Send(t, m)
    PROVE  MailerInv'
  <1> USE DEF MailerInv
  <1>1. dialog' = [dialog EXCEPT ![t] = dialog'[t]]
        /\ dialog'[t] \in {"refused", "raised", "mail"}
    BY DEF Send, MailerTypeOK
  <1>2. MailerTypeOK'
    BY <1>1 DEF Send, MailerTypeOK, Commands, Outcomes
  <1>3. \A u \in Clients : Holds(u)' => Holds(u)
    BY <1>1 DEF Send, Holds, MailerTypeOK
  <1>4. OneGo'
    BY <1>3 DEF Send, OneGo, GoAt
  <1> QED BY <1>2, <1>4

LEMMA NoAnswerInv ==
    ASSUME MailerInv, NEW t \in Clients, NoAnswer(t)
    PROVE  MailerInv'
  <1> USE DEF MailerInv
  <1>1. MailerTypeOK'
    BY DEF NoAnswer, MailerTypeOK, Outcomes
  <1>2. \A u \in Clients : Holds(u)' => Holds(u)
    BY DEF NoAnswer, Holds, MailerTypeOK
  <1>3. OneGo'
    BY <1>2 DEF NoAnswer, OneGo, GoAt
  <1> QED BY <1>1, <1>3

LEMMA DropInv ==
    ASSUME MailerInv, Drop
    PROVE  MailerInv'
  <1> USE DEF MailerInv
  <1>1. MailerTypeOK' /\ smtp'.mode = "gone" /\ smtp'.to = smtp.to
    BY DEF Drop, MailerTypeOK, Modes
  <1>2. OneGo'
    BY <1>1 DEF Drop, OneGo, GoAt, Holds
  <1> QED BY <1>1, <1>2

LEMMA ReceiveInv ==
    ASSUME MailerInv, NEW t \in Clients, Receive(t)
    PROVE  MailerInv'
  <1> USE DEF MailerInv
  <1>1. /\ replies # <<>> /\ replies' = Tail(replies)
        /\ waiting[t] /\ dialog[t] \in Commands
        /\ waiting' = [waiting EXCEPT ![t] = FALSE]
        /\ dialog' = [dialog EXCEPT ![t] = NextCommand(dialog[t], Head(replies))]
        /\ UNCHANGED <<connection, letter, smtp, delivered>>
    BY DEF Receive, Sending, MailerTypeOK
  <1>2. /\ replies' \in Seq({"ok", "go", "err"})
        /\ Head(replies) = "go" <=> GoAt(1)
        /\ \A i \in Nat : GoAt(i)' => i \in Nat \ {0} /\ GoAt(i + 1)
    BY <1>1, GoAfterTail
  <1>3. NextCommand(dialog[t], Head(replies)) \in Commands \union Outcomes
    BY <1>1 DEF NextCommand, Commands, Outcomes
  <1>4. MailerTypeOK'
    BY <1>1, <1>2, <1>3 DEF MailerTypeOK
  <1>5. \A u \in Clients : Holds(u)' => Holds(u) \/ (u = t /\ GoAt(1))
    BY <1>1, <1>2 DEF Holds, MailerTypeOK, NextCommand, Commands
  <1>6. OneGo'
    <2>1. \A i, j \in Nat : GoAt(i)' /\ GoAt(j)' => i = j
      BY <1>2 DEF OneGo
    <2>2. \A u, v \in Clients : Holds(u)' /\ Holds(v)' => u = v
      BY <1>5 DEF OneGo
    <2>3. \A i \in Nat, u \in Clients : ~(GoAt(i)' /\ Holds(u)')
      BY <1>2, <1>5 DEF OneGo
    <2>4. \A i \in Nat : GoAt(i)' => smtp'.mode \in {"data", "gone"}
      BY <1>1, <1>2 DEF OneGo
    <2>5. \A u \in Clients : Holds(u)' => smtp'.mode \in {"data", "gone"}
      BY <1>1, <1>5 DEF OneGo
    <2> QED BY <2>1, <2>2, <2>3, <2>4, <2>5 DEF OneGo
  <1> QED BY <1>4, <1>6

-----------------------------------------------------------------------------
(* A command the mail server takes as one, a text it takes as one, and the *)
(* silence of a server that is gone.                                       *)
LEMMA AnswerType ==
    ASSUME MailerInv, NEW mode \in Modes, NEW to \in SUBSET Clients,
           NEW r \in {"ok", "go", "err"}, Answer(mode, to, r)
    PROVE  /\ smtp' \in [mode : Modes, to : SUBSET Clients]
           /\ smtp'.mode = mode /\ smtp'.to = to
           /\ replies' \in Seq({"ok", "go", "err"})
           /\ \A i \in Nat : GoAt(i)' => GoAt(i) \/ (i = Len(replies) + 1 /\ r = "go")
  <1>1. replies' = Append(replies, r)
    BY DEF Answer
  <1>2. smtp' = [mode |-> mode, to |-> to]
    BY DEF Answer
  <1> QED BY <1>1, <1>2, GoAfterAppend DEF MailerInv

LEMMA TransmitInv ==
    ASSUME MailerInv, NEW t \in Clients, Transmit(t)
    PROVE  MailerInv'
  <1> USE DEF MailerInv
  <1>1. /\ dialog[t] \in Commands /\ ~waiting[t]
        /\ waiting' = [waiting EXCEPT ![t] = TRUE]
        /\ UNCHANGED <<connection, dialog, letter>>
    BY DEF Transmit, Sending
  <1>2. \A u \in Clients : Holds(u)' <=> Holds(u) /\ u # t
    BY <1>1 DEF Holds, MailerTypeOK
  <1>3. smtp.mode \in Modes /\ smtp.to \in SUBSET Clients
        /\ smtp = [mode |-> smtp.mode, to |-> smtp.to]
    BY DEF MailerTypeOK
  <1>4. CASE UNCHANGED <<smtp, replies, delivered>>
    <2>1. MailerTypeOK'
      BY <1>1, <1>4 DEF MailerTypeOK
    <2>2. OneGo'
      BY <1>2, <1>4 DEF OneGo, GoAt
    <2> QED BY <2>1, <2>2
  <1>5. ASSUME NEW mode \in Modes, NEW to \in SUBSET Clients,
               NEW r \in {"ok", "go", "err"}, Answer(mode, to, r),
               r = "go" => smtp.mode = "rcpt" /\ mode = "data",
               mode # smtp.mode =>
                   r = "go" \/ (\A i \in Nat, u \in Clients : ~GoAt(i) /\ ~Holds(u)')
        PROVE  OneGo'
    <2>1. /\ smtp'.mode = mode
          /\ \A i \in Nat : GoAt(i)' => GoAt(i) \/ (i = Len(replies) + 1 /\ r = "go")
      BY <1>5, AnswerType
    <2>2. CASE r = "go"
      <3>1. \A i \in Nat, u \in Clients : ~GoAt(i) /\ ~Holds(u)
        BY <1>5, <2>2 DEF OneGo
      <3> QED BY <1>2, <1>5, <2>1, <2>2, <3>1 DEF OneGo
    <2>3. CASE r # "go"
      BY <1>2, <1>5, <2>1, <2>3 DEF OneGo
    <2> QED BY <2>2, <2>3
  <1>6. CASE smtp.mode = "gone"
    BY <1>4, <1>6 DEF Transmit
  <1>7. CASE smtp.mode = "data" /\ TakeText(t)
    <2>1. CASE dialog[t] # "body"
      BY <1>4, <1>7, <2>1 DEF TakeText
    <2>2. CASE dialog[t] = "body"
      <3>1. Holds(t)
        BY <1>1, <2>2 DEF Holds
      <3>2. PICK r \in {"ok", "err"} : Answer("ready", {}, r)
        BY <1>7, <2>2 DEF TakeText
      <3>3. "ready" \in Modes /\ {} \in SUBSET Clients
        BY DEF Modes
      <3>4. /\ smtp' \in [mode : Modes, to : SUBSET Clients]
            /\ smtp'.mode = "ready" /\ smtp'.to = {}
            /\ replies' \in Seq({"ok", "go", "err"})
        BY <3>2, <3>3, AnswerType
      <3>5. OneGo'
        <4>1. \A i \in Nat, u \in Clients : ~GoAt(i) /\ ~Holds(u)'
          BY <1>2, <3>1 DEF OneGo
        <4> QED BY <1>5, <3>2, <3>3, <4>1
      <3>6. delivered' \subseteq delivered \union
                {[owner |-> t, letter |-> letter[t], to |-> smtp.to]}
        BY <1>7, <2>2 DEF TakeText
      <3>7. MailerTypeOK'
        BY <1>1, <1>3, <3>4, <3>6 DEF MailerTypeOK, Mails
      <3> QED BY <3>5, <3>7
    <2> QED BY <2>1, <2>2
  <1>8. CASE smtp.mode \notin {"gone", "data"} /\ TakeCommand(t)
    <2>1. \A i \in Nat, u \in Clients : ~GoAt(i) /\ ~Holds(u)
      BY <1>8 DEF OneGo
    <2>2. PICK mode \in Modes, to \in SUBSET Clients, r \in {"ok", "go", "err"} :
             /\ Answer(mode, to, r)
             /\ r = "go" => smtp.mode = "rcpt" /\ mode = "data"
      BY <1>3, <1>8 DEF TakeCommand, TakeMail, TakeRcpt, TakeData, Modes
    <2>3. /\ smtp' \in [mode : Modes, to : SUBSET Clients]
          /\ smtp'.mode = mode /\ smtp'.to = to
          /\ replies' \in Seq({"ok", "go", "err"})
      BY <2>2, AnswerType
    <2>4. OneGo'
      BY <1>2, <1>5, <2>1, <2>2
    <2>5. UNCHANGED delivered
      BY <1>8 DEF TakeCommand
    <2>6. MailerTypeOK'
      BY <1>1, <2>3, <2>5 DEF MailerTypeOK
    <2> QED BY <2>4, <2>6
  <1> QED BY <1>6, <1>7, <1>8 DEF Transmit

-----------------------------------------------------------------------------
LEMMA MailerStepInv ==
    ASSUME MailerInv, NEW t \in Clients, MailerStep(t)
    PROVE  MailerInv'
  BY TransmitInv, ReceiveInv, NoAnswerInv DEF MailerStep

LEMMA MailerNextInv == MailerInv /\ [MailerNext]_mailerVars => MailerInv'
  <1> SUFFICES ASSUME MailerInv, [MailerNext]_mailerVars PROVE MailerInv'
    OBVIOUS
  <1>1. CASE Connect
    BY <1>1, ConnectionInv
  <1>2. ASSUME NEW t \in Clients, BeginSend(t) PROVE MailerInv'
    BY <1>2, SendInv DEF BeginSend
  <1>3. ASSUME NEW t \in Clients, MailerStep(t) PROVE MailerInv'
    BY <1>3, MailerStepInv
  <1>4. CASE Drop
    BY <1>4, DropInv
  <1>5. CASE UNCHANGED mailerVars
    BY <1>5 DEF mailerVars, MailerInv, MailerTypeOK, OneGo, GoAt, Holds
  <1> QED BY <1>1, <1>2, <1>3, <1>4, <1>5 DEF MailerNext

LEMMA MailerInvImplies == MailerInv => BodyIsText
  BY DEF MailerInv, OneGo, Holds, BodyIsText

LEMMA MailerInvariant == MailerSpec => []MailerInv
  BY MailerInitInv, MailerNextInv, PTL DEF MailerSpec

(* The type invariant, for any number of threads.                          *)
THEOREM MailerTyping == MailerSpec => []MailerTypeOK
  <1>1. MailerInv => MailerTypeOK
    BY DEF MailerInv
  <1> QED BY <1>1, MailerInvariant, PTL

(* The text of a mail reaches only a mail server that collects a text      *)
(* (Mailer.send without a lock, server.py lines 860-862).                  *)
THEOREM TextsAreTexts == MailerSpec => []BodyIsText
  BY MailerInvImplies, MailerInvariant, PTL

-----------------------------------------------------------------------------
(* Replies are counted against the threads that wait.  A command is        *)
(* answered at most once, so the stream of a live connection never holds   *)
(* more replies than threads wait for one: stealing exchanges replies but  *)
(* makes none.  A timeout breaks the count, and closes the connection.     *)
Waiters == {t \in Clients : waiting[t]}

RepliesOwed ==
    /\ connection = "none" => replies = <<>>
    /\ Live => Len(replies) <= Cardinality(Waiters)

LEMMA WaitersFinite ==
    /\ IsFiniteSet(Waiters)
    /\ Cardinality(Waiters) \in Nat
  <1>1. IsFiniteSet(Clients)
    BY NumClientsAssumption, FS_Interval DEF Clients
  <1>2. IsFiniteSet(Waiters)
    BY <1>1, FS_Subset DEF Waiters
  <1> QED BY <1>2, FS_CardinalityType

LEMMA RepliesOwedNext ==
    ASSUME MailerTypeOK, RepliesOwed, [MailerNext]_mailerVars
    PROVE  RepliesOwed'
  <1>1. Len(replies) \in Nat /\ Cardinality(Waiters) \in Nat
    BY WaitersFinite DEF MailerTypeOK
  <1>2. CASE Connect
    <2>1. UNCHANGED <<waiting, replies>> /\ (connection' = connection \/ replies = <<>>)
      BY <1>2 DEF Connect, RepliesOwed
    <2>2. Waiters' = Waiters
      BY <2>1 DEF Waiters
    <2>3. CASE connection' = connection
      BY <2>1, <2>2, <2>3 DEF RepliesOwed, Live
    <2>4. CASE replies = <<>>
      BY <1>1, <2>1, <2>2, <2>4 DEF RepliesOwed, Live
    <2> QED BY <2>1, <2>3, <2>4
  <1>3. ASSUME NEW t \in Clients, Transmit(t) PROVE RepliesOwed'
    <2>1. Live /\ ~waiting[t] /\ UNCHANGED connection
          /\ waiting' = [waiting EXCEPT ![t] = TRUE]
      BY <1>3 DEF Transmit
    <2>2. Waiters' = Waiters \union {t} /\ t \notin Waiters
      BY <2>1 DEF Waiters, MailerTypeOK
    <2>3. Cardinality(Waiters') = Cardinality(Waiters) + 1
      BY <2>2, WaitersFinite, FS_AddElement
    <2>4. replies' = replies \/ \E r \in {"ok", "go", "err"} : replies' = Append(replies, r)
      BY <1>3 DEF Transmit, TakeText, TakeCommand, TakeMail, TakeRcpt, TakeData, Answer
    <2>5. Len(replies') <= Len(replies) + 1
      BY <1>1, <2>4 DEF MailerTypeOK
    <2>6. Len(replies') \in Nat
      BY <1>1, <2>4 DEF MailerTypeOK
    <2> QED BY <1>1, <2>1, <2>3, <2>5, <2>6 DEF RepliesOwed, Live
  <1>4. ASSUME NEW t \in Clients, Receive(t) PROVE RepliesOwed'
    <2>1. Live /\ waiting[t] /\ UNCHANGED connection
          /\ replies # <<>> /\ replies' = Tail(replies)
          /\ waiting' = [waiting EXCEPT ![t] = FALSE]
      BY <1>4 DEF Receive
    <2>2. Waiters' = Waiters \ {t} /\ t \in Waiters
      BY <2>1 DEF Waiters, MailerTypeOK
    <2>3. Cardinality(Waiters') = Cardinality(Waiters) - 1
      BY <2>2, WaitersFinite, FS_RemoveElement
    <2>4. Len(replies') = Len(replies) - 1
      BY <2>1 DEF MailerTypeOK
    <2> QED BY <1>1, <2>1, <2>3, <2>4 DEF RepliesOwed, Live
  <1>5. ASSUME NEW t \in Clients, NoAnswer(t) PROVE RepliesOwed'
    BY <1>5 DEF NoAnswer, RepliesOwed, Live
  <1>6. CASE UNCHANGED <<connection, waiting, replies>>
    BY <1>6 DEF RepliesOwed, Live, Waiters
  <1>7. ASSUME NEW t \in Clients, BeginSend(t) PROVE RepliesOwed'
    BY <1>6, <1>7 DEF BeginSend, Send
  <1>8. CASE Drop
    BY <1>6, <1>8 DEF Drop
  <1>9. CASE UNCHANGED mailerVars
    BY <1>6, <1>9 DEF mailerVars
  <1> QED BY <1>2, <1>3, <1>4, <1>5, <1>7, <1>8, <1>9 DEF MailerNext, MailerStep

LEMMA RepliesOwedImplies ==
    ASSUME MailerTypeOK, RepliesOwed PROVE NoLeftoverReply
  <1> SUFFICES ASSUME Live, \A t \in Clients : ~waiting[t] PROVE replies = <<>>
    BY DEF NoLeftoverReply
  <1>1. Cardinality(Waiters) = 0
    BY FS_EmptySet DEF Waiters
  <1>2. Len(replies) = 0
    BY <1>1 DEF RepliesOwed, MailerTypeOK
  <1> QED BY <1>2 DEF MailerTypeOK

(* However many threads steal each other's replies, none outlives the mails*)
(* on a connection that is still in use: when the last thread stops        *)
(* waiting the stream is empty (Mailer.send, one connection for all).      *)
THEOREM StolenRepliesDie == MailerSpec => []NoLeftoverReply
  <1>1. MailerInit => RepliesOwed
    BY DEF MailerInit, RepliesOwed, Live
  <1>2. MailerTypeOK /\ RepliesOwed /\ [MailerNext]_mailerVars => RepliesOwed'
    BY RepliesOwedNext
  <1>3. MailerTypeOK /\ RepliesOwed => NoLeftoverReply
    BY RepliesOwedImplies
  <1> QED BY <1>1, <1>2, <1>3, MailerTyping, PTL DEF MailerSpec
============================================================================
