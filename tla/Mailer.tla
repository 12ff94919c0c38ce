------------------------------- MODULE Mailer -------------------------------
(***************************************************************************)
(* Class Mailer of ssh-client/src/server/server.py: one smtplib connection,*)
(* made by Server.run and used by every client thread that has an alert to *)
(* mail, with no lock around it.                                           *)
(*                                                                         *)
(* Mailer.send is one call of smtplib's sendmail, a dialogue of commands   *)
(* (mail, rcpt, data, then the text of the mail, rset after a refusal) of  *)
(* which each waits for a reply.  The replies come down one stream and     *)
(* carry no name: whoever reads next takes the first of them, and a        *)
(* command that reaches the mail server while it is collecting the text of *)
(* a mail becomes part of that text and is never answered.  The library    *)
(* and the mail server are external; they are modelled as far as           *)
(* Mailer.send depends on them.                                            *)
(***************************************************************************)
EXTENDS Fleet

CONSTANT Letters   \* what distinguishes the mails of one client

Commands == {"mail", "rcpt", "data", "body", "rset"}
Outcomes == {"sent", "refused", "raised"}
Modes    == {"ready", "mail", "rcpt", "data", "gone"}

Mails == [owner : Clients, letter : Letters, to : SUBSET Clients]

VARIABLES
    connection,  \* Mailer.connection: none, open (login failed), auth, closed
    dialog,      \* dialog[t]: where the last sendmail of thread t is, or ended
    waiting,     \* waiting[t]: t sent that command and reads the reply stream
    letter,      \* letter[t]: what t is mailing (or mailed last)
    smtp,        \* the mail server's side: its mode and the recipients so far
    replies,     \* replies sent by the mail server that nobody has read
    delivered    \* mails the mail server accepted

mailerVars == <<connection, dialog, waiting, letter, smtp, replies, delivered>>

Live == connection \in {"open", "auth"}
Sending(t) == dialog[t] \in Commands

MailerInit ==
    /\ connection = "none"
    /\ dialog = [t \in Clients |-> "idle"]
    /\ waiting = [t \in Clients |-> FALSE]
    /\ letter \in [Clients -> Letters]
    /\ smtp = [mode |-> "ready", to |-> {}]
    /\ replies = <<>>
    /\ delivered = {}

-----------------------------------------------------------------------------
(* Mailer.connect, when it returns: already connected; the constructor     *)
(* fails and leaves None; starttls fails and leaves an SMTP object whose   *)
(* socket is closed; login is refused and leaves it open; or all is well.  *)
Connect ==
    /\ connection' \in IF connection = "none"
                       THEN {"none", "closed", "open", "auth"}
                       ELSE {connection}
    /\ UNCHANGED <<dialog, waiting, letter, smtp, replies, delivered>>

(* Mailer.connect, when it does not: an smtplib exception it does not name *)
(* (STARTTLS not supported, no login method in common, a disconnection).   *)
ConnectRaises ==
    /\ connection = "none"
    /\ connection' \in {"none", "closed", "open"}
    /\ UNCHANGED <<dialog, waiting, letter, smtp, replies, delivered>>

(* Mailer.disconnect with a connection: quit() reads one reply and closes  *)
(* the socket, but the attribute stays set.                                *)
QuitAnswered == smtp.mode \notin {"data", "gone"} \/ replies # <<>>

Disconnect ==
    /\ connection = "none" \/ (Live /\ QuitAnswered)
    /\ connection' = IF connection = "none" THEN "none" ELSE "closed"
    /\ UNCHANGED <<dialog, waiting, letter, smtp, replies, delivered>>

DisconnectRaises ==
    /\ connection = "closed" \/ (Live /\ ~QuitAnswered)
    /\ connection' = "closed"
    /\ UNCHANGED <<dialog, waiting, letter, smtp, replies, delivered>>

(* Mailer.send is called: no connection, return False; a closed one,       *)
(* SMTPServerDisconnected, which send does not catch; else the dialogue.   *)
Send(t, m) ==
    /\ ~Sending(t)
    /\ letter' = [letter EXCEPT ![t] = m]
    /\ dialog' = [dialog EXCEPT ![t] =
           CASE connection = "none"   -> "refused"
             [] connection = "closed" -> "raised"
             [] OTHER                 -> "mail"]
    /\ UNCHANGED <<connection, waiting, smtp, replies, delivered>>

-----------------------------------------------------------------------------
(* The mail server takes one command of t: its new state and the reply, if *)
(* any.  It may refuse a sender, the DATA command or a text it has read    *)
(* for reasons of its own, and refuses commands out of order.              *)
Answer(mode, to, r) ==
    /\ smtp' = [mode |-> mode, to |-> to]
    /\ replies' = Append(replies, r)

TakeMail ==
    \/ smtp.mode = "ready" /\ connection = "auth" /\ Answer("mail", {}, "ok")
    \/ Answer(smtp.mode, smtp.to, "err")

TakeRcpt(t) ==
    IF smtp.mode \in {"mail", "rcpt"} /\ t \notin BadMailboxes
    THEN Answer("rcpt", smtp.to \union {t}, "ok")
    ELSE Answer(smtp.mode, smtp.to, "err")

TakeData ==
    \/ smtp.mode = "rcpt" /\ Answer("data", smtp.to, "go")
    \/ Answer(smtp.mode, smtp.to, "err")

TakeCommand(t) ==
    /\ \/ dialog[t] = "mail" /\ TakeMail
       \/ dialog[t] = "rcpt" /\ TakeRcpt(t)
       \/ dialog[t] = "data" /\ TakeData
       \/ dialog[t] = "rset" /\ Answer("ready", {}, "ok")
       \/ dialog[t] = "body" /\ Answer(smtp.mode, smtp.to, "err")
    /\ UNCHANGED delivered

(* While it collects a text only the end of one counts.                    *)
TakeText(t) ==
    IF dialog[t] = "body"
    THEN \/ /\ Answer("ready", {}, "ok")
            /\ delivered' = delivered \union
                  {[owner |-> t, letter |-> letter[t], to |-> smtp.to]}
         \/ /\ Answer("ready", {}, "err")
            /\ UNCHANGED delivered
    ELSE UNCHANGED <<smtp, replies, delivered>>

(* Thread t writes its next command, or finds the socket closed.           *)
Transmit(t) ==
    /\ Sending(t) /\ ~waiting[t] /\ Live
    /\ waiting' = [waiting EXCEPT ![t] = TRUE]
    /\ CASE smtp.mode = "gone" -> UNCHANGED <<smtp, replies, delivered>>
         [] smtp.mode = "data" -> TakeText(t)
         [] OTHER              -> TakeCommand(t)
    /\ UNCHANGED <<connection, dialog, letter>>

(* Mutants: the text is sent whatever DATA was answered; a refused sender  *)
(* ends the session; a refusal is swallowed and send returns True.         *)
NextCommandNoGoAhead(command, r) ==
    CASE command = "mail" -> IF r = "ok" THEN "rcpt" ELSE "rset"
      [] command = "rcpt" -> IF r = "ok" THEN "data" ELSE "rset"
      [] command = "data" -> "body"
      [] command = "body" -> IF r = "ok" THEN "sent" ELSE "rset"
      [] command = "rset" -> "refused"

NextCommandQuits(command, r) ==
    CASE command = "mail" -> IF r = "ok" THEN "rcpt" ELSE "quit"
      [] command = "rcpt" -> IF r = "ok" THEN "data" ELSE "rset"
      [] command = "data" -> IF r = "go" THEN "body" ELSE "refused"
      [] command = "body" -> IF r = "ok" THEN "sent" ELSE "rset"
      [] OTHER            -> "refused"

NextCommandSwallows(command, r) ==
    CASE command = "mail" -> IF r = "ok" THEN "rcpt" ELSE "rset"
      [] command = "rcpt" -> IF r = "ok" THEN "data" ELSE "rset"
      [] command = "data" -> IF r = "go" THEN "body" ELSE "sent"
      [] command = "body" -> IF r = "ok" THEN "sent" ELSE "rset"
      [] command = "rset" -> "sent"

(* What sendmail does with reply r to the command in progress.  A refused  *)
(* MAIL, RCPT or text is followed by RSET; a refused DATA is not.          *)
NextCommand(command, r) ==
    CASE command = "mail" -> IF r = "ok" THEN "rcpt" ELSE "rset"
      [] command = "rcpt" -> IF r = "ok" THEN "data" ELSE "rset"
      [] command = "data" -> IF r = "go" THEN "body" ELSE "refused"
      [] command = "body" -> IF r = "ok" THEN "sent" ELSE "rset"
      [] command = "rset" -> "refused"

(* Thread t reads the first reply of the stream, whoever it was meant for. *)
Receive(t) ==
    /\ Sending(t) /\ waiting[t] /\ Live /\ replies # <<>>
    /\ replies' = Tail(replies)
    /\ waiting' = [waiting EXCEPT ![t] = FALSE]
    /\ dialog' = [dialog EXCEPT ![t] = NextCommand(@, Head(replies))]
    /\ UNCHANGED <<connection, letter, smtp, delivered>>

(* Mutants: a timeout leaves the connection open, and the answer may still *)
(* come; the socket has no timeout and only a lost connection raises.      *)
NoAnswerKeepsOpen(t) ==
    /\ Sending(t)
    /\ waiting[t] \/ ~Live
    /\ waiting' = [waiting EXCEPT ![t] = FALSE]
    /\ dialog' = [dialog EXCEPT ![t] = "raised"]
    /\ UNCHANGED <<connection, letter, smtp, replies, delivered>>

NoAnswerNoTimeout(t) ==
    /\ Sending(t)
    /\ ~Live
    /\ connection' = "closed"
    /\ waiting' = [waiting EXCEPT ![t] = FALSE]
    /\ dialog' = [dialog EXCEPT ![t] = "raised"]
    /\ UNCHANGED <<letter, smtp, replies, delivered>>

(* Thread t times out on an empty stream, reads its end, or finds that     *)
(* another thread closed the socket: smtplib closes and raises             *)
(* SMTPServerDisconnected, which Mailer.send lets through.                 *)
NoAnswer(t) ==
    /\ Sending(t)
    /\ (waiting[t] /\ replies = <<>>) \/ ~Live
    /\ connection' = "closed"
    /\ waiting' = [waiting EXCEPT ![t] = FALSE]
    /\ dialog' = [dialog EXCEPT ![t] = "raised"]
    /\ UNCHANGED <<letter, smtp, replies, delivered>>

(* The mail server stops answering: it dropped the line or is too slow.    *)
Drop ==
    /\ smtp.mode # "gone" /\ Live
    /\ smtp' = [smtp EXCEPT !.mode = "gone"]
    /\ UNCHANGED <<connection, dialog, waiting, letter, replies, delivered>>

-----------------------------------------------------------------------------
(* The mailer alone: every client thread mails as often as it likes, until *)
(* an exception ends it.                                                   *)
MailerStep(t) ==
    \/ Transmit(t)
    \/ Receive(t)
    \/ NoAnswer(t)

BeginSend(t) ==
    /\ dialog[t] # "raised"
    /\ \E m \in Letters : Send(t, m)

MailerNext ==
    \/ (\A t \in Clients : dialog[t] = "idle") /\ Connect
    \/ \E t \in Clients : BeginSend(t) \/ MailerStep(t)
    \/ Drop

MailerFairness == \A t \in Clients : WF_mailerVars(MailerStep(t))

MailerSpec == MailerInit /\ [][MailerNext]_mailerVars
MailerFairSpec == MailerSpec /\ MailerFairness

-----------------------------------------------------------------------------
(* The type invariant: every variable holds a value of its kind.           *)
MailerTypeOK ==
    /\ connection \in {"none", "open", "auth", "closed"}
    /\ dialog \in [Clients -> {"idle"} \union Commands \union Outcomes]
    /\ waiting \in [Clients -> BOOLEAN]
    /\ letter \in [Clients -> Letters]
    /\ smtp \in [mode : Modes, to : SUBSET Clients]
    /\ replies \in Seq({"ok", "go", "err"})
    /\ delivered \subseteq Mails

(* However the dialogues of the threads are mixed up, the text of a mail   *)
(* only ever reaches a mail server that is collecting one, so that a line  *)
(* of a text is never obeyed as a command (Mailer.send, lines 860-862).    *)
BodyIsText ==
    \A t \in Clients :
        dialog[t] = "body" /\ ~waiting[t] /\ Live => smtp.mode \in {"data", "gone"}

(* Stolen replies do not outlive the mails they were stolen from: when no  *)
(* thread waits on a live connection the stream is empty, and the next     *)
(* mail starts with replies of its own.                                    *)
NoLeftoverReply ==
    Live /\ (\A t \in Clients : ~waiting[t]) => replies = <<>>

(* Mailer.send returns or raises, even when its reply was read by another  *)
(* thread or its command swallowed by a text: the socket has a timeout.    *)
SendEnds == \A t \in Clients : Sending(t) ~> dialog[t] \in Outcomes

(* "True if message is sent successfully" (server.py:853): a thread whose  *)
(* send returns True had its mail accepted for its own client and no one   *)
(* else.                                                                   *)
SentMeansDelivered ==
    \A t \in Clients : dialog[t] = "sent" =>
        [owner |-> t, letter |-> letter[t], to |-> {t}] \in delivered
============================================================================
