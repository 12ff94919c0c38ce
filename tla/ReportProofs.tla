---------------------------- MODULE ReportProofs ----------------------------
(***************************************************************************)
(* For any configuration document, any event log and any block size: what  *)
(* the reading of the configuration amounts to, that the logs of a report  *)
(* are in the order of the event log, and that a report is decoded whole   *)
(* or not at all.                                                          *)
(*                                                                         *)
(* The argument for the last: of the padded message, which fills a number  *)
(* of blocks, strip leaves the positions from a to b.  If a is not 1 the   *)
(* first symbol that comes out is garbage; if b is not the end then a block*)
(* at least is missing, and with it the end of the document.               *)
(***************************************************************************)
EXTENDS Report, SequenceTheorems, WellFoundedInduction, TLAPS

(* The configuration.  A part that has been passed was good, and the       *)
(* clients taken so far are the valid ones among those read so far.        *)
BehindFile     == {"srcpath", "clients", "client", "database", "mailer", "multithread", "valid"}
BehindSrcpath  == BehindFile \ {"srcpath"}
BehindFind     == BehindSrcpath \ {"clients"}
BehindClients  == BehindFind \ {"client"}
BehindDatabase == BehindClients \ {"database"}
BehindMailer   == BehindDatabase \ {"mailer"}

Taken(k) == \E i \in DOMAIN clients : clients[i] = k

PartsInv ==
    /\ reading \in BehindFile \union {"file", "failed", "exited"}
    /\ reading \in BehindFile => document.file = "good"
    /\ reading \in BehindSrcpath => document.srcpath = "good"
    /\ reading \in BehindFind => document.hasClients
    /\ reading \in BehindClients => index > Len(document.clients)
    /\ reading \in BehindDatabase => document.database = "good"
    /\ reading \in BehindMailer => document.mailer = "good"
    /\ reading \in BehindDatabase => tables
    /\ reading \notin BehindDatabase \union {"failed"} => ~tables
    /\ reading = "valid" => (multithread <=> document.multithread = "true")
    /\ reading \in {"failed", "exited"} => ~Good

ClientsInv ==
    /\ index \in Nat \ {0}
    /\ clients \in Seq(Nat)
    /\ \A i \in DOMAIN clients : clients[i] < index
    /\ Ascending(clients)
    /\ \A k \in DOMAIN document.clients :
          k < index => (Taken(k) <=> IsValid(document.clients[k]))

ConfigInv == document \in Documents /\ PartsInv /\ ClientsInv

(* The event log.  What has been logged is newer than what is left of the  *)
(* batch, and that is newer than the batches that have not been read.      *)
Falling(s) == \A i, j \in DOMAIN s : i < j => s[i].id > s[j].id
Newer(s, t) == \A i \in DOMAIN s, j \in DOMAIN t : s[i].id > t[j].id

LogInv ==
    /\ unreadLog \in Seq(Seq(Event)) /\ rest \in Seq(Event) /\ logs \in Seq(Event)
    /\ stage = "idle" => rest = <<>> /\ logs = <<>>
    /\ Falling(logs) /\ Falling(rest) /\ Newer(logs, rest)
    /\ \A b \in DOMAIN unreadLog :
          /\ Falling(unreadLog[b])
          /\ Newer(logs, unreadLog[b]) /\ Newer(rest, unreadLog[b])
    /\ \A b, c \in DOMAIN unreadLog : b < c => Newer(unreadLog[b], unreadLog[c])

(* The ciphertext is that of the whole report. *)
CodecInv ==
    /\ stage \in {"idle", "reading", "logs", "failed", "output", "decoded"}
    /\ stage \in {"output", "decoded"} =>
          padded = AddPadding(Serialize) /\ white \subseteq DOMAIN padded
    /\ WholeOrNothing

ReportInv == ConfigInv /\ LogInv /\ CodecInv

-----------------------------------------------------------------------------
(* One part is read: what it was for the next part to be read, and what is *)
(* wrong with the document otherwise.                                      *)
LEMMA DocumentFields ==
    ASSUME document \in Documents
    PROVE  /\ document.hasClients \in BOOLEAN
           /\ document.clients \in Seq(ConfiguredClients)
BY DocumentsAssumption

LEMMA ConfigBegins == ConfigInit => ConfigInv
<1>. SUFFICES ASSUME ConfigInit PROVE ConfigInv
  OBVIOUS
<1>1. clients = <<>> /\ index = 1 /\ reading = "file" /\ tables = FALSE /\ document \in Documents
  BY DEF ConfigInit
<1>2. PartsInv
  BY <1>1 DEF PartsInv, BehindFile, BehindSrcpath, BehindFind, BehindClients, BehindDatabase, BehindMailer
<1>3. ClientsInv
  <2>1. document.clients \in Seq(ConfiguredClients)
    BY <1>1, DocumentFields
  <2>. QED  BY <1>1, <2>1 DEF ClientsInv, Ascending
<1>. QED  BY <1>1, <1>2, <1>3 DEF ConfigInv

(* A step that reads no client keeps what is known of the clients.         *)
LEMMA ClientsKept ==
    ASSUME ClientsInv, document' = document, index' = index, clients' = clients
    PROVE  ClientsInv'
BY DEF ClientsInv, Ascending, Taken, IsValid

LEMMA ClientRead ==
    ASSUME ConfigInv, ReadClient
    PROVE  ClientsInv'
<1>. DEFINE n == index
            new == clients'
<1>1. /\ n \in Nat \ {0} /\ n <= Len(document.clients)
      /\ clients \in Seq(Nat)
      /\ document.clients \in Seq(ConfiguredClients)
      /\ document' = document /\ index' = n + 1
      /\ clients' = IF IsValid(document.clients[n]) THEN Append(clients, n) ELSE clients
  BY DocumentFields DEF ConfigInv, ClientsInv, ReadClient
<1>2. /\ \A i \in DOMAIN clients : clients[i] < n
      /\ Ascending(clients)
      /\ \A k \in DOMAIN document.clients :
            k < n => (Taken(k) <=> IsValid(document.clients[k]))
  BY DEF ConfigInv, ClientsInv
<1>3. CASE IsValid(document.clients[n])
  <2>1. /\ new \in Seq(Nat) /\ Len(new) = Len(clients) + 1
        /\ \A i \in 1..Len(clients) : new[i] = clients[i]
        /\ new[Len(clients) + 1] = n
    BY <1>1, <1>3, AppendProperties
  <2>2. \A i \in DOMAIN new : new[i] < n + 1
    BY <2>1, <1>1, <1>2
  <2>3. Ascending(new)
    BY <2>1, <1>1, <1>2 DEF Ascending
  <2>4. ASSUME NEW k \in DOMAIN document.clients, k < n + 1
        PROVE  (\E i \in DOMAIN new : new[i] = k) <=> IsValid(document.clients[k])
    <3>1. CASE k = n
      BY <3>1, <2>1, <1>3, <1>1
    <3>2. CASE k < n
      <4>1. Taken(k) <=> IsValid(document.clients[k])
        BY <3>2, <1>2
      <4>2. /\ DOMAIN clients = 1..Len(clients) /\ DOMAIN new = 1..(Len(clients) + 1)
            /\ Len(clients) \in Nat /\ new[Len(clients) + 1] # k
        BY <3>2, <2>1, <1>1
      <4>3. Taken(k) => \E i \in DOMAIN new : new[i] = k
        BY <4>2, <2>1 DEF Taken
      <4>4. ASSUME NEW i \in DOMAIN new, new[i] = k
            PROVE  Taken(k)
        <5>1. i \in 1..Len(clients)
          BY <4>2, <4>4
        <5>. QED  BY <5>1, <4>2, <4>4, <2>1 DEF Taken
      <4>. QED  BY <4>1, <4>3, <4>4
    <3>. QED  BY <3>1, <3>2, <2>4, <1>1
  <2>5. index' \in Nat \ {0} /\ clients' \in Seq(Nat)
    BY <2>1, <1>1
  <2>6. \A i \in DOMAIN clients' : clients'[i] < index'
    BY <2>2, <1>1
  <2>7. Ascending(clients)'
    BY <2>3 DEF Ascending
  <2>8. ASSUME NEW k \in DOMAIN document'.clients, k < index'
        PROVE  Taken(k)' <=> IsValid(document'.clients[k])
    <3>1. document' = document /\ k < n + 1
      BY <2>8, <1>1
    <3>. QED  BY <3>1, <2>4 DEF Taken
  <2>. QED  BY <2>5, <2>6, <2>7, <2>8 DEF ClientsInv
<1>4. CASE ~IsValid(document.clients[n])
  <2>1. new = clients
    BY <1>1, <1>4
  <2>2. \A i \in DOMAIN new : new[i] < n + 1
    BY <2>1, <1>1, <1>2
  <2>3. ASSUME NEW k \in DOMAIN document.clients, k < n + 1
        PROVE  (\E i \in DOMAIN new : new[i] = k) <=> IsValid(document.clients[k])
    <3>1. CASE k = n
      BY <3>1, <2>1, <1>4, <1>2, <1>1
    <3>2. CASE k < n
      BY <3>2, <1>2, <2>1 DEF Taken
    <3>. QED  BY <3>1, <3>2, <2>3, <1>1
  <2>. QED  BY <2>1, <2>2, <2>3, <1>1, <1>2 DEF ClientsInv, Taken, IsValid
<1>. QED  BY <1>3, <1>4

LEMMA ConfigStep == ConfigInv /\ ReadConfig => ConfigInv'
<1>. SUFFICES ASSUME ConfigInv, ReadConfig PROVE ConfigInv'
  OBVIOUS
<1>. USE DEF BehindFile, BehindSrcpath, BehindFind, BehindClients, BehindDatabase, BehindMailer
<1>1. PartsInv /\ ClientsInv /\ document \in Documents /\ index \in Nat
  BY DEF ConfigInv, ClientsInv
<1>2. CASE ReadFile
  <2>1. PartsInv'  BY <1>1, <1>2 DEF ReadFile, Part, PartsInv, Good
  <2>. QED  BY <1>1, <1>2, <2>1, ClientsKept DEF ReadFile, ConfigInv
<1>3. CASE ReadSrcpath
  <2>1. PartsInv'  BY <1>1, <1>3 DEF ReadSrcpath, Part, PartsInv, Good
  <2>. QED  BY <1>1, <1>3, <2>1, ClientsKept DEF ReadSrcpath, ConfigInv
<1>4. CASE FindClients
  <2>1. PartsInv'  BY <1>1, <1>4 DEF FindClients, Part, PartsInv, Good
  <2>. QED  BY <1>1, <1>4, <2>1, ClientsKept DEF FindClients, ConfigInv
<1>5. CASE ReadClient
  <2>1. PartsInv'  BY <1>1, <1>5 DEF ReadClient, PartsInv, Good
  <2>. QED  BY <1>1, <1>5, <2>1, ClientRead DEF ReadClient, ConfigInv
<1>6. CASE ClientsRead
  <2>1. PartsInv'  BY <1>1, <1>6 DEF ClientsRead, PartsInv, Good
  <2>. QED  BY <1>1, <1>6, <2>1, ClientsKept DEF ClientsRead, ConfigInv
<1>7. CASE ReadDatabase
  <2>1. ASSUME reading' = "mailer" PROVE PartsInv'
    <3>1. document.database = "good" /\ tables' = (document.database = "good") /\ reading = "database"
      BY <1>7, <2>1 DEF ReadDatabase, Part
    <3>2. tables' = TRUE
      BY <3>1
    <3>. QED  BY <1>1, <1>7, <2>1, <3>1, <3>2 DEF ReadDatabase, PartsInv, Good
  <2>2. ASSUME reading' # "mailer" PROVE PartsInv'
    <3>1. reading = "database" /\ document.database # "good" /\ reading' \in {"failed", "exited"}
      BY <1>7, <2>2 DEF ReadDatabase, Part
    <3>2. reading' = "exited" => tables' = tables
      BY <1>7 DEF ReadDatabase, Part
    <3>. QED  BY <1>1, <1>7, <2>2, <3>1, <3>2 DEF ReadDatabase, PartsInv, Good
  <2>3. PartsInv'
    BY <2>1, <2>2
  <2>. QED  BY <1>1, <1>7, <2>3, ClientsKept DEF ReadDatabase, ConfigInv
<1>8. CASE ReadMailer
  <2>1. PartsInv'  BY <1>1, <1>8 DEF ReadMailer, Part, PartsInv, Good
  <2>. QED  BY <1>1, <1>8, <2>1, ClientsKept DEF ReadMailer, ConfigInv
<1>9. CASE ReadMultithread
  <2>1. PartsInv'  BY <1>1, <1>9 DEF ReadMultithread, Part, PartsInv, Good
  <2>. QED  BY <1>1, <1>9, <2>1, ClientsKept DEF ReadMultithread, ConfigInv
<1>. QED  BY <1>2, <1>3, <1>4, <1>5, <1>6, <1>7, <1>8, <1>9 DEF ReadConfig

LEMMA ConfigKept ==
    ASSUME ConfigInv, UNCHANGED configVars
    PROVE  ConfigInv'
<1>1. PartsInv'
  BY DEF ConfigInv, PartsInv, Good, configVars
<1>. QED  BY <1>1, ClientsKept DEF ConfigInv, configVars

(* The steps of a report do not touch the configuration.                   *)
LEMMA ReportKeepsConfig == ReportNext => UNCHANGED configVars
BY DEF ReportNext, NoLog, OpenLog, ReadBatch, FormatEvent, LogRead, ReadRaises, Encrypt, DecodeReport

LEMMA ConfigAgreesFromInv == ConfigInv => ConfigAgrees
<1>. SUFFICES ASSUME ConfigInv PROVE ConfigAgrees
  OBVIOUS
<1>1. /\ reading = "valid" => /\ Good /\ tables
                              /\ multithread <=> document.multithread = "true"
                              /\ index > Len(document.clients)
      /\ reading \in {"failed", "exited"} => ~Good
      /\ reading = "exited" => ~tables
  BY DEF ConfigInv, PartsInv, Good, BehindFile, BehindSrcpath, BehindFind,
         BehindClients, BehindDatabase, BehindMailer
<1>2. /\ document.clients \in Seq(ConfiguredClients) /\ index \in Nat
      /\ Ascending(clients)
      /\ \A k \in DOMAIN document.clients :
            k < index => (Taken(k) <=> IsValid(document.clients[k]))
  BY DocumentFields DEF ConfigInv, ClientsInv
<1>3. ASSUME reading = "valid", NEW k \in DOMAIN document.clients
      PROVE  (\E i \in DOMAIN clients : clients[i] = k) <=>
                 document.clients[k].attributes
                 /\ FALSE \notin {document.clients[k].alerts[a] :
                                     a \in DOMAIN document.clients[k].alerts}
  <2>1. k < index
    BY <1>1, <1>2, <1>3
  <2>2. document.clients[k] \in ConfiguredClients
    BY <1>2, <1>3
  <2>3. \A a \in DOMAIN document.clients[k].alerts : document.clients[k].alerts[a] \in BOOLEAN
    BY <2>2 DEF ConfiguredClients
  <2>4. IsValid(document.clients[k]) <=>
            document.clients[k].attributes
            /\ FALSE \notin {document.clients[k].alerts[a] :
                                a \in DOMAIN document.clients[k].alerts}
    BY <2>3 DEF IsValid
  <2>. QED  BY <2>1, <2>4, <1>2 DEF Taken
<1>. QED  BY <1>1, <1>2, <1>3 DEF ConfigAgrees

-----------------------------------------------------------------------------
(* What an event log of the constant EventLogs is, for what is left of it. *)
Descending(batches) ==
    /\ batches \in Seq(Seq(Event))
    /\ \A b \in DOMAIN batches : Falling(batches[b])
    /\ \A b, c \in DOMAIN batches : b < c => Newer(batches[b], batches[c])

LEMMA LogsDescend == \A eventLog \in EventLogs : Descending(eventLog)
<1>. SUFFICES ASSUME NEW eventLog \in EventLogs PROVE Descending(eventLog)
  OBVIOUS
<1>1. /\ eventLog \in Seq(Seq(Event))
      /\ \A b, c \in DOMAIN eventLog :
            \A i \in DOMAIN eventLog[b], j \in DOMAIN eventLog[c] :
                b < c \/ (b = c /\ i < j) => eventLog[b][i].id > eventLog[c][j].id
  BY EventLogsAssumption
<1>. QED  BY <1>1 DEF Descending, Falling, Newer

(* The next batch and those after it. *)
LEMMA TakeBatch ==
    ASSUME NEW batches, Descending(batches), NEW batch, NEW later,
           batch = NextBatch(batches), later = LaterBatches(batches)
    PROVE  /\ batch \in Seq(Event) /\ Falling(batch)
           /\ Descending(later)
           /\ \A b \in DOMAIN later : Newer(batch, later[b])
           /\ batch = <<>> \/ \E b \in DOMAIN batches : batch = batches[b]
           /\ \A b \in DOMAIN later : \E c \in DOMAIN batches : later[b] = batches[c]
<1>1. CASE batches = <<>>
  <2>1. batch = <<>> /\ later = <<>>
    BY <1>1 DEF NextBatch, LaterBatches
  <2>. QED  BY <2>1 DEF Descending, Falling
<1>2. CASE batches # <<>>
  <2>1. batch = Head(batches) /\ later = Tail(batches) /\ batches \in Seq(Seq(Event))
    BY <1>2 DEF NextBatch, LaterBatches, Descending
  <2>2. /\ later \in Seq(Seq(Event)) /\ Len(later) = Len(batches) - 1
        /\ \A b \in DOMAIN later : later[b] = batches[b + 1] /\ b + 1 \in DOMAIN batches
        /\ batch = batches[1] /\ 1 \in DOMAIN batches /\ batch \in Seq(Event)
    BY <2>1, <1>2
  <2>3. Falling(batch) /\ \A b \in DOMAIN later : Falling(later[b])
    BY <2>2 DEF Descending
  <2>4. ASSUME NEW b \in DOMAIN later PROVE Newer(batch, later[b])
    <3>1. 1 < b + 1 /\ 1 \in DOMAIN batches /\ b + 1 \in DOMAIN batches
      BY <2>2
    <3>2. Newer(batches[1], batches[b + 1])
      BY <3>1 DEF Descending
    <3>. QED  BY <3>2, <2>2
  <2>5. \A b, c \in DOMAIN later : b < c => Newer(later[b], later[c])
    BY <2>2 DEF Descending
  <2>. QED  BY <2>2, <2>3, <2>4, <2>5 DEF Descending
<1>. QED  BY <1>1, <1>2

(* An event moves from what is left of the batch to the logs, or is lost.  *)
LEMMA FormatOne ==
    ASSUME NEW s \in Seq(Event), NEW t \in Seq(Event), t # <<>>,
           Falling(s), Falling(t), Newer(s, t),
           NEW u, u = s \/ u = Append(s, Head(t))
    PROVE  /\ u \in Seq(Event) /\ Tail(t) \in Seq(Event)
           /\ Falling(u) /\ Falling(Tail(t)) /\ Newer(u, Tail(t))
           /\ \A v : Newer(s, v) /\ Newer(t, v) => Newer(u, v) /\ Newer(Tail(t), v)
<1>. DEFINE e == Head(t)
            r == Tail(t)
<1>1. /\ e \in Event /\ r \in Seq(Event) /\ Len(r) = Len(t) - 1
      /\ \A i \in DOMAIN r : r[i] = t[i + 1] /\ i + 1 \in DOMAIN t
      /\ e = t[1] /\ 1 \in DOMAIN t /\ Len(t) \in Nat
  OBVIOUS
<1>2. PICK w : w = Append(s, e)
  OBVIOUS
<1>3. /\ w \in Seq(Event) /\ Len(w) = Len(s) + 1 /\ Len(s) \in Nat
      /\ \A i \in 1..Len(s) : w[i] = s[i]
      /\ w[Len(s) + 1] = e
  BY <1>1, <1>2, AppendProperties
<1>. HIDE DEF e, r
<1>4. \A i \in DOMAIN w : (i \in DOMAIN s /\ w[i] = s[i]) \/ (i = Len(s) + 1 /\ w[i] = e)
  BY <1>3
<1>5. /\ \A i \in DOMAIN s : s[i].id > e.id
      /\ \A i \in DOMAIN r : e.id > r[i].id
      /\ \A i \in DOMAIN s, j \in DOMAIN r : s[i].id > r[j].id
  BY <1>1 DEF Newer, Falling
<1>6. Falling(r)
  BY <1>1 DEF Falling
<1>7. Falling(w)
  BY <1>3, <1>4, <1>5 DEF Falling
<1>8. Newer(w, r) /\ Newer(s, r)
  BY <1>4, <1>5 DEF Newer
<1>9. ASSUME NEW v, Newer(s, v), Newer(t, v)
      PROVE  Newer(w, v) /\ Newer(r, v)
  BY <1>1, <1>4, <1>9 DEF Newer
<1>. QED  BY <1>1, <1>2, <1>3, <1>6, <1>7, <1>8, <1>9 DEF e, r

LEMMA LogBegins == ReportInit => LogInv
BY DEF ReportInit, LogInv, Falling, Newer

LEMMA LogKept ==
    ASSUME LogInv, stage' = stage \/ stage' # "idle",
           unreadLog' = unreadLog, rest' = rest, logs' = logs
    PROVE  LogInv'
BY DEF LogInv, Falling, Newer

(* What LogInv says of the batches that have not been read.                *)
LEMMA UnreadDescends == LogInv => Descending(unreadLog)
BY DEF LogInv, Descending

LEMMA LogStep == LogInv /\ ReportNext => LogInv'
<1>. SUFFICES ASSUME LogInv, ReportNext PROVE LogInv'
  OBVIOUS
<1>1. CASE NoLog
  BY <1>1, LogKept DEF NoLog
<1>2. CASE OpenLog
  <2>1. PICK eventLog \in EventLogs :
            events' = NextBatch(eventLog) /\ unreadLog' = LaterBatches(eventLog)
    BY <1>2 DEF OpenLog
  <2>2. Descending(unreadLog')
    BY <2>1, LogsDescend, TakeBatch
  <2>3. rest' = <<>> /\ logs' = <<>> /\ stage' = "reading"
    BY <1>2 DEF OpenLog, LogInv
  <2>. QED  BY <2>2, <2>3 DEF LogInv, Descending, Falling, Newer
<1>3. CASE ReadBatch
  <2>1. /\ rest' = NextBatch(unreadLog) /\ unreadLog' = LaterBatches(unreadLog)
        /\ logs' = logs /\ stage = "reading" /\ stage' = stage
    BY <1>3 DEF ReadBatch
  <2>2. /\ rest' \in Seq(Event) /\ Falling(rest') /\ Descending(unreadLog')
        /\ \A b \in DOMAIN unreadLog' : Newer(rest', unreadLog'[b])
        /\ rest' = <<>> \/ \E b \in DOMAIN unreadLog : rest' = unreadLog[b]
        /\ \A b \in DOMAIN unreadLog' : \E c \in DOMAIN unreadLog : unreadLog'[b] = unreadLog[c]
    BY <2>1, UnreadDescends, TakeBatch
  <2>3. \A b \in DOMAIN unreadLog : Newer(logs, unreadLog[b])
    BY DEF LogInv
  <2>4. Newer(logs, rest') /\ \A b \in DOMAIN unreadLog' : Newer(logs, unreadLog'[b])
    BY <2>2, <2>3 DEF Newer
  <2>5. logs \in Seq(Event) /\ Falling(logs)
    BY DEF LogInv
  <2>. QED  BY <2>1, <2>2, <2>4, <2>5 DEF LogInv, Descending, Falling, Newer
<1>4. CASE FormatEvent
  <2>1. /\ logs' = logs \/ logs' = Append(logs, Head(rest))
        /\ rest # <<>> /\ rest' = Tail(rest) /\ unreadLog' = unreadLog
        /\ stage = "reading" /\ stage' = stage
    BY <1>4 DEF FormatEvent
  <2>2. /\ logs \in Seq(Event) /\ rest \in Seq(Event)
        /\ Falling(logs) /\ Falling(rest) /\ Newer(logs, rest)
        /\ \A b \in DOMAIN unreadLog : Newer(logs, unreadLog[b]) /\ Newer(rest, unreadLog[b])
    BY DEF LogInv
  <2>3. /\ logs' \in Seq(Event) /\ rest' \in Seq(Event)
        /\ Falling(logs') /\ Falling(rest') /\ Newer(logs', rest')
        /\ \A v : Newer(logs, v) /\ Newer(rest, v) => Newer(logs', v) /\ Newer(rest', v)
    BY <2>1, <2>2, FormatOne
  <2>4. \A b \in DOMAIN unreadLog : Newer(logs', unreadLog[b]) /\ Newer(rest', unreadLog[b])
    BY <2>2, <2>3
  <2>. QED  BY <2>1, <2>3, <2>4 DEF LogInv, Falling, Newer
<1>5. CASE LogRead
  BY <1>5, LogKept DEF LogRead
<1>6. CASE ReadRaises
  BY <1>6, LogKept DEF ReadRaises
<1>7. CASE Encrypt
  BY <1>7, LogKept DEF Encrypt
<1>8. CASE DecodeReport
  BY <1>8, LogKept DEF DecodeReport
<1>. QED  BY <1>1, <1>2, <1>3, <1>4, <1>5, <1>6, <1>7, <1>8 DEF ReportNext

-----------------------------------------------------------------------------
(* Division by the size of a block, for numbers only.                      *)
LEMMA Divided ==
    ASSUME NEW B \in Nat, B > 2, NEW n \in Nat
    PROVE  \E q \in Nat, r \in 0..(B - 1) : r = n % B /\ n = B * q + r
<1>1. /\ n \div B \in Nat /\ (n % B) \in 0..(B - 1)
      /\ n = B * (n \div B) + (n % B)
  OBVIOUS
<1>. QED  BY <1>1

LEMMA Multiple ==
    ASSUME NEW B \in Nat, B > 2, NEW q \in Nat
    PROVE  (B * q) % B = 0
OBVIOUS

LEMMA MultipleBelow ==
    ASSUME NEW B \in Nat, B > 2, NEW p \in Nat, NEW q \in Nat, B * p < B * q
    PROVE  B * p + B <= B * q
<1>1. p < q
  OBVIOUS
<1>. QED  BY <1>1

(* Between two multiples there is room for a block. *)
LEMMA BlocksApart ==
    ASSUME NEW B \in Nat, B > 2, NEW b \in Nat, NEW n \in Nat,
           b % B = 0, n % B = 0, b < n
    PROVE  b + B <= n
<1>1. PICK p \in Nat : b = B * p + 0
  BY Divided, Zenon
<1>2. PICK q \in Nat : n = B * q + 0
  BY Divided, Zenon
<1>3. b = B * p /\ n = B * q
  BY <1>1, <1>2
<1>. QED  BY <1>3, MultipleBelow, Zenon

(* What add_padding adds is less than a block and completes one. *)
LEMMA PaddingCompletes ==
    ASSUME NEW B \in Nat, B > 2, NEW n \in Nat,
           NEW k, k = (B - (n % B)) % B
    PROVE  k \in Nat /\ k < B /\ (k + n) % B = 0
<1>1. PICK q \in Nat, r \in 0..(B - 1) : r = n % B /\ n = B * q + r
  BY Divided, Zenon
<1>2. CASE r = 0
  <2>1. k = 0
    <3>1. B * 1 = B /\ B - r = B
      BY <1>2
    <3>. QED  BY <3>1, <1>1, Multiple
  <2>2. k + n = B * q
    BY <1>1, <2>1, <1>2
  <2>. QED  BY <2>1, <2>2, Multiple
<1>3. CASE r > 0
  <2>1. k = B - r
    BY <1>1, <1>3
  <2>2. PICK p \in Nat : p = q + 1
    OBVIOUS
  <2>3. k + n = B * p
    BY <1>1, <2>1, <2>2
  <2>4. (k + n) % B = 0
    BY <2>3, Multiple, Zenon
  <2>. QED  BY <2>1, <2>4, <1>3
<1>. QED  BY <1>2, <1>3

(* Min and Max are what they say of what strip leaves. *)
LEMMA LeastOf ==
    ASSUME NEW T \in SUBSET Nat, T # {}
    PROVE  Min(T) \in T /\ \A y \in T : Min(T) <= y
<1>1. PICK x \in T : \A y \in T : <<y, x>> \notin OpToRel(<, Nat)
  BY WFMin, NatLessThanWellFounded, Zenon
<1>2. \A y \in T : ~ (y < x)
  BY <1>1, Zenon DEF OpToRel
<1>3. \A y \in T : x <= y
  BY <1>2
<1>. QED  BY <1>3, Zenon DEF Min

LEMMA GreatestOf ==
    ASSUME NEW n \in Nat, NEW T \in SUBSET (0..n), T # {}
    PROVE  Max(T) \in T /\ \A y \in T : y <= Max(T)
<1>. DEFINE above == {n - y : y \in T}
<1>1. above \in SUBSET Nat /\ above # {}
  <2>1. PICK y \in T : TRUE
    OBVIOUS
  <2>2. n - y \in above
    BY <2>1
  <2>3. \A x \in T : x \in 0..n
    OBVIOUS
  <2>4. \A x \in T : n - x \in Nat
    BY <2>3
  <2>. QED  BY <2>2, <2>4
<1>2. PICK x \in above : \A y \in above : <<y, x>> \notin OpToRel(<, Nat)
  BY <1>1, WFMin, NatLessThanWellFounded, Zenon
<1>3. \A y \in above : ~ (y < x)
  BY <1>1, <1>2, Zenon DEF OpToRel
<1>4. PICK z \in T : x = n - z
  OBVIOUS
<1>5. ASSUME NEW y \in T PROVE z >= y
  <2>1. n - y \in above /\ ~ (n - y < n - z)
    BY <1>3, <1>4
  <2>2. y \in 0..n /\ z \in 0..n
    OBVIOUS
  <2>. QED  BY <2>1, <2>2
<1>6. Max(T) \in T /\ \A y \in T : Max(T) >= y
  BY <1>5, Zenon DEF Max
<1>. QED  BY <1>6

(* A function on 1..n is a sequence. *)
LEMMA FunctionIsSeq ==
    ASSUME NEW S, NEW n \in Nat, NEW f \in [1..n -> S]
    PROVE  f \in Seq(S) /\ Len(f) = n
OBVIOUS

(* The document before and after the padding. *)
Symbols == {"<", ">", "newline", "?", Padder}

IsDocument(s) ==
    /\ s \in Seq(Symbols) /\ Len(s) >= 3
    /\ s[1] = "<" /\ s[Len(s) - 1] = ">" /\ s[Len(s)] = "newline"
    /\ \A j \in 2..(Len(s) - 2) : s[j] = Padder

LEMMA Serialized == LogInv => IsDocument(Serialize)
<1>. SUFFICES ASSUME LogInv PROVE IsDocument(Serialize)
  OBVIOUS
<1>1. logs \in Seq(Event)
  BY DEF LogInv
<1>2. PICK n \in Nat : n = Len(logs) /\ DOMAIN logs = 1..n
  BY <1>1
<1>3. PICK body : body = [i \in 1..n |-> Padder]
  OBVIOUS
<1>4. body \in Seq(Symbols) /\ Len(body) = n /\ \A i \in 1..n : body[i] = Padder
  BY <1>3, FunctionIsSeq DEF Symbols
<1>5. PICK b : b = <<"<">>
  OBVIOUS
<1>6. PICK e : e = <<">", "newline">>
  OBVIOUS
<1>7. b \in Seq(Symbols) /\ Len(b) = 1 /\ b[1] = "<"
  BY <1>5 DEF Symbols
<1>8. e \in Seq(Symbols) /\ Len(e) = 2 /\ e[1] = ">" /\ e[2] = "newline"
  BY <1>6 DEF Symbols
<1>9. PICK front : front = b \o body
  OBVIOUS
<1>10. /\ front \in Seq(Symbols) /\ Len(front) = n + 1 /\ front[1] = "<"
      /\ \A j \in 2..(n + 1) : front[j] = Padder
  BY <1>4, <1>7, <1>9, ConcatProperties
<1>11. PICK s : s = front \o e
  OBVIOUS
<1>12. /\ s \in Seq(Symbols) /\ Len(s) = n + 3 /\ s[1] = "<"
       /\ \A j \in 2..(n + 1) : s[j] = Padder
       /\ s[n + 2] = ">" /\ s[n + 3] = "newline"
  <2>1. /\ s \in Seq(Symbols) /\ Len(s) = n + 3
        /\ \A i \in 1..(n + 3) : s[i] = IF i <= n + 1 THEN front[i] ELSE e[i - (n + 1)]
    BY <1>10, <1>8, <1>11, ConcatProperties
  <2>2. /\ n + 2 \in 1..(n + 3) /\ ~(n + 2 <= n + 1) /\ (n + 2) - (n + 1) = 1
        /\ n + 3 \in 1..(n + 3) /\ ~(n + 3 <= n + 1) /\ (n + 3) - (n + 1) = 2
    OBVIOUS
  <2>3. s[n + 2] = e[1] /\ s[n + 3] = e[2]
    BY <2>1, <2>2, Zenon
  <2>. QED  BY <2>1, <2>3, <1>10, <1>8
<1>13. Serialize = s
  BY <1>2, <1>3, <1>5, <1>6, <1>9, <1>11 DEF Serialize
<1>. QED  BY <1>12, <1>13 DEF IsDocument

(* k padding characters before the document complete a number of blocks.   *)
IsPadded(p, k, s) ==
    /\ p \in Seq(Symbols) /\ k \in Nat /\ k < BlockSize
    /\ Len(p) = k + Len(s) /\ Len(p) % BlockSize = 0
    /\ \A i \in 1..k : p[i] = Padder
    /\ \A j \in 1..Len(s) : p[k + j] = s[j]

LEMMA Padded ==
    ASSUME NEW s \in Seq(Symbols), NEW p, p = AddPadding(s)
    PROVE  \E k \in Nat : IsPadded(p, k, s)
<1>1. PICK n \in Nat : n = Len(s)
  OBVIOUS
<1>2. PICK k : k = (BlockSize - (n % BlockSize)) % BlockSize
  OBVIOUS
<1>3. k \in Nat /\ k < BlockSize /\ (k + n) % BlockSize = 0
  BY <1>2, BlockSizeAssumption, PaddingCompletes
<1>4. PICK f : f = [i \in 1..k |-> Padder]
  OBVIOUS
<1>5. f \in Seq(Symbols) /\ Len(f) = k /\ \A i \in 1..k : f[i] = Padder
  BY <1>3, <1>4, FunctionIsSeq DEF Symbols
<1>6. p = f \o s
  BY <1>1, <1>2, <1>4 DEF AddPadding, Missing, Fill
<1>7. /\ p \in Seq(Symbols) /\ Len(p) = k + n
      /\ \A i \in 1..(k + n) : p[i] = IF i <= k THEN f[i] ELSE s[i - k]
  <2>1. /\ f \o s \in Seq(Symbols) /\ Len(f \o s) = Len(f) + Len(s)
        /\ \A i \in 1..(Len(f) + Len(s)) : (f \o s)[i] = IF i <= Len(f) THEN f[i] ELSE s[i - Len(f)]
    BY <1>5, ConcatProperties
  <2>. QED  BY <2>1, <1>1, <1>5, <1>6
<1>8. \A j \in 1..n : p[k + j] = s[j]
  BY <1>3, <1>7
<1>9. \A i \in 1..k : p[i] = Padder
  BY <1>1, <1>3, <1>5, <1>7
<1>10. Len(p) % BlockSize = 0
  BY <1>3, <1>7, Zenon
<1>11. IsPadded(p, k, s)
  BY <1>1, <1>3, <1>7, <1>8, <1>9, <1>10, Zenon DEF IsPadded
<1>. QED  BY <1>3, <1>11

(* What strip leaves: the positions from the first to the last that is kept. *)
IsStretch(c, a, b) ==
    /\ c \in Seq(Nat) /\ a \in Nat \ {0} /\ b \in Nat /\ a <= b
    /\ Len(c) = b - a + 1
    /\ \A i \in 1..Len(c) : c[i] = a + i - 1

LEMMA StrippedIsStretch ==
    ASSUME padded \in Seq(Symbols), white \subseteq DOMAIN padded, Kept # {}
    PROVE  \E a, b \in Kept :
              /\ \A x \in Kept : a <= x /\ x <= b
              /\ IsStretch(Stripped, a, b)
<1>1. PICK n \in Nat : n = Len(padded) /\ DOMAIN padded = 1..n
  OBVIOUS
<1>2. Kept \in SUBSET (0..n) /\ Kept \in SUBSET Nat /\ 0 \notin Kept
  BY <1>1 DEF Kept
<1>3. PICK a \in Kept : a = Min(Kept) /\ \A x \in Kept : a <= x
  BY <1>2, LeastOf
<1>4. PICK b \in Kept : b = Max(Kept) /\ \A x \in Kept : x <= b
  BY <1>2, GreatestOf
<1>5. PICK ids : ids = [i \in 1..n |-> i]
  OBVIOUS
<1>6. a \in 1..n /\ b \in 1..n /\ a <= b
  BY <1>2, <1>3, <1>4
<1>7. PICK c : c = SubSeq(ids, a, b)
  OBVIOUS
<1>8. \A i \in a..b : ids[i] \in Nat /\ ids[i] = i
  BY <1>5, <1>6
<1>9. /\ c \in Seq(Nat) /\ Len(c) = b - a + 1
      /\ \A i \in 1..(b - a + 1) : c[i] = ids[a + i - 1]
  BY <1>6, <1>7, <1>8, SubSeqProperties
<1>10. IsStretch(c, a, b)
  BY <1>6, <1>8, <1>9 DEF IsStretch
<1>11. Stripped = c
  BY <1>1, <1>3, <1>4, <1>5, <1>7, Zenon DEF Stripped
<1>. QED  BY <1>3, <1>4, <1>10, <1>11

(* What comes out of it: garbage when the first block is not complete, and *)
(* the message up to there otherwise.                                      *)
LEMMA Decrypted ==
    ASSUME padded \in Seq(Symbols), NEW c, NEW a, NEW b, IsStretch(c, a, b),
           b <= Len(padded), Len(c) % BlockSize = 0,
           NEW m, m = Decrypt(c)
    PROVE  /\ m \in Seq(Symbols) /\ Len(m) = Len(c)
           /\ a # 1 => m[1] = "?"
           /\ a = 1 => \A i \in 1..b : m[i] = padded[i]
<1>1. /\ a \in Nat \ {0} /\ b \in Nat /\ a <= b /\ c \in Seq(Nat)
      /\ Len(c) = b - a + 1 /\ \A i \in 1..Len(c) : c[i] = a + i - 1
  BY DEF IsStretch
<1>2. c[1] = a /\ DOMAIN c = 1..Len(c) /\ Len(c) \in Nat \ {0}
  BY <1>1
<1>3. BlockSize \in Nat /\ BlockSize > 2
  BY BlockSizeAssumption
<1>4. m = [i \in 1..Len(c) |->
             IF a % BlockSize # 1 \/ (BlockSize * ((i - 1) \div BlockSize) = 0 /\ a # 1)
             THEN "?" ELSE padded[c[i]]]
  BY <1>2 DEF Decrypt
<1>5. \A i \in 1..Len(c) : padded[c[i]] \in Symbols
  BY <1>1
<1>6. m \in Seq(Symbols) /\ Len(m) = Len(c)
  <2>1. "?" \in Symbols
    BY DEF Symbols
  <2>2. m \in [1..Len(c) -> Symbols]
    BY <1>4, <1>5, <2>1
  <2>. QED  BY <2>2, <1>2, FunctionIsSeq
<1>7. ASSUME a # 1 PROVE m[1] = "?"
  <2>1. BlockSize * ((1 - 1) \div BlockSize) = 0
    BY <1>3
  <2>. QED  BY <2>1, <1>4, <1>2, <1>7
<1>8. ASSUME a = 1 PROVE \A i \in 1..b : m[i] = padded[i]
  <2>1. a % BlockSize = 1
    BY <1>8, <1>3
  <2>. QED  BY <2>1, <1>8, <1>4, <1>1
<1>. QED  BY <1>6, <1>7, <1>8

(* lstrip takes what there is before the first other symbol. *)
LEMMA Cleared ==
    ASSUME NEW m \in Seq(Symbols), NEW f \in 1..Len(m),
           \A i \in 1..(f - 1) : m[i] = Padder, m[f] # Padder
    PROVE  ClearPadding(m) = SubSeq(m, f, Len(m))
<1>. DEFINE other == {i \in DOMAIN m : m[i] # Padder}
<1>1. other \in SUBSET Nat /\ f \in other /\ \A i \in other : f <= i
  OBVIOUS
<1>2. Min(other) \in other /\ \A i \in other : Min(other) <= i
  BY <1>1, LeastOf
<1>3. Min(other) = f
  <2>1. PICK x \in Nat : x = Min(other) /\ f <= x /\ x <= f
    BY <1>1, <1>2
  <2>. QED  BY <2>1
<1>. QED  BY <1>1, <1>3 DEF ClearPadding

LEMMA NothingDecodes == Deserialize(ClearPadding(<<>>)) = None
<1>1. ClearPadding(<<>>) = <<>>
  BY DEF ClearPadding
<1>2. ~ WellFormed(<<>>)
  BY DEF WellFormed
<1>. QED  BY <1>1, <1>2 DEF Deserialize

LEMMA GarbageIsRefused ==
    ASSUME NEW m \in Seq(Symbols), Len(m) > 0, m[1] = "?"
    PROVE  Deserialize(ClearPadding(m)) = None
<1>1. ClearPadding(m) = SubSeq(m, 1, Len(m))
  BY Cleared DEF Padder
<1>2. ClearPadding(m) = m
  BY <1>1
<1>3. ~ WellFormed(m)
  BY DEF WellFormed
<1>. QED  BY <1>2, <1>3 DEF Deserialize

(* The whole message decodes to the document. *)
LEMMA WholeDecodes ==
    ASSUME NEW s, IsDocument(s), NEW k, NEW m, IsPadded(m, k, s)
    PROVE  Deserialize(ClearPadding(m)) = s
<1>1. /\ m \in Seq(Symbols) /\ k \in Nat /\ Len(m) = k + Len(s)
      /\ \A i \in 1..k : m[i] = Padder
      /\ \A j \in 1..Len(s) : m[k + j] = s[j]
      /\ s \in Seq(Symbols) /\ Len(s) \in Nat /\ Len(s) >= 3
  BY DEF IsPadded, IsDocument
<1>2. m[k + 1] # Padder
  BY <1>1 DEF IsDocument, Padder
<1>3. PICK f \in 1..Len(m) : f = k + 1
  BY <1>1
<1>4. ClearPadding(m) = SubSeq(m, f, Len(m))
  <2>1. \A i \in 1..(f - 1) : m[i] = Padder
    BY <1>1, <1>3
  <2>2. m[f] # Padder
    BY <1>2, <1>3
  <2>. QED  BY <1>1, <2>1, <2>2, Cleared
<1>5. PICK t : t = SubSeq(m, f, Len(m))
  OBVIOUS
<1>6. /\ t \in Seq(Symbols) /\ Len(t) = Len(s)
      /\ \A j \in 1..Len(s) : t[j] = m[k + j]
  <2>1. \A i \in f..Len(m) : m[i] \in Symbols
    BY <1>1, <1>3
  <2>2. /\ t \in Seq(Symbols)
        /\ Len(t) = IF f <= Len(m) THEN Len(m) - f + 1 ELSE 0
        /\ \A i \in 1..(Len(m) - f + 1) : t[i] = m[f + i - 1]
    BY <2>1, <1>1, <1>5, SubSeqProperties
  <2>. QED  BY <2>2, <1>1, <1>3
<1>7. t = s
  BY <1>1, <1>6, SeqEqual
<1>8. WellFormed(s)
  <2>1. \A i \in DOMAIN s : s[i] \in {"<", ">", "newline", Padder}
    BY <1>1 DEF IsDocument
  <2>2. \A i \in DOMAIN s : s[i] # "?"
    BY <2>1 DEF Padder
  <2>3. /\ Len(s) > 1 /\ s[1] = "<"
        /\ s[Len(s)] = "newline" /\ s[Len(s) - 1] = ">"
    BY <1>1 DEF IsDocument
  <2>. QED  BY <2>2, <2>3, Zenon DEF WellFormed
<1>. QED  BY <1>4, <1>5, <1>7, <1>8 DEF Deserialize

(* A message that lacks a block at its end is refused: it ends in the body *)
(* of the document or before it.                                           *)
LEMMA TruncatedIsRefused ==
    ASSUME NEW s, IsDocument(s), NEW k, NEW p, IsPadded(p, k, s),
           NEW m \in Seq(Symbols), Len(m) > 0, Len(m) <= Len(p) - 3,
           \A i \in 1..Len(m) : m[i] = p[i]
    PROVE  Deserialize(ClearPadding(m)) = None
<1>1. /\ p \in Seq(Symbols) /\ k \in Nat /\ Len(p) = k + Len(s)
      /\ \A i \in 1..k : p[i] = Padder
      /\ \A j \in 1..Len(s) : p[k + j] = s[j]
      /\ s \in Seq(Symbols) /\ Len(s) >= 3
      /\ s[1] = "<" /\ \A j \in 2..(Len(s) - 2) : s[j] = Padder
  BY DEF IsPadded, IsDocument
<1>2. PICK n \in Nat, l \in Nat : n = Len(s) /\ l = Len(m)
  BY <1>1
<1>3. n >= 3 /\ l > 0 /\ l <= (k + n) - 3 /\ DOMAIN m = 1..l
  BY <1>1, <1>2
<1>4. \A i \in 1..l : i <= k => m[i] = Padder
  BY <1>1, <1>2, <1>3
<1>5. ASSUME NEW j \in 1..n, k + j <= l
      PROVE  m[k + j] = s[j] /\ j <= n - 3
  BY <1>1, <1>2, <1>3, <1>5
<1>6. CASE l <= k
  <2>1. {i \in DOMAIN m : m[i] # Padder} = {}
    <3>1. \A i \in DOMAIN m : m[i] = Padder
      BY <1>1, <1>3, <1>4, <1>6
    <3>. QED  BY <3>1
  <2>2. ClearPadding(m) = <<>>
    BY <2>1 DEF ClearPadding
  <2>3. ~ WellFormed(<<>>)
    BY DEF WellFormed
  <2>. QED  BY <2>2, <2>3 DEF Deserialize
<1>7. CASE l > k
  <2>1. PICK f \in 1..l : f = k + 1
    BY <1>1, <1>7
  <2>2. m[f] # Padder
    BY <2>1, <1>1, <1>3, <1>5, <1>7 DEF Padder
  <2>3. \A i \in 1..(f - 1) : m[i] = Padder
    BY <2>1, <1>1, <1>4
  <2>4. ClearPadding(m) = SubSeq(m, f, l)
    BY <2>2, <2>3, <1>2, Cleared
  <2>5. PICK t : t = SubSeq(m, f, l)
    OBVIOUS
  <2>6. \A i \in f..l : m[i] \in Symbols
    BY <1>2, <2>1
  <2>7. /\ t \in Seq(Symbols)
        /\ Len(t) = IF f <= l THEN l - f + 1 ELSE 0
        /\ \A i \in 1..(l - f + 1) : t[i] = m[f + i - 1]
    BY <2>5, <2>6, <1>2, SubSeqProperties
  <2>8. Len(t) = l - k /\ t[Len(t)] = m[l]
    <3>1. Len(t) = l - k /\ l - k \in 1..(l - f + 1)
      BY <2>7, <2>1, <1>1, <1>7
    <3>2. t[l - k] = m[f + (l - k) - 1] /\ f + (l - k) - 1 = l
      BY <2>7, <3>1, <2>1, <1>1
    <3>. QED  BY <3>1, <3>2
  <2>9. m[l] \in {"<", Padder}
    <3>1. PICK j \in 1..n : l = k + j
      BY <1>1, <1>3, <1>7
    <3>2. m[l] = s[j] /\ j <= n - 3
      BY <1>5, <3>1
    <3>. QED  BY <3>2, <1>1, <1>2
  <2>10. ~ WellFormed(t)
    BY <2>8, <2>9 DEF WellFormed, Padder
  <2>. QED  BY <2>4, <2>5, <2>10 DEF Deserialize
<1>. QED  BY <1>6, <1>7, <1>1, <1>2

(* Whatever strip has taken. *)
LEMMA DecodedWholeOrNot ==
    ASSUME LogInv, padded = AddPadding(Serialize), white \subseteq DOMAIN padded,
           NEW r, r = Deserialize(ClearPadding(Decrypt(Stripped)))
    PROVE  /\ r \in {Serialize, None}
           /\ {1, Len(padded)} \intersect white = {} => r = Serialize
<1>1. PICK s : s = Serialize /\ IsDocument(s)
  BY Serialized
<1>2. s \in Seq(Symbols)
  BY <1>1 DEF IsDocument
<1>3. PICK k \in Nat : IsPadded(padded, k, s)
  BY <1>1, <1>2, Padded
<1>4. PICK n \in Nat : /\ n = Len(padded) /\ n >= 3 /\ n % BlockSize = 0
                       /\ padded \in Seq(Symbols) /\ DOMAIN padded = 1..n
  BY <1>1, <1>3 DEF IsPadded, IsDocument
<1>5. \A x \in 1..n : x \in Kept \/ x \in white
  BY <1>4 DEF Kept
<1>6. BlockSize \in Nat /\ BlockSize > 2
  BY BlockSizeAssumption
<1>7. CASE Kept = {}
  <2>1. 1 \in white
    BY <1>4, <1>5, <1>7
  <2>2. Stripped = <<>>
    BY <1>7 DEF Stripped
  <2>3. PICK d : d = Decrypt(<<>>)
    OBVIOUS
  <2>4. d = <<>>
    BY <2>3 DEF Decrypt
  <2>5. r = None
    BY <2>2, <2>3, <2>4, NothingDecodes
  <2>. QED  BY <2>1, <2>5
<1>8. CASE Kept # {}
  <2>1. PICK a, b \in Kept :
            /\ \A x \in Kept : a <= x /\ x <= b
            /\ IsStretch(Stripped, a, b)
    BY <1>4, <1>8, StrippedIsStretch
  <2>2. PICK c : c = Stripped
    OBVIOUS
  <2>3. /\ a \in 1..n /\ b \in 1..n /\ a <= b /\ IsStretch(c, a, b)
        /\ Len(c) = b - a + 1
    BY <2>1, <2>2, <1>4 DEF Kept, IsStretch
  <2>4. a # 1 => 1 \in white
    BY <2>1, <2>3, <1>4, <1>5
  <2>5. b # n => n \in white
    BY <2>1, <2>3, <1>4, <1>5
  <2>6. PICK m : m = Decrypt(c)
    OBVIOUS
  <2>7. r = Deserialize(ClearPadding(m))
    BY <2>2, <2>6
  <2>8. CASE Len(c) % BlockSize # 0
    <3>1. m = <<>>
      BY <2>6, <2>8 DEF Decrypt
    <3>2. r = None
      BY <2>7, <3>1, NothingDecodes
    <3>3. a # 1 \/ b # n
      BY <2>3, <2>8, <1>4
    <3>. QED  BY <3>2, <3>3, <2>4, <2>5, <1>4
  <2>9. CASE Len(c) % BlockSize = 0
    <3>1. /\ m \in Seq(Symbols) /\ Len(m) = Len(c)
          /\ a # 1 => m[1] = "?"
          /\ a = 1 => \A i \in 1..b : m[i] = padded[i]
      BY <2>3, <2>6, <2>9, <1>4, Decrypted
    <3>2. CASE a # 1
      <4>1. Len(m) > 0
        BY <3>1, <2>3
      <4>2. r = None
        BY <3>1, <3>2, <4>1, <2>7, GarbageIsRefused
      <4>. QED  BY <4>2, <2>4, <3>2
    <3>3. CASE a = 1 /\ b = n
      <4>1. m = padded
        BY <3>1, <3>3, <2>3, <1>4, SeqEqual
      <4>2. r = s
        BY <4>1, <2>7, <1>1, <1>3, WholeDecodes
      <4>. QED  BY <4>2, <1>1
    <3>4. CASE a = 1 /\ b # n
      <4>1. b < n /\ Len(m) = b /\ b \in Nat /\ b > 0 /\ b % BlockSize = 0
        BY <3>1, <3>4, <2>3, <2>9
      <4>2. b + BlockSize <= n
        BY <4>1, <1>4, <1>6, BlocksApart
      <4>3. Len(m) > 0 /\ Len(m) <= Len(padded) - 3 /\ \A i \in 1..Len(m) : m[i] = padded[i]
        BY <4>1, <4>2, <1>4, <1>6, <3>1, <3>4
      <4>4. r = None
        BY <4>3, <3>1, <2>7, <1>1, <1>3, TruncatedIsRefused
      <4>. QED  BY <4>4, <3>4, <2>5, <1>4
    <3>. QED  BY <3>2, <3>3, <3>4
  <2>. QED  BY <2>8, <2>9
<1>. QED  BY <1>7, <1>8

LEMMA CodecKept ==
    ASSUME CodecInv, UNCHANGED reportVars
    PROVE  CodecInv'
BY DEF CodecInv, WholeOrNothing, AddPadding, Missing, Fill, Serialize, reportVars

LEMMA CodecStep == LogInv /\ CodecInv /\ ReportNext => CodecInv'
<1>. SUFFICES ASSUME LogInv, CodecInv, ReportNext PROVE CodecInv'
  OBVIOUS
<1>1. CASE NoLog
  BY <1>1 DEF NoLog, CodecInv, WholeOrNothing
<1>2. CASE OpenLog
  BY <1>2 DEF OpenLog, CodecInv, WholeOrNothing
<1>3. CASE ReadBatch
  BY <1>3 DEF ReadBatch, CodecInv, WholeOrNothing
<1>4. CASE FormatEvent
  BY <1>4 DEF FormatEvent, CodecInv, WholeOrNothing
<1>5. CASE LogRead
  BY <1>5 DEF LogRead, CodecInv, WholeOrNothing
<1>6. CASE ReadRaises
  BY <1>6 DEF ReadRaises, CodecInv, WholeOrNothing
<1>7. CASE Encrypt
  <2>1. stage' = "output" /\ padded' = AddPadding(Serialize) /\ logs' = logs
        /\ white' \in SUBSET DOMAIN padded'
    BY <1>7 DEF Encrypt
  <2>2. padded' = AddPadding(Serialize)'
    BY <2>1 DEF AddPadding, Missing, Fill, Serialize
  <2>. QED  BY <2>1, <2>2 DEF CodecInv, WholeOrNothing
<1>8. CASE DecodeReport
  <2>1. /\ stage = "output" /\ stage' = "decoded"
        /\ logs' = logs /\ padded' = padded /\ white' = white
        /\ root' = Deserialize(ClearPadding(Decrypt(Stripped)))
    BY <1>8 DEF DecodeReport
  <2>2. padded = AddPadding(Serialize) /\ white \subseteq DOMAIN padded
    BY <2>1 DEF CodecInv
  <2>3. /\ root' \in {Serialize, None}
        /\ {1, Len(padded)} \intersect white = {} => root' = Serialize
    BY <2>1, <2>2, DecodedWholeOrNot
  <2>4. Serialize' = Serialize /\ AddPadding(Serialize)' = AddPadding(Serialize)
    BY <2>1 DEF AddPadding, Missing, Fill, Serialize
  <2>. QED  BY <2>1, <2>2, <2>3, <2>4 DEF CodecInv, WholeOrNothing
<1>. QED  BY <1>1, <1>2, <1>3, <1>4, <1>5, <1>6, <1>7, <1>8 DEF ReportNext

-----------------------------------------------------------------------------
LEMMA ReportInvHolds == Spec => []ReportInv
<1>1. Init => ReportInv
  <2>1. ReportInit => CodecInv
    BY DEF ReportInit, CodecInv, WholeOrNothing
  <2>. QED  BY <2>1, ConfigBegins, LogBegins DEF Init, ReportInv
<1>2. ReportInv /\ [Next]_<<configVars, reportVars>> => ReportInv'
  <2>. SUFFICES ASSUME ReportInv, [Next]_<<configVars, reportVars>> PROVE ReportInv'
    OBVIOUS
  <2>1. CASE ReportNext
    BY <2>1, ReportKeepsConfig, ConfigKept, LogStep, CodecStep DEF ReportInv
  <2>2. ASSUME UNCHANGED reportVars PROVE LogInv' /\ CodecInv'
    BY <2>2, LogKept, CodecKept DEF ReportInv, reportVars
  <2>3. CASE ReadConfig /\ UNCHANGED reportVars
    BY <2>2, <2>3, ConfigStep DEF ReportInv
  <2>4. CASE UNCHANGED <<configVars, reportVars>>
    BY <2>2, <2>4, ConfigKept DEF ReportInv
  <2>. QED  BY <2>1, <2>3, <2>4 DEF Next
<1>. QED  BY <1>1, <1>2, PTL DEF Spec

(* Whatever the configuration document: the server is valid when every     *)
(* part but the clients is good, and then its clients are those without a  *)
(* mistake of their own or of an alert (read_config).                      *)
THEOREM ConfigIsWhatWasRead == Spec => []ConfigAgrees
BY ReportInvHolds, ConfigAgreesFromInv, PTL DEF ReportInv

(* Whatever the event log, the block size and the bytes strip takes: the   *)
(* logs are in the order of the event log, and the server decodes the whole*)
(* report or nothing (create_logs, add_padding, did_client_executed).      *)
THEOREM ReportsArriveWhole == Spec => []ReportFaithful
<1>1. ReportInv => ReportFaithful
  BY DEF ReportInv, LogInv, CodecInv, ReportFaithful, NewestFirst, Falling
<1>. QED  BY <1>1, ReportInvHolds, PTL
=============================================================================
