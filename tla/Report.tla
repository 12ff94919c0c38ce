------------------------------- MODULE Report -------------------------------
(***************************************************************************)
(* One report of ssh-client, from the event log of the remote machine to   *)
(* the document the server stores: create_logs, serialize, add_padding and *)
(* encrypt in client.py, then strip, decrypt, clear_padding and            *)
(* deserialize in server.py.                                               *)
(*                                                                         *)
(* The document is a sequence of symbols: "<" begins it, ">" and a new     *)
(* line end it, and a log in between is the padding character, which is    *)
(* the hardest case.  The cipher chains blocks: of a ciphertext that has   *)
(* lost its first block the next block comes out as garbage ("?").         *)
(***************************************************************************)
EXTENDS ServerConfig, FiniteSetsExt

CONSTANTS
    EventLogs,    \* event logs: the batches ReadEventLog returns, newest first
    BlockSize     \* AES_BLOCK_SIZE

(* The end of the document, "</root>" and a new line, fits into a block.   *)
ASSUME BlockSizeAssumption == BlockSize \in Nat /\ BlockSize > 2

(* An event abstracted: its place in the log, and whether it can be        *)
(* formatted.  EVENTLOG_BACKWARDS_READ: the newest event comes first.      *)
Event == [id : Nat, sound : BOOLEAN]
ASSUME EventLogsAssumption ==
    \A eventLog \in EventLogs :
        /\ eventLog \in Seq(Seq(Event))
        /\ \A b, c \in DOMAIN eventLog :
              \A i \in DOMAIN eventLog[b], j \in DOMAIN eventLog[c] :
                  b < c \/ (b = c /\ i < j) => eventLog[b][i].id > eventLog[c][j].id

Padder == "0"   \* AES_PADDER

VARIABLES
    stage,      \* where the report is
    unreadLog,  \* the batches that have not been read
    events,     \* the local variable of create_logs
    rest,       \* what the loop over events has still to format
    logs,       \* the log elements
    padded,     \* the padded message
    white,      \* which bytes of the ciphertext are white space
    root        \* what the server decodes: None is <<>>

reportVars == <<stage, unreadLog, events, rest, logs, padded, white, root>>
None == <<>>

ReportInit ==
    /\ stage = "idle" /\ unreadLog = <<>> /\ events = <<>> /\ rest = <<>>
    /\ logs = <<>> /\ padded = <<>> /\ white = {} /\ root = None

-----------------------------------------------------------------------------
(* create_logs.  Not on Windows, or the log does not open: no logs.        *)
NoLog ==
    /\ stage = "idle" /\ reading = "valid"
    /\ stage' = "logs"
    /\ UNCHANGED <<configVars, unreadLog, events, rest, logs, padded, white, root>>

NextBatch(batches) == IF batches = <<>> THEN <<>> ELSE Head(batches)
LaterBatches(batches) == IF batches = <<>> THEN <<>> ELSE Tail(batches)

OpenLog ==
    /\ stage = "idle" /\ reading = "valid"
    /\ \E eventLog \in EventLogs :
          events' = NextBatch(eventLog) /\ unreadLog' = LaterBatches(eventLog)
    /\ stage' = "reading"
    /\ UNCHANGED <<configVars, rest, logs, padded, white, root>>

(* "while events": the next batch replaces the one that is there. *)
ReadBatch ==
    /\ stage = "reading" /\ rest = <<>> /\ events # <<>>
    /\ events' = NextBatch(unreadLog) /\ unreadLog' = LaterBatches(unreadLog)
    /\ rest' = events'
    /\ UNCHANGED <<configVars, stage, logs, padded, white, root>>

(* "for event in events": what can be formatted is appended. *)
FormatEvent ==
    /\ stage = "reading" /\ rest # <<>>
    /\ logs' = IF Head(rest).sound THEN Append(logs, Head(rest)) ELSE logs
    /\ rest' = Tail(rest)
    /\ UNCHANGED <<configVars, stage, unreadLog, events, padded, white, root>>

LogRead ==
    /\ stage = "reading" /\ rest = <<>> /\ events = <<>>
    /\ stage' = "logs"
    /\ UNCHANGED <<configVars, unreadLog, events, rest, logs, padded, white, root>>

(* ReadEventLog raises, before the loop or in it: the script fails. *)
ReadRaises ==
    /\ \/ stage = "idle" /\ reading = "valid"
       \/ stage = "reading" /\ rest = <<>> /\ events # <<>>
    /\ stage' = "failed"
    /\ UNCHANGED <<configVars, unreadLog, events, rest, logs, padded, white, root>>

-----------------------------------------------------------------------------
Serialize == <<"<">> \o [i \in DOMAIN logs |-> Padder] \o <<">", "newline">>

(* add_padding: on the left.  Mutant: on the right. *)
Missing(message) == (BlockSize - (Len(message) % BlockSize)) % BlockSize
Fill(n) == [i \in 1..n |-> Padder]
AddPaddingRight(message) == message \o Fill(Missing(message))
AddPadding(message) == Fill(Missing(message)) \o message

(* encrypt: any of the bytes may come out as white space. *)
Encrypt ==
    /\ stage = "logs"
    /\ padded' = AddPadding(Serialize)
    /\ white' \in SUBSET DOMAIN padded'
    /\ stage' = "output"
    /\ UNCHANGED <<configVars, unreadLog, events, rest, logs, root>>

(* output.strip(): the part of the ciphertext that is left. *)
Kept == DOMAIN padded \ white
Stripped == IF Kept = {} THEN <<>> ELSE SubSeq([i \in DOMAIN padded |-> i], Min(Kept), Max(Kept))

(* decrypt: no multiple of the block size is an error, and ''; a block     *)
(* comes out right when it and the one before it are those of the message. *)
Decrypt(cipher) ==
    IF Len(cipher) % BlockSize # 0 THEN <<>>
    ELSE [i \in DOMAIN cipher |->
             LET before == BlockSize * ((i - 1) \div BlockSize) IN
             IF cipher[1] % BlockSize # 1 \/ (before = 0 /\ cipher[1] # 1)
             THEN "?" ELSE padded[cipher[i]]]

(* clear_padding: lstrip. *)
ClearPadding(message) ==
    LET other == {i \in DOMAIN message : message[i] # Padder}
    IN IF other = {} THEN <<>> ELSE SubSeq(message, Min(other), Len(message))

(* deserialize: a document that begins and ends, or None. *)
WellFormed(message) ==
    /\ Len(message) > 1 /\ message[1] = "<"
    /\ \/ message[Len(message)] = ">"
       \/ message[Len(message)] = "newline" /\ message[Len(message) - 1] = ">"
    /\ \A i \in DOMAIN message : message[i] # "?"
Deserialize(message) == IF WellFormed(message) THEN message ELSE None

DecodeReport ==
    /\ stage = "output"
    /\ root' = Deserialize(ClearPadding(Decrypt(Stripped)))
    /\ stage' = "decoded"
    /\ UNCHANGED <<configVars, unreadLog, events, rest, logs, padded, white>>

ReportNext ==
    \/ NoLog \/ OpenLog \/ ReadBatch \/ FormatEvent \/ LogRead \/ ReadRaises
    \/ Encrypt \/ DecodeReport

Init == ConfigInit /\ ReportInit
Next == ReportNext \/ (ReadConfig /\ UNCHANGED reportVars)
Spec == Init /\ [][Next]_<<configVars, reportVars>>

-----------------------------------------------------------------------------
(* A report is decoded whole or not at all, whichever bytes strip takes,   *)
(* and whole when the ciphertext neither begins nor ends with white space: *)
(* padding on the left keeps the end of the document in the last block,    *)
(* and the document does not begin with the padding character.             *)
WholeOrNothing ==
    stage = "decoded" =>
        /\ root \in {Serialize, None}
        /\ {1, Len(padded)} \intersect white = {} => root = Serialize

(* The logs of a report are events of the log, newest first, none twice.   *)
NewestFirst == \A i, j \in DOMAIN logs : i < j => logs[i].id > logs[j].id

ReportFaithful == WholeOrNothing /\ NewestFirst
=============================================================================
