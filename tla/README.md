# Verification of python-misc

The repository is a collection of small Python 2 programs. This directory holds
TLA+ models of them, the TLC configurations that check the models on small
instances, and TLAPS proofs for instances of any size. `ssh-client` is the
largest program and the one with the most that can go wrong, and has most of the
models; after it come the chat program `messenger`, the socket library
`xsocket`, the threaded pipeline `async.py`, and three programs that turn one
text or tree into another.

## The repository: components, state, operations

| component | state it keeps | operations | hard about it | what makes it correct |
|---|---|---|---|---|
| ssh-client `Server` (server.py 880-1158) | clients, database, mailer, threads, the mode | `read_config`, `run`, `handle_client`, `did_client_executed`, `handle_client_stat` | one thread per client, exceptions that end a thread or the run, three effects without a transaction | rows before mails, mails before logs, one batch per run, clients isolated, a run ends |
| ssh-client `Client` (287-564) | configuration, alerts, observers; on the remote machine two files and a process | `run`, `register`, `notify_observers`, `get_alert_for_stat_type` | ten remote calls that fail in ways that are caught or not; files and scripts outlive the run | an output is the client's own, and this run's |
| ssh-client `Mailer` (737-877) | one SMTP connection | `connect`, `disconnect`, `send` | shared by all threads without a lock; replies, refusals, timeouts | True means delivered, to the client's address only; send returns |
| ssh-client `Database` (589-735) | two tables | `insert_stats`, `insert_logs` | a commit fails, or its answer is lost | with `Server` |
| ssh-client client.py | an output file | `run`, `create_stats`, `create_logs`, `encrypt` | killed or failing anywhere; bytes lost to `strip()` | what is decoded is what was measured |
| ssh-client configuration | the configuration file | `read_config`, constructors | which mistakes skip a client and which stop the run | the README's assumptions 2 and 3 |
| messenger server | sessions, a socket each | accept loop, receiver thread per session, broadcast, exit | thread races, no message boundaries, dead peers | a text reaches every other session once; exit is answered |
| messenger client | connection, sender, receiver thread | connect, send, receive, exit | two messages in one read | every text shown, the exit handshake ends |
| sip-socket xsocket | sessions by address, trial count, connections | connect with retries and SSL versions, accept, send and receive loops, join and close | recursive retry, errors swallowed in loops, a socket shared by all UDP sessions | bounded trials, one TLS session, a session per peer, what is reported is what was sent and nothing of it is lost or taken twice, programs end |
| sip-socket xsip | messages, headers, a scenario | encode, decode, parse a scenario | decoding that loses characters | decode after encode is the identity |
| uncategorized async.py | two queues, what a thread holds | register, process, send by threads | `empty()` then `get()`, order | every request answered once |
| uncategorized treetraverse | none | depth, zigzags | what is counted at a node | agree with definitions over the ways from the root |
| uncategorized cppbeast | none | thirteen operations on a text | lookahead at the end, operators within operators | no symbol but blanks and comments changes |
| tracer, consoler, sphinx, setup | none of interest | | | not modelled |

`Server.run` calls `Mailer.connect`, then `Client.run` for every client, in line
or in a thread each. `Client.run` calls back `Server.did_client_executed`
(observer), in the same thread, which calls `Database.insert_stats`, for each
statistic `Mailer.send` if its alert says so, and `Database.insert_logs`. The
client threads share the mailer and the database and nothing else; through the
remote machines they also share what earlier runs left there.

## Modules

| module | models | state and actions |
|---|---|---|
| `Fleet` | what the configuration fixes | constants: clients in document order, their places (machine and paths), alerts, statistics, refused mail addresses; `MailRequired` is `get_alert_for_stat_type` and `is_mail_required` |
| `Mailer` | class `Mailer` over smtplib | `connection` is the attribute; `dialog`, `waiting` and `letter` the `sendmail` call of each thread; `smtp` and `replies` the mail server and the one reply stream. `Send` enters `send`; `Transmit`, `Receive`, `NoAnswer` are its socket operations |
| `ClientRun` | `Client.run`, client.py as a remote process, the remote files, runs of main | `pc[c]` is the remote call `run` is at, one action per call; `execFile`, `outFile`, `phase` are the remote machine; `output` is the local variable; `epoch` counts the runs of main |
| `Collection` | the promise of one run about each client | abstract: pending, skipped, stored, complete, lost |
| `Collector` | class `Server`; composes `Mailer` and `ClientRun` | `main` and `turn` are `Server.run`; `stage[c]` and `at[c]` are `did_client_executed` and its loop; `machinestat` and `machinelog` the tables. `NewRun` is main run again |
| `Chat` | the promise of the chat | abstract: how many texts each user has typed, how many of them the server has taken, which texts of whom each user has seen |
| `Messenger` | messenger's server.py and client.py | `server` is the server's global, assigned by `AssignServer`, after the accept thread is started; `client[c]` is a client's process (`Connect`, `Type`, `CloseWindow`, its receiver thread `ClientReceive`); `accepting` and `sessions` the accept thread; `receiver`, `message`, `next` the receiver thread of a session and its loop over the sessions, which ends in `NoServer` while the global is None; `typed`/`read` and `toClient` the two directions of a connection |
| `SocketClient` | xsocket's client.py, tcpclient.py, udpclient.py, and the network | `client[c].run` is where the program is, `trial` and `frames` the attempts and the calls of `connect` within each other, `layers` the TLS sessions on the stream; `thread[c][l]` its loops; `link`, `backlog`, `unread`, `datagrams`, `down` the connections |
| `Sockets` | xsocket's server.py, session.py, tcpserver.py, udpserver.py; composes `SocketClient` | `main` is `Server.run`, `sessions` the dictionary of addresses; `accepted` and `held` are what accept and a session have taken from the UDP socket and not reported yet, since taking (`AcceptUdp`, `SessionRecvAny`) and reporting (`AcceptReports`, `SessionReports`) are two steps of a thread; `reports` is a history of the calls of `on_recv_success` |
| `Dispatch` | the promise of async.py | abstract: how many requests came, which were answered |
| `Pipeline` | async.py | `input` and `output` are the queues; a thread is looking (`empty()`), getting (`get()`, which blocks) or holding a `job`; `sent` is a history |
| `ServerConfig` | `Server.read_config` and the constructors it calls | `reading` is the part that is read next; `clients`, `tables`, `multithread` what it has done so far |
| `Report` | one report: client.py's create_logs, serialize, encrypt, then the server's strip, decrypt, clear_padding, deserialize; extends `ServerConfig` | `unreadLog` and `events` are the event log and the local variable, `rest` what the loop over `events` has still to format, `padded` and `white` the ciphertext by its plain text and the bytes of it that are white space |
| `Texts` | Python's str methods | operators on sequences of symbols |
| `TreeTraverse`, `CppBeast`, `SipMessage` | treetraverse.py, cppbeast.py, xsip | operators, and beside them the reference definitions |
| `TextTools` | the programs that run these once on an input | `task` and `result` |
| `MailerProofs`, `ClientRunProofs`, `CollectorProofs`, `CollectorRefinement`, `MessengerProofs`, `PipelineProofs`, `SocketsProofs`, `ReportProofs` | theorems | |
| `MCMailer`, `MCClientRun`, `MCCollector`, `MCRerun`, `MCMessenger`, `MCPipeline`, `MCSockets`, `MCReport`, `MCTexts`, `MCSequential` | instances for TLC; `MCSequential` puts those of `Report` and `TextTools`, which work alone on one input, into one run | |

`Collector` extends `Mailer` and `ClientRun`: each of its steps is a step of one
of them that leaves the other alone, or a step of the handler. A definition
whose comment begins with "Mutant" is a broken version of the definition below
it, of the kind a careless change of the code would make; nothing uses it but
the mutation runs, in which the property named in PROJECT.json must fail.

Choices worth knowing:

- Python 2: `sftp.put` raises `IOError`, not the `OSError` the code catches
  (line 519), so a failure of the remote side "dies". A local file that is
  missing is an IOError as well. Both outcomes are possible in `Put`.
- "skipped" is a path that ends in `notify_observers(None)`, "died" is an
  exception nobody catches. It ends the thread, or without threads the run.
- smtplib and the mail server are external. Modelled is what `send` depends on:
  commands and replies in order, RSET after a refusal, replies that carry no
  name, commands swallowed as text while a text is collected.
- A report is who wrote it, the values measured, and whether its ciphertext
  survives `strip()` and decryption (`intact`), which is any Boolean.
- A commit is applied, not applied, or applied with the answer lost.
- In the chat nothing ends a message: a read returns a stretch of the texts sent,
  so a message is an interval of its sender's texts, with an exit word perhaps
  glued to the last. A single text is not split over two reads. What is sent to a
  process that is gone resets the connection: the next send raises (`SendFails`),
  and so does a receive (`Hangup`). A client whose receiver thread has died is
  "deaf": its window goes on sending.
- `alone`, `mailed`, `sent` and `reports` are history variables: nothing reads
  them but properties.
- xsocket imports a module `constants` that the repository lacks; it is taken to
  be there. A message is sent and read whole. Nothing the client reads matters
  to it but that there is something, so `down` is a flag; a UDP client's receive
  loop ends with its first datagram, since `recvx` returns a pair (udpclient.py:16).
  At the end of a stream a session's loop reports an empty message for ever,
  which is left out.
- TLS is a handshake that succeeds only on a stream that carries no TLS yet; the
  server at the other end is not xsocket's, which has no TLS.
- In `Report` the padding character is what every log consists of, the hardest
  case for `lstrip`. The cipher is its chaining: a block comes out right when it
  and the one before are whole and in place, and as garbage otherwise.
- In the text modules a symbol is a character, or a word where the program never
  looks inside it. Strings that the code builds one symbol at a time are modelled
  that way because where the scans stop and what they skip is the question.

## Runs

| run | instance | question |
|---|---|---|
| `mailer` | two threads, one address refused, unbounded mails | does mixing the dialogues do worse than mix up answers? |
| `client_run` | two clients with a place each, two runs of main | what can the leftovers of a killed or failed run do to the next? |
| `collector` | two clients that share machine and paths, one statistic, both modes, one address refused | rows before mails, clients isolated, promise kept, run ends |
| `collector_rerun` | one client, two statistics, three alerts (two of one type), two readings, two runs | one batch per run, the loop over the statistics, and tables, files and scripts that outlive a run that ended or was killed |
| `messenger` | three users, of whom two type (two texts and one) and one may leave or be killed | do threads that loop over a growing list of sessions, some before there is a server to loop over, lose, repeat or reorder texts? is it a chat? |
| `pipeline` | three processors, two senders, three requests | can two threads that both saw an item lose, double or starve a request? |
| `sockets` | two addresses, one of whose programs may run again; seven kinds of command lines for TCP, UDP and TLS; one message per loop and run, up to three attempts | does a server mix up programs at one address, lose what was written to a connection, take a datagram twice, or leave a client waiting? |
| `sequential` | every part of a configuration wrong in every way, up to three clients; event logs of up to three batches; blocks of three bytes, any of which may be white space; the 677 trees of up to four levels; files of three pieces of nineteen kinds, four of seven, or any compound operator between names and blanks; messages of up to two headers | which server results from which mistake; is half a report ever taken for one? what do the text programs keep of their input? |
| `mail_shared` | as `mailer` | violated: `send` returns True for a mail that was not delivered to its client |
| `stale_output` | as `client_run` | violated: an old output is handed over as this run's |
| `skip_and_continue` | as `collector` | violated: without threads one client's exception ends the run |
| `config_mistakes` | the configurations of `sequential` | violated: a client with a mistake does not stop the reading, the server is valid without it |

The programs of `sequential` have nothing to do with each other: a behaviour reads a
configuration and makes a report, or runs one of the three text programs once. The
references the text programs are checked against are written apart from the code
(ways from the root instead of a recursion over children, a list of operators and
a measure of indentation instead of a scan), but they follow it where no document
says what is right: `Forks` counts the nodes treetraverse counts, `SipRoundTrip`
takes the loss of colons and the fate of responses for granted, `MayFail` lists the
texts on which cppbeast fails, and `Torn` names the two operators it tears apart.
There a run shows what the code does, not that it should.

Bounds. Two threads are enough for replies to be swapped, swallowed or stolen,
and a third adds no new pair; two clients show contention between them and, in
line, "the clients behind". Two runs of main suffice because only the last files
and scripts matter to the next run; `MaxEpoch` bounds them (`Rerun`). The
sequential and the threaded mode are one run, chosen by `multithread` in `Init`.
`collector` has one run of main and `collector_rerun` one client, since their
product is `client_run`'s subject. The clients of `collector` upload over each
other and read each other's output, those of `client_run` do not; that a client
with a place of its own is safe beside others that share theirs is proved
(`Untouched` in `ClientRunProofs`), for a third client is too many for a run. In `messenger` a
session that is appended needs a thread that is looping at the time and one that
loops later, and a text before and after it, hence three users and a user with
two texts; `Texts` bounds what is typed, and `Leavers` who may be closed or
killed, one user who types being enough for a connection that is reset under the
loop of another thread. In `pipeline` three processors show one that takes, one
that is beaten to it and one that comes later; `MaxRequests` bounds what would
go on for ever. In `sockets` `MaxSends` bounds the loops and `runs` the programs
started at an address; a second run at an address needs the first session to be
there, hence two runs, and a mix-up needs two addresses. The network of `sockets` may keep
a datagram for any time, but neither loses nor doubles one: that is UDP's, not the
code's. Blocks of three bytes
are the smallest in which the end of the document fits one block and something
can be shifted by one and by two. A scan looks one symbol ahead, so three pieces
around an operator, a quote or a comment suffice, and four for a parenthesis with
a semicolon and something before and behind. The systems really stop (all runs done), so
deadlock is not checked; that nothing waits forever is `SendEnds`, `RunEnds` and
`RunTerminates`; in the chat it is `TextArrives`, in async.py
`EveryRequestAnswered` and in xsocket `SocketsSettle`.

Fairness. Each thread is scheduled (weak fairness of its steps), the main thread
too, and a remote script runs on until it ends or fails. Nothing the environment
does for harm is fair: a session need not be lost, a line need not drop. `send`
ends because the SMTP socket has a timeout (config.xml, server.py:811): that is
`NoAnswer`. `Client.run` has no timeout on `stdout.read()`, so `RunEnds` rests on
scripts that end; a script that hangs would hang the run, and the mutant
`AwaitSuccess` shows the property sees such a wait.

In the chat every thread is scheduled, and nobody has to type or leave. In
async.py every looper is scheduled (`Looper.run` is a loop without an exit) and
the registerer up to the bound; that a `get` blocks for ever behind an item
another thread took is allowed, and `EveryRequestAnswered` holds all the same,
since that thread is there to take the next. In xsocket the threads are
scheduled and an attempt to connect comes to an end; nobody has to start,
`accept` need not raise, and a receive need not time out: a client whose
connection was dropped ends because the end of the stream or a reset wakes it.

Findings: the four violated properties, each with the line of documentation it
takes its claim from, are in PROJECT.json. More were met, and are told by the
models but not by runs of their own (a run that holds says what is true instead):

- ssh-client: README.md:232 says execution stops without a mail server, but `connect` logs the
  error and the run goes on without mails (`Connect` leaves "none"). The
  shipped config.xml gives two clients one machine and the same paths, so that one
  can be handed the other's output; the properties about outputs say what each
  client can rely on (`OwnOutput`, `OwnPlace`). `create_logs` overwrites the
  first batch, the newest events, before it looks at it (client.py:174;
  `ReadBatch`). The client writes the attribute `source` (client.py:56), the
  server reads `source_name`. On mistakes in a client (`config_mistakes`) the
  documents disagree among each other: README.md:232 says that a missing or invalid
  field stops the execution, README.md:233 that a client with an error is skipped,
  test_server.py:1559 asks for a valid server without the client, and the log line
  server.py:380 says that an invalid alert is skipped, where it is its client, as
  test_server.py:787 asks. `ConfigAgrees` says what the code and the tests do,
  `MistakesStop` what README.md:232 says.
  `strip()` can lose a report (`WholeOrNothing`).
- xsocket: a program that is run again at its old address and port is connected
  and never served (`Accepted`). With receive loops over UDP a datagram is reported
  for whichever session takes it, and one that a session takes from a new address
  registers nobody; `FaithfulReports` claims nothing there, and `TakenOnce` only that
  it is one session. `Server.run` raises
  behind `join` unless there is no session (`Finish`). udpclient's receive loop,
  "periodically" by its docstring (client.py:227), ends after one datagram.
- cppbeast, which has no documentation to hold it to: a file that ends with a single
  line end loses its last symbol, unless that closes a parenthesis (`Keepable` allows
  it, and asks for every symbol of a file that ends with an empty line); `for (;;)` cannot be formatted (`MayFail`,
  the scan takes the parenthesis behind the semicolon over unseen); an inline
  comment takes its line end with it and a block comment leaves nothing, so that
  what is before and behind grows together; `-=` (the constant MINUS_EQUAL is spelled
  like PLUS_EQUAL, line 63), `^=`, `<<=` and `>>=` are torn apart (`Torn` exempts the
  first two from `OperatorsKept`, the operators of three symbols are not among
  `Compound`).
- xsip: colons in the value of a header are lost, and a response is decoded as a
  request, or not at all (`SipRoundTrip`).
- siprealizerapp.py:16 passes a name that is not defined.

## Proofs

Every safety invariant of the passing runs is a theorem, except `TreesAgree`,
`FilesKept` and `MessagesReturn`.
The theorems hold for any number of clients, users, addresses, threads, statistics,
alerts, readings, runs, messages and documents, under the assumptions the modules
name: `Fleet`, `ClientRun` (`MaxEpoch` is positive), `Collector` (a letter names a
statistic and a run), `SocketClient` (`SetupsAssumption`: what a command line can say),
`Messenger` (the server is none of the users) and `Pipeline` (a thread is a processor
or a sender, not both),
`ServerConfig` (the parts of a document are good or wrong in the ways the code
tells apart), `Report` (an end tag and a line end fit into a block; an event log is
read newest first, which is what the flag EVENTLOG_BACKWARDS_READ asks for,
client.py:162). All invariants below were checked by TLC before they were proved.

- `MailerProofs`: `MailerTypeOK`, `BodyIsText`, `NoLeftoverReply`. The second
  is not inductive: why may a thread that got a go-ahead, perhaps one meant for
  another thread, believe that the server collects a text? The invariant `OneGo` says
  that a go-ahead is a token: while the server collects, exactly one is in the stream
  or in the hands of one thread, and otherwise there is none. `NoLeftoverReply` speaks of a moment when nobody waits;
  what holds all the time is `RepliesOwed`: on a live connection there are never
  more replies than threads that wait.
- `ClientRunProofs`: `ClientTypeOK`, `OwnOutput`, `ScriptPresent`,
  `StaleOnlyAfterFailure`. The strengthening says that a report lies where it was
  written (`Origin`) and, of every client that does not share its place
  (`PlaceInv`), which files and processes can be there by the client's position in
  `run`, and which script wrote what the output file holds.
- `CollectorProofs`: `TypeOK`, `RowsBeforeMail`, `OneBatchPerRun`,
  `AlertsBeforeLogs`, `ThreadsIsolated`, `SequentialMail`. `CollectorInv` joins the
  two invariants above with one row per client (`ThreadInv`, `StatsInv`, `LogsInv`,
  `AlertsInv`: how the handler's stage, the tables and the alerts tried hang
  together) and one for the main thread (`MainInv`). A step of one client keeps the
  rows of the others because nothing of theirs changes (`IdleKeeps`), whatever
  their `sendmail` does meanwhile. `SequentialMail` needs to know where the dialogue
  of the one client that mails stands (`Talk`: what the thread has written, what
  the server makes of it and which reply is in the stream), and that a connection
  is left `Quiet` by every mail, also a refused one, so that the next begins with
  replies of its own (`DialogueInv`).
- `CollectorRefinement`: the collector implements `ClientRun`, so that the
  theorems about `Client.run` hold of the whole program (`CollectorOutputs`), and
  it implements `Collection` (`CollectorKeepsPromise`).
- `MessengerProofs`: `MessengerTypeOK`, `Contiguous`, `Agreement`, `DiesSilent`, that
  the program implements `Chat` (`MessengerImplementsChat`), and `NothingMissed`
  (`NobodyMissesText`). `ChatInv` takes
  what a client has shown and what is on its way to it as one line, and says where
  the line ends for each sender: at the last text the sender's thread has read, or
  before the message that thread is just sending around if its loop has still to
  come to the client (`FlowInv`). It also says what the loop has passed and what it
  has not (`Ahead`, `Passed`), and that is why sessions that are appended in the
  middle of a loop do no harm: they are ahead of it. `DiesSilent` needs that nothing
  has been handed to anybody before there is a server (`NoServerInv`), that nobody
  who left comes back, and that what is handed out comes from a thread that goes on
  (`HandedGrows`). For the refinement, what a user has seen is the set of texts in
  `shown`; that one more message extends an unbroken stretch, and only by texts the
  thread has read (`PostedInv`), follows because the messages of a sender, chained
  one to the next, rise (`ChainedRises`). `NothingMissed` is stronger than what
  `Chat` promises, which leaves open where a stretch begins: whoever has a session
  when a text is still to be read, and shows it or a later one, shows it. `InTime`
  keeps track of such a reader: its line holds nothing of the sender yet and its
  first message is still to come, or it begins early enough. TLC finds it to hold on
  the instance of the run, without fairness; beside the fair properties it takes
  longer than a run may, so that it is proved and not among the runs.
- `PipelineProofs`: `PipelineTypeOK`, `EveryRequestOnce`, `OvertakenIsHeld`, for
  any number of threads and requests, and that every behaviour implements the
  steps of `Dispatch`. `EveryRequestOnce` is inductive with the types. That
  whatever overtakes leaves only held requests behind needs `InOrder`: the input
  queue holds the newest requests, each one more than the one before, so a
  request that is neither queued nor held has been processed.
- `SocketsProofs`: `SocketTypeOK`, `ClientOrderly`, `FaithfulReports`,
  `NothingLost`, `TakenOnce`. `ProgramInv` counts the calls of `connect` within each
  other by the attempt that is under way, and says that only loops that were asked
  for move, while `run` waits for them. `StreamInv` follows what a program has
  written: it waits in the backlog, or the session has it and has reported a part;
  an address is in the backlog once at most and its program is not started again
  before it has left it, so that a session is given one run's messages; that none
  is lost follows by counting them. `TakenInv` follows a datagram through its
  places: queued at the socket, in the hands of accept or of one session, or reported.
  It is in one of them only (`Place`), a step moves it on (`TakenAccept`,
  `TakenSession`, `ReportMade`, `ReportAgain`), and what a program sends is new,
  because it counts its runs and what it sends (`Sent`).
- `ReportProofs`: `ConfigAgrees` and `ReportFaithful`. A part of the document that
  has been passed was good (`PartsInv`), and the clients taken are the valid ones
  among those read (`ClientsInv`). What has been logged is newer than what is left
  of the batch, which is newer than the batches behind it (`LogInv`). The decoding
  is one lemma about numbers and sequences (`DecodedWholeOrNot`): strip leaves the
  positions from a to b; if a is not 1 the first symbol is garbage; if b is not the
  end, and what is left are whole blocks, a block is missing and with it the end of
  the document.

Only model-checked:

- liveness, which is out of the prover's reach: `SendEnds`, `RunEnds`,
  `RunTerminates`, `TextArrives`, `EveryRequestAnswered` (the fair form of what
  `PipelineDispatches` proves) and `SocketsSettle`;
- `TreesAgree`, `FilesKept` and `MessagesReturn`: `TreeTraverse`, `CppBeast` and
  `SipMessage` compute with recursion over their input, which the prover cannot follow.

## Not modelled

Two mains at the same time; bytes of one command interleaved with those of
another inside `sendall`; the handshake of TLS; a prefix of client.py that
happens to be a valid script; a chat user who types the word exit, the window of
the chat server (`handleExit`, `close`), full socket buffers and messages cut or glued by TCP in xsocket;
`sipscenario` and `siprealizer` (they read a document into objects and call what
is modelled, the comparison of answers is a TODO in the code); the cipher itself; `insert_logs(None)`, which client.py never causes;
the content and layout of mails, rows and logs; print_level of treetraverse, which
does nothing, and cppbeast's walk over directories; tracer, consoler and the
sphinx sample, which keep no state worth a property.

Of the repository's 24764 lines 20061 are get-pip.py, a copy of pip packed as
encoded data into a Python file by its authors. It is no code of this project and
nothing in it can be modelled, so the share of lines the models stand for is to be
read against the remaining 4703, of which a good part are the tests.

## Plan

1. (done) `Fleet`, `Mailer`, `ClientRun`, `Collection`, `Collector`, their
   invariants and refinements; `Messenger`.
2. (done) `Dispatch`, `Pipeline` and their proofs; `SocketClient` and `Sockets`;
   `ServerConfig` and `Report`; `TreeTraverse`, `CppBeast`, `SipMessage`.
3. (done) Proofs of the safety invariants of `Sockets`, `Messenger` and `Report`,
   of `NoLeftoverReply` and of `SequentialMail`.
4. (done) The moment before the chat server's global is assigned; `Chat`, and the
   proof that `Messenger` implements it.
5. The closing of the chat server's window: on top of the present run it is beyond
   the time of one, so that it needs smaller bounds for the rest.
6. An abstract specification of an xsocket session, a stream of one run's messages,
   would say little beyond `FaithfulReports`, since reports are only ever appended.
