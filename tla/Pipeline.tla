------------------------------ MODULE Pipeline ------------------------------
(***************************************************************************)
(* uncategorized/async.py: one Registerer thread puts requests into the    *)
(* input queue, Processor threads take them, work on them and put the      *)
(* responses into the output queue, and Sender threads take those and send *)
(* them.  A looper asks a queue whether it is empty and then calls get,    *)
(* which blocks if another looper has been faster.                         *)
(***************************************************************************)
EXTENDS Naturals, Sequences

CONSTANTS
    Processors,   \* the Processor threads
    Senders,      \* the Sender threads
    MaxRequests   \* bound: how many requests the Registerer makes

ASSUME LoopersAssumption == Processors \intersect Senders = {}
ASSUME MaxRequestsAssumption == MaxRequests \in Nat

VARIABLES
    counter,   \* Registerer.counter: the next request
    input,     \* global_input_buffer
    output,    \* global_output_buffer
    phase,     \* phase[t]: looking, getting (blocked while the queue is
               \* empty), or holding what it got
    job,       \* job[t]: what looper t holds
    sent       \* history: the responses in the order of the calls of send

pipelineVars == <<counter, input, output, phase, job, sent>>

Loopers == Processors \union Senders
Phases == {"looking", "getting", "holding"}
Requests == 1..MaxRequests

PipelineInit ==
    /\ counter = 1
    /\ input = <<>>
    /\ output = <<>>
    /\ phase = [t \in Loopers |-> "looking"]
    /\ job = [t \in Loopers |-> 0]
    /\ sent = <<>>

-----------------------------------------------------------------------------
(* Registerer.loop_single.  Mutant: the requests are counted from zero.    *)
RegisterFromZero ==
    /\ counter <= MaxRequests
    /\ input' = Append(input, counter - 1)
    /\ counter' = counter + 1
    /\ UNCHANGED <<output, phase, job, sent>>

Register ==
    /\ counter <= MaxRequests
    /\ input' = Append(input, counter)
    /\ counter' = counter + 1
    /\ UNCHANGED <<output, phase, job, sent>>

(* "if not buffer.empty()": an empty queue sends the looper round again.   *)
(* Mutant: the last item is not seen.                                      *)
LookBeyondOne(t, buffer) ==
    /\ phase[t] = "looking"
    /\ Len(buffer) > 1
    /\ phase' = [phase EXCEPT ![t] = "getting"]
    /\ UNCHANGED <<counter, input, output, job, sent>>

Look(t, buffer) ==
    /\ phase[t] = "looking"
    /\ buffer # <<>>
    /\ phase' = [phase EXCEPT ![t] = "getting"]
    /\ UNCHANGED <<counter, input, output, job, sent>>

(* buffer.get(). *)
Get(t, buffer) ==
    /\ phase[t] = "getting"
    /\ buffer # <<>>
    /\ job' = [job EXCEPT ![t] = Head(buffer)]
    /\ phase' = [phase EXCEPT ![t] = "holding"]
    /\ UNCHANGED <<counter, sent>>

Drop(t) ==
    /\ phase[t] = "holding"
    /\ phase' = [phase EXCEPT ![t] = "looking"]
    /\ UNCHANGED <<counter, input, job>>

(* Mutants: the newest request is taken first; the item stays in the queue *)
(* until it is dealt with.                                                 *)
TakeRequestLast(p) ==
    /\ phase[p] = "getting"
    /\ input # <<>>
    /\ job' = [job EXCEPT ![p] = input[Len(input)]]
    /\ input' = SubSeq(input, 1, Len(input) - 1)
    /\ phase' = [phase EXCEPT ![p] = "holding"]
    /\ UNCHANGED <<counter, output, sent>>

TakeResponsePeeks(s) == Get(s, output) /\ UNCHANGED <<input, output>>

(* Mutant: a response is sent and kept. *)
SendResponseAgain(s) ==
    /\ phase[s] = "holding"
    /\ sent' = Append(sent, job[s])
    /\ UNCHANGED <<counter, input, output, phase, job>>

TakeRequest(p) == Get(p, input) /\ input' = Tail(input) /\ UNCHANGED output

(* Processor.loop_single: the handler, process, returns the request.       *)
Respond(p) == Drop(p) /\ output' = Append(output, job[p]) /\ UNCHANGED sent

TakeResponse(s) == Get(s, output) /\ output' = Tail(output) /\ UNCHANGED input

(* Sender.loop_single. *)
SendResponse(s) == Drop(s) /\ sent' = Append(sent, job[s]) /\ UNCHANGED output

Processor(p) == Look(p, input) \/ TakeRequest(p) \/ Respond(p)
Sender(s) == Look(s, output) \/ TakeResponse(s) \/ SendResponse(s)

PipelineNext ==
    \/ Register
    \/ \E p \in Processors : Processor(p)
    \/ \E s \in Senders : Sender(s)

(* Every looper is scheduled, the Registerer too until the bound.          *)
PipelineFairness ==
    /\ WF_pipelineVars(Register)
    /\ \A p \in Processors : WF_pipelineVars(Processor(p))
    /\ \A s \in Senders : WF_pipelineVars(Sender(s))

PipelineSpec == PipelineInit /\ [][PipelineNext]_pipelineVars
PipelineFairSpec == PipelineSpec /\ PipelineFairness

-----------------------------------------------------------------------------
Items(s) == {s[i] : i \in DOMAIN s}
Holds(t, r) == phase[t] = "holding" /\ job[t] = r
Known == 1..(counter - 1)

(* The type invariant. *)
PipelineTypeOK ==
    /\ counter \in 1..(MaxRequests + 1)
    /\ input \in Seq(Requests) /\ output \in Seq(Requests) /\ sent \in Seq(Requests)
    /\ phase \in [Loopers -> Phases]
    /\ job \in [Loopers -> Requests \union {0}]

(* A request is in one place: queued, held by one looper, waiting as a     *)
(* response, or sent, and never twice anywhere, whichever loopers looked   *)
(* at the same item before one of them took it (async.py lines 65-79).     *)
NoRepeat(s) == \A i, j \in DOMAIN s : s[i] = s[j] => i = j

OnePlace ==
    /\ NoRepeat(input) /\ NoRepeat(output) /\ NoRepeat(sent)
    /\ Items(input) \intersect Items(output) = {}
    /\ Items(input) \intersect Items(sent) = {}
    /\ Items(output) \intersect Items(sent) = {}
    /\ \A t \in Loopers : phase[t] = "holding" =>
          /\ job[t] \in Known \ (Items(input) \union Items(output) \union Items(sent))
          /\ \A u \in Loopers : Holds(u, job[t]) => u = t

NothingLost ==
    /\ Items(input) \union Items(output) \union Items(sent) \subseteq Known
    /\ \A r \in Known : \/ r \in Items(input) \union Items(output) \union Items(sent)
                        \/ \E t \in Loopers : Holds(t, r)

EveryRequestOnce == OnePlace /\ NothingLost

(* Responses may change places, but only round a request that a Processor  *)
(* holds: whatever is older than a processed request is processed as well, *)
(* or held.  So at most as many requests are overtaken at a time as there  *)
(* are Processors, and with one Processor none is.                         *)
Processed(r) == r \in Items(output) \union Items(sent) \/ \E s \in Senders : Holds(s, r)

OvertakenIsHeld ==
    \A r, q \in Known :
        r < q /\ Processed(q) => Processed(r) \/ \E p \in Processors : Holds(p, r)

(* The pipeline does what Dispatch promises: every request is answered     *)
(* once, and is answered, though loopers block in get behind an item that  *)
(* another one took.                                                       *)
Promise == INSTANCE Dispatch
           WITH accepted <- counter - 1, answered <- Items(sent), Requests <- Requests

ImplementsDispatch == Promise!DispatchSpec
EveryRequestAnswered == Promise!DispatchFairSpec
=============================================================================
