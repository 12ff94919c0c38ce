--------------------------- MODULE PipelineProofs ---------------------------
(* Theorems about Pipeline for any number of loopers and requests.         *)
EXTENDS Pipeline, TLAPS

-----------------------------------------------------------------------------
(* What append and get do to the items of a queue.                         *)
LEMMA AppendItems ==
    ASSUME NEW S, NEW s \in Seq(S), NEW x \in S
    PROVE  /\ Append(s, x) \in Seq(S)
           /\ Items(Append(s, x)) = Items(s) \union {x}
           /\ NoRepeat(s) /\ x \notin Items(s) => NoRepeat(Append(s, x))
<1>1. Append(s, x) \in Seq(S) /\ Len(Append(s, x)) = Len(s) + 1
  OBVIOUS
<1>2. /\ Append(s, x)[Len(s) + 1] = x
      /\ \A i \in 1..Len(s) : Append(s, x)[i] = s[i]
  OBVIOUS
<1>3. DOMAIN s = 1..Len(s) /\ DOMAIN Append(s, x) = 1..(Len(s) + 1) /\ Len(s) \in Nat
  BY <1>1
<1>4. Items(Append(s, x)) = Items(s) \union {x}
  BY <1>2, <1>3 DEF Items
<1>5. NoRepeat(s) /\ x \notin Items(s) => NoRepeat(Append(s, x))
  BY <1>2, <1>3 DEF Items, NoRepeat
<1> QED BY <1>1, <1>4, <1>5

LEMMA GetItems ==
    ASSUME NEW S, NEW s \in Seq(S), s # <<>>
    PROVE  /\ Head(s) \in S /\ Tail(s) \in Seq(S)
           /\ Head(s) \in Items(s)
           /\ Items(s) = Items(Tail(s)) \union {Head(s)}
           /\ NoRepeat(s) => NoRepeat(Tail(s)) /\ Head(s) \notin Items(Tail(s))
<1>1. /\ Len(s) \in Nat /\ Len(s) >= 1 /\ Head(s) = s[1] /\ DOMAIN s = 1..Len(s)
      /\ Tail(s) \in Seq(S) /\ Len(Tail(s)) = Len(s) - 1 /\ Head(s) \in S
  OBVIOUS
<1>2. DOMAIN Tail(s) = 1..(Len(s) - 1)
  BY <1>1
<1>3. \A i \in 1..(Len(s) - 1) : Tail(s)[i] = s[i + 1]
  BY <1>1
<1>4. Items(s) = Items(Tail(s)) \union {Head(s)}
  <2>1. ASSUME NEW i \in 1..Len(s)
        PROVE  s[i] \in Items(Tail(s)) \union {Head(s)}
    <3>1. CASE i = 1
      BY <3>1, <1>1
    <3>2. CASE i # 1
      <4>1. i - 1 \in 1..(Len(s) - 1) /\ Tail(s)[i - 1] = s[i]
        BY <3>2, <1>1, <1>3
      <4> QED BY <4>1, <1>2 DEF Items
    <3> QED BY <3>1, <3>2
  <2>2. ASSUME NEW i \in 1..(Len(s) - 1)
        PROVE  Tail(s)[i] \in Items(s)
    BY <1>1, <1>3 DEF Items
  <2>3. Head(s) \in Items(s)
    BY <1>1 DEF Items
  <2> QED BY <2>1, <2>2, <2>3, <1>1, <1>2 DEF Items
<1>5. NoRepeat(s) => NoRepeat(Tail(s)) /\ Head(s) \notin Items(Tail(s))
  <2> SUFFICES ASSUME NoRepeat(s)
               PROVE  NoRepeat(Tail(s)) /\ Head(s) \notin Items(Tail(s))
    OBVIOUS
  <2>1. NoRepeat(Tail(s))
    BY <1>1, <1>2, <1>3 DEF NoRepeat
  <2>2. Head(s) \notin Items(Tail(s))
    BY <1>1, <1>2, <1>3 DEF NoRepeat, Items
  <2> QED BY <2>1, <2>2
<1> QED BY <1>1, <1>4, <1>5

-----------------------------------------------------------------------------
(* The input queue holds the newest requests, in order.                    *)
InOrder ==
    /\ Len(input) < counter
    /\ \A i \in DOMAIN input : input[i] = counter - 1 - Len(input) + i

PipelineInv == PipelineTypeOK /\ EveryRequestOnce /\ InOrder

(* Nothing but the four places of a request matters to OnePlace and        *)
(* NothingLost, so a step that changes none of them keeps both.            *)
LEMMA InitInv == PipelineInit => PipelineInv
<1> SUFFICES ASSUME PipelineInit
             PROVE  PipelineInv
  OBVIOUS
<1>1. <<>> \in Seq(Requests) /\ DOMAIN <<>> = {} /\ Len(<<>>) = 0
  OBVIOUS
<1>2. PipelineTypeOK
  BY <1>1, MaxRequestsAssumption DEF PipelineInit, PipelineTypeOK, Phases
<1>3. Known = {}
  BY DEF PipelineInit, Known
<1>4. EveryRequestOnce
  <2>1. Items(input) = {} /\ Items(output) = {} /\ Items(sent) = {}
    BY <1>1 DEF PipelineInit, Items
  <2>2. NoRepeat(input) /\ NoRepeat(output) /\ NoRepeat(sent)
    BY <1>1 DEF PipelineInit, NoRepeat
  <2>3. \A t \in Loopers : phase[t] # "holding"
    BY DEF PipelineInit
  <2> QED BY <2>1, <2>2, <2>3, <1>3 DEF EveryRequestOnce, OnePlace, NothingLost
<1>5. InOrder
  BY <1>1 DEF PipelineInit, InOrder
<1> QED BY <1>2, <1>4, <1>5 DEF PipelineInv

LEMMA RegisterKeeps == PipelineInv /\ Register => PipelineInv'
<1> SUFFICES ASSUME PipelineInv, Register
             PROVE  PipelineInv'
  OBVIOUS
<1> USE DEF PipelineInv
<1>1. /\ counter \in Requests /\ counter' = counter + 1 /\ counter \in Nat
      /\ input \in Seq(Requests) /\ output' = output /\ sent' = sent
      /\ phase' = phase /\ job' = job /\ input' = Append(input, counter)
  BY MaxRequestsAssumption DEF Register, PipelineTypeOK, Requests
<1>2. /\ counter \notin Known /\ Known' = Known \union {counter}
  <2>1. counter >= 1 /\ Known' = 1..counter
    BY <1>1 DEF Known, Requests
  <2> QED BY <1>1, <2>1 DEF Known
<1>3. counter \notin Items(input) \union Items(output) \union Items(sent)
  BY <1>2 DEF EveryRequestOnce, NothingLost
<1>4. /\ input' \in Seq(Requests) /\ NoRepeat(input')
      /\ Items(input') = Items(input) \union {counter}
  BY <1>1, <1>3, AppendItems DEF EveryRequestOnce, OnePlace
<1>5. PipelineTypeOK'
  BY <1>1, <1>4, MaxRequestsAssumption DEF PipelineTypeOK, Requests
<1>6. OnePlace'
  BY <1>1, <1>2, <1>3, <1>4 DEF EveryRequestOnce, OnePlace, Holds
<1>7. NothingLost'
  BY <1>1, <1>2, <1>4 DEF EveryRequestOnce, NothingLost, Holds
<1>8. InOrder'
  BY <1>1 DEF InOrder
<1> QED BY <1>5, <1>6, <1>7, <1>8 DEF EveryRequestOnce

LEMMA LookKeeps ==
    ASSUME NEW t \in Loopers, NEW buffer, PipelineInv, Look(t, buffer)
    PROVE  PipelineInv'
<1> USE DEF PipelineInv
<1>1. /\ UNCHANGED <<counter, input, output, job, sent>>
      /\ phase' = [phase EXCEPT ![t] = "getting"] /\ phase[t] = "looking"
  BY DEF Look
<1>2. PipelineTypeOK'
  BY <1>1 DEF PipelineTypeOK, Phases
<1>3. \A u \in Loopers : (phase'[u] = "holding") <=> (phase[u] = "holding")
  BY <1>1 DEF PipelineTypeOK
<1>4. OnePlace' /\ NothingLost'
  BY <1>1, <1>3 DEF EveryRequestOnce, OnePlace, NothingLost, Holds, Known
<1> QED BY <1>1, <1>2, <1>4 DEF EveryRequestOnce, InOrder

(* What is left of a get is the same for both queues: the head moves into  *)
(* the looper's hands.                                                     *)
LEMMA TakeRequestKeeps ==
    ASSUME NEW p \in Processors, PipelineInv, TakeRequest(p)
    PROVE  PipelineInv'
<1> USE DEF PipelineInv
<1>1. /\ UNCHANGED <<counter, output, sent>> /\ input # <<>> /\ p \in Loopers
      /\ input' = Tail(input) /\ phase[p] = "getting"
      /\ job' = [job EXCEPT ![p] = Head(input)]
      /\ phase' = [phase EXCEPT ![p] = "holding"]
  BY DEF TakeRequest, Get, Loopers
<1>2. /\ Head(input) \in Requests /\ input' \in Seq(Requests) /\ NoRepeat(input')
      /\ Head(input) \notin Items(input')
      /\ Items(input) = Items(input') \union {Head(input)}
  BY <1>1, GetItems DEF PipelineTypeOK, EveryRequestOnce, OnePlace
<1>3. PipelineTypeOK'
  BY <1>1, <1>2 DEF PipelineTypeOK, Phases
<1>4. /\ Head(input) \in Known /\ \A u \in Loopers : ~ Holds(u, Head(input))
      /\ Head(input) \notin Items(output) \union Items(sent)
  BY <1>2 DEF EveryRequestOnce, OnePlace, NothingLost, Holds
<1>5. /\ phase'[p] = "holding" /\ job'[p] = Head(input)
      /\ \A u \in Loopers \ {p} : phase'[u] = phase[u] /\ job'[u] = job[u]
  BY <1>1 DEF PipelineTypeOK
<1>6. OnePlace'
  BY <1>1, <1>2, <1>4, <1>5 DEF EveryRequestOnce, OnePlace, Holds, Known
<1>7. NothingLost'
  BY <1>1, <1>2, <1>5 DEF EveryRequestOnce, NothingLost, Holds, Known
<1>8. InOrder'
  <2>1. /\ Len(input) \in Nat /\ Len(input) >= 1 /\ Len(input') = Len(input) - 1
        /\ DOMAIN input = 1..Len(input) /\ DOMAIN input' = 1..(Len(input) - 1)
        /\ \A i \in DOMAIN input' : input'[i] = input[i + 1]
        /\ counter' = counter /\ counter \in Nat
    BY <1>1, <1>2, MaxRequestsAssumption DEF PipelineTypeOK
  <2> QED BY <2>1 DEF InOrder
<1> QED BY <1>3, <1>6, <1>7, <1>8 DEF EveryRequestOnce

LEMMA TakeResponseKeeps ==
    ASSUME NEW s \in Senders, PipelineInv, TakeResponse(s)
    PROVE  PipelineInv'
<1> USE DEF PipelineInv
<1>1. /\ UNCHANGED <<counter, input, sent>> /\ output # <<>> /\ s \in Loopers
      /\ output' = Tail(output) /\ phase[s] = "getting"
      /\ job' = [job EXCEPT ![s] = Head(output)]
      /\ phase' = [phase EXCEPT ![s] = "holding"]
  BY DEF TakeResponse, Get, Loopers
<1>2. /\ Head(output) \in Requests /\ output' \in Seq(Requests) /\ NoRepeat(output')
      /\ Head(output) \notin Items(output')
      /\ Items(output) = Items(output') \union {Head(output)}
  BY <1>1, GetItems DEF PipelineTypeOK, EveryRequestOnce, OnePlace
<1>3. PipelineTypeOK'
  BY <1>1, <1>2 DEF PipelineTypeOK, Phases
<1>4. /\ Head(output) \in Known /\ \A u \in Loopers : ~ Holds(u, Head(output))
      /\ Head(output) \notin Items(input) \union Items(sent)
  BY <1>2 DEF EveryRequestOnce, OnePlace, NothingLost, Holds
<1>5. /\ phase'[s] = "holding" /\ job'[s] = Head(output)
      /\ \A u \in Loopers \ {s} : phase'[u] = phase[u] /\ job'[u] = job[u]
  BY <1>1 DEF PipelineTypeOK
<1>6. OnePlace'
  BY <1>1, <1>2, <1>4, <1>5 DEF EveryRequestOnce, OnePlace, Holds, Known
<1>7. NothingLost'
  BY <1>1, <1>2, <1>5 DEF EveryRequestOnce, NothingLost, Holds, Known
<1> QED BY <1>1, <1>3, <1>6, <1>7 DEF EveryRequestOnce, InOrder

(* A looper that lets go of its item leaves it unheld.                     *)
LEMMA DropFrees ==
    ASSUME NEW t \in Loopers, PipelineInv, Drop(t)
    PROVE  /\ job[t] \in Requests /\ job[t] \in Known
           /\ job[t] \notin Items(input) \union Items(output) \union Items(sent)
           /\ job' = job /\ counter' = counter /\ input' = input
           /\ phase'[t] = "looking" /\ phase[t] = "holding"
           /\ \A u \in Loopers \ {t} :
                 phase'[u] = phase[u] /\ (phase[u] = "holding" => job[u] # job[t])
           /\ phase' \in [Loopers -> Phases]
<1> USE DEF PipelineInv
<1>1. /\ job' = job /\ counter' = counter /\ input' = input /\ phase[t] = "holding"
      /\ phase' = [phase EXCEPT ![t] = "looking"]
  BY DEF Drop
<1>2. /\ job[t] \in Known
      /\ job[t] \notin Items(input) \union Items(output) \union Items(sent)
      /\ \A u \in Loopers : phase[u] = "holding" /\ job[u] = job[t] => u = t
  BY <1>1 DEF EveryRequestOnce, OnePlace, Holds
<1>3. job[t] \in Requests
  BY <1>2, MaxRequestsAssumption DEF PipelineTypeOK, Known, Requests
<1> QED BY <1>1, <1>2, <1>3 DEF PipelineTypeOK, Phases

LEMMA RespondKeeps ==
    ASSUME NEW p \in Processors, PipelineInv, Respond(p)
    PROVE  PipelineInv'
<1> USE DEF PipelineInv
<1>1. p \in Loopers /\ Drop(p) /\ output' = Append(output, job[p]) /\ sent' = sent
  BY DEF Respond, Loopers
<1>2. /\ output' \in Seq(Requests) /\ NoRepeat(output')
      /\ Items(output') = Items(output) \union {job[p]}
  BY <1>1, DropFrees, AppendItems DEF PipelineTypeOK, EveryRequestOnce, OnePlace
<1>3. PipelineTypeOK'
  BY <1>1, <1>2, DropFrees DEF PipelineTypeOK
<1>4. OnePlace'
  BY <1>1, <1>2, DropFrees DEF EveryRequestOnce, OnePlace, Holds, Known
<1>5. NothingLost'
  BY <1>1, <1>2, DropFrees DEF EveryRequestOnce, NothingLost, Holds, Known
<1> QED BY <1>1, <1>3, <1>4, <1>5, DropFrees DEF EveryRequestOnce, InOrder

LEMMA SendResponseKeeps ==
    ASSUME NEW s \in Senders, PipelineInv, SendResponse(s)
    PROVE  PipelineInv'
<1> USE DEF PipelineInv
<1>1. s \in Loopers /\ Drop(s) /\ sent' = Append(sent, job[s]) /\ output' = output
  BY DEF SendResponse, Loopers
<1>2. /\ sent' \in Seq(Requests) /\ NoRepeat(sent')
      /\ Items(sent') = Items(sent) \union {job[s]}
  BY <1>1, DropFrees, AppendItems DEF PipelineTypeOK, EveryRequestOnce, OnePlace
<1>3. PipelineTypeOK'
  BY <1>1, <1>2, DropFrees DEF PipelineTypeOK
<1>4. OnePlace'
  BY <1>1, <1>2, DropFrees DEF EveryRequestOnce, OnePlace, Holds, Known
<1>5. NothingLost'
  BY <1>1, <1>2, DropFrees DEF EveryRequestOnce, NothingLost, Holds, Known
<1> QED BY <1>1, <1>3, <1>4, <1>5, DropFrees DEF EveryRequestOnce, InOrder

-----------------------------------------------------------------------------
LEMMA PipelineStep == PipelineInv /\ [PipelineNext]_pipelineVars => PipelineInv'
<1> SUFFICES ASSUME PipelineInv, [PipelineNext]_pipelineVars
             PROVE  PipelineInv'
  OBVIOUS
<1>1. CASE Register
  BY <1>1, RegisterKeeps
<1>2. ASSUME NEW p \in Processors, Processor(p)
      PROVE  PipelineInv'
  BY <1>2, LookKeeps, TakeRequestKeeps, RespondKeeps DEF Processor, Loopers
<1>3. ASSUME NEW s \in Senders, Sender(s)
      PROVE  PipelineInv'
  BY <1>3, LookKeeps, TakeResponseKeeps, SendResponseKeeps DEF Sender, Loopers
<1>4. CASE UNCHANGED pipelineVars
  BY <1>4 DEF pipelineVars, PipelineInv, PipelineTypeOK, EveryRequestOnce, OnePlace,
              NothingLost, InOrder, Known, Holds
<1> QED BY <1>1, <1>2, <1>3, <1>4 DEF PipelineNext

LEMMA PipelineInvariant == PipelineSpec => []PipelineInv
<1> QED BY InitInv, PipelineStep, PTL DEF PipelineSpec

(* Type correctness of the threads and queues of async.py.                 *)
THEOREM PipelineTyping == PipelineSpec => []PipelineTypeOK
<1>1. PipelineInv => PipelineTypeOK
  BY DEF PipelineInv
<1> QED BY <1>1, PipelineInvariant, PTL

(* However many loopers look at the same item, one gets it: a request is   *)
(* in exactly one place, and none is lost or answered twice.               *)
THEOREM RequestsAreSingle == PipelineSpec => []EveryRequestOnce
<1>1. PipelineInv => EveryRequestOnce
  BY DEF PipelineInv
<1> QED BY <1>1, PipelineInvariant, PTL

(* What the input queue still holds is newer than all that left it, so a   *)
(* request that was overtaken is in the hands of a Processor.              *)
LEMMA OvertakenInv == PipelineInv => OvertakenIsHeld
<1> SUFFICES ASSUME PipelineInv, NEW r \in Known, NEW q \in Known,
                    r < q, Processed(q)
             PROVE  Processed(r) \/ \E p \in Processors : Holds(p, r)
  BY DEF OvertakenIsHeld
<1> USE DEF PipelineInv
<1>1. q \notin Items(input)
  BY DEF Processed, EveryRequestOnce, OnePlace, Holds, Loopers
<1>2. r \notin Items(input)
  <2> SUFFICES ASSUME r \in Items(input)
               PROVE  q \in Items(input)
    BY <1>1
  <2>1. /\ Len(input) \in Nat /\ DOMAIN input = 1..Len(input)
        /\ counter \in Nat /\ r \in Nat /\ q \in Nat /\ q < counter
    BY MaxRequestsAssumption DEF PipelineTypeOK, Known
  <2>2. PICK i \in 1..Len(input) : r = input[i]
    BY <2>1 DEF Items
  <2>3. r = counter - 1 - Len(input) + i
    BY <2>1, <2>2 DEF InOrder
  <2> DEFINE j == i + (q - r)
  <2>4. j \in 1..Len(input)
    BY <2>1, <2>3
  <2>5. input[j] = counter - 1 - Len(input) + j
    BY <2>1, <2>4 DEF InOrder
  <2>6. input[j] = q
    BY <2>1, <2>3, <2>5
  <2> QED BY <2>1, <2>4, <2>6 DEF Items
<1> QED BY <1>2 DEF EveryRequestOnce, NothingLost, Processed, Loopers

(* Only the requests in the hands of Processors are ever overtaken.        *)
THEOREM OvertakenAreHeld == PipelineSpec => []OvertakenIsHeld
<1> QED BY OvertakenInv, PipelineInvariant, PTL

-----------------------------------------------------------------------------
(* Every step is a step of Dispatch or invisible to it.                    *)
LEMMA StepRefines ==
    PipelineInv /\ [PipelineNext]_pipelineVars
        => [Promise!DispatchNext]_(Promise!dispatchVars)
<1> SUFFICES ASSUME PipelineInv, [PipelineNext]_pipelineVars
             PROVE  [Promise!DispatchNext]_(Promise!dispatchVars)
  OBVIOUS
<1> USE DEF PipelineInv
<1>1. CASE Register
  <2>1. counter' - 1 = (counter - 1) + 1 /\ Items(sent)' = Items(sent)
    BY <1>1, MaxRequestsAssumption DEF Register, PipelineTypeOK, Items
  <2> QED BY <2>1 DEF Promise!DispatchNext, Promise!Accept
<1>2. ASSUME NEW p \in Processors, Processor(p)
      PROVE  UNCHANGED <<counter, sent>>
  BY <1>2 DEF Processor, Look, TakeRequest, Get, Respond, Drop
<1>3. ASSUME NEW s \in Senders, Look(s, output) \/ TakeResponse(s)
      PROVE  UNCHANGED <<counter, sent>>
  BY <1>3 DEF Look, TakeResponse, Get
<1>4. ASSUME NEW s \in Senders, SendResponse(s)
      PROVE  Promise!DispatchNext
  <2>1. s \in Loopers /\ Drop(s) /\ sent' = Append(sent, job[s])
    BY <1>4 DEF SendResponse, Loopers
  <2>2. Items(sent)' = Items(sent) \union {job[s]}
    <3>1. job[s] \in Requests /\ sent \in Seq(Requests)
      BY <2>1, DropFrees DEF PipelineTypeOK
    <3>2. Items(Append(sent, job[s])) = Items(sent) \union {job[s]}
      BY <3>1, AppendItems
    <3> QED BY <2>1, <3>2 DEF Items
  <2>3. job[s] \in (1..(counter - 1)) \ Items(sent) /\ counter' = counter
    BY <2>1, DropFrees DEF Known
  <2>4. Promise!Answer(job[s])
    BY <2>2, <2>3 DEF Promise!Answer
  <2> QED BY <2>3, <2>4 DEF Promise!DispatchNext
<1>5. CASE UNCHANGED pipelineVars
  BY <1>5 DEF pipelineVars, Promise!dispatchVars, Items
<1>6. ASSUME UNCHANGED <<counter, sent>>
      PROVE  UNCHANGED Promise!dispatchVars
  BY <1>6 DEF Promise!dispatchVars, Items
<1> QED BY <1>1, <1>2, <1>3, <1>4, <1>5, <1>6 DEF PipelineNext, Sender

(* The threads and queues do what Dispatch promises: requests are numbered *)
(* as they come, and each is answered at most once, in any order.          *)
THEOREM PipelineDispatches == PipelineSpec => ImplementsDispatch
<1>1. PipelineInit => Promise!DispatchInit
  BY DEF PipelineInit, Promise!DispatchInit, Items
<1> QED BY <1>1, StepRefines, PipelineInvariant, PTL
        DEF PipelineSpec, ImplementsDispatch, Promise!DispatchSpec
=============================================================================
