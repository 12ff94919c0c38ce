------------------------------ MODULE Dispatch ------------------------------
(* What async.py promises about its requests, whoever works on them: they  *)
(* are numbered as they come, and each of them is answered once, sooner or *)
(* later, in any order.                                                    *)
EXTENDS Naturals

CONSTANT Requests   \* the requests that are answered sooner or later

VARIABLES
    accepted,   \* how many requests came
    answered    \* which of them were answered

dispatchVars == <<accepted, answered>>

DispatchInit == accepted = 0 /\ answered = {}

Accept == accepted' = accepted + 1 /\ UNCHANGED answered

Answer(r) ==
    /\ r \in (1..accepted) \ answered
    /\ answered' = answered \union {r}
    /\ UNCHANGED accepted

DispatchNext == Accept \/ \E r \in 1..accepted : Answer(r)

DispatchSpec == DispatchInit /\ [][DispatchNext]_dispatchVars

DispatchFairSpec == DispatchSpec /\ \A r \in Requests : WF_dispatchVars(Answer(r))
=============================================================================
