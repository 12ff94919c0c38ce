----------------------------- MODULE Collection -----------------------------
(***************************************************************************)
(* What one run of the collector promises about each client, whatever      *)
(* happens on the way: its statistics are stored at most once, its logs    *)
(* only after its statistics, and a run that says it is done has dealt     *)
(* with every client.  Collector is shown to implement it.                 *)
(***************************************************************************)
CONSTANT Members

VARIABLES
    status,   \* status[c]: pending, skipped, stored, complete, or lost
    verdict   \* of the run: running, done, failed

collectionVars == <<status, verdict>>

Unsettled(c) == status[c] \in {"pending", "stored"}

CollectionInit ==
    /\ status = [c \in Members |-> "pending"]
    /\ verdict = "running"

Settle(c, from, to) ==
    /\ verdict = "running"
    /\ status[c] \in from
    /\ status' = [status EXCEPT ![c] = to]
    /\ UNCHANGED verdict

Skip(c)     == Settle(c, {"pending"}, "skipped")
Store(c)    == Settle(c, {"pending"}, "stored")
Complete(c) == Settle(c, {"stored"}, "complete")
Lose(c)     == Settle(c, {"pending", "stored"}, "lost")

Done ==
    /\ verdict = "running"
    /\ \A c \in Members : ~Unsettled(c)
    /\ verdict' = "done"
    /\ UNCHANGED status

(* A run may fail, but never between the two halves of a client.           *)
Fail ==
    /\ verdict = "running"
    /\ \A c \in Members : status[c] # "stored"
    /\ verdict' = "failed"
    /\ UNCHANGED status

NewRun ==
    /\ status' = [c \in Members |-> "pending"]
    /\ verdict' = "running"

CollectionNext ==
    \/ \E c \in Members : Skip(c) \/ Store(c) \/ Complete(c) \/ Lose(c)
    \/ Done
    \/ Fail
    \/ NewRun

CollectionSpec == CollectionInit /\ [][CollectionNext]_collectionVars
============================================================================
