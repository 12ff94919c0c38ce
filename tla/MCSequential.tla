---------------------------- MODULE MCSequential ----------------------------
(* What works alone on one input, each behaviour on one: the reading of a  *)
(* configuration and a report that follows it, or one of the programs of   *)
(* TextTools.                                                              *)
EXTENDS MCReport, MCTexts

NoTask == [program |-> "none"]

SequentialInit ==
    \/ Init /\ task = NoTask /\ result = <<>>
    \/ ToolInit /\ Init /\ document = GoodDocument

SequentialNext ==
    \/ task = NoTask /\ Next /\ UNCHANGED toolVars
    \/ ToolNext /\ UNCHANGED <<configVars, reportVars>>

SequentialSpec == SequentialInit /\ [][SequentialNext]_<<configVars, reportVars, toolVars>>
=============================================================================
