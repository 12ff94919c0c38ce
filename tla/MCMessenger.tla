---------------------------- MODULE MCMessenger ----------------------------
(* Three users, two of whom type.                                          *)
EXTENDS Messenger, TLC

CONSTANTS ann, bob, cem

MCTexts == (ann :> 2) @@ (bob :> 1) @@ (cem :> 0)
============================================================================
