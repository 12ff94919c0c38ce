-------------------------------- MODULE Chat --------------------------------
(***************************************************************************)
(* What a chat promises, whoever joins, leaves or dies: each member sees   *)
(* of each other member an unbroken stretch of its texts, in the order     *)
(* they were typed, and nothing that was not posted.  Where a stretch      *)
(* begins and how many texts are seen at once is left open.  Messenger is  *)
(* shown to implement it.                                                  *)
(***************************************************************************)
EXTENDS Naturals

CONSTANT Members

VARIABLES
    typed,   \* typed[c]: how many texts c has typed
    posted,  \* posted[c]: how many of them the chat has taken
    seen     \* seen[d][c]: the numbers of the texts of c that d has seen

chatVars == <<typed, posted, seen>>

ChatInit ==
    /\ typed = [c \in Members |-> 0]
    /\ posted = [c \in Members |-> 0]
    /\ seen = [d \in Members |-> [c \in Members |-> {}]]

Say(c) ==
    /\ typed' = [typed EXCEPT ![c] = @ + 1]
    /\ UNCHANGED <<posted, seen>>

Post(c) ==
    /\ \E n \in (posted[c] + 1)..typed[c] : posted' = [posted EXCEPT ![c] = n]
    /\ UNCHANGED <<typed, seen>>

(* Text a is the one behind the texts seen, if there are any.              *)
GoesOn(texts, a) == texts # {} => a - 1 \in texts /\ \A n \in texts : n < a

(* A stretch of texts posted, of which a is the first new one.             *)
See(d, c) ==
    /\ d # c
    /\ \E b \in 1..posted[c] : \E a \in 1..b :
          /\ a \in seen'[d][c] \ seen[d][c]
          /\ GoesOn(seen[d][c], a)
          /\ seen' = [seen EXCEPT ![d][c] = @ \union a..b]
    /\ UNCHANGED <<typed, posted>>

ChatNext ==
    \/ \E c \in Members : Say(c) \/ Post(c)
    \/ \E c, d \in Members : See(d, c)

ChatSpec == ChatInit /\ [][ChatNext]_chatVars
============================================================================
