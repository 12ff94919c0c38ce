---------------------------- MODULE TreeTraverse ----------------------------
(***************************************************************************)
(* uncategorized/treetraverse.py: the depth of a binary tree, and the      *)
(* zigzags on the way down.  A node is <<left, right>>, its name is left   *)
(* out; None is <<>>.                                                      *)
(***************************************************************************)
EXTENDS Integers, Sequences, FiniteSets

None == <<>>
Left == 1    \* DIRECTION_LEFT
Right == 2   \* DIRECTION_RIGHT
Other(direction) == 3 - direction
Larger(a, b) == IF a > b THEN a ELSE b

(* Whether a node reached by direction could be left by the other one.     *)
(* Mutant: by the same one.                                                *)
CheckSame(t, direction) == IF t[direction] # None THEN 1 ELSE 0
Check(t, direction) == IF t[Other(direction)] # None THEN 1 ELSE 0

RECURSIVE FindZipzag(_, _)
FindZipzag(t, direction) ==
    IF t = None THEN 0
    ELSE Check(t, direction) + Larger(FindZipzag(t[Left], Left), FindZipzag(t[Right], Right))

FindZigzags(t) ==
    IF t = None THEN 0
    ELSE Larger(FindZipzag(t[Left], Left), FindZipzag(t[Right], Right))

RECURSIVE FindDepth(_, _)
FindDepth(t, depth) ==
    IF t = None THEN 0
    ELSE depth + Larger(FindDepth(t[Left], depth), FindDepth(t[Right], depth)) + 1

Solution(t) == [depth |-> FindDepth(t, 0), zigzags |-> FindZigzags(t)]

-----------------------------------------------------------------------------
(* The reference: the ways from the root, as the directions taken. *)
RECURSIVE Ways(_)
Ways(t) ==
    IF t = None THEN {}
    ELSE {<<>>} \union UNION {{<<d>> \o w : w \in Ways(t[d])} : d \in {Left, Right}}

Largest(S) == IF S = {} THEN 0 ELSE CHOOSE n \in S : \A k \in S : k <= n
Prefix(way, n) == [k \in 1..n |-> way[k]]

(* Where a way could have turned, and where it does. *)
Forks(t, way) == {n \in DOMAIN way : Prefix(way, n - 1) \o <<way[n], Other(way[n])>> \in Ways(t)}
Turns(way) == {n \in DOMAIN way : n < Len(way) /\ way[n] # way[n + 1]}

(* The depth is the length of the longest way, in nodes.  The zigzags are  *)
(* the most forks on one way: at least as many as the turns of any way,    *)
(* and more when a way goes straight on past a fork.                       *)
TreeAgrees(t, answer) ==
    /\ answer.depth = Largest({Len(w) + 1 : w \in Ways(t)})
    /\ answer.zigzags = Largest({Cardinality(Forks(t, w)) : w \in Ways(t)})
    /\ \A w \in Ways(t) : Cardinality(Turns(w)) <= answer.zigzags
    /\ answer.zigzags <= Largest({answer.depth - 2, 0})
=============================================================================
