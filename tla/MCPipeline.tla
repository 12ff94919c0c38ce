----------------------------- MODULE MCPipeline -----------------------------
(* Three processors and two senders over a few requests.                   *)
EXTENDS Pipeline

CONSTANTS p1, p2, p3, s1, s2
=============================================================================
