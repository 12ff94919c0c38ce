----------------------------- MODULE MCSockets ------------------------------
(* Command lines for one or two clients.  Over TCP the first client is run *)
(* twice at its address; TLS is tried against another server, alone.       *)
EXTENDS Sockets, TLC

CONSTANTS c1, c2

Line(protocol, send, recv, l1, l2, runs1) ==
    [protocol |-> protocol, sendloop |-> send, recvloop |-> recv,
     loops |-> (c1 :> l1 @@ c2 :> l2), trials |-> 2,
     sslversion |-> [c \in {c1, c2} |-> "none"], runs |-> (c1 :> runs1 @@ c2 :> 1)]

Alone(ssl, trials) ==
    [Line("tcp", FALSE, FALSE, Loops, {}, 1)
        EXCEPT !.sslversion = [c \in {c1, c2} |-> ssl], !.trials = trials,
               !.runs = (c1 :> 1 @@ c2 :> 0)]

MCSetups ==
    {Line("tcp", TRUE, TRUE, {"sendrecv"}, {"send"}, 2),
     Line("tcp", FALSE, FALSE, {"send", "recv"}, {"send"}, 1),
     Line("udp", TRUE, TRUE, {"send"}, {"sendrecv"}, 1),
     Line("udp", TRUE, FALSE, {"send"}, {"recv"}, 2)}
    \union {Alone(ssl, trials) : ssl \in {"one", "all", "unknown", "none"}, trials \in {0, 3}}
    \union {[Alone("one", 2) EXCEPT !.protocol = "udp"]}
=============================================================================
