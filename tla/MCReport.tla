------------------------------ MODULE MCReport ------------------------------
(* Documents with one part wrong, or with up to three clients of which any *)
(* may be wrong, and event logs of up to four batches.                     *)
EXTENDS Report

Fine == [attributes |-> TRUE, alerts |-> <<TRUE>>]
Unfit == [Fine EXCEPT !.attributes = FALSE]
AnyClient == [attributes : BOOLEAN, alerts : {<<>>, <<TRUE>>, <<TRUE, FALSE>>}]

GoodDocument == [file |-> "good", srcpath |-> "good", hasClients |-> TRUE,
                 clients |-> <<Fine>>, database |-> "good", mailer |-> "good",
                 multithread |-> "true"]

MCDocuments ==
    {[GoodDocument EXCEPT !.file = f] : f \in {"unreadable", "malformed"}}
    \union {[GoodDocument EXCEPT !.srcpath = s] : s \in {"missing", "no value", "no file"}}
    \union {[GoodDocument EXCEPT !.hasClients = FALSE, !.clients = <<>>]}
    \union {[GoodDocument EXCEPT !.database = b, !.mailer = m] :
               b \in {"good", "missing", "invalid", "down"},
               m \in {"good", "missing", "invalid"}}
    \union {[GoodDocument EXCEPT !.multithread = t, !.clients = c] :
               t \in {"missing", "true", "other"}, c \in {<<>>, <<Fine>>}}
    \union {[GoodDocument EXCEPT !.clients = <<a, b>>] : a, b \in AnyClient}
    \union {[GoodDocument EXCEPT !.clients = <<a, b, c>>] : a, b, c \in {Fine, Unfit}}

AnEvent(n) == [id |-> n, sound |-> n # 3]
MCEventLogs == {<<>>,
                <<<<AnEvent(1)>>>>,
                <<<<AnEvent(3), AnEvent(2)>>, <<AnEvent(1)>>>>,
                <<<<AnEvent(6), AnEvent(5)>>, <<AnEvent(4), AnEvent(3)>>, <<AnEvent(2), AnEvent(1)>>>>}
=============================================================================
