----------------------------- MODULE SipMessage -----------------------------
(***************************************************************************)
(* sip-socket/xsip: SipMessage and SipHeader encode a message to a text,   *)
(* sipdecoder decodes a text.  Methods, codes and the like are words, that *)
(* is symbols; header values and contents are texts.                       *)
(***************************************************************************)
EXTENDS Naturals, Texts

CONSTANT Numbers   \* the words that int() accepts

Splitter == ":"
LoneEnd == "linefeed"                 \* ends a line in splitlines, and is not \r\n
Ends == {NewLine, LoneEnd}
Spaces == {Blank} \union Ends
NoMessage == [type |-> "none"]        \* decode returns None
Failed == [type |-> "TypeError"]      \* SipResponse.decode_intro lacks self

Request(intro, headers, content) ==
    [type |-> "request", intro |-> intro, headers |-> headers, content |-> content]

-----------------------------------------------------------------------------
EncodeHeader(header) == header.name \o <<Splitter, Blank>> \o header.value

(* intro: method, uri and version, or version, code and reason, of which   *)
(* the reason may have several words.                                      *)
EncodeIntro(intro) == Join([i \in DOMAIN intro |-> <<intro[i]>>], Blank)

Encode(message) ==
    EncodeIntro(message.intro) \o <<NewLine>>
    \o FlattenSeq([i \in DOMAIN message.headers |->
                      Append(EncodeHeader(message.headers[i]), NewLine)])
    \o <<NewLine>> \o message.content \o <<NewLine>>

-----------------------------------------------------------------------------
(* SipHeader.decode: split at every colon, and joined without them.        *)
(* Mutant: the second part only.                                           *)
DecodeHeaderSecond(line) ==
    LET parts == SplitLines(line, {Splitter})
    IN [name |-> Strip(parts[1], Spaces),
        value |-> IF Len(parts) > 1 THEN Strip(parts[2], Spaces) ELSE <<>>]

DecodeHeader(line) ==
    LET parts == SplitLines(line, {Splitter})
    IN IF ~Contains(line, Splitter) THEN [name |-> <<>>, value |-> <<>>]
       ELSE [name |-> Strip(parts[1], Spaces), value |-> Strip(FlattenSeq(Tail(parts)), Spaces)]

(* SipMessage.decode: headers to the first empty line, then the content.   *)
DecodeLines(intro, lines) ==
    LET empty == {i \in 2..Len(lines) : Strip(lines[i], Spaces) = <<>>}
        first == CHOOSE i \in empty : \A j \in empty : i <= j
        end == IF empty = {} THEN Len(lines) + 1 ELSE first
    IN Request(intro, [i \in 1..(end - 2) |-> DecodeHeader(lines[i + 1])],
               Join(SubSeq(lines, end + 1, Len(lines)), NewLine))

(* sipdecoder.decode: a text whose first word is a number is taken for a   *)
(* response.                                                               *)
Decode(text) ==
    LET lines == SplitLines(text, Ends)
        words == SelectSeq(lines[1], LAMBDA w : w \notin Spaces)
    IN IF lines = <<>> \/ Len(words) # 3 THEN NoMessage
       ELSE IF words[1] \in Numbers THEN Failed
       ELSE DecodeLines(words, lines)

-----------------------------------------------------------------------------
(* What comes back of a message: without the colons in the values of its   *)
(* headers and the blanks around them, and with one kind of line end.      *)
Plain(value) == Strip(SelectSeq(value, LAMBDA c : c # Splitter), Spaces)
Returned(message) ==
    Request(message.intro,
            [i \in DOMAIN message.headers |-> [message.headers[i] EXCEPT !.value = Plain(@)]],
            [i \in DOMAIN message.content |->
                IF message.content[i] \in Ends THEN NewLine ELSE message.content[i]])

(* Encoded and decoded a message is what it was: no header moves into the  *)
(* content or back, whatever lines the content has.  A request always      *)
(* comes back.  A response never comes back as one (sipdecoder.py:19):     *)
(* with a version that is a number decoding fails, and else it passes for  *)
(* a request, if its reason is a single word.                              *)
SipRoundTrip(message, result) ==
    \/ message.type = "request" /\ result = Returned(message)
    \/ /\ message.type = "response"
       /\ IF Len(message.intro) # 3 THEN result = NoMessage
          ELSE IF message.intro[1] \in Numbers THEN result = Failed
          ELSE result = Returned(message)
=============================================================================
