-------------------------------- MODULE Stream --------------------------------
(***************************************************************************)
(* The reply of a server as it comes: stream_callback of llm/common.c puts *)
(* lines together from reads that are cut anywhere, and the parsers of the *)
(* backends take the events from the lines.                                *)
(*                                                                         *)
(* The first byte of an event stands for everything before its text: "c"   *)
(* is content, "r" reasoning, "b" both, the reasoning first. "t" is a byte *)
(* of text; a line that starts with it is any other line, with usage, a    *)
(* comment or [DONE]. The rest are the line ends "cr" and "nl". A line     *)
(* that was cut still gives the text that is left of it: the parsers end a *)
(* string at the line's end.                                               *)
(***************************************************************************)
EXTENDS Integers, Sequences, FiniteSets, SequencesExt, FiniteSetsExt

CONSTANTS
    MaxLine,  \* sizeof(line_buffer) - 1
    MaxBytes,  \* bound: what the server sends in all
    MaxRead  \* bound: the bytes of one read

VARIABLES
    anthropic,  \* is_anthropic; any other API, Kobold's too, has the OpenAI parser
    received,  \* all bytes so far, for the properties
    line,  \* line_buffer
    reply, reasoning,  \* resp->content, resp->reasoning
    ended

streamVars == <<anthropic, received, line, reply, reasoning, ended>>

Kinds == {"c", "r", "b"}
Byte == Kinds \union {"t", "cr", "nl"}
-----------------------------------------------------------------------------
NoEvent == [kind |-> "none", text |-> <<>>]

\* openai_parse_stream: an event with both is over after its reasoning.
OpenAiEvent(l) ==
    CASE l[1] = "c" -> [kind |-> "content", text |-> Tail(l)]
      [] l[1] \in {"r", "b"} -> [kind |-> "reasoning", text |-> Tail(l)]
      [] OTHER -> NoEvent

\* anthropic_parse_stream knows content only.
AnthropicEvent(l) ==
    IF l[1] \in {"c", "b"} THEN [kind |-> "content", text |-> Tail(l)] ELSE NoEvent

\* process_sse_line
Event(l) == IF anthropic THEN AnthropicEvent(l) ELSE OpenAiEvent(l)

\* What the bytes of a read do to the state of before, one after the other
Step(s, byte) ==
    IF byte = "nl"
    THEN LET e == IF s.line = <<>> THEN NoEvent ELSE Event(s.line)
         IN  [line |-> <<>>,
              reply |-> IF e.kind = "content" THEN s.reply \o e.text ELSE s.reply,
              reasoning |-> IF e.kind = "reasoning" THEN s.reasoning \o e.text
                            ELSE s.reasoning]
    ELSE IF byte # "cr" /\ Len(s.line) < MaxLine
    THEN [s EXCEPT !.line = Append(@, byte)]
    ELSE s

\* Slip: each read starts a line of its own
ReadAlone(bytes) ==
    FoldLeft(Step, [line |-> <<>>, reply |-> reply, reasoning |-> reasoning], bytes)

\* stream_callback
Read(bytes) ==
    FoldLeft(Step, [line |-> line, reply |-> reply, reasoning |-> reasoning], bytes)
-----------------------------------------------------------------------------
Init ==
    /\ anthropic \in BOOLEAN
    /\ received = <<>> /\ line = <<>> /\ reply = <<>> /\ reasoning = <<>>
    /\ ended = FALSE

Receive ==
    /\ ~ended
    /\ \E bytes \in SeqOf(Byte, MaxRead) \ {<<>>} :
        /\ Len(received) + Len(bytes) <= MaxBytes
        /\ received' = received \o bytes
        /\ LET s == Read(bytes)
           IN  line' = s.line /\ reply' = s.reply /\ reasoning' = s.reasoning
    /\ UNCHANGED <<anthropic, ended>>

\* The end of the reply, an error or 120 seconds: what there is of a line then
\* stays unread.
End ==
    /\ ~ended /\ ended' = TRUE
    /\ UNCHANGED <<anthropic, received, line, reply, reasoning>>

Next == Receive \/ End

Spec == Init /\ [][Next]_streamVars
-----------------------------------------------------------------------------
\* The elements of a set of numbers, the least first
InOrder(S) ==
    [k \in 1 .. Cardinality(S) |-> CHOOSE i \in S : Cardinality({j \in S : j <= i}) = k]

\* The line that bytes r have begun up to place n, as the server sent it: what
\* follows the line end before, without what is past the buffer
Kept(r, n) == {i \in 1 .. n : r[i] # "cr" /\ \A j \in i .. n : r[j] # "nl"}
LineTo(r, n) ==
    [k \in 1 .. Min({Cardinality(Kept(r, n)), MaxLine}) |-> r[InOrder(Kept(r, n))[k]]]

\* The events of the lines that bytes r end, of those that have any byte
Ended(r) == {e \in DOMAIN r : r[e] = "nl" /\ Kept(r, e - 1) # {}}
SentBy(r) ==
    [k \in 1 .. Cardinality(Ended(r)) |-> Event(LineTo(r, InOrder(Ended(r))[k] - 1))]
Sent == SentBy(received)

\* The reply is that of the server's events, in their order, wherever the reads
\* cut them. (The text behind the reasoning of one event is not.)
Promised == INSTANCE Relay WITH events <- Sent
IsRelay == Promised!Spec
=============================================================================
