------------------------------ MODULE Pretokens ------------------------------
(***************************************************************************)
(* How a text is cut into the pieces that are encoded one by one:          *)
(* pretokenize_cl100k of tiktoken.c and match_pattern of gpt2bpe.c. A      *)
(* character is its class. "s" is a letter that may end a contraction; the *)
(* contractions of two letters are left out.                               *)
(***************************************************************************)
EXTENDS Integers, Sequences

CONSTANTS Classes, MaxText, Patterns, MaxDigits  \* the classes in use, bound, "cl100k" and "gpt2", 3

VARIABLES pattern, text, spans  \* spans: of [from, to], to is the position after

preVars == <<pattern, text, spans>>

Letter == {"letter", "s"}
Blank == {"space"}
Newline == {"newline"}
White == Blank \cup Newline
Digit == {"digit"}
Punctuation == {"quote", "mark"}

Is(i, C) == i \in DOMAIN text /\ text[i] \in C

\* The first position from i on that is not of C
RunEnd(i, C) ==
    CHOOSE j \in i .. Len(text) + 1 : ~Is(j, C) /\ \A k \in i .. j - 1 : Is(k, C)

DigitsEnd(i) ==
    IF RunEnd(i, Digit) <= i + MaxDigits THEN RunEnd(i, Digit) ELSE i + MaxDigits

Contraction(i) == Is(i, {"quote"}) /\ Is(i + 1, {"s"})

\* Both patterns: a contraction, a word with a character before it, digits
WordEnd(i) ==
    IF Contraction(i) THEN i + 2
    ELSE IF Is(i, Punctuation \cup Blank) /\ Is(i + 1, Letter) THEN RunEnd(i + 1, Letter)
    ELSE IF Is(i, Letter) THEN RunEnd(i, Letter)
    ELSE DigitsEnd(i)

\* A blank, punctuation, line ends
MarksEnd(i) ==
    LET from == IF Is(i, Blank) THEN i + 1 ELSE i
    IN  IF Is(from, Punctuation) THEN RunEnd(RunEnd(from, Punctuation), Newline) ELSE i

\* Slip: white space up to and with its last
AllWhiteEnd(i) == RunEnd(i, White)

\* pretokenize_cl100k: white space but for its last, unless that is a line end
\* or the last of the text
Cl100kWhiteEnd(i) ==
    LET end == RunEnd(i, White)
    IN  IF end > Len(text) \/ end = i + 1 \/ Is(end - 1, Newline) THEN end ELSE end - 1

\* match_pattern: blanks and line ends, or blanks but for the one before a word
Gpt2WhiteEnd(i) ==
    LET blanks == RunEnd(i, Blank)
    IN  IF Is(blanks, Newline) THEN RunEnd(blanks, Newline)
        ELSE IF Is(blanks, Letter) /\ blanks - i > 1 THEN blanks - 1 ELSE blanks

SpanEnd(i) ==
    IF WordEnd(i) > i THEN WordEnd(i)
    ELSE IF MarksEnd(i) > i THEN MarksEnd(i)
    ELSE IF pattern = "cl100k" THEN Cl100kWhiteEnd(i) ELSE Gpt2WhiteEnd(i)

At == IF spans = <<>> THEN 1 ELSE spans[Len(spans)].to

Init ==
    /\ pattern \in Patterns /\ spans = <<>>
    /\ text \in UNION {[1 .. n -> Classes] : n \in 0 .. MaxText}

AddSpan ==
    /\ At <= Len(text)
    /\ spans' = Append(spans, [from |-> At, to |-> SpanEnd(At)])
    /\ UNCHANGED <<pattern, text>>

Next == AddSpan

Spec == Init /\ [][Next]_preVars
-----------------------------------------------------------------------------
\* No piece is empty. The letters of a word stay together unless a contraction
\* ends between them, a number is cut only after MaxDigits digits, and the
\* blank before a word belongs to the word.
WordsWhole ==
    \A i \in DOMAIN spans :
        LET last == spans[i].to - 1
            Cut(C, D) == Is(last, C) /\ Is(last + 1, D)
        IN  /\ last >= spans[i].from
            /\ Cut(Letter, Letter) => Contraction(spans[i].from) /\ last = spans[i].from + 1
            /\ Cut(Digit, Digit) => last - spans[i].from + 1 = MaxDigits
            /\ ~Cut(Blank, Letter)
=============================================================================
