---------------------------- MODULE SentencePiece ----------------------------
(***************************************************************************)
(* sp_encode of src/inference/tokenizer/sentencepiece.c. The text is       *)
(* normalized; a BPE model then joins symbols that are linked by indices,  *)
(* from a list of pairs that keeps the ones a join has made stale; a       *)
(* unigram model finds the segmentation of the best total score. Every     *)
(* letter is of one size here, also in the arrays that hold bytes.         *)
(***************************************************************************)
EXTENDS Integers, SequencesExt

CONSTANTS
    Space, Mark,  \* a blank, and what stands for it in pieces
    Scores,  \* the models: the score of each piece, at most 0
    Texts,  \* bound: the texts to encode
    DummyPrefix,  \* add_dummy_prefix
    Types,  \* of "bpe", "unigram"
    NormRoom,  \* normalized[8192]
    SymbolRoom, PairRoom,  \* symbols[4096], pairs[8192]
    ResultRoom,  \* result_ids[4096]
    LongestPiece,  \* the 32 letters after which the walk along the trie ends
    Rooms,  \* bound: max_ids
    UnkPenalty, Unreached  \* unk_penalty, -1e30

VARIABLES
    type, score,
    asked,  \* the text to encode, for the properties
    room,  \* max_ids
    text,  \* the normalized text, what there is room and what there are symbols for
    symbols,  \* per index the start, the length, prev and next; a joined one has length 0
    pairs,  \* candidates, stale ones included
    best,  \* per position of the lattice: best_scores, best_prev_pos, best_id
    pos,
    pc,
    out  \* the tokens, as their pieces

spVars == <<type, score, asked, room, text, symbols, pairs, best, pos, pc, out>>

None == 0  \* the indices here begin with 1

Init ==
    /\ type \in Types /\ score \in Scores
    /\ asked = <<>> /\ room = 0 /\ text = <<>>
    /\ symbols = <<>> /\ pairs = {} /\ best = <<>> /\ pos = 0
    /\ pc = "idle" /\ out = <<>>

First(s, n) == IF Len(s) <= n THEN s ELSE SubSeq(s, 1, n)

\* normalize_text: blanks at the ends are dropped, a run of others is one mark.
Normalized(t) ==
    LET Read(s, c) ==
            IF c = Space THEN [s EXCEPT !.blank = TRUE]
            ELSE [text |-> s.text \o (IF s.blank /\ (s.text # <<>> \/ DummyPrefix)
                                      THEN <<Mark, c>> ELSE <<c>>),
                  blank |-> FALSE]
    IN  FoldLeft(Read, [text |-> <<>>, blank |-> TRUE], t).text

\* What there is room for of it
Fitting(t) == First(Normalized(t), NormRoom)

Ask(t, r) == asked' = t /\ room' = r

Piece(from, length) == SubSeq(text, from, from + length - 1)

\* A text of blanks has no tokens.
EncodeBlank(t, r) ==
    /\ pc # "work" /\ Normalized(t) = <<>> /\ Ask(t, r)
    /\ text' = <<>> /\ symbols' = <<>> /\ best' = <<>> /\ pos' = 0 /\ out' = <<>>
    /\ pc' = "done"
    /\ UNCHANGED <<type, score, pairs>>
-----------------------------------------------------------------------------
(* The BPE model *)
Candidate(left, right, from, length) ==
    IF Piece(from, length) \in DOMAIN score
    THEN {[left |-> left, right |-> right, length |-> length, score |-> score[Piece(from, length)]]}
    ELSE {}

\* The candidate of symbol i of q and the symbol after it
Neighbours(q, i) ==
    IF i = None \/ q[i].next = None THEN {}
    ELSE Candidate(i, q[i].next, q[i].start, q[i].length + q[q[i].next].length)

\* Letters that there is no room for are dropped.
EncodeBpe(t, r) ==
    LET n == First(Fitting(t), SymbolRoom)
    IN  /\ pc # "work" /\ type = "bpe" /\ n # <<>> /\ Ask(t, r)
        /\ text' = n /\ pc' = "work" /\ best' = <<>> /\ out' = <<>>
        /\ symbols' = [i \in 1 .. Len(n) |->
                [start |-> i, length |-> 1, prev |-> i - 1, next |-> IF i < Len(n) THEN i + 1 ELSE None]]
        /\ pairs' = UNION {IF SubSeq(n, i, i + 1) \in DOMAIN score
                           THEN {[left |-> i, right |-> i + 1, length |-> 2,
                                  score |-> score[SubSeq(n, i, i + 1)]]} ELSE {} : i \in 1 .. Len(n) - 1}
        /\ UNCHANGED <<type, score, pos>>

\* pair_compare
Foremost(p) ==
    \A q \in pairs : p.score > q.score \/ (p.score = q.score /\ p.left <= q.left)

\* Slip: a symbol that has grown since goes unnoticed
Gone(p) == symbols[p.left].length = 0 \/ symbols[p.right].length = 0

Stale(p) ==
    \/ symbols[p.left].length = 0 \/ symbols[p.right].length = 0
    \/ symbols[p.left].length + symbols[p.right].length # p.length

DropStale ==
    /\ pc = "work" /\ type = "bpe"
    /\ \E p \in pairs : Foremost(p) /\ Stale(p) /\ pairs' = pairs \ {p}
    /\ UNCHANGED <<type, score, asked, room, text, symbols, best, pos, pc, out>>

Relinked(p) ==
    LET after == symbols[p.right].next
    IN  [i \in DOMAIN symbols |->
            CASE i = p.left -> [symbols[i] EXCEPT !.length = p.length, !.next = after]
              [] i = p.right -> [symbols[i] EXCEPT !.length = 0]
              [] i = after -> [symbols[i] EXCEPT !.prev = p.left]
              [] OTHER -> symbols[i]]

\* A pair for which there is no room is dropped.
MergePair ==
    /\ pc = "work" /\ type = "bpe"
    /\ \E p \in pairs :
        /\ Foremost(p) /\ ~Stale(p)
        /\ symbols' = Relinked(p)
        /\ LET before == (pairs \ {p}) \cup Neighbours(symbols', symbols'[p.left].prev)
               after == before \cup Neighbours(symbols', p.left)
           IN  pairs' = IF Cardinality(before) > PairRoom THEN pairs \ {p}
                        ELSE IF Cardinality(after) > PairRoom THEN before ELSE after
    /\ UNCHANGED <<type, score, asked, room, text, best, pos, pc, out>>

\* The symbols that are left, in the order of their links
Linked == FoldLeft(LAMBDA kept, s : IF s.length > 0 THEN Append(kept, s) ELSE kept, <<>>, symbols)
Segments == [i \in DOMAIN Linked |-> Piece(Linked[i].start, Linked[i].length)]

\* A symbol that is no piece is one letter: its bytes, or unk_id. What max_ids
\* has no room for is left out.
EmitBpe ==
    /\ pc = "work" /\ type = "bpe" /\ pairs = {}
    /\ out' = First(Segments, room) /\ pc' = "done"
    /\ UNCHANGED <<type, score, asked, room, text, symbols, pairs, best, pos>>
-----------------------------------------------------------------------------
(* The unigram model: the Viterbi pass over the lattice of positions *)
EncodeUnigram(t, r) ==
    /\ pc # "work" /\ type = "unigram" /\ Normalized(t) # <<>> /\ Ask(t, r)
    /\ text' = Fitting(t) /\ pos' = 0 /\ pc' = "work" /\ symbols' = <<>> /\ out' = <<>>
    /\ best' = [i \in 0 .. Len(Fitting(t)) |->
                   [score |-> IF i = 0 THEN 0 ELSE Unreached, prev |-> -1, piece |-> <<>>]]
    /\ UNCHANGED <<type, score, pairs>>

\* The ends of the pieces from position i on that the trie is walked for
EndsFrom(i) ==
    {e \in i + 1 .. Len(text) : e <= i + LongestPiece /\ SubSeq(text, i + 1, e) \in DOMAIN score}
Ends == EndsFrom(pos)

Reach(e, gain) ==
    IF best[pos].score + gain > best[e].score
    THEN [score |-> best[pos].score + gain, prev |-> pos, piece |-> SubSeq(text, pos + 1, e)]
    ELSE best[e]

\* Slip: only the longest of the pieces that begin here
GreedyExtend ==
    [e \in DOMAIN best |->
        IF e \in Ends /\ \A f \in Ends : f <= e THEN Reach(e, score[SubSeq(text, pos + 1, e)])
        ELSE IF Ends = {} /\ e = pos + 1 THEN Reach(e, UnkPenalty) ELSE best[e]]

\* unk_id stands for the letter where no piece begins.
Extend ==
    [e \in DOMAIN best |->
        IF e \in Ends THEN Reach(e, score[SubSeq(text, pos + 1, e)])
        ELSE IF Ends = {} /\ e = pos + 1 THEN Reach(e, UnkPenalty) ELSE best[e]]

VisitPosition ==
    /\ pc = "work" /\ type = "unigram" /\ pos < Len(text)
    /\ best' = IF best[pos].score = Unreached THEN best ELSE Extend
    /\ pos' = pos + 1
    /\ UNCHANGED <<type, score, asked, room, text, symbols, pairs, pc, out>>

\* best_prev_pos from the end, turned round
Trace ==
    LET back[p \in -1 .. Len(text)] ==
            IF p <= 0 THEN <<>> ELSE back[best[p].prev] \o <<best[p].piece>>
    IN  back[Len(text)]

\* result_ids is filled from the end of the text, and what it has no room for is
\* the start of it; max_ids then has room for the first of what is left.
Collected == SubSeq(Trace, IF Len(Trace) <= ResultRoom THEN 1 ELSE Len(Trace) - ResultRoom + 1, Len(Trace))

EmitUnigram ==
    /\ pc = "work" /\ type = "unigram" /\ pos = Len(text)
    /\ out' = First(Collected, room) /\ pc' = "done"
    /\ UNCHANGED <<type, score, asked, room, text, symbols, pairs, best, pos>>

Next ==
    \/ DropStale \/ MergePair \/ EmitBpe \/ VisitPosition \/ EmitUnigram
    \/ \E t \in Texts, r \in Rooms : EncodeBlank(t, r) \/ EncodeBpe(t, r) \/ EncodeUnigram(t, r)

Spec == Init /\ [][Next]_spVars
-----------------------------------------------------------------------------
\* The ways to cut a piece of the model in two
Cuts == UNION {{<<SubSeq(w, 1, k), SubSeq(w, k + 1, Len(w))>> : k \in 1 .. Len(w) - 1} :
                  w \in DOMAIN score}

\* Symbols are joined in the order of their scores, the leftmost of equals
\* first, and until none can be: no stale pair is ever joined, none that can
\* be is missing from the list, and the list has room for all.
Order == INSTANCE Merging WITH
    Leftmost <- TRUE, ranks <- [c \in Cuts |-> -score[c[1] \o c[2]]],
    parts <- Segments, done <- pc # "work" \/ type # "bpe"

MergesByScore == Order!Spec

\* The best total score of the text from position i on
BestFrom[i \in 0 .. Len(text)] ==
    LET totals == IF i = Len(text) THEN {0}
                  ELSE IF EndsFrom(i) = {} THEN {UnkPenalty + BestFrom[i + 1]}
                  ELSE {score[SubSeq(text, i + 1, e)] + BestFrom[e] : e \in EndsFrom(i)}
    IN  CHOOSE t \in totals : \A u \in totals : u <= t

Total(tokens) ==
    FoldLeft(LAMBDA a, w : a + (IF w \in DOMAIN score THEN score[w] ELSE UnkPenalty), 0, tokens)

\* The tokens of a BPE model spell the normalized text from its first letter on
\* without a gap: all of it, unless normalized[], symbols[] or max_ids has been
\* filled to the end; and what is missing then is missing at the end.
TokensSpell ==
    pc = "done" /\ type = "bpe" =>
        /\ FlattenSeq(out) = First(Normalized(asked), Len(FlattenSeq(out)))
        /\ \/ FlattenSeq(out) = Normalized(asked)
           \/ Len(FlattenSeq(out)) \in {NormRoom, SymbolRoom}
           \/ Len(out) = room

\* The unigram tokens spell the normalized text, as far as normalized[] holds it,
\* and no other segmentation scores higher, unless result_ids[] or max_ids has been
\* filled to the end. Then they spell a stretch of the text: from its first letter
\* on where result_ids[] has sufficed.
BestSegmentation ==
    LET spelt == FlattenSeq(out)
    IN  pc = "done" /\ type = "unigram" =>
        /\ text = First(Normalized(asked), NormRoom)
        /\ IF Len(out) < ResultRoom /\ Len(out) < room
           THEN spelt = text /\ Total(out) = BestFrom[0]
           ELSE \E i \in 0 .. Len(text) - Len(spelt) :
                    /\ spelt = SubSeq(text, i + 1, i + Len(spelt))
                    /\ i > 0 => Len(text) > ResultRoom
=============================================================================
