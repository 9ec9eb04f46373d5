------------------------------ MODULE Tiktoken ------------------------------
(***************************************************************************)
(* bpe_encode_piece of src/inference/tokenizer/tiktoken.c: the parts of a  *)
(* piece are kept as their starts, each with the rank of its join with the *)
(* next part, which is looked up again only next to a join.                *)
(***************************************************************************)
EXTENDS Integers, SequencesExt

CONSTANTS
    Vocabs,  \* byte_to_rank and the hash table: the rank of each known word
    Pieces,  \* bound: the pieces to encode
    Unranked  \* UINT32_MAX

VARIABLES
    vocab, piece,
    parts,  \* of [start, rank]; the last one is the end of the piece
    pc,
    out  \* the tokens, as their words

tikVars == <<vocab, piece, parts, pc, out>>

Refused == <<>>  \* a return of -1

Init ==
    /\ vocab \in Vocabs /\ piece = <<>> /\ parts = <<>>
    /\ pc = "idle" /\ out = Refused

Word(p, from, to) == SubSeq(p, from, to - 1)

\* lookup_rank
LookupRank(p, from, to) ==
    IF Word(p, from, to) \in DOMAIN vocab THEN vocab[Word(p, from, to)] ELSE Unranked

\* A letter, or a piece that is a word of the vocabulary, is a token by itself.
EncodeWhole(p) ==
    /\ pc # "merge" /\ (Len(p) = 1 \/ p \in DOMAIN vocab)
    /\ piece' = p /\ parts' = <<>> /\ pc' = "done"
    /\ out' = IF p \in DOMAIN vocab THEN <<p>> ELSE Refused
    /\ UNCHANGED vocab

EncodePiece(p) ==
    /\ pc # "merge" /\ Len(p) > 1 /\ p \notin DOMAIN vocab
    /\ piece' = p /\ pc' = "merge"
    /\ parts' = [i \in 1 .. Len(p) + 1 |->
                    [start |-> i,
                     rank |-> IF i < Len(p) THEN LookupRank(p, i, i + 2) ELSE Unranked]]
    /\ UNCHANGED <<vocab, out>>

Least(i) ==
    \A j \in 1 .. Len(parts) - 1 :
        parts[i].rank < parts[j].rank \/ (parts[i].rank = parts[j].rank /\ i <= j)

Live == {i \in 1 .. Len(parts) - 1 : parts[i].rank # Unranked}

\* The join of part i of q with the next, if there is one
JoinRank(q, i) ==
    IF i + 2 <= Len(q) THEN LookupRank(piece, q[i].start, q[i + 2].start) ELSE Unranked

\* Slip: the part before the join keeps the rank it had
RerankedAfter(q, i) == [q EXCEPT ![i].rank = JoinRank(q, i)]

\* The joins with the new part i
Reranked(q, i) ==
    [j \in DOMAIN q |-> IF j \in {i - 1, i} THEN [q[j] EXCEPT !.rank = JoinRank(q, j)] ELSE q[j]]

MergeParts ==
    /\ pc = "merge"
    /\ \E i \in Live : Least(i) /\ parts' = Reranked(RemoveAt(parts, i + 1), i)
    /\ UNCHANGED <<vocab, piece, pc, out>>

Segments == [i \in 1 .. Len(parts) - 1 |-> Word(piece, parts[i].start, parts[i + 1].start)]

\* Slip: a part that is no word is passed over
EmitKnown ==
    /\ pc = "merge" /\ Live = {}
    /\ out' = SelectSeq(Segments, LAMBDA w : w \in DOMAIN vocab) /\ pc' = "done"
    /\ UNCHANGED <<vocab, piece, parts>>

\* A part that is no word is a letter that has no token: the piece is refused.
EmitTokens ==
    /\ pc = "merge" /\ Live = {}
    /\ out' = IF \A i \in DOMAIN Segments : Segments[i] \in DOMAIN vocab THEN Segments ELSE Refused
    /\ pc' = "done"
    /\ UNCHANGED <<vocab, piece, parts>>

Next ==
    \/ MergeParts \/ EmitTokens
    \/ \E p \in Pieces : EncodeWhole(p) \/ EncodePiece(p)

Spec == Init /\ [][Next]_tikVars
-----------------------------------------------------------------------------
\* The ways to cut a word of the vocabulary in two
Cuts == UNION {{<<SubSeq(w, 1, k), SubSeq(w, k + 1, Len(w))>> : k \in 1 .. Len(w) - 1} :
                  w \in DOMAIN vocab}

\* Parts are joined in the order of their ranks, the leftmost of equals first,
\* and until none can be: no rank that was looked up before is stale when used.
Order == INSTANCE Merging WITH
    Leftmost <- TRUE, ranks <- [c \in Cuts |-> vocab[c[1] \o c[2]]],
    parts <- Segments, done <- pc # "merge"

MergesByRank == Order!Spec

\* The tokens of a piece spell the piece.
TokensSpell == pc = "done" /\ out # Refused => FlattenSeq(out) = piece
=============================================================================
