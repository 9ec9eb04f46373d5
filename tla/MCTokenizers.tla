---------------------------- MODULE MCTokenizers ----------------------------
(***************************************************************************)
(* The tokenizers for TLC. A behaviour is of one part, chosen at the       *)
(* start; the parts share no state in the program, and the variables of    *)
(* the others rest at a first value of theirs.                             *)
(***************************************************************************)
EXTENDS Integers, SequencesExt, TLC

CONSTANTS
    MaxText, TrieRoom,
    Letters,
    RankedVocabs, RankedPieces, Unranked,  \* Tiktoken
    ScoredPieces, ScoredTexts, NormRoom, SymbolRoom, PairRoom, ResultRoom, IdRooms  \* SentencePiece

VARIABLES
    encoder,
    ranked, rankedPiece, rankedParts, rankedStep, rankedOut,  \* Tiktoken
    type, score, asked, idRoom, normal, symbols, pairs, best, pos, scoreStep, scoreOut,  \* SentencePiece
    merges, piece, room, parts, heap, cached, cut, mergeStep, mergeOut,  \* Gpt2Bpe
    pattern, text, spans,  \* Pretokens
    pieces, base, check, at, todo  \* DoubleArray

tikVars == <<ranked, rankedPiece, rankedParts, rankedStep, rankedOut>>
spVars == <<type, score, asked, idRoom, normal, symbols, pairs, best, pos, scoreStep, scoreOut>>
gptVars == <<merges, piece, room, parts, heap, cached, cut, mergeStep, mergeOut>>
preVars == <<pattern, text, spans>>
datVars == <<pieces, base, check, at, todo>>
tokenizerVars == <<encoder, tikVars, spVars, gptVars, preVars, datVars>>
-----------------------------------------------------------------------------
\* Words over two letters, and lists of them in the order of their ranks
A == <<"a">>
B == <<"b">>
AA == A \o A
AB == A \o B
BA == B \o A
AAA == AA \o A
MarkA == <<"_", "a">>
Lists(words, sizes) ==
    UNION {{o \in [1 .. k -> words] : \A i, j \in 1 .. k : i # j => o[i] # o[j]} : k \in sizes}

Ranked(list, letters) ==
    [w \in letters \cup {list[i] : i \in DOMAIN list} |->
        IF w \in letters THEN 0 ELSE CHOOSE i \in DOMAIN list : list[i] = w]
MCVocabs ==
    {Ranked(o, letters) : letters \in {{A}, {A, B}}, o \in Lists({AA, AB, BA, AAA, AB \o A}, 2 .. 3)}
MCPieces == {A, AB, AA \o BA, AA \o AAA, BA \o AB \o A}

MCScores == UNION {[S -> {-1, -3}] : S \in kSubset(2, {A, AA, AB, BA, AAA, MarkA})
                                            \cup kSubset(3, {A, AA, AB, BA, MarkA, MarkA \o B})}
MCTexts == {<<" ">>, AB \o <<" ", " ">> \o A, <<" ">> \o AA \o AA, BA \o AB \o A, AB \o AB \o AB}
Penalty == -10
Never == -1000

\* "c" is no token and in no merge.
MergeLists == Lists({<<A, A>>, <<A, B>>, <<B, A>>, <<AA, A>>, <<AB, A>>}, 2 .. 3)
                  \cup {<< <<A, B>>, <<B, A>>, <<AB, A>>, <<AB, AB>> >>}
MergePieces == {A, AA \o BA, AB \o AB \o A, <<"c">> \o AB, AAA \o AAA \o B}
HashOf(p) == FoldLeft(LAMBDA h, x : 3 * h + (CASE x = "a" -> 1 [] x = "b" -> 2 [] OTHER -> 0), 1, p)
SlotOf(h) == h % 2

Tries == SUBSET {<<0>>, <<1>>, <<0, 0>>, <<0, 2>>, <<1, 0>>, <<2, 1>>, <<0, 1, 2>>, <<1, 0, 1>>} \ {{}}

Tik == INSTANCE Tiktoken WITH
    Vocabs <- RankedVocabs, Pieces <- RankedPieces,
    vocab <- ranked, piece <- rankedPiece, parts <- rankedParts, pc <- rankedStep, out <- rankedOut
Sp == INSTANCE SentencePiece WITH
    Space <- " ", Mark <- "_", Scores <- ScoredPieces, Texts <- ScoredTexts, DummyPrefix <- TRUE,
    Types <- {"bpe", "unigram"}, UnkPenalty <- Penalty, Unreached <- Never,
    LongestPiece <- 3, Rooms <- IdRooms, room <- idRoom, text <- normal, pc <- scoreStep, out <- scoreOut
Gpt == INSTANCE Gpt2Bpe WITH
    Merges <- MergeLists, Known <- {"a", "b"}, Unknown <- << <<>> >>, Pieces <- MergePieces,
    Rooms <- {1, 9}, Hash <- HashOf, Slot <- SlotOf, CachedAtMost <- 4, EncodedRoom <- 6,
    CachedLetters <- 5, PartRoom <- 5, HeapRoom <- 4, cache <- cached, pc <- mergeStep, out <- mergeOut
Cut == INSTANCE Pretokens WITH
    Classes <- {"letter", "s", "digit", "space", "newline", "mark", "quote"},
    Patterns <- {"cl100k", "gpt2"}, MaxDigits <- 3
Trie == INSTANCE DoubleArray WITH Bytes <- 0 .. 2, Room <- TrieRoom, PieceSets <- Tries
-----------------------------------------------------------------------------
\* No rank is UINT32_MAX.
ASSUME VocabAssumption ==
    /\ Unranked \in Nat /\ RankedPieces \subseteq Seq(Letters)
    /\ \A v \in RankedVocabs :
            DOMAIN v \subseteq Seq(Letters) /\ v \in [DOMAIN v -> 0 .. Unranked - 1]

\* There are symbols, and twice as much room for pairs; max_ids is any number.
ASSUME ScoreAssumption ==
    /\ SymbolRoom \in Nat \ {0} /\ PairRoom \in Nat /\ 2 * SymbolRoom <= PairRoom
    /\ NormRoom \in Nat \ {0} /\ IdRooms \subseteq Nat
    /\ "_" \in Letters /\ ScoredTexts \subseteq Seq(Letters \cup {" "})
    /\ \A v \in ScoredPieces :
            DOMAIN v \subseteq Seq(Letters) /\ v \in [DOMAIN v -> Int]

TokenizerInit ==
    /\ encoder \in {"tiktoken", "sentencepiece", "gpt2", "cut", "trie"}
    /\ encoder = "tiktoken" \/ ranked = CHOOSE v \in RankedVocabs : TRUE
    /\ Tik!Init
    /\ encoder = "sentencepiece" \/ (type = "bpe" /\ score = CHOOSE v \in ScoredPieces : TRUE)
    /\ Sp!Init
    /\ encoder = "gpt2" \/ merges = <<<<A, A>>, <<A, B>>>>
    /\ Gpt!Init
    /\ encoder = "cut" \/ (pattern = "gpt2" /\ text = <<>>)
    /\ Cut!Init
    /\ encoder = "trie" \/ pieces = {<<0>>}
    /\ Trie!Init

TokenizerNext ==
    /\ UNCHANGED encoder
    /\ \/ encoder = "tiktoken" /\ Tik!Next /\ UNCHANGED <<spVars, gptVars, preVars, datVars>>
       \/ encoder = "sentencepiece" /\ Sp!Next /\ UNCHANGED <<tikVars, gptVars, preVars, datVars>>
       \/ encoder = "gpt2" /\ Gpt!Next /\ UNCHANGED <<tikVars, spVars, preVars, datVars>>
       \/ encoder = "cut" /\ Cut!Next /\ UNCHANGED <<tikVars, spVars, gptVars, datVars>>
       \/ encoder = "trie" /\ Trie!Next /\ UNCHANGED <<tikVars, spVars, gptVars, preVars>>

TokenizerSpec == TokenizerInit /\ [][TokenizerNext]_tokenizerVars
-----------------------------------------------------------------------------
\* The pieces that a text is cut into, and the tokens that bpe_encode_piece and
\* sp_encode_bpe make of them, leave nothing out before the end and have nothing
\* twice, nothing at all as long as the fixed arrays and max_ids have room; and no
\* cut is within a word or a number.
TextKept == Cut!WordsWhole /\ Tik!TokensSpell /\ Sp!TokensSpell

\* bpe_encode_piece joins as Merging asks for, by the ranks of the vocabulary, and
\* sp_encode_bpe by the scores of the pieces; both end when nothing can be joined.
MergesByRank == Tik!MergesByRank /\ Sp!MergesByScore

\* So does gpt2_encode, by the merge list, as long as its heap is not overrun.
MergesInOrder == Gpt!MergesByList

\* The tokens of gpt2_encode spell the letters of their piece that are known and
\* have a part, and its heap has room for every piece of up to half as many letters;
\* the tokens of a unigram model are the best, as long as there is room for them;
\* and the trie that model walks
TokensRight == Gpt!TokensSpell /\ Gpt!HeapLasts /\ Sp!BestSegmentation /\ Trie!WalksAreExact
=============================================================================
