--------------------------- MODULE TokenizersProof ---------------------------
(***************************************************************************)
(* What is proved of the tokenizers, for texts of any length and any       *)
(* vocabulary: pieces and tokens keep the text, and bpe_encode_piece       *)
(* (Tiktoken) and sp_encode_bpe (SentencePiece) implement Merging.         *)
(***************************************************************************)
EXTENDS MCTokenizers, FiniteSets, SequenceTheorems, FiniteSetTheorems, WellFoundedInduction, TLAPS
-----------------------------------------------------------------------------
LEMMA NatSetInduction ==
    ASSUME NEW T \in SUBSET Nat, 0 \in T, \A i \in T : i + 1 \in T
    PROVE  T = Nat
<1> DEFINE rest == Nat \ T
           less == OpToRel(<, Nat)
<1> SUFFICES ASSUME rest # {} PROVE FALSE
    OBVIOUS
<1>1. IsWellFoundedOn(less, Nat)
    BY NatLessThanWellFounded
<1>2. \A x, y \in Nat : <<y, x>> \in less <=> y < x
    BY DEF OpToRel
<1> HIDE DEF less
<1>3. \E x \in rest : \A y \in rest : ~(<<y, x>> \in less)
    BY <1>1, WFMin
<1>4. PICK x \in rest : \A y \in rest : ~(y < x)
    BY <1>2, <1>3
<1>5. x # 0 /\ x - 1 \in Nat /\ x - 1 < x
    BY <1>4
<1>6. x - 1 \in T
    BY <1>4, <1>5
<1> QED
    BY <1>4, <1>5, <1>6

LEMMA UpTo ==
    ASSUME NEW len \in Nat, NEW T, 0 \in T,
           \A i \in 0 .. len : i \in T /\ i + 1 <= len => i + 1 \in T
    PROVE  0 .. len \subseteq T
<1> DEFINE U == {i \in Nat : i <= len => i \in T}
<1>1. 0 \in U
    OBVIOUS
<1>2. ASSUME NEW i \in U PROVE i + 1 \in U
    BY <1>2
<1>3. U \in SUBSET Nat
    OBVIOUS
<1> HIDE DEF U
<1>4. U = Nat
    BY <1>1, <1>2, <1>3, NatSetInduction
<1> QED
    BY <1>4 DEF U
-----------------------------------------------------------------------------
(***************************************************************************)
(* The loops of sp_encode are folds: these are the values they have after  *)
(* each turn.                                                              *)
(***************************************************************************)
Read(v, x) ==
    IF x = " " THEN [v EXCEPT !.blank = TRUE]
    ELSE [text |-> v.text \o (IF v.blank THEN <<"_", x>> ELSE <<x>>), blank |-> FALSE]
Loop(what, v, x) ==
    IF what.loop = "keep" THEN IF x.length > 0 THEN Append(v, x) ELSE v
    ELSE Read(v, x)

IsFold(g, what, init, s, len) ==
    g = [S \in SUBSET (1 .. len) |->
            IF S = {} THEN init ELSE Loop(what, g[S \ {Max(S)}], s[Max(S)])]

LEMMA LastIsMost ==
    ASSUME NEW m \in Nat, NEW S \in SUBSET (1 .. m + 1), m + 1 \in S
    PROVE  Max(S) = m + 1
<1>1. \A y \in S : m + 1 >= y /\ y \in Nat
    OBVIOUS
<1>2. \A x \in S : (\A y \in S : x >= y) => x = m + 1
    BY <1>1
<1>3. Max(S) \in S /\ \A y \in S : Max(S) >= y
    BY <1>1 DEF Max
<1> QED
    BY <1>2, <1>3

LEMMA FoldExists ==
    ASSUME NEW what, NEW init, NEW s, NEW len \in Nat
    PROVE  \E g : IsFold(g, what, init, s, len)
<1> DEFINE Folds(g, m) ==
                g = [S \in SUBSET (1 .. m) |->
                        IF S = {} THEN init
                        ELSE Loop(what, g[S \ {Max(S)}], s[Max(S)])]
           T == {m \in 0 .. len : \E g : Folds(g, m)}
<1>1. 0 \in T
    <2> DEFINE g == [S \in SUBSET (1 .. 0) |-> init]
    <2>1. \A S \in SUBSET (1 .. 0) : S = {}
        OBVIOUS
    <2>2. Folds(g, 0)
        BY <2>1
    <2> QED
        BY <2>2
<1>2. ASSUME NEW m \in 0 .. len, m \in T, m + 1 <= len PROVE m + 1 \in T
    <2>1. PICK g : Folds(g, m)
        BY <1>2
    <2>2. \A S \in SUBSET (1 .. m) :
            g[S] = IF S = {} THEN init ELSE Loop(what, g[S \ {Max(S)}], s[Max(S)])
        BY <2>1
    <2> DEFINE H(S) == IF m + 1 \in S THEN Loop(what, g[S \ {m + 1}], s[m + 1]) ELSE g[S]
               h == [S \in SUBSET (1 .. m + 1) |-> H(S)]
    <2>3. \A S \in SUBSET (1 .. m + 1) : h[S] = H(S)
        OBVIOUS
    <2>4. m \in Nat /\ m + 1 \in 0 .. len /\ m + 1 \notin 1 .. m /\ 1 .. m \subseteq 1 .. m + 1
        BY <1>2
    <2> HIDE DEF h
    <2>5. ASSUME NEW S \in SUBSET (1 .. m + 1)
          PROVE  H(S) = IF S = {} THEN init
                        ELSE Loop(what, h[S \ {Max(S)}], s[Max(S)])
        <3>1. CASE m + 1 \in S
            <4>1. Max(S) = m + 1
                BY <2>4, <3>1, LastIsMost
            <4>2. S \ {m + 1} \in SUBSET (1 .. m) /\ S \ {m + 1} \in SUBSET (1 .. m + 1)
                BY <2>4
            <4>3. m + 1 \notin S \ {m + 1}
                OBVIOUS
            <4>4. h[S \ {m + 1}] = g[S \ {m + 1}]
                BY <2>3, <4>2, <4>3
            <4> QED
                BY <3>1, <4>1, <4>4
        <3>2. CASE m + 1 \notin S
            <4>1. S \in SUBSET (1 .. m)
                BY <2>4, <3>2
            <4>2. S \ {Max(S)} \in SUBSET (1 .. m + 1) /\ m + 1 \notin S \ {Max(S)}
                BY <3>2
            <4>3. h[S \ {Max(S)}] = g[S \ {Max(S)}]
                BY <2>3, <4>2
            <4> QED
                BY <2>2, <3>2, <4>1, <4>3
        <3> QED
            BY <3>1, <3>2
    <2>6. Folds(h, m + 1)
        <3> HIDE DEF H
        <3>1. h = [S \in SUBSET (1 .. m + 1) |-> H(S)]
            BY DEF h
        <3> QED
            BY <2>5, <3>1
    <2> QED
        BY <2>4, <2>6
<1> HIDE DEF T
<1>3. 0 .. len \subseteq T
    BY <1>1, <1>2, UpTo
<1>4. len \in T
    BY <1>3
<1> QED
    BY <1>4 DEF T, IsFold

\* What such a fold has after each element
GoesOn(g, what, init, s, len) ==
    /\ g[1 .. 0] = init
    /\ \A m \in 0 .. len - 1 : g[1 .. m + 1] = Loop(what, g[1 .. m], s[m + 1])

LEMMA FoldSteps ==
    ASSUME NEW what, NEW init, NEW s, NEW len \in Nat, NEW g, IsFold(g, what, init, s, len)
    PROVE  GoesOn(g, what, init, s, len)
<1>1. \A S \in SUBSET (1 .. len) :
        g[S] = IF S = {} THEN init ELSE Loop(what, g[S \ {Max(S)}], s[Max(S)])
    <2> DEFINE F(S) == IF S = {} THEN init
                       ELSE Loop(what, g[S \ {Max(S)}], s[Max(S)])
    <2>1. g = [S \in SUBSET (1 .. len) |-> F(S)]
        BY Zenon DEF IsFold
    <2> HIDE DEF F
    <2>2. \A S \in SUBSET (1 .. len) : g[S] = F(S)
        BY <2>1
    <2> QED
        BY <2>2 DEF F
<1>2. 1 .. 0 = {} /\ 1 .. 0 \in SUBSET (1 .. len)
    OBVIOUS
<1>3. ASSUME NEW m \in 0 .. len - 1 PROVE g[1 .. m + 1] = Loop(what, g[1 .. m], s[m + 1])
    <2>3. m \in Nat /\ m + 1 <= len
        OBVIOUS
    <2>4. 1 .. m + 1 \in SUBSET (1 .. len) /\ (1 .. m + 1) \ {m + 1} = 1 .. m
        BY <2>3
    <2>1. /\ m \in Nat /\ m + 1 \in 1 .. m + 1 /\ 1 .. m + 1 \in SUBSET (1 .. len)
          /\ 1 .. m + 1 # {} /\ (1 .. m + 1) \ {m + 1} = 1 .. m
        BY <2>3, <2>4
    <2>2. Max(1 .. m + 1) = m + 1
        BY <2>1, LastIsMost
    <2> QED
        BY <1>1, <2>1, <2>2
<1> QED
    BY <1>1, <1>2, <1>3 DEF GoesOn

Result(what, init, s, len) == (CHOOSE g : IsFold(g, what, init, s, len))[1 .. len]

LEMMA Runs ==
    ASSUME NEW what, NEW init, NEW s, NEW len \in Nat
    PROVE  \E v : /\ v[0] = init
                  /\ \A m \in 0 .. len - 1 : v[m + 1] = Loop(what, v[m], s[m + 1])
                  /\ Result(what, init, s, len) = v[len]
<1> DEFINE fold == CHOOSE g : IsFold(g, what, init, s, len)
           v == [m \in 0 .. len |-> fold[1 .. m]]
<1>1. IsFold(fold, what, init, s, len)
    <2>1. \E g : IsFold(g, what, init, s, len)
        BY FoldExists
    <2> QED
        BY <2>1, Zenon
<1>2. Result(what, init, s, len) = fold[1 .. len]
    BY Zenon DEF Result
<1> HIDE DEF fold
<1>3. /\ fold[1 .. 0] = init
      /\ \A m \in 0 .. len - 1 : fold[1 .. m + 1] = Loop(what, fold[1 .. m], s[m + 1])
    <2>1. GoesOn(fold, what, init, s, len)
        BY <1>1, FoldSteps
    <2> QED
        BY <2>1, Zenon DEF GoesOn
<1>4. \A m \in 0 .. len - 1 : m \in 0 .. len /\ m + 1 \in 0 .. len
    OBVIOUS
<1>5. v[0] = init /\ v[len] = fold[1 .. len]
    BY <1>3
<1>6. \A m \in 0 .. len - 1 : v[m + 1] = Loop(what, v[m], s[m + 1])
    BY <1>3, <1>4
<1> HIDE DEF v
<1> QED
    BY <1>2, <1>5, <1>6

-----------------------------------------------------------------------------
(* How a text is cut: a run ends where it says, and each end cuts nothing. *)

Positions == 1 .. Len(text) + 1
Kinds == {"letter", "s", "digit", "space", "newline", "mark", "quote"}

LEMMA RunEndIs ==
    ASSUME text \in Seq(Kinds), NEW i \in Positions, NEW K
    PROVE  /\ Cut!RunEnd(i, K) \in i .. Len(text) + 1
           /\ ~Cut!Is(Cut!RunEnd(i, K), K)
           /\ \A k \in i .. Cut!RunEnd(i, K) - 1 : Cut!Is(k, K)
<1> DEFINE ends == {j \in i .. Len(text) + 1 : ~Cut!Is(j, K)}
           less == OpToRel(<, Nat)
<1>1. Len(text) + 1 \in ends
    BY DEF Positions, Cut!Is
<1>2. ends \subseteq Nat
    BY DEF Positions
<1>3. IsWellFoundedOn(less, Nat) /\ \A x, y \in Nat : <<y, x>> \in less <=> y < x
    BY NatLessThanWellFounded DEF OpToRel
<1> HIDE DEF less, ends
<1>4. \E x \in ends : \A y \in ends : ~(<<y, x>> \in less)
    BY <1>1, <1>2, <1>3, WFMin
<1>5. PICK x \in ends : \A y \in ends : ~(y < x)
    BY <1>2, <1>3, <1>4
<1>6. x \in i .. Len(text) + 1 /\ ~Cut!Is(x, K) /\ \A k \in i .. x - 1 : Cut!Is(k, K)
    BY <1>5 DEF ends, Positions
<1> QED
    BY <1>6 DEF Cut!RunEnd

\* What WordsWhole says of one piece
PieceWhole(from, to) ==
    LET last == to - 1
        Parted(K, D) == Cut!Is(last, K) /\ Cut!Is(last + 1, D)
    IN  /\ last >= from
        /\ Parted(Cut!Letter, Cut!Letter) => Cut!Contraction(from) /\ last = from + 1
        /\ Parted(Cut!Digit, Cut!Digit) => last - from + 1 = 3
        /\ ~Parted(Cut!Blank, Cut!Letter)

LEMMA WordEndWhole ==
    ASSUME text \in Seq(Kinds), NEW i \in DOMAIN text, Cut!WordEnd(i) > i
    PROVE  PieceWhole(i, Cut!WordEnd(i)) /\ Cut!WordEnd(i) \in Positions
<1>1. i \in Positions /\ i + 1 \in Positions /\ i \in Int /\ Len(text) \in Nat
    BY DEF Positions, Kinds
<1>2. CASE Cut!Contraction(i)
    BY <1>1, <1>2 DEF Cut!WordEnd, PieceWhole, Positions, Cut!Contraction, Cut!Is, Cut!Letter, Cut!Digit,
        Cut!Blank
<1>3. CASE ~Cut!Contraction(i) /\ Cut!Is(i, Cut!Punctuation \cup Cut!Blank) /\ Cut!Is(i + 1, Cut!Letter)
    <2> DEFINE e == Cut!RunEnd(i + 1, Cut!Letter)
    <2>1. Cut!WordEnd(i) = e
        BY <1>3 DEF Cut!WordEnd
    <2>2. /\ e \in i + 1 .. Len(text) + 1 /\ ~Cut!Is(e, Cut!Letter)
          /\ \A k \in i + 1 .. e - 1 : Cut!Is(k, Cut!Letter)
        BY <1>1, RunEndIs
    <2> HIDE DEF e
    <2>3. e - 1 >= i + 1 /\ Cut!Is(e - 1, Cut!Letter)
        BY <1>1, <1>3, <2>2
    <2> QED
        BY <1>1, <2>1, <2>2, <2>3 DEF PieceWhole, Positions, Cut!Is, Cut!Letter, Cut!Digit, Cut!Blank
<1>4. CASE /\ ~Cut!Contraction(i) /\ Cut!Is(i, Cut!Letter)
           /\ ~(Cut!Is(i, Cut!Punctuation \cup Cut!Blank) /\ Cut!Is(i + 1, Cut!Letter))
    <2> DEFINE e == Cut!RunEnd(i, Cut!Letter)
    <2>1. Cut!WordEnd(i) = e
        BY <1>4 DEF Cut!WordEnd
    <2>2. /\ e \in i .. Len(text) + 1 /\ ~Cut!Is(e, Cut!Letter)
          /\ \A k \in i .. e - 1 : Cut!Is(k, Cut!Letter)
        BY <1>1, RunEndIs
    <2> HIDE DEF e
    <2>3. e - 1 >= i /\ Cut!Is(e - 1, Cut!Letter)
        BY <1>1, <1>4, <2>2
    <2> QED
        BY <1>1, <2>1, <2>2, <2>3 DEF PieceWhole, Positions, Cut!Is, Cut!Letter, Cut!Digit, Cut!Blank
<1>5. CASE /\ ~Cut!Contraction(i) /\ ~Cut!Is(i, Cut!Letter)
           /\ ~(Cut!Is(i, Cut!Punctuation \cup Cut!Blank) /\ Cut!Is(i + 1, Cut!Letter))
    <2> DEFINE e == Cut!RunEnd(i, Cut!Digit)
               d == Cut!DigitsEnd(i)
    <2>1. Cut!WordEnd(i) = d /\ d = IF e <= i + 3 THEN e ELSE i + 3
        BY <1>5 DEF Cut!WordEnd, Cut!DigitsEnd
    <2>2. /\ e \in i .. Len(text) + 1 /\ ~Cut!Is(e, Cut!Digit)
          /\ \A k \in i .. e - 1 : Cut!Is(k, Cut!Digit)
        BY <1>1, RunEndIs
    <2> HIDE DEF e, d
    <2>3. /\ d \in i + 1 .. Len(text) + 1 /\ d - 1 \in i .. e - 1 /\ d - 1 + 1 = d
          /\ d # i + 3 => d = e
        BY <1>1, <2>1, <2>2
    <2>4. Cut!Is(d - 1, Cut!Digit)
        BY <2>2, <2>3
    <2> QED
        BY <1>1, <2>1, <2>2, <2>3, <2>4 DEF PieceWhole, Positions, Cut!Is, Cut!Letter, Cut!Digit, Cut!Blank
<1> QED
    BY <1>2, <1>3, <1>4, <1>5

LEMMA MarksEndWhole ==
    ASSUME text \in Seq(Kinds), NEW i \in DOMAIN text, Cut!MarksEnd(i) > i
    PROVE  PieceWhole(i, Cut!MarksEnd(i)) /\ Cut!MarksEnd(i) \in Positions
<1> DEFINE from == IF Cut!Is(i, Cut!Blank) THEN i + 1 ELSE i
           m == Cut!RunEnd(from, Cut!Punctuation)
           e == Cut!RunEnd(m, Cut!Newline)
<1>1. from \in Positions /\ i \in Int /\ Len(text) \in Nat
    BY DEF Positions, Kinds
<1>2. Cut!Is(from, Cut!Punctuation) /\ Cut!MarksEnd(i) = e
    BY <1>1 DEF Cut!MarksEnd
<1>3. from >= i
    BY <1>1
<1> HIDE DEF from
<1>4. /\ m \in from .. Len(text) + 1 /\ ~Cut!Is(m, Cut!Punctuation)
      /\ \A k \in from .. m - 1 : Cut!Is(k, Cut!Punctuation)
    BY <1>1, RunEndIs
<1> HIDE DEF m
<1>5. m \in Positions
    BY <1>1, <1>4 DEF Positions
<1>6. /\ e \in m .. Len(text) + 1 /\ ~Cut!Is(e, Cut!Newline)
      /\ \A k \in m .. e - 1 : Cut!Is(k, Cut!Newline)
    BY <1>1, <1>5, RunEndIs
<1> HIDE DEF e
<1>7. m - 1 >= from
    BY <1>1, <1>2, <1>4 DEF Positions
<1>8. e \in Positions /\ e - 1 >= i
    BY <1>1, <1>3, <1>4, <1>6, <1>7 DEF Positions
<1>9. Cut!Is(e - 1, Cut!Newline) \/ Cut!Is(e - 1, Cut!Punctuation)
    <2>1. CASE e = m
        BY <1>1, <1>4, <1>7, <2>1 DEF Positions
    <2>2. CASE e > m
        BY <1>1, <1>4, <1>6, <2>2 DEF Positions
    <2> QED
        BY <1>1, <1>4, <1>6, <2>1, <2>2 DEF Positions
<1> QED
    BY <1>2, <1>8, <1>9 DEF PieceWhole, Positions, Cut!Is, Cut!Letter, Cut!Digit, Cut!Blank, Cut!Newline,
        Cut!Punctuation

\* What neither a word nor marks begin is white space, and a blank before a
\* letter does begin a word.
LEMMA ElseWhite ==
    ASSUME text \in Seq(Kinds), NEW i \in DOMAIN text,
           ~(Cut!WordEnd(i) > i), ~(Cut!MarksEnd(i) > i)
    PROVE  /\ Cut!Is(i, Cut!White)
           /\ ~(Cut!Is(i, Cut!Blank) /\ Cut!Is(i + 1, Cut!Letter))
<1>1. /\ i \in Positions /\ i + 1 \in Positions /\ i \in Int /\ Len(text) \in Nat
      /\ text[i] \in Kinds
    BY DEF Positions, Kinds
<1>2. ~Cut!Contraction(i)
    BY <1>1 DEF Cut!WordEnd
<1>3. ~(Cut!Is(i, Cut!Punctuation \cup Cut!Blank) /\ Cut!Is(i + 1, Cut!Letter))
    <2>1. /\ Cut!RunEnd(i + 1, Cut!Letter) \in i + 1 .. Len(text) + 1
        BY <1>1, RunEndIs
    <2> QED
        BY <1>1, <1>2, <2>1 DEF Cut!WordEnd
<1>4. ~Cut!Is(i, Cut!Letter)
    <2>1. /\ Cut!RunEnd(i, Cut!Letter) \in i .. Len(text) + 1
          /\ ~Cut!Is(Cut!RunEnd(i, Cut!Letter), Cut!Letter)
        BY <1>1, RunEndIs
    <2> QED
        BY <1>1, <1>2, <1>3, <2>1 DEF Cut!WordEnd
<1>5. ~Cut!Is(i, Cut!Digit)
    <2>1. /\ Cut!RunEnd(i, Cut!Digit) \in i .. Len(text) + 1
          /\ ~Cut!Is(Cut!RunEnd(i, Cut!Digit), Cut!Digit)
        BY <1>1, RunEndIs
    <2>2. ~(Cut!DigitsEnd(i) > i)
        BY <1>2, <1>3, <1>4 DEF Cut!WordEnd
    <2> QED
        BY <1>1, <2>1, <2>2 DEF Cut!DigitsEnd
<1>6. ~Cut!Is(i, Cut!Punctuation)
    <2>1. SUFFICES ASSUME Cut!Is(i, Cut!Punctuation) PROVE FALSE
        OBVIOUS
    <2>2. ~Cut!Is(i, Cut!Blank)
        BY <2>1 DEF Cut!Is, Cut!Blank, Cut!Punctuation
    <2> DEFINE m == Cut!RunEnd(i, Cut!Punctuation)
    <2>3. m \in i .. Len(text) + 1 /\ ~Cut!Is(m, Cut!Punctuation)
        BY <1>1, RunEndIs
    <2>4. Cut!MarksEnd(i) = Cut!RunEnd(m, Cut!Newline)
        BY <2>1, <2>2 DEF Cut!MarksEnd
    <2> HIDE DEF m
    <2>5. m \in Positions /\ m > i
        BY <1>1, <2>1, <2>3 DEF Positions
    <2>6. Cut!RunEnd(m, Cut!Newline) \in m .. Len(text) + 1
        BY <1>1, <2>5, RunEndIs
    <2> QED
        BY <1>1, <2>4, <2>5, <2>6 DEF Positions
<1> QED
    BY <1>1, <1>3, <1>4, <1>5, <1>6 DEF Cut!Is, Cut!White, Cut!Blank, Cut!Newline, Cut!Letter, Cut!Digit,
        Cut!Punctuation, Kinds

LEMMA Cl100kWhole ==
    ASSUME text \in Seq(Kinds), NEW i \in DOMAIN text, Cut!Is(i, Cut!White),
           ~(Cut!Is(i, Cut!Blank) /\ Cut!Is(i + 1, Cut!Letter))
    PROVE  PieceWhole(i, Cut!Cl100kWhiteEnd(i)) /\ Cut!Cl100kWhiteEnd(i) \in Positions
<1> DEFINE e == Cut!RunEnd(i, Cut!White)
           w == Cut!Cl100kWhiteEnd(i)
<1>1. i \in Positions /\ i \in Int /\ Len(text) \in Nat
    BY DEF Positions, Kinds
<1>2. /\ e \in i .. Len(text) + 1 /\ ~Cut!Is(e, Cut!White)
      /\ \A k \in i .. e - 1 : Cut!Is(k, Cut!White)
    BY <1>1, RunEndIs
<1>3. w = IF e > Len(text) \/ e = i + 1 \/ Cut!Is(e - 1, Cut!Newline) THEN e ELSE e - 1
    BY DEF Cut!Cl100kWhiteEnd
<1> HIDE DEF e, w
<1>4. e > i
    BY <1>1, <1>2 DEF Positions
<1>5. w \in Positions /\ w - 1 >= i /\ w - 1 \in i .. e - 1 /\ w - 1 + 1 = w
    BY <1>1, <1>2, <1>3, <1>4 DEF Positions
<1>6. Cut!Is(w - 1, Cut!White)
    BY <1>2, <1>5
<1>7. CASE w = e - 1
    <2>1. Cut!Is(w, Cut!White) \/ w = i - 1
        BY <1>1, <1>2, <1>4, <1>7 DEF Positions
    <2> QED
        BY <1>1, <1>5, <1>6, <2>1 DEF PieceWhole, Cut!Is, Cut!White, Cut!Blank, Cut!Newline, Cut!Letter,
            Cut!Digit, w
<1>8. CASE w = e /\ e > Len(text)
    <2>1. w \notin DOMAIN text
        BY <1>1, <1>8
    <2> QED
        BY <1>1, <1>5, <1>6, <2>1 DEF PieceWhole, Cut!Is, w
<1>9. CASE w = e /\ (e = i + 1 \/ Cut!Is(e - 1, Cut!Newline))
    <2>1. ~(Cut!Is(w - 1, Cut!Blank) /\ Cut!Is(w, Cut!Letter))
        BY <1>1, <1>9 DEF Cut!Is, Cut!Newline, Cut!Blank
    <2> QED
        BY <1>1, <1>5, <1>6, <2>1 DEF PieceWhole, Cut!Is, Cut!White, Cut!Blank, Cut!Newline, Cut!Letter,
            Cut!Digit, w
<1> QED
    BY <1>3, <1>5, <1>7, <1>8, <1>9 DEF w

LEMMA Gpt2Whole ==
    ASSUME text \in Seq(Kinds), NEW i \in DOMAIN text, Cut!Is(i, Cut!White),
           ~(Cut!Is(i, Cut!Blank) /\ Cut!Is(i + 1, Cut!Letter))
    PROVE  PieceWhole(i, Cut!Gpt2WhiteEnd(i)) /\ Cut!Gpt2WhiteEnd(i) \in Positions
<1> DEFINE b == Cut!RunEnd(i, Cut!Blank)
           e == Cut!RunEnd(b, Cut!Newline)
           w == Cut!Gpt2WhiteEnd(i)
<1>1. i \in Positions /\ i \in Int /\ Len(text) \in Nat
    BY DEF Positions, Kinds
<1>2. /\ b \in i .. Len(text) + 1 /\ ~Cut!Is(b, Cut!Blank)
      /\ \A k \in i .. b - 1 : Cut!Is(k, Cut!Blank)
    BY <1>1, RunEndIs
<1>3. w = IF Cut!Is(b, Cut!Newline) THEN e
          ELSE IF Cut!Is(b, Cut!Letter) /\ b - i > 1 THEN b - 1 ELSE b
    BY DEF Cut!Gpt2WhiteEnd
<1> HIDE DEF b, w
<1>4. b \in Positions
    BY <1>1, <1>2 DEF Positions
<1>5. /\ e \in b .. Len(text) + 1 /\ ~Cut!Is(e, Cut!Newline)
      /\ \A k \in b .. e - 1 : Cut!Is(k, Cut!Newline)
    BY <1>1, <1>4, RunEndIs
<1> HIDE DEF e
<1>6. CASE Cut!Is(b, Cut!Newline)
    <2>1. e > b
        BY <1>1, <1>4, <1>5, <1>6 DEF Positions
    <2>2. Cut!Is(e - 1, Cut!Newline) /\ e - 1 >= i /\ e \in Positions
        BY <1>1, <1>2, <1>4, <1>5, <2>1 DEF Positions
    <2> QED
        BY <1>1, <1>3, <1>6, <2>2 DEF PieceWhole, Cut!Is, Cut!Blank, Cut!Newline, Cut!Letter, Cut!Digit, w
<1>7. CASE ~Cut!Is(b, Cut!Newline)
    <2>1. b > i
        BY <1>1, <1>2, <1>4, <1>7 DEF Positions, Cut!Is, Cut!White, Cut!Blank, Cut!Newline
    <2>2. /\ w \in Positions /\ w - 1 >= i /\ w - 1 \in i .. b - 1 /\ w - 1 + 1 = w
          /\ w = b - 1 \/ (w = b /\ (b = i + 1 \/ ~Cut!Is(b, Cut!Letter)))
          /\ w = b - 1 => w \in i .. b - 1
        BY <1>1, <1>2, <1>3, <1>4, <1>7, <2>1 DEF Positions
    <2>3. Cut!Is(w - 1, Cut!Blank)
        BY <1>2, <2>2
    <2>4. ~Cut!Is(w, Cut!Letter)
        <3>1. CASE w = b - 1
            BY <1>2, <2>2, <3>1 DEF Cut!Is, Cut!Blank, Cut!Letter
        <3>2. CASE w = b /\ b = i + 1
            BY <1>1, <2>3, <3>2
        <3> QED
            BY <2>2, <3>1, <3>2
    <2> QED
        BY <1>1, <2>2, <2>3, <2>4 DEF PieceWhole, Cut!Is, Cut!Blank, Cut!Letter, Cut!Digit, w
<1> QED
    BY <1>6, <1>7 DEF w

LEMMA SpanWhole ==
    ASSUME text \in Seq(Kinds), NEW i \in DOMAIN text
    PROVE  PieceWhole(i, Cut!SpanEnd(i)) /\ Cut!SpanEnd(i) \in Positions
<1>1. CASE Cut!WordEnd(i) > i
    BY <1>1, WordEndWhole DEF Cut!SpanEnd
<1>2. CASE ~(Cut!WordEnd(i) > i) /\ Cut!MarksEnd(i) > i
    BY <1>2, MarksEndWhole DEF Cut!SpanEnd
<1>3. CASE ~(Cut!WordEnd(i) > i) /\ ~(Cut!MarksEnd(i) > i)
    BY <1>3, ElseWhite, Cl100kWhole, Gpt2Whole DEF Cut!SpanEnd
<1> QED
    BY <1>1, <1>2, <1>3

CutInv ==
    /\ text \in Seq(Kinds)
    /\ spans \in Seq([from : Positions, to : Positions])
    /\ \A i \in DOMAIN spans : PieceWhole(spans[i].from, spans[i].to)

LEMMA CutInitInv == Cut!Init => CutInv
<1> SUFFICES ASSUME Cut!Init PROVE CutInv
    OBVIOUS
<1>1. PICK m \in 0 .. MaxText : text \in [1 .. m -> Kinds]
    BY DEF Cut!Init, Kinds
<1>2. m \in Nat
    BY <1>1
<1> QED
    BY <1>1, <1>2 DEF Cut!Init, CutInv

LEMMA CutStep == CutInv /\ [Cut!Next]_(Cut!preVars) => CutInv'
<1> SUFFICES ASSUME CutInv, [Cut!Next]_(Cut!preVars) PROVE CutInv'
    OBVIOUS
<1>1. CASE Cut!Next
    <2> DEFINE k == Cut!At
               s == [from |-> k, to |-> Cut!SpanEnd(k)]
    <2>1. text' = text /\ spans' = Append(spans, s) /\ k <= Len(text)
        BY <1>1 DEF Cut!Next, Cut!AddSpan
    <2>2. k \in Positions
        <3>1. CASE spans = <<>>
            BY <3>1 DEF CutInv, Cut!At, Positions
        <3>2. CASE spans # <<>>
            <4> DEFINE Spans == [from : Positions, to : Positions]
            <4>1. spans \in Seq(Spans)
                BY DEF CutInv
            <4> HIDE DEF Spans
            <4>2. spans[Len(spans)] \in Spans
                BY <3>2, <4>1
            <4> QED
                BY <3>2, <4>2 DEF Cut!At, Spans
        <3> QED
            BY <3>1, <3>2
    <2>3. k \in DOMAIN text
        BY <2>1, <2>2 DEF CutInv, Positions
    <2>4. PieceWhole(k, Cut!SpanEnd(k)) /\ Cut!SpanEnd(k) \in Positions
        BY <2>3, SpanWhole DEF CutInv
    <2>5. s \in [from : Positions, to : Positions] /\ PieceWhole(s.from, s.to)
        BY <2>2, <2>4
    <2> HIDE DEF s, k
    <2>6. Positions' = Positions /\ \A f, t : PieceWhole(f, t)' <=> PieceWhole(f, t)
        BY <2>1 DEF Positions, PieceWhole, Cut!Is, Cut!Contraction
    <2>7. /\ spans' \in Seq([from : Positions, to : Positions])
          /\ \A i \in DOMAIN spans' : PieceWhole(spans'[i].from, spans'[i].to)
        BY <2>1, <2>5 DEF CutInv
    <2> QED
        BY <2>1, <2>6, <2>7 DEF CutInv
<1>2. CASE UNCHANGED Cut!preVars
    BY <1>2 DEF CutInv, Cut!preVars, Positions, PieceWhole, Cut!Is, Cut!Contraction
<1> QED
    BY <1>1, <1>2

LEMMA CutIsItsOwn == TokenizerSpec => Cut!Spec
<1>1. TokenizerInit => Cut!Init
    BY DEF TokenizerInit
<1>2. [TokenizerNext]_tokenizerVars => [Cut!Next]_(Cut!preVars)
    BY DEF TokenizerNext, tokenizerVars, preVars, Cut!preVars
<1> QED
    BY <1>1, <1>2, PTL DEF TokenizerSpec, Cut!Spec

\* The pieces of a text of any length are cut where the patterns allow.
THEOREM PiecesStayWhole == TokenizerSpec => []Cut!WordsWhole
<1>1. Cut!Spec => []CutInv
    BY CutInitInv, CutStep, PTL DEF Cut!Spec
<1>2. CutInv => Cut!WordsWhole
    BY DEF CutInv, PieceWhole, Cut!WordsWhole
<1> QED
    BY <1>1, <1>2, CutIsItsOwn, PTL

-----------------------------------------------------------------------------
(***************************************************************************)
(* A piece p and the marks s at which its len parts begin; the last mark is  *)
(* the end.                                                                *)
(***************************************************************************)
Marks(s, len, p) ==
    /\ s \in [1 .. len + 1 -> 1 .. Len(p) + 1]
    /\ s[1] = 1 /\ s[len + 1] = Len(p) + 1
    /\ \A i, j \in 1 .. len + 1 : i < j => s[i] < s[j]
Between(p, s, len) == [i \in 1 .. len |-> SubSeq(p, s[i], s[i + 1] - 1)]

LEMMA EndsFollow ==
    ASSUME NEW l \in Nat, NEW a \in 1 .. l, NEW b \in a + 1 .. l + 1
    PROVE  /\ 1 \in 1 .. l + 1 /\ a \in 1 .. l + 1 /\ a - 1 \in 1 - 1 .. l /\ a - 1 + 1 = a
           /\ b - 1 \in a - 1 .. l
OBVIOUS

LEMMA BetweenIs ==
    ASSUME NEW p \in Seq(Letters), NEW len \in Nat, NEW s, Marks(s, len, p), NEW i \in 1 .. len
    PROVE  /\ Between(p, s, len)[i] = SubSeq(p, s[i], s[i + 1] - 1)
           /\ Between(p, s, len)[i] \in Seq(Letters)
           /\ Len(Between(p, s, len)[i]) = s[i + 1] - s[i]
           /\ s[i] \in 1 .. Len(p) /\ s[i + 1] \in s[i] + 1 .. Len(p) + 1
<1>1. /\ i \in 1 .. len + 1 /\ i + 1 \in 1 .. len + 1 /\ i < i + 1
      /\ s[i] \in 1 .. Len(p) + 1 /\ s[i + 1] \in 1 .. Len(p) + 1 /\ Len(p) \in Nat
    BY DEF Marks
<1>2. s[i] < s[i + 1]
    BY <1>1 DEF Marks
<1>3. \A k \in s[i] .. s[i + 1] - 1 : p[k] \in Letters
    BY <1>1
<1>4. /\ SubSeq(p, s[i], s[i + 1] - 1) \in Seq(Letters)
      /\ Len(SubSeq(p, s[i], s[i + 1] - 1)) =
            IF s[i] <= s[i + 1] - 1 THEN s[i + 1] - 1 - s[i] + 1 ELSE 0
    BY <1>1, <1>3, SubSeqProperties
<1> DEFINE a == SubSeq(p, s[i], s[i + 1] - 1)
<1>5. Between(p, s, len)[i] = a
    BY DEF Between
<1> HIDE DEF a
<1>6. a \in Seq(Letters) /\ Len(a) = s[i + 1] - s[i]
    BY <1>1, <1>2, <1>4 DEF a
<1> QED
    BY <1>1, <1>2, <1>5, <1>6 DEF a

LEMMA NextIs ==
    ASSUME NEW p \in Seq(Letters), NEW len \in Nat, NEW s, Marks(s, len, p), NEW i \in 1 .. len - 1
    PROVE  Between(p, s, len)[i] \o Between(p, s, len)[i + 1] = SubSeq(p, s[i], s[i + 2] - 1)
<1>1. i \in 1 .. len /\ i + 1 \in 1 .. len /\ i + 1 + 1 = i + 2 /\ Len(p) \in Nat
    OBVIOUS
<1>2. /\ Between(p, s, len)[i] = SubSeq(p, s[i], s[i + 1] - 1)
      /\ s[i] \in 1 .. Len(p) /\ s[i + 1] \in s[i] + 1 .. Len(p) + 1
    BY <1>1, BetweenIs
<1>3. /\ Between(p, s, len)[i + 1] = SubSeq(p, s[i + 1], s[i + 2] - 1)
      /\ s[i + 1] \in 1 .. Len(p) /\ s[i + 2] \in s[i + 1] + 1 .. Len(p) + 1
    <2>1. PICK k : k = i + 1 /\ k \in 1 .. len /\ k + 1 = i + 2
        BY <1>1
    <2>2. /\ Between(p, s, len)[k] = SubSeq(p, s[k], s[k + 1] - 1)
          /\ s[k] \in 1 .. Len(p) /\ s[k + 1] \in s[k] + 1 .. Len(p) + 1
        BY <2>1, BetweenIs
    <2> QED
        BY <2>1, <2>2, Zenon
<1> DEFINE m == s[i]
           k == s[i + 1] - 1
           e == s[i + 2] - 1
<1>4. m \in 1 .. Len(p) + 1 /\ k \in m - 1 .. Len(p) /\ e \in k .. Len(p) /\ k + 1 = s[i + 1]
    <2>1. m \in 1 .. Len(p) + 1 /\ k \in m - 1 .. Len(p)
        BY <1>1, <1>2, EndsFollow
    <2>2. e \in k .. Len(p) /\ k + 1 = s[i + 1]
        BY <1>1, <1>3, EndsFollow
    <2> QED
        BY <2>1, <2>2
<1> HIDE DEF m, k, e
<1>5. SubSeq(p, m, k) \o SubSeq(p, k + 1, e) = SubSeq(p, m, e)
    BY <1>4, ConcatAdjacentSubSeq
<1> QED
    BY <1>2, <1>3, <1>4, <1>5 DEF m, k, e

\* The parts spell the piece.
LEMMA Spelled ==
    ASSUME NEW p \in Seq(Letters), NEW len \in Nat \ {0}, NEW s, Marks(s, len, p)
    PROVE  FlattenSeq(Between(p, s, len)) = p
<1> DEFINE w == Between(p, s, len)
           Flat(f) == f = [i \in 1 .. Len(w) |-> IF i = 1 THEN w[i] ELSE f[i - 1] \o w[i]]
           g == [i \in 1 .. len |-> SubSeq(p, 1, s[i + 1] - 1)]
<1>1. Len(w) = len /\ len \in 1 .. len /\ s[1] = 1 /\ s[len + 1] = Len(p) + 1 /\ len \in Nat
    BY DEF Between, Marks
<1>2. \A i \in 1 .. len : w[i] = SubSeq(p, s[i], s[i + 1] - 1)
                        /\ s[i] \in 1 .. Len(p) /\ s[i + 1] \in s[i] + 1 .. Len(p) + 1
    BY BetweenIs
<1>3. FlattenSeq(w) = (CHOOSE f : Flat(f))[len]
    BY <1>1, Zenon DEF FlattenSeq
<1> HIDE DEF w
<1>4. \A i \in 1 .. len : g[i] = SubSeq(p, 1, s[i + 1] - 1)
    OBVIOUS
<1>5. \A i \in 1 .. len : g[i] = IF i = 1 THEN w[i] ELSE g[i - 1] \o w[i]
    <2> TAKE i \in 1 .. len
    <2>1. CASE i = 1
        BY <1>1, <1>2, <1>4, <2>1
    <2>2. CASE i # 1
        <3>1. i - 1 \in 1 .. len /\ i - 1 + 1 = i
            BY <2>2
        <3> DEFINE k == s[i] - 1
                   e == s[i + 1] - 1
        <3>4. /\ s[i] \in 1 .. Len(p) /\ s[i + 1] \in s[i] + 1 .. Len(p) + 1 /\ Len(p) \in Nat
              /\ w[i] = SubSeq(p, s[i], e)
            BY <1>2
        <3>5. /\ 1 \in 1 .. Len(p) + 1 /\ k \in 1 - 1 .. Len(p) /\ e \in k .. Len(p)
              /\ k + 1 = s[i]
            BY <3>4, EndsFollow
        <3>6. g[i - 1] = SubSeq(p, 1, s[i - 1 + 1] - 1) /\ g[i] = SubSeq(p, 1, e)
            BY <1>4, <3>1
        <3>2. /\ g[i - 1] = SubSeq(p, 1, k) /\ g[i] = SubSeq(p, 1, e) /\ w[i] = SubSeq(p, k + 1, e)
              /\ 1 \in 1 .. Len(p) + 1 /\ k \in 1 - 1 .. Len(p) /\ e \in k .. Len(p)
            BY <3>1, <3>4, <3>5, <3>6, Zenon
        <3> HIDE DEF k, e, g
        <3>3. SubSeq(p, 1, k) \o SubSeq(p, k + 1, e) = SubSeq(p, 1, e)
            BY <3>2, ConcatAdjacentSubSeq
        <3> QED
            BY <2>2, <3>2, <3>3
    <2> QED
        BY <2>1, <2>2
<1>6. Flat(g)
    <2> DEFINE F(i) == IF i = 1 THEN w[i] ELSE g[i - 1] \o w[i]
    <2>1. g = [i \in 1 .. len |-> g[i]]
        OBVIOUS
    <2> HIDE DEF g
    <2>2. g = [i \in 1 .. len |-> F(i)]
        BY <1>5, <2>1
    <2> QED
        BY <1>1, <2>2
<1> DEFINE f == CHOOSE h : Flat(h)
<1>7. Flat(f)
    BY <1>6, Zenon
<1>8. \A i \in 1 .. len : f[i] = IF i = 1 THEN w[i] ELSE f[i - 1] \o w[i]
    BY <1>1, <1>7
<1> HIDE DEF f, g
<1> DEFINE T == {m \in 0 .. len : m > 0 => f[m] = g[m]}
<1>9. 0 \in T
    OBVIOUS
<1>10. \A m \in 0 .. len : m \in T /\ m + 1 <= len => m + 1 \in T
    <2> SUFFICES ASSUME NEW m \in 0 .. len, m \in T, m + 1 <= len PROVE m + 1 \in T
        OBVIOUS
    <2>1. m + 1 \in 1 .. len /\ m + 1 - 1 = m /\ (m + 1 = 1 <=> ~(m > 0))
        OBVIOUS
    <2> QED
        BY <1>5, <1>8, <2>1
<1> HIDE DEF T
<1>11. 0 .. len \subseteq T
    BY <1>1, <1>9, <1>10, UpTo
<1>12. f[len] = g[len]
    BY <1>11 DEF T
<1>13. SubSeq(p, 1, Len(p)) = p
    BY SubSeqFull
<1>14. s[len + 1] - 1 = Len(p)
    BY <1>1
<1> QED
    BY <1>1, <1>3, <1>4, <1>12, <1>13, <1>14, Zenon DEF f, w

\* What is left when the mark between part i and the next is taken away
Without(s, len, i) == [j \in 1 .. len |-> IF j <= i THEN s[j] ELSE s[j + 1]]

LEMMA WithoutMarks ==
    ASSUME NEW p \in Seq(Letters), NEW len \in Nat, NEW s, Marks(s, len, p), NEW i \in 1 .. len - 1
    PROVE  Marks(Without(s, len, i), len - 1, p)
<1>1. len - 1 + 1 = len /\ len \in 1 .. len + 1 /\ 1 \in 1 .. len /\ i < len
    OBVIOUS
<1>2. \A j \in 1 .. len : j \in 1 .. len + 1 /\ j + 1 \in 1 .. len + 1
    OBVIOUS
<1> QED
    BY <1>1, <1>2 DEF Marks, Without

LEMMA WithoutParts ==
    ASSUME NEW p \in Seq(Letters), NEW len \in Nat, NEW s, Marks(s, len, p), NEW i \in 1 .. len - 1
    PROVE  LET w == Between(p, s, len)
           IN  Between(p, Without(s, len, i), len - 1)
                = SubSeq(w, 1, i - 1) \o <<w[i] \o w[i + 1]>> \o SubSeq(w, i + 2, Len(w))
<1> DEFINE w == Between(p, s, len)
           t == Without(s, len, i)
           v == Between(p, t, len - 1)
           S == Seq(Letters)
           a == SubSeq(w, 1, i - 1)
           x == w[i] \o w[i + 1]
           b == <<x>>
           c == SubSeq(w, i + 2, len)
<1>0. Len(w) = len /\ len - 1 \in Nat
    BY DEF Between
<1>1. \A j \in 1 .. len : w[j] \in S /\ w[j] = SubSeq(p, s[j], s[j + 1] - 1)
    BY BetweenIs
<1>2. w[i] \o w[i + 1] = SubSeq(p, s[i], s[i + 2] - 1)
    BY NextIs
<1>3. Marks(t, len - 1, p)
    BY WithoutMarks
<1>4. \A j \in 1 .. len - 1 : v[j] \in S
    BY <1>0, <1>3, BetweenIs
<1>5. v = [j \in 1 .. len - 1 |-> SubSeq(p, t[j], t[j + 1] - 1)]
    BY DEF Between
<1>6. \A j \in 1 .. len - 1 :
        /\ j < i => v[j] = w[j]
        /\ j = i => v[j] = x
        /\ j > i => v[j] = w[j + 1]
    <2> TAKE j \in 1 .. len - 1
    <2>1. /\ j < i => t[j] = s[j] /\ t[j + 1] = s[j + 1]
          /\ j = i => t[j] = s[i] /\ t[j + 1] = s[i + 2]
          /\ j > i => t[j] = s[j + 1] /\ t[j + 1] = s[j + 1 + 1]
        BY DEF Without
    <2>2. v[j] = SubSeq(p, t[j], t[j + 1] - 1)
        BY <1>5
    <2> HIDE DEF w, t, v
    <2>3. j \in 1 .. len /\ j + 1 \in 1 .. len
        OBVIOUS
    <2>4. w[j] = SubSeq(p, s[j], s[j + 1] - 1) /\ w[j + 1] = SubSeq(p, s[j + 1], s[j + 1 + 1] - 1)
        BY <1>1, <2>3
    <2> QED
        BY <1>2, <2>1, <2>2, <2>4, Zenon
<1> HIDE DEF w, v, S, t
<1>7. /\ a \in Seq(S) /\ Len(a) = i - 1 /\ \A j \in 1 .. i - 1 : a[j] = w[j]
    <2>1. \A j \in 1 .. i - 1 : w[j] \in S
        BY <1>1
    <2>2. /\ a \in Seq(S) /\ Len(a) = IF 1 <= i - 1 THEN i - 1 - 1 + 1 ELSE 0
          /\ \A j \in 1 .. i - 1 - 1 + 1 : a[j] = w[1 + j - 1]
        BY <2>1, SubSeqProperties
    <2> QED
        BY <2>2
<1>8. /\ c \in Seq(S) /\ Len(c) = len - i - 1 /\ \A j \in 1 .. len - i - 1 : c[j] = w[i + 1 + j]
    <2>1. \A j \in i + 2 .. len : w[j] \in S
        BY <1>1
    <2>2. /\ c \in Seq(S) /\ Len(c) = IF i + 2 <= len THEN len - (i + 2) + 1 ELSE 0
          /\ \A j \in 1 .. len - (i + 2) + 1 : c[j] = w[i + 2 + j - 1]
        BY <2>1, SubSeqProperties
    <2> QED
        BY <2>2
<1>9. b \in Seq(S) /\ Len(b) = 1 /\ b[1] = x
    <2>1. v[i] \in S /\ v[i] = x
        BY <1>4, <1>6
    <2> HIDE DEF x
    <2> QED
        BY <2>1
<1> HIDE DEF a, b, c, x
<1>10. /\ a \o b \in Seq(S) /\ Len(a \o b) = i
       /\ \A j \in 1 .. i : (a \o b)[j] = IF j < i THEN w[j] ELSE x
    <2>1. /\ a \o b \in Seq(S) /\ Len(a \o b) = Len(a) + Len(b)
          /\ \A j \in 1 .. Len(a) + Len(b) :
                (a \o b)[j] = IF j <= Len(a) THEN a[j] ELSE b[j - Len(a)]
        BY <1>7, <1>9, ConcatProperties
    <2> QED
        BY <1>7, <1>9, <2>1
<1> DEFINE d == a \o b
<1> HIDE DEF d
<1>11. /\ d \o c \in Seq(S) /\ Len(d \o c) = len - 1
       /\ \A j \in 1 .. len - 1 :
            /\ j < i => (d \o c)[j] = w[j]
            /\ j = i => (d \o c)[j] = x
            /\ j > i => (d \o c)[j] = w[j + 1]
    <2>0. d \in Seq(S) /\ Len(d) = i
        BY <1>10 DEF d
    <2>1. /\ d \o c \in Seq(S) /\ Len(d \o c) = Len(d) + Len(c)
          /\ \A j \in 1 .. Len(d) + Len(c) :
                (d \o c)[j] = IF j <= Len(d) THEN d[j] ELSE c[j - Len(d)]
        BY <1>8, <2>0, ConcatProperties
    <2>2. \A j \in 1 .. len - 1 : j > i => j - i \in 1 .. len - i - 1 /\ i + 1 + (j - i) = j + 1
        OBVIOUS
    <2> QED
        BY <1>8, <1>10, <2>1, <2>2 DEF d
<1>12. v \in Seq(S) /\ Len(v) = len - 1
    <2>1. v \in [1 .. len - 1 -> S]
        BY <1>4, <1>5
    <2>2. PICK k : k = len - 1 /\ k \in Nat
        BY <1>0
    <2>3. v \in [1 .. k -> S]
        BY <2>1, <2>2
    <2> QED
        BY <2>2, <2>3
<1>13. \A j \in 1 .. len - 1 : v[j] = (d \o c)[j]
    <2> TAKE j \in 1 .. len - 1
    <2>1. j < i \/ j = i \/ j > i
        OBVIOUS
    <2> QED
        BY <1>6, <1>11, <2>1, Zenon
<1>14. v = d \o c
    BY <1>11, <1>12, <1>13, SeqEqual
<1> QED
    BY <1>0, <1>14, Zenon DEF v, w, t, a, b, c, d, x

\* The ways to cut some words in two
CutsOf(words) ==
    UNION {{<<SubSeq(w, 1, k), SubSeq(w, k + 1, Len(w))>> : k \in 1 .. Len(w) - 1} : w \in words}

LEMMA CutsAre ==
    ASSUME NEW words \in SUBSET Seq(Letters)
    PROVE  /\ \A u, v \in Seq(Letters) :
                Len(u) > 0 /\ Len(v) > 0 => (<<u, v>> \in CutsOf(words) <=> u \o v \in words)
           /\ \A c \in CutsOf(words) : c[1] \o c[2] \in words
<1>1. ASSUME NEW w \in words, NEW k \in 1 .. Len(w) - 1
      PROVE  SubSeq(w, 1, k) \o SubSeq(w, k + 1, Len(w)) = w
    <2>1. w \in Seq(Letters) /\ 1 \in 1 .. Len(w) + 1 /\ k \in 1 - 1 .. Len(w) /\ Len(w) \in k .. Len(w)
        OBVIOUS
    <2>2. SubSeq(w, 1, k) \o SubSeq(w, k + 1, Len(w)) = SubSeq(w, 1, Len(w))
        BY <2>1, ConcatAdjacentSubSeq
    <2> QED
        BY <2>1, <2>2, SubSeqFull
<1>2. ASSUME NEW c \in CutsOf(words) PROVE c[1] \o c[2] \in words
    <2>1. PICK w \in words : \E k \in 1 .. Len(w) - 1 :
                c = <<SubSeq(w, 1, k), SubSeq(w, k + 1, Len(w))>>
        BY DEF CutsOf
    <2>2. PICK k \in 1 .. Len(w) - 1 : c = <<SubSeq(w, 1, k), SubSeq(w, k + 1, Len(w))>>
        BY <2>1
    <2> QED
        BY <1>1, <2>2
<1>3. ASSUME NEW u \in Seq(Letters), NEW v \in Seq(Letters), Len(u) > 0, Len(v) > 0, u \o v \in words
      PROVE  <<u, v>> \in CutsOf(words)
    <2> DEFINE w == u \o v
               k == Len(u)
    <2>1. Len(w) = Len(u) + Len(v) /\ w \in Seq(Letters)
        BY ConcatProperties
    <2>2. k \in 1 .. Len(w) - 1
        BY <1>3, <2>1
    <2>3. SubSeq(w, 1, k) = u
        <3>1. SubSeq(w, 1, k) = SubSeq(u, 1, k)
            BY <1>3, SubSeqOfConcat1
        <3> QED
            BY <3>1, SubSeqFull
    <2>4. SubSeq(w, k + 1, Len(w)) = v
        <3>1. k + 1 \in Len(u) + 1 .. Len(u) + Len(v) /\ Len(w) \in Len(u) + 1 .. Len(u) + Len(v)
            BY <1>3, <2>1
        <3>2. SubSeq(w, k + 1, Len(w)) = SubSeq(v, k + 1 - Len(u), Len(w) - Len(u))
            BY <3>1, SubSeqOfConcat2
        <3>3. k + 1 - Len(u) = 1 /\ Len(w) - Len(u) = Len(v)
            BY <2>1
        <3> QED
            BY <3>2, <3>3, SubSeqFull
    <2> HIDE DEF w, k
    <2>5. <<u, v>> = <<SubSeq(w, 1, k), SubSeq(w, k + 1, Len(w))>> /\ w \in words
        BY <1>3, <2>3, <2>4 DEF w
    <2>6. <<u, v>> \in {<<SubSeq(w, 1, j), SubSeq(w, j + 1, Len(w))>> : j \in 1 .. Len(w) - 1}
        BY <2>2, <2>5
    <2> QED
        BY <2>5, <2>6, Zenon DEF CutsOf
<1>4. ASSUME NEW u \in Seq(Letters), NEW v \in Seq(Letters), <<u, v>> \in CutsOf(words)
      PROVE  u \o v \in words
    BY <1>2, <1>4
<1> QED
    BY <1>2, <1>3, <1>4

LEMMA RemoveIs ==
    ASSUME NEW S, NEW q \in Seq(S), NEW i \in 1 .. Len(q) - 1
    PROVE  /\ RemoveAt(q, i + 1) \in Seq(S) /\ Len(RemoveAt(q, i + 1)) = Len(q) - 1
           /\ \A j \in 1 .. Len(q) - 1 :
                RemoveAt(q, i + 1)[j] = IF j <= i THEN q[j] ELSE q[j + 1]
<1> DEFINE a == SubSeq(q, 1, i)
           b == SubSeq(q, i + 2, Len(q))
<1>0. RemoveAt(q, i + 1) = a \o b
    <2>1. i + 1 - 1 = i /\ i + 1 + 1 = i + 2
        OBVIOUS
    <2>2. RemoveAt(q, i + 1) = SubSeq(q, 1, i + 1 - 1) \o SubSeq(q, i + 1 + 1, Len(q))
        BY DEF RemoveAt
    <2> QED
        BY <2>1, <2>2
<1>1. /\ a \in Seq(S) /\ Len(a) = i /\ \A j \in 1 .. i : a[j] = q[j]
    <2>1. \A j \in 1 .. i : q[j] \in S
        OBVIOUS
    <2>2. /\ a \in Seq(S) /\ Len(a) = IF 1 <= i THEN i - 1 + 1 ELSE 0
          /\ \A j \in 1 .. i - 1 + 1 : a[j] = q[1 + j - 1]
        BY <2>1, SubSeqProperties
    <2> QED
        BY <2>2
<1>2. /\ b \in Seq(S) /\ Len(b) = Len(q) - i - 1 /\ \A j \in 1 .. Len(q) - i - 1 : b[j] = q[i + 1 + j]
    <2>1. \A j \in i + 2 .. Len(q) : q[j] \in S
        OBVIOUS
    <2>2. /\ b \in Seq(S) /\ Len(b) = IF i + 2 <= Len(q) THEN Len(q) - (i + 2) + 1 ELSE 0
          /\ \A j \in 1 .. Len(q) - (i + 2) + 1 : b[j] = q[i + 2 + j - 1]
        BY <2>1, SubSeqProperties
    <2> QED
        BY <2>2
<1> HIDE DEF a, b
<1>3. /\ a \o b \in Seq(S) /\ Len(a \o b) = Len(a) + Len(b)
      /\ \A j \in 1 .. Len(a) + Len(b) :
            (a \o b)[j] = IF j <= Len(a) THEN a[j] ELSE b[j - Len(a)]
    BY <1>1, <1>2, ConcatProperties
<1>4. \A j \in 1 .. Len(q) - 1 : j > i => j - i \in 1 .. Len(q) - i - 1 /\ i + 1 + (j - i) = j + 1
    OBVIOUS
<1>5. \A j \in 1 .. Len(q) - 1 : (a \o b)[j] = IF j <= i THEN q[j] ELSE q[j + 1]
    BY <1>1, <1>2, <1>3, <1>4
<1>6. a \o b \in Seq(S) /\ Len(a \o b) = Len(q) - 1
    BY <1>1, <1>2, <1>3
<1> QED
    BY <1>0, <1>5, <1>6, Zenon

-----------------------------------------------------------------------------
(* The parts of bpe_encode_piece, with the ranks of their joins *)
TikMarks == [j \in 1 .. Len(rankedParts) |-> rankedParts[j].start]
TikPart == [start : Int, rank : Int]
TikRank(w) == IF w \in DOMAIN ranked THEN ranked[w] ELSE Unranked

TikParts ==
    /\ rankedParts \in Seq(TikPart) /\ Len(rankedParts) >= 2
    /\ Marks(TikMarks, Len(rankedParts) - 1, rankedPiece)
    /\ \A j \in 1 .. Len(rankedParts) - 1 : rankedParts[j].rank = Tik!JoinRank(rankedParts, j)

TikInv ==
    /\ ranked \in RankedVocabs /\ rankedPiece \in Seq(Letters)
    /\ rankedStep = "merge" => TikParts
    /\ Tik!TokensSpell

LEMMA RankIs ==
    ASSUME ranked \in RankedVocabs, NEW w
    PROVE  /\ TikRank(w) \in Int
           /\ TikRank(w) # Unranked <=> w \in DOMAIN ranked
           /\ DOMAIN ranked \in SUBSET Seq(Letters)
<1>1. DOMAIN ranked \subseteq Seq(Letters) /\ ranked \in [DOMAIN ranked -> 0 .. Unranked - 1]
      /\ Unranked \in Nat
    BY VocabAssumption
<1>2. w \in DOMAIN ranked => ranked[w] \in 0 .. Unranked - 1
    BY <1>1
<1> QED
    BY <1>1, <1>2 DEF TikRank

LEMMA SegmentsAre ==
    ASSUME TikParts
    PROVE  Tik!Segments = Between(rankedPiece, TikMarks, Len(rankedParts) - 1)
<1>1. \A j \in 1 .. Len(rankedParts) - 1 :
        j \in 1 .. Len(rankedParts) /\ j + 1 \in 1 .. Len(rankedParts)
    BY DEF TikParts
<1>2. \A j \in 1 .. Len(rankedParts) - 1 :
        TikMarks[j] = rankedParts[j].start /\ TikMarks[j + 1] = rankedParts[j + 1].start
    BY <1>1 DEF TikMarks
<1> HIDE DEF TikMarks
<1>3. \A j \in 1 .. Len(rankedParts) - 1 :
        SubSeq(rankedPiece, TikMarks[j], TikMarks[j + 1] - 1)
            = Tik!Word(rankedPiece, rankedParts[j].start, rankedParts[j + 1].start)
    BY <1>2, Zenon DEF Tik!Word
<1> QED
    BY <1>3 DEF Between, Tik!Segments

\* A join with the next part, by its rank and as Merging sees it
LEMMA TikJoin ==
    ASSUME TikInv, TikParts, NEW i \in 1 .. Len(rankedParts) - 2
    PROVE  LET w == Tik!Segments
           IN  /\ Len(w) = Len(rankedParts) - 1 /\ i + 1 \in 1 .. Len(w)
               /\ rankedParts[i].rank = TikRank(w[i] \o w[i + 1])
               /\ <<w[i], w[i + 1]>> \in CutsOf(DOMAIN ranked) <=> rankedParts[i].rank # Unranked
<1> DEFINE w == Tik!Segments
           len == Len(rankedParts) - 1
<1>1. w = Between(rankedPiece, TikMarks, len) /\ Marks(TikMarks, len, rankedPiece) /\ len \in Nat
      /\ rankedPiece \in Seq(Letters) /\ ranked \in RankedVocabs
    BY SegmentsAre DEF TikParts, TikInv
<1>2. i \in 1 .. len - 1 /\ i \in 1 .. len /\ i + 1 \in 1 .. len
    BY <1>1
<1>3. TikMarks[i] = rankedParts[i].start /\ TikMarks[i + 2] = rankedParts[i + 2].start
      /\ i + 2 <= Len(rankedParts)
    BY <1>1 DEF TikMarks
<1>0. Len(w) = len
    BY <1>1 DEF Between
<1>4. rankedParts[i].rank = Tik!LookupRank(rankedPiece, rankedParts[i].start, rankedParts[i + 2].start)
    BY <1>2, <1>3 DEF TikParts, Tik!JoinRank
<1> HIDE DEF w, len
<1>5. /\ w[i] \in Seq(Letters) /\ Len(w[i]) = TikMarks[i + 1] - TikMarks[i]
      /\ TikMarks[i] \in 1 .. Len(rankedPiece)
      /\ TikMarks[i + 1] \in TikMarks[i] + 1 .. Len(rankedPiece) + 1
    BY <1>1, <1>2, BetweenIs
<1>6. w[i + 1] \in Seq(Letters) /\ Len(w[i + 1]) > 0
    <2>1. PICK k : k = i + 1 /\ k \in 1 .. len
        BY <1>2
    <2>2. /\ w[k] \in Seq(Letters) /\ Len(w[k]) = TikMarks[k + 1] - TikMarks[k]
          /\ TikMarks[k] \in 1 .. Len(rankedPiece)
          /\ TikMarks[k + 1] \in TikMarks[k] + 1 .. Len(rankedPiece) + 1
        BY <1>1, <2>1, BetweenIs
    <2> QED
        BY <2>1, <2>2
<1>7. w[i] \o w[i + 1] = SubSeq(rankedPiece, TikMarks[i], TikMarks[i + 2] - 1)
    BY <1>1, <1>2, NextIs
<1>8. rankedParts[i].rank = TikRank(w[i] \o w[i + 1])
    BY <1>3, <1>4, <1>7, Zenon DEF Tik!LookupRank, Tik!Word, TikRank
<1>9. DOMAIN ranked \in SUBSET Seq(Letters)
    BY <1>1, RankIs
<1>10. <<w[i], w[i + 1]>> \in CutsOf(DOMAIN ranked) <=> w[i] \o w[i + 1] \in DOMAIN ranked
    <2>1. Len(w[i]) > 0
        BY <1>5
    <2> QED
        BY <1>5, <1>6, <1>9, <2>1, CutsAre, Zenon
<1>11. <<w[i], w[i + 1]>> \in CutsOf(DOMAIN ranked) <=> rankedParts[i].rank # Unranked
    BY <1>1, <1>8, <1>10, RankIs, Zenon
<1> QED
    BY <1>0, <1>2, <1>8, <1>11 DEF w, len

\* As Merging has it: the joins and their order
TikRanks == [c \in Tik!Cuts |-> ranked[c[1] \o c[2]]]

LEMMA TikJoinable ==
    ASSUME TikInv, TikParts
    PROVE  /\ Tik!Order!Joinable = Tik!Live
           /\ \A i \in Tik!Live : i \in 1 .. Len(rankedParts) - 2
           /\ \A i \in Tik!Live :
                TikRanks[<<Tik!Segments[i], Tik!Segments[i + 1]>>] = rankedParts[i].rank
<1> DEFINE w == Tik!Segments
<1>1. Len(w) = Len(rankedParts) - 1 /\ Len(rankedParts) - 1 \in Nat
    BY SegmentsAre DEF TikParts, Between
<1>2. Tik!Cuts = CutsOf(DOMAIN ranked)
    BY Zenon DEF Tik!Cuts, CutsOf
<1>3. DOMAIN TikRanks = CutsOf(DOMAIN ranked)
    BY <1>2 DEF TikRanks
<1>4. \A i \in Tik!Live : i \in 1 .. Len(rankedParts) - 2
    <2> TAKE i \in Tik!Live
    <2>1. i \in 1 .. Len(rankedParts) - 1 /\ Tik!JoinRank(rankedParts, i) # Unranked
        BY DEF Tik!Live, TikParts
    <2>2. i + 2 <= Len(rankedParts)
        BY <2>1 DEF Tik!JoinRank
    <2> QED
        BY <1>1, <2>1, <2>2
<1>5. Tik!Order!Joinable = {i \in 1 .. Len(w) - 1 : <<w[i], w[i + 1]>> \in CutsOf(DOMAIN ranked)}
    BY <1>3, Zenon DEF Tik!Order!Joinable, Tik!Order!Join, TikRanks
<1>6. \A i \in 1 .. Len(rankedParts) - 2 :
        /\ rankedParts[i].rank = TikRank(w[i] \o w[i + 1])
        /\ <<w[i], w[i + 1]>> \in CutsOf(DOMAIN ranked) <=> rankedParts[i].rank # Unranked
    BY TikJoin
<1> HIDE DEF w
<1>7. Tik!Order!Joinable = Tik!Live
    BY <1>1, <1>4, <1>5, <1>6 DEF Tik!Live
<1>8. ASSUME NEW i \in Tik!Live PROVE TikRanks[<<w[i], w[i + 1]>>] = rankedParts[i].rank
    <2>1. <<w[i], w[i + 1]>> \in CutsOf(DOMAIN ranked)
        BY <1>5, <1>7
    <2>2. TikRanks[<<w[i], w[i + 1]>>] = ranked[w[i] \o w[i + 1]]
        BY <1>2, <2>1 DEF TikRanks
    <2>3. rankedParts[i].rank = TikRank(w[i] \o w[i + 1]) /\ rankedParts[i].rank # Unranked
        BY <1>4, <1>6 DEF Tik!Live
    <2> QED
        BY <2>2, <2>3 DEF TikRank
<1> QED
    BY <1>4, <1>7, <1>8 DEF w

Mark(q) == [j \in 1 .. Len(q) |-> q[j].start]
JoinOf(p, q, j) ==
    IF j + 2 <= Len(q) THEN TikRank(SubSeq(p, q[j].start, q[j + 2].start - 1)) ELSE Unranked
PartsOf(p, q) ==
    /\ q \in Seq(TikPart) /\ Len(q) >= 2
    /\ Marks(Mark(q), Len(q) - 1, p)
    /\ \A j \in 1 .. Len(q) - 1 : q[j].rank = JoinOf(p, q, j)

LEMMA NewParts ==
    ASSUME ranked' = ranked, PartsOf(rankedPiece', rankedParts')
    PROVE  TikParts'
<1>1. \A w : TikRank(w)' = TikRank(w)
    BY DEF TikRank
<1>2. \A j : (Tik!JoinRank(rankedParts, j))' = JoinOf(rankedPiece', rankedParts', j)
    BY DEF Tik!JoinRank, Tik!LookupRank, Tik!Word, JoinOf, TikRank
<1>3. TikMarks' = Mark(rankedParts')
    BY DEF TikMarks, Mark
<1> QED
    BY <1>2, <1>3 DEF PartsOf, TikParts, Marks, TikPart

LEMMA RankSet ==
    ASSUME NEW x \in TikPart, NEW rank \in Int
    PROVE  LET y == [x EXCEPT !.rank = rank]
           IN  y \in TikPart /\ y.start = x.start /\ y.rank = rank
BY DEF TikPart

\* A join leaves the parts as they are but for the ranks next to it.
LEMMA TikMerged ==
    ASSUME TikInv, TikParts, NEW i \in Tik!Live, NEW q,
           q = Tik!Reranked(RemoveAt(rankedParts, i + 1), i)
    PROVE  /\ q \in Seq(TikPart) /\ Len(q) = Len(rankedParts) - 1 /\ Len(q) >= 2
           /\ Mark(q) = Without(TikMarks, Len(rankedParts) - 1, i)
           /\ \A j \in 1 .. Len(q) - 1 : q[j].rank = Tik!JoinRank(q, j)
<1> DEFINE p == rankedParts
           r == RemoveAt(p, i + 1)
           len == Len(p) - 1
<1>1. i \in 1 .. Len(p) - 2 /\ p \in Seq(TikPart) /\ Len(p) \in Nat
    BY TikJoinable DEF TikParts
<1>2. /\ r \in Seq(TikPart) /\ Len(r) = len
      /\ \A j \in 1 .. len : r[j] = IF j <= i THEN p[j] ELSE p[j + 1]
    <2>1. i \in 1 .. Len(p) - 1
        BY <1>1
    <2> QED
        BY <1>1, <2>1, RemoveIs
<1>3. len \in Nat /\ len >= 2 /\ i < len
    BY <1>1
<1>4. \A j \in 1 .. len - 1 : p[j].rank = Tik!JoinRank(p, j) /\ p[j + 1].rank = Tik!JoinRank(p, j + 1)
    <2>1. \A j \in 1 .. len : p[j].rank = Tik!JoinRank(p, j)
        BY DEF TikParts
    <2>2. \A j \in 1 .. len - 1 : j \in 1 .. len /\ j + 1 \in 1 .. len
        BY <1>3
    <2> QED
        BY <2>1, <2>2
<1> HIDE DEF p, r, len
<1>5. ranked \in RankedVocabs
    BY DEF TikInv
<1>6. \A j : Tik!JoinRank(r, j) \in Int
    <2> TAKE j
    <2>1. Unranked \in Int
        BY VocabAssumption
    <2>2. \A w : TikRank(w) \in Int
        BY <1>5, RankIs
    <2>3. \A f, t : Tik!LookupRank(rankedPiece, f, t) \in Int
        BY <2>2, Zenon DEF Tik!LookupRank, TikRank
    <2> QED
        BY <2>1, <2>3 DEF Tik!JoinRank
<1>7. q = [j \in 1 .. len |-> IF j \in {i - 1, i} THEN [r[j] EXCEPT !.rank = Tik!JoinRank(r, j)] ELSE r[j]]
    <2>1. DOMAIN r = 1 .. len
        BY <1>2
    <2>2. q = Tik!Reranked(r, i)
        BY DEF r, p
    <2> QED
        BY <2>1, <2>2 DEF Tik!Reranked
<1>8. \A j \in 1 .. len : r[j] \in TikPart
    BY <1>2
<1>9. \A j \in 1 .. len :
        /\ q[j] \in TikPart /\ q[j].start = r[j].start
        /\ q[j].rank = IF j \in {i - 1, i} THEN Tik!JoinRank(r, j) ELSE r[j].rank
    <2> TAKE j \in 1 .. len
    <2>1. CASE j \in {i - 1, i}
        <3>1. q[j] = [r[j] EXCEPT !.rank = Tik!JoinRank(r, j)]
            BY <1>7, <2>1
        <3>2. /\ [r[j] EXCEPT !.rank = Tik!JoinRank(r, j)] \in TikPart
              /\ [r[j] EXCEPT !.rank = Tik!JoinRank(r, j)].start = r[j].start
              /\ [r[j] EXCEPT !.rank = Tik!JoinRank(r, j)].rank = Tik!JoinRank(r, j)
            BY <1>6, <1>8, RankSet
        <3> QED
            BY <2>1, <3>1, <3>2, Zenon
    <2>2. CASE j \notin {i - 1, i}
        BY <1>7, <1>8, <2>2
    <2> QED
        BY <2>1, <2>2
<1>10. q \in Seq(TikPart) /\ Len(q) = len
    <2>1. q \in [1 .. len -> TikPart]
        BY <1>7, <1>9
    <2> QED
        BY <1>3, <2>1
<1>11. Mark(q) = Without(TikMarks, len, i)
    <2>1. \A j \in 1 .. len : q[j].start = IF j <= i THEN p[j].start ELSE p[j + 1].start
        BY <1>2, <1>9
    <2>2. \A j \in 1 .. len : TikMarks[j] = p[j].start /\ TikMarks[j + 1] = p[j + 1].start
        BY <1>1 DEF TikMarks, len, p
    <2> QED
        BY <1>10, <2>1, <2>2 DEF Mark, Without
<1>12. \A j \in 1 .. len - 1 : q[j].rank = Tik!JoinRank(q, j)
    <2> TAKE j \in 1 .. len - 1
    <2>1. Tik!JoinRank(q, j) = Tik!JoinRank(r, j)
        <3>1. j + 2 <= len => j \in 1 .. len /\ j + 2 \in 1 .. len
            BY <1>3
        <3>2. j + 2 <= len => q[j].start = r[j].start /\ q[j + 2].start = r[j + 2].start
            BY <1>9, <3>1
        <3> QED
            BY <1>2, <1>10, <3>2 DEF Tik!JoinRank
    <2>2. CASE j \in {i - 1, i}
        BY <1>3, <1>9, <2>1, <2>2
    <2>3. CASE j < i - 1
        <3>1. /\ j \in 1 .. len /\ j + 2 \in 1 .. len /\ j + 2 <= i /\ j <= i /\ j + 2 <= len
              /\ j + 2 <= Len(p)
            BY <1>1, <1>3, <2>3
        <3>2. r[j] = p[j] /\ r[j + 2] = p[j + 2] /\ j \notin {i - 1, i}
            BY <1>1, <1>2, <2>3, <3>1
        <3>3. q[j].rank = p[j].rank
            BY <1>9, <3>1, <3>2
        <3>4. Tik!JoinRank(r, j) = Tik!JoinRank(p, j)
            BY <1>2, <3>1, <3>2 DEF Tik!JoinRank
        <3> QED
            BY <1>4, <2>1, <3>3, <3>4
    <2>4. CASE j > i
        <3>1. j \in 1 .. len /\ ~(j <= i) /\ ~(j + 2 <= i) /\ j \notin {i - 1, i} /\ j + 1 + 2 = j + 2 + 1
            BY <1>1, <1>3, <2>4
        <3>2. r[j] = p[j + 1] /\ (j + 2 <= len => r[j + 2] = p[j + 2 + 1])
            BY <1>2, <1>3, <3>1
        <3>3. q[j].rank = p[j + 1].rank
            BY <1>9, <3>1, <3>2
        <3>4. j + 2 <= len <=> j + 1 + 2 <= Len(p)
            BY <1>1, <1>3 DEF len
        <3>5. Tik!JoinRank(r, j) = Tik!JoinRank(p, j + 1)
            BY <1>2, <3>1, <3>2, <3>4 DEF Tik!JoinRank
        <3> QED
            BY <1>4, <2>1, <3>3, <3>5
    <2> QED
        BY <1>1, <1>3, <2>2, <2>3, <2>4
<1> QED
    BY <1>3, <1>10, <1>11, <1>12 DEF len, p

\* A piece that is begun has its letters as its parts.
LEMMA TikBegins ==
    ASSUME TikInv, NEW p \in RankedPieces, Tik!EncodePiece(p)
    PROVE  TikParts' /\ TikInv' /\ Tik!Order!Begin
<1>1. /\ p \in Seq(Letters) /\ Len(p) > 1 /\ rankedPiece' = p /\ rankedStep' = "merge"
      /\ rankedStep # "merge" /\ ranked' = ranked /\ Len(p) \in Nat
      /\ rankedParts' = [i \in 1 .. Len(p) + 1 |->
                    [start |-> i,
                     rank |-> IF i < Len(p) THEN Tik!LookupRank(p, i, i + 2) ELSE Unranked]]
    BY VocabAssumption DEF Tik!EncodePiece
<1> DEFINE q == rankedParts'
           m == Len(p) + 1
<1>2. ranked \in RankedVocabs /\ Unranked \in Int
    BY VocabAssumption DEF TikInv
<1>3. \A i : Tik!LookupRank(p, i, i + 2) \in Int
    <2>1. \A w : TikRank(w) \in Int
        BY <1>2, RankIs
    <2> QED
        BY <2>1, Zenon DEF Tik!LookupRank, TikRank
<1>4. \A i \in 1 .. m :
        /\ q[i] \in TikPart /\ q[i].start = i
        /\ q[i].rank = IF i < Len(p) THEN Tik!LookupRank(p, i, i + 2) ELSE Unranked
    <2> DEFINE rank(i) == IF i < Len(p) THEN Tik!LookupRank(p, i, i + 2) ELSE Unranked
    <2>1. \A i \in 1 .. m : q[i] = [start |-> i, rank |-> rank(i)] /\ rank(i) \in Int
        BY <1>1, <1>2, <1>3
    <2> HIDE DEF rank
    <2>2. ASSUME NEW i \in 1 .. m PROVE q[i] \in TikPart /\ q[i].start = i /\ q[i].rank = rank(i)
        <3>1. \A k, r \in Int :
                LET x == [start |-> k, rank |-> r] IN x \in TikPart /\ x.start = k /\ x.rank = r
            BY DEF TikPart
        <3>2. i \in Int
            BY <1>1
        <3>3. PICK r \in Int : r = rank(i) /\ q[i] = [start |-> i, rank |-> r]
            BY <2>1
        <3> QED
            BY <3>1, <3>2, <3>3
    <2> QED
        BY <2>2 DEF rank
<1>5. q \in Seq(TikPart) /\ Len(q) = m /\ DOMAIN q = 1 .. m
    <2>1. q \in [1 .. m -> TikPart] /\ m \in Nat
        BY <1>1, <1>4
    <2> QED
        BY <2>1
<1> HIDE DEF q
<1>6. Mark(q) = [j \in 1 .. m |-> j]
    BY <1>4, <1>5 DEF Mark
<1>7. Marks(Mark(q), m - 1, p)
    BY <1>1, <1>6 DEF Marks
<1>8. \A j \in 1 .. m - 1 : q[j].rank = JoinOf(p, q, j)
    <2> TAKE j \in 1 .. m - 1
    <2>1. JoinOf(p, q, j) =
            IF j + 2 <= m THEN Tik!LookupRank(p, q[j].start, q[j + 2].start) ELSE Unranked
        BY <1>5, Zenon DEF JoinOf, TikRank, Tik!LookupRank, Tik!Word
    <2>2. j \in 1 .. m /\ (j + 2 <= m <=> j < Len(p)) /\ (j + 2 <= m => j + 2 \in 1 .. m)
        BY <1>1
    <2> QED
        BY <1>4, <2>1, <2>2
<1>9. TikParts'
    <2>1. PartsOf(p, q)
        BY <1>1, <1>5, <1>7, <1>8 DEF PartsOf
    <2> QED
        BY <1>1, <2>1, NewParts DEF q
<1>10. TikInv'
    BY <1>1, <1>2, <1>9 DEF TikInv, Tik!TokensSpell
<1>11. \A i \in DOMAIN Tik!Segments' : Len(Tik!Segments'[i]) = 1
    <2>1. Tik!Segments' = [i \in 1 .. m - 1 |-> SubSeq(p, q[i].start, q[i + 1].start - 1)]
        BY <1>1, <1>5 DEF Tik!Segments, Tik!Word, q
    <2>2. ASSUME NEW i \in 1 .. m - 1 PROVE Len(SubSeq(p, q[i].start, q[i + 1].start - 1)) = 1
        <3>1. i \in 1 .. m /\ i + 1 \in 1 .. m /\ i + 1 - 1 = i /\ i \in Int /\ i <= Len(p)
            BY <1>1
        <3>2. q[i].start = i /\ q[i + 1].start - 1 = i
            BY <1>4, <3>1
        <3>3. \A k \in i .. i : p[k] \in Letters
            BY <1>1, <3>1
        <3>4. Len(SubSeq(p, i, i)) = IF i <= i THEN i - i + 1 ELSE 0
            BY <3>1, <3>3, SubSeqProperties
        <3> QED
            BY <3>1, <3>2, <3>4
    <2> QED
        BY <2>1, <2>2
<1> QED
    BY <1>1, <1>9, <1>10, <1>11 DEF Tik!Order!Begin

LEMMA TikFlatten == \A w : Tik!FlattenSeq(w) = FlattenSeq(w)
BY Zenon DEF Tik!FlattenSeq, FlattenSeq

LEMMA TikMerges ==
    ASSUME TikInv, Tik!MergeParts
    PROVE  TikInv' /\ Tik!Order!Merge /\ TikRanks' = TikRanks
<1>1. /\ TikParts /\ ranked' = ranked /\ rankedPiece' = rankedPiece
      /\ rankedStep' = "merge" /\ rankedStep = "merge"
    BY DEF TikInv, Tik!MergeParts
<1>2. PICK i \in Tik!Live : /\ Tik!Least(i)
                            /\ rankedParts' = Tik!Reranked(RemoveAt(rankedParts, i + 1), i)
    BY DEF Tik!MergeParts, Tik!RemoveAt, RemoveAt
<1> DEFINE q == rankedParts'
           w == Tik!Segments
           len == Len(rankedParts) - 1
<1>3. /\ q \in Seq(TikPart) /\ Len(q) = len /\ Len(q) >= 2
      /\ Mark(q) = Without(TikMarks, len, i)
      /\ \A j \in 1 .. Len(q) - 1 : q[j].rank = Tik!JoinRank(q, j)
    BY <1>1, <1>2, TikMerged
<1>4. i \in 1 .. len - 1 /\ len \in Nat /\ Marks(TikMarks, len, rankedPiece)
      /\ rankedPiece \in Seq(Letters)
    BY <1>1, <1>2, TikJoinable DEF TikParts, TikInv
<1>5. w = Between(rankedPiece, TikMarks, len) /\ Len(w) = len
    BY <1>1, <1>4, SegmentsAre DEF Between
<1> HIDE DEF q, w, len
<1>6. Marks(Mark(q), Len(q) - 1, rankedPiece)
    BY <1>3, <1>4, WithoutMarks
<1>7. PartsOf(rankedPiece, q)
    <2>1. \A j : Tik!JoinRank(q, j) = JoinOf(rankedPiece, q, j)
        BY DEF Tik!JoinRank, Tik!LookupRank, Tik!Word, JoinOf, TikRank
    <2> QED
        BY <1>3, <1>6, <2>1 DEF PartsOf
<1>8. TikParts'
    BY <1>1, <1>7, NewParts DEF q
<1>9. TikInv'
    BY <1>1, <1>8 DEF TikInv, Tik!TokensSpell
<1>10. Tik!Segments' = Between(rankedPiece, Without(TikMarks, len, i), len - 1)
    <2>1. Tik!Segments' = [j \in 1 .. len - 1 |-> SubSeq(rankedPiece, q[j].start, q[j + 1].start - 1)]
        BY <1>1, <1>3 DEF Tik!Segments, Tik!Word, q
    <2>2. \A j \in 1 .. len - 1 : Mark(q)[j] = q[j].start /\ Mark(q)[j + 1] = q[j + 1].start
        <3>1. \A j \in 1 .. len - 1 : j \in 1 .. len /\ j + 1 \in 1 .. len
            BY <1>4
        <3> QED
            BY <1>3, <3>1 DEF Mark
    <2>3. \A j \in 1 .. len - 1 :
            SubSeq(rankedPiece, q[j].start, q[j + 1].start - 1)
                = SubSeq(rankedPiece, Mark(q)[j], Mark(q)[j + 1] - 1)
        BY <2>2, Zenon
    <2> QED
        BY <1>3, <2>1, <2>3, Zenon DEF Between
<1>11. Tik!Segments' = SubSeq(w, 1, i - 1) \o <<w[i] \o w[i + 1]>> \o SubSeq(w, i + 2, Len(w))
    BY <1>4, <1>5, <1>10, WithoutParts, Zenon
<1>12. Tik!Segments' = Tik!Order!Joined(i)
    BY <1>11, Zenon DEF Tik!Order!Joined, w
<1>13. i \in Tik!Order!Joinable
    BY <1>1, TikJoinable
<1>14. Tik!Order!First(i)
    <2> SUFFICES ASSUME NEW j \in Tik!Live, j # i
                 PROVE  \/ TikRanks[<<w[i], w[i + 1]>>] < TikRanks[<<w[j], w[j + 1]>>]
                        \/ /\ TikRanks[<<w[i], w[i + 1]>>] = TikRanks[<<w[j], w[j + 1]>>]
                           /\ i < j
        <3>1. Tik!Order!Joinable = Tik!Live
            BY <1>1, TikJoinable
        <3> QED
            BY <3>1, Zenon DEF Tik!Order!First, Tik!Order!Join, TikRanks, w
    <2>1. /\ TikRanks[<<w[i], w[i + 1]>>] = rankedParts[i].rank
          /\ TikRanks[<<w[j], w[j + 1]>>] = rankedParts[j].rank
        BY <1>1, TikJoinable DEF w
    <2>2. j \in 1 .. Len(rankedParts) - 1 /\ i \in 1 .. Len(rankedParts) - 1
        BY DEF Tik!Live
    <2>3. \/ rankedParts[i].rank < rankedParts[j].rank
          \/ rankedParts[i].rank = rankedParts[j].rank /\ i <= j
        BY <1>2, <2>2 DEF Tik!Least
    <2> QED
        BY <2>1, <2>2, <2>3
<1>15. TikRanks' = TikRanks
    BY <1>1 DEF TikRanks, Tik!Cuts
<1> QED
    BY <1>1, <1>9, <1>12, <1>13, <1>14, <1>15 DEF Tik!Order!Merge

LEMMA TikEmits ==
    ASSUME TikInv, Tik!EmitTokens
    PROVE  TikInv' /\ Tik!Order!Finish /\ TikRanks' = TikRanks
<1>1. /\ TikParts /\ ranked' = ranked /\ rankedPiece' = rankedPiece /\ rankedParts' = rankedParts
      /\ rankedStep' = "done" /\ rankedStep = "merge" /\ Tik!Live = {}
      /\ rankedOut' \in {Tik!Segments, <<>>}
    BY DEF TikInv, Tik!EmitTokens, Tik!Refused
<1>2. FlattenSeq(Tik!Segments) = rankedPiece
    <2>1. Len(rankedParts) - 1 \in Nat \ {0} /\ Marks(TikMarks, Len(rankedParts) - 1, rankedPiece)
          /\ rankedPiece \in Seq(Letters)
        <3>1. rankedParts \in Seq(TikPart) /\ Len(rankedParts) >= 2
            BY <1>1 DEF TikParts
        <3>2. Len(rankedParts) \in Nat
            BY <3>1, LenProperties
        <3>3. Len(rankedParts) - 1 \in Nat \ {0}
            BY <3>1, <3>2
        <3> QED
            BY <1>1, <3>3 DEF TikParts, TikInv
    <2> QED
        BY <1>1, <2>1, SegmentsAre, Spelled
<1>3. TikInv'
    <2>1. Tik!TokensSpell'
        BY <1>1, <1>2, TikFlatten, Zenon DEF Tik!TokensSpell, Tik!Refused
    <2> QED
        BY <1>1, <2>1 DEF TikInv
<1>4. Tik!Order!Joinable = {}
    BY <1>1, TikJoinable
<1>5. Tik!Segments' = Tik!Segments
    BY <1>1 DEF Tik!Segments, Tik!Word
<1>6. TikRanks' = TikRanks
    BY <1>1 DEF TikRanks, Tik!Cuts
<1> QED
    BY <1>1, <1>3, <1>4, <1>5, <1>6 DEF Tik!Order!Finish

LEMMA NoSegments ==
    ASSUME rankedParts = <<>>
    PROVE  Tik!Segments = <<>>
<1>1. Len(rankedParts) = 0
    OBVIOUS
<1>2. Tik!Segments = [i \in 1 .. 0 - 1 |-> Tik!Word(rankedPiece, rankedParts[i].start, rankedParts[i + 1].start)]
    BY <1>1 DEF Tik!Segments
<1>3. Tik!Segments \in Seq(Int) /\ Len(Tik!Segments) = 0
    BY <1>2
<1> QED
    BY <1>3, EmptySeq

LEMMA TikWhole ==
    ASSUME TikInv, NEW p \in RankedPieces, Tik!EncodeWhole(p)
    PROVE  TikInv' /\ Tik!Order!Whole /\ TikRanks' = TikRanks
<1>1. /\ ranked' = ranked /\ rankedPiece' = p /\ rankedParts' = <<>>
      /\ rankedStep' = "done" /\ rankedStep # "merge"
      /\ rankedOut' \in {<<p>>, <<>>} /\ p \in Seq(Letters)
    BY VocabAssumption DEF TikInv, Tik!EncodeWhole, Tik!Refused
<1>2. FlattenSeq(<<p>>) = p
    <2> DEFINE w == <<p>>
               Flat(f) == f = [i \in 1 .. Len(w) |-> IF i = 1 THEN w[i] ELSE f[i - 1] \o w[i]]
    <2>1. Len(w) = 1 /\ w[1] = p
        OBVIOUS
    <2> HIDE DEF w
    <2>2. FlattenSeq(w) = (CHOOSE f : Flat(f))[1]
        <3>1. Len(w) # 0
            BY <2>1
        <3> QED
            BY <2>1, <3>1, Zenon DEF FlattenSeq
    <2>3. Flat([i \in 1 .. 1 |-> p])
        BY <2>1
    <2>4. \A f : Flat(f) => f[1] = p
        BY <2>1
    <2> HIDE DEF Flat
    <2>5. Flat(CHOOSE f : Flat(f))
        BY <2>3, Zenon
    <2> QED
        BY <2>2, <2>4, <2>5 DEF w
<1>3. TikInv'
    <2>1. Tik!TokensSpell'
        BY <1>1, <1>2, TikFlatten, Zenon DEF Tik!TokensSpell, Tik!Refused
    <2> QED
        BY <1>1, <2>1 DEF TikInv
<1>4. Tik!Segments' = <<>>
    <2>1. Tik!Segments' = [i \in 1 .. 0 - 1 |-> Tik!Word(p, rankedParts'[i].start, rankedParts'[i + 1].start)]
        BY <1>1 DEF Tik!Segments, Tik!Word
    <2>2. Tik!Segments' \in Seq(Int) /\ Len(Tik!Segments') = 0
        BY <2>1
    <2> QED
        BY <2>2, EmptySeq
<1>5. TikRanks' = TikRanks
    BY <1>1 DEF TikRanks, Tik!Cuts
<1> QED
    BY <1>1, <1>3, <1>4, <1>5 DEF Tik!Order!Whole

LEMMA TikInitInv == Tik!Init => TikInv /\ Tik!Order!Init
<1> SUFFICES ASSUME Tik!Init PROVE TikInv /\ Tik!Order!Init
    OBVIOUS
<1>1. TikInv
    BY DEF Tik!Init, TikInv, Tik!TokensSpell
<1> QED
    BY <1>1, NoSegments DEF Tik!Init, Tik!Order!Init

LEMMA TikStep ==
    TikInv /\ [Tik!Next]_(Tik!tikVars)
        => TikInv' /\ [Tik!Order!Next]_(<<TikRanks, Tik!Segments, rankedStep # "merge">>)
<1> SUFFICES ASSUME TikInv, [Tik!Next]_(Tik!tikVars)
             PROVE  /\ TikInv'
                    /\ [Tik!Order!Next]_(<<TikRanks, Tik!Segments, rankedStep # "merge">>)
    OBVIOUS
<1>1. CASE Tik!MergeParts
    BY <1>1, TikMerges DEF Tik!Order!Next, TikRanks
<1>2. CASE Tik!EmitTokens
    BY <1>2, TikEmits DEF Tik!Order!Next, TikRanks
<1>3. ASSUME NEW p \in RankedPieces, Tik!EncodeWhole(p)
      PROVE  TikInv' /\ [Tik!Order!Next]_(<<TikRanks, Tik!Segments, rankedStep # "merge">>)
    BY <1>3, TikWhole DEF Tik!Order!Next, TikRanks
<1>4. ASSUME NEW p \in RankedPieces, Tik!EncodePiece(p)
      PROVE  TikInv' /\ [Tik!Order!Next]_(<<TikRanks, Tik!Segments, rankedStep # "merge">>)
    <2>1. TikRanks' = TikRanks
        BY <1>4 DEF TikRanks, Tik!Cuts, Tik!EncodePiece
    <2> QED
        BY <1>4, <2>1, TikBegins DEF Tik!Order!Next, TikRanks
<1>5. CASE UNCHANGED Tik!tikVars
    <2>1. UNCHANGED <<ranked, rankedPiece, rankedParts, rankedStep, rankedOut>>
        BY <1>5 DEF Tik!tikVars
    <2>2. TikInv'
        BY <2>1 DEF TikInv, TikParts, TikMarks, TikPart, Tik!JoinRank, Tik!LookupRank, Tik!Word,
            Tik!TokensSpell, Tik!Refused, Marks
    <2>3. UNCHANGED <<TikRanks, Tik!Segments, rankedStep # "merge">>
        BY <2>1 DEF TikRanks, Tik!Cuts, Tik!Segments, Tik!Word
    <2> QED
        BY <2>2, <2>3
<1> QED
    BY <1>1, <1>2, <1>3, <1>4, <1>5 DEF Tik!Next

LEMMA TiktokenIsItsOwn == TokenizerSpec => Tik!Spec
<1>1. TokenizerInit => Tik!Init
    BY DEF TokenizerInit
<1>2. [TokenizerNext]_tokenizerVars => [Tik!Next]_(Tik!tikVars)
    BY DEF TokenizerNext, tokenizerVars, tikVars, Tik!tikVars
<1> QED
    BY <1>1, <1>2, PTL DEF TokenizerSpec, Tik!Spec

\* Whatever the vocabulary, the tokens of a piece spell the piece.
THEOREM TiktokenIsRight == TokenizerSpec => []Tik!TokensSpell
<1>1. Tik!Spec => []TikInv
    BY TikInitInv, TikStep, PTL DEF Tik!Spec
<1>2. TikInv => Tik!TokensSpell
    BY DEF TikInv, Tik!TokensSpell
<1> QED
    BY <1>1, <1>2, TiktokenIsItsOwn, PTL

\* Tiktoken implements Merging.
THEOREM TiktokenIsMerging == TokenizerSpec => Tik!MergesByRank
<1>1. Tik!Init => TikInv /\ Tik!Order!Init
    BY TikInitInv
<1>2. TikInv /\ [Tik!Next]_(Tik!tikVars)
        => TikInv' /\ [Tik!Order!Next]_(<<TikRanks, Tik!Segments, rankedStep # "merge">>)
    BY TikStep
<1>3. Tik!Spec => Tik!MergesByRank
    BY <1>1, <1>2, PTL DEF Tik!Spec, Tik!MergesByRank, Tik!Order!Spec, TikRanks
<1> QED
    BY <1>3, TiktokenIsItsOwn, PTL

-----------------------------------------------------------------------------
(***************************************************************************)
(* The symbols q of sp_encode_bpe on a text p: those that are left begin   *)
(* at the marks s and are linked, each with the next.                      *)
(***************************************************************************)
SpSymbol == [start : Int, length : Int, prev : Int, next : Int]
Symbol(s, len, k) ==
    [start |-> s[k], length |-> s[k + 1] - s[k],
     prev |-> IF k = 1 THEN 0 ELSE s[k - 1], next |-> IF k = len THEN 0 ELSE s[k + 1]]
SpLinks(p, q, s, len) ==
    /\ Marks(s, len, p)
    /\ q \in Seq(SpSymbol) /\ Len(q) = Len(p)
    /\ \A k \in 1 .. len : q[s[k]] = Symbol(s, len, k)
    /\ \A i \in 1 .. Len(p) : (\A k \in 1 .. len : s[k] # i) => q[i].length = 0

\* Where marks are
LEMMA MarkIs ==
    ASSUME NEW p, NEW len \in Nat, NEW s, Marks(s, len, p), Len(p) \in Nat, NEW k \in 1 .. len
    PROVE  s[k] \in 1 .. Len(p) /\ s[k + 1] \in 1 .. Len(p) + 1 /\ s[k] < s[k + 1]
<1>1. k \in 1 .. len + 1 /\ k + 1 \in 1 .. len + 1 /\ k < k + 1
    OBVIOUS
<1>2. s[k] \in 1 .. Len(p) + 1 /\ s[k + 1] \in 1 .. Len(p) + 1 /\ s[k] < s[k + 1]
    BY <1>1 DEF Marks
<1> QED
    BY <1>2

LEMMA SymbolIs ==
    ASSUME NEW s, NEW len, NEW k
    PROVE  /\ Symbol(s, len, k).start = s[k] /\ Symbol(s, len, k).length = s[k + 1] - s[k]
           /\ Symbol(s, len, k).prev = IF k = 1 THEN 0 ELSE s[k - 1]
           /\ Symbol(s, len, k).next = IF k = len THEN 0 ELSE s[k + 1]
BY DEF Symbol

Filter(q) == Result([loop |-> "keep"], <<>>, q, Len(q))

LEMMA FilterIs ==
    ASSUME NEW p \in Seq(Letters), NEW q, NEW len \in Nat, NEW s, SpLinks(p, q, s, len)
    PROVE  Filter(q) = [k \in 1 .. len |-> q[s[k]]]
<1> DEFINE what == [loop |-> "keep"]
           l == Len(p)
<1>1. PICK v : /\ v[0] = <<>>
               /\ \A m \in 0 .. l - 1 : v[m + 1] = Loop(what, v[m], q[m + 1])
               /\ Filter(q) = v[l]
    <2>1. l \in Nat
        OBVIOUS
    <2> DEFINE none == <<>>
    <2>2. Filter(q) = Result(what, none, q, l)
        <3>1. Len(q) = l
            BY DEF SpLinks
        <3> QED
            BY <3>1, Zenon DEF Filter
    <2> HIDE DEF what, l, none
    <2>3. \E v : /\ v[0] = none
                 /\ \A m \in 0 .. l - 1 : v[m + 1] = Loop(what, v[m], q[m + 1])
                 /\ Result(what, none, q, l) = v[l]
        BY <2>1, Runs
    <2> QED
        BY <2>2, <2>3, Zenon DEF none
<1>2. \A x, y : Loop(what, x, y) = IF y.length > 0 THEN Append(x, y) ELSE x
    BY DEF Loop
<1>3. /\ l \in Nat /\ Marks(s, len, p) /\ s[1] = 1 /\ s[len + 1] = l + 1
      /\ \A k \in 1 .. len + 1 : s[k] \in 1 .. l + 1
      /\ \A i, j \in 1 .. len + 1 : i < j => s[i] < s[j]
    BY DEF SpLinks, Marks
<1>4. \A k \in 1 .. len : q[s[k]].length > 0
    <2> TAKE k \in 1 .. len
    <2>1. q[s[k]].length = s[k + 1] - s[k]
        BY SymbolIs DEF SpLinks
    <2>2. s[k] \in 1 .. Len(p) /\ s[k + 1] \in 1 .. Len(p) + 1 /\ s[k] < s[k + 1]
        BY <1>3, MarkIs
    <2> QED
        BY <2>1, <2>2
<1>5. \A i \in 1 .. l : (\A k \in 1 .. len : s[k] # i) => ~(q[i].length > 0)
    BY DEF SpLinks
<1> HIDE DEF what, l
<1> DEFINE first(k) == [j \in 1 .. k |-> q[s[j]]]
           T == {m \in 0 .. l : \E k \in 0 .. len :
                    /\ v[m] = first(k) /\ s[k + 1] > m /\ (k > 0 => s[k] <= m)}
<1>6. 0 \in T
    <2>1. first(0) = <<>>
        <3>1. first(0) \in Seq(Int) /\ Len(first(0)) = 0
            OBVIOUS
        <3> QED
            BY <3>1, EmptySeq
    <2>2. PICK k : k = 0 /\ k + 1 = 1 /\ k \in 0 .. len
        OBVIOUS
    <2>3. v[0] = first(k) /\ s[k + 1] > 0 /\ ~(k > 0)
        BY <1>1, <1>3, <2>1, <2>2
    <2>4. 0 \in 0 .. l
        BY <1>3
    <2> HIDE DEF first
    <2> QED
        BY <2>2, <2>3, <2>4
<1>7. \A m \in 0 .. l : m \in T /\ m + 1 <= l => m + 1 \in T
    <2> SUFFICES ASSUME NEW m \in 0 .. l, m \in T, m + 1 <= l PROVE m + 1 \in T
        OBVIOUS
    <2>1. PICK k \in 0 .. len : v[m] = first(k) /\ s[k + 1] > m /\ (k > 0 => s[k] <= m)
        OBVIOUS
    <2>2. v[m + 1] = IF q[m + 1].length > 0 THEN Append(v[m], q[m + 1]) ELSE v[m]
        <3>1. m \in 0 .. l - 1
            BY <1>3
        <3>2. v[m + 1] = Loop(what, v[m], q[m + 1])
            BY <1>1, <3>1
        <3> QED
            BY <1>2, <3>2, Zenon
    <2>3. CASE s[k + 1] = m + 1
        <3>1. k + 1 \in 1 .. len /\ k + 1 \in 0 .. len
            <4>1. k # len
                BY <1>3, <2>3
            <4> QED
                BY <4>1
        <3>2. v[m + 1] = Append(first(k), q[m + 1])
            BY <1>4, <2>1, <2>2, <2>3, <3>1
        <3>3. Append(first(k), q[m + 1]) = first(k + 1)
            <4>1. q[m + 1] = q[s[k + 1]]
                BY <2>3
            <4> HIDE DEF T
            <4> DEFINE a == first(k)
                       e == q[m + 1]
                       b == first(k + 1)
            <4>2. \A j \in 1 .. k + 1 : q[s[j]] \in SpSymbol
                <5>1. \A j \in 1 .. len : s[j] \in 1 .. Len(p)
                    BY <1>3, MarkIs
                <5> QED
                    BY <3>1, <5>1 DEF SpLinks
            <4>3. /\ a \in Seq(SpSymbol) /\ Len(a) = k /\ e \in SpSymbol
                  /\ \A j \in 1 .. k : a[j] = q[s[j]]
                <5>1. k + 1 \in 1 .. k + 1 /\ \A j \in 1 .. k : j \in 1 .. k + 1
                    OBVIOUS
                <5>2. e \in SpSymbol
                    BY <4>1, <4>2, <5>1
                <5>3. a \in [1 .. k -> SpSymbol] /\ k \in Nat
                    BY <4>2, <5>1
                <5> HIDE DEF e
                <5> QED
                    BY <5>2, <5>3
            <4>4. b \in Seq(SpSymbol) /\ Len(b) = k + 1 /\ \A j \in 1 .. k + 1 : b[j] = q[s[j]]
                <5>1. b \in [1 .. k + 1 -> SpSymbol] /\ k + 1 \in Nat
                    BY <4>2
                <5> QED
                    BY <5>1
            <4> HIDE DEF a, e, b
            <4>5. /\ Append(a, e) \in Seq(SpSymbol) /\ Len(Append(a, e)) = k + 1
                  /\ \A j \in 1 .. k : Append(a, e)[j] = a[j]
                  /\ Append(a, e)[k + 1] = e
                BY <4>3, AppendProperties
            <4>6. \A j \in 1 .. k + 1 : Append(a, e)[j] = b[j]
                BY <4>1, <4>3, <4>4, <4>5 DEF e
            <4>7. Append(a, e) = b
                BY <4>4, <4>5, <4>6, SeqEqual
            <4> QED
                BY <4>7 DEF a, e, b
        <3>4. s[k + 1 + 1] > m + 1 /\ s[k + 1] <= m + 1
            <4>1. k + 1 \in 1 .. len + 1 /\ k + 1 + 1 \in 1 .. len + 1 /\ k + 1 < k + 1 + 1
                BY <3>1
            <4>2. s[k + 1] < s[k + 1 + 1] /\ s[k + 1 + 1] \in Int
                BY <1>3, <4>1
            <4> QED
                BY <2>3, <4>2
        <3>5. PICK j : j = k + 1
            OBVIOUS
        <3> HIDE DEF first
        <3> QED
            BY <3>1, <3>2, <3>3, <3>4, <3>5
    <2>4. CASE s[k + 1] # m + 1
        <3>1. k + 1 \in 1 .. len + 1 /\ s[k + 1] \in Int /\ s[k + 1] > m + 1
            BY <1>3, <2>1, <2>4
        <3>2. \A j \in 1 .. len : s[j] # m + 1
            <4> TAKE j \in 1 .. len
            <4>1. CASE j <= k
                <5>1. k \in 1 .. len + 1 /\ j \in 1 .. len + 1 /\ s[k] <= m /\ s[k] \in Int /\ s[j] \in Int
                    BY <1>3, <2>1, <4>1
                <5>2. j = k \/ s[j] < s[k]
                    BY <1>3, <4>1, <5>1
                <5> QED
                    BY <5>1, <5>2
            <4>2. CASE j > k
                <5>1. j = k + 1 \/ s[k + 1] < s[j]
                    BY <1>3, <3>1, <4>2
                <5>2. s[j] \in Int
                    BY <1>3
                <5> QED
                    BY <3>1, <5>1, <5>2
            <4> QED
                BY <4>1, <4>2
        <3>3. v[m + 1] = first(k)
            BY <1>5, <2>1, <2>2, <3>2
        <3>4. k > 0 => s[k] <= m + 1
            <4>1. k > 0 => k \in 1 .. len + 1
                OBVIOUS
            <4>2. k > 0 => s[k] \in Int /\ s[k] <= m
                BY <1>3, <2>1, <4>1
            <4> HIDE DEF T, first
            <4> QED
                BY <4>2
        <3> HIDE DEF first
        <3> QED
            BY <3>1, <3>3, <3>4
    <2> QED
        BY <2>3, <2>4
<1> HIDE DEF T
<1>8. l \in T
    <2>1. 0 .. l \subseteq T
        BY <1>3, <1>6, <1>7, UpTo
    <2> QED
        BY <1>3, <2>1
<1>9. PICK k \in 0 .. len : v[l] = first(k) /\ s[k + 1] > l
    BY <1>8 DEF T
<1>10. k = len
    <2>1. SUFFICES ASSUME k < len PROVE FALSE
        OBVIOUS
    <2>2. k + 1 \in 1 .. len + 1 /\ len + 1 \in 1 .. len + 1 /\ k + 1 < len + 1
        BY <2>1
    <2>3. s[k + 1] < s[len + 1] /\ s[k + 1] \in Int
        BY <1>3, <2>2
    <2> QED
        BY <1>3, <1>9, <2>3
<1> QED
    BY <1>1, <1>9, <1>10

SegmentsOf(p, q) ==
    LET l == Filter(q) IN [i \in DOMAIN l |-> SubSeq(p, l[i].start, l[i].start + l[i].length - 1)]

LEMMA SegmentsOfAre ==
    ASSUME NEW p \in Seq(Letters), NEW q, NEW len \in Nat, NEW s, SpLinks(p, q, s, len)
    PROVE  SegmentsOf(p, q) = Between(p, s, len)
<1>1. Filter(q) = [k \in 1 .. len |-> q[s[k]]]
    BY FilterIs
<1>2. \A k \in 1 .. len : q[s[k]].start = s[k] /\ q[s[k]].length = s[k + 1] - s[k]
    BY SymbolIs DEF SpLinks
<1>3. \A k \in 1 .. len : s[k] + (s[k + 1] - s[k]) - 1 = s[k + 1] - 1
    <2> TAKE k \in 1 .. len
    <2>1. Len(p) \in Nat /\ Marks(s, len, p)
        BY DEF SpLinks
    <2>2. s[k] \in 1 .. Len(p) /\ s[k + 1] \in 1 .. Len(p) + 1
        BY <2>1, MarkIs
    <2> QED
        BY <2>2
<1>4. SegmentsOf(p, q)
        = [k \in 1 .. len |-> SubSeq(p, q[s[k]].start, q[s[k]].start + q[s[k]].length - 1)]
    BY <1>1 DEF SegmentsOf
<1>5. \A k \in 1 .. len :
        SubSeq(p, q[s[k]].start, q[s[k]].start + q[s[k]].length - 1) = SubSeq(p, s[k], s[k + 1] - 1)
    BY <1>2, <1>3, Zenon
<1> QED
    BY <1>4, <1>5, Zenon DEF Between

\* The join of two neighbours is a word if the two are a cut of it.
LEMMA JoinIs ==
    ASSUME NEW p \in Seq(Letters), NEW len \in Nat, NEW s, Marks(s, len, p), NEW i \in 1 .. len - 1,
           NEW words \in SUBSET Seq(Letters)
    PROVE  LET w == Between(p, s, len)
           IN  /\ w[i] \o w[i + 1] = SubSeq(p, s[i], s[i + 2] - 1)
               /\ <<w[i], w[i + 1]>> \in CutsOf(words) <=> SubSeq(p, s[i], s[i + 2] - 1) \in words
<1> DEFINE w == Between(p, s, len)
<1> HIDE DEF w
<1>1. i \in 1 .. len
    OBVIOUS
<1>2. w[i] \in Seq(Letters) /\ Len(w[i]) > 0
    <2>1. /\ w[i] \in Seq(Letters) /\ Len(w[i]) = s[i + 1] - s[i]
          /\ s[i] \in 1 .. Len(p) /\ s[i + 1] \in s[i] + 1 .. Len(p) + 1
        BY <1>1, BetweenIs DEF w
    <2> QED
        BY <2>1
<1>3. w[i + 1] \in Seq(Letters) /\ Len(w[i + 1]) > 0
    <2>1. PICK k : k = i + 1 /\ k \in 1 .. len
        OBVIOUS
    <2>2. /\ w[k] \in Seq(Letters) /\ Len(w[k]) = s[k + 1] - s[k]
          /\ s[k] \in 1 .. Len(p) /\ s[k + 1] \in s[k] + 1 .. Len(p) + 1
        BY <2>1, BetweenIs DEF w
    <2> QED
        BY <2>1, <2>2
<1>4. w[i] \o w[i + 1] = SubSeq(p, s[i], s[i + 2] - 1)
    BY NextIs DEF w
<1>5. <<w[i], w[i + 1]>> \in CutsOf(words) <=> w[i] \o w[i + 1] \in words
    BY <1>2, <1>3, CutsAre
<1> QED
    BY <1>4, <1>5, Zenon DEF w

\* Marks rise.
LEMMA MarksRise ==
    ASSUME NEW p, NEW len \in Nat, NEW s, Marks(s, len, p), Len(p) \in Nat,
           NEW i \in 1 .. len + 1, NEW j \in 1 .. len + 1
    PROVE  /\ s[i] < s[j] <=> i < j
           /\ s[i] = s[j] <=> i = j
<1>1. s[i] \in Int /\ s[j] \in Int
    BY DEF Marks
<1>2. i < j => s[i] < s[j]
    BY DEF Marks
<1>3. j < i => s[j] < s[i]
    BY DEF Marks
<1> QED
    BY <1>1, <1>2, <1>3

-----------------------------------------------------------------------------
(* The pairs c of the list: each is of symbols with none left between them,  *)
(* and no two neighbours that can be joined are missing.                    *)
PairOf(v, p, s, k) ==
    [left |-> s[k], right |-> s[k + 1], length |-> s[k + 2] - s[k],
     score |-> v[SubSeq(p, s[k], s[k + 2] - 1)]]
PairRight(v, p, s, len, x) ==
    /\ x.left \in 1 .. Len(p) /\ x.right \in 1 .. Len(p) /\ x.left < x.right /\ x.length \in Int
    /\ SubSeq(p, x.left, x.left + x.length - 1) \in DOMAIN v
    /\ x.score = v[SubSeq(p, x.left, x.left + x.length - 1)]
    /\ \A k \in 1 .. len : ~(x.left < s[k] /\ s[k] < x.right)
SpPairs(v, p, c, s, len) ==
    /\ \A x \in c : PairRight(v, p, s, len, x)
    /\ \A k \in 1 .. len - 1 :
            SubSeq(p, s[k], s[k + 2] - 1) \in DOMAIN v => PairOf(v, p, s, k) \in c

LEMMA PairOfIs ==
    ASSUME NEW p \in Seq(Letters), NEW len \in Nat, NEW s, Marks(s, len, p), NEW k \in 1 .. len - 1,
           NEW v, SubSeq(p, s[k], s[k + 2] - 1) \in DOMAIN v
    PROVE  PairRight(v, p, s, len, PairOf(v, p, s, k)) /\ PairOf(v, p, s, k).left = s[k]
<1> DEFINE x == PairOf(v, p, s, k)
<1>1. /\ x.left = s[k] /\ x.right = s[k + 1] /\ x.length = s[k + 2] - s[k]
      /\ x.score = v[SubSeq(p, s[k], s[k + 2] - 1)]
    BY DEF PairOf
<1> HIDE DEF x
<1>2. Len(p) \in Nat /\ k \in 1 .. len /\ k + 1 \in 1 .. len /\ k + 1 + 1 = k + 2
    OBVIOUS
<1>3. s[k] \in 1 .. Len(p) /\ s[k + 1] \in 1 .. Len(p) + 1 /\ s[k] < s[k + 1]
    BY <1>2, MarkIs
<1>4. s[k + 1] \in 1 .. Len(p) /\ s[k + 2] \in 1 .. Len(p) + 1
    <2>1. PICK j : j = k + 1 /\ j + 1 = k + 2 /\ j \in 1 .. len
        BY <1>2
    <2>2. s[j] \in 1 .. Len(p) /\ s[j + 1] \in 1 .. Len(p) + 1
        BY <1>2, <2>1, MarkIs
    <2> QED
        BY <2>1, <2>2
<1>5. x.left + x.length - 1 = s[k + 2] - 1
    BY <1>1, <1>3, <1>4
<1>6. \A j \in 1 .. len : ~(s[k] < s[j] /\ s[j] < s[k + 1])
    <2> TAKE j \in 1 .. len
    <2>1. j \in 1 .. len + 1 /\ k \in 1 .. len + 1 /\ k + 1 \in 1 .. len + 1
        OBVIOUS
    <2>2. s[k] < s[j] <=> k < j
        BY <1>2, <2>1, MarksRise
    <2>3. s[j] < s[k + 1] <=> j < k + 1
        BY <1>2, <2>1, MarksRise
    <2> QED
        BY <2>2, <2>3
<1>7. x.length \in Int
    BY <1>1, <1>3, <1>4
<1>8. /\ SubSeq(p, x.left, x.left + x.length - 1) \in DOMAIN v
      /\ x.score = v[SubSeq(p, x.left, x.left + x.length - 1)]
    BY <1>1, <1>5, Zenon
<1> QED
    BY <1>1, <1>3, <1>4, <1>6, <1>7, <1>8 DEF PairRight, x

LEMMA NeighboursAre ==
    ASSUME normal \in Seq(Letters), NEW q, NEW len \in Nat, NEW s, SpLinks(normal, q, s, len),
           NEW k \in 1 .. len
    PROVE  /\ k = len => Sp!Neighbours(q, s[k]) = {}
           /\ k < len => Sp!Neighbours(q, s[k]) =
                    IF SubSeq(normal, s[k], s[k + 2] - 1) \in DOMAIN score
                    THEN {PairOf(score, normal, s, k)} ELSE {}
<1>1. Len(normal) \in Nat /\ Marks(s, len, normal)
    BY DEF SpLinks
<1>2. s[k] \in 1 .. Len(normal) /\ s[k + 1] \in 1 .. Len(normal) + 1 /\ s[k] # 0
    BY <1>1, MarkIs
<1>3. /\ q[s[k]].start = s[k] /\ q[s[k]].length = s[k + 1] - s[k]
      /\ q[s[k]].next = IF k = len THEN 0 ELSE s[k + 1]
    BY SymbolIs DEF SpLinks
<1>4. CASE k = len
    BY <1>3, <1>4 DEF Sp!Neighbours, Sp!None
<1>5. CASE k < len
    <2>1. PICK j : j = k + 1 /\ j + 1 = k + 2 /\ j \in 1 .. len
        BY <1>5
    <2>2. s[j] \in 1 .. Len(normal) /\ s[j + 1] \in 1 .. Len(normal) + 1 /\ s[j] # 0
        BY <1>1, <2>1, MarkIs
    <2>3. q[s[j]].length = s[j + 1] - s[j]
        BY <2>1, SymbolIs DEF SpLinks
    <2>4. q[s[k]].next = s[j] /\ k # len
        BY <1>3, <1>5, <2>1
    <2>5. Sp!Neighbours(q, s[k])
            = Sp!Candidate(s[k], s[j], s[k], (s[k + 1] - s[k]) + (s[j + 1] - s[j]))
        BY <1>2, <1>3, <2>2, <2>3, <2>4, Zenon DEF Sp!Neighbours, Sp!None
    <2>6. (s[k + 1] - s[k]) + (s[j + 1] - s[j]) = s[k + 2] - s[k]
          /\ s[k] + (s[k + 2] - s[k]) - 1 = s[k + 2] - 1
        BY <1>2, <2>1, <2>2
    <2>7. Sp!Neighbours(q, s[k]) =
            IF SubSeq(normal, s[k], s[k + 2] - 1) \in DOMAIN score
            THEN {PairOf(score, normal, s, k)} ELSE {}
        BY <2>1, <2>5, <2>6, Zenon DEF Sp!Candidate, Sp!Piece, PairOf
    <2> QED
        BY <1>5, <2>7
<1> QED
    BY <1>4, <1>5

\* A pair that is not stale is the one of two neighbours.
LEMMA FreshPair ==
    ASSUME normal \in Seq(Letters), NEW len \in Nat, NEW s, SpLinks(normal, symbols, s, len),
           SpPairs(score, normal, pairs, s, len), NEW x \in pairs, ~Sp!Stale(x)
    PROVE  \E a \in 1 .. len - 1 :
                /\ x.left = s[a] /\ x.right = s[a + 1] /\ x.length = s[a + 2] - s[a]
                /\ SubSeq(normal, s[a], s[a + 2] - 1) \in DOMAIN score
                /\ x.score = score[SubSeq(normal, s[a], s[a + 2] - 1)]
<1>1. /\ Len(normal) \in Nat /\ Marks(s, len, normal)
      /\ x.left \in 1 .. Len(normal) /\ x.right \in 1 .. Len(normal) /\ x.left < x.right
      /\ symbols[x.left].length # 0 /\ symbols[x.right].length # 0
      /\ symbols[x.left].length + symbols[x.right].length = x.length
      /\ \A k \in 1 .. len : ~(x.left < s[k] /\ s[k] < x.right)
      /\ SubSeq(normal, x.left, x.left + x.length - 1) \in DOMAIN score
      /\ x.score = score[SubSeq(normal, x.left, x.left + x.length - 1)]
    BY DEF SpLinks, SpPairs, PairRight, Sp!Stale
<1>2. PICK a \in 1 .. len : x.left = s[a]
    BY <1>1 DEF SpLinks
<1>3. PICK b \in 1 .. len : x.right = s[b]
    BY <1>1 DEF SpLinks
<1>4. a \in 1 .. len + 1 /\ b \in 1 .. len + 1 /\ a + 1 \in 1 .. len + 1
    OBVIOUS
<1>5. a < b
    BY <1>1, <1>2, <1>3, <1>4, MarksRise
<1>6. b = a + 1
    <2>1. SUFFICES ASSUME a + 1 < b PROVE FALSE
        BY <1>5
    <2>2. a + 1 \in 1 .. len
        BY <1>5, <2>1
    <2>3. s[a] < s[a + 1]
        BY <1>1, <1>4, MarksRise
    <2>4. s[a + 1] < s[b]
        BY <1>1, <1>4, <2>1, MarksRise
    <2> QED
        BY <1>1, <1>2, <1>3, <2>2, <2>3, <2>4
<1>7. a \in 1 .. len - 1 /\ b + 1 = a + 2
    BY <1>6
<1>8. /\ s[a] \in 1 .. Len(normal) /\ s[a + 1] \in 1 .. Len(normal) + 1
      /\ s[b] \in 1 .. Len(normal) /\ s[b + 1] \in 1 .. Len(normal) + 1
    BY <1>1, MarkIs
<1>9. symbols[s[a]].length = s[a + 1] - s[a] /\ symbols[s[b]].length = s[b + 1] - s[b]
    BY SymbolIs DEF SpLinks
<1>10. x.length = s[a + 2] - s[a] /\ x.left + x.length - 1 = s[a + 2] - 1
    BY <1>1, <1>2, <1>3, <1>6, <1>7, <1>8, <1>9
<1> QED
    BY <1>1, <1>2, <1>3, <1>6, <1>7, <1>10

Grown(y, l, m) == [y EXCEPT !.length = l, !.next = m]
Gone(y) == [y EXCEPT !.length = 0]
Moved(y, m) == [y EXCEPT !.prev = m]

LEMMA SymbolSet ==
    ASSUME NEW y \in SpSymbol, NEW l \in Int, NEW m \in Int
    PROVE  /\ Grown(y, l, m) = [start |-> y.start, length |-> l, prev |-> y.prev, next |-> m]
           /\ Gone(y) = [start |-> y.start, length |-> 0, prev |-> y.prev, next |-> y.next]
           /\ Moved(y, m) = [start |-> y.start, length |-> y.length, prev |-> m, next |-> y.next]
           /\ y.start \in Int /\ y.length \in Int /\ y.prev \in Int /\ y.next \in Int
<1>1. PICK a \in Int, b \in Int, c \in Int, d \in Int :
        y = [start |-> a, length |-> b, prev |-> c, next |-> d]
    BY DEF SpSymbol
<1>2. y.start = a /\ y.length = b /\ y.prev = c /\ y.next = d
    BY <1>1
<1>3. [y EXCEPT !.length = l, !.next = m] = [start |-> a, length |-> l, prev |-> c, next |-> m]
    <2>1. [y EXCEPT !.length = l, !.next = m] = [[y EXCEPT !.length = l] EXCEPT !.next = m]
        OBVIOUS
    <2>2. [y EXCEPT !.length = l] = [start |-> a, length |-> l, prev |-> c, next |-> d]
        BY <1>1
    <2>3. [[start |-> a, length |-> l, prev |-> c, next |-> d] EXCEPT !.next = m]
            = [start |-> a, length |-> l, prev |-> c, next |-> m]
        OBVIOUS
    <2> QED
        BY <2>1, <2>2, <2>3
<1>4. [y EXCEPT !.length = 0] = [start |-> a, length |-> 0, prev |-> c, next |-> d]
    BY <1>1
<1>5. [y EXCEPT !.prev = m] = [start |-> a, length |-> b, prev |-> m, next |-> d]
    BY <1>1
<1>6. a \in Int /\ b \in Int /\ c \in Int /\ d \in Int
    OBVIOUS
<1> QED
    BY <1>2, <1>3, <1>4, <1>5, <1>6, Zenon DEF Grown, Gone, Moved

LEMMA SymbolKind ==
    ASSUME NEW y \in SpSymbol, NEW l \in Int, NEW m \in Int
    PROVE  Grown(y, l, m) \in SpSymbol /\ Gone(y) \in SpSymbol /\ Moved(y, m) \in SpSymbol
<1>1. [y EXCEPT !.length = l, !.next = m] \in SpSymbol
    BY DEF SpSymbol
<1>2. [y EXCEPT !.length = 0] \in SpSymbol
    BY DEF SpSymbol
<1>3. [y EXCEPT !.prev = m] \in SpSymbol
    BY DEF SpSymbol
<1> QED
    BY <1>1, <1>2, <1>3 DEF Grown, Gone, Moved

\* What is left of the symbols after a join
LEMMA Relinks ==
    ASSUME normal \in Seq(Letters), NEW len \in Nat, NEW s, SpLinks(normal, symbols, s, len),
           NEW a \in 1 .. len - 1, NEW x,
           x.left = s[a], x.right = s[a + 1], x.length = s[a + 2] - s[a]
    PROVE  SpLinks(normal, Sp!Relinked(x), Without(s, len, a), len - 1)
<1> DEFINE t == Without(s, len, a)
           q == Sp!Relinked(x)
           l == Len(normal)
           after == symbols[x.right].next
           new(i) == CASE i = x.left -> Grown(symbols[i], x.length, after)
                       [] i = x.right -> Gone(symbols[i])
                       [] i = after -> Moved(symbols[i], x.left)
                       [] OTHER -> symbols[i]
<1>1. /\ l \in Nat /\ Marks(s, len, normal) /\ Len(symbols) = l /\ DOMAIN symbols = 1 .. l
      /\ \A i \in 1 .. l : symbols[i] \in SpSymbol
      /\ \A k \in 1 .. len : symbols[s[k]] = Symbol(s, len, k)
      /\ \A i \in 1 .. l : (\A k \in 1 .. len : s[k] # i) => symbols[i].length = 0
    BY DEF SpLinks
<1>2. q = [i \in 1 .. l |-> new(i)]
    BY <1>1, Zenon DEF Sp!Relinked, Grown, Gone, Moved
<1>3. \A k \in 1 .. len : s[k] \in 1 .. l /\ s[k + 1] \in 1 .. l + 1 /\ s[k] < s[k + 1]
    BY <1>1, MarkIs
<1>4. \A i, j \in 1 .. len + 1 : (s[i] < s[j] <=> i < j) /\ (s[i] = s[j] <=> i = j)
    BY <1>1, MarksRise
<1>5. a \in 1 .. len /\ a + 1 \in 1 .. len /\ a + 1 + 1 = a + 2 /\ s[a] # s[a + 1]
    BY <1>4
<1>6. x.length \in Int /\ x.left \in Int /\ s[a + 2] \in 1 .. l + 1
    <2>1. PICK j : j = a + 1 /\ j \in 1 .. len /\ j + 1 = a + 2
        BY <1>5
    <2>2. s[j + 1] \in 1 .. l + 1
        BY <1>3, <2>1
    <2>3. s[a] \in 1 .. l
        BY <1>3, <1>5
    <2> QED
        BY <2>1, <2>2, <2>3
<1>7. after = IF a + 1 = len THEN 0 ELSE s[a + 2]
    BY <1>1, <1>5, SymbolIs
<1>8. after \in Int
    BY <1>6, <1>7
<1>9. \A i \in 1 .. l : q[i] = new(i)
    BY <1>2
<1> HIDE DEF after, q
<1>17. s[a] # after /\ s[a + 1] # after
    <2>1. a \in 1 .. len + 1 /\ a + 1 \in 1 .. len + 1 /\ a + 2 \in 1 .. len + 1
        BY <1>5
    <2>2. s[a] # s[a + 2] /\ s[a + 1] # s[a + 2]
        BY <1>4, <2>1
    <2>3. s[a] # 0 /\ s[a + 1] # 0
        BY <1>3, <1>5
    <2> QED
        BY <1>7, <2>2, <2>3
<1>10. \A k \in 1 .. len : /\ symbols[s[k]].start = s[k] /\ symbols[s[k]].length = s[k + 1] - s[k]
                           /\ symbols[s[k]].prev = IF k = 1 THEN 0 ELSE s[k - 1]
                           /\ symbols[s[k]].next = IF k = len THEN 0 ELSE s[k + 1]
                           /\ symbols[s[k]] \in SpSymbol
    <2> TAKE k \in 1 .. len
    <2>1. symbols[s[k]] \in SpSymbol
        BY <1>1, <1>3
    <2>2. symbols[s[k]] = Symbol(s, len, k)
        BY <1>1
    <2> QED
        <3> DEFINE y == symbols[s[k]]
        <3>1. y = Symbol(s, len, k) /\ y \in SpSymbol
            BY <2>1, <2>2
        <3> HIDE DEF y
        <3>2. y.start = s[k] /\ y.length = s[k + 1] - s[k]
            BY <3>1, SymbolIs
        <3>3. y.prev = IF k = 1 THEN 0 ELSE s[k - 1]
            BY <3>1, SymbolIs
        <3>4. y.next = IF k = len THEN 0 ELSE s[k + 1]
            BY <3>1, SymbolIs
        <3> QED
            BY <3>1, <3>2, <3>3, <3>4 DEF y
<1>11. \A i \in 1 .. l : q[i] \in SpSymbol
    <2> TAKE i \in 1 .. l
    <2>1. symbols[i] \in SpSymbol
        BY <1>1
    <2>2. /\ Grown(symbols[i], x.length, after) \in SpSymbol
          /\ Gone(symbols[i]) \in SpSymbol /\ Moved(symbols[i], x.left) \in SpSymbol
        BY <1>6, <1>8, <2>1, SymbolKind
    <2>3. q[i] = new(i)
        BY <1>9
    <2> QED
        BY <2>1, <2>2, <2>3
<1>12. q \in Seq(SpSymbol) /\ Len(q) = l
    <2>1. q \in [1 .. l -> SpSymbol]
        BY <1>2, <1>11
    <2> QED
        BY <1>1, <2>1
<1>13. Marks(t, len - 1, normal)
    BY <1>1, WithoutMarks
<1>14. \A k \in 1 .. len : t[k] = IF k <= a THEN s[k] ELSE s[k + 1]
    BY DEF Without
<1>15. ASSUME NEW k \in 1 .. len - 1 PROVE q[t[k]] = Symbol(t, len - 1, k)
    <2>0. k \in 1 .. len /\ k + 1 \in 1 .. len
        OBVIOUS
    <2>1. CASE k < a
        <3>1. /\ t[k] = s[k] /\ t[k + 1] = s[k + 1] /\ k # len - 1 /\ k # len
              /\ k # 1 => t[k - 1] = s[k - 1]
            BY <1>14, <2>0, <2>1
        <3>2. s[k] # x.left /\ s[k] # x.right /\ s[k] # after /\ s[k] \in 1 .. l
            <4>1. k \in 1 .. len + 1 /\ a \in 1 .. len + 1 /\ a + 1 \in 1 .. len + 1
                OBVIOUS
            <4>2. s[k] # s[a] /\ s[k] # s[a + 1]
                BY <1>4, <2>1, <4>1
            <4>3. a + 1 # len => s[k] # s[a + 2]
                <5>1. a + 2 \in 1 .. len + 1 /\ k # a + 2
                    BY <2>1
                <5> QED
                    BY <1>4, <4>1, <5>1
            <4>4. s[k] \in 1 .. l
                BY <1>3, <2>0
            <4> QED
                BY <1>7, <4>2, <4>3, <4>4
        <3>3. q[t[k]] = symbols[s[k]]
            BY <1>9, <3>1, <3>2
        <3>4. symbols[s[k]] = Symbol(s, len, k)
            BY <1>1, <2>0
        <3> QED
            BY <3>1, <3>3, <3>4 DEF Symbol
    <2>2. CASE k = a
        <3>1. t[k] = s[a] /\ t[k + 1] = s[a + 2] /\ (k # 1 => t[k - 1] = s[a - 1]) /\ s[a] \in 1 .. l
            BY <1>3, <1>5, <1>14, <2>0, <2>2
        <3>2. q[t[k]] = Grown(symbols[s[a]], x.length, after)
            <4>1. q[t[k]] = new(s[a])
                BY <1>9, <3>1, Zenon
            <4>2. s[a] = x.left /\ s[a] # x.right /\ s[a] # after
                BY <1>5, <1>17
            <4>3. new(s[a]) = Grown(symbols[s[a]], x.length, after)
                BY <4>2, Zenon
            <4> QED
                BY <4>1, <4>3, Zenon
        <3>3. q[t[k]] = [start |-> symbols[s[a]].start, length |-> x.length,
                         prev |-> symbols[s[a]].prev, next |-> after]
            <4> DEFINE y == symbols[s[a]]
            <4>1. y \in SpSymbol
                BY <1>5, <1>10
            <4> HIDE DEF y, new
            <4>2. Grown(y, x.length, after)
                    = [start |-> y.start, length |-> x.length, prev |-> y.prev, next |-> after]
                BY <1>6, <1>8, <4>1, SymbolSet
            <4> QED
                BY <3>2, <4>2, Zenon DEF y
        <3>4. /\ symbols[s[a]].start = t[k] /\ x.length = t[k + 1] - t[k]
              /\ symbols[s[a]].prev = IF k = 1 THEN 0 ELSE t[k - 1]
            BY <1>5, <1>10, <2>2, <3>1
        <3>5. after = IF k = len - 1 THEN 0 ELSE t[k + 1]
            BY <1>7, <2>2, <3>1
        <3> QED
            BY <3>3, <3>4, <3>5, Zenon DEF Symbol
    <2>3. CASE k = a + 1
        <3>1. PICK j : j = a + 2 /\ j = k + 1 /\ j \in 1 .. len /\ j - 1 = a + 1 /\ j # 1
            BY <2>3
        <3>2. t[k] = s[j] /\ t[k + 1] = s[j + 1] /\ t[k - 1] = s[a] /\ k # 1 /\ s[j] \in 1 .. l
            <4>1. ~(k <= a) /\ ~(k + 1 <= a) /\ k - 1 \in 1 .. len /\ k - 1 = a /\ k - 1 <= a
                BY <2>3
            <4> HIDE DEF t
            <4>2. t[k] = s[k + 1] /\ t[k + 1] = s[k + 1 + 1]
                BY <1>14, <2>0, <4>1
            <4>3. t[k - 1] = s[k - 1]
                BY <1>14, <4>1
            <4>4. k # 1 /\ s[j] \in 1 .. l
                BY <1>3, <3>1, <4>1
            <4> QED
                BY <3>1, <4>1, <4>2, <4>3, <4>4
        <3>3. s[j] # x.left /\ s[j] # x.right /\ s[j] = after
            <4>1. j \in 1 .. len + 1 /\ a \in 1 .. len + 1 /\ a + 1 \in 1 .. len + 1
                  /\ j # a /\ j # a + 1 /\ a + 1 # len
                BY <3>1
            <4> QED
                BY <1>4, <1>7, <3>1, <4>1
        <3>4. q[t[k]] = Moved(symbols[s[j]], x.left)
            BY <1>9, <3>2, <3>3
        <3>5. q[t[k]] = [start |-> symbols[s[j]].start, length |-> symbols[s[j]].length,
                         prev |-> x.left, next |-> symbols[s[j]].next]
            BY <1>6, <1>10, <3>1, <3>4, SymbolSet
        <3>6. /\ symbols[s[j]].start = t[k] /\ symbols[s[j]].length = t[k + 1] - t[k]
              /\ symbols[s[j]].next = IF k = len - 1 THEN 0 ELSE t[k + 1]
              /\ x.left = IF k = 1 THEN 0 ELSE t[k - 1]
            <4>1. symbols[s[j]].next = IF j = len THEN 0 ELSE s[j + 1]
                BY <1>10, <3>1
            <4>2. symbols[s[j]].start = s[j] /\ symbols[s[j]].length = s[j + 1] - s[j]
                BY <1>10, <3>1
            <4>3. j = len <=> k = len - 1
                BY <3>1
            <4> HIDE DEF new, t
            <4> QED
                BY <3>2, <4>1, <4>2, <4>3
        <3> QED
            BY <3>5, <3>6, Zenon DEF Symbol
    <2>4. CASE k > a + 1
        <3>1. PICK j : j = k + 1 /\ j \in 1 .. len /\ j - 1 = k /\ j # 1
            OBVIOUS
        <3>2. t[k] = s[j] /\ t[k + 1] = s[j + 1] /\ t[k - 1] = s[j - 1] /\ k # 1 /\ s[j] \in 1 .. l
            <4>1. ~(k <= a) /\ ~(k + 1 <= a) /\ k - 1 \in 1 .. len /\ ~(k - 1 <= a) /\ k - 1 + 1 = j - 1
                BY <2>4, <3>1
            <4> HIDE DEF t
            <4>2. t[k] = s[k + 1] /\ t[k + 1] = s[k + 1 + 1]
                BY <1>14, <2>0, <4>1
            <4>3. t[k - 1] = s[k - 1 + 1]
                BY <1>14, <4>1
            <4>4. k # 1
                BY <4>1
            <4>5. s[j] \in 1 .. l
                BY <1>3, <3>1
            <4> QED
                BY <3>1, <4>1, <4>2, <4>3, <4>4, <4>5
        <3>3. s[j] # x.left /\ s[j] # x.right /\ s[j] # after
            <4>1. j \in 1 .. len + 1 /\ a \in 1 .. len + 1 /\ a + 1 \in 1 .. len + 1
                  /\ j # a /\ j # a + 1 /\ j # a + 2 /\ a + 2 \in 1 .. len + 1 /\ a + 1 # len
                BY <2>4, <3>1
            <4>2. s[j] # s[a] /\ s[j] # s[a + 1] /\ s[j] # s[a + 2]
                BY <1>4, <4>1
            <4> QED
                BY <1>7, <4>1, <4>2
        <3>4. q[t[k]] = symbols[s[j]]
            BY <1>9, <3>2, <3>3
        <3>5. symbols[s[j]] = Symbol(s, len, j)
            BY <1>1, <3>1
        <3>6. j = len <=> k = len - 1
            BY <3>1
        <3> QED
            BY <2>4, <3>1, <3>2, <3>4, <3>5, <3>6 DEF Symbol
    <2> QED
        BY <2>1, <2>2, <2>3, <2>4
<1>16. ASSUME NEW i \in 1 .. l, \A k \in 1 .. len - 1 : t[k] # i PROVE q[i].length = 0
    <2>1. CASE i = s[a + 1]
        <3>1. i # x.left /\ i = x.right
            BY <1>5, <2>1
        <3>2. q[i] = Gone(symbols[i])
            <4>1. q[i] = new(i)
                BY <1>9, Zenon
            <4>2. i # after
                BY <1>17, <2>1
            <4>3. new(i) = Gone(symbols[i])
                BY <3>1, <4>2, Zenon
            <4> QED
                BY <4>1, <4>3, Zenon
        <3>3. symbols[i] \in SpSymbol /\ 0 \in Int
            BY <1>1
        <3>4. Gone(symbols[i]) = [start |-> symbols[i].start, length |-> 0,
                                  prev |-> symbols[i].prev, next |-> symbols[i].next]
            BY <3>3, SymbolSet
        <3> HIDE DEF new
        <3> QED
            BY <3>2, <3>4
    <2>2. CASE i # s[a + 1]
        <3>1. \A k \in 1 .. len : s[k] # i
            <4> TAKE k \in 1 .. len
            <4>1. CASE k <= a
                <5>1. k \in 1 .. len - 1 /\ t[k] = s[k]
                    BY <1>14, <4>1
                <5> QED
                    BY <1>16, <5>1
            <4>2. CASE k = a + 1
                BY <2>2, <4>2
            <4>3. CASE k > a + 1
                <5>1. PICK j : j = k - 1 /\ j \in 1 .. len - 1 /\ j \in 1 .. len /\ ~(j <= a) /\ j + 1 = k
                    BY <4>3
                <5>2. t[j] = s[k]
                    BY <1>14, <5>1
                <5> QED
                    BY <1>16, <5>1, <5>2
            <4> QED
                BY <4>1, <4>2, <4>3
        <3>2. i # x.left /\ i # x.right
            BY <1>5, <3>1
        <3>3. i # after
            <4>1. CASE a + 1 = len
                BY <1>7, <4>1
            <4>2. CASE a + 1 # len
                <5>1. a + 2 \in 1 .. len
                    BY <4>2
                <5> QED
                    BY <1>7, <3>1, <4>2, <5>1
            <4> QED
                BY <4>1, <4>2
        <3>4. q[i] = symbols[i]
            BY <1>9, <3>2, <3>3
        <3> QED
            BY <1>1, <3>1, <3>4
    <2> QED
        BY <2>1, <2>2
<1> QED
    BY <1>12, <1>13, <1>15, <1>16 DEF SpLinks, q, t

\* The pair of a symbol and the next, where the two can be joined
LEMMA NeighbourIs ==
    ASSUME normal \in Seq(Letters), NEW q, NEW len \in Nat, NEW s, SpLinks(normal, q, s, len),
           NEW k \in 1 .. len
    PROVE  LET N == Sp!Neighbours(q, s[k])
           IN  /\ \A y \in N : PairRight(score, normal, s, len, y)
               /\ k < len /\ SubSeq(normal, s[k], s[k + 2] - 1) \in DOMAIN score
                    => PairOf(score, normal, s, k) \in N
               /\ \E y : N \subseteq {y}
<1> DEFINE N == Sp!Neighbours(q, s[k])
<1>1. CASE k = len
    <2>1. N = {}
        BY <1>1, NeighboursAre
    <2> HIDE DEF N
    <2> QED
        BY <1>1, <2>1 DEF N
<1>2. CASE k < len
    <2>1. k \in 1 .. len - 1 /\ Marks(s, len, normal)
        BY <1>2 DEF SpLinks
    <2>2. N = IF SubSeq(normal, s[k], s[k + 2] - 1) \in DOMAIN score
              THEN {PairOf(score, normal, s, k)} ELSE {}
        BY <1>2, NeighboursAre
    <2>3. SubSeq(normal, s[k], s[k + 2] - 1) \in DOMAIN score
            => PairRight(score, normal, s, len, PairOf(score, normal, s, k))
        BY <2>1, PairOfIs
    <2> HIDE DEF N
    <2> QED
        BY <2>2, <2>3, Zenon DEF N
<1>3. k = len \/ k < len
    OBVIOUS
<1> HIDE DEF N
<1> QED
    BY <1>1, <1>2, <1>3, Zenon DEF N

Around(M, N, s, len, a) ==
    /\ \A y \in M \cup N : PairRight(score, normal, s, len, y)
    /\ \A k \in 1 .. len - 1 :
            k \in {a - 1, a} /\ SubSeq(normal, s[k], s[k + 2] - 1) \in DOMAIN score
                => PairOf(score, normal, s, k) \in M \cup N
    /\ \E y : M \subseteq {y}
    /\ \E y : N \subseteq {y}

LEMMA AroundIs ==
    ASSUME normal \in Seq(Letters), NEW q, NEW len \in Nat, NEW s, SpLinks(normal, q, s, len),
           NEW a \in 1 .. len
    PROVE  Around(Sp!Neighbours(q, q[s[a]].prev), Sp!Neighbours(q, s[a]), s, len, a)
<1> DEFINE M == Sp!Neighbours(q, q[s[a]].prev)
           N == Sp!Neighbours(q, s[a])
           Can(k) == SubSeq(normal, s[k], s[k + 2] - 1) \in DOMAIN score
<1>1. /\ \A y \in N : PairRight(score, normal, s, len, y)
      /\ a < len /\ Can(a) => PairOf(score, normal, s, a) \in N
      /\ \E y : N \subseteq {y}
    BY NeighbourIs
<1>2. q[s[a]].prev = IF a = 1 THEN 0 ELSE s[a - 1]
    BY SymbolIs DEF SpLinks
<1>3. /\ \A y \in M : PairRight(score, normal, s, len, y)
      /\ a > 1 /\ Can(a - 1) => PairOf(score, normal, s, a - 1) \in M
      /\ \E y : M \subseteq {y}
    <2>1. CASE a = 1
        <3>1. M = {}
            BY <1>2, <2>1 DEF Sp!Neighbours, Sp!None
        <3> HIDE DEF M
        <3> QED
            BY <2>1, <3>1
    <2>2. CASE a # 1
        <3>1. PICK k \in 1 .. len : k = a - 1 /\ k < len
            BY <2>2
        <3>2. M = Sp!Neighbours(q, s[k])
            BY <1>2, <2>2, <3>1
        <3>3. /\ \A y \in M : PairRight(score, normal, s, len, y)
              /\ k < len /\ Can(k) => PairOf(score, normal, s, k) \in M
              /\ \E y : M \subseteq {y}
            BY <3>2, NeighbourIs
        <3> HIDE DEF Can, M
        <3> QED
            BY <3>1, <3>3
    <2> QED
        BY <2>1, <2>2
<1> HIDE DEF M, N
<1>4. ASSUME NEW k \in 1 .. len - 1, k \in {a - 1, a}, Can(k)
      PROVE  PairOf(score, normal, s, k) \in M \cup N
    <2> HIDE DEF Can
    <2>1. CASE k = a
        BY <1>1, <1>4, <2>1
    <2>2. CASE k = a - 1
        <3>1. a > 1 /\ Can(a - 1)
            BY <1>4, <2>2
        <3> QED
            BY <1>3, <2>2, <3>1
    <2> QED
        BY <1>4, <2>1, <2>2
<1>5. \A y \in M \cup N : PairRight(score, normal, s, len, y)
    BY <1>1, <1>3
<1> QED
    BY <1>1, <1>3, <1>4, <1>5, Zenon DEF Around, M, N, Can

\* The pairs after a join
AfterJoin(c, M, N, s, len) ==
    /\ SpPairs(score, normal, (c \cup M) \cup N, s, len)
    /\ \E y : M \subseteq {y}
    /\ \E y : N \subseteq {y}

LEMMA JoinedPairs ==
    ASSUME normal \in Seq(Letters), NEW len \in Nat, NEW s, SpLinks(normal, symbols, s, len),
           SpPairs(score, normal, pairs, s, len), NEW a \in 1 .. len - 1, NEW x,
           x.left = s[a], x.right = s[a + 1], x.length = s[a + 2] - s[a]
    PROVE  LET q == Sp!Relinked(x)
           IN  AfterJoin(pairs \ {x}, Sp!Neighbours(q, q[x.left].prev), Sp!Neighbours(q, x.left),
                         Without(s, len, a), len - 1)
<1> DEFINE q == Sp!Relinked(x)
           M == Sp!Neighbours(q, q[x.left].prev)
           N == Sp!Neighbours(q, x.left)
           t == Without(s, len, a)
           c == ((pairs \ {x}) \cup M) \cup N
<1>1. SpLinks(normal, q, t, len - 1) /\ len - 1 \in Nat /\ a \in 1 .. len - 1
    BY Relinks
<1>2. \A k \in 1 .. len : t[k] = IF k <= a THEN s[k] ELSE s[k + 1]
    BY DEF Without
<1>3. t[a] = x.left
    BY <1>2
<1> HIDE DEF q, t
<1>4. Around(M, N, t, len - 1, a)
    <2>1. Around(Sp!Neighbours(q, q[t[a]].prev), Sp!Neighbours(q, t[a]), t, len - 1, a)
        BY <1>1, AroundIs
    <2> QED
        BY <1>3, <2>1, Zenon
<1>10. /\ \A y \in M \cup N : PairRight(score, normal, t, len - 1, y)
       /\ \A k \in 1 .. len - 1 - 1 :
            k \in {a - 1, a} /\ SubSeq(normal, t[k], t[k + 2] - 1) \in DOMAIN score
                => PairOf(score, normal, t, k) \in M \cup N
       /\ \E y : M \subseteq {y}
       /\ \E y : N \subseteq {y}
    BY <1>4, Zenon DEF Around
<1> HIDE DEF M, N
<1>5. ASSUME NEW y \in c PROVE PairRight(score, normal, t, len - 1, y)
    <2>1. CASE y \in M \cup N
        BY <1>10, <2>1
    <2>2. CASE y \in pairs
        <3>1. PairRight(score, normal, s, len, y)
            BY <2>2 DEF SpPairs
        <3>2. \A k \in 1 .. len - 1 : ~(y.left < t[k] /\ t[k] < y.right)
            <4> TAKE k \in 1 .. len - 1
            <4>1. k \in 1 .. len /\ k + 1 \in 1 .. len
                OBVIOUS
            <4>2. PICK j \in 1 .. len : t[k] = s[j]
                BY <1>2, <4>1
            <4> QED
                BY <3>1, <4>2 DEF PairRight
        <3> QED
            BY <3>1, <3>2 DEF PairRight
    <2> QED
        BY <2>1, <2>2
<1>6. /\ Marks(s, len, normal) /\ Len(normal) \in Nat
      /\ \A k \in 1 .. len - 1 :
            SubSeq(normal, s[k], s[k + 2] - 1) \in DOMAIN score
                => PairOf(score, normal, s, k) \in pairs
    BY DEF SpLinks, SpPairs
<1>7. \A k \in 1 .. len - 1 : k # a => PairOf(score, normal, s, k) # x
    <2> TAKE k \in 1 .. len - 1
    <2>1. k \in 1 .. len + 1 /\ a \in 1 .. len + 1
        OBVIOUS
    <2>2. s[k] = s[a] <=> k = a
        BY <1>6, <2>1, MarksRise
    <2>3. PairOf(score, normal, s, k).left = s[k]
        BY DEF PairOf
    <2> QED
        BY <2>2, <2>3
<1>8. ASSUME NEW k \in 1 .. len - 1 - 1, SubSeq(normal, t[k], t[k + 2] - 1) \in DOMAIN score
      PROVE  PairOf(score, normal, t, k) \in c
    <2>1. CASE k \in {a - 1, a}
        BY <1>10, <1>8, <2>1
    <2>2. CASE k < a - 1
        <3>1. t[k] = s[k] /\ t[k + 1] = s[k + 1] /\ t[k + 2] = s[k + 2]
            <4>1. k \in 1 .. len /\ k + 1 \in 1 .. len /\ k + 2 \in 1 .. len
                  /\ k <= a /\ k + 1 <= a /\ k + 2 <= a
                BY <2>2
            <4> QED
                BY <1>2, <4>1
        <3>2. PairOf(score, normal, t, k) = PairOf(score, normal, s, k)
            BY <3>1, Zenon DEF PairOf
        <3>3. k \in 1 .. len - 1 /\ k # a
            BY <2>2
        <3>4. SubSeq(normal, s[k], s[k + 2] - 1) \in DOMAIN score
            BY <1>8, <3>1
        <3> QED
            BY <1>6, <1>7, <3>2, <3>3, <3>4
    <2>3. CASE k > a
        <3>1. PICK j \in 1 .. len - 1 : j = k + 1 /\ j # a /\ j + 1 = k + 1 + 1 /\ j + 2 = k + 2 + 1
            BY <2>3
        <3>2. t[k] = s[j] /\ t[k + 1] = s[j + 1] /\ t[k + 2] = s[j + 2]
            <4>1. k \in 1 .. len /\ k + 1 \in 1 .. len /\ k + 2 \in 1 .. len
                  /\ ~(k <= a) /\ ~(k + 1 <= a) /\ ~(k + 2 <= a)
                BY <2>3
            <4> QED
                BY <1>2, <3>1, <4>1
        <3>3. PairOf(score, normal, t, k) = PairOf(score, normal, s, j)
            BY <3>2, Zenon DEF PairOf
        <3>4. SubSeq(normal, s[j], s[j + 2] - 1) \in DOMAIN score
            BY <1>8, <3>2
        <3> QED
            BY <1>6, <1>7, <3>1, <3>3, <3>4
    <2> QED
        BY <2>1, <2>2, <2>3
<1>9. SpPairs(score, normal, c, t, len - 1)
    <2> HIDE DEF c
    <2> QED
        BY <1>5, <1>8, Zenon DEF SpPairs
<1> QED
    BY <1>10, <1>9, Zenon DEF AfterJoin, q, M, N, t, c

LEMMA SpMax == \A S : Sp!Max(S) = Max(S)
BY Zenon DEF Sp!Max, Max

\* The symbols that emission reads are those that are left.
LEMMA LinkedIs == symbols \in Seq(SpSymbol) => Sp!Linked = Filter(symbols)
<1> SUFFICES ASSUME symbols \in Seq(SpSymbol) PROVE Sp!Linked = Filter(symbols)
    OBVIOUS
<1> DEFINE what == [loop |-> "keep"]
           none == <<>>
           len == Len(symbols)
           Kept(v, x) == IF x.length > 0 THEN Append(v, x) ELSE v
           Folds(g) ==
                g = [S \in SUBSET (DOMAIN symbols) |->
                        IF S = {} THEN none
                        ELSE Kept(g[S \ {Sp!Max(S)}], symbols[Sp!Max(S)])]
<1>1. Sp!Linked = (CHOOSE g : Folds(g))[DOMAIN symbols]
    BY Zenon DEF Sp!Linked, Sp!FoldLeft, Sp!MapThenFoldSet
<1>2. DOMAIN symbols = 1 .. len
    OBVIOUS
<1>3. \A v, x : Loop(what, v, x) = Kept(v, x)
    BY DEF Loop
<1> HIDE DEF what, none, len, Kept
<1>4. ASSUME NEW g PROVE Folds(g) <=> IsFold(g, what, none, symbols, len)
    <2>1. Folds(g) <=>
            g = [S \in SUBSET (1 .. len) |->
                    IF S = {} THEN none ELSE Kept(g[S \ {Max(S)}], symbols[Max(S)])]
        BY <1>2, SpMax, Zenon
    <2>2. \A S : Kept(g[S \ {Max(S)}], symbols[Max(S)]) = Loop(what, g[S \ {Max(S)}], symbols[Max(S)])
        BY <1>3, Zenon
    <2> QED
        BY <2>1, <2>2 DEF IsFold
<1> HIDE DEF Folds
<1>5. (CHOOSE g : Folds(g)) = CHOOSE g : IsFold(g, what, none, symbols, len)
    BY <1>4
<1> QED
    BY <1>1, <1>2, <1>5, Zenon DEF Result, Filter, what, none, len

LEMMA SpSegments == symbols \in Seq(SpSymbol) => Sp!Segments = SegmentsOf(normal, symbols)
<1> SUFFICES ASSUME symbols \in Seq(SpSymbol) PROVE Sp!Segments = SegmentsOf(normal, symbols)
    OBVIOUS
<1>1. Sp!Linked = Filter(symbols)
    BY LinkedIs
<1> QED
    BY <1>1, Zenon DEF Sp!Segments, Sp!Piece, SegmentsOf

LEMMA SpSegmentsThen ==
    symbols' \in Seq(SpSymbol) => Sp!Segments' = SegmentsOf(normal', symbols')
<1>1. (symbols \in Seq(SpSymbol) => Sp!Segments = SegmentsOf(normal, symbols))'
    BY SpSegments, PTL
<1> QED
    BY <1>1

LEMMA CardGrows ==
    ASSUME NEW S, IsFiniteSet(S), NEW M, \E y : M \subseteq {y}
    PROVE  /\ IsFiniteSet(S \cup M) /\ Cardinality(S) \in Nat /\ Cardinality(S \cup M) \in Nat
           /\ Cardinality(S) <= Cardinality(S \cup M)
           /\ Cardinality(S \cup M) <= Cardinality(S) + 1
<1>1. PICK y : M \subseteq {y}
    OBVIOUS
<1>2. S \cup M = S \/ S \cup M = S \cup {y}
    BY <1>1
<1>3. /\ IsFiniteSet(S \cup {y}) /\ Cardinality(S) \in Nat
      /\ Cardinality(S \cup {y}) = IF y \in S THEN Cardinality(S) ELSE Cardinality(S) + 1
    BY FS_AddElement, FS_CardinalityType
<1> QED
    BY <1>2, <1>3
-----------------------------------------------------------------------------
\* The first k elements of a sequence
LEMMA HeadIs ==
    ASSUME NEW S, NEW p \in Seq(S), NEW k \in 0 .. Len(p)
    PROVE  /\ SubSeq(p, 1, k) \in Seq(S) /\ Len(SubSeq(p, 1, k)) = k
           /\ \A i \in 1 .. k : SubSeq(p, 1, k)[i] = p[i]
<1>1. \A i \in 1 .. k : p[i] \in S
    OBVIOUS
<1>2. /\ SubSeq(p, 1, k) \in Seq(S)
      /\ Len(SubSeq(p, 1, k)) = IF 1 <= k THEN k - 1 + 1 ELSE 0
      /\ \A i \in 1 .. k - 1 + 1 : SubSeq(p, 1, k)[i] = p[1 + i - 1]
    BY <1>1, SubSeqProperties
<1>3. k - 1 + 1 = k /\ (IF 1 <= k THEN k - 1 + 1 ELSE 0) = k /\ \A i \in 1 .. k : 1 + i - 1 = i
    OBVIOUS
<1> QED
    BY <1>2, <1>3

LEMMA HeadOfHead ==
    ASSUME NEW S, NEW p \in Seq(S), NEW k \in 0 .. Len(p), NEW m \in 0 .. k
    PROVE  SubSeq(SubSeq(p, 1, k), 1, m) = SubSeq(p, 1, m)
<1> DEFINE h == SubSeq(p, 1, k)
<1>1. h \in Seq(S) /\ Len(h) = k /\ \A i \in 1 .. k : h[i] = p[i]
    BY HeadIs
<1>2. m \in 0 .. Len(p) /\ \A i \in 1 .. m : i \in 1 .. k
    OBVIOUS
<1> HIDE DEF h
<1>3. /\ SubSeq(h, 1, m) \in Seq(S) /\ Len(SubSeq(h, 1, m)) = m
      /\ \A i \in 1 .. m : SubSeq(h, 1, m)[i] = h[i]
    BY <1>1, HeadIs
<1>4. /\ SubSeq(p, 1, m) \in Seq(S) /\ Len(SubSeq(p, 1, m)) = m
      /\ \A i \in 1 .. m : SubSeq(p, 1, m)[i] = p[i]
    BY <1>2, HeadIs
<1>5. \A i \in 1 .. m : SubSeq(h, 1, m)[i] = SubSeq(p, 1, m)[i]
    BY <1>1, <1>2, <1>3, <1>4
<1> QED
    BY <1>3, <1>4, <1>5, SeqEqual DEF h

\* What a room of k leaves of a sequence
LEMMA FirstIs ==
    ASSUME NEW S, NEW p \in Seq(S), NEW k \in Nat
    PROVE  /\ Sp!First(p, k) \in Seq(S)
           /\ Len(Sp!First(p, k)) \in 0 .. Len(p)
           /\ Sp!First(p, k) = SubSeq(p, 1, Len(Sp!First(p, k)))
           /\ Len(p) <= k => Sp!First(p, k) = p
           /\ ~(Len(p) <= k) => Sp!First(p, k) = SubSeq(p, 1, k) /\ Len(Sp!First(p, k)) = k
<1>1. Len(p) \in Nat
    BY LenProperties
<1>2. CASE Len(p) <= k
    <2>1. Sp!First(p, k) = p
        BY <1>2 DEF Sp!First
    <2>2. SubSeq(p, 1, Len(p)) = p
        BY SubSeqFull
    <2>3. Len(p) \in 0 .. Len(p)
        BY <1>1
    <2> QED
        BY <1>2, <2>1, <2>2, <2>3, Zenon
<1>3. CASE ~(Len(p) <= k)
    <2>1. Sp!First(p, k) = SubSeq(p, 1, k)
        BY <1>3 DEF Sp!First
    <2>2. k \in 0 .. Len(p)
        BY <1>1, <1>3
    <2>3. SubSeq(p, 1, k) \in Seq(S) /\ Len(SubSeq(p, 1, k)) = k
        BY <2>2, HeadIs
    <2> QED
        BY <1>3, <2>1, <2>2, <2>3, Zenon
<1> QED
    BY <1>2, <1>3

\* What there are symbols for: the start of the normalized text n
Taken(n, p) == n \in Seq(Letters) /\ p = Sp!First(Sp!First(n, NormRoom), SymbolRoom)

LEMMA TakenIs ==
    ASSUME NEW n, NEW p, Taken(n, p)
    PROVE  /\ p \in Seq(Letters) /\ Len(p) \in 0 .. Len(n) /\ p = SubSeq(n, 1, Len(p))
           /\ Len(p) <= SymbolRoom
           /\ p = n \/ Len(p) \in {NormRoom, SymbolRoom}
<1> DEFINE h == Sp!First(n, NormRoom)
<1>1. n \in Seq(Letters) /\ p = Sp!First(h, SymbolRoom)
    BY DEF Taken
<1>2. NormRoom \in Nat /\ SymbolRoom \in Nat /\ Len(n) \in Nat
    BY <1>1, ScoreAssumption, LenProperties
<1>3. /\ h \in Seq(Letters) /\ Len(h) \in 0 .. Len(n) /\ h = SubSeq(n, 1, Len(h))
      /\ h = n \/ Len(h) = NormRoom
    BY <1>1, <1>2, FirstIs
<1> HIDE DEF h
<1>4. /\ p \in Seq(Letters) /\ Len(p) \in 0 .. Len(h) /\ p = SubSeq(h, 1, Len(p))
      /\ Len(h) <= SymbolRoom => p = h
      /\ ~(Len(h) <= SymbolRoom) => Len(p) = SymbolRoom
    BY <1>1, <1>2, <1>3, FirstIs
<1>5. SubSeq(SubSeq(n, 1, Len(h)), 1, Len(p)) = SubSeq(n, 1, Len(p))
    BY <1>1, <1>3, <1>4, HeadOfHead
<1>6. p = SubSeq(n, 1, Len(p))
    BY <1>3, <1>4, <1>5, Zenon
<1>9. /\ Len(n) \in Nat /\ Len(h) \in 0 .. Len(n) /\ Len(p) \in 0 .. Len(h) /\ SymbolRoom \in Nat
      /\ ~(Len(h) <= SymbolRoom) => Len(p) = SymbolRoom
    BY <1>2, <1>3, <1>4, Zenon
<1>7. Len(p) \in 0 .. Len(n)
    BY <1>9
<1>8. Len(p) <= SymbolRoom
    BY <1>9
<1> QED
    BY <1>3, <1>4, <1>6, <1>7, <1>8, Zenon

\* What the first m parts spell, of a piece p in len parts
LEMMA HeadSpelled ==
    ASSUME NEW p \in Seq(Letters), NEW len \in Nat \ {0}, NEW s, Marks(s, len, p),
           NEW m \in 0 .. len
    PROVE  \E k \in 0 .. Len(p) : FlattenSeq(SubSeq(Between(p, s, len), 1, m)) = SubSeq(p, 1, k)
<1> DEFINE w == Between(p, s, len)
           S == Seq(Letters)
<1>1. len \in Nat /\ Len(p) \in Nat /\ w \in Seq(S) /\ Len(w) = len
    <2>1. \A i \in 1 .. len : w[i] \in S
        BY BetweenIs
    <2>2. w \in [1 .. len -> S]
        <3>1. w = [i \in 1 .. len |-> w[i]]
            BY DEF Between
        <3> HIDE DEF w, S
        <3> QED
            BY <2>1, <3>1
    <2> HIDE DEF w, S
    <2> QED
        BY <2>2
<1>2. CASE m = 0
    <2>1. SubSeq(w, 1, m) = <<>> /\ SubSeq(p, 1, 0) = <<>>
        <3> HIDE DEF w
        <3> QED
            BY <1>2, SubSeqEmpty
    <2>2. FlattenSeq(<<>>) = <<>>
        BY DEF FlattenSeq
    <2>3. 0 \in 0 .. Len(p)
        BY <1>1
    <2> QED
        BY <2>1, <2>2, <2>3
<1>3. CASE m # 0
    <2> DEFINE k == s[m + 1] - 1
               q == SubSeq(p, 1, k)
               t == [i \in 1 .. m + 1 |-> s[i]]
               v == Between(q, t, m)
    <2>1. m \in Nat \ {0} /\ m + 1 \in 1 .. len + 1 /\ m \in 0 .. len
        BY <1>1, <1>3
    <2>2. s[m + 1] \in 1 .. Len(p) + 1
        BY <2>1 DEF Marks
    <2>3. k \in 0 .. Len(p) /\ k + 1 = s[m + 1]
        BY <1>1, <2>2
    <2> HIDE DEF k
    <2>4. q \in Seq(Letters) /\ Len(q) = k
        BY <2>3, HeadIs
    <2> HIDE DEF q
    <2>5. \A i \in 1 .. m + 1 :
            i \in 1 .. len + 1 /\ t[i] = s[i] /\ (i # m + 1 => s[i] < s[m + 1]) /\ s[i] \in 1 .. Len(p) + 1
        <3> TAKE i \in 1 .. m + 1
        <3>1. i \in 1 .. len + 1 /\ (i # m + 1 => i < m + 1)
            BY <2>1
        <3> QED
            BY <2>1, <3>1 DEF Marks
    <2>6. Marks(t, m, q)
        <3>1. \A i \in 1 .. m + 1 : t[i] \in 1 .. Len(q) + 1
            BY <1>1, <2>2, <2>3, <2>4, <2>5
        <3>2. t \in [1 .. m + 1 -> 1 .. Len(q) + 1]
            BY <3>1
        <3>3. 1 \in 1 .. m + 1 /\ m + 1 \in 1 .. m + 1
            BY <2>1
        <3>4. t[1] = 1 /\ t[m + 1] = Len(q) + 1
            BY <2>3, <2>4, <2>5, <3>3 DEF Marks
        <3>5. \A i, j \in 1 .. m + 1 : i < j => t[i] < t[j]
            BY <2>5 DEF Marks
        <3> HIDE DEF t
        <3> QED
            BY <3>2, <3>4, <3>5 DEF Marks
    <2> HIDE DEF t
    <2>7. FlattenSeq(v) = q
        BY <2>1, <2>4, <2>6, Spelled
    <2>8. \A i \in 1 .. m : v[i] = w[i] /\ v[i] \in S
        <3> TAKE i \in 1 .. m
        <3>1. i \in 1 .. len /\ i \in 1 .. m + 1 /\ i + 1 \in 1 .. m + 1 /\ m \in Nat
            BY <2>1
        <3>2. v[i] = SubSeq(q, t[i], t[i + 1] - 1) /\ v[i] \in S /\ t[i] \in 1 .. Len(q)
              /\ t[i + 1] \in t[i] + 1 .. Len(q) + 1
            <4> HIDE DEF w, S
            <4>1. m \in Nat /\ q \in Seq(Letters) /\ Marks(t, m, q)
                BY <2>4, <2>6, <3>1
            <4> QED
                BY <4>1, BetweenIs DEF S
        <3>3. w[i] = SubSeq(p, s[i], s[i + 1] - 1)
            BY <3>1, BetweenIs
        <3>4. t[i] = s[i] /\ t[i + 1] = s[i + 1]
            BY <2>5, <3>1
        <3> DEFINE a == s[i]
                   b == s[i + 1] - 1
        <3>5. a \in 1 .. k /\ b \in 1 .. k /\ k \in Nat
            <4> DEFINE x == s[i + 1]
            <4>1. a \in 1 .. k /\ x \in a + 1 .. k + 1 /\ k \in 0 .. Len(p) /\ Len(p) \in Nat
                BY <1>1, <2>3, <2>4, <3>2, <3>4, Zenon
            <4> HIDE DEF a, x
            <4> QED
                BY <4>1 DEF x
        <3> HIDE DEF a, b
        <3>6. 1 \in 1 .. Len(p) /\ k \in 1 .. Len(p) /\ a \in 1 .. k - 1 + 1 /\ b \in 1 .. k - 1 + 1
              /\ 1 + a - 1 = a /\ 1 + b - 1 = b
            BY <1>1, <2>3, <3>5
        <3>7. SubSeq(SubSeq(p, 1, k), a, b) = SubSeq(p, 1 + a - 1, 1 + b - 1)
            BY <3>6, SubSeqOfSubSeq
        <3>8. SubSeq(q, a, b) = SubSeq(p, a, b)
            BY <3>6, <3>7 DEF q
        <3>9. v[i] = SubSeq(q, a, b) /\ w[i] = SubSeq(p, a, b)
            BY <3>2, <3>3, <3>4, Zenon DEF a, b
        <3> HIDE DEF v, w
        <3> QED
            BY <3>2, <3>8, <3>9, Zenon
    <2>9. v \in Seq(S) /\ Len(v) = m
        <3>1. v = [i \in 1 .. m |-> v[i]]
            BY DEF Between
        <3> HIDE DEF v, S
        <3>2. v \in [1 .. m -> S]
            BY <2>8, <3>1
        <3> QED
            BY <2>1, <3>2
    <2> HIDE DEF v, w, S
    <2>10. /\ SubSeq(w, 1, m) \in Seq(S) /\ Len(SubSeq(w, 1, m)) = m
           /\ \A i \in 1 .. m : SubSeq(w, 1, m)[i] = w[i]
        BY <1>1, <2>1, HeadIs
    <2>11. \A i \in 1 .. m : SubSeq(w, 1, m)[i] = v[i]
        BY <2>8, <2>10
    <2>12. SubSeq(w, 1, m) = v
        BY <2>9, <2>10, <2>11, SeqEqual
    <2> QED
        BY <2>3, <2>7, <2>12, Zenon DEF q, w
<1> QED
    BY <1>2, <1>3

\* The tokens o spell the text n as far as there has been room for it.
SpeltBy(n, o, r) ==
    /\ FlattenSeq(o) = Sp!First(n, Len(FlattenSeq(o)))
    /\ \/ FlattenSeq(o) = n
       \/ Len(FlattenSeq(o)) \in {NormRoom, SymbolRoom}
       \/ Len(o) = r

LEMMA HeadSpells ==
    ASSUME NEW n \in Seq(Letters), NEW k \in 0 .. Len(n), NEW o, NEW r,
           FlattenSeq(o) = SubSeq(n, 1, k),
           k = Len(n) \/ k \in {NormRoom, SymbolRoom} \/ Len(o) = r
    PROVE  SpeltBy(n, o, r)
<1>1. SubSeq(n, 1, k) \in Seq(Letters) /\ Len(SubSeq(n, 1, k)) = k
    BY HeadIs
<1>2. k \in Nat /\ Len(n) \in Nat
    OBVIOUS
<1>3. SubSeq(n, 1, Len(n)) = n
    BY SubSeqFull
<1>4. CASE Len(n) <= k
    <2>1. k = Len(n) /\ Sp!First(n, k) = n
        BY <1>2, <1>4 DEF Sp!First
    <2> QED
        BY <1>1, <1>3, <2>1, Zenon DEF SpeltBy
<1>5. CASE ~(Len(n) <= k)
    <2>1. Sp!First(n, k) = SubSeq(n, 1, k) /\ k # Len(n)
        BY <1>2, <1>5 DEF Sp!First
    <2> QED
        BY <1>1, <2>1, Zenon DEF SpeltBy
<1> QED
    BY <1>4, <1>5

LEMMA SegmentsSpell ==
    ASSUME NEW n, NEW p, Taken(n, p), NEW len \in Nat \ {0}, NEW s, Marks(s, len, p), NEW r \in Nat
    PROVE  SpeltBy(n, Sp!First(Between(p, s, len), r), r)
<1> DEFINE w == Between(p, s, len)
           o == Sp!First(w, r)
<1>1. /\ n \in Seq(Letters) /\ p \in Seq(Letters) /\ Len(p) \in 0 .. Len(n) /\ p = SubSeq(n, 1, Len(p))
      /\ p = n \/ Len(p) \in {NormRoom, SymbolRoom}
    BY TakenIs DEF Taken
<1>2. Len(w) = len /\ Len(n) \in Nat /\ len \in Nat
    BY <1>1 DEF Between
<1>3. w \in Seq(Seq(Letters))
    <2>1. \A i \in 1 .. len : w[i] \in Seq(Letters)
        BY <1>1, BetweenIs
    <2>2. w = [i \in 1 .. len |-> w[i]]
        BY DEF Between
    <2> HIDE DEF w
    <2>3. w \in [1 .. len -> Seq(Letters)]
        BY <2>1, <2>2
    <2> QED
        BY <2>3
<1>4. CASE len <= r
    <2>1. o = w
        BY <1>2, <1>4 DEF Sp!First
    <2>2. FlattenSeq(w) = p
        BY <1>1, Spelled
    <2>3. FlattenSeq(o) = SubSeq(n, 1, Len(p))
        BY <1>1, <2>1, <2>2, Zenon
    <2>4. Len(p) = Len(n) \/ Len(p) \in {NormRoom, SymbolRoom}
        BY <1>1
    <2> HIDE DEF o, w
    <2> QED
        BY <1>1, <2>3, <2>4, HeadSpells DEF o, w
<1>5. CASE ~(len <= r)
    <2>1. o = SubSeq(w, 1, r) /\ r \in 0 .. len
        BY <1>2, <1>5 DEF Sp!First
    <2>2. Len(o) = r
        <3> HIDE DEF w, o
        <3> QED
            BY <1>2, <1>3, <2>1, HeadIs
    <2>3. PICK k \in 0 .. Len(p) : FlattenSeq(o) = SubSeq(p, 1, k)
        BY <1>1, <2>1, HeadSpelled
    <2>4. SubSeq(SubSeq(n, 1, Len(p)), 1, k) = SubSeq(n, 1, k)
        BY <1>1, <2>3, HeadOfHead
    <2>5. FlattenSeq(o) = SubSeq(n, 1, k) /\ k \in 0 .. Len(n)
        <3>1. k \in 0 .. Len(n)
            BY <1>1, <1>2
        <3> HIDE DEF o
        <3> QED
            BY <1>1, <2>3, <2>4, <3>1, Zenon
    <2> HIDE DEF o, w
    <2> QED
        BY <1>1, <2>2, <2>5, HeadSpells DEF o, w
<1> QED
    BY <1>4, <1>5

\* What holds of a text p, its symbols q and the pairs c while they are joined
SpRight(v, p, q, c) ==
    /\ Len(p) \in 1 .. SymbolRoom /\ IsFiniteSet(c)
    /\ \E len \in Nat : \E s :
            SpLinks(p, q, s, len) /\ SpPairs(v, p, c, s, len) /\ Cardinality(c) + len <= 2 * Len(p) - 1
SpInv ==
    /\ type \in {"bpe", "unigram"} /\ score \in ScoredPieces /\ normal \in Seq(Letters)
    /\ symbols \in Seq(SpSymbol)
    /\ scoreStep = "work" /\ type = "bpe" => SpRight(score, normal, symbols, pairs)
    /\ scoreStep = "work" /\ type = "bpe" => Taken(Sp!Normalized(asked), normal) /\ idRoom \in Nat
    /\ scoreStep = "done" /\ type = "bpe" => SpeltBy(Sp!Normalized(asked), scoreOut, idRoom)

SpRanks == [c \in Sp!Cuts |-> -score[c[1] \o c[2]]]

LEMMA SpSame ==
    ASSUME symbols \in Seq(SpSymbol), UNCHANGED <<score, normal, symbols>>
    PROVE  UNCHANGED <<SpRanks, Sp!Segments>>
<1>1. SpRanks' = SpRanks
    BY DEF SpRanks, Sp!Cuts
<1>2. Sp!Segments = SegmentsOf(normal, symbols)
    BY SpSegments
<1>3. Sp!Segments' = SegmentsOf(normal', symbols')
    BY SpSegmentsThen
<1> QED
    BY <1>1, <1>2, <1>3, Zenon

\* The pair that is popped is the one that Merging joins next.
LEMMA SpFirst ==
    ASSUME score \in ScoredPieces, normal \in Seq(Letters), NEW len \in Nat, NEW s,
           SpLinks(normal, symbols, s, len), SpPairs(score, normal, pairs, s, len),
           NEW x \in pairs, Sp!Foremost(x), NEW a \in 1 .. len - 1, x.left = s[a],
           SubSeq(normal, s[a], s[a + 2] - 1) \in DOMAIN score,
           x.score = score[SubSeq(normal, s[a], s[a + 2] - 1)]
    PROVE  a \in Sp!Order!Joinable /\ Sp!Order!First(a)
<1> DEFINE w == Between(normal, s, len)
           Can(k) == SubSeq(normal, s[k], s[k + 2] - 1) \in DOMAIN score
           Worth(k) == score[SubSeq(normal, s[k], s[k + 2] - 1)]
<1>1. Sp!Segments = w
    BY SpSegments, SegmentsOfAre DEF SpLinks
<1>2. Marks(s, len, normal) /\ Len(normal) \in Nat
    BY DEF SpLinks
<1>3. Len(w) = len
    BY DEF Between
<1>4. DOMAIN score \in SUBSET Seq(Letters) /\ \A u \in DOMAIN score : score[u] \in Int
    BY ScoreAssumption
<1>5. Sp!Cuts = CutsOf(DOMAIN score)
    BY Zenon DEF Sp!Cuts, CutsOf
<1>6. \A k \in 1 .. len - 1 :
        /\ w[k] \o w[k + 1] = SubSeq(normal, s[k], s[k + 2] - 1)
        /\ <<w[k], w[k + 1]>> \in CutsOf(DOMAIN score) <=> Can(k)
    BY <1>2, <1>4, JoinIs
<1>7. Sp!Order!Joinable = {k \in 1 .. len - 1 : <<w[k], w[k + 1]>> \in CutsOf(DOMAIN score)}
    <2>1. DOMAIN SpRanks = CutsOf(DOMAIN score)
        BY <1>5 DEF SpRanks
    <2> HIDE DEF w
    <2> QED
        BY <1>1, <1>3, <2>1, Zenon DEF Sp!Order!Joinable, Sp!Order!Join, SpRanks
<1> HIDE DEF w
<1>8. \A k \in Sp!Order!Joinable : k \in 1 .. len - 1 /\ Can(k)
    BY <1>6, <1>7
<1>9. a \in Sp!Order!Joinable
    BY <1>6, <1>7
<1>10. \A k \in Sp!Order!Joinable : SpRanks[<<w[k], w[k + 1]>>] = -Worth(k) /\ Worth(k) \in Int
    <2> TAKE k \in Sp!Order!Joinable
    <2>1. <<w[k], w[k + 1]>> \in Sp!Cuts
        BY <1>5, <1>7
    <2>2. SpRanks[<<w[k], w[k + 1]>>] = -score[w[k] \o w[k + 1]]
        BY <2>1 DEF SpRanks
    <2>3. w[k] \o w[k + 1] = SubSeq(normal, s[k], s[k + 2] - 1)
        BY <1>6, <1>8
    <2>4. Worth(k) \in Int
        BY <1>4, <1>8
    <2> QED
        BY <2>2, <2>3, <2>4
<1>11. \A k \in Sp!Order!Joinable : k # a => Worth(a) > Worth(k) \/ (Worth(a) = Worth(k) /\ a < k)
    <2> SUFFICES ASSUME NEW k \in Sp!Order!Joinable, k # a
                 PROVE  Worth(a) > Worth(k) \/ (Worth(a) = Worth(k) /\ a < k)
        OBVIOUS
    <2> DEFINE y == PairOf(score, normal, s, k)
    <2>1. y \in pairs
        BY <1>8 DEF SpPairs
    <2>2. y.left = s[k] /\ y.score = Worth(k)
        BY DEF PairOf
    <2> HIDE DEF y, Worth
    <2>3. x.score > y.score \/ (x.score = y.score /\ x.left <= y.left)
        BY <2>1 DEF Sp!Foremost
    <2>4. k \in 1 .. len + 1 /\ a \in 1 .. len + 1
        BY <1>8
    <2>5. (s[a] < s[k] <=> a < k) /\ (s[a] = s[k] <=> a = k)
        BY <1>2, <2>4, MarksRise
    <2>6. s[a] \in Int /\ s[k] \in Int
        BY <1>2, <2>4 DEF Marks
    <2>7. x.score = Worth(a)
        BY DEF Worth
    <2> QED
        BY <2>2, <2>3, <2>5, <2>6, <2>7
<1> HIDE DEF Worth, Can
<1>12. Sp!Order!First(a)
    <2> SUFFICES ASSUME NEW k \in Sp!Order!Joinable, k # a
                 PROVE  \/ SpRanks[<<w[a], w[a + 1]>>] < SpRanks[<<w[k], w[k + 1]>>]
                        \/ /\ SpRanks[<<w[a], w[a + 1]>>] = SpRanks[<<w[k], w[k + 1]>>]
                           /\ a < k
        BY <1>1, Zenon DEF Sp!Order!First, Sp!Order!Join, SpRanks
    <2>1. /\ SpRanks[<<w[a], w[a + 1]>>] = -Worth(a) /\ Worth(a) \in Int
          /\ SpRanks[<<w[k], w[k + 1]>>] = -Worth(k) /\ Worth(k) \in Int
        BY <1>9, <1>10
    <2>2. Worth(a) > Worth(k) \/ (Worth(a) = Worth(k) /\ a < k)
        BY <1>11
    <2> QED
        BY <2>1, <2>2
<1> QED
    BY <1>9, <1>12

\* A join leaves the symbols linked and the pairs complete, within the room.
LEMMA SpJoins ==
    ASSUME SpInv, Sp!MergePair
    PROVE  SpInv' /\ Sp!Order!Merge /\ SpRanks' = SpRanks
<1>1. /\ scoreStep = "work" /\ type = "bpe" /\ scoreStep' = scoreStep /\ type' = type
      /\ score' = score /\ normal' = normal /\ scoreOut' = scoreOut
      /\ asked' = asked /\ idRoom' = idRoom
      /\ score \in ScoredPieces /\ normal \in Seq(Letters)
      /\ SpRight(score, normal, symbols, pairs)
      /\ Taken(Sp!Normalized(asked), normal) /\ idRoom \in Nat
    BY DEF SpInv, Sp!MergePair
<1>2. /\ Len(normal) \in 1 .. SymbolRoom /\ IsFiniteSet(pairs)
    BY <1>1 DEF SpRight
<1>3. PICK len \in Nat : \E s :
        /\ SpLinks(normal, symbols, s, len) /\ SpPairs(score, normal, pairs, s, len)
        /\ Cardinality(pairs) + len <= 2 * Len(normal) - 1
    BY <1>1 DEF SpRight
<1>22. PICK s :
        /\ SpLinks(normal, symbols, s, len) /\ SpPairs(score, normal, pairs, s, len)
        /\ Cardinality(pairs) + len <= 2 * Len(normal) - 1
    BY <1>3
<1>4. PICK x \in pairs :
        /\ Sp!Foremost(x) /\ ~Sp!Stale(x) /\ symbols' = Sp!Relinked(x)
        /\ LET before == (pairs \ {x}) \cup Sp!Neighbours(symbols', symbols'[x.left].prev)
               after == before \cup Sp!Neighbours(symbols', x.left)
           IN  pairs' = IF Sp!Cardinality(before) > PairRoom THEN pairs \ {x}
                        ELSE IF Sp!Cardinality(after) > PairRoom THEN before ELSE after
    BY Zenon DEF Sp!MergePair
<1>5. PICK a \in 1 .. len - 1 :
        /\ x.left = s[a] /\ x.right = s[a + 1] /\ x.length = s[a + 2] - s[a]
        /\ SubSeq(normal, s[a], s[a + 2] - 1) \in DOMAIN score
        /\ x.score = score[SubSeq(normal, s[a], s[a + 2] - 1)]
    BY <1>1, <1>22, <1>4, FreshPair
<1> DEFINE q == Sp!Relinked(x)
           M == Sp!Neighbours(q, q[x.left].prev)
           N == Sp!Neighbours(q, x.left)
           before == (pairs \ {x}) \cup M
           after == before \cup N
           t == Without(s, len, a)
           w == Between(normal, s, len)
<1>6. SpLinks(normal, q, t, len - 1)
    BY <1>1, <1>22, <1>5, Relinks
<1>7. /\ SpPairs(score, normal, after, t, len - 1)
      /\ \E y : M \subseteq {y}
      /\ \E y : N \subseteq {y}
    <2>1. AfterJoin(pairs \ {x}, M, N, t, len - 1)
        BY <1>1, <1>22, <1>5, JoinedPairs
    <2> QED
        BY <2>1, Zenon DEF AfterJoin
<1>8. pairs' = IF Cardinality(before) > PairRoom THEN pairs \ {x}
               ELSE IF Cardinality(after) > PairRoom THEN before ELSE after
    <2>1. \A S : Sp!Cardinality(S) = Cardinality(S)
        BY Zenon DEF Sp!Cardinality, Cardinality
    <2> QED
        BY <1>4, <2>1, Zenon
<1> HIDE DEF q, M, N, t
<1>9. /\ IsFiniteSet(after) /\ Cardinality(after) \in Nat /\ Cardinality(before) \in Nat
      /\ Cardinality(before) <= Cardinality(after) /\ Cardinality(after) <= Cardinality(pairs) + 1
      /\ Cardinality(pairs) \in Nat
    <2> DEFINE rest == pairs \ {x}
    <2>1. /\ IsFiniteSet(rest) /\ Cardinality(rest) = Cardinality(pairs) - 1
          /\ Cardinality(pairs) \in Nat
        BY <1>2, <1>4, FS_RemoveElement, FS_CardinalityType
    <2> HIDE DEF rest
    <2>2. /\ IsFiniteSet(rest \cup M) /\ Cardinality(rest \cup M) \in Nat
          /\ Cardinality(rest \cup M) <= Cardinality(rest) + 1
        BY <1>7, <2>1, CardGrows
    <2>3. before = rest \cup M
        BY DEF rest
    <2> HIDE DEF before
    <2>4. /\ IsFiniteSet(before) /\ Cardinality(before) \in Nat
          /\ Cardinality(before) <= Cardinality(rest) + 1
        BY <2>2, <2>3
    <2>5. /\ IsFiniteSet(before \cup N) /\ Cardinality(before \cup N) \in Nat
          /\ Cardinality(before) <= Cardinality(before \cup N)
          /\ Cardinality(before \cup N) <= Cardinality(before) + 1
        BY <1>7, <2>4, CardGrows
    <2> QED
        BY <2>1, <2>4, <2>5
<1> HIDE DEF before, after
<1>10. len - 1 \in Nat /\ len >= 2 /\ Len(normal) <= SymbolRoom /\ Len(normal) \in Nat
    BY <1>2, <1>5
<1>11. Cardinality(after) + (len - 1) <= 2 * Len(normal) - 1 /\ Cardinality(after) <= PairRoom
    <2>1. SymbolRoom \in Nat /\ PairRoom \in Nat /\ 2 * SymbolRoom <= PairRoom
        BY ScoreAssumption
    <2> QED
        BY <1>22, <1>9, <1>10, <2>1
<1>12. pairs' = after
    <2>1. ~(Cardinality(before) > PairRoom) /\ ~(Cardinality(after) > PairRoom)
        <3>1. PairRoom \in Nat
            BY ScoreAssumption
        <3> QED
            BY <1>9, <1>11, <3>1
    <2> QED
        BY <1>8, <2>1, Zenon
<1>13. symbols' = q
    BY <1>4 DEF q
<1>14. SpRight(score, normal, q, after)
    <2>1. \E s_ : /\ SpLinks(normal, q, s_, len - 1) /\ SpPairs(score, normal, after, s_, len - 1)
                  /\ Cardinality(after) + (len - 1) <= 2 * Len(normal) - 1
        BY <1>6, <1>7, <1>11
    <2> QED
        BY <1>2, <1>9, <1>10, <2>1, Zenon DEF SpRight
<1>15. SpInv'
    <2>1. q \in Seq(SpSymbol)
        BY <1>6 DEF SpLinks
    <2> QED
        BY <1>1, <1>12, <1>13, <1>14, <2>1 DEF SpInv
<1>16. Marks(s, len, normal)
    BY <1>22 DEF SpLinks
<1>17. Sp!Segments = w
    BY <1>1, <1>22, SpSegments, SegmentsOfAre DEF SpLinks
<1>18. Sp!Segments' = Between(normal, t, len - 1)
    <2>1. q \in Seq(SpSymbol)
        BY <1>6 DEF SpLinks
    <2>2. Sp!Segments' = SegmentsOf(normal, q)
        BY <1>1, <1>13, <2>1, SpSegmentsThen
    <2> QED
        BY <1>1, <1>6, <1>10, <2>2, SegmentsOfAre
<1>19. Sp!Segments' = Sp!Order!Joined(a)
    <2>1. Between(normal, t, len - 1)
            = SubSeq(w, 1, a - 1) \o <<w[a] \o w[a + 1]>> \o SubSeq(w, a + 2, Len(w))
        BY <1>1, <1>16, WithoutParts DEF t
    <2> HIDE DEF w
    <2> QED
        BY <1>17, <1>18, <2>1, Zenon DEF Sp!Order!Joined
<1>20. a \in Sp!Order!Joinable /\ Sp!Order!First(a)
    BY <1>1, <1>22, <1>4, <1>5, SpFirst
<1>21. SpRanks' = SpRanks
    BY <1>1 DEF SpRanks, Sp!Cuts
<1> QED
    BY <1>1, <1>15, <1>19, <1>20, <1>21, Zenon DEF Sp!Order!Merge

\* A stale pair that is dropped is none of two neighbours.
LEMMA SpDrops ==
    ASSUME SpInv, Sp!DropStale
    PROVE  SpInv' /\ UNCHANGED <<SpRanks, Sp!Segments, scoreStep # "work" \/ type # "bpe">>
<1>1. /\ scoreStep = "work" /\ type = "bpe"
      /\ UNCHANGED <<type, score, asked, idRoom, normal, symbols, best, pos, scoreStep, scoreOut>>
      /\ score \in ScoredPieces /\ normal \in Seq(Letters)
      /\ SpRight(score, normal, symbols, pairs)
      /\ Taken(Sp!Normalized(asked), normal) /\ idRoom \in Nat
    BY DEF SpInv, Sp!DropStale
<1>2. PICK x \in pairs : Sp!Stale(x) /\ pairs' = pairs \ {x}
    BY DEF Sp!DropStale
<1>3. PICK len \in Nat : \E s :
        /\ SpLinks(normal, symbols, s, len) /\ SpPairs(score, normal, pairs, s, len)
        /\ Cardinality(pairs) + len <= 2 * Len(normal) - 1
        /\ Len(normal) \in 1 .. SymbolRoom /\ IsFiniteSet(pairs)
    BY <1>1 DEF SpRight
<1>10. PICK s :
        /\ SpLinks(normal, symbols, s, len) /\ SpPairs(score, normal, pairs, s, len)
        /\ Cardinality(pairs) + len <= 2 * Len(normal) - 1
        /\ Len(normal) \in 1 .. SymbolRoom /\ IsFiniteSet(pairs)
    BY <1>3
<1>4. /\ IsFiniteSet(pairs \ {x}) /\ Cardinality(pairs \ {x}) = Cardinality(pairs) - 1
      /\ Cardinality(pairs) \in Nat
    BY <1>10, FS_RemoveElement, FS_CardinalityType
<1>5. \A k \in 1 .. len - 1 :
        SubSeq(normal, s[k], s[k + 2] - 1) \in DOMAIN score => PairOf(score, normal, s, k) # x
    <2> TAKE k \in 1 .. len - 1
    <2>1. SUFFICES ASSUME PairOf(score, normal, s, k) = x PROVE FALSE
        OBVIOUS
    <2>2. x.left = s[k] /\ x.right = s[k + 1] /\ x.length = s[k + 2] - s[k]
        BY <2>1 DEF PairOf
    <2>3. PICK j : j = k + 1 /\ j + 1 = k + 2 /\ j \in 1 .. len /\ k \in 1 .. len
        OBVIOUS
    <2>4. /\ s[k] \in 1 .. Len(normal) /\ s[k + 1] \in 1 .. Len(normal) + 1 /\ s[k] < s[k + 1]
          /\ s[j] \in 1 .. Len(normal) /\ s[j + 1] \in 1 .. Len(normal) + 1 /\ s[j] < s[j + 1]
        BY <1>10, <2>3, MarkIs DEF SpLinks
    <2>5. symbols[s[k]].length = s[k + 1] - s[k] /\ symbols[s[j]].length = s[j + 1] - s[j]
        BY <1>10, <2>3, SymbolIs DEF SpLinks
    <2> QED
        BY <1>2, <2>2, <2>3, <2>4, <2>5 DEF Sp!Stale
<1>6. SpPairs(score, normal, pairs \ {x}, s, len)
    BY <1>10, <1>5, Zenon DEF SpPairs
<1>7. SpRight(score, normal, symbols, pairs')
    <2>1. Cardinality(pairs \ {x}) + len <= 2 * Len(normal) - 1
        BY <1>10, <1>4
    <2> QED
        BY <1>2, <1>10, <1>4, <1>6, <2>1 DEF SpRight
<1>8. SpInv'
    BY <1>1, <1>7 DEF SpInv
<1>9. UNCHANGED <<SpRanks, Sp!Segments>>
    BY <1>1, SpSame DEF SpInv
<1> QED
    BY <1>1, <1>8, <1>9

LEMMA SpEmits ==
    ASSUME SpInv, Sp!EmitBpe
    PROVE  SpInv' /\ Sp!Order!Finish /\ SpRanks' = SpRanks
<1>1. /\ scoreStep = "work" /\ type = "bpe" /\ scoreStep' = "done" /\ pairs = {}
      /\ UNCHANGED <<type, score, asked, idRoom, normal, symbols, pairs, best, pos>>
      /\ scoreOut' = Sp!First(Sp!Segments, idRoom)
      /\ score \in ScoredPieces /\ normal \in Seq(Letters)
      /\ SpRight(score, normal, symbols, pairs)
      /\ Taken(Sp!Normalized(asked), normal) /\ idRoom \in Nat
    BY DEF SpInv, Sp!EmitBpe
<1>2. PICK len \in Nat : \E s :
        /\ SpLinks(normal, symbols, s, len) /\ SpPairs(score, normal, pairs, s, len)
        /\ Len(normal) \in 1 .. SymbolRoom
    BY <1>1 DEF SpRight
<1>10. PICK s :
        /\ SpLinks(normal, symbols, s, len) /\ SpPairs(score, normal, pairs, s, len)
        /\ Len(normal) \in 1 .. SymbolRoom
    BY <1>2
<1> DEFINE w == Between(normal, s, len)
<1>11. Len(w) = len
    BY DEF Between
<1>12. Sp!Segments = w
    BY <1>1, <1>10, SpSegments, SegmentsOfAre DEF SpLinks
<1>3. Sp!Segments = w /\ Len(w) = len
    BY <1>11, <1>12
<1>4. Marks(s, len, normal)
    BY <1>10 DEF SpLinks
<1>5. SpeltBy(Sp!Normalized(asked), Sp!First(w, idRoom), idRoom)
    <2>1. len \in Nat \ {0}
        BY <1>10, <1>4 DEF Marks
    <2> HIDE DEF w
    <2> QED
        BY <1>1, <1>4, <2>1, SegmentsSpell DEF w
<1>6. SpInv'
    <2>1. SpeltBy(Sp!Normalized(asked)', scoreOut', idRoom')
        BY <1>1, <1>3, <1>5
    <2> QED
        BY <1>1, <2>1, Zenon DEF SpInv
<1>7. DOMAIN score \in SUBSET Seq(Letters)
    BY <1>1, ScoreAssumption
<1>8. Sp!Order!Joinable = {}
    <2>1. Sp!Cuts = CutsOf(DOMAIN score)
        BY Zenon DEF Sp!Cuts, CutsOf
    <2>2. \A k \in 1 .. len - 1 : ~(<<w[k], w[k + 1]>> \in CutsOf(DOMAIN score))
        <3> TAKE k \in 1 .. len - 1
        <3>1. ~(SubSeq(normal, s[k], s[k + 2] - 1) \in DOMAIN score)
            BY <1>1, <1>10 DEF SpPairs
        <3> QED
            BY <1>1, <1>4, <1>7, <3>1, JoinIs
    <2> HIDE DEF w
    <2>3. DOMAIN SpRanks = CutsOf(DOMAIN score)
        BY <2>1 DEF SpRanks
    <2>4. Sp!Order!Joinable = {k \in 1 .. len - 1 : <<w[k], w[k + 1]>> \in CutsOf(DOMAIN score)}
        BY <1>3, <2>3, Zenon DEF Sp!Order!Joinable, Sp!Order!Join, SpRanks
    <2> QED
        BY <2>2, <2>4
<1>9. UNCHANGED <<SpRanks, Sp!Segments>>
    BY <1>1, SpSame DEF SpInv
<1> QED
    BY <1>1, <1>6, <1>8, <1>9 DEF Sp!Order!Finish

\* What normalize_text leaves has no blanks.
SpChars == Letters \cup {" "}

LEMMA NormalizedIs ==
    ASSUME NEW t \in Seq(SpChars)
    PROVE  Sp!Normalized(t) \in Seq(Letters)
<1> DEFINE what == [loop |-> "read"]
           none == [text |-> <<>>, blank |-> TRUE]
           len == Len(t)
           Seen(v, x) == IF x = " " THEN [v EXCEPT !.blank = TRUE]
                         ELSE [text |-> v.text \o (IF v.blank /\ (v.text # <<>> \/ TRUE)
                                                   THEN <<"_", x>> ELSE <<x>>),
                               blank |-> FALSE]
           Folds(g) ==
                g = [S \in SUBSET (DOMAIN t) |->
                        IF S = {} THEN none
                        ELSE Seen(g[S \ {Sp!Max(S)}], t[Sp!Max(S)])]
<1>1. Sp!Normalized(t) = ((CHOOSE g : Folds(g))[DOMAIN t]).text
    BY Zenon DEF Sp!Normalized, Sp!FoldLeft, Sp!MapThenFoldSet
<1>2. DOMAIN t = 1 .. len
    BY LenProperties
<1>12. len \in Nat
    BY LenProperties
<1>13. \A i \in 1 .. len : t[i] \in SpChars
    BY LenProperties
<1>3. \A v, x : Loop(what, v, x) = Seen(v, x)
    <2> TAKE v, x
    <2>1. Loop(what, v, x) = Read(v, x)
        BY DEF Loop
    <2>2. (v.blank /\ (v.text # <<>> \/ TRUE)) <=> v.blank
        OBVIOUS
    <2> QED
        BY <2>1, <2>2 DEF Read
<1> HIDE DEF what, none, len, Seen
<1>4. ASSUME NEW g PROVE Folds(g) <=> IsFold(g, what, none, t, len)
    <2>1. Folds(g) <=>
            g = [S \in SUBSET (1 .. len) |->
                    IF S = {} THEN none ELSE Seen(g[S \ {Max(S)}], t[Max(S)])]
        BY <1>2, SpMax, Zenon
    <2>2. \A S : Seen(g[S \ {Max(S)}], t[Max(S)]) = Loop(what, g[S \ {Max(S)}], t[Max(S)])
        BY <1>3, Zenon
    <2> QED
        BY <2>1, <2>2 DEF IsFold
<1> HIDE DEF Folds
<1>5. (CHOOSE g : Folds(g)) = CHOOSE g : IsFold(g, what, none, t, len)
    BY <1>4
<1>6. Sp!Normalized(t) = Result(what, none, t, len).text
    BY <1>1, <1>2, <1>5, Zenon DEF Result
<1>7. PICK v : /\ v[0] = none
               /\ \A m \in 0 .. len - 1 : v[m + 1] = Loop(what, v[m], t[m + 1])
               /\ Result(what, none, t, len) = v[len]
    <2> DEFINE r == t
    <2> HIDE DEF r
    <2>1. \E v : /\ v[0] = none
                 /\ \A m \in 0 .. len - 1 : v[m + 1] = Loop(what, v[m], r[m + 1])
                 /\ Result(what, none, r, len) = v[len]
        BY <1>12, Runs
    <2> QED
        BY <2>1, Zenon DEF r
<1> DEFINE R == [text : Seq(Letters), blank : BOOLEAN]
           T == {m \in 0 .. len : v[m] \in R}
<1>8. 0 \in T
    <2>1. none \in R
        <3>1. <<>> \in Seq(Letters)
            OBVIOUS
        <3> QED
            BY <3>1 DEF none
    <2> HIDE DEF R
    <2> QED
        BY <1>12, <1>7, <2>1
<1>9. \A m \in 0 .. len : m \in T /\ m + 1 <= len => m + 1 \in T
    <2> SUFFICES ASSUME NEW m \in 0 .. len, m \in T, m + 1 <= len PROVE m + 1 \in T
        OBVIOUS
    <2>1. m \in 0 .. len - 1 /\ m + 1 \in 1 .. len /\ m + 1 \in 0 .. len
        BY <1>12
    <2> DEFINE x == t[m + 1]
               y == v[m]
    <2>2. x \in SpChars /\ y \in R
        BY <1>13, <2>1
    <2>3. v[m + 1] = Read(y, x)
        <3>1. v[m + 1] = Loop(what, y, x)
            BY <1>7, <2>1
        <3> QED
            BY <3>1 DEF Loop, what
    <2> HIDE DEF x, y
    <2>4. Read(y, x) \in R
        <3>1. CASE x = " "
            BY <2>2, <3>1 DEF Read
        <3>2. CASE x # " "
            <4>5. x \in Letters /\ "_" \in Letters /\ y.blank \in BOOLEAN
                BY <2>2, <3>2, ScoreAssumption DEF SpChars
            <4>6. \A u, w \in Letters : <<u, w>> \in Seq(Letters) /\ <<w>> \in Seq(Letters)
                OBVIOUS
            <4>1. y.text \in Seq(Letters) /\ <<"_", x>> \in Seq(Letters) /\ <<x>> \in Seq(Letters)
                BY <2>2, <4>5, <4>6
            <4>2. /\ y.text \o <<"_", x>> \in Seq(Letters)
                  /\ y.text \o <<x>> \in Seq(Letters)
                BY <4>1, ConcatProperties
            <4>3. y.text \o (IF y.blank THEN <<"_", x>> ELSE <<x>>) \in Seq(Letters)
                BY <4>2
            <4>4. Read(y, x) = [text |-> y.text \o (IF y.blank THEN <<"_", x>> ELSE <<x>>),
                                blank |-> FALSE]
                BY <3>2, Zenon DEF Read
            <4>7. \A u \in Seq(Letters) : [text |-> u, blank |-> FALSE] \in R
                OBVIOUS
            <4> HIDE DEF R
            <4> QED
                BY <4>3, <4>4, <4>7, Zenon
        <3> QED
            BY <3>1, <3>2
    <2> HIDE DEF R
    <2> QED
        BY <2>1, <2>3, <2>4
<1> HIDE DEF T
<1>10. len \in T
    <2>1. 0 .. len \subseteq T
        BY <1>12, <1>8, <1>9, UpTo
    <2> QED
        BY <1>12, <2>1
<1>11. v[len] \in R
    BY <1>10 DEF T
<1> QED
    BY <1>6, <1>7, <1>11

\* There are no segments without symbols.
LEMMA NoSymbols == \A p : SegmentsOf(p, <<>>) = <<>>
<1> DEFINE what == [loop |-> "keep"]
           none == <<>>
           zero == 0
<1>1. Filter(none) = Result(what, none, none, zero)
    <2>1. Len(none) = zero
        OBVIOUS
    <2> QED
        BY <2>1, Zenon DEF Filter
<1>2. \E v : /\ v[0] = none
             /\ \A m \in 0 .. zero - 1 : v[m + 1] = Loop(what, v[m], none[m + 1])
             /\ Result(what, none, none, zero) = v[zero]
    <2>1. zero \in Nat
        OBVIOUS
    <2> HIDE DEF what, none, zero
    <2> QED
        BY <2>1, Runs
<1>3. Filter(none) = none
    BY <1>1, <1>2
<1> TAKE p
<1>4. SegmentsOf(p, none) = [i \in DOMAIN none |-> SubSeq(p, none[i].start, none[i].start + none[i].length - 1)]
    BY <1>3, Zenon DEF SegmentsOf
<1>5. DOMAIN none = 1 .. 0
    OBVIOUS
<1> HIDE DEF none
<1>6. SegmentsOf(p, none) = [i \in 1 .. 0 |-> SubSeq(p, none[i].start, none[i].start + none[i].length - 1)]
    BY <1>4, <1>5, Zenon
<1>7. SegmentsOf(p, none) \in Seq(Int) /\ Len(SegmentsOf(p, none)) = 0
    BY <1>6
<1> QED
    BY <1>7, EmptySeq DEF none

\* A text begins as its letters, each a symbol, with the pairs of neighbours.
Letter(len, i) ==
    [start |-> i, length |-> 1, prev |-> i - 1, next |-> IF i < len THEN i + 1 ELSE 0]
Each(len) == [i \in 1 .. len + 1 |-> i]

LEMMA EachIs ==
    ASSUME NEW p \in Seq(Letters), Len(p) > 0, NEW q, q = [i \in 1 .. Len(p) |-> Letter(Len(p), i)]
    PROVE  SpLinks(p, q, Each(Len(p)), Len(p))
<1> DEFINE len == Len(p)
           s == Each(len)
<1>1. len \in Nat /\ len > 0
    OBVIOUS
<1>2. q = [i \in 1 .. len |-> Letter(len, i)]
    OBVIOUS
<1> HIDE DEF len
<1>3. \A i \in 1 .. len + 1 : s[i] = i
    BY DEF Each
<1>4. Marks(s, len, p)
    BY <1>1, <1>3 DEF Marks, Each, len
<1>5. \A i \in 1 .. len : Letter(len, i) \in SpSymbol
    BY <1>1 DEF Letter, SpSymbol
<1>6. q \in Seq(SpSymbol) /\ Len(q) = len
    <2>1. q \in [1 .. len -> SpSymbol]
        BY <1>2, <1>5
    <2> QED
        BY <1>1, <2>1
<1> HIDE DEF s
<1>7. ASSUME NEW k \in 1 .. len PROVE q[s[k]] = Symbol(s, len, k)
    <2>1. /\ k \in 1 .. len + 1 /\ k + 1 \in 1 .. len + 1
          /\ k # 1 => k - 1 \in 1 .. len + 1
        BY <1>1
    <2>2. s[k] = k /\ s[k + 1] = k + 1 /\ (k # 1 => s[k - 1] = k - 1)
        BY <1>3, <2>1
    <2>3. q[s[k]] = [start |-> k, length |-> 1, prev |-> k - 1, next |-> IF k < len THEN k + 1 ELSE 0]
        BY <1>2, <2>2 DEF Letter
    <2>4. /\ k = s[k] /\ 1 = s[k + 1] - s[k] /\ k - 1 = (IF k = 1 THEN 0 ELSE s[k - 1])
          /\ (IF k < len THEN k + 1 ELSE 0) = (IF k = len THEN 0 ELSE s[k + 1])
        BY <1>1, <2>2
    <2> QED
        BY <2>3, <2>4, Zenon DEF Symbol
<1>8. \A i \in 1 .. Len(p) : (\A k \in 1 .. len : s[k] # i) => q[i].length = 0
    <2> TAKE i \in 1 .. Len(p)
    <2>1. i \in 1 .. len /\ i \in 1 .. len + 1
        BY DEF len
    <2>2. s[i] = i
        BY <1>3, <2>1
    <2> QED
        BY <2>1, <2>2
<1> QED
    BY <1>4, <1>6, <1>7, <1>8 DEF SpLinks, len, s

PairsOf(v, p) ==
    UNION {IF SubSeq(p, i, i + 1) \in DOMAIN v
           THEN {[left |-> i, right |-> i + 1, length |-> 2, score |-> v[SubSeq(p, i, i + 1)]]}
           ELSE {} : i \in 1 .. Len(p) - 1}

LEMMA FirstPairs ==
    ASSUME NEW p \in Seq(Letters), Len(p) > 0, NEW v, NEW c, c = PairsOf(v, p)
    PROVE  /\ SpPairs(v, p, c, Each(Len(p)), Len(p))
           /\ IsFiniteSet(c) /\ Cardinality(c) + Len(p) <= 2 * Len(p) - 1
<1> DEFINE len == Len(p)
           s == Each(len)
           Can(k) == SubSeq(p, s[k], s[k + 2] - 1) \in DOMAIN v
<1>1. len \in Nat /\ len > 0
    OBVIOUS
<1>2. Marks(s, len, p)
    BY EachIs DEF SpLinks
<1>3. \A k \in 1 .. len - 1 :
        /\ s[k] = k /\ s[k + 1] = k + 1 /\ s[k + 2] = k + 2
        /\ k + 2 - 1 = k + 1 /\ k + 2 - k = 2
    BY <1>1 DEF Each
<1>4. c = UNION {IF SubSeq(p, i, i + 1) \in DOMAIN v
                 THEN {[left |-> i, right |-> i + 1, length |-> 2, score |-> v[SubSeq(p, i, i + 1)]]}
                 ELSE {} : i \in 1 .. len - 1}
    BY Zenon DEF PairsOf
<1> HIDE DEF len, s
<1>5. \A k \in 1 .. len - 1 :
        /\ Can(k) <=> SubSeq(p, k, k + 1) \in DOMAIN v
        /\ PairOf(v, p, s, k)
            = [left |-> k, right |-> k + 1, length |-> 2, score |-> v[SubSeq(p, k, k + 1)]]
    <2> TAKE k \in 1 .. len - 1
    <2>1. s[k] = k /\ s[k + 1] = k + 1 /\ s[k + 2] - 1 = k + 1 /\ s[k + 2] - s[k] = 2
        BY <1>3
    <2> QED
        BY <2>1, Zenon DEF PairOf
<1>6. \A y : y \in c <=> \E k \in 1 .. len - 1 : Can(k) /\ y = PairOf(v, p, s, k)
    <2> TAKE y
    <2>1. y \in c <=> \E k \in 1 .. len - 1 : SubSeq(p, k, k + 1) \in DOMAIN v /\
            y = [left |-> k, right |-> k + 1, length |-> 2, score |-> v[SubSeq(p, k, k + 1)]]
        BY <1>4
    <2> HIDE DEF Can
    <2> QED
        BY <1>5, <2>1, Zenon
<1>7. \A k \in 1 .. len - 1 : Can(k) =>
        PairRight(v, p, s, len, PairOf(v, p, s, k)) /\ PairOf(v, p, s, k).left = k
    <2> TAKE k \in 1 .. len - 1
    <2>1. Can(k) => PairRight(v, p, s, len, PairOf(v, p, s, k)) /\ PairOf(v, p, s, k).left = s[k]
        BY <1>1, <1>2, PairOfIs
    <2> HIDE DEF Can
    <2> QED
        BY <1>3, <2>1
<1> HIDE DEF Can
<1>8. SpPairs(v, p, c, s, len)
    <2>1. \A y \in c : PairRight(v, p, s, len, y)
        BY <1>6, <1>7
    <2>2. \A k \in 1 .. len - 1 : Can(k) => PairOf(v, p, s, k) \in c
        BY <1>6
    <2> QED
        BY <2>1, <2>2, Zenon DEF SpPairs, Can
<1>9. IsFiniteSet(c) /\ Cardinality(c) <= len - 1 /\ Cardinality(c) \in Nat
    <2> DEFINE f == [y \in c |-> y.left]
    <2>1. f \in Injection(c, 1 .. len - 1)
        <3>1. \A y \in c : y.left \in 1 .. len - 1 /\ y = PairOf(v, p, s, y.left)
            BY <1>6, <1>7
        <3>2. f \in [c -> 1 .. len - 1]
            BY <3>1
        <3>3. \A y, z_ \in c : f[y] = f[z_] => y = z_
            BY <3>1
        <3> HIDE DEF f
        <3> QED
            BY <3>2, <3>3, Zenon DEF Injection, IsInjective
    <2>2. IsFiniteSet(1 .. len - 1) /\ Cardinality(1 .. len - 1) = IF 1 > len - 1 THEN 0 ELSE len - 1 - 1 + 1
        BY <1>1, FS_Interval
    <2> HIDE DEF f
    <2>3. IsFiniteSet(c) /\ Cardinality(c) <= Cardinality(1 .. len - 1)
        BY <2>1, <2>2, FS_Injection
    <2>4. Cardinality(c) \in Nat
        BY <2>3, FS_CardinalityType
    <2> QED
        BY <1>1, <2>2, <2>3, <2>4
<1>10. Cardinality(c) + len <= 2 * len - 1
    BY <1>1, <1>9
<1> QED
    BY <1>8, <1>9, <1>10 DEF len, s

SpDone == scoreStep # "work" \/ type # "bpe"

LEMMA TextsAre == \A t \in ScoredTexts : Sp!Normalized(t) \in Seq(Letters)
<1> TAKE t \in ScoredTexts
<1>1. t \in Seq(SpChars)
    BY ScoreAssumption DEF SpChars
<1> QED
    BY <1>1, NormalizedIs

LEMMA SpFlatten == \A w : Sp!FlattenSeq(w) = FlattenSeq(w)
BY Zenon DEF Sp!FlattenSeq, FlattenSeq

LEMMA SpBegins ==
    ASSUME SpInv, NEW t \in ScoredTexts, NEW d \in IdRooms, Sp!EncodeBpe(t, d)
    PROVE  SpInv' /\ Sp!Order!Begin /\ SpRanks' = SpRanks
<1> DEFINE p == Sp!First(Sp!Fitting(t), SymbolRoom)
           len == Len(p)
           q == [i \in 1 .. len |-> Letter(len, i)]
           s == Each(len)
<1>1. /\ scoreStep # "work" /\ type = "bpe" /\ scoreStep' = "work" /\ type' = type /\ score' = score
      /\ normal' = p /\ p # <<>> /\ score \in ScoredPieces /\ asked' = t /\ idRoom' = d
    BY Zenon DEF SpInv, Sp!EncodeBpe, Sp!Ask
<1>2. symbols' = q
    BY Zenon DEF Sp!EncodeBpe, Letter, Sp!None
<1>3. pairs' = PairsOf(score, p)
    BY Zenon DEF Sp!EncodeBpe, PairsOf
<1>16. Taken(Sp!Normalized(t), p)
    BY TextsAre, Zenon DEF Taken, Sp!Fitting
<1>5. SymbolRoom \in Nat /\ d \in Nat
    BY ScoreAssumption
<1>4. p \in Seq(Letters) /\ len \in 1 .. SymbolRoom
    <2>1. p \in Seq(Letters) /\ Len(p) <= SymbolRoom
        BY <1>16, TakenIs
    <2>2. Len(p) # 0
        BY <1>1, <2>1, EmptySeq
    <2> HIDE DEF p
    <2> QED
        BY <1>5, <2>1, <2>2
<1> HIDE DEF p
<1>6. Len(p) > 0
    BY <1>4, <1>5
<1>7. SpLinks(p, q, s, len)
    BY <1>4, <1>6, EachIs
<1>8. /\ SpPairs(score, p, PairsOf(score, p), s, len)
      /\ IsFiniteSet(PairsOf(score, p)) /\ Cardinality(PairsOf(score, p)) + len <= 2 * len - 1
    BY <1>4, <1>6, FirstPairs
<1>9. len \in Nat
    BY <1>4, <1>5
<1> HIDE DEF q, s
<1>10. SpRight(score, p, q, PairsOf(score, p))
    <2>1. \E r : /\ SpLinks(p, q, r, len) /\ SpPairs(score, p, PairsOf(score, p), r, len)
                 /\ Cardinality(PairsOf(score, p)) + len <= 2 * Len(p) - 1
        BY <1>7, <1>8
    <2> QED
        BY <1>4, <1>8, <1>9, <2>1, Zenon DEF SpRight
<1>11. q \in Seq(SpSymbol)
    BY <1>7 DEF SpLinks
<1>12. SpInv'
    <2>1. Taken(Sp!Normalized(asked)', normal') /\ idRoom' \in Nat
        BY <1>1, <1>5, <1>16
    <2> QED
        BY <1>1, <1>2, <1>3, <1>4, <1>10, <1>11, <2>1 DEF SpInv
<1>13. Sp!Segments' = Between(p, s, len)
    <2>1. Sp!Segments' = SegmentsOf(p, q)
        BY <1>1, <1>2, <1>11, SpSegmentsThen
    <2> QED
        BY <1>4, <1>7, <1>9, <2>1, SegmentsOfAre
<1>14. \A i \in DOMAIN Sp!Segments' : Len(Sp!Segments'[i]) = 1
    <2> DEFINE w == Between(p, s, len)
    <2>1. DOMAIN w = 1 .. len
        BY DEF Between
    <2>2. Marks(s, len, p)
        BY <1>7 DEF SpLinks
    <2>3. ASSUME NEW i \in 1 .. len PROVE Len(w[i]) = 1
        <3>1. Len(w[i]) = s[i + 1] - s[i]
            BY <1>4, <1>9, <2>2, BetweenIs
        <3>2. i \in 1 .. len + 1 /\ i + 1 \in 1 .. len + 1
            BY <1>9
        <3>3. s[i] = i /\ s[i + 1] = i + 1
            BY <3>2 DEF s, Each
        <3> HIDE DEF w
        <3> QED
            BY <1>9, <3>1, <3>3
    <2> HIDE DEF w
    <2>4. Sp!Segments' = w
        BY <1>13 DEF w
    <2> QED
        BY <2>1, <2>3, <2>4, Zenon
<1>15. SpRanks' = SpRanks
    BY <1>1 DEF SpRanks, Sp!Cuts
<1> QED
    BY <1>1, <1>12, <1>14, <1>15 DEF Sp!Order!Begin

LEMMA NothingSpelled == FlattenSeq(<<>>) = <<>>
BY DEF FlattenSeq

LEMMA SpWhole ==
    ASSUME SpInv, NEW t \in ScoredTexts, NEW r \in IdRooms, Sp!EncodeBlank(t, r) \/ Sp!EncodeUnigram(t, r)
    PROVE  SpInv' /\ Sp!Order!Whole /\ SpRanks' = SpRanks
<1>1. /\ scoreStep # "work" /\ type' = type /\ score' = score /\ symbols' = <<>>
      /\ type \in {"bpe", "unigram"} /\ score \in ScoredPieces
      /\ \/ /\ scoreStep' = "done" /\ normal' = <<>> /\ scoreOut' = <<>>
            /\ asked' = t /\ Sp!Normalized(t) = <<>>
         \/ type = "unigram" /\ normal' = Sp!Fitting(t)
    BY DEF SpInv, Sp!EncodeBlank, Sp!EncodeUnigram, Sp!Ask
<1>2. <<>> \in Seq(Letters) /\ <<>> \in Seq(SpSymbol)
    OBVIOUS
<1>3. normal' \in Seq(Letters)
    <2>1. NormRoom \in Nat
        BY ScoreAssumption
    <2>2. Sp!Fitting(t) \in Seq(Letters)
        BY <2>1, TextsAre, FirstIs DEF Sp!Fitting
    <2> QED
        BY <1>1, <1>2, <2>2
<1>4. SpInv'
    <2>1. SpeltBy(<<>>, <<>>, idRoom')
        BY NothingSpelled DEF SpeltBy, Sp!First
    <2>2. CASE type = "bpe"
        <3>1. SpeltBy(Sp!Normalized(asked)', scoreOut', idRoom')
            BY <1>1, <2>1, <2>2
        <3> QED
            BY <1>1, <1>2, <1>3, <2>2, <3>1 DEF SpInv
    <2>3. CASE type = "unigram"
        BY <1>1, <1>2, <1>3, <2>3 DEF SpInv
    <2> QED
        BY <1>1, <2>2, <2>3
<1>5. Sp!Segments' = <<>>
    <2>1. Sp!Segments' = SegmentsOf(normal', symbols')
        BY <1>1, <1>2, SpSegmentsThen
    <2> QED
        BY <1>1, <2>1, NoSymbols
<1>6. SpRanks' = SpRanks
    BY <1>1 DEF SpRanks, Sp!Cuts
<1> QED
    BY <1>1, <1>4, <1>5, <1>6 DEF Sp!Order!Whole

LEMMA SpUnigram ==
    ASSUME SpInv, Sp!VisitPosition \/ Sp!EmitUnigram \/ UNCHANGED Sp!spVars
    PROVE  SpInv' /\ UNCHANGED <<SpRanks, Sp!Segments, SpDone>>
<1>1. CASE type = "unigram" /\ UNCHANGED <<type, score, normal, symbols>>
    <2>1. SpInv'
        BY <1>1 DEF SpInv
    <2> QED
        BY <1>1, <2>1, SpSame DEF SpInv, SpDone
<1>2. CASE UNCHANGED Sp!spVars
    <2>1. UNCHANGED <<type, score, asked, idRoom, normal, symbols, pairs, best, pos, scoreStep, scoreOut>>
        BY <1>2 DEF Sp!spVars
    <2>2. SpInv'
        BY <2>1 DEF SpInv
    <2> QED
        BY <2>1, <2>2, SpSame DEF SpInv, SpDone
<1> QED
    BY <1>1, <1>2 DEF Sp!VisitPosition, Sp!EmitUnigram

LEMMA SpInitInv == Sp!Init => SpInv /\ Sp!Order!Init
<1> SUFFICES ASSUME Sp!Init PROVE SpInv /\ Sp!Order!Init
    OBVIOUS
<1>1. /\ type \in {"bpe", "unigram"} /\ score \in ScoredPieces /\ normal = <<>> /\ symbols = <<>>
      /\ scoreStep = "idle"
    BY DEF Sp!Init
<1>2. <<>> \in Seq(Letters) /\ <<>> \in Seq(SpSymbol)
    OBVIOUS
<1>3. SpInv
    BY <1>1, <1>2 DEF SpInv
<1>4. Sp!Segments = <<>>
    BY <1>1, <1>2, SpSegments, NoSymbols
<1> QED
    BY <1>1, <1>3, <1>4 DEF Sp!Order!Init

LEMMA SpStep ==
    SpInv /\ [Sp!Next]_(Sp!spVars)
        => SpInv' /\ [Sp!Order!Next]_(<<SpRanks, Sp!Segments, SpDone>>)
<1> SUFFICES ASSUME SpInv, [Sp!Next]_(Sp!spVars)
             PROVE  SpInv' /\ [Sp!Order!Next]_(<<SpRanks, Sp!Segments, SpDone>>)
    OBVIOUS
<1>1. CASE Sp!DropStale
    BY <1>1, SpDrops DEF SpDone
<1>2. CASE Sp!MergePair
    BY <1>2, SpJoins DEF Sp!Order!Next, SpRanks
<1>3. CASE Sp!EmitBpe
    BY <1>3, SpEmits DEF Sp!Order!Next, SpRanks
<1>4. CASE Sp!VisitPosition \/ Sp!EmitUnigram \/ UNCHANGED Sp!spVars
    BY <1>4, SpUnigram
<1>5. ASSUME NEW t \in ScoredTexts, NEW r \in IdRooms, Sp!EncodeBlank(t, r) \/ Sp!EncodeUnigram(t, r)
      PROVE  SpInv' /\ [Sp!Order!Next]_(<<SpRanks, Sp!Segments, SpDone>>)
    BY <1>5, SpWhole DEF Sp!Order!Next, SpRanks
<1>6. ASSUME NEW t \in ScoredTexts, NEW r \in IdRooms, Sp!EncodeBpe(t, r)
      PROVE  SpInv' /\ [Sp!Order!Next]_(<<SpRanks, Sp!Segments, SpDone>>)
    BY <1>6, SpBegins DEF Sp!Order!Next, SpRanks
<1> QED
    BY <1>1, <1>2, <1>3, <1>4, <1>5, <1>6 DEF Sp!Next

LEMMA SentencePieceIsItsOwn == TokenizerSpec => Sp!Spec
<1>1. TokenizerInit => Sp!Init
    BY DEF TokenizerInit
<1>2. [TokenizerNext]_tokenizerVars => [Sp!Next]_(Sp!spVars)
    BY DEF TokenizerNext, tokenizerVars, spVars, Sp!spVars
<1> QED
    BY <1>1, <1>2, PTL DEF TokenizerSpec, Sp!Spec

\* The tokens of a BPE model spell the normalized text, all of it unless an array
\* or max_ids has been filled, and what is missing is missing at the end.
THEOREM SentencePieceSpells == TokenizerSpec => []Sp!TokensSpell
<1>1. Sp!Spec => []SpInv
    BY SpInitInv, SpStep, PTL DEF Sp!Spec
<1>2. SpInv => Sp!TokensSpell
    BY SpFlatten DEF SpInv, Sp!TokensSpell, SpeltBy
<1> QED
    BY <1>1, <1>2, SentencePieceIsItsOwn, PTL

\* SentencePiece implements Merging.
THEOREM SentencePieceIsMerging == TokenizerSpec => Sp!MergesByScore
<1>1. Sp!Init => SpInv /\ Sp!Order!Init
    BY SpInitInv
<1>2. SpInv /\ [Sp!Next]_(Sp!spVars)
        => SpInv' /\ [Sp!Order!Next]_(<<SpRanks, Sp!Segments, SpDone>>)
    BY SpStep
<1>3. Sp!Spec => Sp!MergesByScore
    BY <1>1, <1>2, PTL DEF Sp!Spec, Sp!MergesByScore, Sp!Order!Spec, SpRanks, SpDone
<1> QED
    BY <1>3, SentencePieceIsItsOwn, PTL

\* Both encoders implement Merging, whatever the ranks and scores.
THEOREM RanksAreFollowed == TokenizerSpec => MergesByRank
    BY TiktokenIsMerging, SentencePieceIsMerging DEF MergesByRank

\* Pieces and tokens keep the text, whatever the text, the vocabulary, the scores
\* and the sizes of the arrays of sp_encode_bpe.
THEOREM TextIsKept == TokenizerSpec => []TextKept
BY PiecesStayWhole, TiktokenIsRight, SentencePieceSpells, PTL DEF TextKept
=============================================================================
