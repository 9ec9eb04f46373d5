---------------------------- MODULE EngineProof ----------------------------
(***************************************************************************)
(* What is proved of the local models, part by part: the caches of         *)
(* the model (Generation), and the matrix product (Gemm, DotProduct).      *)
(***************************************************************************)
EXTENDS MCEngine, SequenceTheorems, FiniteSetTheorems, WellFoundedInduction, TLAPS
-----------------------------------------------------------------------------
(***************************************************************************)
(* For every number of layers, positions and words: each cache holds       *)
(* exactly the tokens given to the model since the reset, each at its own  *)
(* position, so that the next token follows from all of them. The reason   *)
(* is that the layers which have had the tokens of the running pass, and   *)
(* those that still miss them, differ by exactly these tokens (Lengths),   *)
(* and that what goes from layer to layer is still of them (Passing).      *)
(***************************************************************************)
Num == (0 .. MaxEpochs) \X (0 .. MaxSeq)

Lengths == \A l \in Model!Layer : cacheLen[l] = (IF Model!Done(l) THEN fed ELSE fed - n)

Entries ==
    ~lacking => \A l \in Model!Layer : \A p \in 0 .. cacheLen[l] - 1 : cache[l][p] = Model!Right(p)

Passing ==
    stage = "layers" =>
        /\ n \in 1 .. fed /\ start = fed - n
        /\ hidden \in [0 .. n - 1 -> Num]
        /\ ~lacking => \A i \in 0 .. n - 1 : hidden[i] = Model!Token(start + i)
        /\ buffer = IF layer % 2 = 0 THEN "hidden" ELSE "output"

Inv == Model!TypeOK /\ Lengths /\ Entries /\ Passing /\ Model!LogitsAreLast /\ Model!FreedOnce

LEMMA InitInv == Model!Init => Inv
<1> SUFFICES ASSUME Model!Init PROVE Inv
    OBVIOUS
<1> USE ConfigAssumption
<1>1. Model!TypeOK
    <2>1. cache \in [Model!Layer -> [Model!Position -> [of : Num, pos : Nat]]]
        BY DEF Model!Init, Num, Model!Empty, Model!Junk
    <2> QED
        BY <2>1 DEF Model!Init, Model!TypeOK, Model!Layer, Num
<1>2. Lengths /\ Entries
    BY DEF Model!Init, Lengths, Entries, Model!Done
<1>3. Passing /\ Model!LogitsAreLast /\ Model!FreedOnce
    BY DEF Model!Init, Passing, Model!LogitsAreLast, Model!FreedOnce
<1> QED
    BY <1>1, <1>2, <1>3 DEF Inv

\* A pass begins where all caches end.
LEMMA BeginInv ==
    ASSUME Inv, stage # "layers", NEW count \in 1 .. MaxSeq, Model!Begin(count),
           UNCHANGED <<dtype, cache, cacheLen, epoch, lacking, logits>>, left' \in -1 .. MaxSeq
    PROVE  Inv'
<1> USE ConfigAssumption
<1>1. \A l \in Model!Layer : cacheLen[l] = fed
    BY DEF Inv, Lengths, Model!Done
<1>2. fed \in Nat /\ count \in Nat /\ fed' = fed + count /\ n' = count /\ fed' <= MaxSeq
    BY DEF Model!Begin, Inv, Model!TypeOK
<1>3. start' = fed
    <2>1. 0 \in Model!Layer
        BY DEF Model!Layer
    <2> QED
        BY <1>1, <1>2, <2>1 DEF Model!Begin
<1>4. /\ hidden' \in [0 .. n' - 1 -> Num]
      /\ \A i \in 0 .. n' - 1 : hidden'[i] = <<epoch, start' + i>>
    <2>1. epoch \in 0 .. MaxEpochs
        BY DEF Inv, Model!TypeOK
    <2> QED
        BY <1>2, <1>3, <2>1 DEF Model!Begin, Model!Token, Num
<1>5. Model!TypeOK'
    <2>1. /\ dtype' \in {"f16", "f32"} /\ epoch' \in 1 .. MaxEpochs /\ lacking' \in BOOLEAN
          /\ cache' \in [Model!Layer -> [Model!Position -> [of : Num, pos : Nat]]]
          /\ cacheLen' \in [Model!Layer -> 0 .. MaxSeq]
        BY DEF Inv, Model!TypeOK, Num
    <2>2. /\ fed' \in 0 .. MaxSeq /\ n' \in 0 .. MaxSeq /\ start' \in 0 .. MaxSeq
          /\ layer' \in 0 .. Layers
        BY <1>2, <1>3 DEF Model!Begin
    <2>3. stage' = "layers" /\ buffer' = "hidden"
        BY DEF Model!Begin
    <2> QED
        BY <1>4, <2>1, <2>2, <2>3 DEF Model!TypeOK, Num
<1>6. Lengths'
    <2>1. \A l \in Model!Layer : ~Model!Done(l)'
        BY DEF Model!Done, Model!Begin, Model!Layer
    <2> QED
        BY <1>1, <1>2, <2>1 DEF Lengths
<1>7. Entries'
    BY DEF Inv, Entries, Model!Right, Model!Token
<1>8. Passing'
    <2>1. n' \in 1 .. fed' /\ start' = fed' - n'
        BY <1>2, <1>3
    <2>2. layer' = 0 /\ buffer' = "hidden" /\ 0 % 2 = 0
        BY DEF Model!Begin
    <2> QED
        BY <1>4, <2>1, <2>2 DEF Passing, Model!Token
<1>9. Model!LogitsAreLast' /\ Model!FreedOnce'
    BY DEF Model!Begin, Model!LogitsAreLast, Model!FreedOnce
<1> QED
    BY <1>5, <1>6, <1>7, <1>8, <1>9 DEF Inv

\* What a pass leaves of a token is the token's, if the layer did its work.
LEMMA LayerRight ==
    ASSUME Inv, stage = "layers", layer < Layers, ~lacking
    PROVE  /\ \A p \in 0 .. fed - 1 : Model!Appended(layer)[layer][p] = Model!Right(p)
           /\ \A i \in 0 .. n - 1 :
                 Model!transformer_layer_forward(layer, TRUE)[i] = Model!Token(start + i)
<1> USE ConfigAssumption
<1>1. /\ n \in 1 .. fed /\ start = fed - n /\ fed \in Nat /\ fed <= MaxSeq /\ n \in Nat
      /\ layer \in Model!Layer /\ start \in Nat
    BY DEF Inv, Passing, Model!TypeOK, Model!Layer
<1>2. cacheLen[layer] = start
    <2>1. ~Model!Done(layer)
        BY <1>1 DEF Model!Done, Model!Layer
    <2> QED
        BY <1>1, <2>1 DEF Inv, Lengths
<1>3. \A i \in 0 .. n - 1 : hidden[i] = Model!Token(start + i)
    BY DEF Inv, Passing
<1>4. ASSUME NEW p \in 0 .. fed - 1
      PROVE  Model!Appended(layer)[layer][p] = Model!Right(p)
    <2>1. p \in Model!Position
        BY <1>1 DEF Model!Position
    <2>2. Model!Appended(layer)[layer][p] =
            IF p - start \in 0 .. n - 1
            THEN [of |-> hidden[p - start], pos |-> start + (p - start)] ELSE cache[layer][p]
        BY <1>1, <1>2, <2>1 DEF Model!Appended, Inv, Model!TypeOK
    <2>3. CASE p < start
        <3>1. cache[layer][p] = Model!Right(p)
            BY <1>1, <1>2, <2>3 DEF Inv, Entries
        <3> QED
            BY <1>1, <2>2, <2>3, <3>1
    <2>4. CASE p >= start
        <3>1. hidden[p - start] = Model!Token(start + (p - start))
            BY <1>1, <1>3, <2>4
        <3>2. start + (p - start) = p /\ p - start \in 0 .. n - 1
            BY <1>1, <2>4
        <3> QED
            BY <2>2, <3>1, <3>2 DEF Model!Right
    <2> QED
        BY <1>1, <2>3, <2>4
<1>5. ASSUME NEW i \in 0 .. n - 1
      PROVE  Model!transformer_layer_forward(layer, TRUE)[i] = Model!Token(start + i)
    <2>1. Model!Reads(layer, i) = 0 .. start + i
        BY <1>1, <1>2 DEF Model!Reads, Model!Position
    <2>2. \A p \in Model!Reads(layer, i) : Model!Appended(layer)[layer][p] = Model!Right(p)
        BY <1>1, <1>4, <2>1
    <2> DEFINE attn == Model!attention_forward(layer)
               residual == [k \in 0 .. n - 1 |-> Model!Joint(hidden[k], attn[k])]
    <2>3. attn[i] = hidden[i]
        BY <1>3, <2>1, <2>2 DEF Model!attention_forward
    <2>4. residual[i] = hidden[i]
        BY <2>3 DEF Model!Joint
    <2>5. DOMAIN residual = 0 .. n - 1
        OBVIOUS
    <2> HIDE DEF residual, attn
    <2>6. Model!ffn_forward_f32(residual)[i] = residual[i]
        BY <2>5 DEF Model!ffn_forward_f32, Model!Joint
    <2>7. Model!ffn_forward_f16(residual)[i] = residual[i]
        <3>1. /\ 2 * i \in 0 .. 2 * n - 1 /\ (2 * i) \div 2 = i
              /\ 2 * i + 1 \in 0 .. 2 * n - 1 /\ (2 * i + 1) \div 2 = i
            BY <1>1
        <3> QED
            BY <2>5, <3>1 DEF Model!ffn_forward_f16, Model!Joint
    <2>8. Model!transformer_layer_forward(layer, TRUE)[i] =
            Model!Joint(residual[i], (IF dtype = "f16" THEN Model!ffn_forward_f16(residual)
                                ELSE Model!ffn_forward_f32(residual))[i])
        BY DEF Model!transformer_layer_forward, residual, attn
    <2> QED
        BY <1>3, <2>4, <2>6, <2>7, <2>8 DEF Model!Joint
<1> QED
    BY <1>4, <1>5

\* Values and entries stay what they are made of.
LEMMA LayerTypes ==
    ASSUME Inv, stage = "layers", layer < Layers, NEW works \in BOOLEAN
    PROVE  /\ Model!transformer_layer_forward(layer, works) \in [0 .. n - 1 -> Num]
           /\ Model!Appended(layer) \in [Model!Layer -> [Model!Position -> [of : Num, pos : Nat]]]
<1> USE ConfigAssumption
<1>1. /\ n \in 1 .. fed /\ start = fed - n /\ fed \in Nat /\ fed <= MaxSeq /\ n \in Nat
      /\ layer \in Model!Layer /\ start \in Nat /\ hidden \in [0 .. n - 1 -> Num]
    BY DEF Inv, Passing, Model!TypeOK, Model!Layer
<1>2. Model!Junk \in Num
    BY DEF Model!Junk, Num
<1>3. \A x, y \in Num : Model!Joint(x, y) \in Num
    BY <1>2 DEF Model!Joint
<1> DEFINE attn == Model!attention_forward(layer)
           residual == [k \in 0 .. n - 1 |-> Model!Joint(hidden[k], attn[k])]
<1>4. attn \in [0 .. n - 1 -> Num]
    BY <1>1, <1>2 DEF Model!attention_forward
<1>5. residual \in [0 .. n - 1 -> Num]
    BY <1>1, <1>3, <1>4
<1> HIDE DEF residual, attn
<1>6. Model!ffn_forward_f32(residual) \in [0 .. n - 1 -> Num]
    BY <1>3, <1>5 DEF Model!ffn_forward_f32
<1>7. Model!ffn_forward_f16(residual) \in [0 .. n - 1 -> Num]
    <2>1. \A i \in 0 .. n - 1 :
            /\ 2 * i \in 0 .. 2 * n - 1 /\ (2 * i) \div 2 = i
            /\ 2 * i + 1 \in 0 .. 2 * n - 1 /\ (2 * i + 1) \div 2 = i
        BY <1>1
    <2> QED
        BY <1>3, <1>5, <2>1 DEF Model!ffn_forward_f16
<1>8. Model!transformer_layer_forward(layer, works) =
        [i \in 0 .. n - 1 |-> IF works THEN Model!Joint(residual[i],
            (IF dtype = "f16" THEN Model!ffn_forward_f16(residual)
             ELSE Model!ffn_forward_f32(residual))[i])
         ELSE Model!Junk]
    BY DEF Model!transformer_layer_forward, residual, attn
<1>9. Model!transformer_layer_forward(layer, works) \in [0 .. n - 1 -> Num]
    BY <1>2, <1>3, <1>5, <1>6, <1>7, <1>8
<1>10. Model!Appended(layer) \in [Model!Layer -> [Model!Position -> [of : Num, pos : Nat]]]
    <2>1. ASSUME NEW p \in Model!Position
          PROVE  (IF p - cacheLen[layer] \in 0 .. n - 1
                  THEN [of |-> hidden[p - cacheLen[layer]],
                        pos |-> start + (p - cacheLen[layer])]
                  ELSE cache[layer][p]) \in [of : Num, pos : Nat]
        <3>1. cacheLen[layer] \in Nat /\ p \in Nat /\ cache[layer][p] \in [of : Num, pos : Nat]
            BY <1>1 DEF Inv, Model!TypeOK, Model!Position, Num
        <3>2. CASE p - cacheLen[layer] \in 0 .. n - 1
            <4>1. hidden[p - cacheLen[layer]] \in Num
                BY <1>1, <3>2
            <4> DEFINE i == p - cacheLen[layer]
            <4>2. i \in 0 .. n - 1
                BY <3>2
            <4> HIDE DEF i
            <4>3. start + i \in Nat
                BY <1>1, <4>2
            <4> QED
                BY <3>2, <4>1, <4>3 DEF i
        <3> QED
            BY <3>1, <3>2
    <2> QED
        BY <1>1, <2>1 DEF Model!Appended, Inv, Model!TypeOK, Num
<1> QED
    BY <1>9, <1>10

LEMMA LayerInv ==
    ASSUME Inv, NEW appends \in BOOLEAN, NEW works \in BOOLEAN, Model!LayerForward(appends, works)
    PROVE  Inv'
<1> USE ConfigAssumption
<1>1. /\ n \in 1 .. fed /\ start = fed - n /\ fed \in Nat /\ fed <= MaxSeq /\ n \in Nat
      /\ stage = "layers" /\ layer < Layers /\ layer \in Model!Layer /\ layer \in Nat
    BY DEF Inv, Passing, Model!TypeOK, Model!Layer, Model!LayerForward
<1>2. /\ stage' = "layers" /\ layer' = layer + 1 /\ n' = n /\ fed' = fed /\ start' = start
      /\ epoch' = epoch /\ cacheLen' = [cacheLen EXCEPT ![layer] = @ + n]
      /\ hidden' = Model!transformer_layer_forward(layer, works)
    BY <1>1 DEF Model!LayerForward
<1>3. Lengths'
    <2>1. cacheLen \in [Model!Layer -> 0 .. MaxSeq] /\ cacheLen[layer] = fed - n
        BY <1>1 DEF Inv, Model!TypeOK, Lengths, Model!Done
    <2>2. ASSUME NEW l \in Model!Layer
          PROVE  cacheLen'[l] = (IF Model!Done(l)' THEN fed' ELSE fed' - n')
        <3>1. CASE l = layer
            BY <1>1, <1>2, <2>1, <3>1 DEF Model!Done
        <3>2. CASE l # layer
            <4>1. Model!Done(l)' <=> Model!Done(l)
                BY <1>1, <1>2, <3>2 DEF Model!Done, Model!Layer
            <4> QED
                BY <1>2, <2>1, <3>2, <4>1 DEF Inv, Lengths
        <3> QED
            BY <3>1, <3>2
    <2> QED
        BY <2>2 DEF Lengths
<1>4. Model!TypeOK'
    <2>1. cacheLen' \in [Model!Layer -> 0 .. MaxSeq]
        <3>1. \A l \in Model!Layer : cacheLen'[l] \in 0 .. MaxSeq
            BY <1>1, <1>2, <1>3 DEF Lengths
        <3>2. cacheLen \in [Model!Layer -> 0 .. MaxSeq]
            BY DEF Inv, Model!TypeOK
        <3> QED
            BY <1>2, <3>1, <3>2
    <2>2. cache' \in [Model!Layer -> [Model!Position -> [of : Num, pos : Nat]]]
        BY <1>1, LayerTypes DEF Model!LayerForward, Inv, Model!TypeOK, Num
    <2>3. hidden' \in [0 .. n' - 1 -> Num]
        BY <1>1, <1>2, LayerTypes
    <2>4. layer' \in 0 .. Layers /\ buffer' \in {"hidden", "output"} /\ lacking' \in BOOLEAN
        BY <1>1, <1>2 DEF Model!LayerForward, Model!Other, Inv, Model!TypeOK
    <2>5. /\ UNCHANGED <<dtype, epoch, fed, stage, n, start, left>>
        BY DEF Model!LayerForward
    <2> QED
        BY <2>1, <2>2, <2>3, <2>4, <2>5 DEF Inv, Model!TypeOK, Num
<1>5. Entries'
    <2> SUFFICES ASSUME ~lacking', NEW l \in Model!Layer, NEW p \in 0 .. cacheLen'[l] - 1
                 PROVE  cache'[l][p] = Model!Right(p)'
        BY DEF Entries
    <2>1. ~lacking /\ works /\ appends /\ cache' = Model!Appended(layer)
        BY DEF Model!LayerForward
    <2>2. Model!Right(p)' = Model!Right(p)
        BY <1>2 DEF Model!Right, Model!Token
    <2>3. CASE l = layer
        <3>1. p \in 0 .. fed - 1
            BY <1>1, <1>2, <1>3, <2>3 DEF Lengths, Model!Done
        <3> QED
            BY <1>1, <2>1, <2>2, <2>3, <3>1, LayerRight
    <2>4. CASE l # layer
        <3>1. cache'[l] = cache[l] /\ cacheLen'[l] = cacheLen[l]
            BY <1>1, <1>2, <2>1, <2>4 DEF Model!Appended, Inv, Model!TypeOK
        <3> QED
            BY <2>1, <2>2, <3>1 DEF Inv, Entries
    <2> QED
        BY <2>3, <2>4
<1>6. Passing'
    <2>1. hidden' \in [0 .. n' - 1 -> Num]
        BY <1>1, <1>2, LayerTypes
    <2>2. ASSUME ~lacking', NEW i \in 0 .. n' - 1
          PROVE  hidden'[i] = Model!Token(start + i)'
        <3>1. ~lacking /\ works = TRUE
            BY <2>2 DEF Model!LayerForward
        <3>2. Model!transformer_layer_forward(layer, TRUE)[i] = Model!Token(start + i)
            BY <1>1, <1>2, <2>2, <3>1, LayerRight
        <3> QED
            BY <1>2, <3>1, <3>2 DEF Model!Token
    <2>3. buffer' = IF layer' % 2 = 0 THEN "hidden" ELSE "output"
        <3>1. buffer = IF layer % 2 = 0 THEN "hidden" ELSE "output"
            BY <1>1 DEF Inv, Passing
        <3>2. layer % 2 = 0 <=> (layer + 1) % 2 # 0
            BY <1>1
        <3> QED
            BY <1>2, <3>1, <3>2 DEF Model!LayerForward, Model!Other
    <2> QED
        BY <1>1, <1>2, <2>1, <2>2, <2>3 DEF Passing, Model!Token
<1>7. Model!LogitsAreLast' /\ Model!FreedOnce'
    BY <1>2 DEF Model!LogitsAreLast, Model!FreedOnce
<1> QED
    BY <1>3, <1>4, <1>5, <1>6, <1>7 DEF Inv

\* The last row of so many rows of Vocab numbers
LEMMA LastRow ==
    ASSUME NEW k \in Nat, NEW x \in 0 .. Vocab - 1
    PROVE  (k * Vocab + x) \div Vocab = k /\ (k * Vocab + x) % Vocab = x
<1> DEFINE q == (k * Vocab + x) \div Vocab
           r == (k * Vocab + x) % Vocab
<1>1. Vocab \in Nat /\ Vocab > 0 /\ x \in Nat /\ x < Vocab /\ k * Vocab \in Nat
    BY ConfigAssumption
<1>2. q \in Int /\ r \in 0 .. Vocab - 1 /\ k * Vocab + x = Vocab * q + r
    BY <1>1
<1> HIDE DEF q, r
<1>3. CASE q = k
    BY <1>1, <1>2, <1>3 DEF q, r
<1>4. CASE q > k
    <2>1. Vocab * q >= Vocab * (k + 1)
        BY <1>1, <1>2, <1>4
    <2> QED
        BY <1>1, <1>2, <2>1
<1>5. CASE q < k
    <2>1. Vocab * (q + 1) <= Vocab * k
        BY <1>1, <1>2, <1>5
    <2> QED
        BY <1>1, <1>2, <2>1
<1> QED
    BY <1>2, <1>3, <1>4, <1>5

LEMMA ProjectInv == Inv /\ Model!Project => Inv'
<1> SUFFICES ASSUME Inv, Model!Project PROVE Inv'
    OBVIOUS
<1> USE ConfigAssumption
<1>1. /\ n \in 1 .. fed /\ start = fed - n /\ fed \in Nat /\ fed <= MaxSeq /\ n \in Nat
      /\ stage = "layers" /\ layer = Layers /\ stage' \in {"sample", "idle"}
    BY DEF Inv, Passing, Model!TypeOK, Model!Project
<1>2. Model!TypeOK'
    BY DEF Inv, Model!TypeOK, Model!Project
<1>3. Lengths'
    BY <1>1 DEF Inv, Lengths, Model!Done, Model!Project, Model!Layer
<1>4. Entries' /\ Passing'
    BY <1>1 DEF Inv, Entries, Passing, Model!Project, Model!Right, Model!Token
<1>5. Model!LogitsAreLast'
    <2> SUFFICES ASSUME ~lacking, dtype = "f16" \/ n = 1, NEW x \in 0 .. Vocab - 1
                 PROVE  Model!Logit(x) = [of |-> Model!Token(fed - 1), word |-> x]
        BY DEF Model!LogitsAreLast, Model!Project, Model!Token
    <2>1. hidden[n - 1] = Model!Token(fed - 1)
        <3>1. hidden[n - 1] = Model!Token(start + (n - 1))
            BY <1>1 DEF Inv, Passing
        <3> QED
            BY <1>1, <3>1
    <2>2. CASE dtype = "f16"
        <3>1. ((n - 1) * Vocab + x) \div Vocab = n - 1 /\ ((n - 1) * Vocab + x) % Vocab = x
            BY <1>1, LastRow
        <3> QED
            BY <2>1, <2>2, <3>1 DEF Model!Logit
    <2>3. CASE dtype # "f16"
        <3>1. n = 1 /\ (n - 1) * Vocab + x = x /\ x % n = n - 1 /\ x \div n = x
            BY <2>3
        <3> QED
            BY <2>1, <2>3, <3>1 DEF Model!Logit
    <2> QED
        BY <2>2, <2>3
<1>6. Model!FreedOnce'
    <2> SUFFICES ASSUME Layers % 2 = 0
                 PROVE  freed' = <<"output", "hidden">>
        BY DEF Model!FreedOnce
    <2>1. buffer = "hidden"
        BY <1>1 DEF Inv, Passing
    <2>2. freed' = <<"output", "hidden">> \o <<>>
        BY <2>1 DEF Model!Project, Model!Frees, Model!Other
    <2> QED
        BY <2>2, ConcatEmptySeq
<1> QED
    BY <1>2, <1>3, <1>4, <1>5, <1>6 DEF Inv

LEMMA StepInv == Inv /\ [Model!Next]_(Model!genVars) => Inv'
<1> SUFFICES ASSUME Inv, [Model!Next]_(Model!genVars) PROVE Inv'
    OBVIOUS
<1> USE ConfigAssumption
<1>1. CASE \E appends, works \in BOOLEAN : Model!LayerForward(appends, works)
    BY <1>1, LayerInv
<1>2. CASE Model!Project
    BY <1>2, ProjectInv
<1>3. CASE Model!ProjectFails
    <2>1. stage = "layers" /\ layer = Layers /\ fed \in Nat /\ stage' = "idle"
        BY <1>3 DEF Model!ProjectFails, Inv, Model!TypeOK
    <2>2. Model!TypeOK'
        BY <1>3 DEF Inv, Model!TypeOK, Model!ProjectFails
    <2>3. Lengths'
        BY <1>3, <2>1 DEF Inv, Lengths, Model!Done, Model!ProjectFails, Model!Layer
    <2>4. Entries' /\ Passing' /\ Model!LogitsAreLast' /\ Model!FreedOnce'
        BY <1>3, <2>1 DEF Inv, Entries, Passing, Model!LogitsAreLast, Model!FreedOnce,
            Model!ProjectFails, Model!Right, Model!Token
    <2> QED
        BY <2>2, <2>3, <2>4 DEF Inv
<1>4. CASE Model!Reset
    <2>1. Model!TypeOK'
        <3>1. cacheLen' \in [Model!Layer -> 0 .. MaxSeq]
            BY <1>4 DEF Model!Reset, Model!Cleared
        <3>2. epoch' \in 1 .. MaxEpochs /\ fed' \in 0 .. MaxSeq /\ lacking' \in BOOLEAN
            <4>1. epoch \in 1 .. MaxEpochs
                BY DEF Inv, Model!TypeOK
            <4>2. epoch < MaxEpochs /\ epoch' = epoch + 1 /\ fed' = 0 /\ lacking' = FALSE
                BY <1>4 DEF Model!Reset
            <4>3. epoch' \in 1 .. MaxEpochs
                BY <4>1, <4>2
            <4>4. fed' \in 0 .. MaxSeq
                BY <4>2
            <4> QED
                BY <4>2, <4>3, <4>4
        <3>3. UNCHANGED <<dtype, cache, stage, n, start, layer, hidden, buffer, left>>
            BY <1>4 DEF Model!Reset
        <3> QED
            BY <3>1, <3>2, <3>3 DEF Inv, Model!TypeOK
    <2>2. Lengths' /\ Entries'
        BY <1>4 DEF Lengths, Entries, Model!Done, Model!Reset, Model!Cleared
    <2>3. Passing' /\ Model!LogitsAreLast' /\ Model!FreedOnce'
        BY <1>4 DEF Passing, Model!LogitsAreLast, Model!FreedOnce, Model!Reset
    <2> QED
        BY <2>1, <2>2, <2>3 DEF Inv
<1>5. CASE \E count \in 1 .. MaxSeq : Model!Forward(count)
    <2> PICK count \in 1 .. MaxSeq : Model!Forward(count)
        BY <1>5
    <2>1. stage # "layers" /\ left' \in -1 .. MaxSeq
        BY DEF Model!Forward, Inv, Model!TypeOK
    <2>2. Model!Begin(count) /\ UNCHANGED <<dtype, cache, cacheLen, epoch, lacking, logits>>
        BY DEF Model!Forward
    <2> QED
        BY <2>1, <2>2, BeginInv
<1>6. CASE Model!SampleOn
    <2>1. stage # "layers" /\ left' \in -1 .. MaxSeq /\ 1 \in 1 .. MaxSeq
        BY <1>6 DEF Model!SampleOn, Model!Begin, Inv, Model!TypeOK
    <2>2. Model!Begin(1) /\ UNCHANGED <<dtype, cache, cacheLen, epoch, lacking, logits>>
        BY <1>6 DEF Model!SampleOn
    <2> QED
        BY <2>1, <2>2, BeginInv
<1>7. CASE Model!SampleEnd
    <2>1. stage = "sample" /\ stage' = "idle"
        BY <1>7 DEF Model!SampleEnd
    <2>2. Model!TypeOK'
        BY <1>7 DEF Inv, Model!TypeOK, Model!SampleEnd
    <2>3. Lengths' /\ Entries'
        BY <1>7, <2>1 DEF Inv, Lengths, Entries, Model!Done, Model!SampleEnd, Model!Right,
            Model!Token
    <2>4. Passing' /\ Model!LogitsAreLast' /\ Model!FreedOnce'
        BY <2>1 DEF Passing, Model!LogitsAreLast, Model!FreedOnce
    <2> QED
        BY <2>2, <2>3, <2>4 DEF Inv
<1>8. CASE \E count \in 1 .. MaxSeq, max \in 0 .. MaxSeq : Model!Generate(count, max)
    <2> PICK count \in 1 .. MaxSeq, max \in 0 .. MaxSeq : Model!Generate(count, max)
        BY <1>8
    <2>1. /\ n' = count /\ fed' = count /\ start' = 0 /\ epoch' = epoch + 1 /\ stage' = "layers"
          /\ layer' = 0 /\ buffer' = "hidden" /\ lacking' = FALSE /\ left' = max
          /\ epoch' \in 1 .. MaxEpochs
        BY DEF Model!Generate, Inv, Model!TypeOK
    <2>2. /\ hidden' \in [0 .. n' - 1 -> Num]
          /\ \A i \in 0 .. n' - 1 : hidden'[i] = <<epoch', i>>
        BY <2>1 DEF Model!Generate, Num
    <2>3. Model!TypeOK'
        <3>1. cacheLen' \in [Model!Layer -> 0 .. MaxSeq]
            BY DEF Model!Generate, Model!Cleared
        <3>2. UNCHANGED <<dtype, cache>>
            BY DEF Model!Generate
        <3>3. /\ dtype' \in {"f16", "f32"}
              /\ cache' \in [Model!Layer -> [Model!Position -> [of : Num, pos : Nat]]]
            BY <3>2 DEF Inv, Model!TypeOK, Num
        <3>4. /\ fed' \in 0 .. MaxSeq /\ n' \in 0 .. MaxSeq /\ start' \in 0 .. MaxSeq
              /\ layer' \in 0 .. Layers /\ left' \in -1 .. MaxSeq /\ epoch' \in 1 .. MaxEpochs
            BY <2>1
        <3> QED
            BY <2>1, <2>2, <3>1, <3>3, <3>4 DEF Model!TypeOK, Num
    <2>4. Lengths' /\ Entries'
        <3>1. \A l \in Model!Layer : cacheLen'[l] = 0 /\ ~Model!Done(l)'
            BY <2>1 DEF Model!Generate, Model!Cleared, Model!Done, Model!Layer
        <3> QED
            BY <2>1, <3>1 DEF Lengths, Entries
    <2>5. Passing'
        <3>1. 0 % 2 = 0 /\ n' \in 1 .. fed' /\ start' = fed' - n'
            BY <2>1
        <3> QED
            BY <2>1, <2>2, <3>1 DEF Passing, Model!Token
    <2>6. Model!LogitsAreLast' /\ Model!FreedOnce'
        BY <2>1 DEF Model!LogitsAreLast, Model!FreedOnce
    <2> QED
        BY <2>3, <2>4, <2>5, <2>6 DEF Inv
<1>9. CASE UNCHANGED Model!genVars
    BY <1>9 DEF Model!genVars, Inv, Model!TypeOK, Lengths, Entries, Passing, Model!LogitsAreLast,
        Model!FreedOnce, Model!Done, Model!Right, Model!Token
<1> QED
    BY <1>1, <1>2, <1>3, <1>4, <1>5, <1>6, <1>7, <1>8, <1>9 DEF Model!Next

\* The model, in a behaviour that is its own or of another part of the inference code
LEMMA ModelIsItsOwn == EngineSpec => Model!Spec
<1>1. EngineInit => Model!Init
    BY DEF EngineInit
<1>2. [EngineNext]_engineVars => [Model!Next]_(Model!genVars)
    BY DEF EngineNext, engineVars, genVars, Model!genVars
<1> QED
    BY <1>1, <1>2, PTL DEF EngineSpec, Model!Spec

\* Whatever allocations fail and however the passes and resets come: each cache
\* holds exactly the tokens since the reset at their positions, the logits a
\* token is sampled from are the last token's, and a pass frees its buffers
\* once (qwen3_forward, qwen3_generate).
THEOREM TokensKeepTheirPast == EngineSpec => []TokensHaveTheirPast
<1>1. Model!Spec => []Inv
    BY InitInv, StepInv, PTL DEF Model!Spec
<1>2. Inv => TokensHaveTheirPast
    BY DEF Inv, TokensHaveTheirPast, Model!TokensHaveTheirPast, Model!CacheIsHistory, Lengths,
        Entries
<1> QED
    BY <1>1, <1>2, ModelIsItsOwn, PTL
-----------------------------------------------------------------------------
(***************************************************************************)
(* The inner loops of the matrix kernels, for every depth: whatever is     *)
(* left over by the unrolled turns, each comes to all the terms, once.     *)
(***************************************************************************)
LEMMA MulMore == \A a, b, c \in Nat : a <= b => a * c <= b * c
OBVIOUS

LEMMA Divides == \A a \in Int, b \in Nat \ {0} :
    /\ a \div b \in Int /\ a % b \in 0 .. b - 1 /\ a = b * (a \div b) + (a % b)
OBVIOUS
LEMMA DividesOnce == \A a, b \in Nat \ {0} : a >= b => a \div b \in Nat \ {0}
<1> SUFFICES ASSUME NEW a \in Nat \ {0}, NEW b \in Nat \ {0}, a >= b
             PROVE  a \div b \in Nat \ {0}
    OBVIOUS
<1>1. a \div b \in Int /\ a % b \in 0 .. b - 1 /\ a = b * (a \div b) + (a % b)
    BY Divides
<1> QED
    BY <1>1

LEMMA CeilCovers == \A a \in Nat, b \in Nat \ {0} :
    Ceil(a, b) \in Nat /\ b * Ceil(a, b) >= a /\ b * Ceil(a, b) < a + b
BY DEF Ceil
LEMMA MulMod == \A a \in Nat, b \in Nat \ {0} : (b * a) % b = 0
OBVIOUS

LEMMA PlainComplete == ASSUME NEW K \in Nat PROVE Plain(K) = Complete(K)
BY DEF Plain, Complete, Before

LEMMA UnrolledComplete == ASSUME NEW K \in Nat PROVE Unrolled(K) = Complete(K)
<1> DEFINE U == Unroll
           q == K \div U
           turns == {k \in 0 .. K : k % U = 0 /\ k + U <= K}
           rest == U * Cardinality(turns) .. K - 1
           had(t) == {k \in turns : t \in k .. k + U - 1}
<1>1. U \in Nat \ {0} /\ q \in Nat /\ U * q <= K /\ K < U * q + U
    BY UnrollAssumption, Divides
<1> HIDE DEF q
<1>2. \A k \in turns : \E j \in 0 .. q - 1 : k = U * j
    <2> SUFFICES ASSUME NEW k \in turns PROVE \E j \in 0 .. q - 1 : k = U * j
        OBVIOUS
    <2>1. k \in Nat /\ k = U * (k \div U) /\ k \div U \in Int
        BY <1>1, Divides
    <2>2. k \div U \in Nat
        BY <1>1, <2>1
    <2>3. k \div U < q
        BY <1>1, <2>1, <2>2
    <2> QED
        BY <1>1, <2>1, <2>2, <2>3
<1>3. \A j \in 0 .. q - 1 : U * j \in turns
    <2> SUFFICES ASSUME NEW j \in 0 .. q - 1 PROVE U * j \in turns
        OBVIOUS
    <2>1. U * j + U <= U * q
        BY <1>1
    <2>2. j \in Nat /\ U * j \in Nat
        BY <1>1
    <2>4. U * j \in 0 .. K
        BY <1>1, <2>1, <2>2
    <2>3. (U * j) % U = 0
        BY <1>1, <2>2, MulMod
    <2> QED
        BY <1>1, <2>1, <2>2, <2>3, <2>4
<1>4. Cardinality(turns) = q
    <2> DEFINE f == [j \in 1 .. q |-> U * (j - 1)]
    <2>1. f \in [1 .. q -> turns]
        BY <1>1, <1>3
    <2>2. \A i, j \in 1 .. q : f[i] = f[j] => i = j
        BY <1>1
    <2>3. \A k \in turns : \E j \in 1 .. q : f[j] = k
        <3> SUFFICES ASSUME NEW k \in turns PROVE \E j \in 1 .. q : f[j] = k
            OBVIOUS
        <3>1. PICK j \in 0 .. q - 1 : k = U * j
            BY <1>2
        <3>2. j + 1 \in 1 .. q /\ (j + 1) - 1 = j
            BY <1>1
        <3> QED
            BY <3>1, <3>2
    <2>4. f \in Bijection(1 .. q, turns)
        <3> HIDE DEF f, turns
        <3> QED
            BY <2>1, <2>2, <2>3 DEF Bijection, Injection, Surjection, IsInjective
    <2>5. Cardinality(1 .. q) = q /\ IsFiniteSet(1 .. q)
        BY <1>1, FS_Interval
    <2>6. ExistsBijection(1 .. q, turns)
        BY <2>4 DEF ExistsBijection
    <2> QED
        BY <2>5, <2>6, FS_Bijection
<1>5. ASSUME NEW t \in Before .. K - 1
      PROVE  Cardinality(had(t)) + (IF t \in rest THEN 1 ELSE 0) = IF t = Before THEN 0 ELSE 1
    <2>1. CASE t \in 0 .. U * q - 1
        <3>1. t \div U \in 0 .. q - 1 /\ t \in U * (t \div U) .. U * (t \div U) + U - 1
            <4>1. t \in Nat /\ t < U * q
                BY <1>1, <2>1
            <4>2. t \div U \in Int /\ t % U \in 0 .. U - 1 /\ t = U * (t \div U) + (t % U)
                BY <1>1, <4>1, Divides
            <4>3. t \div U >= 0
                BY <1>1, <4>1, <4>2
            <4>4. t \div U < q
                BY <1>1, <4>1, <4>2
            <4> QED
                BY <1>1, <4>1, <4>2, <4>3, <4>4
        <3>2. \A k \in had(t) : k = U * (t \div U)
            <4> SUFFICES ASSUME NEW k \in had(t) PROVE k = U * (t \div U)
                OBVIOUS
            <4>1. PICK j \in 0 .. q - 1 : k = U * j
                BY <1>2
            <4>2. t \in U * j .. U * j + U - 1
                BY <4>1
            <4>3. j = t \div U
                BY <1>1, <3>1, <4>2
            <4> QED
                BY <4>1, <4>3
        <3>3. had(t) = {U * (t \div U)}
            <4>1. U * (t \div U) \in had(t)
                BY <1>3, <3>1
            <4> HIDE DEF had
            <4> QED
                BY <3>2, <4>1
        <3>4. Cardinality(had(t)) = 1
            BY <3>3, FS_Singleton
        <3>5. t \notin rest /\ t # Before
            BY <1>1, <1>4, <2>1 DEF Before
        <3> QED
            BY <3>4, <3>5
    <2>2. CASE t \notin 0 .. U * q - 1
        <3>1. had(t) = {}
            <4> SUFFICES ASSUME NEW k \in had(t) PROVE FALSE
                OBVIOUS
            <4>1. PICK j \in 0 .. q - 1 : k = U * j
                BY <1>2
            <4>2. t \in U * j .. U * j + U - 1 /\ U * j + U <= U * q /\ U * j >= 0
                BY <1>1, <4>1
            <4> QED
                BY <1>1, <2>2, <4>2
        <3>2. Cardinality(had(t)) = 0
            BY <3>1, FS_EmptySet
        <3>3. t \in rest <=> t # Before
            BY <1>1, <1>4, <2>2 DEF Before
        <3> QED
            BY <3>2, <3>3
    <2> QED
        BY <2>1, <2>2
<1>6. Unrolled(K) = [t \in Before .. K - 1 |-> Cardinality(had(t)) + (IF t \in rest THEN 1 ELSE 0)]
    BY DEF Unrolled
<1> HIDE DEF had, rest
<1> QED
    BY <1>5, <1>6 DEF Complete

LEMMA NatSetInduction ==
    ASSUME NEW T \in SUBSET Nat, 0 \in T, \A i \in T : i + 1 \in T
    PROVE  T = Nat
<1> DEFINE rest == Nat \ T
           less == OpToRel(<, Nat)
<1> SUFFICES ASSUME rest # {} PROVE FALSE
    OBVIOUS
<1>1. IsWellFoundedOn(less, Nat)
    BY NatLessThanWellFounded
<1>2. \A x, y \in Nat : <<y, x>> \in less <=> y < x
    BY DEF OpToRel
<1> HIDE DEF less
<1>3. \E x \in rest : \A y \in rest : ~(<<y, x>> \in less)
    BY <1>1, WFMin
<1>4. PICK x \in rest : \A y \in rest : ~(y < x)
    BY <1>2, <1>3
<1>5. x # 0 /\ x - 1 \in Nat /\ x - 1 < x
    BY <1>4
<1>6. x - 1 \in T
    BY <1>4, <1>5
<1> QED
    BY <1>4, <1>5, <1>6

LEMMA UpTo ==
    ASSUME NEW len \in Nat, NEW T, 0 \in T,
           \A i \in 0 .. len : i \in T /\ i + 1 <= len => i + 1 \in T
    PROVE  0 .. len \subseteq T
<1> DEFINE U == {i \in Nat : i <= len => i \in T}
<1>1. 0 \in U
    OBVIOUS
<1>2. ASSUME NEW i \in U PROVE i + 1 \in U
    BY <1>2
<1>3. U \in SUBSET Nat
    OBVIOUS
<1> HIDE DEF U
<1>4. U = Nat
    BY <1>1, <1>2, <1>3, NatSetInduction
<1> QED
    BY <1>4 DEF U
-----------------------------------------------------------------------------
(***************************************************************************)
(* The loops of the AMX kernels are folds: these are the values they have  *)
(* after each turn.                                                        *)
(***************************************************************************)
Loop(what, v, x) ==
    IF what.loop = "turn" THEN Load(Fma(v, x, what.k = 0 /\ x = 0), x, what.k + Unroll + x)
    ELSE IF what.loop = "drain" THEN Fma(v, x, what.k = 0 /\ x = 0)
    ELSE IF what.loop = "turns" THEN Turn(v, x)
    ELSE Fma(Load(v, 0, x), 0, what.skip /\ x = 0)

IsFold(g, what, init, s, len) ==
    g = [S \in SUBSET (1 .. len) |->
            IF S = {} THEN init ELSE Loop(what, g[S \ {Max(S)}], s[Max(S)])]

LEMMA LastIsMost ==
    ASSUME NEW m \in Nat, NEW S \in SUBSET (1 .. m + 1), m + 1 \in S
    PROVE  Max(S) = m + 1
<1>1. \A y \in S : m + 1 >= y /\ y \in Nat
    OBVIOUS
<1>2. \A x \in S : (\A y \in S : x >= y) => x = m + 1
    BY <1>1
<1>3. Max(S) \in S /\ \A y \in S : Max(S) >= y
    BY <1>1 DEF Max
<1> QED
    BY <1>2, <1>3

LEMMA FoldExists ==
    ASSUME NEW what, NEW init, NEW s, NEW len \in Nat
    PROVE  \E g : IsFold(g, what, init, s, len)
<1> DEFINE Folds(g, m) ==
                g = [S \in SUBSET (1 .. m) |->
                        IF S = {} THEN init
                        ELSE Loop(what, g[S \ {Max(S)}], s[Max(S)])]
           T == {m \in 0 .. len : \E g : Folds(g, m)}
<1>1. 0 \in T
    <2> DEFINE g == [S \in SUBSET (1 .. 0) |-> init]
    <2>1. \A S \in SUBSET (1 .. 0) : S = {}
        OBVIOUS
    <2>2. Folds(g, 0)
        BY <2>1
    <2> QED
        BY <2>2
<1>2. ASSUME NEW m \in 0 .. len, m \in T, m + 1 <= len PROVE m + 1 \in T
    <2>1. PICK g : Folds(g, m)
        BY <1>2
    <2>2. \A S \in SUBSET (1 .. m) :
            g[S] = IF S = {} THEN init ELSE Loop(what, g[S \ {Max(S)}], s[Max(S)])
        BY <2>1
    <2> DEFINE H(S) == IF m + 1 \in S THEN Loop(what, g[S \ {m + 1}], s[m + 1]) ELSE g[S]
               h == [S \in SUBSET (1 .. m + 1) |-> H(S)]
    <2>3. \A S \in SUBSET (1 .. m + 1) : h[S] = H(S)
        OBVIOUS
    <2>4. m \in Nat /\ m + 1 \in 0 .. len /\ m + 1 \notin 1 .. m /\ 1 .. m \subseteq 1 .. m + 1
        BY <1>2
    <2> HIDE DEF h
    <2>5. ASSUME NEW S \in SUBSET (1 .. m + 1)
          PROVE  H(S) = IF S = {} THEN init
                        ELSE Loop(what, h[S \ {Max(S)}], s[Max(S)])
        <3>1. CASE m + 1 \in S
            <4>1. Max(S) = m + 1
                BY <2>4, <3>1, LastIsMost
            <4>2. S \ {m + 1} \in SUBSET (1 .. m) /\ S \ {m + 1} \in SUBSET (1 .. m + 1)
                BY <2>4
            <4>3. m + 1 \notin S \ {m + 1}
                OBVIOUS
            <4>4. h[S \ {m + 1}] = g[S \ {m + 1}]
                BY <2>3, <4>2, <4>3
            <4> QED
                BY <3>1, <4>1, <4>4
        <3>2. CASE m + 1 \notin S
            <4>1. S \in SUBSET (1 .. m)
                BY <2>4, <3>2
            <4>2. S \ {Max(S)} \in SUBSET (1 .. m + 1) /\ m + 1 \notin S \ {Max(S)}
                BY <3>2
            <4>3. h[S \ {Max(S)}] = g[S \ {Max(S)}]
                BY <2>3, <4>2
            <4> QED
                BY <2>2, <3>2, <4>1, <4>3
        <3> QED
            BY <3>1, <3>2
    <2>6. Folds(h, m + 1)
        <3> HIDE DEF H
        <3>1. h = [S \in SUBSET (1 .. m + 1) |-> H(S)]
            BY DEF h
        <3> QED
            BY <2>5, <3>1
    <2> QED
        BY <2>4, <2>6
<1> HIDE DEF T
<1>3. 0 .. len \subseteq T
    BY <1>1, <1>2, UpTo
<1>4. len \in T
    BY <1>3
<1> QED
    BY <1>4 DEF T, IsFold

\* What such a fold has after each element
GoesOn(g, what, init, s, len) ==
    /\ g[1 .. 0] = init
    /\ \A m \in 0 .. len - 1 : g[1 .. m + 1] = Loop(what, g[1 .. m], s[m + 1])

LEMMA FoldSteps ==
    ASSUME NEW what, NEW init, NEW s, NEW len \in Nat, NEW g, IsFold(g, what, init, s, len)
    PROVE  GoesOn(g, what, init, s, len)
<1>1. \A S \in SUBSET (1 .. len) :
        g[S] = IF S = {} THEN init ELSE Loop(what, g[S \ {Max(S)}], s[Max(S)])
    <2> DEFINE F(S) == IF S = {} THEN init
                       ELSE Loop(what, g[S \ {Max(S)}], s[Max(S)])
    <2>1. g = [S \in SUBSET (1 .. len) |-> F(S)]
        BY Zenon DEF IsFold
    <2> HIDE DEF F
    <2>2. \A S \in SUBSET (1 .. len) : g[S] = F(S)
        BY <2>1
    <2> QED
        BY <2>2 DEF F
<1>2. 1 .. 0 = {} /\ 1 .. 0 \in SUBSET (1 .. len)
    OBVIOUS
<1>3. ASSUME NEW m \in 0 .. len - 1 PROVE g[1 .. m + 1] = Loop(what, g[1 .. m], s[m + 1])
    <2>3. m \in Nat /\ m + 1 <= len
        OBVIOUS
    <2>4. 1 .. m + 1 \in SUBSET (1 .. len) /\ (1 .. m + 1) \ {m + 1} = 1 .. m
        BY <2>3
    <2>1. /\ m \in Nat /\ m + 1 \in 1 .. m + 1 /\ 1 .. m + 1 \in SUBSET (1 .. len)
          /\ 1 .. m + 1 # {} /\ (1 .. m + 1) \ {m + 1} = 1 .. m
        BY <2>3, <2>4
    <2>2. Max(1 .. m + 1) = m + 1
        BY <2>1, LastIsMost
    <2> QED
        BY <1>1, <2>1, <2>2
<1> QED
    BY <1>1, <1>2, <1>3 DEF GoesOn

Result(what, init, s, len) == (CHOOSE g : IsFold(g, what, init, s, len))[1 .. len]

LEMMA Runs ==
    ASSUME NEW what, NEW init, NEW s, NEW len \in Nat
    PROVE  \E v : /\ v[0] = init
                  /\ \A m \in 0 .. len - 1 : v[m + 1] = Loop(what, v[m], s[m + 1])
                  /\ Result(what, init, s, len) = v[len]
<1> DEFINE fold == CHOOSE g : IsFold(g, what, init, s, len)
           v == [m \in 0 .. len |-> fold[1 .. m]]
<1>1. IsFold(fold, what, init, s, len)
    <2>1. \E g : IsFold(g, what, init, s, len)
        BY FoldExists
    <2> QED
        BY <2>1, Zenon
<1>2. Result(what, init, s, len) = fold[1 .. len]
    BY Zenon DEF Result
<1> HIDE DEF fold
<1>3. /\ fold[1 .. 0] = init
      /\ \A m \in 0 .. len - 1 : fold[1 .. m + 1] = Loop(what, fold[1 .. m], s[m + 1])
    <2>1. GoesOn(fold, what, init, s, len)
        BY <1>1, FoldSteps
    <2> QED
        BY <2>1, Zenon DEF GoesOn
<1>4. \A m \in 0 .. len - 1 : m \in 0 .. len /\ m + 1 \in 0 .. len
    OBVIOUS
<1>5. v[0] = init /\ v[len] = fold[1 .. len]
    BY <1>3
<1>6. \A m \in 0 .. len - 1 : v[m + 1] = Loop(what, v[m], s[m + 1])
    BY <1>3, <1>4
<1> HIDE DEF v
<1> QED
    BY <1>2, <1>5, <1>6

\* The loops of the AMX kernels are such folds.
LEMMA TurnIs ==
    ASSUME NEW s, NEW k
    PROVE  Turn(s, k) = Result([loop |-> "turn", k |-> k], s, Registers, Unroll)
<1> DEFINE what == [loop |-> "turn", k |-> k]
           Folds(g) ==
                g = [S \in SUBSET (DOMAIN Registers) |->
                        IF S = {} THEN s
                        ELSE Load(Fma(g[S \ {Max(S)}], Registers[Max(S)],
                                      k = 0 /\ Registers[Max(S)] = 0),
                                  Registers[Max(S)], k + Unroll + Registers[Max(S)])]
<1>1. Turn(s, k) = (CHOOSE g : Folds(g))[DOMAIN Registers]
    BY Zenon DEF Turn, FoldLeft, MapThenFoldSet
<1>2. DOMAIN Registers = 1 .. Unroll
    BY DEF Registers
<1>3. \A v, x : Loop(what, v, x) = Load(Fma(v, x, k = 0 /\ x = 0), x, k + Unroll + x)
    BY DEF Loop
<1> HIDE DEF what
<1>4. ASSUME NEW g PROVE Folds(g) <=> IsFold(g, what, s, Registers, Unroll)
    <2>1. Folds(g) <=>
            g = [S \in SUBSET (1 .. Unroll) |->
                    IF S = {} THEN s
                    ELSE Load(Fma(g[S \ {Max(S)}], Registers[Max(S)],
                                  k = 0 /\ Registers[Max(S)] = 0),
                              Registers[Max(S)], k + Unroll + Registers[Max(S)])]
        BY <1>2, Zenon
    <2>2. \A S : Load(Fma(g[S \ {Max(S)}], Registers[Max(S)],
                                  k = 0 /\ Registers[Max(S)] = 0),
                              Registers[Max(S)], k + Unroll + Registers[Max(S)])
                  = Loop(what, g[S \ {Max(S)}], Registers[Max(S)])
        BY <1>3, Zenon
    <2> QED
        BY <2>1, <2>2 DEF IsFold
<1> HIDE DEF Folds
<1>5. (CHOOSE g : Folds(g)) = CHOOSE g : IsFold(g, what, s, Registers, Unroll)
    BY <1>4
<1> QED
    BY <1>1, <1>2, <1>5, Zenon DEF Result, what

LEMMA DrainIs ==
    ASSUME NEW s, NEW k
    PROVE  Drain(s, k) = Result([loop |-> "drain", k |-> k], s, Registers, Unroll)
<1> DEFINE what == [loop |-> "drain", k |-> k]
           Folds(g) ==
                g = [S \in SUBSET (DOMAIN Registers) |->
                        IF S = {} THEN s
                        ELSE Fma(g[S \ {Max(S)}], Registers[Max(S)],
                                 k = 0 /\ Registers[Max(S)] = 0)]
<1>1. Drain(s, k) = (CHOOSE g : Folds(g))[DOMAIN Registers]
    BY Zenon DEF Drain, FoldLeft, MapThenFoldSet
<1>2. DOMAIN Registers = 1 .. Unroll
    BY DEF Registers
<1>3. \A v, x : Loop(what, v, x) = Fma(v, x, k = 0 /\ x = 0)
    BY DEF Loop
<1> HIDE DEF what
<1>4. ASSUME NEW g PROVE Folds(g) <=> IsFold(g, what, s, Registers, Unroll)
    <2>1. Folds(g) <=>
            g = [S \in SUBSET (1 .. Unroll) |->
                    IF S = {} THEN s
                        ELSE Fma(g[S \ {Max(S)}], Registers[Max(S)],
                                 k = 0 /\ Registers[Max(S)] = 0)]
        BY <1>2, Zenon
    <2>2. \A S : Fma(g[S \ {Max(S)}], Registers[Max(S)], k = 0 /\ Registers[Max(S)] = 0)
                  = Loop(what, g[S \ {Max(S)}], Registers[Max(S)])
        BY <1>3, Zenon
    <2> QED
        BY <2>1, <2>2 DEF IsFold
<1> HIDE DEF Folds
<1>5. (CHOOSE g : Folds(g)) = CHOOSE g : IsFold(g, what, s, Registers, Unroll)
    BY <1>4
<1> QED
    BY <1>1, <1>2, <1>5, Zenon DEF Result, what

\* The terms that are left over, and the first terms of the turns
Terms(from, K) == [i \in 1 .. K - from |-> from + i - 1]
Bases(turns) == [i \in 1 .. turns |-> (i - 1) * Unroll]

LEMMA OneByOneIs ==
    ASSUME NEW s, NEW from, NEW K \in Nat, NEW skip, K - from \in Nat
    PROVE  OneByOne(s, from, K, skip) =
                Result([loop |-> "terms", skip |-> skip], s, Terms(from, K), K - from)
<1> DEFINE what == [loop |-> "terms", skip |-> skip]
           Folds(g) ==
                g = [S \in SUBSET (DOMAIN Terms(from, K)) |->
                        IF S = {} THEN s
                        ELSE Fma(Load(g[S \ {Max(S)}], 0, Terms(from, K)[Max(S)]), 0,
                                 skip /\ Terms(from, K)[Max(S)] = 0)]
<1>1. OneByOne(s, from, K, skip) = (CHOOSE g : Folds(g))[DOMAIN Terms(from, K)]
    BY Zenon DEF OneByOne, FoldLeft, MapThenFoldSet, Terms
<1>2. DOMAIN Terms(from, K) = 1 .. K - from
    BY DEF Terms
<1>3. \A v, x : Loop(what, v, x) = Fma(Load(v, 0, x), 0, skip /\ x = 0)
    BY DEF Loop
<1> HIDE DEF what
<1>4. ASSUME NEW g PROVE Folds(g) <=> IsFold(g, what, s, Terms(from, K), K - from)
    <2>1. Folds(g) <=>
            g = [S \in SUBSET (1 .. K - from) |->
                    IF S = {} THEN s
                        ELSE Fma(Load(g[S \ {Max(S)}], 0, Terms(from, K)[Max(S)]), 0,
                                 skip /\ Terms(from, K)[Max(S)] = 0)]
        BY <1>2, Zenon
    <2>2. \A S : Fma(Load(g[S \ {Max(S)}], 0, Terms(from, K)[Max(S)]), 0,
                      skip /\ Terms(from, K)[Max(S)] = 0)
                  = Loop(what, g[S \ {Max(S)}], Terms(from, K)[Max(S)])
        BY <1>3, Zenon
    <2> QED
        BY <2>1, <2>2 DEF IsFold
<1> HIDE DEF Folds
<1>5. (CHOOSE g : Folds(g)) = CHOOSE g : IsFold(g, what, s, Terms(from, K), K - from)
    BY <1>4
<1> QED
    BY <1>1, <1>2, <1>5, Zenon DEF Result, what

LEMMA TurnsAre ==
    ASSUME NEW s, NEW turns \in Nat
    PROVE  FoldLeft(Turn, s, Bases(turns)) = Result([loop |-> "turns"], s, Bases(turns), turns)
<1> DEFINE what == [loop |-> "turns"]
           Folds(g) ==
                g = [S \in SUBSET (DOMAIN Bases(turns)) |->
                        IF S = {} THEN s ELSE Turn(g[S \ {Max(S)}], Bases(turns)[Max(S)])]
<1>1. FoldLeft(Turn, s, Bases(turns)) = (CHOOSE g : Folds(g))[DOMAIN Bases(turns)]
    BY Zenon DEF FoldLeft, MapThenFoldSet
<1>2. DOMAIN Bases(turns) = 1 .. turns
    BY DEF Bases
<1>3. \A v, x : Loop(what, v, x) = Turn(v, x)
    BY DEF Loop
<1> HIDE DEF what
<1>4. ASSUME NEW g PROVE Folds(g) <=> IsFold(g, what, s, Bases(turns), turns)
    <2>1. Folds(g) <=>
            g = [S \in SUBSET (1 .. turns) |->
                    IF S = {} THEN s ELSE Turn(g[S \ {Max(S)}], Bases(turns)[Max(S)])]
        BY <1>2, Zenon
    <2>2. \A S : Turn(g[S \ {Max(S)}], Bases(turns)[Max(S)])
                  = Loop(what, g[S \ {Max(S)}], Bases(turns)[Max(S)])
        BY <1>3, Zenon
    <2> QED
        BY <2>1, <2>2 DEF IsFold
<1> HIDE DEF Folds
<1>5. (CHOOSE g : Folds(g)) = CHOOSE g : IsFold(g, what, s, Bases(turns), turns)
    BY <1>4
<1> QED
    BY <1>1, <1>2, <1>5, Zenon DEF Result, what
-----------------------------------------------------------------------------
\* The registers hold the first m terms; before there is any, anything.
First(m, K) == [t \in Before .. K - 1 |-> IF t \in 0 .. m - 1 THEN 1 ELSE 0]
Summed(s, m, K) ==
    /\ s \in [z : [Before .. K - 1 -> Nat], reg : [0 .. Unroll - 1 -> Nat]]
    /\ m > 0 => s.z = First(m, K)

LEMMA FmaAdds ==
    ASSUME NEW s, NEW m \in Nat, NEW K \in Nat, Summed(s, m, K),
           NEW r \in 0 .. Unroll - 1, s.reg[r] = m, NEW skip, skip <=> m = 0
    PROVE  Summed(Fma(s, r, skip), m + 1, K) /\ Fma(s, r, skip).reg = s.reg
<1> DEFINE D == Before .. K - 1
           e == [t \in D |-> (IF skip THEN 0 ELSE s.z[t]) + (IF t = s.reg[r] THEN 1 ELSE 0)]
<1>1. s \in [z : [D -> Nat], reg : [0 .. Unroll - 1 -> Nat]]
    BY DEF Summed
<1>2. DOMAIN s.z = D
    BY <1>1
<1>3. Fma(s, r, skip) = [s EXCEPT !.z = e]
    BY <1>2, Zenon DEF Fma
<1>4. e = First(m + 1, K)
    <2> SUFFICES ASSUME NEW t \in D PROVE e[t] = First(m + 1, K)[t]
        BY DEF First
    <2>1. First(m + 1, K)[t] = IF t \in 0 .. m THEN 1 ELSE 0
        BY DEF First
    <2>2. e[t] = (IF skip THEN 0 ELSE s.z[t]) + (IF t = m THEN 1 ELSE 0)
        OBVIOUS
    <2>3. CASE m = 0
        BY <2>1, <2>2, <2>3 DEF Before
    <2>4. CASE m > 0
        <3>1. s.z[t] = IF t \in 0 .. m - 1 THEN 1 ELSE 0
            BY <2>4 DEF Summed, First
        <3> QED
            BY <2>1, <2>2, <2>4, <3>1 DEF Before
    <2> QED
        BY <2>3, <2>4
<1>5. e \in [D -> Nat]
    BY <1>4 DEF First
<1> HIDE DEF e
<1>6. /\ Fma(s, r, skip) \in [z : [D -> Nat], reg : [0 .. Unroll - 1 -> Nat]]
      /\ Fma(s, r, skip).z = e /\ Fma(s, r, skip).reg = s.reg
    BY <1>1, <1>3, <1>5
<1> QED
    BY <1>4, <1>6 DEF Summed

LEMMA LoadKeeps ==
    ASSUME NEW s, NEW m \in Nat, NEW K \in Nat, Summed(s, m, K),
           NEW r \in 0 .. Unroll - 1, NEW k \in Nat
    PROVE  Summed(Load(s, r, k), m, K) /\ Load(s, r, k).reg = [s.reg EXCEPT ![r] = k]
BY DEF Summed, Load

\* The registers r, r + 1, ... hold the terms k + r, ..., those before the next.
Loaded(s, k, r) ==
    \A x \in 0 .. Unroll - 1 : s.reg[x] = IF x < r THEN k + Unroll + x ELSE k + x

LEMMA TurnAdds ==
    ASSUME NEW s, NEW k \in Nat, NEW K \in Nat, Summed(s, k, K), Loaded(s, k, 0)
    PROVE  Summed(Turn(s, k), k + Unroll, K) /\ Loaded(Turn(s, k), k + Unroll, 0)
<1> DEFINE what == [loop |-> "turn", k |-> k]
<1>0. Unroll \in Nat \ {0}
    BY UnrollAssumption
<1>1. PICK v : /\ v[0] = s
               /\ \A m \in 0 .. Unroll - 1 : v[m + 1] = Loop(what, v[m], Registers[m + 1])
               /\ Result(what, s, Registers, Unroll) = v[Unroll]
    <2> HIDE DEF what
    <2> QED
        BY <1>0, Runs
<1>2. Turn(s, k) = v[Unroll]
    BY <1>1, TurnIs
<1>3. \A m \in 0 .. Unroll - 1 :
        v[m + 1] = Load(Fma(v[m], m, k = 0 /\ m = 0), m, k + Unroll + m)
    <2> SUFFICES ASSUME NEW m \in 0 .. Unroll - 1
                 PROVE  v[m + 1] = Load(Fma(v[m], m, k = 0 /\ m = 0), m, k + Unroll + m)
        OBVIOUS
    <2>1. Registers[m + 1] = m
        BY <1>0 DEF Registers
    <2>2. v[m + 1] = Loop(what, v[m], m)
        BY <1>1, <2>1
    <2> QED
        BY <2>2 DEF Loop
<1> DEFINE T == {m \in 0 .. Unroll : Summed(v[m], k + m, K) /\ Loaded(v[m], k, m)}
<1>4. 0 \in T
    BY <1>0, <1>1
<1>5. ASSUME NEW m \in 0 .. Unroll, m \in T, m + 1 <= Unroll PROVE m + 1 \in T
    <2>1. m \in 0 .. Unroll - 1 /\ k + m \in Nat /\ k + Unroll + m \in Nat /\ m + 1 \in 0 .. Unroll
        BY <1>0, <1>5
    <2>2. Summed(v[m], k + m, K) /\ Loaded(v[m], k, m)
        BY <1>5
    <2>3. v[m].reg[m] = k + m
        BY <2>1, <2>2 DEF Loaded
    <2> DEFINE skip == k = 0 /\ m = 0
               f == Fma(v[m], m, skip)
    <2>4. skip <=> k + m = 0
        BY <2>1
    <2> HIDE DEF skip
    <2>5. Summed(f, k + m + 1, K) /\ f.reg = v[m].reg
        BY <2>1, <2>2, <2>3, <2>4, FmaAdds
    <2> HIDE DEF f
    <2>6. k + m + 1 \in Nat
        BY <2>1
    <2>7. Summed(Load(f, m, k + Unroll + m), k + m + 1, K)
          /\ Load(f, m, k + Unroll + m).reg = [f.reg EXCEPT ![m] = k + Unroll + m]
        BY <2>1, <2>5, <2>6, LoadKeeps
    <2>8. v[m + 1] = Load(f, m, k + Unroll + m)
        BY <1>3, <2>1 DEF f, skip
    <2>9. Loaded(v[m + 1], k, m + 1)
        <3>1. v[m].reg \in [0 .. Unroll - 1 -> Nat]
            BY <2>2 DEF Summed
        <3>2. v[m + 1].reg = [v[m].reg EXCEPT ![m] = k + Unroll + m]
            BY <2>5, <2>7, <2>8
        <3> SUFFICES ASSUME NEW x \in 0 .. Unroll - 1
                     PROVE  v[m + 1].reg[x] = IF x < m + 1 THEN k + Unroll + x ELSE k + x
            BY DEF Loaded
        <3>3. v[m].reg[x] = IF x < m THEN k + Unroll + x ELSE k + x
            BY <2>2 DEF Loaded
        <3>4. CASE x = m
            <4>1. v[m + 1].reg[m] = k + Unroll + m
                BY <2>1, <3>1, <3>2
            <4> QED
                BY <2>1, <3>4, <4>1
        <3>5. CASE x # m
            BY <2>1, <3>1, <3>2, <3>3, <3>5
        <3> QED
            BY <3>4, <3>5
    <2>10. k + (m + 1) = k + m + 1
        BY <2>1
    <2> QED
        BY <2>1, <2>7, <2>8, <2>9, <2>10
<1> HIDE DEF T
<1>6. Unroll \in T
    <2>1. 0 .. Unroll \subseteq T
        BY <1>0, <1>4, <1>5, UpTo
    <2> QED
        BY <1>0, <2>1
<1>7. Summed(v[Unroll], k + Unroll, K) /\ Loaded(v[Unroll], k, Unroll)
    BY <1>6 DEF T
<1>8. Loaded(v[Unroll], k + Unroll, 0)
    BY <1>0, <1>7 DEF Loaded
<1> QED
    BY <1>2, <1>7, <1>8

LEMMA DrainAdds ==
    ASSUME NEW s, NEW k \in Nat, NEW K \in Nat, Summed(s, k, K), Loaded(s, k, 0)
    PROVE  Summed(Drain(s, k), k + Unroll, K)
<1> DEFINE what == [loop |-> "drain", k |-> k]
<1>0. Unroll \in Nat \ {0}
    BY UnrollAssumption
<1>1. PICK v : /\ v[0] = s
               /\ \A m \in 0 .. Unroll - 1 : v[m + 1] = Loop(what, v[m], Registers[m + 1])
               /\ Result(what, s, Registers, Unroll) = v[Unroll]
    <2> HIDE DEF what
    <2> QED
        BY <1>0, Runs
<1>2. Drain(s, k) = v[Unroll]
    BY <1>1, DrainIs
<1>3. \A m \in 0 .. Unroll - 1 : v[m + 1] = Fma(v[m], m, k = 0 /\ m = 0)
    <2> SUFFICES ASSUME NEW m \in 0 .. Unroll - 1
                 PROVE  v[m + 1] = Fma(v[m], m, k = 0 /\ m = 0)
        OBVIOUS
    <2>1. Registers[m + 1] = m
        BY <1>0 DEF Registers
    <2>2. v[m + 1] = Loop(what, v[m], m)
        BY <1>1, <2>1
    <2> QED
        BY <2>2 DEF Loop
<1> DEFINE T == {m \in 0 .. Unroll : Summed(v[m], k + m, K) /\ v[m].reg = s.reg}
<1>4. 0 \in T
    BY <1>0, <1>1
<1>5. ASSUME NEW m \in 0 .. Unroll, m \in T, m + 1 <= Unroll PROVE m + 1 \in T
    <2>1. m \in 0 .. Unroll - 1 /\ k + m \in Nat /\ m + 1 \in 0 .. Unroll
        BY <1>0, <1>5
    <2>2. Summed(v[m], k + m, K) /\ v[m].reg = s.reg
        BY <1>5
    <2>3. v[m].reg[m] = k + m
        BY <2>1, <2>2 DEF Loaded
    <2> DEFINE skip == k = 0 /\ m = 0
    <2>4. (skip <=> k + m = 0) /\ v[m + 1] = Fma(v[m], m, skip)
        BY <1>3, <2>1
    <2> HIDE DEF skip
    <2>5. Summed(Fma(v[m], m, skip), k + m + 1, K) /\ Fma(v[m], m, skip).reg = v[m].reg
        BY <2>1, <2>2, <2>3, <2>4, FmaAdds
    <2>6. k + (m + 1) = k + m + 1
        BY <2>1
    <2> QED
        BY <2>1, <2>2, <2>4, <2>5, <2>6
<1> HIDE DEF T
<1>6. Unroll \in T
    <2>1. 0 .. Unroll \subseteq T
        BY <1>0, <1>4, <1>5, UpTo
    <2> QED
        BY <1>0, <2>1
<1> QED
    BY <1>2, <1>6 DEF T

LEMMA OneByOneAdds ==
    ASSUME NEW K \in Nat, NEW from \in 0 .. K, NEW s, Summed(s, from, K),
           NEW skip \in BOOLEAN, from = 0 => skip
    PROVE  Summed(OneByOne(s, from, K, skip), K, K)
<1> DEFINE what == [loop |-> "terms", skip |-> skip]
           seq == Terms(from, K)
           len == K - from
<1>0. Unroll \in Nat \ {0} /\ len \in Nat /\ from \in Nat
    BY UnrollAssumption
<1>1. PICK v : /\ v[0] = s
               /\ \A m \in 0 .. len - 1 : v[m + 1] = Loop(what, v[m], seq[m + 1])
               /\ Result(what, s, seq, len) = v[len]
    <2> HIDE DEF what, seq, len
    <2> QED
        BY <1>0, Runs
<1>2. OneByOne(s, from, K, skip) = v[len]
    BY <1>0, <1>1, OneByOneIs
<1>3. \A m \in 0 .. len - 1 :
        v[m + 1] = Fma(Load(v[m], 0, from + m), 0, skip /\ from + m = 0)
    <2> SUFFICES ASSUME NEW m \in 0 .. len - 1
                 PROVE  v[m + 1] = Fma(Load(v[m], 0, from + m), 0, skip /\ from + m = 0)
        OBVIOUS
    <2>1. seq[m + 1] = from + m
        BY <1>0 DEF Terms
    <2> HIDE DEF seq
    <2>2. v[m + 1] = Loop(what, v[m], from + m)
        BY <1>1, <2>1
    <2> QED
        BY <2>2 DEF Loop
<1> DEFINE T == {m \in 0 .. len : Summed(v[m], from + m, K)}
<1>4. 0 \in T
    BY <1>0, <1>1
<1>5. ASSUME NEW m \in 0 .. len, m \in T, m + 1 <= len PROVE m + 1 \in T
    <2> HIDE DEF seq
    <2>1. m \in 0 .. len - 1 /\ from + m \in Nat /\ m + 1 \in 0 .. len /\ 0 \in 0 .. Unroll - 1
        BY <1>0, <1>5
    <2> DEFINE l == Load(v[m], 0, from + m)
    <2>2. Summed(v[m], from + m, K)
        BY <1>5
    <2>3. Summed(l, from + m, K) /\ l.reg = [v[m].reg EXCEPT ![0] = from + m]
        BY <2>1, <2>2, LoadKeeps
    <2>4. l.reg[0] = from + m
        BY <2>1, <2>2, <2>3 DEF Summed
    <2>5. (skip /\ from + m = 0) <=> from + m = 0
        BY <1>0, <2>1
    <2> HIDE DEF l
    <2>6. Summed(Fma(l, 0, skip /\ from + m = 0), from + m + 1, K)
        BY <2>1, <2>3, <2>4, <2>5, FmaAdds
    <2>7. v[m + 1] = Fma(l, 0, skip /\ from + m = 0)
        BY <1>3, <2>1 DEF l
    <2>8. from + (m + 1) = from + m + 1
        BY <1>0, <2>1
    <2> QED
        BY <2>1, <2>6, <2>7, <2>8
<1> HIDE DEF T
<1>6. len \in T
    <2> HIDE DEF len
    <2>1. 0 .. len \subseteq T
        BY <1>0, <1>4, <1>5, UpTo
    <2> QED
        BY <1>0, <2>1
<1>7. Summed(v[len], from + len, K) /\ from + len = K
    BY <1>0, <1>6 DEF T
<1> QED
    BY <1>2, <1>7

LEMMA Amx32Complete ==
    ASSUME NEW K \in Nat \ {0}, NEW old \in [Before .. K - 1 -> Nat]
    PROVE  Amx32(old, K) = Complete(K)
<1>1. Summed(Prime(old), 0, K)
    BY UnrollAssumption DEF Summed, Prime
<1>2. Summed(OneByOne(Prime(old), 0, K, TRUE), K, K)
    <2>1. 0 \in 0 .. K /\ K \in Nat /\ TRUE \in BOOLEAN
        OBVIOUS
    <2> QED
        BY <1>1, <2>1, OneByOneAdds
<1>3. First(K, K) = Complete(K)
    BY DEF First, Complete, Before
<1>4. \A s : Summed(s, K, K) => s.z = First(K, K)
    BY DEF Summed
<1> QED
    BY <1>2, <1>3, <1>4, Zenon DEF Amx32

LEMMA PipelinedComplete ==
    ASSUME NEW K \in Nat \ {0}, NEW old \in [Before .. K - 1 -> Nat]
    PROVE  Pipelined(old, K) = Complete(K)
<1> DEFINE turns == (K - 2 * Unroll) \div Unroll + 1
           last == Unroll * turns
           seq == Bases(turns)
           inner == FoldLeft(Turn, Prime(old), seq)
<1>0. Unroll \in Nat \ {0}
    BY UnrollAssumption
<1>1. First(K, K) = Complete(K)
    BY DEF First, Complete, Before
<1>2. Summed(Prime(old), 0, K) /\ Loaded(Prime(old), 0, 0)
    BY <1>0 DEF Summed, Prime, Loaded
<1>5. \A s : Summed(s, K, K) => s.z = First(K, K)
    BY DEF Summed
<1>3. CASE K < Unroll
    <2>1. Summed(OneByOne(Prime(old), 0, K, TRUE), K, K)
        <3>1. 0 \in 0 .. K /\ K \in Nat /\ TRUE \in BOOLEAN
            OBVIOUS
        <3> QED
            BY <1>2, <3>1, OneByOneAdds
    <2>2. ~(K >= Unroll)
        BY <1>0, <1>3
    <2>3. Pipelined(old, K) = OneByOne(Prime(old), 0, K, TRUE).z
        BY <2>2, Zenon DEF Pipelined
    <2> QED
        BY <1>1, <1>5, <2>1, <2>3, Zenon
<1>4. CASE K >= Unroll
    <2>1. turns \in Nat /\ last \in Nat /\ last + Unroll <= K
        <3>1. /\ (K - 2 * Unroll) \div Unroll \in Int
              /\ (K - 2 * Unroll) % Unroll \in 0 .. Unroll - 1
              /\ K - 2 * Unroll = Unroll * ((K - 2 * Unroll) \div Unroll)
                                    + ((K - 2 * Unroll) % Unroll)
            <4>1. K - 2 * Unroll \in Int
                BY <1>0
            <4> QED
                BY <1>0, <4>1, Divides
        <3> DEFINE d == (K - 2 * Unroll) \div Unroll
        <3> HIDE DEF d
        <3>2. d \in Int /\ Unroll * d <= K - 2 * Unroll /\ K - 2 * Unroll < Unroll * d + Unroll
            BY <1>0, <3>1 DEF d
        <3>3. d >= -1
            BY <1>0, <1>4, <3>2
        <3>4. Unroll * (d + 1) = Unroll * d + Unroll /\ Unroll * (d + 1) \in Nat
            BY <1>0, <3>2, <3>3
        <3> QED
            BY <1>0, <3>2, <3>3, <3>4 DEF d
    <2> HIDE DEF turns
    <2>2. PICK v : /\ v[0] = Prime(old)
                   /\ \A m \in 0 .. turns - 1 :
                         v[m + 1] = Loop([loop |-> "turns"], v[m], seq[m + 1])
                   /\ Result([loop |-> "turns"], Prime(old), seq, turns) = v[turns]
        <3> HIDE DEF seq
        <3> QED
            BY <2>1, Runs
    <2>3. inner = v[turns]
        BY <2>1, <2>2, TurnsAre
    <2>4. \A m \in 0 .. turns - 1 : v[m + 1] = Turn(v[m], m * Unroll)
        <3> SUFFICES ASSUME NEW m \in 0 .. turns - 1 PROVE v[m + 1] = Turn(v[m], m * Unroll)
            OBVIOUS
        <3>1. seq[m + 1] = m * Unroll
            BY <2>1 DEF Bases
        <3> HIDE DEF seq
        <3>2. v[m + 1] = Loop([loop |-> "turns"], v[m], m * Unroll)
            BY <2>2, <3>1
        <3> QED
            BY <3>2 DEF Loop
    <2> DEFINE T == {m \in 0 .. turns : Summed(v[m], m * Unroll, K) /\ Loaded(v[m], m * Unroll, 0)}
    <2>5. 0 \in T
        BY <1>0, <1>2, <2>1, <2>2
    <2>6. ASSUME NEW m \in 0 .. turns, m \in T, m + 1 <= turns PROVE m + 1 \in T
        <3>1. m \in Nat /\ m \in 0 .. turns - 1 /\ m + 1 \in 0 .. turns
            BY <2>1, <2>6
        <3>2. m * Unroll \in Nat /\ (m + 1) * Unroll = m * Unroll + Unroll
            BY <1>0, <3>1
        <3>3. Summed(v[m], m * Unroll, K) /\ Loaded(v[m], m * Unroll, 0)
            BY <2>6
        <3> DEFINE k == m * Unroll
        <3> HIDE DEF k
        <3>4. Summed(Turn(v[m], k), k + Unroll, K) /\ Loaded(Turn(v[m], k), k + Unroll, 0)
            BY <3>2, <3>3, TurnAdds DEF k
        <3> QED
            BY <2>4, <3>1, <3>2, <3>4 DEF k
    <2> HIDE DEF T
    <2>7. turns \in T
        <3>1. 0 .. turns \subseteq T
            BY <2>1, <2>5, <2>6, UpTo
        <3> QED
            BY <2>1, <3>1
    <2>8. turns * Unroll = last
        BY <1>0, <2>1
    <2>9. Summed(inner, last, K) /\ Loaded(inner, last, 0)
        BY <2>3, <2>7, <2>8 DEF T
    <2> HIDE DEF inner, last
    <2>10. Summed(Drain(inner, last), last + Unroll, K)
        BY <2>1, <2>9, DrainAdds
    <2>11. last + Unroll \in 0 .. K /\ last + Unroll # 0
        BY <1>0, <2>1
    <2>12. Summed(OneByOne(Drain(inner, last), last + Unroll, K, FALSE), K, K)
        BY <2>10, <2>11, OneByOneAdds
    <2>13. Pipelined(old, K) = OneByOne(Drain(inner, last), last + Unroll, K, FALSE).z
        BY <1>4 DEF Pipelined, inner, last, turns, seq, Bases
    <2> QED
        BY <1>1, <1>5, <2>12, <2>13, Zenon
<1> QED
    BY <1>0, <1>3, <1>4
-----------------------------------------------------------------------------
(***************************************************************************)
(* The rows of a matrix among threads, and what the threads leave in it:   *)
(* the parts that the calls make are a partition of the rows (IsPartition) *)
(* and all but the last end where a block ends, so that a block never goes *)
(* beyond its part; each element is what it should be once its thread has  *)
(* gone by, and what it was at the start before (Element).                 *)
(***************************************************************************)
\* The parts are rows of the matrix, each row is in one of them, no two meet,
\* and all but the last end where a block ends.
Steps(h, from, to) == \E k \in Nat : to = from + h * k

Apart(P) == \A p, q \in P : p # q => p.last <= q.first \/ q.last <= p.first
Covers(P, M) == \A i \in 0 .. M - 1 : \E p \in P : p.first <= i /\ i < p.last
Rowed(P, M, h) ==
    \A p \in P : /\ p \in [first : Nat, last : Nat] /\ p.first < p.last /\ p.last <= M
                 /\ p.last = M \/ Steps(h, p.first, p.last)
IsPartition(P, M, h) == Rowed(P, M, h) /\ Apart(P) /\ Covers(P, M)

LEMMA WholePartition ==
    ASSUME NEW M \in Nat \ {0}, NEW h \in Nat \ {0}
    PROVE  IsPartition(Whole(M), M, h)
BY DEF IsPartition, Rowed, Apart, Covers, Whole

LEMMA SplitPartition ==
    ASSUME NEW M \in Nat \ {0}, NEW h \in Nat \ {0}, NEW k \in Nat, NEW c \in Nat \ {0},
           k * (h * c) >= M
    PROVE  IsPartition(Split(M, k, h * c), M, h)
<1> DEFINE rows == h * c
           P == Split(M, k, rows)
           ts == {u \in 0 .. k - 1 : u * rows < M}
           Part(t) == [first |-> t * rows, last |-> Less(t * rows + rows, M)]
<1>1. rows \in Nat \ {0}
    OBVIOUS
<1>2. P = {Part(t) : t \in ts}
    BY DEF Split
<1>3. k * rows >= M
    OBVIOUS
<1>4. ASSUME NEW t \in ts PROVE t \in Nat /\ t * rows \in Nat /\ t * rows < M
    BY <1>1
<1>5. Rowed(P, M, h)
    <2> SUFFICES ASSUME NEW t \in ts
                 PROVE  /\ Part(t) \in [first : Nat, last : Nat]
                        /\ Part(t).first < Part(t).last /\ Part(t).last <= M
                        /\ Part(t).last = M \/ Steps(h, Part(t).first, Part(t).last)
        BY <1>2 DEF Rowed
    <2> HIDE DEF ts
    <2>1. t \in Nat /\ t * rows \in Nat /\ t * rows < M
        BY <1>4
    <2>2. Steps(h, t * rows, t * rows + rows)
        BY DEF Steps
    <2> HIDE DEF rows
    <2> QED
        BY <1>1, <2>1, <2>2 DEF Less
<1>6. Apart(P)
    <2> HIDE DEF rows
    <2> SUFFICES ASSUME NEW t \in ts, NEW u \in ts, t < u
                 PROVE  Part(t).last <= Part(u).first
        <3>1. ASSUME NEW t \in ts, NEW u \in ts, Part(t) # Part(u)
              PROVE  Part(t).last <= Part(u).first \/ Part(u).last <= Part(t).first
            <4>1. t < u \/ u < t
                BY <1>4, <3>1
            <4> QED
                BY <4>1
        <3> QED
            BY <1>2, <3>1 DEF Apart
    <2> HIDE DEF ts
    <2>1. t * rows + rows <= u * rows
        <3>1. t \in Nat /\ u \in Nat /\ t + 1 <= u
            BY <1>4
        <3>2. (t + 1) * rows <= u * rows
            BY <1>1, <3>1, MulMore
        <3>3. (t + 1) * rows = t * rows + rows
            BY <1>1, <3>1
        <3> QED
            BY <3>2, <3>3
    <2>2. t * rows \in Nat /\ u * rows \in Nat
        BY <1>4
    <2> QED
        BY <1>1, <2>1, <2>2 DEF Less
<1>7. Covers(P, M)
    <2> SUFFICES ASSUME NEW i \in 0 .. M - 1
                 PROVE  \E t \in ts : Part(t).first <= i /\ i < Part(t).last
        BY <1>2 DEF Covers
    <2> DEFINE t == i \div rows
    <2>0. t \in Int /\ i % rows \in 0 .. rows - 1 /\ i = rows * t + (i % rows)
        <3> HIDE DEF rows
        <3> QED
            BY <1>1, Divides
    <2> HIDE DEF t, rows
    <2>1. t \in Int /\ rows * t <= i /\ i < rows * t + rows /\ rows * t = t * rows
        BY <1>1, <2>0
    <2>2. t >= 0
        BY <1>1, <2>1
    <2>3. t < k
        <3> SUFFICES ASSUME k <= t PROVE FALSE
            BY <2>1
        <3>1. k * rows <= t * rows
            BY <1>1, <2>1, <2>2, MulMore
        <3> QED
            BY <1>1, <1>3, <2>1, <3>1
    <2>4. t * rows <= i /\ i < t * rows + rows /\ t * rows < M /\ i < M
        BY <1>1, <2>1
    <2>5. t \in ts
        BY <2>1, <2>2, <2>3, <2>4
    <2>6. Part(t).first <= i /\ i < Part(t).last
        BY <1>1, <2>1, <2>4 DEF Less
    <2> QED
        BY <2>5, <2>6
<1> QED
    BY <1>5, <1>6, <1>7 DEF IsPartition

LEMMA RoundedPartition ==
    ASSUME NEW M \in Nat \ {0}, NEW threads \in Nat \ {0}, NEW block \in Nat \ {0}
    PROVE  IsPartition(SplitRounded(M, threads, block), M, block)
<1> DEFINE each == Ceil(M, threads)
           c == Ceil(each, block)
<1>1. each \in Nat /\ threads * each >= M
    BY CeilCovers
<1> HIDE DEF each
<1>2. each > 0
    BY <1>1
<1>3. c \in Nat /\ block * c >= each
    BY <1>1, CeilCovers
<1> HIDE DEF c
<1>4. c \in Nat \ {0} /\ block * c \in Nat
    <2>1. c # 0
        BY <1>1, <1>2, <1>3
    <2> QED
        BY <1>3, <2>1
<1>5. threads * (block * c) >= threads * each
    BY <1>1, <1>3, <1>4
<1>6. threads * (block * c) >= M
    BY <1>1, <1>4, <1>5
<1> QED
    BY <1>4, <1>6, SplitPartition DEF SplitRounded, each, c

\* Which blocks a call is computed in
HeightOf(c) ==
    IF Path(c) \in {"naive", "row"} THEN 1 ELSE IF Path(c) = "neon" THEN Tile ELSE AmxTile

LEMMA PartsPartition ==
    ASSUME NEW c \in Call, c.M \in Nat \ {0}, c.N \in Nat, c.K \in Nat, c.threads \in Nat
    PROVE  IsPartition(Parts(c), c.M, HeightOf(c)) /\ HeightOf(c) \in Nat \ {0}
<1> USE GemmAssumption
<1>0. HeightOf(c) \in Nat \ {0} /\ Tile \in Nat \ {0} /\ AmxTile \in Nat \ {0}
    BY DEF HeightOf
<1>1. CASE ~Threaded(c) \/ Path(c) \in {"naive", "row"}
    <2>1. Parts(c) = Whole(c.M)
        BY <1>1 DEF Parts
    <2> QED
        BY <1>0, <2>1, WholePartition
<1>2. CASE Threaded(c) /\ Path(c) = "amx16"
    <2>1. HeightOf(c) = AmxTile
        BY <1>2 DEF HeightOf
    <2>2. Parts(c) = gemm_f16_kernel_amx_mt(c.M, c.N, c.K)
        BY <1>2 DEF Parts
    <2> DEFINE tiles == Ceil(c.M, AmxTile)
               each == IF tiles >= ManyTiles THEN 1
                       ELSE IF tiles >= SomeTiles THEN 2 ELSE Ceil(tiles, JobsWanted)
    <2>3. \/ Parts(c) = Whole(c.M)
          \/ Parts(c) = Split(c.M, Ceil(tiles, each), each * AmxTile)
        BY <2>2 DEF gemm_f16_kernel_amx_mt
    <2>4. tiles \in Nat /\ AmxTile * tiles >= c.M
        BY <1>0, CeilCovers
    <2> HIDE DEF tiles
    <2>5. tiles \in Nat \ {0}
        BY <1>0, <2>4
    <2>6. each \in Nat \ {0}
        <3>1. JobsWanted \in Nat \ {0}
            OBVIOUS
        <3>2. Ceil(tiles, JobsWanted) \in Nat /\ JobsWanted * Ceil(tiles, JobsWanted) >= tiles
            BY <2>5, <3>1, CeilCovers
        <3>3. Ceil(tiles, JobsWanted) # 0
            BY <2>5, <3>1, <3>2
        <3> QED
            BY <3>2, <3>3
    <2> HIDE DEF each
    <2>7. Ceil(tiles, each) \in Nat /\ each * Ceil(tiles, each) >= tiles
        BY <2>5, <2>6, CeilCovers
    <2> DEFINE k == Ceil(tiles, each)
    <2> HIDE DEF k
    <2>8. k * (AmxTile * each) >= c.M
        <3>1. k \in Nat /\ k * (AmxTile * each) = AmxTile * (each * k) /\ each * k \in Nat
            BY <1>0, <2>6, <2>7 DEF k
        <3>2. AmxTile * (each * k) >= AmxTile * tiles
            BY <1>0, <2>5, <2>7, <3>1 DEF k
        <3> QED
            BY <1>0, <2>4, <2>5, <3>1, <3>2
    <2>9. each * AmxTile = AmxTile * each
        BY <1>0, <2>6
    <2>10. IsPartition(Split(c.M, k, AmxTile * each), c.M, AmxTile)
        BY <1>0, <2>6, <2>7, <2>8, SplitPartition DEF k
    <2> QED
        BY <1>0, <2>1, <2>3, <2>9, <2>10, WholePartition DEF k
<1>3. CASE Threaded(c) /\ Path(c) = "amx32"
    <2>1. HeightOf(c) = AmxTile
        BY <1>3 DEF HeightOf
    <2>2. Parts(c) = gemm_bf16_kernel_amx_mt(c)
        BY <1>3 DEF Parts
    <2>3. c.threads \in Nat \ {0}
        BY <1>3 DEF Threaded
    <2> QED
        BY <1>0, <2>1, <2>2, <2>3, WholePartition, RoundedPartition DEF gemm_bf16_kernel_amx_mt
<1>4. CASE Threaded(c) /\ Path(c) = "neon"
    <2>1. HeightOf(c) = Tile
        BY <1>4 DEF HeightOf
    <2>2. c.kind \in {"f32", "bf16", "f16"}
        BY <1>4 DEF Path, amx_gemm, Call
    <2>3. Parts(c) = NeonParts(c.M, c.threads)
        BY <1>4, <2>2 DEF Parts, gemm_f32_kernel_mt, gemm_bf16_kernel_mt, gemm_f16_kernel_mt
    <2>4. CASE c.threads <= 1 \/ c.M < 2 * Tile
        BY <1>0, <2>1, <2>3, <2>4, WholePartition DEF NeonParts
    <2>5. CASE ~(c.threads <= 1 \/ c.M < 2 * Tile)
        <3>1. c.M >= Tile /\ c.threads > 1
            BY <1>0, <2>5
        <3>2. c.M \div Tile \in Nat \ {0}
            BY <1>0, <3>1, DividesOnce
        <3>3. Less(c.threads, c.M \div Tile) \in Nat \ {0}
            BY <3>1, <3>2 DEF Less
        <3>4. Parts(c) = SplitRounded(c.M, Less(c.threads, c.M \div Tile), Tile)
            BY <2>3, <2>5 DEF NeonParts
        <3> QED
            BY <1>0, <2>1, <3>3, <3>4, RoundedPartition
    <2> QED
        BY <2>4, <2>5
<1>5. Path(c) \in {"naive", "row", "neon", "amx16", "amx32"}
    BY DEF Path, gemm_f32, gemm_bf16, gemm_f16, amx_gemm, NeonPath, Call
<1> QED
    BY <1>1, <1>2, <1>3, <1>4, <1>5

-----------------------------------------------------------------------------
\* The arguments are sizes.
Sized ==
    /\ call \in Call /\ call.M \in Nat \ {0} /\ call.N \in Nat \ {0} /\ call.K \in Nat \ {0}
    /\ call.threads \in Nat

\* The blocks of a job begin at whole blocks from its first row.
Progress(p) ==
    /\ jobs[p] \in [first : Nat, last : Nat, m : Nat, n : Nat]
    /\ jobs[p].first = p.first /\ jobs[p].last = p.last
    /\ p.first <= jobs[p].m /\ jobs[p].n < call.N
    /\ jobs[p].m < p.last => Steps(Height, p.first, jobs[p].m)

Reached(p, i, j) == i < jobs[p].m \/ (i < jobs[p].m + Height /\ j < jobs[p].n)

Blank == [Unwritten EXCEPT !.terms = IF call.kind = "f32" THEN Cleared(call.K) ELSE <<>>]

Written(i, j) == C[<<i, j>>] = Product(i, j) \/ (failed /\ C[<<i, j>>] = Unwritten)

Element(p, i, j) == IF Reached(p, i, j) THEN Written(i, j) ELSE C[<<i, j>>] = Blank

Elements(p) == \A i \in p.first .. p.last - 1 : \A j \in 0 .. call.N - 1 : Element(p, i, j)

RunInv ==
    /\ path = Path(call)
    /\ DOMAIN jobs = Parts(call)
    /\ \A p \in Parts(call) : Progress(p) /\ Elements(p)
    /\ z \in [Parts(call) -> [Before .. call.K - 1 -> Nat]]

GemmInv ==
    /\ Sized
    /\ pc = "call" => C = [cell \in Cells |-> Unwritten]
    /\ pc = "run" => RunInv
    /\ pc = "done" => ProductComplete

LEMMA HeightIs ==
    ASSUME Sized, path = Path(call)
    PROVE  /\ Height = HeightOf(call) /\ Height \in Nat \ {0}
           /\ IsPartition(Parts(call), call.M, Height)
<1>1. Path(call) \in {"naive", "row", "neon", "amx16", "amx32"}
    BY DEF Path, gemm_f32, gemm_bf16, gemm_f16, amx_gemm, NeonPath, Call, Sized
<1>2. Height = HeightOf(call)
    BY <1>1 DEF Height, HeightOf, Amx
<1> QED
    BY <1>2, PartsPartition DEF Sized

LEMMA WidthIs ==
    ASSUME Sized, path = Path(call), NEW k \in Nat
    PROVE  Width(k) \in Nat \ {0}
<1>1. Path(call) \in {"naive", "row", "neon", "amx16", "amx32"}
    BY DEF Path, gemm_f32, gemm_bf16, gemm_f16, amx_gemm, NeonPath, Call, Sized
<1> QED
    BY <1>1, GemmAssumption DEF Width, Amx

\* A part as the partition has it
LEMMA PartIs ==
    ASSUME Sized, RunInv, NEW p \in DOMAIN jobs
    PROVE  /\ p \in Parts(call) /\ p.first \in Nat /\ p.last \in Nat
           /\ p.first < p.last /\ p.last <= call.M
           /\ p.last = call.M \/ Steps(Height, p.first, p.last)
           /\ Progress(p) /\ Elements(p)
<1>1. p \in Parts(call) /\ path = Path(call)
    BY DEF RunInv
<1>2. Rowed(Parts(call), call.M, Height)
    BY <1>1, HeightIs DEF IsPartition
<1>3. Progress(p) /\ Elements(p)
    BY <1>1 DEF RunInv
<1> QED
    BY <1>1, <1>2, <1>3 DEF Rowed

\* A block that begins in a job ends in it.
LEMMA BlockRowsAre ==
    ASSUME Sized, RunInv, NEW p \in DOMAIN jobs, jobs[p].m < jobs[p].last
    PROVE  BlockRows(jobs[p]) = jobs[p].m .. Less(jobs[p].m + Height, p.last) - 1
<1> DEFINE h == Height
           m == jobs[p].m
<1>1. /\ p.first \in Nat /\ p.last \in Nat /\ p.last <= call.M
      /\ p.last = call.M \/ Steps(Height, p.first, p.last)
      /\ Progress(p)
    BY PartIs
<1>2. m \in Nat /\ m < p.last /\ jobs[p].last = p.last /\ Steps(Height, p.first, m)
    BY <1>1 DEF Progress
<1>3. h \in Nat \ {0} /\ call.M \in Nat
    BY HeightIs DEF RunInv, Sized
<1>4. CASE p.last = call.M
    BY <1>2, <1>4 DEF BlockRows
<1>5. CASE Steps(Height, p.first, p.last)
    <2>1. PICK a \in Nat : m = p.first + h * a
        BY <1>2 DEF Steps
    <2>2. PICK b \in Nat : p.last = p.first + h * b
        BY <1>5 DEF Steps
    <2> HIDE DEF h, m
    <2>3. a < b
        <3> SUFFICES ASSUME b <= a PROVE FALSE
            BY <2>1
        <3>1. b * h <= a * h
            BY <1>3, MulMore
        <3>2. b * h = h * b /\ a * h = h * a /\ h * a \in Nat /\ h * b \in Nat
            BY <1>3
        <3> QED
            BY <1>1, <1>2, <2>1, <2>2, <3>1, <3>2
    <2>4. m + h <= p.last
        <3>1. (a + 1) * h <= b * h
            BY <1>3, <2>3, MulMore
        <3>2. (a + 1) * h = h * a + h /\ b * h = h * b /\ h * a \in Nat /\ h * b \in Nat
            BY <1>3
        <3> QED
            BY <1>1, <1>3, <2>1, <2>2, <3>1, <3>2
    <2>5. Less(m + h, p.last) = m + h
        BY <1>1, <1>2, <1>3, <2>4 DEF Less
    <2>6. Less(m + h, call.M) = m + h
        BY <1>1, <1>2, <1>3, <2>4 DEF Less
    <2>7. BlockRows(jobs[p]) = m .. Less(m + h, IF Amx THEN call.M ELSE p.last) - 1
        BY <1>2 DEF BlockRows, m, h
    <2>8. BlockRows(jobs[p]) = m .. Less(m + h, p.last) - 1
        BY <2>5, <2>6, <2>7
    <2> QED
        BY <2>8 DEF m, h
<1> QED
    BY <1>1, <1>4, <1>5

LEMMA ApartRows ==
    ASSUME Sized, RunInv, NEW p \in DOMAIN jobs, NEW q \in DOMAIN jobs, p # q,
           jobs[p].m < jobs[p].last
    PROVE  BlockRows(jobs[p]) \intersect (q.first .. q.last - 1) = {}
<1>1. BlockRows(jobs[p]) = jobs[p].m .. Less(jobs[p].m + Height, p.last) - 1
    BY BlockRowsAre
<1>2. Apart(Parts(call)) /\ Height \in Nat \ {0}
    BY HeightIs DEF RunInv, IsPartition
<1>3. /\ p \in Parts(call) /\ p.first \in Nat /\ p.last \in Nat /\ Progress(p)
      /\ q \in Parts(call) /\ q.first \in Nat /\ q.last \in Nat
    BY PartIs
<1>4. p.last <= q.first \/ q.last <= p.first
    BY <1>2, <1>3 DEF Apart
<1>5. jobs[p].m \in Nat /\ p.first <= jobs[p].m
    BY <1>3 DEF Progress
<1> QED
    BY <1>1, <1>2, <1>3, <1>4, <1>5 DEF Less

\* One block more: all its elements are what they should be.
Stored(p) ==
    /\ \A i \in 0 .. call.M - 1 : \A j \in 0 .. call.N - 1 :
            C'[<<i, j>>] = IF i \in BlockRows(jobs[p]) /\ j \in BlockCols(jobs[p])
                           THEN Product(i, j) ELSE C[<<i, j>>]
    /\ LET k == jobs[p].n + Width(jobs[p].n)
       IN  jobs' = [jobs EXCEPT ![p] = IF k < call.N THEN [jobs[p] EXCEPT !.n = k]
                                       ELSE [jobs[p] EXCEPT !.n = 0, !.m = jobs[p].m + Height]]
    /\ UNCHANGED <<call, path, failed, pc>>
    /\ z' \in [Parts(call) -> [Before .. call.K - 1 -> Nat]]

LEMMA StoredInv ==
    ASSUME Sized, RunInv, NEW p \in DOMAIN jobs, jobs[p].m < jobs[p].last, Stored(p)
    PROVE  RunInv'
<1> DEFINE m == jobs[p].m
           k == jobs[p].n
           w == Width(k)
           h == Height
<1>1. /\ p \in Parts(call) /\ p.first \in Nat /\ p.last \in Nat /\ p.last <= call.M
      /\ Progress(p) /\ Elements(p)
    BY PartIs
<1>2. /\ m \in Nat /\ m < p.last /\ k \in Nat /\ k < call.N /\ p.first <= m
      /\ jobs[p] \in [first : Nat, last : Nat, m : Nat, n : Nat]
      /\ jobs[p].first = p.first /\ jobs[p].last = p.last /\ Steps(h, p.first, m)
    BY <1>1 DEF Progress
<1>3. h \in Nat \ {0} /\ call.M \in Nat /\ call.N \in Nat \ {0}
    BY HeightIs DEF RunInv, Sized
<1>4. w \in Nat \ {0}
    BY <1>2, WidthIs DEF RunInv
<1>5. /\ BlockRows(jobs[p]) = m .. Less(m + h, p.last) - 1
      /\ BlockCols(jobs[p]) = k .. Less(k + w, call.N) - 1
    BY BlockRowsAre DEF BlockCols
<1>6. call' = call /\ path' = path /\ failed' = failed /\ Parts(call') = Parts(call) /\ Height' = h
    BY DEF Stored, Height, Amx
<1>7. jobs' = [jobs EXCEPT ![p] = IF k + w < call.N THEN [jobs[p] EXCEPT !.n = k + w]
                                  ELSE [jobs[p] EXCEPT !.n = 0, !.m = m + h]]
    BY DEF Stored
<1>8. DOMAIN jobs' = Parts(call)'
    BY <1>6, <1>7 DEF RunInv
<1> DEFINE J == IF k + w < call.N THEN [jobs[p] EXCEPT !.n = k + w]
                ELSE [jobs[p] EXCEPT !.n = 0, !.m = m + h]
<1>9. jobs'[p] = J /\ \A q \in DOMAIN jobs : q # p => jobs'[q] = jobs[q]
    BY <1>7
<1>10. /\ J \in [first : Nat, last : Nat, m : Nat, n : Nat]
       /\ J.first = p.first /\ J.last = p.last
       /\ J.m = (IF k + w < call.N THEN m ELSE m + h)
       /\ J.n = (IF k + w < call.N THEN k + w ELSE 0)
    <2> HIDE DEF w, h
    <2>1. k + w \in Nat /\ m + h \in Nat
        BY <1>2, <1>3, <1>4
    <2>2. CASE k + w < call.N
        BY <1>2, <2>1, <2>2
    <2>3. CASE ~(k + w < call.N)
        BY <1>2, <2>1, <2>3
    <2> QED
        BY <2>2, <2>3
<1> HIDE DEF J, m, k, w, h
<1>11. Progress(p)'
    <2>1. Steps(h, p.first, m + h)
        <3>1. PICK a \in Nat : m = p.first + h * a
            BY <1>2 DEF Steps
        <3>2. h * (a + 1) = h * a + h /\ h * a \in Nat /\ a + 1 \in Nat
            BY <1>3
        <3>3. m + h = p.first + h * (a + 1)
            BY <1>1, <1>3, <3>1, <3>2
        <3> QED
            BY <3>2, <3>3 DEF Steps
    <2>2. Steps(h, p.first, J.m) /\ p.first <= J.m /\ J.n < call.N
        BY <1>1, <1>2, <1>3, <1>4, <1>10, <2>1
    <2> QED
        BY <1>6, <1>9, <1>10, <2>2 DEF Progress
<1>12. Elements(p)'
    <2> SUFFICES ASSUME NEW i \in p.first .. p.last - 1, NEW j \in 0 .. call.N - 1
                 PROVE  Element(p, i, j)'
        BY <1>6 DEF Elements
    <2>1. i \in 0 .. call.M - 1 /\ i \in Nat /\ j \in Nat /\ i < p.last /\ j < call.N
        BY <1>1, <1>3
    <2>2. C'[<<i, j>>] = IF i \in BlockRows(jobs[p]) /\ j \in BlockCols(jobs[p])
                         THEN Product(i, j) ELSE C[<<i, j>>]
        BY <2>1 DEF Stored
    <2>3. Product(i, j)' = Product(i, j) /\ Blank' = Blank
        BY <1>6 DEF Product, Blank
    <2>4. Reached(p, i, j) <=> i < m \/ (i < m + h /\ j < k)
        BY DEF Reached, m, k, h
    <2>5. Reached(p, i, j)' <=> i < J.m \/ (i < J.m + h /\ j < J.n)
        BY <1>6, <1>9 DEF Reached
    <2>6. Element(p, i, j)
        BY <1>1 DEF Elements
    <2>7. CASE i \in BlockRows(jobs[p]) /\ j \in BlockCols(jobs[p])
        <3>1. C'[<<i, j>>] = Product(i, j)'
            BY <2>2, <2>3, <2>7
        <3> DEFINE after == i < J.m \/ (i < J.m + h /\ j < J.n)
        <3>3. i < m + h /\ j < k + w
            BY <1>2, <1>3, <1>4, <1>5, <2>1, <2>7 DEF Less
        <3>4. k + w < call.N => after
            BY <1>10, <3>3
        <3>5. ~(k + w < call.N) => after
            BY <1>10, <3>3
        <3>2. Reached(p, i, j)'
            BY <2>5, <3>4, <3>5, Zenon
        <3> QED
            BY <3>1, <3>2 DEF Element, Written
    <2>8. CASE ~(i \in BlockRows(jobs[p]) /\ j \in BlockCols(jobs[p]))
        <3>1. C'[<<i, j>>] = C[<<i, j>>]
            BY <2>2, <2>8
        <3> DEFINE before == i < m \/ (i < m + h /\ j < k)
                   after == i < J.m \/ (i < J.m + h /\ j < J.n)
        <3>3. ~(m <= i /\ i < m + h /\ k <= j /\ j < k + w)
            BY <1>1, <1>2, <1>3, <1>4, <1>5, <2>1, <2>8 DEF Less
        <3>4. k + w < call.N => (after <=> before)
            BY <1>2, <1>3, <1>4, <1>10, <2>1, <3>3
        <3>5. ~(k + w < call.N) => (after <=> before)
            BY <1>2, <1>3, <1>4, <1>10, <2>1, <3>3
        <3>2. Reached(p, i, j)' <=> Reached(p, i, j)
            BY <2>4, <2>5, <3>4, <3>5, Zenon
        <3> QED
            BY <1>6, <2>3, <2>6, <3>1, <3>2 DEF Element, Written
    <2> QED
        BY <2>7, <2>8
<1>13. ASSUME NEW q \in Parts(call), q # p PROVE Progress(q)' /\ Elements(q)'
    <2>1. q \in DOMAIN jobs
        BY DEF RunInv
    <2>2. q.first \in Nat /\ q.last \in Nat /\ q.last <= call.M /\ Progress(q) /\ Elements(q)
        BY <2>1, PartIs
    <2>3. jobs'[q] = jobs[q]
        BY <1>9, <1>13, <2>1
    <2>4. Progress(q)'
        BY <1>6, <2>2, <2>3 DEF Progress, h
    <2>5. ASSUME NEW i \in q.first .. q.last - 1, NEW j \in 0 .. call.N - 1
          PROVE  Element(q, i, j)'
        <3>1. i \in 0 .. call.M - 1
            BY <1>3, <2>2
        <3>2. i \notin BlockRows(jobs[p])
            BY <1>13, <2>1, ApartRows
        <3>3. C'[<<i, j>>] = C[<<i, j>>]
            BY <3>1, <3>2 DEF Stored
        <3>4. Product(i, j)' = Product(i, j) /\ Blank' = Blank
            BY <1>6 DEF Product, Blank
        <3>5. Reached(q, i, j)' <=> Reached(q, i, j)
            BY <1>6, <2>3 DEF Reached, h
        <3>6. Element(q, i, j)
            BY <2>2 DEF Elements
        <3> QED
            BY <1>6, <3>3, <3>4, <3>5, <3>6 DEF Element, Written
    <2>6. Elements(q)'
        BY <1>6, <2>5 DEF Elements
    <2> QED
        BY <2>4, <2>6
<1>14. z' \in [Parts(call) -> [Before .. call.K - 1 -> Nat]]
    BY DEF Stored
<1>15. \A q \in Parts(call) : Progress(q)' /\ Elements(q)'
    BY <1>11, <1>12, <1>13
<1>16. path' = Path(call')
    BY <1>6 DEF RunInv
<1> QED
    BY <1>6, <1>8, <1>14, <1>15, <1>16 DEF RunInv

\* A block whose elements all get the terms t
Blocked(p, from, t) ==
    C' = [cell \in Cells |->
            IF cell \in BlockRows(jobs[p]) \X BlockCols(jobs[p])
            THEN [row |-> from + (cell[1] - jobs[p].m), col |-> cell[2], terms |-> t]
            ELSE C[cell]]

OnTo(p) ==
    jobs' = [jobs EXCEPT ![p] =
                IF jobs[p].n + Width(jobs[p].n) < call.N
                THEN [jobs[p] EXCEPT !.n = jobs[p].n + Width(jobs[p].n)]
                ELSE [jobs[p] EXCEPT !.n = 0, !.m = jobs[p].m + Height]]

LEMMA BlockedStored ==
    ASSUME Sized, RunInv, NEW p \in DOMAIN jobs, jobs[p].m < jobs[p].last,
           NEW from, from = jobs[p].m, NEW t, t = Complete(call.K), Blocked(p, from, t), OnTo(p),
           UNCHANGED <<call, path, failed, pc>>,
           z' \in [Parts(call) -> [Before .. call.K - 1 -> Nat]]
    PROVE  Stored(p)
<1>1. jobs[p].m \in Nat
    BY PartIs DEF Progress
<1>2. ASSUME NEW i \in 0 .. call.M - 1, NEW j \in 0 .. call.N - 1
      PROVE  C'[<<i, j>>] = IF i \in BlockRows(jobs[p]) /\ j \in BlockCols(jobs[p])
                            THEN Product(i, j) ELSE C[<<i, j>>]
    <2>1. <<i, j>> \in Cells
        BY DEF Cells
    <2>2. C'[<<i, j>>] = IF <<i, j>> \in BlockRows(jobs[p]) \X BlockCols(jobs[p])
                         THEN [row |-> from + (i - jobs[p].m), col |-> j, terms |-> t]
                         ELSE C[<<i, j>>]
        BY <2>1 DEF Blocked
    <2>3. from + (i - jobs[p].m) = i
        BY <1>1
    <2> QED
        BY <2>2, <2>3 DEF Product
<1> QED
    BY <1>2 DEF Stored, OnTo

LEMMA TermsComplete ==
    ASSUME Sized, NEW blk
    PROVE  /\ Plain(call.K) = Complete(call.K) /\ Row(blk) = Complete(call.K)
           /\ Micro(blk) = Complete(call.K)
           /\ gemv_f32_neon(blk) = Complete(call.K)
           /\ micro_kernel_bf16_8x8_neon(blk) = Complete(call.K)
           /\ micro_kernel_f16_8x8_neon(blk) = Complete(call.K)
BY PlainComplete, UnrolledComplete
   DEF Sized, Row, Micro, gemv_f32_neon, micro_kernel_bf16_8x8_neon, micro_kernel_f16_8x8_neon

\* The single-precision kernel adds to elements that are cleared.
LEMMA AddedStored ==
    ASSUME Sized, RunInv, NEW p \in DOMAIN jobs, call.kind = "f32",
           Computed(p, "f32", "neon", LAMBDA cell : micro_kernel_8x8_neon(jobs[p], cell))
    PROVE  jobs[p].m < jobs[p].last /\ Stored(p)
<1>1. jobs[p].m < jobs[p].last
    BY DEF Computed, Running
<1>2. /\ OnTo(p) /\ UNCHANGED <<call, path, failed, pc>>
      /\ C' = [cell \in Cells |->
                IF cell \in BlockRows(jobs[p]) \X BlockCols(jobs[p])
                THEN [row |-> jobs[p].m + (cell[1] - jobs[p].m), col |-> cell[2],
                      terms |-> micro_kernel_8x8_neon(jobs[p], cell)]
                ELSE C[cell]]
    BY DEF Computed, Store, OnTo
<1>3. z' \in [Parts(call) -> [Before .. call.K - 1 -> Nat]]
    BY DEF Computed, RunInv
<1>4. /\ p.first \in Nat /\ p.last \in Nat /\ p.last <= call.M /\ Progress(p) /\ Elements(p)
    BY PartIs
<1>5. jobs[p].m \in Nat /\ jobs[p].n \in Nat /\ p.first <= jobs[p].m
    BY <1>4 DEF Progress
<1>6. BlockRows(jobs[p]) = jobs[p].m .. Less(jobs[p].m + Height, p.last) - 1
    BY <1>1, BlockRowsAre
<1>7. Height \in Nat \ {0} /\ call.M \in Nat /\ call.K \in Nat
    BY HeightIs DEF RunInv, Sized
<1>8. ASSUME NEW i \in 0 .. call.M - 1, NEW j \in 0 .. call.N - 1,
             i \in BlockRows(jobs[p]), j \in BlockCols(jobs[p])
      PROVE  micro_kernel_8x8_neon(jobs[p], <<i, j>>) = Complete(call.K)
    <2>1. i \in p.first .. p.last - 1 /\ ~(i < jobs[p].m)
        BY <1>4, <1>5, <1>6, <1>7, <1>8 DEF Less
    <2>2. ~(j < jobs[p].n)
        BY <1>5, <1>8 DEF BlockCols
    <2>3. C[<<i, j>>] = Blank
        BY <1>4, <2>1, <2>2 DEF Elements, Element, Reached
    <2>4. C[<<i, j>>].terms = Cleared(call.K)
        BY <2>3 DEF Blank, Unwritten
    <2>5. Micro(jobs[p]) = Complete(call.K)
        BY TermsComplete
    <2>6. micro_kernel_8x8_neon(jobs[p], <<i, j>>) =
            [t \in Before .. call.K - 1 |-> Complete(call.K)[t] + Cleared(call.K)[t]]
        BY <2>4, <2>5 DEF micro_kernel_8x8_neon, Complete
    <2>7. \A t \in Before .. call.K - 1 :
            Complete(call.K)[t] + Cleared(call.K)[t] = Complete(call.K)[t]
        BY DEF Complete, Cleared
    <2>8. Complete(call.K) = [t \in Before .. call.K - 1 |-> Complete(call.K)[t]]
        BY DEF Complete
    <2> QED
        BY <2>6, <2>7, <2>8
<1>9. ASSUME NEW i \in 0 .. call.M - 1, NEW j \in 0 .. call.N - 1
      PROVE  C'[<<i, j>>] = IF i \in BlockRows(jobs[p]) /\ j \in BlockCols(jobs[p])
                            THEN Product(i, j) ELSE C[<<i, j>>]
    <2>1. <<i, j>> \in Cells
        BY DEF Cells
    <2>2. C'[<<i, j>>] = IF <<i, j>> \in BlockRows(jobs[p]) \X BlockCols(jobs[p])
                         THEN [row |-> jobs[p].m + (i - jobs[p].m), col |-> j,
                               terms |-> micro_kernel_8x8_neon(jobs[p], <<i, j>>)]
                         ELSE C[<<i, j>>]
        BY <1>2, <2>1
    <2>3. jobs[p].m + (i - jobs[p].m) = i
        BY <1>5
    <2> QED
        BY <1>8, <2>2, <2>3 DEF Product
<1> QED
    BY <1>1, <1>2, <1>3, <1>9 DEF Stored, OnTo

PlainStep(p) ==
    \E kind \in {"f32", "bf16", "f16"}, where \in {"naive", "row", "neon"} :
        Computed(p, kind, where, LAMBDA cell : Complete(call.K))
AddedStep(p) == Computed(p, "f32", "neon", LAMBDA cell : micro_kernel_8x8_neon(jobs[p], cell))
SummedStep(p) ==
    Running(p) /\ (AmxBlock(p, Pipelined) \/ AmxBlock(p, Amx32))
PackStep(p) == Running(p) /\ Pack(p)
FailStep(p) == Running(p) /\ Amx /\ PackFails(p)

\* The other kernels of the NEON path and the plain ones
LEMMA PlainStored ==
    ASSUME Sized, RunInv, NEW p \in DOMAIN jobs, PlainStep(p)
    PROVE  jobs[p].m < jobs[p].last /\ Stored(p)
<1>1. /\ jobs[p].m < jobs[p].last /\ OnTo(p) /\ Blocked(p, jobs[p].m, Complete(call.K))
      /\ UNCHANGED <<call, path, failed, pc>> /\ z' = z
    BY DEF PlainStep, Computed, Running, Store, OnTo, Blocked
<1>2. z' \in [Parts(call) -> [Before .. call.K - 1 -> Nat]]
    BY <1>1 DEF RunInv
<1> QED
    BY <1>1, <1>2, BlockedStored

LEMMA WorkIs ==
    ASSUME Sized, NEW p, Work(p)
    PROVE  PlainStep(p) \/ AddedStep(p) \/ SummedStep(p) \/ PackStep(p) \/ FailStep(p)
<1>1. /\ Plain(call.K) = Complete(call.K) /\ Row(jobs[p]) = Complete(call.K)
      /\ gemv_f32_neon(jobs[p]) = Complete(call.K)
      /\ micro_kernel_bf16_8x8_neon(jobs[p]) = Complete(call.K)
      /\ micro_kernel_f16_8x8_neon(jobs[p]) = Complete(call.K)
    BY TermsComplete
<1>2. (gemm_f32_naive(p) \/ gemm_bf16_naive(p) \/ gemm_f16_naive(p)) => PlainStep(p)
    BY <1>1 DEF gemm_f32_naive, gemm_bf16_naive, gemm_f16_naive, PlainStep, Computed, Store
<1>3. (gemm_f32_kernel(p) \/ gemm_f32_thread_fn(p)) => (PlainStep(p) \/ AddedStep(p))
    BY <1>1 DEF gemm_f32_kernel, gemm_f32_thread_fn, PlainStep, AddedStep, Computed, Store
<1>4. (gemm_bf16_kernel(p) \/ gemm_bf16_thread_fn(p)) => PlainStep(p)
    BY <1>1 DEF gemm_bf16_kernel, gemm_bf16_thread_fn, PlainStep, Computed, Store
<1>5. (gemm_f16_kernel(p) \/ gemm_f16_thread_fn(p)) => PlainStep(p)
    BY <1>1 DEF gemm_f16_kernel, gemm_f16_thread_fn, PlainStep, Computed, Store
<1>6. (gemm_f16_kernel_amx(p) \/ gcd_f16_worker(p)) =>
        (SummedStep(p) \/ PackStep(p) \/ FailStep(p))
    BY DEF gemm_f16_kernel_amx, gcd_f16_worker, SummedStep, PackStep, FailStep, Amx
<1>7. (gemm_bf16_kernel_amx(p) \/ bf16_mt_worker(p)) =>
        (SummedStep(p) \/ PackStep(p) \/ FailStep(p))
    BY DEF gemm_bf16_kernel_amx, bf16_mt_worker, SummedStep, PackStep, FailStep, Amx
<1> QED
    BY <1>2, <1>3, <1>4, <1>5, <1>6, <1>7 DEF Work

LEMMA SummedStored ==
    ASSUME Sized, RunInv, NEW p \in DOMAIN jobs, SummedStep(p)
    PROVE  jobs[p].m < jobs[p].last /\ Stored(p)
<1>1. p \in Parts(call) /\ z \in [Parts(call) -> [Before .. call.K - 1 -> Nat]]
    BY DEF RunInv
<1>2. Pipelined(z[p], call.K) = Complete(call.K) /\ Amx32(z[p], call.K) = Complete(call.K)
    BY <1>1, PipelinedComplete, Amx32Complete DEF Sized
<1>3. /\ jobs[p].m < jobs[p].last /\ packed[p] = jobs[p].m /\ OnTo(p)
      /\ Blocked(p, packed[p], Complete(call.K)) /\ UNCHANGED <<call, path, failed, pc>>
      /\ z' = [z EXCEPT ![p] = Complete(call.K)]
    BY <1>2 DEF SummedStep, AmxBlock, Running, Store, OnTo, Blocked
<1>4. Complete(call.K) \in [Before .. call.K - 1 -> Nat]
    BY DEF Complete
<1>5. z' \in [Parts(call) -> [Before .. call.K - 1 -> Nat]]
    BY <1>1, <1>3, <1>4
<1> QED
    BY <1>3, <1>5, BlockedStored

\* A job that ends without its rows leaves them as they were.
LEMMA FailInv ==
    ASSUME Sized, RunInv, NEW p \in DOMAIN jobs, FailStep(p)
    PROVE  RunInv'
<1>1. /\ failed' = TRUE /\ UNCHANGED <<call, path, C, z>>
      /\ jobs' = [jobs EXCEPT ![p].m = jobs[p].last]
    BY DEF FailStep, PackFails
<1>2. Height' = Height /\ Parts(call') = Parts(call) /\ Blank' = Blank /\ call' = call
    BY <1>1 DEF Height, Amx, Blank
<1>3. Blank = Unwritten
    <2>1. call.kind # "f32"
        BY DEF FailStep, Amx, RunInv, Path, gemm_f32, NeonPath
    <2> QED
        BY <2>1 DEF Blank, Unwritten
<1>4. ASSUME NEW q \in Parts(call) PROVE Progress(q)' /\ Elements(q)'
    <2>1. q \in DOMAIN jobs
        BY DEF RunInv
    <2>2. /\ q.first \in Nat /\ q.last \in Nat /\ q.first < q.last /\ Progress(q) /\ Elements(q)
        BY <2>1, PartIs
    <2>3. jobs'[q] = IF q = p THEN [jobs[q] EXCEPT !.m = q.last] ELSE jobs[q]
        BY <1>1, <2>1, <2>2 DEF Progress
    <2>4. Progress(q)'
        BY <1>2, <2>2, <2>3 DEF Progress
    <2>5. ASSUME NEW i \in q.first .. q.last - 1, NEW j \in 0 .. call.N - 1
          PROVE  Element(q, i, j)'
        <3>1. Element(q, i, j)
            BY <2>2 DEF Elements
        <3>2. Product(i, j)' = Product(i, j)
            BY <1>2 DEF Product
        <3>3. C'[<<i, j>>] = C[<<i, j>>]
            BY <1>1
        <3>4. Written(i, j)' <=> C[<<i, j>>] = Product(i, j) \/ C[<<i, j>>] = Unwritten
            BY <1>1, <3>2, <3>3 DEF Written
        <3>5. CASE q = p
            <4>1. jobs'[q].m = q.last
                BY <2>2, <2>3, <3>5 DEF Progress
            <4>2. Reached(q, i, j)'
                BY <2>2, <4>1 DEF Reached
            <4> QED
                BY <1>3, <3>1, <3>4, <4>2 DEF Element, Written
        <3>6. CASE q # p
            <4>1. Reached(q, i, j)' <=> Reached(q, i, j)
                BY <1>2, <2>3, <3>6 DEF Reached
            <4> QED
                BY <1>2, <3>1, <3>3, <3>4, <4>1 DEF Element, Written
        <3> QED
            BY <3>5, <3>6
    <2>6. Elements(q)'
        BY <1>2, <2>5 DEF Elements
    <2> QED
        BY <2>4, <2>6
<1>5. DOMAIN jobs' = Parts(call) /\ path' = Path(call')
    BY <1>1, <1>2 DEF RunInv
<1>6. z' \in [Parts(call) -> [Before .. call.K - 1 -> Nat]]
    BY <1>1 DEF RunInv
<1> QED
    BY <1>2, <1>4, <1>5, <1>6 DEF RunInv

LEMMA WorkInv ==
    ASSUME GemmInv, pc = "run", NEW p \in DOMAIN jobs, Work(p)
    PROVE  GemmInv'
<1>1. Sized /\ RunInv
    BY DEF GemmInv
<1>2. PlainStep(p) \/ AddedStep(p) \/ SummedStep(p) \/ PackStep(p) \/ FailStep(p)
    BY <1>1, WorkIs
<1>3. call' = call /\ pc' = pc
    BY <1>2 DEF PlainStep, AddedStep, SummedStep, PackStep, FailStep, Pack, PackFails, AmxBlock,
                Computed, Store
<1>4. RunInv'
    <2>1. CASE PlainStep(p)
        <3>1. jobs[p].m < jobs[p].last /\ Stored(p)
            BY <1>1, <2>1, PlainStored
        <3> QED
            BY <1>1, <3>1, StoredInv
    <2>2. CASE AddedStep(p)
        <3>1. call.kind = "f32"
            BY <2>2 DEF AddedStep, Computed
        <3>2. jobs[p].m < jobs[p].last /\ Stored(p)
            BY <1>1, <2>2, <3>1, AddedStored DEF AddedStep
        <3> QED
            BY <1>1, <3>2, StoredInv
    <2>3. CASE SummedStep(p)
        <3>1. jobs[p].m < jobs[p].last /\ Stored(p)
            BY <1>1, <2>3, SummedStored
        <3> QED
            BY <1>1, <3>1, StoredInv
    <2>4. CASE PackStep(p)
        <3>1. UNCHANGED <<call, path, C, jobs, z, failed, pc>>
            BY <2>4 DEF PackStep, Pack
        <3>2. Height' = Height /\ Blank' = Blank
            BY <3>1 DEF Height, Amx, Blank
        <3>3. \A q : Progress(q)' <=> Progress(q)
            BY <3>1, <3>2 DEF Progress
        <3>4. \A q, i, j : Element(q, i, j)' <=> Element(q, i, j)
            BY <3>1, <3>2 DEF Element, Reached, Written, Product
        <3>5. \A q : Elements(q)' <=> Elements(q)
            BY <3>1, <3>4 DEF Elements
        <3> QED
            BY <1>1, <3>1, <3>3, <3>5 DEF RunInv
    <2>5. CASE FailStep(p)
        BY <1>1, <2>5, FailInv
    <2> QED
        BY <1>2, <2>1, <2>2, <2>3, <2>4, <2>5
<1> QED
    BY <1>1, <1>3, <1>4 DEF GemmInv, Sized

LEMMA DispatchInv ==
    ASSUME GemmInv, Dispatch
    PROVE  GemmInv'
<1>1. Sized /\ C = [cell \in Cells |-> Unwritten]
    BY DEF GemmInv, Dispatch
<1>2. /\ call' = call /\ failed' = failed /\ pc' = "run" /\ path' = Path(call)
      /\ jobs' = [p \in Parts(call) |-> Begun(p)]
    BY DEF Dispatch
<1>3. Sized' /\ path' = Path(call') /\ Parts(call') = Parts(call)
    BY <1>1, <1>2 DEF Sized
<1>4. IsPartition(Parts(call), call.M, HeightOf(call)) /\ HeightOf(call) \in Nat \ {0}
    BY <1>1, PartsPartition DEF Sized
<1>5. Height' = HeightOf(call)
    <2>1. Path(call) \in {"naive", "row", "neon", "amx16", "amx32"}
        BY <1>1 DEF Path, gemm_f32, gemm_bf16, gemm_f16, amx_gemm, NeonPath, Call, Sized
    <2> QED
        BY <1>2, <2>1 DEF Height, HeightOf, Amx
<1>6. \A cell \in Cells : C'[cell] = Blank'
    BY <1>1, <1>2 DEF Dispatch, Blank, Unwritten
<1>7. ASSUME NEW p \in Parts(call) PROVE Progress(p)' /\ Elements(p)'
    <2>1. p \in [first : Nat, last : Nat] /\ p.last <= call.M
        BY <1>4, <1>7 DEF IsPartition, Rowed
    <2>2. /\ jobs'[p] \in [first : Nat, last : Nat, m : Nat, n : Nat]
          /\ jobs'[p].first = p.first /\ jobs'[p].last = p.last
          /\ jobs'[p].m = p.first /\ jobs'[p].n = 0
        BY <1>2, <2>1 DEF Begun
    <2>3. Steps(HeightOf(call), p.first, p.first)
        <3>1. p.first = p.first + HeightOf(call) * 0
            BY <1>4, <2>1
        <3> QED
            BY <3>1 DEF Steps
    <2>4. Progress(p)'
        BY <1>1, <1>2, <1>5, <2>1, <2>2, <2>3 DEF Progress, Sized
    <2>5. ASSUME NEW i \in p.first .. p.last - 1, NEW j \in 0 .. call.N - 1
          PROVE  Element(p, i, j)'
        <3>1. <<i, j>> \in Cells
            BY <1>1, <2>1 DEF Cells, Sized
        <3>2. ~Reached(p, i, j)'
            BY <2>1, <2>2 DEF Reached
        <3> QED
            BY <1>6, <3>1, <3>2 DEF Element
    <2>6. Elements(p)'
        BY <1>2, <2>5 DEF Elements
    <2> QED
        BY <2>4, <2>6
<1>8. z' \in [Parts(call) -> [Before .. call.K - 1 -> Nat]]
    <2>1. Stale(call.K) \in [Before .. call.K - 1 -> Nat]
        BY DEF Stale, Cleared
    <2> QED
        BY <2>1 DEF Dispatch
<1>9. RunInv'
    BY <1>2, <1>3, <1>7, <1>8 DEF RunInv
<1> QED
    BY <1>2, <1>3, <1>9 DEF GemmInv

LEMMA DispatchFailsInv ==
    ASSUME GemmInv, DispatchFails
    PROVE  GemmInv'
<1>1. Sized /\ C = [cell \in Cells |-> Unwritten]
    BY DEF GemmInv, DispatchFails
<1>2. UNCHANGED <<call, C>> /\ failed' = TRUE /\ pc' = "done"
    BY DEF DispatchFails
<1>3. ProductComplete'
    BY <1>1, <1>2 DEF ProductComplete, Cells
<1> QED
    BY <1>1, <1>2, <1>3 DEF GemmInv, Sized

LEMMA JoinInv ==
    ASSUME GemmInv, Join
    PROVE  GemmInv'
<1>1. Sized /\ RunInv /\ UNCHANGED <<call, C, failed>> /\ pc' = "done"
    BY DEF GemmInv, Join
<1>2. Covers(Parts(call), call.M)
    BY <1>1, HeightIs DEF IsPartition, RunInv
<1>3. ASSUME NEW i \in 0 .. call.M - 1, NEW j \in 0 .. call.N - 1 PROVE Written(i, j)
    <2>1. PICK p \in Parts(call) : p.first <= i /\ i < p.last
        BY <1>2 DEF Covers
    <2>2. p \in DOMAIN jobs
        BY <1>1 DEF RunInv
    <2>3. p.first \in Nat /\ p.last \in Nat /\ Progress(p) /\ Elements(p)
        BY <1>1, <2>2, PartIs
    <2>4. jobs[p].m >= jobs[p].last
        BY <2>2 DEF Join
    <2>5. Reached(p, i, j)
        BY <2>1, <2>3, <2>4 DEF Reached, Progress
    <2>6. i \in p.first .. p.last - 1
        BY <2>1, <2>3
    <2> QED
        BY <2>3, <2>5, <2>6 DEF Elements, Element
<1>4. ProductComplete'
    BY <1>1, <1>3 DEF ProductComplete, Written, Product, Cells
<1> QED
    BY <1>1, <1>4 DEF GemmInv, Sized

LEMMA GemmInitInv == Init => GemmInv
BY GemmAssumption DEF Init, GemmInv, Sized, Call

LEMMA GemmStep ==
    ASSUME GemmInv, [Next]_gemmVars
    PROVE  GemmInv'
<1>1. CASE Next
    <2>1. CASE Dispatch
        BY <2>1, DispatchInv
    <2>2. CASE DispatchFails
        BY <2>2, DispatchFailsInv
    <2>3. CASE Join
        BY <2>3, JoinInv
    <2>4. CASE pc = "run" /\ \E p \in DOMAIN jobs : Work(p)
        BY <2>4, WorkInv
    <2> QED
        BY <1>1, <2>1, <2>2, <2>3, <2>4 DEF Next
<1>2. CASE UNCHANGED gemmVars
    <2>1. UNCHANGED <<call, path, C, jobs, packed, z, failed, pc>>
        BY <1>2 DEF gemmVars
    <2>2. Sized' /\ Height' = Height /\ Blank' = Blank /\ Cells' = Cells
        BY <2>1 DEF GemmInv, Sized, Height, Amx, Blank, Cells
    <2>3. (\A q : Progress(q)' <=> Progress(q)) /\ (\A i, j : Written(i, j)' <=> Written(i, j))
        BY <2>1, <2>2 DEF Progress, Written, Product
    <2>4. \A q, i, j : Element(q, i, j)' <=> Element(q, i, j)
        BY <2>1, <2>2, <2>3 DEF Element, Reached
    <2>5. \A q : Elements(q)' <=> Elements(q)
        BY <2>1, <2>4 DEF Elements
    <2>6. RunInv => RunInv'
        BY <2>1, <2>3, <2>5 DEF RunInv
    <2>7. ProductComplete => ProductComplete'
        BY <2>1, <2>2 DEF ProductComplete, Product
    <2> QED
        BY <2>1, <2>2, <2>6, <2>7 DEF GemmInv
<1> QED
    BY <1>1, <1>2

\* The product is one of the parts of a behaviour.
LEMMA GemmMoves ==
    ASSUME [EngineNext]_engineVars
    PROVE  [Next]_gemmVars
BY DEF EngineNext, KernelNext, kernelVars, engineVars

LEMMA GemmInvariant == EngineSpec => []GemmInv
<1>1. EngineInit => GemmInv
    BY GemmInitInv DEF EngineInit
<1>2. GemmInv /\ [EngineNext]_engineVars => GemmInv'
    BY GemmMoves, GemmStep
<1> QED
    BY <1>1, <1>2, PTL DEF EngineSpec

\* No thread of a product writes a row that is another's.
THEOREM ThreadsStayApart == EngineSpec => []RowsApart
<1>1. GemmInv => RowsApart
    BY ApartRows DEF GemmInv, RowsApart, Running
<1> QED
    BY <1>1, GemmInvariant, PTL

\* When a product is over, all its elements are complete.
THEOREM ProductIsComplete == EngineSpec => []ProductComplete
<1>1. GemmInv => ProductComplete
    BY DEF GemmInv, ProductComplete
<1> QED
    BY <1>1, GemmInvariant, PTL

\* Both, for every size of the matrices and every number of threads.
THEOREM ProductIsRight == EngineSpec => []ProductRight
BY ThreadsStayApart, ProductIsComplete, PTL DEF ProductRight
=============================================================================
