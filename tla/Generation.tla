----------------------------- MODULE Generation -----------------------------
(***************************************************************************)
(* qwen3_generate and qwen3_forward: the tokens of a prompt and then each  *)
(* sampled token go through the layers of the model; a layer keeps the     *)
(* keys and values of the tokens before in its cache and has each token    *)
(* attend to them. A number computed for a token stands for that token,    *)
(* <<epoch, index>>, as long as everything it was computed from is right,  *)
(* and for Junk from then on. An epoch begins when the cache is reset.     *)
(***************************************************************************)
EXTENDS ModelConfig, Sequences

CONSTANT Dtypes  \* of "f16" and "f32"

VARIABLES
    dtype,
    cache,  \* key_cache and value_cache: per layer and position, for which token and rotated by which position
    cacheLen,  \* cache_len
    epoch, fed,  \* resets, and tokens given to the model since, for the properties
    failed,  \* some allocation within a layer has failed since
    pc,
    n, start,  \* tokens of the forward pass, position_ids[0]
    layer, hidden, buffer,  \* layer_input: its values and which of the two allocations it is
    freed,  \* what the last pass has freed, in order
    logits,
    left  \* tokens qwen3_generate may still sample, -1 outside of it

genVars == <<dtype, cache, cacheLen, epoch, fed, failed, pc, n, start, layer, hidden,
             buffer, freed, logits, left>>

Layer == 0 .. Layers - 1
Position == 0 .. MaxSeq - 1
Junk == <<0, 0>>
Empty == [of |-> Junk, pos |-> 0]
Token(i) == <<epoch, i>>
Right(i) == [of |-> Token(i), pos |-> i]

\* qwen3_model_load
Init ==
    /\ dtype \in Dtypes
    /\ cache = [l \in Layer |-> [p \in Position |-> Empty]]
    /\ cacheLen = [l \in Layer |-> 0]
    /\ epoch = 1 /\ fed = 0 /\ failed = FALSE
    /\ pc = "idle" /\ n = 0 /\ start = 0 /\ layer = 0
    /\ hidden = <<>> /\ buffer = "hidden" /\ freed = <<>> /\ logits = <<>> /\ left = -1
-----------------------------------------------------------------------------
Other(b) == IF b = "hidden" THEN "output" ELSE "hidden"

\* The allocations of the pass have been had: the embeddings are looked up.
\* Nothing in the code keeps the positions below MaxSeq; that is the callers' part.
Begin(count) ==
    /\ fed + count <= MaxSeq
    /\ n' = count /\ start' = (IF cacheLen[0] > 0 THEN cacheLen[0] ELSE 0)
    /\ hidden' = [i \in 0 .. count - 1 |-> Token(fed + i)]
    /\ fed' = fed + count
    /\ layer' = 0 /\ buffer' = "hidden" /\ freed' = <<>>
    /\ pc' = "layers"

\* kv_cache_append_*: the tokens' keys and values go behind those of before
Appended(l) ==
    [cache EXCEPT ![l] = [p \in Position |->
        IF p - cacheLen[l] \in 0 .. n - 1
        THEN [of |-> hidden[p - cacheLen[l]], pos |-> start + (p - cacheLen[l])]
        ELSE cache[l][p]]]

\* Slip: every token attends to all that the cache holds
ReadsAhead(l, i) == {p \in Position : p < cacheLen[l] + n}

\* The positions that the i-th token of the pass attends to
Reads(l, i) == {p \in Position : p <= start + i /\ p < cacheLen[l] + n}

\* A number computed from two of one token is still that token's.
Joint(x, y) == IF x = y THEN x ELSE Junk

attention_forward(l) ==
    [i \in 0 .. n - 1 |->
        IF /\ hidden[i] = Token(start + i)
           /\ Reads(l, i) = 0 .. start + i
           /\ \A p \in Reads(l, i) : Appended(l)[l][p] = Right(p)
        THEN hidden[i] ELSE Junk]

\* gate times up, in f16 from a buffer that has the two of a token side by side
ffn_forward_f32(h) == [i \in DOMAIN h |-> Joint(h[i], h[i])]
ffn_forward_f16(h) ==
    LET gateUp == [x \in 0 .. 2 * n - 1 |-> h[x \div 2]]
    IN  [i \in DOMAIN h |-> Joint(gateUp[2 * i], gateUp[2 * i + 1])]

\* Attention and feed-forward, each added to what it was given. Without its buffers
\* the layer returns without a word, and its output is whatever was there.
transformer_layer_forward(l, works) ==
    LET attn == attention_forward(l)
        residual == [i \in 0 .. n - 1 |-> Joint(hidden[i], attn[i])]
        ffn == IF dtype = "f16" THEN ffn_forward_f16(residual) ELSE ffn_forward_f32(residual)
    IN  [i \in 0 .. n - 1 |-> IF works THEN Joint(residual[i], ffn[i]) ELSE Junk]

\* One layer of the pass. Keys are cached also when it fails after that.
LayerForward(appends, works) ==
    /\ pc = "layers" /\ layer < Layers
    /\ works => appends
    /\ cache' = IF appends THEN Appended(layer) ELSE cache
    /\ hidden' = transformer_layer_forward(layer, works)
    /\ failed' = (failed \/ ~works)
    /\ cacheLen' = [cacheLen EXCEPT ![layer] = @ + n]
    /\ layer' = layer + 1 /\ buffer' = Other(buffer)
    /\ UNCHANGED <<dtype, epoch, fed, pc, n, start, freed, logits, left>>

\* The product with lm_head for all tokens, rows of f16 and columns of f32, of
\* which the last vocab_size numbers are copied
Logit(x) ==
    LET at == (n - 1) * Vocab + x
    IN  IF dtype = "f16" THEN [of |-> hidden[at \div Vocab], word |-> at % Vocab]
        ELSE [of |-> hidden[at % n], word |-> at \div n]

\* Of the two buffers, the even models free the other one first, and again when
\* there is no buffer for the logits.
Frees(done) ==
    IF Layers % 2 = 0 THEN <<Other(buffer), "hidden">> \o (IF done THEN <<>> ELSE <<Other(buffer)>>)
    ELSE <<"hidden">> \o (IF done THEN <<Other(buffer)>> ELSE <<>>)

Project ==
    /\ pc = "layers" /\ layer = Layers
    /\ logits' = [x \in 0 .. Vocab - 1 |-> Logit(x)]
    /\ freed' = Frees(TRUE)
    /\ pc' = IF left >= 0 THEN "sample" ELSE "idle"
    /\ UNCHANGED <<dtype, cache, cacheLen, epoch, fed, failed, n, start, layer, hidden,
                   buffer, left>>

\* No buffer for the logits: the pass fails with the caches already longer.
ProjectFails ==
    /\ pc = "layers" /\ layer = Layers
    /\ freed' = Frees(FALSE)
    /\ pc' = "idle" /\ left' = -1
    /\ UNCHANGED <<dtype, cache, cacheLen, epoch, fed, failed, n, start, layer, hidden, buffer,
                   logits>>
-----------------------------------------------------------------------------
\* qwen3_model_reset_cache; the entries stay
Cleared == [l \in Layer |-> 0]

Reset ==
    /\ pc = "idle" /\ epoch < MaxEpochs
    /\ cacheLen' = Cleared
    /\ epoch' = epoch + 1 /\ fed' = 0 /\ failed' = FALSE
    /\ UNCHANGED <<dtype, cache, pc, n, start, layer, hidden, buffer, freed, logits, left>>

\* qwen3_forward called by itself, on a prompt or a part of one
Forward(count) ==
    /\ pc = "idle"
    /\ Begin(count)
    /\ UNCHANGED <<dtype, cache, cacheLen, epoch, failed, logits, left>>

\* qwen3_generate up to its first pass
Generate(count, max) ==
    /\ pc = "idle" /\ epoch < MaxEpochs /\ count + max <= MaxSeq
    /\ cacheLen' = Cleared /\ epoch' = epoch + 1 /\ failed' = FALSE
    /\ n' = count /\ start' = 0 /\ fed' = count
    /\ hidden' = [i \in 0 .. count - 1 |-> <<epoch + 1, i>>]
    /\ layer' = 0 /\ buffer' = "hidden" /\ freed' = <<>>
    /\ left' = max /\ pc' = "layers"
    /\ UNCHANGED <<dtype, cache, logits>>

\* A token is sampled and, unless it is the last or ends the text, fed back.
SampleOn ==
    /\ pc = "sample" /\ left > 0
    /\ Begin(1) /\ left' = left - 1
    /\ UNCHANGED <<dtype, cache, cacheLen, epoch, failed, logits>>

\* eos_token_id, max_tokens, or a pass that cannot begin
SampleEnd ==
    /\ pc = "sample" /\ pc' = "idle" /\ left' = -1
    /\ UNCHANGED <<dtype, cache, cacheLen, epoch, fed, failed, n, start, layer, hidden,
                   buffer, freed, logits>>

Next ==
    \/ \E appends, works \in BOOLEAN : LayerForward(appends, works)
    \/ Project \/ ProjectFails \/ Reset \/ SampleOn \/ SampleEnd
    \/ \E count \in 1 .. MaxSeq : Forward(count) \/ \E max \in 0 .. MaxSeq : Generate(count, max)

Spec == Init /\ [][Next]_genVars
-----------------------------------------------------------------------------
TypeOK ==
    /\ dtype \in Dtypes /\ epoch \in 1 .. MaxEpochs /\ fed \in 0 .. MaxSeq
    /\ cache \in [Layer -> [Position -> [of : (0 .. MaxEpochs) \X (0 .. MaxSeq), pos : Nat]]]
    /\ cacheLen \in [Layer -> 0 .. MaxSeq]
    /\ failed \in BOOLEAN /\ pc \in {"idle", "layers", "sample"}
    /\ n \in 0 .. MaxSeq /\ start \in 0 .. MaxSeq /\ layer \in 0 .. Layers
    /\ hidden \in [0 .. n - 1 -> (0 .. MaxEpochs) \X (0 .. MaxSeq)] \/ hidden = <<>>
    /\ buffer \in {"hidden", "output"} /\ left \in -1 .. MaxSeq

\* The layers that have had all tokens and those that still miss the ones of the pass
Done(l) == pc # "layers" \/ l < layer

\* Unless a layer has failed, each cache holds the keys of exactly the tokens
\* given to the model since the reset, each at its position, whatever part of
\* them came in one pass and whatever the passes before the reset left there.
CacheIsHistory ==
    ~failed => \A l \in Layer :
        /\ cacheLen[l] = (IF Done(l) THEN fed ELSE fed - n)
        /\ \A p \in 0 .. cacheLen[l] - 1 : cache[l][p] = Right(p)

\* What the next token is sampled from was computed for the last token and from
\* all the tokens before it. With f32 weights this holds for one token only:
\* qwen3.c:386 copies the last numbers of a product whose rows are the words, so
\* that after a prompt of several tokens they are of several tokens.
LogitsAreLast ==
    (pc = "sample" /\ ~failed /\ (dtype = "f16" \/ n = 1)) =>
        \A x \in 0 .. Vocab - 1 : logits[x] = [of |-> Token(fed - 1), word |-> x]

\* A pass that gives logits frees each of its two buffers once when the model has
\* an even number of layers; with an odd number it would free one of them twice.
FreedOnce ==
    pc = "sample" /\ Layers % 2 = 0 => freed \in {<<"hidden", "output">>, <<"output", "hidden">>}

TokensHaveTheirPast == TypeOK /\ CacheIsHistory /\ LogitsAreLast /\ FreedOnce
=============================================================================
