------------------------------ MODULE MCEngine ------------------------------
(***************************************************************************)
(* The local models and their kernels for TLC. A behaviour is of one part, *)
(* chosen at the start; the parts share no state in the program, and the   *)
(* variables of the others rest at a first value of theirs.                *)
(***************************************************************************)
EXTENDS Gemm, ModelConfig, FiniteSetsExt, TLC

CONSTANTS Lanes, Bits

VARIABLES
    part,
    dtype, cache, cacheLen, epoch, fed, lacking, stage, n, start, layer, hidden, buffer,
    freed, logits, left,  \* Generation
    job, mem, row, pass, rowAt, sums,  \* RowKernels
    mha, kernel, taken, output, joined,  \* Attention
    ask, probs, token, did  \* Sampling

genVars == <<dtype, cache, cacheLen, epoch, fed, lacking, stage, n, start, layer, hidden,
             buffer, freed, logits, left>>
rowVars == <<job, mem, row, pass, rowAt, sums>>
mhaVars == <<mha, kernel, taken, output, joined>>
sampleVars == <<ask, probs, token, did>>
kernelVars == <<gemmVars, rowVars, mhaVars, sampleVars>>
engineVars == <<part, genVars, kernelVars>>
-----------------------------------------------------------------------------
IdleProduct == [kind |-> "f32", M |-> 1, N |-> 4, K |-> 1, threads |-> 1, transposed |-> FALSE,
                neon |-> TRUE, amx |-> FALSE]
MCSizes == {<<1, 4>>, <<1, 7>>, <<2, 3>>, <<4, 2>>, <<5, 4>>, <<7, 3>>}

\* Rows whose elements are numbers of a buffer
Nums(b, k) == [i \in 0 .. k - 1 |-> <<b, i>>]
RowCall(f, t, r, w, m) ==
    [kernel |-> f, type |-> t, rows |-> r, width |-> w, mem |-> m @@ [out |-> Nums("old", r * w)]]
PlainRows == {"silu", "gelu", "gelu_tanh", "gelu_quick"}
GatedRows == {"silu_and_mul", "gelu_and_mul", "gelu_tanh_and_mul", "gelu_quick_and_mul"}
IdleRow == RowCall("silu", "f32", 1, 1, [in |-> Nums("in", 1)])
Ref == INSTANCE RowReference
Types == {"f32", "f16", "bf16"}
Calls ==
    {IdleRow}
    \union {RowCall(f, t, 2, w, [in |-> Nums("in", 2 * w)]) :
                f \in PlainRows, t \in Types, w \in {1, 5}}
    \union {RowCall(f, t, 2, w, [in |-> Nums("in", 4 * w)]) :
                f \in GatedRows, t \in Types, w \in {4, 5}}
    \union {RowCall("silu_mul", "f32", 1, w, [in |-> Nums("in", w), up |-> Nums("up", w)]) : w \in 1 .. 5}
    \union {RowCall(f, t, 2, w, [in |-> Nums("in", 2 * w), residual |-> Nums("res", 2 * w),
                                   weight |-> Nums("w", w)]) :
                f \in {"rms_norm", "fused_add_rms_norm"}, t \in Types, w \in {1, 4, 5, 6}}
    \union {RowCall("layer_norm", t, 2, w, [in |-> Nums("in", 2 * w), weight |-> Nums("w", w),
                                            bias |-> Nums("b", w)]) :
                t \in Types, w \in 1 .. 6}
    \union {RowCall("gemv", t, 1, w, [in |-> Nums("in", w), x |-> Nums("x", w),
                                      out |-> Nums("old", 1)]) :
                t \in Types, w \in {1, 3, 9, 11}}
    \union {RowCall("softmax", t, 2, w, [in |-> Nums("in", 2 * w)]) @@ [inplace |-> i] :
                t \in Types, w \in 1 .. 5, i \in BOOLEAN}
    \union {RowCall("embedding", t, 3, w, [weight |-> Nums("w", 2 * w), ids |-> ids])
                @@ [vocab |-> 2, padding |-> p] :
                t \in Types, w \in {1, 3, 6}, p \in {-1, 0},
                ids \in {<<-2, -1, 0>>, <<1, 2, 0>>}}
    \union {RowCall(f, t, 2 * (2 + k), r \div 2,
                    [query |-> Nums("q", 28), key |-> Nums("k", 14 * k), positions |-> <<1, 2>>,
                     cache |-> Ref!rope_compute_cos_sin_cache(3, r)])
                @@ [heads |-> 2, keys |-> k, size |-> 7, rot |-> r] :
                f \in {"rope_neox", "rope_gptj"}, t \in Types, k \in 0 .. 1, r \in {4, 6, 7}}

\* Two heads of keys with three keys each
Hidden == -1000
KeyScores == {[x \in (0 .. 1) \X (1 .. 3) |-> IF x[1] = 0 THEN f[x[2]] ELSE 2 - x[2]] :
                f \in [1 .. 3 -> 0 .. 2]}
MhaCall(f, b, h, kv, t, s, m) ==
    [type |-> f, batch |-> b, heads |-> h, kvHeads |-> kv, queries |-> 2, keys |-> 3, threads |-> t,
     score |-> s, hidden |-> m]
Causal == {<<1, 2>>, <<1, 3>>}
IdleMha == MhaCall("f32", 1, 1, 1, 1, [x \in (0 .. 1) \X (1 .. 3) |-> 0], {})
Attentions ==
    {MhaCall(f, 1, 1, 1, 1, s, m) : f \in Types, s \in KeyScores,
        m \in {{}, Causal, {<<1, 1>>, <<2, 3>>}, {<<2, 1>>, <<2, 2>>, <<2, 3>>}}}
    \union {MhaCall("f32", b, h, 2, t, CHOOSE s \in KeyScores : s[0, 2] > s[0, 1], Causal) :
                b \in 1 .. 2, h \in {2, 4}, t \in 1 .. 5}

IdleSample == [logits |-> <<3>>, neon |-> FALSE, temperature |-> "zero", topK |-> -1,
               topP |-> 100, minP |-> 0]
Samples ==
    {[logits |-> l, neon |-> v, temperature |-> t, topK |-> k, topP |-> p, minP |-> m] :
        l \in {<<3>>, <<2, 2, 0>>, <<0, 3, 3, 1>>, <<1, 4, 0, 4, 3>>}, v \in BOOLEAN,
        t \in {"zero", "low", "one", "high"}, k \in {-1, 1, 2, 7}, p \in {0, 40, 90, 100},
        m \in {0, 50, 101}}

Rows == INSTANCE RowKernels WITH at <- rowAt, RowCalls <- Calls
Mha == INSTANCE Attention WITH
    NegInf <- Hidden, Kernels <- {"scalar", "neon", "accelerate"}, MhaCalls <- Attentions
Draw == INSTANCE Sampling WITH SampleCalls <- Samples
Model == INSTANCE Generation WITH failed <- lacking, pc <- stage, Dtypes <- {"f16", "f32"}
-----------------------------------------------------------------------------
EngineInit ==
    /\ part \in {"gemm", "rows", "attention", "sampling", "model"}
    /\ Model!Init
    /\ IF part = "rows" THEN Rows!Init ELSE Rows!Begun(IdleRow)
    /\ part = "attention" \/ kernel = "scalar"
    /\ IF part = "attention" THEN Mha!Init ELSE Mha!Begun(IdleMha)
    /\ IF part = "sampling" THEN Draw!Init ELSE Draw!Begun(IdleSample)
    /\ part = "gemm" \/ call = IdleProduct
    /\ Init

\* One of the kernels
KernelNext ==
    \/ part = "gemm" /\ Next /\ UNCHANGED <<rowVars, mhaVars, sampleVars>>
    \/ part = "rows" /\ Rows!Next /\ UNCHANGED <<gemmVars, mhaVars, sampleVars>>
    \/ part = "attention" /\ Mha!Next /\ UNCHANGED <<gemmVars, rowVars, sampleVars>>
    \/ part = "sampling" /\ Draw!Next /\ UNCHANGED <<gemmVars, rowVars, mhaVars>>

EngineNext ==
    /\ UNCHANGED part
    /\ \/ part = "model" /\ Model!Next /\ UNCHANGED kernelVars
       \/ KernelNext /\ UNCHANGED genVars

EngineSpec == EngineInit /\ [][EngineNext]_engineVars
-----------------------------------------------------------------------------
\* The products of Gemm: no two threads write one row, and when all are done
\* every element is the whole product.
ProductRight == RowsApart /\ ProductComplete

\* What the kernels compute beside the product of Gemm: rows as the plain loops
\* have them, attention weights that are the softmax of the scores, and a drawn
\* token that the filters allow
KernelsRight ==
    /\ part = "rows" => Rows!RowsAgree
    /\ part = "attention" => Mha!WeightsRight
    /\ part = "sampling" => Draw!DrawnIsAllowed

\* qwen3_forward and qwen3_generate: the invariants of Generation
TokensHaveTheirPast == Model!TokensHaveTheirPast
=============================================================================
