----------------------------- MODULE RowReference -----------------------------
(***************************************************************************)
(* What the kernels that work row by row compute, as their scalar code     *)
(* says it: kernels/activation, norm, rope, softmax and embedding, and the *)
(* operations that backend/cpu/scalar has of its own.                      *)
(*                                                                         *)
(* A number is a term: what it was computed by and from. The roundings of  *)
(* the types and of the order of a sum are left out, so a sum is the set   *)
(* of its terms with how often each is in it. Buffers begin at index 0.    *)
(***************************************************************************)
EXTENDS Integers, Sequences, FiniteSets

Row(in, i, d) == [j \in 0 .. d - 1 |-> in[i * d + j]]
Counted(s) == [x \in {s[j] : j \in DOMAIN s} |-> Cardinality({j \in DOMAIN s : s[j] = x})]
-----------------------------------------------------------------------------
\* One number from one, and one from a number and the gate d behind it
Activate(f, in) == [k \in DOMAIN in |-> <<f, in[k]>>]
ActivateAndMul(f, in, d) ==
    [k \in 0 .. Cardinality(DOMAIN in) \div 2 - 1 |->
        LET x == 2 * d * (k \div d) + (k % d) IN <<"mul", <<f, in[x]>>, in[x + d]>>]

silu(in, d) == Activate("silu", in)
silu_and_mul(in, d) == ActivateAndMul("silu", in, d)
gelu(in, d) == Activate("gelu", in)
gelu_and_mul(in, d) == ActivateAndMul("gelu", in, d)
gelu_tanh(in, d) == Activate("gelu_tanh", in)
gelu_tanh_and_mul(in, d) == ActivateAndMul("gelu_tanh", in, d)
gelu_quick(in, d) == Activate("gelu_quick", in)
gelu_quick_and_mul(in, d) == ActivateAndMul("gelu_quick", in, d)

\* The gate of the backend's own comes in a buffer of its own.
silu_mul(gate, up) == [k \in DOMAIN gate |-> <<"mul", <<"silu", gate[k]>>, up[k]>>]
-----------------------------------------------------------------------------
NormOf(in, weight, d) ==
    [k \in DOMAIN in |->
        <<"norm", in[k], Counted(Row(in, k \div d, d)), weight[k % d]>>]

rms_norm_f32(in, weight, d) == NormOf(in, weight, d)
rms_norm_bf16(in, weight, d) == NormOf(in, weight, d)
rms_norm_f16(in, weight, d) == NormOf(in, weight, d)

\* The residual takes the input; what is written is the norm of the new one.
fused_add(in, residual) == [k \in DOMAIN in |-> <<"add", in[k], residual[k]>>]
fused_add_rms_norm_f32(in, residual, weight, d) == NormOf(fused_add(in, residual), weight, d)
fused_add_rms_norm_bf16(in, residual, weight, d) == NormOf(fused_add(in, residual), weight, d)
fused_add_rms_norm_f16(in, residual, weight, d) == NormOf(fused_add(in, residual), weight, d)

layer_norm(in, weight, bias, d) ==
    [k \in DOMAIN in |->
        LET mean == Counted(Row(in, k \div d, d))
            off == [j \in 0 .. d - 1 |-> <<"diff", in[d * (k \div d) + j], mean>>]
        IN  <<"layer", off[k % d], Counted(off), weight[k % d], bias[k % d]>>]

\* exp of what is below the largest, over the sum of these
softmax(in, d) ==
    [k \in DOMAIN in |->
        LET row == Row(in, k \div d, d)
            largest == {row[j] : j \in 0 .. d - 1}
            exp == [j \in 0 .. d - 1 |-> <<"exp", row[j], largest>>]
        IN  <<"over", exp[k % d], Counted(exp)>>]

\* Padding is all zero; other tokens are brought into the vocabulary.
embedding_lookup(weight, ids, vocab_size, d, padding) ==
    [k \in 0 .. Len(ids) * d - 1 |->
        LET id == ids[k \div d + 1]
            token == IF id < 0 THEN 0 ELSE IF id >= vocab_size THEN vocab_size - 1 ELSE id
        IN  IF id = padding THEN <<"zero">> ELSE weight[token * d + (k % d)]]

gemv(A, x, d) ==
    [m \in 0 .. Cardinality(DOMAIN A) \div d - 1 |->
        Counted([j \in 0 .. d - 1 |-> <<"mul", A[m * d + j], x[j]>>])]
-----------------------------------------------------------------------------
\* Column i of the angles of a position: cos(pos * base^(-2i/rot_dim)) in the
\* first half of its row, sin in the second
rope_compute_cos_sin_cache(max_position, rot_dim) ==
    [k \in 0 .. max_position * rot_dim - 1 |->
        LET pos == k \div rot_dim
            column == k % rot_dim
            half == rot_dim \div 2
        IN  IF column >= 2 * half THEN <<"zero">>
            ELSE IF column < half THEN <<"cos", pos, column>> ELSE <<"sin", pos, column - half>>]

Turned(x, y, cos, sin) == <<"minus", <<"mul", x, cos>>, <<"mul", y, sin>>>>
TurnedToo(x, y, cos, sin) == <<"plus", <<"mul", y, cos>>, <<"mul", x, sin>>>>

\* Element e of each head turns with the one half a rotation on; what is
\* beyond rot_dim stays.
rope_neox(q, cache, positions, heads, size, rot_dim) ==
    [k \in DOMAIN q |->
        LET e == k % size
            half == rot_dim \div 2
            angle(i) == positions[k \div (heads * size) + 1] * rot_dim + i
        IN  IF e < half THEN Turned(q[k], q[k + half], cache[angle(e)], cache[angle(e + half)])
            ELSE IF e < 2 * half
                 THEN TurnedToo(q[k - half], q[k], cache[angle(e - half)], cache[angle(e)])
            ELSE q[k]]

\* Element 2i turns with 2i + 1.
rope_gptj(q, cache, positions, heads, size, rot_dim) ==
    [k \in DOMAIN q |->
        LET e == k % size
            half == rot_dim \div 2
            cos == cache[positions[k \div (heads * size) + 1] * rot_dim + e \div 2]
            sin == cache[positions[k \div (heads * size) + 1] * rot_dim + half + e \div 2]
        IN  IF e >= 2 * half THEN q[k]
            ELSE IF e % 2 = 0 THEN Turned(q[k], q[k + 1], cos, sin)
            ELSE TurnedToo(q[k - 1], q[k], cos, sin)]
=============================================================================
