------------------------------ MODULE RowKernels ------------------------------
(***************************************************************************)
(* The NEON kernels that work row by row: *_neon.c of kernels/activation,  *)
(* norm, rope, softmax and embedding, and the loops that neon_backend.c    *)
(* has of its own. A kernel makes one or more passes over each row, in     *)
(* strips of several vectors, of one vector, and last one number at a      *)
(* time; what a pass sums up is used by the next. Some write where they    *)
(* read.                                                                   *)
(***************************************************************************)
EXTENDS RowReference, Bags

CONSTANTS
    Lanes,  \* numbers in a vector: 4 in the code
    RowCalls  \* calls: [kernel, type, rows, width, mem], and what its kernel takes

VARIABLES
    job,  \* the call
    mem,  \* its buffers: functions from the indices
    row, pass, at,  \* where the kernel is: from 0, from 1, from 0
    sums  \* what the passes over this row have summed up

rowVars == <<job, mem, row, pass, at, sums>>

d == job.width
Cell(i, j) == i * d + j
Put(buffer, index, value) == [buffer |-> buffer, index |-> index, value |-> value]
-----------------------------------------------------------------------------
\* What the element j of row i writes in this pass
Activated(f, i, j) == {Put("out", Cell(i, j), <<f, mem.in[Cell(i, j)]>>)}
Multiplied(f, i, j) ==
    {Put("out", Cell(i, j), <<"mul", <<f, mem.in[2 * i * d + j]>>, mem.in[2 * i * d + d + j]>>)}

silu_kernel(i, j) == Activated("silu", i, j)
silu_and_mul_kernel(i, j) == Multiplied("silu", i, j)
gelu_kernel(i, j) == Activated("gelu", i, j)
gelu_and_mul_kernel(i, j) == Multiplied("gelu", i, j)
gelu_tanh_kernel(i, j) == Activated("gelu_tanh", i, j)
gelu_tanh_and_mul_kernel(i, j) == Multiplied("gelu_tanh", i, j)
gelu_quick_kernel(i, j) == Activated("gelu_quick", i, j)
gelu_quick_and_mul_kernel(i, j) == Multiplied("gelu_quick", i, j)
neon_silu_mul(i, j) ==
    {Put("out", Cell(i, j), <<"mul", <<"silu", mem.in[Cell(i, j)]>>, mem.up[Cell(i, j)]>>)}

Normed(i, j) ==
    IF pass = 1 THEN {}
    ELSE {Put("out", Cell(i, j), <<"norm", mem.in[Cell(i, j)], sums[1], mem.weight[j]>>)}

rms_norm_f32_kernel(i, j) == Normed(i, j)
rms_norm_bf16_kernel(i, j) == Normed(i, j)
rms_norm_f16_kernel(i, j) == Normed(i, j)

\* The residual is written in the first pass and read again in the second.
AddedAndNormed(i, j) ==
    IF pass = 1
    THEN {Put("residual", Cell(i, j), <<"add", mem.in[Cell(i, j)], mem.residual[Cell(i, j)]>>)}
    ELSE {Put("out", Cell(i, j), <<"norm", mem.residual[Cell(i, j)], sums[1], mem.weight[j]>>)}

fused_add_rms_norm_f32_kernel(i, j) == AddedAndNormed(i, j)
fused_add_rms_norm_bf16_kernel(i, j) == AddedAndNormed(i, j)
fused_add_rms_norm_f16_kernel(i, j) == AddedAndNormed(i, j)

neon_layer_norm(i, j) ==
    IF pass < 3 THEN {}
    ELSE {Put("out", Cell(i, j),
              <<"layer", <<"diff", mem.in[Cell(i, j)], sums[1]>>, sums[2],
                mem.weight[j], mem.bias[j]>>)}

\* The output may be the input.
Out == IF job.inplace THEN "in" ELSE "out"
Softened(i, j) ==
    CASE pass = 1 -> {}
      [] pass = 2 -> {Put(Out, Cell(i, j), <<"exp", mem.in[Cell(i, j)], DOMAIN sums[1]>>)}
      [] pass = 3 -> {Put(Out, Cell(i, j), <<"over", mem[Out][Cell(i, j)], sums[2]>>)}

softmax_f32_row(i, j) == Softened(i, j)
softmax_bf16_row(i, j) == Softened(i, j)
softmax_f16_row(i, j) == Softened(i, j)

embedding_lookup_kernel(i, j) ==
    LET id == mem.ids[i + 1]
        clamped == IF id < 0 THEN 0 ELSE IF id >= job.vocab THEN job.vocab - 1 ELSE id
    IN  {Put("out", Cell(i, j), IF id = job.padding THEN <<"zero">>
                                ELSE mem.weight[clamped * d + j])}

neon_gemv(i, j) == {}

\* The rows of a rotation are the heads of a token, those of the query first,
\* and their elements the pairs that turn together, of which x and y are the
\* indices in the head.
Turn(i, j, x, y) ==
    LET all == job.heads + job.keys
        t == i \div all
        h == i % all
        buffer == IF h < job.heads THEN "query" ELSE "key"
        base == (IF h < job.heads THEN t * job.heads + h ELSE t * job.keys + h - job.heads) * job.size
        cos == mem.cache[mem.positions[t + 1] * job.rot + j]
        sin == mem.cache[mem.positions[t + 1] * job.rot + d + j]
        a == mem[buffer][base + x]
        b == mem[buffer][base + y]
    IN  {Put(buffer, base + x, Turned(a, b, cos, sin)),
         Put(buffer, base + y, TurnedToo(a, b, cos, sin))}

rope_neox_kernel(i, j) == Turn(i, j, j, d + j)
rope_gptj_kernel(i, j) == Turn(i, j, 2 * j, 2 * j + 1)

Writes(i, j) ==
    CASE job.kernel = "silu" -> silu_kernel(i, j)
      [] job.kernel = "silu_and_mul" -> silu_and_mul_kernel(i, j)
      [] job.kernel = "gelu" -> gelu_kernel(i, j)
      [] job.kernel = "gelu_and_mul" -> gelu_and_mul_kernel(i, j)
      [] job.kernel = "gelu_tanh" -> gelu_tanh_kernel(i, j)
      [] job.kernel = "gelu_tanh_and_mul" -> gelu_tanh_and_mul_kernel(i, j)
      [] job.kernel = "gelu_quick" -> gelu_quick_kernel(i, j)
      [] job.kernel = "gelu_quick_and_mul" -> gelu_quick_and_mul_kernel(i, j)
      [] job.kernel = "silu_mul" -> neon_silu_mul(i, j)
      [] job.kernel = "rms_norm" ->
            (CASE job.type = "f32" -> rms_norm_f32_kernel(i, j)
               [] job.type = "bf16" -> rms_norm_bf16_kernel(i, j)
               [] job.type = "f16" -> rms_norm_f16_kernel(i, j))
      [] job.kernel = "fused_add_rms_norm" ->
            (CASE job.type = "f32" -> fused_add_rms_norm_f32_kernel(i, j)
               [] job.type = "bf16" -> fused_add_rms_norm_bf16_kernel(i, j)
               [] job.type = "f16" -> fused_add_rms_norm_f16_kernel(i, j))
      [] job.kernel = "layer_norm" -> neon_layer_norm(i, j)
      [] job.kernel = "softmax" ->
            (CASE job.type = "f32" -> softmax_f32_row(i, j)
               [] job.type = "bf16" -> softmax_bf16_row(i, j)
               [] job.type = "f16" -> softmax_f16_row(i, j))
      [] job.kernel = "embedding" -> embedding_lookup_kernel(i, j)
      [] job.kernel = "gemv" -> neon_gemv(i, j)
      [] job.kernel = "rope_neox" -> rope_neox_kernel(i, j)
      [] job.kernel = "rope_gptj" -> rope_gptj_kernel(i, j)
-----------------------------------------------------------------------------
\* What the passes of a kernel sum up of an element
Summed(i, j) ==
    CASE job.kernel = "gemv" -> <<"mul", mem.in[Cell(i, j)], mem.x[j]>>
      [] job.kernel = "fused_add_rms_norm" ->
            <<"add", mem.in[Cell(i, j)], mem.residual[Cell(i, j)]>>
      [] job.kernel = "layer_norm" /\ pass = 2 -> <<"diff", mem.in[Cell(i, j)], sums[1]>>
      [] job.kernel = "softmax" /\ pass = 2 ->
            <<"exp", mem.in[Cell(i, j)], DOMAIN sums[1]>>
      [] OTHER -> mem.in[Cell(i, j)]

Passes ==
    CASE job.kernel \in {"rms_norm", "fused_add_rms_norm"} -> 2
      [] job.kernel \in {"layer_norm", "softmax"} -> 3
      [] OTHER -> 1

Sums == pass < Passes \/ job.kernel = "gemv"

\* The strips that a pass tries, the longest first
Strips ==
    CASE job.kernel = "gemv" ->
            (IF job.type = "f32" THEN {4 * Lanes} ELSE IF job.type = "f16" THEN {2 * Lanes} ELSE {})
            \union {Lanes, 1}
      [] job.kernel \in {"rms_norm", "fused_add_rms_norm"} -> {2 * Lanes, 1}
      [] job.kernel = "layer_norm" ->
            (CASE job.type = "f32" -> {Lanes}
               [] job.type = "f16" /\ pass < 3 -> {2 * Lanes}
               [] OTHER -> {}) \union {1}
      [] job.kernel = "softmax" /\ job.type = "bf16" /\ pass # 2 -> {1}
      [] job.kernel = "embedding" ->
            {1} \union (CASE job.type = "f32" -> {Lanes} [] job.type = "f16" -> {2 * Lanes}
                          [] OTHER -> {d})
      [] job.kernel = "rope_gptj" -> {1}
      [] OTHER -> {Lanes, 1}

Begun(c) ==
    /\ job = c /\ mem = c.mem /\ row = 0 /\ pass = 1 /\ at = 0
    /\ sums = [p \in 1 .. 2 |-> EmptyBag]

Init == \E c \in RowCalls : Begun(c)

\* All of a strip is read before any of it is written.
Strip ==
    /\ row < job.rows /\ at < d
    /\ LET fits == {s \in Strips : at + s <= d}
           n == CHOOSE s \in fits : \A r \in fits : r <= s
           now == at .. at + n - 1
           puts == UNION {Writes(row, j) : j \in now}
           value(b, k) == CHOOSE p \in puts : p.buffer = b /\ p.index = k
       IN  /\ mem' = [b \in DOMAIN mem |-> [k \in DOMAIN mem[b] |->
                        IF \E p \in puts : p.buffer = b /\ p.index = k
                        THEN value(b, k).value ELSE mem[b][k]]]
           /\ sums' = IF Sums THEN [sums EXCEPT ![pass] = @ (+) SetToBag({Summed(row, j) : j \in now})]
                      ELSE sums
           /\ at' = at + n
    /\ UNCHANGED <<job, row, pass>>

NextPass ==
    /\ row < job.rows /\ at = d /\ pass < Passes
    /\ pass' = pass + 1 /\ at' = 0
    /\ UNCHANGED <<job, mem, row, sums>>

\* A product is stored when its row is at its end.
NextRow ==
    /\ row < job.rows /\ at = d /\ pass = Passes
    /\ row' = row + 1 /\ pass' = 1 /\ at' = 0
    /\ sums' = [p \in 1 .. 2 |-> EmptyBag]
    /\ mem' = IF job.kernel = "gemv" THEN [mem EXCEPT !.out[row] = sums[1]] ELSE mem
    /\ UNCHANGED job

Next == Strip \/ NextPass \/ NextRow
-----------------------------------------------------------------------------
\* What the scalar code makes of the buffers of a call
Expected ==
    LET m == job.mem
        out == CASE job.kernel = "silu" -> silu(m.in, d)
                 [] job.kernel = "silu_and_mul" -> silu_and_mul(m.in, d)
                 [] job.kernel = "gelu" -> gelu(m.in, d)
                 [] job.kernel = "gelu_and_mul" -> gelu_and_mul(m.in, d)
                 [] job.kernel = "gelu_tanh" -> gelu_tanh(m.in, d)
                 [] job.kernel = "gelu_tanh_and_mul" -> gelu_tanh_and_mul(m.in, d)
                 [] job.kernel = "gelu_quick" -> gelu_quick(m.in, d)
                 [] job.kernel = "gelu_quick_and_mul" -> gelu_quick_and_mul(m.in, d)
                 [] job.kernel = "silu_mul" -> silu_mul(m.in, m.up)
                 [] job.kernel = "rms_norm" ->
                        (CASE job.type = "f32" -> rms_norm_f32(m.in, m.weight, d)
                           [] job.type = "bf16" -> rms_norm_bf16(m.in, m.weight, d)
                           [] job.type = "f16" -> rms_norm_f16(m.in, m.weight, d))
                 [] job.kernel = "fused_add_rms_norm" ->
                        (CASE job.type = "f32" -> fused_add_rms_norm_f32(m.in, m.residual, m.weight, d)
                           [] job.type = "bf16" -> fused_add_rms_norm_bf16(m.in, m.residual, m.weight, d)
                           [] job.type = "f16" -> fused_add_rms_norm_f16(m.in, m.residual, m.weight, d))
                 [] job.kernel = "layer_norm" -> layer_norm(m.in, m.weight, m.bias, d)
                 [] job.kernel = "softmax" -> softmax(m.in, d)
                 [] job.kernel = "embedding" ->
                        embedding_lookup(m.weight, m.ids, job.vocab, d, job.padding)
                 [] job.kernel = "gemv" -> gemv(m.in, m.x, d)
    IN  CASE job.kernel = "rope_neox" ->
                [m EXCEPT !.query = rope_neox(@, m.cache, m.positions, job.heads, job.size, job.rot),
                          !.key = rope_neox(@, m.cache, m.positions, job.keys, job.size, job.rot)]
          [] job.kernel = "rope_gptj" ->
                [m EXCEPT !.query = rope_gptj(@, m.cache, m.positions, job.heads, job.size, job.rot),
                          !.key = rope_gptj(@, m.cache, m.positions, job.keys, job.size, job.rot)]
          [] job.kernel = "fused_add_rms_norm" ->
                [m EXCEPT !.out = out, !.residual = fused_add(m.in, @)]
          [] job.kernel = "softmax" -> IF job.inplace THEN [m EXCEPT !.in = out]
                                       ELSE [m EXCEPT !.out = out]
          [] OTHER -> [m EXCEPT !.out = out]

\* A kernel that is done has written what the scalar code writes, all of it and
\* nothing else: whatever the width leaves for the last strips, also where it
\* writes over what it read.
RowsAgree == row = job.rows => mem = Expected
=============================================================================
