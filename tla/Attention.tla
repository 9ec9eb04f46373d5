------------------------------- MODULE Attention -------------------------------
(***************************************************************************)
(* kernels/attention: softmax(Q K^T) V in one pass over the keys, with the *)
(* largest score so far and sums that are scaled again when it grows; and  *)
(* flash_attention_mha_f32, which gives each thread some of the heads.     *)
(*                                                                         *)
(* A score is an integer, and a weight e^n is its exponent n; what counts  *)
(* of a value is its key and the weight it got. A key that the mask hides  *)
(* has the score NegInf.                                                   *)
(***************************************************************************)
EXTENDS Integers, Sequences, FiniteSets, FiniteSetsExt, SequencesExt

CONSTANTS
    NegInf,  \* below all scores
    Kernels,  \* of "scalar", "neon" and "accelerate", those to look at
    MhaCalls  \* calls: [type, batch, heads, kvHeads, queries, keys, threads, score, hidden]; one head but in f32

VARIABLES
    mha,  \* the call
    kernel,  \* the one that the build has
    taken,  \* of each thread, heads it has done
    output,  \* of a batch entry, head and query
    joined  \* threads that have been joined

mhaVars == <<mha, kernel, taken, output, joined>>
-----------------------------------------------------------------------------
\* What one pass has: the largest score, the weights of the values in the
\* output, and those in the sum
NoneYet == [max |-> NegInf, acc |-> <<>>, sum |-> <<>>]
Scaled(weights, by) == [x \in DOMAIN weights |-> weights[x] + by]
With(weights, x, n) == [y \in DOMAIN weights \union {x} |-> IF y = x THEN n ELSE weights[y]]

\* Slip: a larger score scales the output and not the sum
SumUnscaled(st, x, s) ==
    LET new == IF s > st.max THEN s ELSE st.max
    IN  IF s = NegInf THEN st
        ELSE [max |-> new, acc |-> With(Scaled(st.acc, st.max - new), x, s - new),
              sum |-> With(st.sum, x, s - new)]

\* Each key scales what there is, by e^0 when the largest score stays.
Rescaled(st, x, s) ==
    LET new == IF s > st.max THEN s ELSE st.max
    IN  IF s = NegInf THEN st
        ELSE [max |-> new, acc |-> With(Scaled(st.acc, st.max - new), x, s - new),
              sum |-> With(Scaled(st.sum, st.max - new), x, s - new)]

\* Only a new largest score scales, and its own weight is 1.
RescaledWhenLarger(st, x, s) ==
    IF s = NegInf THEN st
    ELSE IF s > st.max
    THEN [max |-> s, acc |-> With(Scaled(st.acc, st.max - s), x, 0),
          sum |-> With(Scaled(st.sum, st.max - s), x, 0)]
    ELSE [st EXCEPT !.acc = With(@, x, s - st.max), !.sum = With(@, x, s - st.max)]

\* The output is zero when nothing was seen.
Pass(Visit(_, _, _), xs, score) ==
    LET end == FoldLeft(LAMBDA st, i : Visit(st, xs[i], score[i]), NoneYet,
                        [i \in DOMAIN xs |-> i])
    IN  IF end.sum = <<>> THEN "zero" ELSE [acc |-> end.acc, sum |-> end.sum]

flash_attention_f32_scalar(xs, score) == Pass(Rescaled, xs, score)
flash_attention_bf16_scalar(xs, score) == Pass(Rescaled, xs, score)
flash_attention_f16_scalar(xs, score) == Pass(Rescaled, xs, score)
flash_attention_f32_neon(xs, score) == Pass(RescaledWhenLarger, xs, score)
flash_attention_bf16_neon(xs, score) == Pass(RescaledWhenLarger, xs, score)
flash_attention_f16_neon(xs, score) == Pass(RescaledWhenLarger, xs, score)

\* With Accelerate the rows are short enough to have all scores at once; a row
\* that is hidden altogether has no largest score to take off.
Accelerated(xs, score) ==
    LET seen == {i \in DOMAIN xs : score[i] # NegInf}
        largest == Max({score[i] : i \in DOMAIN xs})
        weights == [x \in {xs[i] : i \in seen} |->
                        score[CHOOSE i \in seen : xs[i] = x] - largest]
    IN  IF seen = {} THEN "nan" ELSE [acc |-> weights, sum |-> weights]

flash_attention_f32(xs, score) ==
    IF kernel = "accelerate" THEN Accelerated(xs, score)
    ELSE IF kernel = "neon" THEN flash_attention_f32_neon(xs, score)
    ELSE flash_attention_f32_scalar(xs, score)

flash_attention_bf16(xs, score) ==
    IF kernel = "scalar" THEN flash_attention_bf16_scalar(xs, score)
    ELSE flash_attention_bf16_neon(xs, score)

flash_attention_f16(xs, score) ==
    IF kernel = "scalar" THEN flash_attention_f16_scalar(xs, score)
    ELSE flash_attention_f16_neon(xs, score)

FlashAttention(xs, score) ==
    CASE mha.type = "f32" -> flash_attention_f32(xs, score)
      [] mha.type = "bf16" -> flash_attention_bf16(xs, score)
      [] mha.type = "f16" -> flash_attention_f16(xs, score)
-----------------------------------------------------------------------------
\* heads_per_kv heads read the same keys
KvHead(h) == h \div (mha.heads \div mha.kvHeads)
KeysOf(b, h) == [k \in 1 .. mha.keys |-> <<b, KvHead(h), k>>]
ScoreOf(b, h, q) ==
    [k \in 1 .. mha.keys |->
        IF <<q, k>> \in mha.hidden THEN NegInf ELSE mha.score[KvHead(h), k]]

Few == mha.threads <= 1 \/ mha.batch * mha.heads < 4
Used == IF Few THEN 1 ELSE Min({mha.threads, mha.heads})
PerThread == (mha.heads + Used - 1) \div Used

\* The heads of thread t, of each batch entry in turn
HeadsOf(t) ==
    LET from == t * PerThread
        heads == from .. Min({from + PerThread, mha.heads}) - 1
        n == Cardinality(heads)
    IN  [i \in 1 .. mha.batch * n |-> <<(i - 1) \div n, from + ((i - 1) % n)>>]

Places == (0 .. mha.batch - 1) \X (0 .. mha.heads - 1) \X (1 .. mha.queries)

Begun(c) ==
    /\ mha = c /\ kernel \in Kernels
    /\ taken = [t \in 0 .. c.threads - 1 |-> 0] /\ joined = {}
    /\ output = [p \in (0 .. c.batch - 1) \X (0 .. c.heads - 1) \X (1 .. c.queries) |-> "old"]

Init == \E c \in MhaCalls : Begun(c)

\* A thread does its next head, all queries of it.
mha_work(t) ==
    /\ t < Used /\ taken[t] < Len(HeadsOf(t))
    /\ taken' = [taken EXCEPT ![t] = @ + 1]
    /\ LET b == HeadsOf(t)[taken[t] + 1][1]
           h == HeadsOf(t)[taken[t] + 1][2]
       IN  output' = [p \in Places |->
                IF p[1] = b /\ p[2] = h
                THEN FlashAttention(KeysOf(b, h), ScoreOf(b, h, p[3])) ELSE output[p]]
    /\ UNCHANGED <<mha, kernel, joined>>

\* The caller waits for the threads in their order, and for those that have
\* heads only.
Join(t) ==
    /\ t \in 0 .. Used - 1 /\ t = Cardinality(joined)
    /\ taken[t] = Len(HeadsOf(t))
    /\ joined' = joined \union {t}
    /\ UNCHANGED <<mha, kernel, taken, output>>

Next == \E t \in 0 .. mha.threads - 1 : mha_work(t) \/ Join(t)
-----------------------------------------------------------------------------
Softmax(b, h, q) ==
    LET seen == {k \in 1 .. mha.keys : <<q, k>> \notin mha.hidden}
        of == [k \in seen |-> mha.score[KvHead(h), k]]
    IN  [x \in {<<b, KvHead(h), k>> : k \in seen} |-> of[x[3]] - Max({of[k] : k \in seen})]

\* When the threads are joined, each query of each head has the softmax of the
\* keys that its mask leaves, whichever thread did it and in whatever order
\* their scores came; and every thread's heads are its own.
WeightsRight ==
    /\ \A t, u \in 0 .. Used - 1 :
            t # u => {HeadsOf(t)[i][2] : i \in DOMAIN HeadsOf(t)}
                       \intersect {HeadsOf(u)[i][2] : i \in DOMAIN HeadsOf(u)} = {}
    /\ joined = 0 .. Used - 1 =>
        \A p \in Places :
            IF \A k \in 1 .. mha.keys : <<p[3], k>> \in mha.hidden
            THEN output[p] \in {"zero", "nan"}
            ELSE output[p] = [acc |-> Softmax(p[1], p[2], p[3]),
                              sum |-> Softmax(p[1], p[2], p[3])]
=============================================================================
