----------------------------- MODULE DotProduct -----------------------------
(***************************************************************************)
(* The inner loops of the matrix kernels: which of the K terms of a dot    *)
(* product end up in the accumulator, and how often. An accumulator is a   *)
(* count per term; the term Before is what it held when the loop began.    *)
(***************************************************************************)
EXTENDS Integers, FiniteSets, SequencesExt

CONSTANT Unroll  \* the terms of one turn of an unrolled loop, 4

ASSUME UnrollAssumption == Unroll \in Nat \ {0}

Before == -1
Cleared(K) == [t \in Before .. K - 1 |-> 0]
Stale(K) == [Cleared(K) EXCEPT ![Before] = 1]

\* What every kernel must come to
Complete(K) == [t \in Before .. K - 1 |-> IF t = Before THEN 0 ELSE 1]

\* The scalar loop
Plain(K) == [t \in Before .. K - 1 |-> IF t \in 0 .. K - 1 THEN 1 ELSE 0]

\* for (k = 0; k + 4 <= K; k += 4) and the rest one by one
Unrolled(K) ==
    LET turns == {k \in 0 .. K : k % Unroll = 0 /\ k + Unroll <= K}
        rest == Unroll * Cardinality(turns) .. K - 1
    IN  [t \in Before .. K - 1 |->
            Cardinality({k \in turns : t \in k .. k + Unroll - 1})
                + (IF t \in rest THEN 1 ELSE 0)]
-----------------------------------------------------------------------------
(***************************************************************************)
(* The AMX kernels keep the sums in the Z registers, which are never       *)
(* cleared: the first multiply of a tile is told to skip what is in them.  *)
(* The half-precision kernel loads ahead of itself into Unroll registers.  *)
(***************************************************************************)
Fma(s, r, skip) ==
    [s EXCEPT !.z = [t \in DOMAIN @ |->
        (IF skip THEN 0 ELSE @[t]) + (IF t = s.reg[r] THEN 1 ELSE 0)]]
Load(s, r, k) == [s EXCEPT !.reg[r] = k]

Registers == [r \in 1 .. Unroll |-> r - 1]

\* The registers are loaded with the first terms before the loop
Prime(z) == [z |-> z, reg |-> [r \in 0 .. Unroll - 1 |-> r]]

Turn(s, k) ==
    FoldLeft(LAMBDA a, r : Load(Fma(a, r, k = 0 /\ r = 0), r, k + Unroll + r), s, Registers)

\* Slip: the terms that were loaded ahead are never added.
Undrained(s, k) == s

Drain(s, k) == FoldLeft(LAMBDA a, r : Fma(a, r, k = 0 /\ r = 0), s, Registers)

OneByOne(s, from, K, skip) ==
    FoldLeft(LAMBDA a, k : Fma(Load(a, 0, k), 0, skip /\ k = 0), s,
             [i \in 1 .. K - from |-> from + i - 1])

\* amx_f16_kernel_pipelined
Pipelined(z, K) ==
    LET turns == (K - 2 * Unroll) \div Unroll + 1
        last == Unroll * turns
        s == Drain(FoldLeft(Turn, Prime(z), [i \in 1 .. turns |-> (i - 1) * Unroll]), last)
    IN  IF K >= Unroll
        THEN OneByOne(s, last + Unroll, K, FALSE).z
        ELSE OneByOne(Prime(z), 0, K, TRUE).z

\* amx_bf16_kernel
Amx32(z, K) == OneByOne(Prime(z), 0, K, TRUE).z
=============================================================================
