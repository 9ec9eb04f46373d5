-------------------------------- MODULE Sampling --------------------------------
(***************************************************************************)
(* kernels/sampling: sampling_sample_f32, which draws the next token from  *)
(* the logits. Logits are whole numbers, e^x is 2^x with its last bits     *)
(* lost, so a weight of 2^Bits is the program's 1.0 and the sum that would *)
(* normalise the weights is kept apart; fractions are percents.            *)
(***************************************************************************)
EXTENDS Integers, Sequences, FiniteSets, FiniteSetsExt, SequencesExt

CONSTANTS
    Bits,  \* what e^x keeps
    Lanes,  \* numbers in a vector: 4 in the code
    SampleCalls  \* calls: [logits, neon, temperature, topK, topP, minP]

VARIABLES
    ask,  \* the call
    probs,  \* of each token
    token,  \* the one drawn, -1 before
    did  \* the last step

sampleVars == <<ask, probs, token, did>>
-----------------------------------------------------------------------------
VocabSize == Len(ask.logits)
Tokens == 0 .. VocabSize - 1
Logit(i) == ask.logits[i + 1]
Total(w, S) == MapThenSumSet(LAMBDA i : w[i], S)
Better(i, best) == IF Logit(i) > Logit(best) THEN i ELSE best

\* Whole vectors lane by lane, then what is left
Strips == Lanes * (VocabSize \div Lanes)
LaneOf(l) == {i \in Tokens : i < Strips /\ i % Lanes = l}
Left == Strips .. VocabSize - 1

compute_max_logit == Max({Logit(i) : i \in Tokens})
compute_max_logit_neon ==
    LET lane(l) == {Logit(i) : i \in LaneOf(l)}
    IN  Max({Max(lane(l)) : l \in {k \in 0 .. Lanes - 1 : lane(k) # {}}} \union {Logit(i) : i \in Left})

compute_sum(w) == Total(w, Tokens)
compute_sum_neon(w) == MapThenSumSet(LAMBDA l : Total(w, LaneOf(l)), 0 .. Lanes - 1) + Total(w, Left)
SumOf(w) == IF ask.neon THEN compute_sum_neon(w) ELSE compute_sum(w)

sample_argmax == FoldLeft(LAMBDA best, n : Better(n - 1, best), 0, [n \in 1 .. VocabSize |-> n])

Exp(x) == IF x < -Bits THEN 0 ELSE 2 ^ (Bits + x)
compute_softmax(largest) == [i \in Tokens |-> Exp(Logit(i) - largest)]

\* One above 100 takes all of them away.
apply_min_p(w) ==
    [i \in Tokens |-> IF 100 * w[i] < ask.minP * Max({w[j] : j \in Tokens}) THEN 0 ELSE w[i]]

\* A candidate is taken from its place by the one swapped with it.
Swapped(c, i, j) == [c EXCEPT ![i] = c[j], ![j] = c[i]]
Only(w, S) == [i \in Tokens |-> IF i \in S THEN w[i] ELSE 0]

apply_top_k(w) ==
    LET first(c, i) == CHOOSE j \in i .. VocabSize : \A k \in i .. VocabSize :
                            w[c[k]] < w[c[j]] \/ (w[c[k]] = w[c[j]] /\ j <= k)
        chosen == FoldLeft(LAMBDA c, i : Swapped(c, i, first(c, i)),
                           [i \in 1 .. VocabSize |-> i - 1], [i \in 1 .. ask.topK |-> i])
    IN  IF ask.topK >= VocabSize THEN w ELSE Only(w, {chosen[i] : i \in 1 .. ask.topK})

\* Those that weigh something, sorted by exchanging; the sum that is compared
\* is of the whole row, which is normalised first.
apply_top_p(w) ==
    LET some == SetToSortSeq({i \in Tokens : w[i] > 0}, <)
        order(c, i, j) == IF w[c[j]] > w[c[i]] THEN Swapped(c, i, j) ELSE c
        pass(c, i) == FoldLeft(LAMBDA e, j : order(e, i, j), c,
                               [j \in 1 .. Len(c) - i |-> i + j])
        sorted == FoldLeft(pass, some, [i \in DOMAIN some |-> i])
        upTo(n) == {sorted[i] : i \in 1 .. n}
        enough == {n \in DOMAIN some : 100 * Total(w, upTo(n)) >= ask.topP * SumOf(w)}
    IN  Only(w, IF enough = {} THEN upTo(Len(some)) ELSE upTo(Min(enough)))

\* A power: the order stays, and one that is high makes the small ones zero.
\* The largest weight is 1, which stays 1, unless top_p has normalised them.
Underflow(w) ==
    IF ask.temperature # "low" THEN {0}
    ELSE 0 .. Max({w[i] : i \in Tokens}) - (IF ask.topP < 100 THEN 0 ELSE 1)
apply_temperature(w, below) == [i \in Tokens |-> IF w[i] <= below THEN 0 ELSE w[i]]

\* A sum that rounding made too small, or a row of zeros, gives the last token.
sample_from_distribution(w, r) ==
    LET past == {i \in Tokens : r < Total(w, 0 .. i)}
    IN  IF past = {} THEN VocabSize - 1 ELSE Min(past)

\* The probability of a token, as a fraction
sampling_prob_f32_scalar(t) ==
    LET w == compute_softmax(compute_max_logit)
    IN  [weight |-> Exp(Logit(t) - compute_max_logit), of |-> compute_sum(w)]
sampling_prob_f32_kernel(t) ==
    LET w == compute_softmax(compute_max_logit_neon)
    IN  [weight |-> Exp(Logit(t) - compute_max_logit_neon), of |-> compute_sum_neon(w)]
sampling_prob_f32(t) ==
    IF ask.neon THEN sampling_prob_f32_kernel(t) ELSE sampling_prob_f32_scalar(t)
-----------------------------------------------------------------------------
Begun(c) ==
    /\ ask = c /\ token = -1 /\ did = "nothing"
    /\ probs = [i \in 0 .. Len(c.logits) - 1 |-> 0]

Init == \E c \in SampleCalls : Begun(c)

Step(from, to, w) == did = from /\ did' = to /\ probs' = w /\ UNCHANGED <<ask, token>>

Greedy ==
    /\ did = "nothing" /\ ask.temperature = "zero"
    /\ token' = sample_argmax /\ did' = "drawn"
    /\ UNCHANGED <<ask, probs>>

Softmax ==
    /\ ask.temperature # "zero"
    /\ Step("nothing", "softmax",
            compute_softmax(IF ask.neon THEN compute_max_logit_neon ELSE compute_max_logit))
MinP == Step("softmax", "min_p", IF ask.minP > 0 THEN apply_min_p(probs) ELSE probs)
TopK == Step("min_p", "top_k", IF ask.topK > 0 THEN apply_top_k(probs) ELSE probs)
TopP == Step("top_k", "top_p", IF ask.topP < 100 THEN apply_top_p(probs) ELSE probs)
Temperature ==
    \E below \in Underflow(probs) : Step("top_p", "temperature", apply_temperature(probs, below))

Draw ==
    /\ did = "temperature" /\ did' = "drawn"
    /\ \E r \in 0 .. SumOf(probs) : token' = sample_from_distribution(probs, r)
    /\ UNCHANGED <<ask, probs>>

Next == Greedy \/ Softmax \/ MinP \/ TopK \/ TopP \/ Temperature \/ Draw
-----------------------------------------------------------------------------
\* What the filters ask for, without sorting: fewer than top_k weigh more than
\* the token, and those that do are not yet top_p of the top_k greatest
Weight == [i \in Tokens |-> Exp(Logit(i) - compute_max_logit)]
Enough == {i \in Tokens : 100 * Weight[i] >= ask.minP * 2 ^ Bits}
Heavier(t) == {i \in Enough : Weight[i] > Weight[t]}
GreatestK ==
    LET k == IF ask.topK <= 0 THEN Cardinality(Enough) ELSE Min({ask.topK, Cardinality(Enough)})
    IN  Max({Total(Weight, S) : S \in kSubset(k, Enough)})
Allowed(t) ==
    /\ t \in Enough /\ Weight[t] > 0
    /\ ask.topK > 0 => Cardinality(Heavier(t)) < ask.topK
    /\ ask.topP < 100 => \/ 100 * Total(Weight, Heavier(t)) < ask.topP * GreatestK
                         \/ Heavier(t) = {}

\* The token drawn is one that min_p, top_k and top_p allow, but for the last of
\* the vocabulary, which stands for a draw that found none; the filters alone
\* never lose the most probable token; and a temperature of 0 takes the first
\* most probable one. The probability that is reported of a token is its share
\* of the weights that are drawn from.
DrawnIsAllowed ==
    /\ did = "drawn" =>
        IF ask.temperature = "zero"
        THEN \A i \in Tokens : Logit(i) < Logit(token) \/ (Logit(i) = Logit(token) /\ token <= i)
        ELSE Allowed(token) \/ token = VocabSize - 1
    /\ did \in {"min_p", "top_k", "top_p"} /\ ask.minP <= 100 =>
        \E i \in Tokens : probs[i] = 2 ^ Bits
    /\ \A i \in Tokens : probs[i] > 0 /\ did = "top_p" => Allowed(i)
    /\ did = "softmax" =>
        \A i \in Tokens : sampling_prob_f32(i) = [weight |-> probs[i], of |-> Total(probs, Tokens)]
=============================================================================
