------------------------------- MODULE Merging -------------------------------
(***************************************************************************)
(* What byte pair encoding promises: a piece begins as its letters, and as *)
(* long as two neighbours can be joined, the two whose join has the lowest *)
(* rank are joined. The three encoders of src/inference/tokenizer are      *)
(* shown to implement this, each with its own data structure.              *)
(***************************************************************************)
EXTENDS Integers, Sequences

CONSTANT Leftmost  \* of joins of the same rank the leftmost comes first

VARIABLES
    ranks,  \* the rank of each pair of parts that can be joined
    parts,  \* the piece, as the sequence of its parts
    done

Join(i) == <<parts[i], parts[i + 1]>>
Joinable == {i \in 1 .. Len(parts) - 1 : Join(i) \in DOMAIN ranks}

First(i) ==
    \A j \in Joinable \ {i} :
        \/ ranks[Join(i)] < ranks[Join(j)]
        \/ ranks[Join(i)] = ranks[Join(j)] /\ (Leftmost => i < j)

Joined(i) ==
    SubSeq(parts, 1, i - 1) \o <<parts[i] \o parts[i + 1]>> \o SubSeq(parts, i + 2, Len(parts))

Init == parts = <<>> /\ done = TRUE

Begin == done /\ ~done' /\ \A i \in DOMAIN parts' : Len(parts'[i]) = 1

\* A piece that is a token already
Whole == done /\ done' /\ parts' = <<>>

Merge == ~done /\ ~done' /\ \E i \in Joinable : First(i) /\ parts' = Joined(i)

Finish == ~done /\ done' /\ Joinable = {} /\ parts' = parts

Next == ranks' = ranks /\ (Begin \/ Whole \/ Merge \/ Finish)

Spec == Init /\ [][Next]_<<ranks, parts, done>>
=============================================================================
