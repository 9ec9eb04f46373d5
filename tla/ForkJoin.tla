------------------------------ MODULE ForkJoin ------------------------------
(***************************************************************************)
(* What a caller of parallel_for is promised: between the call and the     *)
(* return each row is computed exactly once, in any order, and none is     *)
(* computed after the return.                                              *)
(***************************************************************************)
EXTENDS Integers

CONSTANT MaxRows

VARIABLES open,    \* a call is in progress
          times    \* how often each of its rows has been computed

fvars == <<open, times>>

FInit == open = FALSE /\ times = <<>>

Begin ==
    /\ ~open /\ open' = TRUE
    /\ \E n \in 1 .. MaxRows : times' = [r \in 1 .. n |-> 0]

Compute(r) ==
    /\ open
    /\ r \in DOMAIN times /\ times[r] = 0
    /\ times' = [times EXCEPT ![r] = 1]
    /\ UNCHANGED open

Return ==
    /\ open /\ open' = FALSE
    /\ \A r \in DOMAIN times : times[r] = 1
    /\ UNCHANGED times

FNext == Begin \/ Return \/ \E r \in 1 .. MaxRows : Compute(r)

FSafety == FInit /\ [][FNext]_fvars

FSpec == FSafety /\ (open ~> ~open)
=============================================================================
