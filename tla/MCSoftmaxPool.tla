--------------------------- MODULE MCSoftmaxPool ---------------------------
(***************************************************************************)
(* The pool on an instance where the chunks come out in every way that     *)
(* matters: rows left for the caller and none left, a worker without a     *)
(* chunk, and fewer workers than threads asked for. Two calls let a worker *)
(* that is late with the signal of the first meet the second.              *)
(***************************************************************************)
EXTENDS SoftmaxPool
=============================================================================
