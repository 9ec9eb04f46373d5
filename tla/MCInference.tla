----------------------------- MODULE MCInference -----------------------------
(***************************************************************************)
(* The local inference code for TLC: a behaviour is one of MCEngine or one *)
(* of MCTokenizers, which share no state; the variables of the other rest  *)
(* at a first value of theirs.                                             *)
(***************************************************************************)
EXTENDS MCEngine, MCTokenizers

VARIABLE side

\* Nothing is asked of the engine, and no text is given to the tokenizers.
EngineRests == part = "gemm" /\ call = IdleProduct /\ dtype = "f32"
TokenizersRest == encoder = "cut" /\ pattern = "gpt2" /\ text = <<>>

InferenceInit ==
    /\ \/ side = "engine" /\ TokenizersRest
       \/ side = "tokenizers" /\ EngineRests
    /\ EngineInit /\ TokenizerInit

InferenceNext ==
    /\ UNCHANGED side
    /\ \/ side = "engine" /\ EngineNext /\ UNCHANGED tokenizerVars
       \/ side = "tokenizers" /\ TokenizerNext /\ UNCHANGED engineVars

InferenceSpec == InferenceInit /\ [][InferenceNext]_<<side, engineVars, tokenizerVars>>
=============================================================================
