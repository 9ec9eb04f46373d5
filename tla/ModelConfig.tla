---------------------------- MODULE ModelConfig -----------------------------
(***************************************************************************)
(* The numbers of a model's config.json on which the generation depends,   *)
(* and how often TLC resets its caches.                                    *)
(***************************************************************************)
EXTENDS Integers

CONSTANTS
    Layers,  \* num_hidden_layers
    MaxSeq,  \* max_position_embeddings, the positions the caches have room for
    Vocab,  \* vocab_size
    MaxEpochs  \* bound

ASSUME ConfigAssumption ==
    Layers \in Nat \ {0} /\ MaxSeq \in Nat /\ Vocab \in Nat \ {0} /\ MaxEpochs \in Nat \ {0}
=============================================================================
