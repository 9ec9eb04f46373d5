---------------------------- MODULE DoubleArray ----------------------------
(***************************************************************************)
(* The double-array trie of the unigram tokenizer (sentencepiece.c): the   *)
(* plain trie of the pieces is laid out, node by node and depth first, in  *)
(* arrays where the child for a byte is at base + byte, if check says that *)
(* the node there is a child of this one. A node of the plain trie is the  *)
(* prefix that leads to it.                                                *)
(***************************************************************************)
EXTENDS Integers, SequencesExt, FiniteSetsExt

CONSTANTS Bytes, PieceSets, Room  \* PieceSets, Room: bounds

VARIABLES
    pieces,
    base, check,  \* per index; check is Free where no node is
    at,  \* the node that each index stands for, which gives value and score
    todo  \* the nodes still to be laid out, the next one first

datVars == <<pieces, base, check, at, todo>>

Free == -1
Index == 0 .. Room

Nodes == UNION {{SubSeq(p, 1, k) : k \in 0 .. Len(p)} : p \in pieces} \cup {<<>>}
Labels(node) == {b \in Bytes : Append(node, b) \in Nodes}

Init ==
    /\ pieces \in PieceSets
    /\ base = [i \in Index |-> 0] /\ check = [i \in Index |-> Free]
    /\ at = (0 :> <<>>) /\ todo = <<0>>

Fits(b, labels) == \A l \in labels : check[b + l] = Free

\* dat_find_base
FindBase(labels) == Min({b \in 1 .. Room - Max(Bytes) : Fits(b, labels)})

\* dat_build_recursive: the children are placed together, then laid out in turn.
LayOut ==
    /\ todo # <<>>
    /\ LET i == Head(todo)
           labels == Labels(at[i])
           b == FindBase(labels)
           children == {b + l : l \in labels}
       IN  IF labels = {}
           THEN /\ base' = [base EXCEPT ![i] = 0] /\ todo' = Tail(todo)
                /\ UNCHANGED <<check, at>>
           ELSE /\ base' = [base EXCEPT ![i] = b]
                /\ check' = [j \in Index |-> IF j \in children THEN i ELSE check[j]]
                /\ at' = [j \in DOMAIN at \cup children |->
                            IF j \in children THEN Append(at[i], j - b) ELSE at[j]]
                /\ todo' = SetToSortSeq(children, <) \o Tail(todo)
    /\ UNCHANGED pieces

Next == LayOut

Spec == Init /\ [][Next]_datVars
-----------------------------------------------------------------------------
\* The index that a word leads to, as sp_encode_unigram walks, or Free
Walk(word) ==
    FoldLeft(LAMBDA i, c : IF i # Free /\ base[i] + c \in Index /\ check[base[i] + c] = i
                           THEN base[i] + c ELSE Free, 0, word)

\* When all is laid out, a word that begins some piece leads to its own node and
\* no other word leads anywhere, although nodes share the arrays.
WalksAreExact ==
    todo = <<>> =>
        \A w \in Nodes \cup {Append(n, c) : n \in Nodes, c \in Bytes} :
            IF w \in Nodes THEN Walk(w) # Free /\ at[Walk(w)] = w ELSE Walk(w) = Free
=============================================================================
