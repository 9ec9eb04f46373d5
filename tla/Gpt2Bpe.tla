------------------------------- MODULE Gpt2Bpe -------------------------------
(***************************************************************************)
(* gpt2_encode of src/inference/tokenizer/gpt2bpe.c for one piece after    *)
(* another: a piece that is a token, a piece whose tokens are in the       *)
(* cache, and one that is encoded by joining linked parts in the order of  *)
(* a heap, which keeps the entries a join has made stale.                  *)
(***************************************************************************)
EXTENDS Integers, SequencesExt

CONSTANTS
    Merges,  \* the merge lists: sequences of pairs, the earlier the lower the rank
    Known,  \* the letters that are tokens
    Unknown,  \* unk_id as a sequence: <<>> where it is -1, else a token that spells nothing
    Pieces,  \* bound: the pieces to encode
    Rooms,  \* bound: max_ids - num_ids
    Hash(_), Slot(_), CachedAtMost,  \* simd_hash_bytes, the slot of a hash, BPE_CACHE_MAX_TOKENS
    EncodedRoom, CachedLetters,  \* in letters: encoded[2048], BPE_CACHE_MAX_LEN
    PartRoom, HeapRoom  \* the 511 parts that are used of parts[512], heap[512]

VARIABLES
    merges, piece, room,
    parts,  \* of [start, length, next, prev, rank, deleted]
    heap,
    cache,  \* per used slot its key and its tokens
    cut,  \* whether a piece has lacked room, for the properties
    pc,  \* "overrun": heap[512] has been written past its end
    out

gptVars == <<merges, piece, room, parts, heap, cache, cut, pc, out>>

None == 0  \* the indices here begin with 1
NoRank == -1

Init ==
    /\ merges \in Merges
    /\ piece = <<>> /\ room = 0 /\ parts = <<>> /\ heap = <<>> /\ cache = <<>>
    /\ cut = FALSE /\ pc = "idle" /\ out = <<>>

Word(from, length) == SubSeq(piece, from, from + length - 1)

\* lookup_merge
LookupMerge(first, second) ==
    IF \E i \in DOMAIN merges : merges[i] = <<first, second>>
    THEN CHOOSE i \in DOMAIN merges : merges[i] = <<first, second>> ELSE NoRank

\* trie_lookup_whole: what a merge gives is a token, a letter may be none.
IsToken(p) ==
    (Len(p) = 1 /\ p[1] \in Known) \/ \E i \in DOMAIN merges : merges[i][1] \o merges[i][2] = p

\* The letters of p that encoded[] holds, and those of them that get a part
First(p, n) == IF Len(p) <= n THEN p ELSE SubSeq(p, 1, n)
Encoded(p) == First(p, EncodedRoom)
Parted(p) == First(Encoded(p), PartRoom)

Working == pc \in {"merge", "overrun"}
-----------------------------------------------------------------------------
(* heap_push, heap_pop: a binary heap on the ranks alone *)
Swapped(h, i, j) == [h EXCEPT ![i] = h[j], ![j] = h[i]]

\* One round of the loop that moves an entry of c.heap up, or down, from c.at
Raised(c) ==
    LET up == c.at \div 2
    IN  IF c.at = 1 \/ c.heap[up].rank <= c.heap[c.at].rank THEN c
        ELSE [heap |-> Swapped(c.heap, c.at, up), at |-> up]

Lowered(c) ==
    LET Lower(a, b) == IF b <= Len(c.heap) /\ c.heap[b].rank < c.heap[a].rank THEN b ELSE a
        smallest == Lower(Lower(c.at, 2 * c.at), 2 * c.at + 1)
    IN  IF smallest = c.at THEN c ELSE [heap |-> Swapped(c.heap, c.at, smallest), at |-> smallest]

\* As many rounds as there are entries are enough.
SiftUp(h, i) == FoldLeft(LAMBDA c, e : Raised(c), [heap |-> h, at |-> i], h).heap
SiftDown(h, i) == FoldLeft(LAMBDA c, e : Lowered(c), [heap |-> h, at |-> i], h).heap

Push(h, rank, i) ==
    IF rank = NoRank THEN h ELSE SiftUp(Append(h, [rank |-> rank, i |-> i]), Len(h) + 1)

Pop(h) == IF Len(h) = 1 THEN <<>> ELSE SiftDown([Front(h) EXCEPT ![1] = Last(h)], 1)
-----------------------------------------------------------------------------
Say(tokens) == out' = tokens /\ room' = 0 /\ pc' = "done"

EncodeWhole(p) ==
    /\ ~Working /\ IsToken(Encoded(p))
    /\ piece' = p /\ parts' = <<>> /\ Say(<<Encoded(p)>>)
    /\ UNCHANGED <<merges, heap, cache, cut>>

\* cache_lookup: the hash is all that is compared
Key(p) == Hash(Encoded(p))
Cached(p) ==
    /\ Len(Encoded(p)) <= CachedLetters
    /\ Slot(Key(p)) \in DOMAIN cache /\ cache[Slot(Key(p))].key = Key(p)

\* The room is not looked at.
EncodeCached(p) ==
    /\ ~Working /\ ~IsToken(Encoded(p)) /\ Cached(p)
    /\ piece' = p /\ parts' = <<>> /\ Say(cache[Slot(Key(p))].tokens)
    /\ UNCHANGED <<merges, heap, cache, cut>>

\* Letters past the last part are left out.
EncodePiece(p, r) ==
    LET n == Len(Parted(p))
        Rank(i) == IF i = n THEN NoRank ELSE LookupMerge(<<p[i]>>, <<p[i + 1]>>)
    IN  /\ ~Working /\ ~IsToken(Encoded(p)) /\ ~Cached(p)
        /\ piece' = p /\ room' = r /\ pc' = "merge"
        /\ parts' = [i \in 1 .. n |->
                [start |-> i, length |-> 1, next |-> IF i < n THEN i + 1 ELSE None,
                 prev |-> i - 1, rank |-> Rank(i), deleted |-> FALSE]]
        /\ heap' = FoldLeft(LAMBDA h, i : Push(h, Rank(i), i), <<>>, [i \in 1 .. n |-> i])
        /\ out' = <<>>
        /\ UNCHANGED <<merges, cache, cut>>

\* The join of part i with the next one, of parts q
JoinRank(q, i) ==
    IF q[i].next = None THEN NoRank
    ELSE LookupMerge(Word(q[i].start, q[i].length), Word(q[q[i].next].start, q[q[i].next].length))

\* Slip: an entry of a rank its part no longer has goes unnoticed
Unlinked(e) == parts[e.i].deleted \/ parts[e.i].next = None

Stale(e) ==
    parts[e.i].deleted \/ parts[e.i].rank # e.rank \/ parts[e.i].next = None

PopStale ==
    /\ pc = "merge" /\ heap # <<>> /\ Stale(heap[1])
    /\ heap' = Pop(heap)
    /\ UNCHANGED <<merges, piece, room, parts, cache, cut, pc, out>>

\* Part i takes in the next one; the ranks of its joins on both sides are new.
Merged(i) ==
    LET gone == parts[i].next
        linked == [j \in DOMAIN parts |->
            CASE j = i -> [parts[i] EXCEPT !.length = @ + parts[gone].length, !.next = parts[gone].next]
              [] j = gone -> [parts[gone] EXCEPT !.deleted = TRUE]
              [] j = parts[gone].next -> [parts[j] EXCEPT !.prev = i]
              [] OTHER -> parts[j]]
    IN  [j \in DOMAIN parts |->
            IF j \in {i, parts[i].prev} THEN [linked[j] EXCEPT !.rank = JoinRank(linked, j)]
            ELSE linked[j]]

\* The heap after the join of part i, of parts q then
Refilled(q, i) ==
    LET h == Push(Pop(heap), q[i].rank, i)
    IN  IF q[i].prev = None THEN h ELSE Push(h, q[q[i].prev].rank, q[i].prev)

PopMerge ==
    /\ pc = "merge" /\ heap # <<>> /\ ~Stale(heap[1])
    /\ LET i == heap[1].i
       IN  /\ Len(Refilled(Merged(i), i)) <= HeapRoom
           /\ parts' = Merged(i) /\ heap' = Refilled(Merged(i), i)
    /\ UNCHANGED <<merges, piece, room, cache, cut, pc, out>>

\* heap_push does not look at the room: what it writes past heap[512] is on the
\* stack, and nothing is said of the program from here on.
Overrun ==
    /\ pc = "merge" /\ heap # <<>> /\ ~Stale(heap[1])
    /\ Len(Refilled(Merged(heap[1].i), heap[1].i)) > HeapRoom
    /\ pc' = "overrun"
    /\ UNCHANGED <<merges, piece, room, parts, heap, cache, cut, out>>

Kept == SelectSeq(parts, LAMBDA q : ~q.deleted)
Segments == [i \in DOMAIN Kept |-> Word(Kept[i].start, Kept[i].length)]

\* cache_store; what there was no room for is missing from the entry too.
Stored(tokens) ==
    IF Len(tokens) \notin 1 .. CachedAtMost THEN cache
    ELSE [s \in DOMAIN cache \cup {Slot(Key(piece))} |->
            IF s = Slot(Key(piece)) THEN [key |-> Key(piece), tokens |-> tokens] ELSE cache[s]]

\* gpt2_token_to_id_n
Tokens == FlattenSeq([i \in DOMAIN Segments |-> IF IsToken(Segments[i]) THEN <<Segments[i]>> ELSE Unknown])

EmitTokens ==
    LET tokens == First(Tokens, room)
    IN  /\ pc = "merge" /\ heap = <<>>
        /\ cache' = Stored(tokens)
        /\ cut' = (cut \/ tokens # Tokens)
        /\ Say(tokens)
        /\ UNCHANGED <<merges, piece, parts, heap>>

Next ==
    \/ PopStale \/ PopMerge \/ Overrun \/ EmitTokens
    \/ \E p \in Pieces :
        EncodeWhole(p) \/ EncodeCached(p) \/ \E r \in Rooms : EncodePiece(p, r)

Spec == Init /\ [][Next]_gptVars
-----------------------------------------------------------------------------
\* Parts are joined in the order of the merge list and until none can be; which
\* of two equal pairs comes first is left to the heap. A piece of more letters
\* than there are parts is joined as far as these go, and where the heap is
\* overrun nothing is joined any more.
Order == INSTANCE Merging WITH
    Leftmost <- FALSE,
    ranks <- [c \in {merges[i] : i \in DOMAIN merges} |-> CHOOSE i \in DOMAIN merges : merges[i] = c],
    parts <- Segments, done <- ~Working

MergesByList == Order!Spec

\* What the tokens of p are to spell: a token itself; else its letters that are
\* tokens, the last ones missing where encoded[] or parts[] has no room for them
Spelling(p) ==
    IF IsToken(Encoded(p)) THEN Encoded(p) ELSE SelectSeq(Parted(p), LAMBDA x : x \in Known)

\* As long as max_ids has cut no piece short, the tokens of a piece spell what they
\* are to, whether they are new or come from the cache, where Hash gives no two
\* pieces the same key. (A merge list joins known letters only.)
TokensSpell == (pc = "done" /\ ~cut) => FlattenSeq(out) = Spelling(piece)

\* The heap is overrun by no piece of up to HeapRoom / 2 + 2 letters.
HeapLasts == pc = "overrun" => 2 * Len(parts) - 4 > HeapRoom
=============================================================================
