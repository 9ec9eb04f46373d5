--------------------------- MODULE RequestProof -----------------------------
(***************************************************************************)
(* A request, its reply and a read of it may be of any size: what is sent  *)
(* has the end of the history that fits, the author's note where it was    *)
(* put and the lore that the scanned messages ask for, and the reply is    *)
(* put together as if it had not been cut.                                 *)
(*                                                                         *)
(* What is chosen before the request is built is an invariant of the loop  *)
(* that counts. What the request then says follows from the places of its  *)
(* items: those in front of the messages, the messages with the note among *)
(* them, and what comes behind. For the reply, one more byte does to the   *)
(* buffer and the texts what it does to the lines the server has sent, and *)
(* so do the bytes of a read, by induction.                                *)
(***************************************************************************)
EXTENDS MCRequest, FiniteSetTheorems, SequenceTheorems, WellFoundedInduction, TLAPS

Spoken == [role : Roles, words : SUBSET Words]

Typed ==
    /\ backend \in Backends /\ history \in Seq(Spoken) /\ note \in Notes
    /\ book \in Seq(Lore) /\ scan \in Nat /\ available \in Int
    /\ counted \in 0 .. Len(history) /\ used \in Nat
    /\ phase \in {"lore", "count", "build", "built"}

\* What the loop over the history has counted, and where it ended
Budget ==
    /\ available <= 0 => counted = 0
    /\ available > 0 => used <= available
    /\ phase \in {"lore", "count"} => start = 0
    /\ phase \in {"build", "built"} =>
        IF available <= 0 THEN start = 0
        ELSE /\ start = Len(history) - counted
             /\ counted < Len(history) => \E cost \in Costs : used + cost > available

Found == IF history = <<>> THEN {<<>>} ELSE Sorted(FindMatches(Scanned))

Chosen ==
    /\ phase # "lore" => lore \in Found
    /\ phase = "built" => body = Request

Inv == Typed /\ Budget /\ Chosen
-----------------------------------------------------------------------------
LEMMA NoteFacts ==
    ASSUME note \in Notes
    PROVE  /\ note.at \in {"none", "before", "after", "chat"}
           /\ note.depth \in Nat /\ note.role \in {"user", "system"}
BY PromptAssumption DEF Notes

LEMMA MaxFacts ==
    ASSUME NEW S \in SUBSET Int, \E most \in S : \A x \in S : x <= most
    PROVE  Max(S) \in S /\ \A x \in S : x <= Max(S)
<1>1. \E most \in S : \A x \in S : most >= x
    OBVIOUS
<1> QED
    BY <1>1 DEF Max

LEMMA Bounded ==
    ASSUME NEW S, NEW n \in Nat, NEW s \in BoundedSeq(S, n)
    PROVE  s \in Seq(S)
<1>1. PICK m \in 0 .. n : s \in [1 .. m -> S]
    BY DEF BoundedSeq, SeqOf
<1> QED
    BY <1>1

LEMMA InitInv == Init => Inv
<1> SUFFICES ASSUME Init PROVE Inv
    OBVIOUS
<1>1. /\ counted = 0 /\ used = 0 /\ start = 0 /\ phase = "lore" /\ Asked
    BY DEF Init
<1>2. NoNote \in Notes
    BY PromptAssumption DEF NoNote, Notes
<1>3. /\ backend \in Backends /\ history \in Seq(Spoken) /\ note \in Notes
      /\ book \in Seq(Lore) /\ scan \in Nat /\ available \in Int
    <2>1. CASE /\ backend \in Backends /\ available \in Available
               /\ history \in BoundedSeq([role : Roles, words : {{}}], MaxMessages)
               /\ note \in Notes /\ book = <<>> /\ scan = 1
        <3>1. history \in Seq([role : Roles, words : {{}}])
            BY <2>1, Bounded, PromptAssumption
        <3>2. [role : Roles, words : {{}}] \subseteq Spoken
            BY DEF Spoken
        <3>3. history \in Seq(Spoken)
            BY <3>1, <3>2, SeqMonotonic
        <3>4. book \in Seq(Lore)
            BY <2>1, EmptySeq
        <3> QED
            BY <2>1, <3>3, <3>4, PromptAssumption
    <2>2. CASE /\ backend = "openai" /\ available = Max(Available)
               /\ history \in BoundedSeq([role : {"user"}, words : SUBSET Words], 2)
               /\ note = NoNote /\ book \in Books /\ scan \in 0 .. 2
        <3>1. history \in Seq([role : {"user"}, words : SUBSET Words])
            BY <2>2, Bounded
        <3>2. [role : {"user"}, words : SUBSET Words] \subseteq Spoken
            BY DEF Spoken, Roles
        <3>3. history \in Seq(Spoken)
            BY <3>1, <3>2, SeqMonotonic
        <3>4. Max(Available) \in Int
            BY MaxFacts, PromptAssumption
        <3> QED
            BY <1>2, <2>2, <3>3, <3>4, PromptAssumption DEF Backends
    <2> QED
        BY <1>1, <2>1, <2>2 DEF Asked
<1>4. Len(history) \in Nat
    BY <1>3, LenProperties
<1>5. Typed
    BY <1>1, <1>3, <1>4 DEF Typed
<1> QED
    BY <1>1, <1>3, <1>5 DEF Inv, Budget, Chosen

\* What is asked for does not change, nor what lore is found by it.
LEMMA SameFound == UNCHANGED given => Found' = Found
BY DEF given, Found, Sorted, FindMatches, Matches, Scanned

LEMMA SameRequest == UNCHANGED <<given, start, lore>> => Request' = Request
<1> SUFFICES ASSUME UNCHANGED <<given, start, lore>> PROVE Request' = Request
    OBVIOUS
<1>1. /\ backend' = backend /\ history' = history /\ note' = note /\ extras' = extras
      /\ start' = start /\ lore' = lore
    BY DEF given
<1>2. Inject' = Inject /\ Note' = Note
    BY <1>1 DEF Inject, Note
<1>3. Sent' = Sent
    BY <1>1 DEF Sent, Message, RoleOf
<1>4. Messages' = Messages
    BY <1>1, <1>2, <1>3 DEF Messages
<1>5. SystemField' = SystemField /\ ChatHeader' = ChatHeader
    BY <1>1, <1>2 DEF SystemField, ChatHeader
<1>6. Examples' = Examples /\ Post("user")' = Post("user") /\ Post("system")' = Post("system")
    BY <1>1 DEF Examples, Post
<1> QED
    BY <1>1, <1>4, <1>5, <1>6 DEF Request, OpenAiRequest, KoboldRequest, AnthropicRequest

LEMMA StepInv == Inv /\ [Next]_promptVars => Inv'
<1> SUFFICES ASSUME Inv, [Next]_promptVars PROVE Inv'
    OBVIOUS
<1>1. Typed /\ Budget /\ Chosen /\ Len(history) \in Nat
    BY LenProperties DEF Inv, Typed
<1>2. UNCHANGED given
    BY DEF Next, BuildLore, Count, CountEnds, Build, promptVars, given
<1>3. UNCHANGED <<backend, history, note, extras, book, scan, available>> /\ Found' = Found
    BY <1>2, SameFound DEF given
<1>4. CASE BuildLore
    <2>1. phase = "lore" /\ phase' = "count" /\ lore' \in Found /\ UNCHANGED <<counted, used, start>>
        BY <1>4 DEF BuildLore, Found
    <2>2. Typed'
        BY <1>1, <1>3, <2>1 DEF Typed
    <2>3. Budget'
        BY <1>1, <1>3, <2>1 DEF Budget
    <2>4. Chosen'
        BY <1>3, <2>1 DEF Chosen
    <2> QED
        BY <2>2, <2>3, <2>4 DEF Inv
<1>5. CASE Count
    <2>1. PICK cost \in Costs :
            IF used + cost > available
            THEN /\ start' = Len(history) - counted /\ phase' = "build"
                 /\ UNCHANGED <<counted, used>>
            ELSE /\ counted' = counted + 1 /\ used' = used + cost
                 /\ UNCHANGED <<start, phase>>
        BY <1>5 DEF Count
    <2>2. /\ phase = "count" /\ available > 0 /\ counted < Len(history)
          /\ UNCHANGED <<lore, body>> /\ cost \in Nat
        BY <1>5, PromptAssumption DEF Count
    <2>3. Typed'
        BY <1>1, <1>3, <2>1, <2>2 DEF Typed
    <2>4. Budget'
        BY <1>1, <1>3, <2>1, <2>2 DEF Budget, Typed
    <2>5. Chosen'
        BY <1>1, <1>3, <2>1, <2>2 DEF Chosen
    <2> QED
        BY <2>3, <2>4, <2>5 DEF Inv
<1>6. CASE CountEnds
    <2>1. /\ phase = "count" /\ phase' = "build" /\ (available <= 0 \/ counted = Len(history))
          /\ UNCHANGED <<counted, used, start, lore, body>>
        BY <1>6 DEF CountEnds
    <2>2. Typed'
        BY <1>1, <1>3, <2>1 DEF Typed
    <2>3. Budget'
        BY <1>1, <1>3, <2>1 DEF Budget, Typed
    <2>4. Chosen'
        BY <1>1, <1>3, <2>1 DEF Chosen
    <2> QED
        BY <2>2, <2>3, <2>4 DEF Inv
<1>7. CASE Build
    <2>1. /\ phase = "build" /\ phase' = "built" /\ body' = Request
          /\ UNCHANGED <<counted, used, start, lore>>
        BY <1>7 DEF Build
    <2>2. body' = Request'
        BY <1>2, <2>1, SameRequest
    <2>3. Typed'
        BY <1>1, <1>3, <2>1 DEF Typed
    <2>4. Budget'
        BY <1>1, <1>3, <2>1 DEF Budget
    <2>5. Chosen'
        BY <1>1, <1>3, <2>1, <2>2 DEF Chosen
    <2> QED
        BY <2>3, <2>4, <2>5 DEF Inv
<1>8. CASE UNCHANGED promptVars
    <2>1. UNCHANGED <<counted, used, start, lore, body, phase>>
        BY <1>8 DEF promptVars
    <2>2. Request' = Request
        BY <1>2, <2>1, SameRequest
    <2> QED
        BY <1>1, <1>3, <2>1, <2>2 DEF Inv, Typed, Budget, Chosen
<1> QED
    BY <1>4, <1>5, <1>6, <1>7, <1>8 DEF Next

\* A request has the steps of the prompt, and others that leave it alone.
LEMMA RequestSafety == RequestSpec => []Inv
<1>1. RequestInit => Inv
    BY InitInv DEF RequestInit
<1>2. [RequestNext]_requestVars => [Next]_promptVars
    BY DEF RequestNext, requestVars
<1> QED
    BY <1>1, <1>2, StepInv, PTL DEF RequestSpec
-----------------------------------------------------------------------------
\* A sequence of a finite set's elements, each once, has all of them.
LEMMA AllOnce ==
    ASSUME NEW S, IsFiniteSet(S), NEW s \in SetToSeqs(S)
    PROVE  ToSet(s) = S /\ \A i, j \in DOMAIN s : i # j => s[i] # s[j]
<1> DEFINE n == Cardinality(S)
<1>1. n \in Nat
    BY FS_CardinalityType
<1>2. s \in [1 .. n -> S] /\ \A i, j \in 1 .. n : i # j => s[i] # s[j]
    BY DEF SetToSeqs
<1>3. Cardinality(1 .. n) = n
    BY <1>1, FS_Interval
<1> HIDE DEF n
<1>4. s \in Injection(1 .. n, S)
    BY <1>2 DEF Injection, IsInjective
<1>5. s \in Surjection(1 .. n, S)
    BY <1>3, <1>4, FS_Injection DEF n
<1>6. \A x \in S : \E k \in 1 .. n : s[k] = x
    BY <1>5 DEF Surjection
<1> QED
    BY <1>2, <1>6 DEF ToSet

\* A key of a set is among the scanned words when one of the last messages has it.
LEMMA ScannedWords ==
    ASSUME Typed, history # <<>>, NEW keys
    PROVE  keys \intersect Scanned # {}
            <=> \E k \in keys, m \in DOMAIN history : m > Len(history) - scan /\ k \in history[m].words
<1> DEFINE from == IF Len(history) - scan + 1 <= 1 THEN 1 ELSE Len(history) - scan + 1
<1>1. Len(history) \in Nat /\ scan \in Nat /\ DOMAIN history = 1 .. Len(history)
    BY LenProperties DEF Typed
<1>2. Len(history) - scan + 1 \in Int
    BY <1>1
<1>3. Max({1, Len(history) - scan + 1}) = from
    BY <1>2 DEF Max
<1>4. Scanned = UNION {history[i].words : i \in from .. Len(history)}
    BY <1>3 DEF Scanned
<1>5. \A m \in 1 .. Len(history) : m > Len(history) - scan <=> m \in from .. Len(history)
    BY <1>1
<1>6. from .. Len(history) \subseteq 1 .. Len(history)
    BY <1>1
<1> HIDE DEF from
<1> QED
    BY <1>1, <1>4, <1>5, <1>6

\* The lore in a request is of the entries that are on and found by the scanned
\* messages, each once and in order (lorebook_build_context and
\* lore_entry_matches).
THEOREM LoreFollows == RequestSpec => []LoreIsRelevant
<1>1. ASSUME Inv, phase # "lore"
      PROVE  /\ ToSet(lore) = {i \in DOMAIN book :
                    /\ history # <<>> /\ ~book[i].disabled
                    /\ book[i].constant
                       \/ \A keys \in {book[i].keys} \union Asks(book[i]) :
                            \E k \in keys, m \in DOMAIN history :
                                m > Len(history) - scan /\ k \in history[m].words}
             /\ \A i, j \in DOMAIN lore : i < j =>
                    lore[i] # lore[j] /\ book[lore[i]].order >= book[lore[j]].order
    <2>1. Typed /\ lore \in Found /\ book \in Seq(Lore) /\ DOMAIN book = 1 .. Len(book)
          /\ Len(book) \in Nat
        BY <1>1, LenProperties DEF Inv, Chosen, Typed
    <2>2. CASE history = <<>>
        <3>1. lore = <<>>
            BY <2>1, <2>2 DEF Found
        <3>2. ToSet(lore) = {} /\ DOMAIN lore = {}
            BY <3>1 DEF ToSet
        <3> QED
            BY <2>2, <3>2
    <2>3. CASE history # <<>>
        <3> DEFINE Says(keys) ==
                \E k \in keys, m \in DOMAIN history :
                    m > Len(history) - scan /\ k \in history[m].words
        <3>1. lore \in SetToSeqs(FindMatches(Scanned))
              /\ \A i, j \in DOMAIN lore : i < j => book[lore[i]].order >= book[lore[j]].order
            BY <2>1, <2>3 DEF Found, Sorted
        <3>2. FindMatches(Scanned) \subseteq 1 .. Len(book) /\ IsFiniteSet(1 .. Len(book))
            BY <2>1, FS_Interval DEF FindMatches
        <3>3. IsFiniteSet(FindMatches(Scanned))
            BY <3>2, FS_Subset
        <3>4. ToSet(lore) = FindMatches(Scanned)
              /\ \A i, j \in DOMAIN lore : i # j => lore[i] # lore[j]
            BY <3>1, <3>3, AllOnce
        <3>5. ASSUME NEW i \in DOMAIN book
              PROVE  Matches(book[i], Scanned) <=>
                        /\ ~book[i].disabled
                        /\ book[i].constant
                           \/ \A keys \in {book[i].keys} \union Asks(book[i]) :
                                Says(keys)
            <4>1. book[i] \in Lore
                BY <2>1, <3>5, ElementOfSeq
            <4>2. book[i].keys \intersect Scanned # {} <=> Says(book[i].keys)
                BY <2>1, <2>3, ScannedWords
            <4>3. book[i].secondary \intersect Scanned # {} <=> Says(book[i].secondary)
                BY <2>1, <2>3, ScannedWords
            <4> HIDE DEF Says
            <4> QED
                BY <4>1, <4>2, <4>3 DEF Matches, Asks, Lore
        <3> HIDE DEF Says
        <3>6. FindMatches(Scanned) = {i \in DOMAIN book :
                    /\ history # <<>> /\ ~book[i].disabled
                    /\ book[i].constant
                       \/ \A keys \in {book[i].keys} \union Asks(book[i]) : Says(keys)}
            BY <2>3, <3>5 DEF FindMatches
        <3>7. \A i, j \in DOMAIN lore : i < j => lore[i] # lore[j]
            <4>1. DOMAIN lore \subseteq Int
                BY <3>1, <3>3, FS_CardinalityType DEF SetToSeqs
            <4> QED
                BY <3>4, <4>1
        <3> QED
            BY <3>1, <3>4, <3>6, <3>7 DEF Says
    <2> QED
        BY <2>2, <2>3
<1>2. Inv => LoreIsRelevant
    BY <1>1 DEF LoreIsRelevant
<1> QED
    BY <1>2, RequestSafety, PTL
-----------------------------------------------------------------------------
Kinds == {"note", "system", "lore", "example", "message", "post"}
Speakers == Roles \union {"field"}
Item == [kind : Kinds, role : Speakers] \union [kind : {"message"}, role : Speakers, index : Nat]

One(there) == IF there THEN 1 ELSE 0

LEMMA Items ==
    /\ \A kind \in Kinds, role \in Speakers :
            [kind |-> kind, role |-> role] \in Item /\ [kind |-> kind, role |-> role].kind = kind
    /\ \A role \in Speakers, i \in Nat : [kind |-> "message", role |-> role, index |-> i] \in Item
BY DEF Item

LEMMA OneItem ==
    ASSUME NEW there \in BOOLEAN, NEW x \in Item
    PROVE  /\ If(there, x) \in Seq(Item) /\ Len(If(there, x)) = One(there)
           /\ there => If(there, x)[1] = x
BY DEF If, One

\* The places of two sequences in their concatenation
LEMMA Joined ==
    ASSUME NEW s \in Seq(Item), NEW t \in Seq(Item)
    PROVE  /\ s \o t \in Seq(Item) /\ Len(s \o t) = Len(s) + Len(t)
           /\ \A k \in 1 .. Len(s) + Len(t) :
                IF k <= Len(s) THEN (s \o t)[k] = s[k]
                ELSE k - Len(s) \in 1 .. Len(t) /\ (s \o t)[k] = t[k - Len(s)]
<1>1. Len(s) \in Nat /\ Len(t) \in Nat
    BY LenProperties
<1>2. /\ s \o t \in Seq(Item) /\ Len(s \o t) = Len(s) + Len(t)
      /\ \A k \in 1 .. Len(s) + Len(t) : (s \o t)[k] = IF k <= Len(s) THEN s[k] ELSE t[k - Len(s)]
    BY ConcatProperties
<1> QED
    BY <1>1, <1>2

\* The three sequences of a request
LEMMA ThreeParts ==
    ASSUME NEW s \in Seq(Item), NEW t \in Seq(Item), NEW u \in Seq(Item)
    PROVE  /\ s \o t \o u \in Seq(Item) /\ Len(s \o t \o u) = Len(s) + Len(t) + Len(u)
           /\ \A k \in 1 .. Len(s) : (s \o t \o u)[k] = s[k]
           /\ \A k \in 1 .. Len(t) : (s \o t \o u)[Len(s) + k] = t[k]
           /\ \A k \in 1 .. Len(u) : (s \o t \o u)[Len(s) + Len(t) + k] = u[k]
<1> DEFINE st == s \o t
           all == st \o u
<1>1. Len(s) \in Nat /\ Len(t) \in Nat /\ Len(u) \in Nat
    BY LenProperties
<1>2. /\ st \in Seq(Item) /\ Len(st) = Len(s) + Len(t)
      /\ \A k \in 1 .. Len(s) + Len(t) : st[k] = IF k <= Len(s) THEN s[k] ELSE t[k - Len(s)]
    BY ConcatProperties
<1> HIDE DEF st
<1> st \in Seq(Item)
    BY <1>2
<1>3. /\ all \in Seq(Item) /\ Len(all) = Len(st) + Len(u)
      /\ \A k \in 1 .. Len(st) + Len(u) : all[k] = IF k <= Len(st) THEN st[k] ELSE u[k - Len(st)]
    BY ConcatProperties
<1> HIDE DEF all
<1>4. \A k \in 1 .. Len(s) : all[k] = s[k]
    BY <1>1, <1>2, <1>3
<1>5. \A k \in 1 .. Len(t) : all[Len(s) + k] = t[k]
    BY <1>1, <1>2, <1>3
<1>6. ASSUME NEW k \in 1 .. Len(u)
      PROVE  all[Len(s) + Len(t) + k] = u[k]
    <2>1. Len(st) + k \in 1 .. Len(st) + Len(u) /\ ~(Len(st) + k <= Len(st)) /\ Len(st) + k - Len(st) = k
        BY <1>1, <1>2
    <2>2. all[Len(st) + k] = u[k]
        BY <1>3, <2>1
    <2> QED
        BY <1>2, <2>2
<1> QED
    BY <1>1, <1>2, <1>3, <1>4, <1>5, <1>6 DEF all, st

\* What comes in front of the messages, and what behind
Before == IF backend = "anthropic" THEN SystemField \o Examples ELSE ChatHeader \o Examples
Behind == Post(IF backend = "anthropic" THEN "user" ELSE "system")

\* The note is among the messages.
Noted == Inject \in start .. Len(history) - 1

\* The place of message i in the request, and that of a note among the messages
PlaceOf(i) == Len(Before) + i - start + One(Noted /\ i > Inject)
NotePlace == Len(Before) + Inject - start + 1
Ends == Len(Before) + Len(history) - start + One(Noted)

LEMMA BeforeShape ==
    ASSUME Typed
    PROVE  LET a == One(note.at = "before")
               b == a + One("system" \in extras)
               c == b + One(lore # <<>>)
               d == c + One(note.at = "after")
           IN  /\ Before \in Seq(Item) /\ Len(Before) = d + One("examples" \in extras)
               /\ \A k \in 1 .. Len(Before) :
                    Before[k].kind = IF k <= a THEN "note" ELSE IF k <= b THEN "system"
                                     ELSE IF k <= c THEN "lore" ELSE IF k <= d THEN "note"
                                     ELSE "example"
<1> DEFINE role == IF backend = "anthropic" THEN "field" ELSE "system"
           item == IF backend = "anthropic" THEN [kind |-> "note", role |-> "field"] ELSE Note
           p == If(note.at = "before", item)
           q == If("system" \in extras, [kind |-> "system", role |-> role])
           r == If(lore # <<>>, [kind |-> "lore", role |-> role])
           s == If(note.at = "after", item)
           t == If("examples" \in extras, [kind |-> "example", role |-> "user"])
<1>1. item \in Item /\ item.kind = "note"
    BY NoteFacts, Items DEF Typed, Note, Kinds, Speakers, Roles
<1>2. Before = p \o q \o r \o s \o t
    <2>1. CASE backend = "anthropic"
        BY <2>1 DEF Before, SystemField, Examples
    <2>2. CASE backend # "anthropic"
        BY <2>2 DEF Before, ChatHeader, Examples
    <2> QED
        BY <2>1, <2>2
<1> HIDE DEF item
<1>3. /\ p \in Seq(Item) /\ Len(p) = One(note.at = "before")
      /\ \A k \in 1 .. Len(p) : p[k].kind = "note"
    BY <1>1 DEF If, One
<1>4. /\ q \in Seq(Item) /\ Len(q) = One("system" \in extras)
      /\ \A k \in 1 .. Len(q) : q[k].kind = "system"
    BY Items DEF If, One, Kinds, Speakers, Roles
<1>5. /\ r \in Seq(Item) /\ Len(r) = One(lore # <<>>)
      /\ \A k \in 1 .. Len(r) : r[k].kind = "lore"
    BY Items DEF If, One, Kinds, Speakers, Roles
<1>6. /\ s \in Seq(Item) /\ Len(s) = One(note.at = "after")
      /\ \A k \in 1 .. Len(s) : s[k].kind = "note"
    BY <1>1 DEF If, One
<1>7. /\ t \in Seq(Item) /\ Len(t) = One("examples" \in extras)
      /\ \A k \in 1 .. Len(t) : t[k].kind = "example"
    BY Items DEF If, One, Kinds, Speakers, Roles
<1> DEFINE pq == p \o q
           pqr == pq \o r
           pqrs == pqr \o s
           all == pqrs \o t
<1>8. Before = all
    BY <1>2
<1> HIDE DEF p, q, r, s, t
<1>9. /\ pq \in Seq(Item) /\ Len(pq) = Len(p) + Len(q)
      /\ \A k \in 1 .. Len(p) + Len(q) :
            pq[k].kind = IF k <= Len(p) THEN p[k].kind ELSE "system"
    <2>1. p \in Seq(Item) /\ q \in Seq(Item)
        BY <1>3, <1>4
    <2>2. /\ pq \in Seq(Item) /\ Len(pq) = Len(p) + Len(q)
          /\ \A k \in 1 .. Len(p) + Len(q) :
                IF k <= Len(p) THEN pq[k] = p[k]
                ELSE k - Len(p) \in 1 .. Len(q) /\ pq[k] = q[k - Len(p)]
        BY <2>1, Joined
    <2> HIDE DEF pq
    <2> QED
        BY <2>2, <1>4
<1> HIDE DEF pq
<1>10. /\ pqr \in Seq(Item) /\ Len(pqr) = Len(pq) + Len(r)
      /\ \A k \in 1 .. Len(pq) + Len(r) :
            pqr[k].kind = IF k <= Len(pq) THEN pq[k].kind ELSE "lore"
    <2>1. pq \in Seq(Item) /\ r \in Seq(Item)
        BY <1>9, <1>5
    <2>2. /\ pqr \in Seq(Item) /\ Len(pqr) = Len(pq) + Len(r)
          /\ \A k \in 1 .. Len(pq) + Len(r) :
                IF k <= Len(pq) THEN pqr[k] = pq[k]
                ELSE k - Len(pq) \in 1 .. Len(r) /\ pqr[k] = r[k - Len(pq)]
        BY <2>1, Joined
    <2> HIDE DEF pqr
    <2> QED
        BY <2>2, <1>5
<1> HIDE DEF pqr
<1>11. /\ pqrs \in Seq(Item) /\ Len(pqrs) = Len(pqr) + Len(s)
      /\ \A k \in 1 .. Len(pqr) + Len(s) :
            pqrs[k].kind = IF k <= Len(pqr) THEN pqr[k].kind ELSE "note"
    <2>1. pqr \in Seq(Item) /\ s \in Seq(Item)
        BY <1>10, <1>6
    <2>2. /\ pqrs \in Seq(Item) /\ Len(pqrs) = Len(pqr) + Len(s)
          /\ \A k \in 1 .. Len(pqr) + Len(s) :
                IF k <= Len(pqr) THEN pqrs[k] = pqr[k]
                ELSE k - Len(pqr) \in 1 .. Len(s) /\ pqrs[k] = s[k - Len(pqr)]
        BY <2>1, Joined
    <2> HIDE DEF pqrs
    <2> QED
        BY <2>2, <1>6
<1> HIDE DEF pqrs
<1>12. /\ all \in Seq(Item) /\ Len(all) = Len(pqrs) + Len(t)
      /\ \A k \in 1 .. Len(pqrs) + Len(t) :
            all[k].kind = IF k <= Len(pqrs) THEN pqrs[k].kind ELSE "example"
    <2>1. pqrs \in Seq(Item) /\ t \in Seq(Item)
        BY <1>11, <1>7
    <2>2. /\ all \in Seq(Item) /\ Len(all) = Len(pqrs) + Len(t)
          /\ \A k \in 1 .. Len(pqrs) + Len(t) :
                IF k <= Len(pqrs) THEN all[k] = pqrs[k]
                ELSE k - Len(pqrs) \in 1 .. Len(t) /\ all[k] = t[k - Len(pqrs)]
        BY <2>1, Joined
    <2> HIDE DEF all
    <2> QED
        BY <2>2, <1>7
<1> HIDE DEF all
<1>13. /\ One(note.at = "before") \in 0 .. 1 /\ One("system" \in extras) \in 0 .. 1
       /\ One(lore # <<>>) \in 0 .. 1 /\ One(note.at = "after") \in 0 .. 1
       /\ One("examples" \in extras) \in 0 .. 1
    BY DEF One
<1> DEFINE a == One(note.at = "before")
           b == a + One("system" \in extras)
           c == b + One(lore # <<>>)
           d == c + One(note.at = "after")
           e == d + One("examples" \in extras)
<1>14. /\ a \in Nat /\ b \in Nat /\ c \in Nat /\ d \in Nat /\ e \in Nat
       /\ a <= b /\ b <= c /\ c <= d /\ d <= e
    BY <1>13
<1>15. /\ Len(p) = a /\ Len(pq) = b /\ Len(pqr) = c /\ Len(pqrs) = d /\ Len(all) = e
       /\ Len(p) + Len(q) = b /\ Len(pq) + Len(r) = c /\ Len(pqr) + Len(s) = d
       /\ Len(pqrs) + Len(t) = e
    BY <1>3, <1>4, <1>5, <1>6, <1>7, <1>9, <1>10, <1>11, <1>12
<1> HIDE DEF a, b, c, d, e
<1>16. ASSUME NEW k \in 1 .. e
       PROVE  all[k].kind = IF k <= a THEN "note" ELSE IF k <= b THEN "system"
                            ELSE IF k <= c THEN "lore" ELSE IF k <= d THEN "note"
                            ELSE "example"
    <2>1. k <= a => p[k].kind = "note"
        <3>1. k <= a => k \in 1 .. Len(p)
            BY <1>14, <1>15, <1>16
        <3> QED
            BY <1>3, <3>1
    <2>2. k <= b => pq[k].kind = IF k <= a THEN p[k].kind ELSE "system"
        BY <1>9, <1>14, <1>15, <1>16
    <2>3. k <= c => pqr[k].kind = IF k <= b THEN pq[k].kind ELSE "lore"
        BY <1>10, <1>14, <1>15, <1>16
    <2>4. k <= d => pqrs[k].kind = IF k <= c THEN pqr[k].kind ELSE "note"
        BY <1>11, <1>14, <1>15, <1>16
    <2>5. all[k].kind = IF k <= d THEN pqrs[k].kind ELSE "example"
        BY <1>12, <1>14, <1>15, <1>16
    <2> QED
        BY <1>14, <1>16, <2>1, <2>2, <2>3, <2>4, <2>5
<1> QED
    BY <1>8, <1>12, <1>15, <1>16 DEF a, b, c, d, e

LEMMA BehindShape == Behind \in Seq(Item) /\ \A k \in 1 .. Len(Behind) : Behind[k].kind = "post"
<1> DEFINE role == IF backend = "anthropic" THEN "user" ELSE "system"
           post == [kind |-> "post", role |-> role]
<1>1. post \in Item /\ post.kind = "post"
    BY Items DEF Kinds, Speakers, Roles
<1>2. Behind = If("post" \in extras, post)
    BY DEF Behind, Post
<1> DEFINE there == "post" \in extras
<1>3. there \in BOOLEAN
    OBVIOUS
<1>4. Behind = If(there, post)
    BY <1>2
<1> HIDE DEF post, there
<1>5. /\ Behind \in Seq(Item) /\ Len(Behind) = One(there)
      /\ there => Behind[1] = post
    BY <1>1, <1>3, <1>4, OneItem
<1> QED
    BY <1>1, <1>5 DEF One

LEMMA InjectFacts ==
    ASSUME Typed, start \in 0 .. Len(history)
    PROVE  /\ Len(history) \in Nat /\ Inject \in Int
           /\ note.at # "chat" => ~Noted
           /\ note.at = "chat" => IF note.depth < Len(history)
                                  THEN Noted <=> note.depth > 0 /\ Len(history) - note.depth >= start
                                  ELSE Noted <=> start < Len(history)
           /\ Noted => Inject = IF note.depth < Len(history) THEN Len(history) - note.depth ELSE start
<1>1. Len(history) \in Nat /\ note.depth \in Nat /\ (history = <<>> <=> Len(history) = 0)
    BY NoteFacts, LenProperties, EmptySeq DEF Typed
<1> QED
    BY <1>1 DEF Inject, Noted

\* The loop over the messages: each at its place, the note in front of its own
LEMMA MessagesShape ==
    ASSUME Typed, start \in 0 .. Len(history)
    PROVE  /\ Messages \in Seq(Item) /\ Len(Messages) = Len(history) - start + One(Noted)
           /\ \A i \in start + 1 .. Len(history) :
                Messages[i - start + One(Noted /\ i > Inject)] = Message(i)
           /\ Noted => Messages[Inject - start + 1] = Note
<1>1. Len(history) \in Nat /\ Inject \in Int /\ start \in Nat /\ start <= Len(history)
    BY InjectFacts
<1>2. ASSUME NEW i \in 1 .. Len(history)
      PROVE  Message(i) \in Item
    <2>1. history[i] \in Spoken
        BY <1>2, ElementOfSeq DEF Typed
    <2>2. RoleOf(i) \in Speakers
        BY <2>1 DEF RoleOf, Spoken, Roles, Speakers
    <2>3. i \in Nat
        BY <1>1, <1>2
    <2> QED
        BY <2>2, <2>3, Items DEF Message
<1>3. Note \in Item
    BY NoteFacts, Items DEF Typed, Note, Kinds, Speakers, Roles
<1>4. /\ Sent \in Seq(Item) /\ Len(Sent) = Len(history) - start
      /\ \A k \in 1 .. Len(history) - start : Sent[k] = Message(start + k)
    <2> DEFINE n == Len(history) - start
    <2>1. Sent \in [1 .. n -> Item] /\ \A k \in 1 .. n : Sent[k] = Message(start + k)
        BY <1>1, <1>2 DEF Sent
    <2>2. n \in Nat
        BY <1>1
    <2> HIDE DEF n
    <2>3. Sent \in Seq(Item) /\ Len(Sent) = n
        BY <2>1, <2>2
    <2> QED
        BY <2>1, <2>3 DEF n
<1>5. CASE ~Noted
    <2>1. Messages = Sent
        BY <1>5 DEF Messages, Noted
    <2>2. ASSUME NEW i \in start + 1 .. Len(history)
          PROVE  Messages[i - start] = Message(i)
        <3>1. i - start \in 1 .. Len(history) - start /\ start + (i - start) = i
            BY <1>1, <2>2
        <3> QED
            BY <1>4, <2>1, <3>1
    <2>3. \A i \in start + 1 .. Len(history) : i - start + 0 = i - start
        BY <1>1
    <2> QED
        BY <1>1, <1>4, <1>5, <2>1, <2>2, <2>3 DEF One
<1>6. CASE Noted
    <2> DEFINE p == Inject - start + 1
               s == SubSeq(Sent, 1, p - 1)
               t == <<Note>>
               u == SubSeq(Sent, p, Len(Sent))
    <2>1. p \in 1 .. Len(history) - start /\ p - 1 \in Int
        BY <1>1, <1>6 DEF Noted
    <2>2. \A k \in 1 .. Len(Sent) : Sent[k] \in Item
        BY <1>4, ElementOfSeq
    <2>3. /\ s \in Seq(Item) /\ Len(s) = p - 1
          /\ \A k \in 1 .. p - 1 : s[k] = Sent[k]
        <3>1. \A k \in 1 .. p - 1 : Sent[k] \in Item
            BY <1>1, <1>4, <2>1, <2>2
        <3> HIDE DEF p
        <3> QED
            BY <2>1, <3>1, SubSeqProperties
    <2>4. /\ u \in Seq(Item) /\ Len(u) = Len(Sent) - p + 1
          /\ \A k \in 1 .. Len(Sent) - p + 1 : u[k] = Sent[p + k - 1]
        <3>1. \A k \in p .. Len(Sent) : Sent[k] \in Item
            BY <1>1, <1>4, <2>1, <2>2
        <3>2. Len(Sent) \in Int /\ p <= Len(Sent) /\ p \in Int
            BY <1>1, <1>4, <2>1
        <3> HIDE DEF p
        <3> QED
            BY <3>1, <3>2, SubSeqProperties
    <2>5. t \in Seq(Item) /\ Len(t) = 1 /\ t[1] = Note
        BY <1>3
    <2>6. Messages = s \o t \o u
        BY <1>6 DEF Messages, Noted, InsertAt
    <2> HIDE DEF p, s, t, u
    <2>7. /\ Messages \in Seq(Item) /\ Len(Messages) = Len(s) + Len(t) + Len(u)
          /\ \A k \in 1 .. Len(s) : Messages[k] = s[k]
          /\ \A k \in 1 .. Len(t) : Messages[Len(s) + k] = t[k]
          /\ \A k \in 1 .. Len(u) : Messages[Len(s) + Len(t) + k] = u[k]
        <3>1. s \in Seq(Item) /\ t \in Seq(Item) /\ u \in Seq(Item)
            BY <2>3, <2>4, <2>5
        <3>2. /\ s \o t \o u \in Seq(Item) /\ Len(s \o t \o u) = Len(s) + Len(t) + Len(u)
              /\ \A k \in 1 .. Len(s) : (s \o t \o u)[k] = s[k]
              /\ \A k \in 1 .. Len(t) : (s \o t \o u)[Len(s) + k] = t[k]
              /\ \A k \in 1 .. Len(u) : (s \o t \o u)[Len(s) + Len(t) + k] = u[k]
            BY <3>1, ThreeParts
        <3> QED
            BY <2>6, <3>2
    <2>8. Len(Messages) = Len(history) - start + 1 /\ Messages[p] = Note
        <3>1. Len(s) + 1 = p /\ 1 \in 1 .. Len(t)
            BY <1>1, <2>1, <2>3, <2>5
        <3>2. Messages[Len(s) + 1] = t[1]
            BY <2>7, <3>1
        <3>3. Messages[p] = Note
            BY <2>5, <3>1, <3>2
        <3>4. Len(Messages) = (p - 1) + 1 + (Len(history) - start - p + 1)
            BY <1>4, <2>3, <2>4, <2>5, <2>7
        <3>5. (p - 1) + 1 + (Len(history) - start - p + 1) = Len(history) - start + 1
            BY <1>1, <2>1
        <3> QED
            BY <3>3, <3>4, <3>5
    <2>9. ASSUME NEW i \in start + 1 .. Len(history), i <= Inject
          PROVE  Messages[i - start] = Message(i)
        <3>1. i - start \in 1 .. p - 1 /\ i - start \in 1 .. Len(history) - start
              /\ start + (i - start) = i
            BY <1>1, <2>9 DEF p
        <3> QED
            BY <1>4, <2>3, <2>7, <3>1
    <2>10. ASSUME NEW i \in start + 1 .. Len(history), i > Inject
           PROVE  Messages[i - start + 1] = Message(i)
        <3> DEFINE k == i - start - p + 1
        <3>1. /\ k \in 1 .. Len(Sent) - p + 1 /\ p + k - 1 = i - start
              /\ i - start \in 1 .. Len(history) - start /\ start + (i - start) = i
              /\ Len(s) + Len(t) + k = i - start + 1
            <4>1. Len(Sent) = Len(history) - start /\ Len(s) = p - 1 /\ Len(t) = 1
                BY <1>4, <2>3, <2>5
            <4>2. p = Inject - start + 1
                BY DEF p
            <4>3. i \in Int /\ start + 1 <= i /\ i <= Len(history) /\ i > Inject
                BY <1>1, <2>10
            <4> QED
                BY <1>1, <2>1, <4>1, <4>2, <4>3
        <3> HIDE DEF k
        <3>2. u[k] = Message(i)
            BY <1>4, <2>4, <3>1
        <3>3. Messages[Len(s) + Len(t) + k] = u[k]
            BY <2>4, <2>7, <3>1
        <3> QED
            BY <3>1, <3>2, <3>3
    <2>11. ASSUME NEW i \in start + 1 .. Len(history)
           PROVE  Messages[i - start + One(Noted /\ i > Inject)] = Message(i)
        <3>1. CASE i <= Inject
            <4>1. One(Noted /\ i > Inject) = 0 /\ i - start + 0 = i - start
                BY <1>1, <3>1 DEF One
            <4> QED
                BY <2>9, <3>1, <4>1
        <3>2. CASE i > Inject
            <4>1. One(Noted /\ i > Inject) = 1
                BY <1>6, <3>2 DEF One
            <4> QED
                BY <2>10, <3>2, <4>1
        <3> QED
            BY <1>1, <3>1, <3>2
    <2> QED
        BY <1>6, <2>7, <2>8, <2>11 DEF p, One
<1> QED
    BY <1>5, <1>6
-----------------------------------------------------------------------------
LEMMA RequestParts ==
    ASSUME Typed
    PROVE  Request = Before \o Messages \o Behind
<1>1. CASE backend = "openai"
    BY <1>1 DEF Request, OpenAiRequest, Before, Behind
<1>2. CASE backend = "kobold"
    BY <1>2 DEF Request, KoboldRequest, Before, Behind
<1>3. CASE backend = "anthropic"
    BY <1>3 DEF Request, AnthropicRequest, Before, Behind
<1> QED
    BY <1>1, <1>2, <1>3 DEF Typed, Backends

\* Where everything is in a request
LEMMA BodyShape ==
    ASSUME Typed, start \in 0 .. Len(history), body = Request
    PROVE  /\ Len(Before) \in Nat /\ Ends \in Nat /\ Len(Behind) \in Nat
           /\ DOMAIN body = 1 .. Ends + Len(Behind) /\ Len(Before) <= Ends
           /\ \A k \in 1 .. Len(Before) : body[k] = Before[k]
           /\ \A i \in start + 1 .. Len(history) :
                PlaceOf(i) \in Len(Before) + 1 .. Ends /\ body[PlaceOf(i)] = Message(i)
           /\ Noted => NotePlace \in Len(Before) + 1 .. Ends /\ body[NotePlace] = Note
           /\ \A k \in Ends + 1 .. Ends + Len(Behind) : body[k].kind = "post"
           /\ \A k \in Len(Before) + 1 .. Ends :
                \/ Noted /\ k = NotePlace
                \/ \E i \in start + 1 .. Len(history) : k = PlaceOf(i)
<1>1. /\ Len(history) \in Nat /\ Inject \in Int /\ start \in Nat /\ start <= Len(history)
      /\ Noted => start <= Inject /\ Inject <= Len(history) - 1
    BY InjectFacts DEF Noted
<1>2. /\ Before \in Seq(Item) /\ Behind \in Seq(Item) /\ Messages \in Seq(Item)
      /\ Len(Before) \in Nat /\ Len(Behind) \in Nat /\ Len(Messages) \in Nat
    BY BeforeShape, BehindShape, MessagesShape, LenProperties
<1>3. /\ Len(Messages) = Len(history) - start + One(Noted)
      /\ \A i \in start + 1 .. Len(history) :
            Messages[i - start + One(Noted /\ i > Inject)] = Message(i)
      /\ Noted => Messages[Inject - start + 1] = Note
    BY MessagesShape
<1>4. One(Noted) \in 0 .. 1 /\ (Noted => One(Noted) = 1) /\ (~Noted => One(Noted) = 0)
    BY DEF One
<1>5. \A i : One(Noted /\ i > Inject) = IF Noted /\ i > Inject THEN 1 ELSE 0
    BY DEF One
<1>6. Ends = Len(Before) + Len(Messages) /\ Ends \in Nat
    <2> DEFINE n == Len(history)
               m == Len(Messages)
               b == Len(Before)
               o == One(Noted)
    <2>1. n \in Nat /\ m \in Nat /\ b \in Nat /\ o \in Int /\ start \in Nat /\ m = n - start + o
        BY <1>1, <1>2, <1>3, <1>4
    <2>2. Ends = b + n - start + o
        BY DEF Ends
    <2> HIDE DEF n, m, b, o
    <2>3. Ends = b + m /\ Ends \in Nat
        BY <2>1, <2>2
    <2> QED
        BY <2>3 DEF b, m
<1>7. /\ body \in Seq(Item) /\ Len(body) = Len(Before) + Len(Messages) + Len(Behind)
      /\ \A k \in 1 .. Len(Before) : body[k] = Before[k]
      /\ \A k \in 1 .. Len(Messages) : body[Len(Before) + k] = Messages[k]
      /\ \A k \in 1 .. Len(Behind) : body[Len(Before) + Len(Messages) + k] = Behind[k]
    <2>1. body = Before \o Messages \o Behind
        BY RequestParts
    <2> QED
        BY <1>2, <2>1, ThreeParts
<1>8. DOMAIN body = 1 .. Ends + Len(Behind)
    BY <1>6, <1>7, LenProperties
<1>9. ASSUME NEW i \in start + 1 .. Len(history)
      PROVE  PlaceOf(i) \in Len(Before) + 1 .. Ends /\ body[PlaceOf(i)] = Message(i)
    <2> DEFINE k == i - start + One(Noted /\ i > Inject)
    <2>1. k \in 1 .. Len(Messages)
        <3>1. CASE Noted /\ i > Inject
            <4>1. k = i - start + 1
                BY <1>5, <3>1
            <4> HIDE DEF k
            <4>2. Len(Messages) = Len(history) - start + 1
                BY <1>3, <1>4, <3>1
            <4> QED
                BY <1>1, <1>9, <4>1, <4>2
        <3>2. CASE ~(Noted /\ i > Inject)
            <4>1. k = i - start + 0
                BY <1>5, <3>2
            <4> HIDE DEF k
            <4>2. k = i - start /\ k \in 1 .. Len(history) - start
                BY <1>1, <1>9, <4>1
            <4> QED
                BY <1>1, <1>3, <1>4, <4>2
        <3> QED
            BY <3>1, <3>2
    <2>2. PlaceOf(i) = Len(Before) + k
        <3> DEFINE o == One(Noted /\ i > Inject)
        <3>1. o \in Int /\ k = i - start + o /\ PlaceOf(i) = Len(Before) + i - start + o
            BY <1>5 DEF PlaceOf
        <3> HIDE DEF o, k
        <3> QED
            BY <1>1, <1>2, <1>9, <3>1
    <2>3. Messages[k] = Message(i)
        BY <1>3, <1>9
    <2> HIDE DEF k
    <2> QED
        BY <1>2, <1>6, <1>7, <2>1, <2>2, <2>3
<1>10. ASSUME Noted
       PROVE  NotePlace \in Len(Before) + 1 .. Ends /\ body[NotePlace] = Note
    <2> DEFINE p == Inject - start + 1
    <2>0. Len(Messages) = Len(history) - start + 1
        BY <1>3, <1>4, <1>10
    <2>1. p \in 1 .. Len(Messages) /\ NotePlace = Len(Before) + p
        BY <1>1, <1>2, <1>10, <2>0 DEF NotePlace
    <2>2. Messages[p] = Note
        BY <1>3, <1>10
    <2> HIDE DEF p
    <2>3. body[Len(Before) + p] = Messages[p]
        BY <1>7, <2>1
    <2> QED
        BY <1>2, <1>6, <2>1, <2>2, <2>3
<1>11. ASSUME NEW k \in Ends + 1 .. Ends + Len(Behind)
       PROVE  body[k].kind = "post"
    <2>1. k - Ends \in 1 .. Len(Behind) /\ Len(Before) + Len(Messages) + (k - Ends) = k
        BY <1>2, <1>6, <1>11
    <2>2. body[k] = Behind[k - Ends]
        BY <1>7, <2>1
    <2> QED
        BY <2>1, <2>2, BehindShape
<1>12. ASSUME NEW k \in Len(Before) + 1 .. Ends, ~(Noted /\ k = NotePlace)
       PROVE  \E i \in start + 1 .. Len(history) : k = PlaceOf(i)
    <2> DEFINE j == k - Len(Before) + start
    <2>1. j \in Int /\ j >= start + 1 /\ j <= Len(history) + One(Noted)
        BY <1>1, <1>2, <1>4, <1>12 DEF Ends
    <2>2. k = Len(Before) + j - start
        BY <1>1, <1>2, <1>12
    <2> HIDE DEF j
    <2>3. CASE Noted /\ j > Inject
        <3>1. j # Inject + 1
            BY <1>1, <1>2, <1>12, <2>2, <2>3 DEF NotePlace
        <3>2. One(Noted) = 1
            BY <1>4, <2>3
        <3>3. j <= Len(history) + 1 /\ start <= Inject
            BY <1>1, <2>1, <2>3, <3>2
        <3>4. j - 1 \in start + 1 .. Len(history) /\ j - 1 > Inject
            BY <1>1, <2>1, <2>3, <3>1, <3>3
        <3>5. PlaceOf(j - 1) = Len(Before) + (j - 1) - start + 1
            BY <1>5, <2>3, <3>4 DEF PlaceOf
        <3>6. PlaceOf(j - 1) = k
            BY <1>1, <1>2, <2>1, <2>2, <3>5
        <3> QED
            BY <3>4, <3>6
    <2>4. CASE ~(Noted /\ j > Inject)
        <3>1. j \in start + 1 .. Len(history)
            BY <1>1, <1>4, <2>1, <2>4
        <3>2. PlaceOf(j) = Len(Before) + j - start + 0
            BY <1>5, <2>4 DEF PlaceOf
        <3>3. PlaceOf(j) = k
            BY <1>1, <1>2, <2>1, <2>2, <3>2
        <3> QED
            BY <3>1, <3>3
    <2> QED
        BY <2>3, <2>4
<1> QED
    BY <1>2, <1>6, <1>7, <1>8, <1>9, <1>10, <1>11, <1>12

\* The places of the messages and of the note
LEMMA KindPlaces ==
    ASSUME Typed, start \in 0 .. Len(history), body = Request
    PROVE  /\ Places("message") = {PlaceOf(i) : i \in start + 1 .. Len(history)}
           /\ Places("note") = {k \in 1 .. Len(Before) : Before[k].kind = "note"}
                                \union (IF Noted THEN {NotePlace} ELSE {})
           /\ \A kind \in {"system", "lore", "example"} :
                Places(kind) = {k \in 1 .. Len(Before) : Before[k].kind = kind}
<1>1. /\ Len(Before) \in Nat /\ Ends \in Nat /\ Len(Behind) \in Nat
      /\ DOMAIN body = 1 .. Ends + Len(Behind) /\ Len(Before) <= Ends
      /\ \A k \in 1 .. Len(Before) : body[k] = Before[k]
      /\ \A i \in start + 1 .. Len(history) :
            PlaceOf(i) \in Len(Before) + 1 .. Ends /\ body[PlaceOf(i)] = Message(i)
      /\ Noted => NotePlace \in Len(Before) + 1 .. Ends /\ body[NotePlace] = Note
      /\ \A k \in Ends + 1 .. Ends + Len(Behind) : body[k].kind = "post"
      /\ \A k \in Len(Before) + 1 .. Ends :
            \/ Noted /\ k = NotePlace
            \/ \E i \in start + 1 .. Len(history) : k = PlaceOf(i)
    BY BodyShape
<1>2. Note.kind = "note" /\ \A i : Message(i).kind = "message"
    BY DEF Note, Message
<1>3. \A k \in 1 .. Len(Before) : Before[k].kind \in {"note", "system", "lore", "example"}
    BY BeforeShape
<1>4. ASSUME NEW k \in DOMAIN body
      PROVE  \/ k \in 1 .. Len(Before)
             \/ k \in Len(Before) + 1 .. Ends
             \/ k \in Ends + 1 .. Ends + Len(Behind)
    BY <1>1, <1>4
<1>5. \A i \in start + 1 .. Len(history) : PlaceOf(i) \in Places("message")
    <2>1. Len(Before) + 1 .. Ends \subseteq DOMAIN body
        BY <1>1
    <2> QED
        BY <1>1, <1>2, <2>1 DEF Places
<1>6. Places("message") = {PlaceOf(i) : i \in start + 1 .. Len(history)}
    <2>1. ASSUME NEW k \in Places("message")
          PROVE  \E i \in start + 1 .. Len(history) : k = PlaceOf(i)
        <3>1. k \in DOMAIN body /\ body[k].kind = "message"
            BY <2>1 DEF Places
        <3>2. k \in Len(Before) + 1 .. Ends
            BY <1>1, <1>3, <1>4, <3>1
        <3> QED
            BY <1>1, <1>2, <3>1, <3>2
    <2> QED
        BY <1>5, <2>1
<1>7. Noted => NotePlace \in Places("note")
    <2>1. Len(Before) + 1 .. Ends \subseteq DOMAIN body
        BY <1>1
    <2> QED
        BY <1>1, <1>2, <2>1 DEF Places
<1>8. \A k \in 1 .. Len(Before) : k \in DOMAIN body
    BY <1>1
<1>9. \A k \in Places("note") : k \in 1 .. Len(Before) \/ (Noted /\ k = NotePlace)
    <2>1. ASSUME NEW k \in Places("note")
          PROVE  k \in 1 .. Len(Before) \/ (Noted /\ k = NotePlace)
        <3>1. k \in DOMAIN body /\ body[k].kind = "note"
            BY <2>1 DEF Places
        <3> QED
            BY <1>1, <1>2, <1>4, <3>1
    <2> QED
        BY <2>1
<1>10. ASSUME NEW kind \in {"system", "lore", "example"}
       PROVE  Places(kind) = {k \in 1 .. Len(Before) : Before[k].kind = kind}
    <2>1. ASSUME NEW k \in DOMAIN body, body[k].kind = kind
          PROVE  k \in 1 .. Len(Before)
        BY <1>1, <1>2, <1>4, <1>10, <2>1
    <2> QED
        BY <1>1, <1>8, <2>1 DEF Places
<1>11. Places("note") = {k \in 1 .. Len(Before) : Before[k].kind = "note"}
                          \union (IF Noted THEN {NotePlace} ELSE {})
    <2>1. ASSUME NEW k \in 1 .. Len(Before)
          PROVE  k \in Places("note") <=> Before[k].kind = "note"
        BY <1>1, <1>8, <2>1 DEF Places
    <2> QED
        BY <1>7, <1>9, <2>1
<1> QED
    BY <1>6, <1>10, <1>11

LEMMA PlacesRise ==
    ASSUME Typed, start \in 0 .. Len(history),
           NEW i \in start + 1 .. Len(history), NEW j \in start + 1 .. Len(history), i < j
    PROVE  PlaceOf(i) < PlaceOf(j)
<1>1. Len(history) \in Nat /\ Inject \in Int /\ Len(Before) \in Nat
    BY InjectFacts, BeforeShape, LenProperties
<1>2. /\ One(Noted /\ i > Inject) = IF Noted /\ i > Inject THEN 1 ELSE 0
      /\ One(Noted /\ j > Inject) = IF Noted /\ j > Inject THEN 1 ELSE 0
    BY DEF One
<1> QED
    BY <1>1, <1>2 DEF PlaceOf

\* As many places as messages
LEMMA PlacesCounted ==
    ASSUME Typed, start \in 0 .. Len(history), NEW first \in start + 1 .. Len(history) + 1
    PROVE  Cardinality({PlaceOf(i) : i \in first .. Len(history)}) = Len(history) - first + 1
<1> DEFINE S == first .. Len(history)
           T == {PlaceOf(i) : i \in S}
           f == [i \in S |-> PlaceOf(i)]
<1>1. /\ Len(history) \in Nat /\ Len(history) \in Int
      /\ first \in Int /\ first <= Len(history) + 1
    BY InjectFacts
<1>2. IsFiniteSet(S) /\ Cardinality(S) = Len(history) - first + 1
    <2>1. IsFiniteSet(S) /\ Cardinality(S) =
            IF first > Len(history) THEN 0 ELSE Len(history) - first + 1
        BY <1>1, FS_Interval, Zenon
    <2> QED
        BY <1>1, <2>1
<1>3. \A i, j \in S : PlaceOf(i) = PlaceOf(j) => i = j
    <2>1. S \subseteq start + 1 .. Len(history) /\ S \subseteq Int
        BY <1>1
    <2>2. \A i, j \in S : i < j => PlaceOf(i) < PlaceOf(j)
        BY <2>1, PlacesRise
    <2>3. \A i \in S : PlaceOf(i) \in Int
        BY <2>1, InjectFacts, BeforeShape, LenProperties DEF PlaceOf, One
    <2> HIDE DEF S
    <2> QED
        BY <2>1, <2>2, <2>3
<1> HIDE DEF S
<1>4. f \in Bijection(S, T)
    BY <1>3 DEF Bijection, Injection, Surjection, IsInjective
<1>5. ExistsBijection(S, T)
    BY <1>4 DEF ExistsBijection
<1>6. Cardinality(T) = Cardinality(S)
    BY <1>2, <1>5, FS_Bijection
<1> QED
    BY <1>2, <1>6 DEF S

LEMMA BuiltFacts ==
    ASSUME Inv, phase = "built"
    PROVE  /\ Typed /\ body = Request /\ Len(history) \in Nat /\ start \in 0 .. Len(history)
           /\ available <= 0 => start = 0
           /\ available > 0 =>
                /\ start = Len(history) - counted /\ used <= available
                /\ counted < Len(history) => \E cost \in Costs : used + cost > available
<1>1. Typed /\ Budget /\ Chosen /\ Len(history) \in Nat
    BY LenProperties DEF Inv, Typed
<1> QED
    BY <1>1 DEF Typed, Budget, Chosen

\* The history in a request is its end, whole and in order, as much as the budget has
\* room for, or all of it when the budget is used up (the loops over the history
\* in openai_build_request, anthropic_build_request and kobold_build_request).
THEOREM EndIsSent == RequestSpec => []HistoryFits
<1>1. ASSUME Inv, phase = "built" PROVE HistoryFits
    <2> DEFINE sent == Places("message")
               indices == {body[k].index : k \in sent}
               S == start + 1 .. Len(history)
    <2>1. /\ Typed /\ body = Request /\ Len(history) \in Nat /\ start \in 0 .. Len(history)
          /\ available \in Int /\ counted \in 0 .. Len(history) /\ used \in Nat
          /\ history \in Seq(Spoken)
        BY <1>1, BuiltFacts DEF Typed
    <2>2. sent = {PlaceOf(i) : i \in S}
        BY <2>1, KindPlaces
    <2>3. \A i \in S : body[PlaceOf(i)].index = i
        <3>1. \A i \in S : body[PlaceOf(i)] = Message(i)
            BY <2>1, BodyShape
        <3>2. \A i : Message(i).index = i
            BY DEF Message
        <3> QED
            BY <3>1, <3>2
    <2>4. indices = S
        BY <2>2, <2>3
    <2>5. Cardinality(sent) = Len(history) - start
        <3>1. start + 1 \in start + 1 .. Len(history) + 1
            BY <2>1
        <3>2. Cardinality({PlaceOf(i) : i \in start + 1 .. Len(history)}) = Len(history) - (start + 1) + 1
            BY <2>1, <3>1, PlacesCounted
        <3>3. Len(history) - (start + 1) + 1 = Len(history) - start
            BY <2>1
        <3> HIDE DEF sent
        <3> QED
            BY <2>2, <3>2, <3>3
    <2>6. Cardinality(S) = Len(history) - start
        <3>1. start + 1 \in Int /\ Len(history) \in Int
            BY <2>1
        <3>2. Cardinality(S) = IF start + 1 > Len(history) THEN 0 ELSE Len(history) - (start + 1) + 1
            BY <3>1, FS_Interval, Zenon
        <3> QED
            BY <2>1, <3>2
    <2>7. \A i \in S : i < Len(history) => i + 1 \in S
        BY <2>1
    <2>8. \A k, l \in sent : k < l => body[k].index < body[l].index
        <3>1. ASSUME NEW i \in S, NEW j \in S, PlaceOf(i) < PlaceOf(j)
              PROVE  i < j
            <4>1. i \in Int /\ j \in Int /\ PlaceOf(i) \in Int /\ PlaceOf(j) \in Int
                BY <2>1, InjectFacts, BeforeShape, LenProperties DEF PlaceOf, One
            <4>2. j < i => PlaceOf(j) < PlaceOf(i)
                BY <2>1, PlacesRise
            <4> QED
                BY <3>1, <4>1, <4>2
        <3> HIDE DEF S
        <3> QED
            BY <2>2, <2>3, <3>1
    <2>9. available > 0 => /\ used <= available /\ Cardinality(sent) = counted
                           /\ Len(history) > counted => used + Max(Costs) > available
        <3>1. ASSUME NEW cost \in Costs, used + cost > available
              PROVE  used + Max(Costs) > available
            <4>1. Costs \in SUBSET Int /\ \E most \in Costs : \A x \in Costs : x <= most
                BY PromptAssumption
            <4>2. Max(Costs) \in Costs /\ cost <= Max(Costs)
                BY <4>1, MaxFacts
            <4>3. cost \in Nat /\ Max(Costs) \in Nat
                BY <4>2, PromptAssumption
            <4> QED
                BY <2>1, <3>1, <4>2, <4>3
        <3> HIDE DEF sent
        <3>2. available > 0 =>
                /\ start = Len(history) - counted /\ used <= available
                /\ counted < Len(history) => \E cost \in Costs : used + cost > available
            BY <1>1, BuiltFacts
        <3> QED
            BY <2>1, <2>5, <3>1, <3>2
    <2>10. available <= 0 => S = DOMAIN history
        <3>1. available <= 0 => start = 0
            BY <1>1, BuiltFacts
        <3>2. DOMAIN history = 1 .. Len(history)
            BY <2>1, LenProperties
        <3> QED
            BY <2>1, <3>1, <3>2
    <2> HIDE DEF S
    <2> QED
        BY <2>4, <2>5, <2>6, <2>7, <2>8, <2>9, <2>10 DEF HistoryFits
<1>2. Inv => HistoryFits
    BY <1>1 DEF HistoryFits
<1> QED
    BY <1>2, RequestSafety, PTL

\* The note is in a request once, at the depth that was asked for or in front of all
\* that is sent, or not at all where the loop never comes by its place
\* (note_inject_index in the three functions).
THEOREM NoteIsInPlace == RequestSpec => []NoteIsPlaced
<1>1. ASSUME Inv, phase = "built" PROVE NoteIsPlaced
    <2> DEFINE at == Places("note")
               after == {k \in Places("message") : \A n \in at : k > n}
               fixed == {k \in 1 .. Len(Before) : Before[k].kind = "note"}
               a == One(note.at = "before")
               b == a + One("system" \in extras)
               c == b + One(lore # <<>>)
               d == c + One(note.at = "after")
    <2>1. Typed /\ body = Request /\ Len(history) \in Nat /\ start \in 0 .. Len(history)
        BY <1>1, BuiltFacts
    <2>2. note.at \in {"none", "before", "after", "chat"} /\ note.depth \in Nat
        BY <2>1, NoteFacts DEF Typed
    <2>3. /\ Places("message") = {PlaceOf(i) : i \in start + 1 .. Len(history)}
          /\ at = fixed \union (IF Noted THEN {NotePlace} ELSE {})
          /\ \A kind \in {"system", "lore", "example"} :
                Places(kind) = {k \in 1 .. Len(Before) : Before[k].kind = kind}
        BY <2>1, KindPlaces
    <2>4. /\ Len(Before) \in Nat /\ Len(Before) = d + One("examples" \in extras)
          /\ \A k \in 1 .. Len(Before) :
                Before[k].kind = IF k <= a THEN "note" ELSE IF k <= b THEN "system"
                                 ELSE IF k <= c THEN "lore" ELSE IF k <= d THEN "note"
                                 ELSE "example"
        BY <2>1, BeforeShape, LenProperties
    <2>5. /\ a \in Nat /\ b \in Nat /\ c \in Nat /\ d \in Nat /\ a <= b /\ b <= c /\ c <= d
          /\ d <= Len(Before)
          /\ a = (IF note.at = "before" THEN 1 ELSE 0)
          /\ d = IF note.at = "after" THEN c + 1 ELSE c
        BY <2>4 DEF One
    <2> HIDE DEF a, b, c, d
    <2>6. fixed = {k \in 1 .. Len(Before) : k <= a \/ (c < k /\ k <= d)}
        BY <2>4, <2>5
    <2>7. \A i \in start + 1 .. Len(history) : PlaceOf(i) > Len(Before)
        <3>1. \A i \in start + 1 .. Len(history) : PlaceOf(i) \in Len(Before) + 1 .. Ends
            BY <2>1, BodyShape
        <3> QED
            BY <2>4, <3>1
    <2>8. CASE note.at = "none"
        <3>1. ~Noted
            BY <2>1, <2>8, InjectFacts
        <3>2. fixed = {}
            BY <2>4, <2>5, <2>6, <2>8
        <3>3. at = {}
            BY <2>3, <3>1, <3>2
        <3> QED
            BY <2>8, <3>3 DEF NoteIsPlaced
    <2>9. CASE note.at = "before"
        <3>1. ~Noted
            BY <2>1, <2>9, InjectFacts
        <3>2. fixed = {1}
            BY <2>4, <2>5, <2>6, <2>9
        <3>3. at = {1}
            BY <2>3, <3>1, <3>2
        <3> QED
            BY <2>9, <3>3 DEF NoteIsPlaced
    <2>10. CASE note.at = "after"
        <3>1. ~Noted
            BY <2>1, <2>10, InjectFacts
        <3>2. fixed = {d}
            BY <2>4, <2>5, <2>6, <2>10
        <3>3. at = {d} /\ Cardinality(at) = 1
            <4>1. at = {d}
                BY <2>3, <3>1, <3>2
            <4>2. Cardinality({d}) = 1
                BY FS_Singleton
            <4> QED
                BY <4>1, <4>2
        <3>4. \A k \in Places("system") \union Places("lore") : k < d
            BY <2>3, <2>4, <2>5, <2>10
        <3>5. \A k \in Places("example") \union Places("message") : k > d
            <4>1. \A k \in Places("example") : k > d
                BY <2>3, <2>4, <2>5
            <4>2. \A i \in start + 1 .. Len(history) : PlaceOf(i) > d
                <5>1. \A i \in start + 1 .. Len(history) : PlaceOf(i) \in Len(Before) + 1 .. Ends
                    BY <2>1, BodyShape
                <5> QED
                    BY <2>4, <2>5, <5>1
            <4> QED
                BY <2>3, <4>1, <4>2
        <3> QED
            BY <2>10, <3>3, <3>4, <3>5 DEF NoteIsPlaced
    <2>11. CASE note.at = "chat"
        <3> DEFINE missed == \/ note.depth = 0 \/ start = Len(history)
                             \/ note.depth < Len(history) /\ Len(history) - note.depth < start
        <3>1. fixed = {}
            BY <2>4, <2>5, <2>6, <2>11
        <3>2. Noted <=> ~missed
            BY <2>1, <2>2, <2>11, InjectFacts
        <3>3. CASE missed
            <4>1. at = {}
                BY <2>3, <3>1, <3>2, <3>3
            <4> QED
                BY <2>11, <3>3, <4>1 DEF NoteIsPlaced
        <3>4. CASE ~missed
            <4>1. at = {NotePlace} /\ Cardinality(at) = 1
                <5>1. at = {NotePlace}
                    BY <2>3, <3>1, <3>2, <3>4
                <5>2. Cardinality({NotePlace}) = 1
                    BY FS_Singleton
                <5> QED
                    BY <5>1, <5>2
            <4>2. /\ Noted /\ Inject \in start .. Len(history) - 1
                  /\ Inject = IF note.depth < Len(history) THEN Len(history) - note.depth ELSE start
                BY <2>1, <2>11, <3>2, <3>4, InjectFacts DEF Noted
            <4>3. ASSUME NEW i \in start + 1 .. Len(history)
                  PROVE  PlaceOf(i) > NotePlace <=> i > Inject
                <5>1. One(Noted /\ i > Inject) = IF i > Inject THEN 1 ELSE 0
                    BY <4>2 DEF One
                <5>2. PlaceOf(i) = Len(Before) + i - start + (IF i > Inject THEN 1 ELSE 0)
                    BY <5>1 DEF PlaceOf
                <5>3. Len(Before) \in Int /\ i \in Int /\ start \in Int /\ Inject \in Int
                    BY <2>1, <2>4, <4>2, <4>3
                <5>4. \A l, x, y, z \in Int :
                        l + x - z + (IF x > y THEN 1 ELSE 0) > l + y - z + 1 <=> x > y
                    OBVIOUS
                <5> QED
                    BY <5>2, <5>3, <5>4 DEF NotePlace
            <4>4. after = {PlaceOf(i) : i \in Inject + 1 .. Len(history)}
                <5>1. after = {PlaceOf(i) : i \in {j \in start + 1 .. Len(history) : j > Inject}}
                    BY <2>3, <4>1, <4>3
                <5>2. {j \in start + 1 .. Len(history) : j > Inject} = Inject + 1 .. Len(history)
                    BY <2>1, <4>2
                <5> QED
                    BY <5>1, <5>2
            <4>5. Cardinality(after) = Len(history) - Inject
                <5>1. Inject + 1 \in start + 1 .. Len(history) + 1
                    BY <2>1, <4>2
                <5>2. Cardinality({PlaceOf(i) : i \in Inject + 1 .. Len(history)})
                        = Len(history) - (Inject + 1) + 1
                    BY <2>1, <5>1, PlacesCounted
                <5>3. Len(history) - (Inject + 1) + 1 = Len(history) - Inject
                    BY <2>1, <4>2
                <5> QED
                    BY <4>4, <5>2, <5>3
            <4>6. Min({note.depth, Len(history) - start}) = Len(history) - Inject
                <5>1. Len(history) - start \in Nat
                    BY <2>1
                <5>2. Min({note.depth, Len(history) - start}) =
                        IF note.depth <= Len(history) - start THEN note.depth
                        ELSE Len(history) - start
                    BY <2>2, <5>1 DEF Min
                <5> QED
                    BY <2>1, <2>2, <4>2, <5>2
            <4> QED
                BY <2>11, <3>4, <4>1, <4>5, <4>6 DEF NoteIsPlaced
        <3> QED
            BY <3>3, <3>4
    <2> QED
        BY <2>2, <2>8, <2>9, <2>10, <2>11
<1>2. Inv => NoteIsPlaced
    BY <1>1 DEF NoteIsPlaced
<1> QED
    BY <1>2, RequestSafety, PTL
-----------------------------------------------------------------------------
(***************************************************************************)
(* The reply: induction over a bound, and sets of places in their order    *)
(***************************************************************************)
LEMMA SameCardinality == \A S : Reply!Cardinality(S) = Cardinality(S)
BY DEF Reply!Cardinality, Cardinality

LEMMA NatSetInduction ==
    ASSUME NEW T \in SUBSET Nat, 0 \in T, \A i \in T : i + 1 \in T
    PROVE  T = Nat
<1> DEFINE rest == Nat \ T
           less == OpToRel(<, Nat)
<1> SUFFICES ASSUME rest # {} PROVE FALSE
    OBVIOUS
<1>1. IsWellFoundedOn(less, Nat)
    BY NatLessThanWellFounded
<1>2. \A x, y \in Nat : <<y, x>> \in less <=> y < x
    BY DEF OpToRel
<1> HIDE DEF less
<1>3. \E x \in rest : \A y \in rest : ~(<<y, x>> \in less)
    BY <1>1, WFMin
<1>4. PICK x \in rest : \A y \in rest : ~(y < x)
    BY <1>2, <1>3
<1>5. x # 0 /\ x - 1 \in Nat /\ x - 1 < x
    BY <1>4
<1>6. x - 1 \in T
    BY <1>4, <1>5
<1> QED
    BY <1>4, <1>5, <1>6

LEMMA UpTo ==
    ASSUME NEW n \in Nat, NEW T, 0 \in T, \A i \in 0 .. n : i \in T /\ i + 1 <= n => i + 1 \in T
    PROVE  0 .. n \subseteq T
<1> DEFINE U == {i \in Nat : i <= n => i \in T}
<1>1. 0 \in U
    OBVIOUS
<1>2. ASSUME NEW i \in U PROVE i + 1 \in U
    BY <1>2
<1>3. U \in SUBSET Nat
    OBVIOUS
<1> HIDE DEF U
<1>4. U = Nat
    BY <1>1, <1>2, <1>3, NatSetInduction
<1> QED
    BY <1>4 DEF U
-----------------------------------------------------------------------------
(***************************************************************************)
(* A set of numbers in order: its k-th has k elements up to itself.        *)
(***************************************************************************)
Rank(S, i) == Cardinality({j \in S : j <= i})

LEMMA FiniteUpTo ==
    ASSUME NEW n \in Nat, NEW S \in SUBSET (1 .. n)
    PROVE  /\ IsFiniteSet(S) /\ Cardinality(S) \in Nat
           /\ \A R \in SUBSET S : IsFiniteSet(R) /\ Cardinality(R) \in Nat
                /\ Cardinality(R) <= Cardinality(S) /\ (Cardinality(R) = Cardinality(S) => R = S)
<1>1. IsFiniteSet(1 .. n)
    BY FS_Interval
<1>2. IsFiniteSet(S)
    BY <1>1, FS_Subset
<1> QED
    BY <1>2, FS_Subset, FS_CardinalityType

LEMMA RankBounds ==
    ASSUME NEW n \in Nat, NEW S \in SUBSET (1 .. n), NEW i \in S
    PROVE  Rank(S, i) \in 1 .. Cardinality(S)
<1> DEFINE R == {j \in S : j <= i}
<1>1. R \in SUBSET S /\ i \in R
    OBVIOUS
<1>2. IsFiniteSet(R) /\ Cardinality(R) \in Nat /\ Cardinality(R) <= Cardinality(S)
      /\ Cardinality(S) \in Nat
    BY <1>1, FiniteUpTo
<1>3. Cardinality(R) # 0
    BY <1>1, <1>2, FS_EmptySet
<1> HIDE DEF R
<1>4. Cardinality(R) \in 1 .. Cardinality(S)
    BY <1>2, <1>3
<1> QED
    BY <1>4 DEF Rank, R

LEMMA RankUnique ==
    ASSUME NEW n \in Nat, NEW S \in SUBSET (1 .. n), NEW i \in S, NEW k \in S,
           Rank(S, i) = Rank(S, k)
    PROVE  i = k
<1>1. ASSUME NEW a \in S, NEW b \in S, a < b, Rank(S, a) = Rank(S, b) PROVE FALSE
    <2> DEFINE A == {j \in S : j <= a}
               B == {j \in S : j <= b}
    <2>1. \A j \in S : j \in Nat
        OBVIOUS
    <2>2. a \in Nat /\ b \in Nat /\ B \in SUBSET (1 .. n)
        BY <2>1
    <2>5. b \in B /\ b \notin A
        BY <1>1, <2>2
    <2>6. \A j \in S : j <= a => j <= b
        BY <1>1, <2>1, <2>2
    <2>7. A \in SUBSET B
        BY <2>6
    <2>3. Cardinality(A) = Cardinality(B)
        BY <1>1 DEF Rank
    <2> HIDE DEF A, B
    <2>4. A = B
        BY <2>2, <2>3, <2>7, FiniteUpTo
    <2> QED
        BY <2>5, <2>4
<1>2. i \in Nat /\ k \in Nat
    OBVIOUS
<1> QED
    BY <1>1, <1>2

\* One more, behind all others
LEMMA RankMore ==
    ASSUME NEW n \in Nat, NEW S \in SUBSET (1 .. n), NEW m \in Nat, m > n
    PROVE  /\ Cardinality(S \union {m}) = Cardinality(S) + 1
           /\ Rank(S \union {m}, m) = Cardinality(S) + 1
           /\ \A i \in S : Rank(S \union {m}, i) = Rank(S, i)
<1>1. m \notin S /\ \A i \in S : i \in Nat /\ i < m
    OBVIOUS
<1>2. IsFiniteSet(S)
    BY FiniteUpTo
<1>3. Cardinality(S \union {m}) = Cardinality(S) + 1
    BY <1>1, <1>2, FS_AddElement
<1>4. {j \in S \union {m} : j <= m} = S \union {m}
    <2>1. \A j \in S \union {m} : j <= m
        BY <1>1
    <2> QED
        BY <2>1
<1>5. ASSUME NEW i \in S PROVE {j \in S \union {m} : j <= i} = {j \in S : j <= i}
    BY <1>1
<1> QED
    BY <1>3, <1>4, <1>5 DEF Rank

LEMMA RankExists ==
    ASSUME NEW n \in Nat
    PROVE  \A S \in SUBSET (1 .. n) : \A k \in 1 .. Cardinality(S) : \E i \in S : Rank(S, i) = k
<1> DEFINE T == {m \in 0 .. n : \A S \in SUBSET (1 .. m) :
                    \A k \in 1 .. Cardinality(S) : \E i \in S : Rank(S, i) = k}
<1>1. 0 \in T
    <2>1. ASSUME NEW S \in SUBSET (1 .. 0) PROVE 1 .. Cardinality(S) = {}
        <3>1. S = {}
            OBVIOUS
        <3> QED
            BY <3>1, FS_EmptySet
    <2> QED
        BY <2>1
<1>2. ASSUME NEW m \in 0 .. n, m \in T, m + 1 <= n PROVE m + 1 \in T
    <2> SUFFICES ASSUME NEW S \in SUBSET (1 .. m + 1), NEW k \in 1 .. Cardinality(S)
                 PROVE  \E i \in S : Rank(S, i) = k
        BY <1>2
    <2>1. CASE m + 1 \notin S
        <3>1. S \in SUBSET (1 .. m)
            BY <2>1
        <3> QED
            BY <1>2, <3>1
    <2>2. CASE m + 1 \in S
        <3> DEFINE R == S \ {m + 1}
        <3>1. R \in SUBSET (1 .. m) /\ S = R \union {m + 1} /\ m \in Nat /\ m + 1 > m /\ m + 1 \in Nat
            BY <2>2
        <3> HIDE DEF R
        <3>2. /\ Cardinality(S) = Cardinality(R) + 1 /\ Rank(S, m + 1) = Cardinality(R) + 1
              /\ \A i \in R : Rank(S, i) = Rank(R, i)
            BY <3>1, RankMore
        <3>3. Cardinality(R) \in Nat
            BY <3>1, FiniteUpTo
        <3>4. CASE k = Cardinality(R) + 1
            BY <2>2, <3>2, <3>4
        <3>5. CASE k # Cardinality(R) + 1
            <4>1. k \in 1 .. Cardinality(R)
                BY <3>2, <3>3, <3>5
            <4>2. PICK i \in R : Rank(R, i) = k
                BY <1>2, <3>1, <4>1
            <4> QED
                BY <3>1, <3>2, <4>2
        <3> QED
            BY <3>4, <3>5
    <2> QED
        BY <2>1, <2>2
<1> HIDE DEF T
<1>3. 0 .. n \subseteq T
    BY <1>1, <1>2, UpTo
<1>4. n \in T
    BY <1>3
<1> QED
    BY <1>4 DEF T

LEMMA InOrderIs ==
    ASSUME NEW n \in Nat, NEW S \in SUBSET (1 .. n)
    PROVE  /\ DOMAIN Reply!InOrder(S) = 1 .. Cardinality(S)
           /\ Reply!InOrder(S) = [k \in 1 .. Cardinality(S) |-> Reply!InOrder(S)[k]]
           /\ \A k \in 1 .. Cardinality(S) :
                Reply!InOrder(S)[k] \in S /\ Rank(S, Reply!InOrder(S)[k]) = k
<1>1. ASSUME NEW k \in 1 .. Cardinality(S)
      PROVE  Reply!InOrder(S)[k] \in S /\ Rank(S, Reply!InOrder(S)[k]) = k
    <2>1. \E i \in S : Rank(S, i) = k
        BY RankExists
    <2>2. Reply!InOrder(S)[k] = CHOOSE i \in S : Rank(S, i) = k
        BY SameCardinality DEF Reply!InOrder, Rank
    <2> QED
        BY <2>1, <2>2
<1>2. /\ DOMAIN Reply!InOrder(S) = 1 .. Cardinality(S)
      /\ Reply!InOrder(S) = [k \in 1 .. Cardinality(S) |-> Reply!InOrder(S)[k]]
    <2>1. Reply!Cardinality(S) = Cardinality(S)
        BY SameCardinality
    <2>2. /\ DOMAIN Reply!InOrder(S) = 1 .. Reply!Cardinality(S)
          /\ Reply!InOrder(S) = [k \in 1 .. Reply!Cardinality(S) |-> Reply!InOrder(S)[k]]
        <3> DEFINE D == 1 .. Reply!Cardinality(S)
                   F(k) == CHOOSE i \in S : Reply!Cardinality({j \in S : j <= i}) = k
        <3>1. Reply!InOrder(S) = [k \in D |-> F(k)]
            BY Zenon DEF Reply!InOrder
        <3> HIDE DEF D, F
        <3>2. DOMAIN Reply!InOrder(S) = D /\ \A k \in D : Reply!InOrder(S)[k] = F(k)
            BY <3>1
        <3>3. Reply!InOrder(S) = [k \in D |-> Reply!InOrder(S)[k]]
            BY <3>1, <3>2
        <3> QED
            BY <3>2, <3>3 DEF D
    <2> QED
        BY <2>1, <2>2, Zenon
<1> QED
    BY <1>1, <1>2

LEMMA InOrderMore ==
    ASSUME NEW n \in Nat, NEW S \in SUBSET (1 .. n)
    PROVE  /\ Cardinality(S) \in Nat /\ Cardinality(S \union {n + 1}) = Cardinality(S) + 1
           /\ Reply!InOrder(S \union {n + 1})[Cardinality(S) + 1] = n + 1
           /\ \A k \in 1 .. Cardinality(S) :
                Reply!InOrder(S \union {n + 1})[k] = Reply!InOrder(S)[k]
<1>0. PICK R, c : R = S \union {n + 1} /\ c = Cardinality(S)
    OBVIOUS
<1>1. c \in Nat
    BY <1>0, FiniteUpTo
<1>2. n + 1 \in Nat /\ n + 1 > n /\ R \in SUBSET (1 .. n + 1) /\ n + 1 \in R
    BY <1>0
<1>3. /\ Cardinality(R) = c + 1 /\ Rank(R, n + 1) = c + 1
      /\ \A i \in S : Rank(R, i) = Rank(S, i)
    <2>1. /\ Cardinality(S \union {n + 1}) = Cardinality(S) + 1
          /\ Rank(S \union {n + 1}, n + 1) = Cardinality(S) + 1
          /\ \A i \in S : Rank(S \union {n + 1}, i) = Rank(S, i)
        BY <1>2, RankMore
    <2> QED
        BY <1>0, <2>1, Zenon
<1>4. \A k \in 1 .. c + 1 : Reply!InOrder(R)[k] \in R /\ Rank(R, Reply!InOrder(R)[k]) = k
    BY <1>2, <1>3, InOrderIs
<1>5. \A k \in 1 .. c : Reply!InOrder(S)[k] \in S /\ Rank(S, Reply!InOrder(S)[k]) = k
    BY <1>0, InOrderIs
<1>6. \A i, k \in R : Rank(R, i) = Rank(R, k) => i = k
    BY <1>2, RankUnique
<1>7. \A i \in S : i \in R
    BY <1>0
<1>8. c + 1 \in 1 .. c + 1 /\ \A k \in 1 .. c : k \in 1 .. c + 1
    BY <1>1
<1>9. Reply!InOrder(R)[c + 1] = n + 1
    BY <1>2, <1>3, <1>4, <1>6, <1>8
<1>10. ASSUME NEW k \in 1 .. c PROVE Reply!InOrder(R)[k] = Reply!InOrder(S)[k]
    <2>1. Reply!InOrder(R)[k] \in R /\ Rank(R, Reply!InOrder(R)[k]) = k
        BY <1>4, <1>8
    <2>2. Reply!InOrder(S)[k] \in R /\ Rank(R, Reply!InOrder(S)[k]) = k
        BY <1>3, <1>5, <1>7
    <2> QED
        BY <1>6, <2>1, <2>2
<1> QED
    BY <1>0, <1>1, <1>3, <1>9, <1>10, Zenon
-----------------------------------------------------------------------------
(***************************************************************************)
(* The lines of the bytes, when one more byte comes                        *)
(***************************************************************************)
LEMMA LeastOfTwo == \A a, b \in Nat : Reply!Min({a, b}) = IF a <= b THEN a ELSE b
<1> SUFFICES ASSUME NEW a \in Nat, NEW b \in Nat
             PROVE  Reply!Min({a, b}) = IF a <= b THEN a ELSE b
    OBVIOUS
<1> DEFINE least == IF a <= b THEN a ELSE b
<1>1. least \in {a, b} /\ \A y \in {a, b} : least <= y
    OBVIOUS
<1>2. \A x \in {a, b} : (\A y \in {a, b} : x <= y) => x = least
    OBVIOUS
<1> HIDE DEF least
<1>3. Reply!Min({a, b}) \in {a, b} /\ \A y \in {a, b} : Reply!Min({a, b}) <= y
    BY <1>1 DEF Reply!Min
<1> QED
    BY <1>2, <1>3 DEF least

\* What a line has of the bytes so far, when one more comes
LEMMA KeptSame ==
    ASSUME NEW V, NEW r \in Seq(V), NEW b \in V
    PROVE  \A m \in 0 .. Len(r) : Reply!Kept(Append(r, b), m) = Reply!Kept(r, m)
<1>1. PICK n, q : n = Len(r) /\ q = Append(r, b)
    OBVIOUS
<1>2. n \in Nat /\ \A i \in 1 .. n : q[i] = r[i]
    BY <1>1
<1>3. ASSUME NEW m \in 0 .. n PROVE Reply!Kept(q, m) = Reply!Kept(r, m)
    <2>1. \A i \in 1 .. m : i \in 1 .. n /\ \A j \in i .. m : j \in 1 .. n
        BY <1>2
    <2> QED
        BY <1>2, <2>1 DEF Reply!Kept
<1> QED
    BY <1>1, <1>3, Zenon

LEMMA KeptMore ==
    ASSUME NEW V, NEW r \in Seq(V), NEW b \in V
    PROVE  Reply!Kept(Append(r, b), Len(r) + 1) =
            IF b = "nl" THEN {}
            ELSE IF b = "cr" THEN Reply!Kept(r, Len(r))
            ELSE Reply!Kept(r, Len(r)) \union {Len(r) + 1}
<1>0. PICK n, q : n = Len(r) /\ q = Append(r, b)
    OBVIOUS
<1>1. n \in Nat /\ Len(q) = n + 1 /\ q[n + 1] = b /\ \A i \in 1 .. n : q[i] = r[i]
    BY <1>0
<1>4. ASSUME b = "nl" PROVE Reply!Kept(q, n + 1) = {}
    <2>1. \A i \in 1 .. n + 1 : n + 1 \in i .. n + 1
        BY <1>1
    <2> QED
        BY <1>1, <1>4, <2>1 DEF Reply!Kept
<1>5. ASSUME b # "nl"
      PROVE  Reply!Kept(q, n + 1) =
                IF b = "cr" THEN Reply!Kept(r, n) ELSE Reply!Kept(r, n) \union {n + 1}
    <2>1. ASSUME NEW i \in 1 .. n
          PROVE  (\A j \in i .. n + 1 : q[j] # "nl") <=> (\A j \in i .. n : r[j] # "nl")
        BY <1>1, <1>5
    <2>2. \A j \in n + 1 .. n + 1 : q[j] # "nl"
        BY <1>1, <1>5
    <2>3. \A i : i \in 1 .. n + 1 <=> i \in 1 .. n \/ i = n + 1
        BY <1>1
    <2>4. \A i \in 1 .. n : i \in Reply!Kept(q, n + 1) <=> i \in Reply!Kept(r, n)
        BY <1>1, <2>1, <2>3 DEF Reply!Kept
    <2>5. n + 1 \in Reply!Kept(q, n + 1) <=> b # "cr"
        BY <1>1, <2>2, <2>3 DEF Reply!Kept
    <2>6. n + 1 \notin Reply!Kept(r, n) /\ Reply!Kept(r, n) \subseteq 1 .. n
          /\ Reply!Kept(q, n + 1) \subseteq 1 .. n + 1
        BY <1>1 DEF Reply!Kept
    <2>7. ASSUME NEW i
          PROVE  i \in Reply!Kept(q, n + 1) <=> i \in Reply!Kept(r, n) \/ (i = n + 1 /\ b # "cr")
        BY <2>3, <2>4, <2>5, <2>6, Zenon
    <2> QED
        BY <2>7
<1>6. Reply!Kept(q, n + 1) =
        IF b = "nl" THEN {}
        ELSE IF b = "cr" THEN Reply!Kept(r, n)
        ELSE Reply!Kept(r, n) \union {n + 1}
    BY <1>4, <1>5
<1> QED
    BY <1>0, <1>6, Zenon

LEMMA KeptIn == \A r : \A m \in Nat : Reply!Kept(r, m) \in SUBSET (1 .. m)
BY DEF Reply!Kept

\* How many bytes of the line are in the buffer
Width(r, m) ==
    IF Cardinality(Reply!Kept(r, m)) <= MaxLine THEN Cardinality(Reply!Kept(r, m)) ELSE MaxLine
Place(r, m, k) == Reply!InOrder(Reply!Kept(r, m))[k]

LEMMA LineIs ==
    ASSUME NEW r, NEW m \in Nat
    PROVE  /\ Cardinality(Reply!Kept(r, m)) \in Nat
           /\ Cardinality(Reply!Kept(r, m)) = 0 <=> Reply!Kept(r, m) = {}
           /\ Width(r, m) \in 0 .. Cardinality(Reply!Kept(r, m))
           /\ Reply!LineTo(r, m) = [k \in 1 .. Width(r, m) |-> r[Place(r, m, k)]]
           /\ \A k \in 1 .. Cardinality(Reply!Kept(r, m)) : Place(r, m, k) \in 1 .. m
<1> DEFINE kept == Reply!Kept(r, m)
           c == Cardinality(kept)
<1>1. kept \in SUBSET (1 .. m)
    BY KeptIn
<1>2. c \in Nat /\ IsFiniteSet(kept)
    BY <1>1, FiniteUpTo
<1>3. c = 0 <=> kept = {}
    BY <1>2, FS_EmptySet
<1>4. MaxLine \in Nat
    BY RequestAssumption
<1>5. Reply!Cardinality(kept) = c
    BY SameCardinality
<1>6. Reply!Min({Reply!Cardinality(kept), MaxLine}) = Width(r, m)
    BY <1>2, <1>4, <1>5, LeastOfTwo DEF Width
<1>7. Reply!LineTo(r, m) = [k \in 1 .. Width(r, m) |-> r[Place(r, m, k)]]
    BY <1>6, Zenon DEF Reply!LineTo, Place
<1>8. \A k \in 1 .. c : Place(r, m, k) \in 1 .. m
    BY <1>1, InOrderIs DEF Place
<1>9. Width(r, m) \in 0 .. c
    BY <1>2, <1>4 DEF Width
<1> QED
    BY <1>2, <1>3, <1>7, <1>8, <1>9

\* The line so far, when one more byte comes
LEMMA LineMore ==
    ASSUME NEW V, NEW r \in Seq(V), NEW b \in V
    PROVE  /\ \A m \in 0 .. Len(r) : Reply!LineTo(Append(r, b), m) = Reply!LineTo(r, m)
           /\ Reply!LineTo(Append(r, b), Len(r) + 1) =
                IF b = "nl" THEN <<>>
                ELSE IF b # "cr" /\ Len(Reply!LineTo(r, Len(r))) < MaxLine
                THEN Append(Reply!LineTo(r, Len(r)), b)
                ELSE Reply!LineTo(r, Len(r))
<1>1. PICK n, q, before, kept, c, least, more, d, most :
        /\ n = Len(r) /\ q = Append(r, b) /\ before = Reply!LineTo(r, n)
        /\ kept = Reply!Kept(r, n) /\ c = Cardinality(kept) /\ least = Width(r, n)
        /\ more = Reply!Kept(q, n + 1) /\ d = Cardinality(more) /\ most = Width(q, n + 1)
    OBVIOUS
<1>2. /\ n \in Nat /\ n + 1 \in Nat /\ Len(q) = n + 1 /\ q[n + 1] = b
      /\ \A i \in 1 .. n : q[i] = r[i]
    BY <1>1
<1>3. MaxLine \in Nat
    BY RequestAssumption
<1>4. /\ \A m \in 0 .. n : Reply!Kept(q, m) = Reply!Kept(r, m)
      /\ more = IF b = "nl" THEN {} ELSE IF b = "cr" THEN kept ELSE kept \union {n + 1}
    <2>1. \A m \in 0 .. Len(r) : Reply!Kept(Append(r, b), m) = Reply!Kept(r, m)
        BY KeptSame
    <2>2. Reply!Kept(Append(r, b), Len(r) + 1) =
            IF b = "nl" THEN {}
            ELSE IF b = "cr" THEN Reply!Kept(r, Len(r))
            ELSE Reply!Kept(r, Len(r)) \union {Len(r) + 1}
        BY KeptMore, Zenon
    <2> QED
        BY <1>1, <2>1, <2>2, Zenon
<1>5. /\ c \in Nat /\ least \in 0 .. c /\ kept \in SUBSET (1 .. n)
      /\ before = [k \in 1 .. least |-> r[Reply!InOrder(kept)[k]]]
      /\ \A k \in 1 .. c : Reply!InOrder(kept)[k] \in 1 .. n
    BY <1>1, <1>2, LineIs, KeptIn DEF Place
<1>6. Reply!LineTo(q, n + 1) = [k \in 1 .. most |-> q[Reply!InOrder(more)[k]]]
    <2>1. Reply!LineTo(q, n + 1) = [k \in 1 .. Width(q, n + 1) |-> q[Place(q, n + 1, k)]]
        BY <1>2, LineIs
    <2> QED
        BY <1>1, <2>1, Zenon DEF Place
<1>12. /\ least = IF c <= MaxLine THEN c ELSE MaxLine
       /\ most = IF d <= MaxLine THEN d ELSE MaxLine
    BY <1>1 DEF Width
<1>7. ASSUME NEW m \in 0 .. n PROVE Reply!LineTo(q, m) = Reply!LineTo(r, m)
    <2>1. PICK kept0, c0, least0 :
            /\ kept0 = Reply!Kept(r, m) /\ c0 = Cardinality(kept0) /\ least0 = Width(r, m)
        OBVIOUS
    <2>2. m \in Nat /\ kept0 = Reply!Kept(q, m) /\ least0 = Width(q, m)
        BY <1>2, <1>4, <2>1 DEF Width
    <2>3. /\ c0 \in Nat /\ least0 \in 0 .. c0
          /\ Reply!LineTo(r, m) = [k \in 1 .. least0 |-> r[Reply!InOrder(kept0)[k]]]
          /\ \A k \in 1 .. c0 : Reply!InOrder(kept0)[k] \in 1 .. m
        <3>1. /\ Cardinality(Reply!Kept(r, m)) \in Nat
              /\ Width(r, m) \in 0 .. Cardinality(Reply!Kept(r, m))
              /\ Reply!LineTo(r, m) = [k \in 1 .. Width(r, m) |-> r[Place(r, m, k)]]
              /\ \A k \in 1 .. Cardinality(Reply!Kept(r, m)) : Place(r, m, k) \in 1 .. m
            BY <2>2, LineIs
        <3> QED
            BY <2>1, <3>1, Zenon DEF Place
    <2>4. Reply!LineTo(q, m) = [k \in 1 .. least0 |-> q[Reply!InOrder(kept0)[k]]]
        BY <2>1, <2>2, LineIs DEF Place
    <2>5. \A k \in 1 .. least0 : q[Reply!InOrder(kept0)[k]] = r[Reply!InOrder(kept0)[k]]
        BY <1>2, <2>2, <2>3
    <2> QED
        BY <2>3, <2>4, <2>5
<1>8. ASSUME b = "nl" PROVE Reply!LineTo(q, n + 1) = <<>>
    <2>1. more = {}
        BY <1>4, <1>8
    <2>2. d = 0
        BY <1>1, <2>1, FS_EmptySet
    <2>3. most = 0
        BY <1>3, <1>12, <2>2
    <2> QED
        BY <1>6, <2>3
<1>9. ASSUME b = "cr" PROVE Reply!LineTo(q, n + 1) = before
    <2>1. more = kept /\ most = least
        BY <1>1, <1>4, <1>9, <1>12
    <2>2. \A k \in 1 .. least : q[Reply!InOrder(kept)[k]] = r[Reply!InOrder(kept)[k]]
        BY <1>2, <1>5
    <2> QED
        BY <1>5, <1>6, <2>1, <2>2
<1>10. ASSUME b # "nl", b # "cr"
       PROVE  Reply!LineTo(q, n + 1) = IF Len(before) < MaxLine THEN Append(before, b) ELSE before
    <2>1. more = kept \union {n + 1}
        BY <1>4, <1>10
    <2>2. /\ d = c + 1
          /\ Reply!InOrder(more)[c + 1] = n + 1
          /\ \A k \in 1 .. c : Reply!InOrder(more)[k] = Reply!InOrder(kept)[k]
        <3>1. /\ Cardinality(kept \union {n + 1}) = Cardinality(kept) + 1
              /\ Reply!InOrder(kept \union {n + 1})[Cardinality(kept) + 1] = n + 1
              /\ \A k \in 1 .. Cardinality(kept) :
                    Reply!InOrder(kept \union {n + 1})[k] = Reply!InOrder(kept)[k]
            BY <1>2, <1>5, InOrderMore
        <3> QED
            BY <1>1, <2>1, <3>1, Zenon
    <2>3. \A k \in 1 .. c : q[Reply!InOrder(more)[k]] = r[Reply!InOrder(kept)[k]]
        BY <1>2, <1>5, <2>2
    <2>4. CASE c < MaxLine
        <3>1. least = c /\ most = c + 1
            BY <1>3, <1>5, <1>12, <2>2, <2>4
        <3>2. Len(before) = c /\ \A k \in 1 .. c : before[k] = r[Reply!InOrder(kept)[k]]
            BY <1>5, <3>1
        <3>3. /\ before = [k \in 1 .. c |-> before[k]]
              /\ Reply!LineTo(q, n + 1) = [k \in 1 .. c + 1 |-> q[Reply!InOrder(more)[k]]]
            BY <1>5, <1>6, <3>1
        <3>4. Append(before, b) = [k \in 1 .. c + 1 |-> IF k = c + 1 THEN b ELSE before[k]]
            BY <1>5, <3>2, <3>3
        <3>5. \A k \in 1 .. c + 1 :
                q[Reply!InOrder(more)[k]] = IF k = c + 1 THEN b ELSE before[k]
            BY <1>2, <1>5, <2>2, <2>3, <3>2
        <3>6. Reply!LineTo(q, n + 1) = Append(before, b)
            BY <3>3, <3>4, <3>5
        <3> QED
            BY <2>4, <3>2, <3>6
    <2>5. CASE ~(c < MaxLine)
        <3>1. least = MaxLine /\ most = MaxLine
            BY <1>3, <1>5, <1>12, <2>2, <2>5
        <3>2. \A k \in 1 .. MaxLine : k \in 1 .. c
            BY <1>3, <1>5, <2>5
        <3>3. Len(before) = MaxLine
            BY <1>3, <1>5, <3>1
        <3>4. Reply!LineTo(q, n + 1) = before
            BY <1>5, <1>6, <2>3, <3>1, <3>2
        <3> QED
            BY <1>3, <3>3, <3>4
    <2> QED
        BY <2>4, <2>5
<1>11. /\ \A m \in 0 .. n : Reply!LineTo(q, m) = Reply!LineTo(r, m)
       /\ Reply!LineTo(q, n + 1) =
            IF b = "nl" THEN <<>>
            ELSE IF b # "cr" /\ Len(before) < MaxLine THEN Append(before, b)
            ELSE before
    BY <1>7, <1>8, <1>9, <1>10
<1> QED
    BY <1>1, <1>11, Zenon

LEMMA EndedMore ==
    ASSUME NEW V, NEW r \in Seq(V), NEW b \in V
    PROVE  /\ Reply!Ended(r) \in SUBSET (1 .. Len(r))
           /\ Reply!Ended(Append(r, b)) =
                IF b = "nl" /\ Reply!Kept(r, Len(r)) # {} THEN Reply!Ended(r) \union {Len(r) + 1}
                ELSE Reply!Ended(r)
<1>0. PICK n, q : n = Len(r) /\ q = Append(r, b)
    OBVIOUS
<1>1. /\ n \in Nat /\ DOMAIN q = 1 .. n + 1 /\ DOMAIN r = 1 .. n /\ q[n + 1] = b
      /\ \A i \in 1 .. n : q[i] = r[i]
    BY <1>0
<1>2. \A m \in 0 .. n : Reply!Kept(q, m) = Reply!Kept(r, m)
    <2>1. \A m \in 0 .. Len(r) : Reply!Kept(Append(r, b), m) = Reply!Kept(r, m)
        BY KeptSame
    <2> QED
        BY <1>0, <2>1, Zenon
<1>3. \A i : i \in 1 .. n + 1 <=> i \in 1 .. n \/ i = n + 1
    BY <1>1
<1>4. \A i \in 1 .. n : i - 1 \in 0 .. n
    BY <1>1
<1>5. n + 1 - 1 = n /\ n \in 0 .. n /\ n + 1 \notin 1 .. n
    BY <1>1
<1>6. \A i \in 1 .. n : i \in Reply!Ended(q) <=> i \in Reply!Ended(r)
    BY <1>1, <1>2, <1>3, <1>4 DEF Reply!Ended
<1>7. n + 1 \in Reply!Ended(q) <=> b = "nl" /\ Reply!Kept(r, n) # {}
    BY <1>1, <1>2, <1>3, <1>5 DEF Reply!Ended
<1>8. Reply!Ended(r) \subseteq 1 .. n /\ Reply!Ended(q) \subseteq 1 .. n + 1
    BY <1>1 DEF Reply!Ended
<1>9. ASSUME NEW i
      PROVE  i \in Reply!Ended(q) <=>
                i \in Reply!Ended(r) \/ (i = n + 1 /\ b = "nl" /\ Reply!Kept(r, n) # {})
    BY <1>3, <1>5, <1>6, <1>7, <1>8, Zenon
<1>10. Reply!Ended(q) =
        IF b = "nl" /\ Reply!Kept(r, n) # {} THEN Reply!Ended(r) \union {n + 1}
        ELSE Reply!Ended(r)
    BY <1>9
<1> QED
    BY <1>0, <1>8, <1>10, Zenon

\* What the server has sent, when one more byte comes
LEMMA SentMore ==
    ASSUME NEW V, NEW r \in Seq(V), NEW b \in V
    PROVE  Reply!SentBy(Append(r, b)) =
            IF b = "nl" /\ Reply!LineTo(r, Len(r)) # <<>>
            THEN Append(Reply!SentBy(r), Reply!Event(Reply!LineTo(r, Len(r))))
            ELSE Reply!SentBy(r)
<1>1. PICK n, q, l, kept, ends, c, more, d :
        /\ n = Len(r) /\ q = Append(r, b) /\ l = Reply!LineTo(r, n) /\ kept = Reply!Kept(r, n)
        /\ ends = Reply!Ended(r) /\ c = Cardinality(ends)
        /\ more = Reply!Ended(q) /\ d = Cardinality(more)
    OBVIOUS
<1>2. /\ n \in Nat /\ n + 1 \in Nat /\ MaxLine \in Nat /\ MaxLine # 0
    BY <1>1, RequestAssumption
<1>3. ends \in SUBSET (1 .. n)
      /\ more = IF b = "nl" /\ kept # {} THEN ends \union {n + 1} ELSE ends
    <2>1. /\ Reply!Ended(r) \in SUBSET (1 .. Len(r))
          /\ Reply!Ended(Append(r, b)) =
                IF b = "nl" /\ Reply!Kept(r, Len(r)) # {} THEN Reply!Ended(r) \union {Len(r) + 1}
                ELSE Reply!Ended(r)
        BY EndedMore
    <2> QED
        BY <1>1, <2>1, Zenon
<1>4. l = <<>> <=> kept = {}
    <2>1. PICK w, least : w = Cardinality(kept) /\ least = Width(r, n)
        OBVIOUS
    <2>2. /\ w \in Nat /\ (w = 0 <=> kept = {}) /\ least \in 0 .. w
          /\ l = [k \in 1 .. least |-> r[Place(r, n, k)]]
        BY <1>1, <1>2, <2>1, LineIs
    <2>3. least = 0 <=> w = 0
        BY <1>1, <1>2, <2>1, <2>2 DEF Width
    <2>4. Len(l) = least /\ (least = 0 => l = <<>>)
        BY <2>2
    <2> QED
        BY <2>2, <2>3, <2>4
<1>5. c \in Nat /\ \A k \in 1 .. c : Reply!InOrder(ends)[k] \in 1 .. n
    BY <1>1, <1>2, <1>3, FiniteUpTo, InOrderIs
<1>6. Reply!SentBy(r) =
        [k \in 1 .. c |-> Reply!Event(Reply!LineTo(r, Reply!InOrder(ends)[k] - 1))]
    BY <1>1, SameCardinality DEF Reply!SentBy
<1>7. Reply!SentBy(q) =
        [k \in 1 .. d |-> Reply!Event(Reply!LineTo(q, Reply!InOrder(more)[k] - 1))]
    BY <1>1, SameCardinality DEF Reply!SentBy
<1>8. \A k \in 1 .. c : Reply!LineTo(q, Reply!InOrder(ends)[k] - 1)
                        = Reply!LineTo(r, Reply!InOrder(ends)[k] - 1)
    <2>1. \A m \in 0 .. n : Reply!LineTo(q, m) = Reply!LineTo(r, m)
        <3>1. \A m \in 0 .. Len(r) : Reply!LineTo(Append(r, b), m) = Reply!LineTo(r, m)
            BY LineMore
        <3> QED
            BY <1>1, <3>1, Zenon
    <2>2. \A i \in 1 .. n : i - 1 \in 0 .. n
        BY <1>2
    <2> QED
        BY <1>5, <2>1, <2>2
<1>9. CASE ~(b = "nl" /\ l # <<>>)
    <2>1. more = ends /\ d = c
        BY <1>1, <1>3, <1>4, <1>9
    <2>2. Reply!SentBy(q) = Reply!SentBy(r)
        BY <1>6, <1>7, <1>8, <2>1
    <2> QED
        BY <1>1, <1>9, <2>2, Zenon
<1>10. CASE b = "nl" /\ l # <<>>
    <2>1. more = ends \union {n + 1}
        BY <1>3, <1>4, <1>10
    <2>2. /\ d = c + 1 /\ Reply!InOrder(more)[c + 1] = n + 1
          /\ \A k \in 1 .. c : Reply!InOrder(more)[k] = Reply!InOrder(ends)[k]
        <3>1. /\ Cardinality(ends \union {n + 1}) = Cardinality(ends) + 1
              /\ Reply!InOrder(ends \union {n + 1})[Cardinality(ends) + 1] = n + 1
              /\ \A k \in 1 .. Cardinality(ends) :
                    Reply!InOrder(ends \union {n + 1})[k] = Reply!InOrder(ends)[k]
            BY <1>2, <1>3, InOrderMore
        <3> QED
            BY <1>1, <2>1, <3>1, Zenon
    <2>3. n + 1 - 1 = n /\ n \in 0 .. n
        BY <1>2
    <2>4. Reply!LineTo(q, n) = l
        <3>1. \A m \in 0 .. Len(r) : Reply!LineTo(Append(r, b), m) = Reply!LineTo(r, m)
            BY LineMore
        <3> QED
            BY <1>1, <2>3, <3>1, Zenon
    <2>5. /\ Reply!SentBy(q)[c + 1] = Reply!Event(l) /\ DOMAIN Reply!SentBy(q) = 1 .. c + 1
          /\ \A k \in 1 .. c : Reply!SentBy(q)[k] = Reply!SentBy(r)[k]
        BY <1>5, <1>6, <1>7, <1>8, <2>2, <2>3, <2>4
    <2>6. /\ Reply!SentBy(q) = [k \in 1 .. c + 1 |-> Reply!SentBy(q)[k]]
          /\ Reply!SentBy(r) = [k \in 1 .. c |-> Reply!SentBy(r)[k]]
        BY <1>6, <1>7, <2>2
    <2>7. Append(Reply!SentBy(r), Reply!Event(l)) =
            [k \in 1 .. c + 1 |-> IF k = c + 1 THEN Reply!Event(l) ELSE Reply!SentBy(r)[k]]
        BY <1>5, <2>6
    <2>8. \A k \in 1 .. c + 1 : Reply!SentBy(q)[k] =
                                IF k = c + 1 THEN Reply!Event(l) ELSE Reply!SentBy(r)[k]
        BY <1>5, <2>5
    <2>9. Reply!SentBy(q) = Append(Reply!SentBy(r), Reply!Event(l))
        BY <2>6, <2>7, <2>8
    <2> QED
        BY <1>1, <1>10, <2>9, Zenon
<1> QED
    BY <1>9, <1>10

-----------------------------------------------------------------------------
(***************************************************************************)
(* A fold takes the elements of a sequence one after the other. "read" are *)
(* the bytes of a read, any other the events whose texts are put together. *)
(***************************************************************************)
Put(what, v, x) ==
    IF what = "read" THEN Reply!Step(v, x) ELSE IF x.kind = what THEN v \o x.text ELSE v

IsFold(g, what, base, s, n) ==
    g = [S \in SUBSET (1 .. n) |->
            IF S = {} THEN base ELSE Put(what, g[S \ {Reply!Max(S)}], s[Reply!Max(S)])]

LEMMA LastIsMost ==
    ASSUME NEW m \in Nat, NEW S \in SUBSET (1 .. m + 1), m + 1 \in S
    PROVE  Reply!Max(S) = m + 1
<1>1. \A y \in S : m + 1 >= y /\ y \in Nat
    OBVIOUS
<1>2. \A x \in S : (\A y \in S : x >= y) => x = m + 1
    BY <1>1
<1>3. Reply!Max(S) \in S /\ \A y \in S : Reply!Max(S) >= y
    BY <1>1 DEF Reply!Max
<1> QED
    BY <1>2, <1>3

LEMMA FoldExists ==
    ASSUME NEW what, NEW base, NEW s, NEW n \in Nat
    PROVE  \E g : IsFold(g, what, base, s, n)
<1> DEFINE Folds(g, m) ==
                g = [S \in SUBSET (1 .. m) |->
                        IF S = {} THEN base
                        ELSE Put(what, g[S \ {Reply!Max(S)}], s[Reply!Max(S)])]
           T == {m \in 0 .. n : \E g : Folds(g, m)}
<1>1. 0 \in T
    <2> DEFINE g == [S \in SUBSET (1 .. 0) |-> base]
    <2>1. \A S \in SUBSET (1 .. 0) : S = {}
        OBVIOUS
    <2>2. Folds(g, 0)
        BY <2>1
    <2> QED
        BY <2>2
<1>2. ASSUME NEW m \in 0 .. n, m \in T, m + 1 <= n PROVE m + 1 \in T
    <2>1. PICK g : Folds(g, m)
        BY <1>2
    <2>2. \A S \in SUBSET (1 .. m) :
            g[S] = IF S = {} THEN base ELSE Put(what, g[S \ {Reply!Max(S)}], s[Reply!Max(S)])
        BY <2>1
    <2> DEFINE H(S) == IF m + 1 \in S THEN Put(what, g[S \ {m + 1}], s[m + 1]) ELSE g[S]
               h == [S \in SUBSET (1 .. m + 1) |-> H(S)]
    <2>3. \A S \in SUBSET (1 .. m + 1) : h[S] = H(S)
        OBVIOUS
    <2>4. m \in Nat /\ m + 1 \in 0 .. n /\ m + 1 \notin 1 .. m /\ 1 .. m \subseteq 1 .. m + 1
        BY <1>2
    <2> HIDE DEF h
    <2>5. ASSUME NEW S \in SUBSET (1 .. m + 1)
          PROVE  H(S) = IF S = {} THEN base
                        ELSE Put(what, h[S \ {Reply!Max(S)}], s[Reply!Max(S)])
        <3>1. CASE m + 1 \in S
            <4>1. Reply!Max(S) = m + 1
                BY <2>4, <3>1, LastIsMost
            <4>2. S \ {m + 1} \in SUBSET (1 .. m) /\ S \ {m + 1} \in SUBSET (1 .. m + 1)
                BY <2>4
            <4>3. m + 1 \notin S \ {m + 1}
                OBVIOUS
            <4>4. h[S \ {m + 1}] = g[S \ {m + 1}]
                BY <2>3, <4>2, <4>3
            <4> QED
                BY <3>1, <4>1, <4>4
        <3>2. CASE m + 1 \notin S
            <4>1. S \in SUBSET (1 .. m)
                BY <2>4, <3>2
            <4>2. S \ {Reply!Max(S)} \in SUBSET (1 .. m + 1) /\ m + 1 \notin S \ {Reply!Max(S)}
                BY <3>2
            <4>3. h[S \ {Reply!Max(S)}] = g[S \ {Reply!Max(S)}]
                BY <2>3, <4>2
            <4> QED
                BY <2>2, <3>2, <4>1, <4>3
        <3> QED
            BY <3>1, <3>2
    <2>6. Folds(h, m + 1)
        <3> HIDE DEF H
        <3>1. h = [S \in SUBSET (1 .. m + 1) |-> H(S)]
            BY DEF h
        <3> QED
            BY <2>5, <3>1
    <2> QED
        BY <2>4, <2>6
<1> HIDE DEF T
<1>3. 0 .. n \subseteq T
    BY <1>1, <1>2, UpTo
<1>4. n \in T
    BY <1>3
<1> QED
    BY <1>4 DEF T, IsFold

\* What such a fold has after each element
GoesOn(g, what, base, s, n) ==
    /\ g[1 .. 0] = base
    /\ \A m \in 0 .. n - 1 : g[1 .. m + 1] = Put(what, g[1 .. m], s[m + 1])

LEMMA FoldSteps ==
    ASSUME NEW what, NEW base, NEW s, NEW n \in Nat, NEW g, IsFold(g, what, base, s, n)
    PROVE  GoesOn(g, what, base, s, n)
<1>1. \A S \in SUBSET (1 .. n) :
        g[S] = IF S = {} THEN base ELSE Put(what, g[S \ {Reply!Max(S)}], s[Reply!Max(S)])
    <2> DEFINE F(S) == IF S = {} THEN base
                       ELSE Put(what, g[S \ {Reply!Max(S)}], s[Reply!Max(S)])
    <2>1. g = [S \in SUBSET (1 .. n) |-> F(S)]
        BY Zenon DEF IsFold
    <2> HIDE DEF F
    <2>2. \A S \in SUBSET (1 .. n) : g[S] = F(S)
        BY <2>1
    <2> QED
        BY <2>2 DEF F
<1>2. 1 .. 0 = {} /\ 1 .. 0 \in SUBSET (1 .. n)
    OBVIOUS
<1>3. ASSUME NEW m \in 0 .. n - 1 PROVE g[1 .. m + 1] = Put(what, g[1 .. m], s[m + 1])
    <2>1. /\ m \in Nat /\ m + 1 \in 1 .. m + 1 /\ 1 .. m + 1 \in SUBSET (1 .. n)
          /\ 1 .. m + 1 # {} /\ (1 .. m + 1) \ {m + 1} = 1 .. m
        OBVIOUS
    <2>2. Reply!Max(1 .. m + 1) = m + 1
        BY <2>1, LastIsMost
    <2> QED
        BY <1>1, <2>1, <2>2
<1> QED
    BY <1>1, <1>2, <1>3 DEF GoesOn

-----------------------------------------------------------------------------
LEMMA ReadSteps ==
    ASSUME NEW bytes, NEW n \in Nat, DOMAIN bytes = 1 .. n
    PROVE  \E v : /\ v[0] = [line |-> line, reply |-> reply, reasoning |-> reasoning]
                  /\ \A m \in 0 .. n - 1 : v[m + 1] = Reply!Step(v[m], bytes[m + 1])
                  /\ Reply!Read(bytes) = v[n]
<1> DEFINE base == [line |-> line, reply |-> reply, reasoning |-> reasoning]
           Folds(g) ==
                g = [S \in SUBSET (DOMAIN bytes) |->
                        IF S = {} THEN base
                        ELSE Reply!Step(g[S \ {Reply!Max(S)}], bytes[Reply!Max(S)])]
           fold == CHOOSE g : Folds(g)
<1>1. Reply!Read(bytes) = fold[DOMAIN bytes]
    BY Zenon DEF Reply!Read, Reply!FoldLeft, Reply!MapThenFoldSet
<1>2. \A w, x : Put("read", w, x) = Reply!Step(w, x)
    BY DEF Put
<1> HIDE DEF base
<1>3. \E g : Folds(g)
    <2>1. PICK g : IsFold(g, "read", base, bytes, n)
        BY FoldExists
    <2>3. g = [S \in SUBSET (1 .. n) |->
                IF S = {} THEN base ELSE Put("read", g[S \ {Reply!Max(S)}], bytes[Reply!Max(S)])]
        BY <2>1, Zenon DEF IsFold
    <2>2. Folds(g)
        BY <2>3, <1>2, <2>1
    <2> QED
        BY <2>2
<1> HIDE DEF Folds
<1>4. Folds(fold)
    BY <1>3, Zenon
<1> HIDE DEF fold
<1>11. IsFold(fold, "read", base, bytes, n)
    <2>1. fold = [S \in SUBSET (1 .. n) |->
                    IF S = {} THEN base
                    ELSE Put("read", fold[S \ {Reply!Max(S)}], bytes[Reply!Max(S)])]
        BY <1>2, <1>4 DEF Folds
    <2> QED
        BY <2>1, Zenon DEF IsFold
<1>6. /\ fold[1 .. 0] = base
      /\ \A m \in 0 .. n - 1 : fold[1 .. m + 1] = Put("read", fold[1 .. m], bytes[m + 1])
    <2>1. GoesOn(fold, "read", base, bytes, n)
        BY <1>11, FoldSteps
    <2> QED
        BY <2>1, Zenon DEF GoesOn
<1> DEFINE v == [m \in 0 .. n |-> fold[1 .. m]]
<1>7. \A m \in 0 .. n - 1 : m \in 0 .. n /\ m + 1 \in 0 .. n
    OBVIOUS
<1>8. v[0] = base /\ v[n] = fold[DOMAIN bytes]
    BY <1>6
<1>9. \A m \in 0 .. n - 1 : v[m + 1] = Reply!Step(v[m], bytes[m + 1])
    BY <1>2, <1>6, <1>7
<1> HIDE DEF v
<1> QED
    BY <1>1, <1>8, <1>9 DEF base

LEMMA TextsSteps ==
    ASSUME NEW evs, NEW n \in Nat, DOMAIN evs = 1 .. n, NEW kind, kind # "read"
    PROVE  \E v : /\ v[0] = <<>>
                  /\ \A m \in 0 .. n - 1 :
                        v[m + 1] = IF evs[m + 1].kind = kind THEN v[m] \o evs[m + 1].text ELSE v[m]
                  /\ Reply!Promised!Texts(evs, kind) = v[n]
<1> DEFINE Folds(g) ==
                g = [S \in SUBSET (DOMAIN evs) |->
                        IF S = {} THEN <<>>
                        ELSE IF evs[Reply!Promised!Max(S)].kind = kind
                        THEN g[S \ {Reply!Promised!Max(S)}] \o evs[Reply!Promised!Max(S)].text
                        ELSE g[S \ {Reply!Promised!Max(S)}]]
           fold == CHOOSE g : Folds(g)
<1>1. Reply!Promised!Texts(evs, kind) = fold[DOMAIN evs]
    BY Zenon DEF Reply!Promised!Texts, Reply!Promised!FoldLeft, Reply!Promised!MapThenFoldSet
<1>2. \A w, x : Put(kind, w, x) = IF x.kind = kind THEN w \o x.text ELSE w
    BY DEF Put
<1>10. \A S : Reply!Promised!Max(S) = Reply!Max(S)
    BY DEF Reply!Promised!Max, Reply!Max
<1>3. \E g : Folds(g)
    <2>1. PICK g : IsFold(g, kind, <<>>, evs, n)
        BY FoldExists
    <2>3. g = [S \in SUBSET (1 .. n) |->
                IF S = {} THEN <<>> ELSE Put(kind, g[S \ {Reply!Max(S)}], evs[Reply!Max(S)])]
        BY <2>1, Zenon DEF IsFold
    <2>2. Folds(g)
        BY <2>3, <1>2, <1>10, <2>1
    <2> QED
        BY <2>2
<1> HIDE DEF Folds
<1>4. Folds(fold)
    BY <1>3, Zenon
<1> HIDE DEF fold
<1>11. IsFold(fold, kind, <<>>, evs, n)
    <2> DEFINE F(S) == IF S = {} THEN <<>>
                       ELSE IF evs[Reply!Promised!Max(S)].kind = kind
                       THEN fold[S \ {Reply!Promised!Max(S)}] \o evs[Reply!Promised!Max(S)].text
                       ELSE fold[S \ {Reply!Promised!Max(S)}]
               G(S) == IF S = {} THEN <<>>
                       ELSE Put(kind, fold[S \ {Reply!Max(S)}], evs[Reply!Max(S)])
    <2>2. fold = [S \in SUBSET (1 .. n) |-> F(S)]
        BY <1>4, Zenon DEF Folds
    <2>3. \A S : F(S) = G(S)
        BY <1>2, <1>10
    <2> HIDE DEF F, G
    <2>4. fold = [S \in SUBSET (1 .. n) |-> G(S)]
        BY <2>2, <2>3
    <2>1. fold = [S \in SUBSET (1 .. n) |->
                    IF S = {} THEN <<>>
                    ELSE Put(kind, fold[S \ {Reply!Max(S)}], evs[Reply!Max(S)])]
        BY <2>4, Zenon DEF G
    <2> QED
        BY <2>1, Zenon DEF IsFold
<1>6. /\ fold[1 .. 0] = <<>>
      /\ \A m \in 0 .. n - 1 : fold[1 .. m + 1] = Put(kind, fold[1 .. m], evs[m + 1])
    <2>1. GoesOn(fold, kind, <<>>, evs, n)
        BY <1>11, FoldSteps
    <2> QED
        BY <2>1, Zenon DEF GoesOn
<1> DEFINE v == [m \in 0 .. n |-> fold[1 .. m]]
<1>7. \A m \in 0 .. n - 1 : m \in 0 .. n /\ m + 1 \in 0 .. n
    OBVIOUS
<1>8. v[0] = <<>> /\ v[n] = fold[DOMAIN evs]
    BY <1>6
<1>9. \A m \in 0 .. n - 1 :
        v[m + 1] = IF evs[m + 1].kind = kind THEN v[m] \o evs[m + 1].text ELSE v[m]
    BY <1>2, <1>6, <1>7
<1> HIDE DEF v
<1> QED
    BY <1>1, <1>8, <1>9

LEMMA TextsMore ==
    ASSUME NEW V, NEW evs \in Seq(V), NEW e \in V, NEW kind, kind # "read"
    PROVE  Reply!Promised!Texts(Append(evs, e), kind) =
            IF e.kind = kind THEN Reply!Promised!Texts(evs, kind) \o e.text
            ELSE Reply!Promised!Texts(evs, kind)
<1>1. PICK n, more : n = Len(evs) /\ more = Append(evs, e)
    OBVIOUS
<1>2. /\ n \in Nat /\ n + 1 \in Nat /\ DOMAIN evs = 1 .. n /\ DOMAIN more = 1 .. n + 1
      /\ more[n + 1] = e /\ \A i \in 1 .. n : more[i] = evs[i]
    BY <1>1
<1>3. PICK v : /\ v[0] = <<>>
               /\ \A m \in 0 .. n - 1 :
                    v[m + 1] = IF evs[m + 1].kind = kind THEN v[m] \o evs[m + 1].text ELSE v[m]
               /\ Reply!Promised!Texts(evs, kind) = v[n]
    BY <1>2, TextsSteps
<1>4. PICK w : /\ w[0] = <<>>
               /\ \A m \in 0 .. n + 1 - 1 :
                    w[m + 1] = IF more[m + 1].kind = kind THEN w[m] \o more[m + 1].text ELSE w[m]
               /\ Reply!Promised!Texts(more, kind) = w[n + 1]
    BY <1>2, TextsSteps
<1> DEFINE T == {m \in 0 .. n : w[m] = v[m]}
<1>5. 0 \in T
    BY <1>2, <1>3, <1>4
<1>6. ASSUME NEW m \in 0 .. n, m \in T, m + 1 <= n PROVE m + 1 \in T
    <2>1. m \in 0 .. n - 1 /\ m \in 0 .. n + 1 - 1 /\ m + 1 \in 1 .. n /\ m + 1 \in 0 .. n
        BY <1>2, <1>6
    <2>2. w[m] = v[m] /\ more[m + 1] = evs[m + 1]
        BY <1>2, <1>6, <2>1
    <2>3. w[m + 1] = v[m + 1]
        BY <1>3, <1>4, <2>1, <2>2
    <2> QED
        BY <2>1, <2>3
<1> HIDE DEF T
<1>7. 0 .. n \subseteq T
    BY <1>2, <1>5, <1>6, UpTo
<1>8. w[n] = v[n] /\ n \in 0 .. n + 1 - 1
    BY <1>2, <1>7 DEF T
<1>9. w[n + 1] = IF e.kind = kind THEN v[n] \o e.text ELSE v[n]
    BY <1>2, <1>4, <1>8
<1> QED
    BY <1>1, <1>3, <1>4, <1>9, Zenon

LEMMA TextsOfNone ==
    ASSUME NEW kind, kind # "read"
    PROVE  Reply!Promised!Texts(<<>>, kind) = <<>>
<1>1. DOMAIN <<>> = 1 .. 0 /\ 0 \in Nat
    OBVIOUS
<1>2. PICK v : v[0] = <<>> /\ Reply!Promised!Texts(<<>>, kind) = v[0]
    BY <1>1, TextsSteps
<1> QED
    BY <1>2

-----------------------------------------------------------------------------
\* What a server has sent, and what the client makes of it
Begins(s, t) == Len(s) <= Len(t) /\ \A i \in 1 .. Len(s) : t[i] = s[i]
Shows(r) ==
    [line |-> Reply!LineTo(r, Len(r)),
     reply |-> Reply!Promised!Texts(Reply!SentBy(r), "content"),
     reasoning |-> Reply!Promised!Texts(Reply!SentBy(r), "reasoning")]

LEMMA SentIsSeq ==
    ASSUME NEW V, NEW r \in Seq(V), NEW e
    PROVE  \E W : Reply!SentBy(r) \in Seq(W) /\ e \in W
<1>1. PICK c : c = Cardinality(Reply!Ended(r))
    OBVIOUS
<1>2. Len(r) \in Nat /\ DOMAIN r = 1 .. Len(r)
    OBVIOUS
<1>3. Reply!Ended(r) \in SUBSET (1 .. Len(r))
    BY <1>2 DEF Reply!Ended
<1>4. c \in Nat
    BY <1>1, <1>2, <1>3, FiniteUpTo
<1>5. Reply!SentBy(r) =
        [k \in 1 .. c |-> Reply!Event(Reply!LineTo(r, Reply!InOrder(Reply!Ended(r))[k] - 1))]
    BY <1>1, SameCardinality DEF Reply!SentBy
<1> DEFINE F(k) == Reply!Event(Reply!LineTo(r, Reply!InOrder(Reply!Ended(r))[k] - 1))
           W == {F(k) : k \in 1 .. c} \union {e}
<1>6. Reply!SentBy(r) = [k \in 1 .. c |-> F(k)]
    BY <1>5
<1> HIDE DEF F
<1>7. Reply!SentBy(r) \in Seq(W)
    BY <1>4, <1>6
<1> QED
    BY <1>7

LEMMA ByteShows ==
    ASSUME NEW V, NEW r \in Seq(V), NEW b \in V
    PROVE  /\ Reply!Step(Shows(r), b) = Shows(Append(r, b))
           /\ Begins(Reply!SentBy(r), Reply!SentBy(Append(r, b)))
           /\ Len(Reply!SentBy(r)) \in Nat
<1>1. PICK n, q, l, sent, more :
        /\ n = Len(r) /\ q = Append(r, b) /\ l = Reply!LineTo(r, n)
        /\ sent = Reply!SentBy(r) /\ more = Reply!SentBy(q)
    OBVIOUS
<1>2. Len(q) = n + 1
    BY <1>1
<1>3. PICK W : sent \in Seq(W) /\ Reply!Event(l) \in W
    BY <1>1, SentIsSeq
<1>4. more = IF b = "nl" /\ l # <<>> THEN Append(sent, Reply!Event(l)) ELSE sent
    <2>1. Reply!SentBy(Append(r, b)) =
            IF b = "nl" /\ Reply!LineTo(r, Len(r)) # <<>>
            THEN Append(Reply!SentBy(r), Reply!Event(Reply!LineTo(r, Len(r))))
            ELSE Reply!SentBy(r)
        BY SentMore
    <2> QED
        BY <1>1, <2>1, Zenon
<1>5. Reply!LineTo(q, n + 1) =
        IF b = "nl" THEN <<>>
        ELSE IF b # "cr" /\ Len(l) < MaxLine THEN Append(l, b) ELSE l
    <2>1. Reply!LineTo(Append(r, b), Len(r) + 1) =
            IF b = "nl" THEN <<>>
            ELSE IF b # "cr" /\ Len(Reply!LineTo(r, Len(r))) < MaxLine
            THEN Append(Reply!LineTo(r, Len(r)), b)
            ELSE Reply!LineTo(r, Len(r))
        BY LineMore
    <2> QED
        BY <1>1, <2>1, Zenon
<1>6. PICK said, thought :
        /\ said = Reply!Promised!Texts(sent, "content")
        /\ thought = Reply!Promised!Texts(sent, "reasoning")
    OBVIOUS
<1>7. /\ Shows(r) = [line |-> l, reply |-> said, reasoning |-> thought]
      /\ Shows(q) = [line |-> Reply!LineTo(q, n + 1),
                     reply |-> Reply!Promised!Texts(more, "content"),
                     reasoning |-> Reply!Promised!Texts(more, "reasoning")]
    BY <1>1, <1>2, <1>6, Zenon DEF Shows
<1>8. Len(sent) \in Nat /\ Begins(sent, more)
    BY <1>3, <1>4 DEF Begins
<1>9. Reply!Step(Shows(r), b) = Shows(q)
    <2>1. PICK s : s = Shows(r)
        OBVIOUS
    <2>2. s.line = l /\ s.reply = said /\ s.reasoning = thought
        BY <1>7, <2>1
    <2>3. CASE b = "nl" /\ l = <<>>
        <3>1. Reply!Step(s, b) = [line |-> <<>>, reply |-> said, reasoning |-> thought]
            BY <2>2, <2>3 DEF Reply!Step, Reply!NoEvent
        <3>2. more = sent /\ Reply!LineTo(q, n + 1) = <<>>
            BY <1>4, <1>5, <2>3
        <3> QED
            BY <1>6, <1>7, <2>1, <3>1, <3>2, Zenon
    <2>4. CASE b = "nl" /\ l # <<>>
        <3>1. PICK e : e = Reply!Event(l)
            OBVIOUS
        <3>2. Reply!Step(s, b) =
                [line |-> <<>>,
                 reply |-> IF e.kind = "content" THEN said \o e.text ELSE said,
                 reasoning |-> IF e.kind = "reasoning" THEN thought \o e.text ELSE thought]
            BY <2>2, <2>4, <3>1, Zenon DEF Reply!Step
        <3>3. more = Append(sent, e) /\ Reply!LineTo(q, n + 1) = <<>>
            BY <1>4, <1>5, <2>4, <3>1
        <3>4. Reply!Promised!Texts(Append(sent, e), "content") =
                IF e.kind = "content" THEN said \o e.text ELSE said
            <4>1. sent \in Seq(W) /\ e \in W /\ "content" # "read"
                BY <1>3, <3>1
            <4>2. Reply!Promised!Texts(Append(sent, e), "content") =
                    IF e.kind = "content" THEN Reply!Promised!Texts(sent, "content") \o e.text
                    ELSE Reply!Promised!Texts(sent, "content")
                BY <4>1, TextsMore
            <4> QED
                BY <1>6, <4>2, Zenon
        <3>5. Reply!Promised!Texts(Append(sent, e), "reasoning") =
                IF e.kind = "reasoning" THEN thought \o e.text ELSE thought
            <4>1. sent \in Seq(W) /\ e \in W /\ "reasoning" # "read"
                BY <1>3, <3>1
            <4>2. Reply!Promised!Texts(Append(sent, e), "reasoning") =
                    IF e.kind = "reasoning" THEN Reply!Promised!Texts(sent, "reasoning") \o e.text
                    ELSE Reply!Promised!Texts(sent, "reasoning")
                BY <4>1, TextsMore
            <4> QED
                BY <1>6, <4>2, Zenon
        <3> QED
            BY <1>7, <2>1, <3>2, <3>3, <3>4, <3>5, Zenon
    <2>5. CASE b # "nl"
        <3>1. more = sent
            BY <1>4, <2>5
        <3>2. Reply!Step(s, b) =
                [line |-> Reply!LineTo(q, n + 1), reply |-> said, reasoning |-> thought]
            <4>1. CASE b # "cr" /\ Len(l) < MaxLine
                <5>1. Reply!Step(s, b) = [s EXCEPT !.line = Append(l, b)]
                    BY <2>2, <2>5, <4>1 DEF Reply!Step
                <5>2. Reply!LineTo(q, n + 1) = Append(l, b)
                    BY <1>5, <2>5, <4>1
                <5>3. s = [line |-> l, reply |-> said, reasoning |-> thought]
                    BY <1>7, <2>1
                <5>4. [s EXCEPT !.line = Append(l, b)] =
                        [line |-> Append(l, b), reply |-> said, reasoning |-> thought]
                    <6>1. PICK x : x = Append(l, b)
                        OBVIOUS
                    <6>2. [s EXCEPT !.line = x] = [line |-> x, reply |-> said, reasoning |-> thought]
                        BY <5>3
                    <6> QED
                        BY <6>1, <6>2, Zenon
                <5> QED
                    BY <5>1, <5>2, <5>4
            <4>2. CASE ~(b # "cr" /\ Len(l) < MaxLine)
                <5>1. Reply!Step(s, b) = s
                    BY <2>2, <2>5, <4>2 DEF Reply!Step
                <5>2. Reply!LineTo(q, n + 1) = l
                    BY <1>5, <2>5, <4>2
                <5> QED
                    BY <1>7, <2>1, <5>1, <5>2
            <4> QED
                BY <4>1, <4>2
        <3> QED
            BY <1>6, <1>7, <2>1, <3>1, <3>2, Zenon
    <2> QED
        BY <2>3, <2>4, <2>5
<1> QED
    BY <1>1, <1>8, <1>9, Zenon

LEMMA ReadShows ==
    ASSUME NEW V, NEW r \in Seq(V), NEW bytes \in Seq(V),
           [line |-> line, reply |-> reply, reasoning |-> reasoning] = Shows(r)
    PROVE  /\ Reply!Read(bytes) = Shows(r \o bytes)
           /\ Begins(Reply!SentBy(r), Reply!SentBy(r \o bytes))
<1>1. PICK n, len : n = Len(bytes) /\ len = Len(r)
    OBVIOUS
<1>2. n \in Nat /\ len \in Nat /\ DOMAIN bytes = 1 .. n
    BY <1>1
<1>3. PICK v : /\ v[0] = [line |-> line, reply |-> reply, reasoning |-> reasoning]
               /\ \A m \in 0 .. n - 1 : v[m + 1] = Reply!Step(v[m], bytes[m + 1])
               /\ Reply!Read(bytes) = v[n]
    BY <1>2, ReadSteps
<1> DEFINE So(m) == r \o SubSeq(bytes, 1, m)
           T == {m \in 0 .. n : v[m] = Shows(So(m))
                                /\ Begins(Reply!SentBy(r), Reply!SentBy(So(m)))}
<1>4. So(0) = r /\ So(n) = r \o bytes
    <2>1. SubSeq(bytes, 1, 0) = <<>> /\ SubSeq(bytes, 1, n) = bytes
        BY <1>1, <1>2
    <2>2. r \o <<>> = r
        OBVIOUS
    <2> QED
        BY <2>1, <2>2, Zenon
<1>5. ASSUME NEW m \in 0 .. n
      PROVE  So(m) \in Seq(V) /\ (m + 1 <= n => bytes[m + 1] \in V
                                                /\ So(m + 1) = Append(So(m), bytes[m + 1]))
    <2>1. SubSeq(bytes, 1, m) \in Seq(V)
        BY <1>1, <1>2
    <2>2. ASSUME m + 1 <= n
          PROVE  bytes[m + 1] \in V /\ SubSeq(bytes, 1, m + 1) = Append(SubSeq(bytes, 1, m), bytes[m + 1])
        <3>1. m + 1 \in 1 .. n /\ m \in Nat
            BY <1>2, <2>2
        <3> QED
            BY <1>1, <1>2, <2>2, <3>1
    <2>3. ASSUME m + 1 <= n PROVE So(m + 1) = Append(So(m), bytes[m + 1])
        <3>1. So(m + 1) = r \o Append(SubSeq(bytes, 1, m), bytes[m + 1])
            BY <2>2, <2>3
        <3>2. \A s \in Seq(V) : \A b \in V : r \o Append(s, b) = Append(r \o s, b)
            OBVIOUS
        <3> QED
            BY <2>1, <2>2, <2>3, <3>1, <3>2
    <2> QED
        BY <2>1, <2>2, <2>3
<1>6. 0 \in T
    <2>1. Len(Reply!SentBy(r)) \in Nat
        <3>1. PICK W : Reply!SentBy(r) \in Seq(W)
            BY SentIsSeq
        <3> QED
            BY <3>1
    <2>2. Begins(Reply!SentBy(r), Reply!SentBy(r))
        BY <2>1 DEF Begins
    <2>3. v[0] = Shows(r)
        BY <1>3
    <2> HIDE DEF So
    <2> QED
        BY <1>2, <1>4, <2>2, <2>3
<1> HIDE DEF So
<1>7. ASSUME NEW m \in 0 .. n, m \in T, m + 1 <= n PROVE m + 1 \in T
    <2>1. /\ m \in 0 .. n - 1 /\ m + 1 \in 0 .. n
          /\ So(m) \in Seq(V) /\ bytes[m + 1] \in V /\ So(m + 1) = Append(So(m), bytes[m + 1])
        BY <1>2, <1>5, <1>7
    <2>2. v[m] = Shows(So(m)) /\ Begins(Reply!SentBy(r), Reply!SentBy(So(m)))
        BY <1>7
    <2>3. /\ Reply!Step(Shows(So(m)), bytes[m + 1]) = Shows(Append(So(m), bytes[m + 1]))
          /\ Begins(Reply!SentBy(So(m)), Reply!SentBy(Append(So(m), bytes[m + 1])))
          /\ Len(Reply!SentBy(So(m))) \in Nat
        BY <2>1, ByteShows
    <2>4. v[m + 1] = Shows(So(m + 1))
        BY <1>3, <2>1, <2>2, <2>3
    <2>5. Begins(Reply!SentBy(So(m)), Reply!SentBy(So(m + 1)))
        BY <2>1, <2>3
    <2>6. Begins(Reply!SentBy(r), Reply!SentBy(So(m + 1)))
        <3>1. PICK s, t, u : s = Reply!SentBy(r) /\ t = Reply!SentBy(So(m))
                            /\ u = Reply!SentBy(So(m + 1))
            OBVIOUS
        <3>2. Len(s) \in Nat /\ Len(t) \in Nat /\ Len(u) \in Nat
            <4>1. So(m + 1) \in Seq(V)
                BY <1>5, <2>1
            <4>2. PICK A, B, C : s \in Seq(A) /\ t \in Seq(B) /\ u \in Seq(C)
                BY <2>1, <3>1, <4>1, SentIsSeq
            <4> QED
                BY <4>2
        <3> QED
            BY <2>2, <2>5, <3>1, <3>2 DEF Begins
    <2> QED
        BY <2>1, <2>4, <2>6
<1> HIDE DEF T
<1>8. 0 .. n \subseteq T
    BY <1>2, <1>6, <1>7, UpTo
<1>9. n \in T
    BY <1>2, <1>8
<1>10. v[n] = Shows(So(n)) /\ Begins(Reply!SentBy(r), Reply!SentBy(So(n)))
    BY <1>9 DEF T
<1> QED
    BY <1>3, <1>4, <1>10, Zenon

-----------------------------------------------------------------------------
\* The buffer and the two texts are those of the bytes received.
RelayInv ==
    /\ received \in Seq(Reply!Byte)
    /\ [line |-> line, reply |-> reply, reasoning |-> reasoning] = Shows(received)

\* Whatever is read, what the parsers make of it depends on the API.
LEMMA SameSent ==
    ASSUME anthropic' = anthropic
    PROVE  /\ Reply!Sent' = Reply!SentBy(received')
           /\ Shows(received)' = Shows(received')
<1>1. Reply!Sent' = Reply!SentBy(received')
    BY DEF Reply!Sent, Reply!SentBy, Reply!Event, Reply!AnthropicEvent, Reply!OpenAiEvent
<1> QED
    BY <1>1 DEF Reply!Sent, Shows

LEMMA RelayInit == Reply!Init => RelayInv /\ Reply!Promised!Init
<1> SUFFICES ASSUME Reply!Init PROVE RelayInv /\ Reply!Promised!Init
    OBVIOUS
<1>1. received = <<>> /\ line = <<>> /\ reply = <<>> /\ reasoning = <<>>
    BY DEF Reply!Init
<1>2. Reply!Kept(<<>>, 0) = {} /\ Reply!Ended(<<>>) = {}
    BY DEF Reply!Kept, Reply!Ended
<1>3. Reply!LineTo(<<>>, 0) = <<>>
    <2>1. /\ Width(<<>>, 0) \in 0 .. Cardinality(Reply!Kept(<<>>, 0))
          /\ Reply!LineTo(<<>>, 0) = [k \in 1 .. Width(<<>>, 0) |-> <<>>[Place(<<>>, 0, k)]]
        BY LineIs
    <2>2. Width(<<>>, 0) = 0
        BY <1>2, <2>1, FS_EmptySet
    <2> QED
        BY <2>1, <2>2
<1>4. Reply!SentBy(<<>>) = <<>>
    <2>1. Reply!Cardinality(Reply!Ended(<<>>)) = 0
        BY <1>2, SameCardinality, FS_EmptySet
    <2> QED
        BY <2>1 DEF Reply!SentBy
<1>5. /\ Reply!Promised!Texts(<<>>, "content") = <<>>
      /\ Reply!Promised!Texts(<<>>, "reasoning") = <<>>
    BY TextsOfNone
<1>6. Len(<<>>) = 0 /\ <<>> \in Seq(Reply!Byte)
    OBVIOUS
<1>7. Shows(<<>>) = [line |-> <<>>, reply |-> <<>>, reasoning |-> <<>>]
    BY <1>3, <1>4, <1>5, <1>6, Zenon DEF Shows
<1> QED
    BY <1>1, <1>4, <1>6, <1>7 DEF RelayInv, Reply!Promised!Init, Reply!Sent

LEMMA RelayStep ==
    ASSUME RelayInv, [RequestNext]_requestVars
    PROVE  RelayInv' /\ [Reply!Promised!Next]_(Reply!Promised!relayVars)
<1>1. CASE UNCHANGED <<anthropic, received, line, reply, reasoning>>
    <2>1. Reply!Sent' = Reply!Sent
        BY <1>1, SameSent DEF Reply!Sent
    <2>2. RelayInv'
        <3>1. Shows(received)' = Shows(received)
            BY <1>1, SameSent
        <3> QED
            BY <1>1, <3>1 DEF RelayInv
    <2> QED
        BY <1>1, <2>1, <2>2 DEF Reply!Promised!relayVars
<1>2. CASE Reply!Receive
    <2>1. PICK bytes \in Reply!SeqOf(Reply!Byte, MaxRead) :
            /\ received' = received \o bytes
            /\ line' = Reply!Read(bytes).line /\ reply' = Reply!Read(bytes).reply
            /\ reasoning' = Reply!Read(bytes).reasoning
        BY <1>2 DEF Reply!Receive
    <2>2. anthropic' = anthropic
        BY <1>2 DEF Reply!Receive
    <2>3. bytes \in Seq(Reply!Byte)
        <3>1. PICK m \in 0 .. MaxRead : bytes \in [1 .. m -> Reply!Byte]
            BY DEF Reply!SeqOf
        <3> QED
            BY <3>1
    <2>4. received \in Seq(Reply!Byte)
        BY DEF RelayInv
    <2>5. /\ Reply!Read(bytes) = Shows(received')
          /\ Begins(Reply!SentBy(received), Reply!SentBy(received'))
        BY <2>1, <2>3, <2>4, ReadShows DEF RelayInv
    <2>6. received' \in Seq(Reply!Byte)
        BY <2>1, <2>3, <2>4
    <2>7. [line |-> line', reply |-> reply', reasoning |-> reasoning'] = Shows(received')
        BY <2>1, <2>5 DEF Shows
    <2>8. RelayInv'
        BY <2>2, <2>6, <2>7, SameSent DEF RelayInv
    <2>9. Reply!Promised!Deliver
        <3>1. PICK s, t : s = Reply!Sent /\ t = Reply!Sent'
            OBVIOUS
        <3>2. s = Reply!SentBy(received) /\ t = Reply!SentBy(received')
            BY <2>2, <3>1, SameSent DEF Reply!Sent
        <3>3. PICK A, B : s \in Seq(A) /\ t \in Seq(B)
            BY <2>4, <2>6, <3>2, SentIsSeq
        <3>4. Reply!Promised!IsPrefix(s, t)
            BY <2>5, <3>2, <3>3 DEF Begins, Reply!Promised!IsPrefix
        <3>5. /\ reply' = Reply!Promised!Texts(t, "content")
              /\ reasoning' = Reply!Promised!Texts(t, "reasoning")
            BY <2>1, <2>5, <3>2 DEF Shows
        <3> QED
            BY <3>1, <3>4, <3>5, Zenon DEF Reply!Promised!Deliver
    <2> QED
        BY <2>8, <2>9 DEF Reply!Promised!Next
<1>3. CASE Reply!End
    BY <1>1, <1>3 DEF Reply!End
<1>4. CASE UNCHANGED replyVars
    BY <1>1, <1>4 DEF replyVars
<1>5. UNCHANGED replyVars \/ Reply!Next
    BY DEF RequestNext, requestVars
<1> QED
    BY <1>2, <1>3, <1>4, <1>5 DEF Reply!Next

\* Stream implements Relay: whatever the cuts between the reads, the content and
\* the reasoning that stream_callback and the parsers have put together are the
\* texts of the server's events, in order, each once (llm/common.c).
THEOREM ReplyIsRelayed == RequestSpec => IsRelay
<1>1. RequestInit => RelayInv /\ Reply!Promised!Init
    BY RelayInit DEF RequestInit
<1>2. RelayInv /\ [RequestNext]_requestVars
        => RelayInv' /\ [Reply!Promised!Next]_(Reply!Promised!relayVars)
    BY RelayStep
<1> QED
    BY <1>1, <1>2, PTL DEF RequestSpec, IsRelay, Reply!IsRelay, Reply!Promised!Spec
=============================================================================
