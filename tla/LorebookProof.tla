--------------------------- MODULE LorebookProof ---------------------------
(***************************************************************************)
(* For every file: loading keeps uids apart although it renames entries    *)
(* that it added before, because a rename exchanges two uids. A uid that   *)
(* the new entry was given and another entry has already is taken from     *)
(* that entry, which gets the uid of the file.                             *)
(***************************************************************************)
EXTENDS Lorebook, SequenceTheorems, TLAPS

Inv == TypeOK /\ UidsAreTheFiles

\* A function on 1 .. n is a sequence of length n.
LEMMA FunctionIsSeq ==
    ASSUME NEW S, NEW n \in Nat, NEW f \in [1 .. n -> S]
    PROVE  f \in Seq(S) /\ Len(f) = n
<1>1. f \in Seq(S)
    BY SeqDef
<1> QED
    BY <1>1, LenProperties

\* The entries that the loader has after one more, place by place
LEMMA LoadedPlaces ==
    ASSUME TypeOK, NEW u \in Int, NEW off \in BOOLEAN
    PROVE  LET k == Len(entries)
               a == Added(off)
               e == Loaded(u, off)
           IN  /\ k \in Nat /\ next_uid = k + 1
               /\ a \in Seq(LoreEntry) /\ Len(a) = k + 1 /\ a[k + 1].uid = k + 1
               /\ \A i \in 1 .. k : a[i] = entries[i]
               /\ e \in Seq(LoreEntry) /\ Len(e) = k + 1
               /\ \A i \in 1 .. k + 1 :
                     e[i].uid = IF i \in GetEntry(a, k + 1) THEN u ELSE a[i].uid
<1> DEFINE k == Len(entries)
           a == Added(off)
           e == Loaded(u, off)
           x == [uid |-> next_uid, disabled |-> off]
<1>1. k \in Nat /\ next_uid = k + 1 /\ entries \in Seq(LoreEntry)
    BY DEF TypeOK
<1>2. x \in LoreEntry
    BY <1>1 DEF LoreEntry
<1>3. /\ a \in Seq(LoreEntry) /\ Len(a) = k + 1 /\ a[k + 1] = x
      /\ \A i \in 1 .. k : a[i] = entries[i]
    BY <1>1, <1>2, AppendProperties DEF Added
<1>4. DOMAIN a = 1 .. k + 1 /\ \A i \in 1 .. k + 1 : a[i] \in LoreEntry
    BY <1>1, <1>3, LenProperties, ElementOfSeq
<1> HIDE DEF a, x, k
<1>5. e = [i \in DOMAIN a |-> IF i \in GetEntry(a, k + 1) THEN [a[i] EXCEPT !.uid = u] ELSE a[i]]
    BY <1>1 DEF Loaded, Renamed, a, k
<1>6. e \in [1 .. k + 1 -> LoreEntry]
    BY <1>4, <1>5 DEF LoreEntry
<1>7. e \in Seq(LoreEntry) /\ Len(e) = k + 1
    BY <1>1, <1>6, FunctionIsSeq
<1>8. ASSUME NEW i \in 1 .. k + 1
      PROVE  e[i].uid = IF i \in GetEntry(a, k + 1) THEN u ELSE a[i].uid
    <2>1. a[i] \in LoreEntry /\ e[i] = IF i \in GetEntry(a, k + 1) THEN [a[i] EXCEPT !.uid = u] ELSE a[i]
        BY <1>4, <1>5, <1>8
    <2> QED
        BY <2>1 DEF LoreEntry
<1>9. a[k + 1].uid = k + 1
    BY <1>1, <1>3 DEF x
<1> QED
    BY <1>1, <1>3, <1>7, <1>8, <1>9 DEF a, k

\* The same for the uids. A rename exchanges the uid of the file with one that
\* an earlier entry has, or gives it to the new entry.
LEMMA Exchange ==
    ASSUME TypeOK, Distinct(UidsOf(entries)), NEW u \in Int, NEW off \in BOOLEAN,
           u \notin Values(UidsOf(entries))
    PROVE  /\ Distinct(UidsOf(Loaded(u, off)))
           /\ Values(UidsOf(Loaded(u, off))) = Values(UidsOf(entries)) \union {u}
<1> DEFINE k == Len(entries)
           a == Added(off)
           e == Loaded(u, off)
           n == k + 1
<1>1. /\ k \in Nat /\ Len(a) = n /\ a[n].uid = n /\ a \in Seq(LoreEntry)
      /\ \A i \in 1 .. k : a[i] = entries[i]
      /\ e \in Seq(LoreEntry) /\ Len(e) = n
      /\ \A i \in 1 .. n : e[i].uid = IF i \in GetEntry(a, n) THEN u ELSE a[i].uid
    BY LoadedPlaces
<1>2. entries \in Seq(LoreEntry)
    BY DEF TypeOK
<1> HIDE DEF a, e, k
<1>3. DOMAIN entries = 1 .. k /\ DOMAIN a = 1 .. n /\ DOMAIN e = 1 .. n
    BY <1>1, <1>2, LenProperties DEF k
<1>4. \A i, j \in 1 .. k : i # j => entries[i].uid # entries[j].uid
    BY <1>3 DEF Distinct, UidsOf
<1>5. \A i \in 1 .. k : entries[i].uid # u
    BY <1>3 DEF Values, UidsOf
<1>6. /\ Values(UidsOf(entries)) = {entries[i].uid : i \in 1 .. k}
      /\ Values(UidsOf(e)) = {e[i].uid : i \in 1 .. n}
    BY <1>3 DEF Values, UidsOf
<1>7. Distinct(UidsOf(e)) <=> \A i, j \in 1 .. n : i # j => e[i].uid # e[j].uid
    BY <1>3 DEF Distinct, UidsOf
<1>8. GetEntry(a, n) = {i \in 1 .. n : a[i].uid = n /\ \A j \in 1 .. i - 1 : a[j].uid # n}
    BY <1>3 DEF GetEntry
<1>9. CASE \E j \in 1 .. k : entries[j].uid = n
    <2>1. PICK j \in 1 .. k : entries[j].uid = n
        BY <1>9
    <2>2. GetEntry(a, n) = {j}
        <3>1. j \in 1 .. n /\ a[j].uid = n /\ n \in Nat
            BY <1>1, <2>1
        <3>2. \A i \in 1 .. k : i # j => a[i].uid # n
            BY <1>1, <1>4, <2>1
        <3>3. \A i \in 1 .. j - 1 : i \in 1 .. k /\ i # j
            BY <1>1, <2>1
        <3>4. j \in 1 .. n - 1 /\ n \notin GetEntry(a, n)
            BY <1>1, <1>8, <2>1, <3>1
        <3>5. j \in GetEntry(a, n)
            BY <1>8, <3>1, <3>2, <3>3
        <3>6. \A i \in 1 .. n : i = n \/ i \in 1 .. k
            BY <1>1
        <3> QED
            BY <1>8, <3>2, <3>4, <3>5, <3>6
    <2>3. e[j].uid = u /\ e[n].uid = n /\ \A i \in 1 .. k : i # j => e[i].uid = entries[i].uid
        <3>1. j \in 1 .. n /\ n \in 1 .. n /\ j # n /\ \A i \in 1 .. k : i \in 1 .. n
            BY <1>1, <2>1
        <3> QED
            BY <1>1, <2>2, <3>1
    <2>4. \A i, h \in 1 .. n : i # h => e[i].uid # e[h].uid
        <3>1. u # n /\ \A i \in 1 .. k : i # j => e[i].uid # n /\ e[i].uid # u
            BY <1>4, <1>5, <2>1, <2>3
        <3>2. \A i, h \in 1 .. k : i # h => e[i].uid # e[h].uid
            BY <1>4, <2>3, <3>1
        <3>3. \A i \in 1 .. k : e[i].uid # e[n].uid
            BY <2>3, <3>1
        <3>4. \A i \in 1 .. n : i = n \/ i \in 1 .. k
            BY <1>1
        <3> QED
            BY <3>2, <3>3, <3>4
    <2>5. {e[i].uid : i \in 1 .. n} = {entries[i].uid : i \in 1 .. k} \union {u}
        <3>1. ASSUME NEW i \in 1 .. n
              PROVE  e[i].uid \in {entries[h].uid : h \in 1 .. k} \union {u}
            BY <1>1, <2>1, <2>3, SMTT(20)
        <3>2. ASSUME NEW h \in 1 .. k
              PROVE  \E i \in 1 .. n : e[i].uid = entries[h].uid
            BY <1>1, <2>1, <2>3
        <3>3. \E i \in 1 .. n : e[i].uid = u
            BY <1>1, <2>3
        <3> QED
            BY <3>1, <3>2, <3>3
    <2> QED
        BY <1>6, <1>7, <2>4, <2>5 DEF e
<1>10. CASE \A j \in 1 .. k : entries[j].uid # n
    <2>1. GetEntry(a, n) = {n}
        BY <1>1, <1>8, <1>10, SMTT(20)
    <2>2. e[n].uid = u /\ \A i \in 1 .. k : e[i].uid = entries[i].uid
        BY <1>1, <2>1
    <2>3. \A i, h \in 1 .. n : i # h => e[i].uid # e[h].uid
        BY <1>1, <1>4, <1>5, <2>2
    <2>4. {e[i].uid : i \in 1 .. n} = {entries[i].uid : i \in 1 .. k} \union {u}
        BY <1>1, <2>2
    <2> QED
        BY <1>6, <1>7, <2>3, <2>4 DEF e
<1> QED
    BY <1>9, <1>10

LEMMA InitInv == Init => Inv
BY EmptySeq DEF Init, Inv, TypeOK, UidsAreTheFiles, Distinct, UidsOf, Values

\* Toggles leave the uids alone.
LEMMA ToggledUids ==
    ASSUME TypeOK, NEW u
    PROVE  /\ Toggled(u) \in Seq(LoreEntry) /\ Len(Toggled(u)) = Len(entries)
           /\ UidsOf(Toggled(u)) = UidsOf(entries)
<1>1. entries \in Seq(LoreEntry) /\ Len(entries) \in Nat /\ DOMAIN entries = 1 .. Len(entries)
    BY LenProperties DEF TypeOK
<1>2. \A i \in 1 .. Len(entries) : entries[i] \in LoreEntry
    BY <1>1, ElementOfSeq
<1>3. Toggled(u) \in [1 .. Len(entries) -> LoreEntry]
    BY <1>1, <1>2 DEF Toggled, LoreEntry
<1>4. \A i \in DOMAIN entries : Toggled(u)[i].uid = entries[i].uid
    BY <1>1, <1>2 DEF Toggled, LoreEntry
<1> QED
    BY <1>1, <1>3, <1>4, FunctionIsSeq DEF UidsOf

LEMMA StepInv == Inv /\ [Next]_vars => Inv'
<1> SUFFICES ASSUME Inv, [Next]_vars PROVE Inv'
    OBVIOUS
<1> USE DEF Inv
<1>1. CASE LoadEntry
    <2> DEFINE u == Head(rest).uid
               off == Head(rest).off
    <2>1. rest \in Seq(Token) /\ rest # <<>> /\ Head(rest) \in Token /\ Tail(rest) \in Seq(Token)
        BY <1>1, HeadTailProperties DEF LoadEntry, Idle, TypeOK
    <2>2. u \in Int /\ off \in BOOLEAN
        BY <2>1 DEF Token
    <2> HIDE DEF u, off
    <2>3. entries' = Loaded(u, off) /\ read' = Append(read, u) /\ rest' = Tail(rest)
          /\ next_uid' = next_uid + 1
        BY <1>1 DEF LoadEntry, u, off
    <2>4. entries' \in Seq(LoreEntry) /\ Len(entries') = Len(entries) + 1 /\ Len(entries) \in Nat
        BY <2>2, <2>3, LoadedPlaces
    <2>5. /\ read \in Seq(Int) /\ read' \in Seq(Int) /\ Len(read') = Len(read) + 1
          /\ read'[Len(read) + 1] = u /\ \A i \in 1 .. Len(read) : read'[i] = read[i]
        BY <2>2, <2>3, AppendProperties DEF TypeOK
    <2>6. TypeOK'
        BY <2>1, <2>3, <2>4, <2>5 DEF TypeOK
    <2>7. ASSUME Distinct(read') PROVE Distinct(UidsOf(entries')) /\ Values(UidsOf(entries')) = Values(read')
        <3>1. /\ DOMAIN read = 1 .. Len(read) /\ DOMAIN read' = 1 .. Len(read) + 1
              /\ Len(read) \in Nat
            BY <2>5, LenProperties
        <3>2. Distinct(read) /\ u \notin Values(read)
            BY <2>5, <2>7, <3>1, SMTT(20) DEF Distinct, Values
        <3>3. Values(read') = Values(read) \union {u}
            BY <2>5, <3>1 DEF Values
        <3> QED
            BY <2>2, <2>3, <3>2, <3>3, Exchange DEF UidsAreTheFiles
    <2>8. UidsAreTheFiles'
        BY <2>7 DEF UidsAreTheFiles, Distinct, UidsOf, Values
    <2> QED
        BY <2>6, <2>8
<1>2. CASE SkipComma
    <2>1. rest' \in Seq(Token)
        BY <1>2, HeadTailProperties DEF SkipComma, Idle, TypeOK
    <2> QED
        BY <1>2, <2>1 DEF SkipComma, TypeOK, UidsAreTheFiles, book
<1>3. CASE LoadStuck
    BY <1>3 DEF LoadStuck, vars, book, TypeOK, UidsAreTheFiles
<1>4. ASSUME NEW f \in Files, LoadBegin(f) PROVE Inv'
    BY <1>4, FilesAssumption, EmptySeq
    DEF LoadBegin, TypeOK, UidsAreTheFiles, Distinct, UidsOf, Values
<1>5. CASE Clear
    BY <1>5, EmptySeq DEF Clear, TypeOK, UidsAreTheFiles, Distinct, UidsOf, Values
<1>6. ASSUME NEW i \in DOMAIN entries, Toggle(entries[i].uid) PROVE Inv'
    <2>1. /\ entries' \in Seq(LoreEntry) /\ Len(entries') = Len(entries)
          /\ UidsOf(entries') = UidsOf(entries)
        BY <1>6, ToggledUids DEF Toggle
    <2>2. UNCHANGED <<next_uid, rest, read>>
        BY <1>6 DEF Toggle
    <2>3. TypeOK'
        BY <2>1, <2>2 DEF TypeOK
    <2>4. ASSUME Distinct(read')
          PROVE  Distinct(UidsOf(entries')) /\ Values(UidsOf(entries')) = Values(read')
        BY <2>1, <2>2, <2>4 DEF UidsAreTheFiles
    <2>5. UidsAreTheFiles'
        BY <2>4 DEF UidsAreTheFiles, Distinct, UidsOf, Values
    <2> QED
        BY <2>3, <2>5
<1>7. CASE UNCHANGED vars
    BY <1>7 DEF vars, book, TypeOK, UidsAreTheFiles
<1> QED
    BY <1>1, <1>2, <1>3, <1>4, <1>5, <1>6, <1>7 DEF Next, Load

\* The invariant of the lorebook, in every reachable state.
THEOREM LorebookSafety == Spec => []Inv
BY InitInv, StepInv, PTL DEF Spec

\* Every variable keeps its type (lorebook_load_json counts what it adds).
THEOREM LorebookTypes == Spec => []TypeOK
<1>1. Inv => TypeOK
    BY DEF Inv
<1> QED
    BY <1>1, LorebookSafety, PTL

\* Loading keeps the uids of a file, if not where they were: those of the book
\* are distinct and the same as those of the file.
THEOREM UidsStayApart == Spec => []UidsAreTheFiles
<1>1. Inv => UidsAreTheFiles
    BY DEF Inv
<1> QED
    BY <1>1, LorebookSafety, PTL

\* A toggle turns the first entry of that uid, and there is no second if the
\* file has none.
LEMMA ToggleTurnsOne ==
    ASSUME Inv, NEW u \in Values(UidsOf(entries)), Toggle(u)
    PROVE  \E i \in DOMAIN entries :
              /\ entries[i].uid = u
              /\ entries' = [entries EXCEPT ![i].disabled = ~@]
              /\ Distinct(read) => \A j \in DOMAIN entries : entries[j].uid = u => j = i
<1>1. entries \in Seq(LoreEntry) /\ Len(entries) \in Nat /\ DOMAIN entries = 1 .. Len(entries)
    BY LenProperties DEF Inv, TypeOK
<1>2. PICK i \in GetEntry(entries, u) : TRUE
    BY DEF Toggle
<1>3. /\ i \in DOMAIN entries /\ entries[i].uid = u
      /\ \A j \in 1 .. i - 1 : entries[j].uid # u
    BY <1>2 DEF GetEntry
<1>4. GetEntry(entries, u) = {i}
    <2>1. ASSUME NEW j \in GetEntry(entries, u) PROVE j = i
        <3>1. j \in DOMAIN entries /\ entries[j].uid = u /\ \A h \in 1 .. j - 1 : entries[h].uid # u
            BY <2>1 DEF GetEntry
        <3> QED
            BY <1>1, <1>3, <3>1
    <2> QED
        BY <1>2, <2>1
<1>5. entries' = [entries EXCEPT ![i].disabled = ~@]
    <2>1. \A j \in DOMAIN entries : entries[j] \in LoreEntry
        BY <1>1, ElementOfSeq
    <2>2. \A j \in DOMAIN entries : j # i => Toggled(u)[j] = entries[j]
        BY <1>4, <2>1 DEF Toggled, LoreEntry
    <2>3. Toggled(u)[i] = [entries[i] EXCEPT !.disabled = ~@]
        BY <1>3, <1>4 DEF Toggled
    <2>4. Toggled(u) = [j \in DOMAIN entries |-> Toggled(u)[j]]
        BY DEF Toggled
    <2>5. entries = [j \in DOMAIN entries |-> entries[j]]
        BY <1>1
    <2> QED
        BY <1>3, <2>2, <2>3, <2>4, <2>5 DEF Toggle
<1>6. ASSUME Distinct(read) PROVE \A j \in DOMAIN entries : entries[j].uid = u => j = i
    BY <1>3, <1>6 DEF Inv, UidsAreTheFiles, Distinct, UidsOf
<1> QED
    BY <1>3, <1>5, <1>6

\* /lore toggle turns the entry that /lore list shows under the number, and no
\* other one.
THEOREM TogglesHitOne == Spec => ToggleIsOne
<1>1. ASSUME Inv, [Next]_vars
      PROVE  [\A u \in Values(UidsOf(entries)) : Toggle(u) =>
                 \E i \in DOMAIN entries :
                     /\ entries[i].uid = u
                     /\ entries' = [entries EXCEPT ![i].disabled = ~@]
                     /\ Distinct(read) => \A j \in DOMAIN entries : entries[j].uid = u => j = i]_vars
    BY <1>1, ToggleTurnsOne
<1> QED
    BY <1>1, LorebookSafety, PTL DEF Spec, ToggleIsOne
=============================================================================
