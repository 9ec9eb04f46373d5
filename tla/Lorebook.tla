------------------------------ MODULE Lorebook ------------------------------
(***************************************************************************)
(* The lorebook of src/lore/lorebook.c as the program uses it: /lore load, *)
(* /lore toggle and /lore clear. The load is a loop over the text of the   *)
(* file that adds one entry after the other. Adding gives an entry the     *)
(* next uid; the uid of the file is put in its place by looking the entry  *)
(* up by the uid it was given, which an earlier entry may have by now.     *)
(*                                                                         *)
(* A file is the sequence of what the loop meets in "entries". Keys, texts *)
(* and positions of an entry are left out: an entry is its uid and whether *)
(* it is disabled, and which entry it is shows in its place in the array.  *)
(***************************************************************************)
EXTENDS Integers, Sequences

CONSTANT Files  \* what /lore load may find

\* "entry": a name with an object after it; "comma": a comma, or a string with
\* no object after it, which is passed over too; "other": anything else, or an
\* entry with something else than strings among its keys
Token == [kind : {"entry", "comma", "other"}, uid : Int, off : BOOLEAN]

ASSUME FilesAssumption == Files \subseteq Seq(Token)

VARIABLES
    entries,   \* lb->entries
    next_uid,  \* lb->next_uid
    rest,      \* of the file, from p on; empty when no load is running
    read       \* ghost: the uids in the part of the file that has been read

book == <<entries, next_uid>>
vars == <<book, rest, read>>

LoreEntry == [uid : Int, disabled : BOOLEAN]
-----------------------------------------------------------------------------
Init == entries = <<>> /\ next_uid = 1 /\ rest = <<>> /\ read = <<>>

Idle == rest = <<>>

\* lorebook_get_entry for entries es: the places of the first entry with uid u
GetEntry(es, u) ==
    {i \in DOMAIN es : es[i].uid = u /\ \A j \in 1 .. i - 1 : es[j].uid # u}

\* lorebook_add_entry: the copy has the next uid.
Added(off) == Append(entries, [uid |-> next_uid, disabled |-> off])

\* In es, the entry that a search for uid n finds gets uid u.
Renamed(es, n, u) ==
    [i \in DOMAIN es |-> IF i \in GetEntry(es, n) THEN [es[i] EXCEPT !.uid = u] ELSE es[i]]

\* Slip: one less, as if next_uid had not grown yet
LoadedTooEarly(u, off) == Renamed(Added(off), next_uid - 1, u)

\* What an entry of the file makes of the entries
Loaded(u, off) == Renamed(Added(off), next_uid, u)

\* Slip: freed, but not initialised again
LoadBeginFreed(f) ==
    /\ Idle
    /\ entries' = <<>> /\ read' = <<>>
    /\ rest' = f
    /\ UNCHANGED next_uid

\* /lore load: the book that was loaded is gone, whatever comes of this one.
LoadBegin(f) ==
    /\ Idle
    /\ entries' = <<>> /\ next_uid' = 1 /\ read' = <<>>
    /\ rest' = f

\* One entry of the file
LoadEntry ==
    /\ ~Idle /\ Head(rest).kind = "entry"
    /\ entries' = Loaded(Head(rest).uid, Head(rest).off)
    /\ next_uid' = next_uid + 1
    /\ read' = Append(read, Head(rest).uid)
    /\ rest' = Tail(rest)

\* Slip: only a comma after an entry is passed over
SkipNoComma ==
    /\ ~Idle /\ Head(rest).kind = "comma"
    /\ rest' = IF Len(rest) > 1 THEN Tail(rest) ELSE rest
    /\ UNCHANGED <<book, read>>

SkipComma ==
    /\ ~Idle /\ Head(rest).kind = "comma"
    /\ rest' = Tail(rest)
    /\ UNCHANGED <<book, read>>

\* At anything else the loop turns without moving on.
LoadStuck ==
    /\ ~Idle /\ Head(rest).kind = "other"
    /\ UNCHANGED vars

\* Slip: toggles all entries from there on
ToggledOn(u) ==
    [i \in DOMAIN entries |->
        [entries[i] EXCEPT !.disabled = IF \E j \in GetEntry(entries, u) : j <= i THEN ~@ ELSE @]]

\* lorebook_toggle_entry
Toggled(u) ==
    [i \in DOMAIN entries |->
        [entries[i] EXCEPT !.disabled = IF i \in GetEntry(entries, u) THEN ~@ ELSE @]]

\* /lore toggle u; the command refuses 0, which atoi makes of no number.
Toggle(u) ==
    /\ Idle /\ u > 0 /\ GetEntry(entries, u) # {}
    /\ entries' = Toggled(u)
    /\ UNCHANGED <<next_uid, rest, read>>

\* /lore clear
Clear ==
    /\ Idle
    /\ entries' = <<>> /\ next_uid' = 1 /\ read' = <<>>
    /\ UNCHANGED rest

\* A turn of the loop
Load == LoadEntry \/ SkipComma \/ LoadStuck
Next ==
    \/ Load \/ Clear
    \/ \E f \in Files : LoadBegin(f)
    \/ \E i \in DOMAIN entries : Toggle(entries[i].uid)

\* The loop runs to its end within one command.
Spec == Init /\ [][Next]_vars /\ WF_vars(Load)
-----------------------------------------------------------------------------
(***************************************************************************)
(* Properties                                                              *)
(***************************************************************************)
Distinct(s) == \A i, j \in DOMAIN s : i # j => s[i] # s[j]
UidsOf(es) == [i \in DOMAIN es |-> es[i].uid]
Values(s) == {s[i] : i \in DOMAIN s}

\* Every variable has a value of its type, and the loader counts its entries.
TypeOK ==
    /\ entries \in Seq(LoreEntry) /\ rest \in Seq(Token) /\ read \in Seq(Int)
    /\ next_uid = Len(entries) + 1 /\ Len(read) = Len(entries)

\* If the uids of a file are distinct, so are those of the book, and they are
\* the same: no entry is out of reach of /lore toggle, however often the search
\* in lorebook_load_json renames an earlier entry.
UidsAreTheFiles ==
    Distinct(read) => Distinct(UidsOf(entries)) /\ Values(UidsOf(entries)) = Values(read)

\* A toggle turns the entries that /lore list shows under one number, and when
\* the uids of the file are distinct only one of them.
ToggleIsOne ==
    [][\A u \in Values(UidsOf(entries)) : Toggle(u) =>
          \E i \in DOMAIN entries :
              /\ entries[i].uid = u
              /\ entries' = [entries EXCEPT ![i].disabled = ~@]
              /\ Distinct(read) => \A j \in DOMAIN entries : entries[j].uid = u => j = i]_vars

\* A load ends, if nothing in the file stops it: the loop moves on at entries
\* and commas.
LoadEnds == (\A i \in DOMAIN rest : rest[i].kind # "other") ~> Idle

\* Every entry has the uid that its file gives it, as test_lorebook.c:345 says
\* of the third entry: "ASSERT_EQ_INT(3, result.entries[0]->uid)".
KeepsUids == Distinct(read) => UidsOf(entries) = read
=============================================================================
