---------------------------- MODULE DialogsProof ----------------------------
(***************************************************************************)
(* The dialogs of MCDialogs, for lists, texts and screens of any size.     *)
(***************************************************************************)
EXTENDS MCDialogs, SequenceTheorems, WellFoundedInduction, TLAPS
-----------------------------------------------------------------------------
(***************************************************************************)
(* For tables, lists and screens of any size: the editor of the sampler    *)
(* settings is open on an item that there is, and an import only adds, but *)
(* for the last sampler of a full table. The editors stay open when the    *)
(* dialog is closed under them; what saves them is that the dialog opens   *)
(* on a built-in field, where an editor does nothing but close. What is    *)
(* selected is among what is drawn (InView, over Inv).                     *)
(***************************************************************************)
Typed ==
    /\ custom \in Seq(Sampler) /\ Len(custom) <= MaxCustom
    /\ field \in 0 .. Fields - 1 /\ input \in Nat /\ item \in Nat

\* An editor is not open in the forms over the settings, and where it is open
\* over a custom sampler the settings are on the screen.
EditorPlace ==
    /\ dialog \in {"adding", "import"} => editing = "none"
    /\ dialog = "closed" => field = 0

Inv == Typed /\ EditorPlace /\ EditorFits

LEMMA Bounds == MaxCustom \in Nat /\ MaxCustom >= 1 /\ MaxItems \in Nat /\ Base \in Nat /\ Base >= 1
BY SamplerAssumption

LEMMA Minimum == \A a, b \in Nat : Min({a, b}) = IF a <= b THEN a ELSE b
BY DEF Min

LEMMA Maximum == \A a, b \in Int : Max({a, b}) = IF a >= b THEN a ELSE b
BY DEF Max

LEMMA RemoveAtLength ==
    ASSUME NEW S, NEW s \in Seq(S), NEW i \in 1 .. Len(s)
    PROVE  RemoveAt(s, i) \in Seq(S) /\ Len(RemoveAt(s, i)) = Len(s) - 1
<1> DEFINE before == SubSeq(s, 1, i - 1)
           behind == SubSeq(s, i + 1, Len(s))
<1>1. Len(s) \in Nat /\ i \in Nat /\ i >= 1 /\ i <= Len(s)
    OBVIOUS
<1>2. before \in Seq(S) /\ Len(before) = i - 1
    BY <1>1, SubSeqProperties
<1>3. behind \in Seq(S) /\ Len(behind) = Len(s) - i
    BY <1>1, SubSeqProperties
<1> HIDE DEF before, behind
<1>4. before \o behind \in Seq(S) /\ Len(before \o behind) = Len(before) + Len(behind)
    BY <1>2, <1>3, ConcatProperties
<1>5. RemoveAt(s, i) = before \o behind
    BY DEF RemoveAt, before, behind
<1>6. Len(before) + Len(behind) = Len(s) - 1
    BY <1>1, <1>2, <1>3
<1> QED
    BY <1>4, <1>5, <1>6

\* A sequence that another one agrees with in all its places is its prefix.
LEMMA PrefixOf ==
    ASSUME NEW S, NEW s \in Seq(S), NEW t \in Seq(S), Len(s) <= Len(t),
           \A j \in 1 .. Len(s) : s[j] = t[j]
    PROVE  IsPrefix(s, t)
<1>1. Len(s) \in Nat /\ Len(t) \in Nat
    OBVIOUS
<1>2. /\ SubSeq(s, 1, Len(s)) \in Seq(S) /\ Len(SubSeq(s, 1, Len(s))) = Len(s)
      /\ \A j \in 1 .. Len(s) : SubSeq(s, 1, Len(s))[j] = s[j]
    BY <1>1, SubSeqProperties
<1>3. /\ SubSeq(t, 1, Len(s)) \in Seq(S) /\ Len(SubSeq(t, 1, Len(s))) = Len(s)
      /\ \A j \in 1 .. Len(s) : SubSeq(t, 1, Len(s))[j] = t[j]
    BY <1>1, SubSeqProperties
<1>4. SubSeq(s, 1, Len(s)) = SubSeq(t, 1, Len(s))
    BY <1>2, <1>3, SeqEqual
<1> QED
    BY <1>4 DEF IsPrefix

\* What sampler_add_custom leaves: one more, unless the table is full
LEMMA AddProperties ==
    ASSUME NEW table \in Seq(Sampler), Len(table) <= MaxCustom, NEW type \in Types
    PROVE  /\ Add(table, type) \in Seq(Sampler)
           /\ Len(Add(table, type)) = IF Len(table) < MaxCustom THEN Len(table) + 1 ELSE MaxCustom
           /\ \A j \in 1 .. Len(table) : Add(table, type)[j] = table[j]
           /\ Len(table) < MaxCustom =>
                Add(table, type)[Len(table) + 1] = [type |-> type, list |-> 0, dict |-> 0]
<1> DEFINE new == [type |-> type, list |-> 0, dict |-> 0]
<1>1. Len(table) \in Nat /\ new \in Sampler
    BY Bounds DEF Sampler
<1> HIDE DEF new
<1>2. CASE Len(table) >= MaxCustom
    BY <1>1, <1>2, Bounds DEF Add
<1>3. CASE ~(Len(table) >= MaxCustom)
    <2>1. Add(table, type) = Append(table, new)
        BY <1>3 DEF Add, new
    <2>2. /\ Append(table, new) \in Seq(Sampler)
          /\ Len(Append(table, new)) = Len(table) + 1
          /\ \A j \in 1 .. Len(table) : Append(table, new)[j] = table[j]
          /\ Append(table, new)[Len(table) + 1] = new
        BY <1>1, AppendProperties
    <2> QED
        BY <1>1, <1>3, <2>1, <2>2, Bounds DEF new
<1> QED
    BY <1>2, <1>3

\* A sampler whose items change keeps the table's length and the others.
LEMMA ListChanged ==
    ASSUME NEW table \in Seq(Sampler), NEW i \in 1 .. Len(table), NEW n \in 0 .. MaxItems
    PROVE  LET t == [table EXCEPT ![i].list = n]
           IN  /\ t \in Seq(Sampler) /\ Len(t) = Len(table)
               /\ \A j \in 1 .. Len(table) : j # i => t[j] = table[j]
               /\ t[i].type = table[i].type /\ t[i].list = n
<1>1. table[i] \in Sampler
    BY ElementOfSeq
<1>2. [table[i] EXCEPT !.list = n] \in Sampler
    BY <1>1 DEF Sampler
<1>3. /\ [table EXCEPT ![i] = [table[i] EXCEPT !.list = n]] \in Seq(Sampler)
      /\ Len([table EXCEPT ![i] = [table[i] EXCEPT !.list = n]]) = Len(table)
    BY <1>2, ExceptSeq
<1> QED
    BY <1>1, <1>2, <1>3 DEF Sampler

LEMMA DictChanged ==
    ASSUME NEW table \in Seq(Sampler), NEW i \in 1 .. Len(table), NEW n \in 0 .. MaxItems
    PROVE  LET t == [table EXCEPT ![i].dict = n]
           IN  /\ t \in Seq(Sampler) /\ Len(t) = Len(table)
               /\ \A j \in 1 .. Len(table) : j # i => t[j] = table[j]
               /\ t[i].type = table[i].type /\ t[i].dict = n
<1>1. table[i] \in Sampler
    BY ElementOfSeq
<1>2. [table[i] EXCEPT !.dict = n] \in Sampler
    BY <1>1 DEF Sampler
<1>3. /\ [table EXCEPT ![i] = [table[i] EXCEPT !.dict = n]] \in Seq(Sampler)
      /\ Len([table EXCEPT ![i] = [table[i] EXCEPT !.dict = n]]) = Len(table)
    BY <1>2, ExceptSeq
<1> QED
    BY <1>1, <1>2, <1>3 DEF Sampler

\* One line of an import: whatever it is, it changes nothing before the last
\* place of the table it leaves.
LEMMA ImportedProperties ==
    ASSUME NEW table \in Seq(Sampler), Len(table) <= MaxCustom,
           NEW type \in Types, NEW n \in 1 .. MaxItems
    PROVE  LET t == Imported(table, type, n)
           IN  /\ t \in Seq(Sampler)
               /\ Len(t) = IF Len(table) < MaxCustom THEN Len(table) + 1 ELSE MaxCustom
               /\ \A j \in 1 .. Len(table) : j < Len(t) => t[j] = table[j]
<1> DEFINE added == Add(table, type)
<1>1. Len(table) \in Nat /\ n \in 0 .. MaxItems
    BY Bounds
<1>2. /\ added \in Seq(Sampler)
      /\ Len(added) = IF Len(table) < MaxCustom THEN Len(table) + 1 ELSE MaxCustom
      /\ \A j \in 1 .. Len(table) : added[j] = table[j]
    BY AddProperties
<1> HIDE DEF added
<1>3. Len(added) \in 1 .. Len(added) /\ Len(table) <= Len(added)
    BY <1>1, <1>2, Bounds
<1>4. CASE type = "list"
    <2>1. Imported(table, type, n) = [added EXCEPT ![Len(added)].list = n]
        BY <1>4 DEF Imported, added
    <2> QED
        BY <1>1, <1>2, <1>3, <2>1, ListChanged
<1>5. CASE type = "dict"
    <2>1. Imported(table, type, n) = [added EXCEPT ![Len(added)].dict = n]
        BY <1>5 DEF Imported, added
    <2> QED
        BY <1>1, <1>2, <1>3, <2>1, DictChanged
<1>6. CASE type \notin {"list", "dict"}
    <2>1. Imported(table, type, n) = added
        BY <1>6 DEF Imported, added
    <2> QED
        BY <1>2, <2>1
<1> QED
    BY <1>4, <1>5, <1>6

\* Two lines do what one does, for every length the table may have.
LEMMA TwiceImported ==
    ASSUME NEW table \in Seq(Sampler), Len(table) <= MaxCustom,
           NEW type \in Types, NEW n \in 1 .. MaxItems, NEW u \in Types, NEW k \in 1 .. MaxItems
    PROVE  LET t == Imported(Imported(table, type, n), u, k)
           IN  /\ t \in Seq(Sampler) /\ Len(t) <= MaxCustom
               /\ Len(t) > Len(table) \/ (Len(t) = MaxCustom /\ Len(table) = MaxCustom)
               /\ \A j \in 1 .. Len(table) : j < Len(t) => t[j] = table[j]
<1> DEFINE upper == Imported(table, type, n)
           second == Imported(upper, u, k)
<1>1. Len(table) \in Nat
    OBVIOUS
<1>2. /\ upper \in Seq(Sampler)
      /\ Len(upper) = IF Len(table) < MaxCustom THEN Len(table) + 1 ELSE MaxCustom
      /\ \A j \in 1 .. Len(table) : j < Len(upper) => upper[j] = table[j]
    BY ImportedProperties
<1> HIDE DEF upper
<1>3. Len(upper) \in Nat /\ Len(upper) <= MaxCustom
    BY <1>1, <1>2, Bounds
<1>4. /\ second \in Seq(Sampler)
      /\ Len(second) = IF Len(upper) < MaxCustom THEN Len(upper) + 1 ELSE MaxCustom
      /\ \A j \in 1 .. Len(upper) : j < Len(second) => second[j] = upper[j]
    BY <1>2, <1>3, ImportedProperties
<1> HIDE DEF second
<1>5. /\ Len(second) <= MaxCustom
      /\ Len(second) > Len(table) \/ (Len(second) = MaxCustom /\ Len(table) = MaxCustom)
    BY <1>1, <1>2, <1>3, <1>4, Bounds
<1>6. ASSUME NEW j \in 1 .. Len(table), j < Len(second)
      PROVE  second[j] = table[j]
    <2>1. j \in 1 .. Len(upper) /\ j < Len(upper)
        BY <1>1, <1>2, <1>3, <1>4, <1>6, Bounds
    <2> QED
        BY <1>2, <1>4, <1>6, <2>1
<1> QED
    BY <1>4, <1>5, <1>6 DEF upper, second
-----------------------------------------------------------------------------
LEMMA InitInv == Init => Inv
<1>1. <<>> \in Seq(Sampler) /\ Len(<<>>) = 0
    OBVIOUS
<1> QED
    BY <1>1, Bounds DEF Init, Inv, Typed, Fields, EditorPlace, EditorFits, InEditor

\* A dialog opens on a built-in field, where no editor is at work.
LEMMA OpenedInv ==
    ASSUME Inv, NEW table \in Seq(Sampler), Len(table) <= MaxCustom, Opened(table)
    PROVE  Inv'
<1>1. field' = 0 /\ custom' = table /\ input' = 0 /\ item' = item /\ dialog' \in {"settings", "broken"}
    BY DEF Opened
<1>2. ~OnCustom'
    BY <1>1, Bounds DEF OnCustom
<1>3. field' \in 0 .. Fields' - 1
    BY <1>1, Bounds DEF Fields
<1> QED
    BY <1>1, <1>2, <1>3 DEF Inv, Typed, EditorPlace, EditorFits, InEditor

\* A step that leaves no editor open, or no dialog to have one in
LEMMA QuietInv ==
    ASSUME Typed', dialog' = "closed" => field' = 0,
           \/ editing' = "none"
           \/ dialog' \in {"closed", "broken"}
    PROVE  Inv'
BY DEF Inv, EditorPlace, EditorFits, InEditor

\* Opening, closing and the two forms
LEMMA FormInv ==
    ASSUME Inv, Open \/ Send \/ Resize \/ Escape \/ Save \/ StartAdding \/ StopAdding
                \/ StartImport \/ CancelImport \/ Import
    PROVE  Inv'
<1>1. /\ custom \in Seq(Sampler) /\ Len(custom) \in Nat /\ Len(custom) <= MaxCustom
      /\ <<>> \in Seq(Sampler) /\ Len(<<>>) = 0
    BY DEF Inv, Typed
<1>2. CASE Open
    <2>1. PICK table \in Readable : Opened(table)
        BY <1>2 DEF Open
    <2>2. PICK m \in 0 .. MaxCustom : table \in [1 .. m -> Sampler]
        BY DEF Readable, BoundedSeq, SeqOf
    <2>3. table \in Seq(Sampler) /\ Len(table) = m
        BY <2>2, Bounds
    <2> QED
        BY <2>1, <2>3, OpenedInv, Bounds
<1>3. CASE Resize \/ Escape \/ Save
    <2>1. Closed
        BY <1>3 DEF Resize, Escape, Save
    <2>2. Typed' /\ dialog' = "closed" /\ field' = 0
        BY <1>1, <2>1, Bounds DEF Closed, Typed, Fields
    <2> QED
        BY <2>2, QuietInv
<1>4. CASE Send
    BY <1>4, QuietInv DEF Send, Inv, Typed, Fields
<1>5. CASE StartAdding \/ StopAdding \/ StartImport
    <2>1. Typed' /\ editing' = "none" /\ dialog' # "closed"
        BY <1>5 DEF StartAdding, StopAdding, StartImport, InSettings, Inv, Typed, Fields, EditorPlace
    <2> QED
        BY <2>1, QuietInv
<1>6. CASE CancelImport
    BY <1>1, <1>6, OpenedInv DEF CancelImport
<1>7. CASE Import
    <2>1. PICK t \in Types, n \in 1 .. MaxItems :
            \/ Opened(Imported(custom, t, n))
            \/ \E u \in Types, k \in 1 .. MaxItems :
                Opened(Imported(Imported(custom, t, n), u, k))
        BY <1>7 DEF Import
    <2>2. CASE Opened(Imported(custom, t, n))
        <3>1. Imported(custom, t, n) \in Seq(Sampler) /\ Len(Imported(custom, t, n)) <= MaxCustom
            BY <1>1, ImportedProperties, Bounds
        <3> QED
            BY <2>2, <3>1, OpenedInv
    <2>3. CASE \E u \in Types, k \in 1 .. MaxItems :
                    Opened(Imported(Imported(custom, t, n), u, k))
        <3>1. PICK u \in Types, k \in 1 .. MaxItems :
                Opened(Imported(Imported(custom, t, n), u, k))
            BY <2>3
        <3>2. /\ Imported(Imported(custom, t, n), u, k) \in Seq(Sampler)
              /\ Len(Imported(Imported(custom, t, n), u, k)) <= MaxCustom
            BY <1>1, TwiceImported
        <3> QED
            BY <3>1, <3>2, OpenedInv
    <2> QED
        BY <2>1, <2>2, <2>3
<1> QED
    BY <1>2, <1>3, <1>4, <1>5, <1>6, <1>7

\* The keys of the settings, with no editor open before or after
LEMMA SettingsInv ==
    ASSUME Inv, KeyUp \/ KeyDown \/ Step \/ RemoveCustom \/ EnterValue \/ Type \/ Backspace
                \/ LeaveEditor
    PROVE  Inv'
<1>1. /\ custom \in Seq(Sampler) /\ Len(custom) \in Nat /\ Len(custom) <= MaxCustom
      /\ field \in 0 .. Fields - 1 /\ Fields = Base + Len(custom) /\ Fields' = Base + Len(custom')
      /\ input \in Nat /\ item \in Nat
    BY DEF Inv, Typed, Fields
<1> USE DEF InSettings, Typed
<1>2. CASE KeyUp
    <2>1. field' \in 0 .. Fields - 1
        BY <1>1, <1>2, Maximum, Bounds DEF KeyUp
    <2> QED
        BY <1>1, <1>2, <2>1, QuietInv DEF KeyUp, Taken
<1>3. CASE KeyDown
    <2>1. Fields - 1 \in Nat /\ field + 1 \in Nat
        BY <1>1, Bounds
    <2>2. field' \in 0 .. Fields - 1
        BY <1>1, <1>3, <2>1, Minimum DEF KeyDown
    <2> QED
        BY <1>1, <1>3, <2>2, QuietInv DEF KeyDown, Taken
<1>4. CASE Step
    BY <1>1, <1>4, QuietInv DEF Step
<1>5. CASE RemoveCustom
    <2>1. custom' = RemoveAt(custom, field - Base + 1) /\ field - Base + 1 \in 1 .. Len(custom)
        BY <1>1, <1>5, Bounds DEF RemoveCustom, OnCustom
    <2>2. custom' \in Seq(Sampler) /\ Len(custom') = Len(custom) - 1
        BY <1>1, <2>1, RemoveAtLength
    <2>3. field' \in 0 .. Fields' - 1
        BY <1>1, <1>5, <2>1, <2>2, Bounds DEF RemoveCustom
    <2> QED
        BY <1>1, <1>5, <2>2, <2>3, QuietInv, Bounds DEF RemoveCustom
<1>6. CASE EnterValue
    <2>1. custom' \in Seq(Sampler) /\ Len(custom') = Len(custom)
        <3>1. CASE OnCustom /\ Current.type \in {"list", "dict"}
            <4>1. PICK n \in 0 .. Min({MaxItems, input}) :
                    custom' = [custom EXCEPT ![field - Base + 1].list = n]
                BY <1>6, <3>1 DEF EnterValue
            <4>2. Min({MaxItems, input}) \in 0 .. MaxItems
                BY <1>1, Minimum, Bounds
            <4>3. n \in 0 .. MaxItems
                BY <4>2, Bounds
            <4>4. field - Base + 1 \in 1 .. Len(custom)
                BY <1>1, <3>1, Bounds DEF OnCustom
            <4> QED
                BY <1>1, <4>1, <4>3, <4>4, ListChanged
        <3>2. CASE ~(OnCustom /\ Current.type \in {"list", "dict"})
            BY <1>1, <1>6, <3>2 DEF EnterValue
        <3> QED
            BY <3>1, <3>2
    <2> QED
        BY <1>1, <1>6, <2>1, QuietInv DEF EnterValue, Taken
<1>7. CASE Type
    BY <1>1, <1>7, QuietInv DEF Type
<1>8. CASE Backspace
    BY <1>1, <1>8, QuietInv DEF Backspace
<1>9. CASE LeaveEditor
    BY <1>1, <1>9, QuietInv DEF LeaveEditor
<1> QED
    BY <1>2, <1>3, <1>4, <1>5, <1>6, <1>7, <1>8, <1>9

\* The form for a new sampler: a full table leaves the editor open over the last
\* one, which may be of another type, on its first item.
LEMMA AddingInv ==
    ASSUME Inv, NEW type \in Types, ConfirmAdding(type)
    PROVE  Inv'
<1> DEFINE added == Add(custom, type)
<1>1. /\ custom \in Seq(Sampler) /\ Len(custom) \in Nat /\ Len(custom) <= MaxCustom
      /\ input \in Nat /\ item \in Nat /\ editing = "none"
    BY DEF Inv, Typed, EditorPlace, ConfirmAdding
<1>2. /\ added \in Seq(Sampler)
      /\ Len(added) = IF Len(custom) < MaxCustom THEN Len(custom) + 1 ELSE MaxCustom
      /\ Len(custom) < MaxCustom => added[Len(custom) + 1] = [type |-> type, list |-> 0, dict |-> 0]
    BY <1>1, AddProperties
<1>3. custom' = added /\ field' = Base + Len(added) - 1 /\ input' = input /\ dialog' = "settings"
    BY DEF ConfirmAdding
<1> HIDE DEF added
<1>4. Len(added) \in Nat /\ Len(added) >= 1 /\ Len(added) <= MaxCustom
    BY <1>1, <1>2, Bounds
<1>5. field' \in 0 .. Fields' - 1
    BY <1>3, <1>4, Bounds DEF Fields
<1>6. item' \in Nat
    BY <1>1 DEF ConfirmAdding
<1>7. CASE type \in {"list", "dict"}
    <2>1. editing' = type /\ item' = 0
        BY <1>7 DEF ConfirmAdding
    <2>2. Current' = added[Len(added)]
        BY <1>3, <1>4, Bounds DEF Current
    <2>3. Current' \in Sampler
        BY <1>2, <1>4, <2>2, ElementOfSeq
    <2>4. item' <= Items(Current)'
        BY <2>1, <2>3, Bounds DEF Items, Sampler
    <2>5. Current'.type = editing' \/ Len(custom') = MaxCustom
        BY <1>1, <1>2, <1>3, <2>1, <2>2
    <2> QED
        BY <1>2, <1>3, <1>4, <1>5, <1>6, <2>4, <2>5
        DEF Inv, Typed, EditorPlace, EditorFits
<1>8. CASE type \notin {"list", "dict"}
    <2>1. editing' = "none"
        BY <1>1, <1>8 DEF ConfirmAdding
    <2> QED
        BY <1>1, <1>2, <1>3, <1>4, <1>5, <1>6, <2>1, QuietInv DEF Typed
<1> QED
    BY <1>7, <1>8

\* The keys of an editor: it stays on its sampler, whose items follow.
LEMMA EditorInv ==
    ASSUME Inv, EnterEditor \/ ItemUp \/ ItemDown \/ AddListItem \/ AddEntry \/ RemoveItem
    PROVE  Inv'
<1> DEFINE i == field - Base + 1
<1>1. /\ custom \in Seq(Sampler) /\ Len(custom) \in Nat /\ Len(custom) <= MaxCustom
      /\ field \in 0 .. Fields - 1 /\ Fields = Base + Len(custom) /\ Fields' = Base + Len(custom')
      /\ input \in Nat /\ item \in Nat
    BY DEF Inv, Typed, Fields
<1>2. /\ dialog = "settings" /\ OnCustom
      /\ field' = field /\ input' = input /\ dialog' = dialog
    BY DEF EnterEditor, ItemUp, ItemDown, AddListItem, AddEntry, RemoveItem, InEditor, InSettings
<1>3. i \in 1 .. Len(custom) /\ Current = custom[i] /\ Current' = custom'[i]
    BY <1>1, <1>2, Bounds DEF OnCustom, Current
<1>4. custom[i] \in Sampler
    BY <1>1, <1>3, ElementOfSeq
<1> HIDE DEF i
<1>5. Items(Current) \in 0 .. MaxItems
    BY <1>3, <1>4 DEF Items, Sampler
<1>6. CASE EnterEditor
    <2>1. item' = 0 /\ custom' = custom /\ editing' = Current.type
        BY <1>6 DEF EnterEditor
    <2>2. Current' = Current /\ Items(Current)' \in 0 .. MaxItems
        BY <1>3, <1>4, <2>1 DEF Items, Sampler
    <2> QED
        BY <1>1, <1>2, <2>1, <2>2, Bounds DEF Inv, Typed, EditorPlace, EditorFits
<1>7. CASE ItemUp \/ ItemDown
    <2>1. /\ custom' = custom /\ editing' = editing /\ InEditor
        BY <1>7 DEF ItemUp, ItemDown
    <2>2. item <= Items(Current) /\ (Current.type = editing \/ Len(custom) = MaxCustom)
        BY <2>1 DEF Inv, EditorFits
    <2>3. item' \in Nat /\ item' <= Items(Current)
        <3>1. CASE ItemUp
            BY <1>1, <1>5, <2>2, <3>1, Maximum, Bounds DEF ItemUp
        <3>2. CASE ItemDown
            BY <1>1, <1>5, <3>2, Minimum, Bounds DEF ItemDown
        <3> QED
            BY <1>7, <3>1, <3>2
    <2>4. Current' = Current /\ Items(Current)' = Items(Current)
        BY <1>3, <2>1 DEF Items
    <2> QED
        BY <1>1, <1>2, <2>1, <2>2, <2>3, <2>4 DEF Inv, Typed, EditorPlace, EditorFits
<1>8. CASE AddListItem \/ AddEntry \/ RemoveItem
    <2>1. editing' = editing /\ InEditor
        BY <1>8 DEF AddListItem, AddEntry, RemoveItem
    <2>2. item <= Items(Current) /\ (Current.type = editing \/ Len(custom) = MaxCustom)
        BY <2>1 DEF Inv, EditorFits
    <2>3. \E n \in 0 .. MaxItems :
            /\ item' \in Nat /\ item' <= n
            /\ \/ editing = "list" /\ custom' = [custom EXCEPT ![i].list = n]
               \/ editing # "list" /\ custom' = [custom EXCEPT ![i].dict = n]
        <3>1. CASE AddListItem \/ AddEntry
            <4>1. Items(Current) + 1 \in 0 .. MaxItems
                BY <1>1, <1>5, <3>1, Bounds DEF AddListItem, AddEntry
            <4>2. item' \in Nat /\ item' <= Items(Current) + 1
                BY <1>1, <1>5, <2>2, <3>1 DEF AddListItem, AddEntry
            <4>3. \/ editing = "list" /\ custom' = [custom EXCEPT ![i].list = Items(Current) + 1]
                  \/ editing # "list" /\ custom' = [custom EXCEPT ![i].dict = Items(Current) + 1]
                BY <1>3, <3>1 DEF AddListItem, AddEntry, Items, i
            <4> QED
                BY <4>1, <4>2, <4>3
        <3>2. CASE RemoveItem
            <4>1. Items(Current) - 1 \in 0 .. MaxItems
                BY <1>1, <1>5, <3>2, Bounds DEF RemoveItem
            <4>2. Max({0, Items(Current) - 2}) \in 0 .. Items(Current) - 1
                BY <1>5, <4>1, Maximum, Bounds
            <4>3. item' \in Nat /\ item' <= Items(Current) - 1
                <5> DEFINE last == Max({0, Items(Current) - 2})
                <5>1. item' = Min({item, last})
                    BY <3>2 DEF RemoveItem
                <5>2. last \in Nat /\ last <= Items(Current) - 1 /\ Items(Current) \in Nat
                    BY <1>5, <4>2, Bounds
                <5> HIDE DEF last
                <5>3. Min({item, last}) = IF item <= last THEN item ELSE last
                    BY <1>1, <5>2, Minimum
                <5> QED
                    BY <1>1, <5>1, <5>2, <5>3
            <4>4. \/ editing = "list" /\ custom' = [custom EXCEPT ![i].list = Items(Current) - 1]
                  \/ editing # "list" /\ custom' = [custom EXCEPT ![i].dict = Items(Current) - 1]
                BY <1>3, <3>2 DEF RemoveItem, Items, i
            <4> QED
                BY <4>1, <4>3, <4>4
        <3> QED
            BY <1>8, <3>1, <3>2
    <2>4. /\ custom' \in Seq(Sampler) /\ Len(custom') = Len(custom)
          /\ custom'[i].type = custom[i].type /\ item' \in Nat /\ item' <= Items(Current)'
        <3>1. PICK n \in 0 .. MaxItems :
                /\ item' \in Nat /\ item' <= n
                /\ \/ editing = "list" /\ custom' = [custom EXCEPT ![i].list = n]
                   \/ editing # "list" /\ custom' = [custom EXCEPT ![i].dict = n]
            BY <2>3
        <3>2. CASE editing = "list"
            <4>1. custom' = [custom EXCEPT ![i].list = n]
                BY <3>1, <3>2
            <4> QED
                BY <1>1, <1>3, <2>1, <3>1, <3>2, <4>1, ListChanged DEF Items
        <3>3. CASE editing # "list"
            <4>1. custom' = [custom EXCEPT ![i].dict = n]
                BY <3>1, <3>3
            <4> QED
                BY <1>1, <1>3, <2>1, <3>1, <3>3, <4>1, DictChanged DEF Items
        <3> QED
            BY <3>2, <3>3
    <2> QED
        BY <1>1, <1>2, <1>3, <2>1, <2>2, <2>4 DEF Inv, Typed, EditorPlace, EditorFits
<1> QED
    BY <1>6, <1>7, <1>8

LEMMA StepInv == Inv /\ [Next]_samplerVars => Inv'
<1> SUFFICES ASSUME Inv, [Next]_samplerVars PROVE Inv'
    OBVIOUS
<1>1. CASE UNCHANGED samplerVars
    BY <1>1 DEF Inv, Typed, Fields, EditorPlace, EditorFits, InEditor, OnCustom, Current, Items, samplerVars
<1>2. CASE \E t \in Types : ConfirmAdding(t)
    BY <1>2, AddingInv
<1> QED
    BY <1>1, <1>2, FormInv, SettingsInv, EditorInv DEF Next

LEMMA DialogSafety == Spec => []Inv
BY InitInv, StepInv, PTL DEF Spec

\* The open editor is on an item that its sampler has, or on the line below, and on
\* a sampler of its type unless the table was full (draw_sampler_settings and the
\* keys of the editors in modal_handle_key).
THEOREM EditorsFit == Spec => []EditorFits
<1>1. Inv => EditorFits
    BY DEF Inv
<1> QED
    BY <1>1, DialogSafety, PTL

\* An import keeps the samplers there are, but for the last of a full table
\* (the bulk import in modal_handle_key).
THEOREM ImportsAdd == Spec => ImportAdds
<1> DEFINE Keeps ==
        \/ IsPrefix(custom, custom')
        \/ /\ Len(custom) = MaxCustom /\ Len(custom') = MaxCustom
           /\ IsPrefix(Front(custom), custom')
<1>1. ASSUME Inv, [Next]_samplerVars, dialog = "import", dialog' = "settings"
      PROVE  Keeps
    <2>1. custom \in Seq(Sampler) /\ Len(custom) \in Nat /\ Len(custom) <= MaxCustom
        BY <1>1 DEF Inv, Typed
    <2>2. ASSUME NEW t \in Seq(Sampler), custom' = t,
                 \/ Len(t) > Len(custom)
                 \/ Len(t) = MaxCustom /\ Len(custom) = MaxCustom,
                 \A j \in 1 .. Len(custom) : j < Len(t) => t[j] = custom[j]
          PROVE  Keeps
        <3>1. CASE Len(t) > Len(custom)
            <4>1. \A j \in 1 .. Len(custom) : custom[j] = t[j]
                BY <2>1, <2>2, <3>1
            <4>2. IsPrefix(custom, t)
                BY <2>1, <3>1, <4>1, PrefixOf
            <4> QED
                BY <2>2, <4>2
        <3>2. CASE Len(t) = MaxCustom /\ Len(custom) = MaxCustom
            <4>1. /\ Front(custom) \in Seq(Sampler) /\ Len(Front(custom)) = Len(custom) - 1
                  /\ \A j \in 1 .. Len(custom) - 1 : Front(custom)[j] = custom[j]
                BY <2>1, <3>2, Bounds, SubSeqProperties DEF Front
            <4>2. \A j \in 1 .. Len(Front(custom)) : Front(custom)[j] = t[j]
                BY <2>1, <2>2, <3>2, <4>1
            <4>3. IsPrefix(Front(custom), t)
                BY <2>1, <3>2, <4>1, <4>2, PrefixOf
            <4> QED
                BY <2>2, <3>2, <4>3
        <3> QED
            BY <2>2, <3>1, <3>2
    <2>3. CASE CancelImport
        <3>1. custom' = custom
            BY <2>3 DEF CancelImport, Opened
        <3>2. IsPrefix(custom, custom)
            BY <2>1, PrefixOf
        <3> QED
            BY <3>1, <3>2
    <2>4. CASE Import
        <3>1. PICK t \in Types, n \in 1 .. MaxItems :
                \/ Opened(Imported(custom, t, n))
                \/ \E u \in Types, k \in 1 .. MaxItems :
                    Opened(Imported(Imported(custom, t, n), u, k))
            BY <2>4 DEF Import
        <3>2. CASE Opened(Imported(custom, t, n))
            <4>1. custom' = Imported(custom, t, n)
                BY <3>2 DEF Opened
            <4>2. /\ custom' \in Seq(Sampler)
                  /\ Len(custom') = IF Len(custom) < MaxCustom THEN Len(custom) + 1 ELSE MaxCustom
                  /\ \A j \in 1 .. Len(custom) : j < Len(custom') => custom'[j] = custom[j]
                BY <2>1, <4>1, ImportedProperties
            <4>3. Len(custom') > Len(custom) \/ (Len(custom') = MaxCustom /\ Len(custom) = MaxCustom)
                BY <2>1, <4>2, Bounds
            <4> QED
                BY <2>2, <4>2, <4>3
        <3>3. CASE \E u \in Types, k \in 1 .. MaxItems :
                        Opened(Imported(Imported(custom, t, n), u, k))
            <4>1. PICK u \in Types, k \in 1 .. MaxItems :
                    custom' = Imported(Imported(custom, t, n), u, k)
                BY <3>3 DEF Opened
            <4> QED
                BY <2>1, <2>2, <4>1, TwiceImported
        <3> QED
            BY <3>1, <3>2, <3>3
    <2> QED
        BY <1>1, <2>3, <2>4
        DEF Next, samplerVars, Open, Send, Resize, Escape, Save, StartAdding, StopAdding,
            ConfirmAdding, StartImport, KeyUp, KeyDown, Step, RemoveCustom, EnterEditor,
            EnterValue, Type, Backspace, LeaveEditor, ItemUp, ItemDown, AddListItem, AddEntry,
            RemoveItem, InSettings, InEditor, Closed
<1>2. Inv /\ [Next]_samplerVars
        => [dialog = "import" /\ dialog' = "settings" => Keeps]_samplerVars
    BY <1>1
<1> QED
    BY <1>2, DialogSafety, PTL DEF Spec, ImportAdds
-----------------------------------------------------------------------------
\* What keeps the selection on the screen. Removing the last sampler takes the
\* selection up and leaves the scroll behind: it may be past the selected field
\* then, but only of the last one, and the drawing shows no line past the last.
FieldInView ==
    /\ scroll \in Nat /\ field < scroll + Rows
    /\ scroll <= field \/ field = Fields - 1

ItemInView ==
    InEditor =>
        /\ itemScroll \in Nat
        /\ editing = "list" => item < itemScroll + ListRows
        /\ itemScroll <= item \/ item >= Items(Current) - 1

InView == FieldInView /\ ItemInView

LEMMA RowsAreThere ==
    /\ Rows \in Nat \ {0} /\ Rows >= 1 /\ ListRows \in Nat \ {0} /\ ListRows >= 1
    /\ DictRows \in Nat \ {0} /\ DictRows >= 1
BY SamplerAssumption

\* Scrolling down ends with the line inside.
LEMMA ScrolledInside ==
    ASSUME NEW upper \in Nat, NEW line \in Nat, NEW rows \in Nat \ {0}
    PROVE  /\ ScrolledTo(upper, line, rows) \in Nat
           /\ line < ScrolledTo(upper, line, rows) + rows
           /\ upper <= line => ScrolledTo(upper, line, rows) <= line
           /\ ScrolledTo(upper, line, rows) <= line \/ ScrolledTo(upper, line, rows) = upper
BY DEF ScrolledTo

LEMMA DrawStartValue ==
    ASSUME NEW upper \in Nat, NEW total \in Nat, NEW rows \in Nat \ {0}
    PROVE  DrawStart(upper, total, rows) =
             IF total <= rows THEN 0
             ELSE IF upper <= total - rows THEN upper ELSE total - rows
<1>1. Min({upper, total - rows}) = IF upper <= total - rows THEN upper ELSE total - rows
    BY DEF Min
<1>2. Min({upper, total - rows}) \in Int
    BY <1>1
<1>3. Max({0, Min({upper, total - rows})}) =
        IF 0 >= Min({upper, total - rows}) THEN 0 ELSE Min({upper, total - rows})
    BY <1>2, Maximum
<1> QED
    BY <1>1, <1>3 DEF DrawStart

LEMMA InitInView == Init => InView
BY Bounds, RowsAreThere DEF Init, InView, FieldInView, ItemInView, InEditor

\* Opening and closing go back to the first field, the forms over the settings
\* leave everything where it is.
LEMMA FormInView ==
    ASSUME Inv, InView,
           Open \/ Send \/ Resize \/ Escape \/ Save \/ StartAdding \/ StopAdding
           \/ StartImport \/ CancelImport \/ Import
    PROVE  InView'
<1>1. CASE field' = 0 /\ scroll' = 0
    BY <1>1, Bounds, RowsAreThere DEF InView, FieldInView, ItemInView, InEditor, OnCustom
<1>2. CASE Send \/ StartAdding \/ StopAdding \/ StartImport
    <2>1. UNCHANGED <<custom, field, scroll>>
        BY <1>2 DEF Send, StartAdding, StopAdding, StartImport
    <2>2. ~InEditor'
        BY <1>2 DEF Send, StartAdding, StopAdding, StartImport, InSettings, InEditor, Inv, EditorPlace
    <2> QED
        BY <2>1, <2>2 DEF InView, FieldInView, ItemInView, Fields
<1>3. CASE Open \/ Resize \/ Escape \/ Save \/ CancelImport \/ Import
    BY <1>1, <1>3 DEF Open, Resize, Escape, Save, CancelImport, Import, Opened, Closed
<1> QED
    BY <1>2, <1>3

\* The keys of the settings, with no editor open behind them
LEMMA SettingsInView ==
    ASSUME Inv, InView,
           KeyUp \/ KeyDown \/ Step \/ RemoveCustom \/ EnterValue \/ Type \/ Backspace \/ LeaveEditor
    PROVE  InView'
<1>1. /\ custom \in Seq(Sampler) /\ Len(custom) \in Nat /\ scroll \in Nat
      /\ field \in 0 .. Fields - 1 /\ Fields = Base + Len(custom) /\ Fields' = Base + Len(custom')
    BY DEF Inv, Typed, Fields, InView, FieldInView
<1>2. field < scroll + Rows /\ (scroll <= field \/ field = Fields - 1)
    BY DEF InView, FieldInView
<1>3. ~InEditor'
    BY DEF KeyUp, KeyDown, Step, RemoveCustom, EnterValue, Type, Backspace, LeaveEditor,
           InSettings, InEditor
<1>4. CASE KeyUp
    <2>1. field' = IF field = 0 THEN 0 ELSE field - 1
        BY <1>1, <1>4, Maximum, Bounds DEF KeyUp
    <2>2. field' \in Nat
        BY <1>1, <2>1, Bounds
    <2>3. Min({scroll, field'}) = IF scroll <= field' THEN scroll ELSE field'
        BY <1>1, <2>2, Minimum
    <2>4. scroll' = IF field > 0 THEN (IF scroll <= field' THEN scroll ELSE field') ELSE scroll
        BY <1>4, <2>3 DEF KeyUp
    <2>5. custom' = custom
        BY <1>4 DEF KeyUp
    <2> QED
        BY <1>1, <1>2, <1>3, <2>1, <2>2, <2>4, <2>5, Bounds, RowsAreThere
        DEF InView, FieldInView, ItemInView, Fields
<1>5. CASE KeyDown
    <2>1. Fields - 1 \in Nat /\ field + 1 \in Nat
        BY <1>1, Bounds
    <2>2. field' = IF Fields - 1 <= field + 1 THEN Fields - 1 ELSE field + 1
        BY <1>5, <2>1, Minimum DEF KeyDown
    <2>3. custom' = custom
        BY <1>5 DEF KeyDown
    <2>4. CASE field < Fields - 1
        <3>1. field' = field + 1 /\ scroll' = ScrolledTo(scroll, field', Rows) /\ scroll <= field'
            BY <1>1, <1>2, <1>5, <2>2, <2>4, Bounds DEF KeyDown
        <3>2. field' \in Nat
            BY <2>1, <3>1
        <3>3. /\ ScrolledTo(scroll, field', Rows) \in Nat
              /\ field' < ScrolledTo(scroll, field', Rows) + Rows
              /\ scroll <= field' => ScrolledTo(scroll, field', Rows) <= field'
            BY <1>1, <3>2, ScrolledInside, RowsAreThere
        <3>4. scroll' \in Nat /\ field' < scroll' + Rows /\ scroll' <= field'
            BY <3>1, <3>3
        <3> QED
            BY <1>3, <3>4 DEF InView, FieldInView, ItemInView
    <2>5. CASE ~(field < Fields - 1)
        <3>1. field' = field /\ scroll' = scroll
            BY <1>1, <1>5, <2>2, <2>5, Bounds DEF KeyDown
        <3> QED
            BY <1>1, <1>2, <1>3, <2>3, <3>1 DEF InView, FieldInView, ItemInView, Fields
    <2> QED
        BY <2>4, <2>5
<1>6. CASE RemoveCustom
    <2>1. custom' = RemoveAt(custom, field - Base + 1) /\ field - Base + 1 \in 1 .. Len(custom)
        BY <1>1, <1>6, Bounds DEF RemoveCustom, OnCustom
    <2>2. Len(custom') = Len(custom) - 1
        BY <1>1, <2>1, RemoveAtLength
    <2>3. field' = (IF field >= Base + Len(custom') THEN field - 1 ELSE field) /\ scroll' = scroll
        BY <1>6 DEF RemoveCustom
    <2>4. scroll' \in Nat /\ field' < scroll' + Rows
        BY <1>1, <1>2, <2>3, RowsAreThere
    <2>5. Fields' = Fields - 1 /\ field' = IF field = Fields - 1 THEN field - 1 ELSE field
        BY <1>1, <2>2, <2>3, Bounds
    <2>6. scroll' <= field' \/ field' = Fields' - 1
        BY <1>1, <1>2, <2>3, <2>5
    <2> QED
        BY <1>3, <2>4, <2>6 DEF InView, FieldInView, ItemInView
<1>7. CASE EnterValue
    <2>1. Len(custom') = Len(custom)
        <3>1. CASE OnCustom /\ Current.type \in {"list", "dict"}
            <4>1. PICK n \in 0 .. Min({MaxItems, input}) :
                    custom' = [custom EXCEPT ![field - Base + 1].list = n]
                BY <1>7, <3>1 DEF EnterValue
            <4> QED
                BY <1>1, <4>1
        <3>2. CASE ~(OnCustom /\ Current.type \in {"list", "dict"})
            BY <1>7, <3>2 DEF EnterValue
        <3> QED
            BY <3>1, <3>2
    <2>2. field' = field /\ scroll' = scroll
        BY <1>7 DEF EnterValue
    <2> QED
        BY <1>1, <1>2, <1>3, <2>1, <2>2 DEF InView, FieldInView, ItemInView
<1>8. CASE Step \/ Type \/ Backspace \/ LeaveEditor
    <2>1. UNCHANGED <<custom, field, scroll>>
        BY <1>8 DEF Step, Type, Backspace, LeaveEditor
    <2> QED
        BY <1>1, <1>2, <1>3, <2>1 DEF InView, FieldInView, ItemInView
<1> QED
    BY <1>4, <1>5, <1>6, <1>7, <1>8

\* A new sampler is the last and is scrolled to; its editor starts at the top.
LEMMA AddingInView ==
    ASSUME Inv, InView, NEW type \in Types, ConfirmAdding(type)
    PROVE  InView'
<1> DEFINE added == Add(custom, type)
<1>1. /\ custom \in Seq(Sampler) /\ Len(custom) \in Nat /\ Len(custom) <= MaxCustom
      /\ scroll \in Nat /\ editing = "none"
    BY DEF Inv, Typed, EditorPlace, ConfirmAdding, InView, FieldInView
<1>2. Len(added) = IF Len(custom) < MaxCustom THEN Len(custom) + 1 ELSE MaxCustom
    BY <1>1, AddProperties
<1>3. custom' = added /\ field' = Base + Len(added) - 1 /\ scroll' = ScrolledTo(scroll, field', Rows)
    BY DEF ConfirmAdding
<1> HIDE DEF added
<1>4. field' \in Nat /\ field' = Fields' - 1
    BY <1>1, <1>2, <1>3, Bounds DEF Fields
<1>5. scroll' \in Nat /\ field' < scroll' + Rows
    <2>1. /\ ScrolledTo(scroll, field', Rows) \in Nat
          /\ field' < ScrolledTo(scroll, field', Rows) + Rows
        BY <1>1, <1>4, ScrolledInside, RowsAreThere
    <2> QED
        BY <1>3, <2>1
<1>6. \/ editing' = "none"
      \/ item' = 0 /\ itemScroll' = 0
    BY <1>1 DEF ConfirmAdding
<1>7. ItemInView'
    BY <1>6, RowsAreThere DEF ItemInView, InEditor
<1> QED
    BY <1>4, <1>5, <1>7 DEF InView, FieldInView

\* The keys of an editor
LEMMA EditorInView ==
    ASSUME Inv, Inv', InView, EnterEditor \/ ItemUp \/ ItemDown \/ AddListItem \/ AddEntry \/ RemoveItem
    PROVE  InView'
<1> DEFINE i == field - Base + 1
           n == Items(Current)
<1>1. /\ custom \in Seq(Sampler) /\ Len(custom) \in Nat /\ item \in Nat
      /\ field \in 0 .. Fields - 1 /\ Fields = Base + Len(custom) /\ Fields' = Base + Len(custom')
    BY DEF Inv, Typed, Fields
<1>2. /\ OnCustom /\ field' = field /\ scroll' = scroll
      /\ EnterEditor \/ InEditor
    BY DEF EnterEditor, ItemUp, ItemDown, AddListItem, AddEntry, RemoveItem, InEditor
<1>3. i \in 1 .. Len(custom) /\ Current = custom[i] /\ Current' = custom'[i]
    BY <1>1, <1>2, Bounds DEF OnCustom, Current
<1>4. custom[i] \in Sampler
    BY <1>1, <1>3, ElementOfSeq
<1> HIDE DEF i
<1>5. n \in 0 .. MaxItems
    BY <1>3, <1>4 DEF Items, Sampler
<1>6. Len(custom') = Len(custom)
    BY <1>1 DEF EnterEditor, ItemUp, ItemDown, AddListItem, AddEntry, RemoveItem
<1>7. FieldInView'
    BY <1>1, <1>2, <1>6 DEF InView, FieldInView
<1>8. InEditor => /\ item <= n /\ itemScroll \in Nat
                  /\ editing = "list" => item < itemScroll + ListRows
                  /\ itemScroll <= item \/ item >= n - 1
    BY DEF Inv, EditorFits, InView, ItemInView
<1>9. CASE EnterEditor
    BY <1>7, <1>9, RowsAreThere DEF EnterEditor, InView, ItemInView
<1>10. CASE ItemUp
    <2>1. item' = IF item = 0 THEN 0 ELSE item - 1
        BY <1>1, <1>10, Maximum DEF ItemUp
    <2>2. UNCHANGED <<custom, editing>> /\ InEditor
        BY <1>10 DEF ItemUp
    <2>3. itemScroll' = (IF itemScroll <= item' THEN itemScroll ELSE item') /\ itemScroll \in Nat
        <3>1. item' \in Nat /\ itemScroll \in Nat
            BY <1>1, <1>8, <2>1, <2>2
        <3>2. Min({itemScroll, item'}) = IF itemScroll <= item' THEN itemScroll ELSE item'
            BY <3>1, Minimum
        <3> QED
            BY <1>10, <3>1, <3>2 DEF ItemUp
    <2>4. /\ itemScroll' \in Nat /\ itemScroll' <= item'
          /\ editing = "list" => item' < itemScroll' + ListRows
        BY <1>1, <1>8, <2>1, <2>2, <2>3, RowsAreThere
    <2> QED
        BY <1>7, <2>2, <2>4 DEF InView, ItemInView
<1>11. CASE ItemDown
    <2>1. item' = (IF n <= item + 1 THEN n ELSE item + 1) /\ InEditor
        BY <1>1, <1>5, <1>11, Minimum, Bounds DEF ItemDown
    <2>2. itemScroll' = ScrolledTo(itemScroll, item', EditorRows) /\ UNCHANGED <<custom, editing>>
        BY <1>11 DEF ItemDown
    <2>3. item' \in Nat /\ item <= item' /\ itemScroll \in Nat
        BY <1>1, <1>5, <1>8, <2>1, Bounds
    <2>4. EditorRows \in Nat \ {0} /\ (editing = "list" => EditorRows = ListRows)
        BY RowsAreThere DEF EditorRows
    <2>5. /\ itemScroll' \in Nat /\ item' < itemScroll' + EditorRows
          /\ itemScroll' <= item' \/ itemScroll' = itemScroll
        BY <2>2, <2>3, <2>4, ScrolledInside
    <2>6. Items(Current)' = n
        BY <1>3, <2>2 DEF Items
    <2>7. itemScroll' <= item' \/ item' >= n - 1
        BY <1>1, <1>5, <1>8, <2>1, <2>3, <2>5, Bounds
    <2> QED
        BY <1>7, <2>2, <2>4, <2>5, <2>6, <2>7 DEF InView, ItemInView
<1>12. CASE AddListItem
    <2>1. /\ custom' = [custom EXCEPT ![i].list = @ + 1] /\ editing = "list" /\ InEditor
          /\ item = n /\ UNCHANGED <<editing, item, itemScroll>>
        BY <1>12 DEF AddListItem, i
    <2>2. Items(Current)' = n + 1
        BY <1>1, <1>3, <1>4, <2>1 DEF Items, Sampler
    <2> QED
        BY <1>1, <1>5, <1>7, <1>8, <2>1, <2>2 DEF InView, ItemInView
<1>13. CASE AddEntry
    <2>1. /\ custom' = [custom EXCEPT ![i].dict = @ + 1] /\ editing = "dict" /\ InEditor
          /\ item = n /\ item' = item + 1 /\ UNCHANGED <<editing, itemScroll>>
        BY <1>13 DEF AddEntry, i
    <2>2. Items(Current)' = n + 1
        BY <1>1, <1>3, <1>4, <2>1 DEF Items, Sampler
    <2> QED
        BY <1>1, <1>5, <1>7, <1>8, <2>1, <2>2 DEF InView, ItemInView
<1>14. CASE RemoveItem
    <2>1. /\ InEditor /\ item < n /\ UNCHANGED <<editing, itemScroll>>
          /\ item' = Min({item, Max({0, n - 2})})
          /\ custom' = IF editing = "list" THEN [custom EXCEPT ![i].list = @ - 1]
                       ELSE [custom EXCEPT ![i].dict = @ - 1]
        BY <1>14 DEF RemoveItem, i
    <2>2. Items(Current)' = n - 1
        BY <1>1, <1>3, <1>4, <2>1 DEF Items, Sampler
    <2>3. item' = IF n >= 2 /\ n - 2 < item THEN n - 2 ELSE item
        <3>1. CASE n >= 2
            <4>1. Max({0, n - 2}) = n - 2
                BY <1>5, <3>1, Maximum
            <4>2. n \in Nat /\ n - 2 \in Nat
                BY <1>5, <3>1, Bounds
            <4>3. Min({item, n - 2}) = IF item <= n - 2 THEN item ELSE n - 2
                BY <1>1, <4>2, Minimum
            <4>4. item' = IF item <= n - 2 THEN item ELSE n - 2
                BY <2>1, <4>1, <4>3
            <4> QED
                BY <1>1, <3>1, <4>2, <4>4
        <3>2. CASE n < 2
            <4>1. n = 1 /\ item = 0
                BY <1>1, <1>5, <2>1, <3>2, Bounds
            <4>2. Max({0, n - 2}) = 0
                BY <4>1, Maximum
            <4>3. Min({item, 0}) = 0
                BY <4>1, Minimum
            <4> QED
                BY <2>1, <4>1, <4>2, <4>3
        <3> QED
            BY <1>5, <3>1, <3>2
    <2>4. /\ itemScroll' \in Nat
          /\ editing' = "list" => item' < itemScroll' + ListRows
          /\ itemScroll' <= item' \/ item' >= Items(Current)' - 1
        <3>1. itemScroll \in Nat /\ itemScroll' = itemScroll /\ editing' = editing
            BY <1>8, <2>1
        <3>2. n \in Nat /\ item < n /\ (itemScroll <= item \/ item >= n - 1)
            BY <1>5, <1>8, <2>1, Bounds
        <3>3. item' \in Nat /\ item' <= item /\ (item' = item \/ item' = n - 2)
            BY <1>1, <2>3, <3>2
        <3>4. editing = "list" => item' < itemScroll + ListRows
            BY <1>1, <1>8, <2>1, <3>1, <3>3, RowsAreThere
        <3>5. itemScroll <= item' \/ item' >= n - 2
            BY <1>1, <3>1, <3>2, <3>3
        <3> QED
            BY <2>2, <3>1, <3>2, <3>3, <3>4, <3>5
    <2> QED
        BY <1>7, <2>4 DEF InView, ItemInView
<1> QED
    BY <1>9, <1>10, <1>11, <1>12, <1>13, <1>14

LEMMA StepInView == Inv /\ Inv' /\ InView /\ [Next]_samplerVars => InView'
<1> SUFFICES ASSUME Inv, Inv', InView, [Next]_samplerVars PROVE InView'
    OBVIOUS
<1>1. CASE UNCHANGED samplerVars
    BY <1>1 DEF InView, FieldInView, ItemInView, Fields, InEditor, OnCustom, Current, Items, samplerVars
<1>2. CASE \E t \in Types : ConfirmAdding(t)
    BY <1>2, AddingInView
<1> QED
    BY <1>1, <1>2, FormInView, SettingsInView, EditorInView DEF Next

\* The selected field is one that is drawn, and so is the selected item, but for the
\* line that adds one (draw_sampler_settings and the keys in modal_handle_key,
\* which keep the scroll apart from the clamp in the drawing).
THEOREM SelectionIsShown == Spec => []SelectedShown
<1>1. ASSUME Inv, InView PROVE SelectedShown
    <2>1. /\ field \in 0 .. Fields - 1 /\ Fields \in Nat /\ item \in Nat
          /\ custom \in Seq(Sampler) /\ Len(custom) \in Nat
        BY <1>1, Bounds DEF Inv, Typed, Fields
    <2>2. scroll \in Nat /\ field < scroll + Rows /\ (scroll <= field \/ field = Fields - 1)
        BY <1>1 DEF InView, FieldInView
    <2>3. field \in DrawnFields
        <3> DEFINE start == DrawStart(scroll, Fields, Rows)
        <3>1. start = IF Fields <= Rows THEN 0
                      ELSE IF scroll <= Fields - Rows THEN scroll ELSE Fields - Rows
            BY <2>1, <2>2, DrawStartValue, RowsAreThere
        <3>2. start \in Nat /\ start <= field /\ field < start + Rows
            BY <2>1, <2>2, <3>1, RowsAreThere
        <3>3. Min({start + Rows, Fields}) = IF start + Rows <= Fields THEN start + Rows ELSE Fields
            BY <2>1, <3>2, Minimum, RowsAreThere
        <3> HIDE DEF start
        <3> QED
            BY <2>1, <3>2, <3>3, RowsAreThere DEF DrawnFields, start
    <2>4. ASSUME InEditor
          PROVE  /\ Current \in Sampler /\ item <= Items(Current) /\ itemScroll \in Nat
                 /\ editing = "list" => item < itemScroll + ListRows
                 /\ itemScroll <= item \/ item >= Items(Current) - 1
        <3>1. field - Base + 1 \in 1 .. Len(custom)
            BY <2>1, <2>4, Bounds DEF InEditor, OnCustom, Fields
        <3>2. Current \in Sampler
            BY <2>1, <3>1, ElementOfSeq DEF Current
        <3> QED
            BY <1>1, <2>4, <3>2 DEF Inv, EditorFits, InView, ItemInView
    <2>5. ASSUME InEditor, editing = "list"
          PROVE  item \in DrawnItems \/ item = Current.list
        <3> DEFINE start == DrawStart(itemScroll, Current.list, ListRows)
                   n == Current.list
        <3>1. n \in Nat /\ item <= n /\ Items(Current) = n
            BY <2>4, <2>5, Bounds DEF Sampler, Items
        <3>2. /\ itemScroll \in Nat /\ item < itemScroll + ListRows
              /\ itemScroll <= item \/ item >= n - 1
            BY <2>4, <2>5, <3>1
        <3> HIDE DEF n
        <3>3. start = IF n <= ListRows THEN 0
                      ELSE IF itemScroll <= n - ListRows THEN itemScroll ELSE n - ListRows
            BY <3>1, <3>2, DrawStartValue, RowsAreThere DEF n
        <3> HIDE DEF start
        <3>4. start \in Nat /\ (item < n => start <= item /\ item <= start + ListRows - 1)
            BY <2>1, <3>1, <3>2, <3>3, RowsAreThere
        <3>5. Min({start + ListRows - 1, n}) =
                IF start + ListRows - 1 <= n THEN start + ListRows - 1 ELSE n
            BY <3>1, <3>4, Minimum, RowsAreThere
        <3>6. DrawnItems = start .. Min({start + ListRows - 1, n})
            BY DEF DrawnItems, start, n
        <3>7. item \in DrawnItems \/ item = n
            BY <2>1, <3>1, <3>4, <3>5, <3>6, RowsAreThere
        <3> QED
            BY <3>7 DEF n
    <2>6. ASSUME InEditor, editing = "dict"
          PROVE  \E e \in DrawnEntries : e <= item
        <3> DEFINE start == DrawStart(itemScroll, Current.dict, DictRows)
                   n == Current.dict
        <3>1. n \in Nat /\ item <= n /\ Items(Current) = n
            BY <2>4, <2>6, Bounds DEF Sampler, Items
        <3>2. itemScroll \in Nat /\ (itemScroll <= item \/ item >= n - 1)
            BY <2>4, <2>6, <3>1
        <3> HIDE DEF n
        <3>3. start = IF n <= DictRows THEN 0
                      ELSE IF itemScroll <= n - DictRows THEN itemScroll ELSE n - DictRows
            BY <3>1, <3>2, DrawStartValue, RowsAreThere DEF n
        <3> HIDE DEF start
        <3>4. start \in Nat /\ start <= item /\ start <= n
            BY <2>1, <3>1, <3>2, <3>3, RowsAreThere
        <3>5. Min({start + DictRows - 1, n}) =
                IF start + DictRows - 1 <= n THEN start + DictRows - 1 ELSE n
            BY <3>1, <3>4, Minimum, RowsAreThere
        <3>6. DrawnEntries = start .. Min({start + DictRows - 1, n})
            BY DEF DrawnEntries, start, n
        <3>7. start \in DrawnEntries
            BY <3>1, <3>4, <3>5, <3>6, RowsAreThere
        <3> QED
            BY <3>4, <3>7
    <2> QED
        BY <2>3, <2>5, <2>6 DEF SelectedShown
<1>2. Spec => []InView
    BY InitInView, StepInView, DialogSafety, PTL DEF Spec
<1> QED
    BY <1>1, <1>2, DialogSafety, PTL
-----------------------------------------------------------------------------
(***************************************************************************)
(* Every counter stays within what it counts: the text that is typed and   *)
(* its cursor, which may be one past the end of what was cleared, in the   *)
(* buffer, and the scrolls in their lists.                                 *)
(***************************************************************************)
Ranges ==
    /\ dialog \in {"closed", "settings", "adding", "import", "broken"}
    /\ readable \in BOOLEAN /\ editing \in {"none", "list", "dict"}
    /\ scroll \in 0 .. Base + MaxCustom
    /\ input \in 0 .. MaxInput /\ cursor \in 0 .. MaxInput + 1
    /\ item \in 0 .. MaxItems /\ itemScroll \in 0 .. MaxItems

LEMMA Sizes ==
    /\ MaxInput \in Nat /\ MaxInput >= 1 /\ MaxText \in Nat /\ MaxInput <= MaxText
    /\ Types \subseteq AllTypes
BY SamplerAssumption

\* Scrolling goes no further than the line it is for.
LEMMA ScrolledRange ==
    ASSUME NEW most \in Nat, NEW upper \in 0 .. most, NEW line \in 0 .. most, NEW rows \in Nat \ {0}
    PROVE  ScrolledTo(upper, line, rows) \in 0 .. most
BY DEF ScrolledTo

LEMMA InitRanges == Init => Ranges
BY Bounds, Sizes DEF Init, Ranges

LEMMA StepRanges == Inv /\ Inv' /\ Ranges /\ [Next]_samplerVars => Ranges'
<1> SUFFICES ASSUME Inv, Inv', Ranges, [Next]_samplerVars PROVE Ranges'
    OBVIOUS
<1>1. /\ custom \in Seq(Sampler) /\ Len(custom) \in Nat /\ Len(custom) <= MaxCustom
      /\ field \in 0 .. Base + MaxCustom /\ field' \in 0 .. Base + MaxCustom
      /\ MaxCustom \in Nat /\ MaxItems \in Nat /\ MaxItems >= 1 /\ Base \in Nat
    <2>1. /\ custom \in Seq(Sampler) /\ Len(custom) <= MaxCustom /\ field \in 0 .. Fields - 1
          /\ custom' \in Seq(Sampler) /\ Len(custom') <= MaxCustom /\ field' \in 0 .. Fields' - 1
        BY DEF Inv, Typed
    <2>2. Fields = Base + Len(custom) /\ Fields' = Base + Len(custom')
        BY DEF Fields
    <2>3. MaxItems >= 1
        BY SamplerAssumption
    <2> QED
        BY <2>1, <2>2, <2>3, Bounds
<1>2. scroll \in 0 .. Base + MaxCustom /\ ScrolledTo(scroll, field', Rows) \in 0 .. Base + MaxCustom
    <2>1. Base + MaxCustom \in Nat /\ scroll \in 0 .. Base + MaxCustom /\ Rows \in Nat \ {0}
        BY <1>1, RowsAreThere DEF Ranges
    <2> QED
        BY <1>1, <2>1, ScrolledRange
<1>3. CASE UNCHANGED samplerVars
    BY <1>3 DEF Ranges, samplerVars
<1>4. CASE Open \/ Send \/ Resize \/ Escape \/ Save \/ StartAdding \/ StopAdding
           \/ StartImport \/ CancelImport \/ Import
    <2>1. CASE Open \/ CancelImport \/ Import
        <3>1. /\ dialog' \in {"settings", "broken"} /\ scroll' = 0 /\ input' = 0 /\ cursor' = 0
              /\ UNCHANGED <<readable, editing, item, itemScroll>>
            BY <2>1 DEF Open, CancelImport, Import, Opened
        <3> QED
            BY <1>1, <3>1, Sizes DEF Ranges
    <2>2. CASE Resize \/ Escape \/ Save
        <3>1. readable' \in BOOLEAN
            BY <2>2 DEF Resize, Escape, Save, Loads, Ranges
        <3>2. /\ dialog' = "closed" /\ scroll' = 0 /\ input' = 0 /\ cursor' = 0
              /\ item' = 0 /\ itemScroll' = 0 /\ editing' = editing
            BY <2>2 DEF Resize, Escape, Save, Closed
        <3> QED
            BY <1>1, <3>1, <3>2, Sizes DEF Ranges
    <2>3. CASE Send \/ StartAdding \/ StopAdding \/ StartImport
        BY <2>3 DEF Send, StartAdding, StopAdding, StartImport, Ranges
    <2> QED
        BY <1>4, <2>1, <2>2, <2>3
<1>5. CASE \E t \in Types : ConfirmAdding(t)
    <2> PICK t \in Types : ConfirmAdding(t)
        BY <1>5
    <2>1. scroll' \in 0 .. Base + MaxCustom
        <3>1. scroll' = ScrolledTo(scroll, field', Rows)
            BY DEF ConfirmAdding
        <3> QED
            BY <1>2, <3>1
    <2>2. /\ dialog' = "settings" /\ editing' \in {"none", "list", "dict"}
          /\ item' \in {0, item} /\ itemScroll' \in {0, itemScroll}
          /\ UNCHANGED <<readable, input, cursor>>
        BY DEF ConfirmAdding, Ranges
    <2> QED
        BY <1>1, <2>1, <2>2 DEF Ranges
<1>6. CASE KeyUp \/ KeyDown
    <2>1. scroll' \in 0 .. Base + MaxCustom
        <3>1. CASE KeyUp
            <4>1. scroll' = IF field > 0 THEN Min({scroll, field'}) ELSE scroll
                BY <3>1 DEF KeyUp
            <4>2. Min({scroll, field'}) = IF scroll <= field' THEN scroll ELSE field'
                BY <1>1, Minimum DEF Ranges
            <4> QED
                BY <1>1, <4>1, <4>2 DEF Ranges
        <3>2. CASE KeyDown
            <4>1. scroll' \in {scroll, ScrolledTo(scroll, field', Rows)}
                BY <3>2 DEF KeyDown
            <4> QED
                BY <1>2, <4>1
        <3> QED
            BY <1>6, <3>1, <3>2
    <2>2. /\ input' = 0 /\ cursor' \in {0, cursor}
          /\ UNCHANGED <<dialog, readable, editing, item, itemScroll>>
        BY <1>6 DEF KeyUp, KeyDown, Taken
    <2> QED
        BY <1>1, <2>1, <2>2, Sizes DEF Ranges
<1>7. CASE Step \/ RemoveCustom \/ EnterEditor \/ EnterValue \/ LeaveEditor
    <2>1. /\ input' \in {0, input} /\ cursor' \in {0, cursor} /\ scroll' = scroll
          /\ item' \in {0, item} /\ itemScroll' \in {0, itemScroll}
          /\ UNCHANGED <<dialog, readable>>
        BY <1>7 DEF Step, RemoveCustom, EnterEditor, EnterValue, Taken, LeaveEditor
    <2>2. editing' \in {"none", "list", "dict"}
        BY <1>7 DEF Step, RemoveCustom, EnterEditor, EnterValue, LeaveEditor, Ranges
    <2> QED
        BY <1>1, <2>1, <2>2, Sizes DEF Ranges
<1>8. CASE Type \/ Backspace
    <2>1. /\ UNCHANGED <<readable, scroll, editing, item, itemScroll>>
          /\ dialog' \in {dialog, "broken"}
        BY <1>8 DEF Type, Backspace
    <2>2. input' \in 0 .. MaxInput /\ cursor' \in 0 .. MaxInput + 1
        <3>1. input \in 0 .. MaxInput /\ cursor \in 0 .. MaxInput + 1
            BY DEF Ranges
        <3>2. CASE Type
            BY <3>1, <3>2, Sizes DEF Type
        <3>3. CASE Backspace
            BY <3>1, <3>3, Sizes DEF Backspace
        <3> QED
            BY <1>8, <3>2, <3>3
    <2> QED
        BY <2>1, <2>2 DEF Ranges
<1>9. CASE ItemUp \/ ItemDown \/ AddListItem \/ AddEntry \/ RemoveItem
    <2>1. /\ UNCHANGED <<dialog, readable, field, scroll, input, cursor, editing>> /\ InEditor
        BY <1>9 DEF ItemUp, ItemDown, AddListItem, AddEntry, RemoveItem
    <2>2. InEditor' /\ item' \in Nat
        BY <2>1 DEF InEditor, OnCustom, Inv, Typed
    <2>3. item' <= Items(Current)' /\ Items(Current)' <= MaxItems /\ Items(Current)' \in Nat
        <3>1. item' <= Items(Current)'
            BY <2>2 DEF Inv, EditorFits
        <3>2. custom' \in Seq(Sampler) /\ field' \in 0 .. Fields' - 1 /\ Fields' = Base + Len(custom')
            BY DEF Inv, Typed, Fields
        <3>3. field' - Base + 1 \in 1 .. Len(custom')
            <4> DEFINE m == Len(custom')
                       f == field'
            <4>1. m \in Nat /\ f >= Base /\ f \in 0 .. (Base + m) - 1
                BY <2>2, <3>2 DEF InEditor, OnCustom
            <4> HIDE DEF m, f
            <4>2. f - Base + 1 \in 1 .. m
                BY <4>1, Bounds
            <4> QED
                BY <4>2 DEF m, f
        <3>4. Current' \in Sampler
            BY <3>2, <3>3, ElementOfSeq DEF Current
        <3> QED
            BY <1>1, <3>1, <3>4 DEF Items, Sampler
    <2>4. item' \in 0 .. MaxItems
        BY <1>1, <2>2, <2>3
    <2>5. itemScroll' \in 0 .. MaxItems
        <3>1. CASE ItemUp
            <4>1. itemScroll' = Min({itemScroll, item'})
                BY <3>1 DEF ItemUp
            <4>2. Min({itemScroll, item'}) = IF itemScroll <= item' THEN itemScroll ELSE item'
                BY <1>1, <2>4, Minimum DEF Ranges
            <4> QED
                BY <1>1, <2>4, <4>1, <4>2 DEF Ranges
        <3>2. CASE ItemDown
            <4>1. itemScroll' = ScrolledTo(itemScroll, item', EditorRows)
                BY <3>2 DEF ItemDown
            <4>2. EditorRows \in Nat \ {0}
                BY RowsAreThere DEF EditorRows
            <4> QED
                BY <1>1, <2>4, <4>1, <4>2, ScrolledRange DEF Ranges
        <3>3. CASE AddListItem \/ AddEntry \/ RemoveItem
            BY <3>3 DEF AddListItem, AddEntry, RemoveItem, Ranges
        <3> QED
            BY <1>9, <3>1, <3>2, <3>3
    <2> QED
        BY <2>1, <2>4, <2>5 DEF Ranges
<1> QED
    BY <1>3, <1>4, <1>5, <1>6, <1>7, <1>8, <1>9 DEF Next

\* Table, fields, text, cursor and scrolls stay within their arrays and lists.
THEOREM SettingsTyped == Spec => []TypeOK
<1>1. Inv /\ Ranges => TypeOK
    <2> SUFFICES ASSUME Inv, Ranges PROVE TypeOK
        OBVIOUS
    <2>1. /\ custom \in Seq(Sampler) /\ Len(custom) <= MaxCustom
          /\ field \in 0 .. Fields - 1 /\ Fields = Base + Len(custom)
        BY DEF Inv, Typed, Fields
    <2>2. field \in 0 .. Base + MaxCustom - 1
        <3>1. Len(custom) \in Nat
            BY <2>1
        <3> QED
            BY <2>1, <3>1, Bounds
    <2>3. input \in 0 .. MaxText /\ cursor \in 0 .. MaxText + 1
        BY Sizes DEF Ranges
    <2> QED
        BY <2>1, <2>2, <2>3 DEF TypeOK, Ranges
<1>2. Spec => []Ranges
    BY InitRanges, StepRanges, DialogSafety, PTL DEF Spec
<1> QED
    BY <1>1, <1>2, DialogSafety, PTL

-----------------------------------------------------------------------------
(***************************************************************************)
(* The list of models. Every index into it is of a model there is, and the *)
(* model in use stays the one in use when the list changes around it. The  *)
(* form that is open and the selection can only be wrong while their       *)
(* dialog is open, so the invariant is about them there; the file needs    *)
(* its own part, because a start of the program takes its index from it.   *)
(***************************************************************************)
StoredList == [models : Seq(Models!Model), active : Nat]
FormFields == [name : Names \union {"none"}, rest : BOOLEAN, tok : Models!TokKinds]

ModelsTyped ==
    /\ models \in Seq(Models!Model) /\ stored \in StoredList /\ fields \in FormFields
    /\ active \in Nat /\ selection \in Nat

ModelsInv == ModelsTyped /\ Models!IndicesValid

LEMMA ModelsMinimum == \A a, b \in Nat : Models!Min({a, b}) = IF a <= b THEN a ELSE b
BY DEF Models!Min

LEMMA ModelsMaximum == \A a, b \in Nat : Models!Max({a, b}) = IF a >= b THEN a ELSE b
BY DEF Models!Max

\* RemoveAt takes out one element; those before keep their places and those
\* behind move down by one.
LEMMA RemoveAtProperties ==
    ASSUME NEW S, NEW s \in Seq(S), NEW i \in 1 .. Len(s)
    PROVE  /\ Models!RemoveAt(s, i) \in Seq(S) /\ Len(Models!RemoveAt(s, i)) = Len(s) - 1
           /\ \A j \in 1 .. Len(s) - 1 : Models!RemoveAt(s, i)[j] = IF j < i THEN s[j] ELSE s[j + 1]
<1> DEFINE before == SubSeq(s, 1, i - 1)
           behind == SubSeq(s, i + 1, Len(s))
<1>1. Len(s) \in Nat /\ i \in Nat /\ i >= 1 /\ i <= Len(s)
    OBVIOUS
<1>2. /\ before \in Seq(S) /\ Len(before) = i - 1
      /\ \A j \in 1 .. i - 1 : before[j] = s[j]
    BY <1>1, SubSeqProperties
<1>3. /\ behind \in Seq(S) /\ Len(behind) = Len(s) - i
      /\ \A j \in 1 .. Len(s) - i : behind[j] = s[i + j]
    BY <1>1, SubSeqProperties
<1> HIDE DEF before, behind
<1>4. /\ before \o behind \in Seq(S) /\ Len(before \o behind) = Len(s) - 1
      /\ \A j \in 1 .. Len(s) - 1 :
            (before \o behind)[j] = IF j < i THEN before[j] ELSE behind[j - (i - 1)]
    <2>1. /\ before \o behind \in Seq(S) /\ Len(before \o behind) = Len(before) + Len(behind)
          /\ \A j \in 1 .. Len(before) + Len(behind) :
                (before \o behind)[j] = IF j <= Len(before) THEN before[j]
                                        ELSE behind[j - Len(before)]
        BY <1>2, <1>3, ConcatProperties
    <2>2. Len(before) + Len(behind) = Len(s) - 1
        BY <1>1, <1>2, <1>3
    <2>3. \A j \in 1 .. Len(s) - 1 : j <= i - 1 <=> j < i
        BY <1>1
    <2> QED
        BY <1>2, <2>1, <2>2, <2>3
<1>5. Models!RemoveAt(s, i) = before \o behind
    BY DEF Models!RemoveAt, before, behind
<1>6. ASSUME NEW j \in 1 .. Len(s) - 1
      PROVE  (before \o behind)[j] = IF j < i THEN s[j] ELSE s[j + 1]
    <2>1. CASE j < i
        BY <1>1, <1>2, <1>4, <2>1
    <2>2. CASE ~(j < i)
        <3>1. j - (i - 1) \in 1 .. Len(s) - i /\ i + (j - (i - 1)) = j + 1
            BY <1>1, <2>2
        <3> QED
            BY <1>3, <1>4, <2>2, <3>1
    <2> QED
        BY <2>1, <2>2
<1> QED
    BY <1>4, <1>5, <1>6

\* What config_remove_model leaves: the index still is of a model, and of the
\* same one unless that is the one which goes.
LEMMA RemovedProperties ==
    ASSUME ModelsInv, NEW i \in 1 .. Len(models)
    PROVE  LET m == Models!Removed(i).models
               a == Models!Removed(i).active
           IN  /\ m \in Seq(Models!Model) /\ Len(m) = Len(models) - 1
               /\ a \in 0 .. Len(m)
               /\ active \notin {0, i} => a \in 1 .. Len(m) /\ m[a] = models[active]
<1>1. /\ models \in Seq(Models!Model) /\ Len(models) \in Nat /\ active \in 0 .. Len(models)
      /\ i \in Nat
    BY DEF ModelsInv, ModelsTyped, Models!IndicesValid
<1> DEFINE m == Models!RemoveAt(models, i)
<1>2. /\ m \in Seq(Models!Model) /\ Len(m) = Len(models) - 1
      /\ \A j \in 1 .. Len(models) - 1 : m[j] = IF j < i THEN models[j] ELSE models[j + 1]
    BY <1>1, RemoveAtProperties
<1> HIDE DEF m
<1>3. /\ Models!Removed(i).models = m
      /\ Models!Removed(i).active = IF active = i THEN 0 ELSE IF active > i THEN active - 1 ELSE active
    BY DEF Models!Removed, m
<1>4. CASE active \in {0, i}
    BY <1>1, <1>2, <1>3, <1>4
<1>5. CASE active \notin {0, i} /\ active > i
    BY <1>1, <1>2, <1>3, <1>5
<1>6. CASE active \notin {0, i} /\ active < i
    BY <1>1, <1>2, <1>3, <1>6
<1> QED
    BY <1>1, <1>4, <1>5, <1>6

LEMMA InitModels == Models!Init => ModelsInv
<1>1. <<>> \in Seq(Models!Model) /\ Len(<<>>) = 0
    OBVIOUS
<1>2. Models!NoForm \in FormFields
    BY DEF Models!NoForm, FormFields, Models!TokKinds
<1> QED
    BY <1>1, <1>2 DEF Models!Init, Models!Start, ModelsInv, ModelsTyped, Models!IndicesValid, StoredList

\* A change of the list that leaves its file behind or brings it along
LEMMA ChangedStored ==
    ASSUME ModelsInv, NEW m \in Seq(Models!Model), NEW a \in 0 .. Len(m), Models!Changed(m, a)
    PROVE  /\ models' = m /\ active' = a /\ stored' \in StoredList
           /\ stored'.active \in 0 .. Len(stored'.models)
<1>1. CASE stored' = [models |-> m, active |-> a]
    BY <1>1 DEF Models!Changed, StoredList
<1>2. CASE UNCHANGED stored
    BY <1>2 DEF Models!Changed, ModelsInv, ModelsTyped, Models!IndicesValid
<1> QED
    BY <1>1, <1>2 DEF Models!Changed, Models!Saves

\* A step that leaves list, index and file alone and opens neither a list nor a
\* form to edit keeps the invariant if its form is one.
LEMMA ViewInv ==
    ASSUME ModelsInv, UNCHANGED <<models, active, stored>>, fields' \in FormFields, selection' \in Nat,
           form' = "edit" => target' \in 1 .. Len(models),
           form' = "list" => selection' \in 1 .. Models!Max({1, Len(models)})
    PROVE  ModelsInv'
BY DEF ModelsInv, ModelsTyped, Models!IndicesValid

\* A step that changes the list and closes its dialog
LEMMA ChangeInv ==
    ASSUME ModelsInv, NEW m \in Seq(Models!Model), NEW a \in 0 .. Len(m), Models!Changed(m, a),
           form' \in {"none", "message"}, Models!Shut
    PROVE  ModelsInv'
<1>1. /\ models' = m /\ active' = a /\ stored' \in StoredList
      /\ stored'.active \in 0 .. Len(stored'.models)
    BY ChangedStored
<1>2. fields' \in FormFields /\ selection' \in Nat
    BY DEF Models!Shut, FormFields, Models!NoForm, Models!TokKinds
<1> QED
    BY <1>1, <1>2 DEF ModelsInv, ModelsTyped, Models!IndicesValid

\* The keys of the list
LEMMA ListKeysInv ==
    ASSUME ModelsInv, Models!SelectUp \/ Models!SelectDown \/ Models!OpenEdit \/ Models!Use \/ Models!Delete
    PROVE  ModelsInv'
<1>1. /\ models \in Seq(Models!Model) /\ Len(models) \in Nat /\ active \in 0 .. Len(models)
      /\ selection \in Nat /\ fields \in FormFields
    BY DEF ModelsInv, ModelsTyped, Models!IndicesValid
<1>2. CASE Models!SelectUp \/ Models!SelectDown
    <2>1. /\ selection' \in 1 .. Len(models) /\ form' = "list"
          /\ UNCHANGED <<models, active, stored, fields>>
        BY <1>2 DEF Models!SelectUp, Models!SelectDown, Models!Select
    <2>2. Models!Max({1, Len(models)}) = Len(models)
        BY <1>1, <2>1, ModelsMaximum
    <2> QED
        BY <1>1, <2>1, <2>2, ViewInv
<1>3. CASE Models!OpenEdit
    <2>1. /\ selection \in 1 .. Len(models) /\ form' = "edit" /\ target' = selection
          /\ selection' = 0 /\ UNCHANGED <<models, active, stored>>
        BY <1>3 DEF Models!OpenEdit
    <2>2. fields' \in FormFields
        <3>1. models[selection] \in Models!Model
            BY <1>1, <2>1, ElementOfSeq
        <3> QED
            BY <1>3, <2>1, <3>1 DEF Models!OpenEdit, FormFields, Models!Model
    <2> QED
        BY <2>1, <2>2, ViewInv
<1>4. CASE Models!Use
    <2>1. /\ Models!Changed(models, IF selection <= Len(models) THEN selection ELSE active)
          /\ form' = "none" /\ Models!Shut
        BY <1>4 DEF Models!Use, Models!Dialog
    <2> QED
        BY <1>1, <2>1, ChangeInv
<1>5. CASE Models!Delete
    <2> DEFINE m == Models!Removed(selection).models
               a == Models!Removed(selection).active
    <2>1. /\ form = "list" /\ models # <<>> /\ Models!Changed(m, a)
          /\ IF models' = <<>> THEN Models!Dialog("none")
             ELSE /\ selection' = Models!Min({selection, Len(models')})
                  /\ UNCHANGED <<form, focus, fields, target, first>>
        BY <1>5 DEF Models!Delete
    <2>2. selection \in 1 .. Len(models) /\ Len(models) >= 1
        <3>1. Len(models) >= 1
            BY <1>1, <2>1, EmptySeq
        <3>2. Models!Max({1, Len(models)}) = Len(models)
            BY <1>1, <3>1, ModelsMaximum
        <3> QED
            BY <2>1, <3>1, <3>2 DEF ModelsInv, Models!IndicesValid
    <2>3. m \in Seq(Models!Model) /\ Len(m) = Len(models) - 1 /\ a \in 0 .. Len(m)
        BY <2>2, RemovedProperties
    <2> HIDE DEF m, a
    <2>4. /\ models' = m /\ active' = a /\ stored' \in StoredList
          /\ stored'.active \in 0 .. Len(stored'.models)
        BY <2>1, <2>3, ChangedStored
    <2>5. CASE models' = <<>>
        BY <2>1, <2>3, <2>5, ChangeInv DEF Models!Dialog
    <2>6. CASE models' # <<>>
        <3>1. Len(m) \in Nat /\ Len(m) >= 1
            BY <1>1, <2>3, <2>4, <2>6, EmptySeq
        <3>2. selection' \in 1 .. Len(m)
            BY <1>1, <2>1, <2>2, <2>4, <2>6, <3>1, ModelsMinimum
        <3>3. Models!Max({1, Len(m)}) = Len(m)
            BY <3>1, ModelsMaximum
        <3>4. form' = "list" /\ fields' = fields
            BY <2>1, <2>6
        <3>5. ModelsTyped'
            BY <1>1, <2>3, <2>4, <3>1, <3>2, <3>4 DEF ModelsTyped
        <3>6. Models!IndicesValid'
            BY <2>3, <2>4, <3>2, <3>3, <3>4 DEF Models!IndicesValid
        <3> QED
            BY <3>5, <3>6 DEF ModelsInv
    <2> QED
        BY <2>5, <2>6
<1> QED
    BY <1>2, <1>3, <1>4, <1>5

\* The keys of the two forms
LEMMA FormKeysInv == ModelsInv /\ (Models!SetKey \/ Models!EditKey) => ModelsInv'
<1> SUFFICES ASSUME ModelsInv, Models!SetKey \/ Models!EditKey PROVE ModelsInv'
    OBVIOUS
<1>1. /\ models \in Seq(Models!Model) /\ Len(models) \in Nat /\ active \in 0 .. Len(models)
      /\ selection \in Nat /\ fields \in FormFields /\ Models!NoForm \in FormFields
      /\ form \in {"set", "edit"}
    BY DEF ModelsInv, ModelsTyped, Models!IndicesValid, Models!SetKey, Models!EditKey, Models!NoForm, FormFields, Models!TokKinds
<1>2. CASE Models!NextField \/ Models!PrevField
    BY <1>1, <1>2, ViewInv DEF Models!NextField, Models!PrevField, Models!Focus, ModelsInv, Models!IndicesValid
<1>3. CASE Models!PickApi \/ Models!PickTokenizer \/ Models!PickModel \/ Models!FillName \/ Models!FillRest
    <2>1. PICK f \in FormFields : Models!Fill(f)
        BY <1>1, <1>3 DEF Models!PickApi, Models!PickTokenizer, Models!PickModel, Models!FillName, Models!FillRest, FormFields
    <2> QED
        BY <1>1, <2>1, ViewInv DEF Models!Fill, ModelsInv, Models!IndicesValid
<1>4. CASE Models!FetchFails \/ Models!SaveIncomplete
    BY <1>1, <1>4, ViewInv DEF Models!FetchFails, Models!SaveIncomplete, Models!Dialog, Models!Shut
<1>5. CASE Models!SaveNew
    <2>1. Models!Made \in Models!Model
        BY <1>1, <1>5 DEF Models!SaveNew, Models!Filled, Models!Made, FormFields, Models!Model
    <2>2. CASE Len(models) < MaxItems
        <3>1. /\ Append(models, Models!Made) \in Seq(Models!Model)
              /\ Len(Append(models, Models!Made)) = Len(models) + 1
            BY <1>1, <2>1, AppendProperties
        <3>2. Models!Max({1, active}) \in 0 .. Len(models) + 1
            BY <1>1, ModelsMaximum
        <3>3. /\ Models!Changed(Append(models, Models!Made), Models!Max({1, active}))
              /\ form' = "message" /\ Models!Shut
            BY <1>5, <2>2 DEF Models!SaveNew, Models!Dialog
        <3> QED
            BY <3>1, <3>2, <3>3, ChangeInv
    <2>3. CASE ~(Len(models) < MaxItems)
        BY <1>1, <1>5, <2>3, ViewInv DEF Models!SaveNew, Models!Dialog, Models!Shut
    <2> QED
        BY <2>2, <2>3
<1>6. CASE Models!EditKey /\ Models!SaveEdited
    <2>1. Models!Made \in Models!Model /\ target \in 1 .. Len(models)
        BY <1>1, <1>6 DEF Models!SaveEdited, Models!Filled, Models!Made, FormFields, Models!Model, ModelsInv, Models!IndicesValid
    <2>2. /\ [models EXCEPT ![target] = Models!Made] \in Seq(Models!Model)
          /\ Len([models EXCEPT ![target] = Models!Made]) = Len(models)
        BY <1>1, <2>1, ExceptSeq
    <2>3. /\ Models!Changed([models EXCEPT ![target] = Models!Made], active)
          /\ form' = "message" /\ Models!Shut
        BY <1>6 DEF Models!SaveEdited, Models!Dialog
    <2> QED
        BY <1>1, <2>2, <2>3, ChangeInv
<1>7. CASE Models!CancelSet
    BY <1>1, <1>7, ViewInv DEF Models!CancelSet, Models!Close, Models!Dialog, Models!Shut, Models!listVars
<1>8. CASE Models!CancelEdit
    <2>1. Models!Max({1, active}) \in 1 .. Models!Max({1, Len(models)})
        BY <1>1, ModelsMaximum
    <2> QED
        BY <1>1, <1>8, <2>1, ViewInv DEF Models!CancelEdit, Models!ShowList
<1> QED
    BY <1>2, <1>3, <1>4, <1>5, <1>6, <1>7, <1>8 DEF Models!SetKey, Models!EditKey, Models!FormKey

LEMMA StepModels == ModelsInv /\ [Models!Next]_(Models!modelVars) => ModelsInv'
<1> SUFFICES ASSUME ModelsInv, [Models!Next]_(Models!modelVars) PROVE ModelsInv'
    OBVIOUS
<1>1. /\ models \in Seq(Models!Model) /\ Len(models) \in Nat /\ active \in 0 .. Len(models)
      /\ selection \in Nat /\ fields \in FormFields /\ Models!NoForm \in FormFields
    BY DEF ModelsInv, ModelsTyped, Models!IndicesValid, Models!NoForm, FormFields, Models!TokKinds
<1>2. CASE Models!Restart
    <2>1. /\ stored \in StoredList /\ stored.active \in 0 .. Len(stored.models)
        BY DEF ModelsInv, ModelsTyped, Models!IndicesValid
    <2>2. /\ models' = stored.models /\ active' = stored.active /\ stored' = stored
          /\ fields' = Models!NoForm /\ selection' = 0 /\ form' = "none"
        BY <1>2 DEF Models!Restart
    <2>3. ModelsTyped'
        BY <1>1, <2>1, <2>2 DEF ModelsTyped, StoredList
    <2> QED
        BY <2>1, <2>2, <2>3 DEF ModelsInv, Models!IndicesValid
<1>3. CASE Models!OpenList
    <2>1. Models!Max({1, active}) \in 1 .. Models!Max({1, Len(models)})
        BY <1>1, ModelsMaximum
    <2> QED
        BY <1>1, <1>3, <2>1, ViewInv DEF Models!OpenList, Models!ShowList
<1>4. CASE Models!OpenSet \/ Models!Resize
    BY <1>1, <1>4, ViewInv DEF Models!OpenSet, Models!Resize, Models!Dialog, Models!Shut
<1>5. CASE Models!Leave
    BY <1>1, <1>5, ViewInv DEF Models!Leave, Models!Close, Models!Dialog, Models!Shut, Models!listVars
<1>6. CASE Models!SetKey \/ Models!EditKey
    BY <1>6, FormKeysInv
<1>7. CASE Models!SelectUp \/ Models!SelectDown \/ Models!OpenEdit \/ Models!Use \/ Models!Delete
    BY <1>7, ListKeysInv
<1>8. CASE \E k \in Models!TokKinds : Models!TokenizerCommand(k)
    <2> PICK k \in Models!TokKinds : Models!TokenizerCommand(k)
        BY <1>8
    <2> DEFINE m == [models EXCEPT ![Models!Active].tok = k]
    <2>1. Models!Active \in 1 .. Len(models)
        BY <1>1 DEF Models!TokenizerCommand, Models!Active
    <2>2. m \in Seq(Models!Model) /\ Len(m) = Len(models)
        <3>1. models[Models!Active] \in Models!Model
            BY <1>1, <2>1, ElementOfSeq
        <3>2. [models[Models!Active] EXCEPT !.tok = k] \in Models!Model
            BY <3>1 DEF Models!Model
        <3>3. m = [models EXCEPT ![Models!Active] = [models[Models!Active] EXCEPT !.tok = k]]
            OBVIOUS
        <3> QED
            BY <1>1, <2>1, <3>2, <3>3, ExceptSeq
    <2>3. Models!Changed(m, active) /\ form' = "message" /\ Models!Shut
        BY DEF Models!TokenizerCommand, Models!Dialog
    <2> HIDE DEF m
    <2> QED
        BY <1>1, <2>2, <2>3, ChangeInv
<1>9. CASE UNCHANGED Models!modelVars
    BY <1>9 DEF Models!modelVars, ModelsInv, ModelsTyped, Models!IndicesValid
<1> QED
    BY <1>2, <1>3, <1>4, <1>5, <1>6, <1>7, <1>8, <1>9 DEF Models!Next

LEMMA ModelsSafety == Models!Spec => []ModelsInv
BY InitModels, StepModels, PTL DEF Models!Spec

\* The model in use stays the one in use when another one is deleted or added
\* (config_remove_model, config_add_model).
LEMMA ActiveModelStays == Models!Spec => Models!ActiveStays
<1>1. ASSUME ModelsInv, [Models!Next]_(Models!modelVars), active # 0, form \in {"set", "list"}, form' # "none",
             ~(form = "list" /\ selection = active)
      PROVE  active' \in DOMAIN models' /\ models'[active'] = models[active]
    <2>1. /\ models \in Seq(Models!Model) /\ Len(models) \in Nat /\ active \in 1 .. Len(models)
          /\ selection \in Nat /\ DOMAIN models = 1 .. Len(models)
        BY <1>1 DEF ModelsInv, ModelsTyped, Models!IndicesValid
    <2>2. CASE UNCHANGED <<models, active>>
        BY <2>1, <2>2
    <2>3. CASE Models!SaveNew
        <3>1. Models!Made \in Models!Model
            BY <1>1, <2>3 DEF Models!SaveNew, Models!Filled, Models!Made, FormFields, Models!Model, ModelsInv, ModelsTyped
        <3>2. CASE Len(models) < MaxItems
            <4>1. models' = Append(models, Models!Made) /\ active' = Models!Max({1, active})
                BY <2>3, <3>2 DEF Models!SaveNew, Models!Changed
            <4>2. Models!Max({1, active}) = active
                BY <2>1, ModelsMaximum
            <4>3. /\ Append(models, Models!Made)[active] = models[active]
                  /\ active \in DOMAIN Append(models, Models!Made)
                BY <2>1, <3>1, AppendProperties
            <4> QED
                BY <4>1, <4>2, <4>3
        <3>3. CASE ~(Len(models) < MaxItems)
            BY <2>2, <2>3, <3>3 DEF Models!SaveNew
        <3> QED
            BY <3>2, <3>3
    <2>4. CASE Models!Delete
        <3>1. selection \in 1 .. Len(models) /\ selection # active
            <4>1. Models!Max({1, Len(models)}) = Len(models)
                BY <2>1, ModelsMaximum
            <4> QED
                BY <1>1, <2>4, <4>1 DEF Models!Delete, ModelsInv, Models!IndicesValid
        <3>2. models' = Models!Removed(selection).models /\ active' = Models!Removed(selection).active
            BY <2>4 DEF Models!Delete, Models!Changed
        <3>3. models' \in Seq(Models!Model) /\ active' \in 1 .. Len(models')
              /\ models'[active'] = models[active]
            BY <1>1, <2>1, <3>1, <3>2, RemovedProperties
        <3> QED
            BY <3>3
    <2>5. CASE Models!SelectUp \/ Models!SelectDown \/ Models!OpenEdit
        BY <2>2, <2>5 DEF Models!SelectUp, Models!SelectDown, Models!Select, Models!OpenEdit
    <2>6. CASE Models!SetKey /\ Models!FormKey
        BY <2>2, <2>6 DEF Models!FormKey, Models!NextField, Models!PrevField, Models!Focus, Models!PickApi, Models!PickTokenizer, Models!PickModel,
                          Models!FillName, Models!FillRest, Models!Fill, Models!FetchFails, Models!SaveIncomplete
    <2>7. form' # "none" /\ form \in {"set", "list"}
        BY <1>1
    <2>8. ~Models!Use /\ ~Models!Leave /\ ~Models!Resize /\ ~Models!Restart /\ ~Models!CancelSet
        BY <2>7 DEF Models!Use, Models!Leave, Models!Resize, Models!Restart, Models!CancelSet, Models!Close, Models!Dialog
    <2>9. ~Models!OpenList /\ ~Models!OpenSet /\ ~Models!EditKey /\ \A k \in Models!TokKinds : ~Models!TokenizerCommand(k)
        BY <2>7 DEF Models!OpenList, Models!OpenSet, Models!EditKey, Models!TokenizerCommand
    <2> QED
        BY <1>1, <2>2, <2>3, <2>4, <2>5, <2>6, <2>8, <2>9 DEF Models!Next, Models!SetKey, Models!modelVars
<1>2. ModelsInv /\ [Models!Next]_(Models!modelVars) =>
        [/\ active # 0 /\ form \in {"set", "list"} /\ form' # "none"
         /\ ~(form = "list" /\ selection = active)
         => active' \in DOMAIN models' /\ models'[active'] = models[active]]_(Models!modelVars)
    BY <1>1
<1> QED
    BY <1>2, ModelsSafety, PTL DEF Models!Spec, Models!ActiveStays
-----------------------------------------------------------------------------
(***************************************************************************)
(* The rest of what is typed, and that the file has the list but for a     *)
(* write that failed.                                                      *)
(***************************************************************************)
Tokenizers == [selection : Models!TokKinds, loaded : BOOLEAN, instance : BOOLEAN]

ModelsRanges ==
    /\ Len(models) <= MaxItems /\ Len(stored.models) <= MaxItems /\ lost \in BOOLEAN
    /\ form \in {"none", "set", "edit", "list", "message"}
    /\ focus \in 0 .. 8 /\ target \in 0 .. MaxItems
    /\ selection \in 0 .. MaxItems /\ first \in 1 .. MaxItems
    /\ tokenizer \in Tokenizers
    /\ Models!ModelsSaved

LEMMA ListSizes ==
    MaxItems \in Nat /\ MaxItems >= 1 /\ ModelRows \in Nat /\ ModelRows >= 1
BY SamplerAssumption, DialogsAssumption

\* The fields of a form that closes
LEMMA ShutRanges ==
    ASSUME Models!Shut
    PROVE  focus' \in 0 .. 8 /\ target' \in 0 .. MaxItems /\ selection' \in 0 .. MaxItems
           /\ first' \in 1 .. MaxItems
BY ListSizes DEF Models!Shut

LEMMA ChangedRanges ==
    ASSUME ModelsRanges, NEW m, NEW a, Models!Changed(m, a), Len(m) <= MaxItems
    PROVE  Len(models') <= MaxItems /\ Len(stored'.models) <= MaxItems /\ lost' \in BOOLEAN
           /\ Models!ModelsSaved'
<1>1. models' = m /\ active' = a /\ Len(stored.models) <= MaxItems
    BY DEF Models!Changed, ModelsRanges
<1>2. CASE stored' = [models |-> m, active |-> a] /\ lost' = FALSE
    <2>1. stored'.models = m /\ stored' = [models |-> models', active |-> active']
        BY <1>1, <1>2
    <2>2. lost' \in BOOLEAN
        BY <1>2
    <2> QED
        BY <1>1, <2>1, <2>2 DEF Models!ModelsSaved
<1>3. CASE lost' = TRUE /\ UNCHANGED stored
    BY <1>1, <1>3 DEF Models!ModelsSaved
<1> QED
    BY <1>2, <1>3 DEF Models!Changed, Models!Saves

LEMMA SameRanges ==
    ASSUME ModelsRanges, UNCHANGED <<models, active, stored, lost>>
    PROVE  Len(models') <= MaxItems /\ Len(stored'.models) <= MaxItems /\ lost' \in BOOLEAN
           /\ Models!ModelsSaved'
BY DEF ModelsRanges, Models!ModelsSaved

LEMMA SetTokenizerTyped ==
    ASSUME tokenizer \in Tokenizers, NEW k \in Models!TokKinds, Models!SetTokenizer(k)
    PROVE  tokenizer' \in Tokenizers
<1>1. (tokenizer.loaded /\ ~tokenizer.instance) \in BOOLEAN
    OBVIOUS
<1>2. \E loaded2, instance2 \in BOOLEAN :
        tokenizer' = [selection |-> k, loaded |-> loaded2, instance |-> instance2]
    BY <1>1 DEF Models!SetTokenizer
<1> QED
    BY <1>2 DEF Tokenizers

LEMMA NoTokenizerTyped == Models!NoTokenizer \in Tokenizers
<1>1. "api" \in Models!TokKinds /\ FALSE \in BOOLEAN
    BY DEF Models!TokKinds
<1> QED
    BY <1>1 DEF Models!NoTokenizer, Tokenizers

LEMMA InitRangesOfModels == Models!Init => ModelsRanges
<1> SUFFICES ASSUME Models!Init PROVE ModelsRanges
    OBVIOUS
<1>1. /\ models = <<>> /\ active = 0 /\ stored = [models |-> <<>>, active |-> 0] /\ lost = FALSE
      /\ form = "none" /\ focus = 0 /\ target = 0 /\ selection = 0 /\ first = 1
      /\ tokenizer = Models!NoTokenizer
    BY DEF Models!Init, Models!Start
<1>2. Len(models) = 0 /\ Len(stored.models) = 0 /\ stored = [models |-> models, active |-> active]
    BY <1>1
<1>3. lost \in BOOLEAN
    BY <1>1
<1>4. tokenizer \in Tokenizers
    BY <1>1, NoTokenizerTyped
<1> QED
    BY <1>1, <1>2, <1>3, <1>4, ListSizes DEF ModelsRanges, Models!ModelsSaved

LEMMA StepRangesOfModels ==
    ModelsInv /\ ModelsInv' /\ ModelsRanges /\ [Models!Next]_(Models!modelVars) => ModelsRanges'
<1> SUFFICES ASSUME ModelsInv, ModelsInv', ModelsRanges, [Models!Next]_(Models!modelVars)
             PROVE  ModelsRanges'
    OBVIOUS
<1>1. /\ models \in Seq(Models!Model) /\ Len(models) \in Nat /\ active \in 0 .. Len(models)
      /\ stored.models \in Seq(Models!Model) /\ stored.active \in 0 .. Len(stored.models)
      /\ selection \in Nat /\ Len(models) <= MaxItems /\ tokenizer \in Tokenizers
      /\ first \in 1 .. MaxItems /\ focus \in 0 .. 8
    BY DEF ModelsInv, ModelsTyped, StoredList, Models!IndicesValid, ModelsRanges
<1>2. Models!Max({1, active}) \in 0 .. MaxItems
    BY <1>1, ModelsMaximum, ListSizes
<1>3. CASE Models!Restart
    <2>1. /\ models' = stored.models /\ active' = stored.active /\ stored' = stored /\ ~lost' /\ lost' \in BOOLEAN
          /\ form' = "none" /\ focus' = 0 /\ target' = 0 /\ selection' = 0 /\ first' = 1
        BY <1>3 DEF Models!Restart
    <2>2. tokenizer' \in Tokenizers
        <3>1. CASE active' = 0
            BY <1>3, <3>1, NoTokenizerTyped DEF Models!Restart
        <3>2. CASE active' # 0
            <4> DEFINE k == models'[active'].tok
            <4>1. k \in Models!TokKinds
                <5>1. models'[active'] \in Models!Model
                    BY <1>1, <2>1, <3>2, ElementOfSeq
                <5> QED
                    BY <5>1 DEF Models!Model
            <4>2. \E ok \in BOOLEAN : tokenizer' = [selection |-> k, loaded |-> ok,
                                                     instance |-> ok /\ k # "api"]
                BY <1>3, <3>2 DEF Models!Restart
            <4> HIDE DEF k
            <4> QED
                BY <4>1, <4>2 DEF Tokenizers
        <3> QED
            BY <3>1, <3>2
    <2>3. stored = [models |-> models', active |-> active']
        BY <2>1 DEF ModelsInv, ModelsTyped, StoredList
    <2> QED
        BY <2>1, <2>2, <2>3, ListSizes DEF ModelsRanges, Models!ModelsSaved
<1>4. CASE Models!OpenList \/ (Models!EditKey /\ Models!CancelEdit)
    <2>1. /\ form' = "list" /\ selection' \in 0 .. MaxItems /\ first' = 1 /\ focus' = 0 /\ target' = 0
          /\ UNCHANGED <<models, active, stored, lost, tokenizer>>
        BY <1>2, <1>4 DEF Models!OpenList, Models!CancelEdit, Models!ShowList
    <2> QED
        BY <1>1, <2>1, SameRanges, ListSizes DEF ModelsRanges
<1>5. CASE \/ Models!OpenSet \/ Models!Resize
           \/ (Models!SetKey \/ Models!EditKey) /\ (Models!FetchFails \/ Models!SaveIncomplete)
    <2>1. /\ form' \in {"none", "set", "message"} /\ Models!Shut
          /\ UNCHANGED <<models, active, stored, lost, tokenizer>>
        BY <1>5 DEF Models!OpenSet, Models!Resize, Models!FetchFails, Models!SaveIncomplete,
                    Models!Dialog
    <2> QED
        BY <1>1, <2>1, SameRanges, ShutRanges DEF ModelsRanges
<1>6. CASE Models!Leave \/ (Models!SetKey /\ Models!CancelSet)
    <2>1. Models!Close
        BY <1>6 DEF Models!Leave, Models!CancelSet
    <2>2. form' = "none" /\ Models!Shut /\ UNCHANGED <<models, active, stored, lost>>
        BY <2>1 DEF Models!Close, Models!Dialog, Models!listVars
    <2>3. tokenizer' \in Tokenizers
        <3>1. CASE Models!Active = 0
            BY <1>1, <2>1, <3>1 DEF Models!Close, Models!UpdateTokenizer
        <3>2. CASE Models!Active # 0
            <4>1. models[Models!Active] \in Models!Model
                BY <1>1, <3>2, ElementOfSeq DEF Models!Active
            <4>2. models[Models!Active].tok \in Models!TokKinds
                BY <4>1 DEF Models!Model
            <4>3. UNCHANGED tokenizer \/ Models!SetTokenizer(models[Models!Active].tok)
                BY <2>1, <3>2 DEF Models!Close, Models!UpdateTokenizer
            <4> QED
                BY <1>1, <4>2, <4>3, SetTokenizerTyped
        <3> QED
            BY <3>1, <3>2
    <2> QED
        BY <2>2, <2>3, SameRanges, ShutRanges DEF ModelsRanges
<1>7. CASE Models!OpenEdit
    <2>1. /\ form' = "edit" /\ focus' = 0 /\ target' = selection /\ selection \in 1 .. Len(models)
          /\ selection' = 0 /\ first' = 1
          /\ UNCHANGED <<models, active, stored, lost, tokenizer>>
        BY <1>7 DEF Models!OpenEdit
    <2>2. target' \in 0 .. MaxItems
        BY <1>1, <2>1, ListSizes
    <2> QED
        BY <1>1, <2>1, <2>2, SameRanges, ListSizes DEF ModelsRanges
<1>8. CASE /\ Models!SetKey \/ Models!EditKey
           /\ \/ Models!NextField \/ Models!PrevField \/ Models!PickApi \/ Models!PickTokenizer
              \/ Models!PickModel \/ Models!FillName \/ Models!FillRest
    <2>1. /\ focus' \in 0 .. 8
          /\ UNCHANGED <<models, active, stored, lost, form, target, selection, first, tokenizer>>
        BY <1>1, <1>8 DEF Models!NextField, Models!PrevField, Models!Focus, Models!PickApi,
            Models!PickTokenizer, Models!PickModel, Models!FillName, Models!FillRest, Models!Fill
    <2> QED
        BY <2>1, SameRanges DEF ModelsRanges
<1>9. CASE (Models!SetKey /\ Models!SaveNew) \/ (Models!EditKey /\ Models!SaveEdited)
    <2>1. form' = "message" /\ Models!Shut /\ tokenizer' = tokenizer
        BY <1>9 DEF Models!SaveNew, Models!SaveEdited, Models!Dialog
    <2>2. Len(models') <= MaxItems /\ Len(stored'.models) <= MaxItems /\ lost' \in BOOLEAN
          /\ Models!ModelsSaved'
        <3>1. CASE UNCHANGED <<models, active, stored, lost>>
            BY <3>1, SameRanges
        <3>2. CASE Models!SaveNew /\ Len(models) < MaxItems
            <4>1. Models!Made \in Models!Model
                BY <1>1, <3>2 DEF Models!SaveNew, Models!Filled, Models!Made, FormFields,
                    Models!Model, ModelsInv, ModelsTyped
            <4>2. Len(Append(models, Models!Made)) = Len(models) + 1
                BY <1>1, <4>1, AppendProperties
            <4>3. Len(Append(models, Models!Made)) <= MaxItems
                BY <1>1, <3>2, <4>2, ListSizes
            <4>4. Models!Changed(Append(models, Models!Made), Models!Max({1, active}))
                BY <3>2 DEF Models!SaveNew
            <4> QED
                BY <4>3, <4>4, ChangedRanges
        <3>3. CASE Models!SaveEdited
            <4>1. Models!Changed([models EXCEPT ![target] = Models!Made], active)
                BY <3>3 DEF Models!SaveEdited
            <4>2. Len([models EXCEPT ![target] = Models!Made]) <= MaxItems
                BY <1>1
            <4> QED
                BY <4>1, <4>2, ChangedRanges
        <3> QED
            BY <1>9, <3>1, <3>2, <3>3 DEF Models!SaveNew
    <2> QED
        BY <1>1, <2>1, <2>2, ShutRanges DEF ModelsRanges
<1>10. CASE Models!SelectUp \/ Models!SelectDown
    <2>1. PICK to \in 1 .. Len(models) : Models!Select(to)
        BY <1>10 DEF Models!SelectUp, Models!SelectDown, Models!Select
    <2>2. /\ form' = form /\ selection' = to
          /\ UNCHANGED <<models, active, stored, lost, focus, target, tokenizer>>
        BY <2>1 DEF Models!Select
    <2>3. first' \in 1 .. MaxItems
        <3>1. to \in 1 .. MaxItems /\ first \in Nat /\ to \in Nat
            BY <1>1, ListSizes
        <3>2. first' = IF to < selection THEN Models!Min({first, to})
                       ELSE IF to >= first + ModelRows THEN to - ModelRows + 1 ELSE first
            BY <2>1 DEF Models!Select
        <3>3. Models!Min({first, to}) = IF first <= to THEN first ELSE to
            BY <3>1, ModelsMinimum
        <3> QED
            BY <1>1, <3>1, <3>2, <3>3, ListSizes
    <2>4. to \in 0 .. MaxItems
        BY <1>1, ListSizes
    <2> QED
        BY <2>2, <2>3, <2>4, SameRanges DEF ModelsRanges
<1>11. CASE Models!Use
    <2>1. PICK a : Models!Changed(models, a)
        BY <1>11 DEF Models!Use
    <2>2. form' = "none" /\ Models!Shut /\ tokenizer' = tokenizer
        BY <1>11 DEF Models!Use, Models!Dialog
    <2> QED
        BY <1>1, <2>1, <2>2, ChangedRanges, ShutRanges DEF ModelsRanges
<1>12. CASE Models!Delete
    <2>1. form = "list" /\ models # <<>> /\ tokenizer' = tokenizer
          /\ Models!Changed(Models!Removed(selection).models, Models!Removed(selection).active)
        BY <1>12 DEF Models!Delete
    <2>2. selection \in 1 .. Len(models)
        <3>1. Len(models) >= 1
            BY <1>1, <2>1, EmptySeq
        <3>2. Models!Max({1, Len(models)}) = Len(models)
            BY <1>1, <3>1, ModelsMaximum
        <3> QED
            BY <2>1, <3>2 DEF ModelsInv, Models!IndicesValid
    <2>3. Len(Models!Removed(selection).models) <= MaxItems
        BY <1>1, <2>2, RemovedProperties, ListSizes
    <2>4. Len(models') <= MaxItems /\ Len(stored'.models) <= MaxItems /\ lost' \in BOOLEAN
          /\ Models!ModelsSaved'
        BY <2>1, <2>3, ChangedRanges
    <2>5. CASE models' = <<>>
        <3>1. form' = "none" /\ Models!Shut
            BY <1>12, <2>5 DEF Models!Delete, Models!Dialog
        <3> QED
            BY <1>1, <2>1, <2>4, <3>1, ShutRanges DEF ModelsRanges
    <2>6. CASE models' # <<>>
        <3>1. form' = form /\ focus' = focus /\ target' = target /\ first' = first
              /\ selection' = Models!Min({selection, Len(models')})
            BY <1>12, <2>6 DEF Models!Delete
        <3>2. models' \in Seq(Models!Model) /\ selection \in Nat
            BY <1>1 DEF ModelsInv, ModelsTyped
        <3>3. selection' \in 0 .. MaxItems
            <4>1. Len(models') \in Nat
                BY <3>2
            <4>2. Models!Min({selection, Len(models')}) \in {selection, Len(models')}
                BY <3>2, <4>1, ModelsMinimum
            <4> QED
                BY <1>1, <2>2, <2>4, <3>1, <4>1, <4>2, ListSizes
        <3> QED
            BY <1>1, <2>1, <2>4, <3>1, <3>3 DEF ModelsRanges
    <2> QED
        BY <2>5, <2>6
<1>13. CASE \E k \in Models!TokKinds : Models!TokenizerCommand(k)
    <2> PICK k \in Models!TokKinds : Models!TokenizerCommand(k)
        BY <1>13
    <2>1. /\ Models!Changed([models EXCEPT ![Models!Active].tok = k], active)
          /\ Models!SetTokenizer(k) /\ form' = "message" /\ Models!Shut
        BY DEF Models!TokenizerCommand, Models!Dialog
    <2>2. Len([models EXCEPT ![Models!Active].tok = k]) <= MaxItems
        BY <1>1
    <2>3. tokenizer' \in Tokenizers
        BY <1>1, <2>1, SetTokenizerTyped
    <2> QED
        BY <2>1, <2>2, <2>3, ChangedRanges, ShutRanges DEF ModelsRanges
<1>14. CASE UNCHANGED Models!modelVars
    BY <1>14 DEF Models!modelVars, ModelsRanges, Models!ModelsSaved
<1> QED
    BY <1>3, <1>4, <1>5, <1>6, <1>7, <1>8, <1>9, <1>10, <1>11, <1>12, <1>13, <1>14
    DEF Models!Next, Models!SetKey, Models!EditKey, Models!FormKey

LEMMA ModelsKeepRanges == Models!Spec => [](Models!TypeOK /\ Models!IndicesValid /\ Models!ModelsSaved)
<1>1. ModelsInv /\ ModelsRanges => Models!TypeOK /\ Models!IndicesValid /\ Models!ModelsSaved
    BY ListSizes DEF ModelsInv, ModelsTyped, StoredList, FormFields, ModelsRanges, Tokenizers,
        Models!TypeOK, Models!IndicesValid
<1>2. Models!Spec => []ModelsRanges
    BY InitRangesOfModels, StepRangesOfModels, ModelsSafety, PTL DEF Models!Spec
<1> QED
    BY <1>1, <1>2, ModelsSafety, PTL
-----------------------------------------------------------------------------
(***************************************************************************)
(* The smaller dialogs: Enter is for a button and a row that are there.    *)
(***************************************************************************)
SmallInv == row \in Nat /\ firstRow \in Nat /\ chats \in Nat /\ Small!EnterIsForSomething

LEMMA FormSizes == Rows \in Nat /\ Rows >= 1 /\ MaxChats \in Nat /\ Greetings \in Nat
BY SamplerAssumption, DialogsAssumption

LEMMA SmallMinimum == \A a, b \in Nat : Small!Min({a, b}) = IF a <= b THEN a ELSE b
BY DEF Small!Min

LEMMA SmallMaximum == \A a, b \in Nat : Small!Max({a, b}) = IF a >= b THEN a ELSE b
BY DEF Small!Max

LEMMA FirstRow == \A n \in Nat : 1 \in 1 .. Small!Max({1, n})
BY SmallMaximum

LEMMA RowsTyped ==
    ASSUME chats \in Nat, NEW k
    PROVE  Small!RowsIn(k) \in Nat
BY FormSizes DEF Small!RowsIn

\* Every dialog opens on its first button and row; the question at the end on Yes.
LEMMA ShownInv ==
    ASSUME chats' \in Nat, NEW k, NEW at, Small!Show(k, at), at = 0 \/ (k = "exit" /\ at = 1)
    PROVE  SmallInv'
<1>1. question' = k /\ button' = at /\ row' = 1 /\ firstRow' = 1
    BY DEF Small!Show
<1>2. Small!Buttons(k) # 0 => at \in 0 .. Small!Buttons(k) - 1
    BY DEF Small!Buttons
<1>3. Small!RowsIn(k)' \in Nat
    BY FormSizes DEF Small!RowsIn
<1>4. 1 \in 1 .. Small!Max({1, Small!RowsIn(k)'})
    BY <1>3, FirstRow
<1>5. 1 \in 1 .. 1 + Rows - 1
    BY FormSizes
<1>6. Small!RowsIn(question)' = Small!RowsIn(k)' /\ Small!Buttons(question)' = Small!Buttons(k)
    BY <1>1 DEF Small!RowsIn, Small!Buttons
<1>7. Small!EnterIsForSomething'
    BY <1>1, <1>2, <1>4, <1>5, <1>6 DEF Small!EnterIsForSomething
<1> QED
    BY <1>1, <1>7 DEF SmallInv

\* A step that shows the same dialog with the same rows
LEMMA SameRowsInv ==
    ASSUME SmallInv, UNCHANGED <<question, row, firstRow, chats>>,
           Small!Buttons(question) # 0 => button' \in 0 .. Small!Buttons(question) - 1
    PROVE  SmallInv'
BY DEF SmallInv, Small!EnterIsForSomething, Small!RowsIn, Small!Buttons

LEMMA MovedInv ==
    ASSUME SmallInv, NEW by \in {1, -1}, Small!Move(by)
    PROVE  SmallInv'
<1>1. /\ button' = (button + by + Small!Buttons(question)) % Small!Buttons(question)
      /\ Small!Buttons(question) # 0 /\ UNCHANGED <<question, row, firstRow, chats>>
    BY DEF Small!Move
<1>2. Small!Buttons(question) \in Nat /\ button \in 0 .. Small!Buttons(question) - 1
    BY <1>1 DEF SmallInv, Small!EnterIsForSomething, Small!Buttons
<1> DEFINE n == Small!Buttons(question)
<1>3. n \in Nat \ {0} /\ button + by + n \in Int
    BY <1>1, <1>2
<1> HIDE DEF n
<1>4. (button + by + n) % n \in 0 .. n - 1
    BY <1>3
<1>5. button' \in 0 .. Small!Buttons(question) - 1
    BY <1>1, <1>4 DEF n
<1> QED
    BY <1>1, <1>5, SameRowsInv

LEMMA SelectedInv ==
    ASSUME SmallInv, NEW to, Small!Select(to)
    PROVE  SmallInv'
<1>1. /\ question \in Small!Lists /\ to \in 1 .. Small!RowsIn(question) /\ row' = to
      /\ firstRow' = IF to < row THEN Small!Min({firstRow, to})
                     ELSE IF to >= firstRow + Rows THEN to - Rows + 1 ELSE firstRow
      /\ UNCHANGED <<question, button, chats>>
    BY DEF Small!Select
<1>2. /\ row \in Nat /\ firstRow \in Nat /\ chats \in Nat /\ to \in Nat /\ to >= 1
      /\ Small!RowsIn(question) \in Nat /\ to <= Small!RowsIn(question)
    BY <1>1, RowsTyped DEF SmallInv
<1>3. Small!Min({firstRow, to}) = IF firstRow <= to THEN firstRow ELSE to
    BY <1>2, SmallMinimum
<1>4. firstRow' \in Nat
    BY <1>1, <1>2, <1>3, FormSizes
<1>5. to \in 1 .. Small!Max({1, Small!RowsIn(question)})
    BY <1>2, SmallMaximum
<1>6. question = "greetings" => to \in firstRow' .. firstRow' + Rows - 1
    <2>1. question = "greetings" => row \in firstRow .. firstRow + Rows - 1
        BY DEF SmallInv, Small!EnterIsForSomething
    <2> QED
        BY <1>1, <1>2, <1>3, <2>1, FormSizes
<1>7. Small!RowsIn(question)' = Small!RowsIn(question) /\ Small!Buttons(question)' = Small!Buttons(question)
    BY <1>1 DEF Small!RowsIn, Small!Buttons
<1>8. Small!Buttons(question) = 0
    BY <1>1 DEF Small!Buttons, Small!Lists
<1> QED
    BY <1>1, <1>2, <1>4, <1>5, <1>6, <1>7, <1>8 DEF SmallInv, Small!EnterIsForSomething

LEMMA InitSmall == Small!Init => SmallInv
BY DEF Small!Init, SmallInv, Small!EnterIsForSomething, Small!Buttons, Small!Lists

LEMMA StepSmall == SmallInv /\ [Small!Next]_(Small!formVars) => SmallInv'
<1> SUFFICES ASSUME SmallInv, [Small!Next]_(Small!formVars) PROVE SmallInv'
    OBVIOUS
<1>1. chats \in Nat /\ row \in Nat /\ firstRow \in Nat
    BY DEF SmallInv
<1> USE DEF Small!Store
<1>2. CASE \/ \E k \in Small!Dialogs : Small!Open(k)
           \/ Small!Save \/ Small!Overwrite
    <2>1. PICK k : Small!Show(k, 0) /\ chats' = chats
        BY <1>2 DEF Small!Open, Small!Save, Small!Overwrite
    <2> QED
        BY <1>1, <2>1, ShownInv
<1>3. CASE Small!OpenChats
    <2>1. Small!Show("chats", 0) /\ chats' \in Nat
        BY <1>3, FormSizes DEF Small!OpenChats
    <2> QED
        BY <2>1, ShownInv
<1>4. CASE Small!Quit
    <2>1. CASE Small!Show("exit", 1) /\ chats' = chats
        BY <1>1, <2>1, ShownInv
    <2>2. CASE UNCHANGED <<question, button, row, firstRow, chats>>
        BY <2>2, SameRowsInv DEF SmallInv, Small!EnterIsForSomething
    <2> QED
        BY <1>4, <2>1, <2>2 DEF Small!Quit
<1>5. CASE Small!Cancel \/ Small!UseGreeting
    <2>1. Small!Show("none", 0) /\ chats' = 0
        BY <1>5 DEF Small!Cancel, Small!UseGreeting, Small!Close
    <2> QED
        BY <2>1, ShownInv
<1>6. CASE Small!Start
    <2>1. question' = "none" /\ button' = 0 /\ row' = 1 /\ firstRow' = 1 /\ chats' = 0
        BY <1>6 DEF Small!Start
    <2> QED
        BY <2>1 DEF SmallInv, Small!EnterIsForSomething, Small!Buttons, Small!Lists
<1>7. CASE Small!MoveOn \/ Small!MoveBack
    BY <1>7, MovedInv DEF Small!MoveOn, Small!MoveBack
<1>8. CASE Small!SelectUp \/ Small!SelectDown
    BY <1>8, SelectedInv DEF Small!SelectUp, Small!SelectDown
<1>9. CASE Small!LoadChat \/ Small!Exit \/ Small!SavePersona
    <2>1. PICK k : Small!Show(k, 0) /\ chats' \in {0, chats}
        BY <1>9 DEF Small!LoadChat, Small!Exit, Small!SavePersona
    <2> QED
        BY <1>1, <2>1, ShownInv
<1>10. CASE Small!DeleteChat
    <2>1. question = "chats" /\ chats >= 1
        BY <1>1, <1>10 DEF Small!DeleteChat
    <2>2. PICK n \in {chats - 1, chats} :
            IF n = 0 THEN Small!Close
            ELSE /\ chats' = n /\ row' = Small!Min({row, n})
                 /\ UNCHANGED <<question, button, firstRow>>
        BY <1>10 DEF Small!DeleteChat
    <2>3. CASE n = 0
        <3>1. Small!Show("none", 0) /\ chats' = 0
            BY <2>2, <2>3 DEF Small!Close
        <3> QED
            BY <3>1, ShownInv
    <2>4. CASE n # 0
        <3>1. n \in Nat /\ n >= 1
            BY <1>1, <2>1, <2>2, <2>4
        <3>2. row >= 1
            BY <1>1, <2>1, SmallMaximum DEF SmallInv, Small!EnterIsForSomething, Small!Lists,
                Small!RowsIn
        <3>3. Small!Min({row, n}) = IF row <= n THEN row ELSE n
            BY <1>1, <3>1, SmallMinimum
        <3>4. row' \in 1 .. n /\ chats' = n /\ UNCHANGED <<question, button, firstRow>>
            BY <1>1, <2>2, <2>4, <3>1, <3>2, <3>3
        <3>5. Small!Max({1, n}) = n
            BY <3>1, SmallMaximum
        <3>6. Small!RowsIn(question)' = n /\ Small!Buttons(question)' = 0
            BY <2>1, <3>4 DEF Small!RowsIn, Small!Buttons
        <3>7. row' \in Nat
            BY <3>1, <3>4
        <3> QED
            BY <1>1, <2>1, <3>1, <3>4, <3>5, <3>6, <3>7 DEF SmallInv, Small!EnterIsForSomething
    <2> QED
        BY <2>3, <2>4
<1>11. CASE Small!ToggleDontAsk \/ Small!TypePersona
    <2>1. UNCHANGED <<question, button, row, firstRow, chats>>
        BY <1>11 DEF Small!ToggleDontAsk, Small!TypePersona
    <2> QED
        BY <2>1, SameRowsInv DEF SmallInv, Small!EnterIsForSomething
<1>12. CASE UNCHANGED Small!formVars
    <2>1. UNCHANGED <<question, button, row, firstRow, chats>>
        BY <1>12 DEF Small!formVars
    <2> QED
        BY <2>1, SameRowsInv DEF SmallInv, Small!EnterIsForSomething
<1> QED
    BY <1>2, <1>3, <1>4, <1>5, <1>6, <1>7, <1>8, <1>9, <1>10, <1>11, <1>12
    DEF Small!Next, Small!Resize, Small!MessageKey, Small!InfoKey, Small!ChatListKey,
        Small!GreetingKey, Small!SaveKey, Small!OverwriteKey, Small!ExitKey, Small!PersonaKey,
        Small!DeleteKey

LEMMA SmallSafety == Small!Spec => []Small!EnterIsForSomething
<1>1. SmallInv => Small!EnterIsForSomething
    BY DEF SmallInv
<1> QED
    BY <1>1, InitSmall, StepSmall, PTL DEF Small!Spec
-----------------------------------------------------------------------------
(***************************************************************************)
(* Induction over the numbers and over the places of a text. The library   *)
(* has it for predicates; here it is for sets.                             *)
(***************************************************************************)
LEMMA NatSetInduction ==
    ASSUME NEW T \in SUBSET Nat, 0 \in T, \A n \in T : n + 1 \in T
    PROVE  T = Nat
<1> DEFINE rest == Nat \ T
           less == OpToRel(<, Nat)
<1> SUFFICES ASSUME rest # {} PROVE FALSE
    OBVIOUS
<1>1. IsWellFoundedOn(less, Nat)
    BY NatLessThanWellFounded
<1>2. \A x, y \in Nat : <<y, x>> \in less <=> y < x
    BY DEF OpToRel
<1> HIDE DEF less
<1>3. \E x \in rest : \A y \in rest : ~(<<y, x>> \in less)
    BY <1>1, WFMin
<1>4. PICK x \in rest : \A y \in rest : ~(y < x)
    BY <1>2, <1>3
<1>5. x # 0 /\ x - 1 \in Nat /\ x - 1 < x
    BY <1>4
<1>6. x - 1 \in T
    BY <1>4, <1>5
<1> QED
    BY <1>4, <1>5, <1>6

\* Up to a bound
LEMMA UpTo ==
    ASSUME NEW n \in Nat, NEW T, 0 \in T, \A i \in 0 .. n : i \in T /\ i + 1 <= n => i + 1 \in T
    PROVE  0 .. n \subseteq T
<1> DEFINE U == {i \in Nat : i <= n => i \in T}
<1>1. 0 \in U
    OBVIOUS
<1>2. ASSUME NEW i \in U PROVE i + 1 \in U
    BY <1>2
<1>3. U \in SUBSET Nat
    OBVIOUS
<1> HIDE DEF U
<1>4. U = Nat
    BY <1>1, <1>2, <1>3, NatSetInduction
<1> QED
    BY <1>4 DEF U

\* A set of numbers that has one has a least one.
LEMMA LeastOne ==
    ASSUME NEW S \in SUBSET Nat, NEW x \in S
    PROVE  \E m \in S : \A y \in S : m <= y
<1> SUFFICES ASSUME \A m \in S : \E y \in S : y < m PROVE FALSE
    OBVIOUS
<1> DEFINE T == {i \in Nat : \A y \in S : i <= y}
<1>1. 0 \in T /\ T \in SUBSET Nat
    OBVIOUS
<1>2. ASSUME NEW i \in T PROVE i + 1 \in T
    <2>1. i \in Nat /\ \A y \in S : i <= y
        BY <1>2
    <2>2. i \notin S
        BY <2>1
    <2> QED
        BY <2>1, <2>2
<1> HIDE DEF T
<1>3. T = Nat
    BY <1>1, <1>2, NatSetInduction
<1>4. x + 1 \in T
    BY <1>3
<1> QED
    BY <1>4 DEF T

LEMMA TextMinimum ==
    ASSUME NEW S \in SUBSET Nat, NEW x \in S
    PROVE  Text!Min(S) \in S /\ \A y \in S : Text!Min(S) <= y
BY LeastOne DEF Text!Min

LEMMA TextMaximum ==
    ASSUME NEW S \in SUBSET Nat, NEW x \in S, NEW n \in Nat, \A y \in S : y <= n
    PROVE  Text!Max(S) \in S /\ \A y \in S : y <= Text!Max(S)
<1> DEFINE T == {n - y : y \in S}
<1>1. T \in SUBSET Nat /\ n - x \in T
    OBVIOUS
<1>2. PICK m \in T : \A z \in T : m <= z
    BY <1>1, LeastOne
<1>3. PICK y \in S : m = n - y
    BY <1>2
<1>4. \A z \in S : z <= y
    <2> TAKE z \in S
    <2>1. n - z \in T /\ z \in Nat /\ y \in Nat
        OBVIOUS
    <2> HIDE DEF T
    <2>2. n - y <= n - z
        BY <1>2, <1>3, <2>1
    <2> QED
        BY <2>1, <2>2
<1>5. \A z \in S : y >= z
    BY <1>4
<1> QED
    BY <1>5 DEF Text!Max

Place == [line : Nat, col : Nat]

\* The place behind one more character
After(p, ch, w) ==
    IF ch = "nl" \/ p.col + 1 >= w THEN [line |-> p.line + 1, col |-> 0]
    ELSE [line |-> p.line, col |-> p.col + 1]

\* What a recursion along 1 .. n defines
LEMMA Recursion ==
    ASSUME NEW x \in Place, NEW n \in Nat, NEW step \in [1 .. n -> [Place -> Place]]
    PROVE  \E f \in [0 .. n -> Place] : f[0] = x /\ \A i \in 1 .. n : f[i] = step[i][f[i - 1]]
<1> DEFINE Up(m, f) == f[0] = x /\ \A i \in 1 .. m : f[i] = step[i][f[i - 1]]
           T == {m \in 0 .. n : \E f \in [0 .. m -> Place] : Up(m, f)}
<1>1. 0 \in T
    <2>1. [i \in 0 .. 0 |-> x] \in [0 .. 0 -> Place] /\ Up(0, [i \in 0 .. 0 |-> x])
        OBVIOUS
    <2>2. 0 \in 0 .. n
        OBVIOUS
    <2> HIDE DEF Up
    <2> QED
        BY <2>1, <2>2
<1>2. ASSUME NEW m \in 0 .. n, m \in T, m + 1 <= n PROVE m + 1 \in T
    <2>1. PICK f \in [0 .. m -> Place] : Up(m, f)
        BY <1>2
    <2> DEFINE g == [i \in 0 .. m + 1 |-> IF i <= m THEN f[i] ELSE step[m + 1][f[m]]]
    <2>2. f[m] \in Place /\ m + 1 \in 1 .. n
        BY <1>2
    <2>3. step[m + 1][f[m]] \in Place
        BY <2>2
    <2>4. g \in [0 .. m + 1 -> Place]
        BY <2>3
    <2>5. Up(m + 1, g)
        <3>1. g[0] = x
            BY <2>1
        <3>2. ASSUME NEW i \in 1 .. m + 1 PROVE g[i] = step[i][g[i - 1]]
            <4>1. CASE i <= m
                <5>1. i \in 1 .. m /\ g[i] = f[i] /\ g[i - 1] = f[i - 1]
                    BY <4>1
                <5> QED
                    BY <2>1, <5>1
            <4>2. CASE ~(i <= m)
                <5>1. i = m + 1 /\ i - 1 = m /\ i \in 0 .. m + 1 /\ i - 1 \in 0 .. m + 1
                    BY <4>2
                <5> QED
                    BY <5>1
            <4> QED
                BY <4>1, <4>2
        <3> QED
            BY <3>1, <3>2
    <2>6. m + 1 \in 0 .. n
        BY <1>2
    <2> HIDE DEF g, Up
    <2> QED
        BY <2>4, <2>5, <2>6
<1> HIDE DEF T
<1>3. 0 .. n \subseteq T
    BY <1>1, <1>2, UpTo
<1>4. n \in T
    BY <1>3
<1> QED
    BY <1>4 DEF T

LEMMA PlacesAre ==
    ASSUME NEW s, NEW w \in Int, Len(s) \in Nat
    PROVE  /\ Text!Places(s, w) \in [0 .. Len(s) -> Place]
           /\ Text!Places(s, w)[0] = [line |-> 0, col |-> 0]
           /\ \A i \in 1 .. Len(s) :
                Text!Places(s, w)[i] = After(Text!Places(s, w)[i - 1], s[i], w)
<1> DEFINE n == Len(s)
           zero == [line |-> 0, col |-> 0]
           step == [i \in 1 .. n |-> [p \in Place |-> After(p, s[i], w)]]
           At(f) == [i \in 0 .. n |-> IF i = 0 THEN zero ELSE After(f[i - 1], s[i], w)]
<1>1. zero \in Place
    BY DEF Place
<1>2. ASSUME NEW p \in Place, NEW ch PROVE After(p, ch, w) \in Place
    BY <1>2 DEF Place, After
<1>3. step \in [1 .. n -> [Place -> Place]]
    BY <1>2
<1>4. \A i \in 1 .. n, p \in Place : step[i][p] = After(p, s[i], w)
    OBVIOUS
<1> HIDE DEF step
<1>5. n \in Nat
    OBVIOUS
<1> HIDE DEF n, zero
<1>6. PICK f \in [0 .. n -> Place] : f[0] = zero /\ \A i \in 1 .. n : f[i] = step[i][f[i - 1]]
    BY <1>1, <1>3, <1>5, Recursion
<1>7. \A i \in 1 .. n : i - 1 \in 0 .. n
    BY <1>5
<1>8. \A i \in 1 .. n : f[i] = After(f[i - 1], s[i], w)
    BY <1>4, <1>6, <1>7
<1>9. f = At(f)
    <2>1. \A i \in 0 .. n : i = 0 \/ i \in 1 .. n
        BY <1>5
    <2>2. \A i \in 0 .. n : f[i] = At(f)[i]
        BY <1>6, <1>8, <2>1
    <2> QED
        BY <2>2
<1>10. Text!Places(s, w) = CHOOSE g : g = At(g)
    BY DEF Text!Places, After, n, zero
<1> DEFINE P == Text!Places(s, w)
<1> HIDE DEF P
<1>11. P = At(P)
    BY <1>9, <1>10 DEF P
<1>12. P[0] = zero /\ \A i \in 1 .. n : P[i] = After(P[i - 1], s[i], w)
    BY <1>5, <1>11
<1>13. P = f
    <2> DEFINE T == {i \in 0 .. n : P[i] = f[i]}
    <2>1. 0 \in T
        BY <1>5, <1>6, <1>12
    <2>2. ASSUME NEW i \in 0 .. n, i \in T, i + 1 <= n PROVE i + 1 \in T
        <3>1. i + 1 \in 1 .. n /\ (i + 1) - 1 = i /\ i + 1 \in 0 .. n
            BY <1>5, <2>2
        <3>2. P[i + 1] = After(P[i], s[i + 1], w) /\ f[i + 1] = After(f[i], s[i + 1], w)
            BY <1>8, <1>12, <3>1
        <3> QED
            BY <2>2, <3>1, <3>2
    <2> HIDE DEF T
    <2>3. 0 .. n \subseteq T
        BY <1>5, <2>1, <2>2, UpTo
    <2>4. \A i \in 0 .. n : P[i] = f[i]
        BY <2>3 DEF T
    <2>5. DOMAIN P = 0 .. n /\ P = [i \in DOMAIN P |-> P[i]]
        BY <1>11
    <2> QED
        BY <2>4, <2>5
<1> QED
    BY <1>6, <1>12, <1>13 DEF P, n, zero
-----------------------------------------------------------------------------
(***************************************************************************)
(* The text editors: after every key the cursor is in the text and its     *)
(* line among those drawn.                                                 *)
(***************************************************************************)
TextInv ==
    /\ kind \in Text!Kinds /\ buf \in Seq(Text!Character) /\ Len(buf) <= TextMax
    /\ place \in 0 .. Len(buf) /\ top \in Nat
    /\ Text!CursorShown

LEMMA TextSizes ==
    /\ TextMax \in Nat /\ TextMax >= 1 /\ TextWidth \in Nat /\ TextWidth >= 1
    /\ TextHeight \in Nat /\ TextHeight >= 1
BY DialogsAssumption

LEMMA LineIsNumber ==
    ASSUME NEW s \in Seq(Text!Character), NEW c \in 0 .. Len(s)
    PROVE  Text!LineOf(s, c) \in Nat
<1>1. Len(s) \in Nat /\ Text!Width \in Int
    BY TextSizes DEF Text!Width, Text!NoWrap
<1>2. Text!Places(s, Text!Width) \in [0 .. Len(s) -> Place]
    BY <1>1, PlacesAre
<1>3. Text!Places(s, Text!Width)[c] \in Place
    BY <1>2
<1> QED
    BY <1>3 DEF Text!LineOf, Place

LEMMA Followed ==
    ASSUME NEW first2 \in Nat, NEW s \in Seq(Text!Character), NEW c \in 0 .. Len(s)
    PROVE  /\ Text!Follow(first2, s, c) \in Nat
           /\ Text!LineOf(s, c) \in Text!Follow(first2, s, c) .. Text!Follow(first2, s, c) + TextHeight - 1
<1> DEFINE line == Text!LineOf(s, c)
<1>1. line \in Nat
    BY LineIsNumber
<1>2. Text!Follow(first2, s, c) = IF line < first2 THEN line
                                  ELSE IF line >= first2 + TextHeight THEN line - TextHeight + 1
                                  ELSE first2
    BY DEF Text!Follow
<1> HIDE DEF line
<1>3. line \in Text!Follow(first2, s, c) .. Text!Follow(first2, s, c) + TextHeight - 1
      /\ Text!Follow(first2, s, c) \in Nat
    BY <1>1, <1>2, TextSizes
<1> QED
    BY <1>3 DEF line

\* The least and the greatest of two
LEMMA PairMinimum == \A a, b \in Int : Text!Min({a, b}) = IF a <= b THEN a ELSE b
BY DEF Text!Min

LEMMA PairMaximum == \A a \in Int : Text!Max({0, a}) = IF a >= 0 THEN a ELSE 0
BY DEF Text!Max

LEMMA Redrawn ==
    ASSUME kind \in Text!Kinds, top \in Nat,
           NEW s \in Seq(Text!Character), NEW c \in 0 .. Len(s)
    PROVE  /\ Text!Redraw(s, c) \in Nat
           /\ kind # "field" =>
                Text!LineOf(s, c) \in Text!Redraw(s, c) .. Text!Redraw(s, c) + TextHeight - 1
<1>1. CASE kind \in {"message", "tokens"}
    BY <1>1, Followed DEF Text!Redraw, Text!DrawMessage, Text!DrawTokens
<1>2. CASE kind = "yaml"
    <2> DEFINE start == Text!Max({0, Text!Min({top, Text!LineOf(s, Len(s)) + 1 - TextHeight})})
    <2>1. Text!LineOf(s, Len(s)) \in Nat
        <3>1. Len(s) \in 0 .. Len(s)
            OBVIOUS
        <3> QED
            BY <3>1, LineIsNumber
    <2> DEFINE last == Text!LineOf(s, Len(s)) + 1 - TextHeight
    <2>2. last \in Int /\ top \in Int
        BY <2>1, TextSizes
    <2>3. start \in Nat
        <3>1. start = Text!Max({0, Text!Min({top, last})})
            OBVIOUS
        <3> HIDE DEF last, start
        <3>2. Text!Min({top, last}) = IF top <= last THEN top ELSE last
            BY <2>2, PairMinimum
        <3>3. Text!Min({top, last}) \in Int
            BY <2>2, <3>2
        <3> DEFINE low == Text!Min({top, last})
        <3>4. low \in Int /\ start = Text!Max({0, low})
            BY <3>1, <3>3
        <3> HIDE DEF low
        <3>5. Text!Max({0, low}) = IF low >= 0 THEN low ELSE 0
            BY <3>4, PairMaximum
        <3> QED
            BY <3>4, <3>5
    <2>4. Text!Redraw(s, c) = Text!Follow(start, s, c)
        BY <1>2 DEF Text!Redraw, Text!DrawYaml
    <2> HIDE DEF start
    <2> QED
        BY <2>3, <2>4, Followed
<1>3. CASE kind = "field"
    BY <1>3 DEF Text!Redraw
<1> QED
    BY <1>1, <1>2, <1>3 DEF Text!Kinds

\* A key that leaves text s with the cursor at c, drawn
LEMMA DrawnInv ==
    ASSUME TextInv, NEW s \in Seq(Text!Character), Len(s) <= TextMax, NEW c \in 0 .. Len(s),
           buf' = s, place' = c, top' = Text!Redraw(s, c), kind' = kind
    PROVE  TextInv'
<1>1. /\ Text!Redraw(s, c) \in Nat
      /\ kind # "field" =>
            Text!LineOf(s, c) \in Text!Redraw(s, c) .. Text!Redraw(s, c) + TextHeight - 1
    BY Redrawn DEF TextInv
<1>2. Text!LineOf(buf, place)' = Text!LineOf(s, c)
    BY DEF Text!LineOf, Text!Width
<1>3. Text!CursorShown'
    BY <1>1, <1>2 DEF Text!CursorShown
<1> QED
    BY <1>1, <1>3 DEF TextInv

\* The places that arrow keys go to are in the text.
LEMMA StartRange ==
    ASSUME NEW c \in Nat
    PROVE  /\ Text!Start(c) \in 0 .. c
           /\ Text!Start(c) = 0 \/ buf[Text!Start(c)] = "nl"
           /\ \A i \in 1 .. c : buf[i] = "nl" => i <= Text!Start(c)
<1> DEFINE S == {0} \union {i \in 1 .. c : buf[i] = "nl"}
<1>1. S \in SUBSET Nat /\ 0 \in S /\ \A y \in S : y <= c
    OBVIOUS
<1>2. Text!Max(S) \in S /\ \A y \in S : y <= Text!Max(S)
    BY <1>1, TextMaximum
<1>3. Text!Start(c) = Text!Max(S)
    BY DEF Text!Start
<1> QED
    BY <1>2, <1>3

LEMMA EndRange ==
    ASSUME Len(buf) \in Nat, NEW c \in 0 .. Len(buf)
    PROVE  /\ Text!End(c) \in c .. Len(buf)
           /\ Text!End(c) = Len(buf) \/ buf[Text!End(c) + 1] = "nl"
           /\ \A i \in c .. Len(buf) - 1 : buf[i + 1] = "nl" => Text!End(c) <= i
<1> DEFINE S == {Len(buf)} \union {i \in c .. Len(buf) - 1 : buf[i + 1] = "nl"}
<1>1. S \in SUBSET Nat /\ Len(buf) \in S
    OBVIOUS
<1>2. Text!Min(S) \in S /\ \A y \in S : Text!Min(S) <= y
    BY <1>1, TextMinimum
<1>3. Text!End(c) = Text!Min(S)
    BY DEF Text!End
<1>4. \A y \in S : y <= Len(buf)
    OBVIOUS
<1> QED
    BY <1>2, <1>3, <1>4

LEMMA ArrowsRange ==
    ASSUME Len(buf) \in Nat, place \in 0 .. Len(buf)
    PROVE  /\ Text!MessageUp \in 0 .. Len(buf) /\ Text!MessageDown \in 0 .. Len(buf)
           /\ Text!TextUp \in 0 .. Len(buf) /\ Text!TextDown \in 0 .. Len(buf)
<1>1. ASSUME NEW line PROVE Text!MessageTo(line) \in 0 .. Len(buf)
    <2>1. CASE line < 0 \/ Text!Target(line) = {}
        BY <2>1 DEF Text!MessageTo
    <2>2. CASE ~(line < 0 \/ Text!Target(line) = {})
        <3>1. Text!Target(line) \in SUBSET (0 .. Len(buf))
            BY DEF Text!Target
        <3>2. PICK x \in Text!Target(line) : TRUE
            BY <2>2
        <3>3. Text!Target(line) \in SUBSET Nat
            BY <3>1
        <3>4. Text!Min(Text!Target(line)) \in Text!Target(line)
            BY <3>2, <3>3, TextMinimum
        <3> QED
            BY <2>2, <3>1, <3>4 DEF Text!MessageTo
    <2> QED
        BY <2>1, <2>2
<1>2. Text!TextUp \in 0 .. Len(buf)
    <2> DEFINE from == Text!Start(place)
    <2>1. from \in 0 .. place
        BY StartRange
    <2>2. CASE from = 0
        BY <2>2 DEF Text!TextUp
    <2>3. CASE from # 0
        <3>1. from - 1 \in Nat /\ place - from \in Nat
            BY <2>1, <2>3
        <3>2. Text!Start(from - 1) \in 0 .. from - 1
            BY <3>1, StartRange
        <3>3. Text!TextUp = Text!Min({Text!Start(from - 1) + (place - from), from - 1})
            BY <2>3 DEF Text!TextUp
        <3> HIDE DEF from
        <3>4. Text!Start(from - 1) + (place - from) \in Nat
            BY <3>1, <3>2
        <3>5. Text!TextUp \in Nat /\ Text!TextUp <= from - 1
            BY <3>1, <3>3, <3>4, PairMinimum
        <3> QED
            BY <2>1, <3>5
    <2> QED
        BY <2>2, <2>3
<1>3. Text!TextDown \in 0 .. Len(buf)
    <2> DEFINE next == Text!End(place) + 1
    <2>1. Text!End(place) \in place .. Len(buf) /\ Text!Start(place) \in 0 .. place
        BY EndRange, StartRange
    <2>2. CASE Text!End(place) = Len(buf)
        BY <2>2 DEF Text!TextDown
    <2>3. CASE Text!End(place) # Len(buf)
        <3>1. next \in 0 .. Len(buf) /\ place - Text!Start(place) \in Nat
            BY <2>1, <2>3
        <3>2. Text!End(next) \in next .. Len(buf)
            BY <3>1, EndRange
        <3>3. Text!TextDown = Text!Min({next + (place - Text!Start(place)), Text!End(next)})
            BY <2>3 DEF Text!TextDown
        <3> HIDE DEF next
        <3>4. next + (place - Text!Start(place)) \in Nat /\ Text!End(next) \in Nat
            BY <3>1, <3>2
        <3> QED
            BY <3>2, <3>3, <3>4, PairMinimum
    <2> QED
        BY <2>2, <2>3
<1> QED
    BY <1>1, <1>2, <1>3 DEF Text!MessageUp, Text!MessageDown

LEMMA RemovedText ==
    ASSUME NEW s \in Seq(Text!Character), NEW i \in 1 .. Len(s)
    PROVE  Text!RemoveAt(s, i) \in Seq(Text!Character) /\ Len(Text!RemoveAt(s, i)) = Len(s) - 1
BY RemoveAtLength DEF Text!RemoveAt, RemoveAt

LEMMA InsertedText ==
    ASSUME NEW s \in Seq(Text!Character), NEW i \in 1 .. Len(s) + 1, NEW ch \in Text!Character
    PROVE  Text!InsertAt(s, i, ch) \in Seq(Text!Character) /\ Len(Text!InsertAt(s, i, ch)) = Len(s) + 1
<1> DEFINE before == SubSeq(s, 1, i - 1)
           behind == SubSeq(s, i, Len(s))
<1>1. Len(s) \in Nat /\ i \in Nat /\ i >= 1 /\ i <= Len(s) + 1
    OBVIOUS
<1>2. before \in Seq(Text!Character) /\ Len(before) = i - 1
    BY <1>1, SubSeqProperties
<1>3. behind \in Seq(Text!Character) /\ Len(behind) = Len(s) - i + 1
    BY <1>1, SubSeqProperties
<1>4. <<ch>> \in Seq(Text!Character) /\ Len(<<ch>>) = 1
    OBVIOUS
<1>5. Text!InsertAt(s, i, ch) = before \o <<ch>> \o behind
    BY DEF Text!InsertAt
<1> HIDE DEF before, behind
<1>6. before \o <<ch>> \in Seq(Text!Character) /\ Len(before \o <<ch>>) = i
    BY <1>1, <1>2, <1>4, ConcatProperties
<1>7. /\ before \o <<ch>> \o behind \in Seq(Text!Character)
      /\ Len(before \o <<ch>> \o behind) = i + (Len(s) - i + 1)
    BY <1>1, <1>3, <1>6, ConcatProperties
<1> QED
    BY <1>1, <1>5, <1>7

LEMMA InitText == Text!Init => TextInv
<1> SUFFICES ASSUME Text!Init PROVE TextInv
    OBVIOUS
<1>1. /\ kind \in Text!Kinds /\ buf = <<>> /\ place = 0 /\ top = 0
    BY DEF Text!Init
<1>2. <<>> \in Seq(Text!Character) /\ Len(<<>>) = 0 /\ 0 \in 0 .. Len(<<>>)
    OBVIOUS
<1>3. Text!LineOf(<<>>, 0) = 0
    <2>1. Text!Width \in Int
        BY TextSizes DEF Text!Width, Text!NoWrap
    <2>2. Text!Places(<<>>, Text!Width)[0] = [line |-> 0, col |-> 0]
        BY <1>2, <2>1, PlacesAre
    <2> QED
        BY <2>2 DEF Text!LineOf
<1> QED
    BY <1>1, <1>2, <1>3, TextSizes DEF TextInv, Text!CursorShown

\* The keys that all editors share
LEMMA KeyInv ==
    ASSUME TextInv,
           \/ Text!Left \/ Text!Right \/ Text!Backspace \/ Text!Delete
           \/ Text!Move(0) \/ Text!Move(Len(buf))
           \/ Text!Move(Text!MessageUp) \/ Text!Move(Text!MessageDown)
           \/ Text!Move(Text!TextUp) \/ Text!Move(Text!TextDown)
           \/ \E ch \in Text!Character, room \in {TextMax, TextMax - 1} : Text!Type(ch, room)
    PROVE  TextInv'
<1>1. /\ buf \in Seq(Text!Character) /\ Len(buf) \in Nat /\ Len(buf) <= TextMax
      /\ place \in 0 .. Len(buf) /\ TextMax \in Nat
    BY TextSizes DEF TextInv
<1>2. ASSUME NEW c \in 0 .. Len(buf), Text!Move(c) PROVE TextInv'
    <2>1. buf' = buf /\ place' = c /\ top' = Text!Redraw(buf, c) /\ kind' = kind
        BY <1>2 DEF Text!Move
    <2> QED
        BY <1>1, <2>1, DrawnInv
<1>3. ASSUME NEW s \in Seq(Text!Character), Len(s) <= TextMax, NEW c \in 0 .. Len(s), Text!Edit(s, c)
      PROVE  TextInv'
    <2>1. buf' = s /\ place' = c /\ top' = Text!Redraw(s, c) /\ kind' = kind
        BY <1>3 DEF Text!Edit
    <2> QED
        BY <1>3, <2>1, DrawnInv
<1>4. CASE Text!Left
    <2>1. place - 1 \in 0 .. Len(buf) /\ Text!Move(place - 1)
        BY <1>1, <1>4 DEF Text!Left
    <2> QED
        BY <1>2, <2>1
<1>5. CASE Text!Right
    <2>1. place + 1 \in 0 .. Len(buf) /\ Text!Move(place + 1)
        BY <1>1, <1>5 DEF Text!Right
    <2> QED
        BY <1>2, <2>1
<1>6. CASE Text!Backspace
    <2>1. place \in 1 .. Len(buf) /\ Text!Edit(Text!RemoveAt(buf, place), place - 1)
        BY <1>1, <1>6 DEF Text!Backspace
    <2>2. /\ Text!RemoveAt(buf, place) \in Seq(Text!Character)
          /\ Len(Text!RemoveAt(buf, place)) = Len(buf) - 1
        BY <1>1, <2>1, RemovedText
    <2>3. place - 1 \in 0 .. Len(Text!RemoveAt(buf, place)) /\ Len(Text!RemoveAt(buf, place)) <= TextMax
        BY <1>1, <2>1, <2>2
    <2> QED
        BY <1>3, <2>1, <2>2, <2>3
<1>7. CASE Text!Delete
    <2>1. place + 1 \in 1 .. Len(buf) /\ Text!Edit(Text!RemoveAt(buf, place + 1), place)
        BY <1>1, <1>7 DEF Text!Delete
    <2>2. /\ Text!RemoveAt(buf, place + 1) \in Seq(Text!Character)
          /\ Len(Text!RemoveAt(buf, place + 1)) = Len(buf) - 1
        BY <1>1, <2>1, RemovedText
    <2>3. place \in 0 .. Len(Text!RemoveAt(buf, place + 1)) /\ Len(Text!RemoveAt(buf, place + 1)) <= TextMax
        BY <1>1, <2>1, <2>2
    <2> QED
        BY <1>3, <2>1, <2>2, <2>3
<1>8. CASE \/ Text!Move(0) \/ Text!Move(Len(buf))
           \/ Text!Move(Text!MessageUp) \/ Text!Move(Text!MessageDown)
           \/ Text!Move(Text!TextUp) \/ Text!Move(Text!TextDown)
    <2>1. 0 \in 0 .. Len(buf) /\ Len(buf) \in 0 .. Len(buf)
        BY <1>1
    <2> QED
        BY <1>1, <1>2, <1>8, <2>1, ArrowsRange
<1>9. CASE \E ch \in Text!Character, room \in {TextMax, TextMax - 1} : Text!Type(ch, room)
    <2> PICK ch \in Text!Character, room \in {TextMax, TextMax - 1} : Text!Type(ch, room)
        BY <1>9
    <2>1. Len(buf) < TextMax /\ Text!Edit(Text!InsertAt(buf, place + 1, ch), place + 1)
        BY <1>1 DEF Text!Type
    <2>2. place + 1 \in 1 .. Len(buf) + 1
        BY <1>1
    <2>3. /\ Text!InsertAt(buf, place + 1, ch) \in Seq(Text!Character)
          /\ Len(Text!InsertAt(buf, place + 1, ch)) = Len(buf) + 1
        BY <1>1, <2>2, InsertedText
    <2>4. /\ place + 1 \in 0 .. Len(Text!InsertAt(buf, place + 1, ch))
          /\ Len(Text!InsertAt(buf, place + 1, ch)) <= TextMax
        BY <1>1, <2>1, <2>3
    <2> QED
        BY <1>3, <2>1, <2>3, <2>4
<1> QED
    BY <1>4, <1>5, <1>6, <1>7, <1>8, <1>9

LEMMA StepText == TextInv /\ [Text!Next]_(Text!editVars) => TextInv'
<1> SUFFICES ASSUME TextInv, [Text!Next]_(Text!editVars) PROVE TextInv'
    OBVIOUS
<1>1. CASE Text!FieldKey \/ Text!MessageKey \/ Text!YamlKey \/ Text!TokensKey
    <2>1. "x" \in Text!Character
        BY DEF Text!Character
    <2> QED
        BY <1>1, <2>1, KeyInv DEF Text!FieldKey, Text!MessageKey, Text!YamlKey, Text!TokensKey
<1>2. CASE \E s \in Text!Texts : Text!OpenMessage(s)
    <2> PICK s \in Text!Texts : Text!OpenMessage(s)
        BY <1>2
    <2>1. s \in Seq(Text!Character) /\ Len(s) \in 1 .. TextMax
        <3>1. PICK n \in 1 .. TextMax : s \in [1 .. n -> Text!Character]
            BY DEF Text!Texts
        <3>2. n \in Nat
            BY <3>1, TextSizes
        <3>3. s \in Seq(Text!Character) /\ Len(s) = n
            BY <3>1, <3>2
        <3> QED
            BY <3>1, <3>3
    <2> DEFINE line == Text!LineOf(s, Len(s))
    <2>2. buf' = s /\ place' = Len(s) /\ kind' = kind /\ top' = Text!Max({0, line - TextHeight + 1})
        BY DEF Text!OpenMessage
    <2>3. line \in Nat
        <3>1. Len(s) \in 0 .. Len(s)
            BY <2>1
        <3> QED
            BY <2>1, <3>1, LineIsNumber
    <2>4. Text!LineOf(buf, place)' = line
        BY <2>2 DEF Text!LineOf, Text!Width
    <2> HIDE DEF line
    <2>5. Text!Max({0, line - TextHeight + 1}) = IF line - TextHeight + 1 <= 0 THEN 0 ELSE line - TextHeight + 1
        BY <2>3, TextSizes DEF Text!Max
    <2>6. top' \in Nat /\ line \in top' .. top' + TextHeight - 1
        BY <2>2, <2>3, <2>5, TextSizes
    <2>7. Text!CursorShown'
        BY <2>4, <2>6 DEF Text!CursorShown
    <2>8. Len(s) \in 0 .. Len(s) /\ Len(s) <= TextMax
        BY <2>1, TextSizes
    <2> QED
        BY <2>1, <2>2, <2>6, <2>7, <2>8 DEF TextInv
<1>3. CASE UNCHANGED Text!editVars
    <2>1. UNCHANGED <<kind, buf, place, top>>
        BY <1>3 DEF Text!editVars
    <2>2. Text!LineOf(buf, place)' = Text!LineOf(buf, place)
        BY <2>1 DEF Text!LineOf, Text!Width
    <2> QED
        BY <2>1, <2>2 DEF TextInv, Text!CursorShown
<1> QED
    BY <1>1, <1>2, <1>3 DEF Text!Next

LEMMA TextSafety == Text!Spec => []TextInv
BY InitText, StepText, PTL DEF Text!Spec
-----------------------------------------------------------------------------
(***************************************************************************)
(* The lines of a text: each is a run of places whose columns are counted  *)
(* from its first one, so that an arrow key of the message dialog, which   *)
(* looks for a place, and one of the other editors, which looks for        *)
(* newlines, both find the place that the column asks for.                 *)
(***************************************************************************)
Lays(at, s, n, w) ==
    /\ at \in [0 .. n -> Place] /\ at[0] = [line |-> 0, col |-> 0]
    /\ \A i \in 1 .. n : at[i] = After(at[i - 1], s[i], w)

Breaks(at, s, i, w) == s[i + 1] = "nl" \/ at[i].col + 1 >= w

LEMMA NextPlace ==
    ASSUME NEW n \in Nat, NEW at, NEW s, NEW w \in Nat, Lays(at, s, n, w), NEW i \in 0 .. n - 1
    PROVE  /\ at[i].line \in Nat /\ at[i].col \in Nat
           /\ at[i + 1].line \in Nat /\ at[i + 1].col \in Nat
           /\ Breaks(at, s, i, w) => at[i + 1].line = at[i].line + 1 /\ at[i + 1].col = 0
           /\ ~Breaks(at, s, i, w) => at[i + 1].line = at[i].line /\ at[i + 1].col = at[i].col + 1
<1>1. i + 1 \in 1 .. n /\ (i + 1) - 1 = i /\ i \in 0 .. n /\ i + 1 \in 0 .. n
    OBVIOUS
<1>2. at[i + 1] = After(at[i], s[i + 1], w)
    BY <1>1 DEF Lays
<1>3. at[i] \in Place /\ at[i + 1] \in Place
    BY <1>1 DEF Lays
<1> QED
    BY <1>2, <1>3 DEF After, Place, Breaks

\* Along a text lines do not decrease, and columns count the places of a line.
Along(at, w, j) ==
    /\ at[j].line \in Nat /\ at[j].col \in Nat /\ at[j].col < w /\ at[j].col <= j
    /\ \A i \in 0 .. j : /\ at[i].line \in Nat /\ at[i].col \in Nat
                         /\ at[i].line <= at[j].line
                         /\ at[i].line = at[j].line => at[j].col = at[i].col + (j - i)

LEMMA LaysAlong ==
    ASSUME NEW n \in Nat, NEW at, NEW s, NEW w \in Nat, w >= 1, Lays(at, s, n, w)
    PROVE  \A j \in 0 .. n : Along(at, w, j)
<1> DEFINE T == {j \in 0 .. n : Along(at, w, j)}
<1>1. 0 \in T
    <2>1. at[0].line = 0 /\ at[0].col = 0
        BY DEF Lays
    <2>2. Along(at, w, 0)
        BY <2>1 DEF Along
    <2> QED
        BY <2>2
<1>2. ASSUME NEW j \in 0 .. n, j \in T, j + 1 <= n PROVE j + 1 \in T
    <2>1. Along(at, w, j) /\ j \in 0 .. n - 1 /\ j + 1 \in 0 .. n
        BY <1>2
    <2>2. /\ at[j].line \in Nat /\ at[j].col \in Nat
          /\ at[j + 1].line \in Nat /\ at[j + 1].col \in Nat
          /\ Breaks(at, s, j, w) => at[j + 1].line = at[j].line + 1 /\ at[j + 1].col = 0
          /\ ~Breaks(at, s, j, w) => at[j + 1].line = at[j].line /\ at[j + 1].col = at[j].col + 1
        BY <2>1, NextPlace
    <2>3. at[j + 1].col < w /\ at[j + 1].col <= j + 1
        BY <2>1, <2>2 DEF Along, Breaks
    <2>4. ASSUME NEW i \in 0 .. j + 1
          PROVE  /\ at[i].line \in Nat /\ at[i].col \in Nat /\ at[i].line <= at[j + 1].line
                 /\ at[i].line = at[j + 1].line => at[j + 1].col = at[i].col + ((j + 1) - i)
        <3>1. CASE i = j + 1
            BY <2>2, <3>1
        <3>2. CASE i # j + 1
            <4>1. i \in 0 .. j
                BY <3>2
            <4>2. /\ at[i].line \in Nat /\ at[i].col \in Nat /\ at[i].line <= at[j].line
                  /\ at[i].line = at[j].line => at[j].col = at[i].col + (j - i)
                BY <2>1, <4>1 DEF Along
            <4>3. CASE Breaks(at, s, j, w)
                BY <2>2, <4>2, <4>3
            <4>4. CASE ~Breaks(at, s, j, w)
                BY <2>2, <4>1, <4>2, <4>4
            <4> QED
                BY <4>3, <4>4
        <3> QED
            BY <3>1, <3>2
    <2>5. Along(at, w, j + 1)
        BY <2>2, <2>3, <2>4 DEF Along
    <2> QED
        BY <2>1, <2>5
<1> HIDE DEF T
<1>3. 0 .. n \subseteq T
    BY <1>1, <1>2, UpTo
<1> QED
    BY <1>3 DEF T

\* Two places of a text
LEMMA InOrder ==
    ASSUME NEW n \in Nat, NEW at, NEW s, NEW w \in Nat, w >= 1, Lays(at, s, n, w),
           NEW i \in 0 .. n, NEW j \in 0 .. n, i <= j
    PROVE  /\ at[i].line \in Nat /\ at[i].col \in Nat /\ at[j].line \in Nat /\ at[j].col \in Nat
           /\ at[i].col < w /\ at[i].col <= i /\ at[i].line <= at[j].line
           /\ at[i].line = at[j].line => at[j].col = at[i].col + (j - i)
<1>1. Along(at, w, i) /\ Along(at, w, j) /\ i \in 0 .. j
    BY LaysAlong
<1> QED
    BY <1>1 DEF Along

\* Each line begins somewhere, in the first column.
LEMMA LineBegins ==
    ASSUME NEW n \in Nat, NEW at, NEW s, NEW w \in Nat, w >= 1, Lays(at, s, n, w)
    PROVE  \A l \in 0 .. at[n].line : \E a \in 0 .. n : at[a].line = l /\ at[a].col = 0
<1> DEFINE T == {j \in 0 .. n : \A l \in 0 .. at[j].line :
                                    \E a \in 0 .. n : at[a].line = l /\ at[a].col = 0}
<1>1. 0 \in T
    <2>1. at[0].line = 0 /\ at[0].col = 0
        BY DEF Lays
    <2> QED
        BY <2>1
<1>2. ASSUME NEW j \in 0 .. n, j \in T, j + 1 <= n PROVE j + 1 \in T
    <2>1. j \in 0 .. n - 1 /\ j + 1 \in 0 .. n
        BY <1>2
    <2>2. /\ at[j].line \in Nat /\ at[j + 1].line \in Nat
          /\ \/ at[j + 1].line = at[j].line + 1 /\ at[j + 1].col = 0
             \/ at[j + 1].line = at[j].line
        BY <2>1, NextPlace
    <2>3. ASSUME NEW l \in 0 .. at[j + 1].line
          PROVE  \E a \in 0 .. n : at[a].line = l /\ at[a].col = 0
        <3>1. CASE l \in 0 .. at[j].line
            BY <1>2, <3>1
        <3>2. CASE l \notin 0 .. at[j].line
            <4>1. at[j + 1].line = l /\ at[j + 1].col = 0
                BY <2>2, <3>2
            <4> QED
                BY <2>1, <4>1
        <3> QED
            BY <3>1, <3>2
    <2> QED
        BY <2>1, <2>3
<1> HIDE DEF T
<1>3. 0 .. n \subseteq T
    BY <1>1, <1>2, UpTo
<1>4. n \in T
    BY <1>3
<1> QED
    BY <1>4 DEF T

\* Line l is the places a .. b.
IsLine(at, s, n, w, l, a, b) ==
    /\ a \in 0 .. n /\ b \in 0 .. n /\ a <= b
    /\ \A i \in 0 .. n : at[i].line = l <=> i \in a .. b
    /\ \A i \in a .. b : at[i].col = i - a
    /\ \A i \in a .. b - 1 : s[i + 1] # "nl"
    /\ l = at[n].line => b = n
    /\ l # at[n].line => b < n /\ (s[b + 1] = "nl" \/ (b - a) + 1 >= w)
    /\ l = 0 => a = 0
    /\ l # 0 => a > 0 /\ at[a - 1].line = l - 1 /\ (s[a] = "nl" \/ at[a - 1].col + 1 >= w)

\* The line before the first place of another one
LEMMA Before ==
    ASSUME NEW n \in Nat, NEW at, NEW s, NEW w \in Nat, w >= 1, Lays(at, s, n, w),
           NEW a \in 0 .. n, at[a].col = 0, at[a].line # 0
    PROVE  /\ a - 1 \in 0 .. n - 1 /\ at[a - 1].line = at[a].line - 1
           /\ Breaks(at, s, a - 1, w)
<1>1. a # 0
    BY DEF Lays
<1>2. a - 1 \in 0 .. n - 1 /\ (a - 1) + 1 = a
    BY <1>1
<1> DEFINE i == a - 1
<1>3. i \in 0 .. n - 1 /\ i + 1 = a
    BY <1>2
<1> HIDE DEF i
<1>4. /\ at[i].line \in Nat /\ at[i].col \in Nat
      /\ Breaks(at, s, i, w) => at[a].line = at[i].line + 1
      /\ ~Breaks(at, s, i, w) => at[a].col = at[i].col + 1
    BY <1>3, NextPlace
<1>5. Breaks(at, s, i, w) /\ at[i].line = at[a].line - 1
    BY <1>4
<1> QED
    BY <1>3, <1>5 DEF i

LEMMA LineIs ==
    ASSUME NEW n \in Nat, NEW at, NEW s, NEW w \in Nat, w >= 1, Lays(at, s, n, w),
           NEW l \in 0 .. at[n].line
    PROVE  \E a, b \in 0 .. n : IsLine(at, s, n, w, l, a, b)
<1>1. PICK a \in 0 .. n : at[a].line = l /\ at[a].col = 0
    BY LineBegins
<1>2. n \in 0 .. n /\ at[n].line \in Nat /\ l \in Nat
    <2>1. n \in 0 .. n
        OBVIOUS
    <2> QED
        BY <2>1, InOrder
<1>3. /\ l = 0 => a = 0
      /\ l # 0 => a > 0 /\ at[a - 1].line = l - 1 /\ (s[a] = "nl" \/ at[a - 1].col + 1 >= w)
    <2>1. CASE l = 0
        <3>1. 0 \in 0 .. n /\ at[0].line = 0 /\ at[0].col = 0
            BY DEF Lays
        <3>2. at[a].col = at[0].col + (a - 0)
            BY <1>1, <2>1, <3>1, InOrder
        <3> QED
            BY <1>1, <2>1, <3>1, <3>2
    <2>2. CASE l # 0
        <3>1. /\ a - 1 \in 0 .. n - 1 /\ at[a - 1].line = at[a].line - 1
              /\ Breaks(at, s, a - 1, w)
            BY <1>1, <2>2, Before
        <3>2. (a - 1) + 1 = a
            OBVIOUS
        <3> QED
            BY <1>1, <2>2, <3>1, <3>2 DEF Breaks
    <2> QED
        BY <2>1, <2>2
<1>4. \E b \in 0 .. n : /\ at[b].line = l
                        /\ \A i \in 0 .. n : i > b => at[i].line # l
                        /\ l = at[n].line => b = n
                        /\ l # at[n].line => b < n /\ Breaks(at, s, b, w)
    <2>1. CASE l = at[n].line
        <3>1. \A i \in 0 .. n : ~(i > n)
            OBVIOUS
        <3> QED
            BY <1>2, <2>1, <3>1
    <2>2. CASE l # at[n].line
        <3>1. l + 1 \in 0 .. at[n].line
            BY <1>2, <2>2
        <3>2. PICK z \in 0 .. n : at[z].line = l + 1 /\ at[z].col = 0
            BY <3>1, LineBegins
        <3>3. z - 1 \in 0 .. n - 1 /\ at[z - 1].line = l /\ Breaks(at, s, z - 1, w)
            <4>1. at[z].line # 0
                BY <1>2, <3>2
            <4>2. z - 1 \in 0 .. n - 1 /\ at[z - 1].line = at[z].line - 1 /\ Breaks(at, s, z - 1, w)
                BY <3>2, <4>1, Before
            <4> QED
                BY <1>2, <3>2, <4>2
        <3>4. ASSUME NEW i \in 0 .. n, i > z - 1 PROVE at[i].line # l
            <4>1. z <= i
                BY <3>4
            <4>2. at[z].line <= at[i].line /\ at[i].line \in Nat
                BY <4>1, InOrder
            <4> QED
                BY <1>2, <3>2, <4>2
        <3>5. z - 1 \in 0 .. n /\ z - 1 < n
            BY <3>3
        <3> QED
            BY <2>2, <3>3, <3>4, <3>5
    <2> QED
        BY <2>1, <2>2
<1>5. PICK b \in 0 .. n : /\ at[b].line = l
                          /\ \A i \in 0 .. n : i > b => at[i].line # l
                          /\ l = at[n].line => b = n
                          /\ l # at[n].line => b < n /\ Breaks(at, s, b, w)
    BY <1>4
<1>6. a <= b
    BY <1>1, <1>5
<1>7. ASSUME NEW i \in 0 .. n PROVE /\ at[i].line = l => i \in a .. b
                                    /\ i \in a .. b => at[i].line = l /\ at[i].col = i - a
    <2>1. ASSUME at[i].line = l PROVE i \in a .. b
        <3>1. i <= b
            BY <1>5, <2>1
        <3>2. ASSUME i < a PROVE FALSE
            <4>1. i <= a
                BY <3>2
            <4>2. at[i].col \in Nat /\ at[a].col = at[i].col + (a - i)
                BY <1>1, <2>1, <4>1, InOrder
            <4> QED
                BY <1>1, <3>2, <4>2
        <3> QED
            BY <3>1, <3>2
    <2>2. ASSUME i \in a .. b PROVE at[i].line = l /\ at[i].col = i - a
        <3>1. a <= i /\ i <= b
            BY <2>2
        <3>2. at[a].line <= at[i].line /\ at[i].line \in Nat
            BY <3>1, InOrder
        <3>3. at[i].line <= at[b].line
            BY <3>1, InOrder
        <3>4. at[i].line = l
            BY <1>1, <1>2, <1>5, <3>2, <3>3
        <3>5. at[i].col = at[a].col + (i - a)
            BY <1>1, <3>1, <3>4, InOrder
        <3> QED
            BY <1>1, <3>4, <3>5
    <2> QED
        BY <2>1, <2>2
<1>8. \A i \in a .. b : at[i].line = l /\ at[i].col = i - a
    BY <1>7
<1>9. ASSUME NEW i \in a .. b - 1 PROVE s[i + 1] # "nl"
    <2>1. i \in 0 .. n - 1 /\ i \in a .. b /\ i + 1 \in a .. b
        BY <1>9
    <2>2. at[i].line = l /\ at[i + 1].line = l
        BY <1>8, <2>1
    <2>3. Breaks(at, s, i, w) => at[i + 1].line = at[i].line + 1
        BY <2>1, NextPlace
    <2> QED
        BY <1>2, <2>2, <2>3 DEF Breaks
<1>10. \A i \in 0 .. n : at[i].line = l <=> i \in a .. b
    BY <1>7
<1>11. at[b].col = b - a
    BY <1>6, <1>8
<1>12. l # at[n].line => b < n /\ (s[b + 1] = "nl" \/ (b - a) + 1 >= w)
    BY <1>5, <1>11 DEF Breaks
<1>13. IsLine(at, s, n, w, l, a, b)
    BY <1>3, <1>5, <1>6, <1>8, <1>9, <1>10, <1>12 DEF IsLine
<1> QED
    BY <1>13

LEMMA Neighbours ==
    ASSUME NEW n \in Nat, NEW at, NEW s, NEW w \in Nat, w >= 1, Lays(at, s, n, w),
           NEW l \in Nat, NEW a, NEW b, NEW c, NEW d,
           IsLine(at, s, n, w, l, a, b), IsLine(at, s, n, w, l + 1, c, d)
    PROVE  c = b + 1
<1>1. /\ a \in 0 .. n /\ b \in 0 .. n /\ a <= b
      /\ \A i \in 0 .. n : at[i].line = l <=> i \in a .. b
    BY DEF IsLine
<1>2. /\ c \in 0 .. n /\ d \in 0 .. n /\ c <= d /\ c > 0 /\ at[c - 1].line = l
      /\ \A i \in 0 .. n : at[i].line = l + 1 <=> i \in c .. d
    BY DEF IsLine
<1>3. c - 1 \in a .. b
    BY <1>1, <1>2
<1>4. ASSUME c <= b PROVE FALSE
    <2>1. at[c].line <= at[b].line
        BY <1>1, <1>2, <1>4, InOrder
    <2>2. at[c].line = l + 1 /\ at[b].line = l
        BY <1>1, <1>2
    <2> QED
        BY <2>1, <2>2
<1> QED
    BY <1>1, <1>2, <1>3, <1>4

\* The place of line l whose column is the greatest up to k
BestAt(at, n, l, k) ==
    CHOOSE c \in 0 .. n :
        /\ at[c].line = l /\ at[c].col <= k
        /\ \A d \in 0 .. n : at[d].line = l /\ at[d].col <= k => at[d].col <= at[c].col

Cut(a, b, k) == IF a + k <= b THEN a + k ELSE b

LEMMA BestIs ==
    ASSUME NEW n \in Nat, NEW at, NEW s, NEW w \in Nat, NEW l, NEW a, NEW b,
           IsLine(at, s, n, w, l, a, b), NEW k \in Nat
    PROVE  BestAt(at, n, l, k) = Cut(a, b, k)
<1> DEFINE Good(c) == /\ at[c].line = l /\ at[c].col <= k
                      /\ \A d \in 0 .. n : at[d].line = l /\ at[d].col <= k => at[d].col <= at[c].col
<1>1. /\ a \in 0 .. n /\ b \in 0 .. n /\ a <= b
      /\ \A i \in 0 .. n : at[i].line = l <=> i \in a .. b
      /\ \A i \in a .. b : at[i].col = i - a
    BY DEF IsLine
<1>2. Cut(a, b, k) \in a .. b /\ Cut(a, b, k) - a <= k
    BY <1>1 DEF Cut
<1> DEFINE x == Cut(a, b, k)
<1>3. Good(x)
    <2>1. x \in 0 .. n /\ at[x].line = l /\ at[x].col = x - a
        BY <1>1, <1>2
    <2>2. ASSUME NEW d \in 0 .. n, at[d].line = l, at[d].col <= k PROVE at[d].col <= at[x].col
        <3>1. d \in a .. b /\ at[d].col = d - a
            BY <1>1, <2>2
        <3>2. d <= x
            BY <1>1, <2>2, <3>1 DEF Cut
        <3> QED
            BY <1>1, <1>2, <2>1, <3>1, <3>2
    <2> QED
        BY <1>2, <2>1, <2>2
<1>4. ASSUME NEW c \in 0 .. n, Good(c) PROVE c = x
    <2>1. c \in a .. b /\ at[c].col = c - a
        BY <1>1, <1>4
    <2>2. x \in 0 .. n /\ at[x].line = l /\ at[x].col = x - a
        BY <1>1, <1>2
    <2>3. at[x].col <= at[c].col
        BY <1>2, <1>4, <2>2
    <2>4. at[c].col <= at[x].col
        BY <1>3, <1>4
    <2> QED
        BY <1>1, <1>2, <2>1, <2>2, <2>3, <2>4
<1>5. x \in 0 .. n
    BY <1>1, <1>2
<1>6. BestAt(at, n, l, k) = CHOOSE c \in 0 .. n : Good(c)
    BY DEF BestAt
<1> HIDE DEF Good, x
<1>7. (CHOOSE c \in 0 .. n : Good(c)) \in 0 .. n /\ Good(CHOOSE c \in 0 .. n : Good(c))
    BY <1>3, <1>5
<1>8. (CHOOSE c \in 0 .. n : Good(c)) = x
    BY <1>4, <1>7
<1> QED
    BY <1>6, <1>8 DEF x
-----------------------------------------------------------------------------
\* The text on the screen, its places and the line the cursor is on
LEMMA Laid ==
    ASSUME TextInv, NEW w \in Nat
    PROVE  /\ Len(buf) \in Nat /\ place \in 0 .. Len(buf)
           /\ Lays(Text!Places(buf, w), buf, Len(buf), w)
<1>1. Len(buf) \in Nat /\ place \in 0 .. Len(buf)
    BY DEF TextInv
<1> QED
    BY <1>1, PlacesAre DEF Lays

\* What the loop of the message dialog finds on a line
LEMMA Targets ==
    ASSUME TextInv,
           NEW l \in Nat, NEW a, NEW b,
           IsLine(Text!Places(buf, TextWidth), buf, Len(buf), TextWidth, l, a, b)
    PROVE  LET at == Text!Places(buf, TextWidth)
               k == at[place].col
           IN  Text!MessageTo(l) = IF l = at[Len(buf)].line /\ b < a + k THEN place ELSE Cut(a, b, k)
<1> DEFINE at == Text!Places(buf, TextWidth)
           n == Len(buf)
           k == at[place].col
           S == Text!Target(l)
<1>1. n \in Nat /\ place \in 0 .. n /\ TextWidth \in Nat /\ TextWidth >= 1 /\ Lays(at, buf, n, TextWidth)
    BY Laid, TextSizes
<1>2. IsLine(at, buf, n, TextWidth, l, a, b)
    OBVIOUS
<1>3. S = {i \in 0 .. n : at[i].line = l /\ (at[i].col = k \/ (i < n /\ buf[i + 1] = "nl"))}
    BY DEF Text!Target
<1>4. Text!MessageTo(l) = IF S = {} THEN place ELSE Text!Min(S)
    BY DEF Text!MessageTo
<1> HIDE DEF at, n, S
<1>5. k \in Nat /\ k < TextWidth
    BY <1>1, InOrder
<1> HIDE DEF k
<1>6. /\ a \in 0 .. n /\ b \in 0 .. n /\ a <= b
      /\ \A i \in 0 .. n : at[i].line = l <=> i \in a .. b
      /\ \A i \in a .. b : at[i].col = i - a
      /\ \A i \in a .. b - 1 : buf[i + 1] # "nl"
      /\ l = at[n].line => b = n
      /\ l # at[n].line => b < n /\ (buf[b + 1] = "nl" \/ (b - a) + 1 >= TextWidth)
    BY <1>2 DEF IsLine
<1>7. \A i \in S : i \in a .. b /\ (i = a + k \/ (i = b /\ b < n))
    <2> TAKE i \in S
    <2>1. i \in a .. b /\ at[i].col = i - a
        BY <1>3, <1>6
    <2>2. CASE at[i].col = k
        BY <1>5, <1>6, <2>1, <2>2
    <2>3. CASE i < n /\ buf[i + 1] = "nl"
        <3>1. i \notin a .. b - 1
            BY <1>6, <2>3
        <3> QED
            BY <1>6, <2>1, <2>3, <3>1
    <2> QED
        BY <1>3, <2>2, <2>3
<1>8. S \in SUBSET Nat
    BY <1>3
<1>9. CASE a + k <= b
    <2>1. a + k \in a .. b
        BY <1>5, <1>6, <1>9
    <2>2. at[a + k].col = k /\ a + k \in 0 .. n /\ at[a + k].line = l
        BY <1>1, <1>5, <1>6, <2>1
    <2>3. a + k \in S
        BY <1>3, <2>2
    <2>4. \A i \in S : a + k <= i
        BY <1>5, <1>6, <1>7, <1>9
    <2>5. Text!Min(S) \in S /\ \A i \in S : Text!Min(S) <= i
        BY <1>8, <2>3, TextMinimum
    <2>6. Text!Min(S) = a + k
        <3>1. Text!Min(S) \in Nat /\ a + k <= Text!Min(S) /\ Text!Min(S) <= a + k
            BY <1>8, <2>3, <2>4, <2>5
        <3> QED
            BY <1>1, <1>5, <1>6, <3>1
    <2>7. ~(b < a + k)
        BY <1>5, <1>6, <1>9
    <2> QED
        BY <1>4, <1>9, <2>3, <2>6, <2>7 DEF Cut, at, n, k
<1>10. CASE b < a + k /\ l # at[n].line
    <2>1. b < n /\ buf[b + 1] = "nl"
        BY <1>1, <1>5, <1>6, <1>10
    <2>2. b \in S
        BY <1>3, <1>6, <2>1
    <2>3. \A i \in S : i = b
        BY <1>5, <1>6, <1>7, <1>10
    <2>4. Text!Min(S) = b
        BY <1>8, <2>2, <2>3, TextMinimum
    <2>5. ~(a + k <= b)
        BY <1>5, <1>6, <1>10
    <2> QED
        BY <1>4, <1>10, <2>2, <2>4, <2>5 DEF Cut, at, n, k
<1>11. CASE b < a + k /\ l = at[n].line
    <2>1. S = {}
        BY <1>5, <1>6, <1>7, <1>11
    <2> QED
        BY <1>4, <1>11, <2>1 DEF at, n, k
<1>12. a + k <= b \/ b < a + k
    BY <1>5, <1>6
<1> QED
    BY <1>9, <1>10, <1>11, <1>12

\* Without wrapping a line starts behind a newline and ends before one.
LEMMA NewlinesAre ==
    ASSUME TextInv, NEW l \in Nat, NEW a, NEW b,
           IsLine(Text!Places(buf, Text!NoWrap), buf, Len(buf), Text!NoWrap, l, a, b),
           NEW c \in a .. b
    PROVE  Text!Start(c) = a /\ Text!End(c) = b
<1> DEFINE at == Text!Places(buf, Text!NoWrap)
           n == Len(buf)
           w == Text!NoWrap
<1>1. n \in Nat /\ w \in Nat /\ w >= 1 /\ n + 2 <= w /\ Lays(at, buf, n, w)
    <2>1. Text!NoWrap \in Nat /\ Text!NoWrap = TextMax + 2 /\ Len(buf) \in Nat /\ Len(buf) <= TextMax
        BY TextSizes DEF Text!NoWrap, TextInv
    <2> QED
        BY <2>1, Laid, TextSizes
<1>2. IsLine(at, buf, n, w, l, a, b)
    OBVIOUS
<1>3. n = Len(buf)
    OBVIOUS
<1> HIDE DEF at, n, w
<1>4. /\ a \in 0 .. n /\ b \in 0 .. n /\ a <= b
      /\ \A i \in a .. b - 1 : buf[i + 1] # "nl"
      /\ l = at[n].line => b = n
      /\ l # at[n].line => b < n /\ (buf[b + 1] = "nl" \/ (b - a) + 1 >= w)
      /\ l = 0 => a = 0
      /\ l # 0 => a > 0 /\ at[a - 1].line = l - 1 /\ (buf[a] = "nl" \/ at[a - 1].col + 1 >= w)
    BY <1>2 DEF IsLine
<1>5. c \in 0 .. n /\ a <= c /\ c <= b
    BY <1>1, <1>4
<1>6. Text!Start(c) = a
    <2>1. /\ Text!Start(c) \in 0 .. c
          /\ Text!Start(c) = 0 \/ buf[Text!Start(c)] = "nl"
          /\ \A i \in 1 .. c : buf[i] = "nl" => i <= Text!Start(c)
        BY <1>5, StartRange
    <2> DEFINE from == Text!Start(c)
    <2>2. /\ from \in 0 .. c /\ (from = 0 \/ buf[from] = "nl")
          /\ \A i \in 1 .. c : buf[i] = "nl" => i <= from
        BY <2>1
    <2> HIDE DEF from
    <2>3. a <= from
        <3>1. CASE a = 0
            BY <2>2, <3>1
        <3>2. CASE a # 0
            <4>1. a - 1 \in 0 .. n /\ l # 0 /\ a \in 1 .. c
                BY <1>1, <1>4, <1>5, <3>2
            <4>2. at[a - 1].col <= a - 1 /\ at[a - 1].col \in Nat
                BY <1>1, <4>1, InOrder
            <4>3. buf[a] = "nl"
                BY <1>1, <1>4, <4>1, <4>2
            <4> QED
                BY <2>2, <4>1, <4>3
        <3> QED
            BY <3>1, <3>2
    <2>4. ASSUME a < from PROVE FALSE
        <3>1. from - 1 \in a .. b - 1 /\ (from - 1) + 1 = from /\ from # 0
            BY <1>4, <1>5, <2>2, <2>4
        <3>2. buf[(from - 1) + 1] # "nl"
            BY <1>4, <3>1
        <3> QED
            BY <2>2, <3>1, <3>2
    <2>5. from = a
        BY <1>4, <2>2, <2>3, <2>4
    <2> QED
        BY <2>5 DEF from
<1>7. Text!End(c) = b
    <2>1. /\ Text!End(c) \in c .. Len(buf)
          /\ Text!End(c) = Len(buf) \/ buf[Text!End(c) + 1] = "nl"
          /\ \A i \in c .. Len(buf) - 1 : buf[i + 1] = "nl" => Text!End(c) <= i
        BY <1>1, <1>3, <1>5, EndRange
    <2> DEFINE to == Text!End(c)
    <2>2. /\ to \in c .. n /\ (to = n \/ buf[to + 1] = "nl")
          /\ \A i \in c .. n - 1 : buf[i + 1] = "nl" => to <= i
        BY <1>3, <2>1
    <2> HIDE DEF to
    <2>3. to <= b
        <3>1. CASE b = n
            BY <1>1, <2>2, <3>1
        <3>2. CASE b # n
            <4>1. buf[b + 1] = "nl" /\ b \in c .. n - 1
                BY <1>1, <1>4, <1>5, <3>2
            <4> QED
                BY <2>2, <4>1
        <3> QED
            BY <3>1, <3>2
    <2>4. ASSUME to < b PROVE FALSE
        <3>1. to \in a .. b - 1 /\ to # n
            BY <1>4, <1>5, <2>2, <2>4
        <3> QED
            BY <1>4, <2>2, <3>1
    <2>5. to = b
        BY <1>4, <1>5, <2>2, <2>3, <2>4
    <2> QED
        BY <2>5 DEF to
<1> QED
    BY <1>6, <1>7

\* The arrow keys of the message dialog and of the other two, on the line of the cursor
LEMMA Moves ==
    ASSUME TextInv, NEW w \in {TextWidth, Text!NoWrap}
    PROVE  LET at == Text!Places(buf, w)
               n == Len(buf)
               l == at[place].line
           IN  /\ w \in Nat /\ w >= 1 /\ n \in Nat /\ place \in 0 .. n /\ Lays(at, buf, n, w)
               /\ at[place].col \in Nat /\ l \in Nat /\ at[n].line \in Nat /\ l <= at[n].line
               /\ \E a, b \in 0 .. n : IsLine(at, buf, n, w, l, a, b) /\ place \in a .. b
               /\ l # 0 => \E a, b \in 0 .. n : IsLine(at, buf, n, w, l - 1, a, b)
               /\ l # at[n].line => \E a, b \in 0 .. n : IsLine(at, buf, n, w, l + 1, a, b)
<1> DEFINE at == Text!Places(buf, w)
           n == Len(buf)
           l == at[place].line
<1>1. w \in Nat /\ w >= 1
    BY TextSizes DEF Text!NoWrap
<1>2. n \in Nat /\ place \in 0 .. n /\ Lays(at, buf, n, w)
    BY <1>1, Laid
<1> HIDE DEF at, n
<1>3. n \in 0 .. n /\ place <= n
    BY <1>2
<1>4. at[place].col \in Nat /\ l \in Nat /\ at[n].line \in Nat /\ l <= at[n].line
    BY <1>1, <1>2, <1>3, InOrder
<1>5. \A m \in 0 .. at[n].line : \E a, b \in 0 .. n : IsLine(at, buf, n, w, m, a, b)
    BY <1>1, <1>2, LineIs
<1>6. \E a, b \in 0 .. n : IsLine(at, buf, n, w, l, a, b) /\ place \in a .. b
    <2>1. PICK a \in 0 .. n, b \in 0 .. n : IsLine(at, buf, n, w, l, a, b)
        BY <1>4, <1>5
    <2>2. place \in a .. b
        BY <1>2, <2>1 DEF IsLine
    <2> QED
        BY <2>1, <2>2
<1>7. l # 0 => \E a, b \in 0 .. n : IsLine(at, buf, n, w, l - 1, a, b)
    <2>1. l # 0 => l - 1 \in 0 .. at[n].line
        BY <1>4
    <2> QED
        BY <1>5, <2>1
<1>8. l # at[n].line => \E a, b \in 0 .. n : IsLine(at, buf, n, w, l + 1, a, b)
    <2>1. l # at[n].line => l + 1 \in 0 .. at[n].line
        BY <1>4
    <2> QED
        BY <1>5, <2>1
<1> QED
    BY <1>1, <1>2, <1>4, <1>6, <1>7, <1>8 DEF at, n

LEMMA MessageMoves ==
    ASSUME TextInv
    PROVE  LET at == Text!Places(buf, TextWidth)
               here == at[place]
               last == at[Len(buf)]
           IN  /\ Text!MessageUp = IF here.line = 0 THEN place
                                   ELSE BestAt(at, Len(buf), here.line - 1, here.col)
               /\ Text!MessageDown =
                        IF here.line = last.line \/ (here.line + 1 = last.line /\ here.col > last.col)
                        THEN place ELSE BestAt(at, Len(buf), here.line + 1, here.col)
<1> DEFINE at == Text!Places(buf, TextWidth)
           n == Len(buf)
           l == at[place].line
           k == at[place].col
           w == TextWidth
<1>1. /\ w \in Nat /\ w >= 1 /\ n \in Nat /\ place \in 0 .. n /\ Lays(at, buf, n, w)
      /\ k \in Nat /\ l \in Nat /\ at[n].line \in Nat /\ l <= at[n].line
      /\ l # 0 => \E a, b \in 0 .. n : IsLine(at, buf, n, w, l - 1, a, b)
      /\ l # at[n].line => \E a, b \in 0 .. n : IsLine(at, buf, n, w, l + 1, a, b)
    BY Moves
<1>2. \A m \in Nat : \A a, b : IsLine(at, buf, n, w, m, a, b) =>
            Text!MessageTo(m) = IF m = at[n].line /\ b < a + k THEN place ELSE Cut(a, b, k)
    BY Targets
<1>3. Text!MessageUp = Text!MessageTo(l - 1) /\ Text!MessageDown = Text!MessageTo(l + 1)
    BY DEF Text!MessageUp, Text!MessageDown
<1>4. l = 0 => Text!MessageTo(l - 1) = place
    BY DEF Text!MessageTo
<1>5. l = at[n].line => Text!MessageTo(l + 1) = place
    <2> SUFFICES ASSUME l = at[n].line PROVE Text!MessageTo(l + 1) = place
        OBVIOUS
    <2>1. \A i \in 0 .. n : at[i].line # l + 1
        <3> TAKE i \in 0 .. n
        <3> HIDE DEF at, n
        <3>1. n \in 0 .. n /\ i <= n
            BY <1>1
        <3>2. at[i].line \in Nat /\ at[i].line <= at[n].line
            BY <1>1, <3>1, InOrder
        <3> QED
            BY <1>1, <3>2
    <2>2. Text!Target(l + 1) = {}
        BY <2>1 DEF Text!Target
    <2> QED
        BY <2>2 DEF Text!MessageTo
<1> HIDE DEF at, n, l, k, w
<1>6. Text!MessageUp = IF l = 0 THEN place ELSE BestAt(at, n, l - 1, k)
    <2>1. CASE l = 0
        BY <1>3, <1>4, <2>1
    <2>2. CASE l # 0
        <3>1. PICK a \in 0 .. n, b \in 0 .. n : IsLine(at, buf, n, w, l - 1, a, b)
            BY <1>1, <2>2
        <3>2. l - 1 \in Nat /\ l - 1 # at[n].line
            BY <1>1, <2>2
        <3>3. Text!MessageTo(l - 1) = Cut(a, b, k)
            BY <1>2, <3>1, <3>2
        <3>4. BestAt(at, n, l - 1, k) = Cut(a, b, k)
            BY <1>1, <3>1, BestIs
        <3> QED
            BY <1>3, <2>2, <3>3, <3>4
    <2> QED
        BY <2>1, <2>2
<1>7. Text!MessageDown = IF l = at[n].line \/ (l + 1 = at[n].line /\ k > at[n].col)
                         THEN place ELSE BestAt(at, n, l + 1, k)
    <2>1. CASE l = at[n].line
        BY <1>3, <1>5, <2>1
    <2>2. CASE l # at[n].line
        <3>1. PICK a \in 0 .. n, b \in 0 .. n : IsLine(at, buf, n, w, l + 1, a, b)
            BY <1>1, <2>2
        <3>2. Text!MessageTo(l + 1) = IF l + 1 = at[n].line /\ b < a + k THEN place ELSE Cut(a, b, k)
            BY <1>1, <1>2, <3>1
        <3>3. BestAt(at, n, l + 1, k) = Cut(a, b, k)
            BY <1>1, <3>1, BestIs
        <3>4. l + 1 = at[n].line => (b < a + k <=> k > at[n].col)
            <4>1. l + 1 = at[n].line => at[n].col = b - a /\ b = n
                BY <1>1, <3>1 DEF IsLine
            <4> QED
                BY <1>1, <3>1, <4>1
        <3> QED
            BY <1>3, <2>2, <3>2, <3>3, <3>4
    <2> QED
        BY <2>1, <2>2
<1> QED
    BY <1>6, <1>7 DEF at, n, l, k

LEMMA TextMoves ==
    ASSUME TextInv
    PROVE  LET at == Text!Places(buf, Text!NoWrap)
               here == at[place]
               last == at[Len(buf)]
           IN  /\ Text!TextUp = IF here.line = 0 THEN place
                                ELSE BestAt(at, Len(buf), here.line - 1, here.col)
               /\ Text!TextDown = IF here.line = last.line THEN place
                                  ELSE BestAt(at, Len(buf), here.line + 1, here.col)
<1> DEFINE at == Text!Places(buf, Text!NoWrap)
           n == Len(buf)
           l == at[place].line
           k == at[place].col
           w == Text!NoWrap
<1>1. /\ w \in Nat /\ w >= 1 /\ n \in Nat /\ place \in 0 .. n /\ Lays(at, buf, n, w)
      /\ k \in Nat /\ l \in Nat /\ at[n].line \in Nat /\ l <= at[n].line
      /\ \E a, b \in 0 .. n : IsLine(at, buf, n, w, l, a, b) /\ place \in a .. b
      /\ l # 0 => \E a, b \in 0 .. n : IsLine(at, buf, n, w, l - 1, a, b)
      /\ l # at[n].line => \E a, b \in 0 .. n : IsLine(at, buf, n, w, l + 1, a, b)
    BY Moves
<1>2. \A m \in Nat : \A a, b : IsLine(at, buf, n, w, m, a, b) =>
            \A c \in a .. b : Text!Start(c) = a /\ Text!End(c) = b
    BY NewlinesAre
<1>3. PICK a \in 0 .. n, b \in 0 .. n : IsLine(at, buf, n, w, l, a, b) /\ place \in a .. b
    BY <1>1
<1>4. n = Len(buf)
    OBVIOUS
<1> HIDE DEF at, n, l, k, w
<1>5. /\ k = place - a /\ a <= b
      /\ l = at[n].line => b = n
      /\ l # at[n].line => b < n
      /\ l = 0 => a = 0
      /\ l # 0 => a > 0
    <2>1. \A i \in a .. b : at[i].col = i - a
        BY <1>3 DEF IsLine
    <2>2. k = place - a
        BY <1>3, <2>1 DEF k
    <2> QED
        BY <1>3, <2>2 DEF IsLine
<1>6. Text!Start(place) = a /\ Text!End(place) = b
    BY <1>1, <1>2, <1>3
<1>7. Text!TextUp = IF l = 0 THEN place ELSE BestAt(at, n, l - 1, k)
    <2>1. CASE l = 0
        BY <1>5, <1>6, <2>1 DEF Text!TextUp
    <2>2. CASE l # 0
        <3>1. PICK c \in 0 .. n, d \in 0 .. n : IsLine(at, buf, n, w, l - 1, c, d)
            BY <1>1, <2>2
        <3>2. l - 1 \in Nat /\ (l - 1) + 1 = l
            BY <1>1, <2>2
        <3>3. a = d + 1
            BY <1>1, <1>3, <3>1, <3>2, Neighbours
        <3>4. d \in c .. d /\ a - 1 = d
            BY <1>1, <3>1, <3>3 DEF IsLine
        <3>5. Text!Start(a - 1) = c
            BY <1>2, <3>1, <3>2, <3>4
        <3>6. Text!TextUp = Text!Min({c + k, d})
            BY <1>5, <1>6, <2>2, <3>4, <3>5 DEF Text!TextUp
        <3>7. c + k \in Int /\ d \in Int
            BY <1>1, <3>1
        <3>8. Text!TextUp = Cut(c, d, k)
            BY <3>6, <3>7, PairMinimum DEF Cut
        <3>9. BestAt(at, n, l - 1, k) = Cut(c, d, k)
            BY <1>1, <3>1, BestIs
        <3> QED
            BY <2>2, <3>8, <3>9
    <2> QED
        BY <2>1, <2>2
<1>8. Text!TextDown = IF l = at[n].line THEN place ELSE BestAt(at, n, l + 1, k)
    <2>1. CASE l = at[n].line
        BY <1>4, <1>5, <1>6, <2>1 DEF Text!TextDown
    <2>2. CASE l # at[n].line
        <3>1. PICK c \in 0 .. n, d \in 0 .. n : IsLine(at, buf, n, w, l + 1, c, d)
            BY <1>1, <2>2
        <3>2. c = b + 1
            BY <1>1, <1>3, <3>1, Neighbours
        <3>3. c \in c .. d
            BY <1>1, <3>1 DEF IsLine
        <3>4. Text!End(c) = d
            BY <1>1, <1>2, <3>1, <3>3
        <3>5. b # Len(buf)
            BY <1>1, <1>3, <1>4, <1>5, <2>2
        <3>6. Text!TextDown = Text!Min({c + k, d})
            BY <1>5, <1>6, <3>2, <3>4, <3>5 DEF Text!TextDown
        <3>7. c + k \in Int /\ d \in Int
            BY <1>1, <3>1
        <3>8. Text!TextDown = Cut(c, d, k)
            BY <3>6, <3>7, PairMinimum DEF Cut
        <3>9. BestAt(at, n, l + 1, k) = Cut(c, d, k)
            BY <1>1, <3>1, BestIs
        <3> QED
            BY <2>2, <3>8, <3>9
    <2> QED
        BY <2>1, <2>2
<1> QED
    BY <1>7, <1>8 DEF at, n, l, k

LEMMA LinesMove == TextInv => Text!LineMoves
<1> SUFFICES ASSUME TextInv PROVE Text!LineMoves
    OBVIOUS
<1>1. CASE kind = "field"
    BY <1>1 DEF Text!LineMoves
<1>2. CASE kind = "message"
    BY <1>2, MessageMoves DEF Text!LineMoves, BestAt
<1>3. CASE kind \in {"yaml", "tokens"}
    BY <1>3, TextMoves DEF Text!LineMoves, BestAt
<1> QED
    BY <1>1, <1>2, <1>3 DEF TextInv, Text!Kinds
-----------------------------------------------------------------------------
(***************************************************************************)
(* A behaviour of the dialogs is one of each of them.                      *)
(***************************************************************************)
LEMMA EachIsItsOwn == DialogsSpec => Spec /\ Models!Spec /\ Small!Spec /\ Text!Spec
<1>1. DialogsInit => Init /\ Models!Init /\ Small!Init /\ Text!Init
    BY DEF DialogsInit
<1>2. ASSUME [DialogsNext]_dialogVars
      PROVE  /\ [Next]_samplerVars /\ [Models!Next]_(Models!modelVars)
             /\ [Small!Next]_(Small!formVars) /\ [Text!Next]_(Text!editVars)
    <2>1. CASE DialogsNext
        <3>1. \/ Next \/ UNCHANGED samplerVars
            BY <2>1 DEF DialogsNext
        <3>2. Models!Next \/ UNCHANGED listVars
            BY <2>1 DEF DialogsNext
        <3>3. Small!Next \/ UNCHANGED smallVars
            BY <2>1 DEF DialogsNext
        <3>4. Text!Next \/ UNCHANGED textVars
            BY <2>1 DEF DialogsNext
        <3> QED
            BY <3>1, <3>2, <3>3, <3>4 DEF listVars, smallVars, textVars, Models!modelVars,
                Small!formVars, Text!editVars
    <2>2. CASE UNCHANGED dialogVars
        BY <2>2 DEF dialogVars, listVars, smallVars, textVars, Models!modelVars, Small!formVars,
            Text!editVars
    <2> QED
        BY <1>2, <2>1, <2>2
<1> QED
    BY <1>1, <1>2, PTL DEF DialogsSpec, Spec, Models!Spec, Small!Spec, Text!Spec

\* Each index, focus and scroll is of a line, a button or an entry there is, and an
\* editor is on an item of its sampler, through deletes, restarts and writes that fail; and the file of models has the list on
\* the screen, but for a write that failed (config_remove_model, modal_handle_key).
THEOREM IndicesStayValid == DialogsSpec => []IndicesValid
BY EachIsItsOwn, SettingsTyped, EditorsFit, ModelsKeepRanges, SmallSafety, PTL DEF IndicesValid

\* The model in use stays the one in use when another one is deleted or added
\* (config_remove_model, config_add_model).
THEOREM ModelInUseStays == DialogsSpec => ActiveStays
BY EachIsItsOwn, ActiveModelStays, PTL DEF ActiveStays

\* After every key in an editor of text the cursor is between two characters of the
\* text, and its line is among those drawn, for texts and windows of any size
\* (draw_message_edit, draw_sampler_yaml, draw_tokenize after the keys).
THEOREM CursorIsShown == DialogsSpec => [](Text!CursorInText /\ Text!CursorShown)
<1>1. TextInv => Text!CursorInText /\ Text!CursorShown
    BY DEF TextInv, Text!CursorInText
<1> QED
    BY <1>1, EachIsItsOwn, TextSafety, PTL

\* In every dialog what the next key is for is drawn.
THEOREM FocusIsShown == DialogsSpec => []FocusShown
BY EachIsItsOwn, SelectionIsShown, CursorIsShown, PTL DEF FocusShown

\* The arrow keys go to the line above or below, to the column of the cursor or to
\* the end of a shorter line, for texts and windows of any size (the key loops of
\* modal_handle_key, in four copies).
THEOREM ArrowsMoveLines == DialogsSpec => []LineMoves
<1>1. TextInv => LineMoves
    BY LinesMove DEF LineMoves
<1> QED
    BY <1>1, EachIsItsOwn, TextSafety, PTL
=============================================================================
