--------------------------- MODULE SamplerDialog ---------------------------
(***************************************************************************)
(* The sampler settings: the dialog of src/ui/modal.c with its form for a  *)
(* new custom sampler, its editors of a list and of a dictionary and the   *)
(* bulk import, over the table and the file of src/llm/sampler.c.          *)
(*                                                                         *)
(* The built-in fields come first in the list and the custom samplers      *)
(* after them, so one index selects either. Values and names are not       *)
(* modelled: a custom sampler is its type and how many items it has. Where *)
(* the code leaves its buffers or follows a null pointer the program is    *)
(* "broken" and takes no further step.                                     *)
(***************************************************************************)
EXTENDS Integers, Sequences, SequencesExt, FiniteSetsExt

CONSTANTS
    Base,  \* the built-in fields (27)
    MaxCustom,  \* MAX_CUSTOM_SAMPLERS
    MaxItems,  \* MAX_LIST_ITEMS and MAX_DICT_ITEMS
    MaxInput,  \* sizeof(sampler_input) - 1
    MaxText,  \* what a text sampler may be given (255)
    Rows, ListRows, DictRows,  \* what the dialog and its two editors show
    Types  \* types of samplers: a subset of AllTypes

AllTypes == {"number", "string", "bool", "list", "dict"}

ASSUME SamplerAssumption ==
    /\ {Base, MaxCustom, MaxItems, MaxInput, MaxText, Rows, ListRows, DictRows}
        \subseteq Nat \ {0}
    /\ MaxInput <= MaxText
    /\ Types \subseteq AllTypes

VARIABLES
    dialog,  \* "closed", "settings", "adding", "import" or "broken"
    custom,  \* sampler.custom
    readable,  \* sampler_load can read what was last saved
    field,  \* sampler_field_index
    scroll,  \* sampler_scroll
    input,  \* strlen(sampler_input)
    cursor,  \* sampler_input_cursor
    editing,  \* sampler_editing_list, sampler_editing_dict or neither
    item,  \* sampler_list_index or sampler_dict_index
    itemScroll  \* sampler_list_scroll or sampler_dict_scroll

samplerVars ==
    <<dialog, custom, readable, field, scroll, input, cursor, editing, item, itemScroll>>

Sampler == [type : Types, list : 0 .. MaxItems, dict : 0 .. MaxItems]
Fields == Base + Len(custom)

TypeOK ==
    /\ dialog \in {"closed", "settings", "adding", "import", "broken"}
    /\ custom \in Seq(Sampler) /\ Len(custom) <= MaxCustom
    /\ readable \in BOOLEAN
    /\ field \in 0 .. Base + MaxCustom - 1 /\ scroll \in 0 .. Base + MaxCustom
    /\ input \in 0 .. MaxText /\ cursor \in 0 .. MaxText + 1
    /\ editing \in {"none", "list", "dict"}
    /\ item \in 0 .. MaxItems /\ itemScroll \in 0 .. MaxItems
-----------------------------------------------------------------------------
\* sampler_load of what sampler_save wrote. A truth value is written as a word
\* and read as a number, which does not advance; the key that is then looked
\* for there is not one, and the null it gives is followed.
Loads(saved) == \A i \in DOMAIN saved : saved[i].type # "bool"

\* sampler_add_custom: refused when the table is full
Add(table, type) ==
    IF Len(table) >= MaxCustom THEN table
    ELSE Append(table, [type |-> type, list |-> 0, dict |-> 0])

\* Slip: the first line that is drawn is taken as it is
RawStart(first, total, rows) == first

\* The first line that a drawing shows: no more empty lines than needed
DrawStart(first, total, rows) == Max({0, Min({first, total - rows})})

\* Moving down scrolls until the line is inside.
ScrolledTo(first, line, rows) ==
    IF line >= first + rows THEN line - rows + 1 ELSE first

OnCustom == field >= Base
Current == custom[field - Base + 1]
IsText == OnCustom /\ Current.type \in {"string", "list", "dict"}
Items(s) == IF editing = "list" THEN s.list ELSE s.dict

\* What draw_sampler_settings draws of the fields, of the items of a list and
\* of the entries of a dictionary, the line that adds one included
DrawnFields ==
    LET start == DrawStart(scroll, Fields, Rows)
    IN  start .. Min({start + Rows, Fields}) - 1

DrawnItems ==
    LET start == DrawStart(itemScroll, Current.list, ListRows)
    IN  start .. Min({start + ListRows - 1, Current.list})

DrawnEntries ==
    LET start == DrawStart(itemScroll, Current.dict, DictRows)
    IN  start .. Min({start + DictRows - 1, Current.dict})
-----------------------------------------------------------------------------
Init ==
    /\ dialog = "closed" /\ custom = <<>> /\ readable = TRUE
    /\ field = 0 /\ scroll = 0 /\ input = 0 /\ cursor = 0
    /\ editing = "none" /\ item = 0 /\ itemScroll = 0

\* modal_open_sampler_settings; neither editor is closed by it. Also what
\* follows it in the two keys that leave the import: the table of before.
Opened(table) ==
    /\ dialog' = IF readable THEN "settings" ELSE "broken"
    /\ custom' = table /\ field' = 0 /\ scroll' = 0 /\ input' = 0 /\ cursor' = 0
    /\ UNCHANGED <<readable, editing, item, itemScroll>>

\* The file may be of any table that can be read: of a sampler only the items
\* that its type has are in it.
Readable == {t \in BoundedSeq(Sampler, MaxCustom) :
    Loads(t) /\ \A i \in DOMAIN t : /\ t[i].type # "list" => t[i].list = 0
                                  /\ t[i].type # "dict" => t[i].dict = 0}

Open == dialog = "closed" /\ \E table \in Readable : Opened(table)

\* Every request loads the settings as well.
Send ==
    /\ dialog = "closed" /\ ~readable
    /\ dialog' = "broken"
    /\ UNCHANGED <<custom, readable, field, scroll, input, cursor, editing, item, itemScroll>>

\* Opening sets all of these again, but not whether an editor is open.
Closed ==
    /\ dialog' = "closed"
    /\ custom' = <<>> /\ field' = 0 /\ scroll' = 0 /\ input' = 0 /\ cursor' = 0
    /\ item' = 0 /\ itemScroll' = 0
    /\ UNCHANGED editing

\* A resize closes any dialog, in the middle of whatever it does.
Resize == dialog \notin {"closed", "broken"} /\ Closed /\ UNCHANGED readable

InSettings == dialog = "settings" /\ editing = "none"
Escape == InSettings /\ Closed /\ UNCHANGED readable
Save == InSettings /\ Closed /\ readable' = Loads(custom)
-----------------------------------------------------------------------------
StartAdding ==
    /\ InSettings /\ dialog' = "adding"
    /\ UNCHANGED <<custom, readable, field, scroll, input, cursor, editing, item, itemScroll>>

\* Escape, or Enter with a name or value missing
StopAdding ==
    /\ dialog = "adding" /\ dialog' = "settings"
    /\ UNCHANGED <<custom, readable, field, scroll, input, cursor, editing, item, itemScroll>>

\* Enter in the form. The last sampler is selected, and its editor opened,
\* whether or not it is the one that was asked for.
ConfirmAdding(type) ==
    /\ dialog = "adding" /\ dialog' = "settings"
    /\ custom' = Add(custom, type)
    /\ field' = Base + Len(custom') - 1
    /\ scroll' = ScrolledTo(scroll, field', Rows)
    /\ editing' = IF type \in {"list", "dict"} THEN type ELSE editing
    /\ item' = (IF type \in {"list", "dict"} THEN 0 ELSE item)
    /\ itemScroll' = (IF type \in {"list", "dict"} THEN 0 ELSE itemScroll)
    /\ UNCHANGED <<readable, input, cursor>>

StartImport ==
    /\ InSettings /\ dialog' = "import"
    /\ UNCHANGED <<custom, readable, field, scroll, input, cursor, editing, item, itemScroll>>

CancelImport == dialog = "import" /\ Opened(custom)

\* Slip: the items go to the first sampler
ImportedFirst(table, type, n) ==
    LET added == Add(table, type)
    IN  IF type = "list" THEN [added EXCEPT ![1].list = n]
        ELSE IF type = "dict" THEN [added EXCEPT ![1].dict = n]
        ELSE added

\* One line of the import: a list or a dictionary is added empty and the last
\* sampler, whichever it is, gets the items.
Imported(table, type, n) ==
    LET added == Add(table, type)
    IN  IF type = "list" THEN [added EXCEPT ![Len(added)].list = n]
        ELSE IF type = "dict" THEN [added EXCEPT ![Len(added)].dict = n]
        ELSE added

\* Tab: all lines that can be read, here one or two
Import ==
    /\ dialog = "import"
    /\ \E t \in Types, n \in 1 .. MaxItems :
        \/ Opened(Imported(custom, t, n))
        \/ \E u \in Types, k \in 1 .. MaxItems :
            Opened(Imported(Imported(custom, t, n), u, k))
-----------------------------------------------------------------------------
\* Up, down and Enter take what was typed, and only then clear it.
Taken ==
    /\ input' = 0
    /\ cursor' = IF input > 0 THEN 0 ELSE cursor

KeyUp ==
    /\ InSettings /\ Taken
    /\ field' = Max({0, field - 1})
    /\ scroll' = IF field > 0 THEN Min({scroll, field'}) ELSE scroll
    /\ UNCHANGED <<dialog, custom, readable, editing, item, itemScroll>>

KeyDown ==
    /\ InSettings /\ Taken
    /\ field' = Min({Fields - 1, field + 1})
    /\ scroll' = IF field < Fields - 1 THEN ScrolledTo(scroll, field', Rows) ELSE scroll
    /\ UNCHANGED <<dialog, custom, readable, editing, item, itemScroll>>

\* Left and right change the value; the text is cleared, its cursor stays.
Step ==
    /\ InSettings
    /\ input' = 0
    /\ UNCHANGED <<dialog, custom, readable, field, scroll, cursor, editing, item, itemScroll>>

\* d: the custom sampler that is selected
RemoveCustom ==
    /\ InSettings /\ OnCustom
    /\ custom' = RemoveAt(custom, field - Base + 1)
    /\ field' = IF field >= Base + Len(custom') THEN field - 1 ELSE field
    /\ UNCHANGED <<dialog, readable, scroll, input, cursor, editing, item, itemScroll>>

\* Enter without text opens the editor of a list or dictionary; with text it
\* replaces the items of a list, and those of the list of a dictionary.
EnterEditor ==
    /\ InSettings /\ OnCustom /\ input = 0
    /\ Current.type \in {"list", "dict"}
    /\ editing' = Current.type /\ item' = 0 /\ itemScroll' = 0
    /\ UNCHANGED <<dialog, custom, readable, field, scroll, input, cursor>>

EnterValue ==
    /\ InSettings /\ input > 0 /\ Taken
    /\ IF OnCustom /\ Current.type \in {"list", "dict"}
       THEN \E n \in 0 .. Min({MaxItems, input}) :
                custom' = [custom EXCEPT ![field - Base + 1].list = n]
       ELSE UNCHANGED custom
    /\ UNCHANGED <<dialog, readable, field, scroll, editing, item, itemScroll>>

\* A character goes in at the cursor. Past a text that was cleared it goes
\* behind the end, unseen; further out the length to move is negative. A text
\* sampler takes more than the buffer holds.
Type ==
    /\ InSettings
    /\ input < (IF IsText THEN MaxText ELSE MaxInput)
    /\ IF cursor > input + 1 \/ input >= MaxInput
       THEN dialog' = "broken" /\ UNCHANGED <<input, cursor>>
       ELSE /\ input' = IF cursor > input THEN input ELSE input + 1
            /\ cursor' = cursor + 1
            /\ UNCHANGED dialog
    /\ UNCHANGED <<custom, readable, field, scroll, editing, item, itemScroll>>

Backspace ==
    /\ InSettings /\ cursor > 0
    /\ IF cursor > input + 1
       THEN dialog' = "broken" /\ UNCHANGED <<input, cursor>>
       ELSE /\ input' = IF cursor > input THEN input ELSE input - 1
            /\ cursor' = cursor - 1
            /\ UNCHANGED dialog
    /\ UNCHANGED <<custom, readable, field, scroll, editing, item, itemScroll>>
-----------------------------------------------------------------------------
\* The two editors. A key finds them open over a built-in field after a resize
\* closed the dialog: it closes them and does nothing else.
InEditor == dialog = "settings" /\ editing # "none" /\ OnCustom

LeaveEditor ==
    /\ dialog = "settings" /\ editing # "none"
    /\ editing' = "none" /\ item' = 0 /\ itemScroll' = 0
    /\ UNCHANGED <<dialog, custom, readable, field, scroll, input, cursor>>

ItemUp ==
    /\ InEditor
    /\ item' = Max({0, item - 1})
    /\ itemScroll' = Min({itemScroll, item'})
    /\ UNCHANGED <<dialog, custom, readable, field, scroll, input, cursor, editing>>

EditorRows == IF editing = "list" THEN ListRows ELSE DictRows

\* Slip: one line past the one that adds an item
ItemDownPast ==
    /\ InEditor
    /\ item' = Min({Items(Current) + 1, item + 1})
    /\ itemScroll' = ScrolledTo(itemScroll, item', EditorRows)
    /\ UNCHANGED <<dialog, custom, readable, field, scroll, input, cursor, editing>>

ItemDown ==
    /\ InEditor
    /\ item' = Min({Items(Current), item + 1})
    /\ itemScroll' = ScrolledTo(itemScroll, item', EditorRows)
    /\ UNCHANGED <<dialog, custom, readable, field, scroll, input, cursor, editing>>

\* Enter on the line below the last: a list gets an empty item and stays ...
AddListItem ==
    /\ InEditor /\ editing = "list" /\ item = Items(Current) /\ item < MaxItems
    /\ custom' = [custom EXCEPT ![field - Base + 1].list = @ + 1]
    /\ UNCHANGED <<dialog, readable, field, scroll, input, cursor, editing, item, itemScroll>>

\* ... a dictionary its new entry, when the small form for it is not cancelled,
\* and goes to the line below it.
AddEntry ==
    /\ InEditor /\ editing = "dict" /\ item = Items(Current) /\ item < MaxItems
    /\ custom' = [custom EXCEPT ![field - Base + 1].dict = @ + 1]
    /\ item' = item + 1
    /\ UNCHANGED <<dialog, readable, field, scroll, input, cursor, editing, itemScroll>>

RemoveItem ==
    /\ InEditor /\ item < Items(Current)
    /\ custom' = IF editing = "list"
                 THEN [custom EXCEPT ![field - Base + 1].list = @ - 1]
                 ELSE [custom EXCEPT ![field - Base + 1].dict = @ - 1]
    /\ item' = Min({item, Max({0, Items(Current) - 2})})
    /\ UNCHANGED <<dialog, readable, field, scroll, input, cursor, editing, itemScroll>>
-----------------------------------------------------------------------------
Next ==
    \/ Open \/ Send \/ Resize \/ Escape \/ Save
    \/ StartAdding \/ StopAdding \/ \E t \in Types : ConfirmAdding(t)
    \/ StartImport \/ CancelImport \/ Import
    \/ KeyUp \/ KeyDown \/ Step \/ RemoveCustom \/ EnterEditor \/ EnterValue
    \/ Type \/ Backspace
    \/ LeaveEditor \/ ItemUp \/ ItemDown
    \/ AddListItem \/ AddEntry \/ RemoveItem

Spec == Init /\ [][Next]_samplerVars
-----------------------------------------------------------------------------
\* The selected field is one of those drawn, after any moves, additions and
\* removals; and in the editor of a list the selected item is, but for the line
\* that adds one, which a full screen of items hides. In a dictionary a new
\* entry moves the selection and not the scroll, so that up from there may
\* select one that is not drawn: below those that are, never above.
SelectedShown ==
    dialog \in {"settings", "adding"} =>
        /\ field \in DrawnFields
        /\ InEditor /\ editing = "list" => item \in DrawnItems \/ item = Current.list
        /\ InEditor /\ editing = "dict" => \E e \in DrawnEntries : e <= item

\* An editor edits a sampler of its own type and an item that there is, or the
\* line below. Only a full table, which refuses the sampler that was asked
\* for, leaves the editor open over another.
EditorFits ==
    InEditor =>
        /\ Current.type = editing \/ Len(custom) = MaxCustom
        /\ item <= Items(Current)

\* An import adds to the samplers there are. Only when the table is full are
\* the items of one it refuses written over the last.
ImportAdds ==
    [][dialog = "import" /\ dialog' = "settings" =>
        \/ IsPrefix(custom, custom')
        \/ /\ Len(custom) = MaxCustom /\ Len(custom') = MaxCustom
           /\ IsPrefix(Front(custom), custom')]_samplerVars

\* Settings that were saved can be loaded again.
SavedIsReadable == readable
=============================================================================
