---------------------------- MODULE ModelDialogs ----------------------------
(***************************************************************************)
(* The list of models of src/core/config.c, its file, the three dialogs of *)
(* src/ui/modal.c that show and change it, the commands of src/main.c that *)
(* do so, and the tokenizer that goes with the model in use.               *)
(*                                                                         *)
(* A model is a name, which stands for all its text, and its tokenizer; of *)
(* a form there is also whether its other required fields, URL and model,  *)
(* are filled. A tokenizer other than "api" is loaded from files, which may*)
(* fail. Indices count from 1 and 0 is none. Writing the file of models may*)
(* fail and nobody looks.                                                  *)
(***************************************************************************)
EXTENDS Integers, Sequences, SequencesExt, FiniteSetsExt

CONSTANTS
    Names,
    Toks,  \* the tokenizers besides "api"
    MaxModels,  \* MAX_MODELS
    Rows  \* what the list shows

VARIABLES
    models, active,  \* mf->models, mf->active_index
    stored,  \* what models.json has of both
    lost,  \* the last write of it failed
    dialog,  \* "none", "set", "edit", "list" or "message"
    focus,  \* field_index of a form
    form,  \* fields, api_type_selection, tokenizer_selection
    target,  \* edit_model_index
    selection, first,  \* list_selection, list_scroll
    tokenizer  \* ChatTokenizer

modelVars == <<models, active, stored, lost, dialog, focus, form, target,
               selection, first, tokenizer>>
listVars == <<models, active, stored, lost>>
viewVars == <<focus, form, target, selection, first>>

TokKinds == Toks \union {"api"}
Model == [name : Names, tok : TokKinds]
NoForm == [name |-> "none", rest |-> FALSE, tok |-> "api"]

TypeOK ==
    /\ models \in Seq(Model) /\ Len(models) <= MaxModels
    /\ active \in 0 .. MaxModels
    /\ stored.models \in Seq(Model) /\ stored.active \in 0 .. MaxModels
    /\ lost \in BOOLEAN
    /\ dialog \in {"none", "set", "edit", "list", "message"}
    /\ focus \in 0 .. 8
    /\ form \in [name : Names \union {"none"}, rest : BOOLEAN, tok : TokKinds]
    /\ target \in 0 .. MaxModels /\ selection \in 0 .. MaxModels
    /\ first \in 1 .. MaxModels
    /\ tokenizer \in [selection : TokKinds, loaded : BOOLEAN, instance : BOOLEAN]
-----------------------------------------------------------------------------
\* config_save_models: the result is not used.
Saves(m, a) ==
    \/ stored' = [models |-> m, active |-> a] /\ lost' = FALSE
    \/ lost' = TRUE /\ UNCHANGED stored

Changed(m, a) == models' = m /\ active' = a /\ Saves(m, a)

\* config_get_active
Active == IF active \in 1 .. Len(models) THEN active ELSE 0

\* Slip: the models after the one that goes are forgotten
RemovedAsIs(i) ==
    [models |-> RemoveAt(models, i), active |-> IF active = i THEN 0 ELSE active]

\* config_remove_model
Removed(i) ==
    [models |-> RemoveAt(models, i),
     active |-> IF active = i THEN 0 ELSE IF active > i THEN active - 1 ELSE active]

\* chat_tokenizer_set. The old one is given back, and marked so, only if there
\* is an instance; the API needs none.
SetTokenizer(kind) ==
    LET kept == tokenizer.loaded /\ ~tokenizer.instance
    IN  IF kind = "api"
        THEN tokenizer' = [selection |-> kind, loaded |-> TRUE, instance |-> FALSE]
        ELSE \/ tokenizer' = [selection |-> kind, loaded |-> TRUE, instance |-> TRUE]
             \/ tokenizer' = [selection |-> kind, loaded |-> kept, instance |-> FALSE]

\* update_tokenizer_from_model
UpdateTokenizer ==
    IF Active = 0 THEN UNCHANGED tokenizer ELSE SetTokenizer(models[Active].tok)
-----------------------------------------------------------------------------
\* A start of the program, on the list that the file has
Start(file) ==
    /\ models = file.models /\ active = file.active
    /\ stored = file /\ lost = FALSE
    /\ dialog = "none" /\ focus = 0 /\ form = NoForm /\ target = 0
    /\ selection = 0 /\ first = 1

NoTokenizer == [selection |-> "api", loaded |-> FALSE, instance |-> FALSE]

Init == Start([models |-> <<>>, active |-> 0]) /\ tokenizer = NoTokenizer

\* It ends at any time; what it had and the file has not is gone.
Restart ==
    /\ models' = stored.models /\ active' = stored.active /\ lost' = FALSE
    /\ dialog' = "none" /\ focus' = 0 /\ form' = NoForm /\ target' = 0
    /\ selection' = 0 /\ first' = 1
    /\ IF active' = 0 THEN tokenizer' = NoTokenizer
       ELSE LET kind == models'[active'].tok
            IN  \E ok \in (IF kind = "api" THEN {TRUE} ELSE BOOLEAN) :
                    tokenizer' = [selection |-> kind, loaded |-> ok,
                                  instance |-> ok /\ kind # "api"]
    /\ UNCHANGED stored
-----------------------------------------------------------------------------
Shut == focus' = 0 /\ form' = NoForm /\ target' = 0 /\ selection' = 0 /\ first' = 1
Dialog(kind) == dialog' = kind /\ Shut

\* A dialog that closes. Only what closes a form to no dialog, not even a
\* message, updates the tokenizer.
Close ==
    /\ Dialog("none")
    /\ IF dialog \in {"set", "edit"} THEN UpdateTokenizer ELSE UNCHANGED tokenizer
    /\ UNCHANGED listVars

\* modal_open_model_list: on the model in use, from the top
ShowList ==
    /\ dialog' = "list"
    /\ selection' = Max({1, active}) /\ first' = 1
    /\ focus' = 0 /\ form' = NoForm /\ target' = 0
    /\ UNCHANGED <<models, active, stored, lost, tokenizer>>

OpenList == dialog = "none" /\ ShowList

\* modal_open_model_set
OpenSet ==
    /\ dialog = "none" /\ Dialog("set")
    /\ UNCHANGED <<models, active, stored, lost, tokenizer>>

\* modal_open_model_edit, key e
OpenEdit ==
    /\ dialog = "list" /\ models # <<>>
    /\ selection \in 1 .. Len(models)
    /\ dialog' = "edit" /\ focus' = 0 /\ target' = selection
    /\ selection' = 0 /\ first' = 1
    /\ form' = [name |-> models[target'].name, rest |-> TRUE, tok |-> models[target'].tok]
    /\ UNCHANGED <<models, active, stored, lost, tokenizer>>

Focus(to) ==
    /\ focus' = to % 9
    /\ UNCHANGED <<models, active, stored, lost, dialog, form, target, selection,
                   first, tokenizer>>
NextField == Focus(focus + 1)
PrevField == Focus(focus + 8)

Fill(f) ==
    /\ form' = f
    /\ UNCHANGED <<models, active, stored, lost, dialog, focus, target, selection,
                   first, tokenizer>>

\* Left and right in field 1; the API of field 0 gives its own URL to a form
\* that has none or another's; field 5 may offer the models of the API.
PickTokenizer == focus = 1 /\ \E kind \in TokKinds : Fill([form EXCEPT !.tok = kind])
PickApi == focus = 0 /\ \E b \in {form.rest, TRUE} : Fill([form EXCEPT !.rest = b])
PickModel == focus = 5 /\ \E b \in {form.rest, TRUE} : Fill([form EXCEPT !.rest = b])

\* Typing and deleting in fields 2, 3 and 5
FillName == focus = 2 /\ \E n \in Names \union {"none"} : Fill([form EXCEPT !.name = n])
FillRest == focus \in {3, 5} /\ \E b \in BOOLEAN : Fill([form EXCEPT !.rest = b])

\* f in field 5: without an answer the message takes the place of the form.
FetchFails ==
    /\ focus = 5
    /\ Dialog("message")
    /\ UNCHANGED <<models, active, stored, lost, tokenizer>>

Filled == form.name # "none" /\ form.rest
Made == [name |-> form.name, tok |-> form.tok]

\* Enter on Save. The message takes the place of the form, whatever it says.
SaveIncomplete ==
    /\ focus = 7 /\ ~Filled
    /\ Dialog("message")
    /\ UNCHANGED <<models, active, stored, lost, tokenizer>>

\* Slip: nothing is written
SaveNewUnwritten ==
    /\ dialog = "set" /\ focus = 7 /\ Filled
    /\ Dialog("message")
    /\ models' = (IF Len(models) < MaxModels THEN Append(models, Made) ELSE models)
    /\ active' = (IF Len(models) < MaxModels THEN Max({1, active}) ELSE active)
    /\ UNCHANGED <<stored, lost, tokenizer>>

SaveNew ==
    /\ dialog = "set" /\ focus = 7 /\ Filled
    /\ Dialog("message")
    /\ IF Len(models) < MaxModels
       THEN Changed(Append(models, Made), Max({1, active}))
       ELSE UNCHANGED <<models, active, stored, lost>>
    /\ UNCHANGED tokenizer

SaveEdited ==
    /\ dialog = "edit" /\ focus = 7 /\ Filled
    /\ Dialog("message")
    /\ Changed([models EXCEPT ![target] = Made], active)
    /\ UNCHANGED tokenizer

\* Escape, or Enter on Cancel
CancelSet == dialog = "set" /\ Close
CancelEdit == dialog = "edit" /\ ShowList

\* The keys of the two forms
FormKey ==
    \/ NextField \/ PrevField \/ PickApi \/ PickTokenizer \/ PickModel
    \/ FillName \/ FillRest \/ FetchFails \/ SaveIncomplete
SetKey == dialog = "set" /\ (FormKey \/ SaveNew \/ CancelSet)
EditKey == dialog = "edit" /\ (FormKey \/ SaveEdited \/ CancelEdit)

Leave == dialog \in {"list", "message"} /\ Close

\* A resize closes the dialog without a look at what it was.
Resize ==
    /\ dialog # "none"
    /\ Dialog("none")
    /\ UNCHANGED <<models, active, stored, lost, tokenizer>>
-----------------------------------------------------------------------------
Select(to) ==
    /\ dialog = "list" /\ to \in 1 .. Len(models) /\ selection' = to
    /\ first' = IF to < selection THEN Min({first, to})
                ELSE IF to >= first + Rows THEN to - Rows + 1 ELSE first
    /\ UNCHANGED <<models, active, stored, lost, dialog, focus, form, target, tokenizer>>
SelectUp == Select(selection - 1)
SelectDown == Select(selection + 1)

\* Enter: config_set_active
Use ==
    /\ dialog = "list" /\ models # <<>>
    /\ Changed(models, IF selection <= Len(models) THEN selection ELSE active)
    /\ Dialog("none")
    /\ UNCHANGED tokenizer

\* Slip: the selection stays where the last model was
DeleteKeepsSelection ==
    /\ dialog = "list" /\ models # <<>>
    /\ Changed(Removed(selection).models, Removed(selection).active)
    /\ IF models' = <<>> THEN Dialog("none")
       ELSE UNCHANGED <<dialog, focus, form, target, selection, first>>
    /\ UNCHANGED tokenizer

\* d: the selection stays in the list, the scroll where it is.
Delete ==
    /\ dialog = "list" /\ models # <<>>
    /\ Changed(Removed(selection).models, Removed(selection).active)
    /\ IF models' = <<>> THEN Dialog("none")
       ELSE /\ selection' = Min({selection, Len(models')})
            /\ UNCHANGED <<dialog, focus, form, target, first>>
    /\ UNCHANGED tokenizer

\* /tokenizer <name>: an unknown name is the API's.
TokenizerCommand(kind) ==
    /\ dialog = "none" /\ Active # 0
    /\ Changed([models EXCEPT ![Active].tok = kind], active)
    /\ SetTokenizer(kind)
    /\ Dialog("message")

Next ==
    \/ Restart \/ Resize
    \/ OpenList \/ OpenSet \/ OpenEdit
    \/ SetKey \/ EditKey \/ Leave
    \/ SelectUp \/ SelectDown \/ Use \/ Delete
    \/ \E kind \in TokKinds : TokenizerCommand(kind)

Spec == Init /\ [][Next]_modelVars
-----------------------------------------------------------------------------
\* Each index into the list is of a model there is: the one in use, the one
\* that the list shows as selected, the one that a form edits.
IndicesValid ==
    /\ active \in 0 .. Len(models) /\ stored.active \in 0 .. Len(stored.models)
    /\ dialog = "edit" => target \in 1 .. Len(models)
    /\ dialog = "list" => selection \in 1 .. Max({1, Len(models)})

\* The model in use stays the one in use when another is deleted or one is
\* added, wherever in the list they are.
ActiveStays ==
    [][/\ active # 0 /\ dialog \in {"set", "list"} /\ dialog' # "none"
       /\ ~(dialog = "list" /\ selection = active)
       => active' \in DOMAIN models' /\ models'[active'] = models[active]]_modelVars

\* The file has every change of the list at once, but for a write that failed.
ModelsSaved == lost \/ stored = [models |-> models, active |-> active]
=============================================================================
