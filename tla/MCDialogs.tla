----------------------------- MODULE MCDialogs -----------------------------
(***************************************************************************)
(* The dialogs for TLC. Only one dialog is open at a time and none changes *)
(* what another keeps, so each behaviour is one of a single module; the    *)
(* variables of the others rest at their first values.                     *)
(***************************************************************************)
EXTENDS SamplerDialog

CONSTANTS TextMax, TextWidth, TextHeight, ModelRows, Names, Toks, Personas, MaxChats, Greetings

ASSUME DialogsAssumption ==
    /\ {TextMax, TextWidth, TextHeight, ModelRows} \subseteq Nat \ {0}
    /\ {MaxChats, Greetings} \subseteq Nat

VARIABLES
    module,
    kind, buf, place, top, loaded, counted,
    models, active, stored, lost, form, focus, fields, target, selection, first, tokenizer,
    running, question, button, row, firstRow, chats, greeting,
    persona, typed, personaFile, dontAsk, skip, skipFile

Text == INSTANCE TextEdit WITH MaxText <- TextMax, cursor <- place, scroll <- top
Models == INSTANCE ModelDialogs WITH
    dialog <- form, focus <- focus, form <- fields, MaxModels <- MaxItems, Rows <- ModelRows
Small == INSTANCE Forms WITH
    dialog <- question, focus <- button, selection <- row, first <- firstRow

textVars == <<kind, buf, place, top, loaded, counted>>
listVars == <<models, active, stored, lost, form, focus, fields, target, selection,
              first, tokenizer>>
smallVars == <<running, question, button, row, firstRow, chats, greeting, persona,
               typed, personaFile, dontAsk, skip, skipFile>>
dialogVars == <<module, samplerVars, textVars, listVars, smallVars>>

DialogsInit ==
    /\ module \in {"sampler", "text", "models", "small"}
    /\ Init /\ Models!Init /\ Small!Init
    /\ Text!Init /\ (module # "text" => kind = "field")

DialogsNext ==
    /\ UNCHANGED module
    /\ \/ /\ module = "sampler" /\ Next
          /\ UNCHANGED <<textVars, listVars, smallVars>>
       \/ /\ module = "text" /\ Text!Next
          /\ UNCHANGED <<samplerVars, listVars, smallVars>>
       \/ /\ module = "models" /\ Models!Next
          /\ UNCHANGED <<samplerVars, textVars, smallVars>>
       \/ /\ module = "small" /\ Small!Next
          /\ UNCHANGED <<samplerVars, textVars, listVars>>

DialogsSpec == DialogsInit /\ [][DialogsNext]_dialogVars

\* What the next key is for is drawn: the selected field or item of the sampler
\* settings, and the line with the cursor of a text.
FocusShown == SelectedShown /\ Text!CursorInText /\ Text!CursorShown

\* The arrow keys of the text editors go by the lines that are drawn.
LineMoves == Text!LineMoves

\* Every index, scroll and focus is of something there is, an open editor is on
\* an item of its sampler, and the file of models has the list on the screen.
IndicesValid ==
    /\ TypeOK /\ EditorFits /\ Models!TypeOK /\ Small!EnterIsForSomething
    /\ Models!IndicesValid /\ Models!ModelsSaved

\* The model in use stays the one in use when the list changes around it.
ActiveStays == Models!ActiveStays
=============================================================================
