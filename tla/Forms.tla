-------------------------------- MODULE Forms --------------------------------
(***************************************************************************)
(* The smaller dialogs of src/ui/modal.c: the two lists, of saved chats    *)
(* and of a card's greetings, and the questions and forms with buttons     *)
(* among which Tab and the arrows move. What the dialogs do to chats is in *)
(* ChatStore; here is the way to it: which row or button a key is for.     *)
(* With them, the two small files that they write: the persona and the     *)
(* settings. A write may fail and nobody looks.                            *)
(***************************************************************************)
EXTENDS Integers, FiniteSetsExt

CONSTANTS
    Personas,  \* what the persona form may hold
    MaxChats,  \* chats that are saved when the list opens
    Greetings,  \* greetings of the card that is loaded
    Rows  \* what a list shows

VARIABLES
    running,
    dialog,
    focus,  \* field_index
    selection, first,  \* list_selection or greeting_selection, and list_scroll
    chats,  \* chat_list.count
    greeting,  \* the greeting the chat starts with, none is 0
    persona, typed, personaFile,  \* in use, in the form, in persona.json
    dontAsk,  \* exit_dont_ask
    skip, skipFile  \* skip_exit_confirm, in use and in settings.json

formVars == <<running, dialog, focus, selection, first, chats, greeting, persona,
              typed, personaFile, dontAsk, skip, skipFile>>

\* The fields and buttons of each dialog that has some
Buttons(kind) ==
    CASE kind = "save" -> 3 [] kind = "overwrite" -> 2 [] kind = "exit" -> 3
      [] kind = "persona" -> 4 [] kind = "delete" -> 2 [] OTHER -> 0
Lists == {"chats", "greetings"}
Dialogs == {"save", "overwrite", "exit", "persona", "delete", "info", "message"} \union Lists
RowsIn(kind) == IF kind = "chats" THEN chats ELSE Greetings

Init ==
    /\ running = TRUE /\ dialog = "none" /\ focus = 0 /\ selection = 1 /\ first = 1
    /\ chats = 0 /\ greeting = 0
    /\ persona = "User" /\ typed = "User" /\ personaFile = "User"
    /\ dontAsk = FALSE /\ skip = FALSE /\ skipFile = FALSE

\* What a dialog leaves behind
Store == <<persona, personaFile, skip, skipFile>>
Show(kind, at) ==
    /\ dialog' = kind /\ focus' = at /\ selection' = 1 /\ first' = 1
    /\ typed' = IF kind = "persona" THEN persona ELSE "User"
    /\ dontAsk' = FALSE
Close == Show("none", 0) /\ chats' = 0 /\ UNCHANGED Store

Open(kind) ==
    /\ running /\ dialog = "none"
    /\ kind \in Dialogs \ {"exit", "overwrite", "chats"}
    /\ Show(kind, 0)
    /\ UNCHANGED <<running, chats, greeting, Store>>

OpenChats ==
    /\ running /\ dialog = "none"
    /\ Show("chats", 0) /\ chats' \in 0 .. MaxChats
    /\ UNCHANGED <<running, greeting, Store>>

\* Escape with no dialog open: the question, on Yes, or the end
Quit ==
    /\ running /\ dialog = "none"
    /\ IF skip THEN running' = FALSE /\ UNCHANGED dialog /\ UNCHANGED <<focus, selection, first, typed, dontAsk>>
       ELSE Show("exit", 1) /\ UNCHANGED running
    /\ UNCHANGED <<chats, greeting, Store>>

\* Escape, or Enter on a button that cancels
Cancel ==
    /\ running /\ dialog # "none" /\ Close
    /\ UNCHANGED <<running, greeting>>

\* Tab and the arrows go round the buttons.
Move(by) ==
    /\ Buttons(dialog) # 0
    /\ focus' = (focus + by + Buttons(dialog)) % Buttons(dialog)
    /\ UNCHANGED <<running, dialog, selection, first, chats, greeting, typed, dontAsk, Store>>
MoveOn == Move(1)
MoveBack == Move(-1)

Select(to) ==
    /\ dialog \in Lists /\ to \in 1 .. RowsIn(dialog)
    /\ selection' = to
    /\ first' = IF to < selection THEN Min({first, to})
                ELSE IF to >= first + Rows THEN to - Rows + 1 ELSE first
    /\ UNCHANGED <<running, dialog, focus, chats, greeting, typed, dontAsk, Store>>
SelectUp == Select(selection - 1)
SelectDown == Select(selection + 1)

\* Enter on a chat; one that cannot be read is a message.
LoadChat ==
    /\ dialog = "chats" /\ selection <= chats
    /\ \E kind \in {"none", "message"} : Show(kind, 0) /\ chats' = 0
    /\ UNCHANGED <<running, greeting, Store>>

\* d: the list is read again, with the chat if its file could not be removed;
\* the selection is kept inside, the scroll as it is.
DeleteChat ==
    /\ dialog = "chats" /\ chats > 0
    /\ \E n \in {chats - 1, chats} :
        IF n = 0 THEN Close
        ELSE /\ chats' = n
             /\ selection' = Min({selection, n})
             /\ UNCHANGED <<dialog, focus, first, typed, dontAsk, Store>>
    /\ UNCHANGED <<running, greeting>>

UseGreeting ==
    /\ dialog = "greetings" /\ greeting' = selection /\ Close
    /\ UNCHANGED running

\* Enter in the save form: another chat with the title is asked about, a write
\* that fails is a message. Enter on "overwrite": the same without the question.
Save ==
    /\ dialog = "save" /\ focus < 2
    /\ \E kind \in {"overwrite", "message", "none"} : Show(kind, 0)
    /\ UNCHANGED <<running, chats, greeting, Store>>
Overwrite ==
    /\ dialog = "overwrite" /\ focus = 0
    /\ \E kind \in {"message", "none"} : Show(kind, 0)
    /\ UNCHANGED <<running, chats, greeting, Store>>

\* Space or Enter on the box of the question
ToggleDontAsk ==
    /\ dialog = "exit" /\ focus = 0 /\ dontAsk' = ~dontAsk
    /\ UNCHANGED <<running, dialog, focus, selection, first, chats, greeting, typed, Store>>

\* Enter on Yes, or y anywhere in it
Exit ==
    /\ dialog = "exit"
    /\ running' = FALSE
    /\ skip' = (skip \/ dontAsk)
    /\ skipFile' \in IF dontAsk THEN {skipFile, TRUE} ELSE {skipFile}
    /\ Show("none", 0)
    /\ UNCHANGED <<chats, greeting, persona, personaFile>>

TypePersona ==
    /\ dialog = "persona" /\ focus < 2 /\ typed' \in Personas
    /\ UNCHANGED <<running, dialog, focus, selection, first, chats, greeting, dontAsk, Store>>

SavePersona ==
    /\ dialog = "persona" /\ focus = 2
    /\ persona' = typed /\ personaFile' \in {personaFile, typed}
    /\ Show("none", 0)
    /\ UNCHANGED <<running, chats, greeting, skip, skipFile>>

Start ==
    /\ ~running /\ running' = TRUE
    /\ persona' = personaFile /\ skip' = skipFile
    /\ dialog' = "none" /\ focus' = 0 /\ selection' = 1 /\ first' = 1
    /\ typed' = "User" /\ dontAsk' = FALSE /\ chats' = 0 /\ greeting' = 0
    /\ UNCHANGED <<personaFile, skipFile>>

\* modal_handle_key, dialog by dialog
MessageKey == dialog = "message" /\ Cancel
InfoKey == dialog = "info" /\ Cancel
ChatListKey ==
    dialog = "chats" /\ (SelectUp \/ SelectDown \/ LoadChat \/ DeleteChat \/ Cancel)
GreetingKey == dialog = "greetings" /\ (SelectUp \/ SelectDown \/ UseGreeting \/ Cancel)
SaveKey == dialog = "save" /\ (MoveOn \/ MoveBack \/ Save \/ Cancel)
OverwriteKey == dialog = "overwrite" /\ (MoveOn \/ Overwrite \/ Cancel)
ExitKey == dialog = "exit" /\ (MoveOn \/ MoveBack \/ ToggleDontAsk \/ Exit \/ Cancel)
PersonaKey == dialog = "persona" /\ (MoveOn \/ MoveBack \/ TypePersona \/ SavePersona \/ Cancel)
DeleteKey == dialog = "delete" /\ (MoveOn \/ Cancel)

\* KEY_RESIZE closes whatever is open.
Resize == Cancel

Next ==
    \/ \E kind \in Dialogs : Open(kind)
    \/ OpenChats \/ Quit \/ Start \/ Resize
    \/ MessageKey \/ InfoKey \/ ChatListKey \/ GreetingKey
    \/ SaveKey \/ OverwriteKey \/ ExitKey \/ PersonaKey \/ DeleteKey

Spec == Init /\ [][Next]_formVars
-----------------------------------------------------------------------------
\* Enter is always for a button that is drawn and a row that is there: the
\* focus is on one of the dialog's own buttons, the selection on a row of its
\* list, and in the list of greetings, which loses none, on a row that is shown.
EnterIsForSomething ==
    /\ Buttons(dialog) # 0 => focus \in 0 .. Buttons(dialog) - 1
    /\ dialog \in Lists => selection \in 1 .. Max({1, RowsIn(dialog)})
    /\ dialog = "greetings" => selection \in first .. first + Rows - 1
=============================================================================
