------------------------------ MODULE Session ------------------------------
(***************************************************************************)
(* The chat screen of src/main.c: one history, the selection, the modes    *)
(* that remember a place in it (move, in-place edit, delete dialog), the   *)
(* request to the model that rewrites it chunk by chunk, and the automatic *)
(* save after each change.                                                 *)
(*                                                                         *)
(* The program has one thread. The main loop handles one key at a time; a  *)
(* request runs inside the handler of the key that started it, and the     *)
(* callbacks of that request are the only code that runs until it ends. A  *)
(* step of this module is a key, a callback, or the end of a request       *)
(* followed by the rest of the handler that waited for it.                 *)
(***************************************************************************)
EXTENDS History

CONSTANTS MaxMsgs,     \* bound: messages in the history
          MaxReqs,     \* bound: requests in a behaviour
          MaxChunks,   \* bound: the text of one request, in units of it
          DisplayRoom, \* what display[] holds of it: 8186 bytes in the code
          MaxChanges   \* bound: changes of the history by keys and commands

ASSUME BoundsAssumption ==
    {MaxMsgs, MaxReqs, MaxChunks, DisplayRoom, MaxChanges} \subseteq Nat

VARIABLES
    history,   \* ChatHistory history
    sel,       \* selected_msg, 0 for MSG_SELECT_NONE
    focus,     \* input_focused
    move,      \* move_mode
    edit,      \* in_place_edit; seen (ghost) is the text the edit started from
    doomed,    \* the message an open delete dialog is about, 0 without dialog
    card,      \* character_loaded
    req,       \* the request that runs: StreamContext and StreamCtx
    saved,     \* messages in the file of current_chat_id, <<>> without a file
    changes    \* counts for MaxChanges

vars == <<history, sel, focus, move, edit, doomed, card, req, saved, changes>>
cursor == <<sel, focus>>
modes == <<move, edit, doomed>>

-----------------------------------------------------------------------------
\* What chat_save writes of a history: no statistics, no reasoning.
OnDisk(h) ==
    [i \in DOMAIN h |-> [role |-> h[i].role, swipes |-> h[i].swipes, active |-> h[i].active]]

\* chat_auto_save and chat_auto_save_with_note: an empty history is not saved
AutoSaved(h) == IF h = <<>> THEN saved ELSE OnDisk(h)

\* The array is there as soon as there is a second swipe.
RestoredFinish(t) ==
    IF Len(t.swipes) = 1 THEN <<>>
    ELSE [k \in DOMAIN t.swipes |-> IF k = 1 THEN Junk ELSE 0]

\* The load loop: history_add for the first swipe, history_add_swipe for each
\* of the others, then history_set_active_swipe and history_set_role.
Restored(d) ==
    [i \in DOMAIN d |->
        [Fresh(d[i].swipes[1], d[i].role) EXCEPT
            !.swipes = d[i].swipes,
            !.active = d[i].active,
            !.stats = [k \in DOMAIN d[i].swipes |-> 0],
            !.finish = RestoredFinish(d[i])]]

\* history_get: the text shown for message i
Shown(h, i) == h[i].swipes[h[i].active]

NoEdit == [on |-> FALSE, msg |-> 0, sw |-> 0, seen |-> Say("plain")]

\* No request runs; id of them have run.
Idle(id) ==
    [kind |-> "none", id |-> id, target |-> 0, sent |-> 0, buf |-> 0, got |-> FALSE,
     reasoned |-> FALSE, base |-> <<>>]

\* Slip: the placeholder is sent to the model too
StartedWithPlaceholder(kind, i, n, base) ==
    [kind |-> kind, id |-> req.id + 1, target |-> i, sent |-> n + 1, buf |-> 0, got |-> FALSE,
     reasoned |-> FALSE, base |-> base]

\* A StreamContext and a StreamCtx for message i. llm_chat is given the first
\* n messages. base (ghost) is the history the request started from.
Started(kind, i, n, base) ==
    [kind |-> kind, id |-> req.id + 1, target |-> i, sent |-> n, buf |-> 0, got |-> FALSE,
     reasoned |-> FALSE, base |-> base]

Waiting == Reply("wait", req.id, 0)

\* The main loop waits for a key and no modal is open.
Ready == req.kind = "none" /\ doomed = 0

\* Nothing takes the keys before the chat and the input line do.
Free == Ready /\ ~edit.on
Selecting == Free /\ ~focus /\ sel > 0
Typing == Free /\ focus

Unselect == sel' = 0 /\ focus' = TRUE

-----------------------------------------------------------------------------
Init ==
    /\ history = <<Fresh(Say("notice"), "assistant")>>
    /\ sel = 0 /\ focus = TRUE
    /\ move = FALSE /\ edit = NoEdit /\ doomed = 0
    /\ card = FALSE
    /\ req = Idle(0)
    /\ saved = <<>>
    /\ changes = 0

(***************************************************************************)
(* Requests. Dialogs set and remove the active model whenever the user     *)
(* types commands, so a request may or may not find one.                   *)
(***************************************************************************)
\* Enter with text in the input line, and do_llm_reply up to llm_chat
SendMessage ==
    LET asked == Add(history, Say("user"), "user")
    IN  /\ Typing
        /\ req.id < MaxReqs /\ Len(history) + 2 <= MaxMsgs
        /\ history' = Add(asked, Reply("wait", req.id + 1, 0), "assistant")
        /\ req' = Started("reply", Len(history'), Len(history') - 1, asked)
        /\ Unselect
        /\ UNCHANGED <<modes, card, saved>>

\* The same without a model: do_llm_reply answers itself.
SendWithoutModel ==
    /\ Typing
    /\ req.id < MaxReqs /\ Len(history) + 2 <= MaxMsgs
    /\ history' = Add(Add(history, Say("user"), "user"), Say("notice"), "assistant")
    /\ req' = Idle(req.id + 1)
    /\ saved' = AutoSaved(history')
    /\ Unselect
    /\ UNCHANGED <<modes, card>>

\* The right arrow on the last message, which shows its last swipe, asks for
\* another swipe.
AtLastSwipe ==
    /\ sel = Len(history)
    /\ IsBot(Shown(history, sel))
    /\ history[sel].active = Len(history[sel].swipes)

\* The result of history_add_swipe is not looked at: at MAX_SWIPES the request
\* rewrites the swipe that is there.
Regenerate ==
    /\ Selecting /\ AtLastSwipe
    /\ req.id < MaxReqs
    /\ history' = AddSwipe(history, sel, Reply("wait", req.id + 1, 0))
    /\ req' = Started("regen", sel, Len(history) - 1, history)
    /\ UNCHANGED <<cursor, modes, card, saved>>

RegenerateWithoutModel ==
    /\ Selecting /\ AtLastSwipe
    /\ req.id < MaxReqs
    /\ history' = AddSwipe(history, sel, Say("wait"))
    /\ req' = Idle(req.id + 1)
    /\ saved' = AutoSaved(history')
    /\ Unselect
    /\ UNCHANGED <<modes, card>>

\* reasoning_callback: whatever the message shows, it shows "thinking..." now
ReceiveReasoning ==
    /\ req.kind # "none"
    /\ history' = Update(history, req.target, Waiting)
    /\ req' = [req EXCEPT !.reasoned = TRUE]
    /\ UNCHANGED <<cursor, modes, card, saved>>

\* What display[] holds of n units of text: the beginning
Displayed(n) == IF n <= DisplayRoom THEN n ELSE DisplayRoom

\* stream_callback with something to show, n units of text: the buffer grows,
\* and what display[] holds of it is shown again.
ReceiveContent ==
    /\ req.kind # "none"
    /\ \E n \in 1 .. MaxChunks - req.buf :
           req' = [req EXCEPT !.got = TRUE, !.buf = @ + n]
    /\ history' = Update(history, req.target, Reply("part", req.id, Displayed(req'.buf)))
    /\ sel' = 0
    /\ UNCHANGED <<focus, modes, card, saved>>

\* stream_callback with white space before any text: dropped
ReceiveBlank ==
    /\ req.kind # "none" /\ req.buf = 0
    /\ req' = [req EXCEPT !.got = TRUE]
    /\ UNCHANGED <<history, cursor, modes, card, saved>>

\* Slip: the spinner goes on after the first content
TickOn ==
    /\ req.kind # "none"
    /\ history' = Update(history, req.target, Waiting)
    /\ UNCHANGED <<cursor, modes, card, req, saved>>

\* progress_callback of curl: the spinner, until there is content
Tick ==
    /\ req.kind # "none" /\ ~req.got
    /\ history' = Update(history, req.target, Waiting)
    /\ UNCHANGED <<cursor, modes, card, req, saved>>

\* Slip: selected_msg in do_llm_reply too
VerdictAtSelection(kind) == Update(history, sel, Reply(kind, req.id, 0))

\* Where the handler that waited writes the text of a request without a reply:
\* do_llm_reply at its message, the right arrow at selected_msg.
Verdict(kind) ==
    Update(history, IF req.kind = "reply" THEN req.target ELSE sel, Reply(kind, req.id, 0))

\* Slips: the answer is not saved; the input line does not get the focus back
EndUnsaved == req' = Idle(req.id) /\ Unselect /\ UNCHANGED <<modes, card, saved>>
EndUnfocused ==
    /\ req' = Idle(req.id)
    /\ saved' = AutoSaved(history')
    /\ sel' = 0
    /\ UNCHANGED <<focus, modes, card>>

EndRequest ==
    /\ req' = Idle(req.id)
    /\ saved' = AutoSaved(history')
    /\ Unselect
    /\ UNCHANGED <<modes, card>>

\* curl fails or times out, the status is not 2xx, or the request is not built
RequestFails ==
    /\ req.kind # "none"
    /\ history' = Verdict("err")
    /\ EndRequest

RequestEmpty ==
    /\ req.kind # "none" /\ req.buf = 0
    /\ history' = Verdict("silent")
    /\ EndRequest

\* Slip: statistics of a new swipe go to the first one
MeasuredFirst(h, i, named) == SetStats(h, i, 1, req.id)

\* The statistics go to the active swipe of the message the request is about;
\* the text stays as the last callback left it. A server need not name the
\* reason why the reply ends; without one the slot is not written.
Measured(h, i, named) ==
    LET j == h[i].active
        timed == SetStats(h, i, j, req.id)
        reasoned == IF req.reasoned THEN SetReasoning(timed, i, j, req.id) ELSE timed
    IN  IF named THEN SetFinish(reasoned, i, j, req.id) ELSE reasoned

RequestDone ==
    /\ req.kind # "none" /\ req.buf > 0
    /\ \E named \in BOOLEAN : history' = Measured(history, req.target, named)
    /\ EndRequest

(***************************************************************************)
(* Keys on the chat                                                        *)
(***************************************************************************)
\* The up arrow. An edit keeps the key for itself.
SelectUp ==
    /\ Free /\ history # <<>>
    /\ ~(move /\ sel > 0)
    /\ sel' = IF focus THEN Len(history) ELSE IF sel > 1 THEN sel - 1 ELSE sel
    /\ focus' = FALSE
    /\ UNCHANGED <<history, modes, card, req, saved>>

SelectDown ==
    /\ Free /\ sel > 0 /\ ~move
    /\ IF sel < Len(history)
       THEN sel' = sel + 1 /\ UNCHANGED focus
       ELSE Unselect
    /\ UNCHANGED <<history, modes, card, req, saved>>

\* The arrows in move mode carry the selected message along.
MoveTo(i) ==
    /\ Free /\ move /\ sel > 0
    /\ i \in DOMAIN history
    /\ history' = Swap(history, sel, i)
    /\ sel' = i
    /\ saved' = AutoSaved(history')
    /\ UNCHANGED <<focus, modes, card, req>>

MoveUp == MoveTo(sel - 1)
MoveDown == MoveTo(sel + 1)

\* The left arrow
SwipePrev ==
    /\ Selecting
    /\ IsBot(Shown(history, sel)) /\ history[sel].active > 1
    /\ history' = SetActive(history, sel, history[sel].active - 1)
    /\ saved' = AutoSaved(history')
    /\ UNCHANGED <<cursor, modes, card, req>>

\* The right arrow before the last swipe; on the last message it is not saved
SwipeNext ==
    /\ Selecting
    /\ IsBot(Shown(history, sel)) /\ history[sel].active < Len(history[sel].swipes)
    /\ history' = SetActive(history, sel, history[sel].active + 1)
    /\ saved' = IF sel = Len(history) THEN saved ELSE AutoSaved(history')
    /\ UNCHANGED <<cursor, modes, card, req>>

\* 'e'
StartEdit ==
    /\ Selecting
    /\ edit' = [on |-> TRUE, msg |-> sel, sw |-> history[sel].active,
                seen |-> Shown(history, sel)]
    /\ UNCHANGED <<history, cursor, move, doomed, card, req, saved>>

\* Slip: every edited text becomes the bot's
EditedAsBot(text) == [text EXCEPT !.kind = "bot"]

\* Enter in an edit: "You: " stays, every other text becomes "Bot: ..."
Edited(text) == IF text.kind = "user" THEN text ELSE [text EXCEPT !.kind = "bot"]

CommitEdit ==
    /\ Ready /\ edit.on
    /\ history' = UpdateSwipe(history, edit.msg, edit.sw,
                              Edited(history[edit.msg].swipes[edit.sw]))
    /\ edit' = NoEdit
    /\ saved' = AutoSaved(history')
    /\ UNCHANGED <<cursor, move, doomed, card, req>>

\* Escape leaves the edit first, then the move mode.
Escape ==
    /\ Ready
    /\ \/ edit.on /\ edit' = NoEdit /\ UNCHANGED move
       \/ ~edit.on /\ move /\ move' = FALSE /\ UNCHANGED edit
    /\ UNCHANGED <<history, cursor, doomed, card, req, saved>>

\* 'm'
ToggleMove ==
    /\ Selecting
    /\ move' = ~move
    /\ UNCHANGED <<history, cursor, edit, doomed, card, req, saved>>

\* Enter on a selected message
LeaveSelection ==
    /\ Free /\ ~focus
    /\ IF move THEN move' = FALSE /\ UNCHANGED cursor ELSE Unselect /\ UNCHANGED move
    /\ UNCHANGED <<history, edit, doomed, card, req, saved>>

\* 'd' and the two answers to the dialog
AskDelete ==
    /\ Selecting /\ ~move
    /\ doomed' = sel
    /\ UNCHANGED <<history, cursor, move, edit, card, req, saved>>

\* Slip: the selection survives the message
DeleteKeepsSelection ==
    /\ req.kind = "none" /\ doomed > 0
    /\ history' = Delete(history, doomed)
    /\ doomed' = 0
    /\ saved' = AutoSaved(history')
    /\ UNCHANGED <<cursor, move, edit, card, req>>

ConfirmDelete ==
    /\ req.kind = "none" /\ doomed > 0
    /\ history' = Delete(history, doomed)
    /\ doomed' = 0
    /\ saved' = AutoSaved(history')
    /\ Unselect
    /\ UNCHANGED <<move, edit, card, req>>

CancelDelete ==
    /\ req.kind = "none" /\ doomed > 0
    /\ doomed' = 0
    /\ UNCHANGED <<history, cursor, move, edit, card, req, saved>>

\* KEY_RESIZE: closes a dialog; an edit and the move mode stay on
Resize ==
    /\ req.kind = "none"
    /\ doomed' = 0
    /\ Unselect
    /\ UNCHANGED <<history, move, edit, card, req, saved>>

(***************************************************************************)
(* Slash commands                                                          *)
(***************************************************************************)
\* /chat new, /clear and a greeting chosen from the list
StartOver ==
    /\ Typing
    /\ history' = <<Fresh(Say("bot"), "assistant")>>
    /\ saved' = AutoSaved(history')
    /\ UNCHANGED <<cursor, modes, card, req>>

\* /char load
LoadCard ==
    /\ Typing
    /\ history' = <<Fresh(Say("bot"), "assistant")>>
    /\ card' = TRUE
    /\ saved' = AutoSaved(history')
    /\ UNCHANGED <<cursor, modes, req>>

\* /char unload: a notice that is not saved
UnloadCard ==
    /\ Typing /\ card /\ Len(history) < MaxMsgs
    /\ card' = FALSE
    /\ history' = Add(history, Say("notice"), "assistant")
    /\ UNCHANGED <<cursor, modes, req, saved>>

\* /sys
AddSystem ==
    /\ Typing /\ Len(history) < MaxMsgs
    /\ history' = Add(history, Say("plain"), "system")
    /\ saved' = AutoSaved(history')
    /\ UNCHANGED <<cursor, modes, card, req>>

\* /chat load of the current chat; its file names the card it was saved with
LoadChat ==
    /\ Typing /\ saved # <<>>
    /\ history' = Restored(saved)
    /\ card' \in BOOLEAN
    /\ UNCHANGED <<cursor, modes, req, saved>>

\* /chat load of a file without "messages": the history is gone by the time
\* the load fails, the chat stays current
LoadDamaged ==
    /\ Typing
    /\ history' = <<>>
    /\ UNCHANGED <<cursor, modes, card, req, saved>>

-----------------------------------------------------------------------------
Callback == ReceiveReasoning \/ ReceiveContent \/ ReceiveBlank \/ Tick
RequestEnds == (RequestFails \/ RequestEmpty \/ RequestDone) /\ UNCHANGED changes
Send == SendMessage \/ SendWithoutModel \/ Regenerate \/ RegenerateWithoutModel
Key == \/ SelectUp \/ SelectDown \/ SwipePrev \/ SwipeNext
       \/ StartEdit \/ Escape \/ ToggleMove \/ LeaveSelection
       \/ AskDelete \/ CancelDelete \/ Resize
Change == \/ MoveUp \/ MoveDown \/ CommitEdit \/ ConfirmDelete
          \/ StartOver \/ LoadCard \/ UnloadCard \/ AddSystem
          \/ LoadChat \/ LoadDamaged

Next ==
    \/ RequestEnds
    \/ (Send \/ Callback \/ Key) /\ UNCHANGED changes
    \/ changes < MaxChanges /\ Change /\ changes' = changes + 1

\* CURLOPT_TIMEOUT ends a request that the server does not end.
Spec == Init /\ [][Next]_vars /\ WF_vars(RequestEnds)
-----------------------------------------------------------------------------
(***************************************************************************)
(* Properties                                                              *)
(***************************************************************************)
Requests == {"none", "reply", "regen"}

Turn == [role : Roles, swipes : Seq(Text), active : Nat]
WellFormedFile(d) ==
    d \in Seq(Turn) /\ \A i \in DOMAIN d : d[i].active \in 1 .. Len(d[i].swipes)

\* Every variable has a value of its type, and every message of the history
\* has arrays that agree with each other.
TypeOK ==
    /\ WellFormedHistory(history)
    /\ sel \in Nat /\ focus \in BOOLEAN /\ move \in BOOLEAN
    /\ edit \in [on : BOOLEAN, msg : Nat, sw : Nat, seen : Text]
    /\ doomed \in Nat /\ card \in BOOLEAN
    /\ req \in [kind : Requests, id : Nat, target : Nat, sent : Nat, buf : Nat,
                got : BOOLEAN, reasoned : BOOLEAN, base : Seq(Message)]
    /\ changes \in Nat
    /\ WellFormedFile(saved)

\* selected_msg is a message of the history in every state, across deletes,
\* moves, loads and requests; while the main loop waits for a key, a message
\* is selected exactly when the input line does not have the focus.
SelectionValid ==
    /\ sel \in 0 .. Len(history)
    /\ req.kind = "none" => (sel > 0 <=> ~focus)

\* The message and the swipe an open edit will write are those the user saw
\* when the edit began, with the same text, although the edit outlives a
\* resize that clears the selection.
EditTargetValid ==
    edit.on => /\ HasSwipe(history, edit.msg, edit.sw)
               /\ history[edit.msg].swipes[edit.sw] = edit.seen
               /\ req.kind = "none"

\* The delete dialog is about the message that is still selected.
DeleteTargetValid == doomed > 0 => doomed = sel /\ req.kind = "none" /\ ~edit.on

\* Whatever a key is about to change is what the user saw when it was pointed at.
TargetsValid == SelectionValid /\ EditTargetValid /\ DeleteTargetValid

\* While a request runs, its message is the last one and the model was given
\* exactly the messages before it.
PromptIsWhatCameBefore ==
    req.kind # "none" => req.target = Len(history) /\ req.sent = req.target - 1

\* A request adds: whatever was in the history when it started is still there
\* while it streams, except the last swipe of a message that is full.
RequestsOnlyAdd ==
    req.kind # "none" =>
        \A i \in DOMAIN req.base : \A j \in DOMAIN req.base[i].swipes :
            \/ HasSwipe(history, i, j) /\ history[i].swipes[j] = req.base[i].swipes[j]
            \/ i = req.target /\ j = MaxSwipes

\* Statistics, finish reason and reasoning shown with a swipe come from the
\* request that wrote its text; only the last swipe of a full message is
\* written again. A slot of finish may also be unwritten memory, which is never
\* the one that the end of a request frees before it sets it.
MetricsMatchReply ==
    /\ req.kind = "none" =>
           \A i \in DOMAIN history : \A j \in 1 .. MaxSwipes - 1 : LET m == history[i] IN
               /\ j \in DOMAIN m.stats => m.stats[j] \in {0, m.swipes[j].req}
               /\ j \in DOMAIN m.finish => m.finish[j] \in {0, Junk, m.swipes[j].req}
               /\ j \in DOMAIN m.reasoning => m.reasoning[j] \in {0, m.swipes[j].req}
    /\ req.kind # "none" =>
           FinishArray(history[req.target])[history[req.target].active] # Junk

\* The role the prompt is built from and the prefix the screen goes by agree
\* on who speaks, for every swipe, through edits, streams and loads.
RoleMatchesPrefix ==
    \A i \in DOMAIN history : \A j \in DOMAIN history[i].swipes :
        /\ history[i].role = "user" <=> history[i].swipes[j].kind = "user"
        /\ history[i].role = "assistant" => IsBot(history[i].swipes[j])

\* Notices of the program at the end of the history after message n
OnlyNoticesAfter(n) ==
    \A i \in n + 1 .. Len(history) : history[i].swipes = <<Say("notice")>>

SameTexts(m, d) == m.role = d.role /\ m.swipes = d.swipes

\* While the main loop waits for a key, the file has every text of the screen:
\* only which swipe is active, and notices at the end, may be missing. The
\* other case is a history that a failed load or the deletion of the last
\* message emptied.
NearlySaved ==
    req.kind = "none" =>
        \/ OnlyNoticesAfter(0)
        \/ /\ Len(saved) <= Len(history)
           /\ \A i \in DOMAIN saved : SameTexts(history[i], saved[i])
           /\ OnlyNoticesAfter(Len(saved))

\* A reply that succeeds leaves its whole text on the screen, or as much of it
\* as display[] holds. Only reasoning can have covered it: the model may think
\* again after it has begun to answer.
ReplyIsWhole ==
    [][RequestDone =>
          \/ /\ req.buf <= DisplayRoom
             /\ Shown(history', req.target) = Reply("part", req.id, req.buf)
          \/ /\ req.buf > DisplayRoom
             /\ Shown(history', req.target) = Reply("part", req.id, DisplayRoom)
          \/ req.reasoned /\ Shown(history', req.target) = Waiting]_vars

\* A reply that fails shows its error, whatever had been streamed before.
ReplyFailureIsShown ==
    [][RequestFails /\ req.kind = "reply" =>
          Shown(history', req.target).kind = "err"]_vars

\* The same for every request, regenerated swipes included, as the comment at
\* main.c:2398 has it: the index in the context is used "as selected_msg may
\* have changed".
FailureIsShown ==
    [][RequestFails => Shown(history', req.target).kind = "err"]_vars

\* Every request ends and gives the keyboard back.
RequestsEnd == req.kind # "none" ~> Ready /\ focus

\* With a request taken as one step, the screen is a Conversation.
Conv == INSTANCE Conversation WITH
            log <- OnDisk(IF req.kind = "none" THEN history ELSE req.base),
            waiting <- req.kind # "none",
            file <- saved

IsConversation == Conv!Spec
=============================================================================
