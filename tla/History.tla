------------------------------ MODULE History ------------------------------
(***************************************************************************)
(* The message list of src/chat/history.c, as operators on values.         *)
(*                                                                         *)
(* A history is a sequence of messages. A message holds parallel arrays,   *)
(* one slot per swipe (an alternative text): swipes, stats (token_counts,  *)
(* gen_times and output_tps: what is measured of a finished reply), finish *)
(* (finish_reasons) and reasoning (with reasoning_times). The last three   *)
(* hold the request they come from, 0 for none; <<>> stands for a NULL     *)
(* array. Indices count from 1; 0 is SIZE_MAX or MSG_SELECT_NONE.          *)
(* Allocation never fails here.                                            *)
(*                                                                         *)
(* Junk is a slot of finish that nothing has written. The drawing reads    *)
(* the slot of the active swipe as a pointer (ui.c:921), and the end of    *)
(* the message frees all of them: what follows is one of the behaviours    *)
(* below when the memory happens to hold NULL, and the end of the program  *)
(* when it does not. The model goes on.                                    *)
(*                                                                         *)
(* A text is a record: kind is its shape, req the request that wrote it    *)
(* (0: none) and len how many stream chunks of that request it shows.      *)
(***************************************************************************)
EXTENDS Integers, Sequences

CONSTANT MaxSwipes   \* MAX_SWIPES, 2048 in the code

ASSUME MaxSwipesAssumption == MaxSwipes \in Nat \ {0}

Roles == {"user", "assistant", "system"}

\* user: "You: ..."; plain: text without a prefix; bot: a greeting or an edited
\* "Bot: ..." line; notice: a "Bot: ..." line of the program's own; wait:
\* placeholder, spinner or "thinking..."; part: streamed text; err and silent:
\* what a finished request leaves when it has no text.
Kinds == {"user", "plain", "bot", "notice", "wait", "part", "err", "silent"}

Text == [kind : Kinds, req : Nat, len : Nat]

Say(kind) == [kind |-> kind, req |-> 0, len |-> 0]
Reply(kind, req, len) == [kind |-> kind, req |-> req, len |-> len]

\* strncmp(msg, "Bot:", 4) == 0
IsBot(text) == text.kind \notin {"user", "plain"}

Junk == -1

Message == [role : Roles, swipes : Seq(Text), active : Nat, stats : Seq(Nat),
            finish : Seq(Nat \cup {Junk}), reasoning : Seq(Nat)]

Fresh(text, role) ==
    [role |-> role, swipes |-> <<text>>, active |-> 1, stats |-> <<0>>,
     finish |-> <<>>, reasoning |-> <<>>]

\* history_add_with_role
Add(h, text, role) == Append(h, Fresh(text, role))

HasSwipe(h, i, j) == i \in DOMAIN h /\ j \in DOMAIN h[i].swipes

\* history_update_swipe; out of range indices are ignored
UpdateSwipe(h, i, j, text) ==
    IF HasSwipe(h, i, j) THEN [h EXCEPT ![i].swipes[j] = text] ELSE h

\* Slip: always the first swipe
UpdateFirst(h, i, text) == UpdateSwipe(h, i, 1, text)

\* history_update: the active swipe of message i
Update(h, i, text) ==
    IF i \in DOMAIN h THEN UpdateSwipe(h, i, h[i].active, text) ELSE h

\* Slip: the statistics arrays are not grown.
GrowWithoutStats(m, text) ==
    [m EXCEPT !.swipes = Append(@, text), !.active = Len(m.swipes) + 1]

\* realloc of finish_reasons: a NULL array comes back with all of its slots
\* unwritten, and only the new one is set.
GrownFinish(m) ==
    Append(IF m.finish = <<>> THEN [k \in DOMAIN m.swipes |-> Junk] ELSE m.finish, 0)

\* The new swipe is active. The reasoning arrays are not grown.
Grow(m, text) ==
    [m EXCEPT !.swipes = Append(@, text),
              !.stats = Append(@, 0),
              !.finish = GrownFinish(m),
              !.active = Len(m.swipes) + 1]

\* history_add_swipe: refused at MAX_SWIPES
AddSwipe(h, i, text) ==
    IF i \in DOMAIN h /\ Len(h[i].swipes) < MaxSwipes
    THEN [h EXCEPT ![i] = Grow(@, text)]
    ELSE h

\* history_set_active_swipe
SetActive(h, i, j) == IF HasSwipe(h, i, j) THEN [h EXCEPT ![i].active = j] ELSE h

\* history_delete: the later messages move down by one
Delete(h, i) ==
    IF i \in DOMAIN h
    THEN [k \in 1 .. Len(h) - 1 |-> IF k < i THEN h[k] ELSE h[k + 1]]
    ELSE h

\* Slip: without the temporary, one message is lost and the other doubled
SwapLosing(h, i, j) == [h EXCEPT ![i] = h[j]]

\* history_move_up and history_move_down
Swap(h, i, j) == [h EXCEPT ![i] = h[j], ![j] = h[i]]

\* history_set_token_count, history_set_gen_time and history_set_output_tps
SetStats(h, i, j, req) == IF HasSwipe(h, i, j) THEN [h EXCEPT ![i].stats[j] = req] ELSE h

\* history_set_finish_reason: calloc(swipe_count) on first use
FinishArray(m) == IF m.finish = <<>> THEN [k \in DOMAIN m.swipes |-> 0] ELSE m.finish

SetFinish(h, i, j, req) ==
    IF HasSwipe(h, i, j)
    THEN [h EXCEPT ![i].finish = [FinishArray(h[i]) EXCEPT ![j] = req]]
    ELSE h

\* history_set_reasoning: calloc(swipe_count) on first use, never grown
ReasoningArray(m) ==
    IF m.reasoning = <<>> THEN [k \in DOMAIN m.swipes |-> 0] ELSE m.reasoning

\* The write to reasoning[j] is inside the array.
ReasoningFits(m, j) == j \in DOMAIN ReasoningArray(m)

SetReasoning(h, i, j, req) ==
    IF HasSwipe(h, i, j) /\ ReasoningFits(h[i], j)
    THEN [h EXCEPT ![i].reasoning = [ReasoningArray(h[i]) EXCEPT ![j] = req]]
    ELSE h

\* What every operation above keeps: the arrays of a message agree, the active
\* swipe exists, and no slot of finish but the first is left unwritten.
WellFormed(m) ==
    /\ m \in Message
    /\ m.active \in 1 .. Len(m.swipes)
    /\ Len(m.stats) = Len(m.swipes)
    /\ IF m.finish = <<>> THEN Len(m.swipes) = 1 ELSE Len(m.finish) = Len(m.swipes)
    /\ \A j \in DOMAIN m.finish : m.finish[j] = Junk => j = 1 /\ Len(m.swipes) > 1
    /\ Len(m.reasoning) \in 0 .. Len(m.swipes)

WellFormedHistory(h) == h \in Seq(Message) /\ \A i \in DOMAIN h : WellFormed(h[i])

=============================================================================
