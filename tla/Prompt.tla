-------------------------------- MODULE Prompt --------------------------------
(***************************************************************************)
(* What a request says: the three build_request functions of llm/backends, *)
(* which choose how much of the history fits and where the author's note   *)
(* goes, over lorebook_build_context of lore/lorebook.c.                   *)
(*                                                                         *)
(* Of a message its role and the words that lore looks for count. Tokens   *)
(* are counted by the tokenizer, by the server or by length, whichever     *)
(* answers, so the cost of a message is any of Costs each time. The part   *)
(* of the budget that is left for the history may be none at all.          *)
(***************************************************************************)
EXTENDS Integers, Sequences, SequencesExt, FiniteSetsExt

CONSTANTS
    MaxMessages,  \* bound: messages before the reply
    Costs,  \* tokens of a message, with the 20 that each has more
    Available,  \* available_tokens
    MaxDepth,  \* bound: depth of the author's note
    Words,  \* that keys may be
    Books  \* lorebooks: sequences of entries

Lore == [keys : SUBSET Words, secondary : SUBSET Words, selective : BOOLEAN,
         constant : BOOLEAN, disabled : BOOLEAN, order : Int]

\* A message has a size, so its cost has a greatest value.
ASSUME PromptAssumption ==
    /\ MaxMessages \in Nat /\ MaxDepth \in Nat
    /\ Costs \subseteq Nat /\ \E most \in Costs : \A cost \in Costs : cost <= most
    /\ Available \subseteq Int /\ \E most \in Available : \A a \in Available : a <= most
    /\ Books \subseteq Seq(Lore)

Roles == {"user", "assistant", "system"}
Backends == {"openai", "anthropic", "kobold"}

VARIABLES
    backend,
    history,  \* sequence of [role, words]
    note,  \* [at, depth, role], at "none" if there is none or it is empty
    extras,  \* of "system", "examples" and "post", those that the card has
    book, scan,  \* the lorebook and its default_scan_depth
    available,  \* available_tokens
    counted, used,  \* messages counted from the end; cumulative_tokens
    start,  \* start_index
    lore,  \* the entries in the context, in order
    body,  \* the messages of the request
    phase  \* "lore", "count", "build" or "built"

promptVars == <<backend, history, note, extras, book, scan, available, counted, used,
                start, lore, body, phase>>
given == <<backend, history, note, extras, book, scan, available>>
-----------------------------------------------------------------------------
\* Slip: secondary keys count for entries that are not selective too
MatchesAllKeys(entry, words) ==
    /\ ~entry.disabled
    /\ \/ entry.constant
       \/ /\ entry.keys \intersect words # {}
          /\ entry.secondary = {} \/ entry.secondary \intersect words # {}

\* lore_entry_matches: secondary keys count for a selective entry only
Matches(entry, words) ==
    /\ ~entry.disabled
    /\ \/ entry.constant
       \/ /\ entry.keys \intersect words # {}
          /\ \/ ~entry.selective
             \/ entry.secondary = {}
             \/ entry.secondary \intersect words # {}

\* The words of the last messages, as many as default_scan_depth
Scanned ==
    LET from == Max({1, Len(history) - scan + 1})
    IN  UNION {history[i].words : i \in from .. Len(history)}

\* lorebook_find_matches
FindMatches(words) == {i \in DOMAIN book : Matches(book[i], words)}

\* qsort with compare_entries_by_order: entries of one order in any order
Sorted(found) ==
    {s \in SetToSeqs(found) : \A i, j \in DOMAIN s :
        i < j => book[s[i]].order >= book[s[j]].order}
-----------------------------------------------------------------------------
\* Depth counts for a note in the chat only.
NoNote == [at |-> "none", depth |-> 0, role |-> "user"]
Notes == {n \in [at : {"none", "before", "after", "chat"}, depth : 0 .. MaxDepth,
                 role : {"user", "system"}] :
            n.at # "chat" => n = [NoNote EXCEPT !.at = n.at]}

\* A request of any kind without lore, or one with lore whose messages differ
\* in their words
Asked ==
    \/ /\ backend \in Backends /\ available \in Available
       /\ history \in BoundedSeq([role : Roles, words : {{}}], MaxMessages)
       /\ note \in Notes
       /\ extras \in {{}, {"system", "examples", "post"}}
       /\ book = <<>> /\ scan = 1
    \/ /\ backend = "openai" /\ available = Max(Available)
       /\ history \in BoundedSeq([role : {"user"}, words : SUBSET Words], 2)
       /\ note = NoNote /\ extras = {"system"}
       /\ book \in Books /\ scan \in 0 .. 2

Init ==
    /\ counted = 0 /\ used = 0 /\ start = 0 /\ lore = <<>> /\ body = <<>>
    /\ phase = "lore" /\ Asked

\* lorebook_build_context, before anything is counted
BuildLore ==
    /\ phase = "lore" /\ phase' = "count"
    /\ lore' \in (IF history = <<>> THEN {<<>>} ELSE Sorted(FindMatches(Scanned)))
    /\ UNCHANGED <<given, counted, used, start, body>>

\* Slip: a message that reaches the limit exactly is left out
CountOneLess ==
    /\ phase = "count" /\ available > 0 /\ counted < Len(history)
    /\ \E cost \in Costs :
        IF used + cost >= available
        THEN /\ start' = Len(history) - counted /\ phase' = "build"
             /\ UNCHANGED <<counted, used>>
        ELSE /\ counted' = counted + 1 /\ used' = used + cost
             /\ UNCHANGED <<start, phase>>
    /\ UNCHANGED <<given, lore, body>>

\* The loop from the last message back: one that does not fit ends it.
Count ==
    /\ phase = "count" /\ available > 0 /\ counted < Len(history)
    /\ \E cost \in Costs :
        IF used + cost > available
        THEN /\ start' = Len(history) - counted /\ phase' = "build"
             /\ UNCHANGED <<counted, used>>
        ELSE /\ counted' = counted + 1 /\ used' = used + cost
             /\ UNCHANGED <<start, phase>>
    /\ UNCHANGED <<given, lore, body>>

\* start_index is 0 when all fit, and when nothing was left for them.
CountEnds ==
    /\ phase = "count"
    /\ available <= 0 \/ counted = Len(history)
    /\ phase' = "build"
    /\ UNCHANGED <<given, counted, used, start, lore, body>>

If(there, item) == IF there THEN <<item>> ELSE <<>>
Note == [kind |-> "note",
         role |-> IF backend = "anthropic" THEN "user" ELSE note.role]

\* Anthropic's system field joins these four.
SystemField ==
    If(note.at = "before", [kind |-> "note", role |-> "field"])
    \o If("system" \in extras, [kind |-> "system", role |-> "field"])
    \o If(lore # <<>>, [kind |-> "lore", role |-> "field"])
    \o If(note.at = "after", [kind |-> "note", role |-> "field"])

\* The others send each as a message.
ChatHeader ==
    If(note.at = "before", Note)
    \o If("system" \in extras, [kind |-> "system", role |-> "system"])
    \o If(lore # <<>>, [kind |-> "lore", role |-> "system"])
    \o If(note.at = "after", Note)

Examples == If("examples" \in extras, [kind |-> "example", role |-> "user"])
Post(role) == If("post" \in extras, [kind |-> "post", role |-> role])

\* Slip: counted from the message that comes next
InjectLate ==
    IF note.at # "chat" \/ history = <<>> THEN -1
    ELSE IF note.depth < Len(history) THEN Len(history) - note.depth + 1 ELSE start

\* note_inject_index, -1 if there is none
Inject ==
    IF note.at # "chat" \/ history = <<>> THEN -1
    ELSE IF note.depth < Len(history) THEN Len(history) - note.depth ELSE start

RoleOf(i) ==
    IF backend = "anthropic" /\ history[i].role = "system" THEN "user" ELSE history[i].role

Message(i) == [kind |-> "message", role |-> RoleOf(i), index |-> i]
Sent == [k \in 1 .. Len(history) - start |-> Message(start + k)]

\* The loop over the messages that are sent, the note before the one it belongs to
Messages ==
    IF Inject \in start .. Len(history) - 1
    THEN InsertAt(Sent, Inject - start + 1, Note)
    ELSE Sent

\* The three build_request functions
OpenAiRequest == ChatHeader \o Examples \o Messages \o Post("system")
KoboldRequest == ChatHeader \o Examples \o Messages \o Post("system")
AnthropicRequest == SystemField \o Examples \o Messages \o Post("user")

\* What llm_chat asks of the backend
Request ==
    CASE backend = "openai" -> OpenAiRequest
      [] backend = "kobold" -> KoboldRequest
      [] OTHER -> AnthropicRequest

Build ==
    /\ phase = "build" /\ phase' = "built"
    /\ body' = Request
    /\ UNCHANGED <<given, counted, used, start, lore>>

Next == BuildLore \/ Count \/ CountEnds \/ Build

Spec == Init /\ [][Next]_promptVars
-----------------------------------------------------------------------------
Places(kind) == {k \in DOMAIN body : body[k].kind = kind}

\* The history that is sent is its end, each message once and in order; it
\* fits what is available, and the next message back would not have: unless
\* nothing is available, when all of it is sent. The latest message is there
\* unless it alone is too long.
HistoryFits ==
    phase = "built" =>
        LET sent == Places("message")
            indices == {body[k].index : k \in sent}
            dearest == Max(Costs)
        IN  /\ Cardinality(indices) = Cardinality(sent)
            /\ \A i \in indices : i < Len(history) => i + 1 \in indices
            /\ \A k, l \in sent : k < l => body[k].index < body[l].index
            /\ available > 0 => /\ used <= available /\ Cardinality(sent) = counted
                                /\ Len(history) > counted => used + dearest > available
            /\ available <= 0 => indices = DOMAIN history

\* The author's note is in a request once, where it was put: first, before the
\* examples, or with depth messages behind it, or all that are sent of a shorter
\* history. It is left out when it belongs behind the last message, at depth 0,
\* or before one that is not sent.
NoteIsPlaced ==
    phase = "built" =>
        LET at == Places("note")
            after == {k \in Places("message") : \A n \in at : k > n}
        IN  CASE note.at = "none" -> at = {}
              [] note.at = "before" -> at = {1}
              [] note.at = "after" ->
                    /\ Cardinality(at) = 1
                    /\ \A n \in at : \A k \in Places("system") \union Places("lore") : k < n
                    /\ \A n \in at : \A k \in Places("example") \union Places("message") : k > n
              [] OTHER ->
                    IF \/ note.depth = 0 \/ start = Len(history)
                       \/ note.depth < Len(history) /\ Len(history) - note.depth < start
                    THEN at = {}
                    ELSE /\ Cardinality(at) = 1
                         /\ Cardinality(after) = Min({note.depth, Len(history) - start})

\* The secondary keys that an entry asks for beside one of its keys
Asks(entry) == IF entry.selective THEN {entry.secondary} \ {{}} ELSE {}

\* The lore in a request is of the entries that are turned on and have a key
\* in a message that is scanned, and a secondary key too if they are selective
\* and have any; each once and those of higher order first.
LoreIsRelevant ==
    phase # "lore" =>
        /\ ToSet(lore) = {i \in DOMAIN book :
                /\ history # <<>> /\ ~book[i].disabled
                /\ book[i].constant
                   \/ \A keys \in {book[i].keys} \union Asks(book[i]) :
                        \E k \in keys, m \in DOMAIN history :
                            m > Len(history) - scan /\ k \in history[m].words}
        /\ \A i, j \in DOMAIN lore : i < j =>
                lore[i] # lore[j] /\ book[lore[i]].order >= book[lore[j]].order
=============================================================================
