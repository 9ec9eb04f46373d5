----------------------------- MODULE ChatCodec ------------------------------
(***************************************************************************)
(* The text of a chat file: what chat_save_with_note of src/chat/chat.c    *)
(* writes, and what try_load_chat_from_path_with_note makes of it, which   *)
(* knows the format only by the characters it looks for.                   *)
(*                                                                         *)
(* A character is a string. A word of the format (role, swipes) and a      *)
(* number are one character each; white space between them, the fields     *)
(* before the note and the numbers of the note are left out. The loader    *)
(* takes one turn of its outer loop at a time.                             *)
(***************************************************************************)
EXTENDS Integers, Sequences, SequencesExt, FiniteSetsExt

CONSTANTS
    Chats,  \* bound: [note, messages] with messages of [role, active, swipes]
    Numbers  \* the digits of active_swipe: of 0, of 1 and so on

VARIABLES
    chat,  \* what is saved
    file,
    pc,  \* "save", "open", "read" or "done"
    pos,  \* p of the loader
    note, messages  \* what it has loaded

codecVars == <<chat, file, pc, pos, note, messages>>

Quote == "\""
Back == "\\"
Newline == "newline"
Control == "control"  \* any below 32 but newline, return and tab
Code == "0001"  \* its four digits

\* escape_json
Escape(s) ==
    FlattenSeq([i \in DOMAIN s |->
        CASE s[i] \in {Quote, Back} -> <<Back, s[i]>>
          [] s[i] = Newline -> <<Back, "n">>
          [] s[i] = Control -> <<Back, "u", Code>>
          [] OTHER -> <<s[i]>>])

\* The loops that undo it: of an escape the character behind the backslash
Unescaped(s) ==
    LET from[i \in 1 .. Len(s) + 1] ==
            IF i > Len(s) THEN <<>>
            ELSE IF s[i] = Back /\ i < Len(s)
                 THEN <<IF s[i + 1] = "n" THEN Newline ELSE s[i + 1]>> \o from[i + 2]
                 ELSE <<s[i]>> \o from[i + 1]
    IN  from[1]
-----------------------------------------------------------------------------
Quoted(s) == <<Quote>> \o s \o <<Quote>>

\* Sequences one behind the other with commas between
Listed(seqs) ==
    FlattenSeq([i \in DOMAIN seqs |-> IF i < Len(seqs) THEN seqs[i] \o <<",">> ELSE seqs[i]])

WrittenMessage(m) ==
    <<"{">> \o Quoted(<<"role">>) \o <<":">> \o Quoted(<<m.role>>) \o <<",">>
    \o Quoted(<<"active">>) \o <<":", m.active, ",">>
    \o Quoted(<<"swipes">>) \o <<":", "[">>
    \o Listed([j \in DOMAIN m.swipes |-> Quoted(Escape(m.swipes[j]))]) \o <<"]", "}">>

WrittenNote(text) ==
    IF text = <<>> THEN <<>>
    ELSE Quoted(<<"author_note">>) \o <<":", "{">>
         \o Quoted(<<"text">>) \o <<":">> \o Quoted(Escape(text)) \o <<"}", ",">>

Init ==
    /\ chat \in Chats /\ file = <<>> /\ pc = "save" /\ pos = 0
    /\ note = <<>> /\ messages = <<>>

Save ==
    /\ pc = "save" /\ pc' = "open"
    /\ file' = <<"{">> \o WrittenNote(chat.note) \o Quoted(<<"messages">>) \o <<":", "[">>
               \o Listed([i \in DOMAIN chat.messages |-> WrittenMessage(chat.messages[i])])
               \o <<"]", "}">>
    /\ UNCHANGED <<chat, pos, note, messages>>
-----------------------------------------------------------------------------
\* The first place from i on where C holds; the end of the file is behind it.
Next1(i, C(_)) ==
    CHOOSE k \in i .. Len(file) + 1 :
        /\ k = Len(file) + 1 \/ C(k)
        /\ \A j \in i .. k - 1 : ~C(j)

Beyond == Len(file) + 1
To(i, c) == Next1(i, LAMBDA k : file[k] = c)

\* strstr of a word in quotes
Find(i, word) ==
    Next1(i, LAMBDA k : k + 2 <= Len(file) /\ SubSeq(file, k, k + 2) = Quoted(<<word>>))

\* Slip: any quote ends a string
StringEndAnyQuote(i) == To(i, Quote)

\* The end of the string that begins at i, where the loader of messages sees
\* it: a quote that has no backslash right before it
StringEnd(i) == Next1(i, LAMBDA k : file[k] = Quote /\ file[k - 1] # Back)

StringAt(i) == Unescaped(SubSeq(file, i, StringEnd(i) - 1))

\* find_json_string, which counts backslashes in pairs
ValueEnd(i) ==
    LET end[k \in i .. Len(file) + 2] ==
            IF k > Len(file) \/ file[k] = Quote THEN k
            ELSE IF file[k] = Back THEN end[k + 2] ELSE end[k + 1]
    IN  end[i]

FindJsonString(i, word) ==
    LET start == Find(i, word) + 5
    IN  Unescaped(SubSeq(file, start, ValueEnd(start) - 1))

\* The note, and the place where the messages begin
Open ==
    /\ pc = "open" /\ pc' = "read"
    /\ LET at == Find(1, "author_note")
       IN  note' = IF at = Beyond THEN <<>> ELSE FindJsonString(To(at, "{"), "text")
    /\ pos' = To(Find(1, "messages"), "[") + 1
    /\ UNCHANGED <<chat, file, messages>>

\* The texts of an array that begins at i
SwipesFrom(i) ==
    LET from[k \in i .. Len(file) + 2] ==
            CASE k > Len(file) -> <<>>
              [] k <= Len(file) /\ file[k] = "]" -> <<>>
              [] k <= Len(file) /\ file[k] = Quote ->
                    <<StringAt(k + 1)>> \o from[StringEnd(k + 1) + 1]
              [] OTHER -> from[k + 1]
    IN  from[i]

Reading == pc = "read" /\ UNCHANGED <<chat, file, note>>
There(c) == pos <= Len(file) /\ file[pos] = c

\* history_add, whose messages are the user's
Added(swipes, role, active) ==
    messages' = Append(messages, [role |-> role, active |-> active, swipes |-> swipes])

\* The values behind the next "role" and "active", whosever they are
RoleFrom(i) ==
    LET at == Find(i, "role")
    IN  IF at + 5 <= Len(file) /\ file[at + 5] \in {"assistant", "system"}
        THEN file[at + 5] ELSE "user"

ActiveFrom(i, count) ==
    LET at == Find(i, "active")
    IN  IF at + 4 <= Len(file) /\ file[at + 4] \in ToSet(SubSeq(Numbers, 1, count))
        THEN file[at + 4] ELSE Numbers[count]

\* An object: the next three words are taken to be its own, and it ends at the
\* next brace, wherever that is
ReadObject ==
    /\ Reading /\ There("{")
    /\ LET at == Find(pos + 1, "swipes")
           swipes == IF at = Beyond \/ To(at, "[") = Beyond THEN <<>>
                     ELSE SwipesFrom(To(at, "[") + 1)
       IN  IF swipes = <<>> THEN UNCHANGED messages
           ELSE Added(swipes, RoleFrom(pos + 1), ActiveFrom(pos + 1, Len(swipes)))
    /\ pos' = To(pos + 1, "}") + 1
    /\ UNCHANGED pc

\* A string in place of an object, as files of older versions have it
ReadString ==
    /\ Reading /\ There(Quote)
    /\ Added(<<StringAt(pos + 1)>>, "user", Numbers[1])
    /\ pos' = StringEnd(pos + 1) + 1
    /\ UNCHANGED pc

Skip ==
    /\ Reading /\ pos <= Len(file) /\ file[pos] \notin {"{", Quote, "]"}
    /\ pos' = pos + 1 /\ UNCHANGED <<pc, messages>>

Finish ==
    /\ Reading /\ (pos > Len(file) \/ There("]"))
    /\ pc' = "done" /\ UNCHANGED <<pos, messages>>

Next == Save \/ Open \/ ReadObject \/ ReadString \/ Skip \/ Finish

Spec == Init /\ [][Next]_codecVars
-----------------------------------------------------------------------------
\* What survives in a text: all but control characters and, in messages, a
\* closing brace or a backslash at the end
Safe(s) == Control \notin ToSet(s)
Plain(s) == Safe(s) /\ "}" \notin ToSet(s) /\ (s # <<>> => Last(s) # Back)

\* A chat that is loaded has the note and the messages that were saved, with
\* roles, swipes and the swipe that is shown, up to the first message whose
\* text is not plain, and when all are it has no others.
ChatComesBack ==
    pc = "done" =>
        LET rough == {i \in DOMAIN chat.messages :
                        \E j \in DOMAIN chat.messages[i].swipes :
                            ~Plain(chat.messages[i].swipes[j])}
        IN  /\ Safe(chat.note) => note = chat.note
            /\ rough = {} => messages = chat.messages
            /\ \A i \in DOMAIN chat.messages :
                    (\A k \in rough : i < k) =>
                        i <= Len(messages) /\ messages[i] = chat.messages[i]
=============================================================================
