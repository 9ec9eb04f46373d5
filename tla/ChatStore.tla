----------------------------- MODULE ChatStore -----------------------------
(***************************************************************************)
(* The chat files of src/chat/chat.c, and what main.c and the chat dialogs *)
(* of ui/modal.c do with them: which file a save writes, which file a load *)
(* finds, what a load that fails has destroyed by then, and what a crash   *)
(* or a full disk leaves.                                                  *)
(*                                                                         *)
(* A chat is known by an id made from the clock and the process number.    *)
(* Its file is <directory of the character>/<id>.json, so a chat has a     *)
(* copy in each directory it was saved to. A history is abstracted to the  *)
(* chat it belongs to and the number of the change that made it.           *)
(***************************************************************************)
EXTENDS Naturals

CONSTANTS Cards,       \* character cards
          Nobody,      \* no card
          Erased,      \* a card that a failed /char load has left without a name
          Directory,   \* chat_sanitize_dirname: the directory of each of them
          Notes,       \* author's notes
          NoNote,      \* an empty note
          MaxClock,    \* bound: seconds
          MaxRuns,     \* bound: runs of the program
          MaxOps       \* bound: commands and keys, restarts included

Names == Cards \union {Nobody, Erased}
Directories == {Directory[c] : c \in Names}
DefaultDir == Directory[Nobody]  \* also of a card whose name has no letter
NoDirectory == "none"

ASSUME StoreAssumption ==
    /\ Nobody \notin Cards /\ Erased \notin Cards /\ Erased # Nobody /\ NoNote \notin Notes
    /\ DOMAIN Directory = Names /\ Directory[Erased] = Directory[Nobody]
    /\ NoDirectory \notin Directories
    /\ {MaxClock, MaxRuns, MaxOps} \subseteq Nat \ {0}

VARIABLES
    files,    \* the file system
    writing,  \* the save that has opened its file and not yet closed it
    hist,     \* history
    cid,      \* current_chat_id
    card,     \* character, Nobody while not character_loaded, Erased while without a name
    path,     \* current_char_path, as the card at that path
    note,     \* author_note
    clock,    \* time(NULL)
    run,      \* getpid(); no two runs have the same
    ops,      \* counts for MaxOps, and numbers chats and changes
    kept,     \* ghost: the last change of each chat that a save completed and
              \* the user has not given up since, 0 for none
    shared    \* ghost: chats whose id has come to name another chat, in one of
              \* the three ways Excused lists

memory == <<hist, cid, card, path, note>>
disk == <<files, writing>>
ghosts == <<kept, shared>>
vars == <<disk, memory, clock, run, ops, ghosts>>

Ids == (1 .. MaxClock) \X (1 .. MaxRuns)
NoId == <<0, 0>>
Places == Directories \X Ids
Nowhere == <<DefaultDir, NoId>>
Chats == 1 .. MaxOps

\* A file. "blank" has no bytes, "head" ends before "messages", "cut" ends
\* among the messages.
States == {"none", "blank", "head", "cut", "whole"}
File == [state : States, conv : 0 .. MaxOps, ver : 0 .. MaxOps, path : Names,
         name : Names, note : Notes \union {NoNote}, upd : 0 .. MaxClock]
Absent == [state |-> "none", conv |-> 0, ver |-> 0, path |-> Nobody, name |-> Nobody,
           note |-> NoNote, upd |-> 0]
Blank == [Absent EXCEPT !.state = "blank"]

\* What is left of file f when its writing stops early. stdio writes blocks of
\* 4096 bytes: id, path and times are in the first, the note after them and the
\* messages may be missing.
Torn(f) == {Blank, [f EXCEPT !.state = "cut"], [f EXCEPT !.state = "head"],
            [f EXCEPT !.state = "head", !.note = NoNote]}

Exists(p) == files[p].state # "none"
\* read_file_contents: an empty file is as good as none
Readable(p) == files[p].state \in {"head", "cut", "whole"}
\* Slip: an empty file is a chat without messages
LoadableEmpty(p) == files[p].state \in {"blank", "cut", "whole"}
\* try_load_chat_from_path succeeds
Loadable(p) == files[p].state \in {"cut", "whole"}

-----------------------------------------------------------------------------
NoSave == [at |-> Nowhere, data |-> Absent]

Init ==
    /\ files = [p \in Places |-> Absent]
    /\ writing = NoSave
    /\ hist = [conv |-> 1, ver |-> 1, lost |-> FALSE]
    /\ cid = NoId /\ card = Nobody /\ path = Nobody /\ note = NoNote
    /\ clock = 1 /\ run = 1 /\ ops = 1
    /\ kept = [c \in Chats |-> 0]
    /\ shared = {}

\* The main loop handles one key or command after the other.
Now == ops + 1
Command == writing = NoSave /\ ops < MaxOps /\ ops' = Now /\ UNCHANGED <<clock, run>>

(***************************************************************************)
(* Saves. chat_save opens the file for writing, which empties it, and the  *)
(* bytes reach the disk some time before it is closed.                     *)
(***************************************************************************)
\* Slip: the second alone
IdOfSecond == <<clock, 1>>

\* chat_generate_id
FreshId == <<clock, run>>

\* The chats, but c, that have a file of this id in fs
Others(fs, id, c) ==
    {fs[q].conv : q \in {q \in Places : q[2] = id /\ fs[q].state \notin {"none", "blank"}}} \ {c}

\* The ways an id may come to name a second chat: two chats are begun by one run
\* in one second, what is on the screen after a load that failed is saved over
\* the chat before, or the user overwrites a chat that has copies elsewhere.
Excused(id, over) == id = <<clock, run>> \/ hist.lost \/ over

\* The name that is saved; an empty one is as good as none.
NameOf(c) == IF c \in Cards THEN c ELSE Nobody

\* chat_save of history h of character c, in a file system fs
Save(fs, id, h, c, pth, n, over) ==
    LET p == <<Directory[c], id>>
        others == Others(fs, id, h.conv)
    IN  /\ files' = [fs EXCEPT ![p] = Blank]
        /\ writing' = [at |-> p, data |-> [state |-> "whole", conv |-> h.conv, ver |-> h.ver,
                                           path |-> pth, name |-> NameOf(c), note |-> n,
                                           upd |-> clock]]
        /\ shared' = IF Excused(id, over) /\ others # {}
                     THEN shared \union others \union {h.conv}
                     ELSE shared
        /\ hist' = h
        /\ cid' = id

\* chat_auto_save and, with a note, chat_auto_save_with_note
AutoSave(id, h, c, pth, n) == Save(files, IF id = NoId THEN FreshId ELSE id, h, c, pth, n, FALSE)

NewChat == [conv |-> Now, ver |-> Now, lost |-> FALSE]
\* After a load that failed, what is on the screen is no version of that chat.
OnScreen == IF hist.lost THEN NewChat ELSE hist
Changed == [OnScreen EXCEPT !.ver = Now]

\* A message sent, an answer, and every change by a key
Talk ==
    /\ Command
    /\ AutoSave(cid, Changed, card, path, note)
    /\ UNCHANGED <<card, path, note, kept>>

\* /sys and /clear: without the note
Remark ==
    /\ Command
    /\ AutoSave(cid, Changed, card, path, NoNote)
    /\ UNCHANGED <<card, path, note, kept>>

\* Slip: the chat before keeps the id
ChatNewSameId ==
    /\ Command
    /\ AutoSave(cid, NewChat, card, path, NoNote)
    /\ UNCHANGED <<card, path, note, kept>>

\* /chat new
ChatNew ==
    /\ Command
    /\ AutoSave(NoId, NewChat, card, path, NoNote)
    /\ UNCHANGED <<card, path, note, kept>>

\* /char greetings, and a greeting chosen
ChooseGreeting ==
    /\ Command /\ card # Nobody
    /\ AutoSave(NoId, NewChat, card, path, note)
    /\ UNCHANGED <<card, path, note, kept>>

\* /char load
LoadCard(c) ==
    /\ Command
    /\ AutoSave(NoId, NewChat, c, c, NoNote)
    /\ card' = c /\ path' = c
    /\ UNCHANGED <<note, kept>>

\* /char load of what is no card: the card that was loaded has been emptied by
\* then, and is still the one that is loaded; the chat and its id stay.
FailLoadCard ==
    /\ writing = NoSave
    /\ card \in Cards /\ card' = Erased
    /\ UNCHANGED <<disk, hist, cid, path, note, clock, run, ops, ghosts>>

\* /char unload: the chat goes on in the default directory, from its next save
UnloadCard ==
    /\ Command /\ card # Nobody
    /\ card' = Nobody /\ path' = Nobody
    /\ hist' = [hist EXCEPT !.ver = Now]
    /\ UNCHANGED <<disk, cid, note, ghosts>>

\* /note, /note-depth, /note-position, /note-role: not saved
SetNote ==
    /\ writing = NoSave
    /\ note' \in (Notes \union {NoNote}) \ {note}
    /\ UNCHANGED <<disk, hist, cid, card, path, clock, run, ops, ghosts>>

\* The user gives up what is kept of chat c.
GiveUp(c) == kept' = [kept EXCEPT ![c] = 0]

\* fclose: the file is complete
FinishSave ==
    /\ writing # NoSave
    /\ files' = [files EXCEPT ![writing.at] = writing.data]
    /\ kept' = [kept EXCEPT ![writing.data.conv] = writing.data.ver]
    /\ writing' = NoSave
    /\ UNCHANGED <<memory, clock, run, ops, shared>>

\* What is written stops short; nothing that was kept of that chat is left.
StopShort ==
    /\ \E f \in Torn(writing.data) : files' = [files EXCEPT ![writing.at] = f]
    /\ GiveUp(writing.data.conv)
    /\ writing' = NoSave

\* A full disk: the results of fprintf and fclose are not looked at.
DiskFull ==
    /\ writing # NoSave
    /\ StopShort
    /\ UNCHANGED <<memory, clock, run, ops, shared>>

(***************************************************************************)
(* Loads                                                                   *)
(***************************************************************************)
\* Where chat_load and chat_load_with_note may find an id: first in directory
\* d, then in every directory in the order of readdir
Found(d, id) ==
    IF <<d, id>> \in Places /\ Loadable(<<d, id>>)
    THEN {<<d, id>>}
    ELSE {q \in Places : q[2] = id /\ Loadable(q)}

\* The files that such a load reads and that make it fail
Tried(id) == {q \in Places : q[2] = id /\ Readable(q)}

\* Slip: the chat that was loaded does not become the current one
RestoredOnly(q) ==
    /\ hist' = [conv |-> files[q].conv, ver |-> files[q].ver, lost |-> FALSE]
    /\ UNCHANGED cid

\* The history is that of file q.
Restored(q) ==
    /\ hist' = [conv |-> files[q].conv, ver |-> files[q].ver, lost |-> FALSE]
    /\ cid' = q[2]

\* The card that the file names is loaded, if it can be.
CardOf(q) == \E c \in {files[q].path, Nobody} : card' = c /\ path' = c

\* The history has been freed by the time "messages" is missed.
Destroyed ==
    /\ hist' = [hist EXCEPT !.lost = TRUE]
    /\ UNCHANGED cid

\* /chat load <character> <id>
LoadById(d, id) ==
    /\ Command
    /\ \/ \E q \in Found(d, id) : Restored(q) /\ CardOf(q) /\ note' = files[q].note
       \/ /\ Found(d, id) = {}
          /\ \E q \in Tried(id) : note' = files[q].note
          /\ Destroyed
          /\ UNCHANGED <<card, path>>
    /\ UNCHANGED <<disk, ghosts>>

\* chat_list_load_for_character: the entry that was saved last
Listed(d) == {p \in Places : p[1] = d /\ Readable(p)}
Latest(d) == {p \in Listed(d) : \A q \in Listed(d) : files[q].upd <= files[p].upd}

\* chat_load_latest for p = Latest: the entry it finds is loaded by its id
LoadsLatest(d, q) == \E p \in Latest(d) : q \in Found(d, p[2])
MissesLatest(d) == \E p \in Latest(d) : Found(d, p[2]) = {}

\* /chat load <character>: the note is reset
LoadLatest(d) ==
    /\ Command
    /\ \/ \E q \in Places : LoadsLatest(d, q) /\ Restored(q) /\ CardOf(q) /\ note' = NoNote
       \/ MissesLatest(d) /\ Destroyed /\ UNCHANGED <<card, path, note>>
    /\ UNCHANGED <<disk, ghosts>>

\* A character chosen from the suggestions: the note is reset first, and a
\* file without a card leaves the card that is loaded.
ChooseSuggestion(d) ==
    /\ Command
    /\ note' = NoNote
    /\ \/ \E q \in Places :
            /\ LoadsLatest(d, q) /\ Restored(q)
            /\ IF files[q].path = Nobody THEN UNCHANGED <<card, path>> ELSE CardOf(q)
       \/ MissesLatest(d) /\ Destroyed /\ UNCHANGED <<card, path>>
       \/ Listed(d) = {} /\ UNCHANGED <<hist, cid, card, path>>
    /\ UNCHANGED <<disk, ghosts>>

\* The list of all chats has a character for each, from the file or its directory.
Preferred(p) ==
    CASE files[p].name # Nobody -> Directory[files[p].name]
      [] files[p].name = Nobody /\ p[1] # DefaultDir -> p[1]
      [] OTHER -> NoDirectory

\* Enter in the list of chats. The path that the file names becomes
\* current_char_path even when the load fails.
OpenListed(p) ==
    /\ Command /\ Readable(p)
    /\ \/ \E q \in Found(Preferred(p), p[2]) : Restored(q) /\ CardOf(q)
       \/ /\ Found(Preferred(p), p[2]) = {}
          /\ \E q \in Tried(p[2]) : path' = files[q].path
          /\ Destroyed
          /\ UNCHANGED card
    /\ UNCHANGED <<disk, note, ghosts>>

(***************************************************************************)
(* Deletes, the save dialog, the end of a run                              *)
(***************************************************************************)
\* The file chat_delete unlinks, which looks for it as a load does
Unlinked(d, id) ==
    IF <<d, id>> \in Places /\ Exists(<<d, id>>)
    THEN {<<d, id>>}
    ELSE {q \in Places : q[2] = id /\ Exists(q)}

\* 'd' in the list of chats; a current chat stays current
DeleteListed(p) ==
    /\ Command /\ Readable(p)
    /\ \E q \in Unlinked(Preferred(p), p[2]) : files' = [files EXCEPT ![q] = Absent]
    /\ GiveUp(files[p].conv)
    /\ UNCHANGED <<writing, memory, shared>>

\* /chat save under a title that no other chat has
SaveAs ==
    /\ Command
    /\ AutoSave(cid, OnScreen, card, path, NoNote)
    /\ UNCHANGED <<card, path, note, kept>>

\* Without a name of a character the titles of all chats are compared.
SameTitle == {p \in Places : Readable(p) /\ (card \in Cards => p[1] = Directory[card])}

\* /chat save under the title of chat e, and yes to "overwrite?"
SaveOver(e) ==
    /\ Command
    /\ e \in SameTitle /\ e[2] # cid
    /\ \E q \in Unlinked(IF card \in Cards THEN Directory[card] ELSE NoDirectory, e[2]) :
          Save([files EXCEPT ![q] = Absent], e[2], OnScreen, card, path, NoNote, TRUE)
    /\ GiveUp(files[e].conv)
    /\ UNCHANGED <<card, path, note>>

\* The program ends, asked to or not, and is started again.
Restart ==
    /\ ops < MaxOps /\ run < MaxRuns
    /\ ops' = Now /\ run' = run + 1
    /\ hist' = NewChat
    /\ cid' = NoId /\ card' = Nobody /\ path' = Nobody /\ note' = NoNote
    /\ IF writing = NoSave THEN UNCHANGED <<disk, kept>> ELSE StopShort
    /\ UNCHANGED <<clock, shared>>

Tick ==
    /\ clock < MaxClock /\ clock' = clock + 1
    /\ UNCHANGED <<disk, memory, run, ops, ghosts>>
-----------------------------------------------------------------------------
Speak == Talk \/ Remark \/ SetNote \/ FailLoadCard \/ UnloadCard
Begin == ChatNew \/ ChooseGreeting \/ \E c \in Cards : LoadCard(c)
Load ==
    \/ \E d \in Directories : LoadLatest(d) \/ ChooseSuggestion(d)
    \/ \E p \in Places : LoadById(p[1], p[2]) \/ OpenListed(p)
Dialog == SaveAs \/ \E p \in Places : DeleteListed(p) \/ SaveOver(p)

Next == Speak \/ Begin \/ Load \/ Dialog \/ FinishSave \/ DiskFull \/ Restart \/ Tick
Spec == Init /\ [][Next]_vars
-----------------------------------------------------------------------------
(***************************************************************************)
(* Properties                                                              *)
(***************************************************************************)
\* Every variable has a value of its type.
TypeOK ==
    /\ files \in [Places -> File]
    /\ writing \in [at : Places \union {Nowhere}, data : File]
    /\ hist \in [conv : Chats, ver : Chats, lost : BOOLEAN]
    /\ cid \in Ids \union {NoId}
    /\ card \in Names /\ path \in Names /\ note \in Notes \union {NoNote}
    /\ clock \in 1 .. MaxClock /\ run \in 1 .. MaxRuns /\ ops \in Chats
    /\ kept \in [Chats -> 0 .. MaxOps]
    /\ shared \subseteq Chats

\* What a save has completed stays in a whole file, through loads, forks into
\* other directories, restarts and saves of other chats, until the user deletes
\* or overwrites it, a save of the same chat is cut off, or its id comes to name
\* another chat in one of the three ways.
ChatsSurvive ==
    \A c \in Chats \ shared :
        kept[c] > 0 /\ writing.data.conv # c =>
            \E p \in Places : /\ files[p].state = "whole"
                              /\ files[p].conv = c /\ files[p].ver = kept[c]

\* The files of one id, whatever directories they are in, are of one chat:
\* looking an id up in all directories finds the right one. Those of the
\* current id are of the chat on the screen: the next save replaces an older
\* version of that.
IdNamesOneChat ==
    /\ \A p, q \in Places :
        p[2] = q[2] /\ Readable(p) /\ Readable(q) /\ files[p].conv # files[q].conv =>
            {files[p].conv, files[q].conv} \subseteq shared
    /\ \A p \in Places :
        p[2] = cid /\ Readable(p) =>
            files[p].conv = hist.conv \/ hist.lost \/ {files[p].conv, hist.conv} \subseteq shared

\* A conversation that is resumed has the author's note that its file has, as
\* the welcome message at main.c:1421 says of /chat load: "Resume a saved
\* conversation".
ResumesWithNote ==
    [][\A d \in Directories : LoadLatest(d) /\ ~hist'.lost =>
          \E q \in Places : q[2] = cid' /\ files[q].conv = hist'.conv /\ files[q].note = note']_vars
=============================================================================
