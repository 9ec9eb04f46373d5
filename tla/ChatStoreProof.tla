--------------------------- MODULE ChatStoreProof ---------------------------
(***************************************************************************)
(* What ChatStore promises about chats and ids, for every number of cards, *)
(* seconds, runs and commands. The invariants of the module are inductive  *)
(* together with SaveRuns, which says what a save that has begun will do.  *)
(***************************************************************************)
EXTENDS ChatStore, TLAPS

Histories == [conv : Chats, ver : Chats, lost : BOOLEAN]
FileSystems == [Places -> File]

HasText(f) == f.state \in {"head", "cut", "whole"}

\* Two chats that files of one id may be of
Agree(a, b) == a = b \/ {a, b} \subseteq shared

\* Change v of chat k is in a whole file.
Holds(fs, k, v) == \E p \in Places : fs[p].state = "whole" /\ fs[p].conv = k /\ fs[p].ver = v

\* The three invariants, for a file system
Named(fs) ==
    \A p, q \in Places :
        p[2] = q[2] /\ HasText(fs[p]) /\ HasText(fs[q]) => Agree(fs[p].conv, fs[q].conv)
Current(fs) ==
    \A p \in Places : p[2] = cid /\ HasText(fs[p]) => hist.lost \/ Agree(fs[p].conv, hist.conv)
Surviving(fs, busy) ==
    \A k \in Chats \ shared : kept[k] > 0 /\ busy # k => Holds(fs, k, kept[k])

\* Files with text are of a chat.
Numbered == \A p \in Places : HasText(files[p]) => files[p].conv \in Chats /\ files[p].ver \in Chats

\* A save writes the current chat over a file that is empty.
SaveRuns ==
    writing # NoSave =>
        /\ writing.at \in Places /\ writing.at[2] = cid
        /\ files[writing.at] = Blank
        /\ writing.data.state = "whole" /\ writing.data.conv = hist.conv /\ ~hist.lost
        /\ writing.data.ver \in Chats

Inv ==
    /\ TypeOK /\ Numbered /\ SaveRuns
    /\ Named(files) /\ Current(files) /\ Surviving(files, writing.data.conv)

\* The invariant implies the three that ChatStore states.
LEMMA InvImplies == Inv => TypeOK /\ ChatsSurvive /\ IdNamesOneChat
BY DEF Inv, Named, Current, Surviving, Holds, Agree, HasText, ChatsSurvive, IdNamesOneChat,
       Readable

\* Sets and values that the actions use are of their types.
LEMMA Values ==
    /\ DefaultDir \in Directories /\ Directories = {Directory[c] : c \in Names}
    /\ \A c \in Names, id \in Ids : <<Directory[c], id>> \in Places
    /\ \A p \in Places : p[2] \in Ids /\ p[1] \in Directories /\ p = <<p[1], p[2]>>
    /\ NoId \notin Ids
    /\ Absent \in File /\ Blank \in File /\ ~HasText(Absent) /\ ~HasText(Blank)
    /\ Blank.state = "blank" /\ Absent.conv = 0 /\ Absent.state = "none"
    /\ MaxOps \in Nat /\ 0 \notin Chats /\ Chats \subseteq 0 .. MaxOps
<1>1. MaxOps \in Nat /\ MaxClock \in Nat /\ MaxRuns \in Nat /\ Nobody \in Names
    BY StoreAssumption DEF Names
<1>2. Absent \in File /\ Blank \in File
    BY <1>1 DEF Absent, Blank, File, States
<1>3. DefaultDir \in Directories
    BY <1>1 DEF DefaultDir, Directories
<1>4. NoId \notin Ids
    BY <1>1 DEF NoId, Ids
<1>5. /\ ~HasText(Absent) /\ ~HasText(Blank)
      /\ Blank.state = "blank" /\ Absent.conv = 0 /\ Absent.state = "none"
    BY DEF HasText, Absent, Blank
<1> QED
    BY <1>1, <1>2, <1>3, <1>4, <1>5 DEF Places, Directories, Chats

LEMMA InitInv == Init => Inv
<1> SUFFICES ASSUME Init PROVE Inv
    OBVIOUS
<1>1. \A p \in Places : files[p] = Absent
    BY DEF Init
<1>2. TypeOK
    <2>1. files \in [Places -> File] /\ writing \in [at : Places \union {Nowhere}, data : File]
        BY Values DEF Init, NoSave
    <2>2. 1 \in Chats /\ 1 \in 1 .. MaxClock /\ 1 \in 1 .. MaxRuns /\ 0 \in 0 .. MaxOps
        BY StoreAssumption DEF Chats
    <2> QED
        BY <2>1, <2>2 DEF Init, TypeOK, Names
<1>3. Numbered /\ SaveRuns /\ Named(files) /\ Current(files)
    BY <1>1, Values DEF Init, Numbered, SaveRuns, Named, Current
<1>4. Surviving(files, writing.data.conv)
    BY DEF Init, Surviving, Chats
<1> QED
    BY <1>2, <1>3, <1>4 DEF Inv

\* A save that begins keeps the invariant, if the id it is for does not name
\* another chat except in one of the excused ways.
LEMMA SaveInv ==
    ASSUME Inv, NEW fs \in FileSystems, NEW id \in Ids, NEW h \in Histories, ~h.lost,
           NEW c \in Names, NEW pth \in Names, NEW n \in Notes \union {NoNote},
           NEW over \in BOOLEAN, Save(fs, id, h, c, pth, n, over),
           \A q \in Places : fs[q] \in {files[q], Absent},
           ~Excused(id, over) =>
               \A q \in Places : q[2] = id /\ HasText(fs[q]) => Agree(fs[q].conv, h.conv),
           \A k \in Chats \ shared : kept'[k] > 0 => Holds(fs, k, kept'[k]),
           kept' \in [Chats -> 0 .. MaxOps], UNCHANGED <<clock, run>>, ops' \in Chats,
           card' \in Names, path' \in Names, note' \in Notes \union {NoNote}
    PROVE  Inv'
<1> DEFINE p == <<Directory[c], id>>
           o == Others(fs, id, h.conv)
           d == [state |-> "whole", conv |-> h.conv, ver |-> h.ver,
                 path |-> pth, name |-> NameOf(c), note |-> n, upd |-> clock]
<1>1. p \in Places /\ p[2] = id
    BY Values
<1>2. /\ files' = [fs EXCEPT ![p] = Blank]
      /\ writing' = [at |-> p, data |-> d]
      /\ shared' = IF Excused(id, over) /\ o # {} THEN shared \union o \union {h.conv} ELSE shared
      /\ hist' = h /\ cid' = id
    BY DEF Save
<1>3. /\ files'[p] = Blank
      /\ \A q \in Places : q # p => files'[q] = fs[q]
    BY <1>1, <1>2 DEF FileSystems
<1>4. \A q \in Places : HasText(files'[q]) =>
          q # p /\ files'[q] = fs[q] /\ HasText(fs[q]) /\ fs[q] = files[q]
    BY <1>3, Values
<1>5. /\ h.conv \in Chats /\ h.ver \in Chats
      /\ \A q \in Places : HasText(fs[q]) => fs[q].conv \in Chats /\ fs[q] = files[q]
    BY Values DEF Inv, Numbered, Histories
<1>6. \A q \in Places : q[2] = id /\ HasText(fs[q]) /\ fs[q].conv # h.conv => fs[q].conv \in o
    BY DEF Others, HasText, FileSystems, File, States
<1>7. o \subseteq Chats
    BY <1>5 DEF Others, HasText, FileSystems, File, States
<1> HIDE DEF p, o, d
<1>8. shared \subseteq shared' /\ shared' \subseteq Chats
    BY <1>2, <1>5, <1>7 DEF Inv, TypeOK
<1>9. \A q \in Places : q[2] = id /\ HasText(fs[q]) =>
          fs[q].conv = h.conv \/ {fs[q].conv, h.conv} \subseteq shared'
    <2> TAKE q \in Places
    <2> HAVE q[2] = id /\ HasText(fs[q])
    <2>1. CASE Excused(id, over)
        BY <2>1, <1>2, <1>6
    <2>2. CASE ~Excused(id, over)
        BY <2>2, <1>8 DEF Agree
    <2> QED
        BY <2>1, <2>2
<1>10. Named(files)'
    BY <1>4, <1>8 DEF Inv, Named, Agree
<1>11. Current(files)'
    BY <1>2, <1>4, <1>9 DEF Current, Agree
<1>12. SaveRuns'
    BY <1>1, <1>2, <1>3, <1>5 DEF SaveRuns, d
<1>13. Surviving(files, writing.data.conv)'
    <2> SUFFICES ASSUME NEW k \in Chats \ shared', kept'[k] > 0, h.conv # k
                 PROVE  Holds(files', k, kept'[k])
        BY <1>2 DEF Surviving, d
    <2>1. PICK r \in Places : fs[r].state = "whole" /\ fs[r].conv = k /\ fs[r].ver = kept'[k]
        BY <1>8 DEF Holds
    <2>2. r # p
        BY <2>1, <1>1, <1>8, <1>9 DEF HasText
    <2> QED
        BY <2>1, <2>2, <1>3 DEF Holds
<1>14. Numbered'
    BY <1>4 DEF Inv, Numbered
<1>15. d \in File
    <2>1. NameOf(c) \in Names
        BY DEF NameOf, Names
    <2> QED
        BY <1>5, <2>1, Values DEF d, File, States, Inv, TypeOK
<1>16. TypeOK'
    <2>1. files' \in [Places -> File]
        BY <1>1, <1>2, Values DEF FileSystems
    <2>2. writing' \in [at : Places \union {Nowhere}, data : File]
        BY <1>1, <1>2, <1>15
    <2>3. hist' \in [conv : Chats, ver : Chats, lost : BOOLEAN] /\ cid' \in Ids \union {NoId}
        BY <1>2 DEF Histories
    <2> QED
        BY <2>1, <2>2, <2>3, <1>8 DEF TypeOK, Inv
<1> QED
    BY <1>10, <1>11, <1>12, <1>13, <1>14, <1>16 DEF Inv

\* What a command changes besides, and what it may show.
LEMMA CommandFacts ==
    ASSUME Inv, Command
    PROVE  /\ writing = NoSave /\ writing.data.conv = 0 /\ ops' \in Chats /\ Now \in Chats
           /\ UNCHANGED <<clock, run>>
           /\ FreshId \in Ids /\ FreshId = <<clock, run>>
           /\ NewChat \in Histories /\ ~NewChat.lost
           /\ OnScreen \in Histories /\ ~OnScreen.lost
           /\ Changed \in Histories /\ ~Changed.lost
           /\ ~hist.lost => OnScreen.conv = hist.conv /\ Changed.conv = hist.conv
<1>1. /\ writing = NoSave /\ ops' = ops + 1 /\ ops < MaxOps /\ Now = ops + 1
      /\ UNCHANGED <<clock, run>>
    BY DEF Command, Now
<1>2. Now \in Chats /\ ops' \in Chats
    BY <1>1, Values DEF Inv, TypeOK, Chats
<1>3. FreshId \in Ids /\ FreshId = <<clock, run>>
    BY DEF FreshId, Ids, Inv, TypeOK
<1>4. NewChat \in Histories /\ ~NewChat.lost
    BY <1>2 DEF NewChat, Histories
<1>5. OnScreen \in Histories /\ ~OnScreen.lost /\ (~hist.lost => OnScreen.conv = hist.conv)
    BY <1>4 DEF OnScreen, Histories, Inv, TypeOK
<1>6. Changed \in Histories /\ ~Changed.lost /\ Changed.conv = OnScreen.conv
    BY <1>2, <1>5 DEF Changed, Histories
<1> QED
    BY <1>1, <1>2, <1>3, <1>4, <1>5, <1>6, Values DEF NoSave

\* chat_auto_save of the chat on the screen, or of a new one
LEMMA AutoSaveInv ==
    ASSUME Inv, Command, NEW id \in {cid, NoId}, NEW h \in Histories, ~h.lost,
           id # NoId /\ ~hist.lost => h.conv = hist.conv,
           NEW c \in Names, NEW pth \in Names, NEW n \in Notes \union {NoNote},
           AutoSave(id, h, c, pth, n), UNCHANGED kept,
           card' \in Names, path' \in Names, note' \in Notes \union {NoNote}
    PROVE  Inv'
<1> DEFINE to == IF id = NoId THEN FreshId ELSE id
<1>1. to \in Ids /\ (to = <<clock, run>> \/ (to = cid /\ id # NoId))
    BY CommandFacts DEF Inv, TypeOK
<1>2. Save(files, to, h, c, pth, n, FALSE)
    BY DEF AutoSave
<1> HIDE DEF to
<1>3. ~Excused(to, FALSE) =>
          \A q \in Places : q[2] = to /\ HasText(files[q]) => Agree(files[q].conv, h.conv)
    BY <1>1 DEF Excused, Inv, Current
<1>4. \A k \in Chats \ shared : kept'[k] > 0 => Holds(files, k, kept'[k])
    BY CommandFacts, Values DEF Inv, Surviving
<1>5. files \in FileSystems /\ kept' \in [Chats -> 0 .. MaxOps]
    BY DEF Inv, TypeOK, FileSystems
<1> QED
    BY <1>1, <1>2, <1>3, <1>4, <1>5, CommandFacts, SaveInv

\* A load changes the memory only: a file that is found becomes the current
\* chat, or the history is lost.
LEMMA LoadInv ==
    ASSUME Inv, Command, UNCHANGED <<disk, ghosts>>,
           card' \in Names, path' \in Names, note' \in Notes \union {NoNote},
           \/ \E q \in Places : Loadable(q) /\ Restored(q)
           \/ Destroyed
           \/ UNCHANGED <<hist, cid>>
    PROVE  Inv'
<1>1. /\ files' = files /\ writing' = writing /\ kept' = kept /\ shared' = shared
      /\ writing = NoSave /\ ops' \in Chats /\ UNCHANGED <<clock, run>>
    BY CommandFacts DEF disk, ghosts
<1>2. /\ hist' \in Histories /\ cid' \in Ids \union {NoId}
      /\ Current(files)'
    <2>1. CASE \E q \in Places : Loadable(q) /\ Restored(q)
        <3>1. PICK q \in Places : Loadable(q) /\ Restored(q)
            BY <2>1
        <3>2. HasText(files[q]) /\ hist'.conv = files[q].conv /\ cid' = q[2]
            BY <3>1 DEF Loadable, Restored, HasText
        <3>3. hist' \in Histories /\ cid' \in Ids
            BY <3>1, <3>2, Values DEF Restored, Histories, Inv, Numbered
        <3> QED
            BY <1>1, <3>2, <3>3 DEF Current, Inv, Named, Agree
    <2>2. CASE Destroyed
        BY <1>1, <2>2 DEF Destroyed, Histories, Current, Inv, TypeOK
    <2>3. CASE UNCHANGED <<hist, cid>>
        BY <1>1, <2>3 DEF Histories, Current, Agree, Inv, TypeOK
    <2> QED
        BY <2>1, <2>2, <2>3
<1>3. TypeOK'
    BY <1>1, <1>2 DEF TypeOK, Histories, Inv
<1>4. Numbered' /\ SaveRuns'
    BY <1>1 DEF Inv, Numbered, SaveRuns
<1>5. Named(files)' /\ Surviving(files, writing.data.conv)'
    BY <1>1 DEF Inv, Named, Agree, Surviving
<1> QED
    BY <1>2, <1>3, <1>4, <1>5 DEF Inv

\* The card that a file names is one of the cards.
LEMMA CardOfNames ==
    ASSUME Inv, NEW q \in Places, CardOf(q)
    PROVE  card' \in Names /\ path' \in Names
BY StoreAssumption DEF CardOf, Inv, TypeOK, File, Names

LEMMA NotesOfFiles ==
    ASSUME Inv, NEW q \in Places
    PROVE  files[q].note \in Notes \union {NoNote} /\ files[q].path \in Names
BY DEF Inv, TypeOK, File

\* A load finds files that it can read.
LEMMA FoundLoadable ==
    ASSUME NEW dir, NEW id, NEW q \in Found(dir, id)
    PROVE  q \in Places /\ Loadable(q)
BY DEF Found

LEMMA LoadStep == Inv /\ Load => Inv'
<1> SUFFICES ASSUME Inv, Load PROVE Inv'
    OBVIOUS
<1>0. card \in Names /\ path \in Names /\ note \in Notes \union {NoNote}
    BY DEF Inv, TypeOK
<1>1. ASSUME NEW dir \in Directories, LoadLatest(dir) PROVE Inv'
    <2>1. Command /\ UNCHANGED <<disk, ghosts>>
        BY <1>1 DEF LoadLatest
    <2>2. CASE \E q \in Places : LoadsLatest(dir, q) /\ Restored(q) /\ CardOf(q) /\ note' = NoNote
        <3>1. PICK q \in Places : LoadsLatest(dir, q) /\ Restored(q) /\ CardOf(q) /\ note' = NoNote
            BY <2>2
        <3>2. Loadable(q)
            BY <3>1, FoundLoadable DEF LoadsLatest
        <3> QED
            BY <2>1, <3>1, <3>2, CardOfNames, LoadInv
    <2>3. CASE Destroyed /\ UNCHANGED <<card, path, note>>
        BY <1>0, <2>1, <2>3, LoadInv
    <2> QED
        BY <1>1, <2>2, <2>3 DEF LoadLatest
<1>2. ASSUME NEW dir \in Directories, ChooseSuggestion(dir) PROVE Inv'
    <2>1. Command /\ UNCHANGED <<disk, ghosts>> /\ note' = NoNote
        BY <1>2 DEF ChooseSuggestion
    <2>2. ASSUME NEW q \in Places, LoadsLatest(dir, q), Restored(q),
                 IF files[q].path = Nobody THEN UNCHANGED <<card, path>> ELSE CardOf(q)
          PROVE  Inv'
        <3>1. Loadable(q)
            BY <2>2, FoundLoadable DEF LoadsLatest
        <3>2. card' \in Names /\ path' \in Names
            BY <1>0, <2>2, CardOfNames
        <3> QED
            BY <2>1, <2>2, <3>1, <3>2, LoadInv
    <2>3. CASE (Destroyed \/ UNCHANGED <<hist, cid>>) /\ UNCHANGED <<card, path>>
        BY <1>0, <2>1, <2>3, LoadInv
    <2> QED
        BY <1>2, <2>2, <2>3 DEF ChooseSuggestion
<1>3. ASSUME NEW p \in Places, LoadById(p[1], p[2]) PROVE Inv'
    <2>1. Command /\ UNCHANGED <<disk, ghosts>>
        BY <1>3 DEF LoadById
    <2>2. ASSUME NEW q \in Found(p[1], p[2]), Restored(q), CardOf(q), note' = files[q].note
          PROVE  Inv'
        BY <2>1, <2>2, FoundLoadable, CardOfNames, NotesOfFiles, LoadInv
    <2>3. ASSUME NEW q \in Tried(p[2]), note' = files[q].note, Destroyed, UNCHANGED <<card, path>>
          PROVE  Inv'
        <3>1. q \in Places
            BY DEF Tried
        <3> QED
            BY <1>0, <2>1, <2>3, <3>1, NotesOfFiles, LoadInv
    <2> QED
        BY <1>3, <2>2, <2>3 DEF LoadById
<1>4. ASSUME NEW p \in Places, OpenListed(p) PROVE Inv'
    <2>1. Command /\ UNCHANGED <<disk, ghosts>> /\ UNCHANGED note
        BY <1>4 DEF OpenListed
    <2>2. ASSUME NEW q \in Found(Preferred(p), p[2]), Restored(q), CardOf(q)
          PROVE  Inv'
        BY <1>0, <2>1, <2>2, FoundLoadable, CardOfNames, LoadInv
    <2>3. ASSUME NEW q \in Tried(p[2]), path' = files[q].path, Destroyed, UNCHANGED card
          PROVE  Inv'
        <3>1. q \in Places
            BY DEF Tried
        <3> QED
            BY <1>0, <2>1, <2>3, <3>1, NotesOfFiles, LoadInv
    <2> QED
        BY <1>4, <2>2, <2>3 DEF OpenListed
<1> QED
    BY <1>1, <1>2, <1>3, <1>4 DEF Load

\* The commands that save the chat on the screen or a new one
LEMMA SavingStep ==
    Inv /\ (Talk \/ Remark \/ Begin \/ SaveAs) => Inv'
<1> SUFFICES ASSUME Inv, Talk \/ Remark \/ Begin \/ SaveAs PROVE Inv'
    OBVIOUS
<1>0. /\ cid \in {cid, NoId} /\ NoId \in {cid, NoId}
      /\ card \in Names /\ path \in Names /\ note \in Notes \union {NoNote}
    BY DEF Inv, TypeOK
<1>1. CASE Talk
    BY <1>0, <1>1, CommandFacts, AutoSaveInv DEF Talk
<1>2. CASE Remark
    BY <1>0, <1>2, CommandFacts, AutoSaveInv DEF Remark
<1>3. CASE SaveAs
    BY <1>0, <1>3, CommandFacts, AutoSaveInv DEF SaveAs
<1>4. CASE ChatNew
    BY <1>0, <1>4, CommandFacts, AutoSaveInv DEF ChatNew
<1>5. CASE ChooseGreeting
    BY <1>0, <1>5, CommandFacts, AutoSaveInv DEF ChooseGreeting
<1>6. ASSUME NEW c \in Cards, LoadCard(c) PROVE Inv'
    BY <1>0, <1>6, CommandFacts, AutoSaveInv DEF LoadCard, Names
<1> QED
    BY <1>1, <1>2, <1>3, <1>4, <1>5, <1>6 DEF Begin

\* Steps that leave the files, the current chat and the ghosts alone
LEMMA QuietInv ==
    ASSUME Inv, UNCHANGED <<disk, cid, ghosts>>,
           hist'.conv = hist.conv, hist'.lost = hist.lost, hist' \in Histories,
           card' \in Names, path' \in Names, note' \in Notes \union {NoNote},
           clock' \in 1 .. MaxClock, run' \in 1 .. MaxRuns, ops' \in Chats
    PROVE  Inv'
<1>1. TypeOK'
    BY DEF Inv, TypeOK, Histories, disk, ghosts
<1>2. Numbered' /\ SaveRuns'
    BY DEF Inv, Numbered, SaveRuns, disk, ghosts
<1>3. Named(files)' /\ Current(files)' /\ Surviving(files, writing.data.conv)'
    BY DEF Inv, Named, Current, Agree, Surviving, disk, ghosts
<1> QED
    BY <1>1, <1>2, <1>3 DEF Inv

LEMMA QuietStep == Inv /\ (UnloadCard \/ FailLoadCard \/ SetNote \/ Tick \/ UNCHANGED vars) => Inv'
<1> SUFFICES ASSUME Inv, UnloadCard \/ FailLoadCard \/ SetNote \/ Tick \/ UNCHANGED vars PROVE Inv'
    OBVIOUS
<1>0. /\ hist \in Histories /\ card \in Names /\ path \in Names /\ note \in Notes \union {NoNote}
      /\ clock \in 1 .. MaxClock /\ run \in 1 .. MaxRuns /\ ops \in Chats
    BY DEF Inv, TypeOK, Histories
<1>1. CASE UnloadCard
    <2>1. /\ Now \in Chats /\ ops' \in Chats /\ UNCHANGED <<clock, run>>
        BY <1>1, CommandFacts DEF UnloadCard
    <2>2. /\ hist' \in Histories /\ hist'.conv = hist.conv /\ hist'.lost = hist.lost
        BY <1>0, <1>1, <2>1 DEF UnloadCard, Histories
    <2>3. Nobody \in Names
        BY DEF Names
    <2> QED
        BY <1>0, <1>1, <2>1, <2>2, <2>3, QuietInv DEF UnloadCard
<1>2. CASE SetNote
    BY <1>0, <1>2, QuietInv DEF SetNote
<1>3. CASE Tick
    <2>1. clock' \in 1 .. MaxClock
        BY <1>0, <1>3, StoreAssumption DEF Tick
    <2> QED
        BY <1>0, <1>3, <2>1, QuietInv DEF Tick, memory
<1>4. CASE UNCHANGED vars
    BY <1>0, <1>4, QuietInv DEF vars, memory
<1>5. CASE FailLoadCard
    <2>1. card' \in Names
        BY <1>5 DEF FailLoadCard, Names
    <2> QED
        BY <1>0, <1>5, <2>1, QuietInv DEF FailLoadCard
<1> QED
    BY <1>1, <1>2, <1>3, <1>4, <1>5

\* Unlinking a file of the id of e loses nothing that is kept, once the user
\* has given up the chat of e.
LEMMA UnlinkKeeps ==
    ASSUME Inv, writing = NoSave, NEW e \in Places, Readable(e), NEW dir,
           NEW q \in Unlinked(dir, e[2]), GiveUp(files[e].conv)
    PROVE  /\ q \in Places /\ q[2] = e[2]
           /\ kept' \in [Chats -> 0 .. MaxOps]
           /\ \A k \in Chats \ shared : kept'[k] > 0 =>
                  Holds([files EXCEPT ![q] = Absent], k, kept'[k])
<1>1. q \in Places /\ q[2] = e[2]
    BY DEF Unlinked
<1>2. HasText(files[e]) /\ files[e].conv \in Chats
    BY DEF Inv, Numbered, Readable, HasText
<1>3. kept' = [kept EXCEPT ![files[e].conv] = 0] /\ kept \in [Chats -> 0 .. MaxOps]
    BY DEF GiveUp, Inv, TypeOK
<1>4. kept' \in [Chats -> 0 .. MaxOps]
    BY <1>2, <1>3, Values
<1>5. ASSUME NEW k \in Chats \ shared, kept'[k] > 0
      PROVE  Holds([files EXCEPT ![q] = Absent], k, kept'[k])
    <2>1. k # files[e].conv /\ kept'[k] = kept[k]
        BY <1>2, <1>3, <1>5
    <2>2. PICK r \in Places : files[r].state = "whole" /\ files[r].conv = k /\ files[r].ver = kept[k]
        BY <1>5, <2>1, Values DEF Inv, Surviving, Holds, NoSave
    <2>3. r # q
        BY <1>1, <1>2, <2>1, <2>2 DEF Inv, Named, Agree, HasText
    <2> QED
        BY <1>1, <2>1, <2>2, <2>3 DEF Holds, Inv, TypeOK
<1> QED
    BY <1>1, <1>4, <1>5

LEMMA DeleteStep ==
    ASSUME Inv, NEW p \in Places, DeleteListed(p)
    PROVE  Inv'
<1>1. PICK q \in Unlinked(Preferred(p), p[2]) : files' = [files EXCEPT ![q] = Absent]
    BY DEF DeleteListed
<1>2. /\ Readable(p) /\ GiveUp(files[p].conv)
      /\ writing = NoSave /\ UNCHANGED <<writing, memory, shared, clock, run>> /\ ops' \in Chats
    BY CommandFacts DEF DeleteListed
<1>3. /\ q \in Places /\ kept' \in [Chats -> 0 .. MaxOps]
      /\ \A k \in Chats \ shared : kept'[k] > 0 => Holds(files', k, kept'[k])
    BY <1>1, <1>2, UnlinkKeeps
<1>4. /\ files' \in [Places -> File]
      /\ \A r \in Places : HasText(files'[r]) => files'[r] = files[r]
    BY <1>1, <1>3, Values DEF Inv, TypeOK
<1>5. TypeOK'
    BY <1>2, <1>3, <1>4 DEF Inv, TypeOK, memory
<1>6. Numbered' /\ SaveRuns'
    BY <1>2, <1>4 DEF Inv, Numbered, SaveRuns
<1>7. Named(files)' /\ Current(files)' /\ Surviving(files, writing.data.conv)'
    BY <1>2, <1>3, <1>4 DEF Inv, Named, Current, Agree, Surviving, memory
<1> QED
    BY <1>5, <1>6, <1>7 DEF Inv

LEMMA SaveOverStep ==
    ASSUME Inv, NEW e \in Places, SaveOver(e)
    PROVE  Inv'
<1>1. /\ Command /\ e \in SameTitle /\ GiveUp(files[e].conv)
      /\ UNCHANGED <<card, path, note>>
    BY DEF SaveOver
<1>2. PICK q \in Unlinked(IF card \in Cards THEN Directory[card] ELSE NoDirectory, e[2]) :
          Save([files EXCEPT ![q] = Absent], e[2], OnScreen, card, path, NoNote, TRUE)
    BY DEF SaveOver
<1>3. Readable(e) /\ e[2] \in Ids /\ writing = NoSave
    BY <1>1, Values, CommandFacts DEF SameTitle
<1>4. /\ q \in Places /\ kept' \in [Chats -> 0 .. MaxOps]
      /\ \A k \in Chats \ shared : kept'[k] > 0 =>
             Holds([files EXCEPT ![q] = Absent], k, kept'[k])
    BY <1>1, <1>2, <1>3, UnlinkKeeps
<1>5. [files EXCEPT ![q] = Absent] \in FileSystems
    BY <1>4, Values DEF FileSystems, Inv, TypeOK
<1>6. \A r \in Places : [files EXCEPT ![q] = Absent][r] \in {files[r], Absent}
    BY DEF Inv, TypeOK
<1>7. card \in Names /\ path \in Names /\ note \in Notes \union {NoNote}
    BY DEF Inv, TypeOK
<1>8. OnScreen \in Histories /\ ~OnScreen.lost /\ ops' \in Chats /\ UNCHANGED <<clock, run>>
    BY <1>1, CommandFacts
<1>9. Excused(e[2], TRUE)
    BY DEF Excused
<1> QED
    BY <1>1, <1>2, <1>3, <1>4, <1>5, <1>6, <1>7, <1>8, <1>9, SaveInv

\* The end of a save: the file is whole.
LEMMA FinishStep == Inv /\ FinishSave => Inv'
<1> SUFFICES ASSUME Inv, FinishSave PROVE Inv'
    OBVIOUS
<1> DEFINE f == writing.data
<1>1. /\ writing.at \in Places /\ writing.at[2] = cid
      /\ ~HasText(files[writing.at]) /\ files[writing.at].state = "blank"
      /\ f \in File /\ f.state = "whole" /\ HasText(f)
      /\ f.conv = hist.conv /\ f.conv \in Chats /\ f.ver \in Chats /\ ~hist.lost
    BY Values DEF FinishSave, Inv, SaveRuns, TypeOK, HasText
<1>2. /\ files' = [files EXCEPT ![writing.at] = f]
      /\ kept' = [kept EXCEPT ![f.conv] = f.ver]
      /\ writing' = NoSave /\ shared' = shared /\ hist' = hist /\ cid' = cid
      /\ UNCHANGED <<memory, clock, run, ops>>
    BY DEF FinishSave, memory
<1> HIDE DEF f
<1>3. /\ files' \in [Places -> File] /\ files'[writing.at] = f
      /\ \A q \in Places : q # writing.at => files'[q] = files[q]
    BY <1>1, <1>2 DEF Inv, TypeOK
<1>4. \A q \in Places : q[2] = cid /\ HasText(files[q]) => Agree(files[q].conv, f.conv)
    BY <1>1 DEF Inv, Current
<1>5. TypeOK'
    <2>1. NoSave \in [at : Places \union {Nowhere}, data : File]
        BY Values DEF NoSave
    <2>2. kept' \in [Chats -> 0 .. MaxOps]
        BY <1>1, <1>2, Values DEF Inv, TypeOK
    <2> QED
        BY <1>2, <1>3, <2>1, <2>2 DEF Inv, TypeOK, memory
<1>6. Numbered' /\ SaveRuns'
    BY <1>1, <1>2, <1>3 DEF Inv, Numbered, SaveRuns
<1>7. Named(files)'
    <2> SUFFICES ASSUME NEW p \in Places, NEW q \in Places, p[2] = q[2],
                        HasText(files'[p]), HasText(files'[q])
                 PROVE  Agree(files'[p].conv, files'[q].conv)
        BY <1>2 DEF Named, Agree
    <2>1. CASE p = writing.at \/ q = writing.at
        BY <1>1, <1>2, <1>3, <1>4, <2>1 DEF Agree
    <2>2. CASE p # writing.at /\ q # writing.at
        BY <1>2, <1>3, <2>2 DEF Inv, Named, Agree
    <2> QED
        BY <2>1, <2>2
<1>8. Current(files)'
    BY <1>1, <1>2, <1>3 DEF Inv, Current, Agree
<1>9. Surviving(files, writing.data.conv)'
    <2> SUFFICES ASSUME NEW k \in Chats \ shared, kept'[k] > 0
                 PROVE  Holds(files', k, kept'[k])
        BY <1>2 DEF Surviving
    <2>1. CASE k = f.conv
        <3>1. kept'[k] = f.ver
            BY <1>2, <2>1 DEF Inv, TypeOK
        <3> QED
            BY <1>1, <1>3, <2>1, <3>1 DEF Holds
    <2>2. CASE k # f.conv
        <3>1. kept'[k] = kept[k]
            BY <1>2, <2>2 DEF Inv, TypeOK
        <3>2. Holds(files, k, kept[k])
            BY <2>2, <3>1 DEF Inv, Surviving, f
        <3>3. PICK r \in Places : files[r].state = "whole" /\ files[r].conv = k /\ files[r].ver = kept[k]
            BY <3>2 DEF Holds
        <3> QED
            BY <1>1, <1>3, <3>1, <3>3 DEF Holds
    <2> QED
        BY <2>1, <2>2
<1> QED
    BY <1>5, <1>6, <1>7, <1>8, <1>9 DEF Inv

\* What is left of a file is a file, and of the same chat if it has any text.
LEMMA TornFile ==
    ASSUME NEW whole \in File, NEW f \in Torn(whole)
    PROVE  f \in File /\ (HasText(f) => f.conv = whole.conv /\ f.ver = whole.ver)
<1>1. CASE f = Blank
    BY <1>1, Values
<1>2. CASE f = [whole EXCEPT !.state = "cut"]
    BY <1>2 DEF File, States
<1>3. CASE f = [whole EXCEPT !.state = "head"]
    BY <1>3 DEF File, States
<1>4. CASE f = [whole EXCEPT !.state = "head", !.note = NoNote]
    BY <1>4 DEF File, States
<1> QED
    BY <1>1, <1>2, <1>3, <1>4 DEF Torn

\* A save that stops short costs its own chat and no other. The memory of the
\* run may be gone with it.
LEMMA StopInv ==
    ASSUME Inv, writing # NoSave, StopShort, UNCHANGED shared,
           hist' \in Histories, cid' \in {cid, NoId}, cid' = cid => hist' = hist,
           card' \in Names, path' \in Names, note' \in Notes \union {NoNote},
           clock' \in 1 .. MaxClock, run' \in 1 .. MaxRuns, ops' \in Chats
    PROVE  Inv'
<1>1. /\ writing.at \in Places /\ writing.at[2] = cid
      /\ files[writing.at].state = "blank"
      /\ writing.data \in File /\ writing.data.conv = hist.conv /\ ~hist.lost
      /\ writing.data.conv \in Chats /\ writing.data.ver \in Chats
    BY Values DEF Inv, SaveRuns, TypeOK
<1>2. PICK f \in Torn(writing.data) : files' = [files EXCEPT ![writing.at] = f]
    BY DEF StopShort
<1>3. kept' = [kept EXCEPT ![writing.data.conv] = 0] /\ writing' = NoSave
    BY DEF StopShort, GiveUp
<1>4. /\ f \in File
      /\ HasText(f) => f.conv = writing.data.conv /\ f.ver = writing.data.ver
    BY <1>1, <1>2, TornFile
<1>5. /\ files' \in [Places -> File] /\ files'[writing.at] = f
      /\ \A q \in Places : q # writing.at => files'[q] = files[q]
    BY <1>1, <1>2, <1>4 DEF Inv, TypeOK
<1>6. \A q \in Places : q[2] = cid /\ HasText(files[q]) => Agree(files[q].conv, hist.conv)
    BY <1>1 DEF Inv, Current
<1>7. TypeOK'
    <2>1. NoSave \in [at : Places \union {Nowhere}, data : File]
        BY Values DEF NoSave
    <2>2. kept' \in [Chats -> 0 .. MaxOps]
        BY <1>1, <1>3, Values DEF Inv, TypeOK
    <2>3. cid' \in Ids \union {NoId}
        BY DEF Inv, TypeOK
    <2> QED
        BY <1>3, <1>5, <2>1, <2>2, <2>3 DEF Inv, TypeOK, Histories
<1>8. Numbered' /\ SaveRuns'
    BY <1>1, <1>3, <1>4, <1>5 DEF Inv, Numbered, SaveRuns
<1>9. Named(files)'
    <2> SUFFICES ASSUME NEW p \in Places, NEW q \in Places, p[2] = q[2],
                        HasText(files'[p]), HasText(files'[q])
                 PROVE  Agree(files'[p].conv, files'[q].conv)
        BY DEF Named, Agree
    <2>1. CASE p = writing.at \/ q = writing.at
        BY <1>1, <1>4, <1>5, <1>6, <2>1 DEF Agree
    <2>2. CASE p # writing.at /\ q # writing.at
        BY <1>5, <2>2 DEF Inv, Named
    <2> QED
        BY <2>1, <2>2
<1>10. Current(files)'
    BY <1>1, <1>4, <1>5, <1>6, Values DEF Current, Agree
<1>11. Surviving(files, writing.data.conv)'
    <2> SUFFICES ASSUME NEW k \in Chats \ shared, kept'[k] > 0
                 PROVE  Holds(files', k, kept'[k])
        BY DEF Surviving
    <2>1. k # writing.data.conv /\ kept'[k] = kept[k]
        BY <1>1, <1>3, Values DEF Inv, TypeOK
    <2>2. PICK r \in Places : files[r].state = "whole" /\ files[r].conv = k /\ files[r].ver = kept[k]
        BY <2>1 DEF Inv, Surviving, Holds
    <2> QED
        BY <1>1, <1>5, <2>1, <2>2 DEF Holds
<1> QED
    BY <1>7, <1>8, <1>9, <1>10, <1>11 DEF Inv

LEMMA DiskFullStep == Inv /\ DiskFull => Inv'
BY StopInv DEF DiskFull, memory, Inv, TypeOK, Histories

LEMMA RestartStep == Inv /\ Restart => Inv'
<1> SUFFICES ASSUME Inv, Restart PROVE Inv'
    OBVIOUS
<1>1. ops' \in Chats /\ Now \in Chats /\ run' \in 1 .. MaxRuns /\ clock' \in 1 .. MaxClock
    BY Values, StoreAssumption, SMTT(20) DEF Restart, Now, Inv, TypeOK, Chats
<1>2. /\ hist' \in Histories /\ ~hist'.lost /\ cid' = NoId
      /\ card' \in Names /\ path' \in Names /\ note' \in Notes \union {NoNote}
    BY <1>1 DEF Restart, NewChat, Histories, Names
<1>3. CASE writing # NoSave
    <2>1. CASE cid' = cid
        BY <1>3, <2>1, <1>2, Values DEF Inv, SaveRuns
    <2>2. CASE cid' # cid
        BY <1>1, <1>2, <1>3, <2>2, StopInv DEF Restart
    <2> QED
        BY <2>1, <2>2
<1>4. CASE writing = NoSave
    <2>1. UNCHANGED <<disk, kept, shared>>
        BY <1>4 DEF Restart
    <2>2. TypeOK' /\ Numbered' /\ SaveRuns' /\ Named(files)'
        BY <1>1, <1>2, <1>4, <2>1
           DEF Inv, TypeOK, Histories, Numbered, SaveRuns, Named, Agree, disk
    <2>3. Current(files)' /\ Surviving(files, writing.data.conv)'
        BY <1>2, <2>1, Values DEF Inv, Current, Surviving, disk
    <2> QED
        BY <2>2, <2>3 DEF Inv
<1> QED
    BY <1>3, <1>4

LEMMA NextInv == Inv /\ [Next]_vars => Inv'
<1> SUFFICES ASSUME Inv, [Next]_vars PROVE Inv'
    OBVIOUS
<1>1. CASE Speak \/ Begin
    BY <1>1, SavingStep, QuietStep DEF Speak
<1>2. CASE Load
    BY <1>2, LoadStep
<1>3. CASE Dialog
    BY <1>3, SavingStep, DeleteStep, SaveOverStep DEF Dialog
<1>4. CASE FinishSave \/ DiskFull \/ Restart
    BY <1>4, FinishStep, DiskFullStep, RestartStep
<1>5. CASE Tick \/ UNCHANGED vars
    BY <1>5, QuietStep
<1> QED
    BY <1>1, <1>2, <1>3, <1>4, <1>5 DEF Next

\* The inductive invariant holds in every reachable state: what a running save
\* writes is the current chat, files of one id agree, and kept chats are there.
THEOREM StoreSafety == Spec => []Inv
BY InitInv, NextInv, PTL DEF Spec

\* Every variable of the store keeps its type.
THEOREM StoreTypes == Spec => []TypeOK
BY StoreSafety, InvImplies, PTL

\* Whatever a save has completed stays in a whole file, through loads, forks,
\* restarts and torn saves of other chats, until the user gives it up or its id
\* is reused in an excused way.
THEOREM KeptChatsSurvive == Spec => []ChatsSurvive
BY StoreSafety, InvImplies, PTL

\* Searching every directory for an id finds files of one chat only, and the next
\* save never replaces a file of another chat.
THEOREM IdsNameOneChat == Spec => []IdNamesOneChat
BY StoreSafety, InvImplies, PTL
=============================================================================
