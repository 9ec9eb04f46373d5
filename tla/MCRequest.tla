------------------------------ MODULE MCRequest ------------------------------
(***************************************************************************)
(* A request for TLC: what is sent, the reply to it as it comes, and the   *)
(* file in which the chat is then saved. None depends on what another made *)
(* of its texts, so each behaviour is of one of the three.                 *)
(***************************************************************************)
EXTENDS Prompt

CONSTANTS MaxLine, MaxBytes, MaxRead

ASSUME RequestAssumption == MaxLine \in Nat \ {0}

First == CHOOSE w \in Words : TRUE
\* Where a flag cannot count, one value of it is enough.
Entry == {e \in [keys : {Words, {First}}, secondary : SUBSET Words, selective : BOOLEAN,
                constant : BOOLEAN, disabled : BOOLEAN, order : {0, 1}] :
            /\ (e.disabled \/ e.constant) => e.keys = Words /\ e.secondary = {}
            /\ e.secondary = {} => e.selective}
TheAvailable == {-1, 0, 1, 3, 4}
TheBooks == {<<e, f>> : e \in Entry, f \in Entry}

\* Texts of a chat with every character the format gives a meaning
Texts ==
    UNION {[1 .. n -> {"x", "\"", "\\", "newline", "control", "{", "}", "]"}] : n \in 0 .. 2}
Said(role, active, swipes) == [role |-> role, active |-> active, swipes |-> swipes]
TheChats ==
    {[note |-> <<>>, messages |-> <<Said("user", "0", <<s>>), Said("assistant", "0", <<t>>)>>] :
        s \in Texts, t \in Texts}
    \union {[note |-> s, messages |-> <<Said("system", a, <<t, <<"x">>>>)>>] :
                s \in Texts, t \in Texts, a \in {"0", "1"}}
IdleChat == [note |-> <<>>, messages |-> <<Said("system", "0", <<<<>>, <<"x">>>>)>>]

VARIABLES
    side,
    anthropic, received, line, reply, reasoning, ended,
    chat, file, step, pos, noteRead, messages

Reply == INSTANCE Stream
File == INSTANCE ChatCodec WITH
    Chats <- TheChats, Numbers <- <<"0", "1", "2", "3", "4", "5", "6", "7", "8">>,
    pc <- step, note <- noteRead

replyVars == <<anthropic, received, line, reply, reasoning, ended>>
fileVars == <<chat, file, step, pos, noteRead, messages>>
requestVars == <<side, promptVars, replyVars, fileVars>>

RequestInit ==
    /\ \/ side = "prompt" /\ Init
       \/ /\ side \in {"reply", "file"}
          /\ Init /\ backend = "openai" /\ available = 0 /\ history = <<>>
          /\ note.at = "none" /\ note.depth = 0 /\ note.role = "user" /\ extras = {}
    /\ Reply!Init /\ (side # "reply" => ~anthropic)
    /\ (side = "file" \/ chat = IdleChat) /\ File!Init

RequestNext ==
    /\ UNCHANGED side
    /\ \/ side = "prompt" /\ Next /\ UNCHANGED <<replyVars, fileVars>>
       \/ side = "reply" /\ Reply!Next /\ UNCHANGED <<promptVars, fileVars>>
       \/ side = "file" /\ File!Next /\ UNCHANGED <<promptVars, replyVars>>

RequestSpec == RequestInit /\ [][RequestNext]_requestVars

IsRelay == Reply!IsRelay
ChatComesBack == File!ChatComesBack

\* A chat that is loaded has every message as it was saved
\* (tests/integration/test_chat_integration.c:6).
MessagesComeBack == step = "done" => messages = chat.messages
=============================================================================
