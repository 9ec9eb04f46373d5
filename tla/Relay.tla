-------------------------------- MODULE Relay --------------------------------
(***************************************************************************)
(* What the streaming of a reply promises, whatever the network does to    *)
(* the bytes: the texts of the server's events are put together in the     *)
(* order in which they were sent, each once and none before it is there.   *)
(***************************************************************************)
EXTENDS Sequences, SequencesExt

VARIABLES
    events,  \* that the server has sent, each [kind, text]
    reply, reasoning  \* what the client has put together of them

relayVars == <<events, reply, reasoning>>

Texts(evs, kind) ==
    FoldLeft(LAMBDA text, e : IF e.kind = kind THEN text \o e.text ELSE text, <<>>, evs)

Init == events = <<>> /\ reply = <<>> /\ reasoning = <<>>

\* Some events more, and all of them put in their place
Deliver ==
    /\ IsPrefix(events, events')
    /\ reply' = Texts(events', "content")
    /\ reasoning' = Texts(events', "reasoning")

Next == Deliver

Spec == Init /\ [][Next]_relayVars
=============================================================================
