---------------------------- MODULE MCChatStore ----------------------------
(***************************************************************************)
(* ChatStore for TLC: one card, so two directories; two seconds and two    *)
(* runs, so four ids; one note.                                            *)
(***************************************************************************)
EXTENDS ChatStore, TLC

CONSTANTS Ann, Text

TheCards == {Ann}
TheDirectory == Ann :> "ann" @@ Nobody :> "_default" @@ Erased :> "_default"
TheNotes == {Text}
=============================================================================
