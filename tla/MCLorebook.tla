----------------------------- MODULE MCLorebook -----------------------------
(***************************************************************************)
(* Lorebook for TLC: every file of up to four entries, with uids that the  *)
(* loader hands out and one that it does not, and every file of up to      *)
(* three tokens of all kinds.                                              *)
(***************************************************************************)
EXTENDS Lorebook

EntriesOf(uids) == [kind : {"entry"}, uid : uids, off : {FALSE}]
Others == [kind : {"comma", "other"}, uid : {0}, off : {FALSE}]
UpTo(n, tokens) == UNION {[1 .. k -> tokens] : k \in 0 .. n}
TheFiles == UpTo(4, EntriesOf({1, 2, 3, 7})) \union UpTo(3, EntriesOf({0, 2}) \union Others)
=============================================================================
