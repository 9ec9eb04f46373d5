---------------------------- MODULE Conversation ----------------------------
(***************************************************************************)
(* What the chat screen promises, without windows, keys and streaming: a   *)
(* log of turns, a request that is answered at once and as a whole, and a  *)
(* file that always holds the log as it was after some operation.          *)
(*                                                                         *)
(* A turn is a record with a role, a non-empty sequence of swipes and the  *)
(* index of the active one.                                                *)
(***************************************************************************)
EXTENDS Integers, Sequences

CONSTANT MaxSwipes

VARIABLES log,       \* the turns
          waiting,   \* a request has been made and not been answered
          file       \* the log as last saved, <<>> before the first save

vars == <<log, waiting, file>>

Init == Len(log) = 1 /\ waiting = FALSE /\ file = <<>>

-----------------------------------------------------------------------------
Saves == file' = log'
Keeps == file' = file

\* n turns are added at the end.
Grows(n) == Len(log') = Len(log) + n /\ SubSeq(log', 1, Len(log)) = log

\* Every turn but turn i stays as it is.
Touches(i) == Len(log') = Len(log) /\ \A k \in DOMAIN log \ {i} : log'[k] = log[k]

\* Turn i gets one swipe more and shows it.
Adds(i) ==
    /\ Touches(i)
    /\ log'[i].role = log[i].role
    /\ log'[i].active = Len(log[i].swipes) + 1
    /\ Len(log'[i].swipes) = log'[i].active
    /\ SubSeq(log'[i].swipes, 1, Len(log[i].swipes)) = log[i].swipes

\* In turn i at most the text of swipe j changes.
Rewrites(i, j) ==
    /\ Touches(i)
    /\ j \in DOMAIN log'[i].swipes
    /\ log'[i] = [log[i] EXCEPT !.swipes[j] = log'[i].swipes[j]]

-----------------------------------------------------------------------------
\* A user's turn is added, and its answer is awaited.
Ask ==
    /\ ~waiting /\ waiting'
    /\ Grows(1) /\ log'[Len(log')].role = "user"
    /\ Keeps

\* Another swipe of the last turn is awaited.
AskAgain == ~waiting /\ waiting' /\ log # <<>> /\ log' = log /\ Keeps

\* The answer is one turn or one swipe at the end of the log. Only a turn with
\* MaxSwipes swipes loses a text to it. The answer is saved.
Answer ==
    /\ waiting /\ ~waiting'
    /\ LET last == Len(log)
       IN  \/ Grows(1) /\ log'[Len(log')].role = "assistant"
           \/ log[last].role # "user" /\ Adds(last)
           \/ Len(log[last].swipes) = MaxSwipes /\ Rewrites(last, MaxSwipes)
    /\ Saves

\* The user works on the log: nothing of this happens while an answer is awaited.
Work ==
    /\ ~waiting /\ ~waiting'
    /\ \/ \E n \in 1 .. 2 : Grows(n) /\ (Saves \/ Keeps)
       \/ \E i \in DOMAIN log : Adds(i) /\ Saves
       \/ \E i \in DOMAIN log : \E j \in DOMAIN log[i].swipes : Rewrites(i, j) /\ Saves
       \/ \E i \in DOMAIN log : \E j \in DOMAIN log[i].swipes :
              log' = [log EXCEPT ![i].active = j] /\ (Saves \/ (Keeps /\ i = Len(log)))
       \/ \E i \in 2 .. Len(log) :
              log' = [log EXCEPT ![i] = log[i - 1], ![i - 1] = log[i]] /\ Saves
       \/ \E i \in DOMAIN log :
              /\ log' = SubSeq(log, 1, i - 1) \o SubSeq(log, i + 1, Len(log))
              /\ IF log' = <<>> THEN Keeps ELSE Saves
       \/ Len(log') = 1 /\ Saves
       \/ log' \in {file, <<>>} /\ Keeps

Next == Ask \/ AskAgain \/ Answer \/ Work

Safety == Init /\ [][Next]_vars

Spec == Safety /\ (waiting ~> ~waiting)
=============================================================================
