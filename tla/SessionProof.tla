---------------------------- MODULE SessionProof ----------------------------
(***************************************************************************)
(* Proofs about Session, for every value of its constants: what keys point *)
(* at and what a request is given (Inv), what the texts are while a        *)
(* request runs (TextInv, over Inv), and that the screen is a Conversation.*)
(***************************************************************************)
EXTENDS Session, SequenceTheorems, TLAPS

-----------------------------------------------------------------------------
(***************************************************************************)
(* The operations of History keep a history well formed.                   *)
(***************************************************************************)
LEMMA ReplaceElement ==
    ASSUME NEW S, NEW s \in Seq(S), NEW i \in DOMAIN s, NEW x \in S
    PROVE  /\ [s EXCEPT ![i] = x] \in Seq(S)
           /\ Len([s EXCEPT ![i] = x]) = Len(s)
           /\ DOMAIN [s EXCEPT ![i] = x] = DOMAIN s
<1>1. i \in 1 .. Len(s)
    OBVIOUS
<1> QED
    BY <1>1, ExceptSeq

LEMMA FunctionIsSeq ==
    ASSUME NEW S, NEW n \in Nat, NEW f \in [1 .. n -> S]
    PROVE  f \in Seq(S) /\ Len(f) = n
<1>1. f \in Seq(S)
    BY SeqDef
<1> QED
    BY <1>1, LenProperties

LEMMA ReplaceMessage ==
    ASSUME NEW h, WellFormedHistory(h), NEW i \in DOMAIN h, NEW m, WellFormed(m)
    PROVE  WellFormedHistory([h EXCEPT ![i] = m]) /\ Len([h EXCEPT ![i] = m]) = Len(h)
<1>1. m \in Message
    BY DEF WellFormed
<1>2. h \in Seq(Message)
    BY DEF WellFormedHistory
<1>3. /\ [h EXCEPT ![i] = m] \in Seq(Message)
      /\ Len([h EXCEPT ![i] = m]) = Len(h)
      /\ DOMAIN [h EXCEPT ![i] = m] = DOMAIN h
    BY <1>1, <1>2, ReplaceElement
<1>4. ASSUME NEW k \in DOMAIN h
      PROVE  WellFormed([h EXCEPT ![i] = m][k])
    <2>1. [h EXCEPT ![i] = m][k] = IF k = i THEN m ELSE h[k]
        BY <1>2
    <2> QED
        BY <2>1 DEF WellFormedHistory
<1> QED
    BY <1>3, <1>4 DEF WellFormedHistory

LEMMA FreshWellFormed ==
    ASSUME NEW text \in Text, NEW role \in Roles
    PROVE  WellFormed(Fresh(text, role))
BY DEF WellFormed, Fresh, Message

LEMMA AddWellFormed ==
    ASSUME NEW h, WellFormedHistory(h), NEW text \in Text, NEW role \in Roles
    PROVE  /\ WellFormedHistory(Add(h, text, role))
           /\ Len(Add(h, text, role)) = Len(h) + 1
<1>1. WellFormed(Fresh(text, role))
    BY FreshWellFormed
<1>2. Fresh(text, role) \in Message
    BY <1>1 DEF WellFormed
<1> QED
    BY <1>1, <1>2 DEF Add, WellFormedHistory

LEMMA NewTexts ==
    ASSUME NEW m, WellFormed(m), NEW s \in Seq(Text), Len(s) = Len(m.swipes)
    PROVE  WellFormed([m EXCEPT !.swipes = s])
BY DEF WellFormed, Message

LEMMA UpdateSwipeWellFormed ==
    ASSUME NEW h, WellFormedHistory(h), NEW i, NEW j, NEW text \in Text
    PROVE  /\ WellFormedHistory(UpdateSwipe(h, i, j, text))
           /\ Len(UpdateSwipe(h, i, j, text)) = Len(h)
<1>1. CASE ~HasSwipe(h, i, j)
    BY <1>1 DEF UpdateSwipe
<1>2. CASE HasSwipe(h, i, j)
    <2> DEFINE s == [h[i].swipes EXCEPT ![j] = text]
    <2>1. WellFormed(h[i]) /\ i \in DOMAIN h /\ h[i].swipes \in Seq(Text)
        BY <1>2 DEF WellFormedHistory, HasSwipe, WellFormed, Message
    <2>2. s \in Seq(Text) /\ Len(s) = Len(h[i].swipes)
        <3>1. j \in DOMAIN h[i].swipes
            BY <1>2 DEF HasSwipe
        <3> QED
            BY <2>1, <3>1, ReplaceElement
    <2>3. WellFormed([h[i] EXCEPT !.swipes = s])
        BY <2>1, <2>2, NewTexts
    <2>4. UpdateSwipe(h, i, j, text) = [h EXCEPT ![i] = [h[i] EXCEPT !.swipes = s]]
        BY <1>2, <2>1 DEF UpdateSwipe, WellFormedHistory
    <2>5. WellFormedHistory([h EXCEPT ![i] = [h[i] EXCEPT !.swipes = s]])
          /\ Len([h EXCEPT ![i] = [h[i] EXCEPT !.swipes = s]]) = Len(h)
        <3> HIDE DEF s
        <3> QED
            BY <2>1, <2>3, ReplaceMessage
    <2> QED
        BY <2>4, <2>5
<1> QED
    BY <1>1, <1>2

LEMMA UpdateWellFormed ==
    ASSUME NEW h, WellFormedHistory(h), NEW i, NEW text \in Text
    PROVE  /\ WellFormedHistory(Update(h, i, text))
           /\ Len(Update(h, i, text)) = Len(h)
BY UpdateSwipeWellFormed DEF Update

\* The array of a message, as history_add_swipe leaves it: unwritten slots only where
\* the array was NULL, and that was when there was one swipe.
LEMMA GrownFinishFacts ==
    ASSUME NEW m, WellFormed(m)
    PROVE  /\ GrownFinish(m) \in Seq(Nat \cup {Junk}) /\ GrownFinish(m) # <<>>
           /\ Len(GrownFinish(m)) = Len(m.swipes) + 1
           /\ \A j \in DOMAIN GrownFinish(m) : GrownFinish(m)[j] = Junk => j = 1
           /\ \A j \in 1 .. Len(m.swipes) :
                  GrownFinish(m)[j] = Junk \/ (j \in DOMAIN m.finish /\ GrownFinish(m)[j] = m.finish[j])
           /\ GrownFinish(m)[Len(m.swipes) + 1] = 0
<1> DEFINE a == IF m.finish = <<>> THEN [k \in DOMAIN m.swipes |-> Junk] ELSE m.finish
<1>1. /\ m.finish \in Seq(Nat \cup {Junk}) /\ Len(m.swipes) \in Nat
      /\ DOMAIN m.swipes = 1 .. Len(m.swipes)
      /\ m.finish = <<>> => Len(m.swipes) = 1
      /\ m.finish # <<>> => Len(m.finish) = Len(m.swipes)
      /\ \A j \in DOMAIN m.finish : m.finish[j] = Junk => j = 1
    BY DEF WellFormed, Message
<1>2. /\ a \in Seq(Nat \cup {Junk}) /\ Len(a) = Len(m.swipes)
      /\ \A j \in DOMAIN a : a[j] = Junk => j = 1
      /\ \A j \in DOMAIN a : a[j] = Junk \/ (j \in DOMAIN m.finish /\ a[j] = m.finish[j])
    <2>1. CASE m.finish = <<>>
        <3>3. a = [k \in 1 .. 1 |-> Junk] /\ Len(m.swipes) = 1
            BY <1>1, <2>1
        <3>1. a \in [1 .. Len(m.swipes) -> Nat \cup {Junk}] /\ \A j \in DOMAIN a : j = 1 /\ a[j] = Junk
            <4> HIDE DEF a
            <4> QED
                BY <3>3
        <3> HIDE DEF a
        <3>2. a \in Seq(Nat \cup {Junk}) /\ Len(a) = Len(m.swipes)
            BY <1>1, <3>1, FunctionIsSeq
        <3> QED
            BY <3>1, <3>2
    <2>2. CASE m.finish # <<>>
        <3>1. a = m.finish
            BY <2>2
        <3> HIDE DEF a
        <3> QED
            BY <1>1, <2>2, <3>1
    <2> QED
        BY <2>1, <2>2
<1>3. GrownFinish(m) = Append(a, 0)
    BY DEF GrownFinish
<1> HIDE DEF a
<1>4. /\ Append(a, 0) \in Seq(Nat \cup {Junk}) /\ Len(Append(a, 0)) = Len(a) + 1
      /\ \A j \in 1 .. Len(a) : Append(a, 0)[j] = a[j] /\ j \in DOMAIN a
      /\ Append(a, 0)[Len(a) + 1] = 0
      /\ DOMAIN Append(a, 0) = 1 .. Len(a) + 1
    BY <1>2
<1>5. \A j \in 1 .. Len(a) + 1 : j \in 1 .. Len(a) \/ j = Len(a) + 1
    BY <1>2
<1>6. Append(a, 0) # <<>>
    BY <1>1, <1>2, <1>4
<1>7. \A j \in DOMAIN Append(a, 0) : Append(a, 0)[j] = Junk => j = 1
    BY <1>2, <1>4, <1>5 DEF Junk
<1> QED
    BY <1>1, <1>2, <1>3, <1>4, <1>6, <1>7

LEMMA GrowWellFormed ==
    ASSUME NEW m, WellFormed(m), NEW text \in Text
    PROVE  WellFormed(Grow(m, text))
<1> DEFINE s == Append(m.swipes, text)
           t == Append(m.stats, 0)
           u == GrownFinish(m)
<1>1. /\ m \in Message /\ m.swipes \in Seq(Text) /\ m.stats \in Seq(Nat)
      /\ Len(m.swipes) \in Nat /\ m.reasoning \in Seq(Nat)
    BY DEF WellFormed, Message
<1>2. s \in Seq(Text) /\ Len(s) = Len(m.swipes) + 1
    BY <1>1
<1>3. t \in Seq(Nat) /\ Len(t) = Len(m.stats) + 1
    BY <1>1
<1>4. Grow(m, text) = [m EXCEPT !.swipes = s, !.stats = t, !.finish = u,
                                !.active = Len(m.swipes) + 1]
    BY DEF Grow
<1>6. /\ u \in Seq(Nat \cup {Junk}) /\ Len(u) = Len(m.swipes) + 1 /\ u # <<>>
      /\ \A j \in DOMAIN u : u[j] = Junk => j = 1
    BY GrownFinishFacts
<1> HIDE DEF s, t, u
<1>5. Grow(m, text) = [role |-> m.role, swipes |-> s, active |-> Len(m.swipes) + 1,
                       stats |-> t, finish |-> u, reasoning |-> m.reasoning]
    BY <1>1, <1>4 DEF Message
<1>7. Len(m.swipes) >= 1 /\ Len(m.stats) = Len(m.swipes) /\ Len(m.reasoning) \in 0 .. Len(m.swipes)
      /\ m.role \in Roles /\ m.reasoning \in Seq(Nat) /\ Len(m.swipes) \in Nat
    BY <1>1 DEF WellFormed, Message
<1> DEFINE g == [role |-> m.role, swipes |-> s, active |-> Len(m.swipes) + 1,
                 stats |-> t, finish |-> u, reasoning |-> m.reasoning]
<1>8. /\ g.role = m.role /\ g.swipes = s /\ g.active = Len(m.swipes) + 1
      /\ g.stats = t /\ g.finish = u /\ g.reasoning = m.reasoning
    OBVIOUS
<1>9. g \in Message
    BY <1>2, <1>3, <1>6, <1>7 DEF Message
<1> HIDE DEF g
<1>10. WellFormed(g)
    BY <1>2, <1>3, <1>6, <1>7, <1>8, <1>9 DEF WellFormed
<1> QED
    BY <1>5, <1>10 DEF g

LEMMA AddSwipeWellFormed ==
    ASSUME NEW h, WellFormedHistory(h), NEW i, NEW text \in Text
    PROVE  /\ WellFormedHistory(AddSwipe(h, i, text))
           /\ Len(AddSwipe(h, i, text)) = Len(h)
<1>1. CASE i \in DOMAIN h /\ Len(h[i].swipes) < MaxSwipes
    <2>1. WellFormed(Grow(h[i], text))
        BY <1>1, GrowWellFormed DEF WellFormedHistory
    <2>2. AddSwipe(h, i, text) = [h EXCEPT ![i] = Grow(h[i], text)]
        BY <1>1 DEF AddSwipe
    <2>3. /\ WellFormedHistory([h EXCEPT ![i] = Grow(h[i], text)])
          /\ Len([h EXCEPT ![i] = Grow(h[i], text)]) = Len(h)
        BY <1>1, <2>1, ReplaceMessage
    <2> QED
        BY <2>2, <2>3
<1>2. CASE ~(i \in DOMAIN h /\ Len(h[i].swipes) < MaxSwipes)
    BY <1>2 DEF AddSwipe
<1> QED
    BY <1>1, <1>2

LEMMA SetActiveWellFormed ==
    ASSUME NEW h, WellFormedHistory(h), NEW i, NEW j
    PROVE  /\ WellFormedHistory(SetActive(h, i, j))
           /\ Len(SetActive(h, i, j)) = Len(h)
<1>1. CASE HasSwipe(h, i, j)
    <2> DEFINE m == h[i]
    <2>1. i \in DOMAIN h /\ WellFormed(m) /\ j \in 1 .. Len(m.swipes)
        <3>1. i \in DOMAIN h /\ WellFormed(m) /\ j \in DOMAIN m.swipes
            BY <1>1 DEF HasSwipe, WellFormedHistory
        <3> HIDE DEF m
        <3>2. m.swipes \in Seq(Text)
            BY <3>1 DEF WellFormed, Message
        <3> QED
            BY <3>1, <3>2
    <2>2. SetActive(h, i, j) = [h EXCEPT ![i] = [m EXCEPT !.active = j]]
        BY <1>1, <2>1 DEF SetActive, WellFormedHistory
    <2>3. WellFormed([m EXCEPT !.active = j])
        <3> HIDE DEF m
        <3>1. m \in Message /\ Len(m.swipes) \in Nat /\ j \in Nat
            BY <2>1 DEF WellFormed, Message
        <3>2. [m EXCEPT !.active = j] \in Message
            BY <3>1 DEF Message
        <3> QED
            BY <2>1, <3>1, <3>2 DEF WellFormed, Message
    <2>4. WellFormedHistory([h EXCEPT ![i] = [m EXCEPT !.active = j]])
          /\ Len([h EXCEPT ![i] = [m EXCEPT !.active = j]]) = Len(h)
        BY <2>1, <2>3, ReplaceMessage
    <2> QED
        BY <2>2, <2>4
<1>2. CASE ~HasSwipe(h, i, j)
    BY <1>2 DEF SetActive
<1> QED
    BY <1>1, <1>2

LEMMA DeleteWellFormed ==
    ASSUME NEW h, WellFormedHistory(h), NEW i \in DOMAIN h
    PROVE  /\ WellFormedHistory(Delete(h, i))
           /\ Len(Delete(h, i)) = Len(h) - 1
<1> DEFINE n == Len(h) - 1
           f == [k \in 1 .. n |-> IF k < i THEN h[k] ELSE h[k + 1]]
<1>1. n \in Nat /\ i \in 1 .. Len(h) /\ h \in Seq(Message) /\ DOMAIN h = 1 .. Len(h)
    BY DEF WellFormedHistory
<1>2. \A k \in 1 .. n : WellFormed(IF k < i THEN h[k] ELSE h[k + 1])
    BY <1>1 DEF WellFormedHistory
<1>3. f \in [1 .. n -> Message]
    BY <1>2 DEF WellFormed
<1>4. f \in Seq(Message) /\ Len(f) = n
    BY <1>1, <1>3, FunctionIsSeq
<1>5. Delete(h, i) = f
    BY DEF Delete
<1>6. \A k \in DOMAIN f : WellFormed(f[k])
    BY <1>2
<1> QED
    BY <1>4, <1>5, <1>6 DEF WellFormedHistory

LEMMA SwapWellFormed ==
    ASSUME NEW h, WellFormedHistory(h), NEW i \in DOMAIN h, NEW j \in DOMAIN h
    PROVE  WellFormedHistory(Swap(h, i, j)) /\ Len(Swap(h, i, j)) = Len(h)
<1> DEFINE g == [h EXCEPT ![i] = h[j]]
<1>1. WellFormed(h[i]) /\ WellFormed(h[j])
    BY DEF WellFormedHistory
<1>2. WellFormedHistory(g) /\ Len(g) = Len(h) /\ DOMAIN g = DOMAIN h
    BY <1>1, ReplaceMessage
<1>3. Swap(h, i, j) = [g EXCEPT ![j] = h[i]]
    BY DEF Swap
<1>4. WellFormedHistory([g EXCEPT ![j] = h[i]]) /\ Len([g EXCEPT ![j] = h[i]]) = Len(g)
    <2> HIDE DEF g
    <2> QED
        BY <1>1, <1>2, ReplaceMessage
<1> QED
    BY <1>2, <1>3, <1>4

LEMMA SetStatsWellFormed ==
    ASSUME NEW h, WellFormedHistory(h), NEW i, NEW j, NEW r \in Nat
    PROVE  WellFormedHistory(SetStats(h, i, j, r)) /\ Len(SetStats(h, i, j, r)) = Len(h)
<1>1. CASE HasSwipe(h, i, j)
    <2> DEFINE m == h[i]
               t == [m.stats EXCEPT ![j] = r]
               m2 == [m EXCEPT !.stats = t]
    <2>1. i \in DOMAIN h /\ WellFormed(m) /\ j \in DOMAIN m.stats /\ m.stats \in Seq(Nat)
        <3>1. i \in DOMAIN h /\ WellFormed(m) /\ j \in DOMAIN m.swipes
            BY <1>1 DEF HasSwipe, WellFormedHistory
        <3> HIDE DEF m
        <3> QED
            BY <3>1 DEF WellFormed, Message
    <2>2. t \in Seq(Nat) /\ Len(t) = Len(m.stats)
        BY <2>1, ReplaceElement
    <2>3. SetStats(h, i, j, r) = [h EXCEPT ![i] = m2]
        BY <1>1, <2>1 DEF SetStats, WellFormedHistory
    <2>4. WellFormed(m2)
        <3> HIDE DEF m, t
        <3> QED
            BY <2>1, <2>2 DEF WellFormed, Message
    <2>5. WellFormedHistory([h EXCEPT ![i] = m2]) /\ Len([h EXCEPT ![i] = m2]) = Len(h)
        <3> HIDE DEF m2
        <3> QED
            BY <2>1, <2>4, ReplaceMessage
    <2> QED
        BY <2>3, <2>5
<1>2. CASE ~HasSwipe(h, i, j)
    BY <1>2 DEF SetStats
<1> QED
    BY <1>1, <1>2

\* What history_set_finish_reason makes of the array
LEMMA FinishArrayFacts ==
    ASSUME NEW m, WellFormed(m)
    PROVE  /\ FinishArray(m) \in Seq(Nat \cup {Junk}) /\ Len(FinishArray(m)) = Len(m.swipes)
           /\ DOMAIN FinishArray(m) = DOMAIN m.swipes
           /\ \A j \in DOMAIN FinishArray(m) :
                  /\ FinishArray(m)[j] = Junk => j = 1 /\ Len(m.swipes) > 1
                  /\ FinishArray(m)[j] = 0
                     \/ (j \in DOMAIN m.finish /\ FinishArray(m)[j] = m.finish[j])
<1>1. /\ m.finish \in Seq(Nat \cup {Junk}) /\ Len(m.swipes) \in Nat
      /\ DOMAIN m.swipes = 1 .. Len(m.swipes)
      /\ m.finish # <<>> => Len(m.finish) = Len(m.swipes)
      /\ \A j \in DOMAIN m.finish : m.finish[j] = Junk => j = 1 /\ Len(m.swipes) > 1
    BY DEF WellFormed, Message
<1>2. CASE m.finish = <<>>
    <2> DEFINE z == [k \in 1 .. Len(m.swipes) |-> 0]
    <2>1. z \in [1 .. Len(m.swipes) -> Nat \cup {Junk}] /\ \A j \in DOMAIN z : z[j] = 0
        OBVIOUS
    <2>2. FinishArray(m) = z
        BY <1>1, <1>2 DEF FinishArray
    <2> HIDE DEF z
    <2>3. z \in Seq(Nat \cup {Junk}) /\ Len(z) = Len(m.swipes)
        BY <1>1, <2>1, FunctionIsSeq
    <2> QED
        BY <1>1, <2>1, <2>2, <2>3 DEF Junk
<1>3. CASE m.finish # <<>>
    BY <1>1, <1>3 DEF FinishArray
<1> QED
    BY <1>2, <1>3

LEMMA SetFinishWellFormed ==
    ASSUME NEW h, WellFormedHistory(h), NEW i, NEW j, NEW r \in Nat
    PROVE  WellFormedHistory(SetFinish(h, i, j, r)) /\ Len(SetFinish(h, i, j, r)) = Len(h)
<1>1. CASE HasSwipe(h, i, j)
    <2> DEFINE m == h[i]
               a == FinishArray(m)
               t == [a EXCEPT ![j] = r]
               m2 == [m EXCEPT !.finish = t]
    <2>1. i \in DOMAIN h /\ WellFormed(m) /\ j \in DOMAIN m.swipes
        BY <1>1 DEF HasSwipe, WellFormedHistory
    <2>2. /\ a \in Seq(Nat \cup {Junk}) /\ Len(a) = Len(m.swipes) /\ j \in DOMAIN a
          /\ \A k \in DOMAIN a : a[k] = Junk => k = 1 /\ Len(m.swipes) > 1
        BY <2>1, FinishArrayFacts
    <2>3. /\ t \in Seq(Nat \cup {Junk}) /\ Len(t) = Len(m.swipes) /\ DOMAIN t = DOMAIN a
          /\ \A k \in DOMAIN t : t[k] = Junk => k = 1 /\ Len(m.swipes) > 1
        <3> HIDE DEF a, m
        <3>1. /\ t \in Seq(Nat \cup {Junk}) /\ Len(t) = Len(a) /\ DOMAIN t = DOMAIN a
            BY <2>2, ReplaceElement
        <3>2. \A k \in DOMAIN t : t[k] = IF k = j THEN r ELSE a[k]
            OBVIOUS
        <3> QED
            BY <2>2, <3>1, <3>2 DEF Junk
    <2>4. SetFinish(h, i, j, r) = [h EXCEPT ![i] = m2]
        BY <1>1, <2>1 DEF SetFinish, WellFormedHistory
    <2>5. WellFormed(m2)
        <3> HIDE DEF m, a, t
        <3>1. /\ m2.finish = t /\ m2.swipes = m.swipes /\ m2 \in Message
              /\ m2.active = m.active /\ m2.stats = m.stats /\ m2.reasoning = m.reasoning
            BY <2>1, <2>3 DEF WellFormed, Message
        <3>2. t = <<>> => Len(m.swipes) = 0
            BY <2>3
        <3>3. Len(m.swipes) # 0
            BY <2>1 DEF WellFormed, Message
        <3> HIDE DEF m2
        <3> QED
            BY <2>1, <2>3, <3>1, <3>2, <3>3 DEF WellFormed
    <2>6. WellFormedHistory([h EXCEPT ![i] = m2]) /\ Len([h EXCEPT ![i] = m2]) = Len(h)
        <3> HIDE DEF m2
        <3> QED
            BY <2>1, <2>5, ReplaceMessage
    <2> QED
        BY <2>4, <2>6
<1>2. CASE ~HasSwipe(h, i, j)
    BY <1>2 DEF SetFinish
<1> QED
    BY <1>1, <1>2

LEMMA SetReasoningWellFormed ==
    ASSUME NEW h, WellFormedHistory(h), NEW i, NEW j, NEW r \in Nat
    PROVE  /\ WellFormedHistory(SetReasoning(h, i, j, r))
           /\ Len(SetReasoning(h, i, j, r)) = Len(h)
<1>1. CASE HasSwipe(h, i, j) /\ ReasoningFits(h[i], j)
    <2> DEFINE m == h[i]
               a == ReasoningArray(m)
               t == [a EXCEPT ![j] = r]
               m2 == [m EXCEPT !.reasoning = t]
    <2>1. i \in DOMAIN h /\ WellFormed(m) /\ j \in DOMAIN a
        BY <1>1 DEF HasSwipe, WellFormedHistory, ReasoningFits
    <2>2. a \in Seq(Nat) /\ Len(a) \in 0 .. Len(m.swipes)
        <3> HIDE DEF m
        <3>1. /\ m.reasoning \in Seq(Nat) /\ Len(m.reasoning) \in 0 .. Len(m.swipes)
              /\ Len(m.swipes) \in Nat /\ DOMAIN m.swipes = 1 .. Len(m.swipes)
            BY <2>1 DEF WellFormed, Message
        <3>2. [k \in 1 .. Len(m.swipes) |-> 0] \in [1 .. Len(m.swipes) -> Nat]
            OBVIOUS
        <3>3. /\ [k \in 1 .. Len(m.swipes) |-> 0] \in Seq(Nat)
              /\ Len([k \in 1 .. Len(m.swipes) |-> 0]) = Len(m.swipes)
            BY <3>1, <3>2, FunctionIsSeq
        <3> QED
            BY <3>1, <3>3 DEF ReasoningArray
    <2>3. t \in Seq(Nat) /\ Len(t) = Len(a)
        <3> HIDE DEF a
        <3> QED
            BY <2>1, <2>2, ReplaceElement
    <2>4. SetReasoning(h, i, j, r) = [h EXCEPT ![i] = m2]
        BY <1>1, <2>1 DEF SetReasoning, WellFormedHistory
    <2>5. WellFormed(m2)
        <3> HIDE DEF m, a, t
        <3> QED
            BY <2>1, <2>2, <2>3 DEF WellFormed, Message
    <2>6. WellFormedHistory([h EXCEPT ![i] = m2]) /\ Len([h EXCEPT ![i] = m2]) = Len(h)
        <3> HIDE DEF m2
        <3> QED
            BY <2>1, <2>5, ReplaceMessage
    <2> QED
        BY <2>4, <2>6
<1>2. CASE ~(HasSwipe(h, i, j) /\ ReasoningFits(h[i], j))
    BY <1>2 DEF SetReasoning
<1> QED
    BY <1>1, <1>2

-----------------------------------------------------------------------------
(***************************************************************************)
(* Files, and the statistics of a finished request                         *)
(***************************************************************************)
LEMMA OnDiskWellFormed ==
    ASSUME NEW h, WellFormedHistory(h)
    PROVE  WellFormedFile(OnDisk(h))
<1>1. h \in Seq(Message) /\ DOMAIN h = 1 .. Len(h) /\ Len(h) \in Nat
    BY DEF WellFormedHistory
<1>2. \A i \in 1 .. Len(h) :
          /\ OnDisk(h)[i] = [role |-> h[i].role, swipes |-> h[i].swipes, active |-> h[i].active]
          /\ WellFormed(h[i])
    BY <1>1 DEF OnDisk, WellFormedHistory
<1>3. \A i \in 1 .. Len(h) :
          OnDisk(h)[i] \in Turn /\ OnDisk(h)[i].active \in 1 .. Len(OnDisk(h)[i].swipes)
    <2> TAKE i \in 1 .. Len(h)
    <2> DEFINE m == h[i]
    <2>1. OnDisk(h)[i] = [role |-> m.role, swipes |-> m.swipes, active |-> m.active]
          /\ WellFormed(m)
        BY <1>2
    <2> HIDE DEF m
    <2>2. m.role \in Roles /\ m.swipes \in Seq(Text) /\ m.active \in Nat
          /\ m.active \in 1 .. Len(m.swipes)
        BY <2>1 DEF WellFormed, Message
    <2> QED
        BY <2>1, <2>2 DEF Turn
<1>4. OnDisk(h) \in [1 .. Len(h) -> Turn]
    BY <1>1, <1>3 DEF OnDisk
<1>5. OnDisk(h) \in Seq(Turn) /\ Len(OnDisk(h)) = Len(h)
    BY <1>1, <1>4, FunctionIsSeq
<1> QED
    BY <1>3, <1>5 DEF WellFormedFile

LEMMA AutoSavedWellFormed ==
    ASSUME NEW h, WellFormedHistory(h), WellFormedFile(saved)
    PROVE  WellFormedFile(AutoSaved(h))
BY OnDiskWellFormed DEF AutoSaved

LEMMA RestoredWellFormed ==
    ASSUME NEW d, WellFormedFile(d)
    PROVE  WellFormedHistory(Restored(d)) /\ Len(Restored(d)) = Len(d)
<1>1. d \in Seq(Turn) /\ DOMAIN d = 1 .. Len(d) /\ Len(d) \in Nat
    BY DEF WellFormedFile
<1>2. ASSUME NEW i \in 1 .. Len(d)
      PROVE  WellFormed(Restored(d)[i])
    <2> DEFINE t == [k \in 1 .. Len(d[i].swipes) |-> 0]
               u == RestoredFinish(d[i])
               n == Len(d[i].swipes)
    <2>1. /\ d[i].role \in Roles /\ d[i].swipes \in Seq(Text) /\ Len(d[i].swipes) \in Nat
          /\ d[i].active \in 1 .. Len(d[i].swipes)
          /\ DOMAIN d[i].swipes = 1 .. Len(d[i].swipes)
        <3> DEFINE m == d[i]
        <3>1. m \in Turn /\ m.active \in 1 .. Len(m.swipes)
            BY <1>1 DEF WellFormedFile
        <3> HIDE DEF m
        <3>2. /\ m.role \in Roles /\ m.swipes \in Seq(Text) /\ Len(m.swipes) \in Nat
              /\ m.active \in 1 .. Len(m.swipes)
              /\ DOMAIN m.swipes = 1 .. Len(m.swipes)
            BY <3>1 DEF Turn
        <3> QED
            BY <3>2 DEF m
    <2>2. t \in [1 .. Len(d[i].swipes) -> Nat]
        OBVIOUS
    <2>3. t \in Seq(Nat) /\ Len(t) = Len(d[i].swipes)
        BY <2>1, <2>2, FunctionIsSeq
    <2>4. Restored(d)[i] = [role |-> d[i].role, swipes |-> d[i].swipes, active |-> d[i].active,
                            stats |-> t, finish |-> u, reasoning |-> <<>>]
        BY <1>1, <2>1 DEF Restored, Fresh
    <2>5. /\ u \in Seq(Nat \cup {Junk})
          /\ IF u = <<>> THEN n = 1 ELSE Len(u) = n
          /\ \A j \in DOMAIN u : u[j] = Junk => j = 1 /\ n > 1
        <3>1. CASE n = 1
            BY <3>1 DEF RestoredFinish
        <3>2. CASE n # 1
            <4>4. n \in Nat /\ n > 1
                <5>1. n \in Nat /\ d[i].active \in 1 .. n
                    BY <2>1
                <5> HIDE DEF n
                <5> QED
                    BY <3>2, <5>1
            <4>1. u = [k \in 1 .. n |-> IF k = 1 THEN Junk ELSE 0]
                BY <2>1, <3>2 DEF RestoredFinish
            <4>2. u \in [1 .. n -> Nat \cup {Junk}] /\ \A j \in DOMAIN u : u[j] = Junk => j = 1
                BY <4>1 DEF Junk
            <4> HIDE DEF u, n
            <4>3. u \in Seq(Nat \cup {Junk}) /\ Len(u) = n
                BY <4>2, <4>4, FunctionIsSeq
            <4>5. u # <<>>
                BY <4>3, <4>4
            <4> QED
                BY <4>2, <4>3, <4>4, <4>5
        <3> QED
            BY <3>1, <3>2
    <2> HIDE DEF t, u
    <2> QED
        BY <2>1, <2>3, <2>4, <2>5 DEF WellFormed, Message
<1>3. Restored(d) \in [1 .. Len(d) -> Message]
    <2>1. Restored(d) = [i \in 1 .. Len(d) |-> Restored(d)[i]]
        BY <1>1 DEF Restored
    <2> QED
        BY <1>2, <2>1 DEF WellFormed
<1>4. Restored(d) \in Seq(Message) /\ Len(Restored(d)) = Len(d)
    BY <1>1, <1>3, FunctionIsSeq
<1> QED
    BY <1>2, <1>4 DEF WellFormedHistory

LEMMA MeasuredWellFormed ==
    ASSUME NEW h, WellFormedHistory(h), NEW i, NEW named, req.id \in Nat
    PROVE  WellFormedHistory(Measured(h, i, named)) /\ Len(Measured(h, i, named)) = Len(h)
<1> DEFINE j == h[i].active
           timed == SetStats(h, i, j, req.id)
           reasoned == IF req.reasoned THEN SetReasoning(timed, i, j, req.id) ELSE timed
<1>1. WellFormedHistory(timed) /\ Len(timed) = Len(h)
    BY SetStatsWellFormed
<1>2. /\ WellFormedHistory(SetReasoning(timed, i, j, req.id))
      /\ Len(SetReasoning(timed, i, j, req.id)) = Len(timed)
    <2> HIDE DEF timed
    <2> QED
        BY <1>1, SetReasoningWellFormed
<1>3. WellFormedHistory(reasoned) /\ Len(reasoned) = Len(h)
    BY <1>1, <1>2
<1>4. /\ WellFormedHistory(SetFinish(reasoned, i, j, req.id))
      /\ Len(SetFinish(reasoned, i, j, req.id)) = Len(reasoned)
    <2> HIDE DEF reasoned
    <2> QED
        BY <1>3, SetFinishWellFormed
<1> QED
    BY <1>3, <1>4 DEF Measured

LEMMA TextTypes ==
    ASSUME NEW kind \in Kinds, NEW r \in Nat, NEW n \in Nat
    PROVE  Say(kind) \in Text /\ Reply(kind, r, n) \in Text
BY DEF Say, Reply, Text

-----------------------------------------------------------------------------
(***************************************************************************)
(* The invariant. The selection, the edit and the dialog hold positions    *)
(* in the history; each is safe only because of the others: a dialog can   *)
(* be open only where there is a selection and no edit, and a request can  *)
(* run only without dialog and edit.                                       *)
(***************************************************************************)
RequestType == [kind : Requests, id : Nat, target : Nat, sent : Nat, buf : Nat,
                got : BOOLEAN, reasoned : BOOLEAN, base : Seq(Message)]

Inv == /\ TypeOK
       /\ SelectionValid
       /\ EditTargetValid
       /\ DeleteTargetValid
       /\ PromptIsWhatCameBefore

LEMMA IdleType ==
    ASSUME NEW id \in Nat
    PROVE  Idle(id) \in RequestType /\ Idle(id).kind = "none"
BY DEF Idle, RequestType, Requests

LEMMA StartedType ==
    ASSUME req.id \in Nat, NEW kind \in {"reply", "regen"}, NEW i \in Nat, NEW n \in Nat,
           NEW base \in Seq(Message)
    PROVE  /\ Started(kind, i, n, base) \in RequestType
           /\ Started(kind, i, n, base).kind = kind
           /\ Started(kind, i, n, base).target = i
           /\ Started(kind, i, n, base).sent = n
BY DEF Started, RequestType, Requests

\* What Inv says of a state in which a request runs or none does
LEMMA InvFacts ==
    ASSUME Inv
    PROVE  /\ WellFormedHistory(history) /\ history \in Seq(Message)
           /\ Len(history) \in Nat /\ DOMAIN history = 1 .. Len(history)
           /\ WellFormedFile(saved)
           /\ req \in RequestType /\ req.id \in Nat
           /\ sel \in Nat /\ sel <= Len(history)
           /\ req.kind # "none" => ~edit.on /\ doomed = 0
BY DEF Inv, TypeOK, WellFormedHistory, RequestType, SelectionValid,
       EditTargetValid, DeleteTargetValid

LEMMA InitInv == Init => Inv
<1> SUFFICES ASSUME Init PROVE Inv
    OBVIOUS
<1>1. WellFormed(Fresh(Say("notice"), "assistant"))
    BY FreshWellFormed, TextTypes DEF Roles, Kinds
<1>2. WellFormedHistory(history) /\ Len(history) = 1
    BY <1>1 DEF Init, WellFormedHistory, WellFormed
<1>3. WellFormedFile(saved)
    BY DEF Init, WellFormedFile
<1>4. req \in RequestType /\ req.kind = "none"
    BY IdleType DEF Init
<1>5. edit \in [on : BOOLEAN, msg : Nat, sw : Nat, seen : Text] /\ edit.on = FALSE
    BY TextTypes DEF Init, NoEdit, Kinds
<1>6. /\ sel = 0 /\ focus /\ focus \in BOOLEAN /\ move \in BOOLEAN /\ card \in BOOLEAN
      /\ doomed = 0 /\ changes = 0
    BY DEF Init
<1> QED
    BY <1>2, <1>3, <1>4, <1>5, <1>6
    DEF Inv, TypeOK, RequestType, SelectionValid, EditTargetValid,
        DeleteTargetValid, PromptIsWhatCameBefore

LEMMA SendMessageInv == Inv /\ SendMessage /\ UNCHANGED changes => Inv'
<1> SUFFICES ASSUME Inv, SendMessage, UNCHANGED changes PROVE Inv'
    OBVIOUS
<1> DEFINE asked == Add(history, Say("user"), "user")
<1>1. WellFormedHistory(asked) /\ Len(asked) = Len(history) + 1
    BY InvFacts, AddWellFormed, TextTypes DEF Roles, Kinds
<1>2. Reply("wait", req.id + 1, 0) \in Text
    BY InvFacts, TextTypes DEF Kinds
<1>3. history' = Add(asked, Reply("wait", req.id + 1, 0), "assistant")
    BY DEF SendMessage
<1>4. WellFormedHistory(history') /\ Len(history') = Len(history) + 2
    <2> HIDE DEF asked
    <2> QED
        BY <1>1, <1>2, <1>3, InvFacts, AddWellFormed DEF Roles
<1>5. /\ req' \in RequestType /\ req'.kind = "reply"
      /\ req'.target = Len(history') /\ req'.sent = Len(history') - 1
    <2>1. req' = Started("reply", Len(history'), Len(history') - 1, asked)
        BY DEF SendMessage
    <2>2. asked \in Seq(Message)
        BY <1>1 DEF WellFormedHistory
    <2> HIDE DEF asked
    <2> QED
        BY <1>4, <2>1, <2>2, InvFacts, StartedType, SMTT(20)
<1>6. ~edit.on /\ doomed = 0
    BY DEF SendMessage, Typing, Free, Ready
<1> QED
    BY <1>4, <1>5, <1>6, InvFacts, SMTT(20)
    DEF SendMessage, Inv, TypeOK, RequestType, SelectionValid, EditTargetValid,
        DeleteTargetValid, PromptIsWhatCameBefore, Unselect, modes

\* The steps that run while no dialog and no edit is open, leave no request
\* running, keep a well-formed history and leave a valid selection.
LEMMA QuietStepInv ==
    ASSUME Inv, ~edit.on, edit' = edit, doomed' = 0,
           WellFormedHistory(history'), WellFormedFile(saved'),
           req' \in RequestType, req'.kind = "none",
           sel' \in 0 .. Len(history'), focus' \in BOOLEAN, sel' > 0 <=> ~focus',
           move' \in BOOLEAN, card' \in BOOLEAN, changes' \in Nat
    PROVE  Inv'
BY DEF Inv, TypeOK, RequestType, SelectionValid, EditTargetValid, DeleteTargetValid,
       PromptIsWhatCameBefore

LEMMA SendWithoutModelInv == Inv /\ SendWithoutModel /\ UNCHANGED changes => Inv'
<1> SUFFICES ASSUME Inv, SendWithoutModel, UNCHANGED changes PROVE Inv'
    OBVIOUS
<1> DEFINE asked == Add(history, Say("user"), "user")
<1>1. WellFormedHistory(asked)
    BY InvFacts, AddWellFormed, TextTypes DEF Roles, Kinds
<1>2. history' = Add(asked, Say("notice"), "assistant")
    BY DEF SendWithoutModel
<1>3. WellFormedHistory(history')
    <2> HIDE DEF asked
    <2> QED
        BY <1>1, <1>2, AddWellFormed, TextTypes DEF Roles, Kinds
<1>4. WellFormedFile(saved')
    BY <1>3, InvFacts, AutoSavedWellFormed DEF SendWithoutModel
<1>5. req' \in RequestType /\ req'.kind = "none"
    BY InvFacts, IdleType DEF SendWithoutModel
<1>6. ~edit.on /\ doomed = 0
    BY DEF SendWithoutModel, Typing, Free, Ready
<1>7. Len(history') \in Nat
    BY <1>3 DEF WellFormedHistory
<1> QED
    BY <1>3, <1>4, <1>5, <1>6, <1>7, QuietStepInv
    DEF SendWithoutModel, Unselect, modes, Inv, TypeOK

LEMMA RegenerateInv == Inv /\ Regenerate /\ UNCHANGED changes => Inv'
<1> SUFFICES ASSUME Inv, Regenerate, UNCHANGED changes PROVE Inv'
    OBVIOUS
<1>1. Reply("wait", req.id + 1, 0) \in Text
    BY InvFacts, TextTypes DEF Kinds
<1>2. WellFormedHistory(history') /\ Len(history') = Len(history)
    BY <1>1, InvFacts, AddSwipeWellFormed DEF Regenerate
<1>3. /\ req' \in RequestType /\ req'.kind = "regen"
      /\ req'.target = Len(history) /\ req'.sent = Len(history) - 1
    <2>1. req' = Started("regen", sel, Len(history) - 1, history) /\ sel = Len(history)
          /\ sel > 0
        BY DEF Regenerate, AtLastSwipe, Selecting
    <2> QED
        BY <2>1, InvFacts, StartedType
<1>4. ~edit.on /\ doomed = 0
    BY DEF Regenerate, Selecting, Free, Ready
<1> QED
    BY <1>2, <1>3, <1>4, InvFacts, SMTT(20)
    DEF Regenerate, Inv, TypeOK, RequestType, SelectionValid, EditTargetValid,
        DeleteTargetValid, PromptIsWhatCameBefore, cursor, modes

LEMMA RegenerateWithoutModelInv == Inv /\ RegenerateWithoutModel /\ UNCHANGED changes => Inv'
<1> SUFFICES ASSUME Inv, RegenerateWithoutModel, UNCHANGED changes PROVE Inv'
    OBVIOUS
<1>1. WellFormedHistory(history') /\ Len(history') = Len(history)
    BY InvFacts, TextTypes, AddSwipeWellFormed DEF RegenerateWithoutModel, Kinds
<1>2. WellFormedFile(saved')
    BY <1>1, InvFacts, AutoSavedWellFormed DEF RegenerateWithoutModel
<1>3. req' \in RequestType /\ req'.kind = "none"
    BY InvFacts, IdleType DEF RegenerateWithoutModel
<1>4. ~edit.on /\ doomed = 0
    BY DEF RegenerateWithoutModel, Selecting, Free, Ready
<1> QED
    BY <1>1, <1>2, <1>3, <1>4, InvFacts, QuietStepInv
    DEF RegenerateWithoutModel, Unselect, modes, Inv, TypeOK

\* The buffer of a request after a chunk
LEMMA ContentFacts ==
    ASSUME req \in RequestType, ReceiveContent
    PROVE  /\ req' \in RequestType /\ req'.kind = req.kind /\ req'.id = req.id
           /\ req'.target = req.target /\ req'.sent = req.sent /\ req'.base = req.base
           /\ req'.reasoned = req.reasoned /\ req'.got
           /\ req'.buf \in Nat /\ req'.buf > 0
<1>1. req.buf \in Nat
    BY DEF RequestType
<1>2. PICK n \in 1 .. MaxChunks - req.buf : req' = [req EXCEPT !.got = TRUE, !.buf = @ + n]
    BY DEF ReceiveContent
<1>3. n \in Nat /\ n > 0
    BY <1>1, <1>2, BoundsAssumption
<1>4. req.buf + n \in Nat /\ req.buf + n > 0
    BY <1>1, <1>3
<1> QED
    BY <1>2, <1>4 DEF RequestType

\* A callback rewrites the text of the last message and nothing else.
LEMMA CallbackInv == Inv /\ Callback /\ UNCHANGED changes => Inv'
<1> SUFFICES ASSUME Inv, Callback, UNCHANGED changes PROVE Inv'
    OBVIOUS
<1>1. /\ req.kind # "none" /\ ~edit.on /\ doomed = 0
      /\ req.buf \in Nat /\ req.id \in Nat /\ req \in RequestType
    BY InvFacts DEF Callback, ReceiveReasoning, ReceiveContent, ReceiveBlank, Tick, RequestType
<1>2. WellFormedHistory(history') /\ Len(history') = Len(history)
    <2>1. Waiting \in Text
        BY <1>1, TextTypes DEF Waiting, Kinds
    <2>2. CASE ReceiveReasoning \/ Tick
        BY <2>1, <2>2, InvFacts, UpdateWellFormed DEF ReceiveReasoning, Tick
    <2>3. CASE ReceiveContent
        <3>1. req'.buf \in Nat
            BY <1>1, <2>3, ContentFacts
        <3>2. Reply("part", req.id, Displayed(req'.buf)) \in Text
            BY <1>1, <3>1, TextTypes, BoundsAssumption DEF Kinds, Displayed
        <3> QED
            BY <2>3, <3>2, InvFacts, UpdateWellFormed DEF ReceiveContent
    <2>4. CASE ReceiveBlank
        BY <2>4, InvFacts DEF ReceiveBlank
    <2> QED
        BY <2>2, <2>3, <2>4 DEF Callback
<1>3. /\ req' \in RequestType /\ req'.kind = req.kind
      /\ req'.target = req.target /\ req'.sent = req.sent
    <2>1. ReceiveContent \/ req' \in {req, [req EXCEPT !.reasoned = TRUE], [req EXCEPT !.got = TRUE]}
        BY DEF Callback, ReceiveReasoning, ReceiveBlank, Tick
    <2>2. CASE req' = req
        BY <1>1, <2>2
    <2>3. CASE req' = [req EXCEPT !.reasoned = TRUE]
        BY <1>1, <2>3 DEF RequestType
    <2>4. CASE req' = [req EXCEPT !.got = TRUE]
        BY <1>1, <2>4 DEF RequestType
    <2>5. CASE ReceiveContent
        BY <1>1, <2>5, ContentFacts
    <2> QED
        BY <2>1, <2>2, <2>3, <2>4, <2>5
<1>4. sel' \in {0, sel} /\ UNCHANGED <<focus, move, edit, doomed, card, saved, changes>>
    BY DEF Callback, ReceiveReasoning, ReceiveContent, ReceiveBlank, Tick, cursor, modes
<1> QED
    BY <1>1, <1>2, <1>3, <1>4, InvFacts
    DEF Inv, TypeOK, RequestType, SelectionValid, EditTargetValid, DeleteTargetValid,
        PromptIsWhatCameBefore

LEMMA RequestEndsInv == Inv /\ RequestEnds => Inv'
<1> SUFFICES ASSUME Inv, RequestEnds PROVE Inv'
    OBVIOUS
<1>1. req.kind # "none" /\ EndRequest /\ UNCHANGED changes
    BY DEF RequestEnds, RequestFails, RequestEmpty, RequestDone
<1>2. WellFormedHistory(history') /\ Len(history') = Len(history)
    <2>1. Reply("err", req.id, 0) \in Text /\ Reply("silent", req.id, 0) \in Text
        BY InvFacts, TextTypes DEF Kinds
    <2>2. CASE RequestFails \/ RequestEmpty
        BY <2>1, <2>2, InvFacts, UpdateWellFormed DEF RequestFails, RequestEmpty, Verdict
    <2>3. CASE RequestDone
        BY <2>3, InvFacts, MeasuredWellFormed DEF RequestDone
    <2> QED
        BY <2>2, <2>3 DEF RequestEnds
<1>3. WellFormedFile(saved')
    BY <1>1, <1>2, InvFacts, AutoSavedWellFormed DEF EndRequest
<1>4. req' \in RequestType /\ req'.kind = "none"
    BY <1>1, InvFacts, IdleType DEF EndRequest
<1> QED
    BY <1>1, <1>2, <1>3, <1>4, InvFacts, QuietStepInv
    DEF EndRequest, Unselect, modes, Inv, TypeOK

\* Keys that move the selection, switch the modes or choose a swipe
LEMMA KeyInv == Inv /\ Key /\ UNCHANGED changes => Inv'
<1> SUFFICES ASSUME Inv, Key, UNCHANGED changes PROVE Inv'
    OBVIOUS
<1> USE InvFacts DEF Inv, TypeOK, RequestType, modes, cursor, Unselect
<1>1. CASE SelectUp \/ SelectDown \/ LeaveSelection \/ ToggleMove
    <2>1. /\ ~edit.on /\ doomed = 0 /\ req.kind = "none"
          /\ UNCHANGED <<history, edit, doomed, card, req, saved>>
        BY <1>1 DEF SelectUp, SelectDown, LeaveSelection, ToggleMove, Selecting, Free, Ready
    <2>2. \/ sel' \in 1 .. Len(history) /\ ~focus' /\ focus' \in BOOLEAN
          \/ sel' = 0 /\ focus' /\ focus' \in BOOLEAN
          \/ UNCHANGED <<sel, focus>>
        <3>1. CASE SelectUp
            <4>1. sel' \in 1 .. Len(history)
                BY <2>1, <3>1 DEF SelectUp, SelectionValid
            <4>2. ~focus' /\ focus' \in BOOLEAN
                BY <3>1 DEF SelectUp
            <4> QED
                BY <4>1, <4>2
        <3>2. CASE SelectDown
            <4>1. CASE sel < Len(history)
                <5>1. sel' \in 1 .. Len(history) /\ focus' = focus /\ sel > 0
                    BY <3>2, <4>1 DEF SelectDown
                <5>2. ~focus
                    BY <2>1, <5>1 DEF SelectionValid
                <5> QED
                    BY <5>1, <5>2
            <4>2. CASE ~(sel < Len(history))
                BY <3>2, <4>2 DEF SelectDown
            <4> QED
                BY <4>1, <4>2
        <3>3. CASE LeaveSelection \/ ToggleMove
            BY <3>3 DEF LeaveSelection, ToggleMove
        <3> QED
            BY <1>1, <3>1, <3>2, <3>3
    <2>3. move' \in BOOLEAN
        BY <1>1 DEF SelectUp, SelectDown, LeaveSelection, ToggleMove
    <2>4. sel' \in 0 .. Len(history) /\ focus' \in BOOLEAN /\ (sel' > 0 <=> ~focus')
        BY <2>1, <2>2 DEF SelectionValid
    <2> QED
        BY <2>1, <2>3, <2>4, QuietStepInv
<1>2. CASE SwipePrev \/ SwipeNext
    <2>1. /\ ~edit.on /\ doomed = 0 /\ req.kind = "none"
          /\ UNCHANGED <<sel, focus, move, edit, doomed, card, req>>
        BY <1>2 DEF SwipePrev, SwipeNext, Selecting, Free, Ready
    <2>2. PICK k : history' = SetActive(history, sel, k)
        BY <1>2 DEF SwipePrev, SwipeNext
    <2>3. WellFormedHistory(history') /\ Len(history') = Len(history)
        BY <2>2, SetActiveWellFormed DEF TypeOK
    <2>4. WellFormedFile(saved')
        BY <1>2, <2>3, AutoSavedWellFormed DEF SwipePrev, SwipeNext
    <2> QED
        BY <2>1, <2>3, <2>4, QuietStepInv DEF SelectionValid
<1>3. CASE StartEdit
    <2> DEFINE j == history[sel].active
    <2>1. /\ req.kind = "none" /\ doomed = 0 /\ sel \in DOMAIN history
          /\ UNCHANGED <<history, sel, focus, move, doomed, card, req, saved>>
        BY <1>3 DEF StartEdit, Selecting, Free, Ready
    <2>2. j \in DOMAIN history[sel].swipes /\ history[sel].swipes[j] \in Text /\ j \in Nat
        <3> DEFINE m == history[sel]
        <3>1. WellFormed(m)
            BY <2>1 DEF WellFormedHistory
        <3> HIDE DEF m
        <3>2. m.active \in DOMAIN m.swipes /\ m.swipes[m.active] \in Text /\ m.active \in Nat
            BY <3>1 DEF WellFormed, Message
        <3> QED
            BY <3>2 DEF m
    <2>3. edit' = [on |-> TRUE, msg |-> sel, sw |-> j, seen |-> history[sel].swipes[j]]
        BY <1>3 DEF StartEdit, Shown
    <2> HIDE DEF j
    <2> QED
        BY <2>1, <2>2, <2>3 DEF SelectionValid, EditTargetValid, DeleteTargetValid,
           PromptIsWhatCameBefore, HasSwipe
<1>4. CASE Escape
    <2>1. /\ doomed = 0 /\ req.kind = "none" /\ move' \in BOOLEAN
          /\ UNCHANGED <<history, sel, focus, doomed, card, req, saved>>
          /\ edit' \in {edit, NoEdit}
        BY <1>4 DEF Escape, Ready
    <2>2. NoEdit \in [on : BOOLEAN, msg : Nat, sw : Nat, seen : Text] /\ ~NoEdit.on
        BY TextTypes DEF NoEdit, Kinds
    <2> QED
        BY <2>1, <2>2 DEF SelectionValid, EditTargetValid, DeleteTargetValid,
           PromptIsWhatCameBefore, HasSwipe
<1>5. CASE AskDelete \/ CancelDelete
    BY <1>5 DEF AskDelete, CancelDelete, Selecting, Free, Ready, SelectionValid,
       EditTargetValid, DeleteTargetValid, PromptIsWhatCameBefore, HasSwipe
<1>6. CASE Resize
    BY <1>6 DEF Resize, SelectionValid, EditTargetValid, DeleteTargetValid,
       PromptIsWhatCameBefore, HasSwipe
<1> QED
    BY <1>1, <1>2, <1>3, <1>4, <1>5, <1>6 DEF Key

\* Keys and commands that change the history
LEMMA ChangeInv == Inv /\ Change /\ changes' = changes + 1 => Inv'
<1> SUFFICES ASSUME Inv, Change, changes' = changes + 1 PROVE Inv'
    OBVIOUS
<1> USE InvFacts DEF Inv, TypeOK, RequestType, modes, cursor, Unselect
<1>1. CASE MoveUp \/ MoveDown
    <2>1. PICK i \in DOMAIN history : MoveTo(i)
        BY <1>1 DEF MoveUp, MoveDown, MoveTo
    <2>2. /\ ~edit.on /\ doomed = 0 /\ req.kind = "none" /\ sel \in DOMAIN history
          /\ sel' = i /\ UNCHANGED <<focus, move, edit, doomed, card, req>>
        BY <2>1 DEF MoveTo, Free, Ready
    <2>3. WellFormedHistory(history') /\ Len(history') = Len(history)
        BY <2>1, <2>2, SwapWellFormed DEF MoveTo
    <2>4. WellFormedFile(saved')
        BY <2>1, <2>3, AutoSavedWellFormed DEF MoveTo
    <2> QED
        BY <2>2, <2>3, <2>4, QuietStepInv DEF SelectionValid
<1>2. CASE CommitEdit
    <2> DEFINE text == Edited(history[edit.msg].swipes[edit.sw])
    <2>1. /\ doomed = 0 /\ req.kind = "none" /\ edit.on /\ edit' = NoEdit
          /\ UNCHANGED <<sel, focus, move, doomed, card, req>>
        BY <1>2 DEF CommitEdit, Ready
    <2>2. text \in Text
        BY <2>1 DEF EditTargetValid, Edited, Text, Kinds
    <2>3. WellFormedHistory(history') /\ Len(history') = Len(history)
        BY <1>2, <2>2, UpdateSwipeWellFormed DEF CommitEdit
    <2>4. WellFormedFile(saved')
        BY <1>2, <2>3, AutoSavedWellFormed DEF CommitEdit
    <2>5. NoEdit \in [on : BOOLEAN, msg : Nat, sw : Nat, seen : Text] /\ ~NoEdit.on
        BY TextTypes DEF NoEdit, Kinds
    <2> QED
        BY <2>1, <2>3, <2>4, <2>5 DEF SelectionValid, EditTargetValid, DeleteTargetValid,
           PromptIsWhatCameBefore
<1>3. CASE ConfirmDelete
    <2>1. /\ ~edit.on /\ req.kind = "none" /\ doomed \in DOMAIN history /\ doomed' = 0
          /\ sel' = 0 /\ focus' = TRUE /\ UNCHANGED <<move, edit, card, req>>
        BY <1>3 DEF ConfirmDelete, DeleteTargetValid
    <2>2. WellFormedHistory(history') /\ Len(history') \in Nat
        BY <1>3, <2>1, DeleteWellFormed DEF ConfirmDelete
    <2>3. WellFormedFile(saved')
        BY <1>3, <2>2, AutoSavedWellFormed DEF ConfirmDelete
    <2> QED
        BY <2>1, <2>2, <2>3, QuietStepInv
<1>4. CASE StartOver \/ LoadCard \/ UnloadCard \/ AddSystem \/ LoadChat \/ LoadDamaged
    <2>1. /\ ~edit.on /\ doomed = 0 /\ req.kind = "none"
          /\ UNCHANGED <<sel, focus, move, edit, doomed, req>>
        BY <1>4 DEF StartOver, LoadCard, UnloadCard, AddSystem, LoadChat, LoadDamaged,
           Typing, Free, Ready
    <2>4. sel = 0 /\ (sel > 0 <=> ~focus)
        <3>1. focus
            BY <1>4 DEF StartOver, LoadCard, UnloadCard, AddSystem, LoadChat, LoadDamaged, Typing
        <3> QED
            BY <2>1, <3>1 DEF SelectionValid
    <2>5. card' \in BOOLEAN
        BY <1>4 DEF StartOver, LoadCard, UnloadCard, AddSystem, LoadChat, LoadDamaged
    <2>2. WellFormedHistory(history') /\ WellFormedFile(saved')
        <3>1. CASE StartOver \/ LoadCard
            <4>1. history' = <<Fresh(Say("bot"), "assistant")>> /\ saved' = AutoSaved(history')
                BY <3>1 DEF StartOver, LoadCard
            <4>2. WellFormed(Fresh(Say("bot"), "assistant"))
                BY FreshWellFormed, TextTypes DEF Roles, Kinds
            <4>3. WellFormedHistory(<<Fresh(Say("bot"), "assistant")>>)
                BY <4>2 DEF WellFormedHistory, WellFormed
            <4> QED
                BY <4>1, <4>3, AutoSavedWellFormed
        <3>2. CASE UnloadCard \/ AddSystem
            <4>1. Say("notice") \in Text /\ Say("plain") \in Text
                BY TextTypes DEF Kinds
            <4>2. history' \in {Add(history, Say("notice"), "assistant"),
                               Add(history, Say("plain"), "system")}
                BY <3>2 DEF UnloadCard, AddSystem
            <4>3. /\ WellFormedHistory(Add(history, Say("notice"), "assistant"))
                  /\ WellFormedHistory(Add(history, Say("plain"), "system"))
                <5>1. "assistant" \in Roles /\ "system" \in Roles
                    BY DEF Roles
                <5> QED
                    BY <4>1, <5>1, AddWellFormed
            <4>4. WellFormedHistory(history')
                BY <4>2, <4>3
            <4> QED
                BY <3>2, <4>4, AutoSavedWellFormed DEF UnloadCard, AddSystem
        <3>3. CASE LoadChat
            BY <3>3, RestoredWellFormed DEF LoadChat
        <3>4. CASE LoadDamaged
            BY <3>4 DEF LoadDamaged, WellFormedHistory
        <3> QED
            BY <1>4, <3>1, <3>2, <3>3, <3>4
    <2>3. Len(history') \in Nat
        BY <2>2 DEF WellFormedHistory
    <2> QED
        BY <2>1, <2>2, <2>3, <2>4, <2>5, QuietStepInv
<1> QED
    BY <1>1, <1>2, <1>3, <1>4 DEF Change

LEMMA NextInv == Inv /\ [Next]_vars => Inv'
<1> SUFFICES ASSUME Inv, [Next]_vars PROVE Inv'
    OBVIOUS
<1>1. CASE Send /\ UNCHANGED changes
    BY <1>1, SendMessageInv, SendWithoutModelInv, RegenerateInv, RegenerateWithoutModelInv
    DEF Send
<1>2. CASE Callback /\ UNCHANGED changes
    BY <1>2, CallbackInv
<1>3. CASE RequestEnds
    BY <1>3, RequestEndsInv
<1>4. CASE Key /\ UNCHANGED changes
    BY <1>4, KeyInv
<1>5. CASE Change /\ changes' = changes + 1
    BY <1>5, ChangeInv
<1>6. CASE UNCHANGED vars
    BY <1>6 DEF vars, Inv, TypeOK, SelectionValid, EditTargetValid, DeleteTargetValid,
       PromptIsWhatCameBefore, HasSwipe
<1> QED
    BY <1>1, <1>2, <1>3, <1>4, <1>5, <1>6 DEF Next

-----------------------------------------------------------------------------
\* Inv holds in every state of every behaviour: main.c and history.c together
\* keep the arrays of every message consistent and every stored position valid.
THEOREM Safety == Spec => []Inv
BY InitInv, NextInv, PTL DEF Spec

\* The types of the state of main.c, whatever the number of messages, swipes,
\* requests and chunks.
THEOREM TypesAreRight == Spec => []TypeOK
<1>1. Inv => TypeOK
    BY DEF Inv
<1> QED
    BY <1>1, Safety, PTL

\* selected_msg is never beyond the history, in_place_edit writes where the user
\* looked and over the text the user saw, and the delete dialog deletes the
\* message it was opened for (keys and requests of main.c).
THEOREM TargetsAreValid == Spec => []TargetsValid
<1>1. Inv => TargetsValid
    BY DEF Inv, TargetsValid
<1> QED
    BY <1>1, Safety, PTL

\* hist_for_llm is the history before the message that is being written.
THEOREM PromptsAreRight == Spec => []PromptIsWhatCameBefore
<1>1. Inv => PromptIsWhatCameBefore
    BY DEF Inv
<1> QED
    BY <1>1, Safety, PTL

-----------------------------------------------------------------------------
(***************************************************************************)
(* What the operations do to one message. Prefixed, Metered and Settled    *)
(* say of one message what RoleMatchesPrefix and MetricsMatchReply say of  *)
(* all; a message in a file has no statistics.                             *)
(***************************************************************************)
Prefixed(m) ==
    \A j \in DOMAIN m.swipes :
        /\ m.role = "user" <=> m.swipes[j].kind = "user"
        /\ m.role = "assistant" => IsBot(m.swipes[j])

Metered(m) ==
    \A j \in 1 .. MaxSwipes - 1 :
        /\ j \in DOMAIN m.stats => m.stats[j] \in {0, m.swipes[j].req}
        /\ j \in DOMAIN m.finish => m.finish[j] \in {0, Junk, m.swipes[j].req}
        /\ j \in DOMAIN m.reasoning => m.reasoning[j] \in {0, m.swipes[j].req}

Stored(m) == Prefixed(m) /\ Len(m.swipes) <= MaxSwipes
Settled(m) == Stored(m) /\ Metered(m)

AllSettled(h) == \A i \in DOMAIN h : Settled(h[i])
AllStored(d) == \A i \in DOMAIN d : Stored(d[i])

\* Fields and domains of a well-formed message
LEMMA MessageFacts ==
    ASSUME NEW m, WellFormed(m)
    PROVE  /\ m.role \in Roles /\ m.swipes \in Seq(Text) /\ Len(m.swipes) \in Nat
           /\ m.stats \in Seq(Nat) /\ m.reasoning \in Seq(Nat)
           /\ m.finish \in Seq(Nat \cup {Junk})
           /\ DOMAIN m.swipes = 1 .. Len(m.swipes) /\ DOMAIN m.stats = 1 .. Len(m.swipes)
           /\ Len(m.reasoning) \in 0 .. Len(m.swipes)
           /\ DOMAIN m.reasoning = 1 .. Len(m.reasoning)
           /\ DOMAIN m.finish \subseteq DOMAIN m.swipes
           /\ m.active \in 1 .. Len(m.swipes)
           /\ m = [role |-> m.role, swipes |-> m.swipes, active |-> m.active,
                   stats |-> m.stats, finish |-> m.finish, reasoning |-> m.reasoning]
BY DEF WellFormed, Message

\* history_update_swipe on a swipe that there is
Rewritten(m, j, text) == [m EXCEPT !.swipes = [m.swipes EXCEPT ![j] = text]]

LEMMA RewrittenFields ==
    ASSUME NEW m, WellFormed(m), NEW j \in DOMAIN m.swipes, NEW text \in Text
    PROVE  /\ Rewritten(m, j, text).role = m.role /\ Rewritten(m, j, text).active = m.active
           /\ Rewritten(m, j, text).stats = m.stats
           /\ Rewritten(m, j, text).finish = m.finish
           /\ Rewritten(m, j, text).reasoning = m.reasoning
           /\ DOMAIN Rewritten(m, j, text).swipes = DOMAIN m.swipes
           /\ Len(Rewritten(m, j, text).swipes) = Len(m.swipes)
           /\ \A k \in DOMAIN m.swipes :
                  Rewritten(m, j, text).swipes[k] = IF k = j THEN text ELSE m.swipes[k]
<1> DEFINE s == [m.swipes EXCEPT ![j] = text]
<1>1. m.swipes \in Seq(Text) /\ m \in Message
    BY MessageFacts DEF WellFormed
<1>2. s \in Seq(Text) /\ Len(s) = Len(m.swipes) /\ DOMAIN s = DOMAIN m.swipes
    BY <1>1, ReplaceElement
<1>3. \A k \in DOMAIN m.swipes : s[k] = IF k = j THEN text ELSE m.swipes[k]
    BY <1>1
<1>4. Rewritten(m, j, text) = [m EXCEPT !.swipes = s]
    BY DEF Rewritten
<1>6. m = [role |-> m.role, swipes |-> m.swipes, active |-> m.active,
            stats |-> m.stats, finish |-> m.finish, reasoning |-> m.reasoning]
    BY MessageFacts
<1> HIDE DEF s
<1>5. [m EXCEPT !.swipes = s] = [role |-> m.role, swipes |-> s, active |-> m.active,
                                  stats |-> m.stats, finish |-> m.finish,
                                  reasoning |-> m.reasoning]
    BY <1>6
<1> QED
    BY <1>2, <1>3, <1>4, <1>5 DEF s

LEMMA UpdateSwipeIs ==
    ASSUME NEW h, WellFormedHistory(h), NEW i, NEW j, NEW text, HasSwipe(h, i, j)
    PROVE  UpdateSwipe(h, i, j, text) = [h EXCEPT ![i] = Rewritten(h[i], j, text)]
BY DEF UpdateSwipe, Rewritten, HasSwipe, WellFormedHistory

LEMMA UpdateIs ==
    ASSUME NEW h, WellFormedHistory(h), NEW i \in DOMAIN h, NEW text
    PROVE  /\ Update(h, i, text) = [h EXCEPT ![i] = Rewritten(h[i], h[i].active, text)]
           /\ h[i].active \in DOMAIN h[i].swipes
<1>1. WellFormed(h[i])
    BY DEF WellFormedHistory
<1>2. h[i].active \in DOMAIN h[i].swipes
    BY <1>1, MessageFacts
<1>3. HasSwipe(h, i, h[i].active)
    BY <1>2 DEF HasSwipe
<1> QED
    BY <1>2, <1>3, UpdateSwipeIs DEF Update

\* history_add_swipe, when it is not refused
LEMMA GrowFields ==
    ASSUME NEW m, WellFormed(m), NEW text \in Text
    PROVE  LET g == Grow(m, text)
           IN  /\ g.role = m.role /\ g.active = Len(m.swipes) + 1
               /\ g.stats = Append(m.stats, 0) /\ g.reasoning = m.reasoning
               /\ g.finish = GrownFinish(m)
               /\ g.swipes = Append(m.swipes, text)
               /\ Len(g.swipes) = Len(m.swipes) + 1
               /\ DOMAIN g.swipes = 1 .. Len(m.swipes) + 1
               /\ DOMAIN g.stats = 1 .. Len(m.swipes) + 1
               /\ \A k \in 1 .. Len(m.swipes) : g.swipes[k] = m.swipes[k] /\ g.stats[k] = m.stats[k]
               /\ g.swipes[Len(m.swipes) + 1] = text /\ g.stats[Len(m.swipes) + 1] = 0
<1> DEFINE s == Append(m.swipes, text)
           t == Append(m.stats, 0)
<1>1. m.swipes \in Seq(Text) /\ m \in Message /\ m.stats \in Seq(Nat) /\ Len(m.stats) = Len(m.swipes)
    BY MessageFacts DEF WellFormed
<1>2. /\ Len(s) = Len(m.swipes) + 1 /\ DOMAIN s = 1 .. Len(m.swipes) + 1
      /\ \A k \in 1 .. Len(m.swipes) : s[k] = m.swipes[k]
      /\ s[Len(m.swipes) + 1] = text
    BY <1>1
<1>3. /\ DOMAIN t = 1 .. Len(m.swipes) + 1
      /\ \A k \in 1 .. Len(m.swipes) : t[k] = m.stats[k]
      /\ t[Len(m.swipes) + 1] = 0
    BY <1>1
<1>4. Grow(m, text) = [m EXCEPT !.swipes = s, !.stats = t, !.finish = GrownFinish(m),
                                !.active = Len(m.swipes) + 1]
    BY DEF Grow
<1> HIDE DEF s, t
<1>5. Grow(m, text) = [role |-> m.role, swipes |-> s, active |-> Len(m.swipes) + 1,
                       stats |-> t, finish |-> GrownFinish(m), reasoning |-> m.reasoning]
    BY <1>1, <1>4 DEF Message
<1> QED
    BY <1>2, <1>3, <1>5 DEF s, t

\* No finish reason is known of swipe j.
NoFinish(m, j) == j \in DOMAIN m.finish => m.finish[j] = 0

\* A text takes another's place: it is of the same speaker, and it is of the same
\* request or the statistics of its place are empty.
LEMMA SettledRewritten ==
    ASSUME NEW m, WellFormed(m), Settled(m), NEW j \in DOMAIN m.swipes, NEW text \in Text,
           m.role = "user" <=> text.kind = "user", m.role = "assistant" => IsBot(text),
           j < MaxSwipes => \/ text.req = m.swipes[j].req
                            \/ m.stats[j] = 0 /\ Len(m.reasoning) < j /\ NoFinish(m, j)
    PROVE  Settled(Rewritten(m, j, text))
<1> DEFINE r == Rewritten(m, j, text)
<1>1. /\ r.role = m.role /\ r.stats = m.stats /\ r.reasoning = m.reasoning
      /\ r.finish = m.finish
      /\ DOMAIN r.swipes = DOMAIN m.swipes /\ Len(r.swipes) = Len(m.swipes)
      /\ \A k \in DOMAIN m.swipes : r.swipes[k] = IF k = j THEN text ELSE m.swipes[k]
    BY RewrittenFields
<1>2. /\ DOMAIN m.swipes = 1 .. Len(m.swipes) /\ DOMAIN m.stats = 1 .. Len(m.swipes)
      /\ DOMAIN m.reasoning = 1 .. Len(m.reasoning) /\ Len(m.swipes) \in Nat
      /\ DOMAIN m.finish \subseteq DOMAIN m.swipes
      /\ Len(m.reasoning) \in 0 .. Len(m.swipes)
    BY MessageFacts
<1> HIDE DEF r
<1>3. Stored(r)
    BY <1>1 DEF Settled, Stored, Prefixed
<1>4. ASSUME NEW k \in 1 .. MaxSwipes - 1
      PROVE  /\ k \in DOMAIN r.stats => r.stats[k] \in {0, r.swipes[k].req}
             /\ k \in DOMAIN r.finish => r.finish[k] \in {0, Junk, r.swipes[k].req}
             /\ k \in DOMAIN r.reasoning => r.reasoning[k] \in {0, r.swipes[k].req}
    <2>1. CASE k = j
        <3>1. j < MaxSwipes
            BY <2>1, MaxSwipesAssumption
        <3>2. CASE text.req = m.swipes[j].req
            BY <1>1, <1>2, <2>1, <3>2 DEF Settled, Metered
        <3>3. CASE m.stats[j] = 0 /\ Len(m.reasoning) < j /\ NoFinish(m, j)
            BY <1>1, <1>2, <2>1, <3>3 DEF NoFinish
        <3> QED
            BY <3>1, <3>2, <3>3
    <2>2. CASE k # j
        <3>1. k \in DOMAIN m.swipes => r.swipes[k] = m.swipes[k]
            BY <1>1, <2>2
        <3>2. k \in DOMAIN m.finish => k \in DOMAIN m.swipes
            BY <1>2
        <3>3. k \in DOMAIN m.stats \/ k \in DOMAIN m.reasoning => k \in DOMAIN m.swipes
            BY <1>2
        <3> QED
            BY <1>1, <3>1, <3>2, <3>3 DEF Settled, Metered
    <2> QED
        BY <2>1, <2>2
<1> QED
    BY <1>3, <1>4 DEF Settled, Metered, r

LEMMA SettledGrown ==
    ASSUME NEW m, WellFormed(m), Settled(m), Len(m.swipes) < MaxSwipes,
           NEW text \in Text, m.role # "user", IsBot(text)
    PROVE  Settled(Grow(m, text))
<1> DEFINE g == Grow(m, text)
           n == Len(m.swipes)
<1>1. /\ g.role = m.role /\ g.reasoning = m.reasoning /\ Len(g.swipes) = n + 1
      /\ DOMAIN g.swipes = 1 .. n + 1 /\ DOMAIN g.stats = 1 .. n + 1
      /\ \A k \in 1 .. n : g.swipes[k] = m.swipes[k] /\ g.stats[k] = m.stats[k]
      /\ g.swipes[n + 1] = text /\ g.stats[n + 1] = 0 /\ g.finish = GrownFinish(m)
    BY GrowFields
<1>2. /\ DOMAIN m.swipes = 1 .. n /\ DOMAIN m.stats = 1 .. n /\ n \in Nat
      /\ Len(m.reasoning) \in 0 .. n /\ DOMAIN m.reasoning = 1 .. Len(m.reasoning)
    BY MessageFacts
<1>6. /\ DOMAIN g.finish = 1 .. n + 1 /\ g.finish[n + 1] = 0
      /\ \A j \in 1 .. n : g.finish[j] = Junk \/ (j \in DOMAIN m.finish /\ g.finish[j] = m.finish[j])
    BY <1>1, <1>2, GrownFinishFacts
<1> HIDE DEF g, n
<1>3. \A j \in 1 .. n + 1 : j \in 1 .. n \/ j = n + 1
    BY <1>2
<1>4. Stored(g)
    <2>1. n + 1 <= MaxSwipes
        BY <1>2, MaxSwipesAssumption DEF n
    <2> QED
        BY <1>1, <1>2, <1>3, <2>1 DEF Settled, Stored, Prefixed, IsBot
<1>5. Metered(g)
    <2> SUFFICES ASSUME NEW j \in 1 .. MaxSwipes - 1
                 PROVE  /\ j \in DOMAIN g.stats => g.stats[j] \in {0, g.swipes[j].req}
                        /\ j \in DOMAIN g.finish => g.finish[j] \in {0, Junk, g.swipes[j].req}
                        /\ j \in DOMAIN g.reasoning => g.reasoning[j] \in {0, g.swipes[j].req}
        BY DEF Metered
    <2>1. CASE j \in 1 .. n
        BY <1>1, <1>2, <1>6, <2>1 DEF Settled, Metered
    <2>2. CASE j \notin 1 .. n
        BY <1>1, <1>2, <1>3, <1>6, <2>2
    <2> QED
        BY <2>1, <2>2
<1> QED
    BY <1>4, <1>5 DEF Settled, g

LEMMA SettledFresh ==
    ASSUME NEW text \in Text, NEW role \in Roles,
           role = "user" <=> text.kind = "user", role = "assistant" => IsBot(text)
    PROVE  Settled(Fresh(text, role))
<1> DEFINE f == Fresh(text, role)
<1>1. /\ f.role = role /\ f.swipes = <<text>> /\ f.stats = <<0>> /\ f.reasoning = <<>>
      /\ DOMAIN f.swipes = {1} /\ Len(f.swipes) = 1 /\ DOMAIN f.stats = {1}
      /\ DOMAIN f.reasoning = {} /\ f.swipes[1] = text /\ f.stats[1] = 0
      /\ DOMAIN f.finish = {}
    BY DEF Fresh
<1> HIDE DEF f
<1> QED
    BY <1>1, MaxSwipesAssumption DEF Settled, Stored, Prefixed, Metered, f

LEMMA SettledActive ==
    ASSUME NEW m, WellFormed(m), Settled(m), NEW j
    PROVE  Settled([m EXCEPT !.active = j])
<1> DEFINE r == [m EXCEPT !.active = j]
<1>1. /\ r.role = m.role /\ r.swipes = m.swipes /\ r.stats = m.stats
      /\ r.finish = m.finish /\ r.reasoning = m.reasoning
    BY DEF WellFormed, Message
<1> HIDE DEF r
<1> QED
    BY <1>1 DEF Settled, Stored, Prefixed, Metered, r

-----------------------------------------------------------------------------
(***************************************************************************)
(* The same for histories and files.                                       *)
(***************************************************************************)
LEMMA ReplaceSettled ==
    ASSUME NEW h, WellFormedHistory(h), AllSettled(h), NEW i \in DOMAIN h, NEW m, Settled(m)
    PROVE  AllSettled([h EXCEPT ![i] = m])
BY DEF AllSettled, WellFormedHistory

LEMMA AddSettled ==
    ASSUME NEW h, WellFormedHistory(h), AllSettled(h), NEW text \in Text, NEW role \in Roles,
           role = "user" <=> text.kind = "user", role = "assistant" => IsBot(text)
    PROVE  AllSettled(Add(h, text, role))
<1> DEFINE f == Fresh(text, role)
<1>1. Settled(f) /\ f \in Message
    BY SettledFresh, FreshWellFormed DEF WellFormed
<1> HIDE DEF f
<1>2. h \in Seq(Message)
    BY DEF WellFormedHistory
<1>3. \A k \in DOMAIN Append(h, f) : Append(h, f)[k] = f \/ (k \in DOMAIN h /\ Append(h, f)[k] = h[k])
    BY <1>1, <1>2
<1> QED
    BY <1>1, <1>3 DEF AllSettled, Add, f

LEMMA OnDiskStored ==
    ASSUME NEW h, AllSettled(h)
    PROVE  AllStored(OnDisk(h))
BY DEF AllSettled, AllStored, Settled, Stored, Prefixed, OnDisk

LEMMA AutoSavedStored ==
    ASSUME NEW h, AllSettled(h), AllStored(saved)
    PROVE  AllStored(AutoSaved(h))
BY OnDiskStored DEF AutoSaved

LEMMA DeleteSettled ==
    ASSUME NEW h, WellFormedHistory(h), AllSettled(h), NEW i \in DOMAIN h
    PROVE  AllSettled(Delete(h, i))
<1>1. h \in Seq(Message) /\ DOMAIN h = 1 .. Len(h) /\ Len(h) \in Nat
    BY DEF WellFormedHistory
<1>2. \A k \in 1 .. Len(h) - 1 : k \in DOMAIN h /\ k + 1 \in DOMAIN h
    BY <1>1
<1> QED
    BY <1>1, <1>2 DEF Delete, AllSettled

LEMMA SwapSettled ==
    ASSUME NEW h, WellFormedHistory(h), AllSettled(h), NEW i \in DOMAIN h, NEW j \in DOMAIN h
    PROVE  AllSettled(Swap(h, i, j))
BY DEF Swap, AllSettled, WellFormedHistory

\* history_set_token_count and its like, and history_set_reasoning, for the swipe that
\* request r wrote
LEMMA SettledTimed ==
    ASSUME NEW m, WellFormed(m), Settled(m), NEW j \in DOMAIN m.swipes, NEW r \in Nat,
           j < MaxSwipes => m.swipes[j].req = r
    PROVE  Settled([m EXCEPT !.stats = [m.stats EXCEPT ![j] = r]])
<1> DEFINE t == [m.stats EXCEPT ![j] = r]
           n == [m EXCEPT !.stats = t]
<1>1. DOMAIN t = DOMAIN m.stats /\ \A k \in DOMAIN t : t[k] = IF k = j THEN r ELSE m.stats[k]
    BY MessageFacts
<1> HIDE DEF t
<1>2. /\ n.role = m.role /\ n.swipes = m.swipes /\ n.reasoning = m.reasoning
      /\ n.finish = m.finish /\ n.stats = t
    BY DEF WellFormed, Message
<1> HIDE DEF n
<1>3. Stored(n)
    BY <1>2 DEF Settled, Stored, Prefixed
<1>4. Metered(n)
    BY <1>1, <1>2, MaxSwipesAssumption DEF Settled, Metered
<1> QED
    BY <1>3, <1>4 DEF Settled, n, t

LEMMA SettledReasoned ==
    ASSUME NEW m, WellFormed(m), Settled(m), NEW j \in DOMAIN m.swipes, NEW r \in Nat,
           j < MaxSwipes => m.swipes[j].req = r, ReasoningFits(m, j)
    PROVE  Settled([m EXCEPT !.reasoning = [ReasoningArray(m) EXCEPT ![j] = r]])
<1> DEFINE t == [ReasoningArray(m) EXCEPT ![j] = r]
           n == [m EXCEPT !.reasoning = t]
<1>1. \A k \in DOMAIN t : t[k] = IF k = j THEN r ELSE ReasoningArray(m)[k]
    OBVIOUS
<1>2. \A k \in DOMAIN ReasoningArray(m) :
          ReasoningArray(m)[k] = 0 \/ (k \in DOMAIN m.reasoning /\ ReasoningArray(m)[k] = m.reasoning[k])
    BY DEF ReasoningArray
<1>3. DOMAIN t = DOMAIN ReasoningArray(m)
    OBVIOUS
<1> HIDE DEF t
<1>4. /\ n.role = m.role /\ n.swipes = m.swipes /\ n.reasoning = t
      /\ n.finish = m.finish /\ n.stats = m.stats
    BY DEF WellFormed, Message
<1> HIDE DEF n
<1>5. Stored(n)
    BY <1>4 DEF Settled, Stored, Prefixed
<1>6. ASSUME NEW k \in 1 .. MaxSwipes - 1, k \in DOMAIN t
      PROVE  t[k] \in {0, m.swipes[k].req}
    <2>1. CASE k = j
        BY <1>1, <1>6, <2>1, MaxSwipesAssumption
    <2>2. CASE k # j
        BY <1>1, <1>2, <1>3, <1>6, <2>2 DEF Settled, Metered
    <2> QED
        BY <2>1, <2>2
<1>7. Metered(n)
    BY <1>4, <1>6 DEF Settled, Metered
<1> QED
    BY <1>5, <1>7 DEF Settled, n, t

LEMMA SettledFinished ==
    ASSUME NEW m, WellFormed(m), Settled(m), NEW j \in DOMAIN m.swipes, NEW r \in Nat,
           j < MaxSwipes => m.swipes[j].req = r
    PROVE  Settled([m EXCEPT !.finish = [FinishArray(m) EXCEPT ![j] = r]])
<1> DEFINE t == [FinishArray(m) EXCEPT ![j] = r]
           n == [m EXCEPT !.finish = t]
<1>1. \A k \in DOMAIN t : t[k] = IF k = j THEN r ELSE FinishArray(m)[k]
    OBVIOUS
<1>2. \A k \in DOMAIN FinishArray(m) :
          FinishArray(m)[k] = 0 \/ (k \in DOMAIN m.finish /\ FinishArray(m)[k] = m.finish[k])
    BY FinishArrayFacts
<1>3. DOMAIN t = DOMAIN FinishArray(m)
    OBVIOUS
<1> HIDE DEF t
<1>4. /\ n.role = m.role /\ n.swipes = m.swipes /\ n.reasoning = m.reasoning
      /\ n.finish = t /\ n.stats = m.stats
    BY DEF WellFormed, Message
<1> HIDE DEF n
<1>5. Stored(n)
    BY <1>4 DEF Settled, Stored, Prefixed
<1>6. ASSUME NEW k \in 1 .. MaxSwipes - 1, k \in DOMAIN t
      PROVE  t[k] \in {0, Junk, m.swipes[k].req}
    <2>1. CASE k = j
        BY <1>1, <1>6, <2>1, MaxSwipesAssumption
    <2>2. CASE k # j
        BY <1>1, <1>2, <1>3, <1>6, <2>2 DEF Settled, Metered
    <2> QED
        BY <2>1, <2>2
<1>7. Metered(n)
    BY <1>4, <1>6 DEF Settled, Metered
<1> QED
    BY <1>5, <1>7 DEF Settled, n, t

-----------------------------------------------------------------------------
(***************************************************************************)
(* The second invariant: what the texts are while a request runs. r is the *)
(* request, h the history and s the selection.                             *)
(***************************************************************************)
\* m is the message that the callbacks of r write. Its last swipe is active, and
\* unless the message was full it is new: no statistics, no finish reason, no slot for
\* reasoning.
Running(r, m) ==
    /\ m.active = Len(m.swipes)
    /\ m.role # "user"
    /\ m.active < MaxSwipes =>
           /\ m.swipes[m.active].req = r.id
           /\ m.stats[m.active] = 0
           /\ Len(m.reasoning) < m.active
           /\ NoFinish(m, m.active)
    /\ r.buf > 0 =>
           \/ m.swipes[m.active] = Reply("part", r.id, Displayed(r.buf))
           \/ r.reasoned /\ m.swipes[m.active] = Reply("wait", r.id, 0)

\* m is one message, or one swipe of the last message, more than r started from;
\* only a message that was full has a swipe less.
AnswersAlone(r, m) ==
    /\ Len(r.base) = r.target - 1
    /\ m.role = "assistant"
    /\ Len(m.swipes) = 1

AnswersAgain(m, b) ==
    /\ m.role = b.role
    /\ \A j \in 1 .. Len(m.swipes) - 1 : m.swipes[j] = b.swipes[j]
    /\ \/ Len(m.swipes) = Len(b.swipes) + 1
       \/ /\ Len(m.swipes) = Len(b.swipes)
          /\ Len(b.swipes) = MaxSwipes
          /\ b.active = MaxSwipes

Answers(r, m) ==
    \/ r.kind = "reply" /\ AnswersAlone(r, m)
    \/ r.kind = "regen" /\ Len(r.base) = r.target /\ AnswersAgain(m, r.base[r.target])

StreamsInto(r, h, s) ==
    r.kind # "none" =>
        /\ WellFormedHistory(r.base)
        /\ r.target \in DOMAIN h
        /\ \A i \in 1 .. r.target - 1 : h[i] = r.base[i]
        /\ Running(r, h[r.target])
        /\ Answers(r, h[r.target])
        /\ r.buf > 0 => r.got
        /\ s \in {0, r.target}

TextInv == /\ AllSettled(history)
           /\ AllStored(saved)
           /\ StreamsInto(req, history, sel)
           /\ NearlySaved

\* What a state of the program must have when no request runs: then the second half of
\* TextInv is only about the file.
LEMMA AutoSavedNearly ==
    ASSUME WellFormedHistory(history'), saved' = AutoSaved(history')
    PROVE  NearlySaved'
<1>1. CASE history' = <<>>
    BY <1>1 DEF NearlySaved, OnlyNoticesAfter
<1>2. CASE history' # <<>>
    <2>1. saved' = OnDisk(history')
        BY <1>2 DEF AutoSaved
    <2>2. Len(saved') = Len(history') /\ DOMAIN saved' = DOMAIN history'
        BY <2>1, OnDiskWellFormed DEF OnDisk, WellFormedFile, WellFormedHistory
    <2>3. \A i \in DOMAIN saved' : SameTexts(history'[i], saved'[i])
        BY <2>1, <2>2 DEF OnDisk, SameTexts
    <2>4. Len(history') \in Nat
        BY DEF WellFormedHistory
    <2> QED
        BY <2>2, <2>3, <2>4 DEF NearlySaved, OnlyNoticesAfter
<1> QED
    BY <1>1, <1>2

\* A step that leaves no request running and saves what it made of the history
LEMMA SavedStep ==
    ASSUME TextInv, WellFormedHistory(history'), AllSettled(history'),
           saved' = AutoSaved(history'), req'.kind = "none"
    PROVE  TextInv'
BY AutoSavedNearly, AutoSavedStored DEF TextInv, StreamsInto

\* A step that changes neither the history nor the file, when no request runs
LEMMA IdleStep ==
    ASSUME TextInv, UNCHANGED <<history, saved, req>>, req.kind = "none"
    PROVE  TextInv'
BY DEF TextInv, StreamsInto, NearlySaved, OnlyNoticesAfter

LEMMA AddFields ==
    ASSUME NEW h, WellFormedHistory(h), NEW text \in Text, NEW role \in Roles
    PROVE  /\ \A k \in DOMAIN h : Add(h, text, role)[k] = h[k]
           /\ Add(h, text, role)[Len(h) + 1] = Fresh(text, role)
BY FreshWellFormed DEF Add, WellFormedHistory, WellFormed

LEMMA SendMessageTexts ==
    ASSUME Inv, TextInv, SendMessage
    PROVE  TextInv'
<1> DEFINE asked == Add(history, Say("user"), "user")
           wait == Reply("wait", req.id + 1, 0)
           n == Len(history) + 2
<1>1. /\ wait \in Text /\ Say("user") \in Text /\ "user" \in Roles /\ "assistant" \in Roles
      /\ wait.kind = "wait" /\ wait.req = req.id + 1 /\ Say("user").kind = "user"
      /\ IsBot(wait)
    BY InvFacts, TextTypes DEF Kinds, Roles, IsBot, Reply, Say
<1>2. WellFormedHistory(asked) /\ AllSettled(asked) /\ Len(asked) = n - 1 /\ Len(asked) \in Nat
    BY <1>1, InvFacts, AddWellFormed, AddSettled DEF TextInv
<1>3. history' = Add(asked, wait, "assistant") /\ saved' = saved /\ sel' = 0
    BY DEF SendMessage, Unselect
<1> HIDE DEF asked, wait
<1>4. WellFormedHistory(history') /\ AllSettled(history') /\ Len(history') = n
    BY <1>1, <1>2, <1>3, AddWellFormed, AddSettled
<1>5. /\ \A k \in 1 .. n - 1 : history'[k] = asked[k]
      /\ history'[n] = Fresh(wait, "assistant")
    <2>1. DOMAIN asked = 1 .. n - 1
        BY <1>2 DEF WellFormedHistory
    <2> QED
        BY <1>1, <1>2, <1>3, <2>1, AddFields
<1>6. /\ req'.kind = "reply" /\ req'.id = req.id + 1 /\ req'.target = n
      /\ req'.base = asked /\ req'.buf = 0
    BY <1>4 DEF SendMessage, Started, asked
<1>7. StreamsInto(req', history', sel')
    <2>1. Running(req', history'[n])
        <3> DEFINE f == Fresh(wait, "assistant")
        <3>1. /\ f.active = 1 /\ f.swipes = <<wait>> /\ Len(f.swipes) = 1 /\ f.swipes[1] = wait
              /\ f.stats[1] = 0 /\ Len(f.reasoning) = 0 /\ f.role = "assistant"
              /\ DOMAIN f.finish = {}
            BY DEF Fresh
        <3>2. history'[n] = f
            BY <1>5
        <3> HIDE DEF f
        <3>3. NoFinish(f, 1)
            BY <3>1 DEF NoFinish
        <3>4. f.swipes[f.active].req = req'.id /\ f.stats[f.active] = 0
            BY <1>1, <1>6, <3>1
        <3>5. ~(req'.buf > 0)
            BY <1>6
        <3>6. Running(req', f)
            BY <3>1, <3>3, <3>4, <3>5 DEF Running
        <3> QED
            BY <3>2, <3>6
    <2>2. Answers(req', history'[n])
        BY <1>2, <1>5, <1>6 DEF Answers, AnswersAlone, Fresh
    <2>3. n \in DOMAIN history'
        BY <1>2, <1>4 DEF WellFormedHistory
    <2> QED
        BY <1>2, <1>3, <1>5, <1>6, <2>1, <2>2, <2>3 DEF StreamsInto
<1>8. NearlySaved'
    BY <1>6 DEF NearlySaved
<1> QED
    BY <1>3, <1>4, <1>7, <1>8 DEF TextInv

LEMMA SendWithoutModelTexts ==
    ASSUME Inv, TextInv, SendWithoutModel
    PROVE  TextInv'
<1> DEFINE asked == Add(history, Say("user"), "user")
<1>1. /\ Say("notice") \in Text /\ Say("user") \in Text /\ "user" \in Roles /\ "assistant" \in Roles
      /\ Say("notice").kind = "notice" /\ Say("user").kind = "user" /\ IsBot(Say("notice"))
    BY TextTypes DEF Kinds, Roles, IsBot, Say
<1>2. WellFormedHistory(asked) /\ AllSettled(asked)
    BY <1>1, InvFacts, AddWellFormed, AddSettled DEF TextInv
<1>3. history' = Add(asked, Say("notice"), "assistant")
    BY DEF SendWithoutModel
<1> HIDE DEF asked
<1>4. WellFormedHistory(history') /\ AllSettled(history')
    BY <1>1, <1>2, <1>3, AddWellFormed, AddSettled
<1> QED
    BY <1>4, SavedStep DEF SendWithoutModel, Idle

\* Where the right arrow asks for a swipe: the last message, which is not the user's and
\* shows its last swipe
LEMMA LastSwipeFacts ==
    ASSUME Inv, TextInv, Selecting, AtLastSwipe
    PROVE  /\ sel \in DOMAIN history /\ sel = Len(history)
           /\ WellFormed(history[sel]) /\ Settled(history[sel])
           /\ history[sel].role # "user" /\ history[sel].active = Len(history[sel].swipes)
           /\ Len(history[sel].swipes) \in Nat /\ Len(history[sel].swipes) <= MaxSwipes
<1>1. sel \in DOMAIN history /\ sel = Len(history) /\ WellFormed(history[sel])
    BY InvFacts DEF Selecting, AtLastSwipe, WellFormedHistory
<1>2. Settled(history[sel])
    BY <1>1 DEF TextInv, AllSettled
<1>3. history[sel].active \in DOMAIN history[sel].swipes /\ Len(history[sel].swipes) \in Nat
    BY <1>1, MessageFacts
<1>4. IsBot(history[sel].swipes[history[sel].active])
    BY DEF AtLastSwipe, Shown
<1>5. history[sel].role # "user" /\ Len(history[sel].swipes) <= MaxSwipes
    BY <1>2, <1>3, <1>4 DEF Settled, Stored, Prefixed, IsBot
<1> QED
    BY <1>1, <1>2, <1>3, <1>5 DEF AtLastSwipe

LEMMA AddSwipeIs ==
    ASSUME NEW h, WellFormedHistory(h), NEW i \in DOMAIN h, NEW text
    PROVE  IF Len(h[i].swipes) < MaxSwipes
           THEN AddSwipe(h, i, text) = [h EXCEPT ![i] = Grow(h[i], text)]
           ELSE AddSwipe(h, i, text) = h
BY DEF AddSwipe, WellFormedHistory

LEMMA AddSwipeSettled ==
    ASSUME NEW h, WellFormedHistory(h), AllSettled(h), NEW i \in DOMAIN h, NEW text \in Text,
           h[i].role # "user", IsBot(text)
    PROVE  AllSettled(AddSwipe(h, i, text))
<1>1. WellFormed(h[i]) /\ Settled(h[i])
    BY DEF WellFormedHistory, AllSettled
<1>2. CASE Len(h[i].swipes) < MaxSwipes
    <2>1. Settled(Grow(h[i], text))
        BY <1>1, <1>2, SettledGrown
    <2> QED
        BY <1>2, <2>1, AddSwipeIs, ReplaceSettled
<1>3. CASE ~(Len(h[i].swipes) < MaxSwipes)
    BY <1>3, AddSwipeIs
<1> QED
    BY <1>2, <1>3

LEMMA RegenerateTexts ==
    ASSUME Inv, TextInv, Regenerate
    PROVE  TextInv'
<1> DEFINE wait == Reply("wait", req.id + 1, 0)
           m == history[sel]
           g == Grow(m, wait)
<1>1. wait \in Text /\ IsBot(wait) /\ wait.req = req.id + 1
    BY InvFacts, TextTypes DEF Kinds, IsBot, Reply
<1>2. /\ sel \in DOMAIN history /\ sel = Len(history) /\ WellFormed(m) /\ Settled(m)
      /\ m.role # "user" /\ m.active = Len(m.swipes) /\ Len(m.swipes) \in Nat
      /\ Len(m.swipes) <= MaxSwipes
    BY LastSwipeFacts DEF Regenerate
<1>3. /\ history' = AddSwipe(history, sel, wait) /\ sel' = sel /\ saved' = saved
      /\ WellFormedHistory(history) /\ AllSettled(history) /\ DOMAIN history = 1 .. Len(history)
    BY InvFacts DEF Regenerate, cursor, TextInv
<1>4. /\ req'.kind = "regen" /\ req'.id = req.id + 1 /\ req'.target = sel
      /\ req'.base = history /\ req'.buf = 0
    BY DEF Regenerate, Started
<1>5. AllSettled(history')
    BY <1>1, <1>2, <1>3, AddSwipeSettled
<1>6. \A k \in 1 .. sel - 1 : history'[k] = history[k]
    BY <1>2, <1>3, AddSwipeIs
<1>7. Running(req', history'[sel]) /\ AnswersAgain(history'[sel], m)
    <2>1. CASE Len(m.swipes) < MaxSwipes
        <3>1. history'[sel] = g
            BY <1>2, <1>3, <2>1, AddSwipeIs
        <3>2. /\ g.role = m.role /\ g.active = Len(m.swipes) + 1 /\ g.reasoning = m.reasoning
              /\ Len(g.swipes) = Len(m.swipes) + 1
              /\ \A k \in 1 .. Len(m.swipes) : g.swipes[k] = m.swipes[k]
              /\ g.swipes[Len(m.swipes) + 1] = wait /\ g.stats[Len(m.swipes) + 1] = 0
              /\ g.finish = GrownFinish(m)
            BY <1>1, <1>2, GrowFields
        <3>4. NoFinish(g, Len(m.swipes) + 1)
            BY <1>2, <3>2, GrownFinishFacts DEF NoFinish
        <3>3. Len(m.reasoning) \in 0 .. Len(m.swipes)
            BY <1>2, MessageFacts
        <3> HIDE DEF g, m, wait
        <3> QED
            BY <1>1, <1>2, <1>4, <3>1, <3>2, <3>3, <3>4 DEF Running, AnswersAgain
    <2>2. CASE Len(m.swipes) = MaxSwipes
        <3>1. history'[sel] = m
            BY <1>2, <1>3, <2>2, AddSwipeIs
        <3> HIDE DEF m
        <3> QED
            BY <1>2, <1>4, <2>2, <3>1, MaxSwipesAssumption DEF Running, AnswersAgain
    <2> QED
        BY <1>2, <2>1, <2>2, MaxSwipesAssumption
<1>8. StreamsInto(req', history', sel')
    <2>1. sel \in DOMAIN history'
        BY <1>2, <1>3, AddSwipeIs
    <2> QED
        BY <1>2, <1>3, <1>4, <1>6, <1>7, <2>1 DEF StreamsInto, Answers
<1> QED
    BY <1>3, <1>4, <1>5, <1>8 DEF TextInv, NearlySaved

LEMMA RegenerateWithoutModelTexts ==
    ASSUME Inv, TextInv, RegenerateWithoutModel
    PROVE  TextInv'
<1>1. Say("wait") \in Text /\ IsBot(Say("wait"))
    BY TextTypes DEF Kinds, IsBot, Say
<1>2. sel \in DOMAIN history /\ history[sel].role # "user"
    BY LastSwipeFacts DEF RegenerateWithoutModel
<1>3. WellFormedHistory(history') /\ AllSettled(history')
    BY <1>1, <1>2, InvFacts, AddSwipeWellFormed, AddSwipeSettled
    DEF RegenerateWithoutModel, TextInv
<1> QED
    BY <1>3, SavedStep DEF RegenerateWithoutModel, Idle

-----------------------------------------------------------------------------
(***************************************************************************)
(* The running request                                                     *)
(***************************************************************************)
\* The message that a running request writes
LEMMA TargetFacts ==
    ASSUME Inv, TextInv, req.kind # "none"
    PROVE  /\ req.target \in DOMAIN history /\ req.target = Len(history)
           /\ WellFormed(history[req.target]) /\ Settled(history[req.target])
           /\ Running(req, history[req.target]) /\ Answers(req, history[req.target])
           /\ history[req.target].active \in DOMAIN history[req.target].swipes
           /\ req.buf \in Nat /\ req.id \in Nat /\ req.target \in Nat
           /\ sel \in {0, req.target}
<1>1. /\ req.target = Len(history) /\ Running(req, history[req.target])
      /\ Answers(req, history[req.target]) /\ sel \in {0, req.target}
      /\ req.target \in DOMAIN history
    BY DEF Inv, PromptIsWhatCameBefore, TextInv, StreamsInto
<1>2. WellFormed(history[req.target]) /\ Settled(history[req.target])
    BY <1>1, InvFacts DEF WellFormedHistory, TextInv, AllSettled
<1> QED
    BY <1>1, <1>2, InvFacts, MessageFacts DEF RequestType

\* A text of the request's own on its message
LEMMA StreamedSettled ==
    ASSUME Inv, TextInv, req.kind # "none",
           NEW text \in Text, IsBot(text), text.req = req.id
    PROVE  AllSettled(Update(history, req.target, text))
<1> DEFINE m == history[req.target]
           j == m.active
<1>1. /\ WellFormed(m) /\ Settled(m) /\ Running(req, m) /\ j \in DOMAIN m.swipes
      /\ req.target \in DOMAIN history /\ WellFormedHistory(history) /\ AllSettled(history)
    BY TargetFacts, InvFacts DEF TextInv
<1>2. Settled(Rewritten(m, j, text))
    <2>1. m.role # "user" /\ text.kind # "user"
        BY <1>1 DEF Running, IsBot
    <2>2. j < MaxSwipes => text.req = m.swipes[j].req
        BY <1>1 DEF Running
    <2> HIDE DEF m, j
    <2> QED
        BY <1>1, <2>1, <2>2, SettledRewritten
<1>3. Update(history, req.target, text) = [history EXCEPT ![req.target] = Rewritten(m, j, text)]
    BY <1>1, UpdateIs
<1> QED
    BY <1>1, <1>2, <1>3, ReplaceSettled

\* A callback of the request: r is the request after it.
LEMMA StreamedOn ==
    ASSUME Inv, TextInv, req.kind # "none",
           NEW text \in Text, IsBot(text), text.req = req.id,
           NEW r \in RequestType, r.kind = req.kind, r.id = req.id, r.target = req.target,
           r.base = req.base, r.buf > 0 => r.got,
           r.buf > 0 => \/ text = Reply("part", r.id, Displayed(r.buf))
                        \/ r.reasoned /\ text = Reply("wait", r.id, 0),
           NEW s \in {0, sel}
    PROVE  StreamsInto(r, Update(history, req.target, text), s)
<1> DEFINE m == history[req.target]
           j == m.active
           w == Rewritten(m, j, text)
           h == Update(history, req.target, text)
<1>1. /\ WellFormed(m) /\ Running(req, m) /\ Answers(req, m) /\ j \in DOMAIN m.swipes
      /\ req.target \in DOMAIN history /\ WellFormedHistory(history)
      /\ DOMAIN history = 1 .. Len(history) /\ sel \in {0, req.target}
    BY TargetFacts, InvFacts
<1>2. h = [history EXCEPT ![req.target] = w]
    <2>1. req.target \in DOMAIN history /\ WellFormedHistory(history)
        BY <1>1
    <2> QED
        BY <2>1, UpdateIs
<1>3. /\ w.role = m.role /\ w.active = m.active /\ w.stats = m.stats
      /\ w.finish = m.finish
      /\ w.reasoning = m.reasoning /\ Len(w.swipes) = Len(m.swipes)
      /\ \A k \in DOMAIN m.swipes : w.swipes[k] = IF k = j THEN text ELSE m.swipes[k]
    BY <1>1, RewrittenFields
<1>4. DOMAIN m.swipes = 1 .. Len(m.swipes) /\ Len(m.swipes) \in Nat
    BY <1>1, MessageFacts
<1>5. /\ h[req.target] = w /\ DOMAIN h = DOMAIN history
      /\ \A k \in 1 .. req.target - 1 : h[k] = history[k]
    BY <1>1, <1>2
<1> HIDE DEF w, h
<1>6. Running(r, w)
    <2>1. w.swipes[w.active] = text
        BY <1>1, <1>3
    <2> HIDE DEF m
    <2> QED
        BY <1>1, <1>3, <2>1 DEF Running, NoFinish, j
<1>7. Answers(r, w)
    <2>1. \A k \in 1 .. Len(m.swipes) - 1 : w.swipes[k] = m.swipes[k]
        <3>1. j = Len(m.swipes)
            BY <1>1 DEF Running
        <3> QED
            BY <1>3, <1>4, <3>1
    <2> HIDE DEF m
    <2>2. CASE req.kind = "reply" /\ AnswersAlone(req, m)
        BY <1>3, <2>2 DEF Answers, AnswersAlone
    <2>3. CASE /\ req.kind = "regen" /\ Len(req.base) = req.target
               /\ AnswersAgain(m, req.base[req.target])
        <3> DEFINE b == req.base[req.target]
        <3>1. AnswersAgain(m, b)
            BY <2>3
        <3> HIDE DEF b
        <3>2. AnswersAgain(w, b)
            BY <1>3, <1>4, <2>1, <3>1 DEF AnswersAgain
        <3> QED
            BY <2>3, <3>2 DEF Answers, b
    <2> QED
        BY <1>1, <2>2, <2>3 DEF Answers
<1>8. /\ WellFormedHistory(req.base)
      /\ \A k \in 1 .. req.target - 1 : history[k] = req.base[k]
    BY DEF TextInv, StreamsInto
<1> QED
    BY <1>1, <1>5, <1>6, <1>7, <1>8 DEF StreamsInto, h

LEMMA CallbackTexts ==
    ASSUME Inv, TextInv, Callback
    PROVE  TextInv'
<1>1. /\ req.kind # "none" /\ req.buf \in Nat /\ req.id \in Nat /\ req \in RequestType
      /\ req.target \in DOMAIN history /\ sel \in {0, req.target}
    BY InvFacts, TargetFacts
    DEF Callback, ReceiveReasoning, ReceiveContent, ReceiveBlank, Tick
<1>2. saved' = saved
    BY DEF Callback, ReceiveReasoning, ReceiveContent, ReceiveBlank, Tick
<1>3. /\ Waiting \in Text /\ IsBot(Waiting) /\ Waiting.req = req.id
      /\ Waiting = Reply("wait", req.id, 0)
    BY <1>1, TextTypes DEF Waiting, Kinds, IsBot, Reply
<1>4. StreamsInto(req, history, sel)
    BY DEF TextInv
<1>5. AllSettled(history') /\ StreamsInto(req', history', sel') /\ req'.kind = req.kind
    <2>1. CASE ReceiveReasoning
        <3>1. req' = [req EXCEPT !.reasoned = TRUE]
            BY <2>1 DEF ReceiveReasoning
        <3>2. /\ req' \in RequestType /\ req'.kind = req.kind /\ req'.id = req.id
              /\ req'.target = req.target /\ req'.base = req.base /\ req'.buf = req.buf
              /\ req'.got = req.got /\ req'.reasoned
            BY <1>1, <3>1 DEF RequestType
        <3>3. history' = Update(history, req.target, Waiting) /\ sel' = sel
            BY <2>1 DEF ReceiveReasoning, cursor
        <3>4. req'.buf > 0 => req'.got
            BY <1>1, <1>4, <3>2 DEF StreamsInto
        <3>5. StreamsInto(req', Update(history, req.target, Waiting), sel')
            BY <1>1, <1>3, <3>2, <3>3, <3>4, StreamedOn
        <3> QED
            BY <1>1, <1>3, <3>2, <3>3, <3>5, StreamedSettled
    <2>2. CASE ReceiveContent
        <3> DEFINE text == Reply("part", req.id, Displayed(req'.buf))
        <3>2. /\ req' \in RequestType /\ req'.kind = req.kind /\ req'.id = req.id
              /\ req'.target = req.target /\ req'.base = req.base /\ req'.buf \in Nat
              /\ req'.got
            BY <1>1, <2>2, ContentFacts
        <3>3. history' = Update(history, req.target, text) /\ sel' = 0
            BY <2>2 DEF ReceiveContent
        <3>4. text \in Text /\ IsBot(text) /\ text.req = req.id
            <4>1. Displayed(req'.buf) \in Nat
                BY <3>2, BoundsAssumption DEF Displayed
            <4> QED
                BY <1>1, <4>1, TextTypes DEF Kinds, IsBot, Reply
        <3>5. text = Reply("part", req'.id, Displayed(req'.buf))
            BY <3>2
        <3> HIDE DEF text
        <3>6. StreamsInto(req', Update(history, req.target, text), sel')
            BY <1>1, <3>2, <3>3, <3>4, <3>5, StreamedOn
        <3> QED
            BY <1>1, <3>2, <3>3, <3>4, <3>6, StreamedSettled
    <2>3. CASE ReceiveBlank
        <3>1. req' = [req EXCEPT !.got = TRUE] /\ req.buf = 0 /\ history' = history /\ sel' = sel
            BY <2>3 DEF ReceiveBlank, cursor
        <3>2. /\ req'.kind = req.kind /\ req'.id = req.id /\ req'.got
              /\ req'.target = req.target /\ req'.base = req.base /\ req'.buf = 0
            BY <1>1, <3>1 DEF RequestType
        <3>3. Answers(req', history[req.target]) /\ Running(req', history[req.target])
            BY <1>1, <1>4, <3>2 DEF StreamsInto, Answers, AnswersAlone, Running, NoFinish
        <3> QED
            BY <1>1, <1>4, <3>1, <3>2, <3>3 DEF StreamsInto, TextInv
    <2>4. CASE Tick
        <3>1. req' = req /\ sel' = sel /\ history' = Update(history, req.target, Waiting) /\ ~req.got
            BY <2>4 DEF Tick, cursor
        <3>2. req.buf > 0 => req.got
            BY <1>1, <1>4 DEF StreamsInto
        <3>3. StreamsInto(req, Update(history, req.target, Waiting), sel)
            BY <1>1, <1>3, <3>1, <3>2, StreamedOn
        <3> QED
            BY <1>1, <1>3, <3>1, <3>3, StreamedSettled
    <2> QED
        BY <2>1, <2>2, <2>3, <2>4 DEF Callback
<1> QED
    BY <1>1, <1>2, <1>5 DEF TextInv, NearlySaved

\* do_llm_reply and the right arrow write the verdict on the request's message or nowhere.
LEMMA VerdictSettled ==
    ASSUME Inv, TextInv, req.kind # "none", NEW kind \in {"err", "silent"}
    PROVE  AllSettled(Verdict(kind)) /\ WellFormedHistory(Verdict(kind))
<1> DEFINE text == Reply(kind, req.id, 0)
<1>1. text \in Text /\ IsBot(text) /\ text.req = req.id
    BY TargetFacts, TextTypes DEF Kinds, IsBot, Reply
<1> HIDE DEF text
<1>2. AllSettled(Update(history, req.target, text))
    BY <1>1, StreamedSettled
<1>3. Update(history, 0, text) = history
    BY InvFacts DEF Update
<1>4. Verdict(kind) \in {Update(history, req.target, text), Update(history, 0, text)}
    BY TargetFacts DEF Verdict, text
<1>5. AllSettled(Verdict(kind))
    BY <1>2, <1>3, <1>4 DEF TextInv
<1> QED
    BY <1>1, <1>5, InvFacts, UpdateWellFormed DEF Verdict, text

LEMMA SetStatsIs ==
    ASSUME NEW h, WellFormedHistory(h), NEW i, NEW j, NEW r, HasSwipe(h, i, j)
    PROVE  SetStats(h, i, j, r) = [h EXCEPT ![i] = [h[i] EXCEPT !.stats = [h[i].stats EXCEPT ![j] = r]]]
BY DEF SetStats, HasSwipe, WellFormedHistory

LEMMA SetReasoningIs ==
    ASSUME NEW h, WellFormedHistory(h), NEW i, NEW j, NEW r, HasSwipe(h, i, j),
           ReasoningFits(h[i], j)
    PROVE  SetReasoning(h, i, j, r) =
               [h EXCEPT ![i] = [h[i] EXCEPT !.reasoning = [ReasoningArray(h[i]) EXCEPT ![j] = r]]]
BY DEF SetReasoning, HasSwipe, WellFormedHistory

LEMMA SetReasoningSettled ==
    ASSUME NEW h, WellFormedHistory(h), AllSettled(h), NEW i \in DOMAIN h,
           NEW j \in DOMAIN h[i].swipes, NEW r \in Nat,
           j < MaxSwipes => h[i].swipes[j].req = r
    PROVE  /\ AllSettled(SetReasoning(h, i, j, r))
           /\ SetReasoning(h, i, j, r)[i].swipes = h[i].swipes
           /\ SetReasoning(h, i, j, r)[i].active = h[i].active
           /\ SetReasoning(h, i, j, r)[i].role = h[i].role
           /\ DOMAIN SetReasoning(h, i, j, r) = DOMAIN h
           /\ \A k \in DOMAIN h \ {i} : SetReasoning(h, i, j, r)[k] = h[k]
<1> DEFINE t == [ReasoningArray(h[i]) EXCEPT ![j] = r]
           m == [h[i] EXCEPT !.reasoning = t]
<1>1. CASE ReasoningFits(h[i], j)
    <2>1. SetReasoning(h, i, j, r) = [h EXCEPT ![i] = m]
        BY <1>1, SetReasoningIs DEF HasSwipe
    <2>2. WellFormed(h[i]) /\ Settled(h[i])
        BY DEF WellFormedHistory, AllSettled
    <2>3. Settled(m)
        BY <1>1, <2>2, SettledReasoned
    <2> HIDE DEF t
    <2>4. m.swipes = h[i].swipes /\ m.active = h[i].active /\ m.role = h[i].role
        BY <2>2 DEF WellFormed, Message
    <2> HIDE DEF m
    <2>5. AllSettled([h EXCEPT ![i] = m])
        BY <2>3, ReplaceSettled
    <2> QED
        BY <2>1, <2>4, <2>5
<1>2. CASE ~ReasoningFits(h[i], j)
    BY <1>2 DEF SetReasoning
<1> QED
    BY <1>1, <1>2

LEMMA SetStatsSettled ==
    ASSUME NEW h, WellFormedHistory(h), AllSettled(h), NEW i \in DOMAIN h,
           NEW j \in DOMAIN h[i].swipes, NEW r \in Nat,
           j < MaxSwipes => h[i].swipes[j].req = r
    PROVE  /\ AllSettled(SetStats(h, i, j, r))
           /\ SetStats(h, i, j, r)[i].swipes = h[i].swipes
           /\ SetStats(h, i, j, r)[i].active = h[i].active
           /\ SetStats(h, i, j, r)[i].role = h[i].role
           /\ DOMAIN SetStats(h, i, j, r) = DOMAIN h
           /\ \A k \in DOMAIN h \ {i} : SetStats(h, i, j, r)[k] = h[k]
<1> DEFINE t == [h[i].stats EXCEPT ![j] = r]
           m == [h[i] EXCEPT !.stats = t]
<1>1. SetStats(h, i, j, r) = [h EXCEPT ![i] = m]
    BY SetStatsIs DEF HasSwipe
<1>2. WellFormed(h[i]) /\ Settled(h[i])
    BY DEF WellFormedHistory, AllSettled
<1>3. Settled(m)
    BY <1>2, SettledTimed
<1> HIDE DEF t
<1>4. m.swipes = h[i].swipes /\ m.active = h[i].active /\ m.role = h[i].role
    BY <1>2 DEF WellFormed, Message
<1> HIDE DEF m
<1>5. AllSettled([h EXCEPT ![i] = m])
    BY <1>3, ReplaceSettled
<1> QED
    BY <1>1, <1>4, <1>5

LEMMA SetFinishSettled ==
    ASSUME NEW h, WellFormedHistory(h), AllSettled(h), NEW i \in DOMAIN h,
           NEW j \in DOMAIN h[i].swipes, NEW r \in Nat,
           j < MaxSwipes => h[i].swipes[j].req = r
    PROVE  /\ AllSettled(SetFinish(h, i, j, r))
           /\ SetFinish(h, i, j, r)[i].swipes = h[i].swipes
           /\ SetFinish(h, i, j, r)[i].active = h[i].active
           /\ SetFinish(h, i, j, r)[i].role = h[i].role
           /\ DOMAIN SetFinish(h, i, j, r) = DOMAIN h
           /\ \A k \in DOMAIN h \ {i} : SetFinish(h, i, j, r)[k] = h[k]
<1> DEFINE t == [FinishArray(h[i]) EXCEPT ![j] = r]
           m == [h[i] EXCEPT !.finish = t]
<1>1. SetFinish(h, i, j, r) = [h EXCEPT ![i] = m]
    BY DEF SetFinish, HasSwipe, WellFormedHistory
<1>2. WellFormed(h[i]) /\ Settled(h[i])
    BY DEF WellFormedHistory, AllSettled
<1>3. Settled(m)
    BY <1>2, SettledFinished
<1> HIDE DEF t
<1>4. m.swipes = h[i].swipes /\ m.active = h[i].active /\ m.role = h[i].role
    BY <1>2 DEF WellFormed, Message
<1> HIDE DEF m
<1>5. AllSettled([h EXCEPT ![i] = m])
    BY <1>3, ReplaceSettled
<1> QED
    BY <1>1, <1>4, <1>5

\* The statistics change no text, and stay with the text of their request.
LEMMA MeasuredFacts ==
    ASSUME Inv, TextInv, req.kind # "none", NEW named
    PROVE  /\ AllSettled(Measured(history, req.target, named))
           /\ WellFormedHistory(Measured(history, req.target, named))
           /\ DOMAIN Measured(history, req.target, named) = DOMAIN history
           /\ \A k \in DOMAIN history :
                  /\ Measured(history, req.target, named)[k].role = history[k].role
                  /\ Measured(history, req.target, named)[k].swipes = history[k].swipes
                  /\ Measured(history, req.target, named)[k].active = history[k].active
<1> DEFINE i == req.target
           j == history[i].active
           h == SetStats(history, i, j, req.id)
           g == IF req.reasoned THEN SetReasoning(h, i, j, req.id) ELSE h
           f == SetFinish(g, i, j, req.id)
<1>1. /\ WellFormedHistory(history) /\ AllSettled(history) /\ i \in DOMAIN history
      /\ j \in DOMAIN history[i].swipes /\ req.id \in Nat
      /\ j < MaxSwipes => history[i].swipes[j].req = req.id
    BY InvFacts, TargetFacts DEF TextInv, Running
<1>2. /\ AllSettled(h) /\ WellFormedHistory(h) /\ DOMAIN h = DOMAIN history
      /\ h[i].swipes = history[i].swipes
      /\ \A k \in DOMAIN history :
             h[k].role = history[k].role /\ h[k].swipes = history[k].swipes
             /\ h[k].active = history[k].active
    BY <1>1, SetStatsSettled, SetStatsWellFormed, SMTT(20)
<1> HIDE DEF h, j
<1>3. /\ AllSettled(g) /\ WellFormedHistory(g) /\ DOMAIN g = DOMAIN history
      /\ \A k \in DOMAIN history :
             g[k].role = h[k].role /\ g[k].swipes = h[k].swipes /\ g[k].active = h[k].active
    BY <1>1, <1>2, SetReasoningSettled, SetReasoningWellFormed
<1>4. Measured(history, i, named) = IF named THEN f ELSE g
    BY DEF Measured, h, j
<1> HIDE DEF g
<1>5. j \in DOMAIN g[i].swipes /\ (j < MaxSwipes => g[i].swipes[j].req = req.id)
    BY <1>1, <1>2, <1>3
<1>6. /\ AllSettled(f) /\ WellFormedHistory(f) /\ DOMAIN f = DOMAIN history
      /\ \A k \in DOMAIN history :
             f[k].role = g[k].role /\ f[k].swipes = g[k].swipes /\ f[k].active = g[k].active
    BY <1>1, <1>3, <1>5, SetFinishSettled, SetFinishWellFormed
<1> HIDE DEF f
<1> QED
    BY <1>2, <1>3, <1>4, <1>6

LEMMA RequestEndsTexts ==
    ASSUME Inv, TextInv, RequestEnds
    PROVE  TextInv'
<1>1. req.kind # "none" /\ req'.kind = "none" /\ saved' = AutoSaved(history')
    BY DEF RequestEnds, RequestFails, RequestEmpty, RequestDone, EndRequest, Idle
<1>2. WellFormedHistory(history') /\ AllSettled(history')
    <2>1. CASE RequestFails \/ RequestEmpty
        BY <1>1, <2>1, VerdictSettled DEF RequestFails, RequestEmpty
    <2>2. CASE RequestDone
        BY <1>1, <2>2, MeasuredFacts DEF RequestDone
    <2> QED
        BY <2>1, <2>2 DEF RequestEnds
<1> QED
    BY <1>1, <1>2, SavedStep

-----------------------------------------------------------------------------
(***************************************************************************)
(* Keys and commands                                                       *)
(***************************************************************************)
LEMMA SetActiveIs ==
    ASSUME NEW h, WellFormedHistory(h), NEW i \in DOMAIN h, NEW j \in DOMAIN h[i].swipes
    PROVE  SetActive(h, i, j) = [h EXCEPT ![i] = [h[i] EXCEPT !.active = j]]
BY DEF SetActive, HasSwipe, WellFormedHistory

LEMMA SetActiveSettled ==
    ASSUME NEW h, WellFormedHistory(h), AllSettled(h), NEW i \in DOMAIN h,
           NEW j \in DOMAIN h[i].swipes
    PROVE  /\ AllSettled(SetActive(h, i, j))
           /\ DOMAIN SetActive(h, i, j) = DOMAIN h
           /\ \A k \in DOMAIN h : /\ SetActive(h, i, j)[k].role = h[k].role
                                /\ SetActive(h, i, j)[k].swipes = h[k].swipes
           /\ SetActive(h, i, j)[i].active = j
           /\ \A k \in DOMAIN h \ {i} : SetActive(h, i, j)[k] = h[k]
<1> DEFINE m == [h[i] EXCEPT !.active = j]
<1>1. WellFormed(h[i]) /\ Settled(h[i])
    BY DEF WellFormedHistory, AllSettled
<1>2. Settled(m)
    BY <1>1, SettledActive
<1>3. m.role = h[i].role /\ m.swipes = h[i].swipes /\ m.active = j
    BY <1>1 DEF WellFormed, Message
<1>4. SetActive(h, i, j) = [h EXCEPT ![i] = m]
    BY SetActiveIs
<1> HIDE DEF m
<1>5. AllSettled([h EXCEPT ![i] = m])
    BY <1>2, ReplaceSettled
<1> QED
    BY <1>3, <1>4, <1>5

\* The arrows choose the swipe before or after the active one.
LEMMA ChosenSwipe ==
    ASSUME Inv, TextInv, SwipePrev \/ SwipeNext
    PROVE  /\ req.kind = "none" /\ sel \in DOMAIN history
           /\ \E j \in DOMAIN history[sel].swipes : history' = SetActive(history, sel, j)
<1>1. req.kind = "none" /\ sel \in DOMAIN history
    BY InvFacts DEF SwipePrev, SwipeNext, Selecting, Free, Ready
<1>2. WellFormed(history[sel])
    BY <1>1, InvFacts DEF WellFormedHistory
<1>3. /\ history[sel].active \in 1 .. Len(history[sel].swipes) /\ Len(history[sel].swipes) \in Nat
      /\ DOMAIN history[sel].swipes = 1 .. Len(history[sel].swipes)
    BY <1>2, MessageFacts
<1>4. CASE SwipePrev
    <2>1. history[sel].active - 1 \in DOMAIN history[sel].swipes
        BY <1>3, <1>4 DEF SwipePrev
    <2> QED
        BY <1>1, <1>4, <2>1 DEF SwipePrev
<1>5. CASE SwipeNext
    <2>1. history[sel].active + 1 \in DOMAIN history[sel].swipes
        BY <1>3, <1>5 DEF SwipeNext
    <2> QED
        BY <1>1, <1>5, <2>1 DEF SwipeNext
<1> QED
    BY <1>4, <1>5

LEMMA KeyTexts ==
    ASSUME Inv, TextInv, Key
    PROVE  TextInv'
<1>1. CASE \/ SelectUp \/ SelectDown \/ StartEdit \/ Escape \/ ToggleMove \/ LeaveSelection
           \/ AskDelete \/ CancelDelete \/ Resize
    <2>1. req.kind = "none" /\ UNCHANGED <<history, saved, req>>
        BY <1>1 DEF SelectUp, SelectDown, StartEdit, Escape, ToggleMove, LeaveSelection,
           AskDelete, CancelDelete, Resize, Selecting, Free, Ready
    <2> QED
        BY <2>1, IdleStep
<1>2. CASE SwipePrev \/ SwipeNext
    <2>1. PICK j \in DOMAIN history[sel].swipes : history' = SetActive(history, sel, j)
        BY <1>2, ChosenSwipe
    <2>2. /\ sel \in DOMAIN history /\ WellFormedHistory(history) /\ AllSettled(history)
          /\ req.kind = "none" /\ req' = req /\ saved' \in {saved, AutoSaved(history')}
        BY <1>2, ChosenSwipe, InvFacts DEF TextInv, SwipePrev, SwipeNext
    <2>3. /\ WellFormedHistory(history') /\ AllSettled(history') /\ Len(history') = Len(history)
          /\ DOMAIN history' = DOMAIN history
          /\ \A k \in DOMAIN history :
                 history'[k].role = history[k].role /\ history'[k].swipes = history[k].swipes
        BY <2>1, <2>2, SetActiveWellFormed, SetActiveSettled
    <2>4. CASE saved' = AutoSaved(history')
        BY <2>2, <2>3, <2>4, SavedStep
    <2>5. CASE saved' = saved
        <3>1. DOMAIN saved = 1 .. Len(saved) /\ Len(saved) \in Nat /\ Len(history) \in Nat
              /\ DOMAIN history = 1 .. Len(history)
            BY InvFacts DEF WellFormedFile
        <3>2. OnlyNoticesAfter(0) => OnlyNoticesAfter(0)'
            BY <2>3, <3>1 DEF OnlyNoticesAfter
        <3>3. OnlyNoticesAfter(Len(saved)) => OnlyNoticesAfter(Len(saved))'
            BY <2>3, <2>5, <3>1 DEF OnlyNoticesAfter
        <3>4. Len(saved) <= Len(history) =>
                  \A k \in DOMAIN saved : SameTexts(history[k], saved[k]) => SameTexts(history'[k], saved[k])
            BY <2>3, <3>1 DEF SameTexts
        <3>5. NearlySaved'
            BY <2>2, <2>3, <2>5, <3>2, <3>3, <3>4 DEF TextInv, NearlySaved
        <3> QED
            BY <2>2, <2>3, <2>5, <3>5 DEF TextInv, StreamsInto
    <2> QED
        BY <2>2, <2>4, <2>5
<1> QED
    BY <1>1, <1>2 DEF Key

\* What the edit writes: the text keeps its speaker and its request.
LEMMA EditedFacts ==
    ASSUME Inv, TextInv, edit.on
    PROVE  LET m == history[edit.msg]
               text == Edited(m.swipes[edit.sw])
           IN  /\ edit.msg \in DOMAIN history /\ edit.sw \in DOMAIN m.swipes
               /\ WellFormed(m) /\ Settled(m)
               /\ text \in Text /\ Settled(Rewritten(m, edit.sw, text))
<1> DEFINE m == history[edit.msg]
           old == m.swipes[edit.sw]
           text == Edited(old)
<1>1. edit.msg \in DOMAIN history /\ edit.sw \in DOMAIN m.swipes
    BY DEF Inv, EditTargetValid, HasSwipe
<1>2. WellFormed(m) /\ Settled(m)
    BY <1>1, InvFacts DEF WellFormedHistory, TextInv, AllSettled
<1> HIDE DEF m
<1>3. old \in Text
    BY <1>1, <1>2, MessageFacts
<1>4. /\ m.role = "user" <=> old.kind = "user"
      /\ m.role = "assistant" => IsBot(old)
    BY <1>1, <1>2 DEF Settled, Stored, Prefixed
<1> HIDE DEF old
<1>5. /\ text \in Text /\ text.req = old.req
      /\ text.kind = IF old.kind = "user" THEN "user" ELSE "bot"
    BY <1>3 DEF Edited, Text, Kinds
<1> HIDE DEF text
<1>6. Settled(Rewritten(m, edit.sw, text))
    <2>1. m.role = "user" <=> text.kind = "user"
        BY <1>4, <1>5
    <2>2. m.role = "assistant" => IsBot(text)
        BY <1>4, <1>5 DEF IsBot
    <2>3. text.req = m.swipes[edit.sw].req
        BY <1>5 DEF old
    <2> QED
        BY <1>1, <1>2, <1>5, <2>1, <2>2, <2>3, SettledRewritten
<1> QED
    BY <1>1, <1>2, <1>5, <1>6 DEF text, old, m

LEMMA RestoredSettled ==
    ASSUME NEW d, WellFormedFile(d), AllStored(d)
    PROVE  AllSettled(Restored(d))
<1>1. d \in Seq(Turn) /\ DOMAIN d = 1 .. Len(d) /\ DOMAIN Restored(d) = DOMAIN d
    BY DEF WellFormedFile, Restored
<1>2. ASSUME NEW i \in DOMAIN d
      PROVE  Settled(Restored(d)[i])
    <2> DEFINE r == Restored(d)[i]
               t == [k \in DOMAIN d[i].swipes |-> 0]
    <2>1. r = [role |-> d[i].role, swipes |-> d[i].swipes, active |-> d[i].active,
               stats |-> t, finish |-> RestoredFinish(d[i]), reasoning |-> <<>>]
        BY <1>1 DEF Restored, Fresh
    <2>2. \A k \in DOMAIN t : t[k] = 0
        OBVIOUS
    <2>3. Stored(d[i])
        BY DEF AllStored
    <2> HIDE DEF t, r
    <2>4. /\ r.role = d[i].role /\ r.swipes = d[i].swipes /\ r.stats = t /\ r.reasoning = <<>>
          /\ r.finish = RestoredFinish(d[i])
        BY <2>1
    <2>7. \A k \in DOMAIN r.finish : r.finish[k] \in {0, Junk}
        BY <2>4 DEF RestoredFinish
    <2>5. Stored(r)
        BY <2>3, <2>4 DEF Stored, Prefixed
    <2>6. Metered(r)
        BY <2>2, <2>4, <2>7 DEF Metered
    <2> QED
        BY <2>5, <2>6 DEF Settled, r
<1> QED
    BY <1>1, <1>2 DEF AllSettled

LEMMA UnloadCardTexts ==
    ASSUME Inv, TextInv, UnloadCard
    PROVE  TextInv'
<1> DEFINE f == Fresh(Say("notice"), "assistant")
<1>1. /\ Say("notice") \in Text /\ "assistant" \in Roles /\ IsBot(Say("notice"))
      /\ Say("notice").kind = "notice"
    BY TextTypes DEF Kinds, Roles, IsBot, Say
<1>2. /\ WellFormedHistory(history) /\ AllSettled(history) /\ req.kind = "none" /\ req' = req
      /\ saved' = saved /\ history' = Add(history, Say("notice"), "assistant")
    BY InvFacts DEF TextInv, UnloadCard, Typing, Free, Ready
<1>3. WellFormedHistory(history') /\ AllSettled(history') /\ Len(history') = Len(history) + 1
    BY <1>1, <1>2, AddWellFormed, AddSettled
<1>4. /\ \A k \in DOMAIN history : history'[k] = history[k]
      /\ history'[Len(history) + 1] = f /\ f.swipes = <<Say("notice")>>
    BY <1>1, <1>2, AddFields DEF Fresh
<1>5. DOMAIN saved = 1 .. Len(saved) /\ Len(saved) \in Nat /\ Len(history) \in Nat
      /\ DOMAIN history = 1 .. Len(history)
    BY InvFacts DEF WellFormedFile
<1> HIDE DEF f
<1>6. ASSUME NEW n \in Nat, OnlyNoticesAfter(n)
      PROVE  \A i \in n + 1 .. Len(history') : history'[i].swipes = <<Say("notice")>>
    <2> TAKE i \in n + 1 .. Len(history')
    <2>1. CASE i = Len(history) + 1
        BY <1>4, <2>1
    <2>2. CASE i # Len(history) + 1
        BY <1>3, <1>4, <1>5, <1>6, <2>2 DEF OnlyNoticesAfter
    <2> QED
        BY <2>1, <2>2
<1>7. Len(saved) <= Len(history) =>
          \A k \in DOMAIN saved : SameTexts(history[k], saved[k]) => SameTexts(history'[k], saved[k])
    BY <1>4, <1>5 DEF SameTexts
<1>8. NearlySaved'
    <2>1. CASE OnlyNoticesAfter(0)
        BY <1>6, <2>1 DEF NearlySaved, OnlyNoticesAfter
    <2>2. CASE ~OnlyNoticesAfter(0)
        <3>1. /\ Len(saved) <= Len(history)
              /\ \A i \in DOMAIN saved : SameTexts(history[i], saved[i])
              /\ OnlyNoticesAfter(Len(saved))
            BY <1>2, <2>2 DEF TextInv, NearlySaved
        <3>2. \A i \in Len(saved) + 1 .. Len(history') : history'[i].swipes = <<Say("notice")>>
            BY <1>5, <1>6, <3>1
        <3>3. Len(saved) <= Len(history')
            BY <1>3, <1>5, <3>1
        <3> QED
            BY <1>2, <1>7, <3>1, <3>2, <3>3 DEF NearlySaved, OnlyNoticesAfter
    <2> QED
        BY <2>1, <2>2
<1> QED
    BY <1>2, <1>3, <1>8 DEF TextInv, StreamsInto

\* LoadChat and LoadDamaged: the history is that of the file, or none.
LEMMA LoadTexts ==
    ASSUME Inv, TextInv, LoadChat \/ LoadDamaged
    PROVE  TextInv'
<1>1. req.kind = "none" /\ req' = req /\ saved' = saved /\ WellFormedFile(saved) /\ AllStored(saved)
    BY InvFacts DEF TextInv, LoadChat, LoadDamaged, Typing, Free, Ready
<1>2. CASE LoadDamaged
    <2>1. history' = <<>>
        BY <1>2 DEF LoadDamaged
    <2>2. AllSettled(history') /\ NearlySaved'
        BY <2>1 DEF AllSettled, NearlySaved, OnlyNoticesAfter
    <2> QED
        BY <1>1, <2>2 DEF TextInv, StreamsInto
<1>3. CASE LoadChat
    <2>1. history' = Restored(saved)
        BY <1>3 DEF LoadChat
    <2>2. AllSettled(history') /\ Len(history') = Len(saved) /\ Len(saved) \in Nat
        BY <1>1, <2>1, RestoredSettled, RestoredWellFormed DEF WellFormedFile
    <2>3. \A i \in DOMAIN saved : SameTexts(history'[i], saved[i])
        BY <2>1 DEF Restored, Fresh, SameTexts
    <2>4. NearlySaved'
        BY <1>1, <2>2, <2>3 DEF NearlySaved, OnlyNoticesAfter
    <2> QED
        BY <1>1, <2>2, <2>4 DEF TextInv, StreamsInto
<1> QED
    BY <1>2, <1>3

LEMMA ChangeTexts ==
    ASSUME Inv, TextInv, WellFormedHistory(history'), Change
    PROVE  TextInv'
<1>1. WellFormedHistory(history) /\ AllSettled(history) /\ DOMAIN history = 1 .. Len(history)
    BY InvFacts DEF TextInv
<1>2. /\ Say("bot") \in Text /\ Say("plain") \in Text /\ IsBot(Say("bot"))
      /\ Say("bot").kind = "bot" /\ Say("plain").kind = "plain"
      /\ "assistant" \in Roles /\ "system" \in Roles
    BY TextTypes DEF Kinds, Roles, IsBot, Say
<1>3. CASE MoveUp \/ MoveDown
    <2>1. PICK i \in DOMAIN history : MoveTo(i)
        BY <1>3 DEF MoveUp, MoveDown, MoveTo
    <2>2. sel \in DOMAIN history /\ req.kind = "none"
        BY <1>1, <2>1, InvFacts DEF MoveTo, Free, Ready
    <2>3. AllSettled(history')
        BY <1>1, <2>1, <2>2, SwapSettled DEF MoveTo
    <2> QED
        BY <2>1, <2>2, <2>3, SavedStep DEF MoveTo
<1>4. CASE CommitEdit
    <2> DEFINE m == history[edit.msg]
               text == Edited(m.swipes[edit.sw])
    <2>1. /\ req.kind = "none" /\ edit.on /\ history' = UpdateSwipe(history, edit.msg, edit.sw, text)
        BY <1>4 DEF CommitEdit, Ready
    <2>2. /\ edit.msg \in DOMAIN history /\ edit.sw \in DOMAIN m.swipes
          /\ Settled(Rewritten(m, edit.sw, text))
        BY <2>1, EditedFacts
    <2>3. history' = [history EXCEPT ![edit.msg] = Rewritten(m, edit.sw, text)]
        <3>1. HasSwipe(history, edit.msg, edit.sw) /\ WellFormedHistory(history)
            BY <1>1, <2>2 DEF HasSwipe
        <3>2. UpdateSwipe(history, edit.msg, edit.sw, text) =
                  [history EXCEPT ![edit.msg] = Rewritten(history[edit.msg], edit.sw, text)]
            BY <3>1, UpdateSwipeIs
        <3> QED
            BY <2>1, <3>2
    <2>4. AllSettled(history')
        BY <1>1, <2>2, <2>3, ReplaceSettled
    <2> QED
        BY <1>4, <2>1, <2>4, SavedStep DEF CommitEdit
<1>5. CASE ConfirmDelete
    <2>1. doomed \in DOMAIN history
        BY <1>1, <1>5, InvFacts DEF ConfirmDelete, Inv, DeleteTargetValid
    <2>2. AllSettled(history')
        BY <1>1, <1>5, <2>1, DeleteSettled DEF ConfirmDelete
    <2> QED
        BY <1>5, <2>2, SavedStep DEF ConfirmDelete
<1>6. CASE StartOver \/ LoadCard
    <2>1. history' = <<Fresh(Say("bot"), "assistant")>> /\ saved' = AutoSaved(history')
          /\ req.kind = "none" /\ req' = req
        BY <1>6 DEF StartOver, LoadCard, Typing, Free, Ready
    <2>2. Settled(Fresh(Say("bot"), "assistant"))
        BY <1>2, SettledFresh
    <2>3. AllSettled(history')
        BY <2>1, <2>2 DEF AllSettled
    <2> QED
        BY <2>1, <2>3, SavedStep
<1>7. CASE AddSystem
    <2>1. AllSettled(history')
        BY <1>1, <1>2, <1>7, AddSettled DEF AddSystem
    <2> QED
        BY <1>7, <2>1, SavedStep DEF AddSystem, Typing, Free, Ready
<1> QED
    BY <1>3, <1>4, <1>5, <1>6, <1>7, UnloadCardTexts, LoadTexts DEF Change

LEMMA TextInvInit == Init => TextInv
<1> SUFFICES ASSUME Init PROVE TextInv
    OBVIOUS
<1>1. /\ history = <<Fresh(Say("notice"), "assistant")>> /\ saved = <<>>
      /\ req.kind = "none"
    BY DEF Init, Idle
<1>2. Settled(Fresh(Say("notice"), "assistant"))
    BY SettledFresh, TextTypes DEF Kinds, Roles, IsBot, Say
<1>3. AllSettled(history) /\ AllStored(saved)
    BY <1>1, <1>2 DEF AllSettled, AllStored
<1>4. NearlySaved
    BY <1>1 DEF NearlySaved, OnlyNoticesAfter, Fresh
<1> QED
    BY <1>1, <1>3, <1>4 DEF TextInv, StreamsInto

LEMMA TextInvNext == Inv /\ TextInv /\ [Next]_vars => TextInv'
<1> SUFFICES ASSUME Inv, TextInv, [Next]_vars PROVE TextInv'
    OBVIOUS
<1>1. CASE Send
    BY <1>1, SendMessageTexts, SendWithoutModelTexts, RegenerateTexts,
       RegenerateWithoutModelTexts DEF Send
<1>2. CASE Callback
    BY <1>2, CallbackTexts
<1>3. CASE RequestEnds
    BY <1>3, RequestEndsTexts
<1>4. CASE Key
    BY <1>4, KeyTexts
<1>5. CASE Change
    <2>1. WellFormedHistory(history')
        BY NextInv DEF Inv, TypeOK
    <2> QED
        BY <1>5, <2>1, ChangeTexts
<1>6. CASE UNCHANGED vars
    BY <1>6 DEF vars, TextInv, NearlySaved, OnlyNoticesAfter
<1> QED
    BY <1>1, <1>2, <1>3, <1>4, <1>5, <1>6 DEF Next

\* What is on the screen, in the request and in the file fit together, whatever runs.
THEOREM TextsFit == Spec => [](Inv /\ TextInv)
<1>1. Init => Inv /\ TextInv
    BY InitInv, TextInvInit
<1>2. Inv /\ TextInv /\ [Next]_vars => (Inv /\ TextInv)'
    BY NextInv, TextInvNext
<1> QED
    BY <1>1, <1>2, PTL DEF Spec

\* Whatever the user had when a request began is still in the history while the callbacks
\* write to it, but for the last swipe of a full message (do_llm_reply, the right arrow).
THEOREM RequestsAdd == Spec => []RequestsOnlyAdd
<1>1. Inv /\ TextInv => RequestsOnlyAdd
    <2> SUFFICES ASSUME Inv, TextInv, req.kind # "none",
                        NEW i \in DOMAIN req.base, NEW j \in DOMAIN req.base[i].swipes
                 PROVE  \/ HasSwipe(history, i, j) /\ history[i].swipes[j] = req.base[i].swipes[j]
                        \/ i = req.target /\ j = MaxSwipes
        BY DEF RequestsOnlyAdd
    <2> DEFINE t == req.target
               m == history[t]
               b == req.base[t]
    <2>1. /\ t \in DOMAIN history /\ DOMAIN history = 1 .. Len(history) /\ WellFormed(m)
          /\ Answers(req, m) /\ DOMAIN m.swipes = 1 .. Len(m.swipes) /\ t \in Nat
        BY TargetFacts, InvFacts, MessageFacts
    <2>2. /\ DOMAIN req.base = 1 .. Len(req.base) /\ Len(req.base) \in Nat /\ WellFormedHistory(req.base)
          /\ \A k \in 1 .. t - 1 : history[k] = req.base[k]
        BY DEF TextInv, StreamsInto, WellFormedHistory
    <2>3. CASE i < t
        <3>1. history[i] = req.base[i] /\ i \in DOMAIN history
            BY <2>1, <2>2, <2>3
        <3> QED
            BY <3>1 DEF HasSwipe
    <2>4. CASE i = t
        <3>1. AnswersAgain(m, b)
            BY <2>1, <2>2, <2>4 DEF Answers, AnswersAlone
        <3>2. j \in 1 .. Len(b.swipes) /\ Len(b.swipes) \in Nat /\ b.swipes = req.base[i].swipes
            BY <2>2, <2>4, MessageFacts DEF WellFormedHistory
        <3> HIDE DEF m, b
        <3>3. CASE j \in 1 .. Len(m.swipes) - 1
            <4>1. j \in DOMAIN m.swipes /\ m.swipes[j] = req.base[i].swipes[j]
                BY <2>1, <3>1, <3>2, <3>3 DEF AnswersAgain
            <4>2. m = history[i] /\ i \in DOMAIN history
                BY <2>1, <2>4 DEF m
            <4> QED
                BY <4>1, <4>2 DEF HasSwipe
        <3>4. CASE ~(j \in 1 .. Len(m.swipes) - 1)
            BY <2>4, <3>1, <3>2, <3>4 DEF AnswersAgain
        <3> QED
            BY <3>3, <3>4
    <2>5. i <= t
        BY <2>1, <2>2 DEF Answers, AnswersAlone
    <2> QED
        BY <2>1, <2>2, <2>3, <2>4, <2>5
<1> QED
    BY <1>1, TextsFit, PTL

\* The token count, the times, the finish reason and the reasoning shown with a swipe are
\* those of the request that wrote it (history_set_token_count and its like, called after
\* llm_chat), but for the slots of finish_reasons that history_add_swipe leaves unwritten;
\* history_set_finish_reason never frees one of those.
THEOREM MetricsAreRight == Spec => []MetricsMatchReply
<1>1. Inv /\ TextInv => MetricsMatchReply
    <2> SUFFICES ASSUME Inv, TextInv PROVE MetricsMatchReply
        OBVIOUS
    <2>1. \A i \in DOMAIN history : \A j \in 1 .. MaxSwipes - 1 :
              /\ j \in DOMAIN history[i].stats =>
                     history[i].stats[j] \in {0, history[i].swipes[j].req}
              /\ j \in DOMAIN history[i].finish =>
                     history[i].finish[j] \in {0, Junk, history[i].swipes[j].req}
              /\ j \in DOMAIN history[i].reasoning =>
                     history[i].reasoning[j] \in {0, history[i].swipes[j].req}
        BY DEF TextInv, AllSettled, Settled, Metered
    <2>2. ASSUME req.kind # "none"
          PROVE  FinishArray(history[req.target])[history[req.target].active] # Junk
        <3> DEFINE m == history[req.target]
        <3>1. WellFormed(m) /\ m.active = Len(m.swipes) /\ m.active \in DOMAIN m.swipes
            BY <2>2, TargetFacts DEF Running
        <3> HIDE DEF m
        <3>2. Len(m.swipes) \in Nat
            BY <3>1, MessageFacts
        <3>3. FinishArray(m)[m.active] # Junk
            BY <3>1, <3>2, FinishArrayFacts
        <3> QED
            BY <3>3 DEF m
    <2> QED
        BY <2>1, <2>2 DEF MetricsMatchReply
<1> QED
    BY <1>1, TextsFit, PTL

\* The role in the history and the prefix in the text name the same speaker, although
\* edits, callbacks, regenerations and loads write texts and roles apart.
THEOREM RolesAreRight == Spec => []RoleMatchesPrefix
<1>1. Inv /\ TextInv => RoleMatchesPrefix
    BY DEF TextInv, AllSettled, Settled, Stored, Prefixed, RoleMatchesPrefix
<1> QED
    BY <1>1, TextsFit, PTL

\* Leaving the program between two keys loses no text (chat_auto_save after each change).
THEOREM FileIsNear == Spec => []NearlySaved
<1>1. Inv /\ TextInv => NearlySaved
    BY DEF TextInv
<1> QED
    BY <1>1, TextsFit, PTL

\* The text of a reply that succeeds is on the screen when do_llm_reply returns, as far as
\* display[8192] of stream_callback holds it, whatever chunks it came in.
THEOREM RepliesAreWhole == Spec => ReplyIsWhole
<1> DEFINE Whole ==
               \/ /\ req.buf <= DisplayRoom
                  /\ Shown(history', req.target) = Reply("part", req.id, req.buf)
               \/ /\ req.buf > DisplayRoom
                  /\ Shown(history', req.target) = Reply("part", req.id, DisplayRoom)
               \/ req.reasoned /\ Shown(history', req.target) = Waiting
<1>1. Inv /\ TextInv /\ RequestDone => Whole
    <2> SUFFICES ASSUME Inv, TextInv, RequestDone PROVE Whole
        OBVIOUS
    <2>1. /\ req.kind # "none" /\ req.buf > 0
          /\ \E named \in BOOLEAN : history' = Measured(history, req.target, named)
        BY DEF RequestDone
    <2>4. req.buf \in Nat /\ DisplayRoom \in Nat
        BY <2>1, TargetFacts, BoundsAssumption
    <2>2. Shown(history', req.target) = Shown(history, req.target)
        BY <2>1, TargetFacts, MeasuredFacts DEF Shown
    <2>3. Running(req, history[req.target])
        BY <2>1, TargetFacts
    <2>5. \/ Shown(history', req.target) = Reply("part", req.id, Displayed(req.buf))
          \/ req.reasoned /\ Shown(history', req.target) = Waiting
        BY <2>1, <2>2, <2>3 DEF Running, Shown, Waiting
    <2> QED
        BY <2>4, <2>5 DEF Displayed
<1> QED
    BY <1>1, TextsFit, PTL DEF ReplyIsWhole

\* do_llm_reply shows the error of a request that fails, over whatever was streamed.
THEOREM FailuresAreShown == Spec => ReplyFailureIsShown
<1>1. Inv /\ TextInv /\ RequestFails /\ req.kind = "reply" =>
          Shown(history', req.target).kind = "err"
    <2> SUFFICES ASSUME Inv, TextInv, RequestFails, req.kind = "reply"
                 PROVE  Shown(history', req.target).kind = "err"
        OBVIOUS
    <2> DEFINE text == Reply("err", req.id, 0)
               m == history[req.target]
    <2>1. /\ req.target \in DOMAIN history /\ WellFormedHistory(history)
          /\ WellFormed(m) /\ m.active \in DOMAIN m.swipes /\ text \in Text
        BY TargetFacts, InvFacts, TextTypes DEF Kinds
    <2>2. history' = Update(history, req.target, text)
        BY DEF RequestFails, Verdict
    <2> HIDE DEF text
    <2>3. history' = [history EXCEPT ![req.target] = Rewritten(m, m.active, text)]
        BY <2>1, <2>2, UpdateIs
    <2>4. /\ Rewritten(m, m.active, text).active = m.active
          /\ Rewritten(m, m.active, text).swipes[m.active] = text
        BY <2>1, RewrittenFields
    <2>5. Shown(history', req.target) = text
        BY <2>1, <2>3, <2>4 DEF Shown
    <2> QED
        BY <2>5 DEF text, Reply
<1> QED
    BY <1>1, TextsFit, PTL DEF ReplyFailureIsShown

-----------------------------------------------------------------------------
(***************************************************************************)
(* The screen is a Conversation: operations of the history as the changes  *)
(* of the log that Conversation knows.                                     *)
(***************************************************************************)
DiskOf(m) == [role |-> m.role, swipes |-> m.swipes, active |-> m.active]

LEMMA OnDiskFacts ==
    ASSUME NEW h, WellFormedHistory(h)
    PROVE  /\ OnDisk(h) \in Seq(Turn) /\ Len(OnDisk(h)) = Len(h) /\ Len(h) \in Nat
           /\ DOMAIN OnDisk(h) = 1 .. Len(h) /\ DOMAIN h = 1 .. Len(h)
           /\ \A i \in 1 .. Len(h) :
                  /\ OnDisk(h)[i] = DiskOf(h[i])
                  /\ OnDisk(h)[i].role = h[i].role
                  /\ OnDisk(h)[i].swipes = h[i].swipes
                  /\ OnDisk(h)[i].active = h[i].active
<1>1. /\ OnDisk(h) \in Seq(Turn) /\ DOMAIN OnDisk(h) = DOMAIN h
      /\ Len(h) \in Nat /\ DOMAIN h = 1 .. Len(h)
    BY OnDiskWellFormed DEF WellFormedFile, OnDisk, WellFormedHistory
<1>2. Len(OnDisk(h)) = Len(h)
    BY <1>1
<1>3. \A i \in 1 .. Len(h) : OnDisk(h)[i] = DiskOf(h[i])
    BY <1>1 DEF OnDisk, DiskOf
<1> QED
    BY <1>1, <1>2, <1>3 DEF DiskOf

LEMMA OnDiskReplace ==
    ASSUME NEW h, NEW i \in DOMAIN h, NEW m
    PROVE  OnDisk([h EXCEPT ![i] = m]) = [OnDisk(h) EXCEPT ![i] = DiskOf(m)]
BY DEF OnDisk, DiskOf

LEMMA PrefixIs ==
    ASSUME NEW S, NEW s \in Seq(S), NEW t \in Seq(S), Len(s) <= Len(t),
           \A i \in 1 .. Len(s) : t[i] = s[i]
    PROVE  SubSeq(t, 1, Len(s)) = s
<1> DEFINE p == SubSeq(t, 1, Len(s))
<1>1. Len(s) \in Nat /\ \A i \in 1 .. Len(s) : t[i] \in S
    BY ElementOfSeq
<1>2. /\ p \in Seq(S)
      /\ Len(p) = IF 1 <= Len(s) THEN Len(s) - 1 + 1 ELSE 0
      /\ \A i \in 1 .. Len(s) - 1 + 1 : p[i] = t[1 + i - 1]
    BY <1>1, SubSeqProperties
<1>3. Len(p) = Len(s) /\ \A i \in 1 .. Len(p) : p[i] = s[i]
    BY <1>1, <1>2
<1> HIDE DEF p
<1>4. p = s
    BY <1>2, <1>3, SeqEqual
<1> QED
    BY <1>4 DEF p

\* Messages added at the end
LEMMA OnDiskGrows ==
    ASSUME NEW h, WellFormedHistory(h), NEW g, WellFormedHistory(g), NEW n \in Nat,
           Len(g) = Len(h) + n, \A k \in 1 .. Len(h) : DiskOf(g[k]) = DiskOf(h[k])
    PROVE  /\ Len(OnDisk(g)) = Len(OnDisk(h)) + n
           /\ SubSeq(OnDisk(g), 1, Len(OnDisk(h))) = OnDisk(h)
<1> DEFINE s == OnDisk(h)
           t == OnDisk(g)
<1>1. /\ s \in Seq(Turn) /\ Len(s) = Len(h) /\ Len(h) \in Nat /\ t \in Seq(Turn) /\ Len(t) = Len(g)
      /\ \A k \in 1 .. Len(h) : s[k] = DiskOf(h[k])
      /\ \A k \in 1 .. Len(g) : t[k] = DiskOf(g[k])
    BY OnDiskFacts
<1> HIDE DEF s, t
<1>2. \A k \in 1 .. Len(s) : t[k] = s[k]
    BY <1>1
<1>3. SubSeq(t, 1, Len(s)) = s
    BY <1>1, <1>2, PrefixIs
<1> QED
    BY <1>1, <1>3 DEF s, t

\* One message deleted
LEMMA OnDiskDelete ==
    ASSUME NEW h, WellFormedHistory(h), NEW i \in DOMAIN h
    PROVE  OnDisk(Delete(h, i)) =
               SubSeq(OnDisk(h), 1, i - 1) \o SubSeq(OnDisk(h), i + 1, Len(OnDisk(h)))
<1> DEFINE s == OnDisk(h)
           t == OnDisk(Delete(h, i))
           a == SubSeq(s, 1, i - 1)
           b == SubSeq(s, i + 1, Len(s))
<1>1. /\ s \in Seq(Turn) /\ Len(s) = Len(h) /\ Len(h) \in Nat /\ i \in 1 .. Len(h)
      /\ \A k \in 1 .. Len(h) : s[k] = DiskOf(h[k]) /\ s[k] \in Turn
    BY OnDiskFacts, ElementOfSeq
<1>2. WellFormedHistory(Delete(h, i)) /\ Len(Delete(h, i)) = Len(h) - 1
    BY DeleteWellFormed
<1>3. /\ t \in Seq(Turn) /\ Len(t) = Len(h) - 1
      /\ \A k \in 1 .. Len(h) - 1 : t[k] = DiskOf(Delete(h, i)[k])
    BY <1>2, OnDiskFacts
<1>4. \A k \in 1 .. Len(h) - 1 : Delete(h, i)[k] = IF k < i THEN h[k] ELSE h[k + 1]
    BY DEF Delete
<1> HIDE DEF s, t
<1>5. \A k \in 1 .. Len(h) - 1 : t[k] = IF k < i THEN s[k] ELSE s[k + 1]
    <2> TAKE k \in 1 .. Len(h) - 1
    <2>1. k \in 1 .. Len(h) /\ k + 1 \in 1 .. Len(h)
        BY <1>1
    <2>2. CASE k < i
        <3>1. Delete(h, i)[k] = h[k]
            BY <1>4, <2>2
        <3> QED
            BY <1>1, <1>3, <2>1, <2>2, <3>1
    <2>3. CASE ~(k < i)
        <3>1. Delete(h, i)[k] = h[k + 1]
            BY <1>4, <2>3
        <3> QED
            BY <1>1, <1>3, <2>1, <2>3, <3>1
    <2> QED
        BY <2>2, <2>3
<1>6. /\ a \in Seq(Turn) /\ Len(a) = i - 1
      /\ \A k \in 1 .. i - 1 : a[k] = s[k]
    <2>1. \A k \in 1 .. i - 1 : s[k] \in Turn
        BY <1>1
    <2>2. /\ SubSeq(s, 1, i - 1) \in Seq(Turn)
          /\ Len(SubSeq(s, 1, i - 1)) = IF 1 <= i - 1 THEN i - 1 - 1 + 1 ELSE 0
          /\ \A k \in 1 .. i - 1 - 1 + 1 : SubSeq(s, 1, i - 1)[k] = s[1 + k - 1]
        BY <1>1, <2>1, SubSeqProperties
    <2> QED
        BY <1>1, <2>2
<1>7. /\ b \in Seq(Turn) /\ Len(b) = Len(h) - i
      /\ \A k \in 1 .. Len(h) - i : b[k] = s[k + i]
    <2>1. \A k \in i + 1 .. Len(s) : s[k] \in Turn
        BY <1>1
    <2>2. /\ SubSeq(s, i + 1, Len(s)) \in Seq(Turn)
          /\ Len(SubSeq(s, i + 1, Len(s))) = IF i + 1 <= Len(s) THEN Len(s) - (i + 1) + 1 ELSE 0
          /\ \A k \in 1 .. Len(s) - (i + 1) + 1 : SubSeq(s, i + 1, Len(s))[k] = s[i + 1 + k - 1]
        BY <1>1, <2>1, SubSeqProperties
    <2> QED
        BY <1>1, <2>2
<1> HIDE DEF a, b
<1>8. /\ a \o b \in Seq(Turn) /\ Len(a \o b) = Len(h) - 1
      /\ \A k \in 1 .. Len(h) - 1 : (a \o b)[k] = IF k <= i - 1 THEN a[k] ELSE b[k - (i - 1)]
    BY <1>1, <1>6, <1>7, ConcatProperties
<1>9. \A k \in 1 .. Len(h) - 1 : (a \o b)[k] = t[k]
    <2> TAKE k \in 1 .. Len(h) - 1
    <2>1. CASE k < i
        <3>1. k \in 1 .. i - 1 /\ t[k] = s[k]
            BY <1>1, <1>5, <2>1
        <3> QED
            BY <1>1, <1>6, <1>8, <3>1
    <2>2. CASE ~(k < i)
        <3> DEFINE l == k - (i - 1)
        <3>1. l \in 1 .. Len(h) - i /\ l + i = k + 1 /\ t[k] = s[k + 1] /\ ~(k <= i - 1)
            BY <1>1, <1>5, <2>2
        <3>2. (a \o b)[k] = b[l]
            BY <1>8, <3>1
        <3> HIDE DEF l
        <3>3. b[l] = s[l + i]
            BY <1>7, <3>1
        <3> QED
            BY <3>1, <3>2, <3>3
    <2> QED
        BY <2>1, <2>2
<1>10. a \o b = t
    BY <1>3, <1>8, <1>9, SeqEqual
<1> QED
    BY <1>10 DEF a, b, s, t

\* A change is saved at once, unless it empties the history.
LEMMA SavesIs ==
    ASSUME saved' = AutoSaved(history'), history' # <<>>, req'.kind = "none"
    PROVE  Conv!Saves
BY DEF Conv!Saves, AutoSaved

LEMMA WorkGrows ==
    ASSUME req.kind = "none", req'.kind = "none", WellFormedHistory(history),
           WellFormedHistory(history'), NEW n \in 1 .. 2, Len(history') = Len(history) + n,
           \A k \in 1 .. Len(history) : history'[k] = history[k],
           saved' = saved \/ saved' = AutoSaved(history')
    PROVE  Conv!Work
<1>1. Conv!Grows(n)
    <2>1. \A k \in 1 .. Len(history) : DiskOf(history'[k]) = DiskOf(history[k])
        OBVIOUS
    <2>2. /\ Len(OnDisk(history')) = Len(OnDisk(history)) + n
          /\ SubSeq(OnDisk(history'), 1, Len(OnDisk(history))) = OnDisk(history)
        BY <2>1, OnDiskGrows
    <2> QED
        BY <2>2 DEF Conv!Grows
<1>2. Conv!Saves \/ Conv!Keeps
    <2>1. history' # <<>>
        BY DEF WellFormedHistory
    <2> QED
        BY <2>1, SavesIs DEF Conv!Keeps
<1> QED
    BY <1>1, <1>2 DEF Conv!Work

\* The log when a step of the screen touches only message i
LEMMA WorkTouches ==
    ASSUME req.kind = "none", req'.kind = "none", WellFormedHistory(history),
           NEW i \in DOMAIN history, NEW m, WellFormed(m), history' = [history EXCEPT ![i] = m]
    PROVE  /\ OnDisk(history') = [OnDisk(history) EXCEPT ![i] = DiskOf(m)]
           /\ OnDisk(history')[i] = DiskOf(m) /\ OnDisk(history)[i] = DiskOf(history[i])
           /\ i \in DOMAIN OnDisk(history)
           /\ Conv!Touches(i)
           /\ saved' = AutoSaved(history') => Conv!Saves
<1>1. WellFormedHistory(history') /\ Len(history') = Len(history)
    BY ReplaceMessage
<1>2. /\ DOMAIN OnDisk(history) = DOMAIN history /\ Len(OnDisk(history)) = Len(history)
      /\ Len(OnDisk(history')) = Len(history') /\ OnDisk(history)[i] = DiskOf(history[i])
    BY <1>1, OnDiskFacts
<1>3. OnDisk(history') = [OnDisk(history) EXCEPT ![i] = DiskOf(m)]
    BY OnDiskReplace
<1>4. /\ OnDisk(history')[i] = DiskOf(m)
      /\ \A k \in DOMAIN OnDisk(history) \ {i} : OnDisk(history')[k] = OnDisk(history)[k]
    BY <1>2, <1>3
<1>5. Conv!Touches(i)
    BY <1>1, <1>2, <1>4 DEF Conv!Touches
<1>6. history' # <<>>
    BY <1>1 DEF WellFormedHistory
<1> QED
    BY <1>2, <1>3, <1>4, <1>5, <1>6, SavesIs

\* history_add_swipe as the log sees it
LEMMA GrownOnDisk ==
    ASSUME NEW m, WellFormed(m), NEW text \in Text
    PROVE  /\ DiskOf(Grow(m, text)).role = m.role
           /\ DiskOf(Grow(m, text)).active = Len(m.swipes) + 1
           /\ Len(DiskOf(Grow(m, text)).swipes) = Len(m.swipes) + 1
           /\ SubSeq(DiskOf(Grow(m, text)).swipes, 1, Len(m.swipes)) = m.swipes
<1> DEFINE g == Grow(m, text)
<1>1. /\ g.role = m.role /\ g.active = Len(m.swipes) + 1 /\ Len(g.swipes) = Len(m.swipes) + 1
      /\ \A k \in 1 .. Len(m.swipes) : g.swipes[k] = m.swipes[k]
      /\ g.swipes = Append(m.swipes, text)
    BY GrowFields
<1>2. m.swipes \in Seq(Text) /\ Len(m.swipes) \in Nat
    BY MessageFacts
<1> HIDE DEF g
<1>3. g.swipes \in Seq(Text)
    BY <1>1, <1>2
<1>4. SubSeq(g.swipes, 1, Len(m.swipes)) = m.swipes
    BY <1>1, <1>2, <1>3, PrefixIs
<1> QED
    BY <1>1, <1>4 DEF DiskOf, g

LEMMA WorkAdds ==
    ASSUME Inv, req.kind = "none", req'.kind = "none", NEW i \in DOMAIN history,
           NEW text \in Text, Len(history[i].swipes) < MaxSwipes,
           history' = AddSwipe(history, i, text), saved' = AutoSaved(history')
    PROVE  Conv!Work
<1> DEFINE m == history[i]
           g == Grow(m, text)
<1>1. WellFormed(m) /\ WellFormedHistory(history)
    BY InvFacts DEF WellFormedHistory
<1>2. WellFormed(g) /\ history' = [history EXCEPT ![i] = g]
    BY <1>1, GrowWellFormed, AddSwipeIs
<1>3. /\ DiskOf(g).role = m.role /\ DiskOf(g).active = Len(m.swipes) + 1
      /\ Len(DiskOf(g).swipes) = Len(m.swipes) + 1
      /\ SubSeq(DiskOf(g).swipes, 1, Len(m.swipes)) = m.swipes
    BY <1>1, GrownOnDisk
<1> HIDE DEF g
<1>4. /\ OnDisk(history')[i] = DiskOf(g) /\ OnDisk(history)[i] = DiskOf(m)
      /\ i \in DOMAIN OnDisk(history) /\ Conv!Touches(i) /\ Conv!Saves
    BY <1>1, <1>2, WorkTouches
<1>5. DiskOf(m).role = m.role /\ DiskOf(m).swipes = m.swipes
    BY DEF DiskOf
<1>6. Conv!Adds(i)
    BY <1>3, <1>4, <1>5 DEF Conv!Adds
<1> QED
    BY <1>4, <1>6 DEF Conv!Work

\* history_update_swipe as the log sees it
LEMMA RewrittenOnDisk ==
    ASSUME NEW m, WellFormed(m), NEW j \in DOMAIN m.swipes, NEW text \in Text
    PROVE  /\ DiskOf(Rewritten(m, j, text)).swipes[j] = text
           /\ j \in DOMAIN DiskOf(Rewritten(m, j, text)).swipes
           /\ DiskOf(Rewritten(m, j, text)) = [DiskOf(m) EXCEPT !.swipes[j] = text]
<1> DEFINE r == Rewritten(m, j, text)
           s == [m.swipes EXCEPT ![j] = text]
<1>1. /\ r.role = m.role /\ r.active = m.active /\ DOMAIN r.swipes = DOMAIN m.swipes
      /\ r.swipes[j] = text
    BY RewrittenFields
<1>2. r.swipes = s
    BY DEF Rewritten, WellFormed, Message
<1> HIDE DEF r, s
<1>3. DiskOf(r) = [role |-> m.role, swipes |-> s, active |-> m.active]
    BY <1>1, <1>2 DEF DiskOf
<1>4. DiskOf(r) = [DiskOf(m) EXCEPT !.swipes[j] = text]
    BY <1>3 DEF DiskOf, s
<1> QED
    BY <1>1, <1>4 DEF DiskOf, r

LEMMA CommitEditWorks ==
    ASSUME Inv, TextInv, CommitEdit
    PROVE  Conv!Work
<1> DEFINE i == edit.msg
           j == edit.sw
           m == history[i]
           text == Edited(m.swipes[j])
           w == Rewritten(m, j, text)
<1>1. /\ req.kind = "none" /\ req'.kind = "none" /\ edit.on /\ saved' = AutoSaved(history')
      /\ history' = UpdateSwipe(history, i, j, text)
    BY DEF CommitEdit, Ready
<1>2. i \in DOMAIN history /\ j \in DOMAIN m.swipes /\ WellFormed(m) /\ text \in Text
    BY <1>1, EditedFacts
<1>3. HasSwipe(history, i, j) /\ WellFormedHistory(history)
    BY <1>2, InvFacts DEF HasSwipe
<1>4. UpdateSwipe(history, i, j, text) = [history EXCEPT ![i] = w]
    BY <1>3, UpdateSwipeIs
<1>5. WellFormed(w)
    <2>1. [m.swipes EXCEPT ![j] = text] \in Seq(Text)
          /\ Len([m.swipes EXCEPT ![j] = text]) = Len(m.swipes)
        BY <1>2, MessageFacts, ReplaceElement
    <2> QED
        BY <1>2, <2>1, NewTexts DEF Rewritten
<1> HIDE DEF text, m
<1>6. /\ DiskOf(w).swipes[j] = text /\ j \in DOMAIN DiskOf(w).swipes
      /\ DiskOf(w) = [DiskOf(m) EXCEPT !.swipes[j] = text]
    BY <1>2, RewrittenOnDisk
<1> HIDE DEF w, i, j
<1>7. /\ OnDisk(history')[i] = DiskOf(w) /\ OnDisk(history)[i] = DiskOf(m)
      /\ i \in DOMAIN OnDisk(history) /\ Conv!Touches(i) /\ Conv!Saves
    BY <1>1, <1>2, <1>3, <1>4, <1>5, WorkTouches DEF m
<1>8. j \in DOMAIN OnDisk(history)[i].swipes
    BY <1>2, <1>7 DEF DiskOf
<1>9. Conv!Rewrites(i, j)
    BY <1>1, <1>6, <1>7 DEF Conv!Rewrites
<1> QED
    BY <1>1, <1>7, <1>8, <1>9 DEF Conv!Work

LEMMA ChoiceWorks ==
    ASSUME Inv, req.kind = "none", req'.kind = "none", NEW i \in DOMAIN history,
           NEW j \in DOMAIN history[i].swipes, history' = [history EXCEPT ![i] = [history[i] EXCEPT !.active = j]],
           \/ saved' = AutoSaved(history')
           \/ saved' = saved /\ i = Len(history)
    PROVE  Conv!Work
<1> DEFINE m == history[i]
           r == [m EXCEPT !.active = j]
<1>1. WellFormed(m) /\ WellFormedHistory(history)
    BY InvFacts DEF WellFormedHistory
<1>2. m \in Message /\ j \in 1 .. Len(m.swipes) /\ Len(m.swipes) \in Nat /\ j \in Nat
    BY <1>1, MessageFacts DEF WellFormed
<1> HIDE DEF m
<1>3. WellFormed(r)
    <2>1. r \in Message
        BY <1>2 DEF Message
    <2> QED
        BY <1>1, <1>2, <2>1 DEF WellFormed, Message
<1>4. DiskOf(r) = [DiskOf(m) EXCEPT !.active = j]
    BY <1>2 DEF DiskOf, Message
<1>5. history' = [history EXCEPT ![i] = r]
    BY DEF m
<1> HIDE DEF r
<1>6. /\ OnDisk(history') = [OnDisk(history) EXCEPT ![i] = DiskOf(r)]
      /\ OnDisk(history)[i] = DiskOf(m) /\ i \in DOMAIN OnDisk(history)
      /\ saved' = AutoSaved(history') => Conv!Saves
    BY <1>1, <1>3, <1>5, WorkTouches DEF m
<1>7. OnDisk(history') = [OnDisk(history) EXCEPT ![i].active = j]
    BY <1>4, <1>6
<1>8. j \in DOMAIN OnDisk(history)[i].swipes
    BY <1>6 DEF DiskOf, m
<1>9. Conv!Saves \/ (Conv!Keeps /\ i = Len(OnDisk(history)))
    BY <1>1, <1>6, OnDiskFacts DEF Conv!Keeps
<1> QED
    BY <1>6, <1>7, <1>8, <1>9 DEF Conv!Work

LEMMA MoveWorks ==
    ASSUME Inv, MoveUp \/ MoveDown
    PROVE  Conv!Work
<1> DEFINE s == OnDisk(history)
<1>1. PICK i \in DOMAIN history : MoveTo(i) /\ i \in {sel - 1, sel + 1}
    BY DEF MoveUp, MoveDown, MoveTo
<1>2. /\ req.kind = "none" /\ req'.kind = "none" /\ sel \in DOMAIN history
      /\ saved' = AutoSaved(history') /\ history' = Swap(history, sel, i)
    BY <1>1, InvFacts DEF MoveTo, Free, Ready
<1>3. /\ DOMAIN s = DOMAIN history /\ DOMAIN history = 1 .. Len(history) /\ Len(s) = Len(history)
      /\ \A k \in DOMAIN history : s[k] = DiskOf(history[k])
      /\ WellFormedHistory(history)
    BY InvFacts, OnDiskFacts
<1>4. OnDisk(history') = [s EXCEPT ![sel] = s[i], ![i] = s[sel]]
    <2>1. OnDisk(Swap(history, sel, i)) =
              [s EXCEPT ![sel] = DiskOf(history[i]), ![i] = DiskOf(history[sel])]
        BY <1>2 DEF OnDisk, Swap, DiskOf
    <2> QED
        BY <1>2, <1>3, <2>1
<1>5. Conv!Saves
    <2>1. Len(Swap(history, sel, i)) = Len(history) /\ Len(history) # 0
        <3>1. WellFormedHistory(history) /\ sel \in DOMAIN history
            BY <1>2, <1>3
        <3>2. Len(Swap(history, sel, i)) = Len(history)
            BY <3>1, SwapWellFormed
        <3> QED
            BY <3>1, <3>2 DEF WellFormedHistory
    <2>2. history' # <<>>
        BY <1>2, <2>1
    <2> QED
        BY <1>2, <2>2, SavesIs
<1> HIDE DEF s
<1>6. CASE i = sel - 1
    <2>1. sel \in 2 .. Len(s) /\ OnDisk(history') = [s EXCEPT ![sel] = s[sel - 1], ![sel - 1] = s[sel]]
        BY <1>2, <1>3, <1>4, <1>6
    <2> QED
        BY <1>2, <1>5, <2>1 DEF Conv!Work, s
<1>7. CASE i = sel + 1
    <2>1. i \in 2 .. Len(s) /\ sel = i - 1 /\ i # i - 1
        BY <1>2, <1>3, <1>7
    <2>2. OnDisk(history') = [s EXCEPT ![i - 1] = s[i], ![i] = s[i - 1]]
        BY <1>4, <2>1
    <2>3. OnDisk(history') = [s EXCEPT ![i] = s[i - 1], ![i - 1] = s[i]]
        BY <2>1, <2>2
    <2> QED
        BY <1>2, <1>5, <2>1, <2>3 DEF Conv!Work, s
<1> QED
    BY <1>1, <1>6, <1>7

LEMMA DeleteWorks ==
    ASSUME Inv, ConfirmDelete
    PROVE  Conv!Work
<1> DEFINE s == OnDisk(history)
           t == OnDisk(history')
<1>1. /\ req.kind = "none" /\ req'.kind = "none" /\ doomed \in DOMAIN history
      /\ saved' = AutoSaved(history') /\ history' = Delete(history, doomed)
    BY InvFacts DEF ConfirmDelete, Inv, DeleteTargetValid
<1>2. /\ t = SubSeq(s, 1, doomed - 1) \o SubSeq(s, doomed + 1, Len(s))
      /\ doomed \in DOMAIN s
    BY <1>1, InvFacts, OnDiskDelete, OnDiskFacts
<1>3. WellFormedHistory(history')
    BY <1>1, InvFacts, DeleteWellFormed
<1>4. IF t = <<>> THEN Conv!Keeps ELSE Conv!Saves
    <2>1. CASE history' = <<>>
        <3>1. t = <<>> /\ saved' = saved
            BY <1>1, <2>1 DEF OnDisk, AutoSaved
        <3> QED
            BY <3>1 DEF Conv!Keeps
    <2>2. CASE history' # <<>>
        <3>1. t # <<>>
            BY <1>3, <2>2, OnDiskFacts DEF WellFormedHistory
        <3> QED
            BY <1>1, <2>2, <3>1, SavesIs
    <2> QED
        BY <2>1, <2>2
<1> QED
    BY <1>1, <1>2, <1>4 DEF Conv!Work

LEMMA RestoredOnDisk ==
    ASSUME NEW d, WellFormedFile(d)
    PROVE  OnDisk(Restored(d)) = d
<1> DEFINE h == Restored(d)
<1>1. /\ d \in Seq(Turn) /\ Len(d) \in Nat /\ WellFormedHistory(h) /\ Len(h) = Len(d)
    BY RestoredWellFormed DEF WellFormedFile
<1>2. /\ OnDisk(h) \in Seq(Turn) /\ Len(OnDisk(h)) = Len(d)
      /\ \A i \in 1 .. Len(d) : OnDisk(h)[i] = DiskOf(h[i])
    BY <1>1, OnDiskFacts
<1>3. \A i \in 1 .. Len(d) : DiskOf(h[i]) = d[i]
    <2> TAKE i \in 1 .. Len(d)
    <2>1. i \in DOMAIN d /\ d[i] \in Turn
        BY <1>1, ElementOfSeq
    <2>2. h[i].role = d[i].role /\ h[i].swipes = d[i].swipes /\ h[i].active = d[i].active
        BY <2>1 DEF Restored, Fresh
    <2> QED
        BY <2>1, <2>2 DEF DiskOf, Turn
<1> HIDE DEF h
<1> QED
    BY <1>1, <1>2, <1>3, SeqEqual DEF h

LEMMA LoadWorks ==
    ASSUME Inv, LoadChat \/ LoadDamaged
    PROVE  Conv!Work
<1>1. req.kind = "none" /\ req'.kind = "none" /\ Conv!Keeps /\ WellFormedFile(saved)
    BY InvFacts DEF LoadChat, LoadDamaged, Typing, Free, Ready, Conv!Keeps
<1>2. OnDisk(history') \in {saved, <<>>}
    <2>1. CASE LoadChat
        BY <1>1, <2>1, RestoredOnDisk DEF LoadChat
    <2>2. CASE LoadDamaged
        BY <2>2 DEF LoadDamaged, OnDisk
    <2> QED
        BY <2>1, <2>2
<1> QED
    BY <1>1, <1>2 DEF Conv!Work

LEMMA StartOverWorks ==
    ASSUME Inv, Inv', StartOver \/ LoadCard
    PROVE  Conv!Work
<1>1. /\ req.kind = "none" /\ req'.kind = "none" /\ saved' = AutoSaved(history')
      /\ history' = <<Fresh(Say("bot"), "assistant")>>
    BY DEF StartOver, LoadCard, Typing, Free, Ready
<1>2. Conv!Saves
    BY <1>1, SavesIs
<1>3. Len(OnDisk(history')) = 1
    BY <1>1, OnDiskFacts DEF Inv, TypeOK
<1> QED
    BY <1>1, <1>2, <1>3 DEF Conv!Work

LEMMA RegenerateWithoutModelWorks ==
    ASSUME Inv, TextInv, RegenerateWithoutModel
    PROVE  Conv!Work
<1> DEFINE m == history[sel]
<1>1. /\ req.kind = "none" /\ req'.kind = "none" /\ saved' = AutoSaved(history')
      /\ history' = AddSwipe(history, sel, Say("wait")) /\ Say("wait") \in Text
    BY TextTypes DEF RegenerateWithoutModel, Selecting, Free, Ready, Idle, Kinds
<1>2. sel \in DOMAIN history /\ WellFormed(m) /\ WellFormedHistory(history)
    BY LastSwipeFacts, InvFacts DEF RegenerateWithoutModel
<1>3. CASE Len(m.swipes) < MaxSwipes
    BY <1>1, <1>2, <1>3, WorkAdds
<1>4. CASE ~(Len(m.swipes) < MaxSwipes)
    <2>1. history' = history
        BY <1>1, <1>2, <1>4, AddSwipeIs
    <2>2. m.active \in DOMAIN m.swipes /\ m = [m EXCEPT !.active = m.active]
        BY <1>2, MessageFacts
    <2>3. history' = [history EXCEPT ![sel] = [history[sel] EXCEPT !.active = m.active]]
        BY <1>2, <2>1, <2>2 DEF WellFormedHistory
    <2> QED
        BY <1>1, <1>2, <2>2, <2>3, ChoiceWorks
<1> QED
    BY <1>3, <1>4

LEMMA SwipeWorks ==
    ASSUME Inv, TextInv, SwipePrev \/ SwipeNext
    PROVE  Conv!Work
<1>1. PICK j \in DOMAIN history[sel].swipes : history' = SetActive(history, sel, j)
    BY ChosenSwipe
<1>2. /\ req.kind = "none" /\ req'.kind = "none" /\ sel \in DOMAIN history
      /\ \/ saved' = AutoSaved(history')
         \/ saved' = saved /\ sel = Len(history)
    BY ChosenSwipe DEF SwipePrev, SwipeNext
<1>3. SetActive(history, sel, j) = [history EXCEPT ![sel] = [history[sel] EXCEPT !.active = j]]
    <2>1. WellFormedHistory(history)
        BY InvFacts
    <2> QED
        BY <1>2, <2>1, SetActiveIs
<1> QED
    BY <1>1, <1>2, <1>3, ChoiceWorks

LEMMA SendWithoutModelWorks ==
    ASSUME Inv, SendWithoutModel
    PROVE  Conv!Work
<1> DEFINE asked == Add(history, Say("user"), "user")
<1>1. /\ req.kind = "none" /\ req'.kind = "none" /\ saved' = AutoSaved(history')
      /\ history' = Add(asked, Say("notice"), "assistant")
    BY DEF SendWithoutModel, Typing, Free, Ready, Idle
<1>2. /\ Say("notice") \in Text /\ Say("user") \in Text /\ "user" \in Roles /\ "assistant" \in Roles
    BY TextTypes DEF Kinds, Roles
<1>3. /\ WellFormedHistory(history) /\ WellFormedHistory(asked) /\ Len(asked) = Len(history) + 1
      /\ \A k \in DOMAIN history : asked[k] = history[k]
      /\ Len(history) \in Nat /\ DOMAIN history = 1 .. Len(history)
    BY <1>2, InvFacts, AddWellFormed, AddFields
<1> HIDE DEF asked
<1>4. /\ WellFormedHistory(history') /\ Len(history') = Len(asked) + 1
      /\ \A k \in DOMAIN asked : history'[k] = asked[k] /\ DOMAIN asked = 1 .. Len(asked)
    BY <1>1, <1>2, <1>3, AddWellFormed, AddFields DEF WellFormedHistory
<1>5. \A k \in 1 .. Len(history) : history'[k] = history[k]
    <2> TAKE k \in 1 .. Len(history)
    <2>1. k \in DOMAIN asked
        BY <1>3 DEF WellFormedHistory
    <2> QED
        BY <1>3, <1>4, <2>1
<1>6. Len(history') = Len(history) + 2
    BY <1>3, <1>4
<1> QED
    BY <1>1, <1>3, <1>4, <1>5, <1>6, WorkGrows

LEMMA AddWorks ==
    ASSUME Inv, UnloadCard \/ AddSystem
    PROVE  Conv!Work
<1>1. /\ req.kind = "none" /\ req'.kind = "none"
      /\ saved' = saved \/ saved' = AutoSaved(history')
    BY DEF UnloadCard, AddSystem, Typing, Free, Ready
<1>2. PICK text \in Text, role \in Roles : history' = Add(history, text, role)
    BY TextTypes DEF UnloadCard, AddSystem, Kinds, Roles
<1>3. /\ WellFormedHistory(history) /\ DOMAIN history = 1 .. Len(history)
    BY InvFacts
<1>4. /\ WellFormedHistory(history') /\ Len(history') = Len(history) + 1
      /\ \A k \in 1 .. Len(history) : history'[k] = history[k]
    BY <1>2, <1>3, AddWellFormed, AddFields
<1> QED
    BY <1>1, <1>3, <1>4, WorkGrows

\* A question, and another swipe, are awaited.
LEMMA SendMessageAsks ==
    ASSUME Inv, SendMessage
    PROVE  Conv!Ask
<1> DEFINE asked == Add(history, Say("user"), "user")
<1>1. /\ req.kind = "none" /\ req'.kind = "reply" /\ req'.base = asked /\ saved' = saved
    BY DEF SendMessage, Typing, Free, Ready, Started
<1>2. /\ Say("user") \in Text /\ "user" \in Roles
    BY TextTypes DEF Kinds, Roles
<1>3. /\ WellFormedHistory(history) /\ DOMAIN history = 1 .. Len(history)
      /\ WellFormedHistory(asked) /\ Len(asked) = Len(history) + 1
      /\ \A k \in DOMAIN history : asked[k] = history[k]
      /\ asked[Len(history) + 1] = Fresh(Say("user"), "user")
    BY <1>2, InvFacts, AddWellFormed, AddFields
<1> HIDE DEF asked
<1>4. \A k \in 1 .. Len(history) : DiskOf(asked[k]) = DiskOf(history[k])
    BY <1>3
<1>5. /\ Len(OnDisk(asked)) = Len(OnDisk(history)) + 1
      /\ SubSeq(OnDisk(asked), 1, Len(OnDisk(history))) = OnDisk(history)
    BY <1>3, <1>4, OnDiskGrows
<1>6. OnDisk(asked)[Len(OnDisk(asked))].role = "user"
    BY <1>3, OnDiskFacts DEF Fresh
<1>7. Conv!Grows(1)
    BY <1>1, <1>5 DEF Conv!Grows
<1> QED
    BY <1>1, <1>6, <1>7 DEF Conv!Ask, Conv!Keeps

LEMMA RegenerateAsksAgain ==
    ASSUME Inv, TextInv, Regenerate
    PROVE  Conv!AskAgain
<1>1. req.kind = "none" /\ req'.kind = "regen" /\ req'.base = history /\ saved' = saved
    BY DEF Regenerate, Selecting, Free, Ready, Started
<1>2. OnDisk(history) # <<>>
    BY LastSwipeFacts, InvFacts, OnDiskFacts DEF Regenerate
<1> QED
    BY <1>1, <1>2 DEF Conv!AskAgain, Conv!Keeps

\* The end of a request leaves what the callbacks wrote, but for the text of the swipe
\* they wrote it in.
LEMMA RequestEndsFacts ==
    ASSUME Inv, TextInv, RequestEnds
    PROVE  /\ WellFormedHistory(history') /\ Len(history') = Len(history)
           /\ \A k \in 1 .. req.target - 1 : DiskOf(history'[k]) = DiskOf(req.base[k])
           /\ Answers(req, history'[req.target])
           /\ history'[req.target].active = Len(history'[req.target].swipes)
           /\ history'[req.target].role # "user"
<1> DEFINE t == req.target
<1>1. /\ req.kind # "none" /\ req \in RequestType /\ t \in DOMAIN history /\ WellFormedHistory(history)
      /\ DOMAIN history = 1 .. Len(history) /\ t \in Nat
      /\ Running(req, history[t]) /\ Answers(req, history[t])
      /\ req.id \in Nat
    BY TargetFacts, InvFacts DEF RequestEnds, RequestFails, RequestEmpty, RequestDone
<1>2. \A k \in 1 .. t - 1 : history[k] = req.base[k]
    BY <1>1 DEF TextInv, StreamsInto
<1>3. CASE RequestDone
    <2>1. \E named \in BOOLEAN : history' = Measured(history, t, named)
        BY <1>3 DEF RequestDone
    <2>2. /\ WellFormedHistory(history') /\ DOMAIN history' = DOMAIN history
          /\ \A k \in DOMAIN history :
                 /\ history'[k].role = history[k].role
                 /\ history'[k].swipes = history[k].swipes
                 /\ history'[k].active = history[k].active
        BY <1>1, <2>1, MeasuredFacts
    <2>3. Len(history') = Len(history)
        BY <1>1, <2>1, MeasuredWellFormed
    <2>4. Answers(req, history'[t])
        BY <1>1, <2>2 DEF Answers, AnswersAlone, AnswersAgain
    <2>5. \A k \in 1 .. t - 1 : DiskOf(history'[k]) = DiskOf(req.base[k])
        BY <1>1, <1>2, <2>2 DEF DiskOf
    <2> QED
        BY <1>1, <2>2, <2>3, <2>4, <2>5 DEF Running
<1>4. CASE RequestFails \/ RequestEmpty
    <2>1. PICK kind \in {"err", "silent"} : history' = Verdict(kind)
        BY <1>4 DEF RequestFails, RequestEmpty
    <2> DEFINE text == Reply(kind, req.id, 0)
               r == [req EXCEPT !.buf = 0]
    <2>2. text \in Text /\ IsBot(text) /\ text.req = req.id
        BY <1>1, TextTypes DEF Kinds, IsBot, Reply
    <2>3. /\ r \in RequestType /\ r.kind = req.kind /\ r.id = req.id /\ r.target = t
          /\ r.base = req.base /\ r.buf = 0
        BY <1>1 DEF RequestType
    <2> HIDE DEF text, r
    <2>4. StreamsInto(r, Update(history, t, text), 0)
        BY <1>1, <2>2, <2>3, StreamedOn, TargetFacts
    <2>5. WellFormedHistory(Update(history, t, text)) /\ Len(Update(history, t, text)) = Len(history)
        BY <1>1, <2>2, UpdateWellFormed
    <2>6. history' \in {history, Update(history, t, text)}
        BY <1>1, <2>1, TargetFacts DEF Verdict, Update, text
    <2>7. CASE history' = history
        BY <1>1, <1>2, <2>7 DEF Running
    <2>8. CASE history' = Update(history, t, text)
        <3> DEFINE h == Update(history, t, text)
        <3>1. /\ WellFormedHistory(h) /\ Len(h) = Len(history) /\ StreamsInto(r, h, 0)
            BY <2>4, <2>5
        <3> HIDE DEF h
        <3>2. Running(r, h[t]) /\ Answers(r, h[t]) /\ \A k \in 1 .. t - 1 : h[k] = req.base[k]
            BY <1>1, <2>3, <3>1 DEF StreamsInto
        <3>3. Answers(req, h[t])
            BY <2>3, <3>2 DEF Answers, AnswersAlone
        <3>4. history' = h
            BY <2>8 DEF h
        <3> QED
            BY <3>1, <3>2, <3>3, <3>4 DEF Running
    <2> QED
        BY <2>6, <2>7, <2>8
<1> QED
    BY <1>3, <1>4 DEF RequestEnds

LEMMA RequestEndsAnswers ==
    ASSUME Inv, TextInv, RequestEnds
    PROVE  Conv!Answer
<1> DEFINE t == req.target
           m == history'[t]
           b == req.base[t]
           s == OnDisk(req.base)
           u == OnDisk(history')
<1>1. /\ req.kind # "none" /\ req'.kind = "none" /\ saved' = AutoSaved(history')
    BY DEF RequestEnds, RequestFails, RequestEmpty, RequestDone, EndRequest, Idle
<1>2. /\ WellFormedHistory(history') /\ Len(history') = t /\ t \in 1 .. Len(history')
      /\ \A k \in 1 .. t - 1 : DiskOf(history'[k]) = DiskOf(req.base[k])
      /\ Answers(req, m) /\ m.active = Len(m.swipes) /\ m.role # "user" /\ t \in Nat
    BY <1>1, RequestEndsFacts, TargetFacts, InvFacts
<1>3. WellFormedHistory(req.base)
    BY <1>1 DEF TextInv, StreamsInto
<1>4. WellFormed(m) /\ DOMAIN m.swipes = 1 .. Len(m.swipes) /\ m.swipes \in Seq(Text) /\ Len(m.swipes) \in Nat
    BY <1>2, MessageFacts DEF WellFormedHistory
<1>5. /\ Len(s) = Len(req.base) /\ Len(s) \in Nat /\ DOMAIN s = 1 .. Len(s)
      /\ \A k \in 1 .. Len(s) : s[k] = DiskOf(req.base[k])
      /\ Len(u) = t /\ \A k \in 1 .. t : u[k] = DiskOf(history'[k])
    BY <1>2, <1>3, OnDiskFacts
<1>6. Conv!Saves
    <2>1. history' # <<>>
        BY <1>2 DEF WellFormedHistory
    <2> QED
        BY <1>1, <2>1, SavesIs
<1>7. u[t].role = m.role /\ u[t].swipes = m.swipes /\ u[t].active = m.active
    <2>1. u[t] = DiskOf(m)
        BY <1>2, <1>5
    <2> HIDE DEF u, m
    <2> QED
        BY <2>1 DEF DiskOf
<1>8. CASE req.kind = "reply" /\ AnswersAlone(req, m)
    <2>1. Len(req.base) = t - 1 /\ m.role = "assistant"
        BY <1>8 DEF AnswersAlone
    <2>2. /\ Len(u) = Len(s) + 1 /\ SubSeq(u, 1, Len(s)) = s
        BY <1>2, <1>3, <2>1, OnDiskGrows
    <2>3. Conv!Grows(1)
        BY <1>1, <2>2 DEF Conv!Grows
    <2>4. u[Len(u)].role = "assistant"
        BY <1>5, <1>7, <2>1
    <2> HIDE DEF t, m, b
    <2> QED
        BY <1>1, <1>6, <2>3, <2>4 DEF Conv!Answer
<1>9. CASE req.kind = "regen" /\ Len(req.base) = t /\ AnswersAgain(m, b)
    <2>1. WellFormed(b)
        BY <1>2, <1>3, <1>9 DEF WellFormedHistory
    <2>2. /\ b.swipes \in Seq(Text) /\ Len(b.swipes) \in Nat /\ DOMAIN b.swipes = 1 .. Len(b.swipes)
          /\ s[t] = DiskOf(b) /\ Len(s) = t
          /\ s[t].role = b.role /\ s[t].swipes = b.swipes /\ s[t].active = b.active
        BY <1>2, <1>5, <1>9, <2>1, MessageFacts DEF DiskOf
    <2>3. AnswersAgain(m, b) /\ u[t] = DiskOf(m)
        BY <1>2, <1>5, <1>9
    <2>4. Conv!Touches(t)
        <3>1. \A k \in DOMAIN s \ {t} : u[k] = s[k]
            BY <1>2, <1>5, <2>2
        <3> QED
            BY <1>1, <1>5, <2>2, <3>1 DEF Conv!Touches
    <2> HIDE DEF m, b, s, u, t
    <2>5. CASE Len(m.swipes) = Len(b.swipes) + 1
        <3>1. SubSeq(m.swipes, 1, Len(b.swipes)) = b.swipes
            <4>1. \A k \in 1 .. Len(b.swipes) : m.swipes[k] = b.swipes[k]
                BY <2>2, <2>3, <2>5 DEF AnswersAgain
            <4> QED
                BY <1>4, <2>2, <2>5, <4>1, PrefixIs
        <3>2. /\ u[t].role = s[t].role /\ u[t].active = Len(s[t].swipes) + 1
              /\ Len(u[t].swipes) = u[t].active
              /\ SubSeq(u[t].swipes, 1, Len(s[t].swipes)) = s[t].swipes
            BY <1>2, <1>7, <2>2, <2>3, <2>5, <3>1 DEF AnswersAgain
        <3>3. Conv!Adds(t)
            BY <1>1, <2>4, <3>2 DEF Conv!Adds, s, u
        <3>4. s[t].role # "user"
            BY <1>2, <2>2, <2>3 DEF AnswersAgain
        <3> QED
            BY <1>1, <1>6, <2>2, <3>3, <3>4 DEF Conv!Answer, s
    <2>6. CASE /\ Len(m.swipes) = Len(b.swipes)
               /\ Len(b.swipes) = MaxSwipes
               /\ b.active = MaxSwipes
        <3>1. /\ m.swipes = [b.swipes EXCEPT ![MaxSwipes] = m.swipes[MaxSwipes]]
            <4> DEFINE w == [b.swipes EXCEPT ![MaxSwipes] = m.swipes[MaxSwipes]]
            <4>1. MaxSwipes \in 1 .. Len(b.swipes) /\ m.swipes[MaxSwipes] \in Text
                BY <1>4, <2>6, MaxSwipesAssumption
            <4>2. /\ w \in Seq(Text) /\ Len(w) = Len(b.swipes)
                  /\ \A k \in 1 .. Len(b.swipes) :
                         w[k] = IF k = MaxSwipes THEN m.swipes[MaxSwipes] ELSE b.swipes[k]
                BY <2>2, <4>1, ExceptSeq
            <4> HIDE DEF w
            <4>3. \A k \in 1 .. Len(m.swipes) : m.swipes[k] = w[k]
                BY <1>4, <2>2, <2>3, <2>6, <4>2 DEF AnswersAgain
            <4>4. m.swipes = w
                BY <1>4, <2>6, <4>2, <4>3, SeqEqual
            <4> QED
                BY <4>4 DEF w
        <3>2. /\ m.role = b.role /\ m.active = b.active
            BY <1>2, <2>3, <2>6 DEF AnswersAgain
        <3>3. DiskOf(m) = [DiskOf(b) EXCEPT !.swipes[MaxSwipes] = m.swipes[MaxSwipes]]
            <4> DEFINE w == [b.swipes EXCEPT ![MaxSwipes] = m.swipes[MaxSwipes]]
            <4>1. DiskOf(m) = [role |-> b.role, swipes |-> w, active |-> b.active]
                BY <3>1, <3>2 DEF DiskOf
            <4> QED
                BY <4>1 DEF DiskOf
        <3>4. u[t] = [s[t] EXCEPT !.swipes[MaxSwipes] = u[t].swipes[MaxSwipes]]
            BY <1>7, <2>2, <2>3, <3>3
        <3>5. MaxSwipes \in DOMAIN u[t].swipes
            BY <1>4, <1>7, <2>6, MaxSwipesAssumption
        <3>6. Conv!Rewrites(t, MaxSwipes)
            BY <1>1, <2>4, <3>4, <3>5 DEF Conv!Rewrites, s, u
        <3> QED
            BY <1>1, <1>6, <2>2, <2>6, <3>6 DEF Conv!Answer, s
    <2> QED
        BY <2>3, <2>5, <2>6 DEF AnswersAgain
<1> QED
    BY <1>2, <1>8, <1>9 DEF Answers

\* A callback is a step of the request, which the log does not have yet.
LEMMA CallbackStutters ==
    ASSUME Inv, Callback
    PROVE  UNCHANGED Conv!vars
<1>1. /\ req.kind # "none" /\ saved' = saved /\ req \in RequestType
    BY InvFacts DEF Callback, ReceiveReasoning, ReceiveContent, ReceiveBlank, Tick
<1>2. req'.kind = req.kind /\ req'.base = req.base
    <2>1. ReceiveContent \/ req' \in {req, [req EXCEPT !.reasoned = TRUE], [req EXCEPT !.got = TRUE]}
        BY DEF Callback, ReceiveReasoning, ReceiveBlank, Tick
    <2> QED
        BY <1>1, <2>1, ContentFacts DEF RequestType
<1> QED
    BY <1>1, <1>2 DEF Conv!vars

LEMMA ConversationStep ==
    ASSUME Inv, Inv', TextInv, [Next]_vars
    PROVE  [Conv!Next]_(Conv!vars)
<1>1. CASE Send
    BY <1>1, SendMessageAsks, SendWithoutModelWorks, RegenerateAsksAgain,
       RegenerateWithoutModelWorks DEF Send, Conv!Next
<1>2. CASE Callback
    BY <1>2, CallbackStutters
<1>3. CASE RequestEnds
    BY <1>3, RequestEndsAnswers DEF Conv!Next
<1>4. CASE Key
    <2>1. CASE SwipePrev \/ SwipeNext
        BY <2>1, SwipeWorks DEF Conv!Next
    <2>2. CASE ~(SwipePrev \/ SwipeNext)
        <3>1. UNCHANGED <<history, saved, req>>
            BY <1>4, <2>2 DEF Key, SelectUp, SelectDown, StartEdit, Escape, ToggleMove,
               LeaveSelection, AskDelete, CancelDelete, Resize
        <3> QED
            BY <3>1 DEF Conv!vars
    <2> QED
        BY <2>1, <2>2
<1>5. CASE Change
    BY <1>5, MoveWorks, CommitEditWorks, DeleteWorks, StartOverWorks, AddWorks, LoadWorks
    DEF Change, Conv!Next
<1>6. CASE UNCHANGED vars
    BY <1>6 DEF vars, Conv!vars
<1> QED
    BY <1>1, <1>2, <1>3, <1>4, <1>5, <1>6 DEF Next

LEMMA ConversationInit == Init => Conv!Init
<1> SUFFICES ASSUME Init PROVE Conv!Init
    OBVIOUS
<1>1. /\ history = <<Fresh(Say("notice"), "assistant")>> /\ saved = <<>> /\ req.kind = "none"
    BY DEF Init, Idle
<1>2. WellFormedHistory(history)
    BY InitInv DEF Inv, TypeOK
<1>3. Len(OnDisk(history)) = 1
    BY <1>1, <1>2, OnDiskFacts
<1> QED
    BY <1>1, <1>3 DEF Conv!Init

\* With keys, windows and callbacks hidden, main.c is a conversation: a question or a
\* swipe is answered by one turn or one swipe at the end of the log, nothing else in the
\* log changes meanwhile, and the file is the log as some operation left it.
THEOREM ScreenIsConversation == Spec => Conv!Safety
BY ConversationInit, ConversationStep, TextsFit, PTL DEF Spec, Conv!Safety

=============================================================================
