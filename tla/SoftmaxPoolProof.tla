-------------------------- MODULE SoftmaxPoolProof --------------------------
(***************************************************************************)
(* For every number of workers, rows and calls: a worker never runs on     *)
(* behalf of a call that has returned, and parallel_for returns when every *)
(* row has been computed exactly once.                                     *)
(*                                                                         *)
(* The invariant says who still has which rows. Rows from caller.cur on    *)
(* are the caller's; a row before is either computed or in the range of    *)
(* exactly one busy worker. The range is the slot until the worker runs,   *)
(* and then what is left of the arguments it read from the slot.           *)
(***************************************************************************)
EXTENDS SoftmaxPool, TLAPS

Lo(w) == IF at[w] = "run" THEN job[w].lo ELSE slot[w].lo
Hi(w) == IF at[w] = "run" THEN job[w].hi ELSE slot[w].hi

\* Row r is still to be computed by worker w.
Mine(w, r) == busy[w] /\ Lo(w) <= r /\ r < Hi(w)

\* The caller's locals; after its own part no row is left to it.
Place ==
    /\ caller.rows <= MaxRows
    /\ caller.cur \in 1 .. caller.rows + 1
    /\ caller.i <= caller.use + 1
    /\ caller.pc \in {"filled", "tested", "asleep"} => caller.i <= caller.use
    /\ caller.pc \in {"idle", "join", "tested", "asleep"} => caller.cur = caller.rows + 1

\* The busy workers are those the caller has given a chunk and not yet joined.
Phase ==
    \A w \in Workers : busy[w] =>
        /\ caller.pc # "idle" /\ w <= caller.use
        /\ caller.pc \in {"dispatch", "filled"} => w < caller.i
        /\ caller.pc \in {"join", "tested", "asleep"} => w >= caller.i

\* A busy worker has a range of this call that was given out.
Work ==
    \A w \in Workers :
        /\ at[w] \in {"fetch", "run"} => busy[w]
        /\ busy[w] => /\ slot[w].arg = calls
                      /\ at[w] = "run" => job[w].arg = calls
                      /\ 1 <= Lo(w) /\ Hi(w) <= caller.cur

\* The slot that is about to be published holds the next chunk.
Filling ==
    caller.pc = "filled" =>
        /\ slot[caller.i].arg = calls
        /\ slot[caller.i].lo = caller.cur
        /\ slot[caller.i].hi \in caller.cur .. caller.rows + 1

\* A row is computed at most once, and not computed as long as it is someone's.
Counted ==
    \A r \in 1 .. caller.rows :
        /\ times[r] \in {0, 1}
        /\ r >= caller.cur => times[r] = 0
        /\ r < caller.cur => (times[r] = 0 <=> \E w \in Workers : Mine(w, r))

Apart ==
    \A v, w \in Workers : \A r \in 1 .. caller.rows : Mine(v, r) /\ Mine(w, r) => v = w

Inv == TypeOK /\ Place /\ Phase /\ Work /\ Filling /\ Counted /\ Apart

-----------------------------------------------------------------------------
USE PoolAssumption

\* The types of the parts of the state
LEMMA Parts ==
    ASSUME TypeOK
    PROVE  /\ caller.pc \in CallerAt /\ caller.rows \in Nat /\ caller.use \in 0 .. PoolLimit
           /\ caller.chunk \in Nat /\ caller.cur \in Nat /\ caller.i \in 1 .. PoolLimit + 1
           /\ \A w \in Workers : /\ busy[w] \in BOOLEAN /\ at[w] \in WorkerAt
                                /\ slot[w] \in Job /\ job[w] \in Job
                                /\ Lo(w) \in Nat /\ Hi(w) \in Nat
<1>1. /\ caller.pc \in CallerAt /\ caller.rows \in Nat /\ caller.use \in 0 .. PoolLimit
      /\ caller.chunk \in Nat /\ caller.cur \in Nat /\ caller.i \in 1 .. PoolLimit + 1
    BY DEF TypeOK, Locals
<1>2. ASSUME NEW w \in Workers
      PROVE  /\ busy[w] \in BOOLEAN /\ at[w] \in WorkerAt
             /\ slot[w] \in Job /\ job[w] \in Job
             /\ Lo(w) \in Nat /\ Hi(w) \in Nat
    <2>1. slot[w] \in Job /\ job[w] \in Job /\ busy[w] \in BOOLEAN /\ at[w] \in WorkerAt
        BY DEF TypeOK
    <2> QED
        BY <2>1 DEF Job, Lo, Hi
<1> QED
    BY <1>1, <1>2

\* What an assignment to pc makes of the caller
LEMMA NewPc ==
    ASSUME NEW c \in Locals, NEW p \in CallerAt, NEW d, d = [c EXCEPT !.pc = p]
    PROVE  /\ d \in Locals /\ d.pc = p
           /\ d.cur = c.cur /\ d.i = c.i
           /\ d.rows = c.rows /\ d.use = c.use /\ d.chunk = c.chunk
BY DEF Locals

\* The workers a call uses: none of them is missing from the pool, and each
\* can be given a chunk of at least one row.
LEMMA UsedBounds ==
    ASSUME TypeOK, NEW n \in Nat \ {0}, NEW p \in 0 .. PoolLimit, threads > 1
    PROVE  Used(n, p) \in 0 .. p /\ Used(n, p) < n
BY DEF TypeOK, Used, Least

LEMMA ChunkIsNat ==
    ASSUME NEW n \in Nat, NEW u \in Nat
    PROVE  (n + u) \div (u + 1) \in Nat
OBVIOUS

LEMMA InitInv == Init => Inv
<1> SUFFICES ASSUME Init
             PROVE  Inv
    OBVIOUS
<1>1. TypeOK
    <2>1. times \in [1 .. caller.rows -> Nat]
        BY DEF Init
    <2> QED
        BY <2>1 DEF Init, TypeOK, NoJob, Job, Locals, CallerAt, WorkerAt, Workers
<1>2. Place
    BY DEF Init, Place
<1>3. Phase /\ Work /\ Filling /\ Counted /\ Apart
    BY DEF Init, Phase, Work, Filling, Counted, Apart, Mine, Lo, Hi
<1> QED
    BY <1>1, <1>2, <1>3 DEF Inv

-----------------------------------------------------------------------------
(***************************************************************************)
(* Steps of the caller.                                                    *)
(***************************************************************************)
LEMMA CallInv ==
    ASSUME Inv, NEW n \in 1 .. MaxRows, Call(n)
    PROVE  Inv'
<1> DEFINE size == IF pool = 0 THEN Least(threads, PoolLimit) ELSE pool
           use == Used(n, size)
<1>1. n \in Nat \ {0} /\ n <= MaxRows
    OBVIOUS
<1>2. \A w \in Workers : ~busy[w] /\ at[w] \notin {"fetch", "run"}
    BY DEF Inv, Phase, Work, Call
<1>3. size \in 0 .. PoolLimit
    BY DEF Inv, TypeOK, Least
<1>4. /\ caller' \in [pc : {"own", "dispatch"}, rows : {n}, use : 0 .. PoolLimit, chunk : Nat,
                      cur : {1}, i : {1}]
      /\ pool' \in 0 .. PoolLimit
      /\ at' \in [Workers -> WorkerAt]
      /\ \A w \in Workers : at'[w] \notin {"fetch", "run"}
    <2>1. CASE n < MinRows \/ threads <= 1
        BY <1>2, <2>1 DEF Inv, TypeOK, Call
    <2>2. CASE ~(n < MinRows \/ threads <= 1)
        <3>1. use \in 0 .. PoolLimit
            <4>1. threads > 1
                BY <2>2 DEF Inv, TypeOK
            <4> HIDE DEF size
            <4> QED
                BY <4>1, <1>1, <1>3, UsedBounds DEF Inv
        <3>2. (n + use) \div (use + 1) \in Nat
            <4> HIDE DEF use
            <4> QED
                BY <1>1, <3>1, ChunkIsNat
        <3>3. caller' = [pc |-> "dispatch", rows |-> n, use |-> use,
                         chunk |-> (n + use) \div (use + 1), cur |-> 1, i |-> 1]
            BY <2>2 DEF Call
        <3>4. pool' = size
            BY <2>2 DEF Call
        <3>5. at' = [w \in Workers |-> IF pool = 0 /\ w <= size THEN "ready" ELSE at[w]]
            BY <2>2 DEF Call
        <3> HIDE DEF size, use
        <3>6. at' \in [Workers -> WorkerAt] /\ \A w \in Workers : at'[w] \notin {"fetch", "run"}
            BY <1>2, <3>5 DEF Inv, TypeOK, WorkerAt
        <3> QED
            BY <1>3, <3>1, <3>2, <3>3, <3>4, <3>6
    <2> QED
        BY <2>1, <2>2
<1>5. /\ times' = [r \in 1 .. n |-> 0] /\ calls' = calls + 1
      /\ UNCHANGED <<threads, slot, busy, job, spurious>>
    BY DEF Call
<1>6. TypeOK'
    BY <1>1, <1>4, <1>5, SMTT(20) DEF Inv, TypeOK, Locals, CallerAt
<1>7. Place' /\ Filling'
    BY <1>1, <1>4 DEF Place, Filling
<1>8. Phase' /\ Work' /\ Apart'
    BY <1>2, <1>4, <1>5 DEF Phase, Work, Apart, Mine
<1>9. Counted'
    BY <1>1, <1>4, <1>5 DEF Counted
<1> QED
    BY <1>6, <1>7, <1>8, <1>9 DEF Inv

LEMMA FillInv ==
    ASSUME Inv, Fill
    PROVE  Inv'
<1>1. /\ TypeOK /\ Place /\ Phase /\ Work /\ Counted /\ Apart
      /\ caller.pc = "dispatch" /\ caller.i <= caller.use /\ caller.cur <= caller.rows
    BY DEF Inv, Fill, More
<1>2. caller.i \in Workers /\ ~busy[caller.i] /\ at[caller.i] # "run"
    <2>1. caller.i \in Workers
        BY <1>1, Parts DEF Workers
    <2>2. ~busy[caller.i]
        BY <1>1, <2>1, Parts DEF Phase
    <2> QED
        BY <1>1, <2>1, <2>2 DEF Work
<1>3. WorkerEnd \in Nat /\ WorkerEnd >= caller.cur /\ WorkerEnd <= caller.rows + 1
    BY <1>1, Parts DEF WorkerEnd, Least
<1>4. /\ slot' = [slot EXCEPT ![caller.i] =
                    [arg |-> calls, lo |-> caller.cur, hi |-> WorkerEnd]]
      /\ UNCHANGED <<threads, pool, calls, busy, at, job, times, spurious>>
    BY DEF Fill, globals
<1>5. /\ caller' \in Locals /\ caller'.pc = "filled"
      /\ caller'.cur = caller.cur /\ caller'.i = caller.i
      /\ caller'.rows = caller.rows /\ caller'.use = caller.use
    <2>1. caller' = [caller EXCEPT !.pc = "filled"] /\ caller \in Locals /\ "filled" \in CallerAt
        BY <1>1 DEF Fill, TypeOK, CallerAt
    <2> QED
        BY <2>1, NewPc
<1> HIDE DEF WorkerEnd
<1>6. /\ slot' \in [Workers -> Job]
      /\ slot'[caller.i].arg = calls /\ slot'[caller.i].lo = caller.cur
      /\ slot'[caller.i].hi = WorkerEnd
      /\ \A w \in Workers \ {caller.i} : slot'[w] = slot[w]
    <2>1. [arg |-> calls, lo |-> caller.cur, hi |-> WorkerEnd] \in Job
        BY <1>1, <1>3, Parts DEF TypeOK, Job
    <2>2. slot \in [Workers -> Job]
        BY <1>1 DEF TypeOK
    <2> QED
        BY <1>2, <1>4, <2>1, <2>2
<1>7. TypeOK'
    BY <1>1, <1>4, <1>5, <1>6 DEF TypeOK
<1>8. Place' /\ Filling'
    <2>1. Place'
        BY <1>1, <1>5 DEF Place
    <2>2. Filling'
        BY <1>3, <1>4, <1>5, <1>6, <1>1, Parts DEF Filling
    <2> QED
        BY <2>1, <2>2
<1>9. \A w \in Workers : busy'[w] => slot'[w] = slot[w] /\ Lo(w)' = Lo(w) /\ Hi(w)' = Hi(w)
    BY <1>2, <1>4, <1>6 DEF Lo, Hi
<1>10. \A w \in Workers : \A r : Mine(w, r)' <=> Mine(w, r)
    BY <1>4, <1>9 DEF Mine
<1>11. Phase'
    BY <1>1, <1>4, <1>5 DEF Phase
<1>12. Work'
    BY <1>1, <1>4, <1>5, <1>9 DEF Work
<1>13. Counted'
    BY <1>1, <1>4, <1>5, <1>10 DEF Counted
<1>14. Apart'
    BY <1>1, <1>5, <1>10 DEF Apart
<1> QED
    BY <1>7, <1>8, <1>11, <1>12, <1>13, <1>14 DEF Inv

\* Publishing moves the rows of one chunk from the caller to the worker.
LEMMA PublishInv ==
    ASSUME Inv, Publish
    PROVE  Inv'
<1>0. /\ TypeOK /\ Place /\ Phase /\ Work /\ Counted /\ Apart
      /\ caller.pc = "filled" /\ caller.i <= caller.use
    BY DEF Inv, Publish, Place
<1>i. PICK i \in Workers : i = caller.i
    BY <1>0, Parts DEF Workers
<1>1. /\ TypeOK /\ Place /\ Phase /\ Work /\ Counted /\ Apart
      /\ caller.pc = "filled" /\ i <= caller.use /\ i = caller.i
    BY <1>0, <1>i
<1>2. ~busy[i] /\ at[i] \notin {"fetch", "run"}
    <2>1. ~busy[i]
        BY <1>1, Parts DEF Phase, Workers
    <2> QED
        BY <1>1, <2>1 DEF Work
<1>h. PICK h \in Nat : h = slot[i].hi
    BY <1>1, Parts DEF Job
<1>3. /\ slot[i].arg = calls /\ slot[i].lo = caller.cur
      /\ h \in Nat /\ h >= caller.cur /\ h <= caller.rows + 1 /\ h = slot[i].hi
    BY <1>1, <1>h, Parts DEF Inv, Filling
<1>4. /\ busy' = [busy EXCEPT ![i] = TRUE]
      /\ at' = [at EXCEPT ![i] = IF @ = "asleep" THEN "ready" ELSE @]
      /\ UNCHANGED <<threads, pool, calls, slot, job, times, spurious>>
    BY <1>1 DEF Publish, globals, Signalled
<1>5. /\ caller' \in Locals /\ caller'.pc = "dispatch"
      /\ caller'.cur = h /\ caller'.i = i + 1
      /\ caller'.rows = caller.rows /\ caller'.use = caller.use
    <2>1. /\ caller' = [caller EXCEPT !.pc = "dispatch", !.i = i + 1, !.cur = h]
          /\ caller \in Locals /\ "dispatch" \in CallerAt
        BY <1>1, <1>3 DEF Publish, TypeOK, CallerAt
    <2>2. i + 1 \in 1 .. PoolLimit + 1
        BY <1>1, Parts
    <2> QED
        BY <1>3, <2>1, <2>2 DEF Locals
<1>6. /\ busy' \in [Workers -> BOOLEAN] /\ at' \in [Workers -> WorkerAt]
      /\ busy'[i] /\ at'[i] \notin {"fetch", "run"}
      /\ \A w \in Workers \ {i} : (busy'[w] <=> busy[w]) /\ at'[w] = at[w]
    <2>1. busy \in [Workers -> BOOLEAN] /\ at \in [Workers -> WorkerAt]
        BY <1>1 DEF TypeOK
    <2>2. at' \in [Workers -> WorkerAt] /\ at'[i] \notin {"fetch", "run"}
        BY <1>2, <1>4, <2>1 DEF WorkerAt
    <2>3. busy' \in [Workers -> BOOLEAN] /\ busy'[i]
        BY <1>2, <1>4, <2>1
    <2> QED
        BY <1>4, <2>1, <2>2, <2>3
<1>7. /\ Lo(i)' = caller.cur /\ Hi(i)' = h
      /\ \A w \in Workers \ {i} : Lo(w)' = Lo(w) /\ Hi(w)' = Hi(w)
    BY <1>3, <1>4, <1>6 DEF Lo, Hi
<1>8. \A r : Mine(i, r)' <=> (caller.cur <= r /\ r < h)
    BY <1>6, <1>7 DEF Mine
<1>9. \A w \in Workers \ {i} : \A r : Mine(w, r)' <=> Mine(w, r)
    BY <1>6, <1>7 DEF Mine
<1>10. \A w \in Workers : \A r \in Nat : Mine(w, r) => r < caller.cur
    BY <1>1, Parts DEF Mine, Work
<1>11. \A r : ~Mine(i, r)
    BY <1>2 DEF Mine
<1>12. TypeOK'
    BY <1>1, <1>4, <1>5, <1>6 DEF TypeOK
<1>13. Place' /\ Filling'
    BY <1>1, <1>3, <1>5, Parts DEF Place, Filling
<1>14. Phase'
    <2> SUFFICES ASSUME NEW w \in Workers, busy'[w]
                 PROVE  w <= caller.use /\ w < i + 1
        BY <1>5 DEF Phase
    <2>1. CASE w = i
        BY <1>1, <2>1, Parts
    <2>2. CASE w # i
        <3>1. busy[w]
            BY <1>6, <2>2
        <3> QED
            BY <1>1, <3>1, Parts DEF Phase, Workers
    <2> QED
        BY <2>1, <2>2
<1>15. Work'
    <2> SUFFICES ASSUME NEW w \in Workers
                 PROVE  /\ at'[w] \in {"fetch", "run"} => busy'[w]
                        /\ busy'[w] => /\ slot'[w].arg = calls'
                                       /\ at'[w] = "run" => job'[w].arg = calls'
                                       /\ 1 <= Lo(w)' /\ Hi(w)' <= caller'.cur
        BY DEF Work
    <2>1. CASE w = i
        BY <1>1, <1>3, <1>4, <1>5, <1>6, <1>7, <2>1 DEF Place
    <2>2. CASE w # i
        <3>1. Hi(w) \in Nat /\ caller.cur \in Nat
            BY <1>1, Parts
        <3> QED
            BY <1>1, <1>3, <1>4, <1>5, <1>6, <1>7, <2>2, <3>1 DEF Work
    <2> QED
        BY <2>1, <2>2
<1>16. Counted'
    <2> SUFFICES ASSUME NEW r \in 1 .. caller.rows
                 PROVE  /\ times[r] \in {0, 1}
                        /\ r >= h => times[r] = 0
                        /\ r < h => (times[r] = 0 <=> \E w \in Workers : Mine(w, r)')
        BY <1>4, <1>5 DEF Counted
    <2>1. /\ times[r] \in {0, 1}
          /\ r >= caller.cur => times[r] = 0
          /\ r < caller.cur => (times[r] = 0 <=> \E w \in Workers : Mine(w, r))
        BY <1>1 DEF Counted
    <2>2. caller.cur \in Nat /\ r \in Nat
        BY <1>1, Parts
    <2>3. CASE r < caller.cur
        <3>1. ~Mine(i, r)'
            BY <1>8, <2>2, <2>3
        <3>2. (\E w \in Workers : Mine(w, r)') <=> (\E w \in Workers : Mine(w, r))
            BY <1>9, <1>11, <3>1
        <3> QED
            BY <1>3, <2>1, <2>2, <2>3, <3>2
    <2>4. CASE r >= caller.cur
        BY <1>2, <1>3, <1>8, <2>1, <2>2, <2>4
    <2> QED
        BY <2>2, <2>3, <2>4
<1>17. Apart'
    <2> SUFFICES ASSUME NEW v \in Workers, NEW w \in Workers, NEW r \in 1 .. caller.rows,
                        Mine(v, r)', Mine(w, r)'
                 PROVE  v = w
        BY <1>5 DEF Apart
    <2>1. caller.cur \in Nat /\ r \in Nat
        BY <1>1, Parts
    <2>2. CASE v = i /\ w # i
        BY <1>8, <1>9, <1>10, <2>1, <2>2
    <2>3. CASE v # i /\ w = i
        BY <1>8, <1>9, <1>10, <2>1, <2>3
    <2>4. CASE v # i /\ w # i
        BY <1>1, <1>9, <2>4 DEF Apart
    <2> QED
        BY <2>2, <2>3, <2>4
<1> QED
    BY <1>12, <1>13, <1>14, <1>15, <1>16, <1>17 DEF Inv

\* Steps that leave the workers and the rows alone
LEMMA LocalInv ==
    ASSUME Inv, Dispatched \/ OwnDone \/ Test \/ Block \/ Finish \/ CallerSpurious
    PROVE  Inv'
<1>1. TypeOK /\ Place /\ Phase /\ Work /\ Filling /\ Counted /\ Apart
    BY DEF Inv
<1>2. /\ UNCHANGED <<threads, pool, calls, slot, busy, at, job, times>>
      /\ spurious' \in Nat
    BY <1>1 DEF TypeOK, Dispatched, OwnDone, Test, Block, Finish, CallerSpurious, globals, workers
<1>3. /\ caller' \in Locals
      /\ caller'.cur = caller.cur
      /\ caller'.rows = caller.rows /\ caller'.use = caller.use
      /\ caller'.pc # "filled"
      /\ Place' /\ Phase'
    <2> DEFINE Only(p) == /\ caller' \in Locals /\ caller'.pc = p
                          /\ caller'.cur = caller.cur /\ caller'.i = caller.i
                          /\ caller'.rows = caller.rows /\ caller'.use = caller.use
    <2>0. caller \in Locals
        BY <1>1 DEF TypeOK
    <2>1. CASE Dispatched
        <3>1. Only("own") /\ caller.pc = "dispatch" /\ ~More
            BY <2>0, <2>1, NewPc DEF Dispatched, CallerAt
        <3> QED
            BY <1>1, <1>2, <3>1 DEF Place, Phase
    <2>2. CASE OwnDone
        <3>1. /\ caller' \in Locals /\ caller'.pc = "join" /\ caller'.i = 1
              /\ caller'.cur = caller.cur
              /\ caller'.rows = caller.rows /\ caller'.use = caller.use
              /\ caller.pc = "own" /\ caller.cur > caller.rows
            <4>1. /\ caller' = [caller EXCEPT !.pc = "join", !.i = 1]
                  /\ caller.pc = "own" /\ caller.cur > caller.rows
                BY <2>2 DEF OwnDone
            <4>2. 1 \in 1 .. PoolLimit + 1 /\ "join" \in CallerAt
                BY DEF CallerAt
            <4> QED
                BY <2>0, <4>1, <4>2 DEF Locals
        <3>2. Place'
            BY <1>1, <3>1, Parts DEF Place
        <3>3. Phase'
            BY <1>1, <1>2, <3>1 DEF Phase, Workers
        <3> QED
            BY <3>1, <3>2, <3>3
    <2>3. CASE Test
        <3>0. caller.pc = "join" /\ caller.i <= caller.use /\ caller.i \in Workers
            BY <1>1, <2>3, Parts DEF Test, Workers
        <3>1. CASE busy[caller.i]
            <4>1. Only("tested")
                BY <2>0, <2>3, <3>1, NewPc DEF Test, CallerAt
            <4> QED
                BY <1>1, <1>2, <3>0, <4>1 DEF Place, Phase
        <3>2. CASE ~busy[caller.i]
            <4>1. caller' = [caller EXCEPT !.i = @ + 1]
                BY <2>3, <3>2 DEF Test
            <4>2. caller.i + 1 \in 1 .. PoolLimit + 1
                BY <1>1, <3>0, Parts
            <4>3. /\ caller' \in Locals /\ caller'.pc = "join" /\ caller'.i = caller.i + 1
                  /\ caller'.cur = caller.cur
                  /\ caller'.rows = caller.rows /\ caller'.use = caller.use
                BY <2>0, <3>0, <4>1, <4>2 DEF Locals
            <4>4. Place'
                BY <1>1, <3>0, <4>3, Parts DEF Place
            <4>5. Phase'
                BY <1>1, <1>2, <3>0, <3>2, <4>3, Parts DEF Phase, Workers
            <4> QED
                BY <4>3, <4>4, <4>5
        <3> QED
            BY <3>1, <3>2
    <2>4. CASE Block
        <3>1. Only("asleep") /\ caller.pc = "tested"
            BY <2>0, <2>4, NewPc DEF Block, CallerAt
        <3> QED
            BY <1>1, <1>2, <3>1 DEF Place, Phase
    <2>5. CASE Finish
        <3>1. Only("idle") /\ caller.pc = "join" /\ caller.i > caller.use
            BY <2>0, <2>5, NewPc DEF Finish, CallerAt
        <3>2. Place'
            BY <1>1, <3>1 DEF Place
        <3>3. Phase'
            BY <1>1, <1>2, <3>1, Parts DEF Phase, Workers
        <3> QED
            BY <3>1, <3>2, <3>3
    <2>6. CASE CallerSpurious
        <3>1. Only("join") /\ caller.pc = "asleep"
            BY <2>0, <2>6, NewPc DEF CallerSpurious, Woken, CallerAt
        <3> QED
            BY <1>1, <1>2, <3>1 DEF Place, Phase
    <2> QED
        BY <2>1, <2>2, <2>3, <2>4, <2>5, <2>6
<1>4. TypeOK'
    BY <1>1, <1>2, <1>3 DEF TypeOK
<1>5. Filling'
    BY <1>3 DEF Filling
<1>6. \A w : Lo(w)' = Lo(w) /\ Hi(w)' = Hi(w) /\ \A r : Mine(w, r)' <=> Mine(w, r)
    BY <1>2 DEF Lo, Hi, Mine
<1>7. Work'
    BY <1>1, <1>2, <1>3, <1>6 DEF Work
<1>8. Counted'
    BY <1>1, <1>2, <1>3, <1>6 DEF Counted
<1>9. Apart'
    BY <1>1, <1>3, <1>6 DEF Apart
<1> QED
    BY <1>3, <1>4, <1>5, <1>7, <1>8, <1>9 DEF Inv

LEMMA OwnRowInv ==
    ASSUME Inv, OwnRow
    PROVE  /\ Inv'
           /\ caller.cur \in 1 .. caller.rows /\ times[caller.cur] = 0
           /\ times' = [times EXCEPT ![caller.cur] = 1]
<1>1. /\ TypeOK /\ Place /\ Phase /\ Work /\ Filling /\ Counted /\ Apart
      /\ caller.pc = "own" /\ caller.cur <= caller.rows
    BY DEF Inv, OwnRow
<1>2. PICK c \in 1 .. caller.rows : c = caller.cur
    BY <1>1, Parts DEF Place
<1>3. times[c] = 0 /\ times \in [1 .. caller.rows -> Nat]
    BY <1>1, <1>2 DEF Counted, TypeOK
<1>4. /\ times' = [times EXCEPT ![c] = 1]
      /\ UNCHANGED <<threads, pool, calls, slot, busy, at, job, spurious>>
    BY <1>2, <1>3 DEF OwnRow, Computed, globals, workers
<1>5. /\ caller' \in Locals /\ caller'.pc = "own"
      /\ caller'.cur = c + 1 /\ caller'.i = caller.i
      /\ caller'.rows = caller.rows /\ caller'.use = caller.use
    <2>1. caller' = [caller EXCEPT !.cur = c + 1] /\ caller \in Locals
        BY <1>1, <1>2 DEF OwnRow, TypeOK
    <2>2. c + 1 \in Nat
        BY <1>1, <1>2, Parts
    <2> QED
        BY <1>1, <2>1, <2>2 DEF Locals
<1>6. TypeOK'
    <2>1. times' \in [1 .. caller.rows -> Nat]
        BY <1>2, <1>3, <1>4
    <2> QED
        BY <1>1, <1>4, <1>5, <2>1 DEF TypeOK
<1>7. Place' /\ Filling'
    BY <1>1, <1>2, <1>5, Parts DEF Place, Filling
<1>8. \A w : Lo(w)' = Lo(w) /\ Hi(w)' = Hi(w) /\ \A r : Mine(w, r)' <=> Mine(w, r)
    BY <1>4 DEF Lo, Hi, Mine
<1>9. Phase'
    BY <1>1, <1>4, <1>5 DEF Phase
<1>10. Work'
    <2>1. \A w \in Workers : Hi(w) \in Nat
        BY <1>1, Parts
    <2> QED
        BY <1>1, <1>2, <1>4, <1>5, <1>8, <2>1 DEF Work
<1>11. \A w \in Workers : ~Mine(w, c)
    BY <1>1, <1>2, Parts DEF Mine, Work
<1>12. Counted'
    <2> SUFFICES ASSUME NEW r \in 1 .. caller.rows
                 PROVE  /\ times'[r] \in {0, 1}
                        /\ r >= c + 1 => times'[r] = 0
                        /\ r < c + 1 => (times'[r] = 0 <=> \E w \in Workers : Mine(w, r)')
        BY <1>5 DEF Counted
    <2>1. /\ times[r] \in {0, 1}
          /\ r >= c => times[r] = 0
          /\ r < c => (times[r] = 0 <=> \E w \in Workers : Mine(w, r))
        BY <1>1, <1>2 DEF Counted
    <2>2. CASE r = c
        <3>1. times'[r] = 1
            BY <1>3, <1>4, <2>2
        <3>2. ~\E w \in Workers : Mine(w, r)'
            BY <1>8, <1>11, <2>2
        <3> QED
            BY <2>2, <3>1, <3>2
    <2>3. CASE r # c
        <3>1. times'[r] = times[r]
            BY <1>3, <1>4, <2>3
        <3>2. (\E w \in Workers : Mine(w, r)') <=> (\E w \in Workers : Mine(w, r))
            BY <1>8
        <3> QED
            BY <2>1, <2>3, <3>1, <3>2
    <2> QED
        BY <2>2, <2>3
<1>13. Apart'
    BY <1>1, <1>5, <1>8 DEF Apart
<1> QED
    BY <1>2, <1>3, <1>4, <1>6, <1>7, <1>9, <1>10, <1>12, <1>13 DEF Inv

-----------------------------------------------------------------------------
(***************************************************************************)
(* Steps of a worker.                                                      *)
(***************************************************************************)
LEMMA HandoverInv ==
    ASSUME Inv, NEW w \in Workers, Look(w) \/ WorkerSpurious(w) \/ Fetch(w) \/ Tell(w)
    PROVE  Inv'
<1>1. TypeOK /\ Place /\ Phase /\ Work /\ Filling /\ Counted /\ Apart
    BY DEF Inv
<1>2. /\ UNCHANGED <<threads, pool, calls, slot, busy, times>>
      /\ spurious' \in Nat
    BY <1>1 DEF TypeOK, Look, WorkerSpurious, Fetch, Tell, globals
<1>3. caller' = caller \/ (caller.pc = "asleep" /\ caller' = [caller EXCEPT !.pc = "join"])
    BY DEF Look, WorkerSpurious, Fetch, Tell, Woken
<1>4. /\ caller' \in Locals
      /\ caller'.cur = caller.cur /\ caller'.i = caller.i
      /\ caller'.rows = caller.rows /\ caller'.use = caller.use
      /\ caller'.pc = caller.pc \/ (caller.pc = "asleep" /\ caller'.pc = "join")
    <2>1. caller \in Locals /\ "join" \in CallerAt
        BY <1>1 DEF TypeOK, CallerAt
    <2> QED
        BY <1>3, <2>1, NewPc
<1>5. Place'
    BY <1>1, <1>4 DEF Place
<1>6. Phase'
    BY <1>1, <1>2, <1>4 DEF Phase
<1>7. Filling'
    BY <1>1, <1>2, <1>4 DEF Filling
<1>8. /\ at' \in [Workers -> WorkerAt] /\ job' \in [Workers -> Job]
      /\ \A v \in Workers :
            /\ at'[v] \in {"fetch", "run"} => busy[v]
            /\ busy[v] => /\ Lo(v)' = Lo(v) /\ Hi(v)' = Hi(v)
                          /\ at'[v] = "run" => job'[v].arg = calls
    <2>0. /\ at \in [Workers -> WorkerAt] /\ job \in [Workers -> Job]
          /\ slot \in [Workers -> Job]
        BY <1>1 DEF TypeOK
    <2>1. CASE Look(w)
        <3>1. /\ job' = job /\ at[w] = "ready"
              /\ at' = [at EXCEPT ![w] = IF busy[w] THEN "fetch" ELSE "asleep"]
            BY <2>1 DEF Look
        <3>2. at' \in [Workers -> WorkerAt]
            BY <2>0, <3>1 DEF WorkerAt
        <3> QED
            BY <1>1, <1>2, <2>0, <3>1, <3>2 DEF Work, Lo, Hi
    <2>2. CASE WorkerSpurious(w)
        <3>1. job' = job /\ at[w] = "asleep" /\ at' = [at EXCEPT ![w] = "ready"]
            BY <2>2 DEF WorkerSpurious
        <3>2. at' \in [Workers -> WorkerAt]
            BY <2>0, <3>1 DEF WorkerAt
        <3> QED
            BY <1>1, <1>2, <2>0, <3>1, <3>2 DEF Work, Lo, Hi
    <2>3. CASE Fetch(w)
        <3>1. /\ job' = [job EXCEPT ![w] = slot[w]]
              /\ at[w] = "fetch" /\ at' = [at EXCEPT ![w] = "run"]
            BY <2>3 DEF Fetch
        <3>2. at' \in [Workers -> WorkerAt] /\ job' \in [Workers -> Job]
            BY <2>0, <3>1 DEF WorkerAt
        <3> QED
            BY <1>1, <1>2, <2>0, <3>1, <3>2 DEF Work, Lo, Hi
    <2>4. CASE Tell(w)
        <3>1. job' = job /\ at[w] = "tell" /\ at' = [at EXCEPT ![w] = "ready"]
            BY <2>4 DEF Tell
        <3>2. at' \in [Workers -> WorkerAt]
            BY <2>0, <3>1 DEF WorkerAt
        <3> QED
            BY <1>1, <1>2, <2>0, <3>1, <3>2 DEF Work, Lo, Hi
    <2> QED
        BY <2>1, <2>2, <2>3, <2>4
<1>9. TypeOK'
    BY <1>1, <1>2, <1>4, <1>8 DEF TypeOK
<1>10. \A v \in Workers : \A r : Mine(v, r)' <=> Mine(v, r)
    BY <1>2, <1>8 DEF Mine
<1>11. Work'
    BY <1>1, <1>2, <1>4, <1>8 DEF Work
<1>12. Counted'
    BY <1>1, <1>2, <1>4, <1>10 DEF Counted
<1>13. Apart'
    BY <1>1, <1>4, <1>10 DEF Apart
<1> QED
    BY <1>5, <1>6, <1>7, <1>9, <1>11, <1>12, <1>13 DEF Inv

LEMMA RowInv ==
    ASSUME Inv, NEW w \in Workers, Row(w)
    PROVE  /\ Inv'
           /\ job[w].lo \in 1 .. caller.rows /\ times[job[w].lo] = 0
           /\ times' = [times EXCEPT ![job[w].lo] = 1]
<1>1. /\ TypeOK /\ Place /\ Phase /\ Work /\ Filling /\ Counted /\ Apart
      /\ at[w] = "run" /\ busy[w] /\ job[w].arg = calls /\ job[w].lo < job[w].hi
    BY DEF Inv, Work, Row
<1>2. PICK q \in 1 .. caller.rows : q = job[w].lo /\ q < caller.cur /\ q < job[w].hi
    <2>1. Lo(w) = job[w].lo /\ Hi(w) = job[w].hi
        BY <1>1 DEF Lo, Hi
    <2>2. 1 <= job[w].lo /\ job[w].hi <= caller.cur /\ job[w].lo \in Nat /\ job[w].hi \in Nat
        BY <1>1, <2>1, Parts DEF Work
    <2> QED
        BY <1>1, <2>2, Parts DEF Place
<1>3. Mine(w, q)
    BY <1>1, <1>2 DEF Mine, Lo, Hi
<1>4. times[q] = 0 /\ times \in [1 .. caller.rows -> Nat]
    BY <1>1, <1>2, <1>3 DEF TypeOK, Counted
<1>5. /\ times' = [times EXCEPT ![q] = 1]
      /\ job' = [job EXCEPT ![w].lo = q + 1]
      /\ UNCHANGED <<threads, pool, calls, caller, slot, busy, at, spurious>>
    BY <1>1, <1>2, <1>4 DEF Row, Computed, globals
<1>6. /\ job' \in [Workers -> Job]
      /\ job'[w].lo = q + 1 /\ job'[w].hi = job[w].hi /\ job'[w].arg = job[w].arg
      /\ \A v \in Workers \ {w} : job'[v] = job[v]
    <2>1. job \in [Workers -> Job]
        BY <1>1 DEF TypeOK
    <2> QED
        BY <1>5, <2>1 DEF Job
<1>7. /\ Lo(w)' = q + 1 /\ Hi(w)' = job[w].hi
      /\ \A v \in Workers \ {w} : Lo(v)' = Lo(v) /\ Hi(v)' = Hi(v)
    BY <1>1, <1>5, <1>6 DEF Lo, Hi
<1>8. TypeOK'
    <2>1. times' \in [1 .. caller.rows -> Nat]
        BY <1>4, <1>5
    <2> QED
        BY <1>1, <1>5, <1>6, <2>1 DEF TypeOK
<1>9. Place' /\ Phase' /\ Filling'
    BY <1>1, <1>5 DEF Place, Phase, Filling
<1>10. Work'
    <2> SUFFICES ASSUME NEW v \in Workers
                 PROVE  /\ at[v] \in {"fetch", "run"} => busy[v]
                        /\ busy[v] => /\ slot[v].arg = calls
                                      /\ at[v] = "run" => job'[v].arg = calls
                                      /\ 1 <= Lo(v)' /\ Hi(v)' <= caller.cur
        BY <1>5 DEF Work
    <2>1. CASE v = w
        BY <1>1, <1>2, <1>6, <1>7, <2>1 DEF Work, Hi
    <2>2. CASE v # w
        BY <1>1, <1>6, <1>7, <2>2 DEF Work
    <2> QED
        BY <2>1, <2>2
<1>11. \A v \in Workers : \A r \in 1 .. caller.rows : r # q => (Mine(v, r)' <=> Mine(v, r))
    <2> SUFFICES ASSUME NEW v \in Workers, NEW r \in 1 .. caller.rows, r # q
                 PROVE  Mine(v, r)' <=> Mine(v, r)
        OBVIOUS
    <2>1. CASE v = w
        <3>1. Mine(v, r)' <=> q + 1 <= r /\ r < job[w].hi
            BY <1>1, <1>5, <1>7, <2>1 DEF Mine
        <3>2. Mine(v, r) <=> q <= r /\ r < job[w].hi
            BY <1>1, <1>2, <2>1 DEF Mine, Lo, Hi
        <3> QED
            BY <3>1, <3>2
    <2>2. CASE v # w
        BY <1>5, <1>7, <2>2 DEF Mine
    <2> QED
        BY <2>1, <2>2
<1>12. \A v \in Workers : ~Mine(v, q)'
    <2> SUFFICES ASSUME NEW v \in Workers
                 PROVE  ~Mine(v, q)'
        OBVIOUS
    <2>1. CASE v = w
        BY <1>7, <2>1 DEF Mine
    <2>2. CASE v # w
        <3>1. ~Mine(v, q)
            BY <1>1, <1>3, <2>2 DEF Apart
        <3> QED
            BY <1>5, <1>7, <2>2, <3>1 DEF Mine
    <2> QED
        BY <2>1, <2>2
<1>13. Counted'
    <2> SUFFICES ASSUME NEW r \in 1 .. caller.rows
                 PROVE  /\ times'[r] \in {0, 1}
                        /\ r >= caller.cur => times'[r] = 0
                        /\ r < caller.cur => (times'[r] = 0 <=> \E v \in Workers : Mine(v, r)')
        BY <1>5 DEF Counted
    <2>1. CASE r = q
        <3>1. times'[r] = 1
            BY <1>4, <1>5, <2>1
        <3>2. ~\E v \in Workers : Mine(v, r)'
            BY <1>12, <2>1
        <3>3. ~(r >= caller.cur)
            BY <1>1, <1>2, <2>1, Parts
        <3> QED
            BY <3>1, <3>2, <3>3
    <2>2. CASE r # q
        <3>1. times'[r] = times[r]
            BY <1>4, <1>5, <2>2
        <3>2. (\E v \in Workers : Mine(v, r)') <=> (\E v \in Workers : Mine(v, r))
            BY <1>11, <2>2
        <3> QED
            BY <1>1, <3>1, <3>2 DEF Counted
    <2> QED
        BY <2>1, <2>2
<1>14. Apart'
    <2> SUFFICES ASSUME NEW u \in Workers, NEW v \in Workers, NEW r \in 1 .. caller.rows,
                        Mine(u, r)', Mine(v, r)'
                 PROVE  u = v
        BY <1>5 DEF Apart
    <2> QED
        BY <1>1, <1>11, <1>12 DEF Apart
<1> QED
    BY <1>2, <1>4, <1>5, <1>8, <1>9, <1>10, <1>13, <1>14 DEF Inv

LEMMA ClearInv ==
    ASSUME Inv, NEW w \in Workers, Clear(w)
    PROVE  Inv'
<1>1. /\ TypeOK /\ Place /\ Phase /\ Work /\ Filling /\ Counted /\ Apart
      /\ at[w] = "run" /\ job[w].lo >= job[w].hi
    BY DEF Inv, Clear
<1>2. /\ busy' = [busy EXCEPT ![w] = FALSE]
      /\ at' = [at EXCEPT ![w] = "tell"]
      /\ UNCHANGED <<threads, pool, calls, caller, slot, job, times, spurious>>
    BY DEF Clear, globals
<1>3. /\ busy' \in [Workers -> BOOLEAN] /\ at' \in [Workers -> WorkerAt]
      /\ ~busy'[w] /\ at'[w] = "tell"
      /\ \A v \in Workers \ {w} : (busy'[v] <=> busy[v]) /\ at'[v] = at[v]
    <2>1. busy \in [Workers -> BOOLEAN] /\ at \in [Workers -> WorkerAt]
        BY <1>1 DEF TypeOK
    <2>2. at' \in [Workers -> WorkerAt] /\ at'[w] = "tell"
        BY <1>2, <2>1 DEF WorkerAt
    <2>3. busy' \in [Workers -> BOOLEAN] /\ ~busy'[w]
        BY <1>2, <2>1
    <2> QED
        BY <1>2, <2>1, <2>2, <2>3
<1>4. \A v \in Workers \ {w} : Lo(v)' = Lo(v) /\ Hi(v)' = Hi(v)
    BY <1>2, <1>3 DEF Lo, Hi
<1>5. TypeOK'
    BY <1>1, <1>2, <1>3 DEF TypeOK
<1>6. Place' /\ Filling'
    BY <1>1, <1>2 DEF Place, Filling
<1>7. Phase'
    BY <1>1, <1>2, <1>3 DEF Phase
<1>8. Work'
    BY <1>1, <1>2, <1>3, <1>4 DEF Work
<1>9. \A v \in Workers : \A r \in 1 .. caller.rows : Mine(v, r)' <=> Mine(v, r)
    <2> SUFFICES ASSUME NEW v \in Workers, NEW r \in 1 .. caller.rows
                 PROVE  Mine(v, r)' <=> Mine(v, r)
        OBVIOUS
    <2>1. CASE v = w
        <3>1. ~Mine(v, r)'
            BY <1>3, <2>1 DEF Mine
        <3>2. job[w].lo \in Nat /\ job[w].hi \in Nat
            BY <1>1, Parts DEF Job
        <3>3. ~Mine(v, r)
            BY <1>1, <2>1, <3>2 DEF Mine, Lo, Hi
        <3> QED
            BY <3>1, <3>3
    <2>2. CASE v # w
        BY <1>3, <1>4, <2>2 DEF Mine
    <2> QED
        BY <2>1, <2>2
<1>10. Counted'
    BY <1>1, <1>2, <1>9 DEF Counted
<1>11. Apart'
    BY <1>1, <1>2, <1>9 DEF Apart
<1> QED
    BY <1>5, <1>6, <1>7, <1>8, <1>10, <1>11 DEF Inv

-----------------------------------------------------------------------------
LEMMA NextInv == Inv /\ [Next]_vars => Inv'
<1> SUFFICES ASSUME Inv, [Next]_vars
             PROVE  Inv'
    OBVIOUS
<1>1. CASE Fill
    BY <1>1, FillInv
<1>2. CASE Publish
    BY <1>2, PublishInv
<1>3. CASE OwnRow
    BY <1>3, OwnRowInv
<1>4. CASE Dispatched \/ OwnDone \/ Test \/ Block \/ Finish \/ CallerSpurious
    BY <1>4, LocalInv
<1>5. CASE \E n \in 1 .. MaxThreads : SetThreads(n)
    BY <1>5 DEF Inv, TypeOK, Place, Phase, Work, Filling, Counted, Apart, Mine, Lo, Hi,
                SetThreads, workers
<1>6. CASE \E n \in 1 .. MaxRows : Call(n)
    BY <1>6, CallInv
<1>7. ASSUME NEW w \in Workers, Worker(w) \/ WorkerSpurious(w)
      PROVE  Inv'
    BY <1>7, HandoverInv, RowInv, ClearInv DEF Worker
<1>8. CASE UNCHANGED vars
    BY <1>8 DEF Inv, TypeOK, Place, Phase, Work, Filling, Counted, Apart, Mine, Lo, Hi,
                vars
<1> QED
    BY <1>1, <1>2, <1>3, <1>4, <1>5, <1>6, <1>7, <1>8 DEF Next, Caller, Outside

LEMMA ContextFollows == Inv => ContextIsLive
<1> SUFFICES ASSUME Inv, NEW w \in Workers
             PROVE  /\ at[w] = "fetch" => slot[w].arg = calls /\ ~(Held(w) /\ caller.pc = "filled")
                    /\ at[w] = "run" => job[w].arg = calls
                    /\ at[w] \in {"fetch", "run"} => caller.pc # "idle"
    BY DEF ContextIsLive
<1>1. at[w] \in {"fetch", "run"} => busy[w]
    BY DEF Inv, Work
<1>2. busy[w] => /\ slot[w].arg = calls /\ (at[w] = "run" => job[w].arg = calls)
                 /\ caller.pc # "idle" /\ (caller.pc = "filled" => w < caller.i)
    BY DEF Inv, Work, Phase
<1>3. Held(w) => w = caller.i
    BY DEF Held
<1>4. ~(w < w)
    BY DEF Workers
<1> QED
    BY <1>1, <1>2, <1>3, <1>4

LEMMA RowsFollow == Inv => EachRowOnce
<1> SUFFICES ASSUME Inv, NEW r \in 1 .. caller.rows
             PROVE  times[r] <= 1 /\ (caller.pc = "idle" => times[r] = 1)
    BY DEF EachRowOnce
<1>1. times[r] \in {0, 1}
    BY DEF Inv, Counted
<1>2. ASSUME caller.pc = "idle"
      PROVE  times[r] = 1
    <2>1. r < caller.cur
        BY <1>2, Parts DEF Inv, Place
    <2>2. ~\E w \in Workers : Mine(w, r)
        BY <1>2 DEF Inv, Phase, Mine
    <2> QED
        BY <1>1, <2>1, <2>2 DEF Inv, Counted
<1> QED
    BY <1>1, <1>2

\* The invariant holds in every state, for every size of the pool and every
\* number of rows and calls.
THEOREM Safety == Spec => []Inv
BY InitInv, NextInv, PTL DEF Spec

\* Every variable has a value of its type.
THEOREM PoolTypes == Spec => []TypeOK
<1>1. Inv => TypeOK
    BY DEF Inv
<1> QED
    BY <1>1, Safety, PTL

\* worker_thread never runs fn with the context of a call that has returned,
\* and never reads a slot that is being written.
THEOREM ContextsLive == Spec => []ContextIsLive
BY ContextFollows, Safety, PTL

\* parallel_for computes each row exactly once before it returns, however the
\* rows are cut into chunks.
THEOREM RowsOnce == Spec => []EachRowOnce
BY RowsFollow, Safety, PTL

-----------------------------------------------------------------------------
(***************************************************************************)
(* The pool implements ForkJoin.                                           *)
(***************************************************************************)
LEMMA InitPromise == Init => Promise!FInit
BY DEF Init, Promise!FInit

\* A step that changes neither whether a call is open nor the rows
LEMMA Silent ==
    ASSUME UNCHANGED times, (caller'.pc = "idle") <=> (caller.pc = "idle")
    PROVE  UNCHANGED Promise!fvars
BY DEF Promise!fvars

LEMMA StepPromise == Inv /\ [Next]_vars => [Promise!FNext]_(Promise!fvars)
<1> SUFFICES ASSUME Inv, [Next]_vars
             PROVE  [Promise!FNext]_(Promise!fvars)
    OBVIOUS
<1>0. caller \in Locals /\ times \in [1 .. caller.rows -> Nat]
    BY DEF Inv, TypeOK
<1>1. ASSUME NEW n \in 1 .. MaxRows, Call(n)
      PROVE  Promise!Begin
    <2>1. caller.pc = "idle" /\ caller'.pc # "idle" /\ times' = [r \in 1 .. n |-> 0]
        BY <1>1 DEF Call
    <2> QED
        BY <2>1 DEF Promise!Begin
<1>2. ASSUME NEW q \in 1 .. caller.rows, times[q] = 0, times' = [times EXCEPT ![q] = 1],
             caller.pc # "idle", caller'.pc # "idle"
      PROVE  Promise!Compute(q) /\ q \in 1 .. MaxRows
    <2>1. q \in DOMAIN times
        BY <1>0, <1>2
    <2>2. q \in 1 .. MaxRows
        BY Parts DEF Inv, Place
    <2> QED
        BY <1>2, <2>1, <2>2 DEF Promise!Compute
<1>3. CASE OwnRow
    <2>1. caller.pc # "idle" /\ caller'.pc # "idle"
        BY <1>0, <1>3 DEF OwnRow, Locals
    <2> QED
        BY <1>2, <1>3, <2>1, OwnRowInv DEF Promise!FNext
<1>4. ASSUME NEW w \in Workers, Row(w)
      PROVE  Promise!FNext
    <2>1. caller.pc # "idle" /\ caller'.pc # "idle"
        BY <1>4, ContextFollows DEF ContextIsLive, Row
    <2> QED
        BY <1>2, <1>4, <2>1, RowInv DEF Promise!FNext
<1>5. CASE Finish
    <2>1. caller.pc # "idle" /\ caller'.pc = "idle" /\ UNCHANGED times /\ caller'.rows = caller.rows
        BY <1>0, <1>5 DEF Finish, Locals
    <2>2. \A r \in 1 .. caller.rows : times[r] = 1
        <3> SUFFICES ASSUME NEW r \in 1 .. caller.rows
                     PROVE  times[r] = 1
            OBVIOUS
        <3>1. caller.pc = "join" /\ caller.i > caller.use
            BY <1>5 DEF Finish
        <3>2. r < caller.cur
            BY <3>1, Parts DEF Inv, Place
        <3>3. \A w \in Workers : ~busy[w]
            BY <3>1, Parts DEF Inv, Phase, Workers
        <3> QED
            BY <3>2, <3>3 DEF Inv, Counted, Mine
    <2>3. \A r \in DOMAIN times : times[r] = 1
        BY <1>0, <2>2
    <2> QED
        BY <2>1, <2>3 DEF Promise!Return, Promise!FNext
<1>6. CASE Fill \/ Publish \/ Dispatched \/ OwnDone \/ Test \/ Block \/ CallerSpurious
    <2>1. UNCHANGED times
        BY <1>6 DEF Fill, Publish, Dispatched, OwnDone, Test, Block, CallerSpurious
    <2>2. caller.pc # "idle" /\ caller'.pc # "idle"
        BY <1>0, <1>6 DEF Fill, Publish, Dispatched, OwnDone, Test, Block, CallerSpurious,
                          Woken, Locals
    <2> QED
        BY <2>1, <2>2, Silent
<1>7. ASSUME NEW w \in Workers, Look(w) \/ Fetch(w) \/ Clear(w) \/ Tell(w) \/ WorkerSpurious(w)
      PROVE  UNCHANGED Promise!fvars
    <2>1. UNCHANGED times
        BY <1>7 DEF Look, Fetch, Clear, Tell, WorkerSpurious
    <2>2. (caller'.pc = "idle") <=> (caller.pc = "idle")
        BY <1>0, <1>7 DEF Look, Fetch, Clear, Tell, WorkerSpurious, Woken, Locals
    <2> QED
        BY <2>1, <2>2, Silent
<1>8. CASE \E n \in 1 .. MaxThreads : SetThreads(n)
    BY <1>8, Silent DEF SetThreads
<1>9. CASE UNCHANGED vars
    BY <1>9, Silent DEF vars
<1> QED
    BY <1>1, <1>3, <1>4, <1>5, <1>6, <1>7, <1>8, <1>9
       DEF Next, Caller, Outside, Worker, Promise!FNext

\* The pool keeps the safety part of what a caller of parallel_for is
\* promised: rows are computed once each, during the call, and all of them.
THEOREM Implements == Spec => Promise!FSafety
BY InitPromise, StepPromise, Safety, PTL DEF Spec, Promise!FSafety

=============================================================================
