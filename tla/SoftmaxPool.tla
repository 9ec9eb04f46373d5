---------------------------- MODULE SoftmaxPool ----------------------------
(***************************************************************************)
(* The thread pool of src/inference/kernels/softmax/softmax_neon.c: one    *)
(* caller of parallel_for, and workers that each have a slot with a mutex, *)
(* two condition variables and an atomic busy flag.                        *)
(*                                                                         *)
(* Rows count from 1 here, a range is lo .. hi - 1. The context (arg) of a *)
(* call lives on the stack of the caller: it is named by the number of the *)
(* call. shutdown is never set by any code and is left out.                *)
(*                                                                         *)
(* A worker does nothing but hold the mutex in its two critical sections,  *)
(* so each is one step, taken when the caller does not hold it. The caller *)
(* holds it over several steps, since busy changes without it.             *)
(***************************************************************************)
EXTENDS Integers

CONSTANTS PoolLimit,    \* MAX_THREADS, 64 in the code
          MinRows,      \* 8 in the code: fewer rows are not worth a thread
          MaxRows,      \* bound: rows of a call
          MaxThreads,   \* bound: threads asked for
          MaxCalls,     \* bound: calls in a behaviour
          MaxSpurious   \* bound: spurious wakeups in a behaviour

ASSUME PoolAssumption ==
    /\ PoolLimit \in Nat \ {0} /\ MinRows \in Nat \ {0}
    /\ {MaxRows, MaxThreads, MaxCalls, MaxSpurious} \subseteq Nat

VARIABLES
    threads,    \* g_num_threads
    pool,       \* g_pool.num_workers, 0 before g_pool is initialized
    caller,     \* where the caller is in parallel_for, and its locals
    slot,       \* arg, start and end of each worker_t
    busy,       \* busy of each worker_t
    at,         \* where each worker is in worker_thread
    job,        \* the arguments of the fn a worker runs
    times,      \* (ghost) how often each row of the call has been computed
    calls,      \* number of calls so far, the name of the last context
    spurious    \* counts for MaxSpurious

vars == <<threads, pool, caller, slot, busy, at, job, times, calls, spurious>>
workers == <<slot, busy, at, job>>
globals == <<threads, pool, calls>>

Workers == 1 .. PoolLimit

Least(a, b) == IF a < b THEN a ELSE b

NoJob == [arg |-> 0, lo |-> 1, hi |-> 1]

-----------------------------------------------------------------------------
Init ==
    /\ threads \in 1 .. MaxThreads
    /\ pool = 0
    /\ caller = [pc |-> "idle", rows |-> 0, use |-> 0, chunk |-> 0, cur |-> 1, i |-> 1]
    /\ slot = [w \in Workers |-> NoJob]
    /\ busy = [w \in Workers |-> FALSE]
    /\ at = [w \in Workers |-> "none"]
    /\ job = [w \in Workers |-> NoJob]
    /\ times = <<>>
    /\ calls = 0
    /\ spurious = 0

\* The caller is between lock and unlock of the mutex of worker w.
Held(w) == caller.pc \in {"filled", "tested"} /\ caller.i = w

\* fn for one row of context c
Computed(c, r) == IF c = calls THEN [times EXCEPT ![r] = @ + 1] ELSE times

(***************************************************************************)
(* The caller                                                              *)
(***************************************************************************)
\* softmax_set_num_threads
SetThreads(n) ==
    /\ caller.pc = "idle"
    /\ threads' = n
    /\ UNCHANGED <<pool, caller, workers, times, calls, spurious>>

\* Slip: the size of the pool is forgotten.
UsedUnbounded(n, p) == Least(threads - 1, n - 1)

\* workers_to_use for n rows and p workers
Used(n, p) == Least(threads - 1, Least(p, n - 1))

\* parallel_for up to its first loop; init_thread_pool when it is needed
Call(n) ==
    /\ caller.pc = "idle" /\ calls < MaxCalls
    /\ calls' = calls + 1
    /\ times' = [r \in 1 .. n |-> 0]
    /\ IF n < MinRows \/ threads <= 1
       THEN /\ caller' = [pc |-> "own", rows |-> n, use |-> 0, chunk |-> 0, cur |-> 1, i |-> 1]
            /\ UNCHANGED <<pool, at>>
       ELSE LET size == IF pool = 0 THEN Least(threads, PoolLimit) ELSE pool
                use == Used(n, size)
            IN  /\ pool' = size
                /\ at' = [w \in Workers |->
                            IF pool = 0 /\ w <= size THEN "ready" ELSE at[w]]
                /\ caller' = [pc |-> "dispatch", rows |-> n, use |-> use,
                              chunk |-> (n + use) \div (use + 1), cur |-> 1, i |-> 1]
    /\ UNCHANGED <<threads, slot, busy, job, spurious>>

\* Another chunk is left for another worker.
More == caller.i <= caller.use /\ caller.cur <= caller.rows

\* worker_end
WorkerEnd == Least(caller.cur + caller.chunk, caller.rows + 1)

\* The dispatch loop: lock, and write fn, arg, start and end.
Fill ==
    /\ caller.pc = "dispatch" /\ More
    /\ slot' = [slot EXCEPT ![caller.i] =
                    [arg |-> calls, lo |-> caller.cur, hi |-> WorkerEnd]]
    /\ caller' = [caller EXCEPT !.pc = "filled"]
    /\ UNCHANGED <<globals, busy, at, job, times, spurious>>

\* pthread_cond_signal of cond: wakes worker w if it waits
Signalled(w) == [at EXCEPT ![w] = IF @ = "asleep" THEN "ready" ELSE @]

\* Set busy, signal, unlock.
Publish ==
    /\ caller.pc = "filled"
    /\ busy' = [busy EXCEPT ![caller.i] = TRUE]
    /\ at' = Signalled(caller.i)
    /\ caller' = [caller EXCEPT !.pc = "dispatch", !.i = @ + 1, !.cur = slot[caller.i].hi]
    /\ UNCHANGED <<globals, slot, job, times, spurious>>

\* Slip: the caller begins at the first row.
DispatchedAll ==
    /\ caller.pc = "dispatch" /\ ~More
    /\ caller' = [caller EXCEPT !.pc = "own", !.cur = 1]
    /\ UNCHANGED <<globals, workers, times, spurious>>

\* Every worker has its chunk; the caller takes what is left.
Dispatched ==
    /\ caller.pc = "dispatch" /\ ~More
    /\ caller' = [caller EXCEPT !.pc = "own"]
    /\ UNCHANGED <<globals, workers, times, spurious>>

OwnRow ==
    /\ caller.pc = "own" /\ caller.cur <= caller.rows
    /\ times' = Computed(calls, caller.cur)
    /\ caller' = [caller EXCEPT !.cur = @ + 1]
    /\ UNCHANGED <<globals, workers, spurious>>

OwnDone ==
    /\ caller.pc = "own" /\ caller.cur > caller.rows
    /\ caller' = [caller EXCEPT !.pc = "join", !.i = 1]
    /\ UNCHANGED <<globals, workers, times, spurious>>

\* The join loop: lock, and look at busy of worker i. busy is atomic and its
\* worker clears it without the mutex.
Test ==
    /\ caller.pc = "join" /\ caller.i <= caller.use
    /\ caller' = IF busy[caller.i] THEN [caller EXCEPT !.pc = "tested"]
                                   ELSE [caller EXCEPT !.i = @ + 1]
    /\ UNCHANGED <<globals, workers, times, spurious>>

\* pthread_cond_wait: unlocks and waits for done_cond
Block ==
    /\ caller.pc = "tested"
    /\ caller' = [caller EXCEPT !.pc = "asleep"]
    /\ UNCHANGED <<globals, workers, times, spurious>>

\* Slip: an if in the place of the while around pthread_cond_wait
WakeOnward == [caller EXCEPT !.pc = "join", !.i = @ + 1]

\* After pthread_cond_wait busy is tested again.
Woken == [caller EXCEPT !.pc = "join"]

CallerSpurious ==
    /\ caller.pc = "asleep" /\ spurious < MaxSpurious
    /\ caller' = Woken
    /\ spurious' = spurious + 1
    /\ UNCHANGED <<globals, workers, times>>

Finish ==
    /\ caller.pc = "join" /\ caller.i > caller.use
    /\ caller' = [caller EXCEPT !.pc = "idle"]
    /\ UNCHANGED <<globals, workers, times, spurious>>

(***************************************************************************)
(* Worker w                                                                *)
(***************************************************************************)
\* The loop around pthread_cond_wait, one pass under the mutex
Look(w) ==
    /\ at[w] = "ready" /\ ~Held(w)
    /\ at' = [at EXCEPT ![w] = IF busy[w] THEN "fetch" ELSE "asleep"]
    /\ UNCHANGED <<globals, caller, slot, busy, job, times, spurious>>

WorkerSpurious(w) ==
    /\ at[w] = "asleep" /\ spurious < MaxSpurious
    /\ at' = [at EXCEPT ![w] = "ready"]
    /\ spurious' = spurious + 1
    /\ UNCHANGED <<globals, caller, slot, busy, job, times>>

\* w->fn(w->arg, w->start, w->end): the slot is read without the mutex
Fetch(w) ==
    /\ at[w] = "fetch"
    /\ at' = [at EXCEPT ![w] = "run"]
    /\ job' = [job EXCEPT ![w] = slot[w]]
    /\ UNCHANGED <<globals, caller, slot, busy, times, spurious>>

Row(w) ==
    /\ at[w] = "run" /\ job[w].lo < job[w].hi
    /\ times' = Computed(job[w].arg, job[w].lo)
    /\ job' = [job EXCEPT ![w].lo = @ + 1]
    /\ UNCHANGED <<globals, caller, slot, busy, at, spurious>>

\* Slip: busy is cleared as soon as the arguments are taken.
ClearEarly(w) ==
    /\ at[w] = "run" /\ busy[w]
    /\ busy' = [busy EXCEPT ![w] = FALSE]
    /\ UNCHANGED <<globals, caller, slot, at, job, times, spurious>>

\* atomic_store(&w->busy, 0), without the mutex
Clear(w) ==
    /\ at[w] = "run" /\ job[w].lo >= job[w].hi
    /\ busy' = [busy EXCEPT ![w] = FALSE]
    /\ at' = [at EXCEPT ![w] = "tell"]
    /\ UNCHANGED <<globals, caller, slot, job, times, spurious>>

\* Slip: done_cond is signalled without the mutex.
TellUnlocked(w) ==
    /\ at[w] = "tell"
    /\ at' = [at EXCEPT ![w] = "ready"]
    /\ caller' = IF caller.pc = "asleep" /\ caller.i = w THEN Woken ELSE caller
    /\ UNCHANGED <<globals, slot, busy, job, times, spurious>>

\* Lock, signal done_cond, unlock.
Tell(w) ==
    /\ at[w] = "tell" /\ ~Held(w)
    /\ at' = [at EXCEPT ![w] = "ready"]
    /\ caller' = IF caller.pc = "asleep" /\ caller.i = w THEN Woken ELSE caller
    /\ UNCHANGED <<globals, slot, busy, job, times, spurious>>

-----------------------------------------------------------------------------
Caller == \/ Fill \/ Publish \/ Dispatched \/ OwnRow \/ OwnDone
          \/ Test \/ Block \/ Finish

Worker(w) == Look(w) \/ Fetch(w) \/ Row(w) \/ Clear(w) \/ Tell(w)

Outside == \/ \E n \in 1 .. MaxThreads : SetThreads(n)
           \/ \E n \in 1 .. MaxRows : Call(n)
           \/ CallerSpurious
           \/ \E w \in Workers : WorkerSpurious(w)

Next == Caller \/ Outside \/ \E w \in Workers : Worker(w)

\* The scheduler runs every thread that can run.
Spec == Init /\ [][Next]_vars
             /\ WF_vars(Caller) /\ \A w \in Workers : WF_vars(Worker(w))

-----------------------------------------------------------------------------
(***************************************************************************)
(* Properties                                                              *)
(***************************************************************************)
CallerAt == {"idle", "dispatch", "filled", "own", "join", "tested", "asleep"}
WorkerAt == {"none", "ready", "asleep", "fetch", "run", "tell"}
Locals == [pc : CallerAt, rows : Nat, use : 0 .. PoolLimit, chunk : Nat,
           cur : Nat, i : 1 .. PoolLimit + 1]
Job == [arg : Nat, lo : Nat, hi : Nat]

\* Every variable has a value of its type.
TypeOK ==
    /\ threads \in Nat
    /\ pool \in 0 .. PoolLimit
    /\ caller \in Locals
    /\ slot \in [Workers -> Job]
    /\ busy \in [Workers -> BOOLEAN]
    /\ at \in [Workers -> WorkerAt]
    /\ job \in [Workers -> Job]
    /\ times \in [1 .. caller.rows -> Nat]
    /\ calls \in Nat /\ spurious \in Nat

\* A worker between its look at busy and the end of fn works for the call in
\* progress: the context on the stack of the caller is there, and the slot it
\* reads without the mutex is not being written.
ContextIsLive ==
    \A w \in Workers :
        /\ at[w] = "fetch" => slot[w].arg = calls /\ ~(Held(w) /\ caller.pc = "filled")
        /\ at[w] = "run" => job[w].arg = calls
        /\ at[w] \in {"fetch", "run"} => caller.pc # "idle"

\* No row is computed twice, and when parallel_for has returned every row of
\* the call has been computed.
EachRowOnce ==
    /\ \A r \in 1 .. caller.rows : times[r] <= 1
    /\ caller.pc = "idle" => \A r \in 1 .. caller.rows : times[r] = 1

\* Every call returns: no wakeup is lost between the busy flag, which is
\* cleared without the mutex, and the condition variable.
CallsReturn == caller.pc # "idle" ~> caller.pc = "idle"

Promise == INSTANCE ForkJoin WITH open <- caller.pc # "idle"

\* The pool does what a caller of parallel_for is promised.
IsForkJoin == Promise!FSpec
=============================================================================
