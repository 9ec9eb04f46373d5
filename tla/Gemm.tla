-------------------------------- MODULE Gemm --------------------------------
(***************************************************************************)
(* C = A * B in the kernels of src/inference/kernels/gemm: which kernel a  *)
(* call is given to, how it cuts C into blocks and the rows among threads, *)
(* and what the threads write when they run side by side. An element of C  *)
(* is the row of A and the column of B it was computed from and the terms  *)
(* that were added. The kinds of a call are gemm_f32, gemm_bf16, gemm_f16  *)
(* and the two of amx_backend.c, which has its own dispatch.               *)
(***************************************************************************)
EXTENDS DotProduct

CONSTANTS
    Tile,  \* rows and columns of a NEON block, 8
    Panel,  \* columns of a block of the product with one row, 16
    AmxTile,  \* F16_TILE_M and F16_TILE_N; 16 stands for it in BF16_TILE
    MtRows, MtFlops,  \* MT_THRESHOLD_M, MT_THRESHOLD_FLOPS
    AmxFlops, FewTiles, SomeTiles, ManyTiles, JobsWanted,  \* the job sizes of the AMX kernel
    Sizes, Depths, Threads  \* bounds: <<M, N>>, K, num_threads

ASSUME GemmAssumption ==
    /\ {Tile, Panel, AmxTile, JobsWanted} \subseteq Nat \ {0}
    /\ {MtRows, MtFlops, AmxFlops, FewTiles, SomeTiles, ManyTiles} \subseteq Nat
    /\ Sizes \subseteq (Nat \ {0}) \X (Nat \ {0}) /\ Depths \subseteq Nat \ {0}
    /\ Threads \subseteq Nat

VARIABLES
    call,  \* the arguments, and the capabilities of the machine
    path,  \* the kernel that computes
    C,
    jobs,  \* per thread or job, its rows and the block that is next
    packed,  \* per job, the first row of what its copy of A (pack_a) holds
    z,  \* per job, its accumulator registers
    failed,  \* an allocation has failed
    pc

gemmVars == <<call, path, C, jobs, packed, z, failed, pc>>

Call == [kind : {"f32", "bf16", "f16", "amx16", "amx32"}, M : {s[1] : s \in Sizes},
         N : {s[2] : s \in Sizes}, K : Depths, threads : Threads,
         transposed : BOOLEAN, neon : BOOLEAN, amx : BOOLEAN]

Unwritten == [row |-> -1, col |-> -1, terms |-> <<>>]
Product(i, j) == [row |-> i, col |-> j, terms |-> Complete(call.K)]
Cells == (0 .. call.M - 1) \X (0 .. call.N - 1)
-----------------------------------------------------------------------------
Less(a, b) == IF a < b THEN a ELSE b
Ceil(a, b) == (a + b - 1) \div b

\* The rows [first, last) of the n parts of "rows" rows each, but those beyond M
Split(M, n, rows) ==
    {[first |-> t * rows, last |-> Less(t * rows + rows, M)] :
        t \in {u \in 0 .. n - 1 : u * rows < M}}

Whole(M) == {[first |-> 0, last |-> M]}

\* Slip: as many rows as threads come to, not rounded to the blocks' rows
SplitEven(M, threads, block) == Split(M, threads, M \div threads)

\* The rows of a thread are a multiple of the rows of a block.
SplitRounded(M, threads, block) ==
    Split(M, threads, block * Ceil(Ceil(M, threads), block))

\* No more threads than there are blocks of rows
NeonParts(M, threads) ==
    IF threads <= 1 \/ M < 2 * Tile THEN Whole(M)
    ELSE SplitRounded(M, Less(threads, M \div Tile), Tile)

gemm_f32_kernel_mt(c) == NeonParts(c.M, c.threads)
gemm_bf16_kernel_mt(c) == NeonParts(c.M, c.threads)
gemm_f16_kernel_mt(c) == NeonParts(c.M, c.threads)

gemm_bf16_kernel_amx_mt(c) ==
    IF c.threads <= 1 THEN Whole(c.M) ELSE SplitRounded(c.M, c.threads, AmxTile)

\* It is left to the system how many threads run the jobs.
gemm_f16_kernel_amx_mt(M, N, K) ==
    LET tiles == Ceil(M, AmxTile)
        each == IF tiles >= ManyTiles THEN 1
                ELSE IF tiles >= SomeTiles THEN 2
                ELSE Ceil(tiles, JobsWanted)
    IN  IF 2 * M * N * K < AmxFlops \/ tiles < FewTiles THEN Whole(M)
        ELSE Split(M, Ceil(tiles, each), each * AmxTile)

\* Which kernel each call chooses
NeonPath(c) == IF c.M = 1 THEN "row" ELSE "neon"
gemm_f32(c) == IF c.neon /\ ~c.transposed THEN NeonPath(c) ELSE "naive"
gemm_bf16(c) == IF c.neon THEN NeonPath(c) ELSE "naive"
gemm_f16(c) == IF c.amx /\ c.M >= AmxTile /\ c.N >= AmxTile THEN "amx16" ELSE gemm_bf16(c)
amx_gemm(c) == c.kind

Path(c) ==
    CASE c.kind = "f32" -> gemm_f32(c)
      [] c.kind = "bf16" -> gemm_bf16(c)
      [] c.kind = "f16" -> gemm_f16(c)
      [] OTHER -> amx_gemm(c)

\* amx_gemm asks for rows only, the others for a product that is worth it too.
Threaded(c) ==
    /\ c.threads > 1 /\ c.M >= MtRows
    /\ c.kind \in {"amx16", "amx32"} \/ 2 * c.M * c.N * c.K >= MtFlops

Parts(c) ==
    CASE ~Threaded(c) \/ Path(c) \in {"naive", "row"} -> Whole(c.M)
      [] Threaded(c) /\ Path(c) = "amx16" -> gemm_f16_kernel_amx_mt(c.M, c.N, c.K)
      [] Threaded(c) /\ Path(c) = "amx32" -> gemm_bf16_kernel_amx_mt(c)
      [] Threaded(c) /\ Path(c) = "neon" ->
            (CASE c.kind = "f32" -> gemm_f32_kernel_mt(c)
               [] c.kind = "bf16" -> gemm_bf16_kernel_mt(c)
               [] c.kind = "f16" -> gemm_f16_kernel_mt(c))

Amx == path \in {"amx16", "amx32"}
-----------------------------------------------------------------------------
(***************************************************************************)
(* A block begins at a row and a column and is cut off at the last column, *)
(* and at the end of the rows: those of the job in the NEON kernels, those *)
(* of the matrix in the AMX kernels.                                       *)
(***************************************************************************)
Height == CASE path \in {"naive", "row"} -> 1 [] path = "neon" -> Tile [] Amx -> AmxTile

Width(n) ==
    CASE path = "naive" -> 1
      [] path = "row" -> IF n + Panel <= call.N THEN Panel ELSE 1
      [] path = "neon" -> Tile
      [] Amx -> AmxTile

BlockRows(job) == job.m .. Less(job.m + Height, IF Amx THEN call.M ELSE job.last) - 1
BlockCols(job) == job.n .. Less(job.n + Width(job.n), call.N) - 1
Full(job) ==
    Cardinality(BlockRows(job)) = Height /\ Cardinality(BlockCols(job)) = Width(job.n)

\* The terms of the cells of a block: only a whole panel of the product with
\* one row, and a whole block, is computed with the unrolled loop.
Row(job) == IF Width(job.n) = Panel THEN Unrolled(call.K) ELSE Plain(call.K)
gemv_f32_neon(job) == Row(job)

Micro(job) == IF Full(job) THEN Unrolled(call.K) ELSE Plain(call.K)
micro_kernel_bf16_8x8_neon(job) == Micro(job)
micro_kernel_f16_8x8_neon(job) == Micro(job)

\* The single-precision block is added to C, which was cleared before.
micro_kernel_8x8_neon(job, cell) ==
    [t \in DOMAIN Micro(job) |-> Micro(job)[t] + C[cell].terms[t]]
-----------------------------------------------------------------------------
Init ==
    /\ call \in Call /\ <<call.M, call.N>> \in Sizes
    /\ call.kind \in {"amx16", "amx32"} => ~call.transposed
    /\ path = "none" /\ C = [cell \in Cells |-> Unwritten]
    /\ jobs = <<>> /\ packed = <<>> /\ z = <<>> /\ failed = FALSE /\ pc = "call"

Begun(part) == [first |-> part.first, last |-> part.last, m |-> part.first, n |-> 0]

Dispatch ==
    /\ pc = "call" /\ pc' = "run"
    /\ path' = Path(call)
    /\ jobs' = [p \in Parts(call) |-> Begun(p)]
    /\ packed' = [p \in Parts(call) |-> -1]
    /\ z' = [p \in Parts(call) |-> Stale(call.K)]
    /\ C' = IF call.kind = "f32"
            THEN [cell \in Cells |-> [Unwritten EXCEPT !.terms = Cleared(call.K)]]
            ELSE C
    /\ UNCHANGED <<call, failed>>

\* The buffers of the packed matrices cannot be had: the call returns at once.
DispatchFails ==
    /\ pc = "call"
    /\ \/ Path(call) = "amx16"
       \/ Path(call) = "amx32" /\ Parts(call) = Whole(call.M)
    /\ pc' = "done" /\ failed' = TRUE
    /\ UNCHANGED <<call, path, C, jobs, packed, z>>

Running(p) == pc = "run" /\ jobs[p].m < jobs[p].last
Alone == DOMAIN jobs = Whole(call.M)

\* One block, of rows that begin at "from" in A, and on to the next
Store(p, from, Terms(_)) ==
    LET job == jobs[p]
        n == job.n + Width(job.n)
    IN  /\ C' = [cell \in Cells |->
                    IF cell \in BlockRows(job) \X BlockCols(job)
                    THEN [row |-> from + (cell[1] - job.m), col |-> cell[2], terms |-> Terms(cell)]
                    ELSE C[cell]]
        /\ jobs' = [jobs EXCEPT ![p] = IF n < call.N THEN [job EXCEPT !.n = n]
                                       ELSE [job EXCEPT !.n = 0, !.m = job.m + Height]]
        /\ UNCHANGED <<call, path, packed, failed, pc>>

Computed(p, kind, where, Terms(_)) ==
    /\ Running(p) /\ call.kind = kind /\ path = where
    /\ Store(p, jobs[p].m, Terms)
    /\ UNCHANGED z

gemm_f32_naive(p) == Computed(p, "f32", "naive", LAMBDA cell : Plain(call.K))
gemm_bf16_naive(p) == Computed(p, "bf16", "naive", LAMBDA cell : Plain(call.K))
gemm_f16_naive(p) == Computed(p, "f16", "naive", LAMBDA cell : Plain(call.K))

gemm_f32_kernel(p) ==
    /\ Alone
    /\ \/ Computed(p, "f32", "row", LAMBDA cell : gemv_f32_neon(jobs[p]))
       \/ Computed(p, "f32", "neon", LAMBDA cell : micro_kernel_8x8_neon(jobs[p], cell))
gemm_bf16_kernel(p) ==
    /\ Alone
    /\ \/ Computed(p, "bf16", "row", LAMBDA cell : Row(jobs[p]))
       \/ Computed(p, "bf16", "neon", LAMBDA cell : micro_kernel_bf16_8x8_neon(jobs[p]))
gemm_f16_kernel(p) ==
    /\ Alone
    /\ \/ Computed(p, "f16", "row", LAMBDA cell : Row(jobs[p]))
       \/ Computed(p, "f16", "neon", LAMBDA cell : micro_kernel_f16_8x8_neon(jobs[p]))

gemm_f32_thread_fn(p) ==
    ~Alone /\ Computed(p, "f32", "neon", LAMBDA cell : micro_kernel_8x8_neon(jobs[p], cell))
gemm_bf16_thread_fn(p) ==
    ~Alone /\ Computed(p, "bf16", "neon", LAMBDA cell : micro_kernel_bf16_8x8_neon(jobs[p]))
gemm_f16_thread_fn(p) ==
    ~Alone /\ Computed(p, "f16", "neon", LAMBDA cell : micro_kernel_f16_8x8_neon(jobs[p]))

\* pack_a_f16, pack_a_bf16_to_f32: once for all the blocks of the same rows
Pack(p) ==
    /\ jobs[p].n = 0 /\ packed[p] # jobs[p].m
    /\ packed' = [packed EXCEPT ![p] = jobs[p].m]
    /\ UNCHANGED <<call, path, C, jobs, z, failed, pc>>

\* The job has no room for a copy of A: it ends, and nobody is told.
PackFails(p) ==
    /\ packed[p] = -1 /\ ~Alone
    /\ jobs' = [jobs EXCEPT ![p].m = jobs[p].last]
    /\ failed' = TRUE
    /\ UNCHANGED <<call, path, C, packed, z, pc>>

\* The registers hold the sums of the block before.
AmxBlock(p, Sum(_, _)) ==
    /\ packed[p] = jobs[p].m
    /\ Store(p, packed[p], LAMBDA cell : Sum(z[p], call.K))
    /\ z' = [z EXCEPT ![p] = Sum(@, call.K)]

gemm_f16_kernel_amx(p) ==
    Running(p) /\ path = "amx16" /\ Alone /\ (Pack(p) \/ AmxBlock(p, Pipelined))
gcd_f16_worker(p) ==
    Running(p) /\ path = "amx16" /\ ~Alone /\ (Pack(p) \/ PackFails(p) \/ AmxBlock(p, Pipelined))
gemm_bf16_kernel_amx(p) ==
    Running(p) /\ path = "amx32" /\ Alone /\ (Pack(p) \/ AmxBlock(p, Amx32))
bf16_mt_worker(p) ==
    Running(p) /\ path = "amx32" /\ ~Alone /\ (Pack(p) \/ PackFails(p) \/ AmxBlock(p, Amx32))

\* pthread_join, dispatch_apply
Join ==
    /\ pc = "run" /\ \A p \in DOMAIN jobs : jobs[p].m >= jobs[p].last
    /\ pc' = "done"
    /\ UNCHANGED <<call, path, C, jobs, packed, z, failed>>

Work(p) ==
    \/ gemm_f32_naive(p) \/ gemm_bf16_naive(p) \/ gemm_f16_naive(p)
    \/ gemm_f32_kernel(p) \/ gemm_bf16_kernel(p) \/ gemm_f16_kernel(p)
    \/ gemm_f32_thread_fn(p) \/ gemm_bf16_thread_fn(p) \/ gemm_f16_thread_fn(p)
    \/ gemm_f16_kernel_amx(p) \/ gcd_f16_worker(p)
    \/ gemm_bf16_kernel_amx(p) \/ bf16_mt_worker(p)

Next ==
    \/ Dispatch \/ DispatchFails \/ Join
    \/ pc = "run" /\ \E p \in DOMAIN jobs : Work(p)

Spec == Init /\ [][Next]_gemmVars
-----------------------------------------------------------------------------
\* The rows that a thread's block reaches are never another thread's, although
\* the blocks of the AMX kernels end at the end of the matrix and not of the job.
RowsApart ==
    \A p, q \in DOMAIN jobs :
        Running(p) /\ p # q => BlockRows(jobs[p]) \intersect (q.first .. q.last - 1) = {}

\* When the call is over, every element of C is the whole dot product of its
\* row and its column, whatever the sizes leave over at the edges of the blocks
\* and however the threads ran; only a failed allocation leaves elements as
\* they were.
ProductComplete ==
    pc = "done" => \A cell \in Cells :
        C[cell] = Product(cell[1], cell[2]) \/ (failed /\ C[cell] = Unwritten)
=============================================================================
