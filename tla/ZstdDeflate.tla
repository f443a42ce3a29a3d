----------------------------- MODULE ZstdDeflate -----------------------------
(***************************************************************************)
(* The zstd adapter's compressing side: deflateInitCB_zstd, deflateCB_zstd *)
(* with zstd_deflate under it, deflateResetCB_zstd and deflateEndCB_zstd,  *)
(* over an external model of libzstd's streaming compressor.               *)
(*                                                                         *)
(* libzstd takes a buffer, its size and a position in it.  The adapter     *)
(* keeps those positions in ctx->in and ctx->out from call to call, sets   *)
(* the buffers anew from the caller's pointers at each, and moves the      *)
(* pointers only once, by the whole positions, when the stream ends.  So   *)
(* the byte that is read next is at next_in + in.pos, and a grant of the   *)
(* caller's raises in.size when the last one is used up.                   *)
(*                                                                         *)
(* Data is abstracted to positions as in Bzip2Deflate: a byte of input     *)
(* becomes a byte of output, held back for as long as the library likes,   *)
(* and ending the frame adds EpilogueLen bytes.                            *)
(***************************************************************************)
EXTENDS ZStream

CONSTANTS SrcLen,       \* bytes the caller has to compress
          DstLen,       \* bytes of its output buffer
          EpilogueLen,  \* bytes libzstd adds when it ends the frame
          MaxGrant      \* the most a caller grants in one call

ASSUME SrcLenAssumption   == SrcLen \in Nat
ASSUME EpilogueAssumption == EpilogueLen \in Nat \ {0}
ASSUME DstLenAssumption   == DstLen \in Nat /\ DstLen >= SrcLen + EpilogueLen
ASSUME MaxGrantAssumption == MaxGrant \in Nat /\ MaxGrant >= SrcLen /\ MaxGrant > 0

VARIABLES strm,    \* the caller's unizip_stream
          ctx,     \* ctx->in and ctx->out, and the compressor behind zcstream
          status,  \* what the last call returned
          fin      \* the caller has asked for Z_FINISH

vars == <<strm, ctx, status, fin>>

\* ctx->ud is NULL; a frame is open; the frame has been ended.
Modes == {"none", "open", "ended"}

Ctxs == [mode : Modes, in_pos : 0 .. SrcLen, in_size : 0 .. SrcLen,
         out_pos : 0 .. SrcLen + EpilogueLen, out_size : 0 .. DstLen]

\* zstd_allocate and zstd_deflateInit.
FreshCtx(mode) ==
    [mode |-> mode, in_pos |-> 0, in_size |-> 0, out_pos |-> 0, out_size |-> 0]

-----------------------------------------------------------------------------
(***************************************************************************)
(* libzstd, as the adapter uses it (external).                             *)
(***************************************************************************)

Moved(c, u, p) ==
    [mode |-> c.mode, in_pos |-> c.in_pos + u, in_size |-> c.in_size,
     out_pos |-> c.out_pos + p, out_size |-> c.out_size]

\* Bytes not yet written of what was read.
Held(c) == c.in_pos - c.out_pos

\* ZSTD_compressStream reads all that it is given unless its output is full.
MayCompress(c, u, p) ==
    /\ u \in 0 .. c.in_size - c.in_pos
    /\ p \in 0 .. c.out_size - c.out_pos
    /\ Held(Moved(c, u, p)) >= 0
    /\ \/ u = c.in_size - c.in_pos
       \/ p = c.out_size - c.out_pos /\ Held(Moved(c, u, p)) > 0

\* ZSTD_endStream takes no input; it writes all that there is room for of
\* what is held and of the epilogue, and returns what remains.
Remaining(c, p) == Held(c) + EpilogueLen - p
MayEnd(c, p) ==
    /\ p \in 0 .. c.out_size - c.out_pos
    /\ Remaining(c, p) >= 0
    /\ Remaining(c, p) = 0 \/ p = c.out_size - c.out_pos

-----------------------------------------------------------------------------
(***************************************************************************)
(* The adapter.                                                            *)
(***************************************************************************)

\* Mutants: every finish takes a grant of input as well; room is granted once.
Loaded_anyFinish(g, c, ending) ==
    [mode |-> c.mode, in_pos |-> c.in_pos, out_pos |-> c.out_pos,
     in_size  |-> IF c.in_size <= c.in_pos THEN c.in_size + g.avail_in ELSE c.in_size,
     out_size |-> IF c.out_size <= c.out_pos
                  THEN c.out_size + g.avail_out ELSE c.out_size]
Loaded_noOutput(g, c, ending) ==
    [Loaded_anyFinish(g, c, ending) EXCEPT
        !.out_size = IF c.out_size = 0 THEN g.avail_out ELSE c.out_size,
        !.in_size = IF ending THEN c.in_size ELSE @]

\* The caller's grants are added when the last ones are used up; for a finish
\* the input only if it is the stream's very first call.
Loaded(g, c, ending) ==
    LET first == c.in_pos = 0 /\ c.in_size = 0 /\ c.out_pos = 0 /\ c.out_size = 0
    IN  [mode |-> c.mode, in_pos |-> c.in_pos, out_pos |-> c.out_pos,
         in_size  |-> IF c.in_size <= c.in_pos /\ (~ending \/ first)
                      THEN c.in_size + g.avail_in ELSE c.in_size,
         out_size |-> IF c.out_size <= c.out_pos
                      THEN c.out_size + g.avail_out ELSE c.out_size]

\* Mutant: the pointers are moved by every call, the positions kept.
Counted_everyCall(g, c, u, p, ended) ==
    [next_in  |-> g.next_in + u,   avail_in  |-> g.avail_in,
     total_in |-> g.total_in + u,  next_out  |-> g.next_out + p,
     avail_out |-> g.avail_out, total_out |-> g.total_out + p]
\* The totals follow the positions; the pointers only at the end.
Counted(g, c, u, p, ended) ==
    [next_in  |-> IF ended THEN g.next_in + c.in_pos ELSE g.next_in,
     avail_in |-> g.avail_in, total_in |-> g.total_in + u,
     next_out |-> IF ended THEN g.next_out + c.out_pos ELSE g.next_out,
     avail_out |-> g.avail_out, total_out |-> g.total_out + p]

\* Mutant: a finish that did not fail is the end.
Ended_always(remaining) == TRUE

\* zstd_deflate's last test, on what ZSTD_endStream returned.
Ended(remaining) == remaining = 0

Worked(g, c, u, p, ended) ==
    /\ ctx' = [Moved(c, u, p) EXCEPT !.mode = IF ended THEN "ended" ELSE c.mode]
    /\ strm' = Counted(g, Moved(c, u, p), u, p, ended)
    /\ status' = IF ended THEN UNIZIP_STREAM_END ELSE UNIZIP_OK

\* The library failed: the sizes are what Loaded made them, nothing moved.
Broke(g, c) ==
    /\ ctx' = c
    /\ strm' = g
    /\ status' \in {UNIZIP_DATA_ERROR, UNIZIP_MEM_ERROR}

\* deflateCB_zstd on the granted stream g.
deflateCB_zstd(g, flush) ==
    /\ ctx.mode = "open"
    /\ LET ending == flush = Finish
           c == Loaded(g, ctx, ending)
       IN  \/ Broke(g, c)
           \/ /\ ~ending
              /\ \E u \in 0 .. c.in_size - c.in_pos, p \in 0 .. c.out_size - c.out_pos :
                    MayCompress(c, u, p) /\ Worked(g, c, u, p, FALSE)
           \/ /\ ending
              /\ \E p \in 0 .. c.out_size - c.out_pos :
                    MayEnd(c, p) /\ Worked(g, c, 0, p, Ended(Remaining(c, p)))

Renewed(mode, ret) ==
    /\ strm' = ResetStream
    /\ ctx' = FreshCtx(mode)
    /\ status' = ret
    /\ fin' = FALSE

\* deflateInitCB_zstd, with or without the memory for a ctx.
deflateInitCB_zstd ==
    /\ ctx.mode = "none"
    /\ Renewed("open", UNIZIP_OK) \/ Renewed("none", UNIZIP_MEM_ERROR)

\* deflateResetCB_zstd: resetZstd, zstd_deflateEnd, then a new ctx or NULL.
deflateResetCB_zstd ==
    /\ ctx.mode # "none"
    /\ Renewed("open", UNIZIP_OK) \/ Renewed("none", UNIZIP_MEM_ERROR)

deflateEndCB_zstd ==
    /\ ctx.mode # "none"
    /\ Renewed("none", UNIZIP_OK)

-----------------------------------------------------------------------------
(***************************************************************************)
(* The callers: test_DeflateSeg and test_DeflateAll, who set their buffers *)
(* once, count on the totals and finish with nothing left to read.         *)
(***************************************************************************)

Feed(n, m) ==
    /\ ~fin
    /\ n <= SrcLen - strm.total_in
    /\ m <= DstLen - strm.total_out
    /\ deflateCB_zstd(Grant(strm, n, m), NoFlush)
    /\ UNCHANGED fin

AskForEnd(m) ==
    /\ strm.total_in = SrcLen
    /\ m <= DstLen - strm.total_out
    /\ deflateCB_zstd(Grant(strm, strm.avail_in, m), Finish)
    /\ fin' = TRUE

Drive ==
    \E m \in 1 .. MaxGrant : \/ \E n \in 1 .. MaxGrant : Feed(n, m)
                             \/ AskForEnd(m)

Init ==
    /\ strm = ResetStream
    /\ ctx = FreshCtx("none")
    /\ status = UNIZIP_OK
    /\ fin = FALSE

Next == Drive \/ deflateInitCB_zstd \/ deflateResetCB_zstd \/ deflateEndCB_zstd

Spec == Init /\ [][Next]_vars

\* A caller that has a stream and can go on with it does so, and a call that can
\* succeed is not kept from it for ever.
FairSpec == Spec /\ WF_vars(Drive /\ status' >= UNIZIP_OK)

-----------------------------------------------------------------------------
(***************************************************************************)
(* What should hold.                                                       *)
(***************************************************************************)

TypeOK ==
    /\ strm \in Streams(SrcLen, DstLen, MaxGrant)
    /\ ctx \in Ctxs
    /\ status \in Status
    /\ fin \in BOOLEAN

\* The grants the library may still use lie inside the caller's buffers, as
\* seen from the caller's pointers (the stream not being ended).
InsideBuffers ==
    ctx.mode = "open" =>
        /\ strm.next_in + ctx.in_size <= SrcLen
        /\ strm.next_out + ctx.out_size <= DstLen

\* What total_in and total_out have counted lies behind the library's positions,
\* and once the stream has ended behind the caller's pointers.
ReadsOn ==
    /\ ctx.mode = "open" => /\ strm.total_in = strm.next_in + ctx.in_pos
                            /\ strm.total_out = strm.next_out + ctx.out_pos
    /\ ctx.mode = "ended" => /\ strm.total_in = strm.next_in
                             /\ strm.total_out = strm.next_out

\* Each call reads and writes on where the last one stopped, inside the caller's
\* buffers, although pointers and positions move at different times
\* (unizip_algorithm_zstd.c:162-186); the variables keep their types.
InOrder == TypeOK /\ InsideBuffers /\ ReadsOn

\* Bytes the caller has yet to see read, and bytes it has yet to see written.
ToGo == SrcLen - strm.total_in + SrcLen + EpilogueLen - strm.total_out

\* No call that did not fail is in vain, whatever grants are left from earlier
\* ones, failed ones among them: it brings the stream nearer to its end
\* (unizip_algorithm_zstd.c:158-189).
EachCallMoves == [][Drive => ToGo' < ToGo \/ status' < UNIZIP_OK]_vars

\* A caller that at some point only goes on with its stream if it has one, its
\* calls no longer failing, gets it to its end and stays there.
Ends == <>[][Drive /\ status' >= UNIZIP_OK]_vars
            => <>[](status = UNIZIP_STREAM_END \/ ctx.mode = "none")

Contract == INSTANCE ZContract WITH
                InLen  <- SrcLen,
                OutLen <- SrcLen + EpilogueLen,
                taken  <- strm.total_in,
                given  <- strm.total_out,
                ended  <- (status = UNIZIP_STREAM_END)

\* The adapter keeps the promise of a streaming compressor (ZContract).
KeepsContract == Contract!Spec

=============================================================================
