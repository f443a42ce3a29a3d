----------------------------- MODULE BlockCodecs -----------------------------
(***************************************************************************)
(* The adapters over libraries that know no streams: lz4 and snappy, both  *)
(* sides, and 7zip's compressing side.  A whole block is coded in one call *)
(* of the library; the adapter around it acts as a stream.                 *)
(*                                                                         *)
(* lz4 and snappy leave what is granted where it is until the call that    *)
(* codes all of it; 7zip says at once that it has read it, and written as  *)
(* much, but only remembers where it began.  One way of calling suits all  *)
(* three: add to avail_in what comes next, and ask for the end with        *)
(* nothing added when everything has been granted.  What the adapters      *)
(* differ in is what they leave of the caller's fields when a call fails,  *)
(* when it succeeds and when the stream is reset.                          *)
(*                                                                         *)
(* Data is abstracted to positions: `block' says what the library last     *)
(* put where.                                                              *)
(***************************************************************************)
EXTENDS ZStream

CONSTANTS InLen,     \* bytes the caller has to compress, or to decompress
          OutLen,    \* bytes of the other form
          PropsLen,  \* LZMA_PROPS_SIZE
          DstLen     \* bytes of the caller's output buffer

ASSUME InLenAssumption  == InLen \in Nat \ {0}
ASSUME OutLenAssumption == OutLen \in Nat /\ OutLen > InLen
ASSUME PropsAssumption  == PropsLen \in Nat \ {0}
ASSUME DstLenAssumption == DstLen \in Nat /\ DstLen >= OutLen + PropsLen

VARIABLES kind,    \* which adapter, and which side of it
          strm,    \* the caller's unizip_stream
          ctx,     \* strm->ud, and where 7zip's ctx->src and ctx->dest are
          block,   \* what the caller's output buffer holds
          status,  \* what the last call returned
          phase    \* how far the caller has got

vars == <<kind, strm, ctx, block, status, phase>>

Compressors   == {"lz4_deflate", "snappy_deflate", "zip7_deflate"}
Decompressors == {"lz4_inflate", "snappy_inflate"}
Kinds == Compressors \cup Decompressors

NULL == -1

\* `at' the place it begins at, `from' and `len' the input it is made from.
Blocks == [at : 0 .. DstLen, from : NULL .. InLen, len : 0 .. InLen]
NoBlock == [at |-> 0, from |-> 0, len |-> 0]

Ctx(open) == [open |-> open, src |-> NULL, dest |-> NULL]

-----------------------------------------------------------------------------
(***************************************************************************)
(* The libraries (external).                                               *)
(***************************************************************************)

\* Bytes the other form of n bytes takes.
Form(n) == OutLen - (InLen - n)

\* The other form of n bytes exists: anything can be compressed, but only a
\* complete block can be decompressed.
Codable(n) == kind \in Compressors \/ n = InLen

-----------------------------------------------------------------------------
(***************************************************************************)
(* The adapters.  Each is called on g, the stream as the caller passes it. *)
(***************************************************************************)

Settle(s, c, b, ret) == strm' = s /\ ctx' = c /\ block' = b /\ status' = ret

\* A grant that is not coded yet: lz4 and snappy touch nothing.
Leave(g, ret) == Settle(g, ctx, block, ret)

\* Mutant: total_in counts every attempt.
Lz4Fail_accumulates(g) ==
    [g EXCEPT !.total_in = g.total_in + g.avail_in, !.avail_in = 0]

\* What lz4_deflateprocess and lz4_inflateprocess leave when they fail: all
\* the input claimed, none of it coded, the pointers where they were.
Lz4Fail(g) == [g EXCEPT !.total_in = g.avail_in, !.avail_in = 0]

\* lz4_deflateprocess, lz4_inflateprocess, with as much room as avail_out says.
Lz4Process(g) ==
    LET n == g.avail_in
    IN  \/ /\ Codable(n) /\ Form(n) <= g.avail_out
           /\ Settle([next_in  |-> g.next_in + n,        avail_in  |-> 0,
                      next_out |-> g.next_out + Form(n), total_in  |-> n,
                      avail_out |-> g.avail_out - Form(n), total_out |-> Form(n)],
                     ctx, [at |-> g.next_out, from |-> g.next_in, len |-> n],
                     UNIZIP_STREAM_END)
        \/ /\ ~(Codable(n) /\ Form(n) <= g.avail_out)
           /\ Settle(Lz4Fail(g), ctx, NoBlock, UNIZIP_BUF_ERROR)

\* snappy_deflateprocess, snappy_inflateprocess: avail_out plays no part, the
\* pointers do not move, and success is OK.  Of an incomplete block not even
\* the length need be known, and total_out is what ctx->result happens to be.
SnappyProcess(g) ==
    LET n    == g.avail_in
        s(o) == [g EXCEPT !.total_in = n, !.avail_in = 0, !.total_out = o]
    IN  \/ /\ Codable(n)
           /\ Settle(s(Form(n)), ctx,
                     [at |-> g.next_out, from |-> g.next_in, len |-> n], UNIZIP_OK)
        \/ /\ ~Codable(n)
           /\ \E o \in {0, OutLen} : Settle(s(o), ctx, NoBlock, UNIZIP_DATA_ERROR)

\* Mutant: only where the input begins is kept.
Remember_srcOnce(g) ==
    IF g.total_in = 0 THEN [ctx EXCEPT !.src = g.next_in, !.dest = g.next_out]
    ELSE [ctx EXCEPT !.dest = g.next_out]

\* zip7_deflate notes where input and output begin until some input is read.
Remember(g) ==
    IF g.total_in = 0 THEN [ctx EXCEPT !.src = g.next_in, !.dest = g.next_out]
    ELSE ctx

\* Mutant: the end is reported as a step on the way.
Zip7Return_ok(encoded) == IF encoded THEN UNIZIP_OK ELSE UNIZIP_DATA_ERROR

\* The result of LzmaEncode is mapped in zip7_deflate2 and once more in
\* zip7_deflate: what was MEM_ERROR the first time is DATA_ERROR the second.
Zip7Return(encoded) == IF encoded THEN UNIZIP_STREAM_END ELSE UNIZIP_DATA_ERROR

\* LzmaEncode puts its properties at dest, the rest behind them, and reports
\* the length of the rest; when memory runs out, any length up to the bound.
Zip7Encode(g) ==
    LET c      == Remember(g)
        s(o)   == [g EXCEPT !.total_out = o, !.next_out = c.dest + o]
        n      == g.total_in
    IN  \/ Settle(s(Form(n)), c, [at |-> c.dest, from |-> c.src, len |-> n],
                  Zip7Return(TRUE))
        \/ \E o \in 0 .. OutLen : Settle(s(o), c, NoBlock, Zip7Return(FALSE))

\* What is granted is said to be read, and as much to be written.
Zip7Take(g) ==
    Settle([next_in  |-> g.next_in + g.avail_in,  total_in  |-> g.total_in + g.avail_in,
            next_out |-> g.next_out + g.avail_in, total_out |-> g.total_out + g.avail_in,
            avail_in |-> 0, avail_out |-> 0],
           Remember(g), block, UNIZIP_OK)

Lz4Deflate(g, flush) ==
    \/ flush = NoFlush /\ Leave(g, UNIZIP_OK)
    \/ flush = Finish /\ Lz4Process(g)
    \/ flush \notin {NoFlush, Finish} /\ Leave(g, UNIZIP_ERRNO)

SnappyDeflate(g, flush) ==
    \/ flush = NoFlush /\ Leave(g, UNIZIP_OK)
    \/ flush = Finish /\ SnappyProcess(g)
    \/ flush \notin {NoFlush, Finish} /\ Leave(g, UNIZIP_ERRNO)

Zip7Deflate(g, flush) ==
    \/ flush = Finish /\ Zip7Encode(g)
    \/ flush # Finish /\ Zip7Take(g)

\* deflateCB_*, inflateCB_*: the fields are copied into the ctx and back.
Call(g, flush) ==
    /\ ctx.open
    /\ \/ kind = "lz4_deflate"    /\ Lz4Deflate(g, flush)
       \/ kind = "snappy_deflate" /\ SnappyDeflate(g, flush)
       \/ kind = "zip7_deflate"   /\ Zip7Deflate(g, flush)
       \/ kind = "lz4_inflate"    /\ Lz4Process(g)
       \/ kind = "snappy_inflate" /\ SnappyProcess(g)
    /\ UNCHANGED kind

\* deflateInitCB_*, inflateInitCB_*.  zip7_allocate's result is not looked at:
\* without memory that program is gone.
InitCB ==
    /\ ~ctx.open
    /\ \/ Settle(ResetStream, Ctx(TRUE), NoBlock, UNIZIP_OK)
       \/ kind # "zip7_deflate" /\ Settle(strm, Ctx(FALSE), NoBlock, UNIZIP_MEM_ERROR)
    /\ phase' = "fresh"
    /\ UNCHANGED kind

\* deflateResetCB_*, inflateResetCB_*: a new ctx.  lz4 clears the caller's
\* fields; snappy and 7zip leave them as they are.
ResetCB ==
    LET s == IF kind \in {"lz4_deflate", "lz4_inflate"} THEN ResetStream ELSE strm
    IN  /\ ctx.open
        /\ \/ Settle(s, Ctx(TRUE), NoBlock, UNIZIP_OK)
           \/ kind # "zip7_deflate" /\ Settle(s, Ctx(FALSE), NoBlock, UNIZIP_MEM_ERROR)
        /\ phase' = "stale"
        /\ UNCHANGED kind

\* deflateEndCB_*, inflateEndCB_*: lz4 leaves the caller's fields.
EndCB ==
    /\ ctx.open
    /\ Settle(IF kind \in {"lz4_deflate", "lz4_inflate"} THEN strm ELSE ResetStream,
              Ctx(FALSE), NoBlock, UNIZIP_OK)
    /\ phase' = "stale"
    /\ UNCHANGED kind

-----------------------------------------------------------------------------
(***************************************************************************)
(* The callers.                                                            *)
(***************************************************************************)

\* After a reset, and before anything else: pointers and counters to zero.
StartOver ==
    /\ ctx.open /\ phase = "stale"
    /\ strm' = ResetStream
    /\ phase' = "fresh"
    /\ UNCHANGED <<kind, ctx, block, status>>

\* The caller passes n bytes of input, counted from next_in, and room for m.
Passing(n, m) == Grant(strm, n, m)

Granted == strm.next_in + strm.avail_in

\* Finished: lz4 and 7zip say so, snappy returns OK to the call that codes.
Finished(ret) ==
    \/ ret = UNIZIP_STREAM_END
    \/ kind \in {"snappy_deflate", "snappy_inflate"} /\ ret = UNIZIP_OK

\* The next n bytes, added to what lies unread, as a caller of zlib adds them.
More(n, m, flush) ==
    /\ kind \in Compressors /\ phase \in {"fresh", "granting"}
    /\ Granted + n <= InLen
    /\ Call(Passing(strm.avail_in + n, m), flush)
    /\ phase' = "granting"

\* Everything has been granted; test_DeflateAll does it in one call.
AskForEnd(m) ==
    /\ phase = "granting" /\ Granted = InLen
    /\ Call(Passing(strm.avail_in, m), Finish)
    /\ phase' = IF Finished(status') THEN "done" ELSE "failed"

\* A failed block is tried again, all of it, lz4's with more room.
TryAgain(m) ==
    /\ kind \in Compressors /\ phase = "failed"
    /\ \/ kind = "lz4_deflate" /\ m > strm.avail_out /\ Call(Passing(InLen, m), Finish)
       \/ kind = "zip7_deflate" /\ Call(Passing(0, m), Finish)
    /\ phase' = IF Finished(status') THEN "done" ELSE "failed"

\* The first n bytes of a block; next time more of them, or more room.
Inflate(n, m) ==
    /\ kind \in Decompressors /\ phase \in {"fresh", "failed"}
    /\ n >= strm.total_in /\ m >= strm.avail_out
    /\ n > strm.total_in \/ m > strm.avail_out
    /\ Call(Passing(n, m), NoFlush)
    /\ phase' = IF Finished(status') THEN "done" ELSE "failed"

SyncFlush == 2  \* any value between the two

Drive ==
    \E m \in 1 .. DstLen :
        \/ \E n \in 1 .. InLen : More(n, m, NoFlush) \/ Inflate(n, m)
        \/ AskForEnd(m)
        \/ TryAgain(m)
        \/ StartOver

Sync == \E n \in 0 .. InLen, m \in 0 .. DstLen : More(n, m, SyncFlush)

Init ==
    /\ kind \in Kinds
    /\ strm = ResetStream
    /\ ctx = Ctx(FALSE)
    /\ block = NoBlock
    /\ status = UNIZIP_OK
    /\ phase = "stale"

Next == Drive \/ Sync \/ InitCB \/ ResetCB \/ EndCB

\* A caller that has a stream and can go on with it does so.
FairSpec == Init /\ [][Next]_vars /\ WF_vars(Drive)

-----------------------------------------------------------------------------
(***************************************************************************)
(* What should hold.                                                       *)
(***************************************************************************)

Types ==
    /\ kind \in Kinds
    /\ strm \in Streams(InLen, DstLen, DstLen)
    /\ ctx \in [open : BOOLEAN, src : NULL .. InLen, dest : NULL .. DstLen]
    /\ block \in Blocks
    /\ status \in Status
    /\ phase \in {"stale", "fresh", "granting", "failed", "done"}

Live == ctx.open /\ phase # "stale"

\* Bytes of the caller's output buffer the block takes.
Extent == Form(block.len) + (IF kind = "zip7_deflate" THEN PropsLen ELSE 0)

\* When the adapter has reported success, the caller's buffer holds, from its
\* first byte, one block made of exactly the bytes granted, however many calls
\* granted them and however many attempts failed; the totals say as much (of
\* 7zip's block PropsLen bytes less); no call is offered input beyond the end
\* and no block reaches beyond the buffer.  The variables keep their types.
Whole ==
    /\ Types
    /\ Live => strm.next_in + strm.avail_in <= InLen
    /\ phase = "done" =>
          /\ block = [at |-> 0, from |-> 0, len |-> InLen]
          /\ block.at + Extent <= DstLen
          /\ strm.total_in = InLen /\ strm.total_out = OutLen

Contract == INSTANCE ZContract WITH
                taken <- IF Live THEN strm.total_in ELSE 0,
                given <- IF Live /\ block # NoBlock THEN strm.total_out ELSE 0,
                ended <- (phase = "done")

\* Behind the caller's back or not, a block codec keeps the promise of a
\* streaming one (ZContract): total_in never goes back, nothing is delivered
\* twice, and the end comes with everything.
KeepsContract == Contract!Spec

\* A caller that no longer starts over or gives up gets its block coded, if 7zip
\* is not short of memory for ever.
Ends == (<>[][Drive]_vars /\ <>[][status' # UNIZIP_DATA_ERROR]_vars)
            => <>[](phase = "done" \/ ~ctx.open)

=============================================================================
