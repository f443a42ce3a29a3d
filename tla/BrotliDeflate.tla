---------------------------- MODULE BrotliDeflate ----------------------------
(***************************************************************************)
(* The brotli adapter's compressing side: deflateInitCB_brotli,            *)
(* deflateCB_brotli with brotli_deflate under it, deflateResetCB_brotli    *)
(* and deflateEndCB_brotli, over an external model of                      *)
(* BrotliEncoderCompressStream.                                            *)
(*                                                                         *)
(* Unlike the bzip2 adapter (Bzip2Deflate) this one keeps no books of its  *)
(* own: what the caller grants is what the encoder gets, and what the      *)
(* encoder leaves is what the caller gets back.  Two things are worth      *)
(* checking: that the end of the stream, which the adapter infers from     *)
(* "no more output and no more input", is one; and what survives a reset.  *)
(*                                                                         *)
(* Data is abstracted to positions as in Bzip2Deflate: a byte of input     *)
(* becomes a byte of output, held back for as long as the encoder likes,   *)
(* and the last metablock adds TailLen bytes.                              *)
(***************************************************************************)
EXTENDS ZStream

CONSTANTS SrcLen,    \* bytes the caller has to compress
          DstLen,    \* bytes of its output buffer
          TailLen,   \* bytes of the last metablock
          MaxTotal   \* bound on total_in, which resets do not clear

ASSUME SrcLenAssumption   == SrcLen \in Nat
ASSUME TailAssumption     == TailLen \in Nat \ {0}
ASSUME DstLenAssumption   == DstLen \in Nat /\ DstLen >= SrcLen + TailLen
ASSUME MaxTotalAssumption == MaxTotal \in Nat /\ MaxTotal >= SrcLen

VARIABLES strm,    \* the caller's unizip_stream
          enc,     \* the encoder behind ctx->Enstate
          status,  \* what the last call returned
          fin      \* the caller has asked for Z_FINISH

vars == <<strm, enc, status, fin>>

\* No ctx; processing; the last metablock is encoded; out of memory.
Modes == {"none", "processing", "finished", "broken"}

\* more: the encoder holds output that is ready (BrotliEncoderHasMoreOutput).
Encoders == [mode : Modes, read : 0 .. SrcLen, wrote : 0 .. SrcLen + TailLen,
             more : BOOLEAN]

-----------------------------------------------------------------------------
(***************************************************************************)
(* libbrotlienc, as the adapter uses it (external).                        *)
(***************************************************************************)

FreshEncoder == [mode |-> "processing", read |-> 0, wrote |-> 0, more |-> FALSE]
NoEncoder    == [mode |-> "none", read |-> 0, wrote |-> 0, more |-> FALSE]

\* New input after the end, and any call after memory ran out, is refused.
Refused(e, n) == e.mode = "broken" \/ (e.mode = "finished" /\ n > 0)

\* Bytes not yet written when all input is read and mode is reached.
Left(mode, read, wrote) ==
    read - wrote + (IF mode = "finished" THEN TailLen ELSE 0)

\* BrotliEncoderCompressStream on n bytes of input and m of room may leave
\* the encoder as f: it reads until its output has nowhere to go, and ends
\* the stream when a finishing call has read everything.
MayLeave(e, n, m, finishing, f) ==
    LET u == f.read - e.read
        p == f.wrote - e.wrote
    IN  /\ u \in 0 .. n
        /\ p \in 0 .. m
        /\ Left(f.mode, f.read, f.wrote) >= 0
        /\ f.mode \in {"processing", "finished"}
        /\ e.mode = "finished" => f.mode = "finished"
        /\ f.mode = "finished" => u = n /\ (e.mode = "finished" \/ finishing)
        /\ f.more => p = m /\ Left(f.mode, f.read, f.wrote) > 0
        /\ ~f.more =>
              /\ u = n
              /\ finishing => f.mode = "finished"
              /\ f.mode = "finished" => Left(f.mode, f.read, f.wrote) = 0

\* It fails for want of memory, with any part of the input taken up and any
\* part of what was ready written.
MayBreak(e, n, m, f) ==
    /\ f.mode = "broken"
    /\ f.read - e.read \in 0 .. n
    /\ f.wrote - e.wrote \in 0 .. m
    /\ Left(e.mode, f.read, f.wrote) >= 0
    /\ f.more => e.more

-----------------------------------------------------------------------------
(***************************************************************************)
(* The adapter.                                                            *)
(***************************************************************************)

\* brotli_map, on BROTLI_TRUE and BROTLI_FALSE.
brotli_map(ret) == IF ret THEN UNIZIP_OK ELSE UNIZIP_ERRNO

\* Mutants: the end is reported as soon as the input is gone; the test of
\* BrotliEncoderHasMoreOutput is inverted.
Verdict_noInputLeft(ret, finishing, left, more) ==
    IF finishing /\ left = 0 THEN UNIZIP_STREAM_END ELSE brotli_map(ret)
Verdict_inverted(ret, finishing, left, more) ==
    IF finishing /\ left = 0 /\ more THEN UNIZIP_STREAM_END ELSE brotli_map(ret)

\* What a call returns: a finishing one that leaves no input and no output
\* reports the end, whatever BrotliEncoderCompressStream returned.
Verdict(ret, finishing, left, more) ==
    IF finishing /\ left = 0 /\ ~more THEN UNIZIP_STREAM_END ELSE brotli_map(ret)

\* Mutant: next_in is not moved.
Advanced_stuck(s, u, p, out) ==
    [next_in  |-> s.next_in,        avail_in  |-> s.avail_in - u,
     total_in |-> s.total_in + u,   next_out  |-> s.next_out + p,
     avail_out |-> s.avail_out - p, total_out |-> out]
\* u bytes were read and p written; total_out is the encoder's, which it only
\* stores when it writes.
Advanced(s, u, p, out) ==
    [next_in  |-> s.next_in + u,    avail_in  |-> s.avail_in - u,
     total_in |-> s.total_in + u,   next_out  |-> s.next_out + p,
     avail_out |-> s.avail_out - p, total_out |-> out]

\* The call leaves the encoder as f and returned ret.
Settle(g, f, ret, finishing) ==
    LET u == f.read - enc.read
        p == f.wrote - enc.wrote
    IN  /\ enc' = f
        /\ strm' = Advanced(g, u, p, IF p > 0 THEN f.wrote ELSE g.total_out)
        /\ status' = Verdict(ret, finishing, g.avail_in - u, f.more)

\* The encoders some amount of reading and writing under the grant g leads to.
Reachable(g) ==
    LET taken == 0 .. g.avail_in
        given == 0 .. g.avail_out
    IN  {[mode |-> x[1], read |-> enc.read + x[2], wrote |-> enc.wrote + x[3],
          more |-> x[4]] :
            x \in (Modes \ {"none"}) \X taken \X given \X BOOLEAN}

\* deflateCB_brotli on the granted stream g, Z_NO_FLUSH or Z_FINISH.
deflateCB_brotli(g, flush) ==
    LET finishing == flush = Finish
        n == g.avail_in
        m == g.avail_out
    IN  /\ enc.mode # "none"
        /\ \/ /\ Refused(enc, n)
              /\ Settle(g, enc, FALSE, finishing)
           \/ /\ ~Refused(enc, n)
              /\ \E f \in Reachable(g) :
                    /\ MayLeave(enc, n, m, finishing, f)
                    /\ Settle(g, f, TRUE, finishing)
           \/ /\ ~Refused(enc, n)
              /\ \E f \in Reachable(g) :
                    /\ MayBreak(enc, n, m, f)
                    /\ Settle(g, f, FALSE, finishing)

\* Any other flush value is turned down with nothing done.
OtherFlush(g) ==
    /\ enc.mode # "none"
    /\ strm' = g
    /\ status' = UNIZIP_ERRNO
    /\ UNCHANGED enc

\* deflateInitCB_brotli: the counters are cleared even if malloc failed.
deflateInitCB_brotli ==
    /\ enc.mode = "none"
    /\ strm' = ResetStream
    /\ \/ enc' = FreshEncoder /\ status' = UNIZIP_OK
       \/ enc' = NoEncoder /\ status' = UNIZIP_MEM_ERROR
    /\ fin' = FALSE

\* deflateResetCB_brotli: a new ctx, and the caller's stream is not touched;
\* the caller points it to the start of its buffers for the next input.
\* (MaxTotal bounds how often.)
deflateResetCB_brotli ==
    /\ enc.mode # "none"
    /\ strm.total_in + SrcLen <= MaxTotal
    /\ strm' = [next_in  |-> 0, avail_in  |-> strm.avail_in,
                total_in |-> strm.total_in, next_out |-> 0,
                avail_out |-> strm.avail_out, total_out |-> strm.total_out]
    /\ \/ enc' = FreshEncoder /\ status' = UNIZIP_OK
       \/ enc' = NoEncoder /\ status' = UNIZIP_MEM_ERROR
    /\ fin' = FALSE

deflateEndCB_brotli ==
    /\ enc.mode # "none"
    /\ strm' = ResetStream
    /\ enc' = NoEncoder /\ status' = UNIZIP_OK
    /\ fin' = FALSE

-----------------------------------------------------------------------------
(***************************************************************************)
(* The callers: zlib's protocol in full.  Each call may grant any part of  *)
(* the input that follows next_in and any room that follows next_out; the  *)
(* last piece may come with the finish, which is repeated until the end.   *)
(***************************************************************************)

Fits(n, m) ==
    /\ n <= SrcLen - strm.next_in
    /\ m <= DstLen - strm.next_out
    /\ status # UNIZIP_STREAM_END

Feed(n, m) ==
    /\ ~fin
    /\ Fits(n, m)
    /\ deflateCB_brotli(Grant(strm, n, m), NoFlush)
    /\ UNCHANGED fin

AskForEnd(m) ==
    /\ Fits(SrcLen - strm.next_in, m)
    /\ deflateCB_brotli(Grant(strm, SrcLen - strm.next_in, m), Finish)
    /\ fin' = TRUE

\* Z_SYNC_FLUSH and its like.
FlushOther(n, m) ==
    /\ ~fin
    /\ Fits(n, m)
    /\ OtherFlush(Grant(strm, n, m))
    /\ UNCHANGED fin

Drive ==
    \E m \in 1 .. DstLen : \/ \E n \in 1 .. SrcLen : Feed(n, m)
                           \/ AskForEnd(m)

Init ==
    /\ strm = ResetStream
    /\ enc = NoEncoder
    /\ status = UNIZIP_OK
    /\ fin = FALSE

Next ==
    \/ Drive
    \/ \E n \in 1 .. SrcLen, m \in 1 .. DstLen : FlushOther(n, m)
    \/ deflateInitCB_brotli \/ deflateResetCB_brotli \/ deflateEndCB_brotli

Spec == Init /\ [][Next]_vars

\* A caller that has a stream and can go on with it does so; that memory runs
\* out is nothing to count on.
FairSpec == Spec /\ WF_vars(Drive /\ enc'.mode # "broken")

-----------------------------------------------------------------------------
(***************************************************************************)
(* What should hold.                                                       *)
(***************************************************************************)

TypeOK ==
    /\ strm \in [next_in : 0 .. SrcLen, avail_in : 0 .. SrcLen,
                 total_in : 0 .. MaxTotal, next_out : 0 .. DstLen,
                 avail_out : 0 .. DstLen, total_out : 0 .. DstLen]
    /\ enc \in Encoders
    /\ status \in Status
    /\ fin \in BOOLEAN

\* The caller's pointers are at the encoder's positions, so that no byte of
\* input is skipped or read twice and no output is overwritten, whatever
\* failed in between: brotli_deflate advances them on every path
\* (unizip_algorithm_brotli.c:98-104).  The variables keep their types.
InOrder ==
    /\ TypeOK
    /\ enc.mode # "none" => strm.next_in = enc.read /\ strm.next_out = enc.wrote

\* Bytes the encoder has yet to read, and bytes it has yet to write.
ToGo == SrcLen - enc.read + SrcLen + TailLen - enc.wrote

\* No call is in vain while there is memory: it brings the stream nearer to its
\* end, refused flushes in between (unizip_algorithm_brotli.c:88-118).
EachCallMoves == [][Drive => ToGo' < ToGo \/ enc'.mode = "broken"]_vars

\* A caller that at some point only goes on with its stream, if it has one,
\* gets it to its end and stays there, unless the encoder runs out of memory.
Ends == <>[][Drive]_vars
            => <>[](status = UNIZIP_STREAM_END \/ enc.mode \in {"none", "broken"})

Contract == INSTANCE ZContract WITH
                InLen  <- SrcLen,
                OutLen <- SrcLen + TailLen,
                taken  <- enc.read,
                given  <- enc.wrote,
                ended  <- (status = UNIZIP_STREAM_END /\ enc.mode # "broken")

\* The adapter keeps the promise of a streaming compressor (ZContract), but that
\* when the encoder has run out of memory it may report an end which is none.
KeepsContract == Contract!Spec

=============================================================================
