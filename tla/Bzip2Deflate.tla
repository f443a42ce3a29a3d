---------------------------- MODULE Bzip2Deflate ----------------------------
(***************************************************************************)
(* The bzip2 adapter's compressing side: deflateInitCB_bzip2,              *)
(* deflateCB_bzip2, deflateResetCB_bzip2 and deflateEndCB_bzip2, over an   *)
(* external model of libbz2's BZ2_bzCompress.                              *)
(*                                                                         *)
(* The adapter keeps two sets of books.  The caller's, in `strm', say how  *)
(* much it grants at each call; the library's, in `bz' (ctx->bzstr), say   *)
(* how much is left of the grant it was last loaded with.  A new grant is  *)
(* loaded only when the library's own is used up, and the caller's         *)
(* avail_in and avail_out are never written back.  The state of interest   *)
(* is what those two disagree about.                                       *)
(*                                                                         *)
(* Data is abstracted to positions: a byte of input becomes a byte of      *)
(* output, which libbz2 may hold back for as long as it likes, and ending  *)
(* the stream adds a trailer of TrailerLen bytes.                          *)
(***************************************************************************)
EXTENDS ZStream

CONSTANTS SrcLen,      \* bytes the caller has to compress
          DstLen,      \* bytes of its output buffer
          TrailerLen,  \* bytes libbz2 adds when it ends the stream
          MaxGrant     \* the most a caller grants in one call

ASSUME SrcLenAssumption   == SrcLen \in Nat
ASSUME TrailerAssumption  == TrailerLen \in Nat \ {0}
ASSUME DstLenAssumption   == DstLen \in Nat /\ DstLen >= SrcLen + TrailerLen
ASSUME MaxGrantAssumption == MaxGrant \in Nat /\ MaxGrant >= SrcLen /\ MaxGrant > 0

VARIABLES strm,    \* the caller's unizip_stream
          bz,      \* ctx->bzstr and the library state behind it
          status,  \* what the last call returned
          fin      \* the caller has asked for Z_FINISH

vars == <<strm, bz, status, fin>>

\* ctx->ud is NULL; BZ_M_RUNNING; BZ_M_FINISHING; BZ_M_IDLE after the end.
Modes == {"none", "running", "finishing", "idle"}

BzStates ==
    [mode : Modes, avail_in : 0 .. MaxGrant, avail_out : 0 .. MaxGrant,
     total_in : 0 .. SrcLen, total_out : 0 .. SrcLen + TrailerLen,
     expect : 0 .. MaxGrant]

-----------------------------------------------------------------------------
(***************************************************************************)
(* libbz2, as the adapter uses it (external).                              *)
(***************************************************************************)

\* BZ2_bzCompressInit after bzip2_allocate: nothing granted, nothing done.
FreshCompressor ==
    [mode |-> "running", avail_in |-> 0, avail_out |-> 0,
     total_in |-> 0, total_out |-> 0, expect |-> 0]

NoCompressor == [FreshCompressor EXCEPT !.mode = "none"]

\* Bytes libbz2 could still deliver, the trailer included once it may end.
Held(b, ending) ==
    b.total_in - b.total_out + (IF ending THEN TrailerLen ELSE 0)

\* u bytes read and p bytes written.
Moved(b, u, p) ==
    [mode |-> b.mode, expect |-> b.expect,
     avail_in  |-> b.avail_in - u,  total_in  |-> b.total_in + u,
     avail_out |-> b.avail_out - p, total_out |-> b.total_out + p]

\* handle_compress: it reads until the input is gone or the output is full
\* with more to write; when finishing it must also write all that it holds.
Handles(b, finishing, u, p) ==
    LET after == Moved(b, u, p)
        held  == Held(after, finishing /\ after.avail_in = 0)
    IN  /\ u \in 0 .. b.avail_in
        /\ p \in 0 .. b.avail_out
        /\ held >= 0
        /\ \/ after.avail_out = 0 /\ held > 0
           \/ after.avail_in = 0 /\ (finishing => held = 0)

\* A call the library turns away: after the end, a run once finishing has
\* begun, or a finish whose avail_in is not what the last one left.
Refused(b, action) ==
    \/ b.mode = "idle"
    \/ b.mode = "finishing" /\ (action = "BZ_RUN" \/ b.expect # b.avail_in)

\* BZ2_bzCompress(b, action) may read u bytes and write p bytes ...
MayMove(b, action, u, p) ==
    IF Refused(b, action) THEN u = 0 /\ p = 0
    ELSE Handles(b, action = "BZ_FINISH", u, p)

Drained(b, u, p) == u = b.avail_in /\ Held(Moved(b, u, p), TRUE) = 0

\* ... returning this ...
BzReturn(b, action, u, p) ==
    CASE Refused(b, action)                   -> "BZ_SEQUENCE_ERROR"
      [] ~Refused(b, action) /\ action = "BZ_RUN" ->
            IF u + p = 0 THEN "BZ_PARAM_ERROR" ELSE "BZ_RUN_OK"
      [] ~Refused(b, action) /\ action = "BZ_FINISH" ->
            IF u + p = 0 THEN "BZ_SEQUENCE_ERROR"
            ELSE IF Drained(b, u, p) THEN "BZ_STREAM_END" ELSE "BZ_FINISH_OK"

\* ... and leaving this behind.
BZ2_bzCompress(b, action, u, p) ==
    IF Refused(b, action) THEN b
    ELSE IF action = "BZ_RUN" THEN Moved(b, u, p)
    ELSE Moved([mode |-> IF BzReturn(b, action, u, p) = "BZ_STREAM_END"
                         THEN "idle" ELSE "finishing",
                expect   |-> b.avail_in - u,
                avail_in  |-> b.avail_in,  total_in  |-> b.total_in,
                avail_out |-> b.avail_out, total_out |-> b.total_out], u, p)

-----------------------------------------------------------------------------
(***************************************************************************)
(* The adapter.                                                            *)
(***************************************************************************)

\* map_error, on the codes BZ2_bzCompress returns here.
map_error(ret) ==
    CASE ret \in {"BZ_RUN_OK", "BZ_FINISH_OK"} -> UNIZIP_OK
      [] ret = "BZ_STREAM_END"                 -> UNIZIP_STREAM_END
      [] ret = "BZ_PARAM_ERROR"                -> UNIZIP_DATA_ERROR
      [] ret = "BZ_SEQUENCE_ERROR"             -> UNIZIP_STREAM_ERROR

Action(flush) == IF flush = Finish THEN "BZ_FINISH" ELSE "BZ_RUN"

\* Mutants: a grant is loaded for every finish as well, or for none.
ReloadIn_anyFinish(s, b, action) ==
    IF b.avail_in = 0 THEN s.avail_in ELSE b.avail_in
ReloadIn_noFinish(s, b, action) ==
    IF b.avail_in = 0 /\ action # "BZ_FINISH" THEN s.avail_in ELSE b.avail_in

\* A grant of input is loaded when the last one is used up; for a finish
\* only if nothing was ever read, so that a finish repeats no input.
ReloadIn(s, b, action) ==
    IF b.avail_in = 0 /\ (action # "BZ_FINISH" \/ b.total_in = 0)
    THEN s.avail_in ELSE b.avail_in

\* Mutant: the output is granted once and never again.
ReloadOut_once(s, b) == IF b.total_out = 0 THEN s.avail_out ELSE b.avail_out

ReloadOut(s, b) == IF b.avail_out = 0 THEN s.avail_out ELSE b.avail_out

\* The stream s, its pointers advanced by i and o, with these totals.
Stepped(s, i, o, in, out) ==
    [next_in  |-> s.next_in + i,  avail_in  |-> s.avail_in,  total_in  |-> in,
     next_out |-> s.next_out + o, avail_out |-> s.avail_out, total_out |-> out]

\* The pointers move by what the library's totals moved; the totals follow.
Advance(s, b) ==
    Stepped(s, b.total_in - s.total_in, b.total_out - s.total_out,
            b.total_in, b.total_out)

Accepted(ret) == ret \in {"BZ_RUN_OK", "BZ_FINISH_OK", "BZ_STREAM_END"}

\* What BZ2_bzCompress is called with when the caller has granted g.
Loaded(g, b, action) ==
    [mode |-> b.mode, expect |-> b.expect,
     avail_in  |-> ReloadIn(g, b, action), total_in  |-> b.total_in,
     avail_out |-> ReloadOut(g, b),        total_out |-> b.total_out]

\* One call of the library on the loaded state b, and the books it leaves.
Compress(g, b, action, u, p) ==
    LET ret == BzReturn(b, action, u, p)
        b2  == BZ2_bzCompress(b, action, u, p)
    IN  /\ MayMove(b, action, u, p)
        /\ bz' = b2
        /\ strm' = IF Accepted(ret) THEN Advance(g, b2) ELSE g
        /\ status' = map_error(ret)

\* deflateCB_bzip2 on the granted stream g.  A ctx of NULL is dereferenced.
deflateCB_bzip2(g, flush) ==
    /\ bz.mode # "none"
    /\ LET b == Loaded(g, bz, Action(flush))
       IN  \E u \in 0 .. b.avail_in, p \in 0 .. b.avail_out :
              Compress(g, b, Action(flush), u, p)

NewStream(mode, ret) ==
    /\ strm' = ResetStream
    /\ bz' = [FreshCompressor EXCEPT !.mode = mode]
    /\ status' = ret
    /\ fin' = FALSE

\* deflateInitCB_bzip2; when bzip2_allocate fails it returns with nothing
\* else done, and strm is what the caller handed in.
deflateInitCB_bzip2 ==
    /\ bz.mode = "none"
    /\ \/ NewStream("running", UNIZIP_OK)
       \/ NewStream("none", UNIZIP_MEM_ERROR)

\* deflateResetCB_bzip2: resetBzip2, bzip2_deflateEnd, then a new ctx or NULL.
deflateResetCB_bzip2 ==
    /\ bz.mode # "none"
    /\ \/ NewStream("running", UNIZIP_OK)
       \/ NewStream("none", UNIZIP_MEM_ERROR)

deflateEndCB_bzip2 ==
    /\ bz.mode # "none"
    /\ NewStream("none", UNIZIP_OK)

-----------------------------------------------------------------------------
(***************************************************************************)
(* The callers.  test_DeflateSeg feeds the input in grants, then asks for  *)
(* the end again and again with its avail_in untouched; test_DeflateAll    *)
(* grants everything at once, and a one-shot caller finishes straight      *)
(* away.  No caller grants room or input beyond the ends of its buffers.   *)
(***************************************************************************)

Room(m) == m <= DstLen - strm.total_out

Feed(n, m) ==
    /\ ~fin
    /\ n <= SrcLen - strm.total_in
    /\ Room(m)
    /\ deflateCB_bzip2(Grant(strm, n, m), NoFlush)
    /\ UNCHANGED fin

\* All the input was read, or granted together with an earlier finish.
AskForEnd(m) ==
    /\ status # UNIZIP_STREAM_END
    /\ fin \/ strm.total_in = SrcLen
    /\ Room(m)
    /\ deflateCB_bzip2(Grant(strm, strm.avail_in, m), Finish)
    /\ fin' = TRUE

OneShot(m) ==
    /\ ~fin
    /\ strm.total_in = 0
    /\ Room(m)
    /\ deflateCB_bzip2(Grant(strm, SrcLen, m), Finish)
    /\ fin' = TRUE

Drive ==
    \E m \in 1 .. MaxGrant :
        \/ \E n \in 1 .. MaxGrant : Feed(n, m)
        \/ AskForEnd(m)
        \/ OneShot(m)

Init ==
    /\ strm = ResetStream
    /\ bz = NoCompressor
    /\ status = UNIZIP_OK
    /\ fin = FALSE

Next == Drive \/ deflateInitCB_bzip2 \/ deflateResetCB_bzip2 \/ deflateEndCB_bzip2

Spec == Init /\ [][Next]_vars

\* A caller that has a stream and can go on with it does so.
FairSpec == Spec /\ WF_vars(Drive)

-----------------------------------------------------------------------------
(***************************************************************************)
(* What should hold.                                                       *)
(***************************************************************************)

TypeOK ==
    /\ strm \in Streams(SrcLen, DstLen, MaxGrant)
    /\ bz \in BzStates
    /\ status \in Status
    /\ fin \in BOOLEAN

\* The library reads at the byte after the last one it read and writes at the
\* byte after the last one it wrote: between calls the caller's pointers, the
\* caller's totals and the library's totals are the same positions
\* (unizip_algorithm_bzip2.c:155-164), so no byte is skipped or repeated.
Contiguous ==
    /\ strm.next_in = strm.total_in /\ strm.total_in = bz.total_in
    /\ strm.next_out = strm.total_out /\ strm.total_out = bz.total_out

\* What the library is still entitled to read and write, from a grant made
\* possibly many calls ago, lies inside the caller's buffers.
InsideBuffers ==
    /\ strm.next_in + bz.avail_in <= SrcLen
    /\ strm.next_out + bz.avail_out <= DstLen

\* The library reads and writes on where it stopped, inside the caller's
\* buffers, from grants made possibly many calls ago (unizip_algorithm_bzip2.c:
\* 142-164); the variables keep their types.
InOrder == TypeOK /\ Contiguous /\ InsideBuffers

\* A caller that keeps to the protocol is never told that its call was out of
\* sequence or had no effect: every call of a live stream moves something.
NoSpuriousError ==
    status \in {UNIZIP_OK, UNIZIP_STREAM_END, UNIZIP_MEM_ERROR}

\* Bytes the caller has yet to see read, and bytes it has yet to see written.
ToGo == SrcLen - strm.total_in + SrcLen + TrailerLen - strm.total_out

\* No call of a caller that goes on is in vain, whatever grants are in the two
\* sets of books: it brings the stream nearer to its end, or reports it
\* (unizip_algorithm_bzip2.c:136-167).
EachCallMoves == [][Drive => ToGo' < ToGo]_vars

\* A caller that at some point no longer starts over or gives up, and only goes
\* on with its stream if it has one, gets it to its end and stays there.
Ends == <>[][Drive]_vars => <>[](status = UNIZIP_STREAM_END \/ bz.mode = "none")

Contract == INSTANCE ZContract WITH
                InLen  <- SrcLen,
                OutLen <- SrcLen + TrailerLen,
                taken  <- strm.total_in,
                given  <- strm.total_out,
                ended  <- (status = UNIZIP_STREAM_END)

\* The adapter keeps the promise of a streaming compressor (ZContract).
KeepsContract == Contract!Spec

=============================================================================
