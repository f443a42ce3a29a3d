------------------------------ MODULE XzDeflate ------------------------------
(***************************************************************************)
(* The xz adapter's compressing side: deflateInitCB_xz, deflateCB_xz with  *)
(* xz_deflate under it, deflateResetCB_xz and deflateEndCB_xz, over an     *)
(* external model of liblzma's lzma_code.                                  *)
(*                                                                         *)
(* xz_deflate keeps two sets of books as bzip2_deflate does (Bzip2Deflate) *)
(* and loads a grant at the same moments, but the library under it has     *)
(* other rules.  It puts a header out before it reads anything, so that a  *)
(* call may leave the whole of its input unread; it fails a call without   *)
(* progress only when the one before had none either, and not for good;    *)
(* it goes on saying that a stream has ended; and it can run out of memory *)
(* half-way.  The adapter moves the caller's pointers after every call,    *)
(* the failed ones too, where bzip2_deflate returns early.                 *)
(*                                                                         *)
(* Data is abstracted to positions as in Bzip2Deflate.                     *)
(***************************************************************************)
EXTENDS ZStream

CONSTANTS SrcLen,      \* bytes the caller has to compress
          DstLen,      \* bytes of its output buffer
          HeaderLen,   \* bytes liblzma writes before the first one read
          TrailerLen,  \* bytes it adds when it ends the stream
          MaxGrant     \* the most a caller grants in one call

XzLen == HeaderLen + SrcLen + TrailerLen

ASSUME SrcLenAssumption   == SrcLen \in Nat
ASSUME HeaderAssumption   == HeaderLen \in Nat
ASSUME TrailerAssumption  == TrailerLen \in Nat \ {0}
ASSUME DstLenAssumption   == DstLen \in Nat /\ DstLen >= XzLen
ASSUME MaxGrantAssumption == MaxGrant \in Nat /\ MaxGrant >= SrcLen /\ MaxGrant > 0

VARIABLES strm,    \* the caller's unizip_stream
          xz,      \* ctx->xzstr and the encoder behind it
          status,  \* what the last call returned
          phase    \* what the caller has done with its stream so far

vars == <<strm, xz, status, phase>>

\* ud is of no stream, or NULL; ISEQ_RUN, ISEQ_FINISH, ISEQ_END, ISEQ_ERROR.
Modes == {"none", "null", "run", "finish", "end", "error"}

XzStates ==
    [mode : Modes, avail_in : 0 .. MaxGrant, avail_out : 0 .. MaxGrant,
     total_in : 0 .. SrcLen, total_out : 0 .. XzLen,
     expect : 0 .. MaxGrant, stalled : BOOLEAN]

\* xz_allocate's memset, and xz_deflateInit.
Encoder(mode) ==
    [mode |-> mode, avail_in |-> 0, avail_out |-> 0, total_in |-> 0,
     total_out |-> 0, expect |-> 0, stalled |-> FALSE]

-----------------------------------------------------------------------------
(***************************************************************************)
(* liblzma, as the adapter uses it (external).                             *)
(***************************************************************************)

\* Bytes the encoder could still write, the trailer included once it may end.
Held(x, ending) ==
    HeaderLen + x.total_in - x.total_out + (IF ending THEN TrailerLen ELSE 0)

\* u bytes read and p bytes written.
Moved(x, u, p) ==
    [mode |-> x.mode, expect |-> x.expect, stalled |-> x.stalled,
     avail_in  |-> x.avail_in - u,  total_in  |-> x.total_in + u,
     avail_out |-> x.avail_out - p, total_out |-> x.total_out + p]

\* After an error; or, once finishing, with another action or other input
\* than the last call left.  These are LZMA_PROG_ERROR.
Refused(x, action) ==
    \/ x.mode = "error"
    \/ x.mode = "finish" /\ (action = "LZMA_RUN" \/ x.expect # x.avail_in)

\* The encoder reads until the input is gone or the output is full with more
\* to write; when finishing it must also write all that it holds.
Encodes(x, finishing, u, p) ==
    LET after == Moved(x, u, p)
        held  == Held(after, finishing /\ after.avail_in = 0)
    IN  /\ u \in 0 .. x.avail_in
        /\ p \in 0 .. x.avail_out
        /\ held >= 0
        /\ \/ after.avail_out = 0 /\ held > 0
           \/ after.avail_in = 0 /\ (finishing => held = 0)

Drained(x, u, p) == u = x.avail_in /\ Held(Moved(x, u, p), TRUE) = 0

\* What a call that was not refused, and did not fail, leaves and returns.
Coded(x, action, u, p) ==
    [mode |-> CASE action = "LZMA_RUN" -> "run"
                [] action = "LZMA_FINISH" ->
                      IF Drained(x, u, p) THEN "end" ELSE "finish",
     expect |-> x.avail_in - u, stalled |-> u + p = 0,
     avail_in  |-> x.avail_in - u,  total_in  |-> x.total_in + u,
     avail_out |-> x.avail_out - p, total_out |-> x.total_out + p]
LzmaReturn(x, y) ==
    IF y.mode = "end" THEN "LZMA_STREAM_END"
    ELSE IF x.stalled /\ y.stalled THEN "LZMA_BUF_ERROR" ELSE "LZMA_OK"

\* Memory ran out with u bytes read and p written.
Failed(x, u, p) == [Moved(x, u, p) EXCEPT !.mode = "error"]

-----------------------------------------------------------------------------
(***************************************************************************)
(* The adapter.                                                            *)
(***************************************************************************)

\* map_error: what it does not name, LZMA_BUF_ERROR and LZMA_PROG_ERROR
\* among them, is a DATA_ERROR.
map_error(ret) ==
    CASE ret = "LZMA_OK"         -> UNIZIP_OK
      [] ret = "LZMA_STREAM_END" -> UNIZIP_STREAM_END
      [] ret = "LZMA_MEM_ERROR"  -> UNIZIP_MEM_ERROR
      [] OTHER                   -> UNIZIP_DATA_ERROR

Action(flush) == IF flush = Finish THEN "LZMA_FINISH" ELSE "LZMA_RUN"

\* Mutants: a grant is loaded for every finish as well, or for none.
ReloadIn_anyFinish(s, x, action) ==
    IF x.avail_in = 0 THEN s.avail_in ELSE x.avail_in
ReloadIn_noFinish(s, x, action) ==
    IF x.avail_in = 0 /\ action # "LZMA_FINISH" THEN s.avail_in ELSE x.avail_in

\* A grant of input is loaded when the last one is used up; for a finish only
\* if nothing was ever read.
ReloadIn(s, x, action) ==
    IF x.avail_in = 0 /\ (action # "LZMA_FINISH" \/ x.total_in = 0)
    THEN s.avail_in ELSE x.avail_in

\* Mutant: the output is granted once and never again.
ReloadOut_once(s, x) == IF x.total_out = 0 THEN s.avail_out ELSE x.avail_out

ReloadOut(s, x) == IF x.avail_out = 0 THEN s.avail_out ELSE x.avail_out

\* What lzma_code is called with when the caller has granted g.
Loaded(g, x, action) ==
    [mode |-> x.mode, expect |-> x.expect, stalled |-> x.stalled,
     avail_in  |-> ReloadIn(g, x, action), total_in  |-> x.total_in,
     avail_out |-> ReloadOut(g, x),        total_out |-> x.total_out]

\* Mutant: as in bzip2_deflate, a call that failed returns early.
Advance_unlessFailed(s, y, ret) ==
    IF ret \notin {"LZMA_OK", "LZMA_STREAM_END"} THEN s
    ELSE [next_in  |-> s.next_in + (y.total_in - s.total_in),
          avail_in |-> s.avail_in, total_in |-> y.total_in,
          next_out |-> s.next_out + (y.total_out - s.total_out),
          avail_out |-> s.avail_out, total_out |-> y.total_out]

\* The pointers move by what the library's totals moved; the totals follow,
\* whatever lzma_code returned.
Advance(s, y, ret) ==
    [next_in  |-> s.next_in + (y.total_in - s.total_in),
     avail_in |-> s.avail_in, total_in |-> y.total_in,
     next_out |-> s.next_out + (y.total_out - s.total_out),
     avail_out |-> s.avail_out, total_out |-> y.total_out]

\* lzma_code left y and returned ret.
Settle(g, y, ret) ==
    /\ xz' = y
    /\ strm' = Advance(g, y, ret)
    /\ status' = map_error(ret)

\* lzma_code(x, action) under the grant g.
Codes(g, x, action) ==
    \/ x.mode = "end" /\ Settle(g, x, "LZMA_STREAM_END")
    \/ Refused(x, action) /\ Settle(g, x, "LZMA_PROG_ERROR")
    \/ /\ x.mode # "end" /\ ~Refused(x, action)
       /\ \E u \in 0 .. x.avail_in, p \in 0 .. x.avail_out :
             \/ /\ Encodes(x, action = "LZMA_FINISH", u, p)
                /\ LET y == Coded(x, action, u, p)
                   IN  Settle(g, y, LzmaReturn(x, y))
             \/ /\ Held(Moved(x, u, p), action = "LZMA_FINISH" /\ u = x.avail_in) >= 0
                /\ Settle(g, Failed(x, u, p), "LZMA_MEM_ERROR")

\* deflateCB_xz on the granted stream g.  A ud of NULL is dereferenced.
deflateCB_xz(g, flush) ==
    /\ xz.mode \notin {"none", "null"}
    /\ Codes(g, Loaded(g, xz, Action(flush)), Action(flush))

NewStream(mode, ret) ==
    /\ strm' = ResetStream
    /\ xz' = Encoder(mode)
    /\ status' = ret
    /\ phase' = "fresh"

\* Without memory for the ctx ud is NULL; without memory for the encoder the
\* ctx stays, its encoder freed by liblzma.
Opened == \/ NewStream("run", UNIZIP_OK)
          \/ NewStream("null", UNIZIP_MEM_ERROR)
          \/ NewStream("error", UNIZIP_MEM_ERROR)

deflateInitCB_xz == xz.mode \in {"none", "null"} /\ Opened

\* resetXz, xz_End (which looks whether ud is NULL), then a new ctx.
deflateResetCB_xz == xz.mode # "none" /\ Opened

deflateEndCB_xz == xz.mode # "none" /\ NewStream("none", UNIZIP_OK)

-----------------------------------------------------------------------------
(***************************************************************************)
(* The callers.  test_DeflateSeg and test_DeflateAll as in Bzip2Deflate,   *)
(* one that finishes straight away, and one that now and then calls with   *)
(* nothing to give or no room to offer.                                    *)
(***************************************************************************)

Room(m) == m <= DstLen - strm.total_out

Feed(n, m) ==
    /\ phase \in {"fresh", "feeding"}
    /\ n <= SrcLen - strm.total_in
    /\ Room(m)
    /\ deflateCB_xz(Grant(strm, n, m), NoFlush)
    /\ phase' = "feeding"

\* All the input was read, or granted together with an earlier finish.
AskForEnd(m) ==
    /\ status # UNIZIP_STREAM_END
    /\ phase = "finishing" \/ strm.total_in = SrcLen
    /\ Room(m)
    /\ deflateCB_xz(Grant(strm, strm.avail_in, m), Finish)
    /\ phase' = "finishing"

OneShot(m) ==
    /\ phase = "fresh"
    /\ Room(m)
    /\ deflateCB_xz(Grant(strm, SrcLen, m), Finish)
    /\ phase' = "finishing"

\* After the end: nothing to give, some room.
Again(m) ==
    /\ status = UNIZIP_STREAM_END
    /\ Room(m)
    /\ deflateCB_xz(Grant(strm, strm.avail_in, m), Finish)
    /\ UNCHANGED phase

Drive ==
    \E m \in 1 .. MaxGrant :
        \/ \E n \in 1 .. MaxGrant : Feed(n, m)
        \/ AskForEnd(m)
        \/ OneShot(m)

Idle ==
    \/ \E n \in 0 .. MaxGrant, m \in 0 .. MaxGrant : (n = 0 \/ m = 0) /\ Feed(n, m)
    \/ AskForEnd(0)
    \/ \E m \in 0 .. MaxGrant : Again(m)

Init ==
    /\ strm = ResetStream
    /\ xz = Encoder("none")
    /\ status = UNIZIP_OK
    /\ phase = "fresh"

Next == Drive \/ Idle \/ deflateInitCB_xz \/ deflateResetCB_xz \/ deflateEndCB_xz

Spec == Init /\ [][Next]_vars

\* A caller that has a stream and can go on with it does so; that memory runs
\* out is nothing to count on.
FairSpec == Spec /\ WF_vars(Drive /\ xz'.mode # "error")

-----------------------------------------------------------------------------
(***************************************************************************)
(* What should hold.                                                       *)
(***************************************************************************)

Types ==
    /\ strm \in Streams(SrcLen, DstLen, MaxGrant)
    /\ xz \in XzStates
    /\ status \in Status
    /\ phase \in {"fresh", "feeding", "finishing"}

\* The caller's pointers, the caller's totals and the library's totals are the
\* same positions after every call, the failed ones too.
Contiguous ==
    /\ strm.next_in = strm.total_in /\ strm.total_in = xz.total_in
    /\ strm.next_out = strm.total_out /\ strm.total_out = xz.total_out

\* What the library may still read and write lies in the caller's buffers.
InsideBuffers ==
    /\ strm.next_in + xz.avail_in <= SrcLen
    /\ strm.next_out + xz.avail_out <= DstLen

\* The library reads and writes on where it stopped, inside the caller's
\* buffers, from grants made possibly many calls ago (unizip_algorithm_xz.c:
\* 170-183); the variables keep their types.
InOrder == Types /\ Contiguous /\ InsideBuffers

\* A DATA_ERROR has a cause: the encoder has failed, or this call and the one
\* before it moved nothing.  In particular the library never finds that the
\* adapter has changed avail_in between two finishing calls.
RefusedForCause ==
    status = UNIZIP_DATA_ERROR => xz.mode = "error" \/ xz.stalled

\* Bytes the caller has yet to see read, and bytes it has yet to see written.
ToGo == SrcLen - strm.total_in + XzLen - strm.total_out

\* No call with something to give and room to offer is in vain, whatever idle
\* calls came before it: it brings the stream nearer to its end, or the encoder
\* has failed for good (unizip_algorithm_xz.c:167-186).
EachCallMoves == [][Drive => ToGo' < ToGo \/ xz'.mode = "error"]_vars

\* A caller that at some point only goes on with its stream if it has one, idle
\* calls and their errors in between, gets it to its end and stays there,
\* unless the encoder runs out of memory.
Ends == <>[][Drive \/ Idle]_vars
            => <>[](status = UNIZIP_STREAM_END \/ xz.mode \in {"none", "null", "error"})

Contract == INSTANCE ZContract WITH
                InLen  <- SrcLen,
                OutLen <- XzLen,
                taken  <- strm.total_in,
                given  <- strm.total_out,
                ended  <- (status = UNIZIP_STREAM_END)

\* The adapter keeps the promise of a streaming compressor (ZContract).
KeepsContract == Contract!Spec

=============================================================================
