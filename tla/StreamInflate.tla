---------------------------- MODULE StreamInflate ----------------------------
(***************************************************************************)
(* The decompressing side of the adapters over streaming libraries:        *)
(* inflateCB_bzip2, _xz, _zstd, _brotli and _7zip with the functions under *)
(* them, over one external model of a streaming decoder.                   *)
(*                                                                         *)
(* The five agree on little.  bzip2, xz and zstd keep books of their own   *)
(* and load a grant when the last one is used up; brotli and 7zip pass the *)
(* caller's fields through.  zstd moves the caller's pointers only at the  *)
(* end.  xz decodes concatenated streams, so that only LZMA_FINISH can     *)
(* end.  brotli reports both the end and an error one call late.  7zip     *)
(* reads its properties beside the caller's grant, and takes a call with   *)
(* nothing granted for the end: the length its caller goes by, that of     *)
(* unizip_compress, leaves them out (zip7_compress).                       *)
(*                                                                         *)
(* Data is abstracted to positions in the stream and in what it decodes    *)
(* to.  The stream is valid; a decoder may run out of memory.              *)
(***************************************************************************)
EXTENDS ZStream

CONSTANTS StreamLen,  \* bytes of the compressed form
          PlainLen,   \* bytes it decodes to
          PropsLen,   \* LZMA_PROPS_SIZE
          DstLen,     \* bytes of the caller's output buffer
          MaxGrant    \* the most a caller grants in one call

ASSUME PropsAssumption    == PropsLen \in Nat \ {0}
ASSUME StreamAssumption   == StreamLen \in Nat /\ StreamLen > 2 * PropsLen
ASSUME PlainAssumption    == PlainLen \in Nat \ {0}
ASSUME DstLenAssumption   == DstLen \in Nat /\ DstLen > PlainLen
ASSUME MaxGrantAssumption == MaxGrant \in Nat /\ MaxGrant >= StreamLen /\ MaxGrant >= DstLen

VARIABLES codec,   \* which adapter
          strm,    \* the caller's unizip_stream
          lib,     \* the ctx and the decoder behind it
          status,  \* what the last call returned
          phase    \* what the caller has granted so far

vars == <<codec, strm, lib, status, phase>>

OwnBooks == {"bzip2", "xz", "zstd"}
Codecs == OwnBooks \cup {"brotli", "zip7"}

\* No ctx; decoding; done but not yet said (brotli); ended; failed.
Modes == {"none", "open", "success", "ended", "failed"}

NotFinishing == -1

\* read and wrote are positions; expect is what liblzma left of avail_in if it
\* is finishing; stalled and full: the last call moved nothing, or filled all
\* the room it had.
Libs == [mode : Modes, avail_in : 0 .. MaxGrant, avail_out : 0 .. MaxGrant,
         read : 0 .. StreamLen, wrote : 0 .. PlainLen,
         expect : NotFinishing .. MaxGrant, stalled : BOOLEAN, full : BOOLEAN]

Lib(mode) == [mode |-> mode, avail_in |-> 0, avail_out |-> 0, read |-> 0,
              wrote |-> 0, expect |-> NotFinishing, stalled |-> FALSE, full |-> FALSE]

\* The stream as its caller knows it.
CallersLen == IF codec = "zip7" THEN StreamLen - PropsLen ELSE StreamLen

-----------------------------------------------------------------------------
(***************************************************************************)
(* A streaming decoder (external).                                         *)
(***************************************************************************)

\* Before these bytes nothing but the end mark is to come.  zip7_compress
\* asks for an end mark, which takes at least as many bytes as the properties.
DataLen == IF codec = "zip7" THEN StreamLen - PropsLen ELSE StreamLen

\* u bytes read and p bytes written.
Moved(l, u, p) ==
    [mode |-> l.mode, expect |-> l.expect,
     avail_in  |-> l.avail_in - u,  read  |-> l.read + u,
     avail_out |-> l.avail_out - p, wrote |-> l.wrote + p,
     stalled |-> u + p = 0, full |-> p = l.avail_out]

AllOut(l) == l.read = StreamLen /\ l.wrote = PlainLen

InRange(l, u, p) ==
    /\ u \in 0 .. l.avail_in /\ l.read + u <= StreamLen
    /\ p \in 0 .. l.avail_out /\ l.wrote + p <= PlainLen
    /\ l.wrote + p > 0 => l.read + u > 0

\* It goes on until its input is gone, its room is full, or all is out; and
\* with the data read it leaves nothing behind that there is room for.
Decodes(l, u, p) ==
    LET y == Moved(l, u, p)
    IN  /\ InRange(l, u, p)
        /\ y.avail_in = 0 \/ y.avail_out = 0 \/ AllOut(y)
        /\ y.read >= DataLen => y.wrote = PlainLen \/ y.avail_out = 0

\* Memory ran out.
Failed(l) == [l EXCEPT !.mode = "failed"]

-----------------------------------------------------------------------------
(***************************************************************************)
(* The adapters.  Each is called on g, the stream as the caller passes it. *)
(***************************************************************************)

Settle(s, l, ret) == strm' = s /\ lib' = l /\ status' = ret


\* bzip2_inflate, xz_inflate, zstd_inflate: a grant is loaded when the last
\* one is used up.
Loaded(g) ==
    [lib EXCEPT !.avail_in  = IF lib.avail_in = 0 THEN g.avail_in ELSE lib.avail_in,
                !.avail_out = IF lib.avail_out = 0 THEN g.avail_out ELSE lib.avail_out]

\* The pointers move by what the decoder's totals moved since the last call.
Advance(g, y) ==
    [g EXCEPT !.next_in  = g.next_in + (y.read - g.total_in),    !.total_in  = y.read,
              !.next_out = g.next_out + (y.wrote - g.total_out), !.total_out = y.wrote]

Ended(y) == [y EXCEPT !.mode = "ended"]

\* A failed call returns before the caller's fields are touched.
bzip2_inflate(g) ==
    LET l == Loaded(g)
    IN  \E u \in 0 .. l.avail_in, p \in 0 .. l.avail_out :
           LET y == Moved(l, u, p)
           IN  \/ /\ Decodes(l, u, p) /\ AllOut(y)
                  /\ Settle(Advance(g, y), Ended(y), UNIZIP_STREAM_END)
               \/ /\ Decodes(l, u, p) /\ ~AllOut(y)
                  /\ Settle(Advance(g, y), y, UNIZIP_OK)
               \/ InRange(l, u, p) /\ Settle(g, Failed(y), UNIZIP_MEM_ERROR)

\* xz's totals follow after every call.  LZMA_BUF_ERROR, the second call in a
\* row that moves nothing, and LZMA_PROG_ERROR are DATA_ERROR to map_error.
XzRefuses(l, ending) ==
    l.expect # NotFinishing /\ (~ending \/ l.expect # l.avail_in)

xz_inflate(g, flush) ==
    LET l == Loaded(g)
        ending == flush = Finish
        Left(y) == [y EXCEPT !.expect = IF ending THEN y.avail_in ELSE NotFinishing]
    IN  \/ XzRefuses(l, ending) /\ Settle(Advance(g, l), l, UNIZIP_DATA_ERROR)
        \/ /\ ~XzRefuses(l, ending)
           /\ \E u \in 0 .. l.avail_in, p \in 0 .. l.avail_out :
                 LET y == Moved(l, u, p)
                 IN  \/ /\ Decodes(l, u, p) /\ AllOut(y) /\ ending
                        /\ Settle(Advance(g, y), Ended(y), UNIZIP_STREAM_END)
                     \/ /\ Decodes(l, u, p) /\ ~(AllOut(y) /\ ending)
                        /\ Settle(Advance(g, y), Left(y),
                                  IF l.stalled /\ y.stalled THEN UNIZIP_DATA_ERROR
                                  ELSE UNIZIP_OK)
                     \/ InRange(l, u, p) /\ Settle(Advance(g, y), Failed(y), UNIZIP_MEM_ERROR)

\* Mutant: the pointers move on every call, beside the positions.
ZstdAdvance_everyCall(g, y) == Advance(g, y)

\* The totals follow, the pointers only at the end.
ZstdAdvance(g, y) ==
    [g EXCEPT !.total_in  = g.total_in + (y.read - lib.read),
              !.total_out = g.total_out + (y.wrote - lib.wrote),
              !.next_in   = IF AllOut(y) THEN g.next_in + y.read ELSE g.next_in,
              !.next_out  = IF AllOut(y) THEN g.next_out + y.wrote ELSE g.next_out]

\* in.pos and in.size are read and read + avail_in; so for out.
zstd_inflate(g) ==
    LET l == Loaded(g)
    IN  \/ \E u \in 0 .. l.avail_in, p \in 0 .. l.avail_out :
              LET y == Moved(l, u, p)
              IN  \/ /\ Decodes(l, u, p) /\ AllOut(y)
                     /\ Settle(ZstdAdvance(g, y), Ended(y), UNIZIP_STREAM_END)
                  \/ /\ Decodes(l, u, p) /\ ~AllOut(y)
                     /\ Settle(ZstdAdvance(g, y), y, UNIZIP_OK)
        \/ Settle(g, Failed(l), UNIZIP_MEM_ERROR)

\* The caller's grant as it is; what the call moved is added to the pointers
\* and totals and taken from the grant.
Passed(g) == [lib EXCEPT !.avail_in = g.avail_in, !.avail_out = g.avail_out]
Returned(g, y) ==
    LET i == y.read - lib.read
        o == y.wrote - lib.wrote
    IN  [next_in  |-> g.next_in + i,  total_in  |-> g.total_in + i,  avail_in  |-> y.avail_in,
         next_out |-> g.next_out + o, total_out |-> g.total_out + o, avail_out |-> y.avail_out]

\* Mutant: the end is when all the input granted was read.
BrotliSaid_inputGone(y) == IF y.avail_in = 0 THEN UNIZIP_STREAM_END ELSE UNIZIP_OK

\* Whatever BrotliDecoderDecompressStream returns, the call that made it
\* returns OK; ctx->ret is looked at by the next.
BrotliSaid(y) == UNIZIP_OK

brotli_inflate(g) ==
    \/ lib.mode = "success" /\ Settle(g, Ended(lib), UNIZIP_STREAM_END)
    \/ lib.mode = "failed"  /\ Settle(g, lib, UNIZIP_ERRNO)
    \/ /\ lib.mode = "open"
       /\ LET l == Passed(g)
          IN  \E u \in 0 .. l.avail_in, p \in 0 .. l.avail_out :
                 LET y == Moved(l, u, p)
                     z == IF AllOut(y) THEN [y EXCEPT !.mode = "success"] ELSE y
                 IN  \/ Decodes(l, u, p) /\ Settle(Returned(g, z), z, BrotliSaid(z))
                     \/ InRange(l, u, p) /\ Settle(Returned(g, y), Failed(y), BrotliSaid(y))

\* The first call reads the properties, and leaves avail_in as it is.
Zip7Passed(g) ==
    IF g.total_in = 0 THEN [Passed(g) EXCEPT !.read = PropsLen] ELSE Passed(g)

\* What LzmaDec_DecodeToBuf returns is not looked at, only its status.  Without
\* memory for the decoder nothing moves, and the next call is the first again.
zip7_inflate(g) ==
    LET l == Zip7Passed(g)
    IN  \/ g.total_in = 0 /\ Settle(g, lib, UNIZIP_MEM_ERROR)
        \/ g.avail_in = 0 /\ Settle(Returned(g, l), Ended(l), UNIZIP_STREAM_END)
        \/ /\ g.avail_in > 0
           /\ \E u \in 0 .. l.avail_in, p \in 0 .. l.avail_out :
                 LET y == Moved(l, u, p)
                 IN  \/ /\ Decodes(l, u, p) /\ AllOut(y)
                        /\ Settle(Returned(g, y), Ended(y), UNIZIP_STREAM_END)
                     \/ /\ Decodes(l, u, p) /\ ~AllOut(y)
                        /\ Settle(Returned(g, y), y, UNIZIP_OK)

\* inflateCB_*.
Call(g, flush) ==
    /\ \/ codec = "bzip2"  /\ lib.mode = "open" /\ bzip2_inflate(g)
       \/ codec = "xz"     /\ lib.mode = "open" /\ xz_inflate(g, flush)
       \/ codec = "zstd"   /\ lib.mode = "open" /\ zstd_inflate(g)
       \/ codec = "brotli" /\ lib.mode \notin {"none", "ended"} /\ brotli_inflate(g)
       \/ codec = "zip7"   /\ lib.mode = "open" /\ zip7_inflate(g)
    /\ UNCHANGED codec

\* A new ctx and decoder; without memory for the ctx nothing, without memory
\* for the decoder a ctx that cannot be used.  The allocations brotli makes at
\* the start, and all of 7zip's, are not checked: that program is gone.
Opened(s, checked) ==
    \/ Settle(s, Lib("open"), UNIZIP_OK)
    \/ checked /\ Settle(s, Lib("none"), UNIZIP_MEM_ERROR)
    \/ codec \in OwnBooks /\ Settle(s, Lib("failed"), UNIZIP_MEM_ERROR)

inflateInitCB ==
    /\ lib.mode = "none"
    /\ Opened(ResetStream, codec \in OwnBooks)
    /\ phase' = "fresh"
    /\ UNCHANGED codec

\* inflateResetCB_*: brotli and 7zip leave the caller's fields as they are.
inflateResetCB ==
    /\ lib.mode # "none"
    /\ Opened(IF codec \in OwnBooks THEN ResetStream ELSE strm, codec # "zip7")
    /\ phase' = "stale"
    /\ UNCHANGED codec

inflateEndCB ==
    /\ lib.mode # "none"
    /\ Settle(ResetStream, Lib("none"), UNIZIP_OK)
    /\ phase' = "stale"
    /\ UNCHANGED codec

-----------------------------------------------------------------------------
(***************************************************************************)
(* The callers.  test_InflateSeg grants what is left of the stream in      *)
(* pieces; test_InflateAll all of it.  Who always grants all that is left  *)
(* may also do it with Z_FINISH, which only xz looks at.                   *)
(***************************************************************************)

\* After a reset: pointers and counters to zero.
StartOver ==
    /\ lib.mode # "none" /\ phase = "stale"
    /\ strm' = ResetStream
    /\ phase' = "fresh"
    /\ UNCHANGED <<codec, lib, status>>

Rest == IF strm.total_in < CallersLen THEN CallersLen - strm.total_in ELSE 0

Granting(n, m) ==
    /\ status # UNIZIP_STREAM_END
    /\ n \in (IF Rest = 0 THEN {0} ELSE 1 .. Rest)
    /\ m <= DstLen - strm.total_out

Piece(n, m) ==
    /\ phase \in {"fresh", "pieces", "whole"}
    /\ Granting(n, m)
    /\ Call(Grant(strm, n, m), NoFlush)
    /\ phase' = IF phase # "pieces" /\ n = Rest THEN "whole" ELSE "pieces"

\* Everything that is left, and the end asked for from here on.
FinishRest(m) ==
    /\ phase \in {"fresh", "whole", "finishing"}
    /\ Granting(Rest, m)
    /\ Call(Grant(strm, Rest, m), Finish)
    /\ phase' = "finishing"

Drive ==
    \/ \E m \in 1 .. MaxGrant :
          FinishRest(m) \/ \E n \in 0 .. MaxGrant : Piece(n, m)
    \/ StartOver

Init ==
    /\ codec \in Codecs
    /\ strm = ResetStream
    /\ lib = Lib("none")
    /\ status = UNIZIP_OK
    /\ phase = "stale"

Next == Drive \/ inflateInitCB \/ inflateResetCB \/ inflateEndCB

\* A caller that has a stream and can go on with it does so; that memory runs
\* out is nothing to count on.
FairSpec ==
    Init /\ [][Next]_vars /\ WF_vars(Drive /\ lib'.mode # "failed" /\ status' # UNIZIP_MEM_ERROR)

-----------------------------------------------------------------------------
(***************************************************************************)
(* What should hold.                                                       *)
(***************************************************************************)

Types ==
    /\ codec \in Codecs
    /\ strm \in Streams(StreamLen, DstLen, MaxGrant)
    /\ lib \in Libs
    /\ status \in Status
    /\ phase \in {"stale", "fresh", "pieces", "whole", "finishing"}

Live == lib.mode # "none" /\ phase # "stale"

\* Where the next call reads and writes: zstd's positions count from pointers
\* that stay where they were.
Base(s) == IF codec = "zstd" /\ lib.mode # "ended" THEN 0 ELSE s

\* The decoder reads and writes on where it stopped, whichever of the caller's
\* fields the adapter moves and when, and inside the caller's buffers; only
\* after a failed call of bzip2 or zstd, which touches no field, is a position
\* lost.  The variables keep their types.
InOrder ==
    /\ Types
    /\ Live /\ ~(lib.mode = "failed" /\ codec \in {"bzip2", "zstd"}) =>
          /\ strm.total_in = lib.read /\ strm.next_in = Base(lib.read)
          /\ strm.total_out = lib.wrote /\ strm.next_out = Base(lib.wrote)
          /\ codec \in OwnBooks => /\ lib.read + lib.avail_in <= StreamLen
                                   /\ lib.wrote + lib.avail_out <= DstLen

\* A 7zip stream is cut short if its last byte was read by a call that filled
\* all its room: what that call could not write is never asked for.
CutShort == codec = "zip7" /\ lib.full

Contract == INSTANCE ZContract WITH
                InLen  <- StreamLen,
                OutLen <- PlainLen,
                taken  <- IF ~Live THEN 0
                          ELSE IF Rest = 0 THEN StreamLen ELSE strm.total_in,
                given  <- IF Live THEN strm.total_out ELSE 0,
                ended  <- (Live /\ status = UNIZIP_STREAM_END /\ ~CutShort)

\* Every decoder keeps the promise of a streaming codec (ZContract): no count
\* goes back, and the end is reported with the last byte delivered, but for the
\* one case of 7zip.
KeepsContract == Contract!Spec

\* A caller that no longer starts over or gives up sees the end of its stream,
\* if memory lasts; one that hands xz its stream in pieces, without Z_FINISH,
\* sees all the data.
Ends == <>[][Drive]_vars
            => <>[](\/ status = UNIZIP_STREAM_END \/ lib.mode \in {"none", "failed"}
                    \/ codec = "xz" /\ lib.wrote = PlainLen)

=============================================================================
