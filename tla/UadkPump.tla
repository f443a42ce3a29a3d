------------------------------ MODULE UadkPump ------------------------------
(***************************************************************************)
(* Compression and decompression on the accelerator: deflateCB_uadk and    *)
(* inflateCB_uadk and, one call for all of the data, hw_stream_compress    *)
(* and hw_stream_decompress, all pumping the source block by block through *)
(* hw_send_and_recv; with the Init, Reset and End of a stream.             *)
(*                                                                         *)
(* The data takes a detour: memcpy into a block shared with the device,    *)
(* where opdata->in marks what it has to read next, and memcpy out of      *)
(* another.  So there are four sets of books for one stream: the caller's  *)
(* unizip_stream, the zip_stream behind ud, opdata, and the locals of the  *)
(* pump.  One step is one block loaded, one request to the device with its *)
(* output copied out, or the return.                                       *)
(*                                                                         *)
(* A plain byte is a byte of the coded form, which ends with TailLen bytes *)
(* more: the device writes them if the finishing request brings input, and *)
(* append_store_block if it brings none.                                   *)
(***************************************************************************)
EXTENDS ZStream

CONSTANTS PlainLen,    \* bytes of the plain form
          TailLen,     \* bytes that end the coded form
          MaxChunk,    \* MAX_STREAM_CHUNK: the size of a block, DMEMSIZE
          OneChunk,    \* DEFAULT_STREAM_CHUNK: the part of it a one-shot uses
          DeflateMin,  \* DEFLATE_MIN_CHUNK
          InflateMin,  \* INFLATE_MIN_CHUNK
          MaxGrant     \* bound on what a call is granted

ASSUME LengthAssumption == PlainLen \in Nat \ {0} /\ TailLen \in Nat \ {0}
ASSUME ChunkAssumption  == /\ DeflateMin \in Nat /\ DeflateMin > TailLen
                           /\ InflateMin \in 1 .. MaxChunk
                           /\ MaxChunk \in Nat /\ MaxChunk >= DeflateMin
                           /\ OneChunk \in Nat /\ OneChunk > TailLen
                           /\ OneChunk <= MaxChunk
ASSUME GrantAssumption  == MaxGrant \in Nat \ {0}

VARIABLES strm,    \* the caller's unizip_stream
          zs,      \* the zip_stream behind it: avail and totals
          dev,     \* the device and opdata
          pump,    \* the locals of the call in progress
          status   \* what the last call returned

vars == <<strm, zs, dev, pump, status>>

CodedLen == PlainLen + TailLen

\* WCRYPTO_DEFLATE and WCRYPTO_INFLATE: from which form to which.
Kinds == {"deflate", "inflate"}
SrcLen(kind) == IF kind = "deflate" THEN PlainLen ELSE CodedLen

\* off is opdata->in - ctl->in; fresh is WCRYPTO_COMP_STREAM_NEW.  A stream the
\* device failed on is "failed" until it is reset or ended.
Devices == [mode : {"none", "open", "failed"}, kind : Kinds, fresh : BOOLEAN,
            read : 0 .. CodedLen, wrote : 0 .. CodedLen, off : 0 .. MaxChunk]

\* base is where in the source the block's first byte comes from; src, srclen,
\* dst, err and out (out_stream_chunk) are the code's; chunk is the block's
\* part in use; room is a one-shot's *destLen.
Pumps == [at : {"idle", "load", "run", "return"}, oneshot : BOOLEAN, flush : {NoFlush, Finish},
          src : 0 .. CodedLen, srclen : 0 .. CodedLen, dst : 0 .. CodedLen,
          base : 0 .. CodedLen, chunk : {MaxChunk, OneChunk}, out : 0 .. MaxChunk,
          room : 0 .. CodedLen, err : {UNIZIP_OK, UNIZIP_STREAM_END}]

ZipStreams == [avail_in : 0 .. MaxChunk, avail_out : 0 .. MaxChunk,
               total_in : 0 .. CodedLen, total_out : 0 .. CodedLen]

NewZip == [avail_in |-> 0, avail_out |-> 0, total_in |-> 0, total_out |-> 0]

Device(mode, kind) ==
    [mode |-> mode, kind |-> kind, fresh |-> TRUE, read |-> 0, wrote |-> 0, off |-> 0]

AtRest == [at |-> "idle", oneshot |-> FALSE, flush |-> NoFlush, src |-> 0,
           srclen |-> 0, dst |-> 0, base |-> 0, chunk |-> MaxChunk,
           out |-> 0, room |-> 0, err |-> UNIZIP_OK]

-----------------------------------------------------------------------------
(***************************************************************************)
(* wcrypto_do_comp, as hw_send_and_recv uses it (external): of n bytes it  *)
(* reads some, at least one if there is room, and keeps nothing back: the  *)
(* code asks for no more output once all input is read.                    *)
(***************************************************************************)

Smaller(a, b) == IF a < b THEN a ELSE b

Produced(u, n, finishing) ==
    IF dev.kind = "deflate" THEN u + (IF finishing /\ u = n THEN TailLen ELSE 0)
    ELSE Smaller(dev.read + u, PlainLen) - dev.wrote

MayConsume(n, m, finishing) == {u \in 0 .. n : Produced(u, n, finishing) <= m}

Consumable(n, m, finishing) ==
    LET some == MayConsume(n, m, finishing) \ {0}
    IN  IF some = {} THEN {0} ELSE some

-----------------------------------------------------------------------------
(***************************************************************************)
(* hw_deflate and hw_inflate: hw_send_and_recv.                            *)
(***************************************************************************)

\* Mutant: the mark is not moved.
NextOff_notMoved(off, u, left) == IF left > 0 THEN off ELSE 0

\* The zip_stream after u bytes were consumed and p produced.
Booked(z, u, p, fresh) ==
    [avail_in  |-> z.avail_in - u,
     avail_out |-> z.avail_out - p,
     total_in  |-> (IF fresh THEN 0 ELSE z.total_in) + u,
     total_out |-> (IF fresh THEN 0 ELSE z.total_out) + p]

\* opdata->in: past what was consumed, or back at the start of the block.
NextOff(off, u, left) == IF left > 0 THEN off + u ELSE 0

\* The end: of a finishing request, or where the device found it.
Err(read, finishing) ==
    IF finishing \/ (dev.kind = "inflate" /\ read = CodedLen)
    THEN UNIZIP_STREAM_END ELSE UNIZIP_OK

\* The outer loop: hw_stream_decompress goes on until it is told of the end.
GoesOn(err, srclen) ==
    IF pump.oneshot /\ dev.kind = "inflate" THEN err # UNIZIP_STREAM_END ELSE srclen > 0

\* Mutant: the room is compared with what is already out.
TooLong_before(z) == pump.oneshot /\ dev.kind = "inflate" /\ pump.dst > pump.room

\* hw_stream_decompress looks at the room it has before it copies.
TooLong(z) == pump.oneshot /\ dev.kind = "inflate" /\ z.total_out > pump.room

\* hw_send_and_recv with something for the device to do, and the memcpy.
Request(z, finishing) ==
    \E u \in Consumable(z.avail_in, z.avail_out, finishing) :
        LET p   == Produced(u, z.avail_in, finishing)
            z2  == Booked(z, u, p, dev.fresh)
            err == Err(dev.read + u, finishing)
        IN  /\ zs' = z2
            /\ \/ /\ ~TooLong(z2)
                  /\ dev' = [dev EXCEPT !.fresh = FALSE, !.read = @ + u, !.wrote = @ + p,
                                !.off = NextOff(@, u, z2.avail_in)]
                  /\ pump' = [pump EXCEPT !.dst = @ + p, !.err = err,
                                !.at = IF z2.avail_in > 0 THEN "run"
                                       ELSE IF GoesOn(err, pump.srclen) THEN "load" ELSE "return"]
                  /\ UNCHANGED status
               \/ /\ TooLong(z2)
                  /\ dev' = Device("none", "inflate") /\ pump' = AtRest
                  /\ status' = UNIZIP_MEM_ERROR

\* append_store_block: the end of the stream without the device.
append_store_block(z) ==
    /\ zs' = [z EXCEPT !.avail_out = @ - TailLen, !.total_out = @ + TailLen]
    /\ dev' = [dev EXCEPT !.wrote = @ + TailLen]
    /\ pump' = [pump EXCEPT !.dst = @ + TailLen, !.err = UNIZIP_STREAM_END,
                            !.at = "return"]
    /\ UNCHANGED status

-----------------------------------------------------------------------------
(***************************************************************************)
(* The pump.                                                               *)
(***************************************************************************)

\* Mutant: the caller's room is taken as it is.
OutChunk_asGranted(m) == m

\* out_stream_chunk, of the m bytes the caller granted.
OutChunk(m) ==
    LET least == IF dev.kind = "deflate" THEN DeflateMin ELSE InflateMin
    IN  IF m < least THEN least ELSE Smaller(m, MaxChunk)

\* The next n bytes of the source are in the block.
Loaded(q, n) ==
    [q EXCEPT !.at = "run", !.base = q.src, !.src = q.src + n, !.srclen = q.srclen - n]

\* memcpy into the block; a compressing one-shot finishes with the last of it,
\* and without anything to load decompression is over.
Load ==
    /\ pump.at = "load"
    /\ LET n == Smaller(pump.srclen, pump.chunk)
       IN  /\ zs' = [zs EXCEPT !.avail_in = n]
           /\ pump' = IF dev.kind = "inflate" /\ n = 0
                      THEN [pump EXCEPT !.at = "return", !.err = UNIZIP_STREAM_END]
                      ELSE [Loaded(pump, n) EXCEPT
                               !.flush = IF pump.oneshot /\ n = pump.srclen /\ dev.kind = "deflate"
                                         THEN Finish ELSE pump.flush]
    /\ UNCHANGED <<strm, dev, status>>

\* hw_deflate or hw_inflate and the memcpy of what it wrote.
Run ==
    /\ pump.at = "run"
    /\ LET z == [zs EXCEPT !.avail_out = pump.out]
           finishing == pump.flush = Finish
       IN  \/ finishing /\ z.avail_in = 0 /\ append_store_block(z)
           \/ ~(finishing /\ z.avail_in = 0) /\ Request(z, finishing)
    /\ UNCHANGED strm

\* The device fails, or finds that what it reads is not a coded form: the
\* callbacks return at once with the caller's stream as it was, the one-shots
\* with their own ended.
Fail ==
    /\ pump.at = "run"
    /\ ~(pump.flush = Finish /\ zs.avail_in = 0)
    /\ dev' = IF pump.oneshot THEN Device("none", dev.kind) ELSE [dev EXCEPT !.mode = "failed"]
    /\ status' = UNIZIP_STREAM_ERROR
    /\ pump' = AtRest
    /\ UNCHANGED <<strm, zs>>

\* Mutant: every call ends the stream.
Return_alwaysEnds ==
    /\ pump.at = "return"
    /\ pump' = [pump EXCEPT !.at = "idle"]
    /\ strm' = [next_in  |-> pump.src, avail_in  |-> zs.avail_in,
                total_in |-> zs.total_in, next_out |-> pump.dst,
                avail_out |-> zs.avail_out, total_out |-> zs.total_out]
    /\ status' = UNIZIP_STREAM_END
    /\ UNCHANGED <<zs, dev>>

\* All is pumped.  A one-shot reports *dstlen (dst) and no STREAM_END.
Return ==
    /\ pump.at = "return"
    /\ pump' = [pump EXCEPT !.at = "idle"]
    /\ IF pump.oneshot
       THEN /\ status' = UNIZIP_OK
            /\ dev' = [dev EXCEPT !.mode = "none"]
            /\ UNCHANGED strm
       ELSE /\ status' = pump.err
            /\ strm' = [next_in  |-> pump.src, avail_in  |-> zs.avail_in,
                        total_in |-> zs.total_in, next_out |-> pump.dst,
                        avail_out |-> zs.avail_out, total_out |-> zs.total_out]
            /\ UNCHANGED dev
    /\ UNCHANGED zs

\* deflateCB_uadk or inflateCB_uadk is entered with the granted stream g.
CodeCB(g, flush) ==
    /\ pump.at = "idle" /\ dev.mode = "open"
    /\ strm' = g
    /\ pump' = [AtRest EXCEPT !.at = "load", !.flush = flush, !.src = g.next_in,
                    !.srclen = g.avail_in, !.dst = g.next_out,
                    !.out = OutChunk(g.avail_out)]
    /\ zs' = [zs EXCEPT !.total_in = g.total_in, !.total_out = g.total_out]
    /\ UNCHANGED <<dev, status>>

\* hw_stream_compress, or hw_stream_decompress of n bytes, which may be less than
\* a coded form, each with a stream of its own; only the latter looks at the
\* room it is given.
OneShot(kind, n, room) ==
    /\ pump.at = "idle" /\ dev.mode = "none"
    /\ zs' = NewZip
    /\ UNCHANGED strm
    /\ \/ /\ dev' = Device("open", kind)
          /\ pump' = [AtRest EXCEPT !.at = "load", !.oneshot = TRUE, !.srclen = n,
                          !.chunk = OneChunk, !.out = OneChunk, !.room = room]
          /\ UNCHANGED status
       \/ /\ dev' = Device("none", kind) /\ pump' = AtRest
          /\ status' = UNIZIP_MEM_ERROR

\* The caller's stream is cleared by resetUadk.
Started(ret, mode, kind) ==
    /\ strm' = ResetStream
    /\ zs' = NewZip /\ dev' = Device(mode, kind) /\ pump' = AtRest
    /\ status' = ret

\* hw_init took a queue and all that goes with it, or gave back what it took;
\* without memory for the zip_stream the caller's is not cleared either.
TakeQueue(kind) ==
    \/ Started(UNIZIP_OK, "open", kind)
    \/ Started(UNIZIP_MEM_ERROR, "none", kind)
    \/ /\ status' = UNIZIP_MEM_ERROR
       /\ dev' = Device("none", kind) /\ pump' = AtRest
       /\ UNCHANGED <<strm, zs>>

\* deflateInitCB_uadk, inflateInitCB_uadk.
InitCB(kind) ==
    /\ pump.at = "idle" /\ dev.mode = "none"
    /\ TakeQueue(kind)

\* hw_end, then Init.
ResetCB ==
    /\ pump.at = "idle" /\ dev.mode # "none"
    /\ TakeQueue(dev.kind)

EndCB ==
    /\ pump.at = "idle" /\ dev.mode # "none"
    /\ Started(UNIZIP_OK, "none", dev.kind)

-----------------------------------------------------------------------------
(***************************************************************************)
(* The callers: pieces of the source of any size but none, with any room;  *)
(* the last may come with the finish, when compressing if it is no longer  *)
(* than a block.                                                           *)
(***************************************************************************)

Rest == SrcLen(dev.kind) - strm.next_in

Feed(n, m) ==
    /\ status # UNIZIP_STREAM_END
    /\ n <= Rest
    /\ CodeCB(Grant(strm, n, m), NoFlush)

AskForEnd(m) ==
    /\ status # UNIZIP_STREAM_END
    /\ dev.kind = "deflate" => Rest <= MaxChunk
    /\ CodeCB(Grant(strm, Rest, m), Finish)

Init ==
    /\ strm = ResetStream
    /\ zs = NewZip
    /\ dev = Device("none", "deflate")
    /\ pump = AtRest
    /\ status = UNIZIP_OK

Next ==
    \/ \E m \in 1 .. MaxGrant : AskForEnd(m) \/ \E n \in 1 .. MaxGrant : Feed(n, m)
    \/ OneShot("deflate", PlainLen, 0)
    \/ \E n \in 0 .. CodedLen, room \in 0 .. PlainLen : OneShot("inflate", n, room)
    \/ Load \/ Run \/ Fail \/ Return
    \/ (\E kind \in Kinds : InitCB(kind)) \/ ResetCB \/ EndCB

Spec == Init /\ [][Next]_vars

\* A call in progress goes on.
FairSpec == Spec /\ WF_vars(Load \/ Run \/ Return)

-----------------------------------------------------------------------------
(***************************************************************************)
(* What should hold.                                                       *)
(***************************************************************************)

TypeOK ==
    /\ strm \in [next_in : 0 .. CodedLen, avail_in : 0 .. CodedLen,
                 total_in : 0 .. CodedLen, next_out : 0 .. CodedLen,
                 avail_out : (0 .. MaxGrant) \cup (0 .. MaxChunk), total_out : 0 .. CodedLen]
    /\ zs \in ZipStreams
    /\ dev \in Devices
    /\ pump \in Pumps
    /\ status \in Status

\* Wherever the loops are, the four sets of books agree.  Before each request
\* the device's mark stands, in the block, on the source byte that follows
\* those it has read, with all of the rest of the block and no more ahead of
\* it, and the output goes behind what was written before; between calls the
\* caller's pointers and totals are where the device is
\* (unizip_algorithm_uadk.c:237-247, unizip_callback_uadk.c:90-122).  The
\* variables keep their types.
InOrder ==
    /\ TypeOK
    /\ pump.at # "idle" =>
          /\ dev.wrote = pump.dst
          /\ dev.read + (IF pump.at = "run" THEN zs.avail_in ELSE 0) = pump.src
          /\ pump.at = "run" => /\ pump.base + dev.off = dev.read
                                /\ dev.off + zs.avail_in <= pump.chunk
          /\ pump.at = "load" => dev.off = 0
    /\ pump.at = "idle" /\ dev.mode = "open" =>
          /\ strm.next_in = dev.read /\ strm.total_in = dev.read
          /\ strm.next_out = dev.wrote /\ strm.total_out = dev.wrote

\* A decompressing one-shot never writes more than it has room for, and is not
\* told that there was too little if the plain form fits
\* (unizip_algorithm_uadk.c:461: total_out runs ahead of what is copied).
RoomDecides ==
    /\ [][pump'.oneshot /\ dev'.kind = "inflate" => pump'.dst <= pump'.room]_vars
    /\ [][pump.at = "run" /\ status' = UNIZIP_MEM_ERROR /\ status # UNIZIP_MEM_ERROR
             => pump.room < PlainLen]_vars

\* Every call returns: the loops end whatever the device consumes at a time
\* and however little room there is (DEFLATE_MIN_CHUNK sees to that).
Returns == pump.at # "idle" ~> pump.at = "idle"

\* The steps a call may still take at most: the bytes of the source the device
\* has not read, each good for a request and a block, and the way from here on.
StepsLeft ==
    LET unread == pump.srclen + (IF pump.at = "run" THEN zs.avail_in ELSE 0)
    IN  CASE pump.at = "load"   -> 4 * unread + 3
          [] pump.at = "run"    -> 4 * unread + 2
          [] pump.at = "return" -> 4 * unread + 1
          [] pump.at = "idle"   -> 0

\* Why every call returns: no turn of the loops is in vain.  Each block loaded and
\* each request brings the return nearer, whatever the device reads at a time
\* and however little room it gets (unizip_callback_uadk.c:94-116, 173-199,
\* unizip_algorithm_uadk.c:386-412, 439-470).
NeverInVain == [][pump.at # "idle" => StepsLeft' < StepsLeft]_vars

\* A stream says that it has ended, a one-shot that it could do what it was given:
\* of a source that was cut short it says so as well.
Ended ==
    /\ pump.at = "idle"
    /\ status = UNIZIP_STREAM_END \/ (pump.oneshot /\ pump.src = SrcLen(dev.kind))

Deflating == INSTANCE ZContract WITH
                 InLen  <- PlainLen,
                 OutLen <- CodedLen,
                 taken  <- IF dev.kind = "deflate" THEN dev.read ELSE 0,
                 given  <- IF dev.kind = "deflate" THEN dev.wrote ELSE 0,
                 ended  <- (dev.kind = "deflate" /\ Ended)

Inflating == INSTANCE ZContract WITH
                 InLen  <- CodedLen,
                 OutLen <- PlainLen,
                 taken  <- IF dev.kind = "inflate" THEN dev.read ELSE 0,
                 given  <- IF dev.kind = "inflate" THEN dev.wrote ELSE 0,
                 ended  <- (dev.kind = "inflate" /\ Ended)

\* Streamed or in one call, what is compressed is all of the source, once, and
\* its end is written once, before it is reported; and what is decompressed is
\* all of the plain form, before its end is reported.
KeepsContract == Deflating!Spec /\ Inflating!Spec

=============================================================================
