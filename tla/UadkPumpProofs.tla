--------------------------- MODULE UadkPumpProofs ---------------------------
(***************************************************************************)
(* Proofs about UadkPump, for every length, block size, minimum and grant. *)
(*                                                                         *)
(* The loops keep four sets of books, and each step changes some of them.  *)
(* What ties them together is that the device's mark stands on the next    *)
(* byte it has not read (base + off = read) and that the zip_stream counts *)
(* what the device did.  The end is a matter of which bytes the finishing  *)
(* request comes with: it must be the last of them, in one block if they   *)
(* are compressed, or a finish would end the stream with every block.      *)
(***************************************************************************)
EXTENDS UadkPump, TLAPS

Deflates == dev.kind = "deflate"

\* In a call the device is open, the zip_stream counts what it did, and what
\* is not loaded yet does not reach beyond the source.
Booking ==
    /\ pump.at # "idle" =>
          /\ dev.mode = "open" /\ status # UNIZIP_STREAM_END
          /\ zs.total_in = dev.read /\ zs.total_out = dev.wrote
          /\ pump.src + pump.srclen <= SrcLen(dev.kind)
          /\ Deflates => pump.out >= TailLen
    /\ pump.at = "run" /\ zs.avail_in = 0 => Deflates /\ dev.off = 0
    /\ pump.at = "return" => zs.avail_in = 0 /\ dev.off = 0
    /\ pump.at = "idle" /\ dev.mode = "open" => dev.off = 0 /\ ~pump.oneshot
    /\ dev.mode = "none" => status # UNIZIP_STREAM_END
    /\ dev.mode = "open" /\ dev.fresh => dev.read = 0 /\ dev.wrote = 0
    /\ pump.oneshot /\ dev.kind = "inflate" => pump.dst <= pump.room

\* What the device has written follows from what it has read, but for the end
\* of a coded form.
Written ==
    dev.mode = "open" =>
       /\ dev.read <= SrcLen(dev.kind)
       /\ ~Deflates => dev.wrote = Smaller(dev.read, PlainLen)
       /\ Deflates /\ pump.at \in {"load", "run"} => dev.wrote = dev.read
       /\ Deflates /\ pump.at = "idle" /\ status # UNIZIP_STREAM_END =>
             dev.wrote = dev.read

\* Who asks for the end has granted all that is left, and a compressing call
\* asks for it with the last block; what is returned at the end of the loops.
Finishing ==
    /\ pump.at # "idle" /\ (pump.flush = Finish \/ (pump.oneshot /\ Deflates)) =>
          pump.src + pump.srclen = SrcLen(dev.kind)
    /\ pump.at = "load" =>
          /\ Deflates /\ pump.flush = Finish => pump.srclen <= pump.chunk
          /\ ~Deflates /\ ~pump.oneshot /\ pump.flush = NoFlush => pump.srclen > 0
    /\ pump.at = "run" /\ Deflates =>
          /\ pump.flush = Finish => pump.srclen = 0
          /\ pump.oneshot /\ pump.srclen = 0 => pump.flush = Finish
    /\ pump.at = "return" =>
          /\ Deflates => /\ pump.err = UNIZIP_STREAM_END <=> pump.flush = Finish
                         /\ pump.oneshot => pump.flush = Finish
                         /\ dev.wrote = IF pump.flush = Finish THEN CodedLen ELSE dev.read
                         /\ pump.flush = Finish => pump.src = PlainLen
          /\ ~Deflates /\ ~pump.oneshot /\ pump.err = UNIZIP_STREAM_END =>
                pump.src = CodedLen

IInv == InOrder /\ Booking /\ Written /\ Finishing

\* What a step does in the terms of ZContract: the device reads and writes on,
\* and if the end is reported it is there; or it starts anew.
FormLen(kind) == IF kind = "deflate" THEN CodedLen ELSE PlainLen

Onward ==
    /\ ~Ended
    /\ dev'.kind = dev.kind
    /\ dev'.read \in dev.read .. SrcLen(dev.kind)
    /\ dev'.wrote \in dev.wrote .. FormLen(dev.kind)
    /\ Ended' => dev'.read = SrcLen(dev.kind) /\ dev'.wrote = FormLen(dev.kind)

Anew == dev'.read = 0 /\ dev'.wrote = 0 /\ ~Ended'

USE LengthAssumption, ChunkAssumption, GrantAssumption

-----------------------------------------------------------------------------

\* The fields, each with its type.
LEMMA Fields ==
    ASSUME TypeOK
    PROVE  /\ pump.at \in {"idle", "load", "run", "return"} /\ pump.oneshot \in BOOLEAN
           /\ pump.flush \in {NoFlush, Finish} /\ pump.chunk \in {MaxChunk, OneChunk}
           /\ pump.src \in 0 .. CodedLen /\ pump.srclen \in 0 .. CodedLen
           /\ pump.dst \in 0 .. CodedLen /\ pump.base \in 0 .. CodedLen
           /\ pump.out \in 0 .. MaxChunk /\ pump.room \in 0 .. CodedLen
           /\ pump.err \in {UNIZIP_OK, UNIZIP_STREAM_END}
           /\ dev.mode \in {"none", "open", "failed"} /\ dev.kind \in Kinds
           /\ dev.fresh \in BOOLEAN /\ dev.off \in 0 .. MaxChunk
           /\ dev.read \in 0 .. CodedLen /\ dev.wrote \in 0 .. CodedLen
           /\ zs.avail_in \in 0 .. MaxChunk /\ zs.avail_out \in 0 .. MaxChunk
           /\ zs.total_in \in 0 .. CodedLen /\ zs.total_out \in 0 .. CodedLen
           /\ CodedLen \in Nat /\ CodedLen = PlainLen + TailLen
           /\ status \in Int
BY DEF TypeOK, Pumps, Devices, ZipStreams, CodedLen, Status

\* The device is inside the source and its other form.
LEMMA Within ==
    ASSUME IInv, dev.mode = "open"
    PROVE  dev.read \in 0 .. SrcLen(dev.kind) /\ dev.wrote \in 0 .. FormLen(dev.kind)
BY Fields DEF IInv, InOrder, Written, FormLen, SrcLen, Kinds, Deflates, Smaller

\* What one request moves.
LEMMA Moves ==
    ASSUME IInv, pump.at = "run", NEW finishing \in BOOLEAN,
           finishing <=> pump.flush = Finish, ~(finishing /\ zs.avail_in = 0),
           NEW u \in Consumable(zs.avail_in, pump.out, finishing),
           NEW p, p = Produced(u, zs.avail_in, finishing)
    PROVE  /\ u \in 0 .. zs.avail_in /\ p \in 0 .. pump.out
           /\ Deflates => p = u + (IF finishing /\ u = zs.avail_in THEN TailLen ELSE 0)
           /\ ~Deflates => dev.wrote + p = Smaller(dev.read + u, PlainLen)
           /\ dev.read + u \in 0 .. SrcLen(dev.kind)
           /\ dev.wrote + p \in 0 .. FormLen(dev.kind)
<1>1. /\ u \in 0 .. zs.avail_in
      /\ u # 0 => p <= pump.out
  BY Fields DEF Consumable, MayConsume, IInv, InOrder
<1>2. dev.read + zs.avail_in = pump.src /\ pump.src + pump.srclen <= SrcLen(dev.kind)
  BY DEF IInv, InOrder, Booking
<1>3. dev.read + u \in 0 .. SrcLen(dev.kind)
  BY <1>1, <1>2, Fields DEF IInv, InOrder, SrcLen
<1>4. CASE Deflates
  <2>1. p = u + (IF finishing /\ u = zs.avail_in THEN TailLen ELSE 0)
    BY <1>4 DEF Produced, Deflates
  <2>2. p \in 0 .. pump.out
    BY <1>1, <2>1, Fields DEF IInv, InOrder
  <2>3. dev.wrote = dev.read
    BY <1>4, Fields DEF IInv, Booking, Written
  <2>4. QED
    BY <1>1, <1>3, <1>4, <2>1, <2>2, <2>3, Fields DEF IInv, InOrder, FormLen, SrcLen, Deflates
<1>5. CASE ~Deflates
  <2>1. p = Smaller(dev.read + u, PlainLen) - dev.wrote
    BY <1>5 DEF Produced, Deflates
  <2>2. dev.wrote = Smaller(dev.read, PlainLen)
    BY <1>5, Fields DEF IInv, Booking, Written
  <2>3. p \in 0 .. pump.out /\ dev.wrote + p = Smaller(dev.read + u, PlainLen)
    BY <1>1, <2>1, <2>2, Fields DEF IInv, InOrder, Smaller
  <2>4. QED
    BY <1>1, <1>3, <1>5, <2>3, Fields DEF IInv, InOrder, FormLen, Deflates, Smaller
<1>6. QED
  BY <1>4, <1>5

\* A block is loaded.
LEMMA LoadKeeps ==
    ASSUME IInv, Load
    PROVE  IInv' /\ Onward
<1> DEFINE n == Smaller(pump.srclen, pump.chunk)
<1> USE DEF Deflates
<1>1. /\ n \in 0 .. pump.srclen /\ n <= pump.chunk /\ (n = pump.srclen \/ n = pump.chunk)
      /\ pump.chunk \in 1 .. MaxChunk
  BY Fields DEF IInv, InOrder, Smaller
<1>2. /\ zs' = [zs EXCEPT !.avail_in = n] /\ UNCHANGED <<strm, dev, status>>
      /\ pump.at = "load"
  BY DEF Load
<1> HIDE DEF n
<1>3. ASSUME dev.kind = "inflate", n = 0
      PROVE  IInv' /\ pump'.at = "return"
  <2>1. pump' = [pump EXCEPT !.at = "return", !.err = UNIZIP_STREAM_END]
    BY <1>3 DEF Load, n
  <2>2. pump.srclen = 0
    BY <1>1, <1>3, Fields DEF IInv, InOrder
  <2>3. TypeOK'
    <3>1. zs' \in ZipStreams
      BY <1>1, <1>2, Fields DEF IInv, InOrder, TypeOK, ZipStreams
    <3>2. pump' \in Pumps
      BY <2>1, Fields DEF IInv, InOrder, TypeOK, Pumps
    <3>3. QED
      BY <1>2, <3>1, <3>2 DEF IInv, InOrder, TypeOK
  <2>4. InOrder' /\ Booking' /\ Written'
    BY <1>1, <1>2, <1>3, <2>1, <2>3, Fields DEF IInv, InOrder, Booking, Written, TypeOK, Pumps, ZipStreams
  <2>5. Finishing'
    BY <1>1, <1>2, <1>3, <2>1, <2>2, Fields
       DEF IInv, InOrder, Booking, Written, Finishing, TypeOK, Pumps, ZipStreams, SrcLen, NoFlush, Finish
  <2>6. QED
    BY <2>1, <2>4, <2>5 DEF IInv, InOrder, TypeOK, Pumps
<1>4. ASSUME ~(dev.kind = "inflate" /\ n = 0)
      PROVE  IInv' /\ pump'.at = "run"
  <2> DEFINE last == pump.oneshot /\ n = pump.srclen /\ dev.kind = "deflate"
  <2>1. pump' = [pump EXCEPT !.at = "run", !.base = pump.src, !.src = pump.src + n,
                             !.srclen = pump.srclen - n,
                             !.flush = IF last THEN Finish ELSE pump.flush]
    BY <1>4, Fields DEF Load, n, Loaded, IInv, InOrder, TypeOK, Pumps
  <2>2. pump.src + n \in 0 .. CodedLen /\ pump.srclen - n \in 0 .. CodedLen
    BY <1>1, <1>2, Fields DEF IInv, InOrder, Booking, SrcLen
  <2>3. TypeOK'
    <3>1. zs' \in ZipStreams
      BY <1>1, <1>2, Fields DEF IInv, InOrder, TypeOK, ZipStreams
    <3>2. pump' \in Pumps
      BY <2>1, <2>2, Fields DEF IInv, InOrder, TypeOK, Pumps
    <3>3. QED
      BY <1>2, <3>1, <3>2 DEF IInv, InOrder, TypeOK
  <2>4. InOrder'
    BY <1>1, <1>2, <2>1, <2>3, Fields DEF IInv, InOrder, TypeOK, Pumps, ZipStreams
  <2>5. Booking'
    BY <1>1, <1>2, <1>4, <2>1, Fields
       DEF IInv, InOrder, Booking, TypeOK, Pumps, ZipStreams, Kinds
  <2>6. Written'
    BY <1>2, <2>1, Fields DEF IInv, InOrder, Written, TypeOK, Pumps
  <2>7. Finishing'
    BY <1>1, <1>2, <2>1, Fields
       DEF IInv, InOrder, Finishing, TypeOK, Pumps, SrcLen, NoFlush, Finish
  <2>8. QED
    BY <2>1, <2>4, <2>5, <2>6, <2>7 DEF IInv, InOrder, TypeOK, Pumps
<1>5. Onward
  BY <1>2, <1>3, <1>4, Within, Fields DEF IInv, InOrder, Booking, Onward, Ended
<1>6. QED
  BY <1>3, <1>4, <1>5

\* A request that is copied out.
LEMMA RequestKeeps ==
    ASSUME IInv, Run, ~(pump.flush = Finish /\ zs.avail_in = 0), dev'.mode = "open"
    PROVE  IInv' /\ Onward
<1> DEFINE finishing == pump.flush = Finish
           z == [zs EXCEPT !.avail_out = pump.out]
<1> USE DEF Deflates
<1>1. z.avail_in = zs.avail_in /\ z.avail_out = pump.out
  BY DEF IInv, InOrder, TypeOK, ZipStreams
<1>2. PICK u \in Consumable(z.avail_in, z.avail_out, finishing) :
         LET p  == Produced(u, z.avail_in, finishing)
             z2 == Booked(z, u, p, dev.fresh)
             err == Err(dev.read + u, finishing)
         IN  /\ zs' = z2 /\ ~TooLong(z2)
             /\ dev' = [dev EXCEPT !.fresh = FALSE, !.read = @ + u, !.wrote = @ + p,
                                   !.off = NextOff(@, u, z2.avail_in)]
             /\ pump' = [pump EXCEPT !.dst = @ + p, !.err = err,
                            !.at = IF z2.avail_in > 0 THEN "run"
                                   ELSE IF GoesOn(err, pump.srclen) THEN "load" ELSE "return"]
             /\ UNCHANGED status
  <2>1. Request(z, finishing)
    BY <1>1 DEF Run
  <2>2. dev' # Device("none", "inflate")
    BY DEF Device
  <2>3. QED
    BY <2>1, <2>2 DEF Request
<1> DEFINE p == Produced(u, zs.avail_in, finishing)
           left == zs.avail_in - u
           err == Err(dev.read + u, finishing)
           z2 == Booked(z, u, p, dev.fresh)
<1>3. /\ u \in Consumable(zs.avail_in, pump.out, finishing)
      /\ zs' = z2 /\ ~TooLong(z2)
      /\ dev' = [dev EXCEPT !.fresh = FALSE, !.read = dev.read + u, !.wrote = dev.wrote + p,
                            !.off = NextOff(dev.off, u, z2.avail_in)]
      /\ pump' = [pump EXCEPT !.dst = pump.dst + p, !.err = err,
                     !.at = IF z2.avail_in > 0 THEN "run"
                            ELSE IF GoesOn(err, pump.srclen) THEN "load" ELSE "return"]
      /\ UNCHANGED <<status, strm>> /\ pump.at = "run"
  BY <1>1, <1>2 DEF Run
<1>4. /\ u \in 0 .. zs.avail_in /\ p \in 0 .. pump.out
      /\ Deflates => p = u + (IF finishing /\ u = zs.avail_in THEN TailLen ELSE 0)
      /\ ~Deflates => dev.wrote + p = Smaller(dev.read + u, PlainLen)
      /\ dev.read + u \in 0 .. SrcLen(dev.kind) /\ dev.wrote + p \in 0 .. FormLen(dev.kind)
  BY <1>3, Moves DEF Run
<1> HIDE DEF p
<1>5. zs' = [avail_in |-> left, avail_out |-> pump.out - p,
             total_in |-> dev.read + u, total_out |-> dev.wrote + p]
  BY <1>3, <1>4, Fields DEF Booked, IInv, InOrder, TypeOK, ZipStreams, Booking, p
<1> HIDE DEF z2
<1>6. dev' = [dev EXCEPT !.fresh = FALSE, !.read = dev.read + u, !.wrote = dev.wrote + p,
                         !.off = IF left > 0 THEN dev.off + u ELSE 0]
  BY <1>3, <1>5 DEF NextOff
<1>7. pump' = [pump EXCEPT !.dst = pump.dst + p, !.err = err,
                 !.at = IF left > 0 THEN "run"
                        ELSE IF GoesOn(err, pump.srclen) THEN "load" ELSE "return"]
  BY <1>3, <1>5
<1>8. /\ err = IF finishing \/ (dev.kind = "inflate" /\ dev.read + u = CodedLen)
               THEN UNIZIP_STREAM_END ELSE UNIZIP_OK
      /\ pump.at = "run" /\ UNCHANGED <<strm, status>>
  BY <1>3 DEF Err, Run
<1>9. TypeOK'
  <2>1. zs' \in ZipStreams
    BY <1>4, <1>5, Fields DEF IInv, InOrder, ZipStreams, SrcLen, FormLen
  <2>2. dev.read + u \in 0 .. CodedLen /\ dev.wrote + p \in 0 .. CodedLen
    BY <1>4, Fields DEF IInv, InOrder, SrcLen, FormLen
  <2>3. (IF left > 0 THEN dev.off + u ELSE 0) \in 0 .. MaxChunk
    BY <1>4, <1>8, Fields DEF IInv, InOrder
  <2>4. dev' \in Devices
    BY <1>6, <2>2, <2>3 DEF IInv, InOrder, TypeOK, Devices
  <2>5. pump' \in Pumps
    BY <1>4, <1>7, <1>8, <2>2, Fields DEF IInv, InOrder, TypeOK, Pumps
  <2>6. QED
    BY <1>8, <2>1, <2>4, <2>5 DEF IInv, InOrder, TypeOK
<1>10. InOrder'
  BY <1>4, <1>5, <1>6, <1>7, <1>8, <1>9, Fields DEF IInv, InOrder, TypeOK, Pumps, Devices
<1>11. /\ dev'.mode = dev.mode /\ dev'.kind = dev.kind /\ dev'.fresh = FALSE
       /\ dev'.read = dev.read + u /\ dev'.wrote = dev.wrote + p
       /\ left = 0 => dev'.off = 0
       /\ zs'.avail_in = left /\ zs'.total_in = dev.read + u /\ zs'.total_out = dev.wrote + p
  BY <1>4, <1>5, <1>6, Fields DEF IInv, InOrder, TypeOK, Devices
<1>12. /\ pump'.at = IF left > 0 THEN "run"
                     ELSE IF GoesOn(err, pump.srclen) THEN "load" ELSE "return"
       /\ pump'.oneshot = pump.oneshot /\ pump'.flush = pump.flush
       /\ pump'.src = pump.src /\ pump'.srclen = pump.srclen
       /\ pump'.dst = pump.dst + p /\ pump'.out = pump.out /\ pump'.room = pump.room
       /\ pump'.chunk = pump.chunk /\ pump'.err = err
  BY <1>7 DEF IInv, InOrder, TypeOK, Pumps
<1>13. Booking'
  <2>1. pump.oneshot /\ dev.kind = "inflate" => pump.dst + p <= pump.room
    BY <1>3, <1>4, <1>5, <1>8, Fields DEF TooLong, IInv, InOrder
  <2>2. QED
    BY <1>4, <1>8, <1>11, <1>12, <2>1, Fields DEF IInv, InOrder, Booking
<1>14. Written'
  BY <1>4, <1>8, <1>11, <1>12, Fields DEF IInv, InOrder, Booking, Written, GoesOn, Finishing
<1>15. Finishing'
  <2>1. CASE Deflates
    BY <1>4, <1>8, <1>11, <1>12, <2>1, Fields
       DEF IInv, InOrder, Booking, Written, Finishing, GoesOn, SrcLen, CodedLen,
           NoFlush, Finish, UNIZIP_OK, UNIZIP_STREAM_END
  <2>2. CASE ~Deflates
    BY <1>4, <1>8, <1>11, <1>12, <2>2, Fields
       DEF IInv, InOrder, Booking, Finishing, GoesOn, SrcLen,
           NoFlush, Finish, UNIZIP_OK, UNIZIP_STREAM_END
  <2>3. QED
    BY <2>1, <2>2
<1>16. Onward
  BY <1>4, <1>8, <1>11, <1>12, Fields DEF IInv, InOrder, Onward, Ended
<1>17. QED
  BY <1>10, <1>13, <1>14, <1>15, <1>16 DEF IInv

\* The end that is appended without the device.
LEMMA AppendKeeps ==
    ASSUME IInv, Run, pump.flush = Finish, zs.avail_in = 0
    PROVE  IInv' /\ Onward
<1> USE DEF Deflates
<1>1. append_store_block([zs EXCEPT !.avail_out = pump.out])
      /\ UNCHANGED strm /\ pump.at = "run"
  BY DEF Run, IInv, InOrder, TypeOK, ZipStreams
<1>2. /\ dev.kind = "deflate" /\ dev.off = 0 /\ pump.out >= TailLen
      /\ dev.mode = "open" /\ dev.read = PlainLen /\ dev.wrote = PlainLen
      /\ pump.src = PlainLen /\ pump.srclen = 0 /\ pump.dst = PlainLen
      /\ zs.total_in = PlainLen /\ zs.total_out = PlainLen
  BY <1>1, Fields DEF IInv, InOrder, Booking, Written, Finishing, SrcLen, Kinds
<1>3. /\ zs' = [avail_in |-> 0, avail_out |-> pump.out - TailLen,
                total_in |-> PlainLen, total_out |-> CodedLen]
      /\ dev' = [dev EXCEPT !.wrote = CodedLen]
      /\ pump' = [pump EXCEPT !.dst = CodedLen, !.err = UNIZIP_STREAM_END, !.at = "return"]
      /\ UNCHANGED <<strm, status>>
  BY <1>1, <1>2, Fields DEF append_store_block, IInv, InOrder, TypeOK, ZipStreams, CodedLen
<1>4. TypeOK'
  <2>1. zs' \in ZipStreams
    BY <1>2, <1>3, Fields DEF IInv, InOrder, ZipStreams
  <2>2. dev' \in Devices
    BY <1>3, Fields DEF IInv, InOrder, TypeOK, Devices
  <2>3. CodedLen \in 0 .. CodedLen /\ pump \in Pumps
    BY Fields DEF IInv, InOrder, TypeOK
  <2>4. pump' \in Pumps
    BY <1>3, <2>3 DEF Pumps
  <2>5. QED
    BY <1>3, <2>1, <2>2, <2>4 DEF IInv, InOrder, TypeOK
<1>5. /\ dev'.mode = "open" /\ dev'.kind = "deflate" /\ dev'.fresh = dev.fresh
      /\ dev'.read = PlainLen /\ dev'.wrote = CodedLen /\ dev'.off = 0
      /\ zs'.avail_in = 0 /\ zs'.total_in = PlainLen /\ zs'.total_out = CodedLen
      /\ pump'.at = "return" /\ pump'.oneshot = pump.oneshot /\ pump'.flush = Finish
      /\ pump'.src = PlainLen /\ pump'.srclen = 0 /\ pump'.dst = CodedLen
      /\ pump'.out = pump.out /\ pump'.err = UNIZIP_STREAM_END
  BY <1>2, <1>3 DEF IInv, InOrder, TypeOK, Devices, Pumps
<1>6. InOrder'
  BY <1>2, <1>4, <1>5, Fields DEF InOrder
<1>7. Booking' /\ Written' /\ Finishing'
  BY <1>1, <1>2, <1>3, <1>5, Fields
     DEF IInv, InOrder, Booking, Written, Finishing, SrcLen, NoFlush, Finish
<1>8. Onward
  BY <1>1, <1>2, <1>5, Fields DEF IInv, InOrder, Onward, Ended, SrcLen, FormLen
<1>9. QED
  BY <1>6, <1>7, <1>8 DEF IInv

\* The pump is at rest, with the device as it should be between calls.
LEMMA AtRestKeeps ==
    ASSUME TypeOK', pump' = AtRest,
           dev'.mode = "none" => status' # UNIZIP_STREAM_END,
           dev'.mode = "open" => /\ dev'.read = 0 /\ dev'.wrote = 0 /\ dev'.off = 0
                                 /\ strm'.next_in = 0 /\ strm'.total_in = 0
                                 /\ strm'.next_out = 0 /\ strm'.total_out = 0
    PROVE  IInv'
<1>1. /\ pump'.at = "idle" /\ pump'.oneshot = FALSE /\ pump'.flush = NoFlush
      /\ pump'.dst = 0 /\ pump'.room = 0
  BY DEF AtRest
<1>2. dev'.kind \in Kinds
  BY DEF TypeOK, Devices
<1>3. QED
  BY <1>1, <1>2 DEF IInv, InOrder, Booking, Written, Finishing, Smaller, SrcLen, Deflates,
                    NoFlush, Finish, CodedLen

LEMMA RestIsTyped ==
    /\ AtRest \in Pumps /\ NewZip \in ZipStreams
    /\ \A mode \in {"none", "open", "failed"}, kind \in Kinds : Device(mode, kind) \in Devices
BY DEF AtRest, Pumps, NewZip, ZipStreams, Device, Devices, CodedLen

\* A request with too little room, and one the device fails: the one-shots are
\* over, a stream waits for its reset.
LEMMA TooLongKeeps ==
    ASSUME IInv, Run, ~(pump.flush = Finish /\ zs.avail_in = 0), dev'.mode # "open"
    PROVE  IInv' /\ Anew /\ dev'.kind = dev.kind /\ pump.room < PlainLen
<1> DEFINE finishing == pump.flush = Finish
           z == [zs EXCEPT !.avail_out = pump.out]
<1>1. z.avail_in = zs.avail_in /\ z.avail_out = pump.out /\ dev.mode = "open"
      /\ pump.at = "run"
  BY DEF IInv, InOrder, TypeOK, ZipStreams, Booking, Run
<1> DEFINE After(u) == Booked(z, u, Produced(u, z.avail_in, finishing), dev.fresh)
<1>2. PICK u \in Consumable(z.avail_in, z.avail_out, finishing) :
         /\ zs' = After(u) /\ TooLong(After(u))
         /\ dev' = Device("none", "inflate") /\ pump' = AtRest
         /\ status' = UNIZIP_MEM_ERROR
  <2>1. Request(z, finishing)
    BY <1>1 DEF Run
  <2>2. PICK u \in Consumable(z.avail_in, z.avail_out, finishing) :
           /\ zs' = After(u)
           /\ \/ dev' = [dev EXCEPT !.fresh = FALSE, !.read = @ + u,
                            !.wrote = @ + Produced(u, z.avail_in, finishing),
                            !.off = NextOff(@, u, After(u).avail_in)]
              \/ /\ TooLong(After(u)) /\ dev' = Device("none", "inflate")
                 /\ pump' = AtRest /\ status' = UNIZIP_MEM_ERROR
    BY <2>1 DEF Request
  <2>3. dev' # [dev EXCEPT !.fresh = FALSE, !.read = @ + u,
                   !.wrote = @ + Produced(u, z.avail_in, finishing),
                   !.off = NextOff(@, u, After(u).avail_in)]
    BY <1>1 DEF IInv, InOrder, TypeOK, Devices
  <2>4. QED
    BY <2>2, <2>3
<1> DEFINE p == Produced(u, zs.avail_in, finishing)
<1>3. /\ u \in 0 .. zs.avail_in /\ p \in 0 .. pump.out
      /\ ~Deflates => dev.wrote + p = Smaller(dev.read + u, PlainLen)
      /\ dev.read + u \in 0 .. SrcLen(dev.kind) /\ dev.wrote + p \in 0 .. FormLen(dev.kind)
  BY <1>1, <1>2, Moves
<1> HIDE DEF p
<1>4. zs' = [avail_in |-> zs.avail_in - u, avail_out |-> pump.out - p,
             total_in |-> dev.read + u, total_out |-> dev.wrote + p]
  BY <1>1, <1>2, <1>3, Fields DEF Booked, IInv, InOrder, TypeOK, ZipStreams, Booking, p
<1>5. dev.kind = "inflate" /\ zs'.total_out > pump.room
  BY <1>2 DEF TooLong
<1>6. TypeOK'
  <2>1. zs' \in ZipStreams
    BY <1>3, <1>4, Fields DEF IInv, InOrder, ZipStreams, SrcLen, FormLen
  <2>2. QED
    BY <1>2, <2>1, RestIsTyped DEF Run, IInv, InOrder, TypeOK, Kinds, Status, UNIZIP_MEM_ERROR
<1>7. dev'.mode = "none" /\ dev'.kind = "inflate" /\ dev'.read = 0 /\ dev'.wrote = 0
  BY <1>2 DEF Device
<1>8. IInv'
  BY <1>2, <1>6, <1>7, AtRestKeeps DEF UNIZIP_MEM_ERROR, UNIZIP_STREAM_END
<1>9. Anew
  BY <1>2, <1>7 DEF Anew, Ended, AtRest, UNIZIP_MEM_ERROR, UNIZIP_STREAM_END
<1>10. pump.room < PlainLen
  <2>1. dev.wrote + p \in 0 .. PlainLen /\ dev.wrote + p > pump.room
    BY <1>3, <1>4, <1>5 DEF FormLen
  <2>2. QED
    BY <2>1, Fields DEF IInv, InOrder
<1>11. QED
  BY <1>5, <1>7, <1>8, <1>9, <1>10

LEMMA FailKeeps ==
    ASSUME IInv, Fail
    PROVE  IInv' /\ (Onward \/ Anew)
<1>1. /\ pump' = AtRest /\ status' = UNIZIP_STREAM_ERROR /\ UNCHANGED <<strm, zs>>
      /\ pump.at = "run" /\ dev.mode = "open"
  BY DEF Fail, IInv, Booking
<1>2. ~Ended /\ ~Ended'
  BY <1>1 DEF Ended, AtRest, UNIZIP_STREAM_ERROR, UNIZIP_STREAM_END
<1>3. CASE pump.oneshot
  <2>1. dev' = Device("none", dev.kind)
    BY <1>3 DEF Fail
  <2>2. dev'.mode = "none" /\ dev'.read = 0 /\ dev'.wrote = 0
    BY <2>1 DEF Device
  <2>3. TypeOK'
    BY <1>1, <2>1, RestIsTyped, Fields
       DEF IInv, InOrder, TypeOK, Status, UNIZIP_STREAM_ERROR
  <2>4. QED
    BY <1>1, <1>2, <2>2, <2>3, AtRestKeeps DEF Anew, UNIZIP_STREAM_ERROR, UNIZIP_STREAM_END
<1>4. CASE ~pump.oneshot
  <2>1. dev' = [dev EXCEPT !.mode = "failed"]
    BY <1>4 DEF Fail
  <2>2. dev' \in Devices /\ dev'.mode = "failed" /\ dev'.kind = dev.kind
        /\ dev'.read = dev.read /\ dev'.wrote = dev.wrote
    BY <2>1 DEF IInv, InOrder, TypeOK, Devices
  <2>3. TypeOK'
    BY <1>1, <2>2, RestIsTyped DEF IInv, InOrder, TypeOK, Status, UNIZIP_STREAM_ERROR
  <2>4. IInv'
    BY <1>1, <2>2, <2>3, AtRestKeeps
  <2>5. Onward
    BY <1>1, <1>2, <2>2, Within DEF Onward
  <2>6. QED
    BY <2>4, <2>5
<1>5. QED
  BY <1>3, <1>4

\* The call returns.
LEMMA ReturnKeeps ==
    ASSUME IInv, Return
    PROVE  IInv' /\ Onward
<1> USE DEF Deflates
<1>1. /\ pump.at = "return" /\ pump' = [pump EXCEPT !.at = "idle"] /\ zs' = zs
      /\ dev.mode = "open" /\ zs.avail_in = 0 /\ dev.off = 0
      /\ dev.read = pump.src /\ dev.wrote = pump.dst
      /\ zs.total_in = pump.src /\ zs.total_out = pump.dst
      /\ status # UNIZIP_STREAM_END
  BY Fields DEF Return, IInv, InOrder, Booking
<1>2. /\ pump'.at = "idle" /\ pump'.oneshot = pump.oneshot /\ pump'.src = pump.src
      /\ pump'.dst = pump.dst /\ pump'.room = pump.room /\ pump'.flush = pump.flush
  BY <1>1 DEF IInv, InOrder, TypeOK, Pumps
<1>3. pump' \in Pumps
  BY <1>1 DEF IInv, InOrder, TypeOK, Pumps
<1>4. ~Ended
  BY <1>1 DEF Ended
<1>5. /\ dev.read \in 0 .. SrcLen(dev.kind) /\ dev.wrote \in 0 .. FormLen(dev.kind)
      /\ dev.kind \in Kinds
  BY <1>1, Within, Fields DEF IInv, InOrder
<1>6. CASE pump.oneshot
  <2>1. /\ status' = UNIZIP_OK /\ dev' = [dev EXCEPT !.mode = "none"] /\ UNCHANGED strm
    BY <1>6 DEF Return
  <2>2. /\ dev'.mode = "none" /\ dev'.kind = dev.kind /\ dev'.read = dev.read
        /\ dev'.wrote = dev.wrote /\ dev' \in Devices
    BY <2>1 DEF IInv, InOrder, TypeOK, Devices
  <2>3. TypeOK'
    BY <1>1, <1>3, <2>1, <2>2 DEF IInv, InOrder, TypeOK, Status, UNIZIP_OK
  <2>4. IInv'
    BY <1>1, <1>2, <2>1, <2>2, <2>3
       DEF IInv, InOrder, Booking, Written, Finishing, UNIZIP_OK, UNIZIP_STREAM_END
  <2>5. Onward
    BY <1>1, <1>2, <1>4, <1>5, <1>6, <2>1, <2>2
       DEF IInv, Written, Finishing, Onward, Ended, SrcLen, FormLen, Kinds, Smaller,
           CodedLen, UNIZIP_OK, UNIZIP_STREAM_END
  <2>6. QED
    BY <2>4, <2>5
<1>7. CASE ~pump.oneshot
  <2>1. /\ status' = pump.err /\ UNCHANGED dev
        /\ strm' = [next_in |-> pump.src, avail_in |-> 0, total_in |-> pump.src,
                    next_out |-> pump.dst, avail_out |-> zs.avail_out,
                    total_out |-> pump.dst]
    BY <1>1, <1>7 DEF Return
  <2>2. TypeOK'
    BY <1>1, <1>3, <2>1, Fields
       DEF IInv, InOrder, TypeOK, Status, UNIZIP_OK, UNIZIP_STREAM_END
  <2>3. IInv'
    BY <1>1, <1>2, <1>7, <2>1, <2>2, Fields
       DEF IInv, InOrder, Booking, Written, Finishing, NoFlush, Finish, UNIZIP_OK, UNIZIP_STREAM_END
  <2>4. Onward
    BY <1>1, <1>2, <1>4, <1>5, <1>7, <2>1
       DEF IInv, Written, Finishing, Onward, Ended, SrcLen, FormLen, Kinds, Smaller, CodedLen
  <2>5. QED
    BY <2>3, <2>4
<1>8. QED
  BY <1>6, <1>7

\* The caller's grant of n bytes becomes the pump's.
LEMMA EnterKeeps ==
    ASSUME IInv, NEW n \in 0 .. Rest, NEW m \in 1 .. MaxGrant,
           NEW flush \in {NoFlush, Finish}, status # UNIZIP_STREAM_END,
           flush = Finish => n = Rest /\ (Deflates => Rest <= MaxChunk),
           flush = NoFlush => n > 0,
           CodeCB(Grant(strm, n, m), flush)
    PROVE  IInv' /\ Onward
<1> DEFINE g == Grant(strm, n, m)
<1> USE DEF Deflates
<1>1. /\ pump.at = "idle" /\ dev.mode = "open" /\ UNCHANGED <<dev, status>>
      /\ strm' = g /\ zs' = [zs EXCEPT !.total_in = g.total_in, !.total_out = g.total_out]
      /\ pump' = [AtRest EXCEPT !.at = "load", !.flush = flush, !.src = g.next_in,
                      !.srclen = g.avail_in, !.dst = g.next_out, !.out = OutChunk(g.avail_out)]
  BY DEF CodeCB
<1>2. /\ dev.off = 0 /\ ~pump.oneshot
      /\ strm.next_in = dev.read /\ strm.total_in = dev.read
      /\ strm.next_out = dev.wrote /\ strm.total_out = dev.wrote
  BY <1>1 DEF IInv, InOrder, Booking
<1>3. g = [next_in |-> dev.read, avail_in |-> n, total_in |-> dev.read,
           next_out |-> dev.wrote, avail_out |-> m, total_out |-> dev.wrote]
  BY <1>2 DEF Grant
<1>4. /\ OutChunk(m) \in 0 .. MaxChunk
      /\ dev.kind = "deflate" => OutChunk(m) >= TailLen
  BY DEF OutChunk, Smaller
<1>5. Rest = SrcLen(dev.kind) - dev.read /\ n \in Nat /\ dev.read + n <= SrcLen(dev.kind)
  BY <1>1, <1>2, Fields, Within DEF Rest, IInv, InOrder, SrcLen
<1>6. pump' = [at |-> "load", oneshot |-> FALSE, flush |-> flush, src |-> dev.read,
               srclen |-> n, dst |-> dev.wrote, base |-> 0, chunk |-> MaxChunk,
               out |-> OutChunk(m), room |-> 0, err |-> UNIZIP_OK]
  <2>1. /\ g.next_in = dev.read /\ g.avail_in = n /\ g.next_out = dev.wrote
        /\ g.avail_out = m
    BY <1>3
  <2>2. QED
    BY <1>1, <2>1 DEF AtRest
<1>7. zs' = [zs EXCEPT !.total_in = dev.read, !.total_out = dev.wrote]
  BY <1>1, <1>3
<1> HIDE DEF g
<1>8. TypeOK'
  <2>1. n \in 0 .. CodedLen
    BY <1>5, Fields DEF IInv, InOrder, SrcLen
  <2>2. zs' \in ZipStreams
    BY <1>7, Fields DEF IInv, InOrder, TypeOK, ZipStreams
  <2>3. pump' \in Pumps
    BY <1>4, <1>6, <2>1, Fields DEF IInv, InOrder, Pumps
  <2>4. QED
    BY <1>1, <1>3, <2>1, <2>2, <2>3, Fields DEF IInv, InOrder, TypeOK
<1>9. /\ zs'.total_in = dev.read /\ zs'.total_out = dev.wrote
      /\ dev' = dev /\ status' = status /\ dev.mode = "open" /\ pump.at = "idle"
  BY <1>1, <1>7 DEF IInv, InOrder, TypeOK, ZipStreams
<1>10. InOrder'
  BY <1>2, <1>6, <1>8, <1>9, Fields DEF IInv, InOrder
<1>11. Booking'
  BY <1>2, <1>4, <1>5, <1>6, <1>9, Fields DEF IInv, InOrder, Booking
<1>12. Written'
  BY <1>6, <1>9 DEF IInv, Written
<1>13. Finishing'
  BY <1>5, <1>6, <1>9, Fields DEF IInv, InOrder, Finishing, NoFlush, Finish, SrcLen
<1>14. Onward
  BY <1>2, <1>6, <1>9, Within, Fields DEF IInv, InOrder, Onward, Ended
<1>15. QED
  BY <1>10, <1>11, <1>12, <1>13, <1>14 DEF IInv

\* A one-shot of n bytes, all of them if it compresses.
LEMMA OneShotKeeps ==
    ASSUME IInv, NEW kind \in Kinds, NEW n \in 0 .. SrcLen(kind), NEW room \in 0 .. PlainLen,
           kind = "deflate" => n = PlainLen, OneShot(kind, n, room)
    PROVE  IInv' /\ Anew
<1> USE DEF Deflates
<1>1. /\ pump.at = "idle" /\ dev.mode = "none" /\ zs' = NewZip /\ UNCHANGED strm
      /\ status # UNIZIP_STREAM_END
  BY DEF OneShot, IInv, Booking
<1>2. CASE dev' = Device("none", kind) /\ pump' = AtRest /\ status' = UNIZIP_MEM_ERROR
  <2>1. dev'.mode = "none" /\ dev'.read = 0 /\ dev'.wrote = 0
    BY <1>2 DEF Device
  <2>2. TypeOK'
    BY <1>1, <1>2, RestIsTyped DEF IInv, InOrder, TypeOK, Status, UNIZIP_MEM_ERROR
  <2>3. QED
    BY <1>2, <2>1, <2>2, AtRestKeeps
       DEF Anew, Ended, AtRest, UNIZIP_MEM_ERROR, UNIZIP_STREAM_END
<1>3. CASE /\ dev' = Device("open", kind) /\ UNCHANGED status
           /\ pump' = [AtRest EXCEPT !.at = "load", !.oneshot = TRUE, !.srclen = n,
                          !.chunk = OneChunk, !.out = OneChunk, !.room = room]
  <2>1. pump' = [at |-> "load", oneshot |-> TRUE, flush |-> NoFlush, src |-> 0,
                 srclen |-> n, dst |-> 0, base |-> 0, chunk |-> OneChunk,
                 out |-> OneChunk, room |-> room, err |-> UNIZIP_OK]
    BY <1>3 DEF AtRest
  <2>2. dev' = [mode |-> "open", kind |-> kind, fresh |-> TRUE, read |-> 0,
                wrote |-> 0, off |-> 0]
    BY <1>3 DEF Device
  <2>3. zs' = [avail_in |-> 0, avail_out |-> 0, total_in |-> 0, total_out |-> 0]
    BY <1>1 DEF NewZip
  <2>4. n \in 0 .. CodedLen /\ room \in 0 .. CodedLen /\ CodedLen \in Nat /\ n <= SrcLen(kind)
    BY DEF SrcLen, CodedLen
  <2>5. TypeOK'
    <3>1. dev' \in Devices
      BY <1>3, RestIsTyped
    <3>2. pump' \in Pumps
      BY <2>1, <2>4 DEF Pumps
    <3>3. QED
      BY <1>1, <1>3, <3>1, <3>2, RestIsTyped DEF IInv, InOrder, TypeOK
  <2>6. InOrder'
    BY <2>1, <2>2, <2>5 DEF InOrder
  <2>7. Booking'
    <3>1. status' # UNIZIP_STREAM_END
      BY <1>1, <1>3
    <3>2. QED
      BY <2>1, <2>2, <2>3, <2>4, <3>1 DEF Booking
  <2>8. Written' /\ Finishing'
    BY <2>1, <2>2, <2>4 DEF Written, Finishing, Smaller, SrcLen, NoFlush, Finish, Kinds
  <2>9. Anew
    BY <2>1, <2>2 DEF Anew, Ended
  <2>10. QED
    BY <2>6, <2>7, <2>8, <2>9 DEF IInv
<1>4. QED
  BY <1>2, <1>3 DEF OneShot

\* The streams that are set up, set up again or ended.
LEMMA StartedKeeps ==
    ASSUME IInv, NEW ret \in {UNIZIP_OK, UNIZIP_MEM_ERROR}, NEW mode \in {"none", "open"},
           NEW kind \in Kinds, Started(ret, mode, kind)
    PROVE  IInv' /\ Anew
<1>1. /\ strm' = ResetStream /\ zs' = NewZip /\ dev' = Device(mode, kind)
      /\ pump' = AtRest /\ status' = ret
  BY DEF Started
<1>2. /\ dev'.mode = mode /\ dev'.read = 0 /\ dev'.wrote = 0 /\ dev'.off = 0
      /\ strm' = [next_in |-> 0, avail_in |-> 0, total_in |-> 0,
                  next_out |-> 0, avail_out |-> 0, total_out |-> 0]
      /\ status' # UNIZIP_STREAM_END /\ status' \in Status
  BY <1>1 DEF Device, ResetStream, Status, UNIZIP_OK, UNIZIP_MEM_ERROR, UNIZIP_STREAM_END
<1>3. TypeOK'
  BY <1>1, <1>2, RestIsTyped DEF TypeOK, CodedLen
<1>4. QED
  BY <1>1, <1>2, <1>3, AtRestKeeps DEF Anew, Ended, AtRest

LEMMA TakeQueueKeeps ==
    ASSUME IInv, NEW kind \in Kinds, TakeQueue(kind)
    PROVE  IInv' /\ Anew
<1>1. CASE Started(UNIZIP_OK, "open", kind) \/ Started(UNIZIP_MEM_ERROR, "none", kind)
  BY <1>1, StartedKeeps
<1>2. CASE /\ status' = UNIZIP_MEM_ERROR /\ dev' = Device("none", kind) /\ pump' = AtRest
           /\ UNCHANGED <<strm, zs>>
  <2>1. dev'.mode = "none" /\ dev'.read = 0 /\ dev'.wrote = 0
    BY <1>2 DEF Device
  <2>2. TypeOK'
    BY <1>2, RestIsTyped DEF IInv, InOrder, TypeOK, Status, UNIZIP_MEM_ERROR
  <2>3. QED
    BY <1>2, <2>1, <2>2, AtRestKeeps
       DEF Anew, Ended, AtRest, UNIZIP_MEM_ERROR, UNIZIP_STREAM_END
<1>3. QED
  BY <1>1, <1>2 DEF TakeQueue

-----------------------------------------------------------------------------
(***************************************************************************)
(* The specification.                                                      *)
(***************************************************************************)

LEMMA Initially == Init => IInv
<1> SUFFICES ASSUME Init PROVE IInv
  OBVIOUS
<1>1. /\ pump.at = "idle" /\ ~pump.oneshot /\ dev.mode = "none" /\ status = UNIZIP_OK
  BY DEF Init, AtRest, Device
<1>2. TypeOK
  BY RestIsTyped DEF Init, TypeOK, ResetStream, Status, UNIZIP_OK, CodedLen, Kinds
<1>3. QED
  BY <1>1, <1>2 DEF IInv, InOrder, Booking, Written, Finishing, UNIZIP_OK, UNIZIP_STREAM_END

\* Every step keeps the invariant and goes on or starts anew.
LEMMA StepKeeps ==
    ASSUME IInv, Next
    PROVE  IInv' /\ (Onward \/ Anew)
<1>1. ASSUME NEW m \in 1 .. MaxGrant, AskForEnd(m)
      PROVE  IInv' /\ Onward
  <2>1. /\ status # UNIZIP_STREAM_END /\ (Deflates => Rest <= MaxChunk)
        /\ CodeCB(Grant(strm, Rest, m), Finish)
    BY <1>1 DEF AskForEnd, Deflates
  <2>2. dev.mode = "open" /\ pump.at = "idle"
    BY <2>1 DEF CodeCB
  <2>3. Rest \in 0 .. Rest
    BY <2>2, Within, Fields DEF Rest, IInv, InOrder, SrcLen
  <2>4. QED
    BY <2>1, <2>3, EnterKeeps DEF NoFlush, Finish
<1>2. ASSUME NEW m \in 1 .. MaxGrant, NEW n \in 1 .. MaxGrant, Feed(n, m)
      PROVE  IInv' /\ Onward
  <2>1. /\ status # UNIZIP_STREAM_END /\ n <= Rest
        /\ CodeCB(Grant(strm, n, m), NoFlush)
    BY <1>2 DEF Feed
  <2>2. dev.mode = "open" /\ pump.at = "idle"
    BY <2>1 DEF CodeCB
  <2>3. n \in 0 .. Rest
    BY <2>1, <2>2, Within, Fields DEF Rest, IInv, InOrder, SrcLen
  <2>4. QED
    BY <2>1, <2>3, EnterKeeps DEF NoFlush, Finish
<1>3. ASSUME OneShot("deflate", PlainLen, 0)
      PROVE  IInv' /\ Anew
  BY <1>3, OneShotKeeps DEF Kinds, SrcLen
<1>4. ASSUME NEW n \in 0 .. CodedLen, NEW room \in 0 .. PlainLen, OneShot("inflate", n, room)
      PROVE  IInv' /\ Anew
  BY <1>4, OneShotKeeps DEF Kinds, SrcLen
<1>5. ASSUME Run
      PROVE  IInv' /\ (Onward \/ Anew)
  BY <1>5, RequestKeeps, AppendKeeps, TooLongKeeps
<1>6. ASSUME NEW kind \in Kinds, InitCB(kind)
      PROVE  IInv' /\ Anew
  BY <1>6, TakeQueueKeeps DEF InitCB
<1>7. ASSUME ResetCB
      PROVE  IInv' /\ Anew
  BY <1>7, TakeQueueKeeps, Fields DEF ResetCB, IInv, InOrder
<1>8. ASSUME EndCB
      PROVE  IInv' /\ Anew
  BY <1>8, StartedKeeps, Fields DEF EndCB, IInv, InOrder
<1>9. QED
  BY <1>1, <1>2, <1>3, <1>4, <1>5, <1>6, <1>7, <1>8, LoadKeeps, FailKeeps, ReturnKeeps DEF Next

LEMMA IdleKeeps ==
    ASSUME IInv, UNCHANGED vars
    PROVE  IInv'
BY DEF vars, IInv, InOrder, TypeOK, Booking, Written, Finishing, Deflates

\* Going on is Progress or Complete in one of the two contracts and nothing in
\* the other; starting anew is Restart in both.
LEMMA StepPromised ==
    ASSUME IInv, IInv', Onward \/ Anew
    PROVE  [Deflating!Next]_(Deflating!vars) /\ [Inflating!Next]_(Inflating!vars)
<1>1. CASE Anew
  BY <1>1 DEF Anew, Deflating!Next, Deflating!Restart, Inflating!Next, Inflating!Restart
<1>2. CASE Onward /\ dev.kind = "deflate"
  <2>1. /\ dev'.kind = "deflate" /\ ~Ended
        /\ dev'.read \in dev.read .. PlainLen /\ dev'.wrote \in dev.wrote .. CodedLen
        /\ Ended' => dev'.read = PlainLen /\ dev'.wrote = CodedLen
    BY <1>2 DEF Onward, SrcLen, FormLen
  <2>2. [Inflating!Next]_(Inflating!vars)
    BY <1>2, <2>1 DEF Inflating!vars
  <2>3. CASE Ended'
    BY <1>2, <2>1, <2>2, <2>3 DEF Deflating!Next, Deflating!Complete
  <2>4. CASE ~Ended'
    BY <1>2, <2>1, <2>2, <2>4 DEF Deflating!Next, Deflating!Progress
  <2>5. QED
    BY <2>3, <2>4
<1>3. CASE Onward /\ dev.kind = "inflate"
  <2>1. /\ dev'.kind = "inflate" /\ ~Ended
        /\ dev'.read \in dev.read .. CodedLen /\ dev'.wrote \in dev.wrote .. PlainLen
        /\ Ended' => dev'.read = CodedLen /\ dev'.wrote = PlainLen
    BY <1>3 DEF Onward, SrcLen, FormLen
  <2>2. [Deflating!Next]_(Deflating!vars)
    BY <1>3, <2>1 DEF Deflating!vars
  <2>3. CASE Ended'
    BY <1>3, <2>1, <2>2, <2>3 DEF Inflating!Next, Inflating!Complete
  <2>4. CASE ~Ended'
    BY <1>3, <2>1, <2>2, <2>4 DEF Inflating!Next, Inflating!Progress
  <2>5. QED
    BY <2>3, <2>4
<1>4. dev.kind \in {"deflate", "inflate"}
  BY Fields DEF IInv, InOrder, Kinds
<1>5. QED
  BY <1>1, <1>2, <1>3, <1>4

\* Only a request with too little room for the plain form runs out of memory in
\* the middle of a call.
LEMMA OnlyTooLong ==
    ASSUME IInv, Next, pump.at = "run", status' = UNIZIP_MEM_ERROR, status # UNIZIP_MEM_ERROR
    PROVE  pump.room < PlainLen
<1>1. Run \/ Fail
  BY DEF Next, AskForEnd, Feed, CodeCB, OneShot, Load, Return, InitCB, ResetCB, EndCB
<1>2. Run
  BY <1>1 DEF Fail, UNIZIP_MEM_ERROR, UNIZIP_STREAM_ERROR
<1>3. CASE pump.flush = Finish /\ zs.avail_in = 0
  BY <1>2, <1>3 DEF Run, append_store_block, IInv, InOrder, TypeOK, ZipStreams
<1>4. CASE ~(pump.flush = Finish /\ zs.avail_in = 0)
  <2>1. CASE dev'.mode = "open"
    <3>1. Request([zs EXCEPT !.avail_out = pump.out], pump.flush = Finish)
      BY <1>2, <1>4 DEF Run, IInv, InOrder, TypeOK, ZipStreams
    <3>2. QED
      BY <2>1, <3>1 DEF Request, Device
  <2>2. CASE dev'.mode # "open"
    BY <1>2, <1>4, <2>2, TooLongKeeps
  <2>3. QED
    BY <2>1, <2>2
<1>5. QED
  BY <1>3, <1>4

\* The inductive invariant: with what InOrder says, the zip_stream's counts, what
\* the device has written, and which block the end is asked for with.
THEOREM Invariance == Spec => []IInv
<1>1. IInv /\ [Next]_vars => IInv'
  BY StepKeeps, IdleKeeps
<1>2. QED
  BY <1>1, Initially, PTL DEF Spec

\* The four sets of books of a UADK stream agree wherever the loops of
\* hw_send_and_recv's callers are, and so do those of the caller between calls.
THEOREM BooksAgree == Spec => []InOrder
<1>1. IInv => InOrder
  BY DEF IInv
<1>2. QED
  BY <1>1, Invariance, PTL

\* hw_stream_decompress writes no more than it has room for, and gives up for
\* want of room only if the plain form does not fit.
THEOREM RoomIsKept == Spec => RoomDecides
<1>1. IInv /\ [Next]_vars =>
         [pump'.oneshot /\ dev'.kind = "inflate" => pump'.dst <= pump'.room]_vars
  <2> SUFFICES ASSUME IInv, [Next]_vars
               PROVE  [pump'.oneshot /\ dev'.kind = "inflate" => pump'.dst <= pump'.room]_vars
    OBVIOUS
  <2>1. IInv'
    BY StepKeeps, IdleKeeps
  <2>2. QED
    BY <2>1 DEF IInv, Booking
<1>2. IInv /\ [Next]_vars =>
         [pump.at = "run" /\ status' = UNIZIP_MEM_ERROR /\ status # UNIZIP_MEM_ERROR
             => pump.room < PlainLen]_vars
  BY OnlyTooLong
<1>3. QED
  BY <1>1, <1>2, Invariance, PTL DEF Spec, RoomDecides

\* Both directions, streamed or in one call, implement what a streaming codec
\* promises: each byte once and in order, and the end only with everything.
THEOREM Refinement == Spec => KeepsContract
<1>1. Init => Deflating!Init /\ Inflating!Init
  BY DEF Init, Deflating!Init, Inflating!Init, Device, Ended, AtRest, UNIZIP_OK, UNIZIP_STREAM_END
<1>2. IInv /\ [Next]_vars => [Deflating!Next]_(Deflating!vars) /\ [Inflating!Next]_(Inflating!vars)
  <2>1. CASE Next
    BY <2>1, StepKeeps, StepPromised
  <2>2. CASE UNCHANGED vars
    BY <2>2 DEF vars, Deflating!vars, Inflating!vars, Ended
  <2>3. QED
    BY <2>1, <2>2
<1>3. QED
  BY <1>1, <1>2, Invariance, PTL DEF Spec, KeepsContract, Deflating!Spec, Inflating!Spec

-----------------------------------------------------------------------------
(***************************************************************************)
(* The loops end.  A request is never made for nothing because it comes    *)
(* with a byte to read and with room for what that byte may become, the    *)
(* end of the coded form included.                                         *)
(***************************************************************************)

\* The room of a request, and who pumps an empty block: only the appended end.
Going ==
    /\ pump.at # "idle" => pump.out > IF Deflates THEN TailLen ELSE 0
    /\ pump.at = "load" /\ Deflates /\ pump.flush = NoFlush => pump.srclen > 0
    /\ pump.at = "run" /\ zs.avail_in = 0 => pump.flush = Finish

\* What a call in progress has left is bounded by the length of the source.
LEMMA LeftIsBounded ==
    ASSUME IInv
    PROVE  /\ StepsLeft \in 0 .. 4 * CodedLen + 3
           /\ pump.at # "idle" => StepsLeft > 0
           /\ pump.at = "idle" => StepsLeft = 0
<1>1. pump.at # "idle" => pump.srclen + (IF pump.at = "run" THEN zs.avail_in ELSE 0) \in 0 .. CodedLen
  BY Fields DEF IInv, InOrder, Booking, SrcLen
<1>2. QED
  BY <1>1, Fields DEF IInv, InOrder, StepsLeft

\* The device always has room to read a byte.
LEMMA ReadsOn ==
    ASSUME IInv, Going, pump.at = "run", NEW finishing \in BOOLEAN,
           finishing <=> pump.flush = Finish, ~(finishing /\ zs.avail_in = 0),
           NEW u \in Consumable(zs.avail_in, pump.out, finishing)
    PROVE  u > 0
<1>1. zs.avail_in \in Nat /\ zs.avail_in > 0
  BY Fields DEF IInv, InOrder, Going
<1>2. Produced(1, zs.avail_in, finishing) <= pump.out
  <2>1. CASE Deflates
    BY <2>1, Fields DEF Produced, Deflates, Going, IInv, InOrder
  <2>2. CASE ~Deflates
    <3>1. dev.wrote = Smaller(dev.read, PlainLen)
      BY <2>2 DEF IInv, Booking, Written
    <3>2. Produced(1, zs.avail_in, finishing) = Smaller(dev.read + 1, PlainLen) - dev.wrote
      BY <2>2 DEF Produced, Deflates
    <3>3. QED
      BY <2>2, <3>1, <3>2, Fields DEF Smaller, Going, IInv, InOrder
  <2>3. QED
    BY <2>1, <2>2
<1>3. 1 \in MayConsume(zs.avail_in, pump.out, finishing) \ {0}
  BY <1>1, <1>2 DEF MayConsume
<1>4. QED
  BY <1>1, <1>3 DEF Consumable, MayConsume

LEMMA LoadGoesOn ==
    ASSUME IInv, Going, Load
    PROVE  Going' /\ StepsLeft' < StepsLeft
<1> DEFINE n == Smaller(pump.srclen, pump.chunk)
           last == pump.oneshot /\ n = pump.srclen /\ dev.kind = "deflate"
<1>1. /\ n \in 0 .. pump.srclen /\ (n = 0 => pump.srclen = 0) /\ pump.at = "load"
  BY Fields DEF IInv, InOrder, Smaller, Load
<1>2. zs'.avail_in = n /\ UNCHANGED dev
  BY DEF Load, IInv, InOrder, TypeOK, ZipStreams
<1> HIDE DEF n
<1>3. CASE dev.kind = "inflate" /\ n = 0
  <2>1. pump' = [pump EXCEPT !.at = "return", !.err = UNIZIP_STREAM_END]
    BY <1>3 DEF Load, n
  <2>2. pump'.at = "return" /\ pump'.srclen = pump.srclen /\ pump'.out = pump.out
    BY <2>1 DEF IInv, InOrder, TypeOK, Pumps
  <2>3. QED
    BY <1>1, <1>2, <2>2, Fields DEF Going, Deflates, StepsLeft, IInv, InOrder
<1>4. CASE ~(dev.kind = "inflate" /\ n = 0)
  <2>1. pump' = [Loaded(pump, n) EXCEPT !.flush = IF last THEN Finish ELSE pump.flush]
    BY <1>4 DEF Load, n
  <2>2. /\ pump'.at = "run" /\ pump'.srclen = pump.srclen - n /\ pump'.out = pump.out
        /\ pump'.flush = IF last THEN Finish ELSE pump.flush
    BY <2>1 DEF Loaded, IInv, InOrder, TypeOK, Pumps
  <2>3. StepsLeft' < StepsLeft
    BY <1>1, <1>2, <2>2, Fields DEF StepsLeft, IInv, InOrder
  <2>4. Going'
    BY <1>1, <1>2, <1>4, <2>2, Fields DEF Going, Deflates, IInv, InOrder, Kinds
  <2>5. QED
    BY <2>3, <2>4
<1>5. QED
  BY <1>3, <1>4

LEMMA RunGoesOn ==
    ASSUME IInv, IInv', Going, Run
    PROVE  Going' /\ StepsLeft' < StepsLeft
<1> DEFINE finishing == pump.flush = Finish
           z == [zs EXCEPT !.avail_out = pump.out]
<1>1. /\ z.avail_in = zs.avail_in /\ z.avail_out = pump.out /\ pump.at = "run"
      /\ StepsLeft \in Nat /\ StepsLeft > 0
  BY LeftIsBounded, Fields DEF Run, IInv, InOrder, TypeOK, ZipStreams
<1>2. CASE finishing /\ zs.avail_in = 0
  <2>1. append_store_block(z)
    BY <1>1, <1>2 DEF Run
  <2>2. /\ pump'.at = "return" /\ pump'.srclen = pump.srclen /\ pump'.out = pump.out
        /\ dev'.kind = dev.kind
    BY <2>1 DEF append_store_block, IInv, InOrder, TypeOK, Pumps, Devices
  <2>3. QED
    BY <1>1, <1>2, <2>2, Fields DEF Going, Deflates, StepsLeft, IInv, InOrder
<1>3. CASE ~(finishing /\ zs.avail_in = 0) /\ pump' = AtRest
  BY <1>1, <1>3, LeftIsBounded DEF AtRest, Going, StepsLeft
<1>4. CASE ~(finishing /\ zs.avail_in = 0) /\ pump' # AtRest
  <2>1. PICK u \in Consumable(z.avail_in, z.avail_out, finishing) :
           LET p  == Produced(u, z.avail_in, finishing)
               z2 == Booked(z, u, p, dev.fresh)
               err == Err(dev.read + u, finishing)
           IN  /\ zs' = z2
               /\ dev' = [dev EXCEPT !.fresh = FALSE, !.read = @ + u, !.wrote = @ + p,
                                     !.off = NextOff(@, u, z2.avail_in)]
               /\ pump' = [pump EXCEPT !.dst = @ + p, !.err = err,
                              !.at = IF z2.avail_in > 0 THEN "run"
                                     ELSE IF GoesOn(err, pump.srclen) THEN "load" ELSE "return"]
    BY <1>1, <1>4 DEF Run, Request
  <2>2. u > 0 /\ u \in 0 .. zs.avail_in
    BY <1>1, <1>4, <2>1, ReadsOn, Moves DEF IInv
  <2>3. /\ dev'.kind = dev.kind /\ dev'.read = dev.read + u
        /\ pump'.srclen = pump.srclen /\ pump'.out = pump.out /\ pump'.src = pump.src
        /\ pump'.flush = pump.flush /\ zs'.avail_in = zs.avail_in - u
    BY <1>1, <2>1 DEF IInv, InOrder, TypeOK, Devices, Pumps, Booked
  <2>4. \E err : pump'.at = IF zs'.avail_in > 0 THEN "run"
                            ELSE IF GoesOn(err, pump.srclen) THEN "load" ELSE "return"
    BY <2>1 DEF IInv, InOrder, TypeOK, Pumps
  <2>5. pump'.at \in {"run", "load", "return"}
    BY <2>4
  <2>6. StepsLeft' < StepsLeft
    BY <1>1, <2>2, <2>3, <2>4, <2>5, Fields DEF StepsLeft, IInv, InOrder
  <2>7. Going'
    BY <1>1, <2>2, <2>3, <2>4, Fields DEF Going, Deflates, GoesOn, IInv, InOrder
  <2>8. QED
    BY <2>6, <2>7
<1>5. QED
  BY <1>2, <1>3, <1>4

\* A call comes with room enough.
LEMMA EntryGoesOn ==
    ASSUME IInv, NEW n \in 0 .. CodedLen, NEW m \in 1 .. MaxGrant,
           NEW flush \in {NoFlush, Finish},
           flush = NoFlush => n > 0, CodeCB(Grant(strm, n, m), flush)
    PROVE  Going'
<1>1. /\ UNCHANGED dev
      /\ pump' = [AtRest EXCEPT !.at = "load", !.flush = flush, !.src = strm.next_in,
                     !.srclen = n, !.dst = strm.next_out, !.out = OutChunk(m)]
  BY DEF CodeCB, Grant
<1>2. /\ pump'.at = "load" /\ pump'.flush = flush /\ pump'.srclen = n
      /\ pump'.out = OutChunk(m)
  BY <1>1 DEF AtRest
<1>3. OutChunk(m) > IF Deflates THEN TailLen ELSE 0
  BY DEF OutChunk, Smaller, Deflates
<1>4. QED
  BY <1>1, <1>2, <1>3 DEF Going, Deflates

\* A step of the loops goes on to the return; the others begin a call that can.
LEMMA StepGoesOn ==
    ASSUME IInv, IInv', Going, Next
    PROVE  Going' /\ (pump.at # "idle" => StepsLeft' < StepsLeft)
<1>1. ASSUME NEW m \in 1 .. MaxGrant, AskForEnd(m)
      PROVE  Going' /\ pump.at = "idle"
  <2>1. CodeCB(Grant(strm, Rest, m), Finish)
    BY <1>1 DEF AskForEnd
  <2>2. dev.mode = "open" /\ pump.at = "idle"
    BY <2>1 DEF CodeCB
  <2>3. Rest \in 0 .. CodedLen
    BY <2>2, Within, Fields DEF Rest, IInv, InOrder, SrcLen
  <2>4. QED
    BY <2>1, <2>2, <2>3, EntryGoesOn DEF NoFlush, Finish
<1>2. ASSUME NEW m \in 1 .. MaxGrant, NEW n \in 1 .. MaxGrant, Feed(n, m)
      PROVE  Going' /\ pump.at = "idle"
  <2>1. CodeCB(Grant(strm, n, m), NoFlush) /\ n <= Rest
    BY <1>2 DEF Feed
  <2>2. dev.mode = "open" /\ pump.at = "idle"
    BY <2>1 DEF CodeCB
  <2>3. n \in 0 .. CodedLen
    BY <2>1, <2>2, Within, Fields DEF Rest, IInv, InOrder, SrcLen
  <2>4. QED
    BY <2>1, <2>2, <2>3, EntryGoesOn
<1>3. ASSUME NEW kind \in Kinds, NEW n \in 0 .. CodedLen, NEW room \in 0 .. PlainLen,
             kind = "deflate" => n = PlainLen, OneShot(kind, n, room)
      PROVE  Going' /\ pump.at = "idle"
  <2>1. CASE pump' = AtRest
    BY <1>3, <2>1 DEF Going, AtRest, OneShot
  <2>2. CASE /\ dev' = Device("open", kind)
             /\ pump' = [AtRest EXCEPT !.at = "load", !.oneshot = TRUE, !.srclen = n,
                            !.chunk = OneChunk, !.out = OneChunk, !.room = room]
    <3>1. dev'.kind = kind /\ pump'.at = "load" /\ pump'.srclen = n /\ pump'.out = OneChunk
      BY <2>2 DEF Device, AtRest
    <3>2. QED
      BY <1>3, <3>1 DEF Going, Deflates, OneShot
  <2>3. QED
    BY <1>3, <2>1, <2>2 DEF OneShot
<1>4. ASSUME Fail
      PROVE  Going' /\ StepsLeft' < StepsLeft
  BY <1>4, LeftIsBounded DEF Fail, AtRest, Going, StepsLeft
<1>5. ASSUME Return
      PROVE  Going' /\ StepsLeft' < StepsLeft
  <2>1. pump'.at = "idle" /\ pump.at = "return"
    BY <1>5 DEF Return, IInv, InOrder, TypeOK, Pumps
  <2>2. QED
    BY <2>1, LeftIsBounded DEF Going, StepsLeft
<1>6. ASSUME (\E kind \in Kinds : InitCB(kind)) \/ ResetCB \/ EndCB
      PROVE  Going' /\ pump.at = "idle"
  BY <1>6 DEF InitCB, ResetCB, EndCB, TakeQueue, Started, AtRest, Going
<1>7. OneShot("deflate", PlainLen, 0) => Going' /\ pump.at = "idle"
  BY <1>3, Fields DEF Kinds, IInv, InOrder
<1>8. \A n \in 0 .. CodedLen, room \in 0 .. PlainLen :
         OneShot("inflate", n, room) => Going' /\ pump.at = "idle"
  BY <1>3 DEF Kinds
<1>9. QED
  BY <1>1, <1>2, <1>4, <1>5, <1>6, <1>7, <1>8, LoadGoesOn, RunGoesOn DEF Next

\* Every block loaded and every request made brings a call strictly nearer to
\* its return, by a measure that starts below a fixed number: whatever is read at
\* a time, no call, streamed or one-shot, has more steps than that.
THEOREM LoopsEnd == Spec => NeverInVain /\ [](StepsLeft \in 0 .. 4 * CodedLen + 3)
<1>1. Init => Going
  BY DEF Init, Going, AtRest
<1>2. IInv /\ IInv' /\ Going /\ [Next]_vars => Going'
  BY StepGoesOn DEF vars, Going, Deflates
<1>3. IInv /\ IInv' /\ Going /\ [Next]_vars =>
         [pump.at # "idle" => StepsLeft' < StepsLeft]_vars
  BY StepGoesOn
<1>4. IInv => StepsLeft \in 0 .. 4 * CodedLen + 3
  BY LeftIsBounded
<1>5. QED
  BY <1>1, <1>2, <1>3, <1>4, Invariance, PTL DEF Spec, NeverInVain

=============================================================================
