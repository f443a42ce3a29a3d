------------------------- MODULE BrotliDeflateProofs -------------------------
(***************************************************************************)
(* Proofs about BrotliDeflate, for every input, buffer, tail and number of *)
(* resets.                                                                 *)
(*                                                                         *)
(* The adapter infers the end: a finishing call that leaves neither input  *)
(* nor output.  That this is the end follows from what the caller grants,  *)
(* all that is left, and from what the encoder then has to have written.   *)
(* What the encoder still holds is the invariant.                          *)
(***************************************************************************)
EXTENDS BrotliDeflate, TLAPS

\* The encoder has written no more than it could have; total_in, which resets
\* do not clear, leaves room for the rest of the input.
Bounded ==
    /\ enc.mode = "processing" => enc.wrote <= enc.read
    /\ enc.mode # "none" => strm.total_in + (SrcLen - enc.read) <= MaxTotal

\* Once the last metablock is encoded all the input is read, the caller asks for
\* nothing but the end, and until it is told of it there is output to come.
Ending ==
    enc.mode = "finished" =>
        /\ fin /\ enc.read = SrcLen
        /\ status # UNIZIP_STREAM_END => enc.wrote < SrcLen + TailLen

IInv == InOrder /\ Bounded /\ Ending

\* A call leaves less to go, or the encoder has run out of memory.
Moves == ToGo' < ToGo \/ enc'.mode = "broken"

USE SrcLenAssumption, TailAssumption, DstLenAssumption, MaxTotalAssumption

-----------------------------------------------------------------------------

\* The numbers of a stream that is set up.
LEMMA Numbers ==
    ASSUME IInv, enc.mode # "none"
    PROVE  /\ enc.read \in 0 .. SrcLen /\ enc.wrote \in 0 .. SrcLen + TailLen
           /\ enc.mode \in {"processing", "finished", "broken"} /\ enc.more \in BOOLEAN
           /\ strm.next_in = enc.read /\ strm.next_out = enc.wrote
           /\ strm.total_in \in 0 .. MaxTotal /\ strm.total_out \in 0 .. DstLen
           /\ strm.total_in + (SrcLen - enc.read) <= MaxTotal
           /\ enc = [mode |-> enc.mode, read |-> enc.read, wrote |-> enc.wrote,
                     more |-> enc.more]
           /\ status \in Status /\ fin \in BOOLEAN
  BY DEF IInv, InOrder, TypeOK, Encoders, Modes, Bounded

\* Until the caller is told of the end there is output to come.
LEMMA Unended ==
    ASSUME IInv, enc.mode \in {"processing", "finished"}, status # UNIZIP_STREAM_END
    PROVE  enc.wrote < SrcLen + TailLen
<1>1. enc.read \in 0 .. SrcLen /\ enc.wrote \in Nat
  BY Numbers
<1>2. CASE enc.mode = "processing"
  BY <1>1, <1>2 DEF IInv, Bounded
<1>3. CASE enc.mode = "finished"
  BY <1>3 DEF IInv, Ending
<1>4. QED
  BY <1>2, <1>3

\* A call under a grant of n bytes and room for m, of which u were read and p
\* written.
LEMMA CallStep ==
    ASSUME IInv, enc.mode # "none", status # UNIZIP_STREAM_END, fin' \in BOOLEAN,
           NEW n \in 0 .. SrcLen - enc.read, NEW m \in 0 .. DstLen - enc.wrote,
           NEW mode \in {"processing", "finished", "broken"}, NEW more \in BOOLEAN,
           NEW u \in 0 .. n, NEW p \in 0 .. m,
           NEW ret \in BOOLEAN, NEW finishing \in BOOLEAN,
           Settle(Grant(strm, n, m),
                  [mode |-> mode, read |-> enc.read + u, wrote |-> enc.wrote + p,
                   more |-> more], ret, finishing),
           enc.wrote + p <= SrcLen + TailLen,
           mode = "processing" => enc.wrote + p <= enc.read + u,
           finishing => n = SrcLen - enc.read,
           mode # "broken" /\ finishing /\ n - u = 0 /\ ~more =>
              enc.wrote + p = SrcLen + TailLen,
           mode = "finished" =>
              /\ fin' /\ enc.read + u = SrcLen
              /\ ~(finishing /\ n - u = 0 /\ ~more) => enc.wrote + p < SrcLen + TailLen,
           mode # "broken" => u + p > 0
    PROVE  IInv' /\ [Contract!Next]_(Contract!vars) /\ Moves
<1> DEFINE f == [mode |-> mode, read |-> enc.read + u, wrote |-> enc.wrote + p,
                 more |-> more]
           g == Grant(strm, n, m)
           ends == finishing /\ n - u = 0 /\ ~more
<1>1. /\ f.read - enc.read = u /\ f.wrote - enc.wrote = p
      /\ f.read \in 0 .. SrcLen /\ f.wrote \in 0 .. SrcLen + TailLen
      /\ f.wrote \in 0 .. DstLen /\ enc.read <= f.read /\ enc.wrote <= f.wrote
  BY Numbers
<1>2. /\ enc' = f
      /\ strm' = Advanced(g, u, p, IF p > 0 THEN f.wrote ELSE g.total_out)
      /\ status' = Verdict(ret, finishing, g.avail_in - u, f.more)
  BY <1>1 DEF Settle
<1>3. /\ status' = UNIZIP_STREAM_END <=> ends
      /\ status' \in Status
  BY <1>2 DEF Verdict, brotli_map, Grant, Status, UNIZIP_STREAM_END, UNIZIP_OK, UNIZIP_ERRNO
<1>4. PICK out \in 0 .. DstLen : out = IF p > 0 THEN f.wrote ELSE g.total_out
  BY <1>1, Numbers DEF Grant
<1>5. strm' = [next_in |-> f.read, avail_in |-> n - u, total_in |-> strm.total_in + u,
               next_out |-> f.wrote, avail_out |-> m - p, total_out |-> out]
  BY <1>2, <1>4, Numbers DEF Advanced, Grant
<1>6. TypeOK'
  <2>1. /\ strm.total_in + u \in 0 .. MaxTotal
        /\ n - u \in 0 .. SrcLen /\ m - p \in 0 .. DstLen
    BY Numbers
  <2>2. strm' \in [next_in : 0 .. SrcLen, avail_in : 0 .. SrcLen,
                   total_in : 0 .. MaxTotal, next_out : 0 .. DstLen,
                   avail_out : 0 .. DstLen, total_out : 0 .. DstLen]
    BY <1>1, <1>5, <2>1
  <2>3. enc' \in Encoders
    BY <1>1, <1>2 DEF Encoders, Modes
  <2>4. QED
    BY <1>3, <2>2, <2>3 DEF TypeOK
<1>7. (enc.mode # "none" => strm.next_in = enc.read /\ strm.next_out = enc.wrote)'
  BY <1>2, <1>5
<1>8. Bounded'
  <2>1. strm.total_in + u + (SrcLen - (enc.read + u)) <= MaxTotal
    BY Numbers
  <2>2. QED
    BY <1>2, <1>5, <2>1 DEF Bounded
<1>9. Ending'
  BY <1>2, <1>3 DEF Ending
<1>10. Moves
  <2>1. /\ enc'.read = enc.read + u /\ enc'.wrote = enc.wrote + p /\ enc'.mode = mode
        /\ enc.read \in Nat /\ enc.wrote \in Nat
    BY <1>2, Numbers
  <2>2. QED
    BY <2>1 DEF Moves, ToGo
<1>11. CASE ends /\ mode # "broken"
  <2>1. f.read = SrcLen /\ f.wrote = SrcLen + TailLen
    <3>1. n = SrcLen - enc.read /\ n - u = 0 /\ enc.wrote + p = SrcLen + TailLen
      BY <1>11
    <3>2. QED
      BY <3>1, Numbers
  <2>2. status' = UNIZIP_STREAM_END /\ enc'.mode # "broken"
    BY <1>2, <1>3, <1>11
  <2>3. QED
    BY <1>2, <1>6, <1>7, <1>8, <1>9, <1>10, <2>1, <2>2
       DEF IInv, InOrder, Contract!Next, Contract!Complete
<1>12. CASE ~(ends /\ mode # "broken")
  <2>1. ~(status' = UNIZIP_STREAM_END /\ enc'.mode # "broken")
    BY <1>2, <1>3, <1>12
  <2>2. enc'.read \in enc.read .. SrcLen /\ enc'.wrote \in enc.wrote .. SrcLen + TailLen
    BY <1>1, <1>2
  <2>3. QED
    BY <1>6, <1>7, <1>8, <1>9, <1>10, <2>1, <2>2
       DEF IInv, InOrder, Contract!Next, Contract!Progress
<1>13. QED
  BY <1>10, <1>11, <1>12

\* What BrotliEncoderCompressStream may do under such a grant, finishing or not.
LEMMA DeflateStep ==
    ASSUME IInv, status # UNIZIP_STREAM_END, fin' \in BOOLEAN,
           NEW n \in 0 .. SrcLen, NEW m \in 0 .. DstLen,
           n <= SrcLen - strm.next_in, m <= DstLen - strm.next_out,
           m > 0, NEW flush \in {NoFlush, Finish},
           flush = Finish => n = SrcLen - strm.next_in, flush = Finish => fin',
           flush = NoFlush => n > 0, flush = NoFlush => enc.mode # "finished",
           deflateCB_brotli(Grant(strm, n, m), flush)
    PROVE  IInv' /\ [Contract!Next]_(Contract!vars) /\ Moves
<1> DEFINE g == Grant(strm, n, m)
<1>1. enc.mode # "none" /\ n \in 0 .. SrcLen - enc.read /\ m \in 0 .. DstLen - enc.wrote
  BY Numbers DEF deflateCB_brotli
<1>2. g.avail_in = n /\ g.avail_out = m
  BY DEF Grant
<1>3. PICK finishing \in BOOLEAN : finishing = (flush = Finish)
  OBVIOUS
<1>4. finishing => n = SrcLen - enc.read
  BY <1>1, <1>3, Numbers
<1>5. /\ finishing => fin'
      /\ ~finishing => n > 0
      /\ ~finishing => enc.mode # "finished"
  BY <1>3
<1>6. enc.mode = "finished" => enc.read = SrcLen
  BY DEF IInv, Ending
<1> HIDE DEF g
<1>7. CASE Refused(enc, n) /\ Settle(g, enc, FALSE, finishing)
  <2>1. enc = [mode |-> enc.mode, read |-> enc.read + 0, wrote |-> enc.wrote + 0,
               more |-> enc.more]
    BY <1>1, Numbers
  <2>2. enc.mode = "processing" => enc.wrote + 0 <= enc.read + 0
    BY <1>1, Numbers DEF IInv, Bounded
  <2>3. enc.wrote + 0 <= SrcLen + TailLen
    BY <1>1, Numbers
  <2>4. enc.mode = "broken"
    <3>1. enc.mode = "finished" => ~(n > 0)
      BY <1>4, <1>5, <1>6
    <3>2. Refused(enc, n)
      BY <1>7
    <3>3. QED
      BY <3>1, <3>2 DEF Refused
  <2>5. PICK ret \in BOOLEAN : ret = FALSE
    OBVIOUS
  <2>6. Settle(g, [mode |-> enc.mode, read |-> enc.read + 0, wrote |-> enc.wrote + 0,
                   more |-> enc.more], ret, finishing)
    BY <1>7, <2>1, <2>5
  <2>7. 0 \in 0 .. n /\ 0 \in 0 .. m
    OBVIOUS
  <2>8. QED
    BY <1>1, <1>4, <2>2, <2>3, <2>4, <2>6, <2>7, Numbers, CallStep DEF g
<1>8. ASSUME ~Refused(enc, n), NEW f \in Reachable(g),
             MayLeave(enc, n, m, finishing, f) \/ MayBreak(enc, n, m, f),
             NEW ret \in BOOLEAN, Settle(g, f, ret, finishing)
      PROVE  IInv' /\ [Contract!Next]_(Contract!vars) /\ Moves
  <2>1. PICK mode \in Modes \ {"none"}, u \in 0 .. n, p \in 0 .. m, more \in BOOLEAN :
           f = [mode |-> mode, read |-> enc.read + u, wrote |-> enc.wrote + p,
                more |-> more]
    BY <1>2, <1>8 DEF Reachable
  <2>2. mode \in {"processing", "finished", "broken"}
    BY <2>1 DEF Modes
  <2>3. /\ f.mode = mode /\ f.read = enc.read + u /\ f.wrote = enc.wrote + p
        /\ f.more = more
    BY <2>1
  <2>4. CASE MayLeave(enc, n, m, finishing, f)
    <3>1. /\ Left(mode, enc.read + u, enc.wrote + p) >= 0
          /\ mode # "broken"
          /\ mode = "finished" => u = n /\ (enc.mode = "finished" \/ finishing)
          /\ more => p = m /\ Left(mode, enc.read + u, enc.wrote + p) > 0
          /\ ~more => /\ u = n
                      /\ finishing => mode = "finished"
                      /\ mode = "finished" => Left(mode, enc.read + u, enc.wrote + p) = 0
      <4>1. /\ f.read - enc.read = u /\ f.wrote - enc.wrote = p /\ mode \in {"processing", "finished"}
            /\ Left(mode, enc.read + u, enc.wrote + p) >= 0
        BY <1>1, <2>3, <2>4, Numbers DEF MayLeave
      <4>2. mode # "broken"
        BY <4>1
      <4>3. QED
        BY <2>3, <2>4, <4>1, <4>2, Zenon DEF MayLeave
    <3>2. enc.wrote + p <= SrcLen + TailLen
      BY <1>1, <2>1, <3>1, Numbers DEF Left
    <3>3. mode = "processing" => enc.wrote + p <= enc.read + u
      BY <1>1, <2>1, <3>1, Numbers DEF Left
    <3>4. finishing /\ ~more => enc.wrote + p = SrcLen + TailLen
      <4>1. SUFFICES ASSUME finishing, ~more PROVE enc.wrote + p = SrcLen + TailLen
        OBVIOUS
      <4>2. (enc.read + n) - (enc.wrote + p) + TailLen = 0
        BY <3>1, <4>1 DEF Left
      <4>3. QED
        BY <1>1, <1>4, <4>1, <4>2, Numbers
    <3>5. mode = "finished" => finishing /\ u = n /\ enc.read + u = SrcLen
      BY <1>1, <1>4, <1>5, <1>6, <3>1, Numbers
    <3>6. mode = "finished" /\ more => enc.wrote + p < SrcLen + TailLen
      BY <1>1, <3>1, <3>5, Numbers DEF Left
    <3>7. u + p > 0
      <4>1. CASE more
        BY <3>1, <4>1
      <4>2. CASE ~more /\ ~finishing
        BY <1>5, <3>1, <4>2
      <4>3. CASE ~more /\ finishing
        <5>1. enc.wrote < SrcLen + TailLen
          <6>1. enc.mode \in {"processing", "finished"}
            BY <1>1, <1>8, Numbers DEF Refused
          <6>2. QED
            BY <6>1, Unended
        <5>2. QED
          BY <1>1, <3>4, <4>3, <5>1, Numbers
      <4>4. QED
        BY <4>1, <4>2, <4>3
    <3>8. QED
      BY <1>1, <1>4, <1>8, <2>1, <2>2, <3>2, <3>3, <3>4, <3>5, <3>6, <3>7, <1>5, CallStep DEF g
  <2>5. CASE MayBreak(enc, n, m, f)
    <3>1. mode = "broken" /\ Left(enc.mode, enc.read + u, enc.wrote + p) >= 0
      BY <2>1, <2>5 DEF MayBreak
    <3>2. enc.wrote + p <= SrcLen + TailLen
      BY <1>1, <2>1, <3>1, Numbers DEF Left
    <3>3. QED
      BY <1>1, <1>4, <1>8, <2>1, <2>2, <3>1, <3>2, CallStep DEF g
  <2>6. QED
    BY <1>8, <2>4, <2>5
<1>9. \/ Refused(enc, n) /\ Settle(g, enc, FALSE, finishing)
      \/ /\ ~Refused(enc, n)
         /\ \E f \in Reachable(g), ret \in BOOLEAN :
               /\ MayLeave(enc, n, m, finishing, f) \/ MayBreak(enc, n, m, f)
               /\ Settle(g, f, ret, finishing)
  <2>1. deflateCB_brotli(g, flush)
    BY DEF g
  <2>2. QED
    BY <1>2, <1>3, <2>1, Zenon DEF deflateCB_brotli
<1>10. QED
  BY <1>7, <1>8, <1>9

\* A caller's call that feeds (Z_NO_FLUSH).
LEMMA FeedStep ==
    ASSUME IInv, NEW n \in 1 .. SrcLen, NEW m \in 1 .. DstLen, Feed(n, m)
    PROVE  IInv' /\ [Contract!Next]_(Contract!vars) /\ Moves
<1>1. /\ n \in 0 .. SrcLen /\ m \in 0 .. DstLen /\ NoFlush # Finish
      /\ n <= SrcLen - strm.next_in /\ m <= DstLen - strm.next_out
      /\ status # UNIZIP_STREAM_END /\ m > 0 /\ n > 0
  BY DEF Feed, Fits, NoFlush, Finish
<1>2. fin' \in BOOLEAN
  BY DEF Feed, IInv, InOrder, TypeOK
<1>3. deflateCB_brotli(Grant(strm, n, m), NoFlush) /\ enc.mode # "finished"
  BY DEF Feed, IInv, Ending
<1>4. QED
  BY <1>1, <1>2, <1>3, DeflateStep

\* One that asks for the end (Z_FINISH), with all that is left.
LEMMA FinishStep ==
    ASSUME IInv, NEW m \in 1 .. DstLen, AskForEnd(m)
    PROVE  IInv' /\ [Contract!Next]_(Contract!vars) /\ Moves
<1>1. PICK n \in 0 .. SrcLen : n = SrcLen - strm.next_in
  BY DEF IInv, InOrder, TypeOK
<1>2. /\ m \in 0 .. DstLen /\ n <= SrcLen - strm.next_in /\ m <= DstLen - strm.next_out
      /\ status # UNIZIP_STREAM_END /\ deflateCB_brotli(Grant(strm, n, m), Finish)
  BY <1>1 DEF AskForEnd, Fits
<1>3. fin' /\ fin' \in BOOLEAN /\ m > 0 /\ NoFlush # Finish
  BY DEF AskForEnd, NoFlush, Finish
<1>4. QED
  BY <1>1, <1>2, <1>3, DeflateStep

\* Any other flush value leaves everything but the grant.
LEMMA OtherStep ==
    ASSUME IInv, NEW n \in 1 .. SrcLen, NEW m \in 1 .. DstLen, FlushOther(n, m)
    PROVE  IInv' /\ [Contract!Next]_(Contract!vars)
<1>1. /\ enc' = enc /\ fin' = fin /\ status' = UNIZIP_ERRNO
      /\ status # UNIZIP_STREAM_END
      /\ strm' = [next_in |-> strm.next_in, avail_in |-> n, total_in |-> strm.total_in,
                  next_out |-> strm.next_out, avail_out |-> m, total_out |-> strm.total_out]
  BY DEF FlushOther, OtherFlush, Grant, Fits
<1>2. status' \in Status /\ status' # UNIZIP_STREAM_END
  BY <1>1 DEF Status, UNIZIP_ERRNO, UNIZIP_STREAM_END
<1>3. TypeOK'
  BY <1>1, <1>2 DEF IInv, InOrder, TypeOK
<1>4. InOrder' /\ Bounded' /\ Ending'
  BY <1>1, <1>3 DEF FlushOther, IInv, InOrder, Bounded, Ending
<1>5. UNCHANGED Contract!vars
  BY <1>1, <1>2 DEF Contract!vars
<1>6. QED
  BY <1>4, <1>5 DEF IInv

\* Setting a stream up, resetting it or giving it up starts from nothing, but
\* for total_in and total_out after a reset.
LEMMA NewStreamStep ==
    ASSUME IInv, deflateInitCB_brotli \/ deflateResetCB_brotli \/ deflateEndCB_brotli
    PROVE  IInv' /\ Contract!Restart
<1>1. /\ enc' \in {FreshEncoder, NoEncoder} /\ status' \in {0, -4} /\ fin' = FALSE
      /\ strm'.next_in = 0 /\ strm'.next_out = 0
      /\ strm'.total_in + SrcLen <= MaxTotal
      /\ strm' \in [next_in : 0 .. SrcLen, avail_in : 0 .. SrcLen,
                    total_in : 0 .. MaxTotal, next_out : 0 .. DstLen,
                    avail_out : 0 .. DstLen, total_out : 0 .. DstLen]
  <2>1. CASE deflateInitCB_brotli \/ deflateEndCB_brotli
    BY <2>1 DEF deflateInitCB_brotli, deflateEndCB_brotli, ResetStream, UNIZIP_OK,
                UNIZIP_MEM_ERROR
  <2>2. CASE deflateResetCB_brotli
    BY <2>2 DEF deflateResetCB_brotli, UNIZIP_OK, UNIZIP_MEM_ERROR, IInv, InOrder, TypeOK
  <2>3. QED
    BY <2>1, <2>2
<1>2. /\ enc'.mode \in {"none", "processing"} /\ enc'.read = 0 /\ enc'.wrote = 0
      /\ enc' \in Encoders
  <2>1. CASE enc' = FreshEncoder
    BY <2>1 DEF FreshEncoder, Encoders, Modes
  <2>2. CASE enc' = NoEncoder
    BY <2>2 DEF NoEncoder, Encoders, Modes
  <2>3. QED
    BY <1>1, <2>1, <2>2
<1>3. status' \in Status /\ status' # UNIZIP_STREAM_END
  BY <1>1 DEF Status, UNIZIP_STREAM_END
<1>4. fin' \in BOOLEAN
  BY <1>1
<1>5. InOrder'
  BY <1>1, <1>2, <1>3, <1>4 DEF InOrder, TypeOK
<1>6. Bounded' /\ Ending'
  BY <1>1, <1>2 DEF Bounded, Ending
<1>7. Contract!Restart
  BY <1>2, <1>3 DEF Contract!Restart
<1>8. QED
  BY <1>5, <1>6, <1>7 DEF IInv

\* Every call of a caller leaves less to go, or the encoder is out of memory.
LEMMA DriveStep ==
    ASSUME IInv, Drive
    PROVE  IInv' /\ [Contract!Next]_(Contract!vars) /\ Moves
  BY FeedStep, FinishStep DEF Drive

\* Every step of the specification preserves the invariant, and is a step of
\* the contract or changes nothing it speaks of.
LEMMA Step ==
    ASSUME IInv, Next
    PROVE  IInv' /\ [Contract!Next]_(Contract!vars)
<1>1. CASE Drive
  BY <1>1, DriveStep
<1>2. CASE \E n \in 1 .. SrcLen, m \in 1 .. DstLen : FlushOther(n, m)
  BY <1>2, OtherStep
<1>3. CASE deflateInitCB_brotli \/ deflateResetCB_brotli \/ deflateEndCB_brotli
  BY <1>3, NewStreamStep DEF Contract!Next
<1>4. QED
  BY <1>1, <1>2, <1>3 DEF Next

\* Between calls nothing changes.
LEMMA Stutter ==
    ASSUME IInv, UNCHANGED vars
    PROVE  IInv' /\ UNCHANGED Contract!vars
<1>1. strm' = strm /\ enc' = enc /\ status' = status /\ fin' = fin
  BY DEF vars
<1>2. QED
  BY <1>1 DEF IInv, InOrder, TypeOK, Bounded, Ending, Contract!vars

\* No stream has been set up when the program starts.
LEMMA InitInv == Init => IInv /\ Contract!Init
<1> SUFFICES ASSUME Init PROVE IInv /\ Contract!Init
  OBVIOUS
<1>1. /\ strm = [next_in |-> 0, avail_in |-> 0, total_in |-> 0,
                 next_out |-> 0, avail_out |-> 0, total_out |-> 0]
      /\ enc = [mode |-> "none", read |-> 0, wrote |-> 0, more |-> FALSE]
      /\ status = 0 /\ fin = FALSE
  BY DEF Init, ResetStream, NoEncoder, UNIZIP_OK
<1>2. /\ enc \in Encoders
      /\ strm \in [next_in : 0 .. SrcLen, avail_in : 0 .. SrcLen,
                   total_in : 0 .. MaxTotal, next_out : 0 .. DstLen,
                   avail_out : 0 .. DstLen, total_out : 0 .. DstLen]
  BY <1>1 DEF Encoders, Modes
<1>3. status \in Status /\ status # UNIZIP_STREAM_END
  BY <1>1 DEF Status, UNIZIP_STREAM_END
<1>4. fin \in BOOLEAN
  BY <1>1
<1>5. Bounded /\ Ending /\ Contract!Init
  BY <1>1, <1>3 DEF Bounded, Ending, Contract!Init
<1>6. QED
  BY <1>1, <1>2, <1>3, <1>4, <1>5 DEF IInv, InOrder, TypeOK

\* The inductive invariant holds throughout every execution.
THEOREM Invariance == Spec => []IInv
<1>1. IInv /\ [Next]_vars => IInv'
  BY Step, Stutter
<1>2. QED
  BY <1>1, InitInv, PTL DEF Spec

\* The caller's pointers stay at the encoder's positions, whatever failed in
\* between (unizip_algorithm_brotli.c:98-104), and however often it is reset.
THEOREM ReadsAndWritesInOrder == Spec => []InOrder
<1>1. IInv => InOrder
  BY DEF IInv
<1>2. QED
  BY <1>1, Invariance, PTL

\* No call is in vain while there is memory, and only so many can be made of one
\* stream: each leaves less to go, of a number that stays natural.
THEOREM CallsEnd == Spec => EachCallMoves /\ [](ToGo \in Nat)
<1>1. IInv => ToGo \in Nat
  <2> SUFFICES ASSUME IInv PROVE ToGo \in Nat
    OBVIOUS
  <2>2. enc.read \in 0 .. SrcLen /\ enc.wrote \in 0 .. SrcLen + TailLen
    BY DEF IInv, InOrder, TypeOK, Encoders
  <2>3. QED
    BY <2>2 DEF ToGo
<1>2. IInv /\ [Next]_vars => [Drive => Moves]_vars
  BY DriveStep
<1>3. QED
  BY <1>1, <1>2, Invariance, PTL DEF Spec, EachCallMoves, Moves

\* The adapter implements the contract of a streaming compressor: in particular
\* the end it infers is the end, unless the encoder ran out of memory.
THEOREM Refinement == Spec => KeepsContract
<1>1. IInv /\ [Next]_vars => [Contract!Next]_(Contract!vars)
  BY Step, Stutter
<1>2. QED
  BY <1>1, InitInv, Invariance, PTL DEF Spec, KeepsContract, Contract!Spec

=============================================================================
