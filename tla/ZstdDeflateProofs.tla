-------------------------- MODULE ZstdDeflateProofs --------------------------
(***************************************************************************)
(* Proofs about ZstdDeflate, for every input, buffer, epilogue and grant.  *)
(*                                                                         *)
(* The caller's pointers stand still until the stream ends, so the         *)
(* library's positions are all the progress there is: they never pass the  *)
(* sizes, which grow by what the caller grants and only when they are      *)
(* used up.  A finish takes a grant of input only as the first call of a   *)
(* stream, and then there is nothing granted.                              *)
(***************************************************************************)
EXTENDS ZstdDeflate, TLAPS

\* The positions are within the sizes; the pointers wait for the end; no input
\* is left in a grant nothing was ever taken of.
Waiting ==
    ctx.mode = "open" =>
        /\ ctx.in_pos <= ctx.in_size /\ ctx.out_pos <= ctx.out_size
        /\ strm.next_in = 0 /\ strm.next_out = 0
        /\ ctx.in_size = 0 => strm.avail_in = 0

\* What the library has written is covered by what it has read, and by the
\* epilogue once the end was asked for, with all of the input read.
Covered ==
    /\ ctx.mode = "open" =>
          /\ ~fin => ctx.out_pos <= ctx.in_pos
          /\ fin => ctx.in_pos = SrcLen /\ ctx.out_pos < SrcLen + EpilogueLen
    /\ ctx.mode = "ended" =>
          /\ ctx.in_pos = SrcLen /\ ctx.out_pos = SrcLen + EpilogueLen
          /\ strm.total_in = SrcLen /\ strm.total_out = SrcLen + EpilogueLen
    /\ ctx.mode = "none" => strm.total_out = 0
    /\ status = UNIZIP_STREAM_END <=> ctx.mode = "ended"

IInv == InOrder /\ Waiting /\ Covered

\* A call leaves less to go, or has failed.
Moves == ToGo' < ToGo \/ status' < UNIZIP_OK

USE SrcLenAssumption, EpilogueAssumption, DstLenAssumption, MaxGrantAssumption

-----------------------------------------------------------------------------

\* The numbers of an open stream.
LEMMA Numbers ==
    ASSUME IInv, ctx.mode = "open"
    PROVE  /\ ctx.in_pos \in 0 .. SrcLen /\ ctx.in_size \in 0 .. SrcLen
           /\ ctx.out_pos \in 0 .. SrcLen + EpilogueLen /\ ctx.out_size \in 0 .. DstLen
           /\ ctx.in_pos <= ctx.in_size /\ ctx.out_pos <= ctx.out_size
           /\ strm.avail_in \in 0 .. MaxGrant
           /\ strm = [next_in |-> 0, avail_in |-> strm.avail_in,
                      total_in |-> ctx.in_pos, next_out |-> 0,
                      avail_out |-> strm.avail_out, total_out |-> ctx.out_pos]
           /\ status # UNIZIP_STREAM_END /\ fin \in BOOLEAN
<1>1. /\ strm.next_in = 0 /\ strm.next_out = 0
      /\ strm.total_in = ctx.in_pos /\ strm.total_out = ctx.out_pos
  BY DEF IInv, InOrder, TypeOK, Ctxs, Waiting, ReadsOn
<1>2. strm \in Streams(SrcLen, DstLen, MaxGrant) /\ ctx \in Ctxs /\ fin \in BOOLEAN
  BY DEF IInv, InOrder, TypeOK
<1>3. QED
  BY <1>1, <1>2 DEF IInv, Waiting, Covered, Streams, Ctxs

\* A call for which i bytes of input and o of room are on the books, and in
\* which u were read and p written.
LEMMA WorkedStep ==
    ASSUME IInv, ctx.mode = "open",
           NEW n \in 0 .. MaxGrant, NEW m \in 0 .. MaxGrant,
           NEW i \in 0 .. SrcLen, NEW o \in 0 .. DstLen, i = 0 => n = 0,
           NEW u \in 0 .. i - ctx.in_pos, NEW p \in 0 .. o - ctx.out_pos,
           NEW ended \in BOOLEAN, fin' \in BOOLEAN,
           Worked(Grant(strm, n, m),
                  [mode |-> "open", in_pos |-> ctx.in_pos, in_size |-> i,
                   out_pos |-> ctx.out_pos, out_size |-> o], u, p, ended),
           ~fin' => ctx.out_pos + p <= ctx.in_pos + u /\ ~ended,
           fin' => ctx.in_pos + u = SrcLen,
           fin' /\ ~ended => ctx.out_pos + p < SrcLen + EpilogueLen,
           ended => ctx.out_pos + p = SrcLen + EpilogueLen,
           u > 0 \/ p > 0
    PROVE  IInv' /\ [Contract!Next]_(Contract!vars) /\ Moves
<1> DEFINE in == ctx.in_pos + u
           out == ctx.out_pos + p
<1>1. /\ ctx' = [mode |-> IF ended THEN "ended" ELSE "open", in_pos |-> in,
                 in_size |-> i, out_pos |-> out, out_size |-> o]
      /\ status' = IF ended THEN UNIZIP_STREAM_END ELSE UNIZIP_OK
  BY DEF Worked, Moved
<1>2. strm' = [next_in |-> IF ended THEN in ELSE 0, avail_in |-> n, total_in |-> in,
               next_out |-> IF ended THEN out ELSE 0, avail_out |-> m, total_out |-> out]
  <2>1. /\ strm.next_in = 0 /\ strm.next_out = 0
        /\ strm.total_in = ctx.in_pos /\ strm.total_out = ctx.out_pos
        /\ in \in Int /\ out \in Int /\ 0 + in = in /\ 0 + out = out
    BY Numbers
  <2>2. QED
    BY <2>1 DEF Worked, Counted, Moved, Grant
<1>3. /\ in \in 0 .. i /\ out \in 0 .. o /\ out \in 0 .. SrcLen + EpilogueLen
      /\ ctx.in_pos <= in /\ ctx.out_pos <= out
  BY Numbers
<1>4. TypeOK'
  <2>1. strm' \in Streams(SrcLen, DstLen, MaxGrant)
    BY <1>2, <1>3 DEF Streams
  <2>2. ctx' \in Ctxs
    BY <1>1, <1>3 DEF Ctxs, Modes
  <2>3. status' \in Status
    BY <1>1 DEF Status, UNIZIP_STREAM_END, UNIZIP_OK
  <2>4. QED
    BY <2>1, <2>2, <2>3 DEF TypeOK
<1>5. InsideBuffers' /\ ReadsOn'
  BY <1>1, <1>2, <1>3 DEF InsideBuffers, ReadsOn
<1>6. Waiting'
  BY <1>1, <1>2, <1>3 DEF Waiting
<1>7. Covered'
  BY <1>1, <1>2, <1>3 DEF Covered, UNIZIP_STREAM_END, UNIZIP_OK
<1>8. [Contract!Next]_(Contract!vars)
  <2>1. /\ strm.total_in = ctx.in_pos /\ strm.total_out = ctx.out_pos
        /\ strm'.total_in = in /\ strm'.total_out = out
        /\ status # UNIZIP_STREAM_END
        /\ in \in ctx.in_pos .. SrcLen /\ out \in ctx.out_pos .. SrcLen + EpilogueLen
    BY <1>2, <1>3, Numbers
  <2>2. CASE ended
    BY <1>1, <2>1, <2>2 DEF Contract!Next, Contract!Complete
  <2>3. CASE ~ended
    BY <1>1, <2>1, <2>3
       DEF Contract!Next, Contract!Progress, UNIZIP_STREAM_END, UNIZIP_OK
  <2>4. QED
    BY <2>2, <2>3
<1>9. Moves
  <2>1. /\ strm.total_in = ctx.in_pos /\ strm.total_out = ctx.out_pos
        /\ strm'.total_in = in /\ strm'.total_out = out
    BY <1>2, Numbers
  <2>2. in + out > ctx.in_pos + ctx.out_pos
    BY Numbers
  <2>3. in \in Nat /\ out \in Nat /\ ctx.in_pos \in Nat /\ ctx.out_pos \in Nat
    BY <1>3, Numbers
  <2>4. QED
    BY <2>1, <2>2, <2>3 DEF Moves, ToGo
<1>10. QED
  BY <1>4, <1>5, <1>6, <1>7, <1>8, <1>9 DEF IInv, InOrder

\* A call that failed keeps the grants it was given.
LEMMA BrokeStep ==
    ASSUME IInv, ctx.mode = "open",
           NEW n \in 0 .. MaxGrant, NEW m \in 0 .. MaxGrant,
           NEW i \in 0 .. SrcLen, NEW o \in 0 .. DstLen, i = 0 => n = 0,
           ctx.in_pos <= i, ctx.out_pos <= o,
           Broke(Grant(strm, n, m),
                 [mode |-> "open", in_pos |-> ctx.in_pos, in_size |-> i,
                  out_pos |-> ctx.out_pos, out_size |-> o]),
           fin' = fin \/ (fin' = TRUE /\ ctx.in_pos = SrcLen)
    PROVE  IInv' /\ [Contract!Next]_(Contract!vars) /\ Moves
<1>1. /\ ctx' = [mode |-> "open", in_pos |-> ctx.in_pos, in_size |-> i,
                 out_pos |-> ctx.out_pos, out_size |-> o]
      /\ strm' = [next_in |-> 0, avail_in |-> n, total_in |-> ctx.in_pos,
                  next_out |-> 0, avail_out |-> m, total_out |-> ctx.out_pos]
      /\ status' \in {-3, -4}
  BY Numbers DEF Broke, Grant, UNIZIP_DATA_ERROR, UNIZIP_MEM_ERROR
<1>2. TypeOK'
  <2>1. strm' \in Streams(SrcLen, DstLen, MaxGrant) /\ ctx' \in Ctxs
    BY <1>1, Numbers DEF Streams, Ctxs, Modes
  <2>2. status' \in Status
    BY <1>1 DEF Status
  <2>3. fin' \in BOOLEAN
    BY Numbers
  <2>4. QED
    BY <2>1, <2>2, <2>3 DEF TypeOK
<1>3. InsideBuffers' /\ ReadsOn' /\ Waiting'
  BY <1>1, Numbers DEF InsideBuffers, ReadsOn, Waiting
<1>4. Covered'
  BY <1>1, Numbers DEF Covered, IInv, UNIZIP_STREAM_END
<1>5. UNCHANGED Contract!vars
  BY <1>1, Numbers DEF Contract!vars, UNIZIP_STREAM_END
<1>6. Moves
  BY <1>1 DEF Moves, UNIZIP_OK
<1>7. QED
  BY <1>2, <1>3, <1>4, <1>5, <1>6 DEF IInv, InOrder

\* A call that feeds (Z_NO_FLUSH).
LEMMA FeedStep ==
    ASSUME IInv, NEW n \in 1 .. MaxGrant, NEW m \in 1 .. MaxGrant, Feed(n, m)
    PROVE  IInv' /\ [Contract!Next]_(Contract!vars) /\ Moves
<1>1. /\ ctx.mode = "open" /\ ~fin /\ fin' = fin
      /\ n <= SrcLen - ctx.in_pos /\ m <= DstLen - ctx.out_pos
      /\ n \in 0 .. MaxGrant /\ m \in 0 .. MaxGrant /\ NoFlush # Finish
  BY Numbers DEF Feed, deflateCB_zstd, NoFlush, Finish
<1>2. PICK i \in 0 .. SrcLen :
         i = IF ctx.in_size <= ctx.in_pos THEN ctx.in_size + n ELSE ctx.in_size
  BY <1>1, Numbers
<1>3. PICK o \in 0 .. DstLen :
         o = IF ctx.out_size <= ctx.out_pos THEN ctx.out_size + m ELSE ctx.out_size
  BY <1>1, Numbers
<1>4. i # 0 /\ ctx.in_pos < i /\ ctx.out_pos < o /\ ctx.in_pos <= i /\ ctx.out_pos <= o
  BY <1>1, <1>2, <1>3, Numbers
<1> DEFINE c == [mode |-> "open", in_pos |-> ctx.in_pos, in_size |-> i,
                 out_pos |-> ctx.out_pos, out_size |-> o]
<1>5. Loaded(Grant(strm, n, m), ctx, NoFlush = Finish) = c
  BY <1>1, <1>2, <1>3 DEF Loaded, Grant
<1>6. CASE Broke(Grant(strm, n, m), c)
  BY <1>1, <1>4, <1>6, BrokeStep
<1>7. ASSUME NEW u \in 0 .. i - ctx.in_pos, NEW p \in 0 .. o - ctx.out_pos,
             MayCompress(c, u, p), Worked(Grant(strm, n, m), c, u, p, FALSE)
      PROVE  IInv' /\ [Contract!Next]_(Contract!vars) /\ Moves
  <2>1. ctx.out_pos + p <= ctx.in_pos + u
    BY <1>1, <1>7, Numbers DEF MayCompress, Held, Moved
  <2>2. ~fin' /\ fin' \in BOOLEAN
    BY <1>1, Numbers
  <2>3. PICK ended \in BOOLEAN : ended = FALSE
    OBVIOUS
  <2>4. Worked(Grant(strm, n, m), c, u, p, ended)
    BY <1>7, <2>3
  <2>5. u > 0 \/ p > 0
    BY <1>1, <1>4, <1>7, Numbers DEF MayCompress
  <2>6. QED
    BY <1>1, <1>4, <2>1, <2>2, <2>3, <2>4, <2>5, WorkedStep
<1>8. c.in_pos = ctx.in_pos /\ c.in_size = i /\ c.out_pos = ctx.out_pos /\ c.out_size = o
  OBVIOUS
<1> HIDE DEF c
<1>9. \/ Broke(Grant(strm, n, m), c)
      \/ \E u \in 0 .. i - ctx.in_pos, p \in 0 .. o - ctx.out_pos :
            MayCompress(c, u, p) /\ Worked(Grant(strm, n, m), c, u, p, FALSE)
  BY <1>1, <1>5, <1>8, Zenon DEF Feed, deflateCB_zstd
<1>10. QED
  BY <1>6, <1>7, <1>9

\* A call that asks for the end (Z_FINISH).
LEMMA FinishStep ==
    ASSUME IInv, NEW m \in 1 .. MaxGrant, AskForEnd(m)
    PROVE  IInv' /\ [Contract!Next]_(Contract!vars) /\ Moves
<1>1. /\ ctx.mode = "open" /\ fin' = TRUE /\ m <= DstLen - ctx.out_pos
      /\ ctx.in_pos = SrcLen /\ ctx.in_size = SrcLen
  <2>1. ctx.mode = "open" /\ strm.total_in = SrcLen /\ fin' = TRUE
        /\ m <= DstLen - strm.total_out
    BY DEF AskForEnd, deflateCB_zstd
  <2>2. strm.total_in = ctx.in_pos /\ strm.total_out = ctx.out_pos
    BY <2>1, Numbers
  <2>3. QED
    BY <2>1, <2>2, Numbers
<1>2. PICK n \in 0 .. MaxGrant : n = strm.avail_in
  BY <1>1, Numbers
<1>3. SrcLen = 0 => n = 0
  BY <1>1, <1>2 DEF IInv, Waiting
<1>4. PICK o \in 0 .. DstLen :
         o = IF ctx.out_size <= ctx.out_pos THEN ctx.out_size + m ELSE ctx.out_size
  BY <1>1, Numbers
<1>5. ctx.out_pos <= o /\ ctx.out_pos < o
  BY <1>1, <1>4, Numbers
<1> DEFINE c == [mode |-> "open", in_pos |-> SrcLen, in_size |-> SrcLen,
                 out_pos |-> ctx.out_pos, out_size |-> o]
<1>6. Loaded(Grant(strm, n, m), ctx, Finish = Finish) = c
  <2>1. ctx.in_pos = 0 => n = 0
    BY <1>1, <1>3
  <2>2. SrcLen + 0 = SrcLen
    OBVIOUS
  <2>3. QED
    BY <1>1, <1>4, <2>1, <2>2 DEF Loaded, Grant
<1>7. CASE Broke(Grant(strm, n, m), c)
  BY <1>1, <1>3, <1>5, <1>7, BrokeStep
<1>8. ASSUME NEW p \in 0 .. o - ctx.out_pos,
             MayEnd(c, p), Worked(Grant(strm, n, m), c, 0, p, Ended(Remaining(c, p)))
      PROVE  IInv' /\ [Contract!Next]_(Contract!vars) /\ Moves
  <2>1. Remaining(c, p) = SrcLen - ctx.out_pos + EpilogueLen - p /\ Remaining(c, p) >= 0
    BY <1>8 DEF MayEnd, Remaining, Held
  <2>2. PICK ended \in BOOLEAN : ended = Ended(Remaining(c, p))
    BY DEF Ended
  <2>3. IF ended THEN ctx.out_pos + p = SrcLen + EpilogueLen
                 ELSE ctx.out_pos + p < SrcLen + EpilogueLen
    <3>1. ended <=> Remaining(c, p) = 0
      BY <2>2 DEF Ended
    <3>2. ctx.out_pos \in Int /\ p \in Int
      BY <1>1, Numbers
    <3>3. QED
      BY <2>1, <3>1, <3>2
  <2>4. 0 \in 0 .. SrcLen - ctx.in_pos /\ ctx.in_pos + 0 = SrcLen
    BY <1>1
  <2>5. p > 0
    <3>1. ctx.out_pos < SrcLen + EpilogueLen /\ ctx.out_pos \in Nat
      BY <1>1, Numbers DEF IInv, Covered
    <3>2. Remaining(c, p) = 0 \/ p = o - ctx.out_pos
      BY <1>8 DEF MayEnd
    <3>3. QED
      BY <1>5, <2>1, <3>1, <3>2
  <2>6. QED
    BY <1>1, <1>3, <1>8, <2>2, <2>3, <2>4, <2>5, WorkedStep
<1>9. QED
  BY <1>2, <1>6, <1>7, <1>8 DEF AskForEnd, deflateCB_zstd

\* Setting a stream up, resetting it or giving it up starts from nothing.
LEMMA RenewedStep ==
    ASSUME NEW mode \in {"none", "open"}, NEW ret \in {UNIZIP_OK, UNIZIP_MEM_ERROR},
           Renewed(mode, ret)
    PROVE  IInv' /\ Contract!Restart
<1>1. /\ strm' = [next_in |-> 0, avail_in |-> 0, total_in |-> 0,
                  next_out |-> 0, avail_out |-> 0, total_out |-> 0]
      /\ ctx' = [mode |-> mode, in_pos |-> 0, in_size |-> 0, out_pos |-> 0, out_size |-> 0]
      /\ status' \in {0, -4} /\ fin' = FALSE
  BY DEF Renewed, ResetStream, FreshCtx, UNIZIP_OK, UNIZIP_MEM_ERROR
<1>2. TypeOK'
  <2>1. strm' \in Streams(SrcLen, DstLen, MaxGrant) /\ ctx' \in Ctxs
    BY <1>1 DEF Streams, Ctxs, Modes
  <2>2. status' \in Status
    BY <1>1 DEF Status
  <2>3. fin' \in BOOLEAN
    BY <1>1
  <2>4. QED
    BY <2>1, <2>2, <2>3 DEF TypeOK
<1>3. InsideBuffers' /\ ReadsOn' /\ Waiting' /\ Covered'
  BY <1>1 DEF InsideBuffers, ReadsOn, Waiting, Covered, UNIZIP_STREAM_END
<1>4. Contract!Restart
  BY <1>1 DEF Contract!Restart, UNIZIP_STREAM_END
<1>5. QED
  BY <1>2, <1>3, <1>4 DEF IInv, InOrder

\* Every call of a caller leaves less to go, or has failed.
LEMMA DriveStep ==
    ASSUME IInv, Drive
    PROVE  IInv' /\ [Contract!Next]_(Contract!vars) /\ Moves
  BY FeedStep, FinishStep DEF Drive

\* Every step of the specification preserves the invariant, and is a step of
\* the contract or changes nothing it speaks of.
LEMMA Step ==
    ASSUME IInv, Next
    PROVE  IInv' /\ [Contract!Next]_(Contract!vars)
<1>1. CASE Drive
  BY <1>1, DriveStep
<1>2. CASE deflateInitCB_zstd \/ deflateResetCB_zstd \/ deflateEndCB_zstd
  BY <1>2, RenewedStep
     DEF deflateInitCB_zstd, deflateResetCB_zstd, deflateEndCB_zstd, Contract!Next
<1>3. QED
  BY <1>1, <1>2 DEF Next

\* Between calls nothing changes.
LEMMA Stutter ==
    ASSUME IInv, UNCHANGED vars
    PROVE  IInv' /\ UNCHANGED Contract!vars
<1>1. strm' = strm /\ ctx' = ctx /\ status' = status /\ fin' = fin
  BY DEF vars
<1>2. IInv'
  BY <1>1 DEF IInv, InOrder, TypeOK, InsideBuffers, ReadsOn, Waiting, Covered
<1>3. QED
  BY <1>1, <1>2 DEF Contract!vars

\* No stream has been set up when the program starts.
LEMMA InitInv == Init => IInv /\ Contract!Init
<1> SUFFICES ASSUME Init PROVE IInv /\ Contract!Init
  OBVIOUS
<1>1. /\ strm = [next_in |-> 0, avail_in |-> 0, total_in |-> 0,
                 next_out |-> 0, avail_out |-> 0, total_out |-> 0]
      /\ ctx = [mode |-> "none", in_pos |-> 0, in_size |-> 0, out_pos |-> 0, out_size |-> 0]
      /\ status = 0 /\ fin = FALSE
  BY DEF Init, ResetStream, FreshCtx, UNIZIP_OK
<1>2. strm \in Streams(SrcLen, DstLen, MaxGrant) /\ ctx \in Ctxs
  BY <1>1 DEF Streams, Ctxs, Modes
<1>3. status \in Status
  BY <1>1 DEF Status
<1>4. fin \in BOOLEAN
  BY <1>1
<1>5. InsideBuffers /\ ReadsOn /\ Waiting /\ Covered /\ Contract!Init
  BY <1>1 DEF InsideBuffers, ReadsOn, Waiting, Covered, Contract!Init, UNIZIP_STREAM_END
<1>6. QED
  BY <1>2, <1>3, <1>4, <1>5 DEF IInv, InOrder, TypeOK

\* The inductive invariant holds throughout every execution.
THEOREM Invariance == Spec => []IInv
<1>1. IInv /\ [Next]_vars => IInv'
  BY Step, Stutter
<1>2. QED
  BY <1>1, InitInv, PTL DEF Spec

\* Each call reads and writes on where the last one stopped, inside the caller's
\* buffers, also after calls that failed (unizip_algorithm_zstd.c:162-186).
THEOREM ReadsAndWritesInOrder == Spec => []InOrder
<1>1. IInv => InOrder
  BY DEF IInv
<1>2. QED
  BY <1>1, Invariance, PTL

\* No call that did not fail is in vain, and only so many can be made of one
\* stream: each leaves less to go, of a number that stays natural.
THEOREM CallsEnd == Spec => EachCallMoves /\ [](ToGo \in Nat)
<1>1. IInv => ToGo \in Nat
  <2> SUFFICES ASSUME IInv PROVE ToGo \in Nat
    OBVIOUS
  <2>2. strm.total_in \in 0 .. SrcLen
    BY DEF IInv, InOrder, TypeOK, Streams
  <2>3. CASE ctx.mode = "open"
    BY <2>2, <2>3, Numbers DEF ToGo
  <2>4. CASE ctx.mode # "open"
    <3>1. ctx.mode \in {"none", "ended"}
      BY <2>4 DEF IInv, InOrder, TypeOK, Ctxs, Modes
    <3>2. strm.total_out \in {0, SrcLen + EpilogueLen}
      BY <3>1 DEF IInv, Covered
    <3>3. QED
      BY <2>2, <3>2 DEF ToGo
  <2>5. QED
    BY <2>3, <2>4
<1>2. IInv /\ [Next]_vars => [Drive => Moves]_vars
  BY DriveStep
<1>3. QED
  BY <1>1, <1>2, Invariance, PTL DEF Spec, EachCallMoves, Moves

\* The adapter implements the contract of a streaming compressor.
THEOREM Refinement == Spec => KeepsContract
<1>1. IInv /\ [Next]_vars => [Contract!Next]_(Contract!vars)
  BY Step, Stutter
<1>2. QED
  BY <1>1, InitInv, Invariance, PTL DEF Spec, KeepsContract, Contract!Spec

=============================================================================
