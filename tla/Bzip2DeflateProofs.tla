------------------------- MODULE Bzip2DeflateProofs -------------------------
(***************************************************************************)
(* Proofs about Bzip2Deflate, for every input, buffer, trailer and grant.  *)
(*                                                                         *)
(* The argument is about the library's leftover grant bz.avail_in.  While  *)
(* the stream runs it is bounded by what the caller has left to give; from *)
(* the first Z_FINISH on it is exactly the rest of the input, because no   *)
(* further grant is loaded.  So the library never sees a finish with an    *)
(* avail_in it does not expect, and reaches the end only at the end of     *)
(* the input.                                                              *)
(***************************************************************************)
EXTENDS Bzip2Deflate, TLAPS

\* From the first finish on, the leftover grant is exactly the unread input.
EndingOwnsRest ==
    bz.mode \in {"finishing", "idle"} => bz.total_in + bz.avail_in = SrcLen

\* What the library still holds, in every mode.
HoldsEnough ==
    /\ bz.mode = "running" => bz.total_out <= bz.total_in
    /\ bz.mode = "finishing" =>
          /\ bz.expect = bz.avail_in
          /\ bz.avail_in > 0 => bz.total_out <= bz.total_in
          /\ bz.avail_in = 0 => bz.total_out < bz.total_in + TrailerLen
    /\ bz.mode = "idle" =>
          bz.avail_in = 0 /\ bz.total_out = SrcLen + TrailerLen

\* A grant is only left over once something was read.
NothingReadNothingLeft ==
    bz.mode = "running" /\ bz.total_in = 0 => bz.avail_in = 0

\* The caller's flags agree with the library's mode.
FlagsAgree ==
    /\ fin <=> bz.mode \in {"finishing", "idle"}
    /\ status = UNIZIP_STREAM_END <=> bz.mode = "idle"

IInv ==
    /\ TypeOK
    /\ Contiguous
    /\ InsideBuffers
    /\ NoSpuriousError
    /\ EndingOwnsRest
    /\ HoldsEnough
    /\ NothingReadNothingLeft
    /\ FlagsAgree
    /\ strm.avail_in <= SrcLen

\* No call takes back input or output of the stream, and each adds to one.
MovesOn ==
    /\ strm.total_in' >= strm.total_in
    /\ strm.total_out' >= strm.total_out
    /\ strm.total_in' + strm.total_out' > strm.total_in + strm.total_out

USE SrcLenAssumption, TrailerAssumption, DstLenAssumption, MaxGrantAssumption

-----------------------------------------------------------------------------

\* A state that satisfies the invariant is made of numbers.
LEMMA Numbers ==
    ASSUME IInv
    PROVE  /\ bz.total_in \in 0 .. SrcLen /\ bz.total_out \in Nat
           /\ bz.avail_in \in 0 .. MaxGrant /\ bz.avail_out \in 0 .. MaxGrant
           /\ bz.expect \in 0 .. MaxGrant
           /\ strm = [next_in |-> bz.total_in, avail_in |-> strm.avail_in,
                      total_in |-> bz.total_in, next_out |-> bz.total_out,
                      avail_out |-> strm.avail_out, total_out |-> bz.total_out]
           /\ strm.avail_in \in 0 .. SrcLen /\ strm.avail_out \in 0 .. MaxGrant
           /\ bz = [mode |-> bz.mode, avail_in |-> bz.avail_in,
                    avail_out |-> bz.avail_out, total_in |-> bz.total_in,
                    total_out |-> bz.total_out, expect |-> bz.expect]
  BY DEF IInv, TypeOK, Contiguous, Streams, BzStates

\* A call that feeds (Z_NO_FLUSH): the library moves at least one byte within
\* the loaded grants and is left running.
LEMMA FeedStep ==
    ASSUME IInv, NEW n \in 1 .. MaxGrant, NEW m \in 1 .. MaxGrant, Feed(n, m)
    PROVE  IInv' /\ MovesOn
<1> DEFINE g == Grant(strm, n, m)
           b == Loaded(g, bz, "BZ_RUN")
<1>1. bz.mode = "running" /\ ~fin /\ fin' = fin /\ fin \in BOOLEAN
  BY DEF Feed, deflateCB_bzip2, IInv, FlagsAgree, TypeOK, BzStates, Modes
<1>2. PICK u \in 0 .. b.avail_in, p \in 0 .. b.avail_out :
         Compress(g, b, "BZ_RUN", u, p)
  BY DEF Feed, deflateCB_bzip2, Action, NoFlush, Finish
<1>3. /\ n <= SrcLen - bz.total_in /\ m <= DstLen - bz.total_out
      /\ g = [next_in |-> bz.total_in, avail_in |-> n,
              total_in |-> bz.total_in, next_out |-> bz.total_out,
              avail_out |-> m, total_out |-> bz.total_out]
  BY Numbers DEF Feed, Room, Grant
<1>4. PICK a, o :
         /\ a = (IF bz.avail_in = 0 THEN n ELSE bz.avail_in)
         /\ o = (IF bz.avail_out = 0 THEN m ELSE bz.avail_out)
         /\ b = [mode |-> "running", avail_in |-> a, avail_out |-> o,
                 total_in |-> bz.total_in, total_out |-> bz.total_out,
                 expect |-> bz.expect]
  BY <1>1, <1>3, Numbers DEF Loaded, ReloadIn, ReloadOut
<1> HIDE DEF b, g
<1>5. /\ a \in 1 .. MaxGrant /\ o \in 1 .. MaxGrant
      /\ bz.total_in + a <= SrcLen /\ bz.total_out + o <= DstLen
      /\ u \in 0 .. a /\ p \in 0 .. o
      /\ bz.total_out <= bz.total_in
      /\ bz.total_in = 0 => bz.avail_in = 0
  BY <1>1, <1>2, <1>3, <1>4, Numbers
     DEF IInv, InsideBuffers, HoldsEnough, NothingReadNothingLeft
<1>6. ~Refused(b, "BZ_RUN")
  BY <1>4 DEF Refused
<1>7. Moved(b, u, p) = [mode |-> "running", avail_in |-> a - u, avail_out |-> o - p,
                        total_in |-> bz.total_in + u, total_out |-> bz.total_out + p,
                        expect |-> bz.expect]
  BY <1>4 DEF Moved
<1>8. /\ bz.total_in + u - (bz.total_out + p) >= 0
      /\ \/ o - p = 0 /\ bz.total_in + u - (bz.total_out + p) > 0
         \/ a - u = 0
  BY <1>2, <1>5, <1>6, <1>7, Numbers DEF Compress, MayMove, Handles, Held
<1>9. u + p > 0 /\ bz.total_in + u > 0
  BY <1>5, <1>8, Numbers
<1>10. BzReturn(b, "BZ_RUN", u, p) = "BZ_RUN_OK"
  BY <1>6, <1>9 DEF BzReturn
<1>11. bz' = Moved(b, u, p) /\ strm' = Advance(g, bz') /\ status' = UNIZIP_OK
  BY <1>2, <1>3, <1>6, <1>10 DEF Compress, BZ2_bzCompress, Accepted, map_error
<1>12. strm' = [next_in |-> bz.total_in + u, avail_in |-> n,
                total_in |-> bz.total_in + u, next_out |-> bz.total_out + p,
                avail_out |-> m, total_out |-> bz.total_out + p]
  BY <1>3, <1>5, <1>7, <1>11, Numbers DEF Advance, Stepped
<1>13. TypeOK'
  <2>1. strm' \in Streams(SrcLen, DstLen, MaxGrant)
    BY <1>3, <1>5, <1>12, Numbers DEF Streams
  <2>2. bz' \in BzStates
    BY <1>5, <1>7, <1>8, <1>11, Numbers DEF BzStates, Modes
  <2>3. status' \in Status /\ fin' \in BOOLEAN
    BY <1>1, <1>11 DEF Status, UNIZIP_OK
  <2>4. QED
    BY <2>1, <2>2, <2>3 DEF TypeOK
<1>14. Contiguous' /\ InsideBuffers'
  BY <1>5, <1>7, <1>11, <1>12, Numbers DEF Contiguous, InsideBuffers
<1>15. NoSpuriousError' /\ FlagsAgree'
  BY <1>1, <1>7, <1>11 DEF NoSpuriousError, FlagsAgree, UNIZIP_OK, UNIZIP_STREAM_END
<1>16. EndingOwnsRest' /\ HoldsEnough' /\ NothingReadNothingLeft'
  BY <1>5, <1>7, <1>8, <1>9, <1>11, Numbers
     DEF EndingOwnsRest, HoldsEnough, NothingReadNothingLeft
<1>17. (strm.avail_in <= SrcLen)'
  BY <1>3, <1>12, Numbers
<1>18. MovesOn
  BY <1>5, <1>9, <1>12, Numbers DEF MovesOn
<1>19. QED
  BY <1>13, <1>14, <1>15, <1>16, <1>17, <1>18 DEF IInv

\* A call that asks for the end (Z_FINISH), once what is loaded reaches to the
\* end of the input: the library accepts it, moves at least one byte, and if
\* that was the last one reports the end.
LEMMA FinishStep ==
    ASSUME IInv, NEW n \in 0 .. SrcLen, NEW m \in 1 .. MaxGrant,
           status # UNIZIP_STREAM_END, Room(m),
           \/ fin
           \/ strm.total_in = SrcLen
           \/ strm.total_in = 0 /\ n = SrcLen,
           deflateCB_bzip2(Grant(strm, n, m), Finish), fin' = TRUE
    PROVE  IInv' /\ MovesOn
<1> DEFINE g == Grant(strm, n, m)
           b == Loaded(g, bz, "BZ_FINISH")
<1>1. /\ bz.mode \in {"running", "finishing"} /\ fin \in BOOLEAN
      /\ fin <=> bz.mode = "finishing"
  BY DEF deflateCB_bzip2, IInv, FlagsAgree, TypeOK, BzStates, Modes
<1>2. PICK u \in 0 .. b.avail_in, p \in 0 .. b.avail_out :
         Compress(g, b, "BZ_FINISH", u, p)
  BY DEF deflateCB_bzip2, Action
<1>3. /\ m <= DstLen - bz.total_out
      /\ g = [next_in |-> bz.total_in, avail_in |-> n,
              total_in |-> bz.total_in, next_out |-> bz.total_out,
              avail_out |-> m, total_out |-> bz.total_out]
      /\ fin \/ bz.total_in = SrcLen \/ (bz.total_in = 0 /\ n = SrcLen)
  BY Numbers DEF Room, Grant
<1>4. PICK a, o :
         /\ a = (IF bz.avail_in = 0 /\ bz.total_in = 0 THEN n ELSE bz.avail_in)
         /\ o = (IF bz.avail_out = 0 THEN m ELSE bz.avail_out)
         /\ b = [mode |-> bz.mode, avail_in |-> a, avail_out |-> o,
                 total_in |-> bz.total_in, total_out |-> bz.total_out,
                 expect |-> bz.expect]
  BY <1>3, Numbers DEF Loaded, ReloadIn, ReloadOut
<1> HIDE DEF b, g
<1>5. /\ a \in 0 .. MaxGrant /\ o \in 1 .. MaxGrant
      /\ bz.total_out + o <= DstLen
      /\ u \in 0 .. a /\ p \in 0 .. o
  BY <1>2, <1>3, <1>4, Numbers DEF IInv, InsideBuffers
<1>6. bz.total_in + a = SrcLen
  BY <1>1, <1>3, <1>4, Numbers
     DEF IInv, InsideBuffers, EndingOwnsRest, NothingReadNothingLeft
<1>7. /\ bz.mode = "finishing" => bz.expect = a
      /\ a > 0 => bz.total_out <= bz.total_in
      /\ a = 0 => bz.total_out < bz.total_in + TrailerLen
  BY <1>1, <1>4, <1>6, Numbers
     DEF IInv, HoldsEnough, EndingOwnsRest, NothingReadNothingLeft
<1>8. ~Refused(b, "BZ_FINISH")
  BY <1>1, <1>4, <1>7 DEF Refused
<1>9. Moved(b, u, p) = [mode |-> bz.mode, avail_in |-> a - u, avail_out |-> o - p,
                        total_in |-> bz.total_in + u, total_out |-> bz.total_out + p,
                        expect |-> bz.expect]
  BY <1>4 DEF Moved
<1> DEFINE held == bz.total_in + u - (bz.total_out + p)
                     + (IF a - u = 0 THEN TrailerLen ELSE 0)
<1>10. /\ held >= 0
       /\ \/ o - p = 0 /\ held > 0
          \/ a - u = 0 /\ held = 0
  BY <1>2, <1>5, <1>8, <1>9, Numbers DEF Compress, MayMove, Handles, Held
<1>11. u + p > 0
  BY <1>5, <1>7, <1>10, Numbers
<1>12. Drained(b, u, p) <=> (a - u = 0 /\ held = 0)
  BY <1>4, <1>5, <1>9, Numbers DEF Drained, Held
<1> HIDE DEF held
<1> DEFINE over == a - u = 0 /\ held = 0
<1>13. BzReturn(b, "BZ_FINISH", u, p)
          = (IF over THEN "BZ_STREAM_END" ELSE "BZ_FINISH_OK")
  BY <1>8, <1>11, <1>12 DEF BzReturn
<1>14. /\ bz' = [mode |-> IF over THEN "idle" ELSE "finishing",
                 avail_in |-> a - u, avail_out |-> o - p,
                 total_in |-> bz.total_in + u, total_out |-> bz.total_out + p,
                 expect |-> a - u]
       /\ strm' = Advance(g, bz')
       /\ status' = IF over THEN UNIZIP_STREAM_END ELSE UNIZIP_OK
  BY <1>2, <1>3, <1>4, <1>8, <1>13
     DEF Compress, BZ2_bzCompress, Moved, Accepted, map_error
<1>15. strm' = [next_in |-> bz.total_in + u, avail_in |-> n,
                total_in |-> bz.total_in + u, next_out |-> bz.total_out + p,
                avail_out |-> m, total_out |-> bz.total_out + p]
  BY <1>3, <1>5, <1>14, Numbers DEF Advance, Stepped
<1>16. /\ held \in Nat
       /\ a - u = 0 => bz.total_out + p + held = bz.total_in + u + TrailerLen
       /\ a - u # 0 => bz.total_out + p + held = bz.total_in + u
  BY <1>5, <1>10, Numbers DEF held
<1>17. TypeOK'
  <2>1. strm' \in Streams(SrcLen, DstLen, MaxGrant)
    BY <1>5, <1>6, <1>15, Numbers DEF Streams
  <2>2. bz' \in BzStates
    <3>1. bz.total_out + p \in 0 .. SrcLen + TrailerLen
      <4> DEFINE room == SrcLen + TrailerLen
      <4>1. bz.total_in + u \in 0 .. SrcLen
        BY <1>5, <1>6, Numbers
      <4>2. bz.total_out + p + held <= room
        BY <4>1, <1>5, <1>16, Numbers
      <4>3. bz.total_out \in Nat /\ p \in Nat /\ held \in Nat
        BY <1>5, <1>16, Numbers
      <4>4. QED
        BY <4>2, <4>3
    <3>2. bz.total_in + u \in 0 .. SrcLen /\ a - u \in 0 .. MaxGrant
          /\ o - p \in 0 .. MaxGrant
      BY <1>5, <1>6, <1>4, Numbers
    <3>3. (IF over THEN "idle" ELSE "finishing") \in Modes
      BY DEF Modes
    <3> HIDE DEF over
    <3>4. QED
      BY <1>14, <3>1, <3>2, <3>3 DEF BzStates
  <2>3. status' \in Status /\ fin' \in BOOLEAN
    BY <1>14 DEF Status, UNIZIP_OK, UNIZIP_STREAM_END
  <2>4. QED
    BY <2>1, <2>2, <2>3 DEF TypeOK
<1>18. Contiguous' /\ InsideBuffers'
  BY <1>5, <1>6, <1>14, <1>15, Numbers DEF Contiguous, InsideBuffers
<1>19. NoSpuriousError' /\ FlagsAgree'
  <2>1. CASE over
    <3>1. bz'.mode = "idle" /\ status' = UNIZIP_STREAM_END
      BY <1>14, <2>1
    <3>2. QED
      BY <3>1 DEF NoSpuriousError, FlagsAgree
  <2>2. CASE ~over
    <3>1. bz'.mode = "finishing" /\ status' = UNIZIP_OK
      BY <1>14, <2>2
    <3>2. QED
      BY <3>1 DEF NoSpuriousError, FlagsAgree, UNIZIP_OK, UNIZIP_STREAM_END
  <2>3. QED
    BY <2>1, <2>2
<1>20. EndingOwnsRest' /\ HoldsEnough' /\ NothingReadNothingLeft'
  <2>1. CASE over
    <3>1. bz'.mode = "idle" /\ bz'.avail_in = 0 /\ bz'.total_in = SrcLen
          /\ bz'.total_out = SrcLen + TrailerLen
      BY <1>5, <1>6, <1>14, <1>16, <2>1, Numbers
    <3>2. QED
      BY <3>1 DEF EndingOwnsRest, HoldsEnough, NothingReadNothingLeft
  <2>2. CASE ~over
    <3>1. /\ bz'.mode = "finishing" /\ bz'.expect = bz'.avail_in
          /\ bz'.avail_in = a - u /\ bz'.total_in = bz.total_in + u
          /\ bz'.total_out = bz.total_out + p
      BY <1>14, <2>2
    <3>2. a - u = 0 => held > 0
      BY <1>16, <2>2
    <3>3. QED
      BY <1>5, <1>6, <1>16, <3>1, <3>2, Numbers
         DEF EndingOwnsRest, HoldsEnough, NothingReadNothingLeft
  <2>3. QED
    BY <2>1, <2>2
<1>21. (strm.avail_in <= SrcLen)'
  BY <1>15
<1>22. MovesOn
  BY <1>5, <1>11, <1>15, Numbers DEF MovesOn
<1>23. QED
  BY <1>17, <1>18, <1>19, <1>20, <1>21, <1>22 DEF IInv

\* Setting a stream up, resetting it or giving it up starts from nothing.
LEMMA NewStreamStep ==
    ASSUME NEW mode \in {"running", "none"},
           NEW ret \in {UNIZIP_OK, UNIZIP_MEM_ERROR}, NewStream(mode, ret)
    PROVE  IInv' /\ Contract!Restart
<1>1. bz' = [mode |-> mode, avail_in |-> 0, avail_out |-> 0,
             total_in |-> 0, total_out |-> 0, expect |-> 0]
  BY DEF NewStream, FreshCompressor
<1>2. /\ strm' = [next_in |-> 0, avail_in |-> 0, total_in |-> 0,
                  next_out |-> 0, avail_out |-> 0, total_out |-> 0]
      /\ fin' = FALSE
      /\ status' \in {0, -4}
  BY DEF NewStream, ResetStream, UNIZIP_OK, UNIZIP_MEM_ERROR
<1>3. TypeOK'
  <2>1. strm' \in Streams(SrcLen, DstLen, MaxGrant)
    BY <1>1, <1>2 DEF Streams
  <2>2. bz' \in BzStates
    BY <1>1, <1>2 DEF BzStates, Modes
  <2>3. status' \in Status
    BY <1>1, <1>2 DEF Status
  <2>4. fin' \in BOOLEAN
    BY <1>1, <1>2
  <2>5. QED
    BY <2>1, <2>2, <2>3, <2>4 DEF TypeOK
<1>4. Contiguous' /\ InsideBuffers' /\ EndingOwnsRest' /\ HoldsEnough'
      /\ NothingReadNothingLeft' /\ (strm.avail_in <= SrcLen)'
  BY <1>1, <1>2 DEF Contiguous, InsideBuffers, EndingOwnsRest, HoldsEnough,
                    NothingReadNothingLeft
<1>5. NoSpuriousError' /\ FlagsAgree'
  BY <1>1, <1>2 DEF NoSpuriousError, FlagsAgree,
                    UNIZIP_OK, UNIZIP_MEM_ERROR, UNIZIP_STREAM_END
<1>6. Contract!Restart
  BY <1>2 DEF Contract!Restart, UNIZIP_STREAM_END
<1>7. QED
  BY <1>3, <1>4, <1>5, <1>6 DEF IInv

\* STREAM_END is reported only when every byte of input has been read and the
\* whole compressed stream, trailer included, is in the caller's buffer.
EndIsComplete ==
    status = UNIZIP_STREAM_END =>
        /\ bz.total_in = SrcLen
        /\ bz.total_out = SrcLen + TrailerLen

\* The end is complete wherever the invariant holds.
LEMMA InvImpliesEndIsComplete == IInv => EndIsComplete
<1>1. SUFFICES ASSUME IInv, status = UNIZIP_STREAM_END
               PROVE  bz.total_in = SrcLen /\ bz.total_out = SrcLen + TrailerLen
  BY DEF EndIsComplete
<1>2. bz.mode = "idle"
  BY <1>1 DEF IInv, FlagsAgree
<1>3. QED
  BY <1>1, <1>2, Numbers DEF IInv, EndingOwnsRest, HoldsEnough

\* A call that went well is progress, or the completion, of the contract.
LEMMA CallKeepsContract ==
    ASSUME IInv, IInv', MovesOn, status # UNIZIP_STREAM_END
    PROVE  Contract!Progress \/ Contract!Complete
<1>1. /\ strm.total_in \in Nat /\ strm.total_out \in Nat
      /\ strm.total_in' \in 0 .. SrcLen
      /\ strm.total_out' \in 0 .. SrcLen + TrailerLen
      /\ strm.total_in' = bz.total_in' /\ strm.total_out' = bz.total_out'
  BY DEF IInv, TypeOK, Streams, BzStates, Contiguous
<1>2. CASE status' = UNIZIP_STREAM_END
  <2>1. bz.total_in' = SrcLen /\ bz.total_out' = SrcLen + TrailerLen
    BY <1>2, InvImpliesEndIsComplete DEF EndIsComplete, IInv,
       FlagsAgree, EndingOwnsRest, HoldsEnough, TypeOK, BzStates
  <2>2. QED
    BY <1>1, <1>2, <2>1 DEF Contract!Complete
<1>3. CASE status' # UNIZIP_STREAM_END
  BY <1>1, <1>3 DEF Contract!Progress, MovesOn
<1>4. QED
  BY <1>2, <1>3

\* A call that went well leaves less to go.
LEMMA CallMoves ==
    ASSUME IInv, IInv', MovesOn
    PROVE  ToGo' < ToGo
<1>1. /\ strm.total_in \in Nat /\ strm.total_out \in Nat
      /\ strm.total_in' \in Nat /\ strm.total_out' \in Nat
  BY DEF IInv, TypeOK, Streams
<1>2. QED
  BY <1>1 DEF ToGo, MovesOn

\* Every call of a caller preserves the invariant, is a step of the contract and
\* leaves less to go.
LEMMA DriveStep ==
    ASSUME IInv, Drive
    PROVE  IInv' /\ Contract!Next /\ ToGo' < ToGo
<1>1. CASE \E m \in 1 .. MaxGrant, n \in 1 .. MaxGrant : Feed(n, m)
  <2>1. PICK m \in 1 .. MaxGrant, n \in 1 .. MaxGrant : Feed(n, m)
    BY <1>1
  <2>2. IInv' /\ MovesOn
    BY <2>1, FeedStep
  <2>3. status # UNIZIP_STREAM_END
    BY <2>1 DEF Feed, IInv, FlagsAgree
  <2>4. QED
    BY <2>2, <2>3, CallKeepsContract, CallMoves DEF Contract!Next
<1>2. CASE \E m \in 1 .. MaxGrant : AskForEnd(m)
  <2>1. PICK m \in 1 .. MaxGrant : AskForEnd(m)
    BY <1>2
  <2>2. PICK n \in 0 .. SrcLen : n = strm.avail_in
    BY Numbers
  <2>3. /\ Room(m) /\ fin' = TRUE /\ status # UNIZIP_STREAM_END
        /\ fin \/ strm.total_in = SrcLen
        /\ deflateCB_bzip2(Grant(strm, n, m), Finish)
    BY <2>1, <2>2 DEF AskForEnd
  <2>4. IInv' /\ MovesOn
    BY <2>3, FinishStep
  <2>5. QED
    BY <2>3, <2>4, CallKeepsContract, CallMoves DEF Contract!Next
<1>3. CASE \E m \in 1 .. MaxGrant : OneShot(m)
  <2>1. PICK m \in 1 .. MaxGrant : OneShot(m)
    BY <1>3
  <2>2. PICK n \in 0 .. SrcLen : n = SrcLen
    OBVIOUS
  <2>3. /\ Room(m) /\ fin' = TRUE /\ strm.total_in = 0 /\ n = SrcLen
        /\ deflateCB_bzip2(Grant(strm, n, m), Finish)
        /\ status # UNIZIP_STREAM_END
    BY <2>1, <2>2 DEF OneShot, IInv, FlagsAgree
  <2>4. IInv' /\ MovesOn
    BY <2>3, FinishStep
  <2>5. QED
    BY <2>3, <2>4, CallKeepsContract, CallMoves DEF Contract!Next
<1>4. QED
  BY <1>1, <1>2, <1>3 DEF Drive

\* Every step of the specification preserves the invariant, and is a step of
\* the contract.
LEMMA Step ==
    ASSUME IInv, Next
    PROVE  IInv' /\ Contract!Next
<1>1. CASE Drive
  BY <1>1, DriveStep
<1>2. CASE deflateInitCB_bzip2
  BY <1>2, NewStreamStep DEF deflateInitCB_bzip2, Contract!Next
<1>3. CASE deflateResetCB_bzip2
  BY <1>3, NewStreamStep DEF deflateResetCB_bzip2, Contract!Next
<1>4. CASE deflateEndCB_bzip2
  BY <1>4, NewStreamStep DEF deflateEndCB_bzip2, Contract!Next
<1>5. QED
  BY <1>1, <1>2, <1>3, <1>4 DEF Next

\* Between calls nothing changes.
LEMMA Stutter ==
    ASSUME IInv, UNCHANGED vars
    PROVE  IInv' /\ UNCHANGED Contract!vars
<1>1. strm' = strm /\ bz' = bz /\ status' = status /\ fin' = fin
  BY DEF vars
<1>2. IInv'
  BY <1>1 DEF IInv, TypeOK, Contiguous, InsideBuffers, NoSpuriousError,
              EndingOwnsRest, HoldsEnough, NothingReadNothingLeft, FlagsAgree
<1>3. QED
  BY <1>1, <1>2 DEF Contract!vars

\* No stream has been set up when the program starts.
LEMMA InitInv == Init => IInv /\ Contract!Init
<1> SUFFICES ASSUME Init PROVE IInv /\ Contract!Init
  OBVIOUS
<1>1. /\ strm = [next_in |-> 0, avail_in |-> 0, total_in |-> 0,
                 next_out |-> 0, avail_out |-> 0, total_out |-> 0]
      /\ bz = [mode |-> "none", avail_in |-> 0, avail_out |-> 0,
               total_in |-> 0, total_out |-> 0, expect |-> 0]
      /\ fin = FALSE /\ status = 0
  BY DEF Init, ResetStream, NoCompressor, FreshCompressor, UNIZIP_OK
<1>2. TypeOK
  <2>1. strm \in Streams(SrcLen, DstLen, MaxGrant)
    BY <1>1 DEF Streams
  <2>2. bz \in BzStates
    BY <1>1 DEF BzStates, Modes
  <2>3. status \in Status
    BY <1>1 DEF Status
  <2>4. fin \in BOOLEAN
    BY <1>1
  <2>5. QED
    BY <2>1, <2>2, <2>3, <2>4 DEF TypeOK
<1>3. QED
  BY <1>1, <1>2 DEF IInv, Contiguous, InsideBuffers, EndingOwnsRest, HoldsEnough,
       NothingReadNothingLeft, NoSpuriousError, FlagsAgree, Contract!Init,
       UNIZIP_OK, UNIZIP_MEM_ERROR, UNIZIP_STREAM_END

\* The inductive invariant holds throughout every execution.
THEOREM Invariance == Spec => []IInv
<1>1. IInv /\ [Next]_vars => IInv'
  BY Step, Stutter
<1>2. QED
  BY <1>1, InitInv, PTL DEF Spec

\* The library goes on reading and writing where it stopped, inside the
\* caller's buffers, whatever a caller of the two protocols does.
THEOREM ReadsAndWritesInOrder == Spec => []InOrder
<1>1. IInv => InOrder
  BY DEF IInv, InOrder
<1>2. QED
  BY <1>1, Invariance, PTL

\* No call of a live stream is turned away.
THEOREM NeverRefused == Spec => []NoSpuriousError
<1>1. IInv => NoSpuriousError
  BY DEF IInv
<1>2. QED
  BY <1>1, Invariance, PTL

\* STREAM_END is reported only with all input read and all output delivered.
THEOREM EndsComplete == Spec => []EndIsComplete
  BY Invariance, InvImpliesEndIsComplete, PTL

\* No call of a caller that goes on is in vain, and only so many calls can be
\* made of one stream: each leaves less to go, of a number that stays natural.
THEOREM CallsEnd == Spec => EachCallMoves /\ [](ToGo \in Nat)
<1>1. IInv => ToGo \in Nat
  BY DEF IInv, TypeOK, Contiguous, Streams, BzStates, ToGo
<1>2. IInv /\ [Next]_vars => [Drive => ToGo' < ToGo]_vars
  BY DriveStep
<1>3. QED
  BY <1>1, <1>2, Invariance, PTL DEF Spec, EachCallMoves

\* The adapter implements the contract of a streaming compressor.
THEOREM Refinement == Spec => KeepsContract
<1>1. IInv /\ [Next]_vars => [Contract!Next]_(Contract!vars)
  BY Step, Stutter
<1>2. QED
  BY <1>1, InitInv, Invariance, PTL DEF Spec, KeepsContract, Contract!Spec

=============================================================================
