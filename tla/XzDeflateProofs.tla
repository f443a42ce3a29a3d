--------------------------- MODULE XzDeflateProofs ---------------------------
(***************************************************************************)
(* Proofs about XzDeflate, for every input, buffer, header, trailer and    *)
(* grant.                                                                  *)
(*                                                                         *)
(* As for bzip2 the argument is about the library's leftover grant: from   *)
(* the first Z_FINISH on it is exactly the rest of the input, so liblzma   *)
(* never finds another avail_in than it left, and the end is the end of    *)
(* the input.  What is new is that the invariant has to hold of a stream   *)
(* whose encoder has failed, because the adapter goes on loading grants.   *)
(***************************************************************************)
EXTENDS XzDeflate, TLAPS

\* From the first finish on, the leftover grant is exactly the unread input.
EndingOwnsRest ==
    xz.mode \in {"finish", "end"} =>
        xz.total_in + xz.avail_in = SrcLen /\ xz.expect = xz.avail_in

\* What the encoder still holds, as long as it has not failed.
HoldsEnough ==
    /\ xz.mode = "run" => xz.total_out <= HeaderLen + xz.total_in
    /\ xz.mode = "finish" =>
          /\ xz.avail_in > 0 => xz.total_out <= HeaderLen + xz.total_in
          /\ xz.avail_in = 0 => xz.total_out < HeaderLen + xz.total_in + TrailerLen
    /\ xz.mode = "end" => xz.avail_in = 0 /\ xz.total_out = XzLen

\* The caller's view agrees with the library's mode.
PhasesAgree ==
    /\ status = UNIZIP_STREAM_END <=> xz.mode = "end"
    /\ xz.mode \in {"finish", "end"} => phase = "finishing"
    /\ xz.mode = "run" => phase # "finishing"
    /\ phase = "fresh" => xz.avail_in = 0 /\ xz.total_in = 0

IInv ==
    /\ InOrder
    /\ RefusedForCause
    /\ EndingOwnsRest
    /\ HoldsEnough
    /\ PhasesAgree
    /\ strm.avail_in <= SrcLen

\* A call takes nothing back; once the stream has ended it changes nothing.
Onward ==
    /\ strm.total_in' >= strm.total_in /\ strm.total_out' >= strm.total_out
    /\ xz.mode = "end" =>
          /\ strm.total_in' = strm.total_in /\ strm.total_out' = strm.total_out
          /\ status' = UNIZIP_STREAM_END

\* A call leaves less to go, or the encoder has failed.
Moves == ToGo' < ToGo \/ xz'.mode = "error"

USE SrcLenAssumption, HeaderAssumption, TrailerAssumption, DstLenAssumption,
    MaxGrantAssumption

-----------------------------------------------------------------------------

\* A state that satisfies the invariant is made of numbers.
LEMMA Numbers ==
    ASSUME IInv
    PROVE  /\ xz.total_in \in 0 .. SrcLen /\ xz.total_out \in 0 .. XzLen
           /\ xz.avail_in \in 0 .. MaxGrant /\ xz.avail_out \in 0 .. MaxGrant
           /\ xz.total_in + xz.avail_in <= SrcLen
           /\ xz.total_out + xz.avail_out <= DstLen
           /\ xz.mode \in Modes /\ xz.stalled \in BOOLEAN
           /\ xz.expect \in 0 .. MaxGrant
           /\ strm = [next_in |-> xz.total_in, avail_in |-> strm.avail_in,
                      total_in |-> xz.total_in, next_out |-> xz.total_out,
                      avail_out |-> strm.avail_out, total_out |-> xz.total_out]
           /\ strm.avail_in \in 0 .. SrcLen /\ strm.avail_out \in 0 .. MaxGrant
           /\ XzLen \in Nat /\ XzLen = HeaderLen + SrcLen + TrailerLen
  BY DEF IInv, InOrder, Types, Contiguous, InsideBuffers, Streams, XzStates, XzLen

\* An encoder that has written out all that it held, and had some left, wrote.
LEMMA Owed ==
    ASSUME NEW header \in Int, NEW in \in Int, NEW out \in Int,
           NEW trailer \in Int, NEW p \in Int,
           header + in - (out + p) + trailer = 0, out < header + in + trailer
    PROVE  p > 0
  OBVIOUS

\* What lzma_code leaves, seen from the loaded state x with a bytes to read
\* and o bytes of room.
LEMMA Outcome ==
    ASSUME IInv, NEW action \in {"LZMA_RUN", "LZMA_FINISH"},
           NEW n \in 0 .. SrcLen, NEW m \in 0 .. MaxGrant,
           m <= DstLen - strm.total_out,
           NEW a \in 0 .. MaxGrant, NEW o \in 0 .. MaxGrant,
           xz.mode \notin {"none", "null"},
           Loaded(Grant(strm, n, m), xz, action)
              = [mode |-> xz.mode, expect |-> xz.expect, stalled |-> xz.stalled,
                 avail_in |-> a, total_in |-> xz.total_in,
                 avail_out |-> o, total_out |-> xz.total_out],
           xz.total_in + a <= SrcLen, xz.total_out + o <= DstLen,
           action = "LZMA_RUN" => xz.mode \in {"run", "error"},
           action = "LZMA_FINISH" =>
              xz.mode = "error" \/ xz.total_in + a = SrcLen,
           xz.mode \in {"finish", "end"} => a = xz.avail_in,
           Codes(Grant(strm, n, m), Loaded(Grant(strm, n, m), xz, action), action),
           phase' = (IF action = "LZMA_FINISH" THEN "finishing" ELSE "feeding"),
           NEW busy \in BOOLEAN,
           busy => o > 0, busy => xz.mode # "end",
           busy => a > 0 \/ action = "LZMA_FINISH"
    PROVE  IInv' /\ Onward /\ (busy => Moves)
<1> DEFINE g == Grant(strm, n, m)
           x == Loaded(g, xz, action)
<1>1. g = [next_in |-> xz.total_in, avail_in |-> n,
           total_in |-> xz.total_in, next_out |-> xz.total_out,
           avail_out |-> m, total_out |-> xz.total_out]
  BY Numbers DEF Grant
<1>2. x = [mode |-> xz.mode, expect |-> xz.expect, stalled |-> xz.stalled,
           avail_in |-> a, total_in |-> xz.total_in,
           avail_out |-> o, total_out |-> xz.total_out]
  OBVIOUS
<1>3. Codes(g, x, action)
  OBVIOUS
<1> HIDE DEF g, x
\* The books after u bytes read and p written, whatever was returned.
<1>4. ASSUME NEW u \in 0 .. a, NEW p \in 0 .. o, NEW ret, NEW y, Settle(g, y, ret),
             y.total_in = xz.total_in + u, y.total_out = xz.total_out + p
      PROVE  /\ xz' = y /\ status' = map_error(ret)
             /\ strm' = [next_in |-> y.total_in, avail_in |-> n,
                         total_in |-> y.total_in, next_out |-> y.total_out,
                         avail_out |-> m, total_out |-> y.total_out]
  <2>1. xz.total_in + (y.total_in - xz.total_in) = y.total_in
        /\ xz.total_out + (y.total_out - xz.total_out) = y.total_out
    BY <1>4, Numbers
  <2>2. QED
    BY <1>1, <1>4, <2>1 DEF Settle, Advance
<1>5. ASSUME NEW mode \in {"run", "finish", "end", "error"}, NEW u \in 0 .. a,
             NEW p \in 0 .. o, NEW e \in 0 .. MaxGrant, NEW st \in BOOLEAN, NEW ret,
             Settle(g, [mode |-> mode, expect |-> e, stalled |-> st,
                        avail_in |-> a - u, total_in |-> xz.total_in + u,
                        avail_out |-> o - p, total_out |-> xz.total_out + p], ret),
             xz.total_out + p <= XzLen,
             mode \in {"finish", "end"} =>
                xz.total_in + a = SrcLen /\ e = a - u /\ action = "LZMA_FINISH",
             mode = "run" =>
                /\ xz.total_out + p <= HeaderLen + (xz.total_in + u)
                /\ action = "LZMA_RUN",
             mode = "finish" =>
                /\ a - u > 0 => xz.total_out + p <= HeaderLen + (xz.total_in + u)
                /\ a - u = 0 =>
                      xz.total_out + p < HeaderLen + (xz.total_in + u) + TrailerLen,
             mode = "end" => a - u = 0 /\ xz.total_out + p = XzLen,
             map_error(ret) \in Status,
             map_error(ret) = UNIZIP_STREAM_END <=> mode = "end",
             map_error(ret) = UNIZIP_DATA_ERROR => mode = "error" \/ st,
             xz.mode = "end" => u = 0 /\ p = 0 /\ mode = "end",
             busy => mode = "error" \/ u > 0 \/ p > 0
      PROVE  IInv' /\ Onward /\ (busy => Moves)
  <2> DEFINE y == [mode |-> mode, expect |-> e, stalled |-> st,
                   avail_in |-> a - u, total_in |-> xz.total_in + u,
                   avail_out |-> o - p, total_out |-> xz.total_out + p]
  <2>1. /\ xz' = y /\ status' = map_error(ret)
        /\ strm' = [next_in |-> xz.total_in + u, avail_in |-> n,
                    total_in |-> xz.total_in + u, next_out |-> xz.total_out + p,
                    avail_out |-> m, total_out |-> xz.total_out + p]
    BY <1>4, <1>5
  <2>2. /\ a - u \in 0 .. MaxGrant /\ o - p \in 0 .. MaxGrant
        /\ xz.total_in + u \in 0 .. SrcLen /\ xz.total_out + p \in 0 .. XzLen
        /\ xz.total_out + p \in 0 .. DstLen
        /\ xz.total_in + u + (a - u) <= SrcLen
        /\ xz.total_out + p + (o - p) <= DstLen
    BY <1>5, Numbers
  <2>3. Types'
    <3>1. strm' \in Streams(SrcLen, DstLen, MaxGrant)
      BY <2>1, <2>2, Numbers DEF Streams
    <3>2. xz' \in XzStates
      BY <2>1, <2>2, <1>5 DEF XzStates, Modes
    <3>3. status' \in Status /\ phase' \in {"fresh", "feeding", "finishing"}
      BY <1>5, <2>1
    <3>4. QED
      BY <3>1, <3>2, <3>3 DEF Types
  <2>4. Contiguous' /\ InsideBuffers'
    BY <2>1, <2>2 DEF Contiguous, InsideBuffers
  <2>5. RefusedForCause'
    BY <1>5, <2>1 DEF RefusedForCause
  <2>6. EndingOwnsRest' /\ HoldsEnough'
    <3>1. EndingOwnsRest'
      BY <1>5, <2>1, <2>2, Numbers DEF EndingOwnsRest
    <3>2. HoldsEnough'
      BY <1>5, <2>1, <2>2, Numbers DEF HoldsEnough
    <3>3. QED
      BY <3>1, <3>2
  <2>7. PhasesAgree'
    BY <1>5, <2>1 DEF PhasesAgree
  <2>8. (strm.avail_in <= SrcLen)'
    BY <2>1
  <2>9. Onward
    <3>1. /\ strm.total_in' = xz.total_in + u /\ strm.total_in = xz.total_in
          /\ strm.total_out' = xz.total_out + p /\ strm.total_out = xz.total_out
      BY <2>1, Numbers
    <3>2. xz.total_in \in Nat /\ xz.total_out \in Nat /\ u \in Nat /\ p \in Nat
      BY <1>5, Numbers
    <3>3. xz.mode = "end" => status' = UNIZIP_STREAM_END /\ u = 0 /\ p = 0
      BY <1>5, <2>1
    <3>4. QED
      BY <3>1, <3>2, <3>3 DEF Onward
  <2>10. busy => Moves
    <3>1. /\ strm.total_in' = xz.total_in + u /\ strm.total_in = xz.total_in
          /\ strm.total_out' = xz.total_out + p /\ strm.total_out = xz.total_out
          /\ xz'.mode = mode
      BY <2>1, Numbers
    <3>2. /\ xz.total_in \in Nat /\ xz.total_out \in Nat /\ u \in Nat /\ p \in Nat
          /\ XzLen \in Nat
      BY <1>5, Numbers
    <3>3. CASE u > 0 \/ p > 0
      BY <3>1, <3>2, <3>3 DEF Moves, ToGo
    <3>4. QED
      BY <1>5, <3>1, <3>3 DEF Moves
  <2>11. QED
    BY <2>3, <2>4, <2>5, <2>6, <2>7, <2>8, <2>9, <2>10 DEF IInv, InOrder
<1>6. CASE x.mode = "end" /\ Settle(g, x, "LZMA_STREAM_END")
  <2>1. xz.mode = "end" /\ a = xz.avail_in /\ a = 0 /\ xz.total_out = XzLen
        /\ xz.total_in + a = SrcLen /\ xz.expect = a
    BY <1>2, <1>6 DEF IInv, HoldsEnough, EndingOwnsRest
  <2>2. action = "LZMA_FINISH"
    BY <2>1
  <2>3. map_error("LZMA_STREAM_END") = UNIZIP_STREAM_END
    BY DEF map_error
  <2>4. a - 0 = a /\ o - 0 = o /\ xz.total_in + 0 = xz.total_in
        /\ xz.total_out + 0 = xz.total_out
    BY Numbers
  <2>5. Settle(g, [mode |-> "end", expect |-> xz.expect, stalled |-> xz.stalled,
                   avail_in |-> a - 0, total_in |-> xz.total_in + 0,
                   avail_out |-> o - 0, total_out |-> xz.total_out + 0],
               "LZMA_STREAM_END")
    BY <1>2, <1>6, <2>1, <2>4
  <2>6. xz.expect = a - 0 /\ xz.stalled \in BOOLEAN /\ xz.expect \in 0 .. MaxGrant
    BY <2>1, <2>4, Numbers
  <2>7. xz.total_out + 0 <= XzLen /\ xz.total_out + 0 = XzLen
    BY <2>1, <2>4, Numbers
  <2>8. /\ UNIZIP_STREAM_END \in Status /\ UNIZIP_STREAM_END # UNIZIP_DATA_ERROR
        /\ 0 \in 0 .. a /\ 0 \in 0 .. o
    BY DEF Status, UNIZIP_STREAM_END, UNIZIP_DATA_ERROR
  <2>9. QED
    BY <1>5, <2>1, <2>2, <2>3, <2>4, <2>5, <2>6, <2>7, <2>8
<1>7. CASE Refused(x, action) /\ Settle(g, x, "LZMA_PROG_ERROR")
  <2>1. xz.mode = "error"
    <3>1. xz.mode = "finish" => action = "LZMA_FINISH" /\ xz.expect = a
      BY DEF IInv, EndingOwnsRest
    <3>2. QED
      BY <1>2, <1>7, <3>1 DEF Refused
  <2>2. map_error("LZMA_PROG_ERROR") = UNIZIP_DATA_ERROR
    BY DEF map_error
  <2>3. a - 0 = a /\ o - 0 = o /\ xz.total_in + 0 = xz.total_in
        /\ xz.total_out + 0 = xz.total_out
    BY Numbers
  <2>4. Settle(g, [mode |-> "error", expect |-> xz.expect, stalled |-> xz.stalled,
                   avail_in |-> a - 0, total_in |-> xz.total_in + 0,
                   avail_out |-> o - 0, total_out |-> xz.total_out + 0],
               "LZMA_PROG_ERROR")
    BY <1>2, <1>7, <2>1, <2>3
  <2>5. xz.stalled \in BOOLEAN /\ xz.expect \in 0 .. MaxGrant
        /\ xz.total_out + 0 <= XzLen
    BY Numbers
  <2>6. /\ map_error("LZMA_PROG_ERROR") \in Status
        /\ map_error("LZMA_PROG_ERROR") # UNIZIP_STREAM_END
    BY <2>2 DEF Status, UNIZIP_STREAM_END, UNIZIP_DATA_ERROR
  <2>7. 0 \in 0 .. a /\ 0 \in 0 .. o
    OBVIOUS
  <2>8. QED
    BY <1>5, <2>1, <2>4, <2>5, <2>6, <2>7
<1>8. ASSUME x.mode # "end", ~Refused(x, action),
             NEW u \in 0 .. x.avail_in, NEW p \in 0 .. x.avail_out,
             Encodes(x, action = "LZMA_FINISH", u, p),
             Settle(g, Coded(x, action, u, p), LzmaReturn(x, Coded(x, action, u, p)))
      PROVE  IInv' /\ Onward /\ (busy => Moves)
  <2> DEFINE ending == action = "LZMA_FINISH"
             held == HeaderLen + (xz.total_in + u) - (xz.total_out + p)
             all == held + (IF ending /\ a - u = 0 THEN TrailerLen ELSE 0)
             over == ending /\ u = a /\ held + TrailerLen = 0
             mode == IF over THEN "end" ELSE IF ending THEN "finish" ELSE "run"
             st == u + p = 0
             y == [mode |-> mode, expect |-> a - u, stalled |-> st,
                   avail_in |-> a - u, total_in |-> xz.total_in + u,
                   avail_out |-> o - p, total_out |-> xz.total_out + p]
             ret == LzmaReturn(x, y)
  <2>1. u \in 0 .. a /\ p \in 0 .. o
    BY <1>2, <1>8
  <2>2. Moved(x, u, p) = [mode |-> xz.mode, expect |-> xz.expect,
                          stalled |-> xz.stalled,
                          avail_in |-> a - u, total_in |-> xz.total_in + u,
                          avail_out |-> o - p, total_out |-> xz.total_out + p]
    BY <1>2 DEF Moved
  <2>3. /\ all >= 0
        /\ \/ o - p = 0 /\ all > 0
           \/ a - u = 0 /\ (ending => all = 0)
    BY <1>8, <2>2 DEF Encodes, Held
  <2>4. Drained(x, u, p) <=> u = a /\ held + TrailerLen = 0
    BY <1>2, <2>2 DEF Drained, Held
  <2>5. Coded(x, action, u, p) = y
    <3>1. CASE ending
      BY <1>2, <2>4, <3>1 DEF Coded
    <3>2. CASE ~ending
      BY <1>2, <3>2 DEF Coded
    <3>3. QED
      BY <3>1, <3>2
  <2>6. Settle(g, y, ret)
    BY <1>8, <2>5
  <2>7. /\ map_error(ret) \in Status
        /\ map_error(ret) = UNIZIP_STREAM_END <=> mode = "end"
        /\ map_error(ret) = UNIZIP_DATA_ERROR => st
    <3>1. CASE mode = "end"
      BY <3>1 DEF LzmaReturn, map_error, Status, UNIZIP_STREAM_END, UNIZIP_DATA_ERROR
    <3>2. CASE mode # "end" /\ x.stalled /\ st
      <4>1. ret = "LZMA_BUF_ERROR"
        BY <3>2 DEF LzmaReturn
      <4>2. QED
        BY <3>2, <4>1 DEF map_error, Status, UNIZIP_STREAM_END, UNIZIP_DATA_ERROR
    <3>3. CASE mode # "end" /\ ~(x.stalled /\ st)
      <4>1. ret = "LZMA_OK"
        BY <3>3 DEF LzmaReturn
      <4>2. QED
        BY <3>3, <4>1
           DEF map_error, Status, UNIZIP_OK, UNIZIP_STREAM_END, UNIZIP_DATA_ERROR
    <3>4. QED
      BY <3>1, <3>2, <3>3
  <2>8. /\ xz.mode # "end" /\ mode \in {"run", "finish", "end", "error"}
        /\ mode = "run" => action = "LZMA_RUN"
        /\ xz.mode = "error" => FALSE
    BY <1>2, <1>8 DEF Refused
  <2>9. /\ a - u \in 0 .. MaxGrant /\ held \in Int
        /\ xz.total_in + u \in 0 .. SrcLen
    BY <2>1, Numbers
  <2>10. /\ ~(ending /\ a - u = 0) => held >= 0
         /\ ending /\ a - u = 0 => held + TrailerLen >= 0
         /\ ending /\ a - u = 0 /\ mode = "finish" => held + TrailerLen > 0
    BY <2>1, <2>3, <2>9
  <2>11. xz.total_out + p <= XzLen
    <3>1. held + TrailerLen >= 0
      BY <2>9, <2>10
    <3>2. QED
      BY <3>1, <2>1, <2>9, Numbers
  <2>12. mode \in {"finish", "end"} =>
            xz.total_in + a = SrcLen /\ action = "LZMA_FINISH"
    BY <2>8
  <2>13. mode = "run" => xz.total_out + p <= HeaderLen + (xz.total_in + u)
    BY <2>1, <2>9, <2>10, Numbers
  <2>14. mode = "finish" =>
                /\ a - u > 0 => xz.total_out + p <= HeaderLen + (xz.total_in + u)
                /\ a - u = 0 =>
                      xz.total_out + p < HeaderLen + (xz.total_in + u) + TrailerLen
    BY <2>1, <2>9, <2>10, <2>12, Numbers
  <2>15. mode = "end" => a - u = 0 /\ xz.total_out + p = XzLen
    <3>1. SUFFICES ASSUME mode = "end" PROVE a - u = 0 /\ xz.total_out + p = XzLen
      OBVIOUS
    <3>2. u = a /\ held + TrailerLen = 0 /\ xz.total_in + a = SrcLen
      BY <3>1, <2>12
    <3>3. xz.total_out + p = HeaderLen + (xz.total_in + a) + TrailerLen
      BY <3>2, <2>1, Numbers
    <3>4. XzLen = HeaderLen + SrcLen + TrailerLen
      BY DEF XzLen
    <3>5. QED
      BY <3>2, <3>3, <3>4, Numbers
  <2>16. st \in BOOLEAN
    OBVIOUS
  <2>17. busy => u > 0 \/ p > 0
    <3>1. SUFFICES ASSUME busy PROVE u > 0 \/ p > 0
      OBVIOUS
    <3>2. o > 0 /\ (a > 0 \/ ending)
      BY <3>1
    <3>3. CASE o - p = 0
      BY <3>2, <3>3
    <3>4. CASE a - u = 0 /\ a > 0
      BY <2>1, <3>4
    <3>5. CASE a = 0 /\ u = 0 /\ ending /\ all = 0
      <4>1. HeaderLen + xz.total_in - (xz.total_out + p) + TrailerLen = 0
        <5>1. held + TrailerLen = 0
          BY <2>9, <3>5
        <5>2. xz.total_in + u = xz.total_in
          BY <2>1, <3>5, Numbers
        <5>3. QED
          BY <5>1, <5>2
      <4>2. xz.total_out < HeaderLen + xz.total_in + TrailerLen
        <5>1. xz.mode \in {"run", "finish"}
          BY <2>8, Numbers DEF Modes
        <5>2. CASE xz.mode = "run"
          BY <5>2, Numbers DEF IInv, HoldsEnough
        <5>3. CASE xz.mode = "finish"
          BY <5>3, <3>5 DEF IInv, HoldsEnough
        <5>4. QED
          BY <5>1, <5>2, <5>3
      <4>3. /\ p \in Int /\ xz.total_in \in Int /\ xz.total_out \in Int
            /\ HeaderLen \in Int /\ TrailerLen \in Int
        BY <2>1, Numbers
      <4>4. p > 0
        BY <4>1, <4>2, <4>3, Owed
      <4>5. QED
        BY <4>4
    <3>6. QED
      BY <2>1, <2>3, <3>2, <3>3, <3>4, <3>5
  <2> HIDE DEF ret, mode, st
  <2>18. QED
    BY <1>5, <2>1, <2>6, <2>7, <2>8, <2>9, <2>11, <2>12, <2>13, <2>14, <2>15, <2>16,
       <2>17
<1>9. ASSUME x.mode # "end", ~Refused(x, action),
             NEW u \in 0 .. x.avail_in, NEW p \in 0 .. x.avail_out,
             Held(Moved(x, u, p), action = "LZMA_FINISH" /\ u = x.avail_in) >= 0,
             Settle(g, Failed(x, u, p), "LZMA_MEM_ERROR")
      PROVE  IInv' /\ Onward /\ (busy => Moves)
  <2>1. u \in 0 .. a /\ p \in 0 .. o /\ xz.mode # "end"
    BY <1>2, <1>9
  <2>2. Failed(x, u, p) = [mode |-> "error", expect |-> xz.expect,
                           stalled |-> xz.stalled,
                           avail_in |-> a - u, total_in |-> xz.total_in + u,
                           avail_out |-> o - p, total_out |-> xz.total_out + p]
    BY <1>2 DEF Failed, Moved
  <2>3. HeaderLen + (xz.total_in + u) - (xz.total_out + p) + TrailerLen >= 0
    <3>1. HeaderLen + (xz.total_in + u) - (xz.total_out + p)
             + (IF action = "LZMA_FINISH" /\ u = a THEN TrailerLen ELSE 0) >= 0
      BY <1>2, <1>9 DEF Held, Moved
    <3>2. QED
      BY <3>1, <2>1, Numbers
  <2>4. xz.total_out + p <= XzLen
    BY <2>1, <2>3, Numbers
  <2>5. map_error("LZMA_MEM_ERROR") = UNIZIP_MEM_ERROR
    BY DEF map_error
  <2>6. xz.stalled \in BOOLEAN /\ xz.expect \in 0 .. MaxGrant
    BY Numbers
  <2>7. /\ map_error("LZMA_MEM_ERROR") \in Status
        /\ map_error("LZMA_MEM_ERROR") \notin {UNIZIP_STREAM_END, UNIZIP_DATA_ERROR}
    BY <2>5 DEF Status, UNIZIP_MEM_ERROR, UNIZIP_STREAM_END, UNIZIP_DATA_ERROR
  <2>8. Settle(g, [mode |-> "error", expect |-> xz.expect, stalled |-> xz.stalled,
                   avail_in |-> a - u, total_in |-> xz.total_in + u,
                   avail_out |-> o - p, total_out |-> xz.total_out + p],
               "LZMA_MEM_ERROR")
    BY <1>9, <2>2
  <2>9. QED
    BY <1>5, <2>1, <2>4, <2>6, <2>7, <2>8
<1>10. QED
  BY <1>3, <1>6, <1>7, <1>8, <1>9 DEF Codes

\* A call that feeds (Z_NO_FLUSH), idle or not.
LEMMA FeedStep ==
    ASSUME IInv, NEW n \in 0 .. MaxGrant, NEW m \in 0 .. MaxGrant, Feed(n, m)
    PROVE  IInv' /\ Onward /\ (n > 0 /\ m > 0 => Moves)
<1>1. /\ n \in 0 .. SrcLen /\ n <= SrcLen - xz.total_in /\ m <= DstLen - xz.total_out
      /\ m <= DstLen - strm.total_out
  BY Numbers DEF Feed, Room
<1>2. xz.mode \in {"run", "error"}
  BY Numbers DEF Feed, deflateCB_xz, IInv, PhasesAgree, Modes
<1>3. PICK a \in 0 .. MaxGrant : a = IF xz.avail_in = 0 THEN n ELSE xz.avail_in
  BY Numbers
<1>4. PICK o \in 0 .. MaxGrant : o = IF xz.avail_out = 0 THEN m ELSE xz.avail_out
  BY Numbers
<1>5. Loaded(Grant(strm, n, m), xz, "LZMA_RUN")
         = [mode |-> xz.mode, expect |-> xz.expect, stalled |-> xz.stalled,
            avail_in |-> a, total_in |-> xz.total_in,
            avail_out |-> o, total_out |-> xz.total_out]
  BY <1>3, <1>4 DEF Loaded, ReloadIn, ReloadOut, Grant
<1>6. xz.total_in + a <= SrcLen /\ xz.total_out + o <= DstLen
  BY <1>1, <1>3, <1>4, Numbers
<1>7. Codes(Grant(strm, n, m), Loaded(Grant(strm, n, m), xz, "LZMA_RUN"), "LZMA_RUN")
  BY DEF Feed, deflateCB_xz, Action, NoFlush, Finish
<1>8. phase' = "feeding"
  BY DEF Feed
<1>9. PICK busy \in BOOLEAN : busy = (n > 0 /\ m > 0)
  OBVIOUS
<1>10. busy => o > 0 /\ a > 0
  <2>1. busy => n > 0 /\ m > 0
    BY <1>9, Zenon
  <2>2. QED
    BY <2>1, <1>3, <1>4, Numbers
<1>11. IInv' /\ Onward /\ (busy => Moves)
  BY <1>1, <1>2, <1>5, <1>6, <1>7, <1>8, <1>10, Outcome
<1>12. QED
  BY <1>9, <1>11

\* A call that asks for the end (Z_FINISH): with all the input read, again, or
\* with all of it granted at once.
LEMMA FinishStep ==
    ASSUME IInv, NEW n \in 0 .. SrcLen, NEW m \in 0 .. MaxGrant, Room(m),
           \/ phase = "finishing"
           \/ strm.total_in = SrcLen
           \/ phase = "fresh" /\ n = SrcLen,
           deflateCB_xz(Grant(strm, n, m), Finish), phase' = "finishing"
    PROVE  IInv' /\ Onward /\ (m > 0 /\ status # UNIZIP_STREAM_END => Moves)
<1>1. m <= DstLen - xz.total_out /\ m <= DstLen - strm.total_out
  BY Numbers DEF Room
<1>2. xz.mode \in {"run", "finish", "end", "error"}
  BY Numbers DEF deflateCB_xz, Modes
<1>3. PICK a \in 0 .. MaxGrant :
         a = IF xz.avail_in = 0 /\ xz.total_in = 0 THEN n ELSE xz.avail_in
  BY Numbers
<1>4. PICK o \in 0 .. MaxGrant : o = IF xz.avail_out = 0 THEN m ELSE xz.avail_out
  BY Numbers
<1>5. Loaded(Grant(strm, n, m), xz, "LZMA_FINISH")
         = [mode |-> xz.mode, expect |-> xz.expect, stalled |-> xz.stalled,
            avail_in |-> a, total_in |-> xz.total_in,
            avail_out |-> o, total_out |-> xz.total_out]
  BY <1>3, <1>4 DEF Loaded, ReloadIn, ReloadOut, Grant
<1>6. xz.total_in + a <= SrcLen /\ xz.total_out + o <= DstLen
  BY <1>1, <1>3, <1>4, Numbers
<1>7. xz.mode \in {"finish", "end"} => a = xz.avail_in /\ xz.total_in + a = SrcLen
  BY <1>3, Numbers DEF IInv, EndingOwnsRest
<1>8. xz.mode = "run" => xz.total_in + a = SrcLen
  <2>1. xz.mode = "run" =>
           xz.total_in = SrcLen \/ (xz.avail_in = 0 /\ xz.total_in = 0 /\ n = SrcLen)
    BY Numbers DEF IInv, PhasesAgree
  <2>2. QED
    BY <1>3, <2>1, Numbers
<1>9. xz.mode = "error" \/ xz.total_in + a = SrcLen
  BY <1>2, <1>7, <1>8
<1>10. Codes(Grant(strm, n, m), Loaded(Grant(strm, n, m), xz, "LZMA_FINISH"),
             "LZMA_FINISH")
  BY DEF deflateCB_xz, Action
<1>11. PICK busy \in BOOLEAN : busy = (m > 0 /\ status # UNIZIP_STREAM_END)
  OBVIOUS
<1>12. busy => o > 0 /\ xz.mode # "end"
  <2>1. busy => m > 0 /\ status # UNIZIP_STREAM_END
    BY <1>11, Zenon
  <2>2. xz.mode = "end" => status = UNIZIP_STREAM_END
    BY DEF IInv, PhasesAgree
  <2>3. QED
    BY <2>1, <2>2, <1>4, Numbers
<1>13. IInv' /\ Onward /\ (busy => Moves)
  BY <1>1, <1>2, <1>5, <1>6, <1>7, <1>9, <1>10, <1>12, Outcome
<1>14. QED
  BY <1>11, <1>13

\* Setting a stream up, resetting it or giving it up starts from nothing.
LEMMA NewStreamStep ==
    ASSUME NEW mode \in {"none", "null", "run", "error"},
           NEW ret \in {UNIZIP_OK, UNIZIP_MEM_ERROR}, NewStream(mode, ret)
    PROVE  IInv' /\ Contract!Restart
<1>1. xz' = [mode |-> mode, avail_in |-> 0, avail_out |-> 0, total_in |-> 0,
             total_out |-> 0, expect |-> 0, stalled |-> FALSE]
  BY DEF NewStream, Encoder
<1>2. /\ strm' = [next_in |-> 0, avail_in |-> 0, total_in |-> 0,
                  next_out |-> 0, avail_out |-> 0, total_out |-> 0]
      /\ phase' = "fresh" /\ status' \in {0, -4}
  BY DEF NewStream, ResetStream, UNIZIP_OK, UNIZIP_MEM_ERROR
<1>3. Types'
  <2>1. strm' \in Streams(SrcLen, DstLen, MaxGrant)
    BY <1>2, DstLenAssumption DEF Streams, XzLen
  <2>2. xz' \in XzStates
    BY <1>1 DEF XzStates, Modes, XzLen
  <2>3. status' \in Status /\ phase' \in {"fresh", "feeding", "finishing"}
    BY <1>2 DEF Status
  <2>4. QED
    BY <2>1, <2>2, <2>3 DEF Types
<1>4. /\ Contiguous' /\ InsideBuffers' /\ EndingOwnsRest' /\ HoldsEnough'
      /\ (strm.avail_in <= SrcLen)'
  BY <1>1, <1>2 DEF Contiguous, InsideBuffers, EndingOwnsRest, HoldsEnough, XzLen
<1>5. RefusedForCause' /\ PhasesAgree'
  BY <1>1, <1>2 DEF RefusedForCause, PhasesAgree, UNIZIP_DATA_ERROR, UNIZIP_STREAM_END
<1>6. Contract!Restart
  BY <1>2 DEF Contract!Restart, UNIZIP_STREAM_END
<1>7. QED
  BY <1>3, <1>4, <1>5, <1>6 DEF IInv, InOrder

\* A call is progress, or the completion, of the contract; after the end it
\* changes nothing that the contract speaks of.
LEMMA CallKeepsContract ==
    ASSUME IInv, IInv', Onward
    PROVE  [Contract!Next]_(Contract!vars)
<1>1. /\ strm.total_in \in Nat /\ strm.total_out \in Nat
      /\ strm.total_in' \in 0 .. SrcLen /\ strm.total_out' \in 0 .. XzLen
      /\ strm.total_in' = xz.total_in' /\ strm.total_out' = xz.total_out'
  BY DEF IInv, InOrder, Types, Streams, XzStates, Contiguous
<1>2. CASE status = UNIZIP_STREAM_END
  BY <1>2 DEF Onward, IInv, PhasesAgree, Contract!vars
<1>3. CASE status # UNIZIP_STREAM_END /\ status' = UNIZIP_STREAM_END
  <2>1. xz'.mode = "end"
    BY <1>3 DEF IInv, PhasesAgree
  <2>2. xz'.total_in + xz'.avail_in = SrcLen /\ xz'.avail_in = 0
        /\ xz'.total_out = XzLen
    BY <2>1 DEF IInv, EndingOwnsRest, HoldsEnough
  <2>3. xz'.total_in = SrcLen
    BY <1>1, <2>2
  <2>4. QED
    BY <1>1, <1>3, <2>2, <2>3 DEF Contract!Next, Contract!Complete
<1>4. CASE status # UNIZIP_STREAM_END /\ status' # UNIZIP_STREAM_END
  BY <1>1, <1>4 DEF Contract!Next, Contract!Progress, Onward
<1>5. QED
  BY <1>2, <1>3, <1>4

\* Every step of the specification preserves the invariant, and is a step of
\* the contract or changes nothing it speaks of.
LEMMA Step ==
    ASSUME IInv, Next
    PROVE  IInv' /\ [Contract!Next]_(Contract!vars)
<1>1. ASSUME NEW n \in 0 .. MaxGrant, NEW m \in 0 .. MaxGrant, Feed(n, m)
      PROVE  IInv' /\ [Contract!Next]_(Contract!vars)
  BY <1>1, FeedStep, CallKeepsContract
<1>2. ASSUME NEW m \in 0 .. MaxGrant, AskForEnd(m)
      PROVE  IInv' /\ [Contract!Next]_(Contract!vars)
  <2>1. PICK n \in 0 .. SrcLen : n = strm.avail_in
    BY Numbers
  <2>2. IInv' /\ Onward
    BY <1>2, <2>1, FinishStep DEF AskForEnd
  <2>3. QED
    BY <2>2, CallKeepsContract
<1>3. ASSUME NEW m \in 0 .. MaxGrant, OneShot(m)
      PROVE  IInv' /\ [Contract!Next]_(Contract!vars)
  <2>1. PICK n \in 0 .. SrcLen : n = SrcLen
    OBVIOUS
  <2>2. IInv' /\ Onward
    BY <1>3, <2>1, FinishStep DEF OneShot
  <2>3. QED
    BY <2>2, CallKeepsContract
<1>4. ASSUME NEW m \in 0 .. MaxGrant, Again(m)
      PROVE  IInv' /\ [Contract!Next]_(Contract!vars)
  <2>1. PICK n \in 0 .. SrcLen : n = strm.avail_in
    BY Numbers
  <2>2. phase = "finishing" /\ phase' = "finishing"
    BY <1>4 DEF Again, IInv, PhasesAgree
  <2>3. IInv' /\ Onward
    BY <1>4, <2>1, <2>2, FinishStep DEF Again
  <2>4. QED
    BY <2>3, CallKeepsContract
<1>5. CASE Drive
  <2>1. PICK m \in 1 .. MaxGrant :
           (\E n \in 1 .. MaxGrant : Feed(n, m)) \/ AskForEnd(m) \/ OneShot(m)
    BY <1>5 DEF Drive
  <2>2. m \in 0 .. MaxGrant /\ 1 .. MaxGrant \subseteq 0 .. MaxGrant
    OBVIOUS
  <2>3. QED
    BY <1>1, <1>2, <1>3, <2>1, <2>2
<1>6. CASE Idle
  <2>1. 0 \in 0 .. MaxGrant
    OBVIOUS
  <2>2. QED
    BY <1>1, <1>2, <1>4, <1>6, <2>1 DEF Idle
<1>7. CASE Opened
  BY <1>7, NewStreamStep DEF Opened, Contract!Next
<1>8. CASE NewStream("none", UNIZIP_OK)
  BY <1>8, NewStreamStep DEF Contract!Next
<1>9. QED
  BY <1>5, <1>6, <1>7, <1>8
     DEF Next, deflateInitCB_xz, deflateResetCB_xz, deflateEndCB_xz

\* Every call with something to give and room to offer leaves less to go, or the
\* encoder has failed.
LEMMA DriveStep ==
    ASSUME IInv, Drive
    PROVE  Moves
<1>1. PICK m \in 1 .. MaxGrant :
         (\E n \in 1 .. MaxGrant : Feed(n, m)) \/ AskForEnd(m) \/ OneShot(m)
  BY DEF Drive
<1>2. m \in 0 .. MaxGrant /\ m > 0 /\ 1 .. MaxGrant \subseteq 0 .. MaxGrant
  OBVIOUS
<1>3. CASE \E n \in 1 .. MaxGrant : Feed(n, m)
  <2>1. PICK n \in 1 .. MaxGrant : Feed(n, m)
    BY <1>3
  <2>2. QED
    BY <1>2, <2>1, FeedStep
<1>4. CASE AskForEnd(m)
  <2>1. PICK n \in 0 .. SrcLen : n = strm.avail_in
    BY Numbers
  <2>2. QED
    BY <1>2, <1>4, <2>1, FinishStep DEF AskForEnd
<1>5. CASE OneShot(m)
  <2>1. PICK n \in 0 .. SrcLen : n = SrcLen
    OBVIOUS
  <2>2. xz.mode # "end" /\ status # UNIZIP_STREAM_END
    BY <1>5 DEF OneShot, IInv, PhasesAgree
  <2>3. QED
    BY <1>2, <1>5, <2>1, <2>2, FinishStep DEF OneShot
<1>6. QED
  BY <1>1, <1>3, <1>4, <1>5

\* Between calls nothing changes.
LEMMA Stutter ==
    ASSUME IInv, UNCHANGED vars
    PROVE  IInv' /\ UNCHANGED Contract!vars
<1>1. strm' = strm /\ xz' = xz /\ status' = status /\ phase' = phase
  BY DEF vars
<1>2. IInv'
  BY <1>1 DEF IInv, InOrder, Types, Contiguous, InsideBuffers, RefusedForCause,
              EndingOwnsRest, HoldsEnough, PhasesAgree
<1>3. QED
  BY <1>1, <1>2 DEF Contract!vars

\* No stream has been set up when the program starts.
LEMMA InitInv == Init => IInv /\ Contract!Init
<1> SUFFICES ASSUME Init PROVE IInv /\ Contract!Init
  OBVIOUS
<1>1. /\ strm = [next_in |-> 0, avail_in |-> 0, total_in |-> 0,
                 next_out |-> 0, avail_out |-> 0, total_out |-> 0]
      /\ xz = [mode |-> "none", avail_in |-> 0, avail_out |-> 0, total_in |-> 0,
               total_out |-> 0, expect |-> 0, stalled |-> FALSE]
      /\ phase = "fresh" /\ status = 0
  BY DEF Init, ResetStream, Encoder, UNIZIP_OK
<1>2. Types
  <2>1. strm \in Streams(SrcLen, DstLen, MaxGrant)
    BY <1>1 DEF Streams, XzLen
  <2>2. xz \in XzStates
    BY <1>1 DEF XzStates, Modes, XzLen
  <2>3. status \in Status
    BY <1>1 DEF Status
  <2>4. QED
    BY <1>1, <2>1, <2>2, <2>3 DEF Types
<1>3. QED
  BY <1>1, <1>2 DEF IInv, InOrder, Contiguous, InsideBuffers, RefusedForCause,
       EndingOwnsRest, HoldsEnough, PhasesAgree, XzLen, Contract!Init,
       UNIZIP_DATA_ERROR, UNIZIP_STREAM_END

\* The inductive invariant holds throughout every execution.
THEOREM Invariance == Spec => []IInv
<1>1. IInv /\ [Next]_vars => IInv'
  BY Step, Stutter
<1>2. QED
  BY <1>1, InitInv, PTL DEF Spec

\* The library goes on reading and writing where it stopped, inside the
\* caller's buffers, also when it has failed (unizip_algorithm_xz.c:170-183).
THEOREM ReadsAndWritesInOrder == Spec => []InOrder
<1>1. IInv => InOrder
  BY DEF IInv
<1>2. QED
  BY <1>1, Invariance, PTL

\* No call is turned away for what the adapter did with avail_in.
THEOREM TurnedAwayForCause == Spec => []RefusedForCause
<1>1. IInv => RefusedForCause
  BY DEF IInv
<1>2. QED
  BY <1>1, Invariance, PTL

\* No call with something to give and room to offer is in vain, and only so many
\* can be made of one stream: each leaves less to go, of a number that stays
\* natural, unless the encoder has failed.
THEOREM CallsEnd == Spec => EachCallMoves /\ [](ToGo \in Nat)
<1>1. IInv => ToGo \in Nat
  <2> SUFFICES ASSUME IInv PROVE ToGo \in Nat
    OBVIOUS
  <2>1. strm.total_in \in 0 .. SrcLen /\ strm.total_out \in 0 .. XzLen
    BY Numbers
  <2>2. QED
    BY <2>1, Numbers DEF ToGo
<1>2. IInv /\ [Next]_vars => [Drive => Moves]_vars
  BY DriveStep
<1>3. QED
  BY <1>1, <1>2, Invariance, PTL DEF Spec, EachCallMoves, Moves

\* The adapter implements the contract of a streaming compressor.
THEOREM Refinement == Spec => KeepsContract
<1>1. IInv /\ [Next]_vars => [Contract!Next]_(Contract!vars)
  BY Step, Stutter
<1>2. QED
  BY <1>1, InitInv, Invariance, PTL DEF Spec, KeepsContract, Contract!Spec

=============================================================================
