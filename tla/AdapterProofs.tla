---------------------------- MODULE AdapterProofs ----------------------------
(***************************************************************************)
(* Proofs about the adapters that share one way of arguing: what every     *)
(* function of an adapter leaves of the fields it and its caller share is  *)
(* known before the next call, whichever call that is.                     *)
(*                                                                         *)
(*   B   BlockCodecs: lz4 and snappy, and 7zip's compressing side          *)
(*   I   StreamInflate: the decompressing side of the stream adapters      *)
(*   O   OneShot: compress, uncompress and compressBound                   *)
(*       StreamLife: who owns the memory behind a unizip_stream            *)
(*                                                                         *)
(* Each part is about one of these modules, the first three of them under  *)
(* the letter given here.  Constants and variables that modules call alike *)
(* are declared once; no theorem is about two of them.  What B, I and O    *)
(* assume of their constants is a hypothesis of the theorems about them:   *)
(* BlockSizes, InflateSizes, OnceSizes.                                    *)
(***************************************************************************)
EXTENDS StreamLife, TLAPS

CONSTANTS InLen, OutLen, PropsLen, DstLen,      \* B
          StreamLen, PlainLen, MaxGrant,        \* I, and PropsLen, DstLen
          Lengths, Rooms, UInt, ULong, Growth   \* O, and PropsLen

VARIABLES kind, ctx, block, status, phase,  \* B, and strm
          lib,                              \* I, and codec, strm, status, phase
          src, coded, plain, room, kept     \* O, and codec, status, phase

B == INSTANCE BlockCodecs
I == INSTANCE StreamInflate
O == INSTANCE OneShot

-----------------------------------------------------------------------------
(***************************************************************************)
(* BlockCodecs.  A call codes the whole block or none of it, so what must  *)
(* be known before it is where the input and the output begin and how much *)
(* was granted in all.  Each adapter keeps that elsewhere: lz4 and snappy  *)
(* in fields they do not touch until the block is coded, 7zip in ctx->src, *)
(* ctx->dest and total_in.  Kept says where, and what a call that failed   *)
(* leaves; it makes Whole inductive.                                       *)
(*                                                                         *)
(* Every handler is shown to keep the invariant and to be Served: what a   *)
(* caller sees of it is a step of ZContract.                               *)
(***************************************************************************)

BlockSizes ==
    /\ B!InLenAssumption
    /\ B!OutLenAssumption
    /\ B!PropsAssumption
    /\ B!DstLenAssumption

USE DEF BlockSizes, B!InLenAssumption, B!OutLenAssumption, B!PropsAssumption,
        B!DstLenAssumption

\* Where each adapter leaves the caller's fields before the block is coded.
Kept ==
    /\ ~ctx.open => phase \in {"stale", "fresh"}
    /\ ctx.open /\ phase \in {"stale", "fresh"} => ctx = B!Ctx(TRUE) /\ block = B!NoBlock
    /\ B!Live /\ phase = "fresh" => strm = B!ResetStream
    /\ phase = "granting" =>
          /\ kind \in B!Compressors /\ block = B!NoBlock
          /\ kind # "zip7_deflate" => /\ strm.next_in = 0 /\ strm.next_out = 0
                                      /\ strm.total_in = 0 /\ strm.total_out = 0
          /\ kind = "zip7_deflate" => /\ strm.avail_in = 0 /\ ctx.src = 0 /\ ctx.dest = 0
                                      /\ strm.total_in = strm.next_in
                                      /\ strm.total_out = strm.next_in
                                      /\ strm.next_out = strm.next_in
    /\ phase = "failed" =>
          /\ kind # "snappy_deflate" /\ block = B!NoBlock /\ strm.avail_in = 0
          /\ kind \in B!Compressors => strm.total_in = InLen
          /\ kind # "zip7_deflate" => strm.next_in = 0 /\ strm.next_out = 0
          /\ kind = "zip7_deflate" => /\ strm.next_in = InLen /\ ctx.src = 0 /\ ctx.dest = 0

BlockIInv == B!Whole /\ Kept

\* What a caller that is served sees of a call: total_in does not go back, and
\* output is there when the block is, all of it.
Served ==
    /\ phase # "done" /\ (B!Live => block = B!NoBlock)
    /\ B!Live' /\ (B!Live => strm.total_in <= strm'.total_in)
    /\ phase' # "done" => block' = B!NoBlock

LEMMA Kinded == ASSUME BlockSizes PROVE
    /\ B!Kinds = {"lz4_deflate", "snappy_deflate", "zip7_deflate", "lz4_inflate", "snappy_inflate"}
    /\ B!Compressors = {"lz4_deflate", "snappy_deflate", "zip7_deflate"}
BY DEF B!Kinds, B!Compressors, B!Decompressors

LEMMA BlockFields ==
    ASSUME BlockSizes, BlockIInv
    PROVE /\ strm.next_in \in 0 .. InLen /\ strm.total_in \in 0 .. InLen
          /\ strm.avail_in \in 0 .. DstLen /\ strm.avail_out \in 0 .. DstLen
          /\ strm.next_out \in 0 .. DstLen /\ strm.total_out \in 0 .. DstLen
          /\ kind \in B!Kinds /\ ctx.open \in BOOLEAN /\ phase \in {"stale", "fresh", "granting", "failed", "done"}
          /\ ctx \in [open : BOOLEAN, src : B!NULL .. InLen, dest : B!NULL .. DstLen]
          /\ block \in B!Blocks
BY DEF BlockIInv, B!Whole, B!Types, B!Streams

LEMMA MoreKeeps ==
    ASSUME BlockSizes, BlockIInv, NEW n \in 0 .. InLen, NEW m \in 0 .. DstLen,
           NEW flush \in {B!NoFlush, B!SyncFlush}, B!More(n, m, flush)
    PROVE  BlockIInv' /\ Served
<1> DEFINE g == B!Passing(strm.avail_in + n, m)
<1>1. /\ kind \in B!Compressors /\ kind' = kind /\ ctx.open /\ phase \in {"fresh", "granting"} /\ phase' = "granting"
      /\ strm.next_in + strm.avail_in + n <= InLen
  BY BlockFields DEF B!More, B!Call, B!Granted
<1>2. /\ B!Live /\ block = B!NoBlock
      /\ kind # "zip7_deflate" => /\ strm.next_in = 0 /\ strm.next_out = 0
                                  /\ strm.total_in = 0 /\ strm.total_out = 0
      /\ kind = "zip7_deflate" => /\ strm.avail_in = 0
                                  /\ strm.total_in = strm.next_in
                                  /\ strm.total_out = strm.next_in
                                  /\ strm.next_out = strm.next_in
  <2>1. CASE phase = "fresh"
    BY <1>1, <2>1 DEF BlockIInv, Kept, B!Live, B!ResetStream
  <2>2. CASE phase = "granting"
    BY <1>1, <2>2 DEF BlockIInv, Kept, B!Live
  <2>3. QED
    BY <1>1, <2>1, <2>2
<1>3. g = [next_in |-> strm.next_in, avail_in |-> strm.avail_in + n, total_in |-> strm.total_in,
                     next_out |-> strm.next_out, avail_out |-> m, total_out |-> strm.total_out]
  BY DEF B!Passing, B!Grant
<1>4. CASE kind # "zip7_deflate"
  <2>1. strm' = g /\ ctx' = ctx /\ block' = block /\ status' \in {B!UNIZIP_OK, B!UNIZIP_ERRNO}
    BY <1>1, <1>4 DEF B!More, B!Call, B!Lz4Deflate, B!SnappyDeflate, B!Leave, B!Settle,
       B!Compressors, B!NoFlush, B!Finish, B!SyncFlush
  <2>2. B!Types'
    <3>1. strm' = [next_in |-> strm.next_in, avail_in |-> strm.avail_in + n, total_in |-> strm.total_in,
                   next_out |-> strm.next_out, avail_out |-> m, total_out |-> strm.total_out]
      BY <1>3, <2>1
    <3>2. strm' \in B!Streams(InLen, DstLen, DstLen)
      <4>1. strm.avail_in + n \in 0 .. DstLen
        BY <1>1, BlockFields
      <4>2. QED
        BY <3>1, <4>1, BlockFields DEF B!Streams
    <3>3. status' \in B!Status
      BY <2>1 DEF B!Status, B!UNIZIP_OK, B!UNIZIP_ERRNO
    <3>4. QED
      BY <1>1, <2>1, <3>2, <3>3, BlockFields DEF B!Types
  <2>3. QED
    <3>1. strm'.next_in = 0 /\ strm'.next_out = 0 /\ strm'.total_in = 0 /\ strm'.total_out = 0
          /\ strm'.avail_in = strm.avail_in + n
      BY <1>2, <1>3, <1>4, <2>1
    <3>2. B!Whole'
      BY <1>1, <1>2, <2>2, <3>1, BlockFields DEF B!Whole, B!Live
    <3>3. Kept'
      BY <1>1, <1>2, <1>4, <2>1, <3>1 DEF Kept, B!Live
    <3>4. Served
      BY <1>1, <1>2, <1>4, <2>1, <3>1, BlockFields DEF B!Live, Served
    <3>5. QED
      BY <3>2, <3>3, <3>4 DEF BlockIInv
<1>5. CASE kind = "zip7_deflate"
  <2>1. /\ strm' = [next_in  |-> g.next_in + g.avail_in,  total_in  |-> g.total_in + g.avail_in,
            next_out |-> g.next_out + g.avail_in, total_out |-> g.total_out + g.avail_in,
            avail_in |-> 0, avail_out |-> 0]
        /\ ctx' = B!Remember(g) /\ block' = block /\ status' = B!UNIZIP_OK
    BY <1>1, <1>5 DEF B!More, B!Call, B!Zip7Deflate, B!Zip7Take, B!Settle, B!NoFlush, B!Finish,
       B!SyncFlush
  <2> DEFINE k == strm.next_in + n
  <2>2. strm' = [next_in |-> k, total_in |-> k, next_out |-> k, total_out |-> k, avail_in |-> 0, avail_out |-> 0]
    BY <1>2, <1>3, <1>5, <2>1, BlockFields
  <2>3. ctx'.open /\ ctx'.src = 0 /\ ctx'.dest = 0 /\ ctx' \in [open : BOOLEAN, src : B!NULL .. InLen, dest : B!NULL .. DstLen]
    <3>1. CASE phase = "fresh"
      <4>1. strm.next_in = 0 /\ strm.next_out = 0 /\ strm.total_in = 0
        BY <1>1, <1>2, <3>1 DEF BlockIInv, Kept, B!Live, B!ResetStream
      <4>2. g.total_in = 0 /\ g.next_in = 0 /\ g.next_out = 0
        BY <1>3, <4>1
      <4> HIDE DEF g
      <4>3. B!Remember(g) = [ctx EXCEPT !.src = 0, !.dest = 0]
        BY <4>2 DEF B!Remember
      <4>4. QED
        <5>1. ctx' = [ctx EXCEPT !.src = 0, !.dest = 0]
          BY <2>1, <4>3
        <5>2. [ctx EXCEPT !.src = 0, !.dest = 0] \in [open : BOOLEAN, src : B!NULL .. InLen, dest : B!NULL .. DstLen]
          <6>1. ctx \in [open : BOOLEAN, src : B!NULL .. InLen, dest : B!NULL .. DstLen] 
            BY BlockFields
          <6>2. 0 \in B!NULL .. InLen /\ 0 \in B!NULL .. DstLen
            BY DEF B!NULL
          <6>3. QED
            BY ONLY <6>1, <6>2
        <5>3. QED
          BY <1>1, <5>1, <5>2, BlockFields
    <3>2. CASE phase = "granting"
      <4>1. ctx.src = 0 /\ ctx.dest = 0
        BY <1>5, <3>2 DEF BlockIInv, Kept
      <4>2. g.total_in = 0 => g.next_in = 0 /\ g.next_out = 0
        BY <1>2, <1>3, <1>5
      <4> HIDE DEF g
      <4>3. B!Remember(g) = ctx \/ B!Remember(g) = [ctx EXCEPT !.src = 0, !.dest = 0]
        BY <4>2 DEF B!Remember
      <4>4. QED
        BY <1>1, <2>1, <4>1, <4>3, BlockFields DEF B!NULL
    <3>3. QED
      BY <1>1, <3>1, <3>2
  <2>4. k \in 0 .. InLen /\ k >= strm.next_in
    BY <1>1, <1>2, <1>5, BlockFields
  <2>5. B!Types'
    BY <1>1, <2>1, <2>2, <2>3, <2>4, BlockFields DEF B!Types, B!Streams, B!Status, B!UNIZIP_OK
  <2>6. QED
    BY <1>1, <1>2, <1>5, <2>1, <2>2, <2>3, <2>4, <2>5, BlockFields DEF BlockIInv, B!Whole,
       Kept, B!Live, Served
<1>6. QED
  BY <1>4, <1>5

\* A call finds the caller at work, and leaves one block or none.
LEMMA BlockCoded ==
    ASSUME BlockSizes, BlockIInv, ctx.open, phase \in {"fresh", "granting", "failed"},
           block = B!NoBlock,
           kind' = kind, ctx' = ctx, status' \in B!Status,
           strm' \in B!Streams(InLen, DstLen, DstLen), strm'.next_in + strm'.avail_in <= InLen,
           strm'.total_in = InLen, strm'.total_out = OutLen,
           block' = [at |-> 0, from |-> 0, len |-> InLen], phase' = "done"
    PROVE  BlockIInv' /\ Served
<1>1. B!Types'
  BY BlockFields DEF B!Types, B!Blocks, B!NULL
<1>2. B!Whole'
  BY <1>1 DEF B!Whole, B!Extent, B!Form
<1>3. Kept'
  BY DEF Kept
<1>4. Served
  BY BlockFields DEF Served, B!Live
<1>5. QED
  BY <1>2, <1>3, <1>4 DEF BlockIInv

LEMMA NotCoded ==
    ASSUME BlockSizes, BlockIInv, ctx.open, phase \in {"fresh", "granting", "failed"},
           block = B!NoBlock,
           kind' = kind, ctx' = ctx, status' \in B!Status,
           strm' \in B!Streams(InLen, DstLen, DstLen), strm'.avail_in = 0,
           strm.total_in <= strm'.total_in, block' = B!NoBlock, phase' = "failed",
           kind # "snappy_deflate",
           kind \in B!Compressors => strm'.total_in = InLen,
           kind # "zip7_deflate" => strm'.next_in = 0 /\ strm'.next_out = 0,
           kind = "zip7_deflate" => strm'.next_in = InLen /\ ctx.src = 0 /\ ctx.dest = 0
    PROVE  BlockIInv' /\ Served
<1>1. B!Types'
  BY BlockFields DEF B!Types
<1>2. B!Whole'
  BY <1>1 DEF B!Whole, B!Types, B!Streams
<1>3. Kept'
  BY DEF Kept
<1>4. Served
  BY DEF Served, B!Live
<1>5. QED
  BY <1>2, <1>3, <1>4 DEF BlockIInv

\* The caller has n bytes passed in all, room for m.
Asked(n, m, i, o) == [next_in |-> i, avail_in |-> n, total_in |-> strm.total_in,
                      next_out |-> o, avail_out |-> m, total_out |-> strm.total_out]

LEMMA BlockLengths == ASSUME BlockSizes PROVE
    /\ B!Form(InLen) = OutLen
    /\ \A n \in 0 .. InLen : B!Form(n) \in 1 .. OutLen
BY DEF B!Form

LEMMA Lz4Keeps ==
    ASSUME BlockSizes, BlockIInv, ctx.open, phase \in {"fresh", "granting", "failed"},
           block = B!NoBlock,
           kind \in {"lz4_deflate", "lz4_inflate"}, kind' = kind,
           NEW n \in strm.total_in .. InLen, NEW m \in 0 .. DstLen,
           kind = "lz4_deflate" => n = InLen,
           B!Lz4Process(Asked(n, m, 0, 0)),
           phase' = IF B!Finished(status') THEN "done" ELSE "failed"
    PROVE  BlockIInv' /\ Served
<1>1. n \in 0 .. InLen /\ n >= strm.total_in /\ strm.total_out \in 0 .. DstLen
  BY BlockFields
<1>2. CASE B!Codable(n) /\ B!Form(n) <= m
  <2>1. n = InLen /\ m >= OutLen
    BY <1>2, BlockLengths, Kinded DEF B!Codable
  <2>2. /\ strm' = [next_in |-> InLen, avail_in |-> 0, next_out |-> OutLen, total_in |-> InLen,
                    avail_out |-> m - OutLen, total_out |-> OutLen]
        /\ ctx' = ctx /\ block' = [at |-> 0, from |-> 0, len |-> InLen]
        /\ status' = B!UNIZIP_STREAM_END
    BY <1>2, <2>1, BlockLengths DEF B!Lz4Process, B!Settle, Asked
  <2>3. strm' \in B!Streams(InLen, DstLen, DstLen)
    BY <2>1, <2>2 DEF B!Streams
  <2>4. status' \in B!Status /\ phase' = "done"
    BY <2>2 DEF B!Status, B!UNIZIP_STREAM_END, B!Finished
  <2>5. QED
    BY <2>2, <2>3, <2>4, BlockCoded
<1>3. CASE ~(B!Codable(n) /\ B!Form(n) <= m)
  <2>1. /\ strm' = [next_in |-> 0, avail_in |-> 0, total_in |-> n,
                    next_out |-> 0, avail_out |-> m, total_out |-> strm.total_out]
        /\ ctx' = ctx /\ block' = B!NoBlock /\ status' = B!UNIZIP_BUF_ERROR
    BY <1>3 DEF B!Lz4Process, B!Settle, Asked, B!Lz4Fail
  <2>2. strm' \in B!Streams(InLen, DstLen, DstLen)
    BY <1>1, <2>1 DEF B!Streams
  <2>3. status' \in B!Status /\ phase' = "failed"
    BY <2>1 DEF B!Status, B!UNIZIP_BUF_ERROR, B!UNIZIP_STREAM_END, B!Finished
  <2>4. kind \in B!Compressors => n = InLen
    BY Kinded
  <2>5. QED
    BY <1>1, <2>1, <2>2, <2>3, <2>4, NotCoded
<1>4. QED
  BY <1>2, <1>3

LEMMA SnappyKeeps ==
    ASSUME BlockSizes, BlockIInv, ctx.open, phase \in {"fresh", "granting", "failed"},
           block = B!NoBlock,
           kind \in {"snappy_deflate", "snappy_inflate"}, kind' = kind,
           NEW n \in strm.total_in .. InLen, NEW m \in 0 .. DstLen,
           kind = "snappy_deflate" => n = InLen,
           B!SnappyProcess(Asked(n, m, 0, 0)),
           phase' = IF B!Finished(status') THEN "done" ELSE "failed"
    PROVE  BlockIInv' /\ Served
<1>1. n \in 0 .. InLen /\ n >= strm.total_in
  BY BlockFields
<1>2. CASE B!Codable(n)
  <2>1. n = InLen
    BY <1>2, Kinded DEF B!Codable
  <2>2. /\ strm' = [next_in |-> 0, avail_in |-> 0, next_out |-> 0, total_in |-> InLen,
                    avail_out |-> m, total_out |-> OutLen]
        /\ ctx' = ctx /\ block' = [at |-> 0, from |-> 0, len |-> InLen] /\ status' = B!UNIZIP_OK
    BY <1>2, <2>1, BlockLengths DEF B!SnappyProcess, B!Settle, Asked
  <2>3. strm' \in B!Streams(InLen, DstLen, DstLen)
    BY <2>2 DEF B!Streams
  <2>4. status' \in B!Status /\ phase' = "done"
    BY <2>2 DEF B!Status, B!UNIZIP_OK, B!Finished
  <2>5. QED
    BY <2>2, <2>3, <2>4, BlockCoded
<1>3. CASE ~B!Codable(n)
  <2>1. kind = "snappy_inflate"
    BY <1>3, Kinded DEF B!Codable
  <2>2. PICK o \in {0, OutLen} :
        /\ strm' = [next_in |-> 0, avail_in |-> 0, total_in |-> n,
                    next_out |-> 0, avail_out |-> m, total_out |-> o]
        /\ ctx' = ctx /\ block' = B!NoBlock /\ status' = B!UNIZIP_DATA_ERROR
    BY <1>3 DEF B!SnappyProcess, B!Settle, Asked
  <2>3. strm' \in B!Streams(InLen, DstLen, DstLen)
    BY <1>1, <2>2 DEF B!Streams
  <2>4. status' \in B!Status /\ phase' = "failed"
    BY <2>2 DEF B!Status, B!UNIZIP_DATA_ERROR, B!UNIZIP_STREAM_END, B!UNIZIP_OK, B!Finished
  <2>5. QED
    BY <1>1, <2>1, <2>2, <2>3, <2>4, NotCoded, Kinded
<1>4. QED
  BY <1>2, <1>3

LEMMA Zip7Keeps ==
    ASSUME BlockSizes, BlockIInv, ctx.open, phase \in {"granting", "failed"}, block = B!NoBlock,
           kind = "zip7_deflate", kind' = kind,
           NEW o \in Int, NEW m \in 0 .. DstLen,
           strm.total_in = InLen, strm.next_in = InLen, ctx.src = 0, ctx.dest = 0,
           B!Zip7Encode(Asked(0, m, InLen, o)),
           phase' = IF B!Finished(status') THEN "done" ELSE "failed"
    PROVE  BlockIInv' /\ Served
<1> DEFINE g == Asked(0, m, InLen, o)
<1>1. g.total_in = InLen /\ B!Remember(g) = ctx
  <2>1. g.total_in = InLen
    BY DEF Asked
  <2>2. QED
    BY <2>1 DEF B!Remember
<1>2. ASSUME NEW k \in Int
      PROVE  [g EXCEPT !.total_out = k, !.next_out = ctx.dest + k] =
                     [next_in |-> InLen, avail_in |-> 0, total_in |-> InLen,
                      next_out |-> k, avail_out |-> m, total_out |-> k]
  <2>1. ctx.dest + k = k
    OBVIOUS
  <2>2. g = [next_in |-> InLen, avail_in |-> 0, total_in |-> InLen,
             next_out |-> o, avail_out |-> m, total_out |-> strm.total_out]
    BY DEF Asked
  <2>3. [g EXCEPT !.total_out = k] =
            [next_in |-> InLen, avail_in |-> 0, total_in |-> InLen,
             next_out |-> o, avail_out |-> m, total_out |-> k]
    BY ONLY <2>2
  <2>4. [[next_in |-> InLen, avail_in |-> 0, total_in |-> InLen,
          next_out |-> o, avail_out |-> m, total_out |-> k] EXCEPT !.next_out = k] =
        [next_in |-> InLen, avail_in |-> 0, total_in |-> InLen,
         next_out |-> k, avail_out |-> m, total_out |-> k]
    OBVIOUS
  <2> HIDE DEF g
  <2>5. [g EXCEPT !.total_out = k, !.next_out = ctx.dest + k] =
        [[g EXCEPT !.total_out = k] EXCEPT !.next_out = ctx.dest + k]
    OBVIOUS
  <2>6. QED
    BY ONLY <2>1, <2>3, <2>4, <2>5
<1>3. \A k \in 0 .. OutLen : [next_in |-> InLen, avail_in |-> 0, total_in |-> InLen,
                      next_out |-> k, avail_out |-> m, total_out |-> k] \in B!Streams(InLen, DstLen, DstLen)
  BY DEF B!Streams
<1> HIDE DEF g
<1>4. CASE B!Settle([g EXCEPT !.total_out = B!Form(g.total_in), !.next_out = ctx.dest + B!Form(g.total_in)], ctx,
                    [at |-> ctx.dest, from |-> ctx.src, len |-> g.total_in], B!Zip7Return(TRUE))
  <2>1. /\ strm' = [next_in |-> InLen, avail_in |-> 0, total_in |-> InLen,
                    next_out |-> OutLen, avail_out |-> m, total_out |-> OutLen]
        /\ ctx' = ctx /\ block' = [at |-> 0, from |-> 0, len |-> InLen]
        /\ status' = B!UNIZIP_STREAM_END
    <3>1. B!Form(g.total_in) = OutLen /\ OutLen \in Int
      BY <1>1, BlockLengths
    <3>2. strm' = [g EXCEPT !.total_out = OutLen, !.next_out = ctx.dest + OutLen]
      BY <1>4, <3>1 DEF B!Settle
    <3>3. strm' = [next_in |-> InLen, avail_in |-> 0, total_in |-> InLen,
                   next_out |-> OutLen, avail_out |-> m, total_out |-> OutLen]
      BY ONLY <1>2, <3>1, <3>2
    <3>4. ctx' = ctx /\ block' = [at |-> 0, from |-> 0, len |-> InLen] /\ status' = B!UNIZIP_STREAM_END
      BY <1>1, <1>4 DEF B!Settle, B!Zip7Return
    <3>5. QED
      BY ONLY <3>3, <3>4
  <2>2. status' \in B!Status /\ phase' = "done"
    BY <2>1 DEF B!Status, B!UNIZIP_STREAM_END, B!Finished
  <2>3. QED
    BY <1>3, <2>1, <2>2, BlockCoded
<1>5. CASE \E k \in 0 .. OutLen : B!Settle([g EXCEPT !.total_out = k, !.next_out = ctx.dest + k], ctx,
                                           B!NoBlock, B!Zip7Return(FALSE))
  <2>1. PICK k \in 0 .. OutLen : B!Settle([g EXCEPT !.total_out = k, !.next_out = ctx.dest + k], ctx,
                                           B!NoBlock, B!Zip7Return(FALSE))
    BY <1>5
  <2>2. /\ strm' = [next_in |-> InLen, avail_in |-> 0, total_in |-> InLen,
                    next_out |-> k, avail_out |-> m, total_out |-> k]
        /\ ctx' = ctx /\ block' = B!NoBlock
        /\ status' = B!UNIZIP_DATA_ERROR
    <3>1. k \in Int /\ strm' = [g EXCEPT !.total_out = k, !.next_out = ctx.dest + k]
      BY <2>1 DEF B!Settle
    <3>2. strm' = [next_in |-> InLen, avail_in |-> 0, total_in |-> InLen,
                   next_out |-> k, avail_out |-> m, total_out |-> k]
      BY ONLY <1>2, <3>1
    <3>3. ctx' = ctx /\ block' = B!NoBlock /\ status' = B!UNIZIP_DATA_ERROR
      BY <2>1 DEF B!Settle, B!Zip7Return
    <3>4. QED
      BY ONLY <3>2, <3>3
  <2>3. status' \in B!Status /\ phase' = "failed"
    BY <2>2 DEF B!Status, B!UNIZIP_DATA_ERROR, B!UNIZIP_STREAM_END, B!Finished
  <2>4. QED
    BY <1>3, <2>2, <2>3, NotCoded
<1>6. QED
  BY <1>1, <1>4, <1>5 DEF B!Zip7Encode, g

LEMMA Passed == ASSUME BlockSizes, NEW n, NEW m PROVE B!Passing(n, m) = Asked(n, m, strm.next_in, strm.next_out)
BY DEF B!Passing, B!Grant, Asked

LEMMA AskKeeps ==
    ASSUME BlockSizes, BlockIInv, NEW m \in 1 .. DstLen, B!AskForEnd(m)
    PROVE  BlockIInv' /\ Served
<1> DEFINE g == Asked(strm.avail_in, m, strm.next_in, strm.next_out)
<1>1. /\ phase = "granting" /\ B!Granted = InLen /\ B!Call(g, B!Finish) /\ ctx.open /\ kind' = kind
      /\ phase' = IF B!Finished(status') THEN "done" ELSE "failed"
  BY Passed DEF B!AskForEnd, B!Call
<1>2. kind \in B!Compressors /\ block = B!NoBlock
  BY <1>1 DEF BlockIInv, Kept
<1>3. CASE kind # "zip7_deflate"
  <2>1. strm.next_in = 0 /\ strm.next_out = 0 /\ strm.total_in = 0 /\ strm.avail_in = InLen
    BY <1>1, <1>3, BlockFields DEF BlockIInv, Kept, B!Granted
  <2>2. strm.avail_in \in strm.total_in .. InLen
    BY <2>1
  <2>3. CASE kind = "lz4_deflate"
    <3>1. B!Lz4Process(Asked(strm.avail_in, m, 0, 0))
      BY <1>1, <2>1, <2>3 DEF B!Call, B!Lz4Deflate, B!NoFlush, B!Finish
    <3>2. QED
      BY <1>1, <1>2, <2>1, <2>2, <2>3, <3>1, Lz4Keeps
  <2>4. CASE kind = "snappy_deflate"
    <3>1. B!SnappyProcess(Asked(strm.avail_in, m, 0, 0))
      BY <1>1, <2>1, <2>4 DEF B!Call, B!SnappyDeflate, B!NoFlush, B!Finish
    <3>2. QED
      BY <1>1, <1>2, <2>1, <2>2, <2>4, <3>1, SnappyKeeps
  <2>5. QED
    BY <1>2, <1>3, <2>3, <2>4, Kinded
<1>4. CASE kind = "zip7_deflate"
  <2>1. strm.avail_in = 0 /\ strm.total_in = strm.next_in /\ ctx.src = 0 /\ ctx.dest = 0
    BY <1>1, <1>4 DEF BlockIInv, Kept
  <2>2. strm.next_in = InLen
    BY <1>1, <2>1, BlockFields DEF B!Granted
  <2>3. B!Zip7Encode(Asked(0, m, InLen, strm.next_out))
    BY <1>1, <1>4, <2>1, <2>2 DEF B!Call, B!Zip7Deflate, B!Finish
  <2>4. strm.next_out \in Int
    BY BlockFields
  <2>5. QED
    BY <1>1, <1>2, <1>4, <2>1, <2>2, <2>3, <2>4, Zip7Keeps
<1>5. QED
  BY <1>3, <1>4

LEMMA AgainKeeps ==
    ASSUME BlockSizes, BlockIInv, NEW m \in 1 .. DstLen, B!TryAgain(m)
    PROVE  BlockIInv' /\ Served
<1>1. /\ phase = "failed" /\ kind \in B!Compressors /\ ctx.open /\ kind' = kind
      /\ phase' = IF B!Finished(status') THEN "done" ELSE "failed"
  BY DEF B!TryAgain, B!Call
<1>2. block = B!NoBlock /\ strm.total_in = InLen
  BY <1>1 DEF BlockIInv, Kept
<1>3. CASE kind = "lz4_deflate"
  <2>1. strm.next_in = 0 /\ strm.next_out = 0
    BY <1>1, <1>3 DEF BlockIInv, Kept
  <2>2. B!Lz4Process(Asked(InLen, m, 0, 0))
    BY <1>1, <1>3, <2>1, Passed DEF B!TryAgain, B!Call, B!Lz4Deflate, B!NoFlush, B!Finish
  <2>3. InLen \in strm.total_in .. InLen
    BY <1>2
  <2>4. QED
    BY <1>1, <1>2, <1>3, <2>2, <2>3, Lz4Keeps
<1>4. CASE kind = "zip7_deflate"
  <2>1. strm.next_in = InLen /\ ctx.src = 0 /\ ctx.dest = 0 /\ strm.next_out \in Int
    BY <1>1, <1>4, BlockFields DEF BlockIInv, Kept
  <2>2. B!Zip7Encode(Asked(0, m, InLen, strm.next_out))
    BY <1>1, <1>4, <2>1, Passed DEF B!TryAgain, B!Call, B!Zip7Deflate, B!Finish
  <2>3. QED
    BY <1>1, <1>2, <1>4, <2>1, <2>2, Zip7Keeps
<1>5. QED
  BY <1>3, <1>4 DEF B!TryAgain

LEMMA InflateKeeps ==
    ASSUME BlockSizes, BlockIInv, NEW n \in 1 .. InLen, NEW m \in 1 .. DstLen, B!Inflate(n, m)
    PROVE  BlockIInv' /\ Served
<1>1. /\ phase \in {"fresh", "failed"} /\ kind \in B!Decompressors /\ ctx.open /\ kind' = kind
      /\ phase' = IF B!Finished(status') THEN "done" ELSE "failed"
      /\ n \in strm.total_in .. InLen
  BY BlockFields DEF B!Inflate, B!Call
<1>2. kind \in {"lz4_inflate", "snappy_inflate"} /\ kind # "zip7_deflate"
  BY <1>1 DEF B!Decompressors
<1>3. block = B!NoBlock /\ strm.next_in = 0 /\ strm.next_out = 0
  <2>1. CASE phase = "fresh"
    BY <1>1, <2>1 DEF BlockIInv, Kept, B!Live, B!ResetStream
  <2>2. CASE phase = "failed"
    BY <1>2, <2>2 DEF BlockIInv, Kept
  <2>3. QED
    BY <1>1, <2>1, <2>2
<1>4. CASE kind = "lz4_inflate"
  <2>1. B!Lz4Process(Asked(n, m, 0, 0))
    BY <1>3, <1>4, Passed DEF B!Inflate, B!Call
  <2>2. QED
    BY <1>1, <1>3, <1>4, <2>1, Lz4Keeps
<1>5. CASE kind = "snappy_inflate"
  <2>1. B!SnappyProcess(Asked(n, m, 0, 0))
    BY <1>3, <1>5, Passed DEF B!Inflate, B!Call
  <2>2. QED
    BY <1>1, <1>3, <1>5, <2>1, SnappyKeeps
<1>6. QED
  BY <1>2, <1>4, <1>5

\* Nothing is accepted and nothing delivered: a new stream, or none.
Anew == B!Contract!Restart

LEMMA BlockCleared == ASSUME BlockSizes PROVE B!ResetStream \in B!Streams(InLen, DstLen, DstLen)
BY DEF B!ResetStream, B!Streams

LEMMA BlockStartKeeps ==
    ASSUME BlockSizes, BlockIInv, B!StartOver
    PROVE  BlockIInv' /\ Anew
<1>1. B!Types'
  BY BlockCleared, BlockFields DEF B!StartOver, B!Types, BlockIInv, B!Whole
<1>2. B!Whole'
  BY <1>1 DEF B!StartOver, B!Whole, B!ResetStream
<1>3. Kept'
  BY DEF B!StartOver, BlockIInv, Kept, B!Live
<1>4. Anew
  BY DEF B!StartOver, Anew, B!Contract!Restart, B!Live, B!ResetStream, BlockIInv, Kept
<1>5. QED
  BY <1>2, <1>3, <1>4 DEF BlockIInv

LEMMA ClosedAndOpened ==
    ASSUME BlockSizes, BlockIInv, B!InitCB \/ B!ResetCB \/ B!EndCB
    PROVE  BlockIInv' /\ Anew
<1>1. /\ kind' = kind /\ block' = B!NoBlock /\ status' \in B!Status
      /\ strm' = strm \/ strm' = B!ResetStream
      /\ \/ ctx' = B!Ctx(TRUE) /\ (phase' = "fresh" => strm' = B!ResetStream)
         \/ ctx' = B!Ctx(FALSE)
      /\ phase' \in {"stale", "fresh"}
  <2>1. B!UNIZIP_OK \in B!Status /\ B!UNIZIP_MEM_ERROR \in B!Status
    BY DEF B!Status, B!UNIZIP_OK, B!UNIZIP_MEM_ERROR
  <2>2. CASE B!InitCB
    BY <2>1, <2>2, Zenon DEF B!InitCB, B!Settle
  <2>3. CASE B!ResetCB
    BY <2>1, <2>3 DEF B!ResetCB, B!Settle
  <2>4. CASE B!EndCB
    BY <2>1, <2>4 DEF B!EndCB, B!Settle
  <2>5. QED
    BY <2>2, <2>3, <2>4
<1>2. ctx' \in [open : BOOLEAN, src : B!NULL .. InLen, dest : B!NULL .. DstLen] /\ ctx'.open \in BOOLEAN
      /\ (ctx'.open => ctx' = B!Ctx(TRUE))
  <2>1. \A b \in BOOLEAN : B!Ctx(b) \in [open : BOOLEAN, src : B!NULL .. InLen, dest : B!NULL .. DstLen]
    BY DEF B!Ctx, B!NULL
  <2>2. B!Ctx(TRUE).open = TRUE /\ B!Ctx(FALSE).open = FALSE
    BY DEF B!Ctx
  <2>3. QED
    BY <1>1, <2>1, <2>2
<1>3. strm' \in B!Streams(InLen, DstLen, DstLen)
  BY <1>1, BlockCleared DEF BlockIInv, B!Whole, B!Types
<1>4. B!NoBlock \in B!Blocks
  BY DEF B!NoBlock, B!Blocks, B!NULL
<1>5. B!Types'
  BY <1>1, <1>2, <1>3, <1>4, BlockFields DEF B!Types
<1>6. B!Live' => strm' = B!ResetStream
  BY <1>1 DEF B!Live, B!Ctx
<1>7. B!Whole'
  BY <1>1, <1>5, <1>6 DEF B!Whole, B!ResetStream
<1>8. Kept'
  BY <1>1, <1>2, <1>6 DEF Kept
<1>9. Anew
  BY <1>1, <1>6 DEF Anew, B!Contract!Restart, B!ResetStream
<1>10. QED
  BY <1>7, <1>8, <1>9 DEF BlockIInv

LEMMA BlockInitially == ASSUME BlockSizes PROVE B!Init => BlockIInv /\ B!Contract!Init
<1> SUFFICES ASSUME B!Init PROVE BlockIInv /\ B!Contract!Init
  OBVIOUS
<1>1. B!Types
  BY BlockCleared DEF B!Init, B!Types, B!Ctx, B!NULL, B!Blocks, B!NoBlock, B!Status, B!UNIZIP_OK
<1>2. B!Whole /\ Kept /\ ~B!Live
  BY <1>1 DEF B!Init, B!Whole, Kept, B!Live, B!Ctx
<1>3. QED
  BY <1>2 DEF BlockIInv, B!Contract!Init, B!Init

LEMMA BlockStepKeeps ==
    ASSUME BlockSizes, BlockIInv, B!Next
    PROVE  BlockIInv' /\ (Served \/ Anew)
<1>1. ASSUME NEW m \in 1 .. DstLen, NEW n \in 1 .. InLen, B!More(n, m, B!NoFlush)
      PROVE  BlockIInv' /\ Served
  <2>1. n \in 0 .. InLen /\ m \in 0 .. DstLen /\ B!NoFlush \in {B!NoFlush, B!SyncFlush}
    OBVIOUS
  <2>2. QED
    BY <1>1, <2>1, MoreKeeps
<1>2. ASSUME NEW m \in 0 .. DstLen, NEW n \in 0 .. InLen, B!More(n, m, B!SyncFlush)
      PROVE  BlockIInv' /\ Served
  BY <1>2, MoreKeeps
<1>3. B!Drive => BlockIInv' /\ (Served \/ Anew)
  BY <1>1, AskKeeps, AgainKeeps, InflateKeeps, BlockStartKeeps DEF B!Drive
<1>4. B!Sync => BlockIInv' /\ Served
  BY <1>2 DEF B!Sync
<1>5. QED
  BY <1>3, <1>4, ClosedAndOpened DEF B!Next

LEMMA BlockIdleKeeps == ASSUME BlockSizes PROVE BlockIInv /\ UNCHANGED B!vars => BlockIInv'
BY DEF B!vars, BlockIInv, B!Whole, B!Types, Kept, B!Live, B!Extent, B!Form

\* Whatever order a caller grants, asks, gives up, resets and starts over in:
\* the block is Whole, and the fields are where Kept says that lz4, snappy and
\* 7zip leave them.
THEOREM BlockInvariance == ASSUME BlockSizes PROVE B!FairSpec => []BlockIInv
<1>1. BlockIInv /\ [B!Next]_B!vars => BlockIInv'
  BY BlockStepKeeps, BlockIdleKeeps
<1>2. QED
  BY <1>1, BlockInitially, PTL DEF B!FairSpec

\* Whole, for blocks and buffers of every length: when lz4_deflate,
\* snappy_deflate, zip7_deflate, lz4_inflate or snappy_inflate lets the caller
\* believe it is done, the block in its buffer begins where the buffer does, is
\* made of the whole input and nothing else, and is as long as total_out says.
THEOREM BlockIsWhole == ASSUME BlockSizes PROVE B!FairSpec => []B!Whole
<1>1. BlockIInv => B!Whole
  BY DEF BlockIInv
<1>2. QED
  BY <1>1, BlockInvariance, PTL

LEMMA ServedPromised ==
    ASSUME BlockSizes, BlockIInv, BlockIInv', Served
    PROVE  B!Contract!Next
<1>1. strm.total_in \in 0 .. InLen /\ strm'.total_in \in 0 .. InLen
  BY DEF BlockIInv, B!Whole, B!Types, B!Streams
<1>2. B!Live' /\ phase # "done"
  BY DEF Served
<1>3. CASE phase' = "done"
  <2>1. block' # B!NoBlock
    BY <1>3 DEF BlockIInv, B!Whole, B!NoBlock
  <2>2. strm'.total_in = InLen /\ strm'.total_out = OutLen
    BY <1>3 DEF BlockIInv, B!Whole
  <2>3. B!Contract!Complete
    BY <1>2, <1>3, <2>1, <2>2 DEF B!Contract!Complete
  <2>4. QED
    BY <2>3 DEF B!Contract!Next
<1>4. CASE phase' # "done"
  <2>1. block' = B!NoBlock /\ (B!Live => block = B!NoBlock /\ strm.total_in <= strm'.total_in)
    BY <1>4 DEF Served
  <2>2. B!Contract!Progress
    BY <1>1, <1>2, <1>4, <2>1 DEF B!Contract!Progress
  <2>3. QED
    BY <2>2 DEF B!Contract!Next
<1>5. QED
  BY <1>3, <1>4

\* KeepsContract, for blocks and buffers of every length: a block codec, failed
\* calls, retries and resets included, does only what a streaming one may.
THEOREM BlockRefinement == ASSUME BlockSizes PROVE B!FairSpec => B!KeepsContract
<1>1. BlockIInv /\ BlockIInv' /\ [B!Next]_B!vars => [B!Contract!Next]_(B!Contract!vars)
  <2>1. CASE B!Next
    BY <2>1, BlockStepKeeps, ServedPromised DEF Anew, B!Contract!Next
  <2>2. CASE UNCHANGED B!vars
    BY <2>2 DEF B!vars, B!Contract!vars, B!Live
  <2>3. QED
    BY <2>1, <2>2
<1>2. QED
  BY <1>1, BlockInitially, BlockInvariance, PTL DEF B!FairSpec, B!KeepsContract, B!Contract!Spec

HIDE DEF BlockSizes, B!InLenAssumption, B!OutLenAssumption, B!PropsAssumption,
        B!DstLenAssumption

-----------------------------------------------------------------------------
(***************************************************************************)
(* StreamInflate.  The adapters keep the position twice, in the caller's   *)
(* fields and in the library's, and each brings them together at another   *)
(* time.  InOrder relates the two; Opening adds what it does not say of a  *)
(* ctx that nobody has called yet and of brotli and 7zip when the library  *)
(* is done and the adapter has not said so.                                *)
(*                                                                         *)
(* Calling is what a caller knows when it calls, Came what a call may come *)
(* to; the refinement follows from Came alone, so every adapter has one    *)
(* lemma.                                                                  *)
(***************************************************************************)

InflateSizes ==
    /\ I!PropsAssumption
    /\ I!StreamAssumption
    /\ I!PlainAssumption
    /\ I!DstLenAssumption
    /\ I!MaxGrantAssumption

USE DEF InflateSizes, I!PropsAssumption, I!StreamAssumption, I!PlainAssumption,
        I!DstLenAssumption, I!MaxGrantAssumption

\* What is known of a ctx before the first call on it, without one, and where
\* brotli and 7zip are at the end but have not said so.
Opening ==
    /\ phase = "stale" => status # I!UNIZIP_STREAM_END
    /\ lib.mode # "none" /\ phase = "stale" => lib = I!Lib(lib.mode)
    /\ lib.mode = "none" =>
          lib = I!Lib("none") /\ status # I!UNIZIP_STREAM_END /\ phase \in {"stale", "fresh"}
    /\ lib.mode = "success" => codec = "brotli" /\ I!AllOut(lib)
    /\ codec = "zip7" /\ lib.mode = "open" /\ lib.read >= I!DataLen =>
          lib.wrote = PlainLen \/ lib.full

InflateIInv == I!InOrder /\ Opening

Grants == I!Streams(StreamLen, DstLen, MaxGrant)

LEMMA InflateFields ==
    ASSUME InflateSizes, InflateIInv
    PROVE /\ strm \in Grants /\ lib \in I!Libs /\ codec \in I!Codecs
          /\ strm.next_in \in 0 .. StreamLen /\ strm.total_in \in 0 .. StreamLen
          /\ strm.avail_in \in 0 .. MaxGrant /\ strm.avail_out \in 0 .. MaxGrant
          /\ strm.next_out \in 0 .. DstLen /\ strm.total_out \in 0 .. DstLen
          /\ lib.mode \in I!Modes /\ lib.avail_in \in 0 .. MaxGrant /\ lib.avail_out \in 0 .. MaxGrant
          /\ lib.read \in 0 .. StreamLen /\ lib.wrote \in 0 .. PlainLen
          /\ lib.expect \in I!NotFinishing .. MaxGrant /\ lib.stalled \in BOOLEAN /\ lib.full \in BOOLEAN
          /\ status \in I!Status /\ phase \in {"stale", "fresh", "pieces", "whole", "finishing"}
BY DEF InflateIInv, I!InOrder, I!Types, I!Streams, I!Libs, Grants

LEMMA InflateLengths == ASSUME InflateSizes PROVE
    /\ I!CallersLen \in 1 .. StreamLen /\ I!DataLen \in 1 .. StreamLen
    /\ codec # "zip7" => I!CallersLen = StreamLen
    /\ codec = "zip7" => I!CallersLen = I!DataLen /\ PropsLen < I!DataLen
BY DEF I!CallersLen, I!DataLen

\* A caller about to call: it has a stream that has not ended, and is told of
\* all that was read and written.
Calling(n, m) ==
    /\ I!Live /\ lib.mode \in {"open", "success", "failed"}
    /\ codec \in I!OwnBooks \cup {"zip7"} => lib.mode = "open"
    /\ status # I!UNIZIP_STREAM_END
    /\ n \in 0 .. StreamLen /\ n <= I!Rest /\ (n = 0 => I!Rest = 0)
    /\ m \in 1 .. MaxGrant /\ m <= DstLen - strm.total_out

\* What may come of a call.
Came ==
    /\ lib' \in I!Libs /\ strm' \in Grants /\ status' \in I!Status /\ codec' = codec
    /\ lib'.mode \in {"open", "success", "ended", "failed"}
    /\ IF lib'.mode = "failed" /\ codec \in {"bzip2", "zstd"}
       THEN /\ strm'.total_in = strm.total_in /\ strm'.total_out = strm.total_out
            /\ status' # I!UNIZIP_STREAM_END
       ELSE /\ lib'.read >= lib.read /\ lib'.wrote >= lib.wrote
            /\ strm'.total_in = lib'.read /\ strm'.total_out = lib'.wrote
            /\ strm'.next_in = IF codec = "zstd" /\ lib'.mode # "ended" THEN 0 ELSE lib'.read
            /\ strm'.next_out = IF codec = "zstd" /\ lib'.mode # "ended" THEN 0 ELSE lib'.wrote
            /\ codec \in I!OwnBooks => /\ lib'.read + lib'.avail_in <= StreamLen
                                       /\ lib'.wrote + lib'.avail_out <= DstLen
    /\ status' = I!UNIZIP_STREAM_END =>
          \/ lib'.read = StreamLen /\ lib'.wrote = PlainLen
          \/ codec = "zip7" /\ lib'.read >= I!DataLen /\ (lib'.wrote = PlainLen \/ lib'.full)
    /\ lib'.mode = "success" => codec = "brotli" /\ lib'.read = StreamLen /\ lib'.wrote = PlainLen
    /\ codec = "zip7" /\ lib'.mode = "open" /\ lib'.read >= I!DataLen =>
          lib'.wrote = PlainLen \/ lib'.full

\* The caller's fields and the library's positions, call by call.
LEMMA InStep ==
    ASSUME InflateSizes, InflateIInv, NEW n, NEW m, Calling(n, m)
    PROVE /\ strm.total_in = lib.read /\ strm.total_out = lib.wrote
          /\ strm.next_in = (IF codec = "zstd" THEN 0 ELSE lib.read)
          /\ strm.next_out = (IF codec = "zstd" THEN 0 ELSE lib.wrote)
          /\ codec \in I!OwnBooks => /\ lib.read + lib.avail_in <= StreamLen
                                     /\ lib.wrote + lib.avail_out <= DstLen
BY DEF Calling, InflateIInv, I!InOrder, I!Base, I!OwnBooks

LEMMA CameKeeps ==
    ASSUME InflateSizes, InflateIInv, NEW n, NEW m, Calling(n, m), Came, phase' \in {"pieces",
           "whole", "finishing"}
    PROVE  InflateIInv' /\ I!Contract!Next
<1>1. I!Types'
  BY InflateFields DEF Came, I!Types, Grants
<1>2. I!Live'
  BY DEF Came, I!Live
<1>3. I!InOrder'
  BY <1>1 DEF Came, I!InOrder, I!Base
<1>4. Opening'
  BY DEF Came, Opening, I!AllOut, I!DataLen
<1>5. /\ strm.total_in \in 0 .. StreamLen /\ strm'.total_in \in 0 .. StreamLen
      /\ lib.wrote \in 0 .. PlainLen /\ lib'.wrote \in 0 .. PlainLen
      /\ strm.total_in <= strm'.total_in /\ strm.total_out <= strm'.total_out
      /\ strm'.total_out \in 0 .. PlainLen /\ strm.total_out \in 0 .. PlainLen
  BY InflateFields, InStep, <1>1 DEF Came, I!Types, I!Libs, I!Streams
<1>6. I!Live /\ status # I!UNIZIP_STREAM_END
  BY DEF Calling
<1>7. CASE status' = I!UNIZIP_STREAM_END /\ ~I!CutShort'
  <2>1. strm'.total_in = lib'.read /\ strm'.total_out = lib'.wrote
    BY <1>7 DEF Came
  <2>2. lib'.wrote = PlainLen /\ lib'.read >= I!CallersLen
    BY <1>7, InflateLengths DEF Came, I!CutShort
  <2>3. I!Rest' = 0 
    BY <1>5, <2>1, <2>2, InflateLengths DEF I!Rest, I!CallersLen, Came
  <2>4. I!Contract!Complete
    BY <1>2, <1>6, <1>7, <2>1, <2>2, <2>3 DEF I!Contract!Complete
  <2>5. QED
    BY <1>3, <1>4, <2>4 DEF InflateIInv, I!Contract!Next
<1>8. CASE ~(status' = I!UNIZIP_STREAM_END /\ ~I!CutShort')
  <2> DEFINE taken == IF I!Rest = 0 THEN StreamLen ELSE strm.total_in
  <2>1. taken' \in taken .. StreamLen
    BY <1>5, InflateLengths DEF I!Rest, I!CallersLen, Came
  <2>2. I!Contract!Progress
    BY <1>2, <1>5, <1>6, <1>8, <2>1 DEF I!Contract!Progress
  <2>3. QED
    BY <1>3, <1>4, <2>2 DEF InflateIInv, I!Contract!Next
<1>9. QED
  BY <1>7, <1>8

LEMMA Granted ==
    ASSUME InflateSizes, InflateIInv, NEW n, NEW m, Calling(n, m)
    PROVE  /\ I!Grant(strm, n, m) \in Grants
           /\ n \in 0 .. StreamLen /\ m \in 1 .. MaxGrant
           /\ n <= StreamLen - strm.total_in /\ m <= DstLen - strm.total_out
           /\ I!Grant(strm, n, m).avail_in = n /\ I!Grant(strm, n, m).avail_out = m
           /\ I!Grant(strm, n, m).next_in = strm.next_in
           /\ I!Grant(strm, n, m).total_in = strm.total_in
           /\ I!Grant(strm, n, m).next_out = strm.next_out
           /\ I!Grant(strm, n, m).total_out = strm.total_out
<1>1. n \in 0 .. StreamLen /\ m \in 1 .. MaxGrant /\ n <= I!Rest /\ m <= DstLen - strm.total_out
  BY DEF Calling
<1>2. n <= StreamLen - strm.total_in
  BY <1>1, InflateLengths, InflateFields DEF I!Rest
<1>3. I!Grant(strm, n, m) \in Grants
  BY <1>1, InflateFields DEF I!Grant, Grants, I!Streams
<1>4. QED
  BY <1>1, <1>2, <1>3 DEF I!Grant

LEMMA Moves ==
    ASSUME InflateSizes, NEW l \in I!Libs, NEW u, NEW p, I!InRange(l, u, p)
    PROVE  /\ I!Moved(l, u, p) \in I!Libs
           /\ I!Moved(l, u, p).mode = l.mode
           /\ I!Moved(l, u, p).read = l.read + u /\ I!Moved(l, u, p).read \in l.read .. StreamLen
           /\ I!Moved(l, u, p).wrote = l.wrote + p /\ I!Moved(l, u, p).wrote \in l.wrote .. PlainLen
           /\ I!Moved(l, u, p).read + I!Moved(l, u, p).avail_in = l.read + l.avail_in
           /\ I!Moved(l, u, p).wrote + I!Moved(l, u, p).avail_out = l.wrote + l.avail_out
           /\ I!Moved(l, u, p).avail_in \in 0 .. l.avail_in
           /\ I!Moved(l, u, p).avail_out \in 0 .. l.avail_out
           /\ I!Moved(l, u, p).avail_out = 0 => I!Moved(l, u, p).full
<1>1. /\ l.mode \in I!Modes /\ l.avail_in \in 0 .. MaxGrant /\ l.avail_out \in 0 .. MaxGrant
      /\ l.read \in 0 .. StreamLen /\ l.wrote \in 0 .. PlainLen /\ l.expect \in I!NotFinishing .. MaxGrant
  BY DEF I!Libs
<1>2. /\ u \in 0 .. l.avail_in /\ l.read + u <= StreamLen
      /\ p \in 0 .. l.avail_out /\ l.wrote + p <= PlainLen
  BY DEF I!InRange
<1>3. I!Moved(l, u, p) \in I!Libs
  BY <1>1, <1>2 DEF I!Moved, I!Libs
<1>4. /\ I!Moved(l, u, p).mode = l.mode
      /\ I!Moved(l, u, p).read = l.read + u /\ I!Moved(l, u, p).wrote = l.wrote + p
      /\ I!Moved(l, u, p).avail_in = l.avail_in - u /\ I!Moved(l, u, p).avail_out = l.avail_out - p
  BY DEF I!Moved
<1> DEFINE y == I!Moved(l, u, p)
<1>5. y.full = (p = l.avail_out)
  BY Zenon DEF I!Moved
<1> HIDE DEF y
<1>6. /\ y.read \in l.read .. StreamLen /\ y.wrote \in l.wrote .. PlainLen
      /\ y.read + y.avail_in = l.read + l.avail_in
      /\ y.wrote + y.avail_out = l.wrote + l.avail_out
      /\ y.avail_in \in 0 .. l.avail_in /\ y.avail_out \in 0 .. l.avail_out
      /\ y.avail_out = 0 => p = l.avail_out
  BY <1>1, <1>2, <1>4 DEF y
<1>7. y.avail_out = 0 => y.full
  BY <1>5, <1>6, Zenon
<1>8. QED
  BY <1>3, <1>4, <1>6, <1>7 DEF y

\* The pointers and totals of a grant of whose stream read and wrote say all.
LEMMA Advanced ==
    ASSUME InflateSizes, NEW g \in Grants, NEW y \in I!Libs, g.next_in = g.total_in,
           g.next_out = g.total_out
    PROVE  /\ I!Advance(g, y) \in Grants
           /\ I!Advance(g, y).next_in = y.read /\ I!Advance(g, y).total_in = y.read
           /\ I!Advance(g, y).next_out = y.wrote /\ I!Advance(g, y).total_out = y.wrote
<1>1. /\ g.next_in \in Int /\ g.next_out \in Int
      /\ y.read \in 0 .. StreamLen /\ y.wrote \in 0 .. DstLen
  BY DEF I!Libs, Grants, I!Streams
<1>2. g.next_in + (y.read - g.total_in) = y.read /\ g.next_out + (y.wrote - g.total_out) = y.wrote
  BY <1>1
<1>3. I!Advance(g, y) = [g EXCEPT !.next_in = y.read, !.total_in = y.read,
                                  !.next_out = y.wrote, !.total_out = y.wrote]
  BY <1>2 DEF I!Advance
<1>4. QED
  BY <1>1, <1>3 DEF Grants, I!Streams

LEMMA Loads ==
    ASSUME InflateSizes, InflateIInv, NEW n, NEW m, Calling(n, m), codec \in I!OwnBooks
    PROVE  /\ I!Loaded(I!Grant(strm, n, m)) \in I!Libs
           /\ I!Loaded(I!Grant(strm, n, m)).mode = "open"
           /\ I!Loaded(I!Grant(strm, n, m)).read = lib.read
           /\ I!Loaded(I!Grant(strm, n, m)).wrote = lib.wrote
           /\ I!Loaded(I!Grant(strm, n, m)).read + I!Loaded(I!Grant(strm, n, m)).avail_in <= StreamLen
           /\ I!Loaded(I!Grant(strm, n, m)).wrote + I!Loaded(I!Grant(strm, n, m)).avail_out <= DstLen
<1> DEFINE a == IF lib.avail_in = 0 THEN n ELSE lib.avail_in
           b == IF lib.avail_out = 0 THEN m ELSE lib.avail_out
           l == [lib EXCEPT !.avail_in = a, !.avail_out = b]
<1>1. I!Loaded(I!Grant(strm, n, m)) = l
  <2>1. I!Grant(strm, n, m).avail_in = n /\ I!Grant(strm, n, m).avail_out = m
    BY DEF I!Grant
  <2>2. QED
    BY <2>1, Zenon DEF I!Loaded
<1>2. a \in 0 .. MaxGrant /\ b \in 0 .. MaxGrant /\ lib.read + a <= StreamLen /\ lib.wrote + b <= DstLen
  BY InflateFields, Granted, InStep
<1> HIDE DEF a, b
<1>3. l \in I!Libs /\ l.mode = lib.mode /\ l.read = lib.read /\ l.wrote = lib.wrote
      /\ l.avail_in = a /\ l.avail_out = b
  BY <1>2, InflateFields DEF I!Libs
<1>4. lib.mode = "open"
  BY DEF Calling
<1> HIDE DEF l
<1>5. QED
  BY <1>1, <1>2, <1>3, <1>4

LEMMA Bzip2Came ==
    ASSUME InflateSizes, InflateIInv, NEW n, NEW m, Calling(n, m), codec = "bzip2",
           codec' = codec,
           I!bzip2_inflate(I!Grant(strm, n, m))
    PROVE  Came
<1> DEFINE g == I!Grant(strm, n, m)
           l == I!Loaded(g)
<1>1. codec \in I!OwnBooks
  BY DEF I!OwnBooks
<1>2. /\ g \in Grants /\ g.next_in = g.total_in /\ g.next_out = g.total_out
      /\ g.total_in = strm.total_in /\ g.total_out = strm.total_out
      /\ g.total_in = lib.read /\ g.total_out = lib.wrote
  BY Granted, InStep
<1>3. /\ l \in I!Libs /\ l.mode = "open" /\ l.read = lib.read /\ l.wrote = lib.wrote
      /\ l.read + l.avail_in <= StreamLen /\ l.wrote + l.avail_out <= DstLen
  BY <1>1, Loads
<1> HIDE DEF g, l
<1>4. PICK u, p : /\ I!InRange(l, u, p)
                  /\ \/ /\ I!AllOut(I!Moved(l, u, p))
                        /\ I!Settle(I!Advance(g, I!Moved(l, u, p)), I!Ended(I!Moved(l, u, p)), I!UNIZIP_STREAM_END)
                     \/ I!Settle(I!Advance(g, I!Moved(l, u, p)), I!Moved(l, u, p), I!UNIZIP_OK)
                     \/ I!Settle(g, I!Failed(I!Moved(l, u, p)), I!UNIZIP_MEM_ERROR)
  BY DEF I!bzip2_inflate, I!Decodes, g, l
<1> DEFINE y == I!Moved(l, u, p)
<1>5. /\ y \in I!Libs /\ y.mode = "open" /\ y.read >= lib.read /\ y.wrote >= lib.wrote
      /\ y.read + y.avail_in <= StreamLen /\ y.wrote + y.avail_out <= DstLen
  BY <1>3, <1>4, Moves DEF I!Libs
<1> HIDE DEF y
<1>6. /\ I!Advance(g, y) \in Grants
      /\ I!Advance(g, y).next_in = y.read /\ I!Advance(g, y).total_in = y.read
      /\ I!Advance(g, y).next_out = y.wrote /\ I!Advance(g, y).total_out = y.wrote
  BY <1>2, <1>5, Advanced
<1>7. CASE I!AllOut(y) /\ I!Settle(I!Advance(g, y), I!Ended(y), I!UNIZIP_STREAM_END)
  <2>1. I!Ended(y) \in I!Libs /\ I!Ended(y).mode = "ended" /\ I!Ended(y).read = y.read
        /\ I!Ended(y).wrote = y.wrote /\ I!Ended(y).avail_in = y.avail_in /\ I!Ended(y).avail_out = y.avail_out
    BY <1>5 DEF I!Ended, I!Libs, I!Modes
  <2>2. QED
    BY <1>5, <1>6, <1>7, <2>1 DEF Came, I!Settle, I!AllOut, I!Status, I!UNIZIP_STREAM_END
<1>8. CASE I!Settle(I!Advance(g, y), y, I!UNIZIP_OK)
  BY <1>5, <1>6, <1>8 DEF Came, I!Settle, I!Status, I!UNIZIP_OK, I!UNIZIP_STREAM_END
<1>9. CASE I!Settle(g, I!Failed(y), I!UNIZIP_MEM_ERROR)
  <2>1. I!Failed(y) \in I!Libs /\ I!Failed(y).mode = "failed"
    BY <1>5 DEF I!Failed, I!Libs, I!Modes
  <2>2. QED
    BY <1>2, <1>9, <2>1 DEF Came, I!Settle, I!Status, I!UNIZIP_MEM_ERROR, I!UNIZIP_STREAM_END
<1>10. QED
  BY <1>4, <1>7, <1>8, <1>9 DEF y

LEMMA XzCame ==
    ASSUME InflateSizes, InflateIInv, NEW n, NEW m, Calling(n, m), codec = "xz",
           codec' = codec, NEW flush,
           I!xz_inflate(I!Grant(strm, n, m), flush)
    PROVE  Came
<1> DEFINE g == I!Grant(strm, n, m)
           l == I!Loaded(g)
           Left(y) == [y EXCEPT !.expect = IF flush = I!Finish THEN y.avail_in ELSE I!NotFinishing]
<1>1. codec \in I!OwnBooks
  BY DEF I!OwnBooks
<1>2. /\ g \in Grants /\ g.next_in = g.total_in /\ g.next_out = g.total_out
  BY Granted, InStep
<1>3. /\ l \in I!Libs /\ l.mode = "open" /\ l.read = lib.read /\ l.wrote = lib.wrote
      /\ l.read + l.avail_in <= StreamLen /\ l.wrote + l.avail_out <= DstLen
  BY <1>1, Loads
<1>4. /\ I!UNIZIP_DATA_ERROR \in I!Status /\ I!UNIZIP_DATA_ERROR # I!UNIZIP_STREAM_END
      /\ I!UNIZIP_OK \in I!Status /\ I!UNIZIP_OK # I!UNIZIP_STREAM_END
      /\ I!UNIZIP_MEM_ERROR \in I!Status /\ I!UNIZIP_MEM_ERROR # I!UNIZIP_STREAM_END
      /\ I!UNIZIP_STREAM_END \in I!Status
  BY DEF I!Status, I!UNIZIP_OK, I!UNIZIP_MEM_ERROR, I!UNIZIP_DATA_ERROR, I!UNIZIP_STREAM_END
<1> HIDE DEF g, l
<1>5. CASE I!Settle(I!Advance(g, l), l, I!UNIZIP_DATA_ERROR)
  <2>1. /\ I!Advance(g, l) \in Grants
        /\ I!Advance(g, l).next_in = l.read /\ I!Advance(g, l).total_in = l.read
        /\ I!Advance(g, l).next_out = l.wrote /\ I!Advance(g, l).total_out = l.wrote
    BY <1>2, <1>3, Advanced
  <2>2. QED
    BY <1>3, <1>4, <1>5, <2>1, InflateFields DEF Came, I!Settle
<1>6. ASSUME NEW u, NEW p, I!InRange(l, u, p),
             \/ /\ I!AllOut(I!Moved(l, u, p))
                /\ I!Settle(I!Advance(g, I!Moved(l, u, p)), I!Ended(I!Moved(l, u, p)), I!UNIZIP_STREAM_END)
             \/ \E ret \in {I!UNIZIP_DATA_ERROR, I!UNIZIP_OK} :
                   I!Settle(I!Advance(g, I!Moved(l, u, p)), Left(I!Moved(l, u, p)), ret)
             \/ I!Settle(I!Advance(g, I!Moved(l, u, p)), I!Failed(I!Moved(l, u, p)), I!UNIZIP_MEM_ERROR)
      PROVE  Came
  <2> DEFINE y == I!Moved(l, u, p)
  <2>1. /\ y \in I!Libs /\ y.mode = "open" /\ y.read >= lib.read /\ y.wrote >= lib.wrote
        /\ y.read + y.avail_in <= StreamLen /\ y.wrote + y.avail_out <= DstLen
    BY <1>3, <1>6, Moves DEF I!Libs
  <2> HIDE DEF y
  <2>2. /\ I!Advance(g, y) \in Grants
        /\ I!Advance(g, y).next_in = y.read /\ I!Advance(g, y).total_in = y.read
        /\ I!Advance(g, y).next_out = y.wrote /\ I!Advance(g, y).total_out = y.wrote
    BY <1>2, <2>1, Advanced
  <2>3. CASE I!AllOut(y) /\ I!Settle(I!Advance(g, y), I!Ended(y), I!UNIZIP_STREAM_END)
    <3>1. I!Ended(y) \in I!Libs /\ I!Ended(y).mode = "ended" /\ I!Ended(y).read = y.read
          /\ I!Ended(y).wrote = y.wrote /\ I!Ended(y).avail_in = y.avail_in /\ I!Ended(y).avail_out = y.avail_out
      BY <2>1 DEF I!Ended, I!Libs, I!Modes
    <3>2. QED
      BY <1>4, <2>1, <2>2, <2>3, <3>1 DEF Came, I!Settle, I!AllOut
  <2>4. CASE \E ret \in {I!UNIZIP_DATA_ERROR, I!UNIZIP_OK} : I!Settle(I!Advance(g, y), Left(y), ret)
    <3>1. Left(y) \in I!Libs /\ Left(y).mode = "open" /\ Left(y).read = y.read
          /\ Left(y).wrote = y.wrote /\ Left(y).avail_in = y.avail_in /\ Left(y).avail_out = y.avail_out
      BY <2>1 DEF I!Libs, I!NotFinishing
    <3> HIDE DEF Left
    <3>2. status' \in I!Status /\ status' # I!UNIZIP_STREAM_END /\ strm' = I!Advance(g, y) /\ lib' = Left(y)
      BY <1>4, <2>4 DEF I!Settle
    <3>3. QED
      BY <2>1, <2>2, <3>1, <3>2 DEF Came
  <2>5. CASE I!Settle(I!Advance(g, y), I!Failed(y), I!UNIZIP_MEM_ERROR)
    <3>1. I!Failed(y) \in I!Libs /\ I!Failed(y).mode = "failed" /\ I!Failed(y).read = y.read
          /\ I!Failed(y).wrote = y.wrote /\ I!Failed(y).avail_in = y.avail_in /\ I!Failed(y).avail_out = y.avail_out
      BY <2>1 DEF I!Failed, I!Libs, I!Modes
    <3>2. QED
      BY <1>4, <2>1, <2>2, <2>5, <3>1 DEF Came, I!Settle
  <2>6. QED
    BY <1>6, <2>3, <2>4, <2>5 DEF y
<1>7. CASE I!XzRefuses(l, flush = I!Finish)
  BY <1>5, <1>7 DEF I!xz_inflate, g, l
<1>8. CASE ~I!XzRefuses(l, flush = I!Finish)
  <2>1. PICK u \in 0 .. l.avail_in, p \in 0 .. l.avail_out :
           /\ I!InRange(l, u, p)
           /\ \/ /\ I!AllOut(I!Moved(l, u, p))
                 /\ I!Settle(I!Advance(g, I!Moved(l, u, p)), I!Ended(I!Moved(l, u, p)), I!UNIZIP_STREAM_END)
              \/ \E ret \in {I!UNIZIP_DATA_ERROR, I!UNIZIP_OK} :
                    I!Settle(I!Advance(g, I!Moved(l, u, p)), Left(I!Moved(l, u, p)), ret)
              \/ I!Settle(I!Advance(g, I!Moved(l, u, p)), I!Failed(I!Moved(l, u, p)), I!UNIZIP_MEM_ERROR)
    BY <1>8 DEF I!xz_inflate, I!Decodes, g, l
  <2>2. QED
    BY <1>6, <2>1
<1>9. QED
  BY <1>7, <1>8

LEMMA ZstdCame ==
    ASSUME InflateSizes, InflateIInv, NEW n, NEW m, Calling(n, m), codec = "zstd",
           codec' = codec,
           I!zstd_inflate(I!Grant(strm, n, m))
    PROVE  Came
<1> DEFINE g == I!Grant(strm, n, m)
           l == I!Loaded(g)
<1>1. codec \in I!OwnBooks
  BY DEF I!OwnBooks
<1>2. /\ g \in Grants /\ g.next_in = 0 /\ g.next_out = 0
      /\ g.total_in = strm.total_in /\ g.total_out = strm.total_out
      /\ g.total_in = lib.read /\ g.total_out = lib.wrote
  BY Granted, InStep
<1>3. /\ l \in I!Libs /\ l.mode = "open" /\ l.read = lib.read /\ l.wrote = lib.wrote
      /\ l.read + l.avail_in <= StreamLen /\ l.wrote + l.avail_out <= DstLen
  BY <1>1, Loads
<1>4. /\ I!UNIZIP_OK \in I!Status /\ I!UNIZIP_OK # I!UNIZIP_STREAM_END
      /\ I!UNIZIP_MEM_ERROR \in I!Status /\ I!UNIZIP_MEM_ERROR # I!UNIZIP_STREAM_END
      /\ I!UNIZIP_STREAM_END \in I!Status
  BY DEF I!Status, I!UNIZIP_OK, I!UNIZIP_MEM_ERROR, I!UNIZIP_STREAM_END
<1> HIDE DEF g, l
<1>5. CASE I!Settle(g, I!Failed(l), I!UNIZIP_MEM_ERROR)
  <2>1. I!Failed(l) \in I!Libs /\ I!Failed(l).mode = "failed"
    BY <1>3 DEF I!Failed, I!Libs, I!Modes
  <2>2. QED
    BY <1>2, <1>4, <1>5, <2>1 DEF Came, I!Settle
<1>6. ASSUME NEW u, NEW p, I!InRange(l, u, p),
             \/ /\ I!AllOut(I!Moved(l, u, p))
                /\ I!Settle(I!ZstdAdvance(g, I!Moved(l, u, p)), I!Ended(I!Moved(l, u, p)), I!UNIZIP_STREAM_END)
             \/ /\ ~I!AllOut(I!Moved(l, u, p))
                /\ I!Settle(I!ZstdAdvance(g, I!Moved(l, u, p)), I!Moved(l, u, p), I!UNIZIP_OK)
      PROVE  Came
  <2> DEFINE y == I!Moved(l, u, p)
             i == IF I!AllOut(y) THEN y.read ELSE 0
             o == IF I!AllOut(y) THEN y.wrote ELSE 0
  <2>1. /\ y \in I!Libs /\ y.mode = "open" /\ y.read >= lib.read /\ y.wrote >= lib.wrote
        /\ y.read + y.avail_in <= StreamLen /\ y.wrote + y.avail_out <= DstLen
    BY <1>3, <1>6, Moves DEF I!Libs
  <2> HIDE DEF y
  <2>2. y.read \in 0 .. StreamLen /\ y.wrote \in 0 .. DstLen
    BY <2>1 DEF I!Libs
  <2>3. i \in 0 .. StreamLen /\ o \in 0 .. DstLen
    BY <2>2
  <2>4. I!ZstdAdvance(g, y) = [g EXCEPT !.total_in = y.read, !.total_out = y.wrote,
                                        !.next_in = i, !.next_out = o]
    <3>1. /\ g.total_in + (y.read - lib.read) = y.read /\ g.total_out + (y.wrote - lib.wrote) = y.wrote
          /\ g.next_in + y.read = y.read /\ g.next_out + y.wrote = y.wrote
      BY <1>2, <2>2, InflateFields
    <3>2. QED
      BY <1>2, <3>1 DEF I!ZstdAdvance
  <2>5. /\ I!ZstdAdvance(g, y) \in Grants
        /\ I!ZstdAdvance(g, y).total_in = y.read /\ I!ZstdAdvance(g, y).total_out = y.wrote
        /\ I!ZstdAdvance(g, y).next_in = i /\ I!ZstdAdvance(g, y).next_out = o
    <3> HIDE DEF i, o
    <3>1. QED
      BY <1>2, <2>2, <2>3, <2>4 DEF Grants, I!Streams
  <2>6. CASE I!AllOut(y) /\ I!Settle(I!ZstdAdvance(g, y), I!Ended(y), I!UNIZIP_STREAM_END)
    <3>1. I!Ended(y) \in I!Libs /\ I!Ended(y).mode = "ended" /\ I!Ended(y).read = y.read
          /\ I!Ended(y).wrote = y.wrote /\ I!Ended(y).avail_in = y.avail_in /\ I!Ended(y).avail_out = y.avail_out
      BY <2>1 DEF I!Ended, I!Libs, I!Modes
    <3>2. i = y.read /\ o = y.wrote
      BY <2>6
    <3> HIDE DEF i, o
    <3>3. QED
      BY <1>4, <2>1, <2>5, <2>6, <3>1, <3>2 DEF Came, I!Settle, I!AllOut
  <2>7. CASE ~I!AllOut(y) /\ I!Settle(I!ZstdAdvance(g, y), y, I!UNIZIP_OK)
    <3>1. i = 0 /\ o = 0
      BY <2>7
    <3> HIDE DEF i, o
    <3>2. QED
      BY <1>4, <2>1, <2>5, <2>7, <3>1 DEF Came, I!Settle
  <2>8. QED
    BY <1>6, <2>6, <2>7 DEF y
<1>7. QED
  BY <1>5, <1>6 DEF I!zstd_inflate, I!Decodes, g, l

\* The caller's fields after a call that adds what it moved.
LEMMA Returns ==
    ASSUME InflateSizes, NEW g \in Grants, NEW y \in I!Libs, lib \in I!Libs,
           g.next_in = lib.read, g.total_in = lib.read, g.next_out = lib.wrote, g.total_out = lib.wrote
    PROVE  /\ I!Returned(g, y) \in Grants
           /\ I!Returned(g, y).next_in = y.read /\ I!Returned(g, y).total_in = y.read
           /\ I!Returned(g, y).next_out = y.wrote /\ I!Returned(g, y).total_out = y.wrote
<1>1. /\ lib.read \in 0 .. StreamLen /\ lib.wrote \in 0 .. PlainLen
      /\ y.read \in 0 .. StreamLen /\ y.wrote \in 0 .. DstLen
      /\ y.avail_in \in 0 .. MaxGrant /\ y.avail_out \in 0 .. MaxGrant
  BY DEF I!Libs
<1>2. lib.read + (y.read - lib.read) = y.read /\ lib.wrote + (y.wrote - lib.wrote) = y.wrote
  BY <1>1
<1>3. I!Returned(g, y) =
          [next_in  |-> y.read,  total_in  |-> y.read,  avail_in  |-> y.avail_in,
           next_out |-> y.wrote, total_out |-> y.wrote, avail_out |-> y.avail_out]
  BY <1>2 DEF I!Returned
<1>4. QED
  BY <1>1, <1>3 DEF Grants, I!Streams

LEMMA Passes ==
    ASSUME InflateSizes, NEW g \in Grants, lib \in I!Libs
    PROVE  /\ I!Passed(g) \in I!Libs /\ I!Passed(g).mode = lib.mode /\ I!Passed(g).full = lib.full
           /\ I!Passed(g).read = lib.read /\ I!Passed(g).wrote = lib.wrote
           /\ I!Passed(g).avail_in = g.avail_in
<1>1. g.avail_in \in 0 .. MaxGrant /\ g.avail_out \in 0 .. MaxGrant
  BY DEF Grants, I!Streams
<1>2. QED
  BY <1>1 DEF I!Passed, I!Libs

LEMMA BrotliCame ==
    ASSUME InflateSizes, InflateIInv, NEW n, NEW m, Calling(n, m), codec = "brotli",
           codec' = codec,
           I!brotli_inflate(I!Grant(strm, n, m))
    PROVE  Came
<1> DEFINE g == I!Grant(strm, n, m)
           l == I!Passed(g)
<1>1. /\ g \in Grants /\ lib \in I!Libs
      /\ g.next_in = lib.read /\ g.total_in = lib.read
      /\ g.next_out = lib.wrote /\ g.total_out = lib.wrote
      /\ lib.read \in Int /\ lib.wrote \in Int
      /\ codec \notin I!OwnBooks
  BY Granted, InStep, InflateFields DEF I!OwnBooks
<1>2. l \in I!Libs /\ l.mode = lib.mode /\ l.read = lib.read /\ l.wrote = lib.wrote
  BY <1>1, Passes
<1>3. /\ I!UNIZIP_OK \in I!Status /\ I!UNIZIP_OK # I!UNIZIP_STREAM_END
      /\ I!UNIZIP_ERRNO \in I!Status /\ I!UNIZIP_ERRNO # I!UNIZIP_STREAM_END
      /\ I!UNIZIP_STREAM_END \in I!Status
  BY DEF I!Status, I!UNIZIP_OK, I!UNIZIP_ERRNO, I!UNIZIP_STREAM_END
<1> HIDE DEF g, l
<1>4. CASE lib.mode = "success" /\ I!Settle(g, I!Ended(lib), I!UNIZIP_STREAM_END)
  <2>1. lib.read = StreamLen /\ lib.wrote = PlainLen
    BY <1>4 DEF InflateIInv, Opening, I!AllOut
  <2>2. I!Ended(lib) \in I!Libs /\ I!Ended(lib).mode = "ended" /\ I!Ended(lib).read = lib.read
        /\ I!Ended(lib).wrote = lib.wrote
    BY <1>1 DEF I!Ended, I!Libs, I!Modes
  <2>3. QED
    BY <1>1, <1>3, <1>4, <2>1, <2>2 DEF Came, I!Settle
<1>5. CASE lib.mode = "failed" /\ I!Settle(g, lib, I!UNIZIP_ERRNO)
  BY <1>1, <1>3, <1>5 DEF Came, I!Settle
<1>6. ASSUME NEW u, NEW p, lib.mode = "open", I!InRange(l, u, p),
             \/ /\ I!AllOut(I!Moved(l, u, p))
                /\ I!Settle(I!Returned(g, [I!Moved(l, u, p) EXCEPT !.mode = "success"]),
                            [I!Moved(l, u, p) EXCEPT !.mode = "success"], I!UNIZIP_OK)
             \/ I!Settle(I!Returned(g, I!Moved(l, u, p)), I!Moved(l, u, p), I!UNIZIP_OK)
             \/ I!Settle(I!Returned(g, I!Moved(l, u, p)), I!Failed(I!Moved(l, u, p)), I!UNIZIP_OK)
      PROVE  Came
  <2> DEFINE y == I!Moved(l, u, p)
             z == [y EXCEPT !.mode = "success"]
  <2>1. y \in I!Libs /\ y.mode = "open" /\ y.read >= lib.read /\ y.wrote >= lib.wrote
    BY <1>1, <1>2, <1>6, Moves DEF I!Libs
  <2> HIDE DEF y
  <2>2. /\ I!Returned(g, y) \in Grants
        /\ I!Returned(g, y).next_in = y.read /\ I!Returned(g, y).total_in = y.read
        /\ I!Returned(g, y).next_out = y.wrote /\ I!Returned(g, y).total_out = y.wrote
    BY <1>1, <2>1, Returns
  <2>3. z \in I!Libs /\ z.mode = "success" /\ z.read = y.read /\ z.wrote = y.wrote
    BY <2>1 DEF I!Libs, I!Modes
  <2> HIDE DEF z
  <2>4. CASE I!AllOut(y) /\ I!Settle(I!Returned(g, z), z, I!UNIZIP_OK)
    <3>1. /\ I!Returned(g, z) \in Grants
          /\ I!Returned(g, z).next_in = z.read /\ I!Returned(g, z).total_in = z.read
          /\ I!Returned(g, z).next_out = z.wrote /\ I!Returned(g, z).total_out = z.wrote
      BY <1>1, <2>3, Returns
    <3>2. QED
      BY <1>1, <1>3, <2>1, <2>3, <2>4, <3>1 DEF Came, I!Settle, I!AllOut
  <2>5. CASE I!Settle(I!Returned(g, y), y, I!UNIZIP_OK)
    BY <1>1, <1>3, <2>1, <2>2, <2>5 DEF Came, I!Settle
  <2>6. CASE I!Settle(I!Returned(g, y), I!Failed(y), I!UNIZIP_OK)
    <3>1. I!Failed(y) \in I!Libs /\ I!Failed(y).mode = "failed" /\ I!Failed(y).read = y.read
          /\ I!Failed(y).wrote = y.wrote
      BY <2>1 DEF I!Failed, I!Libs, I!Modes
    <3>2. QED
      BY <1>1, <1>3, <2>1, <2>2, <2>6, <3>1 DEF Came, I!Settle
  <2>7. QED
    BY <1>6, <2>4, <2>5, <2>6 DEF y, z
<1>7. CASE lib.mode = "open"
  <2>1. PICK u, p : LET y == I!Moved(l, u, p)
                     z == IF I!AllOut(y) THEN [y EXCEPT !.mode = "success"] ELSE y
                 IN  \/ I!InRange(l, u, p) /\ I!Settle(I!Returned(g, z), z, I!UNIZIP_OK)
                     \/ I!InRange(l, u, p) /\ I!Settle(I!Returned(g, y), I!Failed(y), I!UNIZIP_OK)
    BY <1>7 DEF I!brotli_inflate, I!BrotliSaid, I!Decodes, g, l
  <2>2. QED
    BY <1>6, <1>7, <2>1
<1>8. QED
  BY <1>4, <1>5, <1>7 DEF I!brotli_inflate, g

LEMMA Zip7Came ==
    ASSUME InflateSizes, InflateIInv, NEW n, NEW m, Calling(n, m), codec = "zip7",
           codec' = codec,
           I!zip7_inflate(I!Grant(strm, n, m))
    PROVE  Came
<1> DEFINE g == I!Grant(strm, n, m)
           l == I!Zip7Passed(g)
<1>1. /\ g \in Grants /\ lib \in I!Libs
      /\ g.next_in = lib.read /\ g.total_in = lib.read
      /\ g.next_out = lib.wrote /\ g.total_out = lib.wrote
      /\ lib.read \in 0 .. StreamLen /\ lib.wrote \in Int
      /\ codec \notin I!OwnBooks /\ lib.mode = "open"
  BY Granted, InStep, InflateFields DEF I!OwnBooks, Calling
<1>2. g.avail_in = 0 => lib.read > 0 /\ lib.read >= I!DataLen
  <2>1. g.avail_in = 0 => I!Rest = 0
    BY Granted DEF Calling
  <2>2. lib.read = strm.total_in
    BY InStep
  <2>3. QED
    BY <1>1, <2>1, <2>2, InflateLengths DEF I!Rest
<1>3. /\ l \in I!Libs /\ l.mode = "open" /\ l.read >= lib.read /\ l.wrote = lib.wrote
      /\ l.full = lib.full /\ (g.total_in # 0 => l.read = lib.read)
  <2>1. CASE g.total_in = 0
    <3>1. l = [I!Passed(g) EXCEPT !.read = PropsLen]
      BY <2>1 DEF I!Zip7Passed
    <3>2. PropsLen \in 0 .. StreamLen
      OBVIOUS
    <3> HIDE DEF g
    <3>3. QED
      BY <1>1, <2>1, <3>1, <3>2, Passes DEF I!Libs
  <2>2. CASE g.total_in # 0
    <3>1. l = I!Passed(g)
      BY <2>2 DEF I!Zip7Passed
    <3> HIDE DEF g, l
    <3>2. QED
      BY <1>1, <2>2, <3>1, Passes DEF I!Libs
  <2>3. QED
    BY <2>1, <2>2
<1>4. /\ I!UNIZIP_OK \in I!Status /\ I!UNIZIP_OK # I!UNIZIP_STREAM_END
      /\ I!UNIZIP_MEM_ERROR \in I!Status /\ I!UNIZIP_MEM_ERROR # I!UNIZIP_STREAM_END
      /\ I!UNIZIP_STREAM_END \in I!Status
  BY DEF I!Status, I!UNIZIP_OK, I!UNIZIP_MEM_ERROR, I!UNIZIP_STREAM_END
<1>5. lib.read >= I!DataLen => lib.wrote = PlainLen \/ lib.full
  BY <1>1 DEF InflateIInv, Opening
<1> HIDE DEF g, l
<1>6. CASE I!Settle(g, lib, I!UNIZIP_MEM_ERROR)
  BY <1>1, <1>4, <1>5, <1>6 DEF Came, I!Settle
<1>7. CASE g.avail_in = 0 /\ I!Settle(I!Returned(g, l), I!Ended(l), I!UNIZIP_STREAM_END)
  <2>1. /\ I!Returned(g, l) \in Grants
        /\ I!Returned(g, l).next_in = l.read /\ I!Returned(g, l).total_in = l.read
        /\ I!Returned(g, l).next_out = l.wrote /\ I!Returned(g, l).total_out = l.wrote
    BY <1>1, <1>3, Returns
  <2>2. I!Ended(l) \in I!Libs /\ I!Ended(l).mode = "ended" /\ I!Ended(l).read = l.read
        /\ I!Ended(l).wrote = l.wrote /\ I!Ended(l).full = l.full
    BY <1>3 DEF I!Ended, I!Libs, I!Modes
  <2>3. l.read = lib.read
    BY <1>1, <1>2, <1>3, <1>7
  <2>4. QED
    BY <1>1, <1>2, <1>3, <1>4, <1>5, <1>7, <2>1, <2>2, <2>3 DEF Came, I!Settle
<1>8. ASSUME NEW u, NEW p, I!Decodes(l, u, p),
             \/ /\ I!AllOut(I!Moved(l, u, p))
                /\ I!Settle(I!Returned(g, I!Moved(l, u, p)), I!Ended(I!Moved(l, u, p)), I!UNIZIP_STREAM_END)
             \/ I!Settle(I!Returned(g, I!Moved(l, u, p)), I!Moved(l, u, p), I!UNIZIP_OK)
      PROVE  Came
  <2> DEFINE y == I!Moved(l, u, p)
  <2>1. /\ I!InRange(l, u, p)
        /\ y.read >= I!DataLen => y.wrote = PlainLen \/ y.avail_out = 0
    BY <1>8 DEF I!Decodes
  <2>2. /\ y \in I!Libs /\ y.mode = "open" /\ y.read >= lib.read /\ y.wrote >= lib.wrote
        /\ y.avail_out = 0 => y.full
    BY <1>1, <1>3, <2>1, Moves DEF I!Libs
  <2> HIDE DEF y
  <2>3. /\ I!Returned(g, y) \in Grants
        /\ I!Returned(g, y).next_in = y.read /\ I!Returned(g, y).total_in = y.read
        /\ I!Returned(g, y).next_out = y.wrote /\ I!Returned(g, y).total_out = y.wrote
    BY <1>1, <2>2, Returns
  <2>4. CASE I!AllOut(y) /\ I!Settle(I!Returned(g, y), I!Ended(y), I!UNIZIP_STREAM_END)
    <3>1. I!Ended(y) \in I!Libs /\ I!Ended(y).mode = "ended" /\ I!Ended(y).read = y.read
          /\ I!Ended(y).wrote = y.wrote
      BY <2>2 DEF I!Ended, I!Libs, I!Modes
    <3>2. QED
      BY <1>1, <1>4, <2>2, <2>3, <2>4, <3>1 DEF Came, I!Settle, I!AllOut
  <2>5. CASE I!Settle(I!Returned(g, y), y, I!UNIZIP_OK)
    <3>1. /\ strm' = I!Returned(g, y) /\ lib' = y /\ status' = I!UNIZIP_OK
      BY <2>5 DEF I!Settle
    <3>2. y.read >= I!DataLen => y.wrote = PlainLen \/ y.full
      BY <2>1, <2>2 DEF y
    <3>3. I!DataLen' = I!DataLen
      BY DEF I!DataLen
    <3>4. QED
      BY <1>1, <1>4, <2>2, <2>3, <3>1, <3>2, <3>3 DEF Came
  <2>6. QED
    BY <1>8, <2>4, <2>5 DEF y
<1>9. QED
  BY <1>6, <1>7, <1>8 DEF I!zip7_inflate, g, l

LEMMA CallCame ==
    ASSUME InflateSizes, InflateIInv, NEW n, NEW m, Calling(n, m), NEW flush,
           I!Call(I!Grant(strm, n, m), flush)
    PROVE  Came
BY Bzip2Came, XzCame, ZstdCame, BrotliCame, Zip7Came DEF I!Call

LEMMA MayCall ==
    ASSUME InflateSizes, InflateIInv, NEW n, NEW m \in 1 .. MaxGrant, I!Granting(n, m),
           phase # "stale",
           NEW flush, I!Call(I!Grant(strm, n, m), flush)
    PROVE  Calling(n, m)
<1>1. I!Rest \in 0 .. StreamLen
  BY InflateFields, InflateLengths DEF I!Rest
<1>2. n \in 0 .. StreamLen /\ n <= I!Rest /\ (n = 0 => I!Rest = 0)
  BY <1>1 DEF I!Granting
<1>3. /\ lib.mode \in {"open", "success", "failed"}
      /\ codec \in I!OwnBooks \cup {"zip7"} => lib.mode = "open"
  BY InflateFields DEF I!Call, I!OwnBooks, I!Modes
<1>4. QED
  BY <1>2, <1>3 DEF I!Granting, Calling, I!Live

LEMMA DriveKeeps ==
    ASSUME InflateSizes, InflateIInv, NEW n, NEW m \in 1 .. MaxGrant,
           I!FinishRest(m) \/ I!Piece(n, m)
    PROVE  InflateIInv' /\ I!Contract!Next
<1>1. CASE I!FinishRest(m)
  <2>1. Calling(I!Rest, m)
    BY <1>1, MayCall DEF I!FinishRest
  <2>2. Came
    BY <1>1, <2>1, CallCame DEF I!FinishRest
  <2>3. phase' \in {"pieces", "whole", "finishing"}
    BY <1>1 DEF I!FinishRest
  <2>4. QED
    BY <2>1, <2>2, <2>3, CameKeeps
<1>2. CASE I!Piece(n, m)
  <2>1. Calling(n, m)
    BY <1>2, MayCall DEF I!Piece
  <2>2. Came
    BY <1>2, <2>1, CallCame DEF I!Piece
  <2>3. phase' \in {"pieces", "whole", "finishing"}
    BY <1>2 DEF I!Piece
  <2>4. QED
    BY <2>1, <2>2, <2>3, CameKeeps
<1>3. QED
  BY <1>1, <1>2

LEMMA InflateCleared == ASSUME InflateSizes PROVE
    /\ I!ResetStream \in Grants
    /\ I!ResetStream.total_in = 0 /\ I!ResetStream.total_out = 0
    /\ I!ResetStream.next_in = 0 /\ I!ResetStream.next_out = 0
    /\ \A mode \in I!Modes : /\ I!Lib(mode) \in I!Libs /\ I!Lib(mode).mode = mode
                             /\ I!Lib(mode).read = 0 /\ I!Lib(mode).wrote = 0
                             /\ I!Lib(mode).avail_in = 0 /\ I!Lib(mode).avail_out = 0
BY DEF I!ResetStream, Grants, I!Streams, I!Lib, I!Libs, I!NotFinishing, I!Modes

\* A stream that has just begun is known by its fields.
LEMMA BegunKeeps ==
    ASSUME InflateSizes, InflateIInv, codec' = codec, strm' \in Grants, status' \in I!Status,
           NEW mode \in {"none", "open", "failed"}, lib' = I!Lib(mode),
           phase' \in {"stale", "fresh"}, phase' = "fresh" => strm' = I!ResetStream,
           status' # I!UNIZIP_STREAM_END
    PROVE  InflateIInv' /\ I!Contract!Restart
<1>1. mode \in I!Modes
  BY DEF I!Modes
<1>2. I!Types'
  BY <1>1, InflateCleared, InflateFields DEF I!Types, Grants
<1>3. I!InOrder'
  BY <1>1, <1>2, InflateCleared DEF I!InOrder, I!Base, I!Live
<1>4. Opening'
  BY <1>1, InflateCleared, InflateLengths DEF Opening, I!DataLen
<1>5. I!Contract!Restart
  <2>1. I!Live' => strm'.total_in = 0 /\ strm'.total_out = 0
    BY InflateCleared DEF I!Live
  <2>2. I!Live' => I!Rest' # 0
    BY <2>1, InflateLengths DEF I!Rest, I!CallersLen
  <2>3. QED
    BY <2>1, <2>2 DEF I!Contract!Restart
<1>6. QED
  BY <1>3, <1>4, <1>5 DEF InflateIInv

LEMMA InflateStartKeeps ==
    ASSUME InflateSizes, InflateIInv, I!StartOver
    PROVE  InflateIInv' /\ I!Contract!Restart
<1>1. /\ lib.mode # "none" /\ phase = "stale" /\ strm' = I!ResetStream /\ phase' = "fresh"
      /\ codec' = codec /\ lib' = lib /\ status' = status
  BY DEF I!StartOver
<1>2. lib = I!Lib(lib.mode) /\ status # I!UNIZIP_STREAM_END
  BY <1>1 DEF InflateIInv, Opening
<1>3. lib.mode \in I!Modes
  BY InflateFields
<1>4. I!Types'
  BY <1>1, InflateCleared, InflateFields DEF I!Types, Grants
<1>5. I!InOrder'
  BY <1>1, <1>2, <1>3, <1>4, InflateCleared DEF I!InOrder, I!Base, I!Live
<1>6. lib.read = 0 /\ lib.wrote = 0
  BY <1>2, <1>3, InflateCleared
<1>7. Opening'
  BY <1>1, <1>2, <1>6, InflateLengths DEF InflateIInv, Opening, I!DataLen, I!AllOut
<1>8. I!Contract!Restart
  <2>1. strm'.total_in = 0 /\ strm'.total_out = 0
    BY <1>1, InflateCleared
  <2>2. I!Rest' # 0
    BY <1>1, <2>1, InflateLengths DEF I!Rest, I!CallersLen
  <2>3. QED
    BY <1>1, <1>2, <2>1, <2>2 DEF I!Contract!Restart
<1>9. QED
  BY <1>5, <1>7, <1>8 DEF InflateIInv

LEMMA OpenedKeeps ==
    ASSUME InflateSizes, InflateIInv, I!inflateInitCB \/ I!inflateResetCB \/ I!inflateEndCB
    PROVE  InflateIInv' /\ I!Contract!Restart
<1>1. /\ I!UNIZIP_OK \in I!Status /\ I!UNIZIP_OK # I!UNIZIP_STREAM_END
      /\ I!UNIZIP_MEM_ERROR \in I!Status /\ I!UNIZIP_MEM_ERROR # I!UNIZIP_STREAM_END
  BY DEF I!Status, I!UNIZIP_OK, I!UNIZIP_MEM_ERROR, I!UNIZIP_STREAM_END
<1>2. strm' = I!ResetStream \/ (strm' = strm /\ phase' = "stale")
  <2>1. CASE I!inflateInitCB
    BY <2>1, Zenon DEF I!inflateInitCB, I!Opened, I!Settle
  <2>2. CASE I!inflateResetCB
    <3>1. phase' = "stale" /\ strm' = IF codec \in I!OwnBooks THEN I!ResetStream ELSE strm
      BY <2>2, Zenon DEF I!inflateResetCB, I!Opened, I!Settle
    <3>2. QED
      BY <3>1
  <2>3. CASE I!inflateEndCB
    BY <2>3 DEF I!inflateEndCB, I!Settle
  <2>4. QED
    BY <2>1, <2>2, <2>3
<1>3. strm' \in Grants
  BY <1>2, InflateCleared, InflateFields
<1>4. /\ codec' = codec /\ phase' \in {"stale", "fresh"}
      /\ status' \in {I!UNIZIP_OK, I!UNIZIP_MEM_ERROR}
  BY DEF I!inflateInitCB, I!inflateResetCB, I!inflateEndCB, I!Opened, I!Settle
<1>5. PICK mode \in {"none", "open", "failed"} : lib' = I!Lib(mode)
  BY DEF I!inflateInitCB, I!inflateResetCB, I!inflateEndCB, I!Opened, I!Settle
<1>6. QED
  BY <1>1, <1>2, <1>3, <1>4, <1>5, BegunKeeps

LEMMA InflateStepKeeps ==
    ASSUME InflateSizes, InflateIInv, I!Next
    PROVE  InflateIInv' /\ I!Contract!Next
BY DriveKeeps, InflateStartKeeps, OpenedKeeps DEF I!Next, I!Drive, I!Contract!Next

LEMMA InflateInitially == ASSUME InflateSizes PROVE I!Init => InflateIInv /\ I!Contract!Init
<1> SUFFICES ASSUME I!Init PROVE InflateIInv /\ I!Contract!Init
  OBVIOUS
<1>1. "none" \in I!Modes /\ I!UNIZIP_OK \in I!Status /\ I!UNIZIP_OK # I!UNIZIP_STREAM_END
  BY DEF I!Modes, I!Status, I!UNIZIP_OK, I!UNIZIP_STREAM_END
<1>2. I!Types /\ ~I!Live
  BY <1>1, InflateCleared DEF I!Init, I!Types, Grants, I!Live
<1>3. Opening
  BY <1>1, InflateCleared DEF I!Init, Opening
<1>4. QED
  BY <1>2, <1>3 DEF InflateIInv, I!InOrder, I!Contract!Init

LEMMA InflateIdleKeeps == ASSUME InflateSizes PROVE InflateIInv /\ UNCHANGED I!vars => InflateIInv'
BY DEF I!vars, InflateIInv, I!InOrder, I!Types, Opening, I!Live, I!Base, I!AllOut, I!DataLen

\* Whatever pieces the compressed form comes in, and after every reset: the
\* decoder is InOrder, and the cases Opening names are as it says.
THEOREM InflateInvariance == ASSUME InflateSizes PROVE I!FairSpec => []InflateIInv
<1>1. InflateIInv /\ [I!Next]_I!vars => InflateIInv'
  BY InflateStepKeeps, InflateIdleKeeps
<1>2. QED
  BY <1>1, InflateInitially, PTL DEF I!FairSpec

\* InOrder, for streams and buffers of every length: bzip2_inflate, xz_inflate,
\* zstd_inflate, brotli_inflate and zip7_inflate read and write on where the
\* last call stopped, and never beyond what the caller has.
THEOREM OrderIsKept == ASSUME InflateSizes PROVE I!FairSpec => []I!InOrder
<1>1. InflateIInv => I!InOrder
  BY DEF InflateIInv
<1>2. QED
  BY <1>1, InflateInvariance, PTL

\* KeepsContract, for streams and buffers of every length: none of the five
\* takes back what it read or wrote, and none reports the end before all of the
\* input is read and all of the output written.
THEOREM InflateRefinement == ASSUME InflateSizes PROVE I!FairSpec => I!KeepsContract
<1>1. InflateIInv /\ [I!Next]_I!vars => [I!Contract!Next]_(I!Contract!vars)
  <2>1. CASE I!Next
    BY <2>1, InflateStepKeeps
  <2>2. CASE UNCHANGED I!vars
    BY <2>2 DEF I!vars, I!Contract!vars, I!Live, I!Rest, I!CallersLen, I!CutShort
  <2>3. QED
    BY <2>1, <2>2
<1>2. QED
  BY <1>1, InflateInitially, InflateInvariance, PTL DEF I!FairSpec, I!KeepsContract,
     I!Contract!Spec

HIDE DEF InflateSizes, I!PropsAssumption, I!StreamAssumption, I!PlainAssumption,
        I!DstLenAssumption, I!MaxGrantAssumption

-----------------------------------------------------------------------------
(***************************************************************************)
(* OneShot.  Lengths come as unsigned long and are passed on as int or     *)
(* unsigned int by some adapters.  A length that is less than Limit        *)
(* survives the cut; Sized says that the coded form is no longer than its  *)
(* bound and that, as long as no length was cut, those that go back to the *)
(* library are below Limit too.                                            *)
(***************************************************************************)

OnceSizes ==
    /\ O!PropsAssumption
    /\ O!GrowthAssumption
    /\ O!WidthAssumption
    /\ O!LengthAssumption

USE DEF OnceSizes, O!PropsAssumption, O!GrowthAssumption, O!WidthAssumption, O!LengthAssumption

\* How long the coded form is, and that what was not cut never will be.
Sized ==
    /\ src.form >= (IF phase = "nothing" THEN 0 ELSE PropsLen + 1) /\ src.form <= src.n + Growth
    /\ kept => src.n < O!Limit
    /\ kept /\ phase = "coded" => coded.len < O!Limit

OnceIInv == O!Truthful /\ Sized

LEMMA OnceFields ==
    ASSUME OnceSizes, OnceIInv
    PROVE /\ codec \in O!Codecs
          /\ src \in [n : 0 .. ULong - 1, form : 0 .. ULong + Growth]
          /\ src.n \in 0 .. ULong - 1 /\ src.form \in 0 .. ULong + Growth
          /\ coded \in O!Buffers /\ plain \in O!Buffers
          /\ coded.of \in 0 .. ULong - 1 /\ coded.len \in 0 .. ULong - 1 /\ coded.size \in 0 .. ULong + PropsLen
          /\ room \in 0 .. ULong - 1 /\ kept \in BOOLEAN /\ status \in O!Status
          /\ phase \in {"nothing", "plain", "coded", "done"}
BY DEF OnceIInv, O!Truthful, O!Types, O!Buffers

LEMMA Remainder ==
    ASSUME OnceSizes, NEW a \in Int, NEW b \in Nat \ {0}
    PROVE  a % b \in 0 .. b - 1 /\ (a \in 0 .. b - 1 => a % b = a) /\ (a >= 0 => a % b <= a)
OBVIOUS

LEMMA Halves == ASSUME OnceSizes PROVE UInt \div 2 \in Nat \ {0} /\ UInt \div 2 < UInt
OBVIOUS

LEMMA Limits == ASSUME OnceSizes PROVE codec \in O!Codecs => O!Limit \in Nat \ {0}
BY Halves DEF O!Limit, O!Codecs

LEMMA Cuts ==
    ASSUME OnceSizes, codec \in O!Codecs, NEW v \in 0 .. ULong - 1
    PROVE  /\ O!Cut(v) \in Int /\ O!Cut(v) <= v
           /\ v < O!Limit => O!Cut(v) = v
           /\ codec \notin {"bzip2", "lz4"} => O!Cut(v) = v
           /\ codec = "bzip2" => O!Cut(v) = v % UInt /\ v % UInt \in 0 .. UInt - 1
<1>1. v % UInt \in 0 .. UInt - 1 /\ v % UInt <= v /\ (v < UInt => v % UInt = v)
  <2>1. v \in Int /\ UInt \in Nat \ {0}
    OBVIOUS
  <2>2. v % UInt \in 0 .. UInt - 1 /\ (v \in 0 .. UInt - 1 => v % UInt = v) /\ (v >= 0 => v % UInt <= v)
    BY ONLY <2>1, Remainder
  <2>3. QED
    BY <2>1, <2>2
<1>2. CASE codec = "bzip2"
  BY <1>1, <1>2 DEF O!Cut, O!Limit
<1>3. CASE codec = "lz4"
  BY <1>1, <1>3, Halves DEF O!Cut, O!Limit
<1>4. CASE codec \notin {"bzip2", "lz4"}
  BY <1>4 DEF O!Cut, O!Limit
<1>5. QED
  BY <1>2, <1>3, <1>4

LEMMA Bounds ==
    ASSUME OnceSizes, codec \in O!Codecs, NEW n \in 0 .. ULong - 1
    PROVE  O!compressBound(n) \in 0 .. ULong - 1
<1> DEFINE b == CASE codec = "bzip2" -> n + n \div 4
                  [] codec = "zip7"  -> n + n \div 3 + Growth
                  [] OTHER           -> n + Growth
<1>1. b \in Int
  OBVIOUS
<1> HIDE DEF b
<1>2. b % ULong \in 0 .. ULong - 1
  BY <1>1, Remainder
<1>3. O!compressBound(n) = IF codec = "lz4" /\ n >= O!Limit THEN 0
                           ELSE IF b % ULong < n THEN ULong - 1 ELSE b % ULong
  BY DEF O!compressBound, b
<1>4. QED
  BY <1>2, <1>3

LEMMA Lessens == ASSUME OnceSizes PROVE
    /\ O!Uncounted \in 0 .. PropsLen
    /\ codec = "zip7" => O!Uncounted = PropsLen
    /\ codec # "zip7" => O!Uncounted = 0
BY DEF O!Uncounted

LEMMA TellsLength ==
    ASSUME OnceSizes, OnceIInv, NEW r \in Nat, r <= O!Cut(room)
    PROVE  /\ O!Told(room, r) \in 0 .. ULong - 1
           /\ room < O!Limit => O!Told(room, r) = r
<1>1. room \in 0 .. ULong - 1 /\ codec \in O!Codecs
  BY OnceFields
<1>2. CASE codec = "bzip2"
  <2>1. O!Cut(room) = room % UInt /\ room % UInt \in 0 .. UInt - 1 /\ O!Cut(room) <= room /\ (room < O!Limit => O!Cut(room) = room)
    BY <1>1, <1>2, Cuts
  <2>2. O!Told(room, r) = (room - (room % UInt)) + r
    BY <1>2 DEF O!Told
  <2> DEFINE q == room % UInt
  <2>3. q \in 0 .. room /\ r <= q /\ (room < O!Limit => q = room)
    BY <1>1, <2>1
  <2> HIDE DEF q
  <2>4. (room - q) + r \in 0 .. ULong - 1 /\ (room < O!Limit => (room - q) + r = r)
    BY <1>1, <2>3
  <2>5. QED
    BY <2>2, <2>4 DEF q
<1>3. CASE codec # "bzip2"
  BY <1>1, <1>3, Cuts DEF O!Told
<1>4. QED
  BY <1>2, <1>3

LEMMA OnceCoded ==
    ASSUME OnceSizes, OnceIInv, phase = "plain", O!Whole(room)
    PROVE  /\ plain' = plain /\ coded' \in O!Buffers /\ status' \in O!Status
           /\ coded'.size <= room + O!Uncounted
           /\ kept /\ room < O!Limit =>
                 /\ coded' = [of |-> src.n, size |-> src.form, len |-> src.form - O!Uncounted]
                 /\ coded'.len < O!Limit
<1>1. PICK r \in O!Results : O!Fits(r, room) /\ O!Result(O!Stands(r), r, O!Told(room, r), O!UNIZIP_OK)
  BY DEF O!Whole
<1>2. /\ codec \in O!Codecs /\ room \in 0 .. ULong - 1 /\ src.n \in 0 .. ULong - 1
      /\ src.form \in 0 .. ULong + Growth /\ src.form >= PropsLen + 1 /\ src.form <= src.n + Growth
      /\ kept => src.n < O!Limit
  BY OnceFields DEF OnceIInv, Sized
<1>3. O!Input = src.n /\ O!All = src.n /\ O!Output = src.form - O!Uncounted /\ O!Stands(r) = O!Cut(src.n)
  BY DEF O!Input, O!All, O!Output, O!Stands
<1>4. /\ O!Cut(src.n) \in 0 .. ULong - 1 /\ r \in 0 .. src.form - O!Uncounted
      /\ src.n < O!Limit => O!Cut(src.n) = src.n /\ r = src.form - O!Uncounted
  <2>1. O!Cut(src.n) \in Int /\ O!Cut(src.n) <= src.n /\ (src.n < O!Limit => O!Cut(src.n) = src.n)
    BY <1>2, Cuts
  <2>2. O!Cut(src.n) = src.n \/ O!Cut(src.n) >= 0
    BY <1>1, <1>2, <1>3, <2>1 DEF O!Results
  <2>3. r \in 0 .. src.form - O!Uncounted
    BY <1>1, <1>2, <1>3, Lessens DEF O!Results
  <2>4. src.n < O!Limit => r = src.form - O!Uncounted
    BY <1>1, <1>3, <2>1 DEF O!Results
  <2>5. QED
    BY <1>2, <2>1, <2>2, <2>3, <2>4
<1>5. r <= O!Cut(room) /\ O!Cut(room) \in Int /\ O!Cut(room) <= room /\ (room < O!Limit => O!Cut(room) = room)
  <2>1. O!Needs(r) <= O!Cut(room)
    BY <1>1 DEF O!Fits, O!Capacity
  <2>2. O!Cut(room) \in Int /\ O!Cut(room) <= room /\ (room < O!Limit => O!Cut(room) = room)
    BY <1>2, Cuts
  <2>3. r <= O!Needs(r) /\ O!Needs(r) \in Int
    BY <1>2, <1>4, Lessens DEF O!Needs
  <2>4. QED
    BY <1>4, <2>1, <2>2, <2>3, Lessens
<1>6. O!Told(room, r) \in 0 .. ULong - 1 /\ (room < O!Limit => O!Told(room, r) = r)
  <2>1. r \in Nat
    BY <1>4
  <2>2. QED
    BY <1>5, <2>1, TellsLength
<1>7. /\ status' = O!UNIZIP_OK /\ plain' = plain
      /\ coded' = [of |-> O!Cut(src.n), size |-> r + O!Uncounted, len |-> O!Told(room, r)]
  BY <1>1, <1>3 DEF O!Result
<1>8. r + O!Uncounted \in 0 .. ULong + PropsLen /\ r + O!Uncounted <= room + O!Uncounted
  BY <1>2, <1>4, <1>5, Lessens
<1>9. coded' \in O!Buffers /\ coded'.size <= room + O!Uncounted
  BY <1>4, <1>6, <1>7, <1>8 DEF O!Buffers
<1>10. ASSUME kept, room < O!Limit
       PROVE  /\ coded' = [of |-> src.n, size |-> src.form, len |-> src.form - O!Uncounted]
              /\ coded'.len < O!Limit
  <2>1. O!Cut(src.n) = src.n /\ r = src.form - O!Uncounted /\ O!Told(room, r) = r /\ r < O!Limit
    <3>1. O!Limit \in Nat
      BY <1>2, Limits
    <3>2. QED
      BY <1>2, <1>4, <1>5, <1>6, <1>10, <3>1, Lessens
  <2>2. r + O!Uncounted = src.form
    BY <1>2, <2>1, Lessens
  <2>3. QED
    BY <1>7, <2>1, <2>2
<1>11. QED
  BY <1>7, <1>9, <1>10 DEF O!Status, O!UNIZIP_OK

LEMMA Decoded ==
    ASSUME OnceSizes, OnceIInv, phase = "coded", O!Whole(room)
    PROVE  /\ coded' = coded /\ plain' \in O!Buffers /\ status' \in O!Status
           /\ plain'.size <= room
           /\ kept /\ room < O!Limit =>
                 plain' = [of |-> src.n, size |-> src.n, len |-> src.n]
<1>1. PICK r \in O!Results : O!Fits(r, room) /\ O!Result(O!Stands(r), r, O!Told(room, r), O!UNIZIP_OK)
  BY DEF O!Whole
<1>2. /\ codec \in O!Codecs /\ room \in 0 .. ULong - 1 /\ src.n \in 0 .. ULong - 1
      /\ src.form \in Int /\ coded.of \in 0 .. ULong - 1 /\ coded.len \in 0 .. ULong - 1
      /\ kept => /\ coded.len < O!Limit
                 /\ coded = [of |-> src.n, size |-> src.form, len |-> src.form - O!Uncounted]
  BY OnceFields DEF OnceIInv, Sized, O!Truthful
<1>3. O!Input = coded.len /\ O!All = coded.size - O!Uncounted /\ O!Output = coded.of
  BY DEF O!Input, O!All, O!Output
<1>4. r \in 0 .. coded.of
  BY <1>1, <1>2, <1>3 DEF O!Results
<1>5. O!Stands(r) \in 0 .. ULong - 1
  BY <1>2, <1>4 DEF O!Stands
<1>6. r <= O!Cut(room) /\ O!Cut(room) \in Int /\ O!Cut(room) <= room /\ (room < O!Limit => O!Cut(room) = room)
  BY <1>1, <1>2, <1>4, Cuts DEF O!Fits, O!Capacity, O!Needs
<1>7. O!Told(room, r) \in 0 .. ULong - 1 /\ (room < O!Limit => O!Told(room, r) = r)
  <2>1. r \in Nat
    BY <1>2, <1>4
  <2>2. QED
    BY <1>6, <2>1, TellsLength
<1>8. /\ status' = O!UNIZIP_OK /\ coded' = coded
      /\ plain' = [of |-> O!Stands(r), size |-> r, len |-> O!Told(room, r)]
  BY <1>1 DEF O!Result
<1>9. plain' \in O!Buffers /\ plain'.size <= room
  <2>1. r \in 0 .. ULong + PropsLen /\ r <= room
    BY <1>2, <1>4, <1>6
  <2>2. QED
    BY <1>5, <1>7, <1>8, <2>1 DEF O!Buffers
<1>10. ASSUME kept, room < O!Limit
       PROVE  plain' = [of |-> src.n, size |-> src.n, len |-> src.n]
  <2>1. O!Cut(coded.len) = coded.len /\ coded.len = coded.size - O!Uncounted /\ coded.of = src.n
    BY <1>2, <1>10, Cuts
  <2>2. r = src.n /\ O!Stands(r) = src.n
    BY <1>1, <1>3, <2>1 DEF O!Results, O!Stands
  <2>3. QED
    BY <1>7, <1>8, <1>10, <2>2
<1>11. QED
  BY <1>8, <1>9, <1>10 DEF O!Status, O!UNIZIP_OK

\* What a call reports that did not do all.
LEMMA Reports ==
    ASSUME OnceSizes, codec \in O!Codecs, phase \in {"plain", "coded"}
    PROVE  /\ O!ShortStatus \in O!Status /\ O!BrokenStatus \subseteq O!Status
           /\ O!UNIZIP_OK \notin O!BrokenStatus
           /\ O!ShortStatus = O!UNIZIP_OK => codec \in {"xz", "zip7"}
<1> USE DEF O!Status, O!UNIZIP_OK, O!UNIZIP_STREAM_ERROR, O!UNIZIP_BUF_ERROR, O!UNIZIP_DATA_ERROR,
            O!UNIZIP_ERRNO, O!UNIZIP_MEM_ERROR
<1>1. O!ShortStatus \in O!Status /\ (O!ShortStatus = O!UNIZIP_OK => codec \in {"xz", "zip7"})
  BY DEF O!ShortStatus, O!Codecs
<1>2. O!BrokenStatus \subseteq O!Status /\ O!UNIZIP_OK \notin O!BrokenStatus
  BY DEF O!BrokenStatus
<1>3. QED
  BY <1>1, <1>2

LEMMA Undone ==
    ASSUME OnceSizes, OnceIInv, phase \in {"plain", "coded"}, O!Short(room) \/ O!Broke(room)
    PROVE  /\ coded' \in O!Buffers /\ plain' \in O!Buffers /\ status' \in O!Status
           /\ phase = "plain" => /\ plain' = plain /\ coded'.size <= room + O!Uncounted
                                 /\ status' = O!UNIZIP_OK => codec \in {"xz", "zip7"} /\ coded'.len = room
           /\ phase = "coded" => /\ coded' = coded /\ plain'.size <= room
                                 /\ status' = O!UNIZIP_OK => codec \in {"xz", "zip7"} /\ plain'.len = room
<1>1. /\ codec \in O!Codecs /\ room \in 0 .. ULong - 1 /\ coded \in O!Buffers /\ plain \in O!Buffers
  BY OnceFields
<1>2. \A ret : O!LeftBy(room, ret) \subseteq {0, room} /\ O!LeftBy(room, O!UNIZIP_OK) = {room}
  BY DEF O!LeftBy
<1>3. PICK size \in 0 .. ULong - 1, len \in {0, room}, ret \in O!Status :
         /\ O!Result(0, size, len, ret) /\ size <= room
         /\ ret = O!UNIZIP_OK => codec \in {"xz", "zip7"} /\ len = room
  <2>1. CASE O!Short(room)
    <3>1. PICK len \in O!LeftBy(room, O!ShortStatus) :
             O!Result(0, IF O!Capacity(room) < 0 THEN 0 ELSE O!Capacity(room), len, O!ShortStatus)
      BY <2>1 DEF O!Short
    <3>2. O!Capacity(room) \in Int /\ O!Capacity(room) <= room
      BY <1>1, Cuts DEF O!Capacity
    <3> DEFINE size == IF O!Capacity(room) < 0 THEN 0 ELSE O!Capacity(room)
    <3>3. size \in 0 .. ULong - 1 /\ size <= room
      BY <1>1, <3>2
    <3>4. len \in {0, room} /\ (O!ShortStatus = O!UNIZIP_OK => len = room)
      BY <1>2
    <3> HIDE DEF size
    <3>5. QED
      BY <1>1, <3>1, <3>3, <3>4, Reports DEF size
  <2>2. CASE O!Broke(room)
    <3>1. PICK ret \in O!BrokenStatus : \E len \in O!LeftBy(room, ret) : O!Result(0, 0, len, ret)
      BY <2>2 DEF O!Broke
    <3>2. PICK len \in O!LeftBy(room, ret) : O!Result(0, 0, len, ret)
      BY <3>1
    <3>3. len \in {0, room} /\ 0 \in 0 .. ULong - 1 /\ 0 <= room
      BY <1>1, <1>2
    <3>4. ret \in O!Status /\ ret # O!UNIZIP_OK
      BY <1>1, Reports
    <3>5. QED
      BY <3>2, <3>3, <3>4
  <2>3. QED
    BY <2>1, <2>2
<1>4. status' = ret /\ len \in 0 .. ULong - 1 /\ size \in 0 .. ULong
  BY <1>1, <1>3 DEF O!Result
<1>5. CASE phase = "plain"
  <2>1. plain' = plain /\ coded' = [of |-> 0, size |-> size + O!Uncounted, len |-> len]
    BY <1>3, <1>5 DEF O!Result
  <2>2. size + O!Uncounted \in 0 .. ULong + PropsLen /\ size + O!Uncounted <= room + O!Uncounted
    BY <1>1, <1>3, Lessens
  <2>3. coded' \in O!Buffers
    BY <1>4, <2>1, <2>2 DEF O!Buffers
  <2>4. QED
    BY <1>1, <1>3, <1>4, <1>5, <2>1, <2>2, <2>3
<1>6. CASE phase = "coded"
  <2>1. coded' = coded /\ plain' = [of |-> 0, size |-> size, len |-> len]
    BY <1>3, <1>6 DEF O!Result
  <2>2. size \in 0 .. ULong + PropsLen
    BY <1>3
  <2>3. plain' \in O!Buffers
    BY <1>4, <2>1, <2>2 DEF O!Buffers
  <2>4. QED
    BY <1>1, <1>3, <1>4, <1>6, <2>1, <2>3
<1>7. QED
  BY <1>5, <1>6

\* InsideRoom, of a call.
Within ==
    /\ phase = "plain" => coded'.size <= room + O!Uncounted
    /\ phase = "coded" => plain'.size <= room

LEMMA WorkKeeps ==
    ASSUME OnceSizes, OnceIInv, phase \in {"plain", "coded"},
           O!Whole(room) \/ O!Short(room) \/ O!Broke(room),
           NEW m \in Rooms, O!Onward(m)
    PROVE  OnceIInv' /\ Within
<1>1. /\ codec' = codec /\ src' = src /\ room' = m /\ room' \in 0 .. ULong - 1
      /\ kept' = (kept /\ room < O!Limit)
      /\ phase' \in {phase, IF phase = "plain" THEN "coded" ELSE "done"}
  BY DEF O!Onward
<1>2. kept' \in BOOLEAN /\ (kept' => kept /\ room < O!Limit)
  BY <1>1
<1>3. O!Limit' = O!Limit /\ O!Uncounted' = O!Uncounted
  BY <1>1 DEF O!Limit, O!Uncounted
<1>4. CASE phase = "plain"
  <2>1. /\ plain' = plain /\ coded' \in O!Buffers /\ status' \in O!Status
        /\ coded'.size <= room + O!Uncounted
    BY <1>4, OnceCoded, Undone
  <2>2. kept' /\ phase' = "coded" =>
           /\ coded' = [of |-> src.n, size |-> src.form, len |-> src.form - O!Uncounted]
           /\ coded'.len < O!Limit
    <3>1. CASE O!Whole(room)
      BY <1>2, <1>4, <3>1, OnceCoded
    <3>2. CASE O!Short(room) \/ O!Broke(room)
      <4>1. status' = O!UNIZIP_OK => codec \in {"xz", "zip7"} /\ coded'.len = room
        BY <1>4, <3>2, Undone
      <4>2. room \in Int
        BY OnceFields
      <4>3. phase' = phase
        BY <1>4, <4>1, <4>2 DEF O!Onward
      <4>4. QED
        BY <1>4, <4>3
    <3>3. QED
      BY <3>1, <3>2
  <2>3. phase' \in {"plain", "coded"}
    BY <1>1, <1>4
  <2>4. O!Types'
    BY <1>1, <1>2, <2>1, <2>3, OnceFields DEF O!Types
  <2>5. O!Truthful'
    BY <1>1, <1>3, <2>2, <2>3, <2>4 DEF O!Truthful
  <2>6. Sized'
    BY <1>1, <1>2, <1>3, <1>4, <2>2, <2>3 DEF OnceIInv, Sized
  <2>7. QED
    BY <1>4, <2>1, <2>5, <2>6 DEF OnceIInv, Within
<1>5. CASE phase = "coded"
  <2>1. /\ coded' = coded /\ plain' \in O!Buffers /\ status' \in O!Status
        /\ plain'.size <= room
    BY <1>5, Decoded, Undone
  <2>2. kept' /\ phase' = "done" => plain' = [of |-> src.n, size |-> src.n, len |-> src.n]
    <3>1. CASE O!Whole(room)
      BY <1>2, <1>5, <3>1, Decoded
    <3>2. CASE O!Short(room) \/ O!Broke(room)
      <4>1. status' = O!UNIZIP_OK => codec \in {"xz", "zip7"} /\ plain'.len = room
        BY <1>5, <3>2, Undone
      <4>2. room \in Int
        BY OnceFields
      <4>3. phase' = phase
        BY <1>5, <4>1, <4>2 DEF O!Onward
      <4>4. QED
        BY <1>5, <4>3
    <3>3. QED
      BY <3>1, <3>2
  <2>3. phase' \in {"coded", "done"}
    BY <1>1, <1>5
  <2>4. O!Types'
    BY <1>1, <1>2, <2>1, <2>3, OnceFields DEF O!Types
  <2>5. O!Truthful'
    BY <1>1, <1>2, <1>3, <1>5, <2>1, <2>2, <2>3, <2>4 DEF OnceIInv, O!Truthful
  <2>6. Sized'
    BY <1>1, <1>2, <1>3, <1>5, <2>1, <2>3 DEF OnceIInv, Sized
  <2>7. QED
    BY <1>5, <2>1, <2>5, <2>6 DEF OnceIInv, Within
<1>6. QED
  BY <1>4, <1>5

LEMMA TakeKeeps ==
    ASSUME OnceSizes, OnceIInv, NEW n \in Lengths, NEW form \in {PropsLen + 1, n + Growth},
           O!Take(n, form)
    PROVE  OnceIInv' /\ Within
<1>1. /\ phase \in {"nothing", "done"} /\ src' = [n |-> n, form |-> form]
      /\ coded' = O!Empty /\ plain' = O!Empty /\ room' = O!compressBound(n)
      /\ kept' = (n < O!Limit) /\ phase' = "plain" /\ codec' = codec /\ status' = status
  BY DEF O!Take
<1>2. /\ n \in 0 .. ULong - 1 /\ form \in 0 .. ULong + Growth
      /\ form >= PropsLen + 1 /\ form <= n + Growth
  OBVIOUS
<1>3. room' \in 0 .. ULong - 1
  BY <1>1, <1>2, OnceFields, Bounds
<1>4. O!Empty \in O!Buffers
  BY DEF O!Empty, O!Buffers
<1>5. kept' \in BOOLEAN /\ (kept' => n < O!Limit)
  <2>1. kept' = (n < O!Limit)
    BY <1>1
  <2>2. (n < O!Limit) \in BOOLEAN
    OBVIOUS
  <2>3. QED
    BY <2>1, <2>2, Zenon
<1>6. O!Types'
  BY <1>1, <1>2, <1>3, <1>4, <1>5, OnceFields DEF O!Types
<1>7. O!Limit' = O!Limit
  BY <1>1 DEF O!Limit
<1>8. OnceIInv'
  BY <1>1, <1>2, <1>5, <1>6, <1>7 DEF OnceIInv, O!Truthful, Sized
<1>9. QED
  BY <1>1, <1>8 DEF Within

LEMMA OnceStepKeeps == ASSUME OnceSizes, OnceIInv, O!Next PROVE OnceIInv' /\ Within
<1>1. ASSUME NEW n \in Lengths, NEW form \in {PropsLen + 1, n + Growth}, O!Take(n, form)
      PROVE  OnceIInv' /\ Within
  BY <1>1, TakeKeeps
<1>2. ASSUME NEW m \in Rooms,
             O!Work(m) \/ (phase \in {"plain", "coded"} /\ O!Broke(room) /\ O!Onward(m))
      PROVE  OnceIInv' /\ Within
  BY <1>2, WorkKeeps DEF O!Work
<1>3. QED
  BY <1>1, <1>2 DEF O!Next

LEMMA OnceInitially == ASSUME OnceSizes PROVE O!Init => OnceIInv
<1> SUFFICES ASSUME O!Init PROVE OnceIInv
  OBVIOUS
<1>1. O!Empty \in O!Buffers /\ O!UNIZIP_OK \in O!Status
  BY DEF O!Empty, O!Buffers, O!Status, O!UNIZIP_OK
<1>2. O!Types
  BY <1>1 DEF O!Init, O!Types
<1>3. Sized
  BY Limits DEF O!Init, Sized
<1>4. QED
  BY <1>2, <1>3 DEF OnceIInv, O!Truthful, O!Init

LEMMA OnceIdleKeeps == ASSUME OnceSizes PROVE OnceIInv /\ UNCHANGED O!vars => OnceIInv'
BY DEF O!vars, OnceIInv, O!Truthful, O!Types, Sized, O!Limit, O!Uncounted

\* Truthful is inductive once the length of the coded form (Sized) is known.
THEOREM OnceInvariance == ASSUME OnceSizes PROVE O!FairSpec => []OnceIInv
<1>1. OnceIInv /\ [O!Next]_O!vars => OnceIInv'
  BY OnceStepKeeps, OnceIdleKeeps
<1>2. QED
  BY <1>1, OnceInitially, PTL DEF O!FairSpec

\* Truthful, for every width of int and long and every length: what xxxCompress
\* and xxxUncompress report OK is the whole source, of the length in *destLen,
\* unless the caller passed a length that one of them cut.
THEOREM BeliefIsTrue == ASSUME OnceSizes PROVE O!FairSpec => []O!Truthful
<1>1. OnceIInv => O!Truthful
  BY DEF OnceIInv
<1>2. QED
  BY <1>1, OnceInvariance, PTL

\* InsideRoom, for every width and every length: no one-shot call writes beyond
\* the room in *destLen, even where it cuts the length it passes on.
THEOREM RoomIsRespected == ASSUME OnceSizes PROVE O!FairSpec => O!InsideRoom
<1>1. OnceIInv /\ [O!Next]_O!vars => [Within]_O!vars
  BY OnceStepKeeps
<1>2. QED
  BY <1>1, OnceInvariance, PTL DEF O!FairSpec, O!InsideRoom, Within

HIDE DEF OnceSizes, O!PropsAssumption, O!GrowthAssumption, O!WidthAssumption, O!LengthAssumption

-----------------------------------------------------------------------------
(***************************************************************************)
(* StreamLife.  Sane is about the heap: each ctx and each library state    *)
(* point at each other, for good, so a pointer that outlives its block     *)
(* still tells whose it was.  On top of it each stream has what its phase  *)
(* says (Full, Half), no two have the same, and what no stream has is      *)
(* Accounted for.  A callback gives up what one stream has (GivenUp) and   *)
(* puts what is built in its place (Built), and leaves every other block   *)
(* as it was (Same): the invariant is kept because these three fit         *)
(* together, whichever way the adapters do them.                           *)
(***************************************************************************)

USE BlockAssumption

States == {"unused", "live", "freed", "lost"}
Memories == [ctx : [Ids -> Blocks], lib : [Ids -> Blocks], fault : Faults]

LEMMA LibUpdated ==
    ASSUME NEW m \in Memories, NEW h \in Ids, NEW v \in States
    PROVE  /\ [m EXCEPT !.lib[h].state = v] \in Memories
           /\ [m EXCEPT !.lib[h].state = v].ctx = m.ctx
           /\ [m EXCEPT !.lib[h].state = v].fault = m.fault
           /\ [m EXCEPT !.lib[h].state = v].lib[h].state = v
           /\ [m EXCEPT !.lib[h].state = v].lib[h].ref = m.lib[h].ref
           /\ \A j \in Ids \ {h} : [m EXCEPT !.lib[h].state = v].lib[j] = m.lib[j]
BY DEF Memories, Blocks, States

LEMMA CtxUpdated ==
    ASSUME NEW m \in Memories, NEW h \in Ids, NEW v \in States
    PROVE  /\ [m EXCEPT !.ctx[h].state = v] \in Memories
           /\ [m EXCEPT !.ctx[h].state = v].lib = m.lib
           /\ [m EXCEPT !.ctx[h].state = v].fault = m.fault
           /\ [m EXCEPT !.ctx[h].state = v].ctx[h].state = v
           /\ [m EXCEPT !.ctx[h].state = v].ctx[h].ref = m.ctx[h].ref
           /\ \A j \in Ids \ {h} : [m EXCEPT !.ctx[h].state = v].ctx[j] = m.ctx[j]
BY DEF Memories, Blocks, States

LEMMA Faulted ==
    ASSUME NEW m \in Memories, NEW k \in Faults
    PROVE  /\ Failed(m, k) \in Memories
           /\ Failed(m, k).lib = m.lib /\ Failed(m, k).ctx = m.ctx
           /\ Failed(m, k).fault = k
BY DEF Memories, Failed

LEMMA CtxMade ==
    ASSUME NEW m \in Memories, NEW c \in Ids, NEW p \in Ids \cup {NULL, Junk}
    PROVE  /\ [m EXCEPT !.ctx[c] = Live(p)] \in Memories
           /\ [m EXCEPT !.ctx[c] = Live(p)].lib = m.lib
           /\ [m EXCEPT !.ctx[c] = Live(p)].fault = m.fault
           /\ [m EXCEPT !.ctx[c] = Live(p)].ctx[c] = Live(p)
           /\ \A j \in Ids \ {c} : [m EXCEPT !.ctx[c] = Live(p)].ctx[j] = m.ctx[j]
BY DEF Memories, Blocks, Live

LEMMA LibMade ==
    ASSUME NEW m \in Memories, NEW h \in Ids, NEW p \in Ids \cup {NULL, Junk}
    PROVE  /\ [m EXCEPT !.lib[h] = Live(p)] \in Memories
           /\ [m EXCEPT !.lib[h] = Live(p)].ctx = m.ctx
           /\ [m EXCEPT !.lib[h] = Live(p)].fault = m.fault
           /\ [m EXCEPT !.lib[h] = Live(p)].lib[h] = Live(p)
           /\ \A j \in Ids \ {h} : [m EXCEPT !.lib[h] = Live(p)].lib[j] = m.lib[j]
BY DEF Memories, Blocks, Live

LEMMA BothMade ==
    ASSUME NEW m, NEW c, NEW h, NEW x, NEW y
    PROVE  [m EXCEPT !.ctx[c] = x, !.lib[h] = y] = [[m EXCEPT !.ctx[c] = x] EXCEPT !.lib[h] = y]
OBVIOUS
\* Copies only where the code's can be used like any stream, and no adapter
\* that goes on as if its library had set itself up.
Admitted ==
    /\ \A k \in CopyingCodecs : k.lib \in {"lz4", "snappy", "7zip", "uadk"}
    /\ [lib |-> "brotli", side |-> "inflate"] \notin FailingCodecs

\* Who points to what: a ctx to the library state that was made for it.
Sane(m) ==
    /\ m \in Memories
    /\ \A i \in Ids :
          /\ m.ctx[i].state = "unused" => m.ctx[i].ref = NULL
          /\ m.lib[i].state = "unused" => m.lib[i].ref = NULL
          /\ m.ctx[i].ref \in Ids => m.lib[m.ctx[i].ref].ref = i
          /\ m.lib[i].state = "live" => /\ m.lib[i].ref \in Ids
                                        /\ m.ctx[m.lib[i].ref].ref = i
          /\ ~HasLibState => m.ctx[i].ref = NULL /\ m.lib[i].state = "unused"

\* What an open stream holds.
Full(m, c) ==
    /\ c \in Ids /\ m.ctx[c].state = "live"
    /\ HasLibState => m.ctx[c].ref \in Ids /\ m.lib[m.ctx[c].ref].state = "live"

\* What a stream holds whose reset failed.
Half(m, c) ==
    /\ codec \in FailingCodecs
    /\ \/ c = NULL
       \/ Full(m, c)
       \/ /\ HasLibState
          /\ c \in Ids /\ m.ctx[c].state = "live" /\ m.ctx[c].ref = LeftBehind

\* What no stream holds.
ByInit(m, i) ==
    /\ codec \in FailingCodecs /\ HasLibState
    /\ m.ctx[i].ref = LeftBehind \/ codec = [lib |-> "zstd", side |-> "deflate"]
ByEnd(m, i) ==
    /\ ~EndFreesCtx
    /\ m.ctx[i].ref \in Ids => m.lib[m.ctx[i].ref].state = "freed"
Accounted(m, i) ==
    /\ m.ctx[i].state = "live" => ByInit(m, i) \/ ByEnd(m, i)
    /\ m.ctx[i].ref \in Ids /\ m.lib[m.ctx[i].ref].state = "live" => ByInit(m, i)

Same(m, r, i) ==
    /\ r.ctx[i] = m.ctx[i]
    /\ m.ctx[i].ref \in Ids => r.lib[m.ctx[i].ref] = m.lib[m.ctx[i].ref]

LEMMA Frame ==
    ASSUME NEW m, NEW r, NEW i, Same(m, r, i)
    PROVE  /\ Full(m, i) => Full(r, i)
           /\ Half(m, i) => Half(r, i)
           /\ Accounted(m, i) => Accounted(r, i)
BY DEF Same, Full, Half, Accounted, ByInit, ByEnd

Excused == codec \in FailingCodecs /\ ~Prepared

\* From memory m, ctx c is given up.
GivenUp(m, r, c) ==
    /\ Sane(r)
    /\ c \in Ids => Accounted(r, c) /\ r.ctx[c].state # "unused"
    /\ \A i \in Ids \ {c} : Same(m, r, i)
    /\ \A h \in Ids : m.lib[h].state = "unused" => r.lib[h].state = "unused"

\* The heap stays sane when states change but no pointer does.
LEMMA SaneKept ==
    ASSUME NEW m, Sane(m), NEW r \in Memories,
           \A i \in Ids :
              /\ r.ctx[i].ref = m.ctx[i].ref /\ r.lib[i].ref = m.lib[i].ref
              /\ r.ctx[i].state = "unused" => m.ctx[i].state = "unused"
              /\ r.lib[i].state = "unused" => m.lib[i].state = "unused"
              /\ r.lib[i].state = "live" => m.lib[i].state = "live"
              /\ ~HasLibState => r.lib[i].state = m.lib[i].state
    PROVE  Sane(r)
<1> SUFFICES ASSUME NEW i \in Ids
             PROVE  /\ r.ctx[i].state = "unused" => r.ctx[i].ref = NULL
                    /\ r.lib[i].state = "unused" => r.lib[i].ref = NULL
                    /\ r.ctx[i].ref \in Ids => r.lib[r.ctx[i].ref].ref = i
                    /\ r.lib[i].state = "live" => /\ r.lib[i].ref \in Ids
                                                  /\ r.ctx[r.lib[i].ref].ref = i
                    /\ ~HasLibState => r.ctx[i].ref = NULL /\ r.lib[i].state = "unused"
  BY DEF Sane
<1>1. /\ r.ctx[i].state = "unused" => r.ctx[i].ref = NULL
      /\ r.lib[i].state = "unused" => r.lib[i].ref = NULL
      /\ ~HasLibState => r.ctx[i].ref = NULL /\ r.lib[i].state = "unused"
  BY DEF Sane
<1>2. r.ctx[i].ref \in Ids => r.lib[r.ctx[i].ref].ref = i
  BY DEF Sane
<1>3. r.lib[i].state = "live" => /\ r.lib[i].ref \in Ids
                                 /\ r.ctx[r.lib[i].ref].ref = i
  BY DEF Sane
<1>4. QED
  BY <1>1, <1>2, <1>3

LEMMA Freed ==
    ASSUME NEW m, Sane(m), NEW c, Full(m, c), m.fault = "none"
    PROVE  /\ GivenUp(m, Release(m, c), c)
           /\ Release(m, c).fault = "none"
<1> DEFINE f == FreeLibState(m, c)
           h == m.ctx[c].ref
<1>1. /\ c \in Ids /\ c # NULL /\ m.ctx[c].state = "live" /\ m \in Memories
      /\ "freed" \in States
      /\ HasLibState => h \in Ids /\ h # NULL /\ h # Junk /\ m.lib[h].state = "live" /\ m.lib[h].ref = c
      /\ ~HasLibState => h = NULL
  BY DEF Full, Sane, Ids, NULL, Junk, States
<1>2. Release(m, c) = IF ~EndFreesCtx THEN f ELSE [f EXCEPT !.ctx[c].state = "freed"]
  BY <1>1 DEF Release
<1>3. /\ f \in Memories /\ f.ctx = m.ctx /\ f.fault = "none"
      /\ HasLibState => /\ f.lib[h].state = "freed" /\ f.lib[h].ref = c
                        /\ \A j \in Ids \ {h} : f.lib[j] = m.lib[j]
      /\ ~HasLibState => f.lib = m.lib
  <2>1. CASE HasLibState
    <3>1. f = [m EXCEPT !.lib[h].state = "freed"]
      BY <1>1, <2>1 DEF FreeLibState
    <3> HIDE DEF f, h
    <3>2. QED
      BY <1>1, <2>1, <3>1, LibUpdated
  <2>2. CASE ~HasLibState
    BY <1>1, <2>2 DEF FreeLibState
  <2>3. QED
    BY <2>1, <2>2
<1> DEFINE r == Release(m, c)
<1>4. /\ r \in Memories /\ r.lib = f.lib /\ r.fault = "none"
      /\ r.ctx[c].ref = h /\ r.ctx[c].state \in {"live", "freed"}
      /\ EndFreesCtx => r.ctx[c].state = "freed"
      /\ \A j \in Ids \ {c} : r.ctx[j] = m.ctx[j]
  <2> HIDE DEF f
  <2>1. CASE ~EndFreesCtx
    BY <1>1, <1>2, <1>3, <2>1
  <2>2. CASE EndFreesCtx
    <3>1. r = [f EXCEPT !.ctx[c].state = "freed"]
      BY <1>2, <2>2
    <3> HIDE DEF r
    <3>2. QED
      BY <1>1, <1>3, <3>1, CtxUpdated
  <2>3. QED
    BY <2>1, <2>2
<1> HIDE DEF f, r
<1>5. ASSUME NEW i \in Ids \ {c}
      PROVE  Same(m, r, i) /\ (m.ctx[i].ref \in Ids => m.ctx[i].ref # h)
  BY <1>1, <1>3, <1>4 DEF Same, Sane, Memories
<1>6. Sane(r)
  <2>1. ASSUME NEW i \in Ids
        PROVE  /\ r.ctx[i].ref = m.ctx[i].ref /\ r.lib[i].ref = m.lib[i].ref
               /\ r.ctx[i].state = "unused" => m.ctx[i].state = "unused"
               /\ r.lib[i].state = "unused" => m.lib[i].state = "unused"
               /\ r.lib[i].state = "live" => m.lib[i].state = "live"
               /\ ~HasLibState => r.lib[i].state = m.lib[i].state
    BY <1>1, <1>3, <1>4
  <2>2. QED
    BY <1>4, <2>1, SaneKept
<1>7. Accounted(r, c)
  <2>1. r.ctx[c].ref \in Ids => r.lib[r.ctx[c].ref].state = "freed"
    BY <1>1, <1>3, <1>4 DEF Ids, NULL
  <2>2. QED
    BY <1>4, <2>1 DEF Accounted, ByEnd
<1>8. \A j \in Ids : m.lib[j].state = "unused" => r.lib[j].state = "unused"
  BY <1>1, <1>3, <1>4
<1>9. QED
  BY <1>1, <1>4, <1>5, <1>6, <1>7, <1>8 DEF GivenUp, r

LEMMA Hollow ==
    ASSUME NEW m, Sane(m), NEW c \in Ids, HasLibState, codec \in FailingCodecs,
           m.ctx[c].state = "live", m.ctx[c].ref = LeftBehind, m.fault = "none"
    PROVE  /\ GivenUp(m, Release(m, c), c)
           /\ Release(m, c).fault # "none" => Excused
<1> DEFINE f == FreeLibState(m, c)
           r == Release(m, c)
<1>1. /\ c # NULL /\ m \in Memories /\ "freed" \in States /\ "stale" \in Faults
      /\ LeftBehind \in {NULL, Junk} /\ LeftBehind \notin Ids /\ Junk # NULL
  BY DEF Sane, Ids, NULL, Junk, LeftBehind, States, Faults
<1>2. r = IF ~EndFreesCtx THEN f ELSE [f EXCEPT !.ctx[c].state = "freed"]
  BY <1>1 DEF Release
<1>3. /\ f \in Memories /\ f.ctx = m.ctx /\ f.lib = m.lib
      /\ f.fault # "none" => LeftBehind = Junk
  <2>1. f = m \/ (LeftBehind = Junk /\ f = Failed(m, "stale"))
    BY <1>1 DEF FreeLibState
  <2> HIDE DEF f
  <2>2. QED
    BY <1>1, <2>1, Faulted
<1> HIDE DEF f, r
<1>4. /\ r \in Memories /\ r.lib = m.lib /\ r.fault = f.fault
      /\ r.ctx[c].ref = m.ctx[c].ref /\ r.ctx[c].state \in {"live", "freed"}
      /\ \A j \in Ids \ {c} : r.ctx[j] = m.ctx[j]
  BY <1>1, <1>2, <1>3, CtxUpdated
<1>5. \A i \in Ids \ {c} : Same(m, r, i)
  BY <1>4 DEF Same
<1>6. Sane(r)
  BY <1>1, <1>4 DEF Sane
<1>7. Accounted(r, c)
  BY <1>1, <1>4 DEF Accounted, ByInit
<1>8. r.fault # "none" => Excused
  BY <1>1, <1>3, <1>4 DEF Excused, Prepared
<1>9. QED
  BY <1>4, <1>5, <1>6, <1>7, <1>8 DEF GivenUp, r

LEMMA Nothing ==
    ASSUME NEW m, Sane(m), codec \in FailingCodecs, m.fault = "none"
    PROVE  /\ GivenUp(m, Release(m, NULL), NULL)
           /\ Release(m, NULL).fault # "none" => Excused
<1>1. m \in Memories /\ "null" \in Faults /\ NULL \notin Ids
  BY DEF Sane, Faults, Ids, NULL
<1>2. Release(m, NULL) = m \/ (~EndChecksNull /\ Release(m, NULL) = Failed(m, "null"))
  BY DEF Release
<1> DEFINE r == Release(m, NULL)
<1> HIDE DEF r
<1>3. r \in Memories /\ r.ctx = m.ctx /\ r.lib = m.lib /\ (r.fault # "none" => ~EndChecksNull)
  BY <1>1, <1>2, Faulted DEF r
<1>4. Sane(r)
  BY <1>3 DEF Sane
<1>5. \A i \in Ids : Same(m, r, i)
  BY <1>3 DEF Same
<1>6. QED
  BY <1>1, <1>3, <1>4, <1>5 DEF GivenUp, Excused, Prepared, r

\* End, on what a stream may hold.
LEMMA ReleaseKeeps ==
    ASSUME NEW m, Sane(m), NEW c, m.fault = "none", Full(m, c) \/ Half(m, c)
    PROVE  /\ GivenUp(m, Release(m, c), c)
           /\ Full(m, c) => Release(m, c).fault = "none"
           /\ Release(m, c).fault # "none" => Excused
BY Freed, Hollow, Nothing DEF Half

\* uadk's Copy forgets what the destination had.
LEMMA ForgetKeeps ==
    ASSUME NEW m, Sane(m), NEW c, m.fault = "none", Full(m, c), HasLibState
    PROVE  GivenUp(m, Forget(m, c), c) /\ Forget(m, c).fault = "none"
<1> DEFINE h == m.ctx[c].ref
           f == [m EXCEPT !.ctx[c].state = "lost"]
           r == Forget(m, c)
<1>1. /\ c \in Ids /\ m.ctx[c].state = "live" /\ m \in Memories /\ "lost" \in States
      /\ h \in Ids /\ m.lib[h].state = "live" /\ m.lib[h].ref = c
  BY DEF Full, Sane, States
<1>2. r = [f EXCEPT !.lib[h].state = "lost"]
  BY DEF Forget
<1> HIDE DEF f, r
<1>3. /\ f \in Memories /\ f.lib = m.lib /\ f.fault = "none"
      /\ f.ctx[c].state = "lost" /\ f.ctx[c].ref = h
      /\ \A j \in Ids \ {c} : f.ctx[j] = m.ctx[j]
  BY <1>1, CtxUpdated DEF f
<1> HIDE DEF h
<1>4. /\ r \in Memories /\ r.ctx = f.ctx /\ r.fault = "none"
      /\ r.lib[h].state = "lost" /\ r.lib[h].ref = c
      /\ \A j \in Ids \ {h} : r.lib[j] = m.lib[j]
  BY <1>1, <1>2, <1>3, LibUpdated
<1>5. \A i \in Ids \ {c} : Same(m, r, i)
  BY <1>1, <1>3, <1>4 DEF Same, Sane, Memories
<1>6. Sane(r)
  <2>1. HasLibState
    OBVIOUS
  <2>2. ASSUME NEW i \in Ids
        PROVE  /\ r.ctx[i].ref = m.ctx[i].ref /\ r.lib[i].ref = m.lib[i].ref
               /\ r.ctx[i].state = "unused" => m.ctx[i].state = "unused"
               /\ r.lib[i].state = "unused" => m.lib[i].state = "unused"
               /\ r.lib[i].state = "live" => m.lib[i].state = "live"
    BY <1>1, <1>3, <1>4 DEF h
  <2>3. QED
    BY <1>4, <2>1, <2>2, SaneKept
<1>7. Accounted(r, c)
  BY <1>1, <1>3, <1>4 DEF Accounted
<1>8. \A j \in Ids : m.lib[j].state = "unused" => r.lib[j].state = "unused"
  BY <1>1, <1>4
<1>9. QED
  BY <1>3, <1>4, <1>5, <1>6, <1>7, <1>8 DEF GivenUp, r

\* What is built is of blocks nobody had.
Built(m, b) ==
    /\ Sane(b.mem) /\ b.ok \in BOOLEAN /\ b.ud \in Ids \cup {NULL}
    /\ b.mem.fault # "none" => Excused
    /\ b.ok => Full(b.mem, b.ud) /\ b.mem.fault = "none"
    /\ ~b.ok => codec \in FailingCodecs /\ (b.mem.fault = "none" => Half(b.mem, b.ud))
    /\ ~b.ok /\ b.ud \in Ids => Accounted(b.mem, b.ud)
    /\ b.ud \in Ids => m.ctx[b.ud].state = "unused"
    /\ \A i \in Ids \ {b.ud} : Same(m, b.mem, i)

LEMMA IsFresh == ASSUME NEW blocks, HasRoom(blocks)
                 PROVE  Fresh(blocks) \in Ids /\ blocks[Fresh(blocks)].state = "unused"
BY DEF HasRoom, Fresh

LEMMA NoCtxBuilt ==
    ASSUME NEW m, Sane(m), m.fault = "none", codec \in FailingCodecs,
           NEW checked \in BOOLEAN, ~checked => ~Prepared
    PROVE  Built(m, NoCtx(m, checked))
<1> DEFINE b == NoCtx(m, checked)
<1>1. b.ud = NULL /\ b.ok = FALSE /\ b.mem = IF checked THEN m ELSE Failed(m, "null")
  BY DEF NoCtx
<1>2. m \in Memories /\ NULL \notin Ids /\ "null" \in Faults
  BY DEF Sane, Ids, NULL, Faults
<1> HIDE DEF b
<1>3. /\ b.mem \in Memories /\ b.mem.ctx = m.ctx /\ b.mem.lib = m.lib
      /\ b.mem.fault # "none" => ~checked
  BY <1>1, <1>2, Faulted
<1>4. Sane(b.mem)
  BY <1>3 DEF Sane
<1>5. \A i \in Ids : Same(m, b.mem, i)
  BY <1>3 DEF Same
<1>6. QED
  BY <1>1, <1>2, <1>3, <1>4, <1>5 DEF Built, Half, Excused, b

\* A new ctx that points to no state.
LEMMA CtxAdded ==
    ASSUME NEW m, Sane(m), m.fault = "none", HasRoom(m.ctx), NEW p \in {NULL, Junk},
           ~HasLibState => p = NULL
    PROVE  LET c == Fresh(m.ctx)
               r == [m EXCEPT !.ctx[c] = Live(p)]
           IN  /\ Sane(r) /\ r.fault = "none" /\ r.ctx[c] = Live(p)
               /\ c \in Ids /\ m.ctx[c].state = "unused"
               /\ \A i \in Ids \ {c} : Same(m, r, i)
<1> DEFINE c == Fresh(m.ctx)
           r == [m EXCEPT !.ctx[c] = Live(p)]
<1>1. /\ c \in Ids /\ m.ctx[c].state = "unused" /\ m.ctx[c].ref = NULL /\ m \in Memories
      /\ p \notin Ids
  BY IsFresh DEF Sane, Ids, NULL, Junk
<1> HIDE DEF c
<1>2. /\ r \in Memories /\ r.lib = m.lib /\ r.fault = "none" /\ r.ctx[c] = Live(p)
      /\ \A j \in Ids \ {c} : r.ctx[j] = m.ctx[j]
  BY <1>1, CtxMade
<1>3. r.ctx[c].state = "live" /\ r.ctx[c].ref = p
  BY <1>2 DEF Live
<1> HIDE DEF r
<1>4. \A i \in Ids \ {c} : Same(m, r, i)
  BY <1>2 DEF Same
<1>5. NULL \notin Ids
  BY DEF Ids, NULL
<1>6. Sane(r)
  BY <1>1, <1>2, <1>3, <1>5 DEF Sane
<1>7. QED
  BY <1>1, <1>2, <1>4, <1>6 DEF c, r

LEMMA PlainCtxBuilt ==
    ASSUME NEW m, Sane(m), m.fault = "none", HasRoom(m.ctx), ~HasLibState
    PROVE  Built(m, PlainCtx(m))
<1> DEFINE b == PlainCtx(m)
           c == Fresh(m.ctx)
           f == [m EXCEPT !.ctx[c] = Live(NULL)]
<1>1. b.ud = c /\ b.ok = TRUE /\ b.mem = f
  BY DEF PlainCtx
<1>2. NULL \in {NULL, Junk}
  OBVIOUS
<1>3. /\ Sane(f) /\ f.fault = "none" /\ f.ctx[c] = Live(NULL)
      /\ c \in Ids /\ m.ctx[c].state = "unused"
      /\ \A i \in Ids \ {c} : Same(m, f, i)
  BY <1>2, CtxAdded
<1> HIDE DEF b, c, f
<1>4. Full(f, c)
  BY <1>3 DEF Full, Live
<1>5. QED
  BY <1>1, <1>3, <1>4 DEF Built, b

LEMMA FullCtxBuilt ==
    ASSUME NEW m, Sane(m), m.fault = "none", HasRoom(m.ctx), HasRoom(m.lib), HasLibState
    PROVE  /\ Built(m, FullCtx(m))
           /\ Full(FullCtx(m).mem, FullCtx(m).ud)
<1> DEFINE b == FullCtx(m)
           c == Fresh(m.ctx)
           h == Fresh(m.lib)
           f == [m EXCEPT !.ctx[c] = Live(h)]
           r == [m EXCEPT !.ctx[c] = Live(h), !.lib[h] = Live(c)]
<1>1. b.ud = c /\ b.ok = TRUE /\ b.mem = r
  BY DEF FullCtx
<1>2. /\ c \in Ids /\ m.ctx[c].state = "unused" /\ m.ctx[c].ref = NULL
      /\ h \in Ids /\ m.lib[h].state = "unused" /\ m.lib[h].ref = NULL
      /\ m \in Memories /\ NULL \notin Ids
  BY IsFresh DEF Sane, Ids, NULL
<1> HIDE DEF c, h
<1>3. r = [f EXCEPT !.lib[h] = Live(c)]
  BY BothMade
<1>4. /\ f \in Memories /\ f.lib = m.lib /\ f.fault = "none" /\ f.ctx[c] = Live(h)
      /\ \A j \in Ids \ {c} : f.ctx[j] = m.ctx[j]
  BY <1>2, CtxMade
<1> HIDE DEF f, r
<1>5. /\ r \in Memories /\ r.ctx = f.ctx /\ r.fault = "none" /\ r.lib[h] = Live(c)
      /\ \A j \in Ids \ {h} : r.lib[j] = m.lib[j]
  BY <1>2, <1>3, <1>4, LibMade
<1>6. /\ r.ctx[c].state = "live" /\ r.ctx[c].ref = h
      /\ r.lib[h].state = "live" /\ r.lib[h].ref = c
  BY <1>4, <1>5 DEF Live
<1>7. \A i \in Ids \ {c} : Same(m, r, i)
  BY <1>2, <1>4, <1>5 DEF Same, Sane
<1>8. Sane(r)
  BY <1>2, <1>4, <1>5, <1>6 DEF Sane
<1>9. Full(r, c)
  BY <1>2, <1>6 DEF Full
<1>10. QED
  BY <1>1, <1>2, <1>5, <1>7, <1>8, <1>9 DEF Built, b, c

LEMMA TurnedDownBuilt ==
    ASSUME NEW m, Sane(m), m.fault = "none", HasRoom(m.ctx), HasRoom(m.lib), HasLibState,
           codec \in FailingCodecs, codec = [lib |-> "zstd", side |-> "deflate"]
    PROVE  Built(m, TurnedDown(m))
<1> DEFINE b == TurnedDown(m)
           a == FullCtx(m)
<1>1. b.mem = a.mem /\ b.ud = a.ud /\ b.ok = FALSE
  BY DEF TurnedDown, FullCtx
<1>2. Built(m, a) /\ Full(a.mem, a.ud) /\ a.ok
  BY FullCtxBuilt DEF FullCtx
<1> HIDE DEF a, b
<1>3. Accounted(a.mem, a.ud)
  BY DEF Accounted, ByInit
<1>4. QED
  BY <1>1, <1>2, <1>3 DEF Built, Half, b

LEMMA HollowCtxBuilt ==
    ASSUME NEW m, Sane(m), m.fault = "none", HasRoom(m.ctx), HasLibState,
           codec \in FailingCodecs, Admitted, codec.side \in {"deflate", "inflate"},
           codec = [lib |-> codec.lib, side |-> codec.side]
    PROVE  Built(m, HollowCtx(m))
<1> DEFINE b == HollowCtx(m)
           c == Fresh(m.ctx)
           f == [m EXCEPT !.ctx[c] = Live(LeftBehind)]
<1>1. OnLibFailure \in {"reports", "faults"}
  BY DEF OnLibFailure, Admitted
<1>2. b.ud = c /\ b.ok = FALSE
      /\ b.mem = IF OnLibFailure = "faults" THEN Failed(f, "null") ELSE f
  BY <1>1 DEF HollowCtx
<1>3. LeftBehind \in {NULL, Junk} /\ LeftBehind \notin Ids
  BY DEF LeftBehind, NULL, Junk, Ids
<1>4. /\ Sane(f) /\ f.fault = "none" /\ f.ctx[c] = Live(LeftBehind)
      /\ c \in Ids /\ m.ctx[c].state = "unused"
      /\ \A i \in Ids \ {c} : Same(m, f, i)
  BY <1>3, CtxAdded
<1> HIDE DEF b, c, f
<1>5. f \in Memories /\ "null" \in Faults
  BY <1>4 DEF Sane, Faults
<1>6. /\ b.mem \in Memories /\ b.mem.ctx = f.ctx /\ b.mem.lib = f.lib
      /\ b.mem.fault # "none" => OnLibFailure = "faults"
  BY <1>2, <1>4, <1>5, Faulted
<1>7. Sane(b.mem) /\ \A i \in Ids \ {c} : Same(m, b.mem, i)
  BY <1>4, <1>6 DEF Sane, Same
<1>8. b.mem.ctx[c].state = "live" /\ b.mem.ctx[c].ref = LeftBehind
  BY <1>4, <1>6 DEF Live
<1>9. Accounted(b.mem, c) /\ Half(b.mem, c)
  BY <1>3, <1>4, <1>8 DEF Accounted, ByInit, Half
<1>10. QED
  BY <1>2, <1>4, <1>6, <1>7, <1>9 DEF Built, Excused, Prepared, b

LEMMA BuildsKeep ==
    ASSUME NEW m, Sane(m), m.fault = "none", HasRoom(m.ctx), HasRoom(m.lib), Admitted,
           codec \in Codecs,
           NEW checked \in BOOLEAN, ~checked => ~Prepared, NEW b \in Builds(m, checked)
    PROVE  Built(m, b)
<1>1. codec.side \in {"deflate", "inflate"} /\ codec = [lib |-> codec.lib, side |-> codec.side]
  BY CodecAssumption DEF AllCodecs
<1>2. ASSUME codec \in FailingCodecs, b \in Failures(m, checked)
      PROVE  Built(m, b)
  <2>1. \/ b = NoCtx(m, checked)
        \/ HasLibState /\ b = HollowCtx(m)
        \/ codec = [lib |-> "zstd", side |-> "deflate"] /\ b = TurnedDown(m)
    BY <1>2 DEF Failures
  <2>2. codec = [lib |-> "zstd", side |-> "deflate"] => HasLibState
    BY DEF HasLibState
  <2>3. QED
    BY <1>1, <1>2, <2>1, <2>2, NoCtxBuilt, HollowCtxBuilt, TurnedDownBuilt
<1>3. ASSUME b = IF HasLibState THEN FullCtx(m) ELSE PlainCtx(m)
      PROVE  Built(m, b)
  BY <1>3, FullCtxBuilt, PlainCtxBuilt
<1>4. QED
  BY <1>2, <1>3 DEF Builds

\* The invariant, of any memory and any streams: they hold what they should,
\* each its own, and the rest is accounted for.
Good(m, S) ==
    /\ S \in [Streams -> [ud : Ids \cup {NULL}, phase : Phases]]
    /\ Sane(m)
    /\ m.fault # "none" => Excused
    /\ \A s \in Streams : S[s].phase = "open" => Full(m, S[s].ud)
    /\ m.fault = "none" => \A s \in Streams : S[s].phase = "failed" => Half(m, S[s].ud)
    /\ \A s, t \in Streams :
          s # t /\ S[s].phase # "closed" /\ S[t].phase # "closed" /\ S[s].ud = S[t].ud
             => S[s].ud = NULL
    /\ \A i \in Ids :
          (\A s \in Streams : S[s].phase = "closed" \/ S[s].ud # i) => Accounted(m, i)

LifeIInv == codec \in Codecs /\ Good(mem, strm)

LEMMA Steady == codec' = codec /\ codec \in Codecs /\ Good(mem', strm') => LifeIInv'
<1> SUFFICES ASSUME codec' = codec, codec \in Codecs, Good(mem', strm') PROVE LifeIInv'
  OBVIOUS
<1>1. (HasLibState' <=> HasLibState) /\ (EndFreesCtx' <=> EndFreesCtx) /\ LeftBehind' = LeftBehind
  BY DEF HasLibState, EndFreesCtx, LeftBehind
<1>2. Prepared' <=> Prepared
  <2>1. /\ InitChecksNull' <=> InitChecksNull
        /\ ResetChecksNull' <=> ResetChecksNull
        /\ EndChecksNull' <=> EndChecksNull
        /\ OnLibFailure' = OnLibFailure
    BY DEF InitChecksNull, ResetChecksNull, EndChecksNull, OnLibFailure
  <2>2. QED
    BY <1>1, <2>1, Zenon DEF Prepared
<1>3. Sane(mem)' /\ (Excused' <=> Excused)
  BY <1>1, <1>2 DEF Good, Sane, Excused
<1>4. /\ \A s \in Streams : strm'[s].phase = "open" => Full(mem, strm[s].ud)'
      /\ mem'.fault = "none" => \A s \in Streams : strm'[s].phase = "failed" => Half(mem, strm[s].ud)'
  BY <1>1 DEF Good, Full, Half
<1>5. ASSUME NEW i \in Ids PROVE Accounted(mem', i) => Accounted(mem, i)'
  BY <1>1 DEF Accounted, ByInit, ByEnd
<1>6. QED
  BY <1>3, <1>4, <1>5 DEF LifeIInv, Good

LEMMA Holds ==
    ASSUME NEW m, NEW S, Good(m, S), m.fault = "none",
           NEW t \in Streams, S[t].phase # "closed"
    PROVE  /\ Full(m, S[t].ud) \/ Half(m, S[t].ud)
           /\ S[t].ud = NULL \/ (S[t].ud \in Ids /\ m.ctx[S[t].ud].state = "live")
           /\ S[t].phase \in {"open", "failed"}
<1>1. S[t].phase \in {"open", "failed"}
  BY DEF Good, Phases
<1>2. Full(m, S[t].ud) \/ Half(m, S[t].ud)
  BY <1>1 DEF Good
<1>3. QED
  BY <1>1, <1>2 DEF Full, Half

\* A stream without a ctx is given one.
LEMMA InitKeeps ==
    ASSUME NEW m, NEW S, Good(m, S), m.fault = "none", NEW s \in Streams, S[s].phase = "closed",
           NEW b, Built(m, b)
    PROVE  Good(b.mem, [S EXCEPT ![s] = [ud |-> b.ud, phase |-> IF b.ok THEN "open" ELSE "closed"]])
<1> DEFINE p == IF b.ok THEN "open" ELSE "closed"
           T == [S EXCEPT ![s] = [ud |-> b.ud, phase |-> p]]
           r == b.mem
<1>1. /\ S \in [Streams -> [ud : Ids \cup {NULL}, phase : Phases]] /\ Sane(m)
      /\ NULL \notin Ids /\ p \in Phases
  BY DEF Good, Ids, NULL, Phases
<1>2. /\ Sane(r) /\ b.ud \in Ids \cup {NULL} /\ (r.fault # "none" => Excused)
      /\ b.ud \in Ids => m.ctx[b.ud].state = "unused"
      /\ \A i \in Ids \ {b.ud} : Same(m, r, i)
      /\ p = "open" => Full(r, b.ud)
      /\ p # "open" /\ b.ud \in Ids => Accounted(r, b.ud)
      /\ p \in {"open", "closed"}
  BY DEF Built
<1> HIDE DEF p
<1>3. /\ T \in [Streams -> [ud : Ids \cup {NULL}, phase : Phases]]
      /\ T[s].ud = b.ud /\ T[s].phase = p
      /\ \A t \in Streams \ {s} : T[t] = S[t]
  BY <1>1, <1>2
<1> HIDE DEF T, r
<1>4. ASSUME NEW t \in Streams, t # s, S[t].phase # "closed"
      PROVE  /\ S[t].ud = NULL \/ (S[t].ud \in Ids /\ S[t].ud # b.ud /\ Same(m, r, S[t].ud))
  BY <1>2, <1>4, Holds
<1>5. ASSUME NEW t \in Streams, T[t].phase = "open"
      PROVE  Full(r, T[t].ud)
  <2>1. CASE t = s
    BY <1>2, <1>3, <1>5, <2>1
  <2>2. CASE t # s
    <3>1. Full(m, S[t].ud) /\ S[t].ud # NULL
      BY <1>1, <1>3, <1>5, <2>2 DEF Good, Full
    <3>2. QED
      BY <1>3, <1>4, <1>5, <2>2, <3>1, Frame
  <2>3. QED
    BY <2>1, <2>2
<1>6. ASSUME NEW t \in Streams, T[t].phase = "failed"
      PROVE  Half(r, T[t].ud)
  <2>1. t # s
    BY <1>2, <1>3, <1>6
  <2>2. Half(m, S[t].ud)
    BY <1>3, <1>6, <2>1 DEF Good
  <2>3. CASE S[t].ud = NULL
    BY <1>3, <2>1, <2>2, <2>3 DEF Half
  <2>4. CASE S[t].ud # NULL
    BY <1>3, <1>4, <1>6, <2>1, <2>2, <2>4, Frame
  <2>5. QED
    BY <2>3, <2>4
<1>7. ASSUME NEW t \in Streams, NEW u \in Streams, t # u, T[t].phase # "closed",
             T[u].phase # "closed", T[t].ud = T[u].ud
      PROVE  T[t].ud = NULL
  BY <1>3, <1>4, <1>7 DEF Good
<1>8. ASSUME NEW i \in Ids, \A t \in Streams : T[t].phase = "closed" \/ T[t].ud # i
      PROVE  Accounted(r, i)
  <2>1. CASE i = b.ud
    BY <1>2, <1>3, <1>8, <2>1
  <2>2. CASE i # b.ud
    <3>1. \A t \in Streams : S[t].phase = "closed" \/ S[t].ud # i
      BY <1>3, <1>8
    <3>2. QED
      BY <1>2, <2>2, <3>1, Frame DEF Good
  <2>3. QED
    BY <2>1, <2>2
<1>9. Good(r, T)
  BY <1>2, <1>3, <1>5, <1>6, <1>7, <1>8 DEF Good
<1>10. QED
  BY <1>9 DEF r, T, p

\* A stream that holds c gives it up for what is built.
LEMMA ReplaceKeeps ==
    ASSUME NEW m, NEW S, Good(m, S), m.fault = "none", NEW s \in Streams, S[s].phase # "closed",
           NEW f, GivenUp(m, f, S[s].ud), NEW b, Built(f, b)
    PROVE  Good(b.mem, [S EXCEPT ![s] = [ud |-> b.ud, phase |-> IF b.ok THEN "open" ELSE "failed"]])
<1> DEFINE p == IF b.ok THEN "open" ELSE "failed"
           T == [S EXCEPT ![s] = [ud |-> b.ud, phase |-> p]]
           r == b.mem
           c == S[s].ud
<1>1. /\ S \in [Streams -> [ud : Ids \cup {NULL}, phase : Phases]] /\ Sane(m)
      /\ NULL \notin Ids /\ p \in Phases
  BY DEF Good, Ids, NULL, Phases
<1>2. /\ Sane(r) /\ b.ud \in Ids \cup {NULL} /\ (r.fault # "none" => Excused)
      /\ b.ud \in Ids => f.ctx[b.ud].state = "unused"
      /\ \A i \in Ids \ {b.ud} : Same(f, r, i)
      /\ p = "open" => Full(r, b.ud)
      /\ p = "failed" /\ r.fault = "none" => Half(r, b.ud)
      /\ p \in {"open", "failed"}
  BY DEF Built
<1>3. /\ \A i \in Ids \ {c} : Same(m, f, i)
      /\ c \in Ids => Accounted(f, c)
  BY DEF GivenUp
<1> HIDE DEF p
<1>4. /\ T \in [Streams -> [ud : Ids \cup {NULL}, phase : Phases]]
      /\ T[s].ud = b.ud /\ T[s].phase = p
      /\ \A t \in Streams \ {s} : T[t] = S[t]
  BY <1>1, <1>2
<1> HIDE DEF T, r
<1>5. ASSUME NEW t \in Streams, t # s, S[t].phase # "closed"
      PROVE  S[t].ud = NULL \/ /\ S[t].ud \in Ids /\ S[t].ud # c /\ S[t].ud # b.ud
                               /\ Same(m, f, S[t].ud) /\ Same(f, r, S[t].ud)
  <2>1. S[t].ud = NULL \/ (S[t].ud \in Ids /\ m.ctx[S[t].ud].state = "live")
    BY <1>5, Holds
  <2>2. S[t].ud # NULL => S[t].ud # c
    BY <1>5 DEF Good
  <2>3. QED
    BY <1>2, <1>3, <2>1, <2>2 DEF Same
<1>6. ASSUME NEW t \in Streams, T[t].phase = "open"
      PROVE  Full(r, T[t].ud)
  <2>1. CASE t = s
    BY <1>2, <1>4, <1>6, <2>1
  <2>2. CASE t # s
    <3>1. Full(m, S[t].ud) /\ S[t].ud # NULL
      BY <1>1, <1>4, <1>6, <2>2 DEF Good, Full
    <3>2. Same(m, f, S[t].ud) /\ Same(f, r, S[t].ud)
      BY <1>4, <1>5, <1>6, <2>2, <3>1
    <3>3. QED
      BY <1>4, <2>2, <3>1, <3>2, Frame
  <2>3. QED
    BY <2>1, <2>2
<1>7. ASSUME r.fault = "none", NEW t \in Streams, T[t].phase = "failed"
      PROVE  Half(r, T[t].ud)
  <2>1. CASE t = s
    BY <1>2, <1>4, <1>7, <2>1
  <2>2. CASE t # s
    <3>1. Half(m, S[t].ud)
      BY <1>4, <1>7, <2>2 DEF Good
    <3>2. CASE S[t].ud = NULL
      BY <1>4, <2>2, <3>1, <3>2 DEF Half
    <3>3. CASE S[t].ud # NULL
      <4>1. Same(m, f, S[t].ud) /\ Same(f, r, S[t].ud)
        BY <1>4, <1>5, <1>7, <2>2, <3>3
      <4>2. QED
        BY <1>4, <2>2, <3>1, <4>1, Frame
    <3>4. QED
      BY <3>2, <3>3
  <2>3. QED
    BY <2>1, <2>2
<1>8. ASSUME NEW t \in Streams, NEW u \in Streams, t # u, T[t].phase # "closed",
             T[u].phase # "closed", T[t].ud = T[u].ud
      PROVE  T[t].ud = NULL
  BY <1>4, <1>5, <1>8 DEF Good
<1>9. ASSUME NEW i \in Ids, \A t \in Streams : T[t].phase = "closed" \/ T[t].ud # i
      PROVE  Accounted(r, i)
  <2>1. i # b.ud
    BY <1>2, <1>4, <1>9
  <2>2. CASE i = c
    BY <1>2, <1>3, <2>1, <2>2, Frame
  <2>3. CASE i # c
    <3>1. \A t \in Streams : S[t].phase = "closed" \/ S[t].ud # i
      BY <1>4, <1>9, <2>3
    <3>2. Accounted(m, i)
      BY <3>1 DEF Good
    <3>3. Accounted(f, i)
      BY <1>3, <2>3, <3>2, Frame
    <3>4. QED
      BY <1>2, <2>1, <3>3, Frame
  <2>4. QED
    BY <2>2, <2>3
<1>10. Good(r, T)
  BY <1>2, <1>4, <1>6, <1>7, <1>8, <1>9 DEF Good
<1>11. QED
  BY <1>10 DEF r, T, p

LEMMA InitStep ==
    ASSUME LifeIInv, Admitted, NEW s \in Streams, InitCB(s)
    PROVE  LifeIInv'
<1>1. /\ mem.fault = "none" /\ codec' = codec /\ codec \in Codecs /\ strm[s].phase = "closed"
      /\ Good(mem, strm) /\ Sane(mem) /\ HasRoom(mem.ctx) /\ HasRoom(mem.lib)
  BY DEF LifeIInv, Good, InitCB, Running, CanAllocate
<1>2. PICK b \in Builds(mem, InitChecksNull) :
          /\ mem' = b.mem
          /\ strm' = [strm EXCEPT ![s] =
                [ud |-> b.ud, phase |-> IF b.ok THEN "open" ELSE "closed"]]
  BY DEF InitCB
<1>3. InitChecksNull \in BOOLEAN /\ (~InitChecksNull => ~Prepared)
  BY DEF InitChecksNull, Prepared
<1>4. Built(mem, b)
  BY <1>1, <1>3, BuildsKeep
<1>5. Good(mem', strm')
  BY <1>1, <1>2, <1>4, InitKeeps
<1>6. QED
  BY <1>1, <1>5, Steady

\* What is given up makes no room less.
LEMMA RoomKept ==
    ASSUME NEW m, NEW f, NEW c, GivenUp(m, f, c), HasRoom(m.ctx), HasRoom(m.lib),
           c \in Ids => m.ctx[c].state # "unused"
    PROVE  HasRoom(f.ctx) /\ HasRoom(f.lib)
BY DEF GivenUp, Same, HasRoom

LEMMA ResetStep ==
    ASSUME LifeIInv, Admitted, NEW s \in Streams, ResetCB(s)
    PROVE  LifeIInv'
<1> DEFINE c == strm[s].ud
           f == Release(mem, c)
<1>1. /\ mem.fault = "none" /\ codec' = codec /\ codec \in Codecs /\ strm[s].phase # "closed"
      /\ Good(mem, strm) /\ Sane(mem) /\ HasRoom(mem.ctx) /\ HasRoom(mem.lib)
  BY DEF LifeIInv, Good, ResetCB, Running, CanAllocate
<1>2. /\ Full(mem, c) \/ Half(mem, c)
      /\ c = NULL \/ (c \in Ids /\ mem.ctx[c].state = "live")
      /\ strm[s].phase \in {"open", "failed"}
  BY <1>1, Holds
<1>3. /\ GivenUp(mem, f, c)
      /\ Full(mem, c) => f.fault = "none"
      /\ f.fault # "none" => Excused
  BY <1>1, <1>2, ReleaseKeeps
<1>4. ResetChecksNull \in BOOLEAN /\ (~ResetChecksNull => ~Prepared)
  BY DEF ResetChecksNull, Prepared
<1>5. CASE f.fault # "none"
  <2>1. mem' = f /\ strm' = strm
    BY <1>5 DEF ResetCB
  <2>2. strm[s].phase # "open"
    BY <1>1, <1>3, <1>5 DEF Good
  <2> HIDE DEF f
  <2>3. Good(f, strm)
    <3>1. strm \in [Streams -> [ud : Ids \cup {NULL}, phase : Phases]] /\ Sane(f) /\ NULL \notin Ids
      BY <1>1, <1>3 DEF Good, GivenUp, Ids, NULL
    <3>2. ASSUME NEW t \in Streams, strm[t].phase = "open"
          PROVE  Full(f, strm[t].ud)
      <4>1. Full(mem, strm[t].ud) /\ strm[t].ud \in Ids /\ t # s
        BY <1>1, <2>2, <3>2 DEF Good, Full
      <4>2. strm[t].ud # c
        BY <1>1, <3>1, <3>2, <4>1 DEF Good
      <4>3. QED
        BY <1>3, <4>1, <4>2, Frame DEF GivenUp
    <3>3. ASSUME NEW i \in Ids,
                 \A t \in Streams : strm[t].phase = "closed" \/ strm[t].ud # i
          PROVE  Accounted(f, i)
      <4>1. i # c /\ Accounted(mem, i)
        BY <1>1, <3>3 DEF Good
      <4>2. QED
        BY <1>3, <4>1, Frame DEF GivenUp
    <3>4. QED
      BY <1>1, <1>3, <1>5, <3>1, <3>2, <3>3 DEF Good
  <2>4. QED
    BY <1>1, <2>1, <2>3, Steady
<1>6. CASE f.fault = "none"
  <2>1. PICK b \in Builds(f, ResetChecksNull) :
            /\ mem' = b.mem
            /\ strm' = [strm EXCEPT ![s] =
                  [ud |-> b.ud, phase |-> IF b.ok THEN "open" ELSE "failed"]]
    BY <1>6 DEF ResetCB
  <2> HIDE DEF f
  <2>2. Sane(f) /\ HasRoom(f.ctx) /\ HasRoom(f.lib)
    <3>1. c \in Ids => mem.ctx[c].state # "unused"
      BY <1>2 DEF Ids, NULL
    <3>2. QED
      BY <1>1, <1>3, <3>1, RoomKept DEF GivenUp
  <2>3. Built(f, b)
    BY <1>1, <1>4, <1>6, <2>2, BuildsKeep
  <2>4. Good(mem', strm')
    BY <1>1, <1>3, <2>1, <2>3, ReplaceKeeps
  <2>5. QED
    BY <1>1, <2>4, Steady
<1>7. QED
  BY <1>5, <1>6

LEMMA EndStep ==
    ASSUME LifeIInv, NEW s \in Streams, EndCB(s)
    PROVE  LifeIInv'
<1> DEFINE c == strm[s].ud
           f == Release(mem, c)
           T == [strm EXCEPT ![s].phase = "closed"]
<1>1. /\ mem.fault = "none" /\ codec' = codec /\ codec \in Codecs /\ strm[s].phase # "closed"
      /\ Good(mem, strm) /\ Sane(mem) /\ mem' = f /\ strm' = T
  BY DEF LifeIInv, Good, EndCB, Running
<1>2. Full(mem, c) \/ Half(mem, c)
  BY <1>1, Holds
<1>3. GivenUp(mem, f, c) /\ (f.fault # "none" => Excused)
  BY <1>1, <1>2, ReleaseKeeps
<1>4. /\ T \in [Streams -> [ud : Ids \cup {NULL}, phase : Phases]]
      /\ T[s].phase = "closed" /\ T[s].ud = c
      /\ \A t \in Streams \ {s} : T[t] = strm[t]
      /\ NULL \notin Ids
  BY <1>1 DEF Good, Phases, Ids, NULL
<1> HIDE DEF f, T
<1>5. ASSUME NEW t \in Streams, T[t].phase # "closed"
      PROVE  t # s /\ T[t] = strm[t] /\ (strm[t].ud \in Ids => Same(mem, f, strm[t].ud))
  <2>1. t # s /\ T[t] = strm[t]
    BY <1>4, <1>5
  <2>2. strm[t].ud \in Ids => strm[t].ud # c
    BY <1>1, <1>4, <1>5, <2>1 DEF Good
  <2>3. QED
    BY <1>3, <2>1, <2>2 DEF GivenUp
<1>6. ASSUME NEW t \in Streams, T[t].phase = "open"
      PROVE  Full(f, T[t].ud)
  <2>1. Full(mem, strm[t].ud) /\ strm[t].ud \in Ids
    BY <1>1, <1>5, <1>6 DEF Good, Full
  <2>2. QED
    BY <1>5, <1>6, <2>1, Frame
<1>7. ASSUME NEW t \in Streams, T[t].phase = "failed"
      PROVE  Half(f, T[t].ud)
  <2>1. Half(mem, strm[t].ud)
    BY <1>1, <1>5, <1>7 DEF Good
  <2>2. CASE strm[t].ud \in Ids
    BY <1>5, <1>7, <2>1, <2>2, Frame
  <2>3. CASE strm[t].ud \notin Ids
    BY <1>5, <1>7, <2>1, <2>3 DEF Half, Full
  <2>4. QED
    BY <2>2, <2>3
<1>8. ASSUME NEW t \in Streams, NEW u \in Streams, t # u, T[t].phase # "closed",
             T[u].phase # "closed", T[t].ud = T[u].ud
      PROVE  T[t].ud = NULL
  BY <1>1, <1>5, <1>8 DEF Good
<1>9. ASSUME NEW i \in Ids, \A t \in Streams : T[t].phase = "closed" \/ T[t].ud # i
      PROVE  Accounted(f, i)
  <2>1. CASE i = c
    BY <1>3, <2>1 DEF GivenUp
  <2>2. CASE i # c
    <3>1. \A t \in Streams : strm[t].phase = "closed" \/ strm[t].ud # i
      BY <1>4, <1>9, <2>2
    <3>2. Accounted(mem, i)
      BY <1>1, <3>1 DEF Good
    <3>3. QED
      BY <1>3, <2>2, <3>2, Frame DEF GivenUp
  <2>3. QED
    BY <2>1, <2>2
<1>10. Sane(f)
  BY <1>3 DEF GivenUp
<1>11. Good(f, T)
  BY <1>3, <1>4, <1>6, <1>7, <1>8, <1>9, <1>10 DEF Good
<1>12. QED
  BY <1>1, <1>11, Steady

\* A step that changes nothing a stream holds.
LEMMA SameMemory ==
    ASSUME NEW m, NEW S, Good(m, S), m.fault = "none",
           NEW r \in Memories, r.ctx = m.ctx, r.lib = m.lib, r.fault = "none"
    PROVE  Good(r, S)
<1>1. Sane(r)
  BY DEF Good, Sane
<1>2. \A i : Same(m, r, i)
  BY DEF Same
<1>3. \A i : /\ Full(m, i) => Full(r, i)
             /\ Half(m, i) => Half(r, i)
             /\ Accounted(m, i) => Accounted(r, i)
  BY <1>2, Frame
<1>4. QED
  BY <1>1, <1>3 DEF Good

LEMMA UseStep ==
    ASSUME LifeIInv, NEW s \in Streams, UseCB(s)
    PROVE  LifeIInv'
<1> DEFINE f == Failed(mem, OnUse(mem, strm[s].ud))
<1>1. /\ mem.fault = "none" /\ codec' = codec /\ codec \in Codecs
      /\ Good(mem, strm) /\ mem \in Memories /\ mem' = f /\ strm' = strm
      /\ Full(mem, strm[s].ud)
  BY DEF LifeIInv, Good, Sane, UseCB, Running
<1>2. OnUse(mem, strm[s].ud) = "none"
  <2> DEFINE c == strm[s].ud
             h == mem.ctx[c].ref
  <2>1. /\ c # NULL /\ mem.ctx[c].state = "live"
        /\ HasLibState => h # NULL /\ h # Junk /\ mem.lib[h].state = "live"
    BY <1>1 DEF Full, Ids, NULL, Junk
  <2>2. QED
    BY <2>1 DEF OnUse
<1>3. "none" \in Faults
  BY DEF Faults
<1> HIDE DEF f
<1>4. f \in Memories /\ f.ctx = mem.ctx /\ f.lib = mem.lib /\ f.fault = "none"
  BY <1>1, <1>2, <1>3, Faulted DEF f
<1>5. Good(f, strm)
  BY <1>1, <1>4, SameMemory
<1>6. QED
  BY <1>1, <1>5, Steady

LEMMA CopyStep ==
    ASSUME LifeIInv, Admitted, NEW d \in Streams, NEW s \in Streams, CopyCB(d, s)
    PROVE  LifeIInv'
<1> DEFINE c == strm[d].ud
           e == strm[s].ud
           f == [mem EXCEPT !.ctx[c].ref = mem.ctx[e].ref]
<1>1. /\ mem.fault = "none" /\ codec' = codec /\ codec \in Codecs
      /\ Good(mem, strm) /\ mem \in Memories /\ mem' = f /\ strm' = strm
      /\ Full(mem, c) /\ Full(mem, e) /\ Sane(mem)
      /\ codec \in CopyingCodecs /\ codec.lib # "uadk"
  BY DEF LifeIInv, Good, Sane, CopyCB, Running, CopyIsInit
<1>2. ~HasLibState
  BY <1>1 DEF Admitted, HasLibState
<1>3. c \in Ids /\ e \in Ids /\ mem.ctx[c].ref = NULL /\ mem.ctx[e].ref = NULL
  BY <1>1, <1>2 DEF Full, Sane
<1>4. f = mem
  BY <1>1, <1>3 DEF Memories, Blocks
<1>5. QED
  BY <1>1, <1>4, Steady

LEMMA CopyAnewStep ==
    ASSUME LifeIInv, Admitted, NEW d \in Streams, NEW s \in Streams, CopyAnewCB(d, s)
    PROVE  LifeIInv'
<1> DEFINE c == strm[d].ud
           f == Forget(mem, c)
<1>1. /\ mem.fault = "none" /\ codec' = codec /\ codec \in Codecs /\ strm[d].phase # "closed"
      /\ Good(mem, strm) /\ Sane(mem) /\ HasRoom(mem.ctx) /\ HasRoom(mem.lib)
      /\ Full(mem, c) /\ HasLibState
  BY DEF LifeIInv, Good, CopyAnewCB, Running, CanAllocate, CopyIsInit, HasLibState
<1>2. GivenUp(mem, f, c) /\ f.fault = "none"
  BY <1>1, ForgetKeeps
<1>3. PICK b \in Builds(f, InitChecksNull) :
          /\ mem' = b.mem
          /\ strm' = [strm EXCEPT ![d] =
                [ud |-> b.ud, phase |-> IF b.ok THEN "open" ELSE "failed"]]
  BY DEF CopyAnewCB
<1>4. InitChecksNull \in BOOLEAN /\ (~InitChecksNull => ~Prepared)
  BY DEF InitChecksNull, Prepared
<1> HIDE DEF f
<1>5. Sane(f) /\ HasRoom(f.ctx) /\ HasRoom(f.lib)
  BY <1>1, <1>2, RoomKept DEF GivenUp, Full
<1>6. Built(f, b)
  BY <1>1, <1>2, <1>4, <1>5, BuildsKeep
<1>7. Good(mem', strm')
  BY <1>1, <1>2, <1>3, <1>6, ReplaceKeeps
<1>8. QED
  BY <1>1, <1>7, Steady

LEMMA LifeInitially == Init => LifeIInv
<1> SUFFICES ASSUME Init PROVE LifeIInv
  OBVIOUS
<1>1. mem.ctx = [i \in Ids |-> Unused] /\ mem.lib = [i \in Ids |-> Unused] /\ mem.fault = "none"
  BY DEF Init
<1>2. mem \in Memories
  BY DEF Init, Memories, Blocks, Unused, Faults
<1>3. Sane(mem)
  BY <1>1, <1>2 DEF Sane, Unused, Ids, NULL
<1>4. \A i \in Ids : Accounted(mem, i)
  BY <1>1 DEF Accounted, Unused, Ids, NULL
<1>5. /\ strm \in [Streams -> [ud : Ids \cup {NULL}, phase : Phases]]
      /\ \A s \in Streams : strm[s].phase = "closed"
  BY DEF Init, Phases
<1>6. QED
  BY <1>1, <1>3, <1>4, <1>5 DEF LifeIInv, Good, Init

\* Through every order of Init, Reset, End, use and Copy of any streams, and
\* every failure on the way: who holds what is as Good says.
THEOREM LifeInvariance == ASSUME Admitted PROVE Spec => []LifeIInv
<1>1. ASSUME LifeIInv, [Next]_vars
      PROVE  LifeIInv'
  <2>1. CASE UNCHANGED vars
    BY <1>1, <2>1, Steady DEF LifeIInv, vars
  <2>2. ASSUME NEW s \in Streams, InitCB(s) \/ ResetCB(s) \/ EndCB(s) \/ UseCB(s)
        PROVE  LifeIInv'
    BY <1>1, <2>2, InitStep, ResetStep, EndStep, UseStep
  <2>3. ASSUME NEW d \in Streams, NEW s \in Streams, CopyCB(d, s) \/ CopyAnewCB(d, s)
        PROVE  LifeIInv'
    BY <1>1, <2>3, CopyStep, CopyAnewStep
  <2>4. QED
    BY <1>1, <2>1, <2>2, <2>3 DEF Next
<1>2. QED
  BY <1>1, LifeInitially, PTL DEF Spec

\* FailuresAreHandled, for any number of streams and blocks: no callback goes
\* through a NULL, an uninitialised or a stale pointer, unless an allocation
\* failed in an adapter that is not prepared for it.
THEOREM FailuresHandled == ASSUME Admitted PROVE Spec => []FailuresAreHandled
<1>1. LifeIInv => FailuresAreHandled
  BY DEF LifeIInv, Good, Excused, FailuresAreHandled
<1>2. QED
  BY <1>1, LifeInvariance, PTL

\* Private, for any number of streams and blocks: the ctx and the library state
\* of an open stream are alive and no other stream's.
THEOREM StreamsArePrivate == ASSUME Admitted PROVE Spec => []Private
<1>1. ASSUME LifeIInv PROVE Private
  <2>1. TypeOK
    BY <1>1 DEF LifeIInv, Good, Sane, Memories, TypeOK
  <2>2. ASSUME NEW s \in Open
        PROVE  LET c == strm[s].ud
               IN  /\ c # NULL
                   /\ mem.ctx[c].state = "live"
                   /\ HasLibState =>
                         /\ mem.ctx[c].ref \in Ids
                         /\ mem.lib[mem.ctx[c].ref] = Live(c)
    <3> DEFINE c == strm[s].ud
               h == mem.ctx[c].ref
    <3>1. Full(mem, c) /\ Sane(mem) /\ mem \in Memories
      BY <1>1 DEF LifeIInv, Good, Open, Sane
    <3>2. HasLibState => /\ h \in Ids /\ mem.lib[h].state = "live"
                         /\ mem.lib[h].ref = c /\ mem.lib[h] \in Blocks
      BY <3>1 DEF Full, Sane, Memories
    <3>3. HasLibState => mem.lib[h] = Live(c)
      BY <3>2 DEF Live, Blocks
    <3>4. c # NULL /\ mem.ctx[c].state = "live"
      BY <3>1 DEF Full, Ids, NULL
    <3>5. QED
      BY <3>2, <3>3, <3>4
  <2>3. \A s, t \in Open : s # t => strm[s].ud # strm[t].ud
    BY <1>1, <2>2 DEF LifeIInv, Good, Open
  <2>4. QED
    BY <2>1, <2>2, <2>3 DEF Private
<1>2. QED
  BY <1>1, LifeInvariance, PTL

\* NoLeak, for any number of streams and blocks: what is allocated is behind a
\* stream that its caller will end, or was left by a failed Init, by uadk's End
\* or by uadk's Copy.
THEOREM NothingLeaks == ASSUME Admitted PROVE Spec => []NoLeak
<1>1. ASSUME LifeIInv, NEW i \in Ids
      PROVE  i \in Held \/ Accounted(mem, i)
  BY <1>1 DEF LifeIInv, Good, Held
<1>2. ASSUME LifeIInv, NEW i \in Ids
      PROVE  /\ ByInit(mem, i) <=> LeftByInit(i)
             /\ ByEnd(mem, i) <=> LeftByEnd(i)
  BY DEF ByInit, ByEnd, LeftByInit, LeftByEnd
<1>3. ASSUME LifeIInv, NEW i \in Ids, mem.ctx[i].state = "live"
      PROVE  i \in Held \/ LeftByInit(i) \/ LeftByEnd(i)
  BY <1>1, <1>2, <1>3 DEF Accounted
<1>4. ASSUME LifeIInv, NEW i \in Ids, mem.lib[i].state = "live"
      PROVE  \E c \in Ids : /\ mem.ctx[c].ref = i
                            /\ c \in Held \/ LeftByInit(c)
  <2>1. mem.lib[i].ref \in Ids /\ mem.ctx[mem.lib[i].ref].ref = i
    BY <1>4 DEF LifeIInv, Good, Sane
  <2>2. QED
    BY <1>1, <1>2, <1>4, <2>1 DEF Accounted
<1>5. LifeIInv => NoLeak
  BY <1>3, <1>4 DEF NoLeak
<1>6. QED
  BY <1>5, LifeInvariance, PTL

=============================================================================
