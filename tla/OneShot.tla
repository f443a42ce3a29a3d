------------------------------- MODULE OneShot -------------------------------
(***************************************************************************)
(* The calls that do everything at once: compress, uncompress and          *)
(* compressBound of the seven adapters over software libraries, with the   *)
(* functions under them.  (zlib's and gzip's are zlib's own; the           *)
(* accelerator's are in UadkPump.)                                         *)
(*                                                                         *)
(* *destLen goes in as the room there is and comes out as the length of    *)
(* the result.  bzip2's library takes it as an unsigned int *, which is    *)
(* the lower half of an unsigned long, and lz4's as an int; 7zip's does    *)
(* not count the properties in front.  When there is too little room the   *)
(* adapters return five different codes, and two of their calls return OK. *)
(*                                                                         *)
(* A buffer is abstracted to how much of the source it stands for.         *)
(***************************************************************************)
EXTENDS ZStream

CONSTANTS Lengths,   \* lengths of sources
          Rooms,     \* room a caller may have
          UInt,      \* values of an unsigned int, 2^32
          ULong,     \* values of an unsigned long, 2^64
          Growth,    \* the most a coded form is longer than its source
          PropsLen   \* LZMA_PROPS_SIZE

ASSUME PropsAssumption  == PropsLen \in Nat \ {0}
ASSUME GrowthAssumption == Growth \in Nat /\ Growth > PropsLen
ASSUME WidthAssumption  ==
    UInt \in Nat \ {0} /\ UInt % 2 = 0 /\ ULong \in Nat \ {0} /\ ULong % UInt = 0
ASSUME LengthAssumption == Lengths \cup Rooms \subseteq 0 .. ULong - 1

VARIABLES codec,   \* which adapter
          src,     \* the source: its length n, and form, that of its coded form
          coded,   \* what the buffers of the coded and of the plain form hold
          plain,
          room,    \* what the caller will pass in *destLen
          kept,    \* no length it passed was cut
          status,  \* what the last call returned
          phase    \* what the caller has: nothing, plain, coded, all done

vars == <<codec, src, coded, plain, room, kept, status, phase>>

Codecs == {"bzip2", "lz4", "xz", "zstd", "brotli", "snappy", "zip7"}

\* `of' bytes of the source are in a buffer, `size' bytes were written into it,
\* and *destLen is `len'.
Buffers == [of : 0 .. ULong - 1, size : 0 .. ULong + PropsLen, len : 0 .. ULong - 1]
Empty == [of |-> 0, size |-> 0, len |-> 0]

-----------------------------------------------------------------------------
(***************************************************************************)
(* Lengths.                                                                *)
(***************************************************************************)

\* An unsigned long as a library is passed it: (unsigned int), (int), as is.
Cut(v) ==
    CASE codec = "bzip2" -> v % UInt
      [] codec = "lz4"   -> IF v % UInt < UInt \div 2 THEN v % UInt ELSE (v % UInt) - UInt
      [] OTHER           -> v

\* Lengths below this are passed on as they are.
Limit == CASE codec = "bzip2" -> UInt [] codec = "lz4" -> UInt \div 2 [] OTHER -> ULong

\* compressBound: n * 1.25 for bzip2, n * 4 / 3 and a constant for 7zip; with a
\* look whether it has wrapped.  lz4's returns 0 for what is too long.
compressBound(n) ==
    LET b == CASE codec = "bzip2" -> n + n \div 4
               [] codec = "zip7"  -> n + n \div 3 + Growth
               [] OTHER           -> n + Growth
    IN  IF codec = "lz4" /\ n >= Limit THEN 0
        ELSE IF b % ULong < n THEN ULong - 1 ELSE b % ULong

-----------------------------------------------------------------------------
(***************************************************************************)
(* The adapters, compressCB_* if phase is "plain" and uncompressCB_* if it *)
(* is "coded", and what their libraries do of it (external).               *)
(***************************************************************************)

\* 7zip puts its properties in front of what it compresses and does not count
\* them.
Uncounted == IF codec = "zip7" THEN PropsLen ELSE 0

\* What the next call is given, and what that is a part of; and what all of it
\* would come to.
Input  == IF phase = "plain" THEN src.n ELSE coded.len
All    == IF phase = "plain" THEN src.n ELSE coded.size - Uncounted
Output == IF phase = "plain" THEN src.form - Uncounted ELSE coded.of

\* What the library makes of it: nothing of less than no bytes, anything of only
\* a part.
Results ==
    IF Cut(Input) = All THEN {Output} ELSE IF Cut(Input) < 0 THEN {} ELSE 0 .. Output

\* The source bytes that r bytes of result stand for.
Stands(r) ==
    IF phase = "plain" THEN Cut(src.n) ELSE IF Cut(Input) = All THEN coded.of ELSE r

\* snappy_compress wants room for the worst case.
Needs(r) == IF codec = "snappy" /\ phase = "plain" THEN src.n + Growth ELSE r

\* Mutant: as in snappy_deflateprocess, the room is taken from the bound.
Capacity_bound(m) == IF codec = "snappy" /\ phase = "plain" THEN src.n + Growth ELSE Cut(m)

\* The room the library is told of.
Capacity(m) == Cut(m)

\* LZ4_decompress_safe returns 0 for an empty source, and lz4_decompress takes
\* that for a failure.
Fits(r, m) ==
    Needs(r) <= Capacity(m) /\ ~(codec = "lz4" /\ phase = "coded" /\ r = 0)


\* *destLen after success; bzip2's library stores an unsigned int.
Told(m, r) == IF codec = "bzip2" THEN (m - (m % UInt)) + r ELSE r

\* Mutant: ZSTD_isError is not asked.
ShortStatus_unchecked ==
    IF codec \in {"xz", "zstd"} THEN UNIZIP_OK ELSE UNIZIP_BUF_ERROR

\* The room was too little.  lzma_code returns LZMA_OK then, and LzmaUncompress,
\* with LZMA_FINISH_ANY, SZ_OK; zstd's code is one that map_error does not name.
ShortStatus ==
    CASE codec = "bzip2"             -> UNIZIP_STREAM_ERROR
      [] codec \in {"lz4", "snappy"} -> UNIZIP_BUF_ERROR
      [] codec = "xz"                -> UNIZIP_OK
      [] codec = "zstd"              -> UNIZIP_DATA_ERROR
      [] codec = "brotli"            -> UNIZIP_ERRNO
      [] codec = "zip7"              -> IF phase = "plain" THEN UNIZIP_BUF_ERROR ELSE UNIZIP_OK

\* *destLen after a failure: brotli's and 7zip's libraries store into it as well.
LeftBy(m, ret) == IF ret # UNIZIP_OK /\ codec \in {"brotli", "zip7"} THEN {0, m} ELSE {m}

Result(of, size, len, ret) ==
    /\ status' = ret
    /\ \/ /\ phase = "plain"
          /\ coded' = [of |-> of, size |-> size + Uncounted, len |-> len]
          /\ UNCHANGED plain
       \/ /\ phase = "coded"
          /\ plain' = [of |-> of, size |-> size, len |-> len]
          /\ UNCHANGED coded

\* All of what the library saw is done.
Whole(m) ==
    \E r \in Results : Fits(r, m) /\ Result(Stands(r), r, Told(m, r), UNIZIP_OK)

\* As much was written as could be.
Short(m) ==
    /\ \A r \in Results : ~Fits(r, m)
    /\ \E len \in LeftBy(m, ShortStatus) :
          Result(0, IF Capacity(m) < 0 THEN 0 ELSE Capacity(m), len, ShortStatus)

\* brotli_map and lz4 have one code for every failure.
BrokenStatus ==
    CASE codec = "brotli" -> {UNIZIP_ERRNO}
      [] codec = "lz4"    -> {UNIZIP_BUF_ERROR}
      [] codec = "snappy" -> {UNIZIP_DATA_ERROR}
      [] OTHER            -> {UNIZIP_MEM_ERROR, UNIZIP_DATA_ERROR}

\* Memory ran out, or a part of a coded form is none.
Broke(m) ==
    \E ret \in BrokenStatus : \E len \in LeftBy(m, ret) : Result(0, 0, len, ret)

-----------------------------------------------------------------------------
(***************************************************************************)
(* The caller: compresses with compressBound's room at first and more if   *)
(* that was not enough, then decompresses.  It believes an OK, but of xz   *)
(* and 7zip only if some room is left.                                     *)
(***************************************************************************)

\* A source is there, and compressBound was asked.
Take(n, form) ==
    /\ phase \in {"nothing", "done"}
    /\ src' = [n |-> n, form |-> form]
    /\ coded' = Empty /\ plain' = Empty
    /\ room' = compressBound(n)
    /\ kept' = (n < Limit)
    /\ phase' = "plain"
    /\ UNCHANGED <<codec, status>>

\* On to what follows, or the same again, with the room m.
Onward(m) ==
    LET len == IF phase = "plain" THEN coded'.len ELSE plain'.len
        believed == /\ status' = UNIZIP_OK
                    /\ len < room \/ codec \notin {"xz", "zip7"}
    IN  /\ phase' = IF ~believed THEN phase ELSE IF phase = "plain" THEN "coded" ELSE "done"
        /\ room' = m
        /\ kept' = (kept /\ room < Limit)
        /\ UNCHANGED <<codec, src>>

Work(m) == phase \in {"plain", "coded"} /\ (Whole(room) \/ Short(room)) /\ Onward(m)

\* After a failure the caller comes with more room, and passes no length that
\* would be cut.
Drive ==
    \E m \in Rooms :
        /\ Work(m)
        /\ m < Limit
        /\ phase' = phase => m > room \/ room >= Limit

Init ==
    /\ codec \in Codecs
    /\ src = [n |-> 0, form |-> 0]
    /\ coded = Empty /\ plain = Empty
    /\ room = 0
    /\ kept = TRUE
    /\ status = UNIZIP_OK
    /\ phase = "nothing"

Next ==
    \/ \E n \in Lengths : \E form \in {PropsLen + 1, n + Growth} : Take(n, form)
    \/ \E m \in Rooms :
          \/ Work(m)
          \/ phase \in {"plain", "coded"} /\ Broke(room) /\ Onward(m)

\* A caller that can go on does; that memory runs out is nothing to count on.
FairSpec == Init /\ [][Next]_vars /\ WF_vars(Drive)

-----------------------------------------------------------------------------
(***************************************************************************)
(* What should hold.                                                       *)
(***************************************************************************)

Types ==
    /\ codec \in Codecs
    /\ src \in [n : 0 .. ULong - 1, form : 0 .. ULong + Growth]
    /\ coded \in Buffers /\ plain \in Buffers
    /\ room \in 0 .. ULong - 1
    /\ kept \in BOOLEAN
    /\ status \in Status
    /\ phase \in {"nothing", "plain", "coded", "done"}

\* What a caller believes is so, if no length it passed was cut: the coded form
\* is all of the source's, and *destLen how long it is (7zip's leaves out what
\* stands in front); and decompressed it is the source again.  The variables
\* keep their types.
Truthful ==
    /\ Types
    /\ kept /\ phase \in {"coded", "done"} =>
          coded = [of |-> src.n, size |-> src.form, len |-> src.form - Uncounted]
    /\ kept /\ phase = "done" =>
          plain = [of |-> src.n, size |-> src.n, len |-> src.n]

\* No call writes more than *destLen allowed, whatever was cut from it; but
\* 7zip's writes its properties in front.
InsideRoom ==
    [][/\ phase = "plain" => coded'.size <= room + Uncounted
       /\ phase = "coded" => plain'.size <= room]_vars

\* Some room is enough, and all of it arrives as it is.
Enough == \E m \in Rooms : m > src.n + Growth /\ m < Limit

\* A caller that comes back with more room until it believes what it is told has
\* its source back in the end; but lz4 does not decompress an empty one.
Ends == <>[][Drive]_vars
            => <>[](phase \in {"nothing", "done"} \/ ~Enough \/ (codec = "lz4" /\ src.n = 0))

=============================================================================
