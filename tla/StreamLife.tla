----------------------------- MODULE StreamLife -----------------------------
(***************************************************************************)
(* Who owns what between xxxInit and xxxEnd: the adapters' Init, Reset,    *)
(* End and Copy callbacks on the memory behind a unizip_stream.            *)
(*                                                                         *)
(* strm->ud points to a ctx allocated by the adapter, and the ctx of       *)
(* bzip2, xz, zstd and brotli in turn to the library's own state, that of  *)
(* uadk to a queue of the accelerator with all that is set up on it.  The  *)
(* adapters follow one pattern and depart from it in the details: which    *)
(* check a NULL, what they leave behind when the library cannot set itself *)
(* up, what a copy is.  Those details are the operators of the first       *)
(* section, each read off the code of the named adapters.                  *)
(*                                                                         *)
(* One process uses one codec (Dispatch).  A block is never handed out     *)
(* twice, so a stale pointer is seen for what it is; the first access      *)
(* through one, or through NULL, ends the run as a fault.                  *)
(***************************************************************************)
EXTENDS Integers, FiniteSets

CONSTANTS Streams,        \* the caller's unizip_stream structures
          Codecs,         \* adapters considered, as [lib, side] records
          FailingCodecs,  \* those whose allocations may fail in this run
          CopyingCodecs,  \* those whose callers copy streams in this run
          MaxBlocks       \* allocations of each kind, in all

AllCodecs ==
    [lib : {"bzip2", "xz", "zstd", "brotli", "lz4", "snappy", "7zip", "uadk"},
     side : {"deflate", "inflate"}]

ASSUME CodecAssumption ==
    /\ Codecs \subseteq AllCodecs \ {[lib |-> "7zip", side |-> "inflate"]}
    /\ FailingCodecs \subseteq Codecs /\ CopyingCodecs \subseteq Codecs
ASSUME BlockAssumption == MaxBlocks \in Nat \ {0}

VARIABLES codec,  \* the adapter this process uses
          strm,   \* the caller's streams: ud, and how far they got
          mem     \* the ctx blocks, the library states, and the fault if any

vars == <<codec, strm, mem>>

NULL == 0
Junk == -1   \* an uninitialised pointer
Ids  == 1 .. MaxBlocks

\* "failed": a reset returned an error and the stream has not been ended.
Phases == {"closed", "open", "failed"}
Faults == {"none", "null", "stale"}
\* "lost": live, but the last pointer to it was overwritten by a copy.
Blocks == [state : {"unused", "live", "freed", "lost"}, ref : Ids \cup {NULL, Junk}]

Unused == [state |-> "unused", ref |-> NULL]
Live(ref) == [state |-> "live", ref |-> ref]

-----------------------------------------------------------------------------
(***************************************************************************)
(* How the adapters differ.                                                *)
(***************************************************************************)

\* The ctx holds a pointer to a state that the library allocates.
HasLibState == codec.lib \in {"bzip2", "xz", "zstd", "brotli", "uadk"}

\* Init reports a failed malloc; the others write through the NULL.
InitChecksNull ==
    codec.lib # "7zip" /\ codec # [lib |-> "brotli", side |-> "inflate"]

\* Reset looks at the new ctx before it sets it up.
ResetChecksNull == codec.lib # "7zip"

\* End is prepared for a NULL ctx.
EndChecksNull == codec.lib # "zstd"

\* End frees the ctx, too: uadk's frees only what hangs on it.
EndFreesCtx == codec.lib # "uadk"

\* A copy duplicates no state but sets the destination up once more.
CopyIsInit == codec.lib = "uadk"

\* libbz2 touches a state only through the bz_stream it was made for.
OwnerChecked == codec.lib = "bzip2"

\* What the ctx points to when the library could not set itself up, and what
\* Init then does: report it, go on as if it had, or write through the NULL.
LeftBehind == IF codec.lib \in {"bzip2", "uadk"} THEN Junk ELSE NULL
OnLibFailure ==
    IF codec.lib # "brotli" THEN "reports"
    ELSE IF codec.side = "inflate" THEN "ignores" ELSE "faults"

\* Every failure is reported, and what it leaves can be ended.
Prepared ==
    /\ InitChecksNull /\ ResetChecksNull /\ EndChecksNull
    /\ HasLibState => OnLibFailure = "reports" /\ LeftBehind = NULL

-----------------------------------------------------------------------------
(***************************************************************************)
(* Memory.                                                                 *)
(***************************************************************************)

Failed(m, kind) == [m EXCEPT !.fault = kind]

HasRoom(blocks) == \E i \in Ids : blocks[i].state = "unused"

Fresh(blocks) == CHOOSE i \in Ids : blocks[i].state = "unused"

\* BZ2_bzCompressEnd, lzma_end, ZSTD_freeCStream, BrotliEncoderDestroyInstance,
\* and the like; of uadk, hw_end.
FreeLibState(m, c) ==
    LET h == m.ctx[c].ref
    IN  IF h = NULL THEN m
        ELSE IF h = Junk THEN Failed(m, "stale")
        ELSE IF m.lib[h].state # "live" THEN Failed(m, "stale")
        ELSE IF OwnerChecked /\ m.lib[h].ref # c THEN m
        ELSE [m EXCEPT !.lib[h].state = "freed"]

\* Mutant: no adapter looks whether there is a ctx.
Release_unchecked(m, c) ==
    IF c = NULL THEN Failed(m, "null")
    ELSE IF m.ctx[c].state # "live" THEN Failed(m, "stale")
    ELSE [FreeLibState(m, c) EXCEPT !.ctx[c].state = "freed"]

\* xxx_deflateEnd, xxx_inflateEnd: the library's state first, then the ctx.
Release(m, c) ==
    IF c = NULL THEN IF EndChecksNull THEN m ELSE Failed(m, "null")
    ELSE IF m.ctx[c].state # "live" THEN Failed(m, "stale")
    ELSE IF ~EndFreesCtx THEN FreeLibState(m, c)
    ELSE [FreeLibState(m, c) EXCEPT !.ctx[c].state = "freed"]

\* xxx_allocate, then xxx_deflateInit or xxx_inflateInit on the result.  Each
\* is a memory, the new ud, and whether the callback returns UNIZIP_OK.
NoCtx(m, checked) ==
    [mem |-> IF checked THEN m ELSE Failed(m, "null"), ud |-> NULL, ok |-> FALSE]

PlainCtx(m) ==
    LET c == Fresh(m.ctx)
    IN  [mem |-> [m EXCEPT !.ctx[c] = Live(NULL)], ud |-> c, ok |-> TRUE]

FullCtx(m) ==
    LET c == Fresh(m.ctx)
        h == Fresh(m.lib)
    IN  [mem |-> [m EXCEPT !.ctx[c] = Live(h), !.lib[h] = Live(c)],
         ud |-> c, ok |-> TRUE]

\* Mutant: what the library returned is ignored.
HollowCtx_ignored(m) ==
    LET c == Fresh(m.ctx)
    IN  [mem |-> [m EXCEPT !.ctx[c] = Live(LeftBehind)], ud |-> c, ok |-> TRUE]

HollowCtx(m) ==
    LET c  == Fresh(m.ctx)
        m2 == [m EXCEPT !.ctx[c] = Live(LeftBehind)]
    IN  [mem |-> IF OnLibFailure = "faults" THEN Failed(m2, "null") ELSE m2,
         ud |-> c, ok |-> OnLibFailure = "ignores"]

\* ZSTD_initCStream turns down a state that ZSTD_createCStream made.
TurnedDown(m) == [FullCtx(m) EXCEPT !.ok = FALSE]

Failures(m, checked) ==
    {NoCtx(m, checked)}
    \cup (IF HasLibState THEN {HollowCtx(m)} ELSE {})
    \cup (IF codec = [lib |-> "zstd", side |-> "deflate"]
          THEN {TurnedDown(m)} ELSE {})

Builds(m, checked) ==
    (IF codec \in FailingCodecs THEN Failures(m, checked) ELSE {})
    \cup {IF HasLibState THEN FullCtx(m) ELSE PlainCtx(m)}

CanAllocate == HasRoom(mem.ctx) /\ HasRoom(mem.lib)

-----------------------------------------------------------------------------
(***************************************************************************)
(* The callbacks.                                                          *)
(***************************************************************************)

Running == mem.fault = "none" /\ UNCHANGED codec

\* xxxInitCB.
InitCB(s) ==
    /\ Running
    /\ strm[s].phase = "closed"
    /\ CanAllocate
    /\ \E b \in Builds(mem, InitChecksNull) :
          /\ mem' = b.mem
          /\ strm' = [strm EXCEPT ![s] =
                [ud |-> b.ud, phase |-> IF b.ok THEN "open" ELSE "closed"]]

\* Mutant: reset forgets the old ctx.
ResetCB_leaks(s) ==
    /\ Running
    /\ strm[s].phase \in {"open", "failed"}
    /\ CanAllocate
    /\ \E b \in Builds(mem, ResetChecksNull) :
          /\ mem' = b.mem
          /\ strm' = [strm EXCEPT ![s] =
                [ud |-> b.ud, phase |-> IF b.ok THEN "open" ELSE "failed"]]

\* xxxResetCB.  When End faults there is no more to say.
ResetCB(s) ==
    /\ Running
    /\ strm[s].phase \in {"open", "failed"}
    /\ CanAllocate
    /\ LET m == Release(mem, strm[s].ud)
       IN  IF m.fault # "none"
           THEN mem' = m /\ UNCHANGED strm
           ELSE \E b \in Builds(m, ResetChecksNull) :
                   /\ mem' = b.mem
                   /\ strm' = [strm EXCEPT ![s] =
                         [ud |-> b.ud, phase |-> IF b.ok THEN "open" ELSE "failed"]]

\* xxxEndCB.  ud keeps pointing to what was freed.
EndCB(s) ==
    /\ Running
    /\ strm[s].phase \in {"open", "failed"}
    /\ mem' = Release(mem, strm[s].ud)
    /\ strm' = [strm EXCEPT ![s].phase = "closed"]

\* The fault, if any, of letting the library work on the state behind ctx c.
OnUse(m, c) ==
    IF c = NULL THEN "null"
    ELSE IF m.ctx[c].state # "live" THEN "stale"
    ELSE IF ~HasLibState THEN "none"
    ELSE IF m.ctx[c].ref = NULL THEN "null"
    ELSE IF m.ctx[c].ref = Junk THEN "stale"
    ELSE IF m.lib[m.ctx[c].ref].state = "live" THEN "none" ELSE "stale"

\* deflateCB and inflateCB, for their effect on ownership: none.
UseCB(s) ==
    /\ Running
    /\ strm[s].phase = "open"
    /\ mem' = Failed(mem, OnUse(mem, strm[s].ud))
    /\ UNCHANGED strm

\* xxxCopyCB: the bytes of one ctx over those of another, pointers included.
\* The caller set up the destination first, as the tests do.
CopyCB(d, s) ==
    /\ Running
    /\ codec \in CopyingCodecs
    /\ ~CopyIsInit
    /\ d # s
    /\ strm[d].phase = "open" /\ strm[s].phase = "open"
    /\ mem' = [mem EXCEPT !.ctx[strm[d].ud].ref = mem.ctx[strm[s].ud].ref]
    /\ UNCHANGED strm

\* What only ctx c leads to is out of reach.
Forget(m, c) == [m EXCEPT !.ctx[c].state = "lost", !.lib[m.ctx[c].ref].state = "lost"]

\* deflateCopyCB_uadk, inflateCopyCB_uadk: what dest had is forgotten.
CopyAnewCB(d, s) ==
    /\ Running
    /\ codec \in CopyingCodecs
    /\ CopyIsInit
    /\ d # s
    /\ strm[d].phase = "open" /\ strm[s].phase = "open"
    /\ CanAllocate
    /\ \E b \in Builds(Forget(mem, strm[d].ud), InitChecksNull) :
          /\ mem' = b.mem
          /\ strm' = [strm EXCEPT ![d] =
                [ud |-> b.ud, phase |-> IF b.ok THEN "open" ELSE "failed"]]

-----------------------------------------------------------------------------
Init ==
    /\ codec \in Codecs
    /\ strm = [s \in Streams |-> [ud |-> NULL, phase |-> "closed"]]
    /\ mem = [ctx |-> [i \in Ids |-> Unused], lib |-> [i \in Ids |-> Unused],
              fault |-> "none"]

Next ==
    \/ \E s \in Streams : InitCB(s) \/ ResetCB(s) \/ EndCB(s) \/ UseCB(s)
    \/ \E d, s \in Streams : CopyCB(d, s) \/ CopyAnewCB(d, s)

Spec == Init /\ [][Next]_vars

-----------------------------------------------------------------------------
(***************************************************************************)
(* What should hold.                                                       *)
(***************************************************************************)

TypeOK ==
    /\ codec \in Codecs
    /\ strm \in [Streams -> [ud : Ids \cup {NULL}, phase : Phases]]
    /\ mem \in [ctx : [Ids -> Blocks], lib : [Ids -> Blocks], fault : Faults]

Open == {s \in Streams : strm[s].phase = "open"}

\* No call of a caller that keeps to the protocol goes through a NULL, an
\* uninitialised or a stale pointer; nor does it where allocations fail, at any
\* point of a stream's life, in the adapters that are prepared for it.
FailuresAreHandled == mem.fault # "none" => codec \in FailingCodecs /\ ~Prepared

\* Every open stream has a ctx of its own, alive, and behind it a library
\* state of its own, alive: ending one stream can not touch another.  The
\* variables keep their types.
Private ==
    /\ TypeOK
    /\ \A s \in Open :
          LET c == strm[s].ud
          IN  /\ c # NULL
              /\ mem.ctx[c].state = "live"
              /\ HasLibState =>
                    /\ mem.ctx[c].ref \in Ids
                    /\ mem.lib[mem.ctx[c].ref] = Live(c)
    /\ \A s, t \in Open : s # t => strm[s].ud # strm[t].ud

\* The caller's hold on what Init, Reset or Copy gave it, until it calls End.
Held == {strm[s].ud : s \in {t \in Streams : strm[t].phase # "closed"}}

\* Blocks that no caller will end, and the two ways they come about that the
\* code does not deal with: an Init that fails once it has a ctx (of zstd,
\* with its state) leaves that behind, and uadk's End keeps the ctx.
LeftByInit(i) ==
    /\ codec \in FailingCodecs /\ HasLibState
    /\ mem.ctx[i].ref = LeftBehind \/ codec = [lib |-> "zstd", side |-> "deflate"]
LeftByEnd(i) ==
    /\ ~EndFreesCtx
    /\ mem.ctx[i].ref \in Ids => mem.lib[mem.ctx[i].ref].state = "freed"

\* Everything else that is allocated, and that no copy of uadk's lost, is behind
\* a stream that its caller will end, whatever failed and however often it was
\* reset or copied.
NoLeak ==
    \A i \in Ids :
        /\ mem.ctx[i].state = "live" => i \in Held \/ LeftByInit(i) \/ LeftByEnd(i)
        /\ mem.lib[i].state = "live" =>
              \E c \in Ids : /\ mem.ctx[c].ref = i
                             /\ c \in Held \/ LeftByInit(c)

=============================================================================
