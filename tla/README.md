# unizip: specification and proofs

unizip offers zlib's interface over ten compressors. A program calls
`unizip_deflate` and friends; `src/unizip_adapt.c` looks up the selected algorithm
and calls its callback; the callback (`src/<alg>/unizip_callback_<alg>.c`) and the
algorithm file beside it translate between zlib's streaming protocol and the
library that does the work. What can go wrong is in that translation: who has
read which byte, how much room is left, when the stream has ended, who owns the
memory, and which algorithm is selected while several threads find out.

The TLA+ modules here are translated from the C code. TLC checks them on small
instances; TLAPS proves every safety property and every refinement among them for all
values of the constants. `PROJECT.json` maps every definition to the lines it stands for, lists
the runs, and for every property a mutation of the code that breaks it.

## The system

| Part | State | Operations | Hard because |
|---|---|---|---|
| Dispatcher, `unizip_adapt.c` | `value` (selected algorithm, 10 = not resolved), `alg_cks`, `inited`/`enabled` of `UadkEnabled` | `check_algorithm`, `SetValue`, `UadkEnabled`, about 25 wrappers | plain globals, no lock; `value` is checked and read again; NULL slots |
| Stream protocol, `unizip_struct.h` | the six fields of `unizip_stream`, `ud` | callers grant `avail_in`, `avail_out`; adapters move pointers and totals | every adapter keeps the fields in its own way |
| bzip2, xz adapters | a `bz_stream`/`lzma_stream` of their own beside the caller's | Init, deflate/inflate, Reset, End, Copy, one-shots | grants are loaded only when the last one is used up |
| zstd adapter | `in`/`out` buffers with positions that live across calls | same | `next_in` stays put until the end; a finish reads no input |
| brotli adapter | `Enstate`/`Destate`, counters, the decoder's last result | same | the end is inferred, failures are not looked at, or one call late |
| lz4, snappy, 7zip adapters | counters; where 7zip's input and output began; 7zip's decoder | same | a block codec behind a stream interface (but for 7zip's decoder, which streams) |
| UADK adapter | a device queue, a block pool, `zip_stream`, `opdata` | same; `hw_init`, `hw_end`, `hw_send_and_recv` | four sets of books; staged acquisition; scarce device |
| zlib, gzip adapters | none | one library call each | nothing of their own |
| One-shots and bounds | none | `compress`, `uncompress`, `compressBound` | narrowing of lengths, double arithmetic |

A stream belongs to one thread. Threads share only the dispatcher's globals and,
under UADK, the device. Nothing is persisted. There are no timeouts and no
messages; allocations, the libraries and the device can fail.

What makes each part correct: the dispatcher must send all calls of a stream to one
algorithm, through a callback that exists; an adapter must read every byte once
and in order, stay inside what the caller granted, say STREAM_END exactly when all
is read and delivered, get there if the caller goes on, and not use, share or
leak memory, whichever allocation fails.

## Modules

| Module | Models | Abstract counterpart |
|---|---|---|
| `ZStream` | return codes, flush values, fields of `unizip_stream` | |
| `ZContract` | abstract: what a streaming codec promises (accepted and delivered bytes never go back; ended only when complete) | |
| `Bzip2Deflate` (+ `Bzip2DeflateProofs`) | the compressing stream of the bzip2 adapter over libbz2 | `ZContract` |
| `XzDeflate` (+ `XzDeflateProofs`) | the same of xz over liblzma | `ZContract` |
| `ZstdDeflate` (+ `ZstdDeflateProofs`) | the same of zstd over libzstd | `ZContract` |
| `BrotliDeflate` (+ `BrotliDeflateProofs`) | the same of brotli over libbrotlienc | `ZContract` |
| `BlockCodecs` (+ `AdapterProofs`) | lz4 and snappy, both sides, and 7zip compressing: one block behind a stream | `ZContract` |
| `StreamInflate` (+ `AdapterProofs`) | the decompressing streams of bzip2, xz, zstd, brotli and 7zip | `ZContract` |
| `UadkPump` (+ `UadkPumpProofs`) | the loops of UADK, both directions, as a stream and in one call, over `wcrypto_do_comp` | `ZContract`, twice |
| `QueueSessions` | abstract: a stream is open, with a queue of its own, or not | |
| `UadkQueue` (+ `UadkQueueProofs`) | `hw_init`, `hw_end` and the callbacks around them, for streams that compete for the device | `QueueSessions` |
| `OneShot` (+ `AdapterProofs`) | `compress`, `uncompress`, `compressBound` of seven adapters at the widths of C | |
| `Selection` | abstract: one algorithm for the process, each stream served by the one that opened it | |
| `Dispatch` (+ `MCDispatch`, `DispatchProofs`) | `check_algorithm`, `UadkEnabled`, `SetValue`, the wrappers, on any number of threads | `Selection` |
| `StreamLife` (+ `MCStreamLife`, `AdapterProofs`) | Init, Reset, End and Copy of eight adapters on memory | |

Definitions named `X_something` beside a definition `X`, under the word "Mutant",
are what that line of the code would be with a plausible mistake in it. Nothing in the
specifications uses them; `PROJECT.json` says which property notices each.

### Streams that compress: `Bzip2Deflate`, `XzDeflate`, `ZstdDeflate`, `BrotliDeflate`

Variables: the caller's `strm`; the library's stream (`bz`, `xz`, `ctx`, `enc`);
`status`, the last return value; `fin` or `phase`, how far the caller has got.
A call is one step, for there is nothing inside it that others could see.
One action per callback: `deflateInitCB_*`, `deflateCB_*`, `deflateResetCB_*`,
`deflateEndCB_*`; the callers (`Feed`, `AskForEnd`, `OneShot`, ...) are those of
`test_util.cpp`, with any grants.

Data is abstracted to positions: a byte of input becomes a byte of output, which
the library may hold back as long as it likes, and beginning or ending adds a few
bytes. What a library moves in a call is chosen nondeterministically within what
its interface allows. Pointers are offsets. So "bytes lost", "read twice" and
"written beyond" are statements about positions, which is all the adapters
compute with; compressed contents, levels and headers are left out.

The libraries are external and modelled from how `src/` uses them: the definitions
are marked so in the map. What sets them apart is in the models: libbz2 refuses a
call whose `avail_in` changed while finishing and one without effect, for good;
liblzma refuses the first and only complains of a second idle call in a row, writes a
header before it reads, repeats the end, and can run out of memory half-way;
libzstd's end takes no input; libbrotlienc refuses input after the end.

### Streams that decompress: `StreamInflate`

One model of a decoder, five adapters on it. `lib` holds the books of those that
keep their own (bzip2, xz, zstd), the decoder's positions for all, and what the
next call looks at (liblzma's `expect`, brotli's `ctx->ret` as the mode "success").
`phase` keeps apart the callers: pieces, everything that is left in each call, and
the same with Z_FINISH. The stream is valid; the decoder may run out of memory,
and so may Init and Reset.

### Blocks behind a stream: `BlockCodecs`

`kind` is the adapter and its side, `ctx` what 7zip remembers (where input and
output began), `block` what the library last put where, made from which bytes.
`Lz4Process`, `SnappyProcess` and `Zip7Encode` are the processing functions with
what they leave in the caller's fields when they succeed and when they fail; a
caller may try again with more of the block or more room.

### The accelerator: `UadkPump` and `UadkQueue`

`UadkPump` is one stream, or one-shot call, at the grain of the loops: a step loads a
block, makes one request with the copying of its output, or returns. `strm` is
the caller's stream, `zs` the `zip_stream`, `dev` the device with `opdata`, `pump` the
locals. The device holds nothing back between requests, which `append_store_block` and
the loop on `avail_in` rely on. `Fail` is the error return in the middle of the loops.

`UadkQueue` is any number of streams at the grain of the single steps of `hw_init`
and `hw_end`: `pc[s]` is the line or label a stream's thread is at, `held[s]` what it
has taken, `dev[s]` its hardware queue, `free` and `lost` the queues without an
owner. Every allocation may fail. `Unwind` is the ladder of labels, each falling
into the next. `CopyCB` opens the destination without ending what it was, so that
its queue is lost: a caller that copies over open streams uses the device up.

### All at once: `OneShot`

A caller asks for the bound, compresses, comes back with more room if that failed, and
decompresses. `Cut` is the conversion of a length to what the library takes,
`Told` what comes back in `*destLen`, `ShortStatus` and `BrokenStatus` the return
codes, adapter by adapter. `UInt` and `ULong` stand for 2^32 and 2^64. `kept`
remembers whether any length was cut, since then nothing is promised.

### Dispatch

`pc[t]` is where thread t is inside a wrapper; a step is one access to a shared
global, with nothing locked, so all interleavings are there. `world` fixes
`UNIZIP_VALUE`, `UNIZIP_UADK_ENABLE`, the build and the device. The wrappers fall
into classes by what they do to a stream and by which tables have the callback.
Two assumptions about callers: each thread uses one stream, and `SetValue` is
called when no thread is in the library and no stream is open, as the tests do.

### StreamLife

One process uses one of fifteen adapter sides. All follow one pattern; where they
depart from it is a named operator:

| Operator | Says | From |
|---|---|---|
| `HasLibState` | the ctx points to library state | bzip2, xz, zstd, brotli, uadk (`hw_init`) |
| `InitChecksNull`, `ResetChecksNull`, `EndChecksNull` | a NULL ctx is looked for | not 7zip, not brotli's decoder, not `zstd_deflateEnd` |
| `EndFreesCtx` | End frees the ctx | not `hw_end`: the `zip_stream` stays |
| `CopyIsInit` | Copy sets up the destination once more | uadk |
| `OwnerChecked` | End refuses a state made for another stream | libbz2 |
| `LeftBehind`, `OnLibFailure` | what a half-failed Init leaves, and says | `bzip2_deflateInit`, `brotli_deflateInit`, `zstd_deflateInit` |
| `Prepared` | all failures are reported and can be ended | follows from the others: xz, lz4, snappy |

A block is never handed out twice, so every use of a stale pointer is seen.

## Runs

| Run | Question | Bounds |
|---|---|---|
| `bzip2` | Does the compressor read and write in order, inside the buffers, get no spurious refusal, implement `ZContract`, and end? | 5 bytes in, trailer 2, grants 1..5, one byte of room beyond what is needed |
| `xz` | The same of xz, with idle calls and an encoder that may fail; is every DATA_ERROR for cause? | 3 bytes in, header and trailer 2, grants 0..3 |
| `zstd` | The same of zstd, with failing calls | 4 bytes in, epilogue 2, grants 1..4 |
| `brotli` | The same of brotli under zlib's whole protocol (last input may come with Z_FINISH) and resets that keep `total_in`, with an encoder that may run out of memory | 2 bytes in, 2 at the end, one reset of a full stream |
| `block_codecs` | Do lz4, snappy and 7zip code exactly what was granted, in one place, however it was granted and however many attempts failed; is `ZContract` kept, and is the block coded in the end? | 3 bytes in, 5 of the other form, 2 of properties, grants up to the buffer |
| `inflate` | Do five decoders read and write on where they stopped, end with the last byte, keep `ZContract`, and end? | 5 bytes in, 3 out, 2 of properties, grants up to everything |
| `uadk` | Do the four sets of books agree at every step of the loops, is `ZContract` kept in both directions, does the room of a one-shot decide, is no turn of a loop in vain, does every call return? | 6 plain bytes and 2 more coded, blocks of 4, one-shot blocks of 3, minimum 3 (deflate) and 1 (inflate), grants 1..6: several blocks, both clamps of `out_stream_chunk`, several requests per block |
| `uadk_queue` | Has a stream everything or nothing, is its caller told which, whatever fails and whoever else opens, resets or copies? | 2 streams, 2 queues |
| `one_shot` | Does what comes back from compress and uncompress agree with what was written, inside the room, and does a patient caller get its source back? | lengths 0, 1, 2, 5, 12, 14 around `UInt` = 12 (6 is the end of an `int`), rooms between 1 and 23, `ULong` = 24 |
| `dispatch` | Do two threads that race through resolution and probe agree, stay inside the table, call only what is there, and return? | 2 threads; environment unset, accelerator, the "unresolved" number, out of range; selections gzip, accelerator, back to the environment; all builds and devices |
| `dispatch_uadk` | Is "UADK is disabled" only said when it is? **No: the second of two threads hears it while the first one probes** | the same |
| `stream_life` | Is memory private, never stale and never leaked in any order of calls, whichever allocation fails? | 2 streams, 5 allocations of each kind, 15 adapter sides |

The run that ends in a counterexample checks what a text of the repository
says; `findings` in `PROJECT.json` quotes it. Every other run passes. Each keeps the
variables' types as the first conjunct of a safety invariant (`InOrder`, `Whole`,
`NothingLeft`, `Truthful`, `Private`), but for `dispatch`, whose types are in the
invariant that is proved.

Why the bounds suffice: what the adapters decide depends on comparisons of
positions (grant used up, nothing left, first call, room full) and not on
magnitudes. In each run a grant can be smaller than, equal to and larger than
what is left; the library can take part of a grant over several calls; the end can
need several calls; and resets start over. The bound on `total_in` in
`BrotliDeflate` (`MaxTotal`) and on allocations in `StreamLife` (`MaxBlocks`) only
limit how often that happens. `OneShot` does depend on magnitudes, but only on whether
a length is below `int`, `unsigned int` or neither, and its lengths lie on both
sides of each. Threads, and streams that compete for the device, differ only in their
order, and each shared variable is written by one kind of step, so two of them show
every pairwise race; the proofs cover any number.

Fairness. `Ends` speaks of a caller who from some time on only
goes on with its stream: `WF_vars(Drive)` says that it does, with any grants of at
least one byte, and the premise `<>[][Drive]_vars` that it does nothing else, since
one who resets for ever never ends. The library's progress within a call is part
of what its interface promises; where calls can fail for want of memory the fairness
is of calls that do not (the conjunct beside `Drive` in each `FairSpec`), so that a
failure is never what it takes to get on, and the conclusion excepts a stream that
has failed. In `BlockCodecs` a 7zip encoder that fails for ever is excluded by a second
premise, because its adapter says DATA_ERROR and lets the caller try again. `Returns`
assumes weak fairness of a call in progress: code inside a call is never blocked. In
`Dispatch` and `UadkQueue` that is weak fairness for each thread, that is, a scheduler
that runs every thread. Deadlock is checked except in `StreamLife`, where a fault or
the last block used up ends the run, and in `OneShot`, whose caller may have run out of
larger rooms to offer.

What the runs about failures show in `StreamLife`, beside what its names say: for the
adapters that are not `Prepared` a failed allocation does lead to a bad pointer
(`zstd_deflateEnd` after a failed Reset, bzip2's and uadk's uninitialised state,
brotli's and 7zip's NULL), and two kinds of leak are there and are the only ones:
the ctx of an Init that failed half-way, and the `zip_stream` that uadk's End keeps.
Copies of xz, bzip2, zstd and brotli streams share one library state, which is why
`CopyingCodecs` leaves them out: with them `Private` fails.

## Proofs

The four compressing streams, for all lengths, buffers and grants:

| Theorem | Statement | In |
|---|---|---|
| `Invariance` | the inductive invariant | all four |
| `ReadsAndWritesInOrder` | `InOrder` (types included) | all four |
| `NeverRefused` | `NoSpuriousError` | `Bzip2DeflateProofs` |
| `TurnedAwayForCause` | `RefusedForCause` | `XzDeflateProofs` |
| `EndsComplete` | STREAM_END only with all input read and all output delivered | `Bzip2DeflateProofs` |
| `CallsEnd` | `EachCallMoves`: every call of a caller that goes on lowers `ToGo`; and `ToGo` is always a natural number | all four |
| `Refinement` | the adapter implements `ZContract` | all four |

That the end is complete is not inductive: that a library reaches its end says nothing
of what was granted to it. The invariants (`IInv`) add, for bzip2 and xz, that from the
first finish on the leftover grant is exactly the unread input (`EndingOwnsRest`),
and how much the library still holds in each of its modes (`HoldsEnough`); for xz
also what holds of a failed encoder, since its adapter goes on loading grants, and that
status and mode agree (`PhasesAgree`). For zstd they say that the pointers wait
while the positions stay within the sizes (`Waiting`) and that what was written is
covered by what was read, or by all of the input and the epilogue (`Covered`). For
brotli, whose caller grants all that is left with every finish, they say what
the encoder can have written (`Bounded`) and how it ends (`Ending`): once the last
metablock is encoded all input is read and the caller only finishes, and until it has been
told of the end there is output to come. Each call preserves the invariant, with one
lemma per kind of call, and no call goes back, which with the invariant maps each step
to a step of `ZContract` or to a stutter.

`CallsEnd` is the half of the liveness `Ends` that needs neither fairness nor
ENABLED: a natural number, the bytes that have yet to be read and written, that every
call lowers, so that only so many calls can be made before the end. It is where
what the library still holds comes in: were an end reached without being
reported, or a grant left behind on one set of books only, there would be a call
that moves nothing. The excuses are those of the code and no more: an encoder that has
failed (xz), a call that reports an error (zstd), memory that has run out (brotli), an
idle call, which is no `Drive` (xz). `EachCallMoves`, and `OnlyOnward` in
`UadkQueue` and `Dispatch`, are not among the properties of the runs: the proofs cover them
for every value of the constants, and what the runs check in their place is `Ends` and
`Returns`.

`AdapterProofs` holds the proofs about four modules. It extends `StreamLife` and has the
others as instances, each under a letter: `B` (`BlockCodecs`), `I` (`StreamInflate`), `O`
(`OneShot`); `B!Whole` is the definition that the run `block_codecs` checks. The assumptions of
an instance are not facts to the prover, so they are the hypothesis of the theorems
about it: `BlockSizes`, `InflateSizes`, `OnceSizes`, which say no more than the `ASSUME`s
of those modules.

| Theorem | Statement |
|---|---|
| `BlockInvariance`, `InflateInvariance`, `OnceInvariance`, `LifeInvariance` | the inductive invariants |
| `BlockIsWhole`, `BlockRefinement` | `Whole`; lz4, snappy and 7zip implement `ZContract` |
| `OrderIsKept`, `InflateRefinement` | `InOrder`; the five decoders implement `ZContract` |
| `BeliefIsTrue`, `RoomIsRespected` | `Truthful`; `InsideRoom`, for every width of `int` and `long` |
| `FailuresHandled`, `StreamsArePrivate`, `NothingLeaks` | `FailuresAreHandled`, `Private`, `NoLeak`, for any number of streams and blocks |

- `BlockCodecs`: that a block is whole when it is done says nothing of the calls before.
  `Kept` adds where each adapter leaves the caller's fields meanwhile: lz4 and snappy
  untouched, 7zip at as many bytes as it was granted with the beginning in its ctx; and
  what a failed attempt leaves of them, which is what makes a second attempt come out
  right. What a caller sees of a call that keeps it (`Served`) is a step of `ZContract`.
- `StreamInflate`: `InOrder` is nearly inductive. `Opening` adds a ctx that no call has
  seen, a stream without one, and the calls for which brotli and 7zip are at the end and
  have not said so. All five adapters come to the same (`Came`), with a lemma each, and
  the contract follows from that alone.
- `OneShot`: `Sized` bounds the coded form by what the bound promises and says that, as long
  as no length was cut, no length that is passed back is (`kept` implies that it is below
  `Limit`).
- `StreamLife`: `Sane` says that ctx and library state point at each other for as
  long as they are known, dead or alive, so that whose a state was is never in doubt;
  `Full` and `Half` what an open stream and one whose reset failed have; `Accounted`
  why a block nobody has is there. Each callback is then three facts: it gives up what one
  stream had (`GivenUp`), it builds something out of blocks nobody had (`Built`), and
  all other blocks are as they were (`Same`). These theorems
  have one hypothesis beside the assumptions of the module, `Admitted`: callers copy
  streams only of lz4, snappy, 7zip and UADK, and brotli's decoder is not among the
  adapters whose allocations fail. It is what the run `stream_life` sets its constants
  to, and without it `Private` is false, for the reasons given above (a copied ctx shares
  its library state; brotli's decoder goes on without one).

`UadkPumpProofs`, for every length, block size, minimum and grant, both directions:

| Theorem | Statement |
|---|---|
| `Invariance` | the inductive invariant |
| `BooksAgree` | `InOrder`: the four sets of books agree at every step of the loops |
| `RoomIsKept` | `RoomDecides` |
| `LoopsEnd` | `NeverInVain`: every block and every request lowers `StepsLeft`, which stays between 0 and 4 * `CodedLen` + 3 |
| `Refinement` | the pumps implement `ZContract` |

The core is that the device's mark is on the next byte it has not read (base + off =
read) and that the `zip_stream` counts what the device did (`Booking`). What the device
has written follows from what it has read (`Written`), and a finish comes with the last
bytes of the source, in one block if they are compressed (`Finishing`): this is what the
model's callers make of the flush that the code passes with every block of 1 MiB, and
where the end being complete comes from. `LoopsEnd` bounds the steps of a call by the
length of its source alone, however little room it is given: it rests on the
minimum that `DEFLATE_MIN_CHUNK` is and on requests that are never for nothing.

`UadkQueueProofs`, for any number of streams and queues:

| Theorem | Statement |
|---|---|
| `EverythingOrNothing` | `NothingLeft` |
| `TheTruth` | `ToldTruly` |
| `CallsEnd` | `OnlyOnward`: every step of a call goes to a later label, and no other stream moves it |
| `Refinement` | `hw_init` and `hw_end` implement `QueueSessions` |

The invariant says of each stream, label by label, which parts it has (`Held`): at a label
of the ladder exactly those that the labels below it give back. With that, and every
queue accounted for (`Accounted`), a stream's own step has one case per line of the
code, and a step of another stream leaves its part alone.

`DispatchProofs`, for any number of threads, any environment, any selections:

| Theorem | Statement |
|---|---|
| `Invariance` | the inductive invariant, types included |
| `CallsAreThere` | every index is inside `alg_cks` and every callback exists |
| `AcceleratorIsProbed` | the accelerator is called only if it answered and is allowed |
| `OpenStreamsAgree` | all open streams belong to the selected algorithm |
| `CallsEnd` | `OnlyOnward`: every step inside a wrapper goes to a later line, and no other thread sends a call back |
| `Refinement` | the dispatcher implements `Selection` |

The invariant says of each thread what it may rely on at its label (`ThreadInv`). Its
core: a thread about to store can only store what `value` is already or stands for
(`Resolves`), so what one thread has seen no other one changes. A step of another
thread preserves a thread's part by that alone; a thread's own step has one case
per action.

The assumptions are those on the constants (`SrcLen` and the like are numbers, the
caller's buffer has room for the compressed form, an environment is a number or
unset, `NoQueue` is not a queue, the values of an `unsigned long` are a multiple of those
of an `unsigned int`), and `Admitted`. Every safety property, action property and
refinement that a passing run checks is proved. Only model-checked: liveness (`Ends`,
`Returns`), which is out of the prover's reach together with ENABLED, and that
`DisabledIsTrue` fails. Of that liveness one half is proved nevertheless, for the four
compressors, the pump, the queue and the dispatcher: that no step is in vain (`CallsEnd`,
`LoopsEnd`). What stays with TLC is the other half, that a step is possible as long as
the end has not come, and all of it for `BlockCodecs`, `StreamInflate` and `OneShot`,
where some calls do move nothing (a failed attempt, a decoder that reports one call late, a
room that was too small). None of the modules needs a RECURSIVE operator or an induction
over data.

## Met on the way, without a run

Read off the code while it was modelled. The models behave so, unless they are said to
leave it out, and the properties are stated with it in mind.

- bzip2: `avail_in` is never counted down (`deflateCB_bzip2` writes back what it got).
  A call works on room granted earlier, and so may write more than this call's
  `avail_out`. Input that comes with a Z_FINISH that is not the first call is not read,
  and STREAM_END is reported without it; the callers modelled do not do that.
- xz: its copies share liblzma's state. Decoding, only Z_FINISH can end
  (LZMA_CONCATENATED), and it needs a caller that always grants all that is left.
  `xz_compress` never calls `lzma_end`.
- zstd: `next_in` is not moved before the end, and input granted with Z_FINISH is
  never read; after a failed Reset `zstd_deflateEnd` reads through a NULL ctx.
- brotli: Reset keeps the caller's counters, which End and Init clear
  (`unizip_adapt.h` calls Reset the same as End and Init); snappy and 7zip do the same.
  After the encoder has run out of memory a finish may still report STREAM_END, which
  `KeepsContract` excepts. Decoding, the end and an error are reported one call late.
- lz4: a failed attempt reports its input as read. `lz4_decompress` takes an empty
  result for a failure.
- snappy: never reports STREAM_END from a stream; a repeated Z_FINISH would write an
  empty block over the first; `avail_out` plays no part. `snappy_compress` insists on
  worst-case room.
- 7zip: `avail_in` that comes with Z_FINISH is ignored, so a compressing stream needs
  at least one call before the finish; what it writes is bounded by its own bound and
  not by `avail_out`; the five bytes of properties are not counted in `total_out`
  or `*destLen`, and are written even if there is no room for them. With an empty input
  a failed attempt leaves the output pointer moved, hence `InLen` > 0 in the model.
  Its decoder takes a call without input for the end: a stream whose last byte was
  read by a call that filled its room is cut short (`CutShort`).
- uadk: a call may write more than its `avail_out` (the floor of 256, and one
  `out_stream_chunk` per round); a finish over more than 1 MiB tells the device to
  finish with every block; a call that fails leaves the caller's stream as it was
  although output was written; a finish of an empty stream has no header; inflating
  with nothing granted, or with Z_FINISH, reports STREAM_END wherever the data ends;
  `hw_stream_decompress` of a source cut short returns OK; `hw_stream_compress` does not look
  at the room it is given; a Copy loses the destination's queue.
- One-shots: `xz_compress`, `xz_decompress` and `zip7_uncompress` return OK when the room
  was too small, so a caller has to see whether room is left; lengths beyond 32 bits
  are cut without a word (bzip2, lz4), and bzip2's `*destLen` keeps its upper half;
  brotli and 7zip change `*destLen` when they fail; bzip2's bound is too small for short
  sources. The bounds computed in `double` are modelled by integer division with a wrap:
  converting a `double` that is too large is undefined and left out.
- Wrappers: `deflateParams`, the dictionary, header and pending calls go through slots
  that are NULL for most algorithms; `Dispatch` models programs that call what the
  selected algorithm has.

## Not modelled, and what is left to do

Left out for good: the zlib and gzip adapters (one library call each; their tables are in
`Dispatch`), `uadk_getVersion`, the bits of the checksum in `append_store_block`, version
strings, the public header and build files, and the contents of compressed data.
7zip's decoder is in `StreamInflate` but not in `StreamLife`, because it has no state
behind a pointer of its own. The decoders are given valid streams, except in `UadkPump`,
where a source may be cut short.

What the proofs could still say, beyond the properties of the runs: that the end is
complete, stated by itself as for bzip2 (`EndsComplete`), for the other streams, where
now it follows from the refinement; what a call that moves nothing is good for, so that
the decoders and the block codecs get a variant as the other modules have one; and a step of `StreamLife` in terms of an abstract heap
of streams, as `QueueSessions` is for the device.
