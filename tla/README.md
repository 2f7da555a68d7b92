# A verification project for QLIC

QLIC is a lossless image codec: a C library (`codec/src`), its command line, a
Windows application, a WIC codec, a decoder in Rust and one in WebAssembly.
This directory holds TLA+ modules for the parts of it whose correctness depends
on more than straight-line code, the TLC instances that check them, and proofs
for every value of the constants. All paths below are relative to the root of
the repository.

## 1. Inventory

| Component | State it keeps | Operations | Talks to | Hard behaviour | What makes it correct |
|---|---|---|---|---|---|
| Parallel loop, `codec/src/parallel.c` | one `QlicParallelRun` on the caller's stack: atomic counter, bound, callback | `qlic_parallel_for` | called by trials, bands, tiles, slices, frames; nests | interleaving, failing thread creation, a pool that never starts a submission | each index once, results readable on return, nobody left behind, at most `workers` tasks |
| Range coder, `stream.c:286-637` | `Enc` (low, range, cached byte, pending 0xff count, buffer, limit), `Dec`, 12-bit probabilities | one decision, flush, start, feed | every plane coder | carries, precision, limits, truncation | the decoder reads what was written, no bit is impossible, a cut is reported |
| Stream tournament, `stream.c:7898-9538` | candidates, sizes and buffers of the trials; the best so far | `run_trials`, `try_improve_trials`, retries, compacted samples | parallel loop, plane coders | results in any order, limits taken from other trials, ties, buffer ownership | the smallest completed stream is returned, the rest freed, thread count irrelevant |
| Plane coding, `stream.c:2068-7000` | context trees, predictors, maps | `encode_plane`, `decode_plane`, split and event-order modes | range coder | two hand-written mirror images of one model | decoding inverts encoding |
| Container core, `codec/src/qlic.c` | thread-local error, status and thread count; the best `Candidate`; tile, slice and frame tasks | encode and decode of still, wide, HDR and animated images | streams, parallel loop | errors of workers, split of the thread budget, animation blend order | every payload decodes from its header alone; the first part that failed decides; nothing leaks, budget respected |
| Public API, `qlic_api.c` | one call's limits, observer, result | encode, decode, info, validate | core | cancellation at checkpoints, partial delivery | a failed call leaves nothing allocated, the thread count is put back, the code returned is the cause |
| Command line, `cli_posix.c` | temporary file beside the target; the items of a batch | pack, unpack, batch, info | API, file system | crash or failure between write and rename | target is the old file or the new one |
| Encoder page, `gui.c` | `g_busy`, `g_cancel_requested`, `g_process`, `g_temp_output`, controls | choose, start, cancel, done, save, close | worker thread, `qlic pack`/`verify` children, message queue | cancel against publish, failing steps, full queue, closing | only verified files offered, no file left, handle closed once, window comes back |
| Viewer page, `gui.c` | `g_view`, `g_view_bitmap`, `g_view_frame`, `g_view_loading`, `g_view_playing` | open, leave, frame steps, playback, late results | decode threads, message queue | results that arrive after the page changed | one owner per result, the bitmap is the current frame, loading ends |
| LZMS, image input, WIC codec, AVX2 kernels, helpers | buffers of one call; COM reference counts | | platform | parsing bounds | outside the plan, see section 8 |
| Web decoder, `web/qlic_wasm.c` | frames and error of the last call | decode, validate, encode | core (encoder, wide samples), page | a third copy of the decoder, kept equal by hand | it reads what the encoder writes |
| Web page and worker, `web/index.html` | source, output, decoded frames, one active request, frame and timer | open, compress, play, save | worker messages | awaits, late answers, a page that is hidden | see section 8 |
| Rust decoder, `rust/qlic-decoder` | buffers of one call | decode | | bounds of parsing | same format as the C decoder |

Calls go down (API → core → streams → plane coder → range coder); concurrency
enters only through the parallel loop, the application's threads, messages and
children, and the web worker. `PROJECT.json` lists the hazards, each at its line.

## 2. Plan

Done: `TaskSet`, `ParallelFor` and its proofs; `RangeCoder` and its proofs; `GuiJob` and its
proofs; `GuiViewer` and its proofs; `StreamTrials` and its proofs; `CliFile` and its proofs; `PlaneCodec` with the first two
pairs of plane coders, `PlaneModes` with four more, and `CodecProofs` with the proofs of the first two pairs, of the orders
of events and of wide samples with their description; `TileJobs` and `ApiCall` with
their proofs; the payload modules `PixelPayloads`, `PalettePayloads`, `BlockPayloads`,
`BandPayloads`, `AnimPayloads` and `WidePayloads`; `Container`, which composes them;
`WebDecoder`, the browser's decoder on the files of `Container`.

Left, in this order:

1. `PlaneModes` extended by the context coder (`encode_plane37_impl`) with its per-sample
   state that passes from plane to plane, and its split streams.
2. `StreamTrials` extended by `refine_context_trials` and the compacted-sample
   limit, with the thread dependence of `root_tile_log_for`.
3. The web page: requests, frames and timer of `index.html`, with the worker that may be
   terminated at any moment.

Theorems worth adding: `TileJobs` on top of `TaskSet` by a refinement; `RoundTrip` of the coders
of `PlaneModes` and of the payloads of bytes, over the lemmas of `CodecProofs`, and with them
`PageReadsTheRest`.

## 3. Modules and the code

**`TaskSet`** is what callers of `qlic_parallel_for` may assume: tasks begin once
and end once, and the call returns when all ended and all results are readable.

**`ParallelFor`** is one call in steps of the size of an atomic operation. Thread 0
is the caller. `Enter` holds the early return, the clamp of `workers` and the
choice of path; `Setup` the allocation of the thread array or work object;
`CreateHelper`/`CreateDone` the creation loop, which on POSIX may end early;
`Claim` is the atomic increment with the comparison that follows; `Finish` is the
return of `fn`; `CancelPending` the withdrawal of submissions on Windows; `Join`
waits for one helper. `platform` selects the build: `wasm` has only the serial
loop. `finished[t]` is what thread `t` wrote, `Readable` what the joins order
before the caller's reads: the counter is relaxed and orders nothing.

**`RangeCoder`** has the encoder's registers, its buffer with the limit `max` and
the memory `room`, the decoder's registers, and one set of five contexts on each
side. `EncBit` is `enc_bit_rate` (narrowing, then two renormalisations), `Shift`
and `Settling` are `enc_shift`, `Put` is `enc_putbyte` with `enc_reserve`, `DecBit`
is `dec_bit_rate`. The functions `enc_bit_*` and `dec_bit_*`, which are written twice in the code,
are written twice here: `Mixed` and `Learned` are the encoder's (which mean of which contexts a
decision is coded with, how fast each context learns), `DecMixed` and `DecLearned` the decoder's.
What both take as an argument (`Rates`) and what both call (`prob_update`) is one operator. `Deliver` gives the decoder the bytes, whole or
short of their end; streams that were cut are discarded, as
`try_encode_limited` does.

**`StreamTrials`** takes a trial to be its mode and the size it would reach with no
limit (0: it fails). `TrialAlone` and `TrialTogether` are the two branches of
`run_trials`, `Pick` the choice of the winner with the tie rule of mode 42,
`RetryAlone`, `RetryTogether` and `Close` are `try_improve` and
`try_improve_trials`, `Judge` the comparison with the stream of the compacted
samples. `live` is the set of buffers not yet freed.

**`GuiJob`** interleaves the window thread, the worker and the children. The
window's handlers run one at a time, except that `cancel_compression` is three
steps (flag, exchange of the handle, termination) because the worker runs between
them, and the Save dialog has a message loop of its own in which `WM_QLIC_DONE`
arrives. The worker's steps are those of `run_process` and `run_child`: spawn,
publish the duplicated handle, wait, take the handle back by compare-and-exchange,
look at the flag, verify, decide, post. `ChildEnds` is external: `pack` leaves a file
that is good, corrupt, partial or empty; `verify` succeeds only on a good one.

**`GuiViewer`** has one decode thread per result under way. `Open` is `start_viewer`,
`Leave` is `leave_viewer_mode`, `ViewDone` the handler of `WM_QLIC_VIEW_DONE`, `Select`
is `select_view_frame`. A result's memory is a slot that is free or live; a slot is
chosen deterministically because slots do not differ.

**`CliFile`** has any number of commands on one directory. `Start` is `main` up to the
first item, with `command_batch` making its list; `Dropped` are the items it counts as
failures before it begins, `Share` the threads it gives the others. An item goes through
`Begin` (handed out by `qlic_parallel_for`), `Convert` (reading, encoding or decoding),
`Open` (one attempt of `open_temporary`), `Write`, `Close`, `Rename` and `Clean`, the steps
of `write_file` and `save_png`, which do the same. `Kill` ends a command between any two of
them. Files are identified by the item that created them, so that `rename` and `unlink` act
on whatever file has the name. At the start the first temporary name of each command may
be taken by a file of an earlier one. `unlink` is taken to succeed: the code ignores
its result.

**`PlaneCodec`** is the pair `encode_plane`/`decode_plane` (method "base") and the pair
`encode_plane_xzr`/`decode_plane_xzr` (method "xzr"), the encoder first, then the decoder
on what it wrote. The wire keeps for each bit the slot of the model it was coded in
(table, context, position): `RangeCoder` shows that a bit comes back if and only as long as
both sides use the same slots, so a decoder that asks for another one is "lost". The
encoder's loops are `Number`, `Tree` and the `Encode*` actions, the decoder's are
`NumberRead`, `TreeRead` and the `Decode*` actions; what they share in the source (`predict`,
`predictx`, `map_res`, `unmap_res`, `ectx`, `NEIGHBORS`) they share here. `Cheapest` is the
search for the predictor of a tile, and `Presets` stands for the maps that
`encode_plane_xzr` may be given from a cache. The size limit of the encoder is in
`RangeCoder`, a failing `malloc` is left out: either ends the plane.

**`PlaneModes`** has the other coders that `encode_mode_plane` and `decode_mode_plane` choose
between, in the same state: `encode_plane_x` in its eleven modes, where `Since` is a flag of
its parameter list (`mode >= 26` and so on), and `encode_plane_rule`, which has all flags and
one predictor (`EncodeSample`, `DecodeSample`, with `Model` what both sides compute for a
sample); `encode_plane_event` (`SendOrder`, `EncodeEvent`, `ReadOrder`, `ReadEvent`,
`Rebuild`), which sends the residuals that are not zero in one of eight orders; and
`encode_plane_pattern` (`SendPatterns`, `EncodeSquares`, `ReadPatterns`, `ReadSquares`), which
sends runs of repeated blocks. A plane that its coder refuses is "cut". `Alternative` clamps
every prediction where the code clamps those that can leave the range. The hash table of
patterns is left out: it is a set with at most `PatternsStored` elements.

**The payload modules** are the pairs of encoders and decoders of `qlic.c`, each a pure
operator on an image, whose pixels are numbers of colours and whose payloads are sequences of
bytes. They extend each other, because the code shares its helpers along the same line:

- `PixelPayloads`: samples of the channels an image needs (`mk_samp`, `samp_rgba`), runs of
  bytes, filtered rows, separable tables, median-predicted planes and the gray model;
- `PalettePayloads`: packed indices, runs of indices, references to neighbours (`enc_ppal`,
  `dec_ppal`), palettes inside the payload and palettes for each tile;
- `BlockPayloads`: QBL1 and QBR1 (patterns, lists and copies of blocks), QBL2, QPD1 and QCF1
  (regions with a prediction and a stream of residuals);
- `BandPayloads`: MODE_TILES, and MODE_TILE_MODEL with all nine models of a band;
- `AnimPayloads`: key frames, duplicates, rectangles and moved parts of QAN2, and QAN1;
- `WidePayloads`: the byte slices of QSW1 and the chunks of QSW2.

**`Container`** is a file: `Candidates` is what `enc_best_base` may offer for an image,
`Written` is `mk_file`, `HeaderOk` the checks of `rd_head_limited`, `dec_qlic` and the
`Decode*` actions the decoder that the header alone selects. It runs in the state of
`PlaneCodec` as the method "file" beside those of the plane coders. The abstractions: sizes of streams
are not known, so any candidate may win, and where the code compares scores of predictions
(`Plans`, `Mixes`, the models of bands) any choice may be made; a QST1 stream is its
dimensions and its samples, since `PlaneCodec`, `RangeCoder` and `StreamTrials` are about the
rest; LZMS gives back what it was given (external). The file of a frame of an animation is
one element, its content being what the other candidates are about; delays and the loop count
are left out. A copied block refers to the latest block that is equal, or to none. The four
predictors that the code has twice, for an image and for a buffer of residuals, are one operator here. The search
for a move in an animation has its patches of 2x2 pixels and its choice between
rectangles, without the limits of 16 votes and 16 candidates. Wide samples have rows without
padding, their checksum is the samples, and the slices are decoded in order: `TileJobs` has
their threads.

**`WebDecoder`** adds the decoder of the browser to `Container`: a file that waits for its decoder
may be opened by either. `qlic_wasm.c` encodes with the encoder of `qlic.c` and gives it wide samples
to decode, but reads the header and the thirteen kinds of payload of images and animations with
functions of its own. They were compared with those of `qlic.c` line by line; what does the same is
the same operator here (`dec_qlic`, `rtt_dec_one`, `dec_anim_payload`, ...), so that the module defines
the rest: `PageModels` is its `RTT_MAX_MODEL`, `read_head` has no wide modes, `dec_rtt_chunk` and
`page_dec_rtt` know one model less. The price is that a page function which comes to differ from its native
twin elsewhere would not be noticed by the runs. What the page does not take ends in the stage "refused".

**`TileJobs`** is a job in parts: the functions that plan a job (`try_tile_height`, `dec_tile`,
`try_rtt_height`, `dec_rtt`, `enc_anim_mem`, `dec_anim_payload`, `dec_anim2_payload`, `enc_mem`,
`dec_qlic_limited`, `enc_wide_payload`, `wide_payload_decode`) are rows of `WorkOf`, with their
number of workers, the size of a batch and the ways a task and an append can fail. `Take` and
`EndTask` are the task functions on any thread, `Judge` the look at the records after the loop,
`AppendNext`, `Again` and `AppendAgain` the loop that appends the parts, `OverLimit` the end of a
trial that is larger than the best. `buffers` is what the job has allocated: one result for each
part (`Buffered`), the image, table or payload (`Whole`) and the encoder's file (`File`). What a
task leaves is `Made`, and what each function frees on its way out is `Freed`: `try_tile_height`
walks over all parts, `enc_anim_mem` over those of the batch, `wide_payload_decode` from the part at hand or only
that one, a decoder of bands has only the image. A job that frees too little leaves something in `buffers`. `Outer`, `Share` and `Favoured` are the split of the thread
budget; `Blamed` and `Left` say what becomes of an error that another thread met, because
`g_err` and `g_status` are thread-local.

**`ApiCall`** is one call of a public function over such a job: `Enter` (`clear_err`, arguments),
`Header`, `Watch`, `Begin` (options, thread count), `Copy` (rows with a stride, the tables of an
animation), `Start`, `Core`, `CoreFailed` (the thread count is put back, the status is translated),
`CoreReturns` and `CoreRunsOut` (what the core makes of its result at last: the first frame of an
animation, a table for one frame, the description of an HDR image), `Deliver` with one disjunct for each way in
which a function gives out its result, `Watched`, `RegionRow`, `CallbackRow` and `RowsDone`.
`held` is what the call itself has allocated, `taken` what the caller's output points to. Every
exit names the buffers it frees (`Return(r, freed)`, as the paths of `qlic_api.c` do one by one; `Unwound` for those after a
failure of the core), and none empties a variable. `Checkpoint` is `observer_checkpoint`: the observer
may stop the call in either of its two callbacks. Each public function is a record of what it
takes, whether it reads the header first, whether it has an observer, how it can fail late and
whether it copies the caller's pixels.

What the two modules say of the code, and a reader may not expect: a band of MODE_TILE_MODEL
that a helper thread could not encode for lack of memory is reported as `ERROR`, because
`rtt_enc_one` records no reason (`CauseReported` allows it, so it does not speak of this hazard); `unf_rows` without memory is `BAD_DATA`; a wide frame inside a
QAN1 file is `UNSUPPORTED_FORMAT` or `BAD_DATA` depending on which thread decoded last;
`qlic_decode_rgba` gives the first frame of an animation; the progress of a region is told
before its row is copied, that of `qlic_decode_rows_rgba` after the row was handed out.

`MC*` modules only define values for constants.

## 4. Runs

| Run | Instance | Question | States |
|---|---|---|---|
| ParallelFor | 0-4 tasks, 0-3 workers, three builds | type, each task once, results readable, frame, worker limit, refinement of `TaskSet`, the call returns | 9711 |
| RangeCoder | base 8, range 4096, probabilities of 64, all 8 mixtures for 3 decisions, two of them for 5, limits 4 and none, memory 5 and all | precision, every bit possible, round trip, truncation, honest cut | 972 k |
| GuiJob | 2 images, 2 files, sessions with and without a full queue | what is saved, left, closed; who owns the handle; the busy state ends | 7104 |
| GuiCancel | as GuiJob | *violation*: cancellation stops the codec's work | |
| GuiViewer | 4 results, 3 pending, 3 frames, sessions with and without a full queue | owner, picture, loading ends | 114777 |
| StreamTrials | 2 trials, 2 retries, sizes 1-3 or failure, 1 and 4 threads | cut, buffers, thread independence of the choice | 209 k |
| StreamTrialsBytes | the same as StreamTrials | *violation*: thread count never changes the bytes | |
| CliFile | a batch of up to 2 items and a single command, 2 targets, one process number, 2 attempts, 1 or 3 threads | type, targets, temporary files, success, thread budget, commands end | 374 k |
| PlaneCodec | planes: every content of 3x3 and 6x1 with 1 bit, 2x2, 3x1 and 1x3 with 2, 2x1 with 3; tiles of 2 or none; runs of 2 bits; for the other modes 2x2 with 1, 6 and 7 bits, 3x1 and 3x2 with 2, 3x3 with 1 and 6, 5x3 with 6, 5x4 with 3 and 12x1 with 4, of samples that are equal or far from each other; counts of 4 bits, 2 patterns of at most 4 blocks. Images: every content of 3x2 with 2 colours, 3x1 and 1x2 with 4, rows of equal steps and woven patterns of up to 20 pixels with 8, in four families of colours. Animations: every content of 2 frames of 3x1 and 2x2 with 2 colours, one with a move. Wide samples of 2-7 bits, 1, 3 and 4 channels, 15 good and 9 bad descriptions | round trip, contexts agree and nothing refused, description kept; the page reads the same files except bands with one model | 435 k |
| WebRoundTrip | rows of equal steps of 4x2 pixels with 4 colours | *violation*: the page decodes what it encodes | |
| Animation | three frames of 4x3 pixels, a part of 2x2 that moves, a pixel that changes with it | *violation*: animations are lossless | |
| ApiCall | every public operation on every form of image; 3 processors, thread options 0 and 4, images of 1, 3 and 4 rows, bands of 1 and 2, regions of 2 rows | thread budget, half the rows, cause reported, nothing left, cancellation | 1531 k |

Why the bounds are enough. Three workers give two helpers, the least that race
with each other and with the caller; four tasks are more than the workers, and the
smaller counts are in the same run. A base of 8 makes a carry through
pending digits happen within five decisions, which a base of 256 would need
hundreds for; the proportions that matter (four digits of range, at most two
shifts per bit) are those of the code and are assumptions of the module, and the
precision is proved for all values. Three decisions are enough for each mixture
to be updated and used again after another one; the constraint `LongOnesPlain` lets only the
two mixtures of one context go on to five, where carries and cuts happen. Two files are needed by the old and the
new job; a third would only wait. Three pending decodes are one on display, one
abandoned and one loading. Two trials and two retries reach every order, tie and
replacement; a third adds no new comparison.

Two commands with one process number are the worst case for temporary names; with two
attempts a name left by an earlier kill and one held by the other command use them all
up, which is what the hundredth attempt is in the code. Of three threads for two items
one is a remainder. A 3x3 plane has every border, both neighbours at a distance of two and
four tiles of which three are cut off; 1 bit has no residual but -1 and 0, 2 bits have the
residual without a counterpart, 3 bits have sizes with bits below the leading one. A run of
six samples is one too long for two bits. Six bits give gradients on both sides of the
thresholds 8 and 32 of `gapp` and edges for each branch of `predictr`, seven of the threshold 80; rows of 12
samples differ in every pair of pixels until the tenth, so that there are more blocks than
`PatternsStored`, and 5x4 has two patterns with blocks cut off at an edge. Diagonals of one
sample a row are what each of the four slanted orders is chosen for.

The payload modules scale the numbers of the code, so that each side of a boundary is met by
small images: `VarintBase` 2 (128) gives numbers of several bytes, `SmallPalette` 2 and `IdByte` 2
(256) palettes on both sides of a byte of indices, `HotColours` 1 (128) colours with and without a
short number, `TileLogs` {0, 1} (3 to 6), `Periods` {1, 2} (8, 16, 32) and `Blocks` {0, 2} (0, 8, 16) of
the gray model, `BlockLog` 2 (4) and `RegionLog` 1 (6) blocks that an image cuts off,
`BandHeights` {1, 2} (256, 1024, 2048) several bands with a shorter last one, `MoveArea` 4 (64) and
`MoveVotes` 1 (4) a move of 2x2 pixels, `SliceBits` 2 (8) samples of one to three slices,
`MaxChunks` 7 (256) and `MaxMetadata` 50 (2^24) descriptions at their limits. The families of
colours are gray, colour, colour with alpha and gray with alpha, so that each mode of the header
occurs; among them are colours that differ by one, wrap around and agree in two channels.
In `ApiCall` four rows in bands of one are more bands than three threads take, so that there is a
second batch and a thread to spare; a thread option of 4 is more than the processors there are.

Deadlock is not checked where a run describes one call or one message that ends
(ParallelFor, RangeCoder, StreamTrials, CliFile) or a window that is gone (Gui*). In
PlaneCodec and ApiCall, which are also about one call, it is checked: an end is a step
that repeats, so that a decoder or a job that is stuck would be found.

Four runs find a violation; each is a disagreement between the code and a
statement about it:

- **Animation.** `docs/architecture.md:58-60` says that animation is lossless.
  `anim_verify_move` compares prediction and frame only in the rectangle around the old and the
  new place of a part (`qlic.c:11739`), `anim_find_move` asks no more than that the part explains half of
  the changed pixels, and a move is then all that is written. A pixel that changes
  elsewhere in the same frame keeps its old value. A build of this commit shows the same: two
  frames of 64x64, a part of 16x16 that goes from x=0 to x=40 and leaves one colour behind,
  one changed pixel at (30,30); the second frame comes back with the old pixel. PlaneCodec checks
  animations without such a pixel.
- **WebRoundTrip.** `tests/web_test.mjs:131-156` requires that the browser package decodes what it
  encodes, and `docs/architecture.md:239-241` says that it handles current native streams. The last
  model of a band that `qlic_wasm.c:34` knows is `RTT_PLANAR`; the encoder it is linked with also
  writes `RTT_RULE` (`qlic.c:7443-7445`), for images of at most 4096 pixels. Native builds of both files
  show the same: about one of 4000 random small images is written with such a band, which
  `qlic.c` decodes and `qlic_wasm.c` refuses as corrupt. `PageReadsTheRest` states that this is the only
  difference.
- **GuiCancel.** `docs/architecture.md:182-183` says cancellation can stop all codec
  work. `run_child` does not look at the flag after it published the handle, so a
  cancellation between the last look and the publication terminates nothing: the
  child runs to its end while the window says "Cancelling...". The job is still
  reported as cancelled and its file removed (`NoOrphanFile`, `BusyEnds`).
- **StreamTrialsBytes.** `tests/api_test.c:231-247` requires equal bytes for one and for
  all threads. The gate on mode 39 (`stream.c:8464`) is only in the branch for one
  thread. The stream encoder by itself differs (22x25 RGB, 87 against 69 bytes);
  through `qlic_encode_rgba` no difference was met on about 75000 generated images,
  because it passes one thread to the first stream search and the other callers
  seldom win. `ThreadsAgree` states what does hold.

One more disagreement is of a kind no run is about: `docs/profiles.md:78-85` says that new encoders
must not write the syntax of versions before 1.0 unless the caller asks for it, and the encoder
offers the modes 11, 15 and 18 of that list by default (`Candidates` has them).

## 5. Fairness

`ParallelFor`: weak fairness for the caller and for each thread inside the loop (the
operating system runs every thread that exists, and callbacks return), and for the
start of a helper on POSIX only. A pool submission is under no fairness: the pool
may be full, which is why `CancelPending` matters.

`GuiJob`: weak fairness for the worker, for the rest of a cancellation and for each
child (both finish or are killed), strong fairness for `WM_QLIC_DONE`, because posted
messages are handled before later input. Nothing the user does is fair.
`queueFills` divides the sessions: where the queue may be full, `PostMessage` fails, the
result is freed and `g_busy` (or `g_view_loading`) stays set; the code has no retry, and
`BusyEnds` and `LoadingEnds` speak of the other sessions only.

`GuiViewer`: weak fairness for the decode threads and the message.

`CliFile`: weak fairness for the steps of each command (its threads are scheduled and its
system calls return); whether a command starts or is killed is under none, and `OpenFails`
is left out, so that an item whose temporary names are in use has to end by itself. The other
modules state no liveness: what they describe is one call whose steps are finite in number, and
that it does not stop half-way is what the check for deadlock says.

## 6. Proofs

`ParallelForProofs` proves, for every `MaxCount`, `MaxWorkers` and set of builds, the
five invariants of the run and the refinement of `TaskSet`. `ExactlyOnce` says
nothing about who holds an index, so it is not inductive; `Inv` adds

- `ThreadsInv`: which points a thread can be at, and that exactly helpers `1..created` exist;
- `JoinInv`: joined helpers have left the loop, and a returned caller joined all;
- `CounterInv`: the indices below the counter are those called once, each held by
  one running thread or finished, and whoever left the loop saw the counter at the end.

`InitInv`, one lemma per group of actions and `NextKeepsInv` give `Invariance`. At the
return nobody is in the loop and the counter is past the end, so every drawn index
is finished (`AtReturn`); `NoMoreThanWorkers` counts the threads that can be inside.
For the refinement each action is a `Begin`, an `End`, a `Return` or a stutter of `TaskSet`.

`RangeCoderProofs` proves `PrecisionKept` and `EveryBitPossible` for every base, range and
probability width that satisfies `TopAssumption` and for messages of any length.
The invariant `CoderInv` adds to `PrecisionKept` where the interval ends (`Fit`): below
twice the width, and at the width when the cached digit is the largest: narrowing stays inside
the interval (`BoundInside`), and a shift multiplies both by the base (`ShiftArithmetic`,
`ShiftFits`). The probabilities are handled by `UpdatedInRange` (a shift by at most
eight keeps a value strictly inside) and `MeansInRange`.

The second half of the module proves that the message comes back: `RoundTrip`, `TruncationSeen` and
`CutIsHonest`, for messages of any length, any limit and any memory. The registers of the two sides do not
correspond while a carry is pending, so the invariant `MessageInv` is about numbers:

- what the encoder has given out, its cached digit, the pending ones and `low`, read as one number to the base
  of the coder, is the beginning of the interval to which the decisions so far have narrowed [0, 1), at
  the scale of the digits so far (`NarrowTracks`, `RenormTracks`, `EncBitTracks`). A carry adds one to the cached digit and
  turns the pending digits over, which is what adding it to the number does (`ShiftedNumber`, `ShiftCoded`);
- the message that `enc_flush` ends is that number (`FlushSays`), so the beginning of the last interval,
  which lies in every interval before it (`InsideBack`, `InsideAll`);
- the decoder's code is the distance of the message from the beginning of its interval (`DecBitReads`), so it
  compares with the same bound as the encoder did and takes the same side; `Fed` past the end is a zero digit and sets
  the flag, which an unharmed message never meets before its last decision (`StreamEnds`).

`BufferInv` is apart from it: the buffer is the beginning of the bytes put, whole unless a flag is set
(`PutKeepsBuffer`). Sequences of digits are finite numbers by the recursive function `Power`; the
facts about it, and about the functions that repeat a step (`Iteration`), are proved by induction from
the well-founded order of the natural numbers.

That the decoder mixes and learns as the encoder did (`SidesAgree`) is proved for each of the eight mixtures from the two
sets of definitions.

`StreamTrialsProofs` proves the three invariants of its run for any number of trials and retries
and any sizes. `Inv` says in each phase who leads (`Leads`): the leader is a completed trial
with a live buffer, none that completed is smaller, whatever was cut was larger, and the limit handed
to the others is never below the leader. `NothingBetterCut` and `OneBufferLeft` follow at the end. For
`SameStream`, `Agreed` says who leads in terms of the sizes alone: among the usable trials the
first of the smallest, or the one of mode 42 when it ties (`LeadIs`), then the first of the smallest retries that are
below it (`LeadsAfter`). What one thread does is a recursive function over the trials in their order,
which skips some; `OneThreadIs` shows by induction that it skips none of the smallest, so that its
choice is the same.

`CliFileProofs` proves the six invariants of the run for any number of
commands, items, targets, process numbers and attempts. `Inv` adds to them what an item
knows at each point: a file about to be renamed is whole (`RenamingWhole`), an item that is
"ok" has its file at its target unless another command came later (`OkInPlace`), a file at a
target was put there by an item that is done (`TargetDone`), an item at work was not dropped,
so that no two of one command have one target (`DroppedIdle`), and the bookkeeping of commands that have not started (`NewWaits`) or have
exited (`SuccessDone`). `OwnTemporary` is what makes the rest inductive: because of
`O_EXCL` only the holder of a name renames or removes the file under it.
`ThreadBudget` has an invariant of its own, `JobsHeld`: no more items are at work than may run at
once. The sum over a set is unfolded once (`SumOfShares`, by induction over the subsets of a finite set),
the items with one thread more are those with fewer than `threads % jobs` others before them, which are at most as many
(`FirstElements`), and the rest is arithmetic (`SharesFit`).

`GuiJobProofs` proves the four invariants of its run for any number of images and temporary
names. Each of them is about one moment; `Inv` adds how a job goes through them: busy from its
start to its message, with nothing on display (`BusyInv`), at most one message, and that of a
worker which is gone (`QueueInv`), only the child of the stage runs and verify passes only on a file
that decodes (`ChildInv`), handles exist from the publication on and the one that
`cancel_compression` has taken is not the published one (`HandleInv`).

`GuiViewerProofs` proves both invariants of its run for any number of results, pending decodes and
frames. `OneResultOwner` counts owners, so the proof needs what a message more or less does to
the count (`HeldAppend`, `HeldTail`: a bijection that shifts the indices), and that a thread that has not begun
uses memory nobody has (`MemoryInv`). From the count follows that the result on
display is live and nobody else's (`Displayed`), so that no thread changes its frames
under the bitmap (`ThreadPicture`).

`CodecProofs` proves the arithmetic on which all coders of `stream.c` rest, at every
depth: `ResidualCases` (wrapping is adding or subtracting 2^depth at most once),
`MapReversible` (`unmap_res` undoes `map_res`, and codes stay in range),
`SampleReversible` (a sample comes back from its code for any prediction) and
`PredictionInRange` (no predictor leaves the range of the samples, so the stores of zero runs
need no mask). `OrderVisitsOnce` is about `order_pos`, for planes of any width and height: a rank is a column and a
place in it, or a row and a place in it (`RankInColumns`, `RankInRows`, from the uniqueness of
quotient and remainder), and two ranks that fall on the same sample have the same row, hence
columns that are congruent modulo the width (`SameColumn`). The prover has no powers of two: the module has the recursive
function `Power`, and `Powers` proves its equations.

The same module proves `RoundTrip` and `InStep` of `PlaneCodec` (`PlaneComesBack`, `SidesInStep`): `decode_plane` and
`decode_plane_xzr` undo `encode_plane` and `encode_plane_xzr` for every width, height, depth, tiling, map, form of `map_res` and number of bits of a
run. A number comes back from its bits, in the slots that were written (`NumberComesBack`: the size, by the
first 0 in unary, then the bits below the leading one), and so do the trees of the map (`TreeComesBack`, `MapComesBack`).
The invariant (`StreamInv`) is about the stream as a whole. A place is a sample with the last code's size and sign
there and the number of bits before it; there is a set of places, the first behind the map, and from each of
them the wire has the bits of one step of the encoder that leads to another of them (`Sent`). The encoder is at the only place of
which that need not hold (`Writing`, `UpTo`); what it appends leaves what was sent as it is (`SentStill`). In a complete stream it
holds of all but the end (`Complete`), and the decoder is at a place with the samples before it restored (`Reading`),
so that it takes the same context (`ContextSame`: neighbours are samples before it), finds the code that stands there, in its slots, and
reaches the next place. A run is filled sample by sample from the samples the run itself has just filled; `FilledIs` shows
by induction that they are those of the plane. A set of places says all this without an induction over the stream.
These two theorems are about `Spec` of `PlaneCodec`, the two pairs that run alone. `PlanesAmongOthers` says the same of `PageSpec`, the
whole specification that the run takes, where the pairs are one method among others: no step of another coder or of a file begins or ends
at a plane of these methods (`ModesApart`, `FilesApart`).

`DescriptionComesBack` is about the description of an HDR image (`DescriptionKept` of `Container`), for any description whose fields have
the widths of the C struct and any blocks the codec does not know: when `dec_hdr_qlic_limited` accepts the bytes `enc_hdr_mem` made, it
gives out what the caller gave. Numbers of two and four bytes come back (`Little16Is`, `Little32Is`, `ShortsAre`); the chunks of
a description are its fields and then its blocks, in their order (`DescribedCarries`); each chunk lies where it was
written whatever the lengths of the others (`AllInPlace`, `ChunksLie`, `HdrFileLies`). The parser's view after k chunks knows
exactly the fields whose chunk it has passed and the blocks so far (`Knows`, `KnowsMore`), by induction over the chunks (`ViewsKnow`), so
the view at the end is the description (`HdrComesBack`). The invariant (`HdrInv`) carries from `EncodeWide` to `DecodeHdr` that the bytes are
such a file (`HdrSent`), through every step of the other coders. The theorem is about `PageSpec` and rests on `WideImagesAssumption`.

`WideSamplesComeBack` is `RoundTrip` and `InStep` of files of wide samples, native and HDR, for planes of any size, any
number of bits and any description: the file is never refused, and each sample comes back. A sample is the sum of its slices, each weighted
by a power of two (`SlicesMakeSample`; the sum of the library is a fold over a set that takes its elements in no order, and `SumIs` shows
by induction over the terms that it is the sum from the first to the last), and the slice of the highest bits is within the limit that
`wide_payload_decode` sets. The streams lie where the table of lengths puts them (`WidePayloadLies`, `StreamAtIs`, `SliceTaken`), so
that `qsw1_shape_valid` holds (`ShapeTaken`) and the decoder gives the plane (`PayloadTaken`). For HDR the parser must accept every
chunk: no chunk of the format comes twice, each has the size and the values its case demands because `hdr_metadata_valid` demanded them of
the fields (`TellsFits`), and the sizes add up to what the head says (`SizesAre`, `AllAccepted`, `EndIs`, `HdrOpens`). The invariant
(`WideInv`) has what the wire holds between the two sides as a predicate on bytes, plane and shape (`Whole`). The assumption says of
the images that a row is whole pixels and that the two entries are the only kinds, as `wide_layout` has it. As everywhere in `Container`, a QST1 stream is
its dimensions and its samples.

`ApiCallProofs` proves `BudgetKept` and `HalfTheRows` for every set of budgets, images and
band heights. `JobInv` says that at most `Outer` tasks with work run, all of them in the batch,
in every phase, and that none runs after the loop; a task takes its share and, if it is among the
first `budget % Outer`, one thread more. `Shares` is then arithmetic (Outer shares and the
remainder are the budget) on top of two facts about finite sets of numbers: that the elements with fewer
than n smaller ones are at most n (`FirstElements`), and that a nonempty set has a largest
element (`LargestElement`). For the rows, the number of workers is bounded by
`tile_band_worker_count` and a batch by the workers.

The other three properties of that run are proved in the same module, for every number of processors, rows and
options. `CallLeavesNothing` rests on two invariants about memory. `BufferInv` says which buffers a job may have at each of
its phases (`Room`): results of parts that have ended and are not yet spent, the image or payload, the file at the end only; each
step of a job stays inside it (`JobStepKeepsBuffers`), and what is left when a job has failed or is done is little enough for
what the function or its caller frees (`FailingFrees`). `HeldInv` says the same of the call: which copies it may hold at each
point (`Lent`), what the core gives it (`Kept`, and `Added` for tables and descriptions), and that at the return `buffers` and `held` are
what the output points to. A path out of a call that forgot a buffer would leave a case of `ApiKeepsHeld` open. `CallInv` describes the
rest of each point of a call: that the thread count is
the option's from `Begin` to the return of the core and the thread's own before and after, that a call
has stopped only if it returned `CANCELLED`, and how far the progress is. `CauseInv` is about the status: it is clear, or there is a fault of this call
that explains it, and each part that failed has left its fault; `BlamedExplained` shows
kind by kind that what the caller makes of a failed part is a code of that part's fault.
The proof shows where the code is less precise than one would wish: `CodesOf` needs the extra
`ERROR` for MODE_TILE_MODEL and the extra `BAD_DATA` for wide frames.

Assumptions on constants are the named `ASSUME`s of the modules; the instances
satisfy them, which TLC evaluates. The code's own values (256, 2^24, 2^12, rates
1 to 8) satisfy them, too.

## 7. Only model-checked

Liveness (`Termination`, `BusyEnds`, `LoadingEnds`, `CommandEnds`) is out of the prover's reach.
`RoundTrip` and `InStep` are proved for the first two pairs of plane coders and for files of wide samples; for the other coders of `PlaneModes`, the
payloads of bytes in `Container` and the page they are checked only, as is `PageReadsTheRest` of `WebDecoder`. Nothing stands against a proof: what these compare is built and taken apart by recursive functions and
folds, each of which needs an induction of its own (the induction theorems of the library take an operator, which no installed
prover can instantiate; the inductions of section 6 are made from the existence of least elements). These are not done.

## 8. Not modelled

Of the plane coders: the context coder of `stream.c` (`encode_plane37_impl`, modes 37, 41 and 43 to
54), the split streams built on it, and `decode_plane_zr`, which only an older mode needs. The
context coder is two thousand lines of tables, mixers and special cases in which the
two sides are again mirror images; `PlaneModes` has the pattern. Of the tournament: the choice of trials for a picture, the transform
caches and the refinements after the second round.

Of the container: scores and sizes that choose between candidates (any may win), the shortcuts
that keep a candidate from being tried, delays and loop counts of animations, the limits that a caller sets,
`hdr_qlic_info`, and files that no encoder wrote: the decoders are shown to undo the encoders, what they do with
other bytes is the business of the fuzzers under `tests/`.

LZMS, the image input through WIC, the AVX2 kernels and the Rust decoder are
sequential code over buffers whose risk is the bounds of parsing, which the fuzzers
reach and TLC does not. The WIC codec is COM plumbing over the API.

The web page and its worker are not modelled. `busy` and `activeJob` let one request be under way at
a time, and an answer with another id is dropped. Two hazards remain and are listed: the name
of a PNG is made from `currentFrame` after the worker answered, while the frame may have been stepped or
played on (`index.html:729`, `1291`), and `pagehide` terminates the worker without ending the request it
had (`990`). The entries of `qlic_wasm.c` that keep memory and errors of the last call, its PNG
writer and the wrapper `qlic-web.js` are left out, too. Drawing, layout, wording, options and
benchmarks have no state these properties depend on. Zoom, pan and pixel inspection are left
out of `GuiViewer`; reading the child's output and building its command are left out of `GuiJob`.
