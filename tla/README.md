# OpenAPV in TLA+

This directory is a verification project for the OpenAPV codec library: TLA+
modules translated from the C source, configurations that model-check them with
TLC, and proofs that TLAPS checks: about the thread pool in both variants, the
three ways its threads share the tiles of a frame, the encoder and decoder
instances over any sequence of calls, the bitstream writer and reader, the
parameters of an encoder and the metadata container. The reference is the code as built in release mode: `NDEBUG` set, so that `oapv_assert` is nothing
while `oapv_assert_rv`, `oapv_assert_g` and `oapv_assert_gv` return or jump. The
thread pool is modelled in both of its variants, everything else as built for
Linux.

`PROJECT.json` says which lines of the source each definition stands for, which
property belongs to which hazard, and which change of a definition each property
notices. Paths below are relative to `src/src/` unless they begin with `app/`,
which is `src/app/`, or say otherwise.

## 1. The system

An application creates an encoder or a decoder *instance* with a number of
threads, and calls it once per access unit (AU). An AU is a sequence of payload
units (PBUs): frames, metadata, access unit information, filler. A frame is cut
into tiles, which are coded independently of one another and are what the
threads share. A tile is a header and, per component, blocks of 64 coefficients.

| Component | Source | State it keeps | Operations |
|---|---|---|---|
| Thread pool | `oapv_tpool.c` 44–345 | per worker: status, result, task, argument, task_ret, a mutex and two condition variables | create, run, join, release |
| Thread pool on Windows | `oapv_tpool.c` 346–655 | the same with a critical section and two events | the same |
| Whole-frame tile decoder | `oapv.c` 1987–2063, 2436–2467 | tile array, `tile_idx`, `tile_end` | take a tile, wait for its start, read its size, hand on, decode |
| Selective tile decoder | `oapv.c` 2092–2196, 2828–2893 | destination of each tile, located starts | locate, take, check, decode |
| Tile encoder, rate control | `oapv.c` 739–875, 1148–1233, `oapv_rc.c` | tile array, costs, frame header | cost pass, encoding pass, copy, rewrite header |
| Bitstream writer | `oapv_bs.c`, macros of `oapv_vlc.c` | 64-bit register, cursor | write, write1, coefficient write, sink, deinit |
| Bitstream reader | `oapv_bs.c`, macros of `oapv_vlc.c` | 64-bit register, cursor, end flag | read, skip, align, sink, top-up, coefficient reads |
| Entropy codec | `oapv_vlc.c` 143–281, 528–628, 711–903 | adaptive parameters, previous DC | code and decode a DC, a run of ACs; rate estimate |
| Metadata container | `oapv_metadata.c` | groups, each with a list of payloads | set, set_all, get, get_all, rem, rem_all |
| Decoder instance | `oapv.c` 1672–1861, 2198–2599 | arrays that grow, image held, settings | create, config, decode, decode_frame, decode_tiles, info, delete |
| Encoder instance | `oapv.c` 599–688, 930–1489 | arrays, pictures held, rate control per slot, settings | create, config, encode, delete |
| Header syntax | `oapv_vlc.c` 283–526, 757–1249 | none | writer and parser of each PBU |
| Parameters and levels | `oapv_param.c` | the parameter structure, the application's and the instance's copy | default, parse by name, family bitrate, update |
| Kernels | `oapv_tq.c`, `oapv_blk.c`, `oapv_sad.c`, `avx/`, `neon/`, `sse/` | none | transform, quantise, copy, differences |
| Tables, port, utilities | `oapv_tbl.c`, `oapv_port.c`, `oapv_util.c` | none | data, allocation, MD5, CPU detection |
| Option parser | `app/oapv_app_args.h` | a table of options | configuration files, command line, mandatory options |
| Images and video files | `app/oapv_app_util.h`, `app/oapv_app_y4m.h` | an image's label, planes and samples | create, read, write, copy to another depth; Y4M headers |
| Encoder program | `app/oapv_app_enc.c` | files, images, a metadata container, skip and unit counters | options, set-up, skip, encode, stop, clean-up |
| Decoder program | `app/oapv_app_dec.c` | files, images kept from unit to unit, a metadata container | API set 0 by unit, API set 1 by PBU, clean-up |

**How they interact.** An instance calls the pool (`run`, `join`) with a function
that loops over tiles; pool threads and the calling thread run the same function
on a core each and share the instance's tile array under one lock
(`oapv_tpool_enter_cs`). Everything a thread does to a tile goes through a reader
or writer of its own and the entropy codec. The instance calls the header syntax
for every PBU, and the syntax of metadata calls the container, which belongs to
the application and lives across calls. Images belong to the application too and
are reference counted through callbacks. Every array an instance keeps is
allocated by a function the application supplies, and may fail. The parameters
are filled in by the application, copied and completed by `oapve_create`, and
changed one by one by `oapve_config`. The two programs are the applications of
the repository: one reads a video file and appends an AU for each picture, the
other reads the AUs back, whole or PBU by PBU, and writes pictures.

**What is hard.** A decoder thread does not know where its tile begins until
another thread has read the size of the tile before; it spins, and everything
depends on being told even when that thread fails. Threads read fields outside
the lock because the protocol says nobody writes them then. State survives from
call to call on purpose (arrays, rate control, container) and by accident
(destinations, sizes, hashes, capacities). Outputs are finite, and running out
is noticed only at some places. The entropy codec has no redundancy: an encoder
and a decoder that adapt differently lose everything after. Parameters left to
the encoder are derived from one another in an order that matters. The programs
have many ways to end early, one place where all is released, and images that
outlive the unit they were created for under a label that may no longer be true.

**What makes each component correct** is said by the properties of section 4;
the hazards they are aimed at are listed with their lines in `PROJECT.json`.

## 2. Modules

| Module | Models | Kind |
|---|---|---|
| `TaskHandoff` | what a pool promises: a free worker accepts a job, runs it once, keeps the outcome until it is collected | abstract |
| `TPool` | `oapv_tpool.c` with the codec's use of it; implements `TaskHandoff` | detailed |
| `WinPool` | the Windows pool under the same caller; either variant may be built, both implement `TaskHandoff` | detailed |
| `TileWork` | what a codec call promises of the tiles of one pass | abstract |
| `DecTiles`, `DecTilesSel`, `EncTiles` | the three loops over tiles; each implements `TileWork` | detailed |
| `Tiles` | the three loops side by side, as the ways a codec instance may use its tile array: each behaviour is one of theirs (`use`) | composition |
| `BsWriter`, `BsReader` | the register in front of the buffer, bit by bit | detailed |
| `Vlc` | the coefficient code and its adaptive parameters from block to block | detailed, pure operators inside |
| `MetaMap` | what a container promises: a map | abstract |
| `Metadata` | groups, lists and heap blocks; implements `MetaMap` | detailed |
| `Params` | the parameters of an encoder, from an option's value string to the instance's copy | detailed, pure operators inside |
| `Headers` | the headers an instance of `Params` writes, and what the parser makes of them | pure operators over the states of `Params` |
| `Decoder`, `Encoder` | an instance from creation to deletion | detailed |
| `Codec` | an instance of either kind: what both keep under one name is one variable | composition |
| `Args`, `AppIO` | the option parser; images and video files | pure operators |
| `AppEnc`, `AppDec` | the two programs, from command line to exit status | detailed |
| `MCTPool`, `MCEncTiles` | values for the constants of one module | instances |
| `MCTiles`, `MCCodec`, `MCBits`, `MCInputs` | frames, access units, blocks, pictures, options and payloads for the constants of the four compositions | instances |
| `Bits`, `Inputs` | several modules of a kind side by side: `BsWriter`, `BsReader` and `Vlc`; `Params`, `Headers` and `Metadata`. Each behaviour is one of theirs, chosen at the start (`job`, `use`) | composition |
| `Apps` | the two programs one after the other: what `AppEnc` wrote is what `AppDec` may be run on | composition |
| `MCApps` | command lines, video files and bitstreams for the constants of `Apps` | instances |
| `Induction` | least elements, induction and recursion up to a bound, stated with sets and functions | proofs |
| `TPoolProofs` | the theorems of section 6 about `TPool` and `WinPool` | proofs |
| `DecTilesSelProofs`, `EncTilesProofs` | those about the two other loops over tiles | proofs |
| `TilesProofs` | those about `DecTiles` and, with them, about the composition of the three loops | proofs |
| `CodecProofs`, `PartsProofs`, `AppsProofs` | those about the other compositions, in the words of the properties the runs check: `Codec`; `Bits` and `Inputs`; `Apps` | proofs |

The modules form four layers. At the bottom are the pool and the two registers.
Above them are the loops over tiles, which take from `TaskHandoff` that `run`
makes a core start and `join` waits until it has returned, and the code and the
headers, which take from `BsWriter` and `BsReader` that bits arrive in order. Then
come the instances, which take from `DecTiles`, `DecTilesSel` and `EncTiles` that
the tiles of a frame succeed or fail as one step, from `Headers` that a header
means the same to both sides, and from `Metadata` that a container is a map. On
top are the programs, which take from the instances that a call succeeds as a
whole or fails, that images go back to the caller and that a hash is its
picture's. The layers are separate modules because their product is out of TLC's
reach; what an upper layer assumes is a checked property of the lower one.

**Conventions.** Variables and actions have the names of the code where TLA+
allows. A stretch of code that holds a lock is one action; what it reads or
writes without one has an action of its own. A thread in `pthread_cond_wait` is a
control point, and a spurious wakeup an action. Variables described as *history*
are the model's, and no guard reads them except to bound a run. A `NULL` is a
value of its own. Next to some definitions stands a second one that differs in
one place, named for the slip (`CapKept` beside `CapCleared`) or introduced by
"Wrong:": nothing uses it, it exists so that the property that watches over the
definition can be shown to notice the slip.

### From code to model

- **TPool.** Creation obtains six things in `Order` and may fail at each
  (`Obtain`, `CreateFails`, `Undone` are the labels of `tpool_create_thread`). A
  worker's loop is `WorkerCheck` (the test under the mutex, asleep or on),
  `WorkerCall` (reading `task` and `t_arg` with no lock held), `WorkerReturn`,
  `WorkerReport`. A codec call is `Begin`, `Run` for each worker, `OwnShare`,
  `Join` for each, `Return`, as `enc_frame` does; `oapvd_decode` differs in
  ignoring the join's own result, which `JoinTellsThisCall` shows never to
  matter. Deleting is `Delete`, `Terminate`, `Reap`, `Gone`.
- **WinPool.** Extends `TPool`: the fields, the worker's task and the caller's
  loops are the same, `Same` are the caller's steps shared word for word.
  `WinObtain`, `WinCreateFails` are the five steps of creation; `r_event` is set
  when a worker has nothing to do, is reset by `WinRun` and left set by `WinJoin`;
  `WinSignal` sets it after the critical section, as a step of its own. Nothing
  waits on `t_status`.
- **DecTiles.** A core is at `wait` (spinning on `bs_beg`; `Spin` is a turn that
  finds nothing, `Told` one that ends it), `size`, `hand`, `dec` or `fail`. The
  ERR label passes on its own start so that nobody spins for ever.
- **DecTilesSel.** The caller walks the tiles (`Locate`, with `Place` the offsets)
  or takes them from the header; the threads skip tiles with no `dst`. A tile
  located by the header has its size checked by the thread that decodes it.
- **EncTiles.** One pass is the cost pass of `oapve_rc_get_tile_cost_thread`, one
  the encoding. `Sunk` and `Remained` are pointer arithmetic with the width the
  code has (`Wrap` is 2^32). `Copy` moves tiles behind one another and `Rewrite`
  writes the header a second time.
- **BsWriter, BsReader.** The register is a function from its 64 bits to the
  number of the bit it holds, so that a lost, swapped or doubled bit shows. Values
  of bits do not matter to a register and are left out.
- **Vlc.** Codes are sequences of bits. `Encode` codes a block and adapts the
  encoder's parameters; `Decode` reads the code and adapts the decoder's. The code
  tables for short values are an optimisation of the same code; `Code` is what
  builds them.
- **Metadata.** The heap is explicit: a payload owns a node and, unless empty, a
  block of bytes. Each allocation may fail. Batches stop where the first payload
  is refused, both for `oapvm_set_all` and for the parser. `Written` is the PBU of a
  group, byte for byte except that the data of a payload is one item, and `Parsed`
  what the parser finds there. A lookup is the first of the places where something
  is (`First`), the number of payloads the last of the sums over the groups
  (`Sums`). `Inputs` maps the container into `MetaMap`; while it is parameters that
  are set, the map is empty.
- **Decoder.** A call is a walk over the PBUs left (`todo`) with a failure at
  every place where the code can return. `Setup` and `Sizes` are the arrays that
  grow, with the failing allocation beside each; `ReadAgain` is the second reading
  of a header whose sizes did not fit. `Info` is `oapvd_info` on the same bytes,
  `FramesTo` its loop: the frames met so far, as a function of the PBUs read.
  `HashRefused` is the one way to fail behind the tiles: `oapv_imgb_set_md5` looks at the
  image as a whole, aligned sizes and planes beyond those of the frame included, which
  `dec_frm_prepare` does not; the picture is then there under the hash the image had.
- **Encoder.** Output is counted in bytes, because the last eight of it matter. A frame
  takes three steps: `FrameCoded` is `enc_frame`, which may fill the output to its end;
  then the slot's rate control is saved and only behind that the size of the PBU is
  written, for which the output must have a byte more (`FrameSized`, or `FrameFills`, which
  fails with the slot saved). A metadata PBU goes through the register of `BsWriter`:
  `BytesIn` says how many of its bytes arrive where full registers may no longer fit,
  `Unnoticed` when none of the checks behind it fails, so that `MetaWritten`, `MetaCut` and
  `MetaFails` exclude one another. `rc` and `rc_frm` hold which pictures the
  rate-control state has learned from, in their order, not its numbers; `coded` is the
  history it is compared with.
- **Params.** A value string is what the conversions of the C library make of it
  (`kind`); `Accepted`, `Assigned` and `Refused` are `oapve_param_parse` for each
  option, assignments made before a refusal included. `Updated` is
  `oapve_param_update`: `Tiles`, then `Controlled`, `LevelBand`, `Bitrate`, each of
  which may end it. The tables of levels and of families are those of the source;
  sample rates are counted in macroblocks and frame rates are fractions, so that
  comparisons of floats become exact ones (`MulDiv` keeps them in 32 bits).
- **Headers.** A header is a sequence of fields with their widths; a field keeps
  the low bits of what is put into it. `Prepared` is what `enc_frm_prepare` demands
  of an image, `WrittenFrame` and `WrittenTile` are the writers, `ReadFrame` and
  `TileReads` the parsers with each of their checks. A parser reads the fields that
  the flags before them promise; `Layout` compares their widths with those written.
- **Args.** `Parse` is `args_parse`: configuration files first, wherever
  `--config` stands, then the command line until the first word that does not
  fit. A word is its dashes, its text and its value as a number.
- **AppIO.** An image carries its label and, apart from it, how many bits its
  samples really span, so that a wrong shift shows. `ImgbCpy` refuses silently as
  the code does. A Y4M header without a colour tag is compared through an array
  nobody has written: `HeaderFormats` gives every outcome.
- **AppEnc.** The stages of `main` are control points, each with an action that
  succeeds and one that goes to ERR. `Read` takes a picture and `Encode`, `Skip`,
  `SkipEnds` are the states of the loop; a picture goes through `imgb_r` or
  `imgb_w` where depths differ.
- **AppDec.** `ReadUnit`, `Info`, `Decode`, `Payloads`, `Write`, `UnitDone` are
  the loop of API set 0, `BeginUnit` to `UnitEnds` that of API set 1. `TakeImage`
  and `Prepared` keep or replace images by size alone, as the code does;
  `TileReqs` moves the window of cyclic decoding.

## 3. Runs and bounds

| Run | Bounds | Why they are enough |
|---|---|---|
| `tpool` | 3 workers, 2 calls, results OK and Err, both variants | a first, a middle and a last worker; every worker has a call before, whose result could be stale; every number of workers per call, 0 to 3 |
| `tiles` | 3 threads, up to 3 tiles; 2 frames of 7 kinds decoded whole, 2 calls of 5 kinds with every request, 2 frames of 6 kinds encoded | a tile between two others; more, as many and fewer tiles than threads; a second frame finds the first one's array, and every set of tiles follows every other; each overflow alone and two together, an exact fit, one too many |
| `enc_tiles_addr` | 2 threads, 1 frame, addresses of 5 bits | one buffer that ends at a multiple of the range |
| `bits` | writer: 11 bytes, 130 bits, lengths 1, 8, 32 and 21, 64; reader: 19 bytes, lengths 1, 3, 8, 20, 32 and suffixes 1, 5, 12; code: blocks of 11 coefficients, 16-bit range | a register and a part of one, two registers and a part of a third; lengths that divide a register, straddle its end and fill it, every mix of syntax and coefficients; a run of 8 and more reaches the last run parameter, levels reach the first to last of theirs, and any block follows any parameters the blocks can leave |
| `bs_writer_sink` | 11 bytes, header writes of 1, 8 and 32 bits | the buffer of `bits`, written as metadata is |
| `inputs` | 10 pictures, up to 2 options set by name out of 14 and one unknown, with their accepted, special and refused values, 1 edit, 7 image formats, with each QP at the ends of its range; a container of 2 groups and 3 payloads, 3 groups to ask for and one out of range, payloads of 254, 255 and 510 bytes | pictures below and above each limit of the tile grid, at level 1, at the highest level and beyond, of odd width and at the ends of the 24-bit fields; two options suffice to set one against another or against a default; every chroma format, depth and profile family; both limits of the container, each with the other free; a first, middle and last place in a list |
| `params_level`, `odd_width` | those of `inputs` | one picture no level carries, one of odd width |
| `codec` | 3 calls of a decoder (units of 1–4 PBUs, 1–3 tiles, 1 or 3 images offered) or of an encoder (units of 2 and 3 frames for 2 slots, two of one group among them, 1–3 tiles, 2 groups of metadata in the container, payloads of 5 bytes and hashes of 34, outputs of 104 and 300 bytes); 3 threads | growth, failed growth and the call after; sizes in the header or not; an image whose hash is refused, and the next frame in it; each slot's state read after it was written by the other; in 104 bytes two frames fit exactly, or leave 4, 15 or 19 bytes, in which metadata is refused, loses its head, or loses payloads; in 300 all fits |
| `apps` | some thirty command lines and 13 videos for the encoder, 21 command lines and about 200 streams for the decoder, units of up to 3 frames, of which 2 have a place | each option that changes the path, each value it refuses; files that end cleanly, inside a picture and inside a unit; a size, format or depth that changes from unit to unit, and a frame that comes and goes |
| `apps_seek`, `apps_companding` | those of `apps` | as there |

Bounds are the constants `MaxCalls`, `MaxFrames` (frames submitted, in `DecTiles`
and `EncTiles`), `MaxBits` and `MaxParses`; they stand only in the guards that
begin a call, a write or a parse. `MaxSide` keeps the pictures whose family
bitrate is asked for small enough for 32 bits. Other constants are sizes the code
has too, with smaller values. `CHECK_DEADLOCK FALSE` is set for `codec`,
where the application may stop calling, and for the three runs of
the programs, which end; in the other modules either an explicit step says where the system may rest or
something can always be done, and every stop is reported.

## 4. What the runs show

**Pool** (`tpool`). `QuietWhenIdle`: between two codec calls no worker runs a
task or is about to. `JoinTellsThisCall`: what a join hands out was returned by
the task of this call. `NoFailureLost`: a failure survives the loop of joins.
`ResourcesMatch`: whatever step of a creation fails, what a worker holds is what
was created. `ImplementsHandoff`: the pool implements `TaskHandoff`.
`CallsReturn`: no wakeup is lost; every call and the deletion come to an end. All
six hold of either variant.

**Tiles** (`tiles`). `ImplementsTileWork`: no
tile is worked on twice or by two threads, a pass ends when nobody holds a tile,
well when all are done and badly only when one failed. `DecodedInBounds`: nothing
behind the bytes of the caller is read as a tile. `SuccessIsWholeFrame` (a frame
or chosen tiles decoded) and `SuccessIsCoded` (a frame encoded): a success of many
threads is what one thread would have done in order. `StartIsFinal`: the start of a tile, read without the lock, does not
move once it is told. `CostsAreThisFrames`: rate control shares out by the costs
of this frame's tiles. `CallsReturn`: whatever fails, the call
comes to an end; for the spinning decoder that is not obvious.

**Registers and code** (`bits`). `BitsInOrder`,
`NextBits`: bits leave and arrive in order across registers. `EndIsTrue`: the
reader's end flag and what was asked for agree. `CoefOverflowSticks`: a
coefficient that did not fit is never followed by a sink that succeeds.
`RoundTrip`: the decoder returns what was coded and adapts as the encoder did.
`CutIsNoticed`: a block cut at any bit is not taken for the same whole block.
`RateIsLength`: the estimate is what the writer writes.

**Parameters** (`inputs`). `TileGrid`: after clamp, minimum and limit a tile is
whole macroblocks, not below the minimum, and there are at most 20 in a row or
column. `RateControlHasTarget`: an instance under rate control has a frame rate
and a target its level and band allow, one with a fixed QP has a QP, in whatever
order the options came. `LowestLevel`: an automatic level is the lowest that
admits the picture and the bitrate in a band that was not ruled out.
`FamilyFits`: the bitrate of every family is one the encoder then accepts.

**Headers** (`inputs`). `HeadersReadBack`: in every state an instance can be in,
every image it accepts is coded under headers which the parser accepts and reads
as they were meant, in each field and flag, and every tile with a QP in the range
of the coded depth. The checks of the two sides are in different files and were
written apart. Two kinds of instances are excepted (`Readable`): an odd width in
4:2:2 (section 5), and a tile side of 2^20 macroblocks, which only the widest
picture has.

**Container** (`inputs`). `ContainerIsSound`: every heap block has one owner, after
each failing step (`NothingLeaks` of `Metadata`); no group is there twice or empty, no
kind of payload twice in a group, the counts are true and a reader has room for what is
there (`OneOfAKind`). `ContainerReadsBack`: what is held can be written, and a parser gets the same
payloads back from the PBUs.
`ImplementsMetaMap`: a set changes one name, a refused one nothing.

**Instances** (`codec`). `NothingStale`: what a frame is coded with,
arrays, sizes, destinations, pictures, is its own or cleared. `RefsBalanced`:
images are given back once on every path, and what creation obtained is released
whatever step failed. `HashIsThePictures`: a hash an image carries is that of the
picture in it, also after a decode into it failed half way. The one exception is an image
whose hash could not be taken after its picture was decoded (`unhashed`); it keeps the
earlier hash, the call fails, and no frame that is reported is ever such an image. In an
access unit a hash belongs to the frame it comes with; of several hashed frames of
one group it is the last one's, since a hash set for a group replaces the one before
(`oapvm_set` at `oapv.c` 1431–1436). `SuccessIsWholeUnit`: a
success read every
PBU, labelled every frame and agrees with `oapvd_info` where the AU tells the
truth about itself. `RcStaysWithSlot`: rate control of one slot has learned exactly
the frames coded in it, each once. A frame that was coded leaves its trace also when the
call fails afterwards, be it for the one byte behind it that the sink asks for; a frame
whose coding failed leaves none. `SizesLeadThrough`: a reader steps from one PBU to the
next by sizes of at least a header. In a finished AU it so finds all frames, with the sizes `stat` tells, and
the groups of the container with what they hold. What it may miss are the last groups,
and only when less than eight bytes of the output are left (section 5).

**Programs** (`apps`). `CodedInOrder`: the bitstream holds the pictures of the
input in order, none twice, none missing in between, the command line's metadata
only with the first, and the reconstruction goes with it. `WrittenIsDecoded`: the
video holds the pictures of the bitstream in order, each once and none of an
earlier unit, and cyclic tile decoding brings every tile to its place within a
round. `SuccessIsWhole`: status 0 means that nothing asked for is missing; the
early ends the code itself reports as 0 are named there. `EverythingReleased`:
whatever step failed, everything created is released, but for the images of
API set 0 in places the last unit did not have. `LabelsAreTrue`: samples span the
bits their label says, through each conversion of depth, where the frames of the stream
and those its AU_INFOs announce are of one format and depth. `VerdictIsThisUnits`: a
picture is judged by a hash of its own unit or by none. Where a property is
restricted to streams of one format or depth, the code keeps an image whose size
alone still fits, and what it writes then is no promise of anybody's.

### Fairness

The specifications of the pool (`PoolSpec`) and of `tiles` have weak fairness of
the calling thread and of each worker: a runnable thread is scheduled, which the
operating system gives, and a task returns, which `CallsReturn` of `tiles`
establishes of the tasks there are. On Windows a thread whose event is set runs.
A lock is never held across an
action, so weak fairness is enough. Nothing is assumed of the application: that a
call is made, or a context deleted, is never fair. Nor is any spurious wakeup.
The other modules state no liveness: instances and programs are loops over finite
sequences.

## 5. Findings

- **`oapv_bs.c:134`, run `bs_writer_sink`.** With fewer than 8 bytes left
  `bsw_flush` refuses a full register, `oapv_bsw_write` does not look, and the
  register is overwritten. If what is pending afterwards fits, `oapv_bsw_sink`
  returns a position, although the comments at its callers (`oapv.c:1160`,
  `oapv_vlc.c:480`) say it returns NULL when there is no room. For a frame a later
  check of the tiles' sizes notices. The coefficient writer moves
  its cursor behind the end in the same case and is immune (`CoefOverflowSticks`).
  Metadata stands last in the output and is not immune: in 15 bytes a PBU of 17
  keeps its head and one byte, its sizes are patched to match, and `oapve_encode`
  (`oapv.c:1457`) returns `OAPV_OK`; where even the head is lost `pbu_size` is below 4 and
  a reader refuses the AU. `MetaCut` of `Encoder` is this case, which the run `codec`
  reaches, and `SizesLeadThrough` bounds what can be lost. An application is safe if its
  output buffer is at least eight bytes larger than the AU.
- **`oapv.c:826`, run `enc_tiles_addr`.** After an overflow the code subtracts
  the buffer's address from NULL, truncates to 32 bits and compares with the size
  of the buffer. Where the address is just below a multiple of 2^32 the overflow
  passes the check and the encode succeeds with a wrong size; `src/inc/oapv.h:1033`
  promises `OAPV_ERR_OUT_OF_BS_BUF`.
- **`oapv_param.c:471`, run `params_level`.** The search for a level starts at the
  first one and stays there when none admits the sample rate. A picture of
  16384x16384 at 240 frames a second gets level 1, although
  `readme/apv_ext.md:48` says that the constraints on the luma sample rate apply.
- **`oapv.c:948`, run `odd_width`.** The check for an odd width looks at
  `OAPV_CF_YCBCR422` alone; `OAPV_CF_PLANAR2` is 4:2:2 too. An image of it of odd
  width is coded, and the parser (`oapv_vlc.c:998`) refuses the frame.
  `src/inc/oapv.h:173` names "an odd width for 4:2:2" among the invalid widths.
- **`app/oapv_app_enc.c:1343`, run `apps_seek`.** The turn of the loop that ends
  skipping has read a picture too and drops it: `--seek N` skips N + 1, and with
  the last the command line's metadata is removed. `README.md:145` gives
  `--seek 100` as "skipping the first 100 frames".
- **`app/oapv_app_dec.c:548`, run `apps_companding`.** With
  `--disable-companding` the library stores 12 bits under a label of 16; the
  program sets the output depth to 12 and shifts by 4, so that 8 significant bits
  are written as 12. The option's help (line 94) promises a 12-bit picture.

## 6. What is proved

The proofs are about every value of the constants: any number of threads, tiles,
frames and calls, access units of any length, and any sizes a bitstream may spell.
The columns name the theorem, what it states, and the property of section 4 it
establishes where it is one that a run checks.

| Module | Theorem | States |
|---|---|---|
| `TPoolProofs` | `TypeCorrect`, `TasksAreStable` | of `TPool`: the variables keep their types; nobody changes a worker's task while it is about to read it or runs it |
| | `PoolInvariance` | of either variant (`PoolSpec`): the inductive invariant |
| | `PoolQuiesces`, `PoolJoinsAreTrue`, `PoolFailuresAreKept`, `PoolResourcesAreKept` | `QuietWhenIdle`, `JoinTellsThisCall`, `NoFailureLost`, `ResourcesMatch` |
| | `BothImplementHandoff` | `PoolSpec => ImplementsHandoff` |
| `TilesProofs` | `TilesStayInBounds`, `SuccessIsTheWholeFrame`, `SuccessIsTheWholePicture`, `CostsAreOfThisFrame` | `DecodedInBounds`, `SuccessIsWholeFrame`, `SuccessIsCoded`, `CostsAreThisFrames` |
| | `StartsAreFinal` | `StartIsFinal`, an action property |
| | `CodecImplementsTileWork` | `Spec => ImplementsTileWork` |
| | `FrameTypeCorrect`, `FrameInBounds`, `FrameSucceedsWhole`, `FrameStartsAreFinal`, `DecodeImplementsTileWork` | the same of `DecTiles` alone |
| `DecTilesSelProofs`, `EncTilesProofs` | `DecodeChosenImplementsTileWork`, `EncodeImplementsTileWork` and those behind the rows above | the same of the two other modules; `EncTilesProofs` also `OverflowsAreReported` |
| `CodecProofs` | `WhatIsKeptIsThisFrames`, `NothingIsLeftHeld`, `HashesAreTrue`, `RateControlKeepsToItsSlot`, `SizesLeadToTheEnd`, `SuccessIsTheWholeUnit` | `NothingStale`, `RefsBalanced`, `HashIsThePictures`, `RcStaysWithSlot`, `SizesLeadThrough`, `SuccessIsWholeUnit` |
| `PartsProofs`, of `Bits` | `WrittenInOrder`, `CoefOverflowIsNoticed` | `BitsInOrder`, `CoefOverflowSticks` |
| | `TheEndIsTrue`, `ReadsAreTheNextBits` | `EndIsTrue`; `NextBits`, an action property |
| `PartsProofs`, of `Inputs` | `TilesKeepToTheProfile`, `TargetsAreThere`, `LevelsAreLowest` | `TileGrid`, `RateControlHasTarget`, `LowestLevel` |
| | `ContainerStaysSound` | `ContainerIsSound` |
| | `ContainerIsAMap` | `InputsSpec => ImplementsMetaMap` |
| `AppsProofs` | `AppsCodeInOrder`, `AppsSucceedWhole`, `AppsReleaseAll` | `CodedInOrder`, `SuccessIsWhole`, `EverythingReleased` |
| | `AppsJudgeTheirOwn`, `AppsLabelTruly` | `VerdictIsThisUnits`, `LabelsAreTrue` |

`Induction` holds three lemmas about numbers up to a bound (`LeastElement`, `UpTo`,
`Recursion`), which the proofs about recursive functions cite; they say nothing of the code.

### Assumptions

Each module names the assumption its proofs start from; TLC evaluates them on the
constants of the runs. `PoolAssumption`: there is at least one call, and success is a
return value other than the system error. `DecAssumption`, `SelAssumption`,
`EncAssumption`: sizes, costs and positions are natural numbers and a frame has
between one and `MaxTiles` tiles. `DecoderAssumption`: an access unit is a sequence of
PBUs that is not empty (`oapvd_decode` refuses one that is), and a frame header lists
either no tile size or one for each tile. `EncoderAssumption`: the same kind of facts
about frames, images and slots; sizes of payloads and of a hash are natural numbers, and a
frame has at least one byte and an image of its own besides that for its reconstruction.
`WriterAssumption` and `ReaderAssumption`: lengths are
those the code can be called with, 1 to 32 bits for syntax, up to a register for a
coefficient code and up to 30 for its suffix; `BitsAssumption` has these two and that of
`Vlc`. `ParamsAssumption`: the numbers in a value string and of a picture are integers,
of any sign, and there is a core; nothing is asked of pictures or options beyond that.
`MetaAssumption`: both limits are at least 1, a payload has one of the types and a size,
and a payload that is not user defined is not told apart by a uuid; the heap may have
any number of blocks, none included. `AppsAssumption`: an access unit may have a frame
at least, a video file has a number of pictures, a bitstream is a sequence of units that
are sequences of PBUs, and the value of `--seek` is an integer wherever the parser accepts the
command line (`atoi`). Of what is in the PBUs it asks what the parser of a frame's
information refuses to go without (`oapvd_vlc_frame_info`; `FrameOk`, `UnitsOk`): a frame, and
each an AU_INFO announces, has one of the chroma formats of the syntax, P2 not among
them, and 10 to 16 bits.

One assumption says more. `TileAssumption` of `EncTiles` asks that no tile's buffer
ends just below a multiple of 2^32. `SuccessIsTheWholeFrame`, `OverflowsAreReported` and
`SuccessIsTheWholePicture` need it, the others do not; the run `enc_tiles_addr` shows
that without it the code does report success for a tile that overflowed (section 5).
That the proof needs exactly this, and that nothing else can go wrong in the two
comparisons of `enc_tile` and `enc_frame`, is what the proof adds to the run.

### Inductive invariants

Hardly any of the properties is inductive. For each component there is an inductive
invariant (`IInv` in a module about one component), a conjunction of named parts; where
its sets can be enumerated TLC has checked it on the runs' instances as well. There is
one lemma per action, with a step per part the action can disturb.

**Pool.** That a join returns this call's result needs to know that a worker whose
status is suspended has reported since this call's `run`, a fact about the worker's
control point, the status and the caller's loop index together.

- `IndexInv`: where the caller's index stands in each of its loops;
- `ExistInv`: which workers exist while they are created, used and released;
- `PlaceInv`: where a worker can be, by its status. Running allows *before*,
  *in* and *after* the task, which is what lets the task be read without a lock;
- `RunInv`: a worker is running only between this call's `run` and `join`, and
  terminated only while the caller reaps it;
- `JobInv`: what a worker that was not collected yet knows of this call's job.

The Windows pool keeps `IndexInv`, `ExistInv` and the caller's half of the rest. In the
place of `PlaceInv` stands `EventInv`, which says where a worker can be *and which of its
two events are set*: `w_event` exactly while the worker is still asleep with something
to do, `r_event` while it has nothing to do. Between leaving the critical section and
setting `r_event` a worker is suspended and not yet collectable (`signal`), so that
`WinRunInv` adds that such a worker is one the caller has still to join. That no event is
left over from one call to the next is what makes the join of `WinJoin` this call's.

**Tiles.** The three invariants have a common core. `CoreInv` says which cores are
under way by the caller's loop index, `HoldInv` that tiles are handed out in order and
one taken has one owner, and `FailInv` who still knows of a tile that failed: a core
that was not joined yet, or the caller's return value. The last is why a failure is
not lost in the joins, and why a success means that the counter had reached the end.
To this come

- of `DecTiles`, `StartInv`: nobody but the owner of a tile tells where the next one
  begins, and it has not told while it *owes* it. `StartIsFinal` and the unlocked read
  after the spin rest on it. `SizeInv` chains the tiles that are done: each has the
  size spelt where it begins, and the next begins where it ends;
- of `DecTilesSel`, `PlaceInv`: all tiles of the frame have been located inside it.
  The caller locates them in a loop of its own (`Place`, a recursive function), before
  any thread starts;
- of `EncTiles`, `CostInv` for the cost pass and `WholeInv` for the encoding pass and
  the copying after it, `put` being the sum of the tiles copied so far (`Upto`).

**Registers.** `WriteInv`: a register is full only at the end of the buffer, where no
flush fits any more; after the coefficient writer dropped bits, `cur` is *behind* the
end, which no later write undoes; and while nothing was dropped, buffer and register
together are the bits written, in order (`Clean`). The difference between the first two
parts is the difference between `CoefOverflowSticks`, which is proved, and
`SinkMeansWritten`, which section 5 refutes. `ReadInv` is `EndIsTrue`, which is inductive
with one addition: the register never holds more bits than were loaded from the buffer,
or `oapv_bsr_sink` would step back before its beginning. The coefficient reader takes a
suffix byte by byte, a recursive function in the model; `Way` follows it with `UpTo`.

**Parameters.** `ParamsInv`: the application's record keeps its types, an instance has
the tile grid, and one that has not been reconfigured is what `oapve_param_update` makes
of the application's record. The properties of rate control and level are then about
`Updated`, for any record; what they need are the rounding of tile sides to macroblocks,
the bounds of `MulDiv`, and that the search for a level steps over nothing that would
have done.

**Container.** `MetaInv` abstracts from the order of the lists. `Arranged` is about the
array: each group is there once, is not empty, counts its payloads and has each node
once, and what lies behind the last group is cleared. `Entries` is the *set* of the
payloads with their groups, and `Kept` is about this set and the heap: an entry has a
node and the bytes of one payload of its type and size, no two entries share a block or
are of one kind, and every block in use is some entry's. An operation adds an entry,
removes one or exchanges one (`Adds`, `Removes`, `Replaces`); what that does to array and
lists (`Adding`, `Replacing`, `Unlinking`, `ClosingUp`) and to heap and lookups
(`KeptAdded`, `AddsAnswers` and the like) is proved apart. A lookup's answer is
the one entry of its kind, so that an operation on another kind does not change it.

**Decoder.** `DecLoopInv`: the PBU in hand is the one whose header was read last.
`DecHoldInv`: the one image held is the one decoded into. `DecArrayInv`: the arrays,
from the step that makes them this frame's; while a larger one is still to come it
says only that what was collected from the header is true, which is what makes the
second reading necessary. `DecHashInv`: the image held is the next to be reported, and a
frame that is about to be has the hash asked for, so that a refused hash and a report
exclude one another. `DecWalkInv`, proved on top of these, relates what was
reported to what was read: after n PBUs the frames among them are those in `out`,
their images hold them, and none was unsound. It is needed because success is noticed
only at the end, when the frames have long left `fh`.

**Encoder.** `EncLoopInv` and `EncHoldInv` are about the frame in hand and its images.
`EncChainInv`: the PBUs written follow one another, one for each frame done and each
group passed, and those of the frames are whole. `EncMetaInv`: a group passed is whole
(`Whole`), or less than eight bytes are left and no group from it on is. It rests on
`EncBytesIn`, the arithmetic of the register: whatever is lost, less than eight bytes of
output remain, and of a PBU that begins there the head is lost at least (`Registers`).
`EncRcInv`: the instance's rate control is that of the slot while a frame is coded, and has
one picture more between coding it and saving (`save`). `EncHashInv`: of the frames done, the last
hashed one of each group has its hash in the container. The property said first that
*every* hashed frame has one; the proof would not go through, and TLC then showed two
frames of one group.

**Programs.** `EncInv` and `DecInv` say for every stage what the clean-up behind it will
find, because any step may fail and every failure leads to the same label. `EncHolds`
counts the images by the pointers that are not null, and `DecHolds` those in the table and
the one for conversions; the images the decoder's clean-up does not reach are `Lost`, a set
of places, and that the others are counted off exactly is the arithmetic of
`DecCleansUp`. `EncImages` says which kind of image each pointer the loop uses points to:
with it a copy can be followed through up to three of them, from the picture read to the
one recorded (`EncodedIs`), which `CodedInOrder` and `LabelsAreTrue` need.
`EncGoesOn` relates the counters to the units in the file: the last one is of the
picture passed last, or the one before it while a picture is at hand. `EncSucceeds` and
`DecSucceeds` keep the reason for an end without an error from the step that leaves the
loop to the exit. `DecJudges`: the container is empty whenever a unit is about to be
decoded, and behind it holds what `Store` makes of the unit's own PBUs. This is why the
hash found for a group is the unit's last one (`SaysRight`), and what emptying the
container at the end of each unit is for: an invariant over units, not over calls.

`LabelsAreTrue` needs an invariant of its own on either side. `EncUnits`: the units written
are of formats and depths a decoder accepts. `DecLabels` is about the decoder's images on a
stream of one format and depth: an image in the table has been created with that depth,
whether an AU_INFO, a unit's frames or a PBU was what asked for it (`Kind`); one that was
decoded into is filled to it and has the planes of its label (`Drawn`); the image for
conversions has the depth of the output and exists only once there is one (`Converter`).
When none was asked for, the first picture settles it, before there is such an image, so
that it never changes under a converted picture. Without what the AU_INFOs
announce the premise would be too weak: `Kept` leaves an image of another depth where it is.

### Refinement and composition

The pool is mapped to *off*, *free*, *busy* or *done* for each worker, by its status
and by whether the caller still has to collect it: `Obtain` of the thread, `Run`,
`WorkerReturn`, `Join` and `Terminate` are the abstract steps, every other action a
stutter (`HandoffStep`). On Windows the same mapping serves: setting `r_event` is a stutter,
since a worker is *done* from its return on. `PoolSpec` lets either variant be built;
a step of its is one of `TPool` or of `WinPool` on the variables both have. Tiles are mapped by `TileState`: not taken, with an owner,
done, failed. `Take` and the step that marks a tile are the abstract steps on it, the
caller's first and last steps open and close the pass. The step that closes a pass is
the hard one: the abstract end demands that nobody holds a tile and that the verdict is
true, which is where `CoreInv` and `FailInv` are used.

The container is mapped to what `oapvm_get` answers for every name. A set that stores is
`Put`, one that is refused leaves every answer as it was (`Refuse`), since its copy is
given back to the heap it was taken from; a removal is `Remove` or `Missing`, and emptying
or deleting the container `Clear`. Submitting a batch is a stutter.

`Tiles` and `Codec` share variables between their parts, as the code's context does.
`TilesProofs` proves the theorems of `DecTiles` first and takes those of all three modules over: a behaviour of `Tiles` is
one of `DecTiles`, `DecTilesSel` or `EncTiles` on that part's variables, and the
mapping into `TileWork` is chosen by `use`. `CodecProofs` works on the actions of
`Decoder` and `Encoder` as `Codec` instantiates them, and `PartsProofs` likewise on those
of `Bits` and `Inputs`, and `AppsProofs` on those of `Apps`. `AppsInv` is the invariant of the
program that runs; `DecStartsOver` and `StartsWithUnits` are about the step from one to the
other, where what the encoder has written has the shape, and the formats and depths, that
the decoder's invariant asks of a bitstream.

Some definitions are recursive functions: `Place`, `Upto`, `FramesTo`, `Sums`, `FramesOf`. The library's
induction theorems take an operator as a parameter, which the provers cannot
instantiate, so `Induction` states induction (`UpTo`) and the existence of a function
defined by recursion (`Recursion`) with a set and a rule that is a function. Both follow
from `LeastElement`. The lemmas `PlaceIs`, `UptoIs`, `FramesToIs` and
`SumsAre` conclude from it, for each of the first four, that it satisfies its equation;
`FramesAre` follows the last one with both.

### Only model-checked

Liveness under fairness, and everything with ENABLED, is out of TLAPS's reach with
the provers used: `CallsReturn` of the pool and of the tiles. The fairness
conjuncts of `Spec` are not used by any proof.

What a code or a parser computes for every input needs induction over data whose steps
are long conversions: `RoundTrip`, `CutIsNoticed` and `RateIsLength` in `bits`,
`HeadersReadBack` and `ContainerReadsBack` in `inputs`. `FamilyFits` compares two tables
for every picture, through a division of products that is beyond the arithmetic of the
solver; TLC evaluates it for each family and every picture of the run.

Of the programs, `WrittenIsDecoded` compares the video with all units flattened into one
sequence, and is checked by TLC on the command lines and streams of `apps`.

## 7. What is not modelled

- *Data*: samples, transforms, quantisation, SAD and mode decision, MD5, and
  the floating-point arithmetic of rate control. Their input spaces are beyond TLC
  and they keep no state. SIMD variants replace functions of the same meaning.
- *Headers*: `oapve_vlc_au_info`, which the library never calls, and a frame
  submitted with a `pbu_type` that no reader knows, which `oapve_encode` does not
  look at.
- *Settings* of `oapve_config` that assign one member and derive nothing, and
  options of `oapve_param_parse` that are treated like another one (`Params` says
  which stands for which).
- *Inspection*: `oapvd_info_tile`, which no program calls. The other functions
  without a context are in `AppDec` as far as the program uses them.
- *Programs*: statistics, PSNR, clocks, printing and help texts; the branch of
  the decoder program for a decode that succeeds without reading its whole unit,
  which the library does not do (`SuccessIsWholeUnit`).
- *Windows*: what the clean-up of a failed creation does to an event or a
  critical section that was never made, which is undefined.
- *Metadata at the end of the output, in the programs*: `AppEnc` takes a successful encode
  to have written the whole container, which is so unless its output buffer is full but for
  eight bytes (section 5).
- *Hash payloads of a wrong size* in `AppDec`: `check_frm_hash` (`app/oapv_app_dec.c` 319)
  takes them for no hash at all, as a group without one.
- *Build files and test streams.*
- *Weak memory.* An unlocked read sees the latest write. For the fields in
  question (`bs_beg` after the spin, `task` after the status) a lock released by
  the writer was acquired by the reader in between, so no other outcome exists.

## 8. Plan

1. *Prove*: of the decoder program that the pictures written are a prefix of those due
   (`WrittenIsDecoded`); of `Headers` the fields of a fixed width.
2. *Extend*: `oapvd_info_tile` and its walk against that of `DecTilesSel`; the
   counters of tiles at the limits of the unconstrained profiles.
3. *Compose*: the cost pass and the encoding pass as two uses of one `TileWork`.
