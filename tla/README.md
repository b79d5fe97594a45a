# file-recovery in TLA+

`file-recovery` (Rust, `src/src/`) recovers deleted files from a disk: it scans
the raw source for the headers and footers of known formats, plans what to
carve, and copies the planned byte ranges to another disk.  It promises never to
write to the source, not to be stopped by bad sectors, and to leave a log of
what it recovered.  This project models that pipeline, checks it with TLC and
proves the central results with TLAPS.

## The system

| Component | Source | State it keeps | Operations | Correct when |
|---|---|---|---|---|
| Scanner | `scanner.rs` | position, carry, window buffer, hits, skipped regions | `scan`, `read_span` | every pattern on the source is found once, bad sectors cost one block each, the scan returns |
| Carve planner | `carver.rs` 39-241 | plans, end of the last plan of each type | `plan_carves`, `plan_one`, `find_footer_end` | plans in bounds, ended where the format says, deduplicated whatever the thread order |
| Validators, size parsers | `carver.rs` 247-543 | position in the file while they walk it | `validate_*`, `classify_*`, `parse_*` | they stop, and their sizes are those the format states |
| Recovery | `main.rs` 303-414, `output.rs`, `carver.rs` 549-568 | name counter, open file, log entries, errors; the output directory | `save`, `next_path`, `carve_to_file`, `write_log` | entries are true, nothing is overwritten, every plan is accounted for |
| Signature database | `signatures.rs` | constant table | `database` | headers are not empty, size bounds are ordered |
| Source access | `disk.rs` | open file, size, bytes filled | `RawDisk::open`, `read_exact_at` | read-only; a read gives all the bytes or an error |
| Safety checks | `safety.rs`, `main.rs` 188-257 | none | `check_same_disk`, `confirm_or_abort` | nothing is written to the source disk; what was compared still holds when it is written |
| Command line | `main.rs` | arguments | parsing, filter, hand-over between the parts, dry run, summary | what is asked for is looked for, and what is found is saved |
| Progress, errors | `progress.rs`, `error.rs` | terminal output | | |

The parts are called one after the other by `run` in `main.rs`: safety checks,
open, `scan`, `plan_carves`, the carve loop, `write_log`.  The scanner hands its
hits (`ScanResult`) to the planner, the planner its plans (`CarvePlan`) to the
loop; all three read the source through `ReadAt`.  Concurrency is in the thread
pool that plans the hits, in other programs that fill the output disk, and in
the devices, which may fail or be exchanged at any call.

What is hard, by component (the full list, with lines, is `hazards` in
`PROJECT.json`):

* Scanner: patterns across chunk boundaries and inside the carry; reads that
  fail after filling part of the buffer; blocks that fail once and not again.
* Planner: sizes and footers at the edge of the cap; the order in which a thread
  pool finishes; neighbours that touch or overlap.
* Size parsers: fields that lead anywhere, sums that wrap around, reads that
  fail or come in pieces in the middle of a walk.
* Safety checks: what a device name shows does not tell the disk; any call of a
  check may fail, and not all failures are noticed; devices are exchanged.
* Recovery: any call of the sequence test of the name, create, read, write,
  flush, stat, log may fail; the disk fills up; the program is killed; it runs
  again over what it left.
* The whole: a file is recovered only if the filter, the scan, the planner and
  the loop agree on signatures, types and addresses.

## Modules

| Module | Models |
|---|---|
| `Patterns` | the pattern table, and what it means for a pattern to occur in an image of the source |
| `SignatureSearch` | abstract: one look at the whole source finds every pattern once |
| `Scanner` | the chunked scan of `scanner.rs`; its `ImplementsSearch` is the refinement of `SignatureSearch` |
| `MCScanner` | the instance for TLC |
| `ScannerProofs` | theorems about `Scanner` |
| `CarvePlanner` | planning and deduplication |
| `MCCarvePlanner` | two small databases for TLC |
| `CarvePlannerProofs` | theorems about `CarvePlanner` |
| `AtomicRead` | abstract: a positioned read gives all its bytes or an error, at once |
| `SourceReader` | the loop of `read_exact_at`; its `ReadsAtomically` is the refinement of `AtomicRead` |
| `SourceReaderProofs` | the theorem that the loop implements `AtomicRead` |
| `SizeParsers` | the six size parsers, extending `SourceReader` |
| `MCSizeParsers` | the instance for TLC |
| `SizeParsersProofs` | theorems about all six parsers |
| `SafetyGate` | the course of `run`: checks, confirmation, opening, and what is written where |
| `MCSafetyGate` | three slices of two disks for TLC |
| `SafetyGateProofs` | theorems about `SafetyGate` |
| `AtomicSave` | abstract: a plan is saved whole and at once, or fails, and a log lists what is saved |
| `Recovery` | carve loop, output directory, log, faults, several runs; its `SavesAtomically` is the refinement of `AtomicSave` |
| `MCRecovery` | the instance for TLC |
| `RecoveryProofs` | theorems about `Recovery` |
| `RecoveryRefinement` | the theorem that `Recovery` implements `AtomicSave` |
| `Pipeline` | `Scanner`, `CarvePlanner` and `Recovery` composed, with the arguments and the hand-overs of `run` |
| `MCPipeline` | the instance for TLC |
| `PipelineProofs` | theorems about `Pipeline`, from those about its three parts |

Definitions whose comment begins with "Slip:" are not part of the models.  Each
is a plausible mistake in the definition that follows it, with the same
parameters; `mutants` in `PROJECT.json` says which property notices it when it
is put in the place of that definition.

### Scanner and SignatureSearch

State and code: `pos`, `carry`, `buf`, `errors`, `bytes_scanned` are the locals
of `scan`; `off` is the local of `read_span`; `found[<<p, a>>]` counts how often
pattern `p` was pushed to `headers` or `footers` at address `a`, so that a
duplicate is visible.  `disk` is what is on the source and `flaky` the addresses
at which a read may fail.  A step is one device call or the matching of one
window: `ReadChunk`, `SkipChunk` and `StartRetry` are the three outcomes of the
first attempt of `read_span`, `RetryBlock` and `SkipBlock` those of the retry
loop, `MatchWindow` is the body of the loop of `scan` after the read, `Return`
its end.  A read that touches a flaky address may fail after filling any prefix
of the buffer, or may succeed; so an address may fail in the first read and
succeed in the second.  The index by first byte is a way of computing
`NewMatches` and is left out, as is `n == 0`, which `read_span` never returns
for a non-empty buffer.

`SignatureSearch` knows the source, a set of lost bytes and the result.
`Scanner` maps its reported regions to the lost bytes: the result must be that
of one search of the source with zeros in place of what was reported.  A region
that is zeroed and not reported, or reported and not zeroed, breaks the mapping.

### CarvePlanner

`PlanOne(h)` is `plan_one` for a hit, taken in any order, as rayon may;
`Retain(p)` is one call of the closure of `retain` on the sorted plans.
`PlanFor` computes size and truncation, `Plannable` collects the early returns,
`FooterSize` is `find_footer_end`.  The answers of validator, classifier and
size parser are chosen freely for each hit (`Verdicts`, `Resolved`,
`ParseResults`), among the types the signature can resolve to (`names`) and the
sizes a parser may find (`ParsedSizes`, of which `SizeParsers` says more).  The
fields `sig` and `parsed` of a plan are not in the code; they record where it
came from.  The database entry has `shift` 4 for ftyp, whose pattern is not at
the start of the file, `strict` for the formats whose failed parse rejects the
hit, and for ZIP the length of the end record and its comment, which is read at
the footer.  Sorting in the code is stable and by offset; plans of equal offset
are taken in any order here, which covers it.

### SourceReader and SizeParsers

`SourceReader` is one `read_exact_at`: `req` are its arguments, `buf` what is
filled so far, `status` whether it is at work or has returned.  A step is one
`read_at`: `ReadSome` gives any number of the bytes that are left, `ReadNothing`
is `Ok(0)` at the end of the source, `ReadFails` an error where the address is
flaky; an interrupted call repeats and is a stuttering step.  `AtomicRead` is
what the callers rely on.

`SizeParsers` extends it.  `pc` says which field is read next; `Ask` makes the
request after the tests at the head of the loops (`MayLoop`), and one action for
each answer goes on: `GifField` through header, blocks, image descriptors and
sub-blocks, `BoxHeader` and `LargeBox` along the boxes of an MP4, `HeaderSize`
for `parse_sqlite`, `parse_7z`, `parse_wav` and `parse_bmp`.  `Fails` and
`ChainEnds` are the `?` and `break` exits.  A cell of the source stands for one
field of the format, so the sizes of headers are 1, 2 and 3 cells instead of 13,
8 and 16 bytes.  `checked` chooses the build: `pos += box_size` either panics or
wraps modulo `Words`.

### SafetyGate

`pc` is the next call of `run` that matters to what is written: `DetectKind`,
`MakeOutput` (`create_dir_all`), `CheckOutput`, `CheckLog`, `Confirm`, `Open`,
`Carve`, `WriteLog`.  `written` collects what was written and on which slice (a
partition, volume or whole disk).  `Disk` is the physical disk a slice is on, of
which the program sees nothing.  It sees `unit`, the numbers in device names,
which slices of one disk may share or not; of the source it sees the number the
path given for it shows (`base_disk_of`): a device node shows that of its device,
an alias any number or none.  `CheckSameDisk` compares these numbers if there are
two, and device numbers if it can have both; it warns if there are not two
numbers.  Each of its calls may fail (`CallsFail`): df and the metadata of either
side give nothing, and a failing `exists()` of `existing_ancestor` leads to an
ancestor further up, which may be on another slice.  A missing device number or a
wrong ancestor is not reported to anyone; the history variable `missed` records it.
`Replug` exchanges devices: numbers are given anew, and the path of the source,
which stays what it is, leads elsewhere.  `args` holds the arguments and whether the user
is root.  The log's parent is independent of the output directory; scanning and
planning write nothing and have no action.

What the checks establish is `ComparedElsewhere`, about slices and numbers.  What
the README and the comments of the program say, `UnwarnedIsElsewhere`, is about
physical disks, and does not follow: `GateVolumes` shows it with a device node as
source, no failing call and nothing exchanged.  Two more ways to the same end are in
the model and outside `ComparedElsewhere`.  Devices may be exchanged between the
check and the opening of the source (`main.rs` 257).  And the parent of a bare
`--log-file` name is the empty path, which does not exist and has no ancestor:
nothing is compared, the user is warned, and the log may go to the source disk,
though the description of the option says "verified" (`main.rs` 97).

### Recovery

One `Run` is one execution of the program from its carve loop on.  `dir` maps
paths to files, `data` files to their chunks, so that a file that is removed or
truncated under an open handle behaves as on a POSIX system.  The actions follow
`save`: `EnterDir` (`create_dir_all`), `Probe` (one turn of the loop of
`next_path`), `Create`, `CopyChunk`, then `Enter` or `Discard` after the length
check, `GiveUp` after ENOSPC, and `OpenLog`, `FillLog` for the two halves of
`fs::write`.  Each call has its failing variant; `Kill` ends the process at any
point.  `ProbeFails` is that of the test of the name: `exists()` is false also
when the metadata cannot be had, so the name is taken for free, and `Create`
truncates what is there.  In the code the truncated file keeps its inode; here the
path passes to the file of the present plan, and the bytes of the former are out
of reach of any path, which is the same to those who look.  The history variable
`overlooked` keeps what was missed in this way: which run, which path, which file.
The properties name it as their one exception, so that they say what remains true:
no other file is lost, and the one overlooked only in the attempt that overlooked it.
A write that fails may leave nothing, part of a chunk or the whole chunk
(the buffered writer tries again when it is dropped); `remove_file`, whose result
is ignored, may fail.  `plans` is the list the run was given; all runs of an
instance are given the same.

`AtomicSave` sees the directory without the files that are being written, and of
each plan whether it is to do, failed or saved.  `FileAt` and `OutcomeOf` map
`Recovery` to it: an entered file appears with all its bytes in one step under a
path that was free, a failed plan or a kill leaves at most one scrap, a file that
was there is lost only while it is overlooked, nothing else ever changes, and a
whole log lists exactly what its run has saved.

With `--organize`, a full disk met in `create_dir_all` is taken for an ordinary
error and the recovery goes on (`RecoveryOrganized`); without it, it stops
(`StopsWhenFull` in `Recovery`).  Three more things the code does are not what its
comments say.  The model has them and the properties allow for them: a failing test
of a name leads to the truncation of a file (`carver.rs` 550: "a fresh file"), a
read error in the first chunk leaves an empty file, past the removal of empty
results (`output.rs` 3: "zero-length results are discarded"), and a second run's
default log replaces the first's, so that no log lists the first run's files any
more (`output.rs` 4: "every carve is recorded").

Not modelled: the dry run, which writes no file, and the
counts and sums of the log, which are functions of its entries.

### Pipeline

The three components are instances over the variables of `Pipeline`; `phase`
says which of them runs.  `ActiveSignatures` is `active_signatures`,
`ChunkArgument` the chunk size `run` computes.  `PlanHits` hands the scan's hits
to the planner and reads the comment lengths from the same source, where a read
may fail and count as 0; `CarvePlans` hands the kept plans to the carve loop in
the order of their offsets, with the number of chunks they are copied in.  The
planner's abstraction of the source is thereby tied to the bytes the scan saw.
Validators and size parsers answer freely, as in `CarvePlanner`.  `MaxKept`
bounds the list of plans, where the code has a vector: kept plans of one type do
not overlap, so there are no more of them than addresses (`KeptIsFew`).

The instance has one format without a validator, whose intact files nothing but the
deduplication may keep out of the log, and one whose signature stands for two types
behind a validator and classifier, of which one is asked for, so that plans are made
that the filter must turn down.

`IntactFilesRecovered` is what a user expects of the program, as far as it can be
said without the bytes a validator looks at: it speaks of the formats that have a
footer and no size parser (JPEG, PNG, PDF, ZIP), and of files whose validator, if
they have one, does not turn them down (`TurnedDown`).  `ChunkBytes` and
`Contents` turn the chunks a file holds back into bytes, so that
`IntactFilesRecovered` can compare the file in the output with the one on the
source.  Its exception, a file that begins inside another plan of its type, is
the documented behaviour of the deduplication; a header without an end near it
can so swallow an intact file behind it.

## What is checked

| Run | Shows | Expected |
|---|---|---|
| `Scanner` | `TypeOK`, `FoundExactlyOnce`, `LossIsLocal`, `ImplementsSearch`, `Termination` | pass |
| `ScannerZeroFill` | zero-filling can complete a pattern (`ZeroFillMatchesNothing`) | violation |
| `Plan` | `TypeOK`, `InBounds`, `EndsAtFirstFit`, `NoHitLost`, `NoSameTypeOverlap`, `DropsJustified` | pass |
| `PlanZipComment` | a comment hides a later end record (`CutOnlyWithoutFooter`) | violation |
| `Gate` | `TypeOK`, `NothingWithoutConsent`, `DryRunWritesNothing`, `ComparedElsewhere` | pass |
| `GateVolumes` | volumes of one disk with numbers of their own: not refused, not warned about (`UnwarnedIsElsewhere`) | violation |
| `GateMakeDir` | the output directory is made before the check (`SourceNotModified`) | violation |
| `Recovery` | `TypeOK`, `EntriesFaithful`, `EveryPlanAccounted`, `StopsWhenFull`, `OtherFilesKept`, `SavesAtomically`, `Termination` | pass |
| `RecoveryOrganized` | `StopsWhenFull` with `--organize`: a full disk met in `create_dir_all` is missed | violation |
| `Parsers` | `TypeOK`, `GifIsWhole`, `Mp4EndsChain`, `SizeIsSaid`, `ReadsAtomically`, `Termination` | pass |
| `ParsersCredible` | a chain that reaches the cap needs no media (`CredibleOnly`) | violation |
| `Pipeline` | `TypeOK`, `IntactFilesRecovered`, `EntriesGenuine` | pass |

The runs that expect a violation state what a comment of the source promises
and show a behaviour of the code that breaks it; `findings` quotes the comments.

### Bounds

* `Scanner.cfg`: a source of 8 bytes, two byte values, blocks of 2, chunks of 3,
  patterns of 2 and 3 bytes.  The scan then has three windows, the last one
  short, and chunks that are not a multiple of the block; a pattern can lie in
  the carry, across one boundary, and touch each of them; a chunk can lose
  either block or both.  All 256 sources and all sets of at most `MaxFlaky = 2`
  flaky addresses are taken.  The longest pattern is one more than the block,
  the most that `Overlap <= MinBlock` allows (the code has 16 bytes against 512).
* `Plan.cfg`: up to `MaxHits = 3` hits of four formats (ended by a footer, by an
  end record with a comment, by a parser that must succeed, by one that may
  fail), all layouts of their footers and comments on 5 addresses.  A plan can be
  dropped because of one that was kept over a third.  Parsed sizes are below, at
  and above the limits, and 0.  At an address at most one pattern is found, as no
  pattern of the real table is a prefix of another.
* `Parsers.cfg`: all sources of 6 cells with four values, which are sizes, box
  types, block introducers and flags at once; files that begin at 0 or 1, a cap
  up to the end of the source or one short of it, a cell that may fail or none.
  One 64-bit size (13 of `Words = 16`) leads back to the start of the walk, one is
  shorter than its own header.  `MaxBoxes = 3` cuts chains that go in a circle;
  `MaxSteps` is not reached, since a GIF of 6 cells has at most two blocks.
* `Gate.cfg`: all arguments, and all places on three slices, two of them volumes of
  one disk with different numbers: same slice, same disk and other disk all occur.
  All calls of the checks may fail.  `MaxReplugs = 1` puts an exchange between any two
  calls, after which the disks may have swapped their numbers.  The runs that expect a
  violation take the cause they are about and switch the others off: no call fails, no
  alias is given and nothing is exchanged.
* `Recovery.cfg`: two runs, three plans of two types, one of two chunks, one file
  of unknown origin in the way, at most `MaxFaults = 2` failing calls and kills
  in all: enough for a fault in each run or a failing call followed by a failing
  clean-up.  `MaxCounter` bounds the names and is one more than there can be
  files, so that it is never reached.  All types have one directory; `--organize`,
  with the failing `EnterDir`, is in `RecoveryOrganized.cfg` and `Pipeline.cfg`.
* `Pipeline.cfg`: all sources of 6 bytes with three values, at most one flaky
  address and one failing output call or kill.  A file of 4 or 5 bytes with its
  comment fits before or behind the header of the other format, across the
  boundary between chunks of 4 (blocks of 2), and is copied in two chunks of 3.
  One format ends with an end record and a comment and has no validator; the other
  ends only at its cap, and its validator may turn any hit down or find either of its
  two types, of which one is asked for.

Deadlock is not checked: the scan, the planning, the parsers and the runs of the program end.

### Fairness

`Scanner!FairSpec` is weak fairness of `Next`: the scan is a single thread, and
a device call returns, with bytes or with an error.  `Recovery!FairSpec` is weak
fairness of each run's own `Step`: a run that is not killed goes on.
`SizeParsers!FairSpec` is weak fairness of `Next`: a parser is one thread, and the
operating system does not interrupt a read for ever.  None
asks that a particular outcome ever happen: reads may always fail, and `Kill`
is not fair.

## What is proved

For every value of the constants that satisfies the named assumptions:

* `ScannerProofs`: `TypeOK`, `FoundExactlyOnce`, `LossIsLocal` are invariants and
  `Scanner` implements `SignatureSearch`.  `FoundExactlyOnce` speaks of hits
  only; the inductive invariant `IInv` adds what the window holds: the carry is
  the tail of what was scanned (`CarryFull`: all of `Overlap` bytes unless the
  scan is at the start or the end), the buffer agrees with the image (device
  bytes, zeros where reported) as far as the window has been read, blocks not
  yet read have not been reported, and reported regions lie before what is
  still to be read.  From this a match ends in the fresh part exactly if it was not
  recorded before, since a pattern is at most one byte longer than the carry.
  Assumptions: the table is finite and its headers are not empty, block and
  chunk sizes are numbers, and no pattern is longer than the smallest block plus
  one.
* `CarvePlannerProofs`: `TypeOK`, `InBounds`, `NoSameTypeOverlap`, `DropsJustified`,
  `EndsAtFirstFit` and `NoHitLost` are invariants.  The inductive invariant adds that plans are handled in order of
  their offsets (`Sorted`: every plan already seen begins no later than those
  that remain) and what `last_end` means (`EndsRecorded`: no kept plan of
  the type ends later, and it is the end of one of them or 0).  A dropped plan begins before that end
  and not before that plan, hence inside it; a kept plan begins after all.
  The last two follow from what one `PlanOne` adds (`PlanOneMakes`): the footer it
  chooses is the least of those that fit, since a set of addresses has a least
  element (`FirstIsFirst`), and of a plain format nothing stands between a hit with
  room and its plan (`PlainHitPlanned`).
  Assumptions: the shape of the database with smallest sizes above 0, and
  arguments that are numbers.
* `SafetyGateProofs`: `TypeOK`, `NothingWithoutConsent` and `DryRunWritesNothing`
  are invariants however often devices are exchanged; `ComparedElsewhere`, which
  speaks of runs in which none was yet, is one for all disks and all ways to number
  them (`GateCompared`).  It takes no assumption about what names tell: that a
  name tells the disk is what the program relies on, and `GateVolumes` shows what
  comes of it.  The properties speak of what was written; the invariants say what
  each check has established for the writes to come (`Consent`, `Differs`).
* `SourceReaderProofs`: `ReadsAtomically` for the reader by itself
  (`ReaderSpec`: any caller, any address, any number of bytes above 0); the run
  checks it with the parsers as callers.  The inductive invariant `RInv` says that the buffer is the
  front of what was asked for, shorter than that while the loop runs and all of
  it once it has returned `Ok`.  Each `read_at` then is a stuttering step of
  `AtomicRead` or its answer.  Assumption: flaky addresses lie in the source.
* `SizeParsersProofs`: `TypeOK`, `SizeIsSaid`, `GifIsWhole` and `Mp4EndsChain`.
  The inductive invariant `PInv` is that of the reader, the types, what a parser
  has asked for at each place (`Asked`, so that an answer is the field that lies
  there, `FieldRead`), why a read fails (`Cause`: a flaky address, or the end of
  the source) and what it has read before (`Stage`).
  * `SizeIsSaid`: a header that a parser accepts says a size below `Words`
    (`SaidIsWord`).  Without `WidthAssumption` the theorem is false: the bound that
    `parse_7z` puts on its two 64-bit fields is what it rests on.
  * `GifIsWhole` compares the walk with `SubBlocksEnd` and `BlocksEnd`, recursive
    functions of the source.  That these are what their definitions say needs a
    proof: the recursion goes from an address to a larger one and ends at the end
    of the source (`IsWalk`, `WalkDefined`, by the least counterexample,
    `Downward`).  The invariant is `GifPath`: what remains of the GIF begins where
    the parser is.  The parser gives up behind the cap, and then the GIF ends
    behind the cap as well (`EndsLieBehind`).
  * `Mp4EndsChain`: the parser is at a member of `Chain`, a function of the same
    kind, and the chain goes on from a box that is not its last (`ChainGoesOn`).
    The theorem keeps the exception of the property, a size that wraps an address
    around: `parse_mp4` does not test for it, and the claim fails without.

  Assumptions: fields are so narrow (32 bits in SQLite, WAV and BMP, 8 bits and
  tables of at most 768 bytes in GIF) or bounded so low (`MaxNext` in 7z) that with
  a source of less than 2^63 bytes their sums or products are words of 64 bits;
  the three introducers of GIF differ; a cap is not empty, since the planner
  tests that before it parses.
* `RecoveryProofs`: `TypeOK`, `EntriesFaithful`, `EveryPlanAccounted` and the action
  property `OtherFilesKept`, for any number of runs, faults and kills, any lists
  of plans and any files that were there before; and `StopsWhenFull`, if not
  `Organize`.  The properties speak of the log
  and the directory; the inductive invariant says how a run gets there.  One run
  is live (`OneLive`); each file has at most one path and belongs to a plan its run has
  come to (`Filed`); what a run overlooked is a file of another, under a number it
  has passed (`Unseen`); the path a run is about to create is free or overlooked by it
  (`Astray`); the file being written holds the chunks copied so far (`Writing`), so
  that one that passes the length check is whole, and keeps its path unless it is
  overlooked (`Logged`); entries and errors
  divide the plans dealt with (`Accounted`).  A model has to bound the names
  `next_path` may try, where the code does not, and `Counted` shows that the bound
  `MaxCounter` is never in the way: of the numbers a run has passed, each is one
  it found taken by a file of others (`Avoided`) or was used for one of its plans,
  the overlooked ones among them, and there are more numbers
  than files.  Assumptions: the runs and the files of unknown origin are finitely
  many, and the lists of plans well formed.
* `RecoveryRefinement`: `SavesAtomically`, that `Recovery` implements `AtomicSave`.
  From `IInv` a plan has one entry, and its outcome is decided by what the run has
  come to.  These kinds of steps show through the mapping: entering a file saves
  the plan, an error fails it and may leave its scrap, a kill leaves the scrap of
  the file being written, a failing test of a name overlooks a file, creating over it
  (or removing it after creating failed for want of space) loses it, and the two
  halves of the log are written.  All others,
  among them every copied chunk, are stuttering (`QuietStep`).

* `PipelineProofs`: `TypeOK`, `EntriesGenuine` and `IntactFilesRecovered`, the
  three properties of the whole, for every source, table of signatures, choice of
  arguments and pattern of read and write failures.  They rest on the theorems of
  the parts, whose inductive invariants are taken over.  That of the planner is
  `PlanInv`, which joins to `IInv` where each plan comes from (`Made`) and
  `NoHitLost`.
  * The invariant `Inv` is that of each part, and what is handed over: a part that
    waits is in an initial state, the planner's hits are the recorded ones
    (`HitsHanded`), and the plans of the loop are the kept ones, cut into chunks
    (`PlansHanded`).  The steps of one part leave the others alone; `PlanHitsStep`
    and `CarvePlansStep` show that what is handed over is a legal initial state of
    the next part, and `ScannerAssumptions`, `PlannerAssumptions` and
    `SaveAssumption` that the assumptions of the parts follow.
  * `EntriesGenuine`: an entry's file holds all chunks of its plan, in order.  That
    they add up to the bytes of the plan needs what the fold of `FlattenSeq`
    computes (`FlattenIs`, by the least counterexample) and that chunks of
    `CopyBuf` cover a stretch and end with it (`ChunkArithmetic`).  The plan begins
    with a header in the image that was scanned, and the image differs from the
    source only where the scan reported it (`RecordedIsInImage`).
  * `IntactFilesRecovered`: the bytes of an intact file are in the image
    (`CleanImage`), so its header is a hit (`PlainHit`), the footers the planner
    sees up to its cap are those on the source (`PlainFooters`), its size is chosen
    (`PlainSize`), and a plan for it is kept or one of its type covers its start
    (`PlainKept`).  Here two plans of one type at one address would be a gap: the
    deduplication keeps either, and the other may be longer.  `OneHeader` excludes
    it.

  Assumptions (TLC evaluates them on the instance): numbers are numbers and block
  and copy buffer are not 0 (`NumbersAssumption`, `BlockAssumption`; of the block
  size the code does not test this, see below); `--types` names known types and not
  none, else `run` refuses (`FilterAssumption`); headers are not empty, no pattern
  is longer than a retry block and one byte, and smallest sizes are above 0
  (`FormatsAssumption`: the longest pattern has 16 bytes, a block at least 512);
  only ZIP has a comment, and two signatures of one type cannot match at
  one place (`TableAssumption`: GIF87a and GIF89a, the two byte orders of TIFF, the
  two versions of RAR).

Only model-checked: liveness (`Termination`, three times), which needs fairness
and is out of this prover's reach.  What the folds and the recursive functions of
the models compute is proved by the least counterexample, since the theorems of the
library on induction cannot be instantiated.

## Not modelled

What validators and classifiers look for in the bytes (the planner takes any
answer; they keep no state), system calls that find the size of a device, the
texts of the safety warnings, parsing of sizes (`v * mult` may overflow) and
`--block-size 0` (a division by zero), progress output and message texts.
`AtomicRead` is not put in the place of the reads of `Scanner`: a device read
there may also leave part of the buffer filled, which the scanner must cope with.
A link that leads nowhere at a name of the output directory (`exists()` is false, and
`File::create` makes what the link names).  The length of a ZIP comment is read anew
for each hit in the code and may fail for one hit and not for another; the model has
one answer for each footer.
Runs that overlap in time: a name is tested and created in two calls, and
the second truncates, so two of them can destroy each other's files.  The source
is constant while the program runs.

## Plan

1. `Patterns`, `SignatureSearch`, `Scanner` with its refinement and proofs: done.
2. `CarvePlanner` with proofs; `Recovery`: done.
3. `SafetyGate` with proofs: done.
4. `SourceReader` with the refinement of `AtomicRead`, `SizeParsers`: done.
5. `AtomicSave` and its refinement by `Recovery`; `Pipeline`: done.
6. `SourceReaderProofs` and, of `SizeParsersProofs`, `SizeIsSaid`: done.
7. `RecoveryProofs`, `RecoveryRefinement`: done.
8. `EndsAtFirstFit` and `NoHitLost` in `CarvePlannerProofs`: done.
9. `TypeOK`, `GifIsWhole` and `Mp4EndsChain` in `SizeParsersProofs`: done.
10. `PipelineProofs`: `TypeOK`, `EntriesGenuine`, `IntactFilesRecovered`: done.
11. Failing calls in `SafetyGate` (`GateCompared`) and in the test of a name
    (`ProbeFails`), through `RecoveryProofs`, `RecoveryRefinement` and
    `PipelineProofs`: done.
