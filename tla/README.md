# MKPFS: formal models, model checking and proofs

MKPFS packs a folder of files into a PFS image, either directly (`--raw`), with
an exFAT volume as the single nested file, or by streaming that volume through a
compressor; it also inspects, verifies and unpacks such images, has a batch mode
and a desktop GUI. This directory holds TLA+ models of the parts of the program
whose correctness depends on order, interleaving, failure or block arithmetic,
the TLC configurations that check them on small instances, and TLAPS proofs about
the compressor, the spool-free builders, the pack command, the image layout and its
signatures, the inspection and extraction of an image, the exFAT writer and reader, the batch
loop and the GUI's panels. Line
numbers are those of `src/mkpfs/`.

`tlc -config X.cfg M` runs a check; `tlapm M_proofs.tla` replays the proofs about
module `M` (there are seven such files, and `Lemmas`, which they share; the longest, `TreeCheck_proofs`,
takes about a quarter of an hour). `PROJECT.json`
lists the runs, the mutants that each property is known to reject, the source lines
every definition stands for, and the hazards.

## 1. The system

### Components, their state and their operations

| component | state it keeps | operations | what is hard | what makes it correct |
|---|---|---|---|---|
| PFSC encoder (`pfs.py:990-1720`) | output handle, offset table, deque of futures, pool | encode a stream with a thread pool, a file with a process pool, either with one worker; keep, discard or refuse the payload | workers finish out of order, fail or are killed; the window; sizes at the block boundary | bytes in source order, bounded memory, a payload the decoder accepts |
| PFSC decoder (`pfs.py:6240-6370`) | none | accept a table, read each span packed or plain | tells the two forms apart by length alone | reads back what was encoded |
| Pack command (`cli.py:460-560`, `1000-1500`; `pfs.py:3169-4030`) | temp folder, spools, `.tmp`, output file, prompt | preflight, sweep, overwrite prompt, compress, lay out, write, validate, rename, clean up, verify | a kill anywhere; an error in each step; a second invocation using the same temp folder | the output is a whole image or absent; no leftovers |
| Image layout and signing (`pfs.py:2840-3160`, `3660-4000`, `5060-5260`) | next free block, inode pointers, indirect records, signature targets | allocate, write payloads, sign in levels, read back, verify | two traversals of the same tree; signatures inside signed blocks; the boundaries of the pointer classes | every block has one owner; every payload reads back; every signature holds |
| Streaming builders (`pfs.py:4117-4640`) | the image being written, provisional inode | encode in place, fall back to raw, patch header and inode | the raw form is written over the encoded one; any call may raise or be killed | what is published reads back; no `.tmp` after an error |
| Scan, inodes, flat path table (`pfs.py:2140-2830`, `3560-3660`) | node tree, inode numbers, hash table | scan, number, renumber after a hash collision | numbers used before the renumbering | every path resolves to its inode |
| Image parsing and checks (`pfs.py:4640-5060`, `5260-6240`) | parsed indexes, findings | superroot, inode, tree and source comparison | error paths | sound images pass |
| Extraction (`pfs.py:6370-7100`) | block cache of the inner file | select, extract, extract the nested volume | cache eviction | returns the packed bytes |
| exFAT writer and reader (`exfat_writer.py`, `exfat.py`) | cluster map, bitmap, FAT | lay out, stream, read chains | bitmap covers itself; files change size | a consistent volume |
| Batch (`batch.py`) | item list, results | discover, skip, overwrite, run, summarise | which errors stop what | one result per item |
| GUI panels (`gui/panels/base.py`, `pbar.py`) | widgets, flags, two events, a log and a progress queue per panel; `builtins.input`, `sys.stdout` of the interpreter | run, cancel, poll, finish, reset timer | a UI thread and a worker thread per run; completion is signalled twice; globals shared by all panels | right result, shown once; controls come back; globals restored |
| AMPR index (`ampr.py`) | index file | build, ensure, validate | stale index accepted | index describes the folder |
| encryption, compression back ends, CLI parsing, reports, widgets, translations | none beyond one call | | | |

### How they interact

`cli` (and `batch`, once per item) calls `build_pfs` or a streaming builder; these
call the encoder through a pool, then the layout, the signing pass and the quick
validation; the post-pack verification calls the parsing and checks on the file
just renamed. Components talk by return values, by files (spools in the temp
folder, `<output>.tmp`, the output) and by one callback, the progress bar, which is
also the place where a GUI cancellation raises. The GUI runs the command line in a
thread of its own process and hears about it through a queue, two
`threading.Event`s and the replaced `sys.stdout`. `pack folder` calls
`ensure_ampr_index` first, which writes into the very folder that is then scanned.
The readers are layered: `unpack --deep` puts a block-decoding view over the one file
of an image and an exFAT reader over the view.

## 2. Modules

| module | models | depends on |
|---|---|---|
| `PfscFormat` | header size, per-block and per-file decisions, acceptance of a table: pure operators | |
| `PfscSerial` | the single-worker encoder, used as the abstract specification | `PfscFormat` |
| `PfscWindow` | the pooled encoder: driver, window, workers, failures, deaths | `PfscSerial` |
| `StreamImage` | the two spool-free builders around that encoder | `PfscWindow` |
| `StreamImage_proofs` | theorems and proofs about `PfscWindow` and `StreamImage` | `StreamImage`, `Lemmas` |
| `PackBuild` | one or more pack commands with spools, from preflight to exit code | |
| `PackBuild_proofs` | theorems and proofs about `PackBuild` | `PackBuild`, TLAPS |
| `ImageLayout` | allocation, writing, signing, reading back and verifying one image | |
| `ImageLayout_proofs` | theorems and proofs about `ImageLayout` | `ImageLayout`, `Lemmas` |
| `PathTable` | from the source tree to inode numbers, directory entries and the flat path table | `Builtins` |
| `TreeCheck` | inspecting, verifying and extracting the image `PathTable` built | `PathTable` |
| `TreeCheck_proofs` | theorems and proofs about `PathTable` and `TreeCheck` | `TreeCheck`, `Lemmas` |
| `Builtins` | what `sorted()`, a running sum, appending to a buffer and an assignment to a dictionary come to: pure operators | |
| `Lemmas` | what the proofs need about them, about division and about sequences joined together | `Builtins` |
| `AmprIndex` | `ampr_emu.index`: keep, build, validate | `Builtins` |
| `ExfatVolume` | `pack folder`: the index, then the volume of the folder that holds it | `AmprIndex` |
| `ExfatUnpack` | reading that volume back: `unpack --deep`, `tree --deep`, raw `unpack`, `verify` | `ExfatVolume` |
| `ExfatUnpack_proofs` | theorems and proofs about `ExfatVolume` and `ExfatUnpack` | `ExfatUnpack`, `Lemmas` |
| `Batch` | the batch command over its items | `Builtins` |
| `Batch_proofs` | theorems and proofs about `Batch` | `Batch`, `Lemmas` |
| `GuiPanel` | panels, their worker threads and the interpreter's globals | |
| `GuiPanel_proofs` | theorems and proofs about `GuiPanel` | `GuiPanel`, TLAPS |
| `MC*` | small instances of the module they are named after | |

### PfscFormat, PfscSerial, PfscWindow

*State.* `image` is the sequence of stored blocks in file order, `offsets` the
table the code collects (`block_offsets`), `phase` the outcome. A logical block is
its number and the length zlib makes of it, chosen nondeterministically in the
initial state: the code tells blocks apart by nothing else. `pending` is the
deque of futures, `task` the life of each one, `job` what each worker holds.

*Actions.* `Submit` is one turn of the loop around `pool.submit`; `WriteOldest` is
`_write(pending.popleft().result())`, including the progress callback that may
raise after the offset was recorded; `RaiseOldest` the same statement when the
worker raised or the write failed; `SourceRaises` an exception of the stream
iterator; `PoolExit` the end of the `with` block (a thread pool waits for its
queue, a process pool is terminated); `Finish` the verdict. Workers `Take` from
the front of the queue, `Complete` with a result or an error, and `Die` when
killed from outside. `Variant` selects the stream function (thread pool, driver
reads) or the file function (process pool, workers read): the two share all
of the windowing and differ in the number of blocks, the exit of the pool, the
verdict and in who can be killed.

*Abstract specification.* `PfscSerial!SSpec` is the code's own one-worker branch.
`ImplementsSerial` says that the pooled branch does nothing that branch could not
do; the mapping is the identity except that an encoder that is leaving its pool
counts as failed.

*Not in the model.* That a pool's initializer fails (`pfs.py:1209`): `mp.Pool`
then replaces workers for ever.

### StreamImage

*State.* `stage` is where the builder is, `out` the file under the output name, `tmp`
the file `<output>.tmp`: the blocks in front of the payload, the fields of header and
inode that are patched later (`meta`), the payload region byte by byte (what each byte
is: source, compressed, table, zero, cut off), its length and the blocks encrypted in place.
`Variant` "file" is `build_pfs_stream_single_file`, "stream" is
`build_pfs_stream_from_exfat`.

*Actions.* `EncoderStep` runs any action of `PfscWindow` inside the builder and writes its
bytes to the region; `StoreRaw` is the fallback that writes the source over whatever
the encoder left there; `Patch` rewrites header and inode and truncates; `Encrypt`,
`Validate`, `Move` and `Announce` follow the code. `Raise` is an exception of any call in the
`try` block, `Unwind` its handler, `HandlerRaises` the same handler when the unlink itself fails, `Kill`
what no handler sees. `Analysis` is the
separate implementation a dry run uses.

The size of a single file is taken twice, by the builder (`pfs.py:4152`, what the inode
promises) and by the encoder (`pfs.py:1592`, what the stream and its table are made for): `size` and
`RawSize`. They differ when the file changed in between; what is copied raw is `size` bytes of
whatever is there by then. `Validate` compares nothing with the length of the file, as in the code.

*Not in the model.* A source that has no bytes at either of its two `stat()` calls, and the bytes after
the payload in its last block, of which nothing is claimed.

### PackBuild

*State.* `pc`, `cause`, `storage` (per file: to do, encoding, encoded, raw or spooled,
written) belong to an invocation; `spool`, `old`, `tmp` and `image` are the file
system. `old` is the set of spools whose modification time is at least
`stale_age_seconds` in the past: the `Age` action may make any existing spool old
while nobody writes to it, since a build may take any time. An image is who wrote
it and which files it has the payload of.

*Actions.* Each step of `_run_pack_build` and `build_pfs` between two points at
which an exception or a kill leaves a different file system. `SweepSpool` is one
turn of the loop in `cleanup_pack_temp_artifacts`. `RaiseBeforeWrite`,
`CompressOSError` and `RaiseInWrite` are the three error paths the code
has: nothing, own spools, or everything is removed. The last one is a handler of several steps
(`pfs.py:4029-4035`): `RemoveTmp`, a `DropSpool` for each spool, then `Reraise`; other invocations
run in between, and `HandlerRaises` is an `OSError` of any of its unlinks, which takes the place of the exception
and leaves what was still to be removed. `stuck` remembers who ended so. `Kill` is a kill, a power loss
or a `KeyboardInterrupt`.

*Assumption.* Only one invocation at a time works on one output. Two of them
share one `.tmp` path and the code does nothing about it; this is listed as a
hazard and left out of the model, which lets invocations for one output follow
each other, and ones for different outputs overlap.

### ImageLayout

*State.* One image is built per behaviour. `ptr`, `records`, `targets`, `reserved`
and `next` are the layout; `content` is what each block was last written with;
`sig` and `slots` abstract signing: a signature is the number of slots its block
held when it was hashed, so that it is invalidated exactly by a slot filled later.

*Actions.* `LayOut` is the body of the loop over inodes: the blocks reserved in
front of the user root, then `assign_signed_inode_layout` or a contiguous run.
`WriteInode` writes one payload through `collect_signed_block_numbers`, `SignLevel`
is one turn of the loop over the five levels, `VerifyInode` one turn of the loop of
`verify_signed_image_signatures`. Constants stand for the format's 12 direct
blocks, for the records of an indirect block and for the 17 entries that lie between
0xB8 and the seed.

*Not in the model.* Encryption, the contents of inodes and directory entries, and
how payload sizes come about.

### PathTable, TreeCheck

*State.* A node is a number, in the order of the lower-cased paths that every sort of the
code uses; its hash is an input, so that any set of paths may collide. `order`, `number`,
`dirents`, `fpt`, `resolver` and `super` are what `build_pfs` computes; the inspection's
state is that of `inspect_pfs_image`: the call stack of `walk`, the maps it fills and the
errors. `out` is the output directory of an extraction.

*Actions.* `Scan`, `Number`, `Link`, `Collide` and `Table` are the stages of the build;
`Collide` inserts the resolver's inode and remaps the entries. `Store` damages at most one
link of the finished image: an entry lost, doubled, renamed to another inode or type, a row
of the table, an entry of the resolver or of the super-root. The walk is one action per
entry; `Plan`, `MakeDirs`, `OpenTarget` and `WriteTarget` are `extract_pfs_image`, each of
which may fail; where the output directory itself cannot be made (`pfs.py:7062`, outside the `try`) the
extraction is `"raised"`, without a result. The source may have directories that cannot be listed, at the scan and
again at the verification.

*Not in the model.* Header fields, inode block ranges, the checklist of `param.json` (`pfs.py:5932`) and
expected checksums (`6369`), which are checks of single values; the comparison of the contents with the
source (`6048`), so that "no findings" is about the structure, the set of paths and whether payloads
decode; payload blocks, which are `ImageLayout`'s; names that are absolute, climb with `..` or follow
links out of the output directory, which `_safe_extract_target` refuses (`6738-6744`): the names here are
plain and it refuses nothing; a target that appears between the check for existing files and `open()`.

### AmprIndex, ExfatVolume, ExfatUnpack

*State.* `folder` maps every file to its size or to `Gone`; a size stands for size
and modification time. `rows` and `slots` are the index being built, `index` the one in the
folder. `first`, `count`, `fat`, `bitmap` and `image` are the volume, a sequence of
units, `C` to a cluster; the boot region is left out and the FAT is kept as a function.
The reader adds the block cache (`cache`, `order`), the cluster and buffer of what is being read,
and the output.

*Actions.* `WalkFile`, `FillSlot` and `WriteIndex` build the index one file and one
slot at a time; `SolveBitmap` is one turn of the loop that makes the bitmap cover itself;
`OpenFile`, `ReadChunk` and `PadFile` emit a file as it is at that moment. `Edit` changes the
folder at any point and any number of times. `ScanTree` and the index leave out what `is_ignored_name` names (`Kept`), the
comparison of `verify` leaves out `Metadata`, which is another set; where names differ in case only
it keeps the last of the sorted paths for the folder (`Sorted`) and the last that was scanned for the volume. In the reader `ReadCluster` and `ReadFat` each fetch one block, through the
cache when the view is used; `DecodeFails` is the exception of a damaged one.
A directory is read up to the cluster with its end (`EndsIn`). Symbolic links are left out by the scanner, but
the index lists them, as in the code.

*Not in the model.* A scan during which the folder changes: it is one step, which may fail (`ScanFails`). A file
that grows for ever: the read loop (`exfat_writer.py:410`) has no bound and would copy it for ever, so
that no property says that the writer ends.

*Composition.* The index is one of the files the volume packs, under its own size; a
left-over `.tmp` of it is packed too. `ExfatUnpack` reads the volume `ExfatVolume` wrote, not
an arbitrary one. Of the parts of a PFSC block only its number matters: it decodes or it does not.

### Batch

*State.* One source and one output per entry of the folder, the item list, the results, the
cancel event. A build is one step whose outcomes are those of `StreamImage`: image in place, or
raised before or after the move. An image in place may be damaged by the time it is verified, which the verification
reports along with paths that differ.

*Actions.* One per statement of the loop that can raise, because it matters whether
that statement is inside the `try`: `SizeRaises`, `AnnounceItem` and `Show` may `Escape` to a
traceback, `BeginBuild` to `Verify` end in `Catch`. Sources may vanish, a cancellation may be
requested and the process may be interrupted at any point.

No property says that the batch ends: it is a loop over a list, and whether a build
returns is for `StreamEnds` to say.

*Not in the model.* Two items that share an output name: `discover_batch_items` takes
folders and files, and the second is skipped or overwrites (`batch.py:387`).

### GuiPanel

*State.* One record per panel for what the UI thread owns, one per run for its
worker thread, and the objects they share: `cancelSet`, `finished`, `logQueue`, `events`,
`input`, `stdout`. `events` counts the progress events that wait in a panel; what one of them says
is abstracted to "phase", and of the phase label, the count and the bar, which are written together,
the label is kept: its text (`shown`) and whether a success has put its tick in front of it (`tick`).
`early`, `behind` and `overlapped` are history variables for the properties and guard nothing.

*Actions.* The UI thread is one process: clicks happen when it is idle, a poll is
four steps (drain progress, take a message, find the queue empty, test `_worker_finished`) because
the worker runs in between. `BeginPoll` takes at most `MaxEventsPerPoll` events and writes the newest
into the label, busy or not; `OnRun` clears neither the label nor the queue; `FinishWorker` ticks
whatever stands in the label. Each statement of the worker that another thread can
see is a step.

## 3. Runs

All runs are exhaustive.

| run | module / cfg | expects | properties |
|---|---|---|---|
| `stream_image` | `MCStreamImage` / `StreamImage.cfg` | pass | `TypeOK`, `MemoryBounded`, `ImageIsSourcePrefix`, `ImplementsSerial` |
| `single_image` | `MCStreamImage` / `SingleImage.cfg` | pass | `PackedPayloadDecodes`, `SpoolWithinEstimate`, `PublishedReadsBack`, `NoTmpAfterEnd`, `DryRunForetells`, `StreamEnds` |
| `pack_build` | `MCPackBuild` / `PackBuild.cfg` | pass | `TypeOK`, `ImageWholeOrAbsent`, `NoLeftoversAfterWrite`, `SuccessMeansOwnImage` |
| `image_layout` | `MCImageLayout` / `ImageLayout.cfg` | pass | `BlocksPartitioned`, `PayloadsReadBack`, `SignaturesHold` |
| `tree_check` | `MCTreeCheck` / `TreeCheck.cfg` | pass | `BuilderAccepted`, `DamageReported`, `TableFindsEveryPath`, `CleanMeansSame`, `ExtractedWhole`, `ForeignKept`, `CheckEnds` |
| `folder_image` | `MCExfatVolume` / `FolderImage.cfg` | pass | `VolumeReadsBack`, `PackedFilesFound` |
| `exfat_unpack` | `MCExfatUnpack` / `ExfatUnpack.cfg` | pass | `CacheSound`, `SelectedWhole`, `OnlyMatchingRead`, `VerifyRight`, `UnpackEnds` |
| `deep_damage` | `MCExfatUnpack` / `DeepDamage.cfg` | violation | `DeepReportsDamage` |
| `batch` | `MCBatch` / `Batch.cfg` | pass | `EveryItemRecorded`, `ConvertedMeansVerified`, `CancelStopsBuilding` |
| `batch_verify` | `MCBatch` / `BatchVerify.cfg` | violation | `VerifyAcceptsOwnImage` |
| `gui_panel` | `MCGuiPanel` / `GuiPanel.cfg` | pass | `CancelShown`, `ResultShownOnce`, `ControlsComeBack` |
| `gui_two_panels` | `MCGuiPanel` / `GuiTwoPanels.cfg` | pass | `GlobalsOwned` |

What the properties say is in the comments before them; what they show together:

* *Packing.* Whatever the workers' order, the payload is the one of the single-worker loop
  (`ImplementsSerial`), it decodes (`PackedPayloadDecodes`), and nothing else ever stands
  under an output name (`PublishedReadsBack`, `ImageWholeOrAbsent`), but for a file that lost a block or more
  between two `stat()` calls: its image is published with an inode the decoder refuses. An error leaves no
  temporary file once writing has begun, if it can be removed (`NoTmpAfterEnd`, `NoLeftoversAfterWrite`).
* *Layout.* The two traversals of the block pointers agree, blocks are partitioned and the
  order of the signing levels never breaks a signature. The path table leads where the
  directories lead, with collisions and without.
* *Reading.* One damaged link never goes unnoticed; an extraction or unpack without errors
  wrote what was packed; a volume is in one piece although its folder changed meanwhile.
  The verification of a volume against its folder errs in just two ways: files of ignored names that are not
  metadata to it are missing, and names that differ in case only may be compared with each other (`VerifyRight`).
* *Around it.* Exit status 0 of a batch means that every image is there, and undamaged if it was to be
  verified; a cancellation stops it; a panel comes back to life and shows the right result until late
  progress events replace it.

### Bounds

* **Encoder and builders.** Three to five logical blocks of 4 bytes, two workers, a
  window of two: the window fills, is taken from, wraps round and drains. Block lengths 1,
  4 and 5 against a block size of 4 are a block that shrinks, one that zlib leaves as long as
  it was, and one that grows. The stream lengths 12, 14, 17 against a declared 14 are one
  block too few, equal and one too many; a file of 10 bytes is one that has shrunk since `stat`. The
  stream instance's table needs an extra header block, the file instance's fits exactly. At
  most one worker is killed (`MaxDeaths`): with the first lost block the driver stops for ever, so a
  second one adds nothing. PFS blocks are as large as PFSC blocks or twice as large. The builder's own `stat()` of the single
  file (`StatSizes`) may have seen the size the encoder sees, 14, or 18: a file that lost a block in between.
* **Pack.** Two invocations, two files, pool of two; the same output or different ones give the
  overlapping pair and the pair that follows each other. The number of
  invocations is the only bound that cuts behaviours off.
* **Layout.** Two direct blocks and two records per indirect block make payloads of
  1, 3, 5, 8 and 9 blocks the direct, simple, first-group, full and too-large cases;
  four and five inodes are every inode kind with and without a collision resolver,
  in two and three inode-table blocks.
* **Tree.** Ten nodes in nested and sibling directories, one ignored directory, one name
  that is not ASCII; five source folders from empty to three files; two hash
  values and every assignment of them to the paths, so that there are groups of every size,
  two groups, or a group beside a single path. Every single damage of every link is tried, every
  subset of directories may be unreadable, and the output directory is free, a file, or
  has a file where a directory or a file is to come.
* **Volume.** Two units to a cluster, three clusters to a bitmap cluster, so that the bitmap
  takes up to three rounds; files of 0 to 5 units that shrink, grow within and beyond their
  clusters or vanish, at every point; two files whose names differ in case, a symbolic link;
  hashes 7 and 8 in tables of 2 to 8 slots, which are equal, neighbours, or wrap round.
  `Edits` is the set of sizes a file may take, as often as it likes.
* **Unpack.** Two clusters to a PFSC block and a cache of two blocks, so that the FAT is
  evicted and decoded again; every block of the largest volume or none is damaged; selections of
  nothing, a directory, a file, a file and a link that is not in the volume. One hash suffices. A file
  of an ignored name that is metadata and one that is not, and two names that differ in case and whose order
  differs between the two maps, are what `VerifyRight` turns on.
* **Batch.** Two folders and an image between a hidden entry and one of another class; all
  options, outputs of an earlier run, images sound or damaged, every order of vanishing.
* **GUI.** Two runs of one panel where completion signals matter: the second run
  meets everything the first one left behind. Two runs over two panels where the
  interpreter's globals matter. `MaxRuns` bounds clicks. In `gui_panel` two progress events
  wait at most and a poll takes one (`MaxEvents`, `MaxEventsPerPoll`; 64 in the code), so that completion is handled
  with an event left over; `gui_two_panels` has none (`MaxEvents = 0`), since the globals do not depend on them.

Deadlock is checked in `gui_panel` and `gui_two_panels`, where the UI thread never stops
polling. The other models end (or, with a killed worker process, wait for a lost block), and their
configurations say so; that they do end is a property of its own wherever the end is not
trivial.

### Fairness

`StreamEnds` assumes weak fairness of the builder and of each worker: the driver is one
thread that runs or blocks on a future, the pool's threads or processes keep being scheduled and
a call of zlib returns. No failure, death or exception is ever forced, except where the code
has no other way on (`MustRaise`): the encoder failed, or the source is shorter than what has
to be copied. A killed worker's future is never completed, as `mp.Pool` behaves; the property
says that waiting for it is the only way not to end.

`CheckEnds` and `UnpackEnds` assume weak fairness of the one
thread that runs the command; edits are never
forced. What they exclude is a loop that does not end: the walk over a damaged
tree, a chain of clusters, a block that does not decode.

`ControlsComeBack` assumes that a worker thread which can move moves (weak
fairness per run; it includes that the command line returns, however much progress it reports before,
and excludes a thread that waits for the real `input()`), that a poll once begun proceeds, and strong
fairness for the beginning of each panel's poll: `_poll_log_queue` always
reschedules itself with `after(80, ...)`, and Tk's event loop serves its timers in
order, so a panel's poll is not passed over for ever although the UI thread is
busy with others in between. No click and no cancellation is assumed.

### Disagreements between code and documentation

Two are checked as runs that find a violation:

* `batch_verify`: a folder item is built as one inner `.exfat` file and verified against the
  folder itself (`batch.py:479`), so a sound image is reported as an error. A test
  (`tests/mkpfs/test_batch.py:572`) says that a clean inspection keeps `converted`; it replaces the
  inspection. Packing a one-file folder with `--verify` confirms it.
* `deep_damage`: a block that does not decode raises `CompressionError` out of the view
  (`pfs.py:6518`), which none of the handlers of a deep unpack catches. The result that the docstring
  promises (`pfs.py:7001`) is never returned.

These were met while modelling and have no run of their own:

* The encoder compares the number of blocks it saw, its docstring promises the length
  (`pfs.py:1545` and `1488`): a stream off by less than a block is accepted.
* The sweep of the temp folder goes by age, 300 s (`cli.py:508`, `531`), and a finished spool of a
  running build is not written to any more: a second invocation unlinks it and the first
  then fails when it opens it. The failure is loud and leaves no image.
* The signature entry of inode-table block k is at `0xB8 + 40 k` with no bound
  (`pfs.py:2847`): from the eighteenth on it overwrites the seed and the digest. The builder run
  on 83 files with 4096-byte blocks gave an image whose signatures all fail.
* The verifier's records of the first indirect block are assigned only in the branch that
  reports a mismatch (`pfs.py:5173-5182`): a sound signed image with a file of more than 12
  blocks makes it raise `UnboundLocalError`. Confirmed by running it.
* The bytes after a raw payload in its last block are not zeroed when it ends in a
  later block than the provisional one (`pfs.py:4414`), although the docstring says that the output is
  byte-identical to the spooled one (`4117`).
* The single-file builder takes the size of its source twice (`pfs.py:4152`, `1592`). A file that loses a
  block or more in between is published, and its inode then promises more than its stream holds, which the decoder
  refuses (`2377`).
* `verify` of a raw volume passes over dotfiles, `thumbs.db` and `desktop.ini` (`pfs.py:6651`), although it promises
  to compare every file (`6616`), and the packer leaves out other names as well (`utils.py:97`): of an unchanged
  folder with `ehthumbs.db` or `__MACOSX/x` these are reported as missing. Of names that differ in case only, the
  two sides may keep different ones (`pfs.py:6661`), which is reported as a difference in content.
* An error in removing a `.tmp` or a spool, other than that it is gone, takes the place of the error of the
  build and leaves the rest (`pfs.py:4031`, `4483`).
* GUI: `_drain_progress_events` writes the phase label whether or not a run is going on, takes 64 events a poll, and the
  queue is not cleared by a new run (`base.py:331-367`, `222-234`): late events replace a "cancelled" or a
  ticked result. A success ticks whatever the label says (`base.py:316`), "cancelling" included.
* GUI: the poll can act on `_worker_finished` before the worker posts `__done__`, and
  the message is then taken during the next run and restores that run's controls
  (`base.py:282-287`); `builtins.input` is saved and restored per run, and runs of
  two panels overlap without nesting (`base.py:410`, `500`).

## 4. Proofs

`StreamImage_proofs` proves of the encoder (`PfscWindow`), for every pool, window factor, block size, threshold,
source length and zlib behaviour allowed by `FormatAssumption`,
`SourceAssumption` and `WindowAssumption` (sizes are positive, the pool is finite and
not empty, the table starts before the data):

| theorem | says |
|---|---|
| `TypeCorrect` | `Spec => []TypeOK` |
| `InOrderOutput` | `Spec => []ImageIsSourcePrefix` |
| `BoundedMemory` | `Spec => []MemoryBounded` |
| `PayloadRoundTrip` | `Spec => []PackedPayloadDecodes` |
| `SpoolFits` | `Spec => []SpoolWithinEstimate` |
| `Refinement` | `Spec => ImplementsSerial` |
| `HeaderHoldsTable` | the header has room for the offset table of any number of blocks |
| `Invariance` | `Spec => []IInv` |

*The inductive invariant.* None of these properties is inductive. The image stays a
prefix of the source only because the head of the deque is the next block, so
`PendingInOrder` says that the deque holds exactly the blocks after the image, in
order. Memory is bounded only because every held block is in the deque
(`HeldIsPending`), which needs `JobsMatchTasks`: what a worker holds is a running task,
so that completing it cannot revive one that was returned. Decoding needs that a
kept payload has all of its blocks (`PackedIsComplete`) and the spool estimate that no
prefix of the table outgrows its share (`OffsetsBounded`). `IInv` is the conjunction of
these with `TypeOK` and `ImageIsSourcePrefix`. The refinement proof uses it once,
to know that the block written by `WriteOldest` is the one `SEncode` would write.

Of the builders around it (`StreamImage`) it proves, under the same assumptions and for every positive block size of
the image:

| theorem | says |
|---|---|
| `EncoderUnchanged` | `StreamSpec => Spec`: the builder runs the encoder as it is |
| `BuilderMemoryBounded`, `BuilderImplementsSerial`, `BuilderPayloadDecodes` | what was proved of the encoder holds in the builder |
| `WholeOutput` | `StreamSpec => []PublishedReadsBack` |
| `ErrorsCleanUp` | `StreamSpec => []NoTmpAfterEnd` |
| `DryRunIsRight` | `StreamSpec => []DryRunForetells` |

*The inductive invariant.* `BInv` follows the payload region through the stages. While the
encoder runs, every byte up to its last offset is its own (`RegionFollows`); it uses `IInv` for the bounds of the
offsets, and the fact that the step that keeps the payload writes no block. The raw fallback
covers every byte of the source whatever was there (`RawStored`). Patching takes the size of
the form that was stored and rounds it up to blocks, so that nothing of it is cut off
(`PatchedReads`), and encryption covers the blocks in use (`SealedReads`); only then is
the file moved. `RawIsSeekable` says why a stream never falls back to a raw form it could not
produce. All of this holds whatever the two sizes of the source are; that the decoder takes the result
(`Decodes`) needs that the builder's size has no more blocks than the encoder's, and that is all it needs.

The dry run shares no code with the encoder: `_analyze_pfsc_file_storage` adds up sizes and
counts packed blocks in a loop of its own. `VerdictKnown` says that the verdict of the encoder
is taken over all blocks and that the inode is patched by it; `AnalysisIsPayloadEnd` that
the loop ends where the encoder's last offset does. The loop is a recursive function, and
so is the table of offsets a solution of its equation; that there is only one is shown by
looking at the least index where two solutions differ.

`PackBuild_proofs` proves, for any number of invocations, outputs and files and any
worker count (`PackAssumption`):

| theorem | says |
|---|---|
| `TypeCorrect` | `Spec => []TypeOK` |
| `WholeImages` | `Spec => []ImageWholeOrAbsent` |
| `NothingLeftBehind` | `Spec => []NoLeftoversAfterWrite` |
| `ReportsOwnImage` | `Spec => []SuccessMeansOwnImage` |
| `Invariance` | `Spec => []IInv` |

*The inductive invariant.* The image is whole because what is renamed is whole, and
that takes three facts about the invocation that renames: the `.tmp` is its own and has
exactly the payloads it has written (`TmpIsOwn`), it left the writing loop with all of
them (`LoopsComplete`), and nobody else works on its output (`OutputsExclusive`, which
carries the assumption of the model through the proof). A sweep by another invocation
needs no case of its own: a payload whose spool is gone is never counted as written.
No leftovers follow from `TmpHasOwner`, `WroteInOrder` (no way back from writing to
compressing, so no new spool after or during the clean-up), `CauseKnown` (the except clause always
has something to raise) and `SpoolsGone`; the invocations that are `stuck` in their handler, and the
killed ones, are left out of the property, as the code leaves their files behind. `EncodingIsFresh` says that no sweep takes a
spool that is being written to; type correctness needs it. `ImageIsOwn` starts at the
rename, where the property it implies starts only at the verification. The invariant
was checked by TLC on the instance of `pack_build` before it was proved.

`ImageLayout_proofs` proves, for every image: any number of inodes, any file sizes up to what a
signed inode can address, and any number of direct blocks, records per block, inodes per block
and header entries (`LayoutAssumption`):

| theorem | says |
|---|---|
| `LayoutInvariant` | `Spec => []LayoutInv` |
| `BlocksArePartitioned` | `Spec => []BlocksPartitioned` |
| `PayloadsAreReadBack` | `Spec => []PayloadsReadBack` |
| `SignaturesAreFinal` | `Spec => []SignaturesHold`, if no image has more inode-table blocks than the header has entries |

The hypothesis of the last one is not an assumption of the model: `build_pfs` does not check it
(`pfs.py:2847`), and an image that breaks it has signatures that fail.

*The arithmetic.* `PlaceIs`, `RecordsOfIs` and `SignedBlocksAre` say in closed form where
`assign_signed_inode_layout` puts block k of a payload of n blocks and where
`collect_signed_block_numbers` finds it: direct run, simple indirect run, groups behind the doubly
indirect block. The two agree on every n, the class boundaries included, because both are
the same function `BlockAt`; `LeavesApart` and `SpanParts` say that the blocks of one inode are
the consecutive span that was taken from `next`, each once. The groups are joined by `FlattenSeq`,
of which `FlattenGroups` gives length and elements.

*The inductive invariants.* `LayoutInv` says of the inodes laid out so far that their
spans are apart from each other, from the header and inode table and from the blocks reserved in
front of the user root (`Apart`), and that together these are all blocks below `next` (`Covered`).
`ContentInv` says that a payload once written stays, since no later one writes into
its span. For the signatures `TargetsKnown` lists the targets of every inode, and every
block has a `Rank`: the rank of the hashed block is the level of its signature, and the block the
signature is stored in has a higher one. Hence a block hashed at a level gets no more signatures at that level or a later
one (`HashedStays`), and `SignInv`, that each signature made so far is the hash of its block as it
is now, is kept. `TargetsDiffer` says that no two targets share a slot.

`TreeCheck_proofs` proves, for every source tree, every hash function, every damage of a link
and every occupant of the output directory (`TreeAssumption`, `OccupantsAssumption`):

| theorem | says |
|---|---|
| `BuilderIsAccepted` | `Spec => []BuilderAccepted` |
| `DamageIsReported` | `Spec => []DamageReported` |
| `TableLeadsEverywhere` | `Spec => []TableFindsEveryPath` |
| `CleanVerificationIsSame` | `Spec => []CleanMeansSame` |
| `ExtractionIsWhole` | `Spec => []ExtractedWhole` |
| `ForeignIsKept` | `Spec => []ForeignKept` |

*The inductive invariants.* `ExtractInv`: once the extraction is planned no directory and no file it
is going to make is a file that lies there (`TargetsFree`), which `Plan` alone establishes, and
a half-written file is one of the file that is open. `TableCompared`: an inspection that ends without
findings has compared every path with the table, and found the table's map equal to the expected one.
The theorem then follows from the table alone, however it was damaged: for a hash that one path has, the
row names its inode; for one that several have, the group of the resolver lists each of them.
`FoundFinite`, that the walk has found finitely many paths at any time, is needed where
the number of paths of a hash is compared with one.

*The image.* `ImageInv` follows the build through its stages. `IndexSound` says that `order` and
`number` are inverse to each other, which numbering establishes and the insertion of the resolver keeps;
`TreeSound` that every directory has its dots and one entry per packed child, with the child's number of
the moment: `Colliding` shows that the remapping brings the entries to the new numbers. After that the image is the
one built but for at most one link (`Links`), whose hit is described entry by entry (`HitAt`, `TableHit`, `ResolverHit`,
`SuperHit`). `BlobIs` and `GroupStarts` say where the group of a hash lies in the resolver: the offsets in the
rows are the lengths of the groups of the smaller hashes, joined.

*The walk.* `WalkInv` speaks of a walk without findings: every frame lists a directory that was entered and
had its dots right, every entry passed was in range, of the right type, and led to an inode that is in the maps.
At the end of such a walk every directory that can be reached has been entered (`AllEntered`), hence every
inode but the reserved ones has an entry that names it, since an orphan is a finding.
`EntryReported` follows: an entry that is lost or redirected leaves a node that no entry names, and one that is
doubled is a duplicate name or a second dot; `SuperReported` does the same for the super-root. `PathsInv` (while no directory entry is damaged) says that
the walk gives every inode the path the builder hashed; so the maps are the packed files and directories
(`AllFound`), from which `CleanMeansSame` and, with `WrittenInv` for the queue, `ExtractedWhole` follow.

*The table.* The expected map of a walk without findings is one line per packed node (`ExpectedAre`), and that no
row complains means that the row of each hash has the number of its only node, or is a group that lists them all
(`MapMeans`). A row that was lost or doubled, or whose kind or target was changed, contradicts this (`TableReported`); an
entry of the resolver that was lost or changed is missing from the one group it belongs to, because every entry occurs
once and what is read from an offset ends at the first zeros (`ResolverReported`).

*What is accepted.* For `BuilderAccepted` the walk of an undamaged image is followed forward. `AcceptInv`
says that it has no findings so far and stands where it should (`WalkStands`): a child of a directory that was
entered has been found or is listed ahead in a frame on the stack (`Reached`), a directory is
only known by its own path (`DirPathsFit`), and frames further down the stack are of directories with lower
numbers (`Falls`), so that no entry is a cycle. At the end nothing is ahead, so
everything was found: the least node that was not would have a parent that was. `MapAccepted` and `NoOrphans` then show
that the rest of the inspection has nothing to say.

`ExfatUnpack_proofs` proves, for every folder and tree of directories numbered in the order of the scan, every
cluster size, edit, block size, cache size, selection, damaged block and occupant of the output
(`FolderAssumption`, `VolumeAssumption`, `UnpackAssumption`):

| theorem | says |
|---|---|
| `VolumeIsRead` | `FolderSpec => []VolumeReadsBack` |
| `PackedFilesAreFound` | `FolderSpec => []PackedFilesFound` |
| `CacheIsSound` | `UnpackSpec => []CacheSound` |
| `OnlyMatchingIsRead` | `UnpackSpec => []OnlyMatchingRead` |
| `SelectedIsWhole` | `UnpackSpec => []SelectedWhole` |
| `VerificationIsRight` | `UnpackSpec => []VerifyRight` |
| `UnpackInvariant` | `UnpackSpec => []UnpackInv` |

*The volume.* `VolumeInv` is kept by every step, of the writer or of whoever edits the folder. After the layout the
first cluster of a node is the sum of what lies in front of it (`LayoutSound`), hence runs lie one
behind the other (`Places`) and no two share a cluster, so that the FAT leads through each run to its end.
`EmissionSound` says that the image ends where the current node's run does, or, while a file is
read, as many units into its run as were read; what was emitted for a node stays (`WrittenStays`).
That a file which shrank is padded, and that one which outgrew its run fails the build, is what
keeps the next node in its place. Reading uses the chain of clusters, not the sums: `ClusterIs`, `DataOfIs` and
`ListedAre` say what the clusters, the chain and the directory entries of a node come to.

*The index.* `FreshSound` follows a freshly generated index through its stages: the rows describe the folder as far as
it was walked (`RowsDescribe`), and the first rows are in the table (`TableSound`): no row twice, and each
reached from its hash behind slots that are all taken and, where they have the same hash, flagged. Inserting a row fills
the first free slot and only adds flags, so what was reached stays reached (`InsertedSound`). That there is a
free slot, and that probing for any hash ends at one, is the pigeonhole principle for a table
with two slots to a row (`SlotsEnough`, `SomeFree`); the doubling that sizes it is a recursive function.
`HashOf` is arbitrary throughout: any paths may collide.

*The reader.* The cache is only bounded because its eviction list names each block
in it once (`CacheInv`), which `Decode` keeps with and without an eviction. Since a cached block has its own
content (`Undisturbed`), what was gathered after q clusters of a node are its first q * C units and the
next cluster is the one after them (`Gathers` in `ChainSound`). `WalkSound`: a directory
that was found is being read, still pending, or all that is in it was found; with none pending
everything was, because a parent is numbered before its children (`AllFound`). `OutputSound`:
files written and files queued are together the files asked for, and each written one but the one being read is whole.
`DecodedSound` follows, since only directories and files of the queue are read.
`UneditedSound` relates the volume to the folder as long as nobody edits it; the second half of `VerifyRight` needs it.

Of two files whose names differ only in case, the verifier's map keeps one on each side, by two different orders, and
the one kept from the folder need not be in the volume under that very name. `VerifyRight` therefore speaks of a file of
the same name up to case. That ignored names and metadata do not depend on case (`FolderAssumption`, `UnpackAssumption`)
is true of the code, which lower-cases names before it looks them up; for dotfiles and `._` it makes no difference.

`Batch_proofs` proves, for every folder to pack, every set of its entries' kinds and every
combination of options (`EntriesAssumption`):

| theorem | says |
|---|---|
| `TypesHold` | `Spec => []TypeOK` |
| `EveryItemIsRecorded` | `Spec => []EveryItemRecorded` |
| `ConvertedIsVerified` | `Spec => []ConvertedMeansVerified` |
| `CancelStops` | `Spec => []CancelStopsBuilding` |
| `BatchInvariant` | `Spec => []BatchInv` |

*The inductive invariant.* `InOrderSorts` says that the list holds every packable entry once, so
that a turn of the loop is the only one of its item (`ItemsDiffer`). `ResultsInOrder` says which results the
item of the turn has at each point of the turn: none before it is shown, one until its
verification, and possibly none in the handler; so a passed item has one result, or a
conversion followed by an error (`PassedRecorded`). `PassedHaveImages` gives for each passed item the reason why
exit status 0 can be trusted with it, a verified image being undamaged. `VerifiedOnes` allows the last result alone to be an unverified
conversion. `CancelInv` says that nothing is built ahead of the loop and that a
running build was begun before the cancellation.

`GuiPanel_proofs` proves, for any set of panels and any number of runs (`GuiAssumption`):

| theorem | says |
|---|---|
| `TypesHold` | `Spec => [](TypeOK /\ RunsSound)` |
| `GlobalsAreOwned` | `Spec => []GlobalsOwned` |
| `PromptsAnswered` | while no runs overlapped, a prompt never blocks on the real `input()` |
| `CancelledIsShown` | `Spec => []CancelShown` |
| `ResultIsShownOnce` | `Spec => ResultShownOnce` |

*The inductive invariants.* `OneHolder`: while runs have not overlapped, one run at most has
replaced the globals, it has saved the real ones, and which of the two are replaced follows from where it is.
`PanelInv` follows the label: when the latest run of a panel was cancelled and the controls are back, the panel shows
that, with no timer left that could clear it, or shows a phase because events were waiting when it was given back
(`behind`); and if none were waiting, none come (`LatestSound`). A panel that is neither busy nor handled has never been run and hears nothing
(`PanelSound`), so that a message left over from an earlier run can change what is shown only through
`_finish_worker` of a busy panel or a progress event; and the latest run of a panel, unless something restored the controls
early, keeps it busy until it has left its outcome in the panel's flags (`WorkingSound`, `LatestSound`). That runs are numbered
in the order they start (`StartedInOrder`) makes "latest" a run that stays the latest until the next click.

Each of these invariants was checked by TLC on the instance of its run before it was proved, except
`ImageInv` and `WalkInv` of `TreeCheck`, which speak of the image before the damage and of sequences of anything: TLC
cannot evaluate them, and checked the properties they imply.

*Only model-checked.* All liveness (`StreamEnds`, `CheckEnds`, `UnpackEnds`,
`ControlsComeBack`), which is beyond the prover. Every other property of a passing run is
proved. The library's induction theorems cannot be used, since they take an operator; where a
recursive function or a fold had to be reasoned about, the proofs go through
`LeastElement` (a nonempty set of naturals has a least element), which needs only the
well-foundedness of the order. No module uses a recursive operator.

## 5. Not modelled

Left out for good: the compression libraries (a block's compressed length, or
whether it decodes, is an input), AES-XTS and key derivation (only which blocks are encrypted
is modelled), argument parsing and report formatting, the progress bar of the terminal, logging, widgets and
translations. Of what a panel shows, the phase label is modelled, the count and the bar beside it are not.

Known behaviours no model covers, each listed among the hazards or here:

* A pool initializer that fails (`pfs.py:1209`) makes `mp.Pool` respawn workers for ever.
* Two invocations for one output share its `.tmp` (`pfs.py:3856`); nothing in the code coordinates
  them, so there is nothing to state.
* A source that grows as fast as it is read (`exfat_writer.py:410`).
* Spools left by an error before the image is opened (`pfs.py:3269`): `PackBuild` has the steps, and
  its property starts at the opening, as the code's handler does.
* `pack exfat` writes straight to its output name and has no clean-up (`exfat_writer.py:456`).
* Encryption of the blocks of a folder image built with spools.
* `render_tree` follows directory entries without the walk's check for cycles (`cli.py:1965`); it
  runs on an image the inspection has passed.
