# rusty_esp_core: a verification project

TLA+ models of the parts of this repository that keep state across failures, share it
between tasks, or decide what memory others may touch; the TLC runs that check them on
small instances; and TLAPS proofs of what matters most for every size. Paths are relative
to the repository. `nvs.rs`, `capability.rs`, `frame.rs`, `pcm.rs`, `time.rs` and `hal.rs`
are in `crates/rusty_esp_core/src/`; `table.rs`, `image.rs`, `secure.rs`, `flash.rs`,
`soc.rs` and `main.rs` in `firmware/esp32s3-boot/src/`. The `main.rs` of the Kairos cell is
written "Kairos `main.rs`": it is in `firmware/xiao-s3-kairos-tasks/src/`.

To repeat a check: `tlc -config nvs_set.cfg MCNvs` (any run of the table below), and
`tlapm NvsProofs.tla` for the proofs of one component.

## 1. Inventory

| Component | State it keeps | Operations | Interacts with |
|---|---|---|---|
| **NVS partition** (`nvs.rs`, `Nvs`) | the partition in flash: page headers, an entry-state bitmap, 126 entries of 32 bytes a page; in memory the order of the pages and two read caches | `open`, `get`, `put_blob`, `remove`, `scrub`; under them `page_with_room`, `activate_page`, `start_page`, `compact`, `erase_span` | the `Flash` trait below, `NvsKv` above, ESP-IDF, which reads and writes the same format |
| **Kv seam** (`hal.rs` `Kv`, `nvs.rs` `NvsKv`, host `MemKv`) | a map from keys to values | `get`, `put`, `remove` by `&mut self` | `Nvs` implements it; the device identity is stored through it |
| **Boot selection** (`table.rs`, `main.rs`) | two otadata sectors in flash; the loader's copies of them | `select`, `write_initial`, the loop over candidates, `fatal!` | the image loader (does a partition hold an image that passes?), and the app, which writes otadata after an update and to confirm itself |
| **Image loading** (`table.rs` `read`, `image.rs`, `secure.rs`, `sha.rs`, `flash.rs`, `soc.rs` `start`) | across candidates: RAM that was written, the cache MMU; within one: the walk's offset, a digest, a checksum, two mappings | read the partition table, map a partition, walk the segments, verify the appended digest and the signature, map, jump | boot selection asks it for every candidate, one after another |
| **Chip bring-up** (`soc.rs`, `rom.rs`, `console.rs`) | registers | straight sequences at reset | - |
| **Kairos task cell** (`firmware/xiao-s3-kairos-tasks`) | one `Context` a task, counters shared by two workers and main, the Software0 interrupt and the mask | spawn, work and yield, suspend and resume, switch | the Kairos kernel and its port, which are not in this repository |
| **Capability manifest** (`capability.rs`) | declarations; a text | `validate`, `encode`, `encoded_len`, `parse`, `encode` of what was parsed | signed on a device, read and checked on a host |
| **Time** (`time.rs`) | a `WallOffset` | `from_exchange`, `better`, `to_wall`, `error_at` | a host's clock and a device's |
| **Frames** (`frame.rs`) | borrowed memory | `Geometry`, `Plane`, `Frame`, `FrameMut`, `as_frame` | kernels that index it without a check of their own |
| **PCM** (`pcm.rs`) | borrowed memory, stamps | `PcmFormat`, `PcmBlock`, sample views (not modelled) | the same |
| **Errors, media, re-export crates** | none | names | - |

What is hard, and where:

* **Power cuts.** Both persistent components are written so that a device may lose
  power between any two flash operations. NVS has an order for its marks (data,
  header, index; the new value before the old is erased); otadata has two sectors, of
  which one is rewritten at a time. Whether each order does what it is for is a question
  about every prefix of every operation, combined with everything that may be called
  afterwards. A unit test cuts at the instants its author thought of.
* **Long legal call sequences.** Compaction and scrubbing happen in the middle of other
  calls, when pages happen to be full, and move entries the open call has already looked
  up.
* **Partial failure.** `put_blob` rolls back the chunks it wrote; the loader goes on when
  otadata cannot be written; an image is refused after half of it was copied to RAM, and
  the next candidate must be judged as if it had been the first.
* **Two programs on one format.** The app (ESP-IDF) writes otadata by its own rule; the
  loader must never leave the board without an app that runs.
* **Interleaving.** The Kairos kernel moves its `current` when it decides, the CPU moves
  when the interrupt handler acts. Between the two, a task that suspends "itself" suspends
  whoever the kernel holds to be current. Which of two workers is the last is decided
  outside the mask, and acted on inside it.
* **Two names for one byte.** The instruction and the data bus name the same RAM by
  different addresses; a segment must be kept off the loader's memory by both.
* **A sum or a rounding that is off by one.** An image's end padded to a sector, a last row
  shorter than its stride, half of an odd round trip, blocks whose duration is no whole
  number of microseconds.
* **Messages that are cut, newer or reordered.** A manifest is text, and text that was cut
  may still look whole.
* **Liveness.** `page_with_room` and `scrub` loop; the boot loop resets and starts over;
  nobody but the last worker resumes main.

What makes each component correct:

* NVS: it is the map the seam promises, one call taking effect at one instant; what is in
  flash is exactly what a reader can reach; pages stay ordered and the reserve page stays
  free; every call returns.
* Boot: a board with an image that passes gets an app; an image that was tried and did not
  confirm itself is not chosen again; an update never costs the board the image it can
  return to.
* Image loading: the app that starts is the first in the order that passes every check, and
  sees the flash that was verified; no byte of the loader is ever written; the loader gives
  up only when nothing would have started.
* Kairos: kernel and CPU agree on who runs, no frame is lost, and main reports, after both
  workers are parked.
* Manifest: the same facts give the same bytes; what arrives intact is read back; what does
  not arrive intact changes no fact.
* Frames, PCM: whoever holds a frame may index all of it; stamps follow the samples.
* Time: what a host reads off its mapping is within the error it states.

`PROJECT.json` lists every hazard found with its line, and the properties that cover it.

## 2. Modules

| Module | Models | State |
|---|---|---|
| `KvSeam` | what `Kv` promises (`hal.rs`): the abstract specification | `kv` the map, `op`, `result`, `applied` |
| `NvsFormat` | the partition in flash, the `Flash` contract, `scan`, and everything that reads | `hdr`, `bits`, `cell` |
| `Nvs` | the writer, one action per flash operation and per decision, with power cuts and failing operations | the flash, `pc` where the open call stands, `op`, `result`, `l` the locals |
| `NvsSeam` | the properties of `Nvs`, and the refinement mapping to `KvSeam` | - |
| `NvsCache` | the two caches an open partition keeps of its reads, and the reader between the calls | `nsCache`, `verified` |
| `MCNvs`, `MCCache` | instances for TLC: value sizes, starting partitions, a caller that only puts absent keys | - |
| `OtaBoot` | the loader's selection of an app, with the app as its environment | `otadata`, the images, `e` the loader's copies, `w` the write in hand, `pc` |
| `BootImage` | the table, the candidates, and all that is done with one image | the locals of `load`, `written`, `mmu`, `tried`, `running` |
| `KairosCell` | the cell's three tasks, the interrupt and the mask, on an external kernel | `cpu` and `saved`, the kernel's `current` and `suspended`, counters, `pc` |
| `Manifest`, `MCManifest` | a manifest from declaration to host; three capabilities of it | declarations, the text, what was parsed |
| `Frames` | one frame, wrapped, written, handed on | geometry, memory, phase |
| `PcmStream` | a stream of blocks | format, stamp, frames handed over |
| `WallClock` | two clocks that drift, and the exchange that relates them | both clocks, the exchange under way, the mapping |
| `MCParts` | one instance of the five above that do not interact with anything, side by side | `component`, which of them a behaviour is about |
| `NvsProofs`, `NvsTidyProofs`, `NvsStoreProofs`, `OtaProofs`, `ImageProofs`, `KairosProofs`, `ManifestProofs`, `PartProofs` | the inductive invariants and their proofs | - |

`Nvs` EXTENDS `NvsFormat`, `NvsSeam` EXTENDS `Nvs` and instantiates `KvSeam`, `MCNvs`,
`NvsCache` and `NvsProofs` EXTEND `NvsSeam`, `MCCache` EXTENDS `MCNvs` and `NvsCache`,
`NvsTidyProofs` EXTENDS `NvsProofs` and `NvsCache`, and `NvsStoreProofs` EXTENDS
`NvsTidyProofs`. `MCParts` EXTENDS `BootImage`, `MCManifest` (which EXTENDS
`Manifest`), `Frames`, `PcmStream` and `WallClock`. `PartProofs` EXTENDS `Frames`,
`PcmStream` and `WallClock`; every other proof module EXTENDS the module it is named for.
`OtaBoot` and `BootImage` are the two halves of the loader: what
`OtaBoot` calls an image that is `good` is what `BootImage` defines by `Good`, and the
choices `select` makes in `OtaBoot` are the `FirstChoices` of `BootImage`.

### NVS: code and model

A slot of the model is one 32-byte entry. A value is a model value whose length is counted
in entries, and its data entry `i` is `Data(v, i)`; a CRC is what it covers, so a header
whose bytes are not a header, or a span whose data is not the value its entry was written
with, fails it. Programming a slot that is not blank leaves `Garbage`, which no CRC accepts
(NOR flash ANDs the two). Marks obey the bitmap's `11 -> 10 -> 00`: an erased entry stays
erased.

| Points of `pc` | Code |
|---|---|
| `begin`, `old` | `put_blob`, `namespace_index_or_create`, `remove`, `remove_in`: the look-ups |
| `chunk`, `data`, `datamark`, `entry`, `entrymark`, `fill` | `write_blob`, `write_data`, `write_entry`: a slot is programmed, then its mark |
| `room`, `check`, `activate` | `page_with_room`, `activate_page` |
| `start` | `start_page`: erase unless blank, then header |
| `copy`, `copymark`, `reclaim` | `compact` |
| `erasespan`, `sweep` | `erase_span`, and the loops over a blob's chunks in `put_blob` and `remove_in` |
| `scrub` | `scrub` |

A run of reads between two flash operations is one step: reads take no part in a race, as
one caller holds `&mut self`. What was read and is used *after* further writes (the old
index of `put_blob`, the target page, the victim of a compaction) is kept in `l`, so that
staleness is in the model. `index_pages` runs after every header change, so the page order
is a function of the headers. `Crash` forgets the locals and keeps the flash; `Fault` makes
the flash operation that is due return an error, with the flash unchanged and the rollback
of `put_blob` following it.

The reads of `Nvs` are those without a cache. `NvsCache` adds what the code keeps of them:
`nsCache`, the namespace resolved last, and `verified`, the headers whose CRC is not checked
again. Each look-up of the writer also remembers what its scan passed (`Passed`: up to the
answer, and up to the first header that fails), `Read` is a `get` between two calls, and
`Open`, `DropAfterErase` and `Crash` are where things are forgotten: `put_blob` and `remove`
drop both caches before anything else, `compact` after its erase, `scrub` only through
`compact`. That what is remembered stands, and what is cached is what a scan would answer,
is what makes the uncached `Nvs` faithful to the code.

### Boot selection: code and model

`ReadOtadata`, `Rollback`, `ChooseNone`/`ChooseActive`, `TryCandidates` and `Jump` are
`select` and the loop of `main`; `EraseEntry` and `WriteEntry` are the two flash operations
of `write_entry`, shared by all its callers through the continuation in `w`. `FlashFault` is
their error path: the loader prints it and goes on. `Reset` may happen at any instant and
inside a write, where the words written so far stay: sequence, then state, then CRC.

The app is not in this repository. Its steps (`Confirm`, `Download`, `SetBoot`, `Restart`)
are ESP-IDF's, as the comments of `table.rs` describe the format they share, and are marked
external in the map. An app that updates the board is taken to be confirmed itself and to be
the one the active entry names (`Updates`). Without that guard `TrustedEntryKept` fails: an
app that runs only because the loader refused the chosen image would overwrite the entry
that names a confirmed one. An image `good` is one the loader's checks accept; `trusted`
says it confirmed itself.

### Image loading: code and model

An image is its header's facts, its segments (address and length), and which of its bytes,
if any, is not the one its maker hashed and signed. A digest, and the XOR checksum, is the
sequence of pieces of the image that were fed to it: it matches when those pieces are the
whole image, in order, and the damaged byte is in none. `stage` is where one candidate's
turn stands: `BeginCandidate` is `flash::map`, `ReadHeader`, `Segment` and `FinishWalk` are
`image::load`, `Verify` is `secure::verify`, `Start` is `write_initial` and `soc::start`,
`Fatal` the end of the loop of `main`. Each refusal goes to `NextCandidate`, which forgets
the locals and keeps `written` and `mmu`: so what one candidate leaves to the next is in the
model. Sums of offsets are taken modulo `WIDTH`, the range of `usize`. The first candidate
is any that `select` can choose (`FirstChoices`). The RSA mathematics and the cache MMU
calls are the ROM's, and marked external.

`Good` says what an image must be without walking it: where each segment lies follows from the
lengths in front of it, addresses are sets of bytes, the loader's memory is one set whatever
bus names it. `FirstGoodStarts` compares the walk with that.

### Kairos: code and model

The kernel and the port are other crates: `Tops`, `Create` and what `Switch` does with
`current` are external. Which of several top tasks a switch picks is left open. Nothing
preempts a task: a switch happens where one was requested. A request that is pending, with
switching enabled and no mask, is taken before the next step of the task, except in the few
instructions that follow the write that raised or enabled it (points `store` and `lap`).
`CountDone` is the increment of `DONE` outside the mask; `Mask`, `ResumeMain`, `Suspend`,
`Unmask` are the section inside it, one action per kernel call. A `Context` holds whose
frame was saved in it last, so that a frame saved in the wrong place is seen. A worker that
was parked and should run on again only yields, as its loop does. The stack witnesses of the
cell are left out: what they test on a board is `FramesKept`.

### Manifest: code and model

A string is its length and whether its characters are allowed; a line is a key and a value.
`LineLen` is what the cursor writes of a line, piece by piece, `Written` where that leaves it,
and `EncodedLen` the sum that the crate computes elsewhere. The way to the host is external: a text is cut, inside a line
or between two (`CutShort`), comes of a newer device (`FromNewerDevice`), or was written by
another encoder (`FromAnotherEncoder`). The host parses a line a step.

### Frames, PCM, time: code and model

`Frames`: lengths and geometry modulo `USIZE` and `U64`; a buffer is its length and whether
it starts with the JPEG marker. `WrapPacked` and `WrapPlanar` are the constructors of
`Frame` and of `FrameMut`, `Write` is what `packed_mut` lets a writer do, `AsFrame` the
hand-over.

`PcmStream`: `Deliver` is a source that stamps each block with the `end()` of the one before,
as the type is meant to be used.

`WallClock`: device and host time are external and drift by at most `Ppm`; `Send`,
`ReadClock`, `Receive` are an exchange, between any two of which time may pass. The host
keeps the better of two mappings. `ToWall` keeps the signed cast and the saturation.

## 3. Runs

| Run | Question | Bounds | Result |
|---|---|---|---|
| `nvs_set` | callers that put absent keys, remove, scrub; blank partition and one ESP-IDF wrote; no failures: is the writer the map of `KvSeam` (`ImplementsSeam`), with a reserve page (`ReserveKept`), no orphan (`ChunksOwned`), no second entry under a key (`OneEntryEach`), no dead byte after a scrub (`ScrubLeavesOnlyLive`), no two namespaces of one index (`NamespacesApart`), every entry whole and every used slot in one between calls (`TidyBetweenCalls`)? | 3 pages of 4 slots, 2 namespaces of 2 keys, values of 1 and 2 entries, 4 calls | holds |
| `nvs_replace` | callers that replace, with failing puts (value too long, no namespace index left, pages used up): same map, no orphan? | 5 pages of 6 slots, 2 namespaces of which 1 fits, values of 1, 2 and 6 entries, 4 calls; no put has to compact; the steps of a cut and of a failure left out (`UndisturbedSpec`) | holds |
| `nvs_cut` | a power cut and a failed flash operation anywhere, with the read caches and a reader between the calls: are pages ordered (`PageDiscipline`), does every remembered header still stand (`RememberedStands`), is a cached namespace the one a scan would answer (`CachedIsScanned`), does every call return (`CallsReturn`)? | 3 pages of 5 slots, of which 2 are remembered, blank and worn start, 2 namespaces, 2 keys, 2 calls | holds |
| `nvs_stale_index` | is a replaced value "never a mix"? | 5 calls, no failures | violated |
| `nvs_orphan` | is a put that answered Ok what a get reads? | 2 calls, 1 cut | violated |
| `nvs_cut_erase` | does a cut lose only the key of the call it cut? | 3 calls, 1 cut | violated |
| `nvs_cut_compact` | is a removed key gone? | 4 slots a page, 5 calls, 1 cut | violated |
| `nvs_cut_index` | is a new namespace's index free? | 7 slots a page, 3 namespaces, a page full of erased entries, 3 calls, 1 cut | violated |
| `ota_boot` | two OTA slots, with and without a factory app, resets at every instant, one failed flash operation, updates that are good or not, confirmed or not: `OneTry`, `TrustedEntryKept`, `BoardBoots` | 4 resets, 1 fault, 3 updates | holds |
| `kairos` | do kernel and CPU agree on who runs (`ViewsAgree`), is every frame where it belongs (`FramesKept`), is there always a task with a stack (`NeverDeclined`), does main report (`Reports`), and only after both workers are parked (`ParkedBeforeReport`)? | two workers, 50 hand-offs each, as in the cell | holds |
| `parts`, image | does the first good image start (`FirstGoodStarts`), is nothing good given up (`GivesUpLast`), is the loader left alone (`LoaderUntouched`), is the app mapped to what was verified (`MappedRight`), is only an app that runs written to otadata (`VouchedRuns`)? | see below | holds |
| `parts`, manifest | `SameFactsSameBytes`, `SizedExactly`, `RoundTrips`, `AcceptedIsValid`, `CutOnlyDrops`, `NewerIsUnsupported` | 3 capabilities, 3 declarations, fields of 64 and 65 bytes, crate names of 0 and 2 | holds |
| `parts`, frames | is every pixel inside (`PixelsInside`), does every coded view have its marker (`CodedIsMarked`)? | `usize` of 32, `u64` of 1024; sides to 31 | holds |
| `parts`, PCM | do stamps only lag, and how much (`StampsLag`), does a buffer sized by duration fit (`SizedForBlock`)? | 10 "microseconds" a second; rates 1, 3, 7, 10, 12; 3 blocks; the last stamp 60 | holds |
| `parts`, time | is the wall time within its error (`ErrorCovers`), does a late answer make it worse (`NeverWorse`)? | 3 parts of drift in 4, 8 device microseconds, three epochs | holds |
| `manifest_order` | is every text `parse` accepts the one `encode` writes? | as `parts`, manifest | violated |

**Why these bounds.** Four slots and three pages are the least that make every branch
happen: a two-chunk value spans two pages, a page is closed by a chunk that uses its tail,
three calls fill the writable pages and the fourth compacts into the reserve; a fifth slot
leaves room for an entry behind one that a cut left unfinished. The starting
partitions of `MCNvs` bring in what few calls do not reach: entries ESP-IDF wrote, a page
state this code never writes, erased entries in a full page. With one power cut every prefix
of every operation is tried, and the calls left after it meet what it left. In `nvs_cut`
two of the three pages are remembered, as 8 of up to 64 are in the code, and the two calls
create, replace, compact and scrub with reads before, between and after. In `OtaBoot` two
slots give all the relations between two otadata entries (a tie, either one newer, either one
unusable); four resets are enough for an update, its try, its rollback and a cut inside each.

`kairos` runs the cell as it ships: two workers and 50 hand-offs give 42,045 states, so
nothing is scaled down but the stack.

`parts` scales the widths and keeps the relations. The address map has RAM with two names
and the loader inside it; segments lie on either side of every bound of every range, in
pairs, with lengths at which the sums wrap, and every byte of a well made image is damaged in
turn, with and without an appended digest, with either signature policy. A partition's
length runs through each limit a check compares it with. Seven tables (a factory app alone,
OTA slots alone, a gap below a slot, a slot named twice, no app) are tried with every set of
good images. Widths of 5 and 10 bits let every product of a geometry be exact, one too large
for `usize`, or one that wraps. Rates that do not divide a second, divide it, and exceed it
give all the ways a duration rounds. Eight microseconds are two or three exchanges with time
passing at any point of each, and the epochs put the device at boot, ahead of the host, and
at the last values of the signed range. The five parts share no state; one run instead of
five keeps their instances in one place.

**Fairness.** `WF(Writer)`: a call that is open has its caller's thread inside it, and
nothing in `Nvs` waits. `WF(Loader)`: at reset nothing but the loader runs, and it does not
wait either. `WF(Next)` in `KairosCell`: the core executes, whatever task it is on; nothing
is assumed of which task the kernel picks. Nothing is assumed of callers, apps, power or the
flash. `CHECK_DEADLOCK FALSE` is set where the program stops: the callers of `Nvs` after the
last call that is allowed, an app of `OtaBoot` that has nothing more to update, a loader that
started an app or gave up, a text that was read, a frame that was refused. `kairos` checks
deadlock, and so does `nvs_cut`, whose reader goes on.

**Split between `nvs_set`, `nvs_replace` and `nvs_cut`.** The refinement does not hold for
every behaviour of the code; section 4 says where it ends. It is checked where it should
hold: without power cuts, on the callers the module doc has in mind (a key written once) and
on callers that replace values as long as no compaction falls into the replacement. So are
the properties about the contents of pages, which the findings below end. What
must hold through failures (`PageDiscipline`, `CallsReturn`, and what is kept of reads) is checked
with them. The scope of each run is a caller's behaviour or a bound, never a change of the
writer.

## 4. What the runs found

* **A replacement that compacts** (`nvs_stale_index`; nvs.rs:993). `put_blob` finds the old
  index before it writes, and erases that place afterwards. If the write compacts the page
  the index was in, the index has moved: something else, or nothing, is marked, and the old
  index stays in front of the new one while its chunks are erased. The key then reads
  `Corrupt`. No failure is needed.
* **An orphan chunk** (`nvs_orphan`; nvs.rs:451). A put cut between its chunk and its index
  leaves a chunk no index names. The put tried again uses the same chunk version, and
  readers find the orphan first: `put` answered Ok, and `get` does not read its value.
* **A cut while entries are erased** (`nvs_cut_erase`; nvs.rs:897). The header is marked
  before its data entries, so after a cut a scan meets a data entry where a header should be
  and fails, for every key of the partition, and every later call with it.
* **A cut compaction** (`nvs_cut_compact`; nvs.rs:778). Every live entry is in flash twice,
  as the doc says; but nothing resolves that on the next open. A remove erases the first
  copy, answers Ok, and the second is read by the next get.
* **A header copied without its data** (`nvs_cut_index`; nvs.rs:762-776, 442). `compact`
  marks a copied header before the data of its span. After a cut between the two the open
  page has a header that reaches over empty slots; what is appended there no scan visits
  (nvs.rs:397). When that is the entry of a new namespace, `free_namespace_index` gives its
  index away again, and the values of one namespace are read under another.
* **A text in another order is accepted** (`manifest_order`; capability.rs:530). The docs of
  `parse` (370-371, 498-500) and a test (899) say that only the canonical text is accepted,
  so that parsing and encoding reproduce the bytes. The loop over the declarations checks tag,
  honesty and duplicates, and no order: two lines exchanged are accepted, and encode writes
  them back in wire order.

Seen on the way, without a run of their own:

* A flash operation that *fails* between two marks leaves the same holes and orphans as a
  power cut there (with one failure and no cut TLC finds `ChunksOwned` and `PutSticks`
  violated), where nvs.rs:954-955 says that a write that fails erases what it wrote. After a
  cut compaction the reserve is gone, so `ReserveKept` ends with the first cut. The module doc
  (nvs.rs:39-40) describes the order erase-then-write that the code no longer has.
* `select` asks `initial()` only when both entries are `invalid()` (table.rs:202); a first
  entry whose write was cut, with a sequence and a bad CRC, is not, so a fresh board boots
  without one from then on.
* `select` starts a New image even when the write that marks it Pending fails (table.rs:222),
  and it then gets a second try: `OneTry` is stated for boards whose otadata writes succeed.
* When the chosen image does not pass, the fallback loop tries every OTA slot before the
  factory app, one that was rolled back included (main.rs:217). `OneTry` is about what is
  chosen, not about what is fallen back to.
* `ota_count` counts OTA entries while the slots are indexed by subtype (table.rs:94). In a
  table with a gap, a good image in a slot beyond the count is never tried: `GivesUpLast` is
  said of tables without a gap.
* Nothing in `load` or `start` checks that text and rodata use different entries of the MMU,
  or leave the last one free (soc.rs:417): `MappedRight` is said of images linked so
  (`Linked`).
* `byte_len` answers `None` both for a coded format and for a size `usize` cannot hold
  (frame.rs:227): `Frame::packed` then accepts an uncompressed frame by the marker alone.
  `PixelsInside` is said of sizes that can be counted (`Countable`).
* The doc of `Plane` asks for `stride * rows` bytes (frame.rs:148), the check for one row
  less and the last row's own bytes, and `row()` of the last row can answer `None` for a
  plane the check accepts.
* `to_wall` casts a device time beyond the signed range to a negative one and answers a
  clamped time: `ErrorCovers` is said of the signed range.
* The docs of the Kairos cell give main priority 1, below the workers (Kairos main.rs:33-34,
  386); the code gives it 3.

## 5. Proofs

`NvsProofs` proves, for every number of pages and slots, every set of keys and values, every
starting partition that satisfies `ImageOK`, and any number of calls, power cuts and failed
flash operations:

* `InductiveInvariant`: `Spec => []IInv`;
* `TypeCorrect`: `Spec => []TypeOK`, which says that no step reads or writes outside a page,
  an entry or a value;
* `PagesOrdered`: `Spec => []PageDiscipline`, which says that sequence numbers order the data
  pages and at most one of them, the newest, takes entries.

Neither invariant is inductive by itself. `TypeOK` alone would let `EntryMark` be taken with
a page that is not one, and `PageDiscipline` alone would let `StartHeader` make a page active
while another is. `IInv` adds what each point of the writer guarantees (`CallState`): which
locals have been set, that the entry in hand lies in a data page and inside it, that the page
about to be started is free and no page is active then, that the victim of a compaction is a
full page other than its target. The proof has one lemma per action, on top of lemmas about
the operators: `NextSeqs` is above every sequence in use, the look-ups return places that
were visited, `FirstEmpty` names one slot, what `Mark`, `ProgramCell` and `ErasePage` leave
alone. Two assumptions are used, and TLC evaluates both in every run of `MCNvs`:
`FormatAssumption` (at least two pages and two slots; no value of length 0; `None` is no
value) and `ImagesAssumption` (a starting partition is well typed and its pages are ordered).
Before it was proved, `IInv` was checked by TLC on the instances of `nvs_set` and `nvs_cut`.

`NvsTidyProofs` goes on from there to what the writer leaves in the pages, for as long as
no power cut and no failing operation disturbs it (`NothingFailed`):

* `ReserveAlwaysKept`, `ScrubLeavesNothing`: from a partition whose empty slots and free
  pages are blank and which has a free page (`CleanFlash`), `[]ReserveKept` and
  `[]ScrubLeavesOnlyLive`, replacements that compact included;
* `StaysInOrder`, `StayApart`: from a partition in order (`TidyFlash`), and as long as no
  compaction runs while a value to be replaced is in hand (`OldUnmoved`),
  `[]TidyBetweenCalls` (which says of every page that it fills from the front, so that a scan
  stops at no hole) and `[]NamespacesApart`.

The assumptions are where the code stops keeping these promises. `nvs_cut_index`,
`nvs_cut_erase` and the failures of section 4 end them after a cut or a fault. A compaction
under a replacement makes the mark of nvs.rs:993 hit another slot: with the bounds of
`nvs_stale_index` TLC finds `TidyBetweenCalls` false. Callers that put absent keys, remove
and scrub satisfy `OldUnmoved` whatever they do, and so does a replacement that finds room.
A partition this code wrote, a blank one and the ESP-IDF one of the runs satisfy `TidyFlash`.

`CleanInv` says that bytes without a mark are only in the slot that is being written
(`EmptyBlank`), and that a compaction has the reserve until its victim is erased
(`SpareKept`). `TidyInv` has two halves. `FlashInv` is the order of the pages with its
exceptions named: the data that is down before its header, the copy that is not complete,
the record that is half erased. `HandInv` says what the locals know of those exceptions: the
entry in hand is at its page's first empty slot (`EntryInHand`), the record being erased
lies whole in its page (`SpanInHand`), the copy is a prefix of what the victim holds
(`CopyInHand`), the old value is where it was found (`OldInPlace`), the index chosen stands
in no entry (`IndexFresh`). The last rests on `HeadersVisited`: in a page in order a scan
visits every header. A scan is a recursive function; the library's induction theorems take
an operator the provers cannot instantiate, so the module proves induction in the form of a
set of naturals that holds 0 and every successor (`SetInduction`, from the well-foundedness
of `<` on `Nat`), and uses it three times: there is a function that satisfies the recursion
(`WalkExists`), what it returns is written (`VisitedWritten`), and it misses no header
(`HeadersVisited`). Both invariants were checked by TLC, on instances as `nvs_set` and
`nvs_replace`, before they were proved.

### The caches

The last section of `NvsTidyProofs` needs neither assumption. `HeadersStand`,
`CacheSpec => []RememberedStands`, holds through power cuts, failed operations and compactions
under a replacement, from any partition in which every header stands behind used slots only
and no erased page has a slot marked written (`FrontFlash`: what ESP-IDF and this code leave,
and what the starting partitions of the runs satisfy). A header that was checked once could
stop being one in two ways. Its slot is programmed again: so the proof keeps that every
header of a data page, remembered or not, stands behind used slots (`FrontInv`), while an
entry goes to the first empty slot, its data behind that, and a compaction's copies to a page
it has just erased, in which nothing is remembered (`CacheInv`). Or its page is erased: a page
that is started was free, and `compact` forgets everything with its victim's erase.
`FrontInv` holds for `Spec`, without the caches (`FrontAlways`), and
`CacheStepIsStep` carries it, and `IInv`, over to `CacheSpec`. That what a scan remembers has
passed the check rests on `VisitedWritten`. Both invariants were checked by TLC, with the
bounds of `nvs_cut`, `nvs_cut_index` and `nvs_stale_index`, before they were proved.

### The writer is the map of its callers

`NvsStoreProofs` takes the same assumptions to the values themselves. It starts from a store
in order (`InOrder`: the pages are, `TidyFlash`; a key has one entry, `OneEntryEach`; a chunk
one index, `ChunksOwned`), which is what a blank partition and the ESP-IDF one of `nvs_set`
are, and shows:

* `ChunksStayOwned`, `[]ChunksOwned`: nothing a put replaced or gave up, and nothing a remove
  took, is left behind, for every number of chunks, calls, keys and pages;
* `OneEntryStays`, `[]OneEntryEach`: compactions leave no copy, a put never leaves both values;
* `WriterIsTheMap`, `ImplementsSeam`: the writer implements `KvSeam` under the mapping of
  `NvsSeam`, if what the store holds at the start reads (`ReaderSeesAValue`; `InOrder` says
  nothing of the bytes of a value);
* `ReadersSeeValues` and `CallsStick`: what that comes to between calls. No key reads a mix, a
  put that answered Ok is what is read, a removed key is gone.

The difficulty is that the flash holds, inside a call, headers that are not to be counted.
A compaction that is half done has entries twice; the index of a new value stands beside the
old one until that is erased; chunks are written before their index and erased after it. Of
the written headers of the data pages (`Standing`) the proof counts `Live`: not the copies in
the target page, and not an index that waits behind the one it replaces. A chunk of `Live`
belongs to an index of `Live`, or is `Pending`, in the one interval of numbers that the locals
of the call name. `StoreInv` says so (`KeysInv`, `ChunkInv`), and what the call knows
(`CallKnows`): the old value is the only one under its key (`OldKnown`), the chunks written so
far are the value's, one after another (`Built`), the waiting index stands behind the old one
and names other chunks (`Waiting`), what is retired or swept is what the locals say. `CopyMap`
ties a compaction's copies one to one to what they are copies of, so that erasing the victim
moves every entry and loses none (`StoreKept`). `DataInHand` is what is on flash of the chunk
being written.

The code looks nothing of this up: it scans, and takes the first match. `Shadowed` says that
every header that does not count has one before it, in the order of the scan, that does and
that answers the same. The order of the scan is a recursive function, so this, too, is
induction over sets of naturals (`SetInduction`). With it the look-ups answer `Live`
(`NamesFound`, `EntriesFound`, `ChunksFound`), at every instant and not only between calls.

For the refinement, `Reading(n, m, r)` says without any scan what stands under a key: no live
entry, or one whose data is `r`, in one piece as ESP-IDF may have left it or in the chunks
of an index. `MapIsSeen` shows that this is what the look-ups answer, `Get` between calls; the loop of `Get` over the chunks is recursive again, and its
running sum and assembled prefix are followed by induction over the chunk numbers. Then every
step of a call is one of three (`NextHeard`): it is `Silent`, every key reads what it read; it
`Decides`, one key comes to read what the call leaves there; or the call is `Answered`. Two
steps decide: the mark of a first index, and the mark that erases the head of the old value,
for a replacement as for a remove. `Effect` keeps that what was decided stands until the call
returns, so that a call answers Ok exactly if it had an effect. `MapInv` is all of this
together, and each of the three, as the call itself, maps to a step of `KvSeam` or to a stutter (`MapSteps`).

Each assumption is needed, and a run shows what happens without it. After a cut or a failed
flash operation (`NothingFailed`) orphans make a put read as something else (`nvs_orphan`),
the half-erased victim loses other keys (`nvs_cut_erase`), a removed key comes back
(`nvs_cut_compact`). When a compaction moves the value a put is replacing (`OldUnmoved`), a
mix is read (`nvs_stale_index`). `AnswersAssumption`, that a `Corrupt` or mixed answer is not
a value, is TLC's to evaluate in every run. Before they were proved, `StoreInv`, `DataInHand`
and the parts of `MapInv` were checked by TLC on the instances of `nvs_set` and `nvs_replace`,
with `0 .. 12` for `Nat`, and that their starting partitions satisfy `InOrder`.

The other proof modules, each for every value of the constants of its component:

* `OtaProofs`: `OtaTyped`, `Spec => []TypeOK`, and `WayBackKept`,
  `Spec => []TrustedEntryKept`, for any number of slots, updates, resets and failed flash
  operations. This property speaks of two entries in flash; what keeps it is which of the two
  the write in hand is of, and that depends on copies made before. `KeptInv` says, of boards
  without a factory app: `NoFactory`, the loader and the app stay in the slots; `Anchored`,
  while a slot holds a trusted image, one entry names such an image as valid, the loader's
  copy says so too, and whatever is being written is the other entry; `Unvouched`, while no
  slot does, no entry claims otherwise, and the only write is the one of a fresh board.
  `OneTryEach`, `Spec => []OneTry`, needs a second invariant, `TryInv`, about the past of an
  image: an entry that offers a first try is the newest and names an image that was never
  started (`OffersUntried`); one whose confirmed image was since replaced is covered by a
  newer one that names a confirmed image, and is the one rewritten (`StaleCovered`); and the
  loader's copies are what the flash holds or will hold after the write in hand
  (`CopiesTrue`, `WriteMeans`).
* `KairosProofs`: `CellTyped`, `CurrentRuns`, `NoFrameLost`, `AlwaysAStack`, `ReportsLast` for any number
  of hand-offs, from one invariant of seven parts. `BootInv` says what exists at each point of
  the boot; `RunInv` that kernel and CPU agree, and the mask is raised exactly in the
  section of the task that runs; `WorkInv`
  ties a worker's point to the mask, to the request and to whether it is suspended;
  `CountInv` ties `done` to who counted; `MainInv` says where main may stand while a worker
  works. `NeverDeclined` needs all of them: a task that owns a stack is ready because the
  last worker to count itself has resumed main before it suspends itself.
* `ImageProofs`: `LoaderSafe`, `ImageSpec => []LoaderUntouched`, for every address map the
  assumption allows and every image. `LoadInv` says that what was written passed
  `TouchesLoader`; the lemma `AliasCaught` that this catches a byte by both of its addresses.
  `VouchedIsStarted`, `ImageSpec => []VouchedRuns`: otadata is written for the app that
  starts, whatever was refused before it.

  `MapsAreRight`, `ImageSpec => []MappedRight`: which entries of the MMU a segment takes
  (`EntriesSet`), and that through each the app sees its bytes (`MapSeen`), follow from what
  division and remainder are. A mapping that does not reach all entries sets none twice, so
  that the two segments share no entry (`Linked`) is enough.

  `TheFirstGoodStarts`, `ImageSpec => []FirstGoodStarts`, and `GivingUpIsLast`,
  `ImageSpec => []GivesUpLast`, both rest on `ChoiceInv`, of four parts. `TurnInv` says at each
  stage what is already known of the candidate; inside the walk, `Walk`: the offset is where
  the segments so far end, each of them is right, text or rodata is kept exactly if one was
  met, the digest was fed everything up to the offset in order and the checksum exactly the
  data. `RefusedInv` says that every candidate left behind is not good, `OrderInv` that they
  are taken in their order, `ImagesTyped` repeats what images are. A refusal is shown to be
  for a cause at each of its places (`RefusedForCause`, `TailForCause`, `WindowFits`,
  `SignatureExact`), and what is let through to be right (`SegmentTaken`, `TailPasses`). No
  sum wraps unseen because each is checked before the next is made (`GotExact`); the loader's
  refusal by two addresses is neither too weak (`AliasCaught`) nor too strong
  (`RefusalJust`). Where segments end is a recursive function; that it exists, and grows, is
  shown by induction over a set of naturals (`SetInduction`), which needs no operator
  parameter. `EachOnce` shows that the order of candidates names each once.
* `PartProofs`, of frames: `PixelsAreInside` and `CodedViewsMarked`. `FrameInv` keeps the check that
  was passed when a frame was wrapped; the rest is that a product grows with its factors, and
  half of a column with its row.
* `PartProofs`, of streams: `StampsNeverLead`, `BufferFits`. `StampsLag` is not
  inductive: that a stamp is less than a microsecond a block behind needs the sharper
  `LagInv`, at most `rate - 1` of its rounding for each block.
* `PartProofs`, of clocks: `ErrorSound` and `ErrorNeverGrows`. `ClockInv` says that two numbers exist
  which no variable holds: how far the mapping was off when it was measured, within its
  error, and how far the clocks drifted since, within `Ppm`; that drifts over two spans add up
  to one over both; and that while an exchange is under way, the wall time of the device's
  reading lies between its two ends.
* `ManifestProofs`: all six properties of `Manifest`, from one invariant. `SentInv` says that
  what was sent was valid, `ReadInv` that what the host has read are the first lines of the
  text, checked as they were read; `IntactInv`, `CutInv` and `NewerInv` say how each kind of
  damage shows: a text cut short that still ends in a newline holds nothing but lines that
  were sent, a text of a newer device differs in one line, which the host has not passed.
  The order of the wire and the sums are recursive functions. That the first exists, and lists
  the facts, each once and increasing, is shown by induction over the capabilities
  (`OrderRight`); that a sum over the declarations does not depend on their order, by
  induction over the declarations and, within it, over the capabilities (`OrderTotal`). The
  number of lines (`OrderLen`) and the number of bytes (`LenExact`) are both such sums. That
  what was read encodes to the same text is that the order of the wire depends on the facts
  alone (`OrderByFacts`). The invariant was checked by TLC on the instance of
  `manifest_order` before it was proved.

Each uses the assumptions of its module: `OtaAssumption` (a slot), `LapsAssumption`,
`AddressMapAssumption` (how the two names of RAM and the loader lie), `SizesAssumption` (none
that is divided by is zero; a digest and a sector are less than `usize` holds),
`SlotsAssumption`, `BoardsAssumption` (lengths fit `usize`, as the 32-bit words they are read
from do; a table has no more OTA entries than there are slots), `FrameAssumption`,
`StreamAssumption`, `ClockAssumption` (widths and rates are numbers, none that is divided by
is zero), `ManifestAssumption` (lengths are numbers, no tag is empty). All are evaluated by TLC in passing runs.

Only model-checked: liveness under fairness, `CallsReturn`, `BoardBoots` and `Reports`, which
is out of the prover's reach; and `CachedIsScanned`. What `ImplementsSeam` is worth after a failure or a moved value
is not a gap of the proof: the runs that expect a violation show that it is then false.

## 6. Not modelled, and why

* A read of the flash that fails, in `Nvs` and of otadata: `Fault` and `FlashFault` are failed
  writes and erases. A failed read of otadata ends in a reset before anything was written.
* Byte lengths within an entry: a value's length is counted in entries. Keys are model
  values, so their check (`check_key`) is left out.
* Sequence numbers at 2^32, an erase that power cuts short inside the page, a page header
  torn within its 32 bytes.
* `MemKv`, a host double: it is `KvSeam` by construction.
* The errors of `table::read` (`Empty`, `Corrupt`), the MD5 entry of a table, and an otadata
  partition that is too small: they change no state and end in a reset. A table without an
  otadata partition is no error: `select` answers `Factory`, which is among the
  `FirstChoices` of `BootImage`, and the candidates are tried as ever.
* RTC fast and RTC slow memory are one range in the address map of `BootImage`; a mapping call
  of the ROM that answers an error in `start`, which ends in a reset.
* The ROM's RSA and SHA, register sequences of the chip bring-up, straps, watchdogs, the
  console; the stack witnesses of the Kairos cell.
* Characters: a string of a manifest is a length. That a tag is spelled and read back
  the same is left to unit tests.
* `media.rs`, a record; the sample views, the sample iterators and the float conversions of
  `pcm.rs`: that a view is taken only of whole, aligned samples is its condition, and what
  `align_to` does the library's. The 64-bit product of `bytes_for_micros` and its cast to
  `usize` are unbounded in `PcmStream`.
* Errors and re-export crates: names.

## 7. Plan

What a continuation would add, in this order:

1. A page header torn inside, and `open` of what is left; reads that fail.
2. A proof of `CachedIsScanned`: that nothing a caller can do between two reads changes what a
   scan for a namespace answers.
3. An app that updates the board while it runs as a fallback: what it costs, beyond
   `TrustedEntryKept`.
4. Proofs: what a cut leaves. `NothingFailed` could be weakened to cuts at the points where no
   orphan and no half-erased page is left, with `open` and the next calls repairing the rest.
