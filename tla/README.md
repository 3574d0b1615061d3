# Saturn: a verification project

Saturn (C++ modules under `src/src`) is a desktop program that reads the archives of an
Unreal Engine game, patches one package of them so that the default skin shows another one
("swap"), and puts the game's own bytes back ("revert"). This directory holds TLA+ models of
the parts of it that are hard to test, the TLC runs that check them on small instances, and
TLAPS proofs that hold for every value of the constants.

Run `tlc -config X.cfg MC….tla` for a run of the table below, `tlapm …Proofs.tla` for the
proofs. `PROJECT.json` lists components, runs, the mutants that show each property can be
violated by a plausible bug, the source lines behind every definition, findings, hazards and
theorems.

## 1. The system

### Components, their state, their operations

| component | state | operations | modelled in |
|---|---|---|---|
| Swap and revert: `FortniteFunctionLibrary::PatchFortnite`, callers `OnAddItem`, `OnApplyLoadout` | the installed `.utoc`/`.ucas`, `TocBackups`, `UcasBackups`, the mounted readers' TOCs | swap, revert; one click does the one or the other | `SwapRevert` |
| Configuration: `FConfig` | flag, key and recorded versions in memory, `Config.json` | `Load`, `Save` (truncates, then writes) | `SwapRevert` (the flag), `Session` |
| Container reads: `FIoStoreReader::Read`, `StartAsyncRead` | 12 handles per `.ucas` with locks, two buffers per read | `Read`; block tasks on pool threads | `IoStoreRead` |
| Table of contents: `FIoStoreTocResource`, `FIoStoreTocReader`, `FIoDirectoryIndexReader` | the `.utoc`, its resource in memory, the reader's names | `Read`, `Write`, the swap's edits, the walk of the directory index | `IoStoreToc`, `DirectoryIndex`, `AssetTable` |
| Mounting: `FFileProvider::MountAsync`, `ThreadPool` | queue, stop flag, condition variable, workers | submit, run, stop, join | `ThreadPool`, `MountTasks` |
| Virtual file system: `VirtualFileSystem`, `ExtensionPool` | path map, reader list, extension ids | `RegisterParallel`, `RegisterReader`, lookups | `MountVfs`, `MountTasks` |
| Mapped files: `FFileReader` and its registry | one mapping, size and position per reader; the registry | open, `Close`, `Seek`, `Serialize`, `WriteBuffer`, `TrimToSize` | `FileMapping` |
| Start: `OnLoadSaturn`; key: `OnCheckKey` | recorded dependency versions, the downloaded files, key, its owner on the server | downloads, hash, mappings, mounting, key check and binding | `Session` |
| Pages: `OnNextPage`, `OnSearch`, …; `FSkinGenerator` | page number, items to display, cards, dialogs | generate, filter, display, page, click | `Catalog` |
| Unversioned properties: `FUnversionedHeader`, its builder and iterator, `FPropertyIterator` | fragments, zero mask, places in both and in the class | build, save, load, walk | `Unversioned`, `UnversionedFragment` |
| Packages: `FZenPackageReader`; usmap `Mappings` | classes and script objects by name, the exports of one package | register types, create and serialize exports | `ZenPackage` |
| Name map of the written package: `FNameMap`, `SerializeAsByteArray` | none beyond a call | rename, write, read back | `NameMap` |
| A click on Convert: `OnAddItem` | the loadout, the package in the game | look the item up, read its package, write or revert | `Swapper` |
| Paks, asset registry, text, value types, hashes, compression | none beyond a call | parse | see section 7 |
| Plugin scripting, web server | – | not initialised (`main.cpp:13-15` has the calls commented out) | no |

### How they interact

`OnLoadSaturn` loads the configuration, then `MountAsync` has a thread pool mount every
archive: each mount reads a `.utoc`, opens the `.ucas` files it names and registers the
paths in the virtual file system. A click in the page for skins runs `OnAddItem` on the user
interface's thread; `PatchFortnite` looks packages up in the virtual file system, reads them
through `FIoStoreReader::Read`, edits a container's TOC *in the reader's own memory*, writes
blocks through `FFileReader` (the same file is open in 12 handles of the reader) and moves
files about; `FConfig::Save` records the outcome. The only pages a user reaches are key,
home, cosmetics and items (skins only).

### What is hard in it

- *Crashes.* A swap is some twenty file operations with no journal. The process can die
  anywhere, or be closed by `OnRevertAndClose`, which despite its name reverts nothing.
- *Partial failure.* Almost every result of a file operation is dropped or only logged.
- *Sharing.* File handles are shared by all reads; readers of one file unmap each other.
- *Concurrency.* Mounting uses a pool, submitters and per-archive threads over static maps.
- *Aliasing.* `toc` is a reference to the mounted reader's resource; the second container's
  TOC is assigned over it.
- *Arithmetic.* Packed 12-byte block entries whose setters depend on their order, block
  ranges from unsigned words narrowed to `int32_t`, partitions.

What makes each component correct: nothing of the game's own bytes is ever lost, and a flag
that says "swapped" can be undone (swap); a read that succeeds has the right bytes and every
read ends (reads); a rewritten TOC differs in one asset only (TOC); all archives are mounted
when `MountAsync` returns (mounting); what was registered is found (virtual files); a reader
that is mapped knows the file's size (mapped files); exactly the values an object has are
read, each as its own property's (unversioned properties); past the start the files are
those the server lists, and past the key page the key is one's own (session); the cards are
those of the page number (pages); a class is what the mappings declare, whatever was read
before (packages); the game shows the skin that was clicked (all of it together).

## 2. Modules

Definitions keep the source's names; `Wrong:` and other variants just before a definition
are its mutants and are used by no specification.

**SwapRevert** — each action is one file operation. The `.ucas` bytes a swap may touch are
cells; of each only one thing matters, whether it still holds the game's byte. A block is
one to `MaxSize` cells plus one of padding (the 8 bytes written behind every block). Names:
`OpenBackup` … `PadBlock` the block loop (FortniteFunctionLibrary.cpp:380-430), `MakeToc`,
`BackupToc`, `InstallToc` the two containers (434-511), `RestoreToc`, `ListChunks`,
`RestoreChunk`, `DeleteChunk`, `Reverted` the revert (196-290), `SaveOpen` and `SaveWrite`
`FConfig::Save`. `Crash` is possible between any two. Failures are enabled by kind
(`Faults`). `mishaps` is a history variable: the failures the code swallows, and "reswap", a
swap begun over leftovers of an earlier one; properties say which of these they exclude. A
`Save` may fail unnoticed (`SaveFails`); that is a mishap only if it leaves on disk a flag
that memory has cleared. The
two packages lie in different containers (`GameData # DefaultPart`), each of one partition.
The failed chunk read of lines 231-234 cannot happen: the size asked for is the file's own.

**IoStoreRead** — `Read` and its block tasks. The two alternating buffers, the success
flags, `NextHandleIndex` modulo its width, `Lock`/`Seek`/`Serialize`/`Unlock` as separate
steps, `SeekThrows` leaving the lock held, `Reenter` for a pool thread that already holds
the (recursive) critical section. Blocks lie one after the other in the file, so the file's
length is one number, `readable`. A block is corrupt when it decodes to zeros only, which is
how the code recognises a failed decompression (line 538).

**IoStoreToc** (with **DirectoryIndex**, **AssetTable**) — a `.utoc` is a header and the
sequence of the elements of its sections; `Read`, the edits (`Patch`, `Hide`), `Written` and
`Install`/`WriteFails`, and mounting it again are all run on that. One container is
modelled; `role` says whether it is the one that is patched (in place, one partition) or the
one in which an id is hidden (a copy, one or two partitions). `DirectoryIndex` is pure: the
linked index the game writes and the walk that makes paths of it. The widths of the code's
integers are constants (`OffsetLimit`, `SizeLimit`, `WordLimit`, `IntLimit`: 2^40, 2^24, 2^64
and 2^32); in the run they are small but keep the relation of 64-bit byte counts, 65536-byte
blocks and `int32_t` (`WordLimit % (BlockSize * IntLimit) = 0`). Sections in the body, chunks
in the container and new blocks in the `.ucas` all lie one behind the other; where each of
them begins is `Sums` of the lengths before it (**PrefixSums**, which `Unversioned` uses for
the same purpose). `found` and `placed` are history variables. After a second decryption the
index is garbage: no names, or the process ends.

**ThreadPool** — submitters, queue, `notify_one` outside the lock, spurious wake-ups,
`stop`, `notify_all`, `join`; a mount that throws ends the process.
**MountVfs** — what happens between `Begin` and `End` of a mount: chunks of files on their
own threads, the unlocked find/push/insert of `GetOrAdd`, the merge under the mutex,
`RegisterReader`. The local and the global map are functions from a path to its entries, in
the order they were pushed. A find that overlaps an insertion is undefined behaviour; it is any
interleaving of their steps or the end of the process, and sets `raced`.
**MountTasks** — abstract: every archive is mounted once, and `MountAsync` returns after the
last. Both modules implement it.

**FileMapping** — several `FFileReader`s of one file. Each call is one step because every
call runs on the thread that swaps; each operating system call in it may fail, up to
`MaxFaults` times. A new file may be empty, which cannot be mapped: opening it adds a byte.

**Unversioned**, **UnversionedFragment** — the description of which properties an object
has: `FUnversionedHeaderBuilder`, `Save` and `Load`, and `LoadProperties`' walk with
`FUnversionedIterator` and `FPropertyIterator`. The class is its properties' array sizes,
one sequence per super class; the program only reads such data, so the builder stands for
the game's own. `usage` is a history variable: what the builder was told. `Slots` are the
places of the class in the order of the walk, `Sums` (of `PrefixSums`) the running totals of
the fragments' counts, by which a place in the class is found in the header. The widths of
the counts and of the smallest mask (127, 127 and 8 bits) are constants.

**Session** — from the start to the home page. `Load` and `Save` of the whole configuration;
the loop over the server's list, in which a download truncates the file first and is
recorded and saved afterwards whatever came of it; Oodle's hash; the mappings file, which is
taken as it is if there is one; `OnCheckKey` with the two requests that ask for a key's
owner and bind it. The server only raises versions; another machine may bind a free key at
any time; the process may die at any step, and the next start finds what it left. `excused`
is a history variable: the dependencies whose last download failed or whose file somebody
removed.

**Catalog** — the pages behind the key. Every callback is an action; what varies is the
order they come in, and whether one comes before the page's own `onload`, which `early`
records. The asset registry, the catalogue's names and what a filter matches are constants;
the catalogue request may fail, and is made once. What a loop over the registry collects is
a set of places in it; the place of one of them in the list is its `Rank`, and counting
`skipNum` down is a bound on ranks.

**ZenPackage** — `RegisterTypesFromUsmap` as a recursive function, the table after each of
the file's structs (`Declaring`), then `MakePackage` and one step per entry of the export
bundle. A whole file lists a struct once, its super as well, and no struct is its own
ancestor (`SchemaAssumption`). `Lists` is the walk over a class and its supers in the table,
`Declared` the same walk in the file. Objects refer to each other by
index, as the code's pointers do, so that a super class registered twice is two objects. The
values of an export are abstract: they are read right if the walk goes through the property
lists the class was declared with and starts where the export's bytes begin.

**NameMap** — pure: `Renamed` (the placeholders of the program's own package give way to the
clicked skin's parts), `SaveToBuffer`, `LoadNameBatch`, and `SerializeAsByteArray`, which
corrects the summary's eight offsets. Bytes are cells that know whose they are, so that
reading at a wrong offset shows.

**Swapper** — `Session`, `Catalog`, `ZenPackage` and `NameMap` in one program: `Catalog`
extends `Session`, `Swapper` extends all four and adds `OnAddItem`. Each action takes one
step of one component and leaves the others alone, except where the code crosses them:
`MountAsync` registers the classes of the mappings file the start left behind, `LoadPackage`
needs the library it loaded, a swap sets the flag the dialogs ask for, and the end of the
process resets everything that is not on disk. How the game's files get there and back is
`SwapRevert`'s; in `Swapper` a patch writes its package or none, and a revert succeeds.

Composition: `Swapper` as above. `MountVfs` and `ThreadPool` both refine `MountTasks`
(`INSTANCE … WITH`, the abstract specification as a PROPERTY); `IoStoreToc` refines
`AssetTable` ("only the target changes, and restoring the shipped file undoes it") and
extends `DirectoryIndex`.

## 3. Runs

| run | instance | what it shows |
|---|---|---|
| swap_calls | 5 cells, 2 blocks of 1–2 cells, 3 calls, 2 deaths, failures of all eight kinds of `FaultKinds` | `OriginalsKept`: every original is in place or in a backup. `FlagMeansRevertible`: the flag, in memory or on disk, implies the backups suffice. `RevertRestores`, `SwapInstalls`: a completed revert or swap is complete. `BackupGoesHome`: an original TOC leaves its backup only by going home |
| swap_log | 1 failed restore | **violation** of `RevertedMeansPristine` |
| read_safe | 2 threads, 3 blocks (last one corrupt), 2 handles, index width 3, file whole or cut | `HandleExclusive`, `BufferExclusive`, `OkIsRight`, `ErrorHasCause`; `WholeFileReadReturns` |
| read_hang | 2 blocks, empty file, 3 reads each | **violation** of `ReadReturns` |
| toc_rewrite | 4 chunks (an empty one at 0), 6 versions of which 2 are refused, signed or not, 1–2 partitions, 2 trees, 2 writes | `LayoutIsRight`: every chunk is found in its blocks and every block in its partition; `RestIsKept`; `OnlyTargetChanges`, the refinement of `AssetTable` |
| toc_names | version 8, encrypted or not, 1 write | **violation** of `NamesSurvive` |
| pool_mount | 3 archives, 2 workers, one mount that may throw | `Drained`, `PoolPromiseKept` (refinement), `MountReturns` (also: no wake-up is lost) |
| vfs_mount | 2 archives sharing a path, 2 threads each, 2 extensions | `FilesOnce`, `MountedIsFound` (what was registered without a race), `PromiseKept` (refinement) |
| vfs_race | the same | **violation** of `Deduplicated` |
| unversioned | 4 classes of at most 7 slots, runs of at most 3, masks of 1–7 bits in bytes of 1 bit, up to 2 units cut off | `PackLosesNothing`, `LoadedIsBuilt`: the header is read as it was built or not at all; `ReadsWhatIsThere`: exactly the properties that were given are read; `CrashOnlyWithoutOwnProperty` |
| mapping | 3 readers, sizes to 3, 2 failures | `SizesAgree`, `SuccessRemapsAll` |
| swapper | 3 starts, 2 dependencies of 2 versions, 1 key, 7 assets of which 6 skins (one without a name, one named TBD) on pages of 2, 2 filters, 4 schemas, 4 packages: plain, one with an outer export, one without parts, one with an unknown class; one skin without a package | `ReadyMeansCurrent`, `ConfigIsMemory`, `AcceptedIsEntitled` (session); `EverySkinListed`, `ContainerIsCurrent`, `DialogTellsTruth` (pages); `ClassesAreDeclared` (packages); `ConvertDiesOnly`: what a click on Convert can die of; `ConversionShowsClicked`: what the game reads back is the package with the clicked skin's parts; `StartEnds` |

`TypeOK` is checked by swap_calls, read_safe, mapping and swapper (which has `SessionTypeOK`,
`CatalogTypeOK` and `ZenTypeOK` in it), `PoolTypeOK` by pool_mount.

*Constraints.* swap_calls has at most one kind of mishap in a history (`FewMishaps`): a
property excludes the kinds it names, so a second kind only makes it hold more often, and
without the bound the leftovers multiply. swapper walks the pages only where the
dependencies other than Oodle are new and the version request was answered well
(`PagesAlone`), since no page looks at either; the states it cuts off have a page open,
which no stage of `StartEnds` has.

*Why the bounds are enough.* Two blocks make the first and the last block differ and one
follow another's padding; three calls are a swap, its revert and a call over what they left;
two deaths allow one in the swap and one in the repair. Two threads over two handles with an
index of width 3 (2^32 is no multiple of 12 handles either) have two tasks in a row on one
handle. Three readers are a writer and two others, one of them behind the one whose
remapping failed. Two workers and three archives leave one archive queued while both work.
In a TOC, a chunk before and one behind the target, an empty chunk at offset 0 and a full
last block are the boundary cases of the ranges.

Three starts are one that dies, one that repairs and one that finds what both left; two
dependencies are one that was passed and one that was not; pages of two with an unnamed skin
among six have pages that overlap, a page that is not full and an end.

*Deadlock* is checked for `SwapRevert`. The others stop for good reasons: `MountAsync`
returns or the process ends (pool, virtual files), threads have made their last read, the
file has reached its bound, the program has been started often enough, a container is
refused or written often enough. A property walk that has ended stutters (`Stopped`), so any
other stop of it would be a deadlock.

### Findings

- `RevertedMeansPristine` (swap_log): a chunk file is deleted whether or not its bytes were
  written back (FortniteFunctionLibrary.cpp:274-282), after which "Reverted!" is logged.
- `ReadReturns` (read_hang): `Seek` throws between `Lock` and `Unlock`; the next read that
  is given this handle waits for ever.
- `NamesSurvive` (toc_names): the directory index is decrypted in place, written back in
  plain under the Encrypted flag and decrypted again at the next mount.
- `Deduplicated` (vfs_race): two threads give one extension two ids.
- Met while modelling, with no run of its own: `Save` checks neither opening nor writing
  (Config.cpp:86-88). After a revert the flag may stay on disk; a swap that then dies between
  creating a chunk file and filling it is taken for a complete one at the next start, whose
  revert copies the unfilled file over the game's bytes. `FlagMeansRevertible` excludes it as
  the mishap "save", and is violated without that exclusion.
- A `.ucas` that cannot be opened ends the process and not the mount, because the exception
  leaves a pool worker (ThreadPool.ixx:30); `PoolPromiseKept`, `PromiseKept` and
  `MountReturns` allow for it. A class without properties of its own is read through a null
  pointer (PropertyIterator.ixx:10); `CrashOnlyWithoutOwnProperty` says that nothing else
  is. A flush, extension or remapping that fails leaves other readers unmapped although
  their size check passes (FileReader.cpp:65-69, 98, 112-114); `FileMapping` has it as
  `crashed`, and no property excludes it.
- Likewise in `Session`: a download that failed or was cut is recorded as the new version
  and kept for good (OnLoadSaturn.cpp:76-78), which `ReadyMeansCurrent` excludes as
  `excused`; a mappings file whose download was cut is there at the next start and is not
  downloaded again (OnLoadSaturn.cpp:120-123), after which no class is declared:
  `ConvertDiesOnly` excludes it; a first version request that failed is remembered, and an
  outdated program is let in (OnCheckKey.ixx:32-44), which `AcceptedIsEntitled` says in so
  many words.
- In `Catalog`: a callback that comes before the page's `onload` has its cards replaced by
  none (OnDisplayItems.ixx:31, items.html:12); `ContainerIsCurrent` excludes it as `early`.
  In `NameMap`: one function counts a wide character as one byte, another as two
  (NameMap.cpp:109-115, 128-142), so the announced length is too short for such names;
  `ConversionShowsClicked` is about names without any.

## 4. Fairness

- `SwapRevert`: `WF_vars(Swap \/ Revert \/ Save)`. `PatchFortnite` and `Save` run
  synchronously on the calling thread: once entered they go on, unless the process dies.
  Nothing is assumed of the user or of launching. The passing run's properties do not need
  it; it makes the counterexample of swap_log one of a program that goes on.
- `IoStoreRead`: weak fairness per thread and per task. A task waiting for a handle stays
  enabled only while the handle is free; that weak fairness is still enough, and all that
  the operating system's critical section promises, rests on `MaxReads`: there are finitely
  many other tasks, so the handle is in the end free for good.
- `ThreadPool`: weak fairness of `MountAsync`, each submitter and each worker (running
  threads make progress). Not of spurious wake-ups.
- `MountVfs`: weak fairness of each archive's threads and of the return.
- `Swapper`: `WF_vars(OnLoadSaturn)` (and `Session` alone likewise): the start runs in one
  callback on one thread, so it goes on until it returns or the process ends. Nothing is
  assumed of the user, the server or the other machines. `StartEnds` follows because every
  entry of the list is passed once.
- `IoStoreToc`, `FileMapping`, `Unversioned`: no liveness; none is needed.

## 5. Proofs

All theorems hold for every value of the constants under the modules' named assumptions
(`SwapAssumption`, `ReadAssumption`, `PoolAssumption`, `VfsAssumption`, `MappingAssumption`,
`UnversionedAssumption`, `SessionAssumption`, `CatalogAssumption` …), which say little more
than that bounds are naturals and the sets are not degenerate. Three say something of the
game's files: `SchemaAssumption` (a whole mappings file, above), `ZenAssumption` (an export
is created before it is serialized) and `TocAssumption` (the code's integers hold what a
container has in it, `WidthsSuffice`; the shipped blocks and the patched ones end in the
first partition, and the latter are no more than those they replace).

- **NaturalFacts**: what the other modules' inductions rest on. The library's induction
  theorems take the formula as a parameter, which no installed prover can instantiate;
  `LeastMember` (every non-empty set of naturals has a least element, from the
  well-foundedness of <) serves instead: the set of counterexamples, its least one, and the
  one before it. `Recursion` proves in the same way that a function defined by recursion on
  0..n exists and satisfies its equation; the lemmas about `Sums` (`SumsDef`, `SumsAgree`,
  `SumsGrow`, `SumsSegment`) rest on it.
- **SwapRevertProofs**: `TypeCorrect`, `OriginalsAreKept`, `FlagIsRevertible`,
  `RevertIsComplete`, `BackupsGoHome`, `SwapIsComplete`. `OriginalsKept` is not inductive.
  `SwapInv` adds: the flag in memory is not behind the one on disk (`FlagsInv`);
  `TocBackups` holds originals only, and a container without its own TOC has it there
  (`TocsInv`); everything changed lies before the block being written, and what the current
  block will overwrite is in its backup (`CursorInv`); chunk files hold the game's bytes
  except the one just created. It is conditional on no mishap having occurred, and
  `MishapsGrow` carries that through a step. `BackupsGoHome` needs only `HomeInv`: a swap
  that began over a game as shipped finds a TOC in its place until it moves it itself.
  `SwapIsComplete` needs `ProgressInv` as well: how far the block loop and the two TOCs have
  come at each point of the call.
- **IoStoreReadProofs**: `TypeCorrect`, `HandlesAreExclusive`, `BuffersAreExclusive`,
  `ReadIsRight`, `ErrorsHaveCauses`. `ReadInv` is: the lock of a handle names the task
  inside or was abandoned (`LockInv`), only blocks that are not past the end are read
  (`ReachInv`), and per thread `Sound(t)`: which blocks are decoded, which task may be in
  flight and what each buffer holds. The key lemma is that a block and its successor never
  share a buffer (`Alternate`, `TwoBuffers`). That an old success flag cannot be mistaken
  for a new one follows from the blocks' order in the file: the block in between would have
  failed first.
- **MountProofs**, about `ThreadPool`: `PoolTypeCorrect`, `PoolInvariant`, `PoolDrains`,
  `PoolKeepsPromise`. `PoolInv` says where an archive is (with its submitter, in the queue
  once, with one worker, done), and that a worker leaves only after stop with an empty
  queue. `PoolKeepsPromise` is the safety part of the refinement: initial states and steps
  map to `MountTasks` steps or none.
- … about `MountVfs`: `VfsInvariant`, `FilesAreOnce`, `MountedAreFound`, `VfsKeepsPromise`.
  The entries of a path are in bijection with the files of that path that were merged
  (`Registers`: a one-to-one list of archive and place, the entry's index that file's, its
  id, without a race, that file's extension); a thread's local map has the same relation to
  the part of its chunk that is done, and merging joins two such lists. Chunks cover an
  archive's files without overlap (`ChunksCover`: division). Without a race at most one
  thread is between its failed find and its insertion (`Adding`), so ids are unique.
  `VfsKeepsPromise` is the safety part of the refinement of `MountTasks`.
- **IoStoreTocProofs**: `TocInvariant`, `TocLayout`, `TocRest`, `TocImplementsTable`. A file
  is a sequence in which nothing marks where a section ends, so everything rests on
  `ReadBack`: where the counts fit the twelve sections, each is found at the sum of the
  counts before it (`TwelveSections`), and a resource that is written and read is the one
  that was written, the size of the signatures included, which is itself read from the
  body. `TocInv` says that a shipment exists of which every resource in memory and every
  installed file that can be read is a version (`Good`): the shipped table but for the
  target's id, its length and its blocks, the rest of the header as `Write` computes it.
  `LayoutIsRight` and `RestIsKept` alone say too little of the resource being edited, from
  which the next file is written. The block ranges are right
  (`RangeIsRight`) by facts about division, with no wrap of the narrowed index under
  `WidthsSuffice`, for an empty chunk at offset 0 too; the partition counted from the last
  block is the farthest one (`PartitionsUsed`) because shipped blocks lie in order and
  patched ones end in the first partition; the setters' ORs are exact in the one order
  that is used (`EntryStored`). `TocImplementsTable` is the whole refinement of
  `AssetTable`, which has no fairness: what a reader finds of a written file is what the
  edit asked for (`FoundAfter`), a lemma for each action.
- **UnversionedProofs**: `UnversionedInvariant`, `PackingIsLossless`, `LoadIsFaithful`,
  `WalkIsComplete`, `WalkStaysInside`. `IInv` has three parts. `BuilderInv`: the fragments
  describe what the builder was told (`DescribesAt`: the sums of their counts partition the
  properties; each says "skip" or "value" for its part and, if it has zeros, its bits of
  the mask say which), all of it while under construction (`Building`), all but trailing
  skips once finished, with only the last one marked (`Built`); trimming leads from the one
  to the other. `DataInv`: the data is a beginning of the packed header, so
  what loads is all of it or nothing. `WalkInv`: the iterator stands at the r-th value from
  the end of fragment k and at the bit of the mask behind those used; the class's iterator
  at the slot whose place in the class is the sum up to there; what was read is exactly what
  has a value before it. Each lemma about a sum, a slot's place or n steps of an iterator is
  a least counterexample. `PackRoundTrip` (division with remainder, field by field) is the
  base of `PackingIsLossless`.
- **FileMappingProofs**: `TypeCorrect`, `SizesAlwaysAgree`, `SuccessIsComplete`.
  `SizesAgree` needs one more fact to be inductive: nobody has an empty file mapped. That a
  call that says true has mapped everyone again is a step of its own: `Remap` reaches every
  entry of the registry, and the writer's own mapping was there to be written.
- **SwapperProofs**, about `Session`: `SessionIsSafe`. `SessionInv` says of memory and of
  disk alike that a recorded version was listed once and, if it is what is listed now, is
  the one in the file (`RecordsInv`: this is what a death between download and save must not
  break, and holds because the file is spoiled before and recorded after); that the loop has
  recorded what it has passed (`LoopInv`); what Config.json can be at each stage
  (`DiskInv`); and where a key in memory came from (`KeyInv`).
- … about the pages: `SwapperInvariant`, `FilesAreCurrent`, `ConfigIsSaved`, `KeysAreOwned`,
  `CardsAreCurrent`, `DialogIsTrue`. `SwapperInv` is `SessionInv` with `CardsInv` (every
  page up to the number has cards, and the cards or the items to display are those of the
  number) and `DialogInv` (the flag cannot change under an open dialog). It carries the
  session's promises through pages, swaps and reverts, which save the same configuration.
  `SkinsAreListed`: a named skin's rank among the skins puts it behind the assets that page
  t skips and not behind those that page t + 1 does, for some t; the named ones between are
  at most as many as a page holds, because ranks are one-to-one (`RankTells`), so the page
  shows it, and every page before has items.
- … about the classes: `ClassesStayDeclared`. `ZenInv`: the table is well formed, and
  either every struct of the file is in it as declared or no class has properties. The table
  only grows (`Grown`); registering struct k leaves the ones before it as they were, also
  when its super comes later (`StructRegistered`); so after the last struct all are there
  (`DeclarationsAre`). The walk over objects is in step with the walk over the file's names
  (`InStep`); the latter ends within as many steps as there are structs, by the depth that
  `SchemaAssumption` gives (`AncestryEnds`), and there are as many objects (`ObjectsSuffice`).
- … about a click: `ClickInvariant`, `TypesStay`, `ClicksSurvive`. `ConvertDiesOnly` is about
  one step and needs to know what the start and every earlier package did to the table:
  nothing stands in it as an object that a package does not refer to as one, and once the
  archives are mounted a whole mappings file is in it (`TableInv`). Of the package being
  read: what is left of the bundle is its end (`BundleInv`), an export that was created has
  its class (`MadeInv`), and if the package is well formed the entries so far were read
  right, the reader stands at the next one's bytes and the definition is the first export
  (`ReadInv`). `ClassIsDeclared` joins them with `WalkIsDeclared`. The item clicked is a skin
  of the registry as long as a dialog is open (`PageInv`), which also gives `TypesStay` the
  types of the pages; that the page number never passes the registry's length is `PagesEnd`.

Only model-checked: all liveness (`WholeFileReadReturns`, `MountReturns`, `StartEnds`, the
fairness of `PoolPromiseKept` and `PromiseKept`; liveness under fairness is outside the
prover's reach); `ConversionShowsClicked`, whose renaming and concatenations are folds
(`FoldLeft` takes an operator, and what it computes cannot be unfolded by the provers).
`RevertedMeansPristine`, `ReadReturns`, `NamesSurvive` and `Deduplicated` do not hold. In
particular nothing is proved of the names and paths a reader takes from the directory index.

## 6. Assumptions a reader should know

- The game's files are as the game ships them when Saturn first starts: uncorrupted TOCs,
  chunks that start at a block of their own, one packed block behind the other.
- The patched package has no more blocks than the one it replaces, and they and their padding
  end in the first partition (`TocAssumption`). Nothing in the code checks either; see the
  hazards at FortniteFunctionLibrary.cpp:396-397.
- Files are looked up only after `MountAsync` has returned, so lookups do not race with
  registration.
- `Config.json` cut by a crash is deleted by `Load` and counts as absent (release build, in
  which rapidjson's assertion is compiled out).
- The server's versions only go forward, a bound key stays bound, and the names in the asset
  registry are not empty.
- The game writes an export's bytes in the order of its bundle's entries and creates an
  export before it serializes it (`ZenAssumption`); a mappings file is compressed, so that a
  cut one registers nothing; the package that is taken for the lobby's is in a mounted
  container.
- An open dialog covers the page: nothing behind it can be clicked (`Clickable`).
- A catalogue request that failed gives an empty list (release build, see above).
- Renames are atomic; a failed write has copied all of its bytes or none of them.
- In `Session` and `Swapper` a `Save` that runs to its end has written the file: `Save` does
  not look (Config.cpp:86-88), and of their properties only `ConfigIsMemory` depends on it.
  `SwapRevert` has the failing `Save`.
- The container that is patched holds its chunks in plain. `PatchFortnite` writes new blocks
  without encrypting them and keeps the container's flags, so in an encrypted one they would
  be decrypted when read. toc_rewrite runs with the flag clear; the theorems about the table
  hold for both values, but say where blocks are and not what is in them.

## 7. Not modelled, and why

Inside modelled components: `ReadAsync`, `ReadCompressed`, `EnumerateCompressedBlocks`,
`Mount`, `Unmount`, `Register*` other than the two above, `VerifyWrite`: called by nothing.
Read options other than `ReadAll`, `HashChunkIdWithSeed`: never used. In `IoStoreToc`, what
no file of the game leads to: an explicit method "None" (IoStoreTocResource.cpp:228-236), a
container without entries or with a partition size of 0 (256-259, 266-269). The metas of
versions before 8 are converted as they are read (181-199); here they are as the first
reading has them. In `NameMap`, a view begins where the header does: the alignment before
the bulk data and the view's end (ZenPackageHeader.cpp:37, 48-55) are left out.
`WriteEmote`, `WriteFOV`: an image or a setting written for the game, with no state another
component reads. Decryption and compression are external functions.

In the session, the pages and the packages: the three generators other than skins (the same
algorithm with another class name, and no page links to them), the loadout and FOV pages
(linked from nowhere), bulk data, `LoadTargetOnly`, the hashes of a name map, the
directories the start makes, path normalisation, `OnLaunchClick` and `OnOpenKey` (they start
a program or a browser).

Whole components: plugin scripting and the web server (not initialised, pages linked from
nowhere), Discord, logging, the window, vendored libraries (nine tenths of the source lines
under `src/lib` and `src/externals`); the asset registry (one pass over a file whose result
is `Catalog`'s constant `Registry`); pak entries (only the asset registry is read from one);
localised text (the patched package holds none); value types.

## 8. Plan

Done in this order, most important first: the swap (`SwapRevert`) and its proofs; the reads
it relies on (`IoStoreRead`) and their proofs; mounting (`MountTasks`, `ThreadPool`,
`MountVfs`); mapped files (`FileMapping`); the table of contents (`AssetTable`,
`DirectoryIndex`, `IoStoreToc`); property headers (`UnversionedFragment`, `Unversioned`);
the program around them (`Session`, `Catalog`, `ZenPackage`, `NameMap`, `Swapper`) and its
proofs; the table of contents as theorems, after its bit fields and sections were stated
without recursive operators (`PrefixSums`, `IoStoreTocProofs`).

Left, in order:

1. An abstract `Game` (shipped, mixed, converted) that both `SwapRevert` and the `written`
   package of `Swapper` implement.
2. `NameMap` without folds, and `ConversionShowsClicked` as a theorem; the walk of the
   directory index as a theorem; the partitions of the patched container.
3. Lookups as pure functions (paths, ids), pak entries.
