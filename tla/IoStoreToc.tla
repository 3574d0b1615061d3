----------------------------- MODULE IoStoreToc -----------------------------
(***************************************************************************)
(* A container's table of contents: FIoStoreTocResource read from a .utoc, *)
(* edited by PatchFortnite, written again and read again, and the ranges   *)
(* of blocks, names and paths the reader takes from it.                    *)
(*                                                                         *)
(* The body of a file is the sequence of the elements of its sections; the *)
(* counts in the header say where a section starts.  Entries are numbered  *)
(* from 1, compression blocks and methods from 0 as in the code.           *)
(***************************************************************************)
EXTENDS DirectoryIndex, PrefixSums

CONSTANTS
  BlockSize,     \* CompressionBlockSize
  PartitionSize, \* of a container that knows partitions
  Lengths,       \* by entry: uncompressed length of the chunk as shipped
  PackedSize,    \* compressed size of every shipped block
  Padding,       \* what is written behind a block (8 bytes)
  Target,        \* the entry a conversion patches or hides
  PatchedLengths, PackedSizes,  \* of a patched package and its blocks
  Versions,      \* of shipped files
  SeedCounts,    \* how many seeds, and chunks without one, a file may have
  SignatureSize, \* of either signature of a signed file
  Encryption,    \* the values of their Encrypted flag
  Trees,         \* the directories behind their directory index
  OffsetLimit, SizeLimit, WordLimit, IntLimit,  \* 2^40, 2^24, 2^64, 2^32 in the code
  MaxWrites      \* bound: calls of FIoStoreTocResource::Write

Entries == DOMAIN Lengths
BlocksFor(n) == (n + BlockSize - 1) \div BlockSize

\* Chunks start at a block of their own, one behind the other.
BlockCounts == [e \in Entries |-> BlocksFor(Lengths[e])]
BlocksBefore(e) == Sums(BlockCounts)[e - 1]
NumBlocks == Sums(BlockCounts)[Len(Lengths)]

\* Where new blocks of these sizes go, by the offset of the first.
Position(start, sizes, i) ==
  start + Sums([k \in DOMAIN sizes |-> sizes[k] + Padding])[i - 1]

\* Each of the code's integers holds what the game's containers have in it.
WidthsSuffice ==
  /\ {OffsetLimit, SizeLimit, WordLimit, IntLimit} \subseteq Nat \ {0}
  /\ BlockSize < SizeLimit /\ PackedSizes \cup {PackedSize} \subseteq 1 .. SizeLimit - 1
  /\ 2 * PartitionSize <= OffsetLimit /\ OffsetLimit < WordLimit
  /\ IntLimit % 2 = 0 /\ 2 * NumBlocks < IntLimit
  /\ WordLimit % (BlockSize * IntLimit) = 0

ASSUME TocAssumption ==
  /\ BlockSize \in Nat \ {0} /\ PartitionSize \in Nat \ {0} /\ Padding \in Nat
  /\ Lengths \in Seq(Nat) /\ Target \in Entries /\ Lengths[Target] > 0
  /\ Versions \subseteq Nat /\ SeedCounts \subseteq Nat /\ SignatureSize \in Nat
  /\ Encryption \subseteq BOOLEAN
  /\ WidthsSuffice
  \* A patched package has no more blocks than the one it replaces, and they
  \* end, as the shipped ones do, in the first partition.
  /\ PatchedLengths \subseteq Nat \ {0}
  /\ \A n \in PatchedLengths : BlocksFor(n) <= BlockCounts[Target]
  /\ NumBlocks * PackedSize <= PartitionSize
  /\ \A n \in PatchedLengths : \A sizes \in [1 .. BlocksFor(n) -> PackedSizes] :
       Position(BlocksBefore(Target) * PackedSize, sizes, Len(sizes) + 1) <= PartitionSize
  /\ \A t \in Trees : DOMAIN t.dir \subseteq Entries

VARIABLES
  role,            \* what the swap does to this container: "patch" or "hide"
  shipped,         \* the .utoc the game came with, its tree and its assets
  utoc,            \* the .utoc in the installation
  pc,              \* "down", "refused", "mounted", "edited" or "aliased"
  Toc,             \* the mounted reader's FIoStoreTocResource
  edited,          \* the resource PatchFortnite edits and writes
  IndexToFileName, \* the mounted reader's names
  found,           \* history: the assets of utoc
  placed,          \* history: where the target's new blocks are in the .ucas
  writes           \* counter for the bound

vars == <<role, shipped, utoc, pc, Toc, edited, IndexToFileName, found, placed, writes>>

-----------------------------------------------------------------------------
(***************************************************************************)
(* One compressed block entry: two words, 40 bits of offset below 24 of    *)
(* compressed size, 24 of uncompressed size below 8 of method index.       *)
(* SetOffset and SetUncompressedSize store their word whole, the other two *)
(* OR into it: the setters depend on their order and on a fresh entry.     *)
(***************************************************************************)
ZeroEntry == [offset |-> 0, csize |-> 0, usize |-> 0, method |-> 0]

Bit(n, k) == (n \div 2^k) % 2

\* |=
BitOr(m, n) ==
  IF m = 0 THEN n
  ELSE CHOOSE x \in 0 .. m + n :
         \A k \in 0 .. m + n : Bit(x, k) = 1 <=> 1 \in {Bit(m, k), Bit(n, k)}

SetOffset(e, n) ==
  [offset |-> n % OffsetLimit, csize |-> 0, usize |-> e.usize, method |-> e.method]
SetCompressedSize(e, n) == [e EXCEPT !.csize = BitOr(@, n) % SizeLimit]
SetUncompressedSize(e, n) ==
  [offset |-> e.offset, csize |-> e.csize, usize |-> n % SizeLimit, method |-> 0]
SetCompressionMethodIndex(e, n) == [e EXCEPT !.method = BitOr(@, n)]

PatchedEntryMethodFirst(offset, csize, usize) ==
  SetUncompressedSize(SetCompressionMethodIndex(
    SetCompressedSize(SetOffset(ZeroEntry, offset), csize), 1), usize)

PatchedEntry(offset, csize, usize) ==
  SetCompressionMethodIndex(SetUncompressedSize(
    SetCompressedSize(SetOffset(ZeroEntry, offset), csize), usize), 1)

-----------------------------------------------------------------------------
(***************************************************************************)
(* Reading a file.                                                         *)
(***************************************************************************)
Outdated == 1       \* EIoStoreTocVersion::Initial
HasPartitions == 3  \* ::PartitionSize
PerfectHash == 4
PerfectHashWithOverflow == 5
Latest == 8

Unlimited == WordLimit - 1  \* UINT64_MAX

Readable(file) == file.header.version \in Outdated + 1 .. Latest

(* The counts of the sections, in their order in the file.  The size of    *)
(* the two signatures is itself in the body.                               *)
Counts(file) ==
  LET h == file.header
      seeds == IF h.version >= PerfectHash THEN h.seeds ELSE 0
      overflow == IF h.version >= PerfectHashWithOverflow THEN h.overflow ELSE 0
      front == h.entries + h.entries + seeds + overflow + h.blocks + h.methods
      HashSize == file.body[front + 1].HashSize
  IN <<h.entries, h.entries, seeds, overflow, h.blocks, h.methods,
       IF h.signed THEN 1 ELSE 0, IF h.signed THEN HashSize ELSE 0,
       IF h.signed THEN HashSize ELSE 0, IF h.signed THEN h.blocks ELSE 0,
       h.index, h.entries>>

\* The k-th section of a body.
Section(body, counts, k) ==
  SubSeq(body, Sums(counts)[k - 1] + 1, Sums(counts)[k - 1] + counts[k])

\* Files that know no partitions have one.
ReadHeader(h) ==
  IF h.version < HasPartitions
  THEN [[h EXCEPT !.partitions = 1] EXCEPT !.partitionSize = Unlimited]
  ELSE h

(* FIoStoreTocResource::Read with ReadAll: the resource of a file whose    *)
(* header passed the checks.  Method 0 is the empty name.                  *)
Read(file) ==
  LET h == file.header
      counts == Counts(file)
      The(k) == Section(file.body, counts, k)
  IN [header |-> ReadHeader(h), ids |-> The(1), offsets |-> The(2), seeds |-> The(3),
      overflow |-> The(4), blocks |-> The(5),
      methods |-> <<"">> \o [i \in 1 .. h.methods |-> The(6)[i].name],
      tocSignature |-> The(8), blockSignature |-> The(9), chunkSignatures |-> The(10),
      directory |-> IF h.indexed THEN The(11) ELSE <<>>, metas |-> The(12)]

(***************************************************************************)
(* Writing one.  The resource is changed before the file is: the empty     *)
(* method name is erased from it and its header is made anew.              *)
(***************************************************************************)
NamedAll(methods) == methods

Named(methods) ==
  LET kept[n \in 0 .. Len(methods)] ==
        IF n = 0 THEN <<>>
        ELSE IF methods[n] = "" THEN kept[n - 1] ELSE Append(kept[n - 1], methods[n])
  IN kept[Len(methods)]

\* Of the last block entry only.
LastBlockEnd(blocks) ==
  LET last == blocks[Len(blocks)] IN last.offset + last.csize - 1

PartitionCount(blocks, size) == LastBlockEnd(blocks) \div size + 1

NewHeader(t) ==
  LET h == t.header
      empty == t.ids = <<>>
  IN [version |-> Latest, entries |-> Len(t.ids), seeds |-> Len(t.seeds),
      overflow |-> Len(t.overflow), blocks |-> Len(t.blocks),
      methods |-> Len(t.methods), index |-> Len(t.directory),
      partitions |-> IF empty THEN 0 ELSE PartitionCount(t.blocks, h.partitionSize),
      partitionSize |-> IF empty THEN Unlimited ELSE h.partitionSize,
      signed |-> h.signed, encrypted |-> h.encrypted, indexed |-> h.indexed]

Rebuilt(t) ==
  LET named == [t EXCEPT !.methods = Named(@)]
  IN [named EXCEPT !.header = NewHeader(named)]

\* A method's name is padded to CompressionMethodNameLen.
NameEntries(methods) == [i \in DOMAIN methods |-> [name |-> methods[i]]]

\* The sections of a resource, one behind the other.
Sections(t) ==
  LET Signed(section) == IF t.header.signed THEN section ELSE <<>>
  IN t.ids \o t.offsets \o t.seeds \o t.overflow \o t.blocks \o NameEntries(t.methods)
       \o Signed(<<[HashSize |-> Len(t.tocSignature)]>>) \o Signed(t.tocSignature)
       \o Signed(t.blockSignature) \o Signed(t.chunkSignatures)
       \o (IF t.header.indexed THEN t.directory ELSE <<>>) \o t.metas

FileOf(t) == [header |-> t.header, body |-> Sections(t)]

Consistent(t) == Len(t.ids) = Len(t.offsets) /\ Len(t.ids) = Len(t.metas)

-----------------------------------------------------------------------------
(***************************************************************************)
(* The blocks of a chunk, in the code's arithmetic: unsigned words,        *)
(* indexes narrowed to a signed integer.  An empty chunk at offset 0       *)
(* wraps to -1, one before its first block.                                *)
(***************************************************************************)
Int32(n) == LET m == n % IntLimit IN IF m < IntLimit \div 2 THEN m ELSE m - IntLimit

Align(n) == ((n + BlockSize - 1) \div BlockSize) * BlockSize

FirstBlockIndex(at) == Int32(at.offset \div BlockSize)

AlignDown(n) == (n \div BlockSize) * BlockSize

LastBlockIndexAlignedDown(at) ==
  Int32(((AlignDown(at.offset + at.length) - 1) % WordLimit) \div BlockSize)

LastBlockIndex(at) ==
  Int32(((Align(at.offset + at.length) - 1) % WordLimit) \div BlockSize)

BlockRange(at) == FirstBlockIndex(at) .. LastBlockIndex(at)

GetBlockCompressionMethod(t, b) == t.methods[b.method + 1]

\* Where the reader looks for block i of a resource, and what it makes of it.
Located(t, i) ==
  LET b == t.blocks[i + 1]
  IN [partition |-> b.offset \div t.header.partitionSize,
      position |-> b.offset % t.header.partitionSize,
      csize |-> b.csize, usize |-> b.usize,
      method |-> GetBlockCompressionMethod(t, b)]

\* What reading a chunk finds: its blocks, in their order.
BlocksAt(t, at) ==
  [i \in 1 .. LastBlockIndex(at) - FirstBlockIndex(at) + 1 |->
     Located(t, FirstBlockIndex(at) + i - 1)]

\* What reading a file finds, by chunk that has its id there.
Assets(file) ==
  LET t == Read(file)
      Entry(c) == CHOOSE e \in DOMAIN t.ids : t.ids[e].chunk = c
  IN IF Readable(file)
     THEN [c \in {id.chunk : id \in {id \in ToSet(t.ids) : ~id.hidden}} |->
             BlocksAt(t, t.offsets[Entry(c)])]
     ELSE [c \in {} |-> <<>>]

-----------------------------------------------------------------------------
(***************************************************************************)
(* The containers the game ships: the one that holds DefaultGameData-      *)
(* Cosmetics lies in one partition, the other one may be cut in two.       *)
(***************************************************************************)
Shipments ==
  {s \in [version : Versions, parts : 1 .. 2, seeds : SeedCounts, overflow : SeedCounts,
          signed : BOOLEAN, encrypted : Encryption, indexed : BOOLEAN] :
     /\ s.parts = 2 => s.version >= HasPartitions /\ NumBlocks > 1
     /\ s.seeds # 0 => s.version >= PerfectHash
     /\ s.overflow # 0 => s.version >= PerfectHashWithOverflow}

ShippedOffset(e) == BlockSize * BlocksBefore(e)

\* One packed block follows the other.
ShippedBlock(b, cut) ==
  [offset |-> IF b < cut THEN b * PackedSize ELSE PartitionSize + (b - cut) * PackedSize,
   csize |-> PackedSize, usize |-> BlockSize, method |-> (b % 2) + 1]

\* A container in two partitions is cut at the middle of its blocks.
Cut(parts) == IF parts = 1 THEN NumBlocks ELSE NumBlocks \div 2

\* The table of one of them.
ShippedToc(s) ==
  [header |->
     [version |-> s.version, entries |-> Len(Lengths), seeds |-> s.seeds,
      overflow |-> s.overflow, blocks |-> NumBlocks, methods |-> 2,
      index |-> IF s.indexed THEN 1 ELSE 0,
      partitions |-> IF s.version < HasPartitions THEN 0 ELSE s.parts,
      partitionSize |-> IF s.version < HasPartitions THEN 0 ELSE PartitionSize,
      signed |-> s.signed, encrypted |-> s.encrypted, indexed |-> s.indexed],
   ids |-> [e \in Entries |-> [chunk |-> e, hidden |-> FALSE]],
   offsets |-> [e \in Entries |-> [offset |-> ShippedOffset(e), length |-> Lengths[e]]],
   seeds |-> [k \in 1 .. s.seeds |-> [seed |-> k]],
   overflow |-> [k \in 1 .. s.overflow |-> [imperfect |-> k]],
   blocks |-> [k \in 1 .. NumBlocks |-> ShippedBlock(k - 1, Cut(s.parts))],
   methods |-> <<"Oodle", "Zlib">>,
   tocSignature |-> [k \in 1 .. (IF s.signed THEN SignatureSize ELSE 0) |-> [tocSignature |-> k]],
   blockSignature |-> [k \in 1 .. (IF s.signed THEN SignatureSize ELSE 0) |-> [blockSignature |-> k]],
   chunkSignatures |-> [k \in 1 .. (IF s.signed THEN NumBlocks ELSE 0) |-> [blockHash |-> k]],
   directory |-> IF s.indexed THEN <<[layer |-> IF s.encrypted THEN "encrypted" ELSE "plain"]>>
                 ELSE <<>>,
   metas |-> [e \in Entries |-> [meta |-> e]]]

NoToc == [header |-> [version |-> 0]]

Init ==
  /\ role \in {"patch", "hide"}
  /\ \E s \in Shipments, tree \in Trees :
       /\ s.parts = 2 => role = "hide"
       /\ LET file == FileOf(ShippedToc(s))
          IN shipped = [file |-> file, tree |-> tree, found |-> Assets(file)]
  /\ utoc = shipped.file /\ found = shipped.found
  /\ pc = "down" /\ Toc = NoToc /\ edited = NoToc
  /\ IndexToFileName = <<>> /\ placed = <<>> /\ writes = 0

-----------------------------------------------------------------------------
(***************************************************************************)
(* Mounting: FIoStoreTocReader::Read.  The directory index is decrypted in *)
(* the resource itself; what was plain before becomes garbage, from which  *)
(* the parser takes no usable name or a length that ends the process.      *)
(***************************************************************************)
Decrypt(item) == [layer |-> IF item.layer = "encrypted" THEN "plain" ELSE "garbage"]

Decrypted(t) ==
  IF t.header.encrypted
  THEN [t EXCEPT !.directory = [i \in DOMAIN @ |-> Decrypt(@[i])]]
  ELSE t

Refuse ==
  /\ pc = "down"
  /\ utoc.header.encrypted \/ ~Readable(utoc)  \* no key was submitted, or CorruptToc
  /\ pc' = "refused"
  /\ UNCHANGED <<role, shipped, utoc, found, Toc, edited, IndexToFileName, placed, writes>>

Mount ==
  /\ pc = "down"
  /\ Readable(utoc)
  /\ LET t == Decrypted(Read(utoc))
     IN /\ Toc' = t
        /\ IndexToFileName' =
             IF t.directory = <<[layer |-> "plain"]>>
             THEN FileNames(Linked(shipped.tree)) ELSE <<>>
  /\ pc' = "mounted"
  /\ UNCHANGED <<role, shipped, utoc, found, edited, placed, writes>>

(* The process ends: closed, killed, or by an exception while mounting.    *)
Exit ==
  /\ pc # "down"
  /\ pc' = "down"
  /\ Toc' = NoToc /\ edited' = NoToc /\ IndexToFileName' = <<>>
  /\ UNCHANGED <<role, shipped, utoc, found, placed, writes>>

(***************************************************************************)
(* PatchFortnite edits a resource.  For the container it patches that is   *)
(* the reader's own, by reference; of the other one it edits a copy.       *)
(***************************************************************************)
Edit(t) ==
  /\ pc' = "edited"
  /\ edited' = t
  /\ Toc' = IF role = "patch" THEN t ELSE Toc
  /\ UNCHANGED <<role, shipped, utoc, found, IndexToFileName, writes>>

(* GetContainerFilePaths: the name of any partition but the first is built *)
(* by pointer arithmetic and is no partition's.                            *)
OpenedPartition(p) == IF p = 0 THEN 0 ELSE -p

\* New block i of a package of that length.
Unpacked(length, i) ==
  IF i < BlocksFor(length) THEN BlockSize ELSE length - (i - 1) * BlockSize

\* Where a package's first block is, and from there its new blocks.
TargetBlock(t) == t.blocks[FirstBlockIndex(t.offsets[Target]) + 1].offset

NewPosition(t, sizes, i) == Position(TargetBlock(t) % t.header.partitionSize, sizes, i)

Placement(t, length, sizes) ==
  [i \in DOMAIN sizes |->
     [partition |-> OpenedPartition(TargetBlock(t) \div t.header.partitionSize),
      position |-> NewPosition(t, sizes, i), csize |-> sizes[i],
      usize |-> Unpacked(length, i), method |-> "Oodle"]]

\* The table that leads to them.
PatchedToc(t, length, sizes) ==
  LET first == FirstBlockIndex(t.offsets[Target])
      before == (t.header.partitions - 1) * t.header.partitionSize
      patched == [t EXCEPT !.blocks = [k \in DOMAIN @ |->
                    IF k - first \in DOMAIN sizes
                    THEN PatchedEntry(NewPosition(t, sizes, k - first) + before,
                                      sizes[k - first], Unpacked(length, k - first))
                    ELSE @[k]]]
  IN [patched EXCEPT !.offsets =
        [@ EXCEPT ![Target] = [offset |-> t.offsets[Target].offset, length |-> length]]]

Patch ==
  /\ pc = "mounted" /\ role = "patch"
  /\ writes < MaxWrites
  /\ \E length \in PatchedLengths :
     \E sizes \in [1 .. BlocksFor(length) -> PackedSizes] :
       /\ placed' = Placement(Toc, length, sizes)
       /\ Edit(PatchedToc(Toc, length, sizes))

\* CreateIoChunkId(0, ...): nobody asks for that id.
HiddenToc(t) ==
  [t EXCEPT !.ids =
     [@ EXCEPT ![Target] = [chunk |-> t.ids[Target].chunk, hidden |-> TRUE]]]

Hide ==
  /\ pc = "mounted" /\ role = "hide"
  /\ writes < MaxWrites
  /\ Edit(HiddenToc(Toc))
  /\ UNCHANGED placed

Written ==
  /\ pc = "edited"
  /\ edited' = Rebuilt(edited)
  /\ Toc' = IF role = "patch" THEN edited' ELSE Toc
  /\ writes' = writes + 1
  /\ UNCHANGED <<role, shipped, IndexToFileName, placed>>

(* Written to <container>.utoc.tamely and renamed.  After the patch the    *)
(* reader's resource is overwritten with the other container's, unless a   *)
(* lookup of that one fails first.                                         *)
Install ==
  /\ Written
  /\ Consistent(edited)
  /\ utoc' = FileOf(edited')
  /\ found' = Assets(utoc')
  /\ pc' \in IF role = "patch" THEN {"mounted", "aliased"} ELSE {"mounted"}

\* A section cannot be written; the installed file stays.
WriteFails ==
  /\ Written
  /\ pc' = "mounted"
  /\ UNCHANGED <<utoc, found>>

Revert ==
  /\ pc \in {"mounted", "aliased"}
  /\ utoc # shipped.file
  /\ utoc' = shipped.file /\ found' = shipped.found
  /\ UNCHANGED <<role, shipped, pc, Toc, edited, IndexToFileName, placed, writes>>

Next ==
  \/ Refuse \/ Mount \/ Exit
  \/ Patch \/ Hide \/ Install \/ WriteFails \/ Revert

Spec == Init /\ [][Next]_vars

-----------------------------------------------------------------------------
(* Properties.                                                             *)

Table == INSTANCE AssetTable WITH assets <- found, original <- shipped.found

(* Rewriting a .utoc (FIoStoreTocResource::Write after PatchFortnite's     *)
(* edits) changes one chunk for its readers and nothing else, and the new  *)
(* entries lead to the blocks where they were put: it implements           *)
(* AssetTable.                                                             *)
OnlyTargetChanges == Table!ASpec

(* The range of blocks computed for a chunk (FIoStoreReader::Read,         *)
(* ReadCompressed, GetTocChunkInfo) is the set of the blocks its bytes are *)
(* in: none for an empty chunk, also where the arithmetic wraps.           *)
RangesAreRight ==
  Toc # NoToc => \A e \in DOMAIN Toc.offsets :
    LET at == Toc.offsets[e]
    IN BlockRange(at) = {x \div BlockSize : x \in at.offset .. at.offset + at.length - 1}

(* The installed header counts the partitions its blocks lie in, those and *)
(* no more: a reader opens, and creates, a file for each.                  *)
PartitionsAreRight ==
  Readable(utoc) => LET t == Read(utoc) IN
    {b.offset \div t.header.partitionSize : b \in ToSet(t.blocks)}
      = 0 .. t.header.partitions - 1

(* What a reader computes from a table - the blocks of a chunk, the files  *)
(* of the container - is where the bytes are.                              *)
LayoutIsRight == RangesAreRight /\ PartitionsAreRight

(* What the program does not understand or edit - hash seeds, signatures,   *)
(* meta data, method names - is in a rewritten file what it was, section   *)
(* by section, whatever version the file had.                              *)
RestIsKept ==
  Readable(utoc) =>
    LET Rest(t) == <<t.seeds, t.overflow, t.methods, t.tocSignature, t.blockSignature,
                     t.chunkSignatures, t.metas>>
    IN Rest(Read(utoc)) = Rest(Read(shipped.file))

(* Mounting a rewritten container finds the names the shipped one had.     *)
NamesSurvive ==
  pc \in {"mounted", "edited"} /\ shipped.file.header.indexed
    => IndexToFileName = TreePaths(shipped.tree)
=============================================================================
