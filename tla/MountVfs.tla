------------------------------ MODULE MountVfs ------------------------------
(***************************************************************************)
(* What a mount does to the virtual file system: RegisterParallel splits   *)
(* the files of an archive over threads that look their extension up in    *)
(* the global ExtensionPool, merges what they collected into the file map, *)
(* and RegisterReader makes the archive's reader known.  Several archives  *)
(* mount at once.  The maps are under s_VFSMutex, ExtensionPool is under   *)
(* nothing: a find that overlaps an insertion is undefined behaviour, seen *)
(* here as any interleaving of their steps, or the end of the process.     *)
(***************************************************************************)
EXTENDS Integers, Sequences, FiniteSets, SequencesExt

CONSTANTS
  Archives,   \* ArchivePaths
  Files,      \* by archive: its files, as GetFiles lists them
  NumThreads, \* hardware_concurrency, for each RegisterParallel
  NumWorkers  \* archives that mount at the same time

AllFiles == UNION {ToSet(Files[a]) : a \in Archives}
Chunks == 0 .. NumThreads - 1
Paths == {f.path : f \in AllFiles}
TocIndexes == {f.toc : f \in AllFiles}

ASSUME VfsAssumption ==
  /\ NumThreads \in Nat \ {0} /\ NumWorkers \in Nat \ {0}
  /\ \A a \in Archives : Files[a] \in Seq(AllFiles)

VARIABLES
  mount,         \* by archive
  progress,      \* of MountAsync
  stage,         \* by archive and chunk: where its thread is in GetOrAdd
  next,          \* by archive and chunk: how many files are done
  newId,         \* by archive and chunk: id in GetOrAdd
  localFileMap,  \* by archive and chunk: what it collected, like s_FileMap
  merged,        \* by archive: chunks already merged
  s_Pool, s_ReverseLookup,
  s_FileMap,     \* by path: pairs of an extension id and a TocEntryIndex
  s_Readers,
  raced          \* some find overlapped an insertion

vars == <<mount, progress, stage, next, newId, localFileMap, merged, s_Pool,
          s_ReverseLookup, s_FileMap, s_Readers, raced>>
threads == <<stage, next, newId, localFileMap>>
pool == <<s_Pool, s_ReverseLookup, raced>>
maps == <<s_FileMap, s_Readers>>

Init ==
  /\ mount = [a \in Archives |-> "waiting"]
  /\ progress = "mounting"
  /\ stage = [k \in Archives \X Chunks |-> "find"]
  /\ next = [k \in Archives \X Chunks |-> 0]
  /\ newId = [k \in Archives \X Chunks |-> 0]
  /\ localFileMap = [k \in Archives \X Chunks |-> [p \in Paths |-> <<>>]]
  /\ merged = [a \in Archives |-> 0]
  /\ s_Pool = <<>> /\ s_ReverseLookup = <<>>
  /\ s_FileMap = [p \in Paths |-> <<>>]
  /\ s_Readers = <<>>
  /\ raced = FALSE

-----------------------------------------------------------------------------
(***************************************************************************)
(* RegisterParallel.                                                       *)
(***************************************************************************)
ChunkSize(a) == Len(Files[a]) \div NumThreads
StartIdx(a, i) == i * ChunkSize(a)

\* Wrong: the remainder of the division belongs to nobody.
EndIdxEven(a, i) == (i + 1) * ChunkSize(a)
EndIdx(a, i) == IF i = NumThreads - 1 THEN Len(Files[a]) ELSE (i + 1) * ChunkSize(a)

File(a, i) == Files[a][StartIdx(a, i) + next[<<a, i>>] + 1]
Working(a, i) ==
  mount[a] = "running" /\ progress = "mounting" /\ StartIdx(a, i) + next[<<a, i>>] < EndIdx(a, i)
Inserting == \E k \in Archives \X Chunks : stage[k] # "find"

Collect(a, i, id) ==
  /\ localFileMap' = [localFileMap EXCEPT ![<<a, i>>][File(a, i).path] =
       Append(@, [ext |-> id, toc |-> File(a, i).toc])]
  /\ next' = [next EXCEPT ![<<a, i>>] = @ + 1]

NextId == Len(s_ReverseLookup)

FindExtension(a, i) ==
  /\ Working(a, i) /\ stage[<<a, i>>] = "find"
  /\ raced' = (raced \/ Inserting)
  /\ IF File(a, i).ext \in DOMAIN s_Pool
     THEN Collect(a, i, s_Pool[File(a, i).ext]) /\ UNCHANGED <<stage, newId>>
     ELSE /\ stage' = [stage EXCEPT ![<<a, i>>] = "push"]
          /\ newId' = [newId EXCEPT ![<<a, i>>] = NextId]
          /\ UNCHANGED <<next, localFileMap>>
  /\ UNCHANGED <<mount, progress, merged, s_Pool, s_ReverseLookup, maps>>

PushExtension(a, i) ==
  /\ Working(a, i) /\ stage[<<a, i>>] = "push"
  /\ s_ReverseLookup' = Append(s_ReverseLookup, File(a, i).ext)
  /\ stage' = [stage EXCEPT ![<<a, i>>] = "insert"]
  /\ UNCHANGED <<mount, progress, next, newId, localFileMap, merged, s_Pool, raced, maps>>

InsertExtension(a, i) ==
  /\ Working(a, i) /\ stage[<<a, i>>] = "insert"
  /\ s_Pool' = [e \in DOMAIN s_Pool \cup {File(a, i).ext} |->
                  IF e = File(a, i).ext THEN newId[<<a, i>>] ELSE s_Pool[e]]
  /\ Collect(a, i, newId[<<a, i>>])
  /\ stage' = [stage EXCEPT ![<<a, i>>] = "find"]
  /\ UNCHANGED <<mount, progress, newId, merged, s_ReverseLookup, raced, maps>>

\* Wrong: the archive merged last replaces the entries of the others.
MergeReplaces(a) ==
  LET local == localFileMap[<<a, merged[a]>>] IN
  /\ s_FileMap' = [p \in Paths |-> IF local[p] = <<>> THEN s_FileMap[p] ELSE local[p]]
  /\ merged' = [merged EXCEPT ![a] = @ + 1]

\* future.get of the chunks in their order, each merged under the lock.
MergeChunk(a) ==
  LET local == localFileMap[<<a, merged[a]>>] IN
  /\ s_FileMap' = [p \in Paths |-> s_FileMap[p] \o local[p]]
  /\ merged' = [merged EXCEPT ![a] = @ + 1]

Merge(a) ==
  /\ mount[a] = "running" /\ progress = "mounting"
  /\ merged[a] < NumThreads
  /\ ~Working(a, merged[a])
  /\ MergeChunk(a)
  /\ UNCHANGED <<mount, progress, threads, pool, s_Readers>>

-----------------------------------------------------------------------------
(***************************************************************************)
(* A mount.                                                                *)
(***************************************************************************)
Begin(a) ==
  /\ progress = "mounting" /\ mount[a] = "waiting"
  /\ Cardinality({b \in Archives : mount[b] = "running"}) < NumWorkers
  /\ mount' = [mount EXCEPT ![a] = "running"]
  /\ UNCHANGED <<progress, threads, merged, pool, maps>>

\* Wrong: only the first archive's reader is kept.
RegisterFirstReader(a) ==
  s_Readers' = IF s_Readers = <<>> THEN <<a>> ELSE s_Readers

RegisterReader(a) == s_Readers' = Append(s_Readers, a)

Finish(a) ==
  /\ mount[a] = "running" /\ progress = "mounting"
  /\ merged[a] = NumThreads
  /\ RegisterReader(a)
  /\ mount' = [mount EXCEPT ![a] = "done"]
  /\ UNCHANGED <<progress, threads, merged, pool, s_FileMap>>

\* Wrong: the mounts that are still waiting are not waited for.
ReturnEarly ==
  /\ progress = "mounting"
  /\ \A a \in Archives : mount[a] # "running"
  /\ progress' = "returned"
  /\ UNCHANGED <<mount, threads, merged, pool, maps>>

Return ==
  /\ progress = "mounting"
  /\ \A a \in Archives : mount[a] = "done"
  /\ progress' = "returned"
  /\ UNCHANGED <<mount, threads, merged, pool, maps>>

\* A find in a table that is being rehashed, or a push_back into a vector that
\* is being moved, may end the process.
RaceKills ==
  /\ progress = "mounting"
  /\ raced
  /\ \E a \in Archives : mount[a] = "running"
  /\ progress' = "terminated"
  /\ UNCHANGED <<mount, threads, merged, pool, maps>>

GetOrAdd(a, i) == FindExtension(a, i) \/ PushExtension(a, i) \/ InsertExtension(a, i)
MountThread(a) == Begin(a) \/ Merge(a) \/ Finish(a)

Next ==
  \/ \E a \in Archives, i \in Chunks : GetOrAdd(a, i)
  \/ \E a \in Archives : MountThread(a)
  \/ Return \/ RaceKills

\* Every thread that can run does.
Spec ==
  /\ Init /\ [][Next]_vars
  /\ \A a \in Archives, i \in Chunks : WF_vars(GetOrAdd(a, i))
  /\ \A a \in Archives : WF_vars(MountThread(a))
  /\ WF_vars(Return)

-----------------------------------------------------------------------------
(***************************************************************************)
(* Looking a file up, as PatchFortnite and LoadPackage do once the         *)
(* archives are mounted.                                                   *)
(***************************************************************************)
ExtensionId(e) == IF e \in DOMAIN s_Pool THEN s_Pool[e] ELSE NextId

\* The entries registered for the path with that extension, by position.
Entries(p, e) == {j \in DOMAIN s_FileMap[p] : s_FileMap[p][j].ext = ExtensionId(e)}

\* find_if takes the first of them.
TocEntryIndex(p, e) == s_FileMap[p][Min(Entries(p, e))].toc

\* The registered readers that have that very file at that index.
Holders(p, e) ==
  {a \in ToSet(s_Readers) :
     \E f \in ToSet(Files[a]) : f.path = p /\ f.ext = e /\ f.toc = TocEntryIndex(p, e)}

Found(p, e) == Entries(p, e) # {} /\ Holders(p, e) # {}

-----------------------------------------------------------------------------
(***************************************************************************)
(* Properties.                                                             *)
(***************************************************************************)

\* When MountAsync returns every file of every archive is in the file map as
\* often as archives have it, also when there are fewer files than threads or
\* the division leaves a remainder (FileSystem.cpp:76-83).
FilesOnce ==
  progress = "returned" =>
    \A p \in Paths : \A n \in TocIndexes :
      Cardinality({j \in DOMAIN s_FileMap[p] : s_FileMap[p][j].toc = n})
        = Cardinality(UNION {{a} \X {j \in DOMAIN Files[a] :
                                        Files[a][j].path = p /\ Files[a][j].toc = n} :
                               a \in Archives})

\* Unless GetOrAdd raced, whatever the order of the mounts every file of every
\* archive is found by path and extension, in a reader that has it at the index
\* that was found with it (FileSystem.cpp:147-239): also when two archives have the
\* path at different indexes.
MountedIsFound ==
  (progress = "returned" /\ ~raced) =>
    \A a \in Archives : \A f \in ToSet(Files[a]) : Found(f.path, f.ext)

\* "A global extension pool to deduplicate extension strings" (FileSystem.ixx:16).
Deduplicated == IsInjective(s_ReverseLookup)

\* Registering files keeps MountAsync's promise: what happens to an archive happens
\* between the beginning and the end of its mount, and every mount ends unless the
\* race kills the process.
Promise == INSTANCE MountTasks
PromiseKept == Promise!MSpec
=============================================================================
