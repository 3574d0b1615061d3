----------------------------- MODULE SwapRevert -----------------------------
(***************************************************************************)
(* Converting a skin and reverting it: FortniteFunctionLibrary::           *)
(* PatchFortnite, the FConfig flag that says which of the two a click      *)
(* does, and the files both of them move and overwrite.  One action is     *)
(* one file operation, so that the process can die between any two.        *)
(*                                                                         *)
(* The .ucas bytes the swap may touch are cut into Cells; a block is some  *)
(* cells of compressed data followed by one cell of zero padding (the 8    *)
(* bytes written after every block).  Of each cell only one thing matters: *)
(* does it hold the game's own bytes.                                      *)
(***************************************************************************)
EXTENDS Integers, FiniteSets

CONSTANTS
  GameData,       \* container of DefaultGameDataCosmetics
  DefaultPart,    \* container of CP_Athena_Body_F_Prime
  LastCell,       \* the .ucas cells are 0 .. LastCell
  NewBlockCount,  \* newBlockCount: blocks of the patched package
  MaxSize,        \* bound: cells of one compressed block
  Faults,         \* file operations that may fail
  MaxCalls,       \* bound: calls of PatchFortnite
  MaxDeaths       \* bound: times the process dies

FaultKinds == {"backup", "write", "pad", "makeToc", "rename", "restore", "delete", "save"}

ASSUME SwapAssumption ==
  /\ GameData # DefaultPart
  /\ LastCell \in Nat
  /\ NewBlockCount \in Nat \ {0}
  /\ MaxSize \in Nat \ {0}
  /\ Faults \subseteq FaultKinds
  /\ MaxCalls \in Nat
  /\ MaxDeaths \in Nat

Containers == {GameData, DefaultPart}
Cells == 0 .. LastCell

VARIABLES
  pc,               \* where PatchFortnite (or FConfig::Save) is
  resave,           \* OnAddItem is the caller: it saves once more on return
  bHasSwappedSkin,  \* FConfig::bHasSwappedSkin, in memory
  Config,           \* Config.json: its flag, or no file, or a truncated one
  utoc,             \* <container>.utoc in the installation
  TocBackups,       \* <container>.utoc in TocBackups
  utocTamely,       \* <container>.utoc.tamely
  live,             \* the TOC each mounted reader holds in memory
  changed,          \* cells that no longer hold the game's bytes
  UcasBackups,      \* by offset: the cells that backup file covers
  stale,            \* by offset: those of them it holds other bytes for
  block,            \* i, the block being written
  offset,           \* Ar.Tell() at the start of the block
  size,             \* CompressedSize, in cells
  tocsLeft,         \* backedUpTOCs not yet renamed
  chunksLeft,       \* backedUpChunks not yet handled
  mishaps,          \* history: what went wrong outside the code's control
  calls, deaths     \* counters for the bounds

vars == <<pc, resave, bHasSwappedSkin, Config, utoc, TocBackups, utocTamely,
          live, changed, UcasBackups, stale, block, offset, size, tocsLeft,
          chunksLeft, mishaps, calls, deaths>>
tocs     == <<utoc, TocBackups, utocTamely, live>>
ucas     == <<changed, UcasBackups, stale>>
cursor   == <<block, offset, size>>
listings == <<tocsLeft, chunksLeft>>
flags    == <<bHasSwappedSkin, Config>>
bounds   == <<calls, deaths>>

SwapSteps == {"Block", "Backup", "Write", "Pad", "MakeToc", "BackupToc",
              "InstallToc", "MakeToc2", "BackupToc2", "InstallToc2"}
RevertSteps == {"RevertTocs", "ListChunks", "RevertChunk", "DeleteChunk"}
SaveSteps == {"SaveOpen", "SaveWrite"}

TypeOK ==
  /\ pc \in {"Down", "Idle"} \cup SwapSteps \cup RevertSteps \cup SaveSteps
  /\ resave \in BOOLEAN
  /\ bHasSwappedSkin \in BOOLEAN
  /\ Config \in {"absent", "torn", "clear", "swapped"}
  /\ utoc \in [Containers -> {"original", "patched", "torn", "none"}]
  /\ TocBackups \in [Containers -> {"original", "patched", "torn", "none"}]
  /\ utocTamely \in [Containers -> {"patched", "torn", "none"}]
  /\ live \in [Containers -> {"original", "patched", "aliased", "none"}]
  /\ changed \in SUBSET Cells
  /\ UcasBackups \in [Cells -> SUBSET Cells]
  /\ stale \in [Cells -> SUBSET Cells]
  /\ block \in 0 .. NewBlockCount
  /\ pc \in {"Block", "Backup", "Write", "Pad"} => block < NewBlockCount
  /\ offset \in Nat
  /\ size \in 0 .. MaxSize
  /\ tocsLeft \in SUBSET Containers
  /\ chunksLeft \in SUBSET Cells
  /\ mishaps \in SUBSET (FaultKinds \cup {"reswap"})
  /\ calls \in 0 .. MaxCalls
  /\ deaths \in 0 .. MaxDeaths

(***************************************************************************)
(* What the files amount to.                                               *)
(***************************************************************************)
Pristine == changed = {} /\ \A c \in Containers : utoc[c] = "original"

(* A swap begun over leftovers: the game is not as shipped, or a backup    *)
(* file was created and never filled.                                      *)
Leftovers == ~Pristine \/ \E o \in Cells : stale[o] # {}

Data == {x \in Cells : offset <= x /\ x < offset + size}
PadCell == {x \in Cells : x = offset + size}
Touched == Data \cup PadCell

Fits(n) == offset + n <= LastCell

Init ==
  /\ pc = "Down" /\ resave = FALSE
  /\ bHasSwappedSkin = FALSE /\ Config = "absent"
  /\ utoc = [c \in Containers |-> "original"]
  /\ TocBackups = [c \in Containers |-> "none"]
  /\ utocTamely = [c \in Containers |-> "none"]
  /\ live = [c \in Containers |-> "none"]
  /\ changed = {}
  /\ UcasBackups = [o \in Cells |-> {}] /\ stale = [o \in Cells |-> {}]
  /\ block = 0 /\ offset = 0 /\ size = 0
  /\ tocsLeft = {} /\ chunksLeft = {}
  /\ mishaps = {} /\ calls = 0 /\ deaths = 0

(***************************************************************************)
(* A session.  Load reads the flag and throws a truncated Config.json      *)
(* away; mounting reads every .utoc into its reader.                       *)
(***************************************************************************)
Load ==
  /\ bHasSwappedSkin' = (Config = "swapped")
  /\ Config' = IF Config = "torn" THEN "absent" ELSE Config

Mount == live' = [c \in Containers |-> IF utoc[c] = "torn" THEN "none" ELSE utoc[c]]

Launch ==
  /\ pc = "Down"
  /\ pc' = "Idle"
  /\ Load
  /\ Mount
  /\ UNCHANGED <<resave, utoc, TocBackups, utocTamely, ucas, cursor, listings,
                 mishaps, bounds>>

(* The process ends: killed, crashed, or closed (OnRevertAndClose exits    *)
(* without reverting anything).                                            *)
Die ==
  /\ pc' = "Down"
  /\ resave' = FALSE
  /\ bHasSwappedSkin' = FALSE
  /\ tocsLeft' = {} /\ chunksLeft' = {}
  /\ block' = 0 /\ offset' = 0 /\ size' = 0
  /\ UNCHANGED <<Config, tocs, ucas, mishaps>>

Crash ==
  /\ pc # "Down"
  /\ deaths < MaxDeaths
  /\ deaths' = deaths + 1
  /\ Die
  /\ UNCHANGED calls

(* PatchFortnite returns; only OnAddItem has something left to do.         *)
Return ==
  /\ pc' = IF resave THEN "SaveOpen" ELSE "Idle"
  /\ resave' = FALSE

(***************************************************************************)
(* The call.  PatchFortnite looks at the flag first; a skin that is not    *)
(* valid leaves only the final Save.  The readers are looked up in the     *)
(* provider: a TOC missing at mount time is a null reader, and a TOC       *)
(* overwritten in memory by the other container's is one whose chunk has   *)
(* no offset; both end the process, the second may also just be refused.   *)
(***************************************************************************)
Enter(step) ==
  /\ pc = "Idle"
  /\ calls < MaxCalls
  /\ calls' = calls + 1
  /\ pc' = step
  /\ \E again \in BOOLEAN : resave' = again
  /\ UNCHANGED <<flags, tocs, ucas, deaths>>

ApplyRevert ==
  /\ bHasSwappedSkin
  /\ Enter("RevertTocs")
  /\ tocsLeft' = {c \in Containers : TocBackups[c] # "none"}
  /\ UNCHANGED <<chunksLeft, cursor, mishaps>>

ApplyNothing ==
  /\ ~bHasSwappedSkin
  /\ Enter("SaveOpen")
  /\ UNCHANGED <<cursor, listings, mishaps>>

ApplySwap ==
  /\ ~bHasSwappedSkin
  /\ live[GameData] \in {"original", "patched"}
  /\ Enter("Block")
  /\ block' = 0 /\ offset' = 0 /\ size' = 0
  /\ mishaps' = mishaps \cup (IF Leftovers THEN {"reswap"} ELSE {})
  /\ UNCHANGED listings

ApplyRefused ==
  /\ ~bHasSwappedSkin
  /\ live[GameData] = "aliased"
  /\ \E step \in {"SaveOpen", "Idle"} : Enter(step)  \* OnAddItem saves, OnApplyLoadout does not
  /\ ~resave'
  /\ UNCHANGED <<cursor, listings, mishaps>>

ApplyDies ==
  /\ pc = "Idle"
  /\ ~bHasSwappedSkin
  /\ live[GameData] \in {"none", "aliased"}
  /\ calls < MaxCalls
  /\ calls' = calls + 1
  /\ Die
  /\ UNCHANGED deaths

\* OnSetFOV, OnCheckKey and the dependency loop save on their own.
SaveElsewhere ==
  /\ pc = "Idle"
  /\ pc' = "SaveOpen"
  /\ UNCHANGED <<resave, flags, tocs, ucas, cursor, listings, mishaps, bounds>>

-----------------------------------------------------------------------------
(***************************************************************************)
(* Swap: the blocks.  The TOC entry is overwritten in memory first, then   *)
(* the bytes about to be overwritten are copied into a backup file named   *)
(* by their offset, then the block and its padding are written.            *)
(***************************************************************************)
CreateChunkFile(range) ==
  /\ UcasBackups' = [UcasBackups EXCEPT ![offset] = @ \cup range]
  /\ stale' = [stale EXCEPT ![offset] = @ \cup (range \ UcasBackups[offset])]

\* Wrong: ReadBuffer(CompressedSize), without the padding.
OpenBackupUnpadded ==
  /\ pc = "Block"
  /\ \E n \in 1 .. MaxSize :
       /\ Fits(n)
       /\ size' = n
       /\ CreateChunkFile({x \in Cells : offset <= x /\ x < offset + n})
  /\ live' = [live EXCEPT ![GameData] = "patched"]
  /\ pc' = "Backup"
  /\ UNCHANGED <<resave, flags, utoc, TocBackups, utocTamely, changed, block,
                 offset, listings, mishaps, bounds>>

OpenBackup ==
  /\ pc = "Block"
  /\ \E n \in 1 .. MaxSize :
       /\ Fits(n)
       /\ size' = n
       /\ CreateChunkFile({x \in Cells : offset <= x /\ x <= offset + n})
  /\ live' = [live EXCEPT ![GameData] = "patched"]
  /\ pc' = "Backup"
  /\ UNCHANGED <<resave, flags, utoc, TocBackups, utocTamely, changed, block,
                 offset, listings, mishaps, bounds>>

\* Serialize refuses to read past the end of the file.
ReadPastEnd ==
  /\ pc = "Block"
  /\ \E n \in 1 .. MaxSize : ~Fits(n)
  /\ live' = [live EXCEPT ![GameData] = "patched"]
  /\ Return
  /\ UNCHANGED <<flags, utoc, TocBackups, utocTamely, ucas, cursor, listings,
                 mishaps, bounds>>

FillBackup ==
  /\ pc = "Backup"
  /\ stale' = [stale EXCEPT ![offset] = (@ \ Touched) \cup (Touched \cap changed)]
  /\ pc' = "Write"
  /\ UNCHANGED <<resave, flags, tocs, changed, UcasBackups, cursor, listings,
                 mishaps, bounds>>

\* A backup that could not be written is logged, and the swap goes on.
FillBackupFails ==
  /\ pc = "Backup"
  /\ "backup" \in Faults
  /\ mishaps' = mishaps \cup {"backup"}
  /\ pc' = "Write"
  /\ UNCHANGED <<resave, flags, tocs, ucas, cursor, listings, bounds>>

WriteBlock ==
  /\ pc = "Write"
  /\ changed' = changed \cup Data
  /\ pc' = "Pad"
  /\ UNCHANGED <<resave, flags, tocs, UcasBackups, stale, cursor, listings,
                 mishaps, bounds>>

\* A failed flush comes after the copy, a failed mapping before it.
WriteBlockFails ==
  /\ pc = "Write"
  /\ "write" \in Faults
  /\ \E written \in {{}, Data} : changed' = changed \cup written
  /\ Return
  /\ UNCHANGED <<flags, tocs, UcasBackups, stale, cursor, listings, mishaps, bounds>>

\* Wrong: i <= newBlockCount.
NextBlockInclusive ==
  /\ block' = block + 1
  /\ pc' = IF block + 1 <= NewBlockCount THEN "Block" ELSE "MakeToc"

NextBlock ==
  /\ block' = block + 1
  /\ pc' = IF block + 1 < NewBlockCount THEN "Block" ELSE "MakeToc"

PadBlock ==
  /\ pc = "Pad"
  /\ changed' = changed \cup PadCell
  /\ offset' = offset + size + 1
  /\ NextBlock
  /\ UNCHANGED <<resave, flags, tocs, UcasBackups, stale, size, listings,
                 mishaps, bounds>>

\* Nobody looks at what the padding's WriteBuffer returned.  If it was another
\* reader that could not be mapped again, the position has moved on.
PadBlockFails ==
  /\ pc = "Pad"
  /\ "pad" \in Faults
  /\ \/ /\ changed' \in {changed, changed \cup PadCell}
        /\ offset' = offset + size
     \/ /\ changed' = changed \cup PadCell
        /\ offset' = offset + size + 1
  /\ mishaps' = mishaps \cup {"pad"}
  /\ NextBlock
  /\ UNCHANGED <<resave, flags, tocs, UcasBackups, stale, size, listings, bounds>>

(***************************************************************************)
(* Swap: the two TOCs.  Each is written beside the old one, the old one    *)
(* is moved to TocBackups, the new one takes its place; the second step    *)
(* copies the other container's TOC over the first reader's.               *)
(***************************************************************************)
MakeToc(c, from, to) ==
  /\ pc = from
  /\ live[c] # "none"
  /\ utocTamely' = [utocTamely EXCEPT ![c] = "patched"]
  /\ live' = IF c = DefaultPart THEN [live EXCEPT ![GameData] = "aliased"] ELSE live
  /\ pc' = to
  /\ UNCHANGED <<resave, flags, utoc, TocBackups, ucas, cursor, listings,
                 mishaps, bounds>>

MakeTocFails(c, from) ==
  /\ pc = from
  /\ live[c] # "none"
  /\ "makeToc" \in Faults
  /\ utocTamely' = [utocTamely EXCEPT ![c] = "torn"]
  /\ live' = IF c = DefaultPart THEN [live EXCEPT ![GameData] = "aliased"] ELSE live
  /\ Return
  /\ UNCHANGED <<flags, utoc, TocBackups, ucas, cursor, listings, mishaps, bounds>>

\* The second container was not mounted: its reader is null.
MakeTocDies ==
  /\ pc = "MakeToc2"
  /\ live[DefaultPart] = "none"
  /\ Die
  /\ UNCHANGED bounds

BackupToc(c, from, to) ==
  /\ pc = from
  /\ \/ /\ utoc[c] # "none"
        /\ TocBackups' = [TocBackups EXCEPT ![c] = utoc[c]]
        /\ utoc' = [utoc EXCEPT ![c] = "none"]
        /\ UNCHANGED mishaps
     \/ /\ utoc[c] = "none" \/ "rename" \in Faults
        /\ mishaps' = mishaps \cup {"rename"}
        /\ UNCHANGED <<utoc, TocBackups>>
  /\ pc' = to
  /\ UNCHANGED <<resave, flags, utocTamely, live, ucas, cursor, listings, bounds>>

RenameTamely(c) ==
  \/ /\ utocTamely[c] # "none"
     /\ utoc' = [utoc EXCEPT ![c] = utocTamely[c]]
     /\ utocTamely' = [utocTamely EXCEPT ![c] = "none"]
     /\ UNCHANGED mishaps
  \/ /\ "rename" \in Faults
     /\ mishaps' = mishaps \cup {"rename"}
     /\ UNCHANGED <<utoc, utocTamely>>

\* Wrong: the patched TOC is left under its temporary name.
InstallTocForgotten ==
  /\ pc = "InstallToc"
  /\ pc' = "MakeToc2"
  /\ UNCHANGED <<resave, flags, tocs, ucas, cursor, listings, mishaps, bounds>>

InstallToc ==
  /\ pc = "InstallToc"
  /\ RenameTamely(GameData)
  /\ pc' = "MakeToc2"
  /\ UNCHANGED <<resave, flags, TocBackups, live, ucas, cursor, listings, bounds>>

\* The last move also sets the flag, saved by the Save that follows.
InstallToc2 ==
  /\ pc = "InstallToc2"
  /\ RenameTamely(DefaultPart)
  /\ bHasSwappedSkin' = TRUE
  /\ pc' = "SaveOpen"
  /\ UNCHANGED <<resave, Config, TocBackups, live, ucas, cursor, listings, bounds>>

-----------------------------------------------------------------------------
(***************************************************************************)
(* Revert: the TOCs are moved back one by one; then the chunk files, in    *)
(* whatever order the directory lists them, are copied back and deleted.   *)
(***************************************************************************)
\* Wrong: a TOC that could not be moved is deleted, as a chunk file is.
RestoreTocDeletes(c) ==
  /\ pc = "RevertTocs"
  /\ c \in tocsLeft
  /\ tocsLeft' = tocsLeft \ {c}
  /\ TocBackups' = [TocBackups EXCEPT ![c] = "none"]
  /\ \/ /\ utoc' = [utoc EXCEPT ![c] = TocBackups[c]]
        /\ UNCHANGED mishaps
     \/ /\ "rename" \in Faults
        /\ mishaps' = mishaps \cup {"rename"}
        /\ UNCHANGED utoc
  /\ UNCHANGED <<pc, resave, flags, utocTamely, live, ucas, cursor, chunksLeft, bounds>>

RestoreToc(c) ==
  /\ pc = "RevertTocs"
  /\ c \in tocsLeft
  /\ tocsLeft' = tocsLeft \ {c}
  /\ \/ /\ utoc' = [utoc EXCEPT ![c] = TocBackups[c]]
        /\ TocBackups' = [TocBackups EXCEPT ![c] = "none"]
        /\ UNCHANGED mishaps
     \/ /\ "rename" \in Faults
        /\ mishaps' = mishaps \cup {"rename"}
        /\ UNCHANGED <<utoc, TocBackups>>
  /\ UNCHANGED <<pc, resave, flags, utocTamely, live, ucas, cursor, chunksLeft, bounds>>

\* Wrong: the first file of the listing is skipped.
ListChunksAfterFirst ==
  /\ pc = "RevertTocs"
  /\ tocsLeft = {}
  /\ chunksLeft' = {o \in Cells \ {0} : UcasBackups[o] # {}}
  /\ pc' = "RevertChunk"
  /\ UNCHANGED <<resave, flags, tocs, ucas, cursor, tocsLeft, mishaps, bounds>>

ListChunks ==
  /\ pc = "RevertTocs"
  /\ tocsLeft = {}
  /\ chunksLeft' = {o \in Cells : UcasBackups[o] # {}}
  /\ pc' = "RevertChunk"
  /\ UNCHANGED <<resave, flags, tocs, ucas, cursor, tocsLeft, mishaps, bounds>>

\* offset holds the chunk file being handled until it is deleted.
RestoreChunk(o) ==
  /\ pc = "RevertChunk"
  /\ o \in chunksLeft
  /\ offset' = o
  /\ \/ /\ changed' = (changed \ UcasBackups[o]) \cup stale[o]
        /\ UNCHANGED mishaps
     \/ /\ "restore" \in Faults
        /\ mishaps' = mishaps \cup {"restore"}
        /\ changed' \in {changed, (changed \ UcasBackups[o]) \cup stale[o]}
  /\ pc' = "DeleteChunk"
  /\ UNCHANGED <<resave, flags, tocs, UcasBackups, stale, block, size, listings, bounds>>

\* Wrong: the first restored chunk empties the whole directory.
DeleteAllChunks ==
  /\ pc = "DeleteChunk"
  /\ UcasBackups' = [o \in Cells |-> {}]
  /\ stale' = [o \in Cells |-> {}]
  /\ chunksLeft' = {}
  /\ offset' = 0
  /\ pc' = "RevertChunk"
  /\ UNCHANGED <<resave, flags, tocs, changed, block, size, tocsLeft, mishaps, bounds>>

\* Also after a failed copy: the backup goes whatever WriteBuffer said.
DeleteChunk ==
  /\ pc = "DeleteChunk"
  /\ \/ /\ UcasBackups' = [UcasBackups EXCEPT ![offset] = {}]
        /\ stale' = [stale EXCEPT ![offset] = {}]
        /\ UNCHANGED mishaps
     \/ /\ "delete" \in Faults
        /\ mishaps' = mishaps \cup {"delete"}
        /\ UNCHANGED <<UcasBackups, stale>>
  /\ chunksLeft' = chunksLeft \ {offset}
  /\ offset' = 0
  /\ pc' = "RevertChunk"
  /\ UNCHANGED <<resave, flags, tocs, changed, block, size, tocsLeft, bounds>>

Reverted ==
  /\ pc = "RevertChunk"
  /\ chunksLeft = {}
  /\ bHasSwappedSkin' = FALSE
  /\ pc' = "SaveOpen"
  /\ UNCHANGED <<resave, Config, tocs, ucas, cursor, listings, mishaps, bounds>>

-----------------------------------------------------------------------------
(***************************************************************************)
(* FConfig::Save truncates Config.json, then writes it.                    *)
(***************************************************************************)
SaveOpen ==
  /\ pc = "SaveOpen"
  /\ Config' = "torn"
  /\ pc' = "SaveWrite"
  /\ UNCHANGED <<resave, bHasSwappedSkin, tocs, ucas, cursor, listings, mishaps, bounds>>

SaveWrite ==
  /\ pc = "SaveWrite"
  /\ Config' = IF bHasSwappedSkin THEN "swapped" ELSE "clear"
  /\ Return
  /\ UNCHANGED <<bHasSwappedSkin, tocs, ucas, cursor, listings, mishaps, bounds>>

\* Nobody asks the ofstream whether it was opened or written.  A flag left on
\* disk that memory no longer has is a mishap; what else may be left there, a
\* process that dies here leaves too.
SaveFails ==
  /\ pc \in SaveSteps
  /\ "save" \in Faults
  /\ mishaps' = mishaps \cup (IF Config = "swapped" /\ ~bHasSwappedSkin THEN {"save"} ELSE {})
  /\ Return
  /\ UNCHANGED <<flags, tocs, ucas, cursor, listings, bounds>>

Swap ==
  \/ OpenBackup \/ ReadPastEnd \/ FillBackup \/ FillBackupFails
  \/ WriteBlock \/ WriteBlockFails \/ PadBlock \/ PadBlockFails
  \/ MakeToc(GameData, "MakeToc", "BackupToc") \/ MakeTocFails(GameData, "MakeToc")
  \/ BackupToc(GameData, "BackupToc", "InstallToc") \/ InstallToc
  \/ MakeToc(DefaultPart, "MakeToc2", "BackupToc2") \/ MakeTocFails(DefaultPart, "MakeToc2")
  \/ MakeTocDies
  \/ BackupToc(DefaultPart, "BackupToc2", "InstallToc2") \/ InstallToc2

Revert ==
  \/ \E c \in Containers : RestoreToc(c)
  \/ ListChunks
  \/ \E o \in Cells : RestoreChunk(o)
  \/ DeleteChunk \/ Reverted

Save == SaveOpen \/ SaveWrite \/ SaveFails

Call == ApplyRevert \/ ApplyNothing \/ ApplySwap \/ ApplyRefused \/ ApplyDies \/ SaveElsewhere

Next == Launch \/ Crash \/ Call \/ Swap \/ Revert \/ Save

\* PatchFortnite runs on the thread that called it until it returns.
Spec == Init /\ [][Next]_vars /\ WF_vars(Swap \/ Revert \/ Save)

-----------------------------------------------------------------------------
(***************************************************************************)
(* Properties.                                                             *)
(***************************************************************************)

\* Of every file the swap replaces or overwrites, the game's own copy is still
\* somewhere: a TOC in the installation or in TocBackups, the bytes of a changed
\* cell in a chunk file (FortniteFunctionLibrary.cpp:396-430, 454-456, 499-501),
\* wherever the process died, unless an operation failed or a swap was begun over
\* the leftovers of an earlier one.
OriginalsKept ==
  mishaps = {} =>
    /\ \A c \in Containers : "original" \in {utoc[c], TocBackups[c]}
    /\ \A x \in changed : \E o \in Cells : x \in UcasBackups[o] \ stale[o]

\* While either copy of the flag says "swapped", the backups suffice to restore
\* everything, in any order and again after a crash: no chunk file holds foreign
\* bytes, and each moved TOC is in TocBackups.
FlagMeansRevertible ==
  (mishaps = {} /\ (bHasSwappedSkin \/ Config = "swapped")) =>
    /\ \A c \in Containers : utoc[c] = "original" \/ TocBackups[c] = "original"
    /\ changed \subseteq UNION {UcasBackups[o] : o \in Cells}
    /\ \A o \in Cells : stale[o] = {}

\* The revert branch clears the flag only over a game that is as shipped.
RevertRestores ==
  [][(bHasSwappedSkin /\ ~bHasSwappedSkin' /\ pc' # "Down" /\ mishaps = {})
       => Pristine']_vars

\* The swap branch sets the flag only over a complete swap: both TOCs replaced,
\* their originals set aside, all blocks written.
SwapInstalls ==
  [][(pc # "Down" /\ ~bHasSwappedSkin /\ bHasSwappedSkin' /\ mishaps' = {})
       => /\ \A c \in Containers : utoc'[c] = "patched" /\ TocBackups'[c] = "original"
          /\ block' = NewBlockCount
          /\ 0 .. offset' - 1 \subseteq changed']_vars

\* An original TOC leaves TocBackups only by going back into the installation,
\* whatever failed before, as long as no swap runs over leftovers.
BackupGoesHome ==
  [][\A c \in Containers :
       (TocBackups[c] = "original" /\ TocBackups'[c] # "original")
         => utoc'[c] = "original" \/ "reswap" \in mishaps]_vars

\* "Reverted!" (FortniteFunctionLibrary.cpp:285), with no condition on failures:
\* after a revert over a complete swap the game is as shipped.
RevertedMeansPristine ==
  [][(bHasSwappedSkin /\ ~bHasSwappedSkin' /\ pc' # "Down" /\ "reswap" \notin mishaps)
       => Pristine']_vars

=============================================================================
