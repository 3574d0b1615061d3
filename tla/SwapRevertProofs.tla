-------------------------- MODULE SwapRevertProofs --------------------------
(***************************************************************************)
(* Nothing of the game's own is lost by a swap or a revert, wherever the   *)
(* process dies, for any number of cells, blocks and calls.                *)
(***************************************************************************)
EXTENDS SwapRevert, TLAPS

\* The flag in memory is never behind the one on disk, except between clearing
\* it and saving it.
FlagsInv ==
  /\ pc \in SwapSteps => ~bHasSwappedSkin /\ Config # "swapped"
  /\ pc \in RevertSteps => bHasSwappedSkin
  /\ pc = "Down" => ~bHasSwappedSkin
  /\ pc \in {"Idle", "SaveWrite"} /\ Config = "swapped" => bHasSwappedSkin

\* TocBackups only ever holds originals, and one is missing from the
\* installation only when its original is there.
TocsInv ==
  /\ \A c \in Containers : TocBackups[c] \in {"original", "none"}
  /\ \A c \in Containers : utoc[c] = "original" \/ TocBackups[c] = "original"
  /\ pc \in {"Block", "Backup", "Write", "Pad", "MakeToc", "BackupToc"}
       => utoc[GameData] = "original"
  /\ pc \in {"Block", "Backup", "Write", "Pad", "MakeToc", "BackupToc", "InstallToc",
             "MakeToc2", "BackupToc2"}
       => utoc[DefaultPart] = "original"
  /\ pc = "InstallToc" => TocBackups[GameData] = "original"
  /\ pc = "InstallToc2" => TocBackups[DefaultPart] = "original"
  /\ pc = "RevertTocs" => \A c \in Containers : TocBackups[c] = "original" <=> c \in tocsLeft
  /\ pc \in {"RevertChunk", "DeleteChunk"} => \A c \in Containers : TocBackups[c] = "none"

\* Where the block being written stands.
CursorInv ==
  /\ pc \in {"Block", "Backup", "Write"} => \A x \in changed : x < offset
  /\ pc = "Pad" => \A x \in changed : x < offset + size
  /\ pc \in {"Backup", "Write", "Pad"} =>
       /\ offset \in Cells
       /\ Touched \subseteq UcasBackups[offset]
  /\ pc = "DeleteChunk" => offset \in Cells /\ changed \cap UcasBackups[offset] = {}

\* Chunk files hold the game's bytes, except the one just created.
ChunksInv ==
  /\ \A x \in changed : \E o \in Cells : x \in UcasBackups[o] \ stale[o]
  /\ bHasSwappedSkin \/ Config = "swapped" \/ pc \in SwapSteps \ {"Backup"}
       => \A o \in Cells : stale[o] = {}
  /\ pc = "Backup" =>
       /\ stale[offset] \subseteq Touched
       /\ \A o \in Cells : o # offset => stale[o] = {}
  /\ pc \in {"RevertChunk", "DeleteChunk"}
       => \A o \in Cells : UcasBackups[o] # {} => o \in chunksLeft

SafeInv == FlagsInv /\ TocsInv /\ CursorInv /\ ChunksInv

\* The inductive invariant.
SwapInv == TypeOK /\ (mishaps = {} => SafeInv)

USE DEF tocs, ucas, cursor, listings, flags, bounds

LEMMA CellsNat == Cells \subseteq Nat
  BY SwapAssumption DEF SwapAssumption, Cells

LEMMA TwoContainers == GameData \in Containers /\ DefaultPart \in Containers
  BY DEF Containers

\* When the process dies, what it had in memory is gone and the files are as
\* they were.
LEMMA DieTypes ==
  ASSUME TypeOK, Die, calls' \in 0 .. MaxCalls, deaths' \in 0 .. MaxDeaths
  PROVE  TypeOK'
<1>1. resave' \in BOOLEAN /\ bHasSwappedSkin' \in BOOLEAN
  BY DEF Die
<1>2. 0 \in 0 .. MaxSize /\ 0 \in 0 .. NewBlockCount
  BY SwapAssumption DEF SwapAssumption
<1> QED
  BY <1>1, <1>2 DEF Die, TypeOK

\* The initial state is well typed.
LEMMA InitTypes == ASSUME Init PROVE TypeOK
<1>1. resave \in BOOLEAN /\ bHasSwappedSkin \in BOOLEAN
  BY DEF Init
<1>2. 0 \in 0 .. MaxSize /\ 0 \in 0 .. NewBlockCount /\ 0 \in 0 .. MaxCalls /\ 0 \in 0 .. MaxDeaths
  BY SwapAssumption DEF SwapAssumption
<1> QED
  BY <1>1, <1>2 DEF Init, TypeOK

\* Every step keeps the types.
LEMMA StepTypes == ASSUME TypeOK, [Next]_vars PROVE TypeOK'
<1> USE SwapAssumption, TwoContainers DEF SwapAssumption, TypeOK, SwapSteps, RevertSteps, SaveSteps, FaultKinds
<1>1. CASE Launch
  BY <1>1 DEF Launch, Load, Mount
<1>2. CASE Crash
  BY <1>2, DieTypes DEF Crash
<1>3. CASE ApplyRevert
  BY <1>3 DEF ApplyRevert, Enter
<1>4. CASE ApplyNothing
  BY <1>4 DEF ApplyNothing, Enter
<1>5. CASE ApplySwap
  BY <1>5 DEF ApplySwap, Enter
<1>6. CASE ApplyRefused
  BY <1>6 DEF ApplyRefused, Enter
<1>7. CASE ApplyDies
  BY <1>7, DieTypes DEF ApplyDies
<1>8. CASE SaveElsewhere
  BY <1>8 DEF SaveElsewhere
<1>9. CASE OpenBackup
  <2>1. PICK n \in 1 .. MaxSize :
          /\ size' = n
          /\ UcasBackups' = [UcasBackups EXCEPT ![offset] =
               @ \cup {x \in Cells : offset <= x /\ x <= offset + n}]
          /\ stale' = [stale EXCEPT ![offset] =
               @ \cup ({x \in Cells : offset <= x /\ x <= offset + n} \ UcasBackups[offset])]
    BY <1>9 DEF OpenBackup, CreateChunkFile
  <2>2. size' \in 0 .. MaxSize
    BY <2>1
  <2>3. UcasBackups' \in [Cells -> SUBSET Cells] /\ stale' \in [Cells -> SUBSET Cells]
    BY <2>1
  <2> QED
    BY <1>9, <2>2, <2>3 DEF OpenBackup
<1>10. CASE ReadPastEnd
  BY <1>10 DEF ReadPastEnd, Return
<1>11. CASE FillBackup
  BY <1>11 DEF FillBackup, Touched, Data, PadCell
<1>12. CASE FillBackupFails
  BY <1>12 DEF FillBackupFails
<1>13. CASE WriteBlock
  BY <1>13 DEF WriteBlock, Data
<1>14. CASE WriteBlockFails
  BY <1>14 DEF WriteBlockFails, Data, Return
<1>15. CASE PadBlock
  <2>1. offset + size + 1 \in Nat
    OBVIOUS
  <2> QED
    BY <1>15, <2>1 DEF PadBlock, PadCell, NextBlock
<1>16. CASE PadBlockFails
  <2>1. offset + size \in Nat /\ offset + size + 1 \in Nat
    OBVIOUS
  <2>2. changed' \in SUBSET Cells
    BY <1>16 DEF PadBlockFails, PadCell
  <2> QED
    BY <1>16, <2>1, <2>2 DEF PadBlockFails, NextBlock
<1>17. CASE MakeToc(GameData, "MakeToc", "BackupToc")
  BY <1>17 DEF MakeToc
<1>18. CASE MakeTocFails(GameData, "MakeToc")
  BY <1>18 DEF MakeTocFails, Return
<1>19. CASE BackupToc(GameData, "BackupToc", "InstallToc")
  BY <1>19 DEF BackupToc
<1>20. CASE InstallToc
  BY <1>20 DEF InstallToc, RenameTamely
<1>21. CASE MakeToc(DefaultPart, "MakeToc2", "BackupToc2")
  BY <1>21 DEF MakeToc
<1>22. CASE MakeTocFails(DefaultPart, "MakeToc2")
  BY <1>22 DEF MakeTocFails, Return
<1>23. CASE MakeTocDies
  BY <1>23, DieTypes DEF MakeTocDies
<1>24. CASE BackupToc(DefaultPart, "BackupToc2", "InstallToc2")
  BY <1>24 DEF BackupToc
<1>25. CASE InstallToc2
  BY <1>25 DEF InstallToc2, RenameTamely
<1>26. ASSUME NEW c \in Containers, RestoreToc(c) PROVE TypeOK'
  BY <1>26 DEF RestoreToc
<1>27. CASE ListChunks
  BY <1>27 DEF ListChunks
<1>28. ASSUME NEW o \in Cells, RestoreChunk(o) PROVE TypeOK'
  BY <1>28, CellsNat DEF RestoreChunk
<1>29. CASE DeleteChunk
  BY <1>29 DEF DeleteChunk
<1>30. CASE Reverted
  BY <1>30 DEF Reverted
<1>31. CASE SaveOpen
  BY <1>31 DEF SaveOpen
<1>32. CASE SaveWrite
  BY <1>32 DEF SaveWrite, Return
<1>33. CASE SaveFails
  BY <1>33 DEF SaveFails, Return
<1>34. CASE UNCHANGED vars
  BY <1>34 DEF vars
<1> QED
  BY <1>1, <1>2, <1>3, <1>4, <1>5, <1>6, <1>7, <1>8, <1>9, <1>10, <1>11, <1>12, <1>13, <1>14, <1>15, <1>16, <1>17, <1>18, <1>19, <1>20, <1>21, <1>22, <1>23, <1>24, <1>25, <1>26, <1>27, <1>28, <1>29, <1>30, <1>31, <1>32, <1>33, <1>34
    DEF Next, Call, Swap, Revert, Save

\* Every variable keeps its type.
THEOREM TypeCorrect == Spec => []TypeOK
<1>1. Init => TypeOK
  BY InitTypes
<1>2. TypeOK /\ [Next]_vars => TypeOK'
  BY StepTypes
<1> QED
  BY <1>1, <1>2, PTL DEF Spec

\* The flag is never behind Config.json: every step keeps FlagsInv.
LEMMA FlagsStep == ASSUME TypeOK, FlagsInv, Next, mishaps' = {} PROVE FlagsInv'
<1> USE DEF FlagsInv, SwapSteps, RevertSteps, SaveSteps, TypeOK
<1>1. CASE Launch \/ Crash
  BY <1>1 DEF Launch, Load, Crash, Die
<1>2. CASE Call
  BY <1>2 DEF Call, ApplyRevert, ApplyNothing, ApplySwap, ApplyRefused, ApplyDies,
     SaveElsewhere, Enter, Die
<1>3. CASE Swap
  BY <1>3 DEF Swap, OpenBackup, ReadPastEnd, FillBackup, FillBackupFails, WriteBlock,
     WriteBlockFails, PadBlock, PadBlockFails, NextBlock, MakeToc, MakeTocFails, MakeTocDies,
     Die, BackupToc, InstallToc, InstallToc2, Return
<1>4. CASE Revert
  BY <1>4 DEF Revert, RestoreToc, ListChunks, RestoreChunk, DeleteChunk, Reverted
<1>5. CASE Save
  BY <1>5 DEF Save, SaveOpen, SaveWrite, SaveFails, Return
<1> QED
  BY <1>1, <1>2, <1>3, <1>4, <1>5 DEF Next

\* A TOC is set aside before its place is taken, and only an original one.
LEMMA TocsStep ==
  ASSUME TypeOK, TypeOK', TocsInv, Next, mishaps' = {}
  PROVE  TocsInv'
<1> USE TwoContainers DEF TocsInv, SwapSteps, RevertSteps, SaveSteps, TypeOK
<1>1. CASE Launch \/ Crash
  BY <1>1 DEF Launch, Crash, Die
<1>2. CASE ApplySwap
  BY <1>2 DEF ApplySwap, Enter, Leftovers, Pristine
<1>3. CASE ApplyRevert
  BY <1>3 DEF ApplyRevert, Enter
<1>4. CASE ApplyNothing \/ ApplyRefused \/ ApplyDies \/ SaveElsewhere
  BY <1>4 DEF ApplyNothing, ApplyRefused, ApplyDies, SaveElsewhere, Enter, Die
<1>5. CASE OpenBackup \/ ReadPastEnd \/ FillBackup \/ FillBackupFails
  BY <1>5 DEF OpenBackup, ReadPastEnd, FillBackup, FillBackupFails, Return
<1>6. CASE WriteBlock \/ WriteBlockFails \/ PadBlock \/ PadBlockFails
  BY <1>6 DEF WriteBlock, WriteBlockFails, PadBlock, PadBlockFails, NextBlock, Return
<1>7. CASE \/ MakeToc(GameData, "MakeToc", "BackupToc")
           \/ MakeTocFails(GameData, "MakeToc")
           \/ MakeToc(DefaultPart, "MakeToc2", "BackupToc2")
           \/ MakeTocFails(DefaultPart, "MakeToc2")
           \/ MakeTocDies
  BY <1>7 DEF MakeToc, MakeTocFails, MakeTocDies, Die, Return
<1>8. CASE BackupToc(GameData, "BackupToc", "InstallToc")
  BY <1>8, SwapAssumption DEF SwapAssumption, BackupToc
<1>9. CASE InstallToc
  BY <1>9, SwapAssumption DEF SwapAssumption, InstallToc, RenameTamely
<1>10. CASE BackupToc(DefaultPart, "BackupToc2", "InstallToc2")
  BY <1>10, SwapAssumption DEF SwapAssumption, BackupToc
<1>11. CASE InstallToc2
  BY <1>11, SwapAssumption DEF SwapAssumption, InstallToc2, RenameTamely
<1>12. ASSUME NEW c \in Containers, RestoreToc(c) PROVE TocsInv'
  BY <1>12 DEF RestoreToc
<1>13. CASE ListChunks
  BY <1>13 DEF ListChunks
<1>14. CASE (\E o \in Cells : RestoreChunk(o)) \/ DeleteChunk \/ Reverted
  BY <1>14 DEF RestoreChunk, DeleteChunk, Reverted
<1>15. CASE Save
  BY <1>15 DEF Save, SaveOpen, SaveWrite, SaveFails, Return
<1> QED
  BY <1>1, <1>2, <1>3, <1>4, <1>5, <1>6, <1>7, <1>8, <1>9, <1>10, <1>11, <1>12, <1>13,
     <1>14, <1>15 DEF Next, Call, Swap, Revert

\* The block being written starts above everything written before it, and its
\* backup file covers it.
LEMMA CursorStep ==
  ASSUME TypeOK, TypeOK', FlagsInv, CursorInv, ChunksInv, Next, mishaps' = {}
  PROVE  CursorInv'
<1> USE CellsNat DEF CursorInv, SwapSteps, RevertSteps, SaveSteps, TypeOK
<1>1. CASE Launch \/ Crash
  BY <1>1 DEF Launch, Crash, Die
<1>2. CASE ApplySwap
  BY <1>2 DEF ApplySwap, Enter, Leftovers, Pristine
<1>3. CASE ApplyRevert \/ ApplyNothing \/ ApplyRefused \/ ApplyDies \/ SaveElsewhere
  BY <1>3 DEF ApplyRevert, ApplyNothing, ApplyRefused, ApplyDies, SaveElsewhere, Enter, Die
<1>4. CASE OpenBackup
  <2>1. PICK n \in 1 .. MaxSize :
          /\ Fits(n)
          /\ size' = n
          /\ UcasBackups' = [UcasBackups EXCEPT ![offset] =
               @ \cup {x \in Cells : offset <= x /\ x <= offset + n}]
    BY <1>4 DEF OpenBackup, CreateChunkFile
  <2>2. offset \in Cells /\ n \in Nat
    BY <2>1, SwapAssumption DEF SwapAssumption, Fits, Cells
  <2>3. offset' = offset /\ changed' = changed /\ pc = "Block" /\ pc' = "Backup"
    BY <1>4 DEF OpenBackup
  <2>4. Touched' \subseteq UcasBackups'[offset]
    <3>1. UcasBackups'[offset] =
            UcasBackups[offset] \cup {x \in Cells : offset <= x /\ x <= offset + n}
      BY <2>1, <2>2
    <3>2. \A x \in Touched' : x \in Cells /\ offset <= x /\ x <= offset + n
      BY <2>1, <2>2, <2>3 DEF Touched, Data, PadCell
    <3> QED
      BY <3>1, <3>2
  <2> QED
    BY <2>2, <2>3, <2>4
<1>5. CASE ReadPastEnd
  BY <1>5 DEF ReadPastEnd, Return
<1>6. CASE FillBackup \/ FillBackupFails
  <2>1. Touched' = Touched
    BY <1>6 DEF FillBackup, FillBackupFails, Touched, Data, PadCell
  <2>2. /\ pc = "Backup" /\ pc' = "Write"
        /\ offset' = offset /\ changed' = changed /\ UcasBackups' = UcasBackups
    BY <1>6 DEF FillBackup, FillBackupFails
  <2> QED
    BY <2>1, <2>2
<1>7. CASE WriteBlock
  <2>1. \A x \in Data : x < offset + size
    BY DEF Data
  <2>2. pc = "Write" /\ \A x \in changed : x < offset + size
    BY <1>7 DEF WriteBlock
  <2> QED
    BY <1>7, <2>1, <2>2 DEF WriteBlock, Touched, Data, PadCell
<1>8. CASE WriteBlockFails
  BY <1>8 DEF WriteBlockFails, Return
<1>9. CASE PadBlock
  <2>1. \A x \in changed \cup PadCell : x < offset + size + 1
    BY <1>9 DEF PadBlock, PadCell
  <2> QED
    BY <1>9, <2>1 DEF PadBlock, NextBlock
<1>10. CASE PadBlockFails
  BY <1>10 DEF PadBlockFails
<1>11. CASE \/ MakeToc(GameData, "MakeToc", "BackupToc")
            \/ MakeTocFails(GameData, "MakeToc")
            \/ BackupToc(GameData, "BackupToc", "InstallToc")
            \/ InstallToc
            \/ MakeToc(DefaultPart, "MakeToc2", "BackupToc2")
            \/ MakeTocFails(DefaultPart, "MakeToc2")
            \/ MakeTocDies
            \/ BackupToc(DefaultPart, "BackupToc2", "InstallToc2")
            \/ InstallToc2
  BY <1>11 DEF MakeToc, MakeTocFails, MakeTocDies, BackupToc, InstallToc, InstallToc2, Die, Return
<1>12. CASE (\E c \in Containers : RestoreToc(c)) \/ ListChunks \/ Reverted
  BY <1>12 DEF RestoreToc, ListChunks, Reverted
<1>13. ASSUME NEW o \in Cells, RestoreChunk(o) PROVE CursorInv'
  <2>1. stale[o] = {}
    BY <1>13 DEF RestoreChunk, FlagsInv, ChunksInv
  <2> QED
    BY <1>13, <2>1 DEF RestoreChunk
<1>14. CASE DeleteChunk
  BY <1>14 DEF DeleteChunk
<1>15. CASE Save
  BY <1>15 DEF Save, SaveOpen, SaveWrite, SaveFails, Return
<1> QED
  BY <1>1, <1>2, <1>3, <1>4, <1>5, <1>6, <1>7, <1>8, <1>9, <1>10, <1>11, <1>12, <1>13,
     <1>14, <1>15 DEF Next, Call, Swap, Revert

\* A chunk file is filled before its cells are overwritten, and deleted only
\* after they have been copied back.
LEMMA ChunksStep ==
  ASSUME TypeOK, TypeOK', FlagsInv, FlagsInv', CursorInv, CursorInv', ChunksInv, Next,
         mishaps' = {}
  PROVE  ChunksInv'
<1> USE CellsNat DEF ChunksInv, SwapSteps, RevertSteps, SaveSteps, TypeOK
<1>1. CASE Launch \/ Crash
  BY <1>1 DEF Launch, Load, Crash, Die
<1>2. CASE ApplySwap
  BY <1>2 DEF ApplySwap, Enter, Leftovers, Pristine
<1>3. CASE ApplyRevert \/ ApplyNothing \/ ApplyRefused \/ ApplyDies \/ SaveElsewhere
  BY <1>3 DEF ApplyRevert, ApplyNothing, ApplyRefused, ApplyDies, SaveElsewhere, Enter, Die
<1>4. CASE OpenBackup
  <2>1. PICK range \in SUBSET Cells :
          /\ UcasBackups' = [UcasBackups EXCEPT ![offset] = @ \cup range]
          /\ stale' = [stale EXCEPT ![offset] = @ \cup (range \ UcasBackups[offset])]
          /\ range \subseteq Touched'
    <3>1. PICK n \in 1 .. MaxSize :
            LET range == {x \in Cells : offset <= x /\ x <= offset + n}
            IN /\ size' = n
               /\ UcasBackups' = [UcasBackups EXCEPT ![offset] = @ \cup range]
               /\ stale' = [stale EXCEPT ![offset] = @ \cup (range \ UcasBackups[offset])]
      BY <1>4 DEF OpenBackup, CreateChunkFile
    <3>2. offset' = offset
      BY <1>4 DEF OpenBackup
    <3>3. n \in Nat
      BY SwapAssumption DEF SwapAssumption
    <3>4. {x \in Cells : offset <= x /\ x <= offset + n} \subseteq Touched'
      <4> SUFFICES ASSUME NEW x \in Cells, offset <= x, x <= offset + n
                   PROVE  x \in Touched'
        OBVIOUS
      <4>1. x < offset + n \/ x = offset + n
        BY <3>3
      <4> QED
        BY <4>1, <3>1, <3>2 DEF Touched, Data, PadCell
    <3> QED
      BY <3>1, <3>4
  <2>2. changed' = changed /\ offset' = offset /\ pc = "Block" /\ pc' = "Backup"
    BY <1>4 DEF OpenBackup
  <2>3. offset \in Cells
    BY <2>2 DEF CursorInv
  <2>4. \A o \in Cells : UcasBackups[o] \ stale[o] \subseteq UcasBackups'[o] \ stale'[o]
    BY <2>1, <2>3
  <2>5. bHasSwappedSkin' = bHasSwappedSkin /\ Config' = Config
    BY <1>4 DEF OpenBackup
  <2>6. ~bHasSwappedSkin /\ Config # "swapped"
    BY <2>2 DEF FlagsInv
  <2>7. \A o \in Cells : stale[o] = {}
    BY <2>2
  <2>8. stale'[offset] \subseteq Touched' /\ \A o \in Cells : o # offset => stale'[o] = {}
    <3>1. stale'[offset] = range \ UcasBackups[offset]
      BY <2>1, <2>3, <2>7
    <3>2. \A o \in Cells : o # offset => stale'[o] = stale[o]
      BY <2>1
    <3> QED
      BY <2>1, <2>7, <3>1, <3>2
  <2> QED
    BY <2>2, <2>4, <2>5, <2>6, <2>8
<1>5. CASE ReadPastEnd
  BY <1>5 DEF ReadPastEnd, Return
<1>6. CASE FillBackup
  <2>1. Touched \cap changed = {}
    <3>1. \A x \in changed : ~(offset <= x)
      <4>1. \A x \in changed : x \in Nat /\ x < offset
        BY <1>6 DEF FillBackup, CursorInv
      <4> QED
        BY <4>1
    <3>2. \A x \in Touched : offset <= x
      BY DEF Touched, Data, PadCell
    <3> QED
      BY <3>1, <3>2
  <2>2. \A o \in Cells : stale'[o] = {}
    BY <1>6, <2>1 DEF FillBackup, CursorInv
  <2> QED
    BY <1>6, <2>2 DEF FillBackup
<1>7. CASE FillBackupFails
  BY <1>7 DEF FillBackupFails
<1>8. CASE WriteBlock
  <2>1. offset \in Cells /\ Data \subseteq UcasBackups[offset] \ stale[offset]
    BY <1>8 DEF WriteBlock, CursorInv, Touched
  <2> QED
    BY <1>8, <2>1 DEF WriteBlock
<1>9. CASE WriteBlockFails
  <2>1. offset \in Cells /\ Data \subseteq UcasBackups[offset] \ stale[offset]
    BY <1>9 DEF WriteBlockFails, CursorInv, Touched
  <2> QED
    BY <1>9, <2>1 DEF WriteBlockFails, Return
<1>10. CASE PadBlock
  <2>1. offset \in Cells /\ PadCell \subseteq UcasBackups[offset] \ stale[offset]
    BY <1>10 DEF PadBlock, CursorInv, Touched
  <2>2. \A x \in changed' : \E o \in Cells : x \in UcasBackups'[o] \ stale'[o]
    BY <1>10, <2>1 DEF PadBlock
  <2> QED
    BY <1>10, <2>2 DEF PadBlock, NextBlock
<1>11. CASE PadBlockFails
  BY <1>11 DEF PadBlockFails
<1>12. CASE \/ MakeToc(GameData, "MakeToc", "BackupToc")
            \/ MakeTocFails(GameData, "MakeToc")
            \/ BackupToc(GameData, "BackupToc", "InstallToc")
            \/ InstallToc
            \/ MakeToc(DefaultPart, "MakeToc2", "BackupToc2")
            \/ MakeTocFails(DefaultPart, "MakeToc2")
            \/ MakeTocDies
            \/ BackupToc(DefaultPart, "BackupToc2", "InstallToc2")
            \/ InstallToc2
  BY <1>12 DEF MakeToc, MakeTocFails, MakeTocDies, BackupToc, InstallToc, InstallToc2, Die, Return
<1>13. CASE (\E c \in Containers : RestoreToc(c)) \/ ListChunks \/ Reverted
  BY <1>13 DEF RestoreToc, ListChunks, Reverted, FlagsInv
<1>14. ASSUME NEW o \in Cells, RestoreChunk(o) PROVE ChunksInv'
  <2>1. stale[o] = {}
    BY <1>14 DEF RestoreChunk, FlagsInv
  <2> QED
    BY <1>14, <2>1 DEF RestoreChunk
<1>15. CASE DeleteChunk
  <2>1. \A x \in changed : x \notin UcasBackups[offset]
    BY <1>15 DEF DeleteChunk, CursorInv
  <2> QED
    BY <1>15, <2>1 DEF DeleteChunk
<1>16. CASE Save
  BY <1>16 DEF Save, SaveOpen, SaveWrite, SaveFails, Return, FlagsInv
<1> QED
  BY <1>1, <1>2, <1>3, <1>4, <1>5, <1>6, <1>7, <1>8, <1>9, <1>10, <1>11, <1>12, <1>13,
     <1>14, <1>15, <1>16 DEF Next, Call, Swap, Revert

\* History only grows.
LEMMA MishapsGrow == ASSUME Next PROVE mishaps \subseteq mishaps'
<1>1. CASE Launch \/ Crash \/ Call
  BY <1>1 DEF Launch, Crash, Die, Call, Enter, ApplyRevert, ApplyNothing, ApplySwap,
     ApplyRefused, ApplyDies, SaveElsewhere
<1>2. CASE Swap
  BY <1>2 DEF Swap, OpenBackup, ReadPastEnd, FillBackup, FillBackupFails, WriteBlock,
     WriteBlockFails, PadBlock, PadBlockFails, MakeToc, MakeTocFails, MakeTocDies, Die,
     BackupToc, InstallToc, InstallToc2, RenameTamely
<1>3. CASE Revert \/ Save
  BY <1>3 DEF Revert, RestoreToc, ListChunks, RestoreChunk, DeleteChunk, Reverted, Save,
     SaveOpen, SaveWrite, SaveFails
<1> QED
  BY <1>1, <1>2, <1>3 DEF Next

\* SwapInv is inductive.
THEOREM SwapInvariant == Spec => []SwapInv
<1>1. Init => SwapInv
  <2> SUFFICES ASSUME Init PROVE SwapInv
    OBVIOUS
  <2>1. TypeOK
    BY InitTypes
  <2>2. SafeInv
    BY DEF Init, SafeInv, FlagsInv, TocsInv, CursorInv, ChunksInv, SwapSteps, RevertSteps
  <2> QED
    BY <2>1, <2>2 DEF SwapInv
<1>2. SwapInv /\ [Next]_vars => SwapInv'
  <2> SUFFICES ASSUME SwapInv, [Next]_vars PROVE SwapInv'
    OBVIOUS
  <2>1. TypeOK'
    BY StepTypes DEF SwapInv
  <2>2. CASE Next
    <3> SUFFICES ASSUME mishaps' = {} PROVE SafeInv'
      BY <2>1 DEF SwapInv
    <3>1. TypeOK /\ SafeInv
      BY <2>2, MishapsGrow DEF SwapInv
    <3>2. FlagsInv'
      BY <2>2, <3>1, FlagsStep DEF SafeInv
    <3>3. TocsInv'
      BY <2>1, <2>2, <3>1, TocsStep DEF SafeInv
    <3>4. CursorInv'
      BY <2>1, <2>2, <3>1, CursorStep DEF SafeInv
    <3>5. ChunksInv'
      BY <2>1, <2>2, <3>1, <3>2, <3>4, ChunksStep DEF SafeInv
    <3> QED
      BY <3>2, <3>3, <3>4, <3>5 DEF SafeInv
  <2>3. CASE UNCHANGED vars
    BY <2>1, <2>3 DEF vars, SwapInv, SafeInv, FlagsInv, TocsInv, CursorInv, ChunksInv,
       Touched, Data, PadCell
  <2> QED
    BY <2>2, <2>3
<1> QED
  BY <1>1, <1>2, PTL DEF Spec

\* The game's own TOCs and bytes are never lost.
THEOREM OriginalsAreKept == Spec => []OriginalsKept
<1>1. SwapInv => OriginalsKept
  BY DEF SwapInv, SafeInv, TocsInv, ChunksInv, OriginalsKept
<1> QED
  BY <1>1, SwapInvariant, PTL

\* Whenever a flag says "swapped", everything can be put back.
THEOREM FlagIsRevertible == Spec => []FlagMeansRevertible
<1>1. SwapInv => FlagMeansRevertible
  <2> SUFFICES ASSUME SwapInv, mishaps = {}, bHasSwappedSkin \/ Config = "swapped"
               PROVE  /\ \A c \in Containers : utoc[c] = "original" \/ TocBackups[c] = "original"
                      /\ changed \subseteq UNION {UcasBackups[o] : o \in Cells}
                      /\ \A o \in Cells : stale[o] = {}
    BY DEF FlagMeansRevertible
  <2>1. TocsInv /\ ChunksInv
    BY DEF SwapInv, SafeInv
  <2> QED
    BY <2>1 DEF TocsInv, ChunksInv
<1> QED
  BY <1>1, SwapInvariant, PTL

\* A revert that reports success has put everything back.
THEOREM RevertIsComplete == Spec => RevertRestores
<1>1. SwapInv /\ [Next]_vars =>
        ((bHasSwappedSkin /\ ~bHasSwappedSkin' /\ pc' # "Down" /\ mishaps = {}) => Pristine')
  <2> SUFFICES ASSUME SwapInv, [Next]_vars, bHasSwappedSkin, ~bHasSwappedSkin',
                      pc' # "Down", mishaps = {}
               PROVE  Pristine'
    OBVIOUS
  <2>1. FlagsInv /\ TocsInv /\ ChunksInv
    BY DEF SwapInv, SafeInv
  <2>2. Reverted
    <3>1. ~ UNCHANGED vars
      BY DEF vars
    <3>2. ~ (Launch \/ Crash)
      BY <2>1 DEF Launch, Crash, Die, FlagsInv
    <3>3. ~ Call
      BY DEF Call, ApplyRevert, ApplyNothing, ApplySwap, ApplyRefused, ApplyDies, SaveElsewhere,
         Enter
    <3>4. ~ Swap
      BY DEF Swap, OpenBackup, ReadPastEnd, FillBackup, FillBackupFails, WriteBlock,
         WriteBlockFails, PadBlock, PadBlockFails, MakeToc, MakeTocFails, MakeTocDies, Die,
         BackupToc, InstallToc, InstallToc2
    <3>5. ~ Save
      BY DEF Save, SaveOpen, SaveWrite, SaveFails
    <3> QED
      BY <3>1, <3>2, <3>3, <3>4, <3>5
         DEF Next, Revert, RestoreToc, ListChunks, RestoreChunk, DeleteChunk
  <2>3. \A o \in Cells : UcasBackups[o] = {}
    BY <2>1, <2>2 DEF Reverted, ChunksInv
  <2>4. changed = {}
    <3>1. \A x \in changed : \E o \in Cells : x \in UcasBackups[o]
      BY <2>1 DEF ChunksInv
    <3> QED
      BY <2>3, <3>1
  <2>5. \A c \in Containers : utoc[c] = "original"
    BY <2>1, <2>2 DEF Reverted, TocsInv
  <2> QED
    BY <2>2, <2>4, <2>5 DEF Reverted, Pristine
<1> QED
  BY <1>1, SwapInvariant, PTL DEF Spec, RevertRestores

-----------------------------------------------------------------------------
\* A swap that began over a game as shipped finds each TOC in its place until it moves
\* it itself, whatever else fails.
HomeInv ==
  "reswap" \notin mishaps =>
    /\ pc \in {"Block", "Backup", "Write", "Pad", "MakeToc", "BackupToc"}
         => utoc[GameData] = "original"
    /\ pc \in {"Block", "Backup", "Write", "Pad", "MakeToc", "BackupToc", "InstallToc",
               "MakeToc2", "BackupToc2"}
         => utoc[DefaultPart] = "original"

LEMMA HomeStep ==
  ASSUME TypeOK, HomeInv, Next
  PROVE  HomeInv'
<1> USE MishapsGrow, TwoContainers, SwapAssumption
    DEF SwapAssumption, HomeInv, TypeOK, SwapSteps, RevertSteps, SaveSteps
<1>1. CASE Launch \/ Crash
  BY <1>1 DEF Launch, Crash, Die
<1>2. CASE ApplySwap
  BY <1>2 DEF ApplySwap, Enter, Leftovers, Pristine
<1>3. CASE ApplyRevert \/ ApplyNothing \/ ApplyRefused \/ ApplyDies \/ SaveElsewhere
  BY <1>3 DEF ApplyRevert, ApplyNothing, ApplyRefused, ApplyDies, SaveElsewhere, Enter, Die
<1>4. CASE OpenBackup \/ ReadPastEnd \/ FillBackup \/ FillBackupFails
  BY <1>4 DEF OpenBackup, ReadPastEnd, FillBackup, FillBackupFails, Return
<1>5. CASE WriteBlock \/ WriteBlockFails \/ PadBlock \/ PadBlockFails
  BY <1>5 DEF WriteBlock, WriteBlockFails, PadBlock, PadBlockFails, NextBlock, Return
<1>6. CASE \/ MakeToc(GameData, "MakeToc", "BackupToc")
           \/ MakeTocFails(GameData, "MakeToc")
           \/ MakeToc(DefaultPart, "MakeToc2", "BackupToc2")
           \/ MakeTocFails(DefaultPart, "MakeToc2")
           \/ MakeTocDies
  BY <1>6 DEF MakeToc, MakeTocFails, MakeTocDies, Die, Return
<1>7. CASE BackupToc(GameData, "BackupToc", "InstallToc")
  BY <1>7 DEF BackupToc
<1>8. CASE InstallToc
  BY <1>8 DEF InstallToc, RenameTamely
<1>9. CASE BackupToc(DefaultPart, "BackupToc2", "InstallToc2") \/ InstallToc2
  BY <1>9 DEF BackupToc, InstallToc2, RenameTamely
<1>10. CASE Revert
  BY <1>10 DEF Revert, RestoreToc, ListChunks, RestoreChunk, DeleteChunk, Reverted
<1>11. CASE Save
  BY <1>11 DEF Save, SaveOpen, SaveWrite, SaveFails, Return
<1> QED
  BY <1>1, <1>2, <1>3, <1>4, <1>5, <1>6, <1>7, <1>8, <1>9, <1>10, <1>11 DEF Next, Call, Swap

LEMMA HomeInvariant == Spec => [](TypeOK /\ HomeInv)
<1>1. Init => TypeOK /\ HomeInv
  BY InitTypes DEF Init, HomeInv
<1>2. TypeOK /\ HomeInv /\ [Next]_vars => (TypeOK /\ HomeInv)'
  <2>1. ASSUME UNCHANGED vars, HomeInv PROVE HomeInv'
    BY <2>1 DEF vars, HomeInv
  <2> QED BY <2>1, StepTypes, HomeStep
<1> QED
  BY <1>1, <1>2, PTL DEF Spec

\* An original TOC is not overwritten in TocBackups and leaves it only for its place,
\* after any failures (FortniteFunctionLibrary.cpp:206-222, 454-456, 499-501).
THEOREM BackupsGoHome == Spec => BackupGoesHome
<1>1. TypeOK /\ HomeInv /\ [Next]_vars =>
        \A c \in Containers :
          (TocBackups[c] = "original" /\ TocBackups'[c] # "original")
            => utoc'[c] = "original" \/ "reswap" \in mishaps
  <2> SUFFICES ASSUME TypeOK, HomeInv, [Next]_vars, NEW c \in Containers,
                      TocBackups[c] = "original", TocBackups'[c] # "original",
                      "reswap" \notin mishaps
               PROVE  utoc'[c] = "original"
    OBVIOUS
  <2>0. Swap \/ Revert
    BY DEF vars, Next, Launch, Crash, Die, Call, Enter, ApplyRevert, ApplyNothing, ApplySwap,
       ApplyRefused, ApplyDies, SaveElsewhere, Save, SaveOpen, SaveWrite, SaveFails
  <2>1. CASE Revert
    <3>1. PICK d \in Containers : RestoreToc(d)
      BY <2>1 DEF Revert, ListChunks, RestoreChunk, DeleteChunk, Reverted
    <3> QED
      BY <3>1 DEF RestoreToc, TypeOK
  <2>2. CASE Swap
    <3>1. \/ BackupToc(GameData, "BackupToc", "InstallToc")
          \/ BackupToc(DefaultPart, "BackupToc2", "InstallToc2")
      BY <2>2 DEF Swap, OpenBackup, ReadPastEnd, FillBackup, FillBackupFails, WriteBlock,
         WriteBlockFails, PadBlock, PadBlockFails, MakeToc, MakeTocFails, MakeTocDies, Die,
         InstallToc, InstallToc2
    <3> QED
      BY <3>1 DEF BackupToc, HomeInv, TypeOK, Containers
  <2> QED
    BY <2>0, <2>1, <2>2
<1> QED
  BY <1>1, HomeInvariant, PTL DEF Spec, BackupGoesHome

-----------------------------------------------------------------------------
\* How far a swap has come.
ProgressInv ==
  /\ pc \in {"Backup", "Write", "Pad"} => offset + size <= LastCell
  /\ pc \in {"Block", "Backup", "Write"} => 0 .. offset - 1 \subseteq changed
  /\ pc = "Pad" => 0 .. offset + size - 1 \subseteq changed
  /\ pc \in {"MakeToc", "BackupToc", "InstallToc", "MakeToc2", "BackupToc2", "InstallToc2"}
       => block = NewBlockCount /\ 0 .. offset - 1 \subseteq changed
  /\ pc \in {"BackupToc", "InstallToc"} => utocTamely[GameData] = "patched"
  /\ pc \in {"MakeToc2", "BackupToc2", "InstallToc2"} =>
       utoc[GameData] = "patched" /\ TocBackups[GameData] = "original"
  /\ pc \in {"BackupToc2", "InstallToc2"} => utocTamely[DefaultPart] = "patched"

LEMMA BlockStep ==
  ASSUME TypeOK, ProgressInv,
         \/ OpenBackup \/ FillBackup \/ WriteBlock \/ PadBlock
  PROVE  ProgressInv'
<1> USE SwapAssumption DEF SwapAssumption
<1>1. CASE OpenBackup
  <2>1. /\ pc = "Block" /\ pc' = "Backup" /\ UNCHANGED <<offset, changed>>
        /\ offset + size' <= LastCell
    BY <1>1 DEF OpenBackup, Fits
  <2> QED
    BY <2>1 DEF ProgressInv
<1>2. CASE FillBackup
  BY <1>2 DEF FillBackup, ProgressInv
<1>3. CASE WriteBlock
  <2>1. offset + size <= LastCell /\ offset \in Nat /\ size \in Nat
    BY <1>3 DEF WriteBlock, ProgressInv, TypeOK
  <2>2. 0 .. offset - 1 \subseteq changed /\ changed' = changed \cup Data
    BY <1>3 DEF WriteBlock, ProgressInv
  <2>3. 0 .. offset + size - 1 \subseteq changed'
    BY <2>1, <2>2 DEF Data, Cells
  <2> QED
    BY <1>3, <2>1, <2>3 DEF WriteBlock, ProgressInv
<1>4. CASE PadBlock
  <2>1. offset + size <= LastCell /\ offset \in Nat /\ size \in Nat
    BY <1>4 DEF PadBlock, ProgressInv, TypeOK
  <2>2. 0 .. offset + size - 1 \subseteq changed /\ changed' = changed \cup PadCell
    BY <1>4 DEF PadBlock, ProgressInv
  <2>3. 0 .. offset' - 1 \subseteq changed' /\ offset' = offset + size + 1
    BY <1>4, <2>1, <2>2 DEF PadBlock, PadCell, Cells
  <2>4. pc' = "Block" \/ (pc' = "MakeToc" /\ block' = NewBlockCount)
    BY <1>4 DEF PadBlock, NextBlock, TypeOK
  <2> QED
    BY <2>3, <2>4 DEF ProgressInv
<1> QED
  BY <1>1, <1>2, <1>3, <1>4

LEMMA ProgressStep ==
  ASSUME TypeOK, TocsInv, ProgressInv, Next, mishaps = {}, mishaps' = {}
  PROVE  ProgressInv'
<1> USE SwapAssumption, TwoContainers DEF SwapAssumption, TypeOK, SwapSteps, RevertSteps, SaveSteps
<1>1. CASE Launch \/ Crash
  BY <1>1 DEF Launch, Crash, Die, ProgressInv
<1>2. CASE ApplySwap
  BY <1>2 DEF ApplySwap, Enter, ProgressInv
<1>3. CASE ApplyRevert \/ ApplyNothing \/ ApplyRefused \/ ApplyDies \/ SaveElsewhere
  BY <1>3 DEF ApplyRevert, ApplyNothing, ApplyRefused, ApplyDies, SaveElsewhere, Enter, Die,
     ProgressInv
<1>4. CASE OpenBackup \/ FillBackup \/ WriteBlock \/ PadBlock
  BY <1>4, BlockStep
<1>5. CASE ReadPastEnd \/ WriteBlockFails
  BY <1>5 DEF ReadPastEnd, WriteBlockFails, Return, ProgressInv
<1>6. CASE FillBackupFails \/ PadBlockFails
  BY <1>6 DEF FillBackupFails, PadBlockFails
<1>7. CASE MakeToc(GameData, "MakeToc", "BackupToc") \/ MakeToc(DefaultPart, "MakeToc2", "BackupToc2")
  BY <1>7 DEF MakeToc, ProgressInv
<1>8. CASE MakeTocFails(GameData, "MakeToc") \/ MakeTocFails(DefaultPart, "MakeToc2") \/ MakeTocDies
  BY <1>8 DEF MakeTocFails, MakeTocDies, Die, Return, ProgressInv
<1>9. CASE BackupToc(GameData, "BackupToc", "InstallToc")
  BY <1>9 DEF BackupToc, ProgressInv
<1>10. CASE InstallToc
  BY <1>10 DEF InstallToc, RenameTamely, ProgressInv, TocsInv
<1>11. CASE BackupToc(DefaultPart, "BackupToc2", "InstallToc2")
  BY <1>11 DEF BackupToc, ProgressInv
<1>12. CASE InstallToc2
  BY <1>12 DEF InstallToc2, ProgressInv
<1>13. CASE Revert
  BY <1>13 DEF Revert, RestoreToc, ListChunks, RestoreChunk, DeleteChunk, Reverted, ProgressInv
<1>14. CASE Save
  BY <1>14 DEF Save, SaveOpen, SaveWrite, SaveFails, Return, ProgressInv
<1> QED
  BY <1>1, <1>2, <1>3, <1>4, <1>5, <1>6, <1>7, <1>8, <1>9, <1>10, <1>11, <1>12, <1>13, <1>14
  DEF Next, Call, Swap

LEMMA ProgressInvariant == Spec => [](SwapInv /\ (mishaps = {} => ProgressInv))
<1>1. Init => (mishaps = {} => ProgressInv)
  BY DEF Init, ProgressInv
<1>2. SwapInv /\ (mishaps = {} => ProgressInv) /\ [Next]_vars => (mishaps = {} => ProgressInv)'
  <2>1. CASE UNCHANGED vars
    BY <2>1 DEF vars, ProgressInv
  <2>2. CASE Next
    BY <2>2, MishapsGrow, ProgressStep DEF SwapInv, SafeInv
  <2> QED BY <2>1, <2>2
<1> QED
  BY <1>1, <1>2, SwapInvariant, PTL DEF Spec

\* The flag is set over a complete swap only: every cell up to the end of the last block
\* is written and both TOCs are in place (FortniteFunctionLibrary.cpp:373-511).
THEOREM SwapIsComplete == Spec => SwapInstalls
<1>1. SwapInv /\ (mishaps = {} => ProgressInv) /\ [Next]_vars =>
        ((pc # "Down" /\ ~bHasSwappedSkin /\ bHasSwappedSkin' /\ mishaps' = {})
           => /\ \A c \in Containers : utoc'[c] = "patched" /\ TocBackups'[c] = "original"
              /\ block' = NewBlockCount
              /\ 0 .. offset' - 1 \subseteq changed')
  <2> SUFFICES ASSUME SwapInv, mishaps = {} => ProgressInv, [Next]_vars, pc # "Down",
                      ~bHasSwappedSkin, bHasSwappedSkin', mishaps' = {}
               PROVE  /\ \A c \in Containers : utoc'[c] = "patched" /\ TocBackups'[c] = "original"
                      /\ block' = NewBlockCount
                      /\ 0 .. offset' - 1 \subseteq changed'
    OBVIOUS
  <2>1. ~ UNCHANGED vars /\ Next
    BY DEF vars
  <2>2. mishaps = {} /\ TypeOK /\ TocsInv /\ ProgressInv
    BY <2>1, MishapsGrow DEF SwapInv, SafeInv
  <2>3. InstallToc2
    <3>1. ~ (Launch \/ Crash \/ Call)
      BY DEF Launch, Crash, Die, Call, ApplyRevert, ApplyNothing, ApplySwap, ApplyRefused,
         ApplyDies, SaveElsewhere, Enter
    <3>2. ~ (Revert \/ Save)
      BY DEF Revert, RestoreToc, ListChunks, RestoreChunk, DeleteChunk, Reverted, Save,
         SaveOpen, SaveWrite, SaveFails
    <3> QED
      BY <2>1, <3>1, <3>2 DEF Next, Swap, OpenBackup, ReadPastEnd, FillBackup, FillBackupFails,
         WriteBlock, WriteBlockFails, PadBlock, PadBlockFails, MakeToc, MakeTocFails,
         MakeTocDies, Die, BackupToc, InstallToc
  <2> QED
    BY <2>2, <2>3, SwapAssumption DEF SwapAssumption, InstallToc2, RenameTamely, TypeOK,
       Containers, TocsInv, ProgressInv
<1> QED
  BY <1>1, ProgressInvariant, PTL DEF Spec, SwapInstalls
=============================================================================
