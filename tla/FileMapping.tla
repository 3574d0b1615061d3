----------------------------- MODULE FileMapping -----------------------------
(***************************************************************************)
(* FFileReader: several readers of one file, each with a memory mapping    *)
(* and a size of its own, coordinated by the static registry               *)
(* ActiveReaders.  A reader that writes unmaps all others first and makes  *)
(* them map the file again afterwards.  Each call runs on the thread that  *)
(* swaps, so it is one step; any operating system call in it may fail.     *)
(***************************************************************************)
EXTENDS Integers, Sequences, SequencesExt

CONSTANTS
  Readers,   \* FFileReader objects
  Lengths,   \* of what is read or written
  MaxSize,   \* bound: the size the file may reach
  MaxFaults  \* bound: operating system calls that fail

ASSUME MappingAssumption ==
  Lengths \subseteq Nat \ {0} /\ MaxSize \in Nat \ {0} /\ MaxFaults \in Nat

VARIABLES
  size,           \* of the file on disk
  ActiveReaders,  \* the registry's entry for the file, in order of registration
  reader,         \* by reader: its mapping, FileSize and FilePosition
  closed,         \* readers their owner closed, and will only delete
  result,         \* of WriteBuffer or TrimToSize, if that was the last call
  crashed,        \* an access through a null mapping
  faults          \* counter for the bound

vars == <<size, ActiveReaders, reader, closed, result, crashed, faults>>

State == [mapped : BOOLEAN, FileSize : 0 .. MaxSize, FilePosition : 0 .. MaxSize]
Live == ToSet(ActiveReaders)

TypeOK ==
  /\ size \in 0 .. MaxSize
  /\ ActiveReaders \in Seq(Readers) /\ IsInjective(ActiveReaders)
  /\ reader \in [Readers -> State]
  /\ closed \subseteq Live
  /\ result \in {"none", "true", "false"}
  /\ crashed \in BOOLEAN
  /\ faults \in 0 .. MaxFaults

Init ==
  /\ size \in 0 .. MaxSize
  /\ ActiveReaders = <<>>
  /\ reader = [r \in Readers |-> [mapped |-> FALSE, FileSize |-> 0, FilePosition |-> 0]]
  /\ closed = {}
  /\ result = "none" /\ crashed = FALSE /\ faults = 0

-----------------------------------------------------------------------------
(***************************************************************************)
(* Mapping and unmapping.                                                  *)
(***************************************************************************)

\* openFileForMapping gives an empty file one byte, to have something to map.
Mappable(n) == IF n = 0 THEN 1 ELSE n

Opened(n) == [mapped |-> TRUE, FileSize |-> Mappable(n), FilePosition |-> 0]
Unmapped(s) == [s EXCEPT !.mapped = FALSE]

\* Wrong: the others keep their mappings.
UnmapNobody(r) == reader
UnmapOthers(r) == [q \in Readers |-> IF q \in Live \ {r} THEN Unmapped(reader[q]) ELSE reader[q]]

\* Wrong: everyone is told but the one registered last.
RemapAllButLast(r, k, n, own) ==
  [q \in Readers |->
     IF q = r THEN own
     ELSE IF \E i \in 1 .. k : ActiveReaders[i] = q /\ i < Len(ActiveReaders) THEN Opened(n)
     ELSE UnmapOthers(r)[q]]

\* notifyReadersToRemap(r), up to the k-th of ActiveReaders: they map n bytes.
Remap(r, k, n, own) ==
  [q \in Readers |->
     IF q = r THEN own
     ELSE IF \E i \in 1 .. k : ActiveReaders[i] = q THEN Opened(n)
     ELSE UnmapOthers(r)[q]]

Fault == faults < MaxFaults /\ faults' = faults + 1
Using(r) == r \in Live \ closed /\ ~crashed

-----------------------------------------------------------------------------
(***************************************************************************)
(* Construction, destruction, Close, Seek, Serialize.                      *)
(***************************************************************************)
New(r) ==
  /\ r \notin Live /\ ~crashed
  /\ size' = Mappable(size)
  /\ reader' = [reader EXCEPT ![r] = Opened(size)]
  /\ ActiveReaders' = Append(ActiveReaders, r)
  /\ result' = "none"
  /\ UNCHANGED <<closed, crashed, faults>>

Delete(r) ==
  /\ ~crashed
  /\ \E i \in DOMAIN ActiveReaders :
       ActiveReaders[i] = r /\ ActiveReaders' = RemoveAt(ActiveReaders, i)
  /\ closed' = closed \ {r}
  /\ reader' = [reader EXCEPT ![r] = Unmapped(@)]
  /\ result' = "none"
  /\ UNCHANGED <<size, crashed, faults>>

Close(r) ==
  /\ Using(r)
  /\ closed' = closed \cup {r}
  /\ reader' = [reader EXCEPT ![r] = Unmapped(@)]
  /\ result' = "none"
  /\ UNCHANGED <<size, ActiveReaders, crashed, faults>>

\* Past the end it throws, and moves nothing.
Seek(r, pos) ==
  /\ Using(r)
  /\ pos <= reader[r].FileSize
  /\ reader' = [reader EXCEPT ![r].FilePosition = pos]
  /\ result' = "none"
  /\ UNCHANGED <<size, ActiveReaders, closed, crashed, faults>>

\* Wrong: one byte too many.
FitsInclusive(r, len) == reader[r].FilePosition + len <= reader[r].FileSize + 1
Fits(r, len) == reader[r].FilePosition + len <= reader[r].FileSize

\* Only the size is looked at, not the mapping.  What does not fit is refused.
Serialize(r, len) ==
  /\ Using(r)
  /\ Fits(r, len)
  /\ crashed' = ~reader[r].mapped
  /\ reader' = [reader EXCEPT ![r].FilePosition = @ + len]
  /\ result' = "none"
  /\ UNCHANGED <<size, ActiveReaders, closed, faults>>

-----------------------------------------------------------------------------
(***************************************************************************)
(* WriteBuffer.                                                            *)
(***************************************************************************)
End(r, len) == reader[r].FilePosition + len
Extended(r, len) == IF Fits(r, len) THEN reader[r].FileSize ELSE End(r, len)
Written(r, len) == [reader[r] EXCEPT !.FileSize = Extended(r, len)]

CanWrite(r, len) ==
  Using(r) /\ reader[r].mapped /\ End(r, len) <= MaxSize

WriteRefused(r) ==
  /\ Using(r)
  /\ ~reader[r].mapped
  /\ result' = "false"
  /\ UNCHANGED <<size, ActiveReaders, reader, closed, crashed, faults>>

WriteBuffer(r, len) ==
  /\ CanWrite(r, len)
  /\ size' = Extended(r, len)
  /\ reader' = Remap(r, Len(ActiveReaders), size',
                     [Written(r, len) EXCEPT !.FilePosition = End(r, len)])
  /\ result' = "true"
  /\ UNCHANGED <<ActiveReaders, closed, crashed, faults>>

\* extendFile throws before or after the file has grown, its own view is gone.
ExtendFails(r, len) ==
  /\ CanWrite(r, len) /\ ~Fits(r, len)
  /\ Fault
  /\ size' \in {size, End(r, len)}
  /\ reader' = [UnmapOthers(r) EXCEPT ![r] = Unmapped(@)]
  /\ result' = "false"
  /\ UNCHANGED <<ActiveReaders, closed, crashed>>

\* The data is in the view already; the others are not mapped again.
FlushFails(r, len) ==
  /\ CanWrite(r, len)
  /\ Fault
  /\ size' = Extended(r, len)
  /\ reader' = [UnmapOthers(r) EXCEPT ![r] = Written(r, len)]
  /\ result' = "false"
  /\ UNCHANGED <<ActiveReaders, closed, crashed>>

\* A reader that cannot map the file again throws; those after it stay unmapped.
RemapFails(r, len) ==
  /\ CanWrite(r, len)
  /\ Fault
  /\ size' = Extended(r, len)
  /\ \E k \in 0 .. Len(ActiveReaders) - 1 :
       /\ ActiveReaders[k + 1] # r
       /\ reader' = Remap(r, k, size', [Written(r, len) EXCEPT !.FilePosition = End(r, len)])
  /\ result' = "false"
  /\ UNCHANGED <<ActiveReaders, closed, crashed>>

-----------------------------------------------------------------------------
(***************************************************************************)
(* TrimToSize.                                                             *)
(***************************************************************************)
MayTrim(r, force) == Len(ActiveReaders) = 1 \/ force

TrimRefused(r, n, force) ==
  /\ Using(r)
  /\ n > reader[r].FileSize \/ ~MayTrim(r, force)
  /\ result' = "false"
  /\ UNCHANGED <<size, ActiveReaders, reader, closed, crashed, faults>>

\* All mappings are closed, the file is cut and all are mapped again.
TrimToSize(r, n, force) ==
  /\ Using(r)
  /\ n <= reader[r].FileSize /\ MayTrim(r, force)
  /\ size' = Mappable(n)
  /\ reader' = Remap(r, Len(ActiveReaders), n, Opened(n))
  /\ result' = "true"
  /\ UNCHANGED <<ActiveReaders, closed, crashed, faults>>

TrimmedOnly(r, n) ==
  [mapped |-> FALSE,
   FileSize |-> IF n < size THEN n ELSE reader[r].FileSize,
   FilePosition |-> IF n < reader[r].FilePosition THEN n ELSE reader[r].FilePosition]

\* Cutting fails, or mapping again does once or twice: what the handlers manage to
\* map has the size the file has by then.
TrimFails(r, n, force) ==
  /\ Using(r)
  /\ n <= reader[r].FileSize /\ MayTrim(r, force)
  /\ Fault
  /\ \E cut \in {size, n}, k \in 0 .. Len(ActiveReaders), own \in BOOLEAN :
       /\ reader' = Remap(r, k, cut, IF own THEN Opened(cut) ELSE TrimmedOnly(r, cut))
       /\ size' = IF \E q \in Readers : reader'[q].mapped THEN Mappable(cut) ELSE cut
  /\ result' = "false"
  /\ UNCHANGED <<ActiveReaders, closed, crashed>>

-----------------------------------------------------------------------------
Write(r, len) ==
  WriteBuffer(r, len) \/ ExtendFails(r, len) \/ FlushFails(r, len) \/ RemapFails(r, len)
Trim(r, n, force) ==
  TrimToSize(r, n, force) \/ TrimRefused(r, n, force) \/ TrimFails(r, n, force)

Next ==
  \E r \in Readers :
    \/ New(r) \/ Delete(r) \/ Close(r) \/ WriteRefused(r)
    \/ \E pos \in 0 .. MaxSize : Seek(r, pos)
    \/ \E len \in Lengths : Serialize(r, len) \/ Write(r, len)
    \/ \E n \in 0 .. MaxSize, force \in BOOLEAN : Trim(r, n, force)

Spec == Init /\ [][Next]_vars

-----------------------------------------------------------------------------
(***************************************************************************)
(* Properties.                                                             *)
(***************************************************************************)

\* Whatever failed, a reader that has a mapping knows the size the file really has:
\* Seek and Serialize never reach behind its end or stop before it
\* (FileReader.cpp:81-85, 108, 225-232).
SizesAgree ==
  \A r \in Live : reader[r].mapped => reader[r].FileSize = size

\* A WriteBuffer or TrimToSize that says true leaves every registered reader mapped
\* (FileReader.cpp:108-110, 204-210), those an earlier failure had left unmapped too.
SuccessRemapsAll == result = "true" => \A r \in Live : reader[r].mapped
=============================================================================
