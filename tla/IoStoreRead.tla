----------------------------- MODULE IoStoreRead -----------------------------
(***************************************************************************)
(* Reading a chunk out of a mounted container: FIoStoreReader::Read and    *)
(* the asynchronous block reads it starts.  Read keeps two buffers: while  *)
(* it decodes the block in one, a task reads the next block into the       *)
(* other.  All tasks of all threads share the container's file handles,    *)
(* chosen in turn and held under a lock.                                   *)
(*                                                                         *)
(* The blocks of the .ucas lie one after the other, so how much of a chunk *)
(* can be read is one number: the blocks before it read well, the block at *)
(* it is cut short (Serialize refuses), and those after it begin past the  *)
(* end of the file (Seek throws).                                          *)
(***************************************************************************)
EXTENDS Integers, FiniteSets

CONSTANTS
  Threads,     \* threads that call Read
  LastBlock,   \* the container's blocks are 0 .. LastBlock
  Readables,   \* how many blocks the file may hold
  Corrupt,     \* blocks that come out all zero: how Read tells a failed decompression
  NumHandles,  \* NumHandlesPerFile: 12
  IndexWidth,  \* NextHandleIndex wraps here: 2^32
  MaxReads,    \* bound: calls of Read per thread
  Free         \* a handle lock nobody holds

Blocks == 0 .. LastBlock
Handles == 0 .. NumHandles - 1
Tasks == Threads \X Blocks
Junk == LastBlock + 1   \* bytes of no block

ASSUME ReadAssumption ==
  /\ LastBlock \in Nat
  /\ Readables \subseteq Nat
  /\ Corrupt \subseteq Blocks
  /\ NumHandles \in Nat \ {0}
  /\ IndexWidth \in Nat \ {0}
  /\ MaxReads \in Nat
  /\ Free \notin Tasks

VARIABLES
  readable,           \* blocks the file holds in full
  pc,                 \* where Read is
  FirstBlockIndex, LastBlockIndex, BlockIndex,
  CompressedBuffers,  \* by thread and buffer: the block whose bytes it holds
  AsyncReadSucceeded, \* by thread and buffer
  Uncompressed,       \* UncompressedBuffer: by block, the block decoded there
  result,             \* what the last Read returned
  task,               \* the asynchronous read of a block
  OurIndex,           \* the handle it was given
  NextHandleIndex,
  HandleLock,         \* the task inside, or Free
  abandoned,          \* locks that an exception left locked
  reads               \* counter for the bound

vars == <<readable, pc, FirstBlockIndex, LastBlockIndex, BlockIndex, CompressedBuffers,
          AsyncReadSucceeded, Uncompressed, result, task, OurIndex,
          NextHandleIndex, HandleLock, abandoned, reads>>
range   == <<FirstBlockIndex, LastBlockIndex>>
outcome == <<Uncompressed, result>>
handles == <<OurIndex, NextHandleIndex, HandleLock, abandoned>>
buffers == <<CompressedBuffers, AsyncReadSucceeded>>

InFlight == {"started", "waiting", "locked", "reading", "stored"}
Inside == {"locked", "reading", "stored"}
Ended == {"none", "done", "thrown"}

TypeOK ==
  /\ readable \in Nat
  /\ pc \in [Threads -> {"idle", "launch", "wait", "decode", "unwind"}]
  /\ FirstBlockIndex \in [Threads -> Blocks]
  /\ LastBlockIndex \in [Threads -> Blocks]
  /\ BlockIndex \in [Threads -> Blocks]
  /\ CompressedBuffers \in [Threads -> [{0, 1} -> 0 .. Junk]]
  /\ AsyncReadSucceeded \in [Threads -> [{0, 1} -> BOOLEAN]]
  /\ Uncompressed \in [Threads -> [Blocks -> 0 .. Junk]]
  /\ result \in [Threads -> {"none", "ok", "error"}]
  /\ task \in [Tasks -> InFlight \cup Ended]
  /\ OurIndex \in [Tasks -> Handles]
  /\ NextHandleIndex \in 0 .. IndexWidth - 1
  /\ HandleLock \in [Handles -> Tasks \cup {Free}]
  /\ abandoned \in [Handles -> BOOLEAN]
  /\ reads \in [Threads -> 0 .. MaxReads]

Init ==
  /\ readable \in Readables
  /\ pc = [t \in Threads |-> "idle"]
  /\ FirstBlockIndex = [t \in Threads |-> 0]
  /\ LastBlockIndex = [t \in Threads |-> 0]
  /\ BlockIndex = [t \in Threads |-> 0]
  /\ CompressedBuffers = [t \in Threads |-> [i \in {0, 1} |-> Junk]]
  /\ AsyncReadSucceeded = [t \in Threads |-> [i \in {0, 1} |-> FALSE]]
  /\ Uncompressed = [t \in Threads |-> [b \in Blocks |-> Junk]]
  /\ result = [t \in Threads |-> "none"]
  /\ task = [k \in Tasks |-> "none"]
  /\ OurIndex = [k \in Tasks |-> 0]
  /\ NextHandleIndex = 0
  /\ HandleLock = [h \in Handles |-> Free]
  /\ abandoned = [h \in Handles |-> FALSE]
  /\ reads = [t \in Threads |-> 0]

\* NextReadBufferIndex ^ 1 at every block.
BufferIndex(t, b) == (b - FirstBlockIndex[t]) % 2

-----------------------------------------------------------------------------
(***************************************************************************)
(* The thread that reads.                                                  *)
(***************************************************************************)

\* The buffers and flags are locals, new in every call.
Read(t) ==
  /\ pc[t] = "idle"
  /\ reads[t] < MaxReads
  /\ reads' = [reads EXCEPT ![t] = @ + 1]
  /\ \E first, last \in Blocks :
       /\ first <= last
       /\ FirstBlockIndex' = [FirstBlockIndex EXCEPT ![t] = first]
       /\ LastBlockIndex' = [LastBlockIndex EXCEPT ![t] = last]
       /\ BlockIndex' = [BlockIndex EXCEPT ![t] = first]
       /\ task' = [task EXCEPT ![<<t, first>>] = "started"]
  /\ CompressedBuffers' = [CompressedBuffers EXCEPT ![t] = [i \in {0, 1} |-> Junk]]
  /\ AsyncReadSucceeded' = [AsyncReadSucceeded EXCEPT ![t] = [i \in {0, 1} |-> FALSE]]
  /\ Uncompressed' = [Uncompressed EXCEPT ![t] = [b \in Blocks |-> Junk]]
  /\ result' = [result EXCEPT ![t] = "none"]
  /\ pc' = [pc EXCEPT ![t] = "launch"]
  /\ UNCHANGED <<readable, handles>>

LaunchBlockRead(t) ==
  /\ pc[t] = "launch"
  /\ task' = IF BlockIndex[t] + 1 <= LastBlockIndex[t]
             THEN [task EXCEPT ![<<t, BlockIndex[t] + 1>>] = "started"]
             ELSE task
  /\ pc' = [pc EXCEPT ![t] = "wait"]
  /\ UNCHANGED <<readable, range, BlockIndex, buffers, outcome, handles, reads>>

\* Wrong: waits for nothing, the flag decides.
DoNotWait(t) ==
  /\ pc[t] = "wait"
  /\ IF AsyncReadSucceeded[t][BufferIndex(t, BlockIndex[t])]
     THEN /\ pc' = [pc EXCEPT ![t] = "decode"]
          /\ UNCHANGED result
     ELSE /\ pc' = [pc EXCEPT ![t] = "unwind"]
          /\ result' = [result EXCEPT ![t] = "error"]
  /\ UNCHANGED <<readable, range, BlockIndex, buffers, Uncompressed, task, handles, reads>>

\* wait() returns for a task that threw as for one that is done, and does not
\* rethrow: only the flag tells.
Wait(t) ==
  /\ pc[t] = "wait"
  /\ task[<<t, BlockIndex[t]>>] \in {"done", "thrown"}
  /\ IF AsyncReadSucceeded[t][BufferIndex(t, BlockIndex[t])]
     THEN /\ pc' = [pc EXCEPT ![t] = "decode"]
          /\ UNCHANGED result
     ELSE /\ pc' = [pc EXCEPT ![t] = "unwind"]
          /\ result' = [result EXCEPT ![t] = "error"]
  /\ UNCHANGED <<readable, range, BlockIndex, buffers, Uncompressed, task, handles, reads>>

Decode(t) ==
  /\ pc[t] = "decode"
  /\ BlockIndex[t] \notin Corrupt
  /\ Uncompressed' = [Uncompressed EXCEPT ![t][BlockIndex[t]] =
                        CompressedBuffers[t][BufferIndex(t, BlockIndex[t])]]
  /\ IF BlockIndex[t] < LastBlockIndex[t]
     THEN /\ BlockIndex' = [BlockIndex EXCEPT ![t] = @ + 1]
          /\ pc' = [pc EXCEPT ![t] = "launch"]
          /\ UNCHANGED result
     ELSE /\ pc' = [pc EXCEPT ![t] = "unwind"]
          /\ result' = [result EXCEPT ![t] = "ok"]
          /\ UNCHANGED BlockIndex
  /\ UNCHANGED <<readable, range, buffers, task, handles, reads>>

DecodeFails(t) ==
  /\ pc[t] = "decode"
  /\ BlockIndex[t] \in Corrupt
  /\ pc' = [pc EXCEPT ![t] = "unwind"]
  /\ result' = [result EXCEPT ![t] = "error"]
  /\ UNCHANGED <<readable, range, BlockIndex, buffers, Uncompressed, task, handles, reads>>

\* Wrong: the read that is still going on is forgotten.
ReturnAtOnce(t) ==
  /\ pc[t] = "unwind"
  /\ pc' = [pc EXCEPT ![t] = "idle"]
  /\ UNCHANGED <<readable, range, BlockIndex, buffers, outcome, task, handles, reads>>

\* NextReadRequest is destroyed before the buffers, and the destructor of a
\* future of std::async waits for its task.
Return(t) ==
  /\ pc[t] = "unwind"
  /\ \A b \in Blocks : task[<<t, b>>] \in Ended
  /\ task' = [k \in Tasks |-> IF k[1] = t THEN "none" ELSE task[k]]
  /\ pc' = [pc EXCEPT ![t] = "idle"]
  /\ UNCHANGED <<readable, range, BlockIndex, buffers, outcome, handles, reads>>

-----------------------------------------------------------------------------
(***************************************************************************)
(* The task StartAsyncRead runs.                                           *)
(***************************************************************************)
\* Wrong: OurIndex %= NumHandles is missing.
NextHandleUnbounded(t, b) ==
  /\ task[<<t, b>>] = "started"
  /\ OurIndex' = [OurIndex EXCEPT ![<<t, b>>] = NextHandleIndex]
  /\ NextHandleIndex' = (NextHandleIndex + 1) % IndexWidth
  /\ task' = [task EXCEPT ![<<t, b>>] = "waiting"]
  /\ UNCHANGED <<readable, pc, range, BlockIndex, buffers, outcome, HandleLock,
                 abandoned, reads>>

NextHandle(t, b) ==
  /\ task[<<t, b>>] = "started"
  /\ OurIndex' = [OurIndex EXCEPT ![<<t, b>>] = NextHandleIndex % NumHandles]
  /\ NextHandleIndex' = (NextHandleIndex + 1) % IndexWidth
  /\ task' = [task EXCEPT ![<<t, b>>] = "waiting"]
  /\ UNCHANGED <<readable, pc, range, BlockIndex, buffers, outcome, HandleLock,
                 abandoned, reads>>

Enter(t, b) ==
  /\ task[<<t, b>>] = "waiting"
  /\ HandleLock' = [HandleLock EXCEPT ![OurIndex[<<t, b>>]] = <<t, b>>]
  /\ task' = [task EXCEPT ![<<t, b>>] = "locked"]
  /\ UNCHANGED <<readable, pc, range, BlockIndex, buffers, outcome, OurIndex,
                 NextHandleIndex, abandoned, reads>>

\* Wrong: the lock is not waited for.
BargeIn(t, b) == Enter(t, b)

Lock(t, b) ==
  /\ HandleLock[OurIndex[<<t, b>>]] = Free
  /\ ~abandoned[OurIndex[<<t, b>>]]
  /\ Enter(t, b)

\* A critical section lets the thread that owns it in again: a task that runs
\* on the pool thread whose earlier task threw.
Reenter(t, b) ==
  /\ HandleLock[OurIndex[<<t, b>>]] = Free
  /\ abandoned[OurIndex[<<t, b>>]]
  /\ Enter(t, b)

\* From here on the buffer is being overwritten.
Seek(t, b) ==
  /\ task[<<t, b>>] = "locked"
  /\ b <= readable
  /\ task' = [task EXCEPT ![<<t, b>>] = "reading"]
  /\ CompressedBuffers' =
       IF b < readable THEN [CompressedBuffers EXCEPT ![t][BufferIndex(t, b)] = Junk]
                       ELSE CompressedBuffers
  /\ UNCHANGED <<readable, pc, range, BlockIndex, AsyncReadSucceeded, outcome,
                 handles, reads>>

\* The exception ends the task without Unlock and without a word in OutSuccess.
SeekThrows(t, b) ==
  /\ task[<<t, b>>] = "locked"
  /\ b > readable
  /\ task' = [task EXCEPT ![<<t, b>>] = "thrown"]
  /\ HandleLock' = [HandleLock EXCEPT ![OurIndex[<<t, b>>]] = Free]
  /\ abandoned' = [abandoned EXCEPT ![OurIndex[<<t, b>>]] = TRUE]
  /\ UNCHANGED <<readable, pc, range, BlockIndex, buffers, outcome, OurIndex,
                 NextHandleIndex, reads>>

\* Wrong: a read that was refused is reported as done.
SerializeRegardless(t, b) ==
  /\ task[<<t, b>>] = "reading"
  /\ CompressedBuffers' =
       IF b < readable THEN [CompressedBuffers EXCEPT ![t][BufferIndex(t, b)] = b]
                       ELSE CompressedBuffers
  /\ AsyncReadSucceeded' = [AsyncReadSucceeded EXCEPT ![t][BufferIndex(t, b)] = TRUE]
  /\ task' = [task EXCEPT ![<<t, b>>] = "stored"]
  /\ UNCHANGED <<readable, pc, range, BlockIndex, outcome, handles, reads>>

Serialize(t, b) ==
  /\ task[<<t, b>>] = "reading"
  /\ CompressedBuffers' =
       IF b < readable THEN [CompressedBuffers EXCEPT ![t][BufferIndex(t, b)] = b]
                       ELSE CompressedBuffers
  /\ AsyncReadSucceeded' =
       [AsyncReadSucceeded EXCEPT ![t][BufferIndex(t, b)] = (b < readable)]
  /\ task' = [task EXCEPT ![<<t, b>>] = "stored"]
  /\ UNCHANGED <<readable, pc, range, BlockIndex, outcome, handles, reads>>

\* Wrong: the lock is kept.
UnlockForgotten(t, b) ==
  /\ task[<<t, b>>] = "stored"
  /\ task' = [task EXCEPT ![<<t, b>>] = "done"]
  /\ UNCHANGED <<readable, pc, range, BlockIndex, buffers, outcome, handles, reads>>

Unlock(t, b) ==
  /\ task[<<t, b>>] = "stored"
  /\ task' = [task EXCEPT ![<<t, b>>] = "done"]
  /\ HandleLock' = [HandleLock EXCEPT ![OurIndex[<<t, b>>]] = Free]
  /\ UNCHANGED <<readable, pc, range, BlockIndex, buffers, outcome, OurIndex,
                 NextHandleIndex, abandoned, reads>>

-----------------------------------------------------------------------------
Thread(t) ==
  LaunchBlockRead(t) \/ Wait(t) \/ Decode(t) \/ DecodeFails(t) \/ Return(t)

Task(t, b) ==
  \/ NextHandle(t, b) \/ Lock(t, b) \/ Seek(t, b) \/ SeekThrows(t, b)
  \/ Serialize(t, b) \/ Unlock(t, b)

Next ==
  \/ \E t \in Threads : Read(t) \/ Thread(t)
  \/ \E t \in Threads, b \in Blocks : Task(t, b) \/ Reenter(t, b)

\* Every running thread and task keeps running; nobody promises Reenter.
Spec ==
  /\ Init /\ [][Next]_vars
  /\ \A t \in Threads : WF_vars(Thread(t))
  /\ \A t \in Threads, b \in Blocks : WF_vars(Task(t, b))

-----------------------------------------------------------------------------
(***************************************************************************)
(* Properties.                                                             *)
(***************************************************************************)

\* "Each file handle can only be touched by one task at a time"
\* (IoStoreReader.cpp:188): the position a task's Seek sets is the one its
\* Serialize reads from.
HandleExclusive ==
  \A k1, k2 \in Tasks :
    (k1 # k2 /\ task[k1] \in Inside /\ task[k2] \in Inside)
      => OurIndex[k1] # OurIndex[k2]

\* No task writes into a buffer that another task writes into, that is being
\* decoded, or that was freed when Read returned (IoStoreReader.cpp:448-449,
\* 475-493).
BufferExclusive ==
  \A t \in Threads, b \in Blocks :
    task[<<t, b>>] \in InFlight =>
      /\ pc[t] # "idle"
      /\ pc[t] = "decode" => BufferIndex(t, b) # BufferIndex(t, BlockIndex[t])
      /\ \A c \in Blocks : (c # b /\ task[<<t, c>>] \in InFlight)
                             => BufferIndex(t, c) # BufferIndex(t, b)

\* A Read that succeeds returns the bytes of each of its blocks, whatever the
\* other threads read meanwhile and wherever the file ends: no block is decoded
\* from a buffer that still holds an earlier one (IoStoreReader.cpp:484-497).
OkIsRight ==
  \A t \in Threads :
    result[t] = "ok" =>
      \A b \in FirstBlockIndex[t] .. LastBlockIndex[t] : Uncompressed[t][b] = b

\* A Read fails only for a reason: the file ends before its last block or one of
\* its blocks is corrupt.
ErrorHasCause ==
  \A t \in Threads :
    result[t] = "error" =>
      \/ readable <= LastBlockIndex[t]
      \/ \E b \in Corrupt : FirstBlockIndex[t] <= b /\ b <= LastBlockIndex[t]

\* While no block begins past the end of the file every Read returns: the tasks
\* that hold a handle's lock let it go (IoStoreReader.cpp:195-205, 490-491).
WholeFileReadReturns ==
  \A t \in Threads : (pc[t] # "idle" /\ readable >= LastBlock) ~> pc[t] = "idle"

\* The same of any file: IoStoreReader.cpp:191 expects a deadlock only "if any
\* overload of FileReader launches tasks".
ReadReturns == \A t \in Threads : pc[t] # "idle" ~> pc[t] = "idle"

=============================================================================
