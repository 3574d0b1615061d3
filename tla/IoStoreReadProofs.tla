-------------------------- MODULE IoStoreReadProofs --------------------------
(***************************************************************************)
(* Proofs about IoStoreRead, for any number of threads, handles and        *)
(* blocks and any length of the file.                                      *)
(***************************************************************************)
EXTENDS IoStoreRead, TLAPS

USE DEF range, outcome, handles, buffers, Inside, InFlight, Ended

LEMMA Constants ==
  /\ LastBlock \in Nat /\ Corrupt \subseteq Blocks /\ Readables \subseteq Nat
  /\ NumHandles \in Nat \ {0} /\ IndexWidth \in Nat \ {0} /\ MaxReads \in Nat
  /\ Free \notin Tasks
BY ReadAssumption DEF ReadAssumption

\* The two buffers alternate: a block and the next one never share a buffer.
LEMMA Alternate ==
  \A n \in Int : n % 2 \in {0, 1} /\ (n + 1) % 2 # n % 2
OBVIOUS

LEMMA Remainder == \A n, m \in Nat : m # 0 => n % m \in 0 .. m - 1
OBVIOUS

LEMMA BufferType ==
  ASSUME TypeOK, NEW t \in Threads, NEW b \in Blocks
  PROVE  BufferIndex(t, b) \in {0, 1}
<1>1. b - FirstBlockIndex[t] \in Int
  BY Constants DEF TypeOK, Blocks
<1> QED BY <1>1, Alternate DEF BufferIndex

(***************************************************************************)
(* Types.                                                                  *)
(***************************************************************************)
LEMMA TypeInit == Init => TypeOK
<1>1. 0 \in Blocks /\ 0 \in Handles /\ 0 \in 0 .. IndexWidth - 1 /\ Junk \in 0 .. Junk
  BY Constants DEF Blocks, Handles, Junk
<1> QED BY <1>1, Constants DEF Init, TypeOK

LEMMA TypeNext == TypeOK /\ [Next]_vars => TypeOK'
<1> SUFFICES ASSUME TypeOK, [Next]_vars PROVE TypeOK'
  OBVIOUS
<1>0. /\ \A b \in Blocks : b \in 0 .. Junk
      /\ Junk \in 0 .. Junk /\ Blocks \subseteq Int
  BY Constants DEF Blocks, Junk
<1>1. ASSUME NEW t \in Threads, Read(t) PROVE TypeOK'
  <2>1. \A b \in Blocks : <<t, b>> \in Tasks
    BY DEF Tasks
  <2>2. reads'[t] \in 0 .. MaxReads
    BY <1>1, Constants DEF Read, TypeOK
  <2> QED BY <1>0, <1>1, <2>1, <2>2 DEF Read, TypeOK
<1>2. ASSUME NEW t \in Threads, LaunchBlockRead(t) PROVE TypeOK'
  BY <1>2, <1>0 DEF LaunchBlockRead, TypeOK
<1>3. ASSUME NEW t \in Threads, Wait(t) PROVE TypeOK'
  BY <1>3 DEF Wait, TypeOK
<1>4. ASSUME NEW t \in Threads, Decode(t) PROVE TypeOK'
  <2>1. CompressedBuffers[t][BufferIndex(t, BlockIndex[t])] \in 0 .. Junk
    BY BufferType DEF TypeOK
  <2>2. BlockIndex[t] < LastBlockIndex[t] => BlockIndex[t] + 1 \in Blocks
    BY SMTT(30), Constants DEF TypeOK, Blocks
  <2> QED BY <1>4, <2>1, <2>2 DEF Decode, TypeOK
<1>5. ASSUME NEW t \in Threads, DecodeFails(t) PROVE TypeOK'
  BY <1>5 DEF DecodeFails, TypeOK
<1>6. ASSUME NEW t \in Threads, Return(t) PROVE TypeOK'
  BY <1>6 DEF Return, TypeOK
<1>7. ASSUME NEW t \in Threads, NEW b \in Blocks, Task(t, b) \/ Reenter(t, b)
      PROVE TypeOK'
  <2> DEFINE k == <<t, b>>
  <2>0. k \in Tasks
    BY DEF Tasks
  <2>1. BufferIndex(t, b) \in {0, 1}
    BY BufferType
  <2>2. CASE NextHandle(t, b)
    <3>0. NextHandleIndex \in Nat /\ NextHandleIndex + 1 \in Nat
      BY Constants DEF TypeOK
    <3>1. NextHandleIndex % NumHandles \in Handles
      BY <3>0, Constants, Remainder DEF Handles
    <3>2. (NextHandleIndex + 1) % IndexWidth \in 0 .. IndexWidth - 1
      BY <3>0, Constants, Remainder
    <3> QED BY <2>2, <2>0, <3>1, <3>2 DEF NextHandle, TypeOK
  <2>3. CASE Lock(t, b) \/ Reenter(t, b)
    BY <2>3, <2>0 DEF Lock, Reenter, Enter, TypeOK
  <2>4. CASE Seek(t, b)
    BY <2>4, <2>0, <2>1, <1>0 DEF Seek, TypeOK
  <2>5. CASE SeekThrows(t, b)
    BY <2>5, <2>0 DEF SeekThrows, TypeOK
  <2>6. CASE Serialize(t, b)
    <3>1. (b < readable) \in BOOLEAN
      OBVIOUS
    <3>2. AsyncReadSucceeded' \in [Threads -> [{0, 1} -> BOOLEAN]]
      BY <2>6, <2>1, <3>1 DEF Serialize, TypeOK
    <3> QED BY <2>6, <2>0, <2>1, <3>2, <1>0 DEF Serialize, TypeOK
  <2>7. CASE Unlock(t, b)
    BY <2>7, <2>0 DEF Unlock, TypeOK
  <2> QED BY <1>7, <2>2, <2>3, <2>4, <2>5, <2>6, <2>7 DEF Task
<1>8. CASE UNCHANGED vars
  BY <1>8 DEF vars, TypeOK
<1> QED BY <1>1, <1>2, <1>3, <1>4, <1>5, <1>6, <1>7, <1>8 DEF Next, Thread

\* Every variable keeps its type; in particular the handle a task uses exists,
\* also after NextHandleIndex has wrapped (IoStoreReader.cpp:185-186).
THEOREM TypeCorrect == Spec => []TypeOK
<1>1. Init => TypeOK
  BY TypeInit
<1>2. TypeOK /\ [Next]_vars => TypeOK'
  BY TypeNext
<1> QED BY <1>1, <1>2, PTL DEF Spec

-----------------------------------------------------------------------------
(***************************************************************************)
(* The inductive invariant.                                                *)
(***************************************************************************)

\* The lock of a handle names the task that is using it.
LockInv == \A k \in Tasks : task[k] \in Inside => HandleLock[OurIndex[k]] = k

\* How far a task came says where its block lies.
ReachInv ==
  \A k \in Tasks :
    /\ task[k] = "thrown" => k[2] > readable
    /\ task[k] \in {"reading", "stored", "done"} => k[2] <= readable

\* Only the block Read is at and the next one can be in flight.
Pipeline(t) ==
  /\ pc[t] # "idle" =>
       FirstBlockIndex[t] <= BlockIndex[t] /\ BlockIndex[t] <= LastBlockIndex[t]
  /\ \A b \in Blocks :
       /\ task[<<t, b>>] # "none" =>
            /\ pc[t] # "idle"
            /\ FirstBlockIndex[t] <= b
            /\ b <= BlockIndex[t] + (IF pc[t] = "launch" THEN 0 ELSE 1)
       /\ task[<<t, b>>] \in InFlight =>
            /\ BlockIndex[t] <= b
            /\ pc[t] \in {"decode", "unwind"} => BlockIndex[t] < b

\* What a finished task left in its buffer and its flag is still there when Read
\* comes to its block.
Filled(t) ==
  \A b \in Blocks :
    (BlockIndex[t] <= b /\ task[<<t, b>>] \in {"stored", "done"}) =>
      /\ AsyncReadSucceeded[t][BufferIndex(t, b)] => b < readable
      /\ b < readable => /\ AsyncReadSucceeded[t][BufferIndex(t, b)]
                         /\ CompressedBuffers[t][BufferIndex(t, b)] = b

\* A flag no task has stored is FALSE when Read looks at it first.
Fresh(t) ==
  (pc[t] \in {"launch", "wait"} /\ BlockIndex[t] = FirstBlockIndex[t]
     /\ task[<<t, BlockIndex[t]>>] \notin {"stored", "done"})
    => ~AsyncReadSucceeded[t][BufferIndex(t, BlockIndex[t])]

Decoding(t) ==
  pc[t] = "decode" =>
    /\ BlockIndex[t] < readable
    /\ CompressedBuffers[t][BufferIndex(t, BlockIndex[t])] = BlockIndex[t]

\* Read is past a block only if the file holds it.
Decoded(t) ==
  pc[t] \in {"launch", "wait", "decode"} =>
    /\ result[t] = "none"
    /\ \A b \in Blocks : (FirstBlockIndex[t] <= b /\ b < BlockIndex[t])
                           => b < readable /\ Uncompressed[t][b] = b

Outcome(t) ==
  /\ result[t] = "ok" =>
       \A b \in FirstBlockIndex[t] .. LastBlockIndex[t] : Uncompressed[t][b] = b
  /\ result[t] = "error" =>
       \/ readable <= LastBlockIndex[t]
       \/ \E b \in Corrupt : FirstBlockIndex[t] <= b /\ b <= LastBlockIndex[t]

ReadInv ==
  /\ TypeOK
  /\ LockInv
  /\ ReachInv
  /\ \A t \in Threads : Pipeline(t)
  /\ \A t \in Threads : Filled(t)
  /\ \A t \in Threads : Fresh(t)
  /\ \A t \in Threads : Decoding(t)
  /\ \A t \in Threads : Decoded(t)
  /\ \A t \in Threads : Outcome(t)

\* Everything ReadInv says of one thread.
Sound(t) ==
  Pipeline(t) /\ Filled(t) /\ Fresh(t) /\ Decoding(t) /\ Decoded(t) /\ Outcome(t)

LEMMA ReadInvSound == ReadInv <=> TypeOK /\ LockInv /\ ReachInv /\ \A t \in Threads : Sound(t)
BY DEF ReadInv, Sound

\* A step of another thread, or of one of its tasks, leaves this one alone.
Same(t) ==
  /\ readable' = readable
  /\ pc'[t] = pc[t]
  /\ FirstBlockIndex'[t] = FirstBlockIndex[t]
  /\ LastBlockIndex'[t] = LastBlockIndex[t]
  /\ BlockIndex'[t] = BlockIndex[t]
  /\ CompressedBuffers'[t] = CompressedBuffers[t]
  /\ AsyncReadSucceeded'[t] = AsyncReadSucceeded[t]
  /\ Uncompressed'[t] = Uncompressed[t]
  /\ result'[t] = result[t]
  /\ \A b \in Blocks : task'[<<t, b>>] = task[<<t, b>>]

LEMMA Others ==
  ASSUME TypeOK, NEW t \in Threads, NEW u \in Threads, u # t,
         \/ Read(t) \/ Thread(t)
         \/ \E b \in Blocks : Task(t, b) \/ Reenter(t, b)
  PROVE  Same(u)
<1>0. \A b, c \in Blocks : <<u, b>> \in Tasks /\ <<u, b>> # <<t, c>> /\ <<u, b>>[1] = u
  BY DEF Tasks
<1>1. CASE Read(t)
  BY <1>0, <1>1 DEF Read, Same, TypeOK
<1>2. CASE LaunchBlockRead(t)
  <2>1. \A b \in Blocks : task'[<<u, b>>] = task[<<u, b>>]
    <3>1. ASSUME NEW b \in Blocks PROVE <<u, b>> # <<t, BlockIndex[t] + 1>>
      OBVIOUS
    <3> QED BY <1>0, <1>2, <3>1 DEF LaunchBlockRead, TypeOK
  <2> QED BY <1>2, <2>1 DEF LaunchBlockRead, Same
<1>3. CASE Wait(t)
  BY <1>3 DEF Wait, Same, TypeOK
<1>4. CASE Decode(t)
  BY <1>4 DEF Decode, Same, TypeOK
<1>5. CASE DecodeFails(t)
  BY <1>5 DEF DecodeFails, Same, TypeOK
<1>6. CASE Return(t)
  BY <1>0, <1>6 DEF Return, Same, TypeOK
<1>7. ASSUME NEW b \in Blocks, Task(t, b) \/ Reenter(t, b) PROVE Same(u)
  BY <1>0, <1>7
     DEF Task, Reenter, NextHandle, Lock, Enter, Seek, SeekThrows, Serialize, Unlock, Same, TypeOK
<1> QED BY <1>1, <1>2, <1>3, <1>4, <1>5, <1>6, <1>7 DEF Thread

LEMMA SameSound ==
  ASSUME TypeOK, NEW t \in Threads, Sound(t), Same(t)
  PROVE  Sound(t)'
<1>0. \A b \in Blocks : BufferIndex(t, b)' = BufferIndex(t, b)
  BY DEF Same, BufferIndex
<1>1. BlockIndex[t] \in Blocks
  BY DEF TypeOK
<1>2. Pipeline(t)'
  BY DEF Sound, Same, Pipeline
<1>3. Filled(t)'
  BY <1>0 DEF Sound, Same, Filled
<1>4. Fresh(t)'
  BY <1>0, <1>1 DEF Sound, Same, Fresh
<1>5. Decoding(t)'
  BY <1>0, <1>1 DEF Sound, Same, Decoding
<1>6. Decoded(t)'
  BY DEF Sound, Same, Decoded
<1>7. Outcome(t)'
  BY DEF Sound, Same, Outcome
<1> QED BY <1>2, <1>3, <1>4, <1>5, <1>6, <1>7 DEF Sound

\* What a step does to the tasks.
LEMMA TasksOfThread ==
  ASSUME TypeOK, NEW t \in Threads, Read(t) \/ Thread(t)
  PROVE  \A k \in Tasks : task'[k] \in {task[k], "started", "none"}
<1>0. \A b \in Blocks : <<t, b>> \in Tasks
  BY DEF Tasks
<1>1. CASE Read(t)
  BY <1>1, <1>0 DEF Read, TypeOK
<1>2. CASE LaunchBlockRead(t)
  <2>1. task \in [Tasks -> InFlight \cup Ended]
    BY DEF TypeOK
  <2> QED BY <1>2, <2>1 DEF LaunchBlockRead
<1>3. CASE Wait(t) \/ Decode(t) \/ DecodeFails(t)
  BY <1>3 DEF Wait, Decode, DecodeFails
<1>4. CASE Return(t)
  BY <1>4 DEF Return
<1> QED BY <1>1, <1>2, <1>3, <1>4 DEF Thread

LEMMA TasksOfTask ==
  ASSUME TypeOK, NEW t \in Threads, NEW b \in Blocks, Task(t, b) \/ Reenter(t, b)
  PROVE  /\ \A k \in Tasks : k # <<t, b>> => task'[k] = task[k]
         /\ NextHandle(t, b) => task'[<<t, b>>] = "waiting"
         /\ Lock(t, b) \/ Reenter(t, b) => task'[<<t, b>>] = "locked"
         /\ Seek(t, b) => task'[<<t, b>>] = "reading"
         /\ SeekThrows(t, b) => task'[<<t, b>>] = "thrown"
         /\ Serialize(t, b) => task'[<<t, b>>] = "stored"
         /\ Unlock(t, b) => task'[<<t, b>>] = "done"
<1>1. <<t, b>> \in Tasks /\ task \in [Tasks -> InFlight \cup Ended]
  BY DEF Tasks, TypeOK
<1> QED
  BY <1>1 DEF Task, Reenter, NextHandle, Lock, Enter, Seek, SeekThrows, Serialize, Unlock

LEMMA LockNext == TypeOK /\ LockInv /\ [Next]_vars => LockInv'
<1> SUFFICES ASSUME TypeOK, LockInv, [Next]_vars, NEW k \in Tasks, task'[k] \in Inside
             PROVE  HandleLock'[OurIndex'[k]] = k
  BY DEF LockInv
<1>1. ASSUME NEW t \in Threads, Read(t) \/ Thread(t)
      PROVE HandleLock'[OurIndex'[k]] = k
  <2>1. task[k] \in Inside
    BY <1>1, TasksOfThread
  <2>2. UNCHANGED <<HandleLock, OurIndex>>
    BY <1>1 DEF Thread, Read, LaunchBlockRead, Wait, Decode, DecodeFails, Return
  <2> QED BY <2>1, <2>2 DEF LockInv
<1>2. ASSUME NEW t \in Threads, NEW b \in Blocks, Task(t, b) \/ Reenter(t, b)
      PROVE HandleLock'[OurIndex'[k]] = k
  <2>0. /\ <<t, b>> \in Tasks
        /\ OurIndex \in [Tasks -> Handles] /\ HandleLock \in [Handles -> Tasks \cup {Free}]
        /\ k # <<t, b>> => task[k] \in Inside
    BY <1>2, TasksOfTask DEF Tasks, TypeOK
  <2>1. CASE NextHandle(t, b)
    <3>1. k # <<t, b>>
      BY <2>1, <1>2, TasksOfTask
    <3> QED BY <2>0, <2>1, <3>1 DEF NextHandle, LockInv
  <2>2. CASE Lock(t, b) \/ Reenter(t, b)
    <3>1. /\ HandleLock[OurIndex[<<t, b>>]] = Free
          /\ OurIndex' = OurIndex
          /\ HandleLock' = [HandleLock EXCEPT ![OurIndex[<<t, b>>]] = <<t, b>>]
      BY <2>2 DEF Lock, Reenter, Enter
    <3>2. CASE k = <<t, b>>
      BY <2>0, <3>1, <3>2
    <3>3. CASE k # <<t, b>>
      <4>1. HandleLock[OurIndex[k]] = k
        BY <2>0, <3>3 DEF LockInv
      <4>2. k # Free
        BY Constants
      <4> QED BY <2>0, <3>1, <4>1, <4>2
    <3> QED BY <3>2, <3>3
  <2>3. CASE Seek(t, b) \/ Serialize(t, b)
    <3>1. UNCHANGED <<OurIndex, HandleLock>> /\ task[<<t, b>>] \in Inside
      BY <2>3 DEF Seek, Serialize
    <3> QED BY <2>0, <3>1 DEF LockInv
  <2>4. CASE SeekThrows(t, b) \/ Unlock(t, b)
    <3>1. /\ task[<<t, b>>] \in Inside
          /\ OurIndex' = OurIndex
          /\ HandleLock' = [HandleLock EXCEPT ![OurIndex[<<t, b>>]] = Free]
      BY <2>4 DEF SeekThrows, Unlock
    <3>2. k # <<t, b>>
      BY <2>4, <1>2, TasksOfTask
    <3>3. HandleLock[OurIndex[k]] = k /\ HandleLock[OurIndex[<<t, b>>]] = <<t, b>>
      BY <2>0, <3>1, <3>2 DEF LockInv
    <3> QED BY <2>0, <3>1, <3>2, <3>3
  <2> QED BY <1>2, <2>1, <2>2, <2>3, <2>4 DEF Task
<1>3. CASE UNCHANGED vars
  BY <1>3 DEF vars, LockInv
<1> QED BY <1>1, <1>2, <1>3 DEF Next

LEMMA ReachNext == TypeOK /\ ReachInv /\ [Next]_vars => ReachInv'
<1> SUFFICES ASSUME TypeOK, ReachInv, [Next]_vars, NEW k \in Tasks
             PROVE  /\ task'[k] = "thrown" => k[2] > readable'
                    /\ task'[k] \in {"reading", "stored", "done"} => k[2] <= readable'
  BY DEF ReachInv
<1>0. readable' = readable
  <2>1. \A t \in Threads : Read(t) \/ Thread(t) => readable' = readable
    BY DEF Read, Thread, LaunchBlockRead, Wait, Decode, DecodeFails, Return
  <2>2. \A t \in Threads, b \in Blocks : Task(t, b) \/ Reenter(t, b) => readable' = readable
    BY DEF Task, Reenter, NextHandle, Lock, Enter, Seek, SeekThrows, Serialize, Unlock
  <2> QED BY <2>1, <2>2 DEF Next, vars
<1>1. ASSUME NEW t \in Threads, Read(t) \/ Thread(t)
      PROVE task'[k] \in {task[k], "started", "none"}
  BY <1>1, TasksOfThread
<1>2. ASSUME NEW t \in Threads, NEW b \in Blocks, Task(t, b) \/ Reenter(t, b), k = <<t, b>>
      PROVE  \/ task'[k] \in {"waiting", "locked"}
             \/ task'[k] = "thrown" /\ k[2] > readable
             \/ task'[k] = "reading" /\ k[2] <= readable
             \/ task'[k] \in {"stored", "done"} /\ task[k] \in {"reading", "stored"}
  <2>1. CASE NextHandle(t, b) \/ Lock(t, b) \/ Reenter(t, b)
    BY <1>2, <2>1, TasksOfTask
  <2>2. CASE Seek(t, b) \/ SeekThrows(t, b)
    BY <1>2, <2>2, TasksOfTask DEF Seek, SeekThrows
  <2>3. CASE Serialize(t, b) \/ Unlock(t, b)
    BY <1>2, <2>3, TasksOfTask DEF Serialize, Unlock
  <2> QED BY <1>2, <2>1, <2>2, <2>3 DEF Task
<1>3. ASSUME NEW t \in Threads, NEW b \in Blocks, Task(t, b) \/ Reenter(t, b), k # <<t, b>>
      PROVE task'[k] = task[k]
  BY <1>3, TasksOfTask
<1>4. CASE UNCHANGED vars
  BY <1>4 DEF vars, ReachInv
<1> QED BY <1>0, <1>1, <1>2, <1>3, <1>4 DEF Next, ReachInv

-----------------------------------------------------------------------------
(***************************************************************************)
(* A thread's own steps keep it sound.                                     *)
(***************************************************************************)
LEMMA TwoBuffers ==
  ASSUME TypeOK, NEW t \in Threads, NEW b \in Blocks, NEW c \in Blocks, c = b + 1
  PROVE  BufferIndex(t, b) # BufferIndex(t, c)
<1>1. b - FirstBlockIndex[t] \in Int /\ c - FirstBlockIndex[t] = (b - FirstBlockIndex[t]) + 1
  BY SMTT(30), Constants DEF TypeOK, Blocks
<1> QED BY <1>1, Alternate DEF BufferIndex

LEMMA Typed ==
  ASSUME TypeOK, NEW t \in Threads
  PROVE  /\ readable \in Nat
         /\ FirstBlockIndex[t] \in Blocks /\ LastBlockIndex[t] \in Blocks
         /\ BlockIndex[t] \in Blocks
         /\ Blocks \subseteq Int
         /\ \A b \in Blocks : <<t, b>> \in Tasks
         /\ task \in [Tasks -> InFlight \cup Ended]
BY SMTT(30), Constants DEF TypeOK, Blocks, Tasks

LEMMA ReadSound ==
  ASSUME TypeOK, NEW t \in Threads, Sound(t), Read(t)
  PROVE  Sound(t)'
<1>0. PICK first \in Blocks, last \in Blocks :
        /\ first <= last
        /\ FirstBlockIndex'[t] = first /\ LastBlockIndex'[t] = last /\ BlockIndex'[t] = first
        /\ task' = [task EXCEPT ![<<t, first>>] = "started"]
  BY DEF Read, TypeOK
<1>1. /\ pc'[t] = "launch" /\ result'[t] = "none"
      /\ \A i \in {0, 1} : ~AsyncReadSucceeded'[t][i]
  BY DEF Read, TypeOK
<1>2. \A b \in Blocks : task[<<t, b>>] = "none"
  BY DEF Sound, Pipeline, Read
<1>3. \A b \in Blocks : task'[<<t, b>>] = IF b = first THEN "started" ELSE "none"
  BY <1>0, <1>2, Typed
<1>4. Pipeline(t)'
  BY <1>0, <1>1, <1>3, Typed DEF Pipeline
<1>5. Filled(t)'
  BY <1>3 DEF Filled
<1>6. Fresh(t)'
  <2>1. BufferIndex(t, BlockIndex[t])' \in {0, 1}
    <3>1. BlockIndex'[t] - FirstBlockIndex'[t] = 0
      BY <1>0, Typed
    <3> QED BY <3>1, Alternate DEF BufferIndex
  <2> QED BY <1>1, <2>1 DEF Fresh
<1>7. Decoding(t)' /\ Outcome(t)'
  BY <1>1 DEF Decoding, Outcome
<1>8. Decoded(t)'
  BY <1>0, <1>1, Typed DEF Decoded
<1> QED BY <1>4, <1>5, <1>6, <1>7, <1>8 DEF Sound

LEMMA LaunchSound ==
  ASSUME TypeOK, NEW t \in Threads, Sound(t), LaunchBlockRead(t)
  PROVE  Sound(t)'
<1>0. /\ pc[t] = "launch" /\ pc'[t] = "wait"
      /\ UNCHANGED <<readable, FirstBlockIndex, LastBlockIndex, BlockIndex, CompressedBuffers,
                     AsyncReadSucceeded, Uncompressed, result>>
  BY DEF LaunchBlockRead, TypeOK
<1>1. \A b \in Blocks : BufferIndex(t, b)' = BufferIndex(t, b)
  BY <1>0 DEF BufferIndex
<1>2. \A b \in Blocks : \/ task'[<<t, b>>] = task[<<t, b>>]
                        \/ b = BlockIndex[t] + 1 /\ task'[<<t, b>>] = "started"
  BY Typed DEF LaunchBlockRead
<1>3. Pipeline(t)'
  BY <1>0, <1>2, Typed DEF Sound, Pipeline
<1>4. Filled(t)'
  BY <1>0, <1>1, <1>2 DEF Sound, Filled
<1>5. Fresh(t)'
  BY <1>0, <1>1, <1>2, Typed DEF Sound, Fresh
<1>6. Decoding(t)' /\ Decoded(t)' /\ Outcome(t)'
  BY <1>0 DEF Sound, Decoding, Decoded, Outcome
<1> QED BY <1>3, <1>4, <1>5, <1>6 DEF Sound

\* The step of the argument: a flag that is set was set for this very block.
LEMMA WaitSound ==
  ASSUME TypeOK, ReachInv, NEW t \in Threads, Sound(t), Wait(t)
  PROVE  Sound(t)'
<1> DEFINE i == BlockIndex[t]
           flag == AsyncReadSucceeded[t][BufferIndex(t, i)]
<1>0. /\ pc[t] = "wait" /\ task[<<t, i>>] \in {"done", "thrown"}
      /\ UNCHANGED <<readable, FirstBlockIndex, LastBlockIndex, BlockIndex, CompressedBuffers,
                     AsyncReadSucceeded, Uncompressed, task>>
  BY DEF Wait
<1>1. \/ flag /\ pc'[t] = "decode" /\ result'[t] = result[t]
      \/ ~flag /\ pc'[t] = "unwind" /\ result'[t] = "error"
  BY DEF Wait, TypeOK
<1>2. \A b \in Blocks : BufferIndex(t, b)' = BufferIndex(t, b)
  BY <1>0 DEF BufferIndex
<1>3. FirstBlockIndex[t] <= i /\ i <= LastBlockIndex[t]
  BY <1>0 DEF Sound, Pipeline
<1>4. flag => i < readable /\ CompressedBuffers[t][BufferIndex(t, i)] = i
  <2>1. CASE task[<<t, i>>] = "done"
    BY <2>1, Typed DEF Sound, Filled
  <2>2. CASE task[<<t, i>>] = "thrown" /\ i = FirstBlockIndex[t]
    BY <1>0, <2>2 DEF Sound, Fresh
  <2>3. CASE task[<<t, i>>] = "thrown" /\ i # FirstBlockIndex[t]
    <3>1. i > readable
      BY <2>3, Typed DEF ReachInv
    <3>2. i - 1 \in Blocks /\ FirstBlockIndex[t] <= i - 1 /\ i - 1 < i
      BY <1>3, <2>3, Typed, Constants DEF Blocks
    <3>3. i - 1 < readable
      BY <1>0, <3>2 DEF Sound, Decoded
    <3> QED BY <3>1, <3>3, Typed
  <2> QED BY <1>0, <2>1, <2>2, <2>3
<1>5. ~flag => readable <= i
  <2>1. CASE task[<<t, i>>] = "done"
    BY <2>1, Typed DEF Sound, Filled
  <2>2. CASE task[<<t, i>>] = "thrown"
    BY <2>2, Typed DEF ReachInv
  <2> QED BY <1>0, <2>1, <2>2
<1>6. Pipeline(t)'
  BY <1>0, <1>1, Typed DEF Sound, Pipeline
<1>7. Filled(t)'
  BY <1>0, <1>2 DEF Sound, Filled
<1>8. Fresh(t)'
  BY <1>1 DEF Fresh
<1>9. Decoding(t)'
  BY <1>0, <1>1, <1>2, <1>4, Typed DEF Decoding
<1>10. Decoded(t)'
  BY <1>0, <1>1 DEF Sound, Decoded
<1>11. Outcome(t)'
  BY <1>0, <1>1, <1>3, <1>5, Typed DEF Sound, Outcome
<1> QED BY <1>6, <1>7, <1>8, <1>9, <1>10, <1>11 DEF Sound

LEMMA DecodeSound ==
  ASSUME TypeOK, NEW t \in Threads, Sound(t), Decode(t)
  PROVE  Sound(t)'
<1> DEFINE i == BlockIndex[t]
<1>0. /\ pc[t] = "decode"
      /\ UNCHANGED <<readable, FirstBlockIndex, LastBlockIndex, CompressedBuffers,
                     AsyncReadSucceeded, task>>
  BY DEF Decode
<1>1. /\ i < readable
      /\ Uncompressed'[t][i] = i
      /\ \A b \in Blocks : b # i => Uncompressed'[t][b] = Uncompressed[t][b]
  <2>1. CompressedBuffers[t][BufferIndex(t, i)] = i /\ i < readable
    BY <1>0 DEF Sound, Decoding
  <2>2. Uncompressed \in [Threads -> [Blocks -> 0 .. Junk]]
    BY DEF TypeOK
  <2>3. Uncompressed' = [Uncompressed EXCEPT ![t][i] = i]
    BY <2>1 DEF Decode
  <2> QED BY <2>1, <2>2, <2>3, Typed
<1>2. \/ i < LastBlockIndex[t] /\ BlockIndex'[t] = i + 1 /\ pc'[t] = "launch"
        /\ result'[t] = result[t]
      \/ ~(i < LastBlockIndex[t]) /\ BlockIndex'[t] = i /\ pc'[t] = "unwind"
        /\ result'[t] = "ok"
  BY DEF Decode, TypeOK
<1>3. \A b \in Blocks : BufferIndex(t, b)' = BufferIndex(t, b)
  BY <1>0 DEF BufferIndex
<1>4. FirstBlockIndex[t] <= i /\ i <= LastBlockIndex[t]
  BY <1>0 DEF Sound, Pipeline
<1>5. \A b \in Blocks : (FirstBlockIndex[t] <= b /\ b <= i)
                          => b < readable /\ Uncompressed'[t][b] = b
  BY <1>0, <1>1, Typed DEF Sound, Decoded
<1>6. Pipeline(t)'
  BY <1>0, <1>2, <1>4, Typed DEF Sound, Pipeline
<1>7. Filled(t)'
  BY <1>0, <1>2, <1>3, Typed DEF Sound, Filled
<1>8. Fresh(t)'
  BY <1>0, <1>2, <1>4, Typed DEF Fresh
<1>9. Decoding(t)'
  BY <1>2 DEF Decoding
<1>10. Decoded(t)'
  BY <1>0, <1>2, <1>5, Typed DEF Sound, Decoded
<1>11. Outcome(t)'
  <2>1. result'[t] # "error"
    BY <1>0, <1>2 DEF Sound, Decoded
  <2>2. ASSUME result'[t] = "ok", NEW b \in FirstBlockIndex[t] .. LastBlockIndex[t]
        PROVE  Uncompressed'[t][b] = b
    <3>1. i = LastBlockIndex[t]
      BY <1>0, <1>2, <1>4, <2>2, Typed DEF Sound, Decoded
    <3>2. b \in Blocks
      BY Typed, Constants DEF Blocks
    <3> QED BY <1>5, <3>1, <3>2
  <2> QED BY <1>0, <2>1, <2>2 DEF Outcome
<1> QED BY <1>6, <1>7, <1>8, <1>9, <1>10, <1>11 DEF Sound

LEMMA DecodeFailsSound ==
  ASSUME TypeOK, NEW t \in Threads, Sound(t), DecodeFails(t)
  PROVE  Sound(t)'
<1>0. /\ pc[t] = "decode" /\ pc'[t] = "unwind" /\ result'[t] = "error"
      /\ BlockIndex[t] \in Corrupt
      /\ UNCHANGED <<readable, FirstBlockIndex, LastBlockIndex, BlockIndex, CompressedBuffers,
                     AsyncReadSucceeded, Uncompressed, task>>
  BY DEF DecodeFails, TypeOK
<1>1. \A b \in Blocks : BufferIndex(t, b)' = BufferIndex(t, b)
  BY <1>0 DEF BufferIndex
<1>2. Pipeline(t)'
  BY <1>0 DEF Sound, Pipeline
<1>3. Filled(t)'
  BY <1>0, <1>1 DEF Sound, Filled
<1>4. Outcome(t)'
  BY <1>0 DEF Sound, Pipeline, Outcome
<1> QED BY <1>0, <1>2, <1>3, <1>4 DEF Sound, Fresh, Decoding, Decoded

LEMMA ReturnSound ==
  ASSUME TypeOK, NEW t \in Threads, Sound(t), Return(t)
  PROVE  Sound(t)'
<1>0. /\ pc[t] = "unwind" /\ pc'[t] = "idle"
      /\ UNCHANGED <<readable, FirstBlockIndex, LastBlockIndex, BlockIndex, CompressedBuffers,
                     AsyncReadSucceeded, Uncompressed, result>>
  BY DEF Return, TypeOK
<1>1. \A b \in Blocks : task'[<<t, b>>] = "none"
  BY Typed DEF Return
<1>2. Pipeline(t)' /\ Filled(t)'
  BY <1>0, <1>1 DEF Pipeline, Filled
<1>3. Outcome(t)'
  BY <1>0 DEF Sound, Outcome
<1> QED BY <1>0, <1>2, <1>3 DEF Sound, Fresh, Decoding, Decoded

\* What the tasks of a thread leave alone.
LEMMA TaskFrame ==
  ASSUME TypeOK, NEW t \in Threads, NEW b \in Blocks, Task(t, b) \/ Reenter(t, b)
  PROVE  /\ UNCHANGED <<readable, pc, FirstBlockIndex, LastBlockIndex, BlockIndex,
                        Uncompressed, result>>
         /\ task[<<t, b>>] \in InFlight
         /\ task'[<<t, b>>] \notin {"none", "started"}
         /\ \A c \in Blocks : c # b => task'[<<t, c>>] = task[<<t, c>>]
         /\ \A c \in Blocks : BufferIndex(t, c)' = BufferIndex(t, c)
<1>1. /\ UNCHANGED <<readable, pc, FirstBlockIndex, LastBlockIndex, BlockIndex,
                     Uncompressed, result>>
      /\ task[<<t, b>>] \in InFlight
  BY DEF Task, Reenter, NextHandle, Lock, Enter, Seek, SeekThrows, Serialize, Unlock
<1>2. task'[<<t, b>>] \notin {"none", "started"}
  BY TasksOfTask DEF Task
<1>3. \A c \in Blocks : c # b => <<t, c>> \in Tasks /\ <<t, c>> # <<t, b>>
  BY Typed
<1>4. \A c \in Blocks : BufferIndex(t, c)' = BufferIndex(t, c)
  BY <1>1 DEF BufferIndex
<1> QED BY <1>1, <1>2, <1>3, <1>4, TasksOfTask

\* The buffer and the flag a task writes belong to no block Read still needs.
LEMMA TaskBuffer ==
  ASSUME TypeOK, NEW t \in Threads, Pipeline(t), NEW b \in Blocks, task[<<t, b>>] \in InFlight
  PROVE  /\ \A c \in Blocks : (c # b /\ BlockIndex[t] <= c /\ task[<<t, c>>] # "none")
                              => BufferIndex(t, c) # BufferIndex(t, b)
         /\ pc[t] = "decode" => BufferIndex(t, BlockIndex[t]) # BufferIndex(t, b)
<1>1. BlockIndex[t] <= b /\ b <= BlockIndex[t] + 1
      /\ (pc[t] = "decode" => b = BlockIndex[t] + 1)
  BY Typed DEF Pipeline
<1>2. ASSUME NEW c \in Blocks, c # b, BlockIndex[t] <= c, task[<<t, c>>] # "none"
      PROVE  BufferIndex(t, c) # BufferIndex(t, b)
  <2>1. c <= BlockIndex[t] + 1
    BY <1>2, Typed DEF Pipeline
  <2>2. c = b + 1 \/ b = c + 1
    BY <1>1, <1>2, <2>1, Typed
  <2> QED BY <2>2, TwoBuffers
<1>3. pc[t] = "decode" => BufferIndex(t, BlockIndex[t]) # BufferIndex(t, b)
  BY <1>1, Typed, TwoBuffers
<1> QED BY <1>2, <1>3

LEMMA TaskSound ==
  ASSUME TypeOK, NEW t \in Threads, Sound(t), NEW b \in Blocks, Task(t, b) \/ Reenter(t, b)
  PROVE  Sound(t)'
<1> USE DEF Sound
<1>1. Pipeline(t)'
  BY TaskFrame DEF Pipeline
<1>2. Decoded(t)' /\ Outcome(t)'
  BY TaskFrame DEF Decoded, Outcome
\* Every buffer and flag but the task's own is as it was.
<1>3. \A j \in {0, 1} : j # BufferIndex(t, b) =>
        /\ CompressedBuffers'[t][j] = CompressedBuffers[t][j]
        /\ AsyncReadSucceeded'[t][j] = AsyncReadSucceeded[t][j]
  <2>1. CASE NextHandle(t, b) \/ Lock(t, b) \/ Reenter(t, b) \/ SeekThrows(t, b) \/ Unlock(t, b)
    BY <2>1 DEF NextHandle, Lock, Reenter, Enter, SeekThrows, Unlock
  <2>2. CASE Seek(t, b) \/ Serialize(t, b)
    BY <2>2, BufferType DEF Seek, Serialize, TypeOK
  <2> QED BY <2>1, <2>2 DEF Task
<1>4. \A c \in Blocks : BufferIndex(t, c) \in {0, 1}
  BY BufferType
<1>0. /\ UNCHANGED <<pc, BlockIndex, FirstBlockIndex, readable>>
      /\ BufferIndex(t, BlockIndex[t])' = BufferIndex(t, BlockIndex[t])
  BY TaskFrame DEF BufferIndex
<1>5. Filled(t)'
  <2> SUFFICES ASSUME NEW c \in Blocks, BlockIndex[t] <= c, task'[<<t, c>>] \in {"stored", "done"}
               PROVE  /\ AsyncReadSucceeded'[t][BufferIndex(t, c)] => c < readable
                      /\ c < readable => /\ AsyncReadSucceeded'[t][BufferIndex(t, c)]
                                         /\ CompressedBuffers'[t][BufferIndex(t, c)] = c
    BY ZenonT(40), TaskFrame DEF Filled
  <2>1. CASE c # b
    <3>1. task[<<t, c>>] \in {"stored", "done"}
      BY <2>1, TaskFrame
    <3>2. BufferIndex(t, c) # BufferIndex(t, b)
      BY ZenonT(40), <2>1, <3>1, TaskFrame, TaskBuffer
    <3> QED BY <3>1, <3>2, <1>3, <1>4 DEF Filled
  <2>2. CASE c = b /\ Serialize(t, b)
    <3>1. AsyncReadSucceeded'[t][BufferIndex(t, b)] <=> b < readable
      BY <2>2, <1>4 DEF Serialize, TypeOK
    <3>2. b < readable => CompressedBuffers'[t][BufferIndex(t, b)] = b
      BY <2>2, <1>4 DEF Serialize, TypeOK
    <3> QED BY <2>2, <3>1, <3>2
  <2>3. CASE c = b /\ Unlock(t, b)
    BY <2>3, <1>4 DEF Unlock, Filled
  <2>4. CASE c = b /\ ~Serialize(t, b) /\ ~Unlock(t, b)
    <3>1. NextHandle(t, b) \/ Lock(t, b) \/ Reenter(t, b) \/ Seek(t, b) \/ SeekThrows(t, b)
      BY <2>4 DEF Task
    <3> QED BY <2>4, <3>1, TasksOfTask
  <2> QED BY <2>1, <2>2, <2>3, <2>4
<1>6. Fresh(t)'
  <2> SUFFICES ASSUME pc[t] \in {"launch", "wait"}, BlockIndex[t] = FirstBlockIndex[t],
                      task'[<<t, BlockIndex[t]>>] \notin {"stored", "done"}
               PROVE  ~AsyncReadSucceeded'[t][BufferIndex(t, BlockIndex[t])]
    BY <1>0 DEF Fresh
  <2>0. task[<<t, BlockIndex[t]>>] \notin {"stored", "done"}
    <3>1. CASE BlockIndex[t] # b
      BY <3>1, TaskFrame, Typed
    <3>2. CASE BlockIndex[t] = b /\ task[<<t, b>>] \in {"stored", "done"}
      <4>1. Unlock(t, b)
        BY <3>2
           DEF Task, Reenter, NextHandle, Lock, Enter, Seek, SeekThrows, Serialize
      <4> QED BY <3>2, <4>1, TasksOfTask
    <3> QED BY <3>1, <3>2
  <2>1. ~AsyncReadSucceeded[t][BufferIndex(t, BlockIndex[t])]
    BY <2>0, Typed DEF Fresh
  <2>2. CASE b = BlockIndex[t]
    <3>1. ~Serialize(t, b)
      BY <2>2, TasksOfTask
    <3>2. AsyncReadSucceeded' = AsyncReadSucceeded
      BY <3>1 DEF Task, Reenter, NextHandle, Lock, Enter, Seek, SeekThrows, Unlock
    <3> QED BY <2>1, <3>2
  <2>3. CASE b # BlockIndex[t]
    <3>0. task[<<t, b>>] \in InFlight /\ task[<<t, b>>] # "none"
      BY TaskFrame
    <3>1. BlockIndex[t] <= b /\ b <= BlockIndex[t] + 1
      BY <3>0, Typed DEF Pipeline
    <3>2. BufferIndex(t, BlockIndex[t]) # BufferIndex(t, b)
      BY <2>3, <3>1, Typed, TwoBuffers
    <3> QED BY <2>1, <3>2, <1>3, <1>4, Typed
  <2> QED BY <2>2, <2>3
<1>7. Decoding(t)'
  <2>1. task[<<t, b>>] \in InFlight
    BY TaskFrame
  <2>2. pc[t] = "decode" => BufferIndex(t, BlockIndex[t]) # BufferIndex(t, b)
    BY <2>1, TaskBuffer
  <2> QED BY <1>0, <1>3, <1>4, <2>2, Typed DEF Decoding
<1> QED BY <1>1, <1>2, <1>5, <1>6, <1>7

-----------------------------------------------------------------------------
(***************************************************************************)
(* The theorems.                                                           *)
(***************************************************************************)
LEMMA ReadInvInit == Init => ReadInv
<1> SUFFICES ASSUME Init PROVE ReadInv
  OBVIOUS
<1>1. TypeOK
  BY TypeInit
<1>2. \A k \in Tasks : task[k] = "none"
  BY DEF Init
<1>3. LockInv /\ ReachInv
  BY <1>2 DEF LockInv, ReachInv
<1>4. ASSUME NEW t \in Threads PROVE Sound(t)
  <2>1. pc[t] = "idle" /\ result[t] = "none"
    BY DEF Init
  <2> QED BY <1>1, <1>2, <2>1, Typed
          DEF Sound, Pipeline, Filled, Fresh, Decoding, Decoded, Outcome
<1> QED BY <1>1, <1>3, <1>4, ReadInvSound

LEMMA ReadInvNext == ReadInv /\ [Next]_vars => ReadInv'
<1> SUFFICES ASSUME ReadInv, [Next]_vars PROVE ReadInv'
  OBVIOUS
<1>0. TypeOK /\ LockInv /\ ReachInv /\ \A t \in Threads : Sound(t)
  BY ReadInvSound
<1>1. TypeOK' /\ LockInv' /\ ReachInv'
  BY <1>0, TypeNext, LockNext, ReachNext
<1>2. ASSUME NEW u \in Threads PROVE Sound(u)'
  <2>1. ASSUME NEW t \in Threads, Read(t) \/ Thread(t) PROVE Sound(u)'
    <3>1. CASE t # u
      BY <1>0, <2>1, <3>1, Others, SameSound
    <3>2. CASE t = u
      BY <1>0, <2>1, <3>2, ReadSound, LaunchSound, WaitSound, DecodeSound,
         DecodeFailsSound, ReturnSound DEF Thread
    <3> QED BY <3>1, <3>2
  <2>2. ASSUME NEW t \in Threads, NEW b \in Blocks, Task(t, b) \/ Reenter(t, b)
        PROVE  Sound(u)'
    <3>1. CASE t # u
      BY <1>0, <2>2, <3>1, Others, SameSound
    <3>2. CASE t = u
      BY <1>0, <2>2, <3>2, TaskSound
    <3> QED BY <3>1, <3>2
  <2>3. CASE UNCHANGED vars
    <3>1. Same(u)
      BY <2>3 DEF vars, Same
    <3> QED BY <1>0, <3>1, SameSound
  <2> QED BY <2>1, <2>2, <2>3 DEF Next
<1>3. (TypeOK /\ LockInv /\ ReachInv /\ \A t \in Threads : Sound(t))' => ReadInv'
  BY DEF ReadInv, Sound
<1> QED BY <1>1, <1>2, <1>3

\* The inductive invariant holds throughout.
THEOREM ReadInvariant == Spec => []ReadInv
<1>1. Init => ReadInv
  BY ReadInvInit
<1>2. ReadInv /\ [Next]_vars => ReadInv'
  BY ReadInvNext
<1> QED BY <1>1, <1>2, PTL DEF Spec

\* No two tasks are inside the same file handle, for any number of handles and
\* whatever exceptions left locked (IoStoreReader.cpp:188-205).
THEOREM HandlesAreExclusive == Spec => []HandleExclusive
<1>1. ReadInv => HandleExclusive
  BY DEF ReadInv, LockInv, HandleExclusive
<1> QED BY <1>1, ReadInvariant, PTL

\* A buffer has one user at a time: the task that fills it or the thread that
\* decodes it, and none once Read has returned (IoStoreReader.cpp:475-493).
THEOREM BuffersAreExclusive == Spec => []BufferExclusive
<1>1. ReadInv => BufferExclusive
  <2> SUFFICES ASSUME ReadInv, NEW t \in Threads, NEW b \in Blocks,
                      task[<<t, b>>] \in InFlight
               PROVE  /\ pc[t] # "idle"
                      /\ pc[t] = "decode" => BufferIndex(t, b) # BufferIndex(t, BlockIndex[t])
                      /\ \A c \in Blocks : (c # b /\ task[<<t, c>>] \in InFlight)
                                             => BufferIndex(t, c) # BufferIndex(t, b)
    BY DEF BufferExclusive
  <2>1. TypeOK /\ Pipeline(t)
    BY DEF ReadInv
  <2> QED BY <2>1, TaskBuffer DEF Pipeline
<1> QED BY <1>1, ReadInvariant, PTL

\* A Read that succeeds returned the bytes of all its blocks, however many
\* threads read at once and wherever the file ends (IoStoreReader.cpp:422-544).
THEOREM ReadIsRight == Spec => []OkIsRight
<1>1. ReadInv => OkIsRight
  BY DEF ReadInv, Outcome, OkIsRight
<1> QED BY <1>1, ReadInvariant, PTL

\* A Read that fails had a reason to (IoStoreReader.cpp:495-497, 538-540).
THEOREM ErrorsHaveCauses == Spec => []ErrorHasCause
<1>1. ReadInv => ErrorHasCause
  BY DEF ReadInv, Outcome, ErrorHasCause
<1> QED BY <1>1, ReadInvariant, PTL

=============================================================================
