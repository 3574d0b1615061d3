----------------------------- MODULE MountProofs -----------------------------
(***************************************************************************)
(* Proofs about mounting, for any number of archives: the pool that runs   *)
(* the mounts (ThreadPool), and what each of them does to the virtual file *)
(* system (MountVfs).                                                      *)
(***************************************************************************)
EXTENDS ThreadPool, MountVfs, FiniteSetTheorems, FunctionTheorems, SequenceTheorems,
        NaturalsInduction, TLAPS

-----------------------------------------------------------------------------
(***************************************************************************)
(* The pool, for any number of archives and workers.                       *)
(***************************************************************************)
Queued(a) == \E i \in 1 .. Len(tasks) : tasks[i] = a

\* Where an archive is follows from where its submitter and its worker are.
QueueInv ==
  /\ \A i \in 1 .. Len(tasks) : task[tasks[i]] = "waiting" /\ submitter[tasks[i]] # "new"
  /\ \A i, j \in 1 .. Len(tasks) : tasks[i] = tasks[j] => i = j
  /\ \A a \in ArchivePaths : submitter[a] = "new" => task[a] = "waiting"
  /\ \A a \in ArchivePaths : task[a] = "waiting" => submitter[a] = "new" \/ Queued(a)

WorkerInv ==
  /\ \A w \in Workers : worker[w] = "run" => task[running[w]] = "running"
  /\ \A a \in ArchivePaths : task[a] = "running" =>
       \E w \in Workers : worker[w] = "run" /\ running[w] = a
  /\ \A v, w \in Workers :
       (worker[v] = "run" /\ worker[w] = "run" /\ running[v] = running[w]) => v = w

StopInv ==
  /\ stop => main # "submit" /\ \A a \in ArchivePaths : submitter[a] = "notified"
  /\ main \in {"notify", "join", "returned"} => stop
  /\ \A w \in Workers : worker[w] = "exited" => stop /\ tasks = <<>>
  /\ main = "returned" => \A w \in Workers : worker[w] = "exited"

\* A worker leaves only when nothing can be queued any more.
PoolInv == PoolTypeOK /\ QueueInv /\ WorkerInv /\ StopInv

-----------------------------------------------------------------------------
LEMMA PoolStarts == PoolInit => PoolInv
<1> SUFFICES ASSUME PoolInit PROVE PoolInv
  OBVIOUS
<1> USE DEF PoolInit
<1>1. PoolTypeOK
  <2>1. \A w \in Workers : running[w] = Nothing /\ worker[w] = "check"
    OBVIOUS
  <2>2. tasks \in Seq(ArchivePaths)
    OBVIOUS
  <2>3. running \in [Workers -> ArchivePaths \cup {Nothing}]
    OBVIOUS
  <2>4. \A w \in Workers : worker[w] = "run" <=> running[w] # Nothing
    BY <2>1
  <2> QED BY <2>2, <2>3, <2>4 DEF PoolTypeOK
<1>2. tasks = <<>> /\ Len(tasks) = 0
  OBVIOUS
<1>3. QueueInv
  BY <1>2 DEF QueueInv, Queued
<1>4. WorkerInv
  BY DEF WorkerInv
<1>5. StopInv
  BY DEF StopInv
<1> QED BY <1>1, <1>3, <1>4, <1>5 DEF PoolInv

LEMMA TypeNext == PoolTypeOK /\ [PoolNext]_poolVars => PoolTypeOK'
<1> SUFFICES ASSUME PoolTypeOK, [PoolNext]_poolVars PROVE PoolTypeOK'
  OBVIOUS
<1> USE DEF PoolTypeOK
<1>1. ASSUME NEW a \in ArchivePaths, Enqueue(a) PROVE PoolTypeOK'
  BY <1>1 DEF Enqueue
<1>2. ASSUME NEW a \in ArchivePaths, NotifyOne(a) PROVE PoolTypeOK'
  BY <1>2 DEF NotifyOne, WakeOne
<1>3. CASE Main
  BY ZenonT(40), <1>3 DEF Main, Stop, NotifyAll, Join
<1>4. ASSUME NEW w \in Workers, Take(w) PROVE PoolTypeOK'
  <2>1. Head(tasks) \in ArchivePaths /\ Tail(tasks) \in Seq(ArchivePaths)
    BY <1>4 DEF Take
  <2> QED BY <1>4, <2>1, PoolAssumption DEF Take, PoolAssumption
<1>5. ASSUME NEW w \in Workers, EndTask(w) PROVE PoolTypeOK'
  BY <1>5, PoolAssumption DEF EndTask, PoolAssumption
<1>6. ASSUME NEW w \in Workers, Sleep(w) \/ Exit(w) \/ WakeSpuriously(w) \/ TaskThrows(w)
      PROVE PoolTypeOK'
  BY <1>6 DEF Sleep, Exit, WakeSpuriously, TaskThrows
<1>7. CASE UNCHANGED poolVars
  BY <1>7 DEF poolVars
<1> QED BY <1>1, <1>2, <1>3, <1>4, <1>5, <1>6, <1>7 DEF PoolNext, Submit, Worker

LEMMA QueueNext == PoolTypeOK /\ QueueInv /\ WorkerInv /\ [PoolNext]_poolVars => QueueInv'
<1> SUFFICES ASSUME PoolTypeOK, QueueInv, WorkerInv, [PoolNext]_poolVars PROVE QueueInv'
  OBVIOUS
<1>0. /\ tasks \in Seq(ArchivePaths) /\ Len(tasks) \in Nat
      /\ submitter \in [ArchivePaths -> {"new", "pushed", "notified"}]
      /\ task \in [ArchivePaths -> {"waiting", "running", "done"}]
  BY DEF PoolTypeOK
<1>1. ASSUME NEW a \in ArchivePaths, Enqueue(a) PROVE QueueInv'
  <2>1. /\ Len(tasks') = Len(tasks) + 1
        /\ \A i \in 1 .. Len(tasks) : tasks'[i] = tasks[i]
        /\ tasks'[Len(tasks) + 1] = a
    BY <1>0, <1>1 DEF Enqueue
  <2>2. submitter[a] = "new" /\ submitter' = [submitter EXCEPT ![a] = "pushed"] /\ task' = task
    BY <1>1 DEF Enqueue
  <2>3. \A i \in 1 .. Len(tasks) : tasks[i] # a /\ tasks[i] \in ArchivePaths
    BY <1>0, <2>2 DEF QueueInv
  <2>4. \A i \in 1 .. Len(tasks') : task'[tasks'[i]] = "waiting" /\ submitter'[tasks'[i]] # "new"
    BY <1>0, <2>1, <2>2, <2>3 DEF QueueInv
  <2>5. \A i, j \in 1 .. Len(tasks') : tasks'[i] = tasks'[j] => i = j
    BY <1>0, <2>1, <2>3 DEF QueueInv
  <2>6. \A b \in ArchivePaths : submitter'[b] = "new" => task'[b] = "waiting"
    BY <1>0, <2>2 DEF QueueInv
  <2>7. ASSUME NEW b \in ArchivePaths, task'[b] = "waiting" PROVE submitter'[b] = "new" \/ Queued(b)'
    <3>1. CASE b = a
      <4>1. Len(tasks) + 1 \in 1 .. Len(tasks') /\ tasks'[Len(tasks) + 1] = b
        BY <1>0, <2>1, <3>1
      <4> QED BY <4>1 DEF Queued
    <3>2. CASE b # a
      <4>1. task[b] = "waiting" /\ submitter'[b] = submitter[b]
        BY <1>0, <2>2, <2>7, <3>2
      <4>2. CASE Queued(b)
        <5>1. PICK i \in 1 .. Len(tasks) : tasks[i] = b
          BY <4>2 DEF Queued
        <5>2. i \in 1 .. Len(tasks') /\ tasks'[i] = b
          BY <1>0, <2>1, <5>1
        <5> QED BY <5>2 DEF Queued
      <4> QED BY <4>1, <4>2 DEF QueueInv
    <3> QED BY <3>1, <3>2
  <2> QED BY <2>4, <2>5, <2>6, <2>7 DEF QueueInv
<1>2. ASSUME NEW a \in ArchivePaths, NotifyOne(a) PROVE QueueInv'
  <2>1. /\ submitter[a] = "pushed" /\ submitter' = [submitter EXCEPT ![a] = "notified"]
        /\ UNCHANGED <<tasks, task>>
    BY <1>2 DEF NotifyOne
  <2>2. \A b \in ArchivePaths : submitter'[b] = "new" <=> submitter[b] = "new"
    BY <1>0, <2>1
  <2> QED BY <1>0, <2>1, <2>2 DEF QueueInv, Queued
<1>3. ASSUME NEW w \in Workers, Take(w) PROVE QueueInv'
  <2> DEFINE h == Head(tasks)
  <2>1. /\ tasks # <<>> /\ h = tasks[1] /\ h \in ArchivePaths
        /\ Len(tasks') = Len(tasks) - 1
        /\ \A i \in 1 .. Len(tasks') : tasks'[i] = tasks[i + 1]
        /\ 1 \in 1 .. Len(tasks)
    BY <1>0, <1>3 DEF Take
  <2>2. task' = [task EXCEPT ![h] = "running"] /\ submitter' = submitter
    BY <1>3 DEF Take
  <2>3. ASSUME NEW i \in 1 .. Len(tasks') PROVE tasks'[i] # h /\ tasks'[i] \in ArchivePaths
    <3>1. i + 1 \in 1 .. Len(tasks) /\ i + 1 # 1 /\ tasks'[i] = tasks[i + 1]
      BY <1>0, <2>1
    <3>2. tasks[i + 1] # tasks[1]
      BY <2>1, <3>1 DEF QueueInv
    <3> QED BY <1>0, <2>1, <3>1, <3>2
  <2>4. \A i \in 1 .. Len(tasks') : task'[tasks'[i]] = "waiting" /\ submitter'[tasks'[i]] # "new"
    BY <1>0, <2>1, <2>2, <2>3 DEF QueueInv
  <2>5. \A i, j \in 1 .. Len(tasks') : tasks'[i] = tasks'[j] => i = j
    BY <1>0, <2>1 DEF QueueInv
  <2>6. submitter[h] # "new"
    BY <2>1 DEF QueueInv
  <2>7. \A b \in ArchivePaths : submitter'[b] = "new" => task'[b] = "waiting"
    BY <1>0, <2>2, <2>6 DEF QueueInv
  <2>8. ASSUME NEW b \in ArchivePaths, task'[b] = "waiting" PROVE submitter'[b] = "new" \/ Queued(b)'
    <3>1. b # h /\ task[b] = "waiting"
      BY <1>0, <2>1, <2>2, <2>8
    <3>2. CASE submitter[b] = "new"
      BY <2>2, <3>2
    <3>3. CASE Queued(b)
      <4>1. PICK i \in 1 .. Len(tasks) : tasks[i] = b
        BY <3>3 DEF Queued
      <4>2. i - 1 \in 1 .. Len(tasks') /\ tasks'[i - 1] = b
        BY <1>0, <2>1, <3>1, <4>1
      <4> QED BY <4>2 DEF Queued
    <3> QED BY <3>1, <3>2, <3>3 DEF QueueInv
  <2> QED BY <2>4, <2>5, <2>7, <2>8 DEF QueueInv
<1>4. ASSUME NEW w \in Workers, EndTask(w) PROVE QueueInv'
  <2>1. /\ task[running[w]] = "running" /\ running[w] \in ArchivePaths
        /\ task' = [task EXCEPT ![running[w]] = "done"] /\ UNCHANGED <<tasks, submitter>>
    BY <1>4 DEF EndTask, WorkerInv, PoolTypeOK
  <2>2. \A a \in ArchivePaths : task'[a] = "waiting" <=> task[a] = "waiting"
    BY <1>0, <2>1
  <2>3. \A i \in 1 .. Len(tasks) : tasks[i] \in ArchivePaths
    BY <1>0
  <2> QED BY <2>1, <2>2, <2>3 DEF QueueInv, Queued
<1>5. CASE UNCHANGED <<tasks, task, submitter>>
  BY <1>5 DEF QueueInv, Queued
<1>6. Main \/ (\E w \in Workers : Sleep(w) \/ Exit(w) \/ WakeSpuriously(w) \/ TaskThrows(w))
        \/ UNCHANGED poolVars => UNCHANGED <<tasks, task, submitter>>
  BY DEF Main, Stop, NotifyAll, Join, Sleep, Exit, WakeSpuriously, TaskThrows, poolVars
<1> QED BY <1>1, <1>2, <1>3, <1>4, <1>5, <1>6 DEF PoolNext, Submit, Worker

LEMMA WorkerNext == PoolTypeOK /\ QueueInv /\ WorkerInv /\ [PoolNext]_poolVars => WorkerInv'
<1> SUFFICES ASSUME PoolTypeOK, QueueInv, WorkerInv, [PoolNext]_poolVars PROVE WorkerInv'
  OBVIOUS
<1>0. /\ worker \in [Workers -> {"check", "asleep", "run", "exited"}]
      /\ running \in [Workers -> ArchivePaths \cup {Nothing}]
      /\ task \in [ArchivePaths -> {"waiting", "running", "done"}]
      /\ \A v \in Workers : worker[v] = "run" => running[v] \in ArchivePaths
  BY PoolAssumption DEF PoolTypeOK, PoolAssumption
<1>1. ASSUME NEW w \in Workers, Take(w) PROVE WorkerInv'
  <2> DEFINE h == Head(tasks)
  <2>1. /\ h \in ArchivePaths /\ task[h] = "waiting"
    <3>1. tasks \in Seq(ArchivePaths) /\ tasks # <<>>
      BY <1>1 DEF Take, PoolTypeOK
    <3>2. h = tasks[1] /\ 1 \in 1 .. Len(tasks) /\ h \in ArchivePaths
      BY <3>1
    <3> QED BY <3>2 DEF QueueInv
  <2>2. /\ worker[w] = "check" /\ worker' = [worker EXCEPT ![w] = "run"]
        /\ running' = [running EXCEPT ![w] = h] /\ task' = [task EXCEPT ![h] = "running"]
    BY <1>1 DEF Take
  <2> QED BY <1>0, <2>1, <2>2 DEF WorkerInv
<1>2. ASSUME NEW w \in Workers, EndTask(w) PROVE WorkerInv'
  <2>1. /\ worker[w] = "run" /\ worker' = [worker EXCEPT ![w] = "check"]
        /\ running' = [running EXCEPT ![w] = Nothing]
        /\ task' = [task EXCEPT ![running[w]] = "done"]
    BY <1>2 DEF EndTask
  <2> QED BY <1>0, <2>1 DEF WorkerInv
<1>3. ASSUME UNCHANGED <<running, task>>,
             \A v \in Workers : worker'[v] = "run" <=> worker[v] = "run"
      PROVE  WorkerInv'
  BY <1>3 DEF WorkerInv
<1>4. ASSUME NEW a \in ArchivePaths, Enqueue(a) \/ NotifyOne(a) PROVE WorkerInv'
  BY <1>0, <1>3, <1>4 DEF Enqueue, NotifyOne, WakeOne
<1>5. CASE Main
  BY <1>0, <1>3, <1>5 DEF Main, Stop, NotifyAll, Join
<1>6. ASSUME NEW w \in Workers, Sleep(w) \/ Exit(w) \/ WakeSpuriously(w) \/ TaskThrows(w)
      PROVE WorkerInv'
  BY <1>0, <1>3, <1>6 DEF Sleep, Exit, WakeSpuriously, TaskThrows
<1>7. CASE UNCHANGED poolVars
  BY <1>3, <1>7 DEF poolVars
<1> QED BY <1>1, <1>2, <1>4, <1>5, <1>6, <1>7 DEF PoolNext, Submit, Worker

LEMMA StopNext == PoolTypeOK /\ StopInv /\ [PoolNext]_poolVars => StopInv'
<1> SUFFICES ASSUME PoolTypeOK, StopInv, [PoolNext]_poolVars PROVE StopInv'
  OBVIOUS
<1> USE DEF StopInv, PoolTypeOK
<1>1. ASSUME NEW a \in ArchivePaths, Enqueue(a) \/ NotifyOne(a) PROVE StopInv'
  BY <1>1 DEF Enqueue, NotifyOne, WakeOne, Alive
<1>2. CASE Main
  BY <1>2 DEF Main, Stop, NotifyAll, Join
<1>3. ASSUME NEW w \in Workers, Take(w) \/ EndTask(w) PROVE StopInv'
  BY <1>3 DEF Take, EndTask, Alive
<1>4. ASSUME NEW w \in Workers, Sleep(w) \/ Exit(w) \/ WakeSpuriously(w) \/ TaskThrows(w)
      PROVE StopInv'
  BY <1>4 DEF Sleep, Exit, WakeSpuriously, TaskThrows, Alive
<1>5. CASE UNCHANGED poolVars
  BY <1>5 DEF poolVars
<1> QED BY <1>1, <1>2, <1>3, <1>4, <1>5 DEF PoolNext, Submit, Worker

\* The inductive invariant of the pool holds throughout.
THEOREM PoolInvariant == PoolSpec => []PoolInv
<1>1. PoolInit => PoolInv
  BY PoolStarts
<1>2. PoolInv /\ [PoolNext]_poolVars => PoolInv'
  BY TypeNext, QueueNext, WorkerNext, StopNext DEF PoolInv
<1> QED BY <1>1, <1>2, PTL DEF PoolSpec

\* Every variable of the pool keeps its type.
THEOREM PoolTypeCorrect == PoolSpec => []PoolTypeOK
<1>1. PoolInv => PoolTypeOK
  BY DEF PoolInv
<1> QED BY <1>1, PoolInvariant, PTL

LEMMA InvDrained == PoolInv => Drained
<1> SUFFICES ASSUME PoolInv, main = "returned"
             PROVE  /\ tasks = <<>>
                    /\ \A a \in ArchivePaths : task[a] = "done"
                    /\ \A w \in Workers : worker[w] = "exited"
  BY DEF Drained
<1>1. stop /\ \A w \in Workers : worker[w] = "exited"
  BY DEF PoolInv, StopInv
<1>2. tasks = <<>>
  BY <1>1, PoolAssumption DEF PoolInv, StopInv, PoolAssumption
<1>3. ASSUME NEW a \in ArchivePaths PROVE task[a] = "done"
  <2>1. task[a] # "waiting"
    BY <1>1, <1>2 DEF PoolInv, QueueInv, StopInv, Queued
  <2>2. task[a] # "running"
    BY <1>1 DEF PoolInv, WorkerInv
  <2> QED BY <2>1, <2>2 DEF PoolInv, PoolTypeOK
<1> QED BY <1>1, <1>2, <1>3

\* When MountAsync returns nothing is queued, running or still to be submitted
\* (FileProvider.cpp:87-90, ThreadPool.ixx:36-45).
THEOREM PoolDrains == PoolSpec => []Drained
BY PoolInvariant, InvDrained, PTL

\* Every step of the pool is a step of MountTasks or none: a mount begins once
\* and ends once, and MountAsync returns after the last (FileProvider.cpp:55-90).
THEOREM PoolKeepsPromise == PoolSpec => PoolPromise!MSafe
<1>1. PoolInit => PoolPromise!MInit
  BY DEF PoolInit, Alive, PoolPromise!MInit
<1>2. PoolInv /\ PoolInv' /\ [PoolNext]_poolVars => [PoolPromise!MNext]_(PoolPromise!mvars)
  <2> SUFFICES ASSUME PoolInv, PoolInv', [PoolNext]_poolVars
               PROVE  PoolPromise!MNext \/ UNCHANGED PoolPromise!mvars
    OBVIOUS
  <2> USE DEF PoolPromise!mvars
  <2>1. ASSUME NEW w \in Workers, Take(w) PROVE PoolPromise!MNext
    <3>1. Head(tasks) \in ArchivePaths /\ task[Head(tasks)] = "waiting"
      <4>1. tasks \in Seq(ArchivePaths) /\ tasks # <<>>
        BY <2>1 DEF Take, PoolInv, PoolTypeOK
      <4>2. Head(tasks) = tasks[1] /\ 1 \in 1 .. Len(tasks) /\ Head(tasks) \in ArchivePaths
        BY <4>1
      <4> QED BY <4>2 DEF PoolInv, QueueInv
    <3>2. PoolPromise!Begin(Head(tasks))
      BY <2>1, <3>1 DEF Take, Alive, PoolPromise!Begin
    <3> QED BY <3>1, <3>2 DEF PoolPromise!MNext
  <2>2. ASSUME NEW w \in Workers, EndTask(w) PROVE PoolPromise!MNext
    <3>1. running[w] \in ArchivePaths /\ task[running[w]] = "running"
      BY <2>2 DEF EndTask, PoolInv, PoolTypeOK, WorkerInv
    <3>2. PoolPromise!End(running[w])
      BY <2>2, <3>1 DEF EndTask, Alive, PoolPromise!End
    <3> QED BY <3>1, <3>2 DEF PoolPromise!MNext
  <2>3. ASSUME NEW w \in Workers, TaskThrows(w) PROVE PoolPromise!MNext
    <3>1. running[w] \in ArchivePaths /\ task[running[w]] = "running"
      BY <2>3 DEF TaskThrows, PoolInv, PoolTypeOK, WorkerInv
    <3>2. PoolPromise!Terminate
      BY <2>3, <3>1 DEF TaskThrows, Alive, PoolPromise!Terminate
    <3> QED BY <3>2 DEF PoolPromise!MNext
  <2>4. CASE Join
    <3>1. main' = "returned" /\ task' = task /\ main = "join"
      BY <2>4 DEF Join
    <3>2. \A a \in ArchivePaths : task[a] = "done"
      <4>1. Drained'
        BY InvDrained, PTL
      <4> QED BY <3>1, <4>1 DEF Drained
    <3>3. PoolPromise!AllReturn
      BY <3>1, <3>2 DEF Alive, PoolPromise!AllReturn
    <3> QED BY <3>3 DEF PoolPromise!MNext
  <2>5. CASE Stop \/ NotifyAll
    BY <2>5 DEF Stop, NotifyAll, Alive
  <2>6. ASSUME NEW a \in ArchivePaths, Enqueue(a) \/ NotifyOne(a) PROVE UNCHANGED PoolPromise!mvars
    BY <2>6 DEF Enqueue, NotifyOne, Alive
  <2>7. ASSUME NEW w \in Workers, Sleep(w) \/ Exit(w) \/ WakeSpuriously(w)
        PROVE UNCHANGED PoolPromise!mvars
    BY <2>7 DEF Sleep, Exit, WakeSpuriously, Alive
  <2>8. CASE UNCHANGED poolVars
    BY <2>8 DEF poolVars, Alive
  <2> QED BY <2>1, <2>2, <2>3, <2>4, <2>5, <2>6, <2>7, <2>8 DEF PoolNext, Submit, Main, Worker
<1> QED BY <1>1, <1>2, PoolInvariant, PTL DEF PoolSpec, PoolPromise!MSafe

-----------------------------------------------------------------------------
(***************************************************************************)
(* For any archives, files, threads and order of the mounts: registering   *)
(* keeps MountAsync's promise, registers every file once, and what was     *)
(* registered without a race is found.                                     *)
(*                                                                         *)
(* The argument: the entries of a path correspond one to one to the files  *)
(* of that path that lie below the chunk each archive has to merge next    *)
(* (a bijection, not a count, so that each entry can be compared with its  *)
(* file), the local maps of the threads to the files their loops have      *)
(* passed, and chunks lie end to end.  Without a race at most one thread   *)
(* is between the find and the insertion, so ids are not given twice.      *)
(***************************************************************************)
-----------------------------------------------------------------------------
(***************************************************************************)
(* Entries and the files they stand for.                                   *)
(***************************************************************************)
Entry == [ext : Nat, toc : TocIndexes]
FileAt(k) == Files[k[1]][k[2]]

\* The files that have path p, by archive and position.
Of(p) == {k \in Archives \X Nat : k[2] \in 1 .. Len(Files[k[1]]) /\ FileAt(k).path = p}

\* The entry e stands for the file f under the extension ids of pool.
Fits(e, f, ids, race) ==
  /\ e.toc = f.toc
  /\ ~race => f.ext \in DOMAIN ids /\ e.ext = ids[f.ext]

\* The entries stand for the files of K, each for another one.
Registers(entries, K, ids, race) ==
  \E g \in Bijection(DOMAIN entries, K) :
    \A x \in DOMAIN entries : Fits(entries[x], FileAt(g[x]), ids, race)

LEMMA RegistersNothing ==
  ASSUME NEW ids, NEW race
  PROVE  Registers(<<>>, {}, ids, race)
<1> DEFINE g == [x \in {} |-> x]
<1>1. g \in Bijection(DOMAIN <<>>, {})
  BY DEF Bijection, Injection, Surjection, IsInjective
<1> QED BY <1>1 DEF Registers

LEMMA RegistersMore ==
  ASSUME NEW ids, NEW race, NEW s \in Seq(Entry), NEW t \in Seq(Entry), NEW K, NEW L,
         Registers(s, K, ids, race), Registers(t, L, ids, race), K \cap L = {}
  PROVE  Registers(s \o t, K \cup L, ids, race)
<1>1. PICK g \in Bijection(DOMAIN s, K) :
        \A x \in DOMAIN s : Fits(s[x], FileAt(g[x]), ids, race)
  BY DEF Registers
<1>2. PICK h \in Bijection(DOMAIN t, L) :
        \A x \in DOMAIN t : Fits(t[x], FileAt(h[x]), ids, race)
  BY DEF Registers
<1> DEFINE n == Len(s)
           m == Len(t)
           f == [x \in 1 .. n + m |-> IF x <= n THEN g[x] ELSE h[x - n]]
<1>3. n \in Nat /\ m \in Nat /\ DOMAIN s = 1 .. n /\ DOMAIN t = 1 .. m
  OBVIOUS
<1>4. /\ s \o t \in Seq(Entry) /\ DOMAIN (s \o t) = 1 .. n + m
      /\ \A x \in 1 .. n + m : (s \o t)[x] = IF x <= n THEN s[x] ELSE t[x - n]
  OBVIOUS
<1>5. /\ \A x \in 1 .. n : g[x] \in K
      /\ \A x, y \in 1 .. n : g[x] = g[y] => x = y
      /\ \A k \in K : \E x \in 1 .. n : g[x] = k
  BY <1>1, <1>3 DEF Bijection, Injection, Surjection, IsInjective
<1>6. /\ \A x \in 1 .. m : h[x] \in L
      /\ \A x, y \in 1 .. m : h[x] = h[y] => x = y
      /\ \A k \in L : \E x \in 1 .. m : h[x] = k
  BY <1>2, <1>3 DEF Bijection, Injection, Surjection, IsInjective
<1>7. \A x \in 1 .. n + m : (x <= n /\ x \in 1 .. n) \/ (~(x <= n) /\ x - n \in 1 .. m)
  BY <1>3
<1>8. f \in [1 .. n + m -> K \cup L]
  BY <1>5, <1>6, <1>7
<1>9. ASSUME NEW x \in 1 .. n + m, NEW y \in 1 .. n + m, f[x] = f[y]
      PROVE  x = y
  <2> HIDE DEF n, m
  <2>1. CASE x <= n /\ y <= n
    BY <2>1, <1>3, <1>5, <1>7, <1>9
  <2>2. CASE ~(x <= n) /\ ~(y <= n)
    <3>1. x - n = y - n
      BY <2>2, <1>6, <1>7, <1>9
    <3> QED BY <3>1, <1>3
  <2>3. CASE (x <= n /\ ~(y <= n)) \/ (~(x <= n) /\ y <= n)
    BY <2>3, <1>5, <1>6, <1>7, <1>9
  <2> QED BY <2>1, <2>2, <2>3
<1>10. ASSUME NEW k \in K \cup L
       PROVE  \E x \in 1 .. n + m : f[x] = k
  <2> HIDE DEF n, m
  <2>1. CASE k \in K
    <3>1. PICK x \in 1 .. n : g[x] = k
      BY <2>1, <1>5
    <3>2. x \in 1 .. n + m /\ x <= n
      BY <1>3
    <3> QED BY <3>1, <3>2
  <2>2. CASE k \in L
    <3>1. PICK x \in 1 .. m : h[x] = k
      BY <2>2, <1>6
    <3>2. x + n \in 1 .. n + m /\ ~(x + n <= n) /\ (x + n) - n = x
      BY <1>3
    <3> QED BY <3>1, <3>2
  <2> QED BY <2>1, <2>2
<1>11. f \in Bijection(DOMAIN (s \o t), K \cup L)
  <2> HIDE DEF f, n, m
  <2> QED BY <1>4, <1>8, <1>9, <1>10 DEF Bijection, Injection, Surjection, IsInjective
<1>12. ASSUME NEW x \in DOMAIN (s \o t)
       PROVE  Fits((s \o t)[x], FileAt(f[x]), ids, race)
  <2> HIDE DEF n, m
  <2>1. x \in 1 .. n + m
    BY <1>4
  <2>2. CASE x <= n
    <3>1. x \in DOMAIN s /\ (s \o t)[x] = s[x] /\ f[x] = g[x]
      BY <2>1, <2>2, <1>3, <1>4, <1>7
    <3> QED BY <3>1, <1>1
  <2>3. CASE ~(x <= n)
    <3>1. x - n \in DOMAIN t /\ (s \o t)[x] = t[x - n] /\ f[x] = h[x - n]
      BY <2>1, <2>3, <1>3, <1>4, <1>7
    <3> QED BY <3>1, <1>2
  <2> QED BY <2>2, <2>3
<1> HIDE DEF f
<1> QED BY <1>11, <1>12 DEF Registers

LEMMA RegistersOne ==
  ASSUME NEW ids, NEW race, NEW e \in Entry, NEW k, Fits(e, FileAt(k), ids, race)
  PROVE  Registers(<<e>>, {k}, ids, race)
<1> DEFINE g == [x \in {1} |-> k]
<1>1. DOMAIN <<e>> = {1} /\ <<e>>[1] = e
  OBVIOUS
<1>2. g \in Bijection({1}, {k})
  BY DEF Bijection, Injection, Surjection, IsInjective
<1> QED BY <1>1, <1>2 DEF Registers

LEMMA RegistersAppend ==
  ASSUME NEW ids, NEW race, NEW s \in Seq(Entry), NEW e \in Entry, NEW K, NEW k,
         Registers(s, K, ids, race), Fits(e, FileAt(k), ids, race), k \notin K
  PROVE  Registers(Append(s, e), K \cup {k}, ids, race)
<1>1. <<e>> \in Seq(Entry) /\ Append(s, e) = s \o <<e>>
  OBVIOUS
<1>2. Registers(<<e>>, {k}, ids, race)
  BY RegistersOne
<1>3. K \cap {k} = {}
  OBVIOUS
<1>4. Registers(s \o <<e>>, K \cup {k}, ids, race)
  BY <1>1, <1>2, <1>3, RegistersMore
<1> QED BY <1>1, <1>4

\* What was registered stays registered when the pool only grows.
LEMMA RegistersStays ==
  ASSUME NEW ids, NEW race, NEW newIds, NEW newRace, NEW s, NEW K,
         Registers(s, K, ids, race),
         ~newRace => ~race /\ \A x \in DOMAIN ids : x \in DOMAIN newIds /\ newIds[x] = ids[x]
  PROVE  Registers(s, K, newIds, newRace)
BY DEF Registers, Fits

-----------------------------------------------------------------------------
(***************************************************************************)
(* Chunks.                                                                 *)
(***************************************************************************)
\* The files below the first chunk that is not merged are in the file map.
MergedTo(a) == IF merged[a] = NumThreads THEN Len(Files[a]) ELSE StartIdx(a, merged[a])
Merged(p) == {k \in Of(p) : k[2] <= MergedTo(k[1])}

\* The files that the loop of a thread has passed.
Collected(a, i, p) ==
  {k \in Of(p) : k[1] = a /\ k[2] \in StartIdx(a, i) + 1 .. StartIdx(a, i) + next[<<a, i>>]}

\* Chunks lie end to end, from the first file of the archive to its last.
LEMMA ChunksCover ==
  ASSUME NEW a \in Archives
  PROVE  /\ Len(Files[a]) \in Nat
         /\ StartIdx(a, 0) = 0
         /\ \A i \in Chunks : /\ StartIdx(a, i) \in Nat /\ EndIdx(a, i) \in Nat
                              /\ StartIdx(a, i) <= EndIdx(a, i)
                              /\ EndIdx(a, i) <= Len(Files[a])
                              /\ EndIdx(a, i) = IF i + 1 = NumThreads THEN Len(Files[a])
                                                ELSE StartIdx(a, i + 1)
<1> DEFINE n == NumThreads
           l == Len(Files[a])
           c == ChunkSize(a)
<1>1. n \in Nat \ {0} /\ l \in Nat
  BY VfsAssumption
<1>2. c \in Nat /\ n * c <= l
  <2>1. c = l \div n
    BY DEF ChunkSize
  <2> HIDE DEF n, l, c
  <2> QED BY <2>1, <1>1
<1>3. ASSUME NEW i \in 0 .. n - 1
      PROVE  i * c \in Nat /\ (i + 1) * c = i * c + c /\ i * c + c <= n * c
  <2> HIDE DEF n, l, c
  <2>1. n = (i + 1) + (n - 1 - i) /\ n - 1 - i \in Nat
    BY <1>1
  <2>2. n * c = (i + 1) * c + (n - 1 - i) * c
    BY <2>1, <1>1, <1>2
  <2>3. (n - 1 - i) * c \in Nat
    BY <2>1, <1>2
  <2>4. (i + 1) * c = i * c + c /\ i * c \in Nat
    BY <1>2
  <2> QED BY <2>2, <2>3, <2>4, <1>2, <1>1
<1>4. 0 * c = 0
  BY <1>2
<1>5. ASSUME NEW i \in Chunks
      PROVE  /\ StartIdx(a, i) = i * c
             /\ EndIdx(a, i) = IF i = n - 1 THEN l ELSE (i + 1) * c
             /\ StartIdx(a, i + 1) = (i + 1) * c
  BY DEF StartIdx, EndIdx
<1>6. StartIdx(a, 0) = 0
  BY <1>4 DEF StartIdx
<1>7. ASSUME NEW i \in Chunks
      PROVE  /\ StartIdx(a, i) \in Nat /\ EndIdx(a, i) \in Nat
             /\ StartIdx(a, i) <= EndIdx(a, i)
             /\ EndIdx(a, i) <= l
             /\ EndIdx(a, i) = IF i + 1 = n THEN l ELSE StartIdx(a, i + 1)
  <2>1. i \in 0 .. n - 1
    BY DEF Chunks
  <2> HIDE DEF n, l, c
  <2> QED BY <2>1, <1>1, <1>2, <1>3, <1>5
<1> QED BY <1>1, <1>6, <1>7

-----------------------------------------------------------------------------
(***************************************************************************)
(* The inductive invariant.                                                *)
(***************************************************************************)
Threads == Archives \X Chunks

VfsTypeOK ==
  /\ mount \in [Archives -> {"waiting", "running", "done"}]
  /\ progress \in {"mounting", "returned", "terminated"}
  /\ stage \in [Threads -> {"find", "push", "insert"}]
  /\ next \in [Threads -> Nat]
  /\ newId \in [Threads -> Nat]
  /\ localFileMap \in [Threads -> [Paths -> Seq(Entry)]]
  /\ merged \in [Archives -> 0 .. NumThreads]
  /\ s_Pool \in [DOMAIN s_Pool -> Nat]
  /\ s_ReverseLookup \in Seq({f.ext : f \in AllFiles})
  /\ s_FileMap \in [Paths -> Seq(Entry)]
  /\ s_Readers \in Seq(Archives)
  /\ raced \in BOOLEAN

\* A mount is done when its chunks are merged and its reader registered, and
\* MountAsync returns when all are.
MountsInOrder ==
  /\ \A a \in Archives : mount[a] = "done" => merged[a] = NumThreads
  /\ ToSet(s_Readers) = {a \in Archives : mount[a] = "done"}
  /\ progress = "returned" => \A a \in Archives : mount[a] = "done"

\* A thread's loop stays in its chunk.
LoopInChunk ==
  \A a \in Archives, i \in Chunks : StartIdx(a, i) + next[<<a, i>>] <= EndIdx(a, i)

\* What a thread collected stands for what its loop has passed.
LocalMapsRight ==
  \A a \in Archives, i \in Chunks, p \in Paths :
    Registers(localFileMap[<<a, i>>][p], Collected(a, i, p), s_Pool, raced)

\* What is in the file map stands for the chunks that are merged.
FileMapRight == \A p \in Paths : Registers(s_FileMap[p], Merged(p), s_Pool, raced)

\* Without a race at most one thread is adding an extension, one nobody else
\* has added, under an id nobody else has.
Adding(a, i) ==
  /\ StartIdx(a, i) + next[<<a, i>>] < EndIdx(a, i)
  /\ File(a, i).ext \notin DOMAIN s_Pool
  /\ stage[<<a, i>>] = "push" => newId[<<a, i>>] = Len(s_ReverseLookup)
  /\ stage[<<a, i>>] = "insert" =>
       /\ newId[<<a, i>>] + 1 = Len(s_ReverseLookup)
       /\ \A x \in DOMAIN s_Pool : s_Pool[x] < newId[<<a, i>>]

IdsUnique ==
  ~raced =>
    /\ \A x \in DOMAIN s_Pool : s_Pool[x] < Len(s_ReverseLookup)
    /\ \A x, y \in DOMAIN s_Pool : s_Pool[x] = s_Pool[y] => x = y
    /\ \A k, l \in Threads : stage[k] # "find" /\ stage[l] # "find" => k = l
    /\ \A a \in Archives, i \in Chunks : stage[<<a, i>>] # "find" => Adding(a, i)

VfsInv ==
  VfsTypeOK /\ MountsInOrder /\ LoopInChunk /\ LocalMapsRight /\ FileMapRight /\ IdsUnique

-----------------------------------------------------------------------------
(***************************************************************************)
(* The steps.                                                              *)
(***************************************************************************)
LEMMA InitInv == Init => VfsInv
<1> SUFFICES ASSUME Init PROVE VfsInv
  OBVIOUS
<1>1. VfsTypeOK
  <2>1. <<>> \in Seq(Entry) /\ [p \in Paths |-> <<>>] \in [Paths -> Seq(Entry)]
    OBVIOUS
  <2>2. localFileMap \in [Threads -> [Paths -> Seq(Entry)]] /\ s_FileMap \in [Paths -> Seq(Entry)]
    BY <2>1 DEF Init, Threads
  <2>3. s_Pool \in [DOMAIN s_Pool -> Nat]
    BY DEF Init
  <2>4. s_Readers \in Seq(Archives) /\ s_ReverseLookup \in Seq({f.ext : f \in AllFiles})
    BY DEF Init
  <2>5. /\ mount \in [Archives -> {"waiting", "running", "done"}]
        /\ stage \in [Threads -> {"find", "push", "insert"}]
        /\ next \in [Threads -> Nat] /\ newId \in [Threads -> Nat]
        /\ merged \in [Archives -> 0 .. NumThreads]
        /\ progress = "mounting" /\ raced = FALSE
    BY VfsAssumption DEF Init, Threads
  <2> QED BY <2>2, <2>3, <2>4, <2>5 DEF VfsTypeOK
<1>2. MountsInOrder
  BY DEF Init, MountsInOrder, ToSet
<1>3. LoopInChunk
  <2> SUFFICES ASSUME NEW a \in Archives, NEW i \in Chunks
               PROVE  StartIdx(a, i) + next[<<a, i>>] <= EndIdx(a, i)
    BY DEF LoopInChunk
  <2>1. next[<<a, i>>] = 0
    BY DEF Init
  <2> QED BY <2>1, ChunksCover
<1>4. LocalMapsRight
  <2> SUFFICES ASSUME NEW a \in Archives, NEW i \in Chunks, NEW p \in Paths
               PROVE  Registers(localFileMap[<<a, i>>][p], Collected(a, i, p), s_Pool, raced)
    BY DEF LocalMapsRight
  <2>1. localFileMap[<<a, i>>][p] = <<>> /\ next[<<a, i>>] = 0
    BY DEF Init
  <2>2. Collected(a, i, p) = {}
    BY <2>1, ChunksCover DEF Collected
  <2> QED BY <2>1, <2>2, RegistersNothing
<1>5. FileMapRight
  <2> SUFFICES ASSUME NEW p \in Paths
               PROVE  Registers(s_FileMap[p], Merged(p), s_Pool, raced)
    BY DEF FileMapRight
  <2>1. s_FileMap[p] = <<>>
    BY DEF Init
  <2>2. ASSUME NEW a \in Archives PROVE MergedTo(a) = 0
    BY ChunksCover, VfsAssumption DEF Init, MergedTo
  <2>3. Merged(p) = {}
    BY <2>2 DEF Merged, Of
  <2> QED BY <2>1, <2>3, RegistersNothing
<1>6. IdsUnique
  <2>1. DOMAIN s_Pool = {}
    BY DEF Init
  <2>2. \A k \in Threads : stage[k] = "find"
    BY DEF Init, Threads
  <2>3. \A a \in Archives, i \in Chunks : <<a, i>> \in Threads
    BY DEF Threads
  <2> QED BY <2>1, <2>2, <2>3 DEF IdsUnique
<1> QED BY <1>1, <1>2, <1>3, <1>4, <1>5, <1>6 DEF VfsInv

\* The file a working thread is at.
LEMMA FileIsThere ==
  ASSUME VfsTypeOK, NEW a \in Archives, NEW i \in Chunks,
         StartIdx(a, i) + next[<<a, i>>] < EndIdx(a, i)
  PROVE  /\ StartIdx(a, i) + next[<<a, i>>] + 1 \in 1 .. Len(Files[a])
         /\ File(a, i) = FileAt(<<a, StartIdx(a, i) + next[<<a, i>>] + 1>>)
         /\ File(a, i) \in AllFiles /\ File(a, i).path \in Paths /\ File(a, i).toc \in TocIndexes
<1> DEFINE j == StartIdx(a, i) + next[<<a, i>>] + 1
<1>1. next[<<a, i>>] \in Nat
  BY DEF VfsTypeOK, Threads
<1>2. j \in 1 .. Len(Files[a])
  BY <1>1, ChunksCover
<1>3. Files[a] \in Seq(AllFiles)
  BY VfsAssumption
<1>4. File(a, i) = Files[a][j]
  BY DEF File
<1>5. Files[a][j] \in AllFiles
  <2> HIDE DEF j
  <2> QED BY <1>2, <1>3
<1> QED BY <1>2, <1>4, <1>5 DEF FileAt, Paths, TocIndexes

\* A file that is collected belongs to what the loop has passed then, and the
\* local maps still stand for it, under a pool that at most grew.
LEMMA CollectKeeps ==
  ASSUME VfsInv, NEW a \in Archives, NEW i \in Chunks, Working(a, i),
         NEW id \in Nat, Collect(a, i, id),
         Fits([ext |-> id, toc |-> File(a, i).toc], File(a, i), s_Pool', raced'),
         ~raced' => ~raced /\ \A x \in DOMAIN s_Pool : x \in DOMAIN s_Pool' /\ s_Pool'[x] = s_Pool[x]
  PROVE  /\ localFileMap' \in [Threads -> [Paths -> Seq(Entry)]]
         /\ next' \in [Threads -> Nat]
         /\ LoopInChunk' /\ LocalMapsRight'
<1> DEFINE f == File(a, i)
           e == [ext |-> id, toc |-> f.toc]
           j == StartIdx(a, i) + next[<<a, i>>] + 1
<1>1. StartIdx(a, i) + next[<<a, i>>] < EndIdx(a, i) /\ <<a, i>> \in Threads
  BY DEF Working, Threads
<1>2. /\ j \in 1 .. Len(Files[a]) /\ f = FileAt(<<a, j>>)
      /\ f \in AllFiles /\ f.path \in Paths /\ f.toc \in TocIndexes
  BY <1>1, FileIsThere DEF VfsInv
<1>3. e \in Entry
  BY <1>2 DEF Entry
<1>4. /\ localFileMap \in [Threads -> [Paths -> Seq(Entry)]]
      /\ next \in [Threads -> Nat]
  BY DEF VfsInv, VfsTypeOK
<1>5. /\ localFileMap' = [localFileMap EXCEPT ![<<a, i>>] =
                            [localFileMap[<<a, i>>] EXCEPT ![f.path] = Append(@, e)]]
      /\ next' = [next EXCEPT ![<<a, i>>] = next[<<a, i>>] + 1]
  BY DEF Collect
<1>6. localFileMap' \in [Threads -> [Paths -> Seq(Entry)]] /\ next' \in [Threads -> Nat]
  <2>1. localFileMap[<<a, i>>] \in [Paths -> Seq(Entry)]
    BY <1>1, <1>4
  <2>2. Append(localFileMap[<<a, i>>][f.path], e) \in Seq(Entry)
    <3> HIDE DEF e, f
    <3> QED BY SMTT(30), <1>2, <1>3, <2>1
  <2> HIDE DEF e, f
  <2>3. [localFileMap[<<a, i>>] EXCEPT ![f.path] = Append(@, e)] \in [Paths -> Seq(Entry)]
    BY <1>2, <2>1, <2>2
  <2>4. localFileMap' \in [Threads -> [Paths -> Seq(Entry)]]
    BY <1>1, <1>4, <1>5, <2>3
  <2>5. next' \in [Threads -> Nat]
    BY <1>1, <1>4, <1>5
  <2> QED BY <2>4, <2>5
<1>7. \A k \in Threads : next'[k] = IF k = <<a, i>> THEN next[k] + 1 ELSE next[k]
  BY <1>4, <1>5
<1>8. LoopInChunk'
  <2> SUFFICES ASSUME NEW b \in Archives, NEW h \in Chunks
               PROVE  StartIdx(b, h) + next'[<<b, h>>] <= EndIdx(b, h)
    BY DEF LoopInChunk
  <2>1. <<b, h>> \in Threads /\ next[<<b, h>>] \in Nat
    BY <1>4 DEF Threads
  <2>2. StartIdx(b, h) + next[<<b, h>>] <= EndIdx(b, h)
    BY DEF VfsInv, LoopInChunk
  <2>3. StartIdx(b, h) \in Nat /\ EndIdx(b, h) \in Nat
    BY ChunksCover
  <2>4. CASE <<b, h>> = <<a, i>>
    BY <1>1, <1>7, <2>1, <2>3, <2>4
  <2>5. CASE <<b, h>> # <<a, i>>
    BY <1>7, <2>1, <2>2, <2>5
  <2> QED BY <2>4, <2>5
<1>9. LocalMapsRight'
  <2> SUFFICES ASSUME NEW b \in Archives, NEW h \in Chunks, NEW p \in Paths
               PROVE  Registers(localFileMap'[<<b, h>>][p], Collected(b, h, p)', s_Pool', raced')
    BY DEF LocalMapsRight
  <2>1. <<b, h>> \in Threads
    BY DEF Threads
  <2>2. Registers(localFileMap[<<b, h>>][p], Collected(b, h, p), s_Pool, raced)
    BY DEF VfsInv, LocalMapsRight
  <2>3. Registers(localFileMap[<<b, h>>][p], Collected(b, h, p), s_Pool', raced')
    BY <2>2, RegistersStays
  <2>4. CASE <<b, h>> # <<a, i>>
    <3>1. localFileMap'[<<b, h>>] = localFileMap[<<b, h>>]
      BY <2>1, <2>4, <1>4, <1>5
    <3>2. next'[<<b, h>>] = next[<<b, h>>]
      BY <2>1, <2>4, <1>7
    <3>3. Collected(b, h, p)' = Collected(b, h, p)
      BY <3>2 DEF Collected
    <3> QED BY <2>3, <3>1, <3>3
  <2>5. CASE b = a /\ h = i
    <3>1. next'[<<a, i>>] = next[<<a, i>>] + 1 /\ next[<<a, i>>] \in Nat /\ StartIdx(a, i) \in Nat
      BY <1>1, <1>4, <1>7, ChunksCover
    <3>2. ASSUME NEW k \in Of(p), k[1] = a
          PROVE  k[2] \in StartIdx(a, i) + 1 .. StartIdx(a, i) + next'[<<a, i>>]
                   <=> \/ k[2] \in StartIdx(a, i) + 1 .. StartIdx(a, i) + next[<<a, i>>]
                       \/ k[2] = j
      <4>1. k[2] \in Nat
        BY DEF Of
      <4> QED BY <3>1, <4>1
    <3>3. ASSUME NEW k \in Of(p) PROVE k = <<k[1], k[2]>>
      BY DEF Of
    <3>4. <<a, j>> \in Of(p) <=> f.path = p
      BY <1>2, ChunksCover DEF Of
    <3>5. ~(j \in StartIdx(a, i) + 1 .. StartIdx(a, i) + next[<<a, i>>])
      BY <3>1
    <3>6. localFileMap'[<<a, i>>] = [localFileMap[<<a, i>>] EXCEPT ![f.path] = Append(@, e)]
      BY <1>1, <1>4, <1>5
    <3>7. localFileMap[<<a, i>>] \in [Paths -> Seq(Entry)]
      BY <1>1, <1>4
    <3> HIDE DEF j, f, e
    <3>8. CASE p = f.path
      <4>1. Collected(a, i, p)' = Collected(a, i, p) \cup {<<a, j>>}
        <5>1. ASSUME NEW k \in Collected(a, i, p)'
              PROVE  k \in Collected(a, i, p) \cup {<<a, j>>}
          BY <3>2, <3>3, <5>1 DEF Collected
        <5>2. ASSUME NEW k \in Collected(a, i, p)
              PROVE  k \in Collected(a, i, p)'
          BY <3>2, <5>2 DEF Collected
        <5>3. <<a, j>> \in Collected(a, i, p)'
          <6>1. <<a, j>> \in Of(p)
            BY <3>4, <3>8
          <6> QED BY <3>2, <6>1 DEF Collected
        <5> QED BY <5>1, <5>2, <5>3
      <4>2. <<a, j>> \notin Collected(a, i, p)
        BY <3>5 DEF Collected
      <4>3. localFileMap'[<<a, i>>][p] = Append(localFileMap[<<a, i>>][p], e)
        BY <3>6, <3>7, <3>8
      <4>4. localFileMap[<<a, i>>][p] \in Seq(Entry)
        BY <3>7
      <4>5. Fits(e, FileAt(<<a, j>>), s_Pool', raced')
        BY <1>2 DEF e, f
      <4> QED BY <2>3, <2>5, <4>1, <4>2, <4>3, <4>4, <4>5, <1>3, RegistersAppend
    <3>9. CASE p # f.path
      <4>1. Collected(a, i, p)' = Collected(a, i, p)
        <5>1. ASSUME NEW k \in Of(p), k[1] = a PROVE k[2] # j
          BY <3>3, <3>4, <3>9, <5>1
        <5> QED BY <3>2, <5>1 DEF Collected
      <4>2. localFileMap'[<<a, i>>][p] = localFileMap[<<a, i>>][p]
        BY <3>6, <3>7, <3>9
      <4> QED BY <2>3, <2>5, <4>1, <4>2
    <3> QED BY <3>8, <3>9
  <2> QED BY <2>4, <2>5
<1> QED BY <1>6, <1>8, <1>9

\* The file map stands for the same files after a step of a thread.
LEMMA FileMapKept ==
  ASSUME VfsInv, UNCHANGED <<s_FileMap, merged>>,
         ~raced' => ~raced /\ \A x \in DOMAIN s_Pool : x \in DOMAIN s_Pool' /\ s_Pool'[x] = s_Pool[x]
  PROVE  FileMapRight'
<1> SUFFICES ASSUME NEW p \in Paths
             PROVE  Registers(s_FileMap'[p], Merged(p)', s_Pool', raced')
  BY DEF FileMapRight
<1>1. Registers(s_FileMap[p], Merged(p), s_Pool, raced)
  BY DEF VfsInv, FileMapRight
<1>2. Registers(s_FileMap[p], Merged(p), s_Pool', raced')
  BY <1>1, RegistersStays
<1>3. Merged(p)' = Merged(p)
  BY DEF Merged, MergedTo
<1> QED BY <1>2, <1>3

\* A thread's step that collects nothing leaves the maps as they are.
LEMMA MapsKept ==
  ASSUME VfsInv, UNCHANGED <<next, localFileMap, merged, s_FileMap, s_Pool>>, ~raced' => ~raced
  PROVE  LoopInChunk' /\ LocalMapsRight' /\ FileMapRight'
<1>1. LoopInChunk'
  BY DEF VfsInv, LoopInChunk
<1>2. FileMapRight'
  BY FileMapKept
<1>3. LocalMapsRight'
  <2> SUFFICES ASSUME NEW a \in Archives, NEW i \in Chunks, NEW p \in Paths
               PROVE  Registers(localFileMap'[<<a, i>>][p], Collected(a, i, p)', s_Pool', raced')
    BY DEF LocalMapsRight
  <2>1. Registers(localFileMap[<<a, i>>][p], Collected(a, i, p), s_Pool, raced)
    BY DEF VfsInv, LocalMapsRight
  <2>2. Registers(localFileMap[<<a, i>>][p], Collected(a, i, p), s_Pool', raced')
    BY <2>1, RegistersStays
  <2>3. Collected(a, i, p)' = Collected(a, i, p)
    BY DEF Collected
  <2> QED BY <2>2, <2>3
<1> QED BY <1>1, <1>2, <1>3

\* A step of a thread moves no mount.
LEMMA MountsKept ==
  ASSUME VfsInv, UNCHANGED <<mount, progress, merged, s_Readers>>
  PROVE  MountsInOrder'
BY DEF VfsInv, MountsInOrder

LEMMA FindKeeps ==
  ASSUME VfsInv, NEW a \in Archives, NEW i \in Chunks, FindExtension(a, i)
  PROVE  VfsInv'
<1> DEFINE f == File(a, i)
<1>1. /\ Working(a, i) /\ stage[<<a, i>>] = "find" /\ raced' = (raced \/ Inserting)
      /\ UNCHANGED <<mount, progress, merged, s_Pool, s_ReverseLookup, s_FileMap, s_Readers>>
  BY DEF FindExtension, maps
<1>2. VfsTypeOK /\ IdsUnique
  BY DEF VfsInv
<1>3. ~raced' => ~raced /\ \A k \in Threads : stage[k] = "find"
  BY <1>1 DEF Inserting, Threads
<1>4. /\ <<a, i>> \in Threads /\ StartIdx(a, i) + next[<<a, i>>] < EndIdx(a, i)
      /\ f \in AllFiles
  BY <1>1, <1>2, FileIsThere DEF Working, Threads
<1>5. MountsInOrder'
  BY <1>1, MountsKept
<1>6. raced' \in BOOLEAN
  BY <1>1
<1>7. CASE f.ext \in DOMAIN s_Pool
  <2>1. Collect(a, i, s_Pool[f.ext]) /\ UNCHANGED <<stage, newId>>
    BY <1>7 DEF FindExtension
  <2>2. s_Pool[f.ext] \in Nat
    BY <1>2, <1>7 DEF VfsTypeOK
  <2>3. Fits([ext |-> s_Pool[f.ext], toc |-> f.toc], f, s_Pool', raced')
    BY <1>1, <1>7 DEF Fits
  <2>4. /\ localFileMap' \in [Threads -> [Paths -> Seq(Entry)]]
        /\ next' \in [Threads -> Nat]
        /\ LoopInChunk' /\ LocalMapsRight'
    BY <1>1, <1>3, <2>1, <2>2, <2>3, CollectKeeps
  <2>5. FileMapRight'
    BY <1>1, <1>3, FileMapKept
  <2>6. VfsTypeOK'
    BY <1>1, <1>2, <1>6, <2>1, <2>4 DEF VfsTypeOK
  <2>7. IdsUnique'
    <3>1. \A b \in Archives, h \in Chunks : <<b, h>> \in Threads
      BY DEF Threads
    <3> QED BY <1>1, <1>2, <1>3, <2>1, <3>1 DEF IdsUnique
  <2> QED BY <1>5, <2>4, <2>5, <2>6, <2>7 DEF VfsInv
<1>8. CASE f.ext \notin DOMAIN s_Pool
  <2>1. /\ stage' = [stage EXCEPT ![<<a, i>>] = "push"]
        /\ newId' = [newId EXCEPT ![<<a, i>>] = Len(s_ReverseLookup)]
        /\ UNCHANGED <<next, localFileMap>>
    BY <1>8 DEF FindExtension, NextId
  <2>2. LoopInChunk' /\ LocalMapsRight' /\ FileMapRight'
    BY <1>1, <1>3, <2>1, MapsKept
  <2>3. VfsTypeOK'
    <3>1. Len(s_ReverseLookup) \in Nat
      BY <1>2 DEF VfsTypeOK
    <3>2. stage' \in [Threads -> {"find", "push", "insert"}] /\ newId' \in [Threads -> Nat]
      BY <1>2, <2>1, <3>1 DEF VfsTypeOK
    <3> QED BY <1>1, <1>2, <1>6, <2>1, <3>2 DEF VfsTypeOK
  <2>4. IdsUnique'
    <3> SUFFICES ASSUME ~raced' PROVE IdsUnique'
      BY DEF IdsUnique
    <3>1. \A k \in Threads : stage'[k] # "find" => k = <<a, i>>
      BY <1>2, <1>3, <2>1 DEF VfsTypeOK
    <3>2. stage'[<<a, i>>] = "push" /\ newId'[<<a, i>>] = Len(s_ReverseLookup)
      BY <1>2, <1>4, <2>1 DEF VfsTypeOK
    <3>3. File(a, i)' = File(a, i)
      BY <2>1 DEF File
    <3>4. Adding(a, i)'
      BY <1>1, <1>4, <1>8, <2>1, <3>2, <3>3 DEF Adding
    <3>5. ASSUME NEW b \in Archives, NEW h \in Chunks, stage'[<<b, h>>] # "find"
          PROVE  Adding(b, h)'
      <4>1. b = a /\ h = i
        BY <3>1, <3>5 DEF Threads
      <4> QED BY <3>4, <4>1
    <3> QED BY <1>1, <1>2, <1>3, <3>1, <3>5 DEF IdsUnique
  <2> QED BY <1>5, <2>2, <2>3, <2>4 DEF VfsInv
<1> QED BY <1>7, <1>8

LEMMA PushKeeps ==
  ASSUME VfsInv, NEW a \in Archives, NEW i \in Chunks, PushExtension(a, i)
  PROVE  VfsInv'
<1>1. /\ Working(a, i) /\ stage[<<a, i>>] = "push"
      /\ s_ReverseLookup' = Append(s_ReverseLookup, File(a, i).ext)
      /\ stage' = [stage EXCEPT ![<<a, i>>] = "insert"]
      /\ UNCHANGED <<mount, progress, next, newId, localFileMap, merged, s_Pool, raced,
                     s_FileMap, s_Readers>>
  BY DEF PushExtension, maps
<1>2. VfsTypeOK /\ IdsUnique
  BY DEF VfsInv
<1>3. /\ <<a, i>> \in Threads /\ StartIdx(a, i) + next[<<a, i>>] < EndIdx(a, i)
      /\ File(a, i) \in AllFiles
  BY <1>1, <1>2, FileIsThere DEF Working, Threads
<1>4. MountsInOrder'
  BY <1>1, MountsKept
<1>5. LoopInChunk' /\ LocalMapsRight' /\ FileMapRight'
  BY <1>1, MapsKept
<1>6. VfsTypeOK'
  <2>1. stage' \in [Threads -> {"find", "push", "insert"}]
    BY <1>1, <1>2 DEF VfsTypeOK
  <2>2. s_ReverseLookup' \in Seq({f.ext : f \in AllFiles})
    BY <1>1, <1>2, <1>3 DEF VfsTypeOK
  <2> QED BY <1>1, <1>2, <2>1, <2>2 DEF VfsTypeOK
<1>7. IdsUnique'
  <2> SUFFICES ASSUME ~raced' PROVE IdsUnique'
    BY DEF IdsUnique
  <2>1. ~raced
    BY <1>1
  <2>2. Len(s_ReverseLookup) \in Nat /\ Len(s_ReverseLookup') = Len(s_ReverseLookup) + 1
    BY <1>1, <1>2 DEF VfsTypeOK
  <2>3. Adding(a, i)
    BY <1>1, <1>2, <2>1 DEF IdsUnique
  <2>4. \A x \in DOMAIN s_Pool : s_Pool[x] \in Nat /\ s_Pool[x] < Len(s_ReverseLookup)
    BY <1>2, <2>1 DEF IdsUnique, VfsTypeOK
  <2>5. \A k \in Threads : stage'[k] # "find" => k = <<a, i>>
    BY <1>1, <1>2, <1>3, <2>1 DEF IdsUnique, VfsTypeOK
  <2>6. stage'[<<a, i>>] = "insert"
    BY <1>1, <1>2, <1>3 DEF VfsTypeOK
  <2>7. newId'[<<a, i>>] + 1 = Len(s_ReverseLookup') /\ newId'[<<a, i>>] = Len(s_ReverseLookup)
    BY <1>1, <2>2, <2>3 DEF Adding
  <2>8. File(a, i)' = File(a, i)
    BY <1>1 DEF File
  <2>9. Adding(a, i)'
    BY <1>1, <1>3, <2>3, <2>4, <2>6, <2>7, <2>8 DEF Adding
  <2>10. ASSUME NEW b \in Archives, NEW h \in Chunks, stage'[<<b, h>>] # "find"
         PROVE  Adding(b, h)'
    <3>1. b = a /\ h = i
      BY <2>5, <2>10 DEF Threads
    <3> QED BY <2>9, <3>1
  <2>11. \A x \in DOMAIN s_Pool' : s_Pool'[x] < Len(s_ReverseLookup')
    BY <1>1, <2>2, <2>4
  <2> QED BY <1>1, <1>2, <2>1, <2>5, <2>10, <2>11 DEF IdsUnique
<1> QED BY <1>4, <1>5, <1>6, <1>7 DEF VfsInv

LEMMA InsertKeeps ==
  ASSUME VfsInv, NEW a \in Archives, NEW i \in Chunks, InsertExtension(a, i)
  PROVE  VfsInv'
<1> DEFINE f == File(a, i)
           id == newId[<<a, i>>]
<1>1. /\ Working(a, i) /\ stage[<<a, i>>] = "insert"
      /\ s_Pool' = [e \in DOMAIN s_Pool \cup {f.ext} |-> IF e = f.ext THEN id ELSE s_Pool[e]]
      /\ Collect(a, i, id)
      /\ stage' = [stage EXCEPT ![<<a, i>>] = "find"]
      /\ UNCHANGED <<mount, progress, newId, merged, s_ReverseLookup, raced, s_FileMap, s_Readers>>
  BY DEF InsertExtension, maps
<1>2. VfsTypeOK /\ IdsUnique
  BY DEF VfsInv
<1>3. <<a, i>> \in Threads /\ id \in Nat
  BY <1>2 DEF VfsTypeOK, Threads
<1>4. ~raced => Adding(a, i)
  BY <1>1, <1>2 DEF IdsUnique
<1>5. ~raced' => ~raced /\ \A x \in DOMAIN s_Pool : x \in DOMAIN s_Pool' /\ s_Pool'[x] = s_Pool[x]
  BY <1>1, <1>4 DEF Adding
<1>6. Fits([ext |-> id, toc |-> f.toc], f, s_Pool', raced')
  BY <1>1 DEF Fits
<1>7. /\ localFileMap' \in [Threads -> [Paths -> Seq(Entry)]]
      /\ next' \in [Threads -> Nat]
      /\ LoopInChunk' /\ LocalMapsRight'
  BY <1>1, <1>3, <1>5, <1>6, CollectKeeps
<1>8. FileMapRight'
  BY <1>1, <1>5, FileMapKept
<1>9. MountsInOrder'
  BY <1>1, MountsKept
<1>10. VfsTypeOK'
  <2>1. s_Pool' \in [DOMAIN s_Pool' -> Nat]
    <3> HIDE DEF f, id
    <3> QED BY <1>1, <1>2, <1>3 DEF VfsTypeOK
  <2>2. stage' \in [Threads -> {"find", "push", "insert"}]
    BY <1>1, <1>2 DEF VfsTypeOK
  <2> QED BY <1>1, <1>2, <1>7, <2>1, <2>2 DEF VfsTypeOK
<1>11. IdsUnique'
  <2> SUFFICES ASSUME ~raced' PROVE IdsUnique'
    BY DEF IdsUnique
  <2>1. ~raced /\ Adding(a, i)
    BY <1>1, <1>4
  <2>2. \A k \in Threads : stage'[k] = "find"
    BY <1>1, <1>2, <1>3, <2>1 DEF IdsUnique, VfsTypeOK
  <2>3. /\ id + 1 = Len(s_ReverseLookup) /\ \A x \in DOMAIN s_Pool : s_Pool[x] < id
        /\ f.ext \notin DOMAIN s_Pool
    BY <1>1, <2>1 DEF Adding
  <2>4. \A x \in DOMAIN s_Pool : s_Pool[x] \in Nat
    BY <1>2 DEF VfsTypeOK
  <2> HIDE DEF f, id
  <2>5. /\ \A x \in DOMAIN s_Pool' : s_Pool'[x] < Len(s_ReverseLookup')
        /\ \A x, y \in DOMAIN s_Pool' : s_Pool'[x] = s_Pool'[y] => x = y
    <3>1. Len(s_ReverseLookup') = id + 1
      BY <1>1, <2>3
    <3>2. \A x, y \in DOMAIN s_Pool : s_Pool[x] = s_Pool[y] => x = y
      BY <1>2, <2>1 DEF IdsUnique
    <3> QED BY <1>1, <1>3, <2>3, <2>4, <3>1, <3>2
  <2>6. \A b \in Archives, h \in Chunks : <<b, h>> \in Threads
    BY DEF Threads
  <2> QED BY <2>2, <2>5, <2>6 DEF IdsUnique
<1> QED BY <1>7, <1>8, <1>9, <1>10, <1>11 DEF VfsInv

\* A step that leaves threads, pool and file map alone leaves what is right
\* about them.
LEMMA RightKept ==
  ASSUME VfsInv, UNCHANGED <<stage, next, newId, localFileMap, merged, s_Pool,
                             s_ReverseLookup, s_FileMap, raced>>
  PROVE  LoopInChunk' /\ LocalMapsRight' /\ FileMapRight' /\ IdsUnique'
<1>1. IdsUnique'
  BY DEF VfsInv, IdsUnique, Adding, File
<1> QED BY <1>1, MapsKept

LEMMA MergeKeeps ==
  ASSUME VfsInv, NEW a \in Archives, Merge(a)
  PROVE  VfsInv'
<1> DEFINE i == merged[a]
           local == localFileMap[<<a, i>>]
<1>1. /\ mount[a] = "running" /\ progress = "mounting" /\ i < NumThreads /\ ~Working(a, i)
      /\ s_FileMap' = [p \in Paths |-> s_FileMap[p] \o local[p]]
      /\ merged' = [merged EXCEPT ![a] = i + 1]
      /\ UNCHANGED <<mount, progress, stage, next, newId, localFileMap, s_Pool,
                     s_ReverseLookup, raced, s_Readers>>
  BY DEF Merge, MergeChunk, threads, pool
<1>2. VfsTypeOK /\ MountsInOrder
  BY DEF VfsInv
<1>3. /\ i \in Chunks /\ <<a, i>> \in Threads /\ NumThreads \in Nat
      /\ merged' \in [Archives -> 0 .. NumThreads]
      /\ \A b \in Archives : merged'[b] = IF b = a THEN i + 1 ELSE merged[b]
  <2>1. merged \in [Archives -> 0 .. NumThreads]
    BY <1>2 DEF VfsTypeOK
  <2>2. NumThreads \in Nat \ {0}
    BY VfsAssumption
  <2> QED BY <1>1, <2>1, <2>2 DEF Chunks, Threads
<1>4. /\ s_FileMap \in [Paths -> Seq(Entry)] /\ local \in [Paths -> Seq(Entry)]
      /\ next[<<a, i>>] \in Nat
  BY <1>2, <1>3 DEF VfsTypeOK
<1>5. MergedTo(a) = StartIdx(a, i) /\ MergedTo(a)' = EndIdx(a, i)
  <2>1. MergedTo(a) = StartIdx(a, i)
    BY <1>1, <1>3 DEF MergedTo
  <2>2. MergedTo(a)' = IF i + 1 = NumThreads THEN Len(Files[a]) ELSE StartIdx(a, i + 1)
    BY <1>3 DEF MergedTo
  <2>3. MergedTo(a)' = EndIdx(a, i)
    BY <1>3, <2>2, ChunksCover
  <2> QED BY <2>1, <2>3
<1>6. StartIdx(a, i) + next[<<a, i>>] = EndIdx(a, i) /\ StartIdx(a, i) \in Nat
  <2>1. StartIdx(a, i) \in Nat /\ EndIdx(a, i) \in Nat
    BY <1>3, ChunksCover
  <2>2. StartIdx(a, i) + next[<<a, i>>] <= EndIdx(a, i)
    BY <1>3 DEF VfsInv, LoopInChunk
  <2>3. ~(StartIdx(a, i) + next[<<a, i>>] < EndIdx(a, i))
    BY <1>1 DEF Working
  <2> HIDE DEF i
  <2> QED BY <1>4, <2>1, <2>2, <2>3
<1>7. \A b \in Archives : b # a => MergedTo(b)' = MergedTo(b)
  BY <1>3 DEF MergedTo
<1>8. FileMapRight'
  <2> SUFFICES ASSUME NEW p \in Paths
               PROVE  Registers(s_FileMap'[p], Merged(p)', s_Pool', raced')
    BY DEF FileMapRight
  <2>1. Registers(s_FileMap[p], Merged(p), s_Pool, raced)
    BY DEF VfsInv, FileMapRight
  <2>2. Registers(local[p], Collected(a, i, p), s_Pool, raced)
    BY <1>3 DEF VfsInv, LocalMapsRight
  <2>3. s_FileMap'[p] = s_FileMap[p] \o local[p]
    BY <1>1
  <2>4. s_FileMap[p] \in Seq(Entry) /\ local[p] \in Seq(Entry)
    BY <1>4
  <2>5. ASSUME NEW k \in Of(p), k[1] = a
        PROVE  /\ k[2] <= MergedTo(a)' <=> k[2] <= MergedTo(a)
                    \/ k[2] \in StartIdx(a, i) + 1 .. StartIdx(a, i) + next[<<a, i>>]
               /\ ~(k[2] <= MergedTo(a)
                      /\ k[2] \in StartIdx(a, i) + 1 .. StartIdx(a, i) + next[<<a, i>>])
    <3>1. k[2] \in Nat
      BY DEF Of
    <3> HIDE DEF i
    <3> QED BY <1>4, <1>5, <1>6, <3>1
  <2>6. ASSUME NEW k \in Of(p) PROVE k[1] \in Archives
    BY DEF Of
  <2> HIDE DEF i, local
  <2>7. Merged(p)' = Merged(p) \cup Collected(a, i, p)
    BY <1>7, <2>5, <2>6 DEF Merged, Collected
  <2>8. Merged(p) \cap Collected(a, i, p) = {}
    BY <2>5 DEF Merged, Collected
  <2>9. Registers(s_FileMap[p] \o local[p], Merged(p) \cup Collected(a, i, p), s_Pool, raced)
    BY <2>1, <2>2, <2>4, <2>8, RegistersMore
  <2> QED BY <1>1, <2>3, <2>7, <2>9
<1>9. MountsInOrder'
  BY <1>1, <1>2, <1>3 DEF MountsInOrder
<1>10. VfsTypeOK'
  <2>1. s_FileMap' \in [Paths -> Seq(Entry)]
    <3> HIDE DEF local
    <3>1. ASSUME NEW p \in Paths PROVE s_FileMap[p] \o local[p] \in Seq(Entry)
      <4>1. s_FileMap[p] \in Seq(Entry) /\ local[p] \in Seq(Entry)
        BY <1>4
      <4> QED BY <4>1
    <3> QED BY <1>1, <3>1
  <2> QED BY <1>1, <1>2, <1>3, <2>1 DEF VfsTypeOK
<1>11. LoopInChunk' /\ IdsUnique'
  BY <1>1 DEF VfsInv, LoopInChunk, IdsUnique, Adding, File
<1>12. LocalMapsRight'
  <2> SUFFICES ASSUME NEW b \in Archives, NEW h \in Chunks, NEW p \in Paths
               PROVE  Registers(localFileMap'[<<b, h>>][p], Collected(b, h, p)', s_Pool', raced')
    BY DEF LocalMapsRight
  <2>1. Registers(localFileMap[<<b, h>>][p], Collected(b, h, p), s_Pool, raced)
    BY DEF VfsInv, LocalMapsRight
  <2>2. Collected(b, h, p)' = Collected(b, h, p)
    BY <1>1 DEF Collected
  <2> QED BY <1>1, <2>1, <2>2
<1> QED BY <1>8, <1>9, <1>10, <1>11, <1>12 DEF VfsInv

LEMMA BeginKeeps ==
  ASSUME VfsInv, NEW a \in Archives, Begin(a)
  PROVE  VfsInv'
<1>1. /\ mount[a] = "waiting" /\ progress = "mounting"
      /\ mount' = [mount EXCEPT ![a] = "running"]
      /\ UNCHANGED <<progress, stage, next, newId, localFileMap, merged, s_Pool,
                     s_ReverseLookup, raced, s_FileMap, s_Readers>>
  BY DEF Begin, threads, pool, maps
<1>2. VfsTypeOK /\ MountsInOrder
  BY DEF VfsInv
<1>3. VfsTypeOK'
  BY <1>1, <1>2 DEF VfsTypeOK
<1>4. \A b \in Archives : mount'[b] = "done" <=> mount[b] = "done"
  BY <1>1, <1>2 DEF VfsTypeOK
<1>5. MountsInOrder'
  BY <1>1, <1>2, <1>4 DEF MountsInOrder
<1> QED BY <1>1, <1>3, <1>5, RightKept DEF VfsInv

LEMMA FinishKeeps ==
  ASSUME VfsInv, NEW a \in Archives, Finish(a)
  PROVE  VfsInv'
<1>1. /\ mount[a] = "running" /\ progress = "mounting" /\ merged[a] = NumThreads
      /\ s_Readers' = Append(s_Readers, a)
      /\ mount' = [mount EXCEPT ![a] = "done"]
      /\ UNCHANGED <<progress, stage, next, newId, localFileMap, merged, s_Pool,
                     s_ReverseLookup, raced, s_FileMap>>
  BY DEF Finish, RegisterReader, threads, pool
<1>2. VfsTypeOK /\ MountsInOrder
  BY DEF VfsInv
<1>3. VfsTypeOK'
  BY <1>1, <1>2 DEF VfsTypeOK
<1>4. \A b \in Archives : mount'[b] = "done" <=> mount[b] = "done" \/ b = a
  BY <1>1, <1>2 DEF VfsTypeOK
<1>5. ToSet(s_Readers') = ToSet(s_Readers) \cup {a}
  <2>1. s_Readers \in Seq(Archives)
    BY <1>2 DEF VfsTypeOK
  <2>2. /\ DOMAIN s_Readers' = 1 .. Len(s_Readers) + 1 /\ DOMAIN s_Readers = 1 .. Len(s_Readers)
        /\ Len(s_Readers) \in Nat
        /\ \A j \in 1 .. Len(s_Readers) + 1 :
             s_Readers'[j] = IF j = Len(s_Readers) + 1 THEN a ELSE s_Readers[j]
    BY <1>1, <2>1
  <2>3. ToSet(s_Readers') = {s_Readers'[j] : j \in 1 .. Len(s_Readers) + 1}
    BY <2>2 DEF ToSet
  <2>4. ToSet(s_Readers) = {s_Readers[j] : j \in 1 .. Len(s_Readers)}
    BY <2>2 DEF ToSet
  <2>5. 1 .. Len(s_Readers) + 1 = 1 .. Len(s_Readers) \cup {Len(s_Readers) + 1}
    BY <2>2
  <2>6. \A j \in 1 .. Len(s_Readers) : j # Len(s_Readers) + 1
    BY <2>2
  <2> QED BY <2>2, <2>3, <2>4, <2>5, <2>6
<1>6. MountsInOrder'
  BY <1>1, <1>2, <1>4, <1>5 DEF MountsInOrder
<1> QED BY <1>1, <1>3, <1>6, RightKept DEF VfsInv

LEMMA EndKeeps ==
  ASSUME VfsInv, Return \/ RaceKills
  PROVE  VfsInv'
<1>1. UNCHANGED <<mount, stage, next, newId, localFileMap, merged, s_Pool,
                  s_ReverseLookup, raced, s_FileMap, s_Readers>>
  BY DEF Return, RaceKills, threads, pool, maps
<1>2. VfsTypeOK /\ MountsInOrder
  BY DEF VfsInv
<1>3. /\ progress' \in {"mounting", "returned", "terminated"}
      /\ progress' = "returned" => \A a \in Archives : mount[a] = "done"
  BY DEF Return, RaceKills
<1>4. VfsTypeOK'
  BY <1>1, <1>2, <1>3 DEF VfsTypeOK
<1>5. MountsInOrder'
  BY <1>1, <1>2, <1>3 DEF MountsInOrder
<1> QED BY <1>1, <1>4, <1>5, RightKept DEF VfsInv

\* The invariant of the virtual file system: its maps stand, entry by entry, for the
\* files that were collected and merged, and without a race ids are unique
\* (FileSystem.cpp:25-119).
THEOREM VfsInvariant == Spec => []VfsInv
<1>1. VfsInv /\ [Next]_vars => VfsInv'
  <2> SUFFICES ASSUME VfsInv, [Next]_vars PROVE VfsInv'
    OBVIOUS
  <2>1. ASSUME NEW a \in Archives, NEW i \in Chunks, GetOrAdd(a, i) PROVE VfsInv'
    BY <2>1, FindKeeps, PushKeeps, InsertKeeps DEF GetOrAdd
  <2>2. ASSUME NEW a \in Archives, MountThread(a) PROVE VfsInv'
    BY <2>2, BeginKeeps, MergeKeeps, FinishKeeps DEF MountThread
  <2>3. CASE Return \/ RaceKills
    BY <2>3, EndKeeps
  <2>4. CASE UNCHANGED vars
    <3>1. UNCHANGED <<mount, progress, stage, next, newId, localFileMap, merged, s_Pool,
                      s_ReverseLookup, s_FileMap, s_Readers, raced>>
      BY <2>4 DEF vars
    <3>2. VfsTypeOK' /\ MountsInOrder'
      BY <3>1 DEF VfsInv, VfsTypeOK, MountsInOrder
    <3> QED BY <3>1, <3>2, RightKept DEF VfsInv
  <2> QED BY <2>1, <2>2, <2>3, <2>4 DEF Next
<1> QED BY <1>1, InitInv, PTL DEF Spec

-----------------------------------------------------------------------------
(***************************************************************************)
(* What the invariant gives.                                               *)
(***************************************************************************)
\* When MountAsync has returned, the file map stands for all files.
LEMMA AllMerged ==
  ASSUME VfsInv, progress = "returned", NEW p
  PROVE  Merged(p) = Of(p)
<1>1. ASSUME NEW a \in Archives PROVE MergedTo(a) = Len(Files[a])
  BY DEF VfsInv, MountsInOrder, MergedTo
<1> QED BY <1>1 DEF Merged, Of

EntriesAt(s, n) == {x \in DOMAIN s : s[x].toc = n}
FilesAt(K, n) == {k \in K : FileAt(k).toc = n}

\* Entries of index n correspond to files of index n.
LEMMA SameIndex ==
  ASSUME NEW s \in Seq(Entry), NEW K, NEW ids, NEW race, NEW n, Registers(s, K, ids, race)
  PROVE  Cardinality(EntriesAt(s, n)) = Cardinality(FilesAt(K, n))
<1> DEFINE S == {x \in DOMAIN s : s[x].toc = n}
           T == {k \in K : FileAt(k).toc = n}
<1>1. PICK g \in Bijection(DOMAIN s, K) :
        \A x \in DOMAIN s : Fits(s[x], FileAt(g[x]), ids, race)
  BY DEF Registers
<1>2. /\ \A x \in DOMAIN s : g[x] \in K /\ (s[x].toc = n <=> FileAt(g[x]).toc = n)
      /\ \A x, y \in DOMAIN s : g[x] = g[y] => x = y
      /\ \A k \in K : \E x \in DOMAIN s : g[x] = k
  BY <1>1 DEF Bijection, Injection, Surjection, IsInjective, Fits
<1> DEFINE h == [x \in S |-> g[x]]
<1>3. h \in Bijection(S, T)
  <2>1. h \in [S -> T]
    BY <1>2
  <2>2. \A x, y \in S : h[x] = h[y] => x = y
    BY <1>2
  <2>3. \A k \in T : \E x \in S : h[x] = k
    BY <1>2
  <2> HIDE DEF h, S, T
  <2> QED BY <2>1, <2>2, <2>3 DEF Bijection, Injection, Surjection, IsInjective
<1>4. IsFiniteSet(S)
  <2>1. DOMAIN s = 1 .. Len(s) /\ Len(s) \in Nat
    OBVIOUS
  <2>2. IsFiniteSet(1 .. Len(s))
    BY <2>1, FS_Interval
  <2>3. S \in SUBSET (1 .. Len(s))
    BY <2>1
  <2> HIDE DEF S
  <2> QED BY <2>2, <2>3, FS_Subset
<1> HIDE DEF S, T, h
<1>5. ExistsBijection(S, T)
  BY <1>3 DEF ExistsBijection
<1>6. Cardinality(T) = Cardinality(S)
  BY <1>4, <1>5, FS_Bijection
<1> QED BY <1>6 DEF S, T, EntriesAt, FilesAt

\* When MountAsync returns, every file of every archive is in the file map as often
\* as the archives have it, for any number of files and threads (FileSystem.cpp:74-113).
THEOREM FilesAreOnce == Spec => []FilesOnce
<1>1. VfsInv => FilesOnce
  <2> SUFFICES ASSUME VfsInv, progress = "returned", NEW p \in Paths, NEW n \in TocIndexes
               PROVE  Cardinality({j \in DOMAIN s_FileMap[p] : s_FileMap[p][j].toc = n})
                        = Cardinality(UNION {{a} \X {j \in DOMAIN Files[a] :
                                        Files[a][j].path = p /\ Files[a][j].toc = n} :
                                        a \in Archives})
    BY DEF FilesOnce
  <2>1. s_FileMap[p] \in Seq(Entry)
    BY DEF VfsInv, VfsTypeOK
  <2>2. Registers(s_FileMap[p], Of(p), s_Pool, raced)
    BY AllMerged DEF VfsInv, FileMapRight
  <2>3. FilesAt(Of(p), n)
          = UNION {{a} \X {j \in DOMAIN Files[a] : Files[a][j].path = p /\ Files[a][j].toc = n} :
                     a \in Archives}
    <3>1. ASSUME NEW a \in Archives
          PROVE  DOMAIN Files[a] = 1 .. Len(Files[a]) /\ 1 .. Len(Files[a]) \subseteq Nat
      BY VfsAssumption
    <3> QED BY <3>1 DEF Of, FileAt, FilesAt
  <2>4. Cardinality(EntriesAt(s_FileMap[p], n)) = Cardinality(FilesAt(Of(p), n))
    BY <2>1, <2>2, SameIndex
  <2> QED BY <2>3, <2>4 DEF EntriesAt
<1> QED BY <1>1, VfsInvariant, PTL

LEMMA LeastExists ==
  ASSUME NEW S \in SUBSET Nat, S # {}
  PROVE  Min(S) \in S
<1>1. \E x \in S : \A y \in S : ~(<<y, x>> \in OpToRel(<, Nat))
  BY NatLessThanWellFounded, WFMin
<1>2. PICK x \in S : \A y \in S : ~(<<y, x>> \in OpToRel(<, Nat))
  BY <1>1
<1>3. ASSUME NEW y \in S PROVE x <= y
  <2>1. ~(y < x)
    BY <1>2 DEF OpToRel
  <2> QED BY <2>1
<1> QED BY <1>3 DEF Min

\* Whatever the archives and the order of their mounts, a file registered without a
\* race is found, in a reader that has it at that index (FileSystem.cpp:147-239).
THEOREM MountedAreFound == Spec => []MountedIsFound
<1>1. VfsInv => MountedIsFound
  <2> SUFFICES ASSUME VfsInv, progress = "returned", ~raced,
                      NEW a \in Archives, NEW f \in ToSet(Files[a])
               PROVE  Found(f.path, f.ext)
    BY DEF MountedIsFound
  <2> DEFINE p == f.path
             s == s_FileMap[p]
             E == Entries(p, f.ext)
  <2>1. PICK j \in 1 .. Len(Files[a]) : f = Files[a][j]
    BY VfsAssumption DEF ToSet
  <2>2. f \in AllFiles /\ p \in Paths
    BY DEF AllFiles, Paths
  <2>3. <<a, j>> \in Of(p) /\ FileAt(<<a, j>>) = f
    BY <2>1, VfsAssumption DEF Of, FileAt
  <2>4. s \in Seq(Entry)
    BY <2>2 DEF VfsInv, VfsTypeOK
  <2>5. Registers(s, Of(p), s_Pool, raced)
    BY <2>2, AllMerged DEF VfsInv, FileMapRight
  <2>6. PICK g \in Bijection(DOMAIN s, Of(p)) :
          \A x \in DOMAIN s : Fits(s[x], FileAt(g[x]), s_Pool, raced)
    BY <2>5 DEF Registers
  <2>7. /\ \A x \in DOMAIN s : g[x] \in Of(p)
        /\ \A k \in Of(p) : \E x \in DOMAIN s : g[x] = k
    BY <2>6 DEF Bijection, Injection, Surjection
  <2>8. PICK x \in DOMAIN s : g[x] = <<a, j>>
    BY <2>3, <2>7
  <2>9. f.ext \in DOMAIN s_Pool /\ s[x].ext = s_Pool[f.ext] /\ ExtensionId(f.ext) = s_Pool[f.ext]
    BY <2>3, <2>6, <2>8 DEF Fits, ExtensionId
  <2>10. E \in SUBSET Nat /\ E # {}
    BY <2>4, <2>8, <2>9 DEF Entries
  <2> DEFINE m == Min(E)
  <2>11. m \in DOMAIN s /\ s[m].ext = s_Pool[f.ext]
    <3>1. m \in E
      BY <2>10, LeastExists
    <3> QED BY <3>1, <2>9 DEF Entries
  <2>12. PICK b \in Archives, l \in Nat :
           /\ l \in 1 .. Len(Files[b]) /\ Files[b][l].path = p
           /\ s[m].toc = Files[b][l].toc
           /\ Files[b][l].ext \in DOMAIN s_Pool /\ s[m].ext = s_Pool[Files[b][l].ext]
    <3>1. g[m] \in Of(p) /\ Fits(s[m], FileAt(g[m]), s_Pool, raced)
      BY <2>6, <2>7, <2>11
    <3> QED BY <3>1 DEF Of, Fits, FileAt
  <2>13. Files[b][l].ext = f.ext
    BY <2>9, <2>11, <2>12 DEF VfsInv, IdsUnique
  <2>14. Files[b][l] \in ToSet(Files[b])
    BY <2>12, VfsAssumption DEF ToSet
  <2>15. b \in ToSet(s_Readers)
    BY DEF VfsInv, MountsInOrder
  <2>16. b \in Holders(p, f.ext)
    BY <2>12, <2>13, <2>14, <2>15 DEF Holders, TocEntryIndex
  <2> QED BY <2>10, <2>16 DEF Found
<1> QED BY <1>1, VfsInvariant, PTL

\* Every step of a mount is a step of MountTasks or changes none of its variables
\* (FileProvider.cpp:61-90): the safety part of PromiseKept, whatever the threads do.
THEOREM VfsKeepsPromise == Spec => Promise!MSafe
<1>1. Init => Promise!MInit
  BY DEF Init, Promise!MInit
<1>2. [Next]_vars => [Promise!MNext]_(Promise!mvars)
  <2> SUFFICES ASSUME [Next]_vars PROVE Promise!MNext \/ UNCHANGED Promise!mvars
    OBVIOUS
  <2> USE DEF Promise!mvars
  <2>1. ASSUME NEW a \in Archives, NEW i \in Chunks, GetOrAdd(a, i)
        PROVE  UNCHANGED Promise!mvars
    BY <2>1 DEF GetOrAdd, FindExtension, PushExtension, InsertExtension
  <2>2. ASSUME NEW a \in Archives, Begin(a) PROVE Promise!MNext
    <3>1. Promise!Begin(a)
      BY <2>2 DEF Begin, Promise!Begin
    <3> QED BY <3>1 DEF Promise!MNext
  <2>3. ASSUME NEW a \in Archives, Merge(a) PROVE UNCHANGED Promise!mvars
    BY <2>3 DEF Merge
  <2>4. ASSUME NEW a \in Archives, Finish(a) PROVE Promise!MNext
    <3>1. Promise!End(a)
      BY <2>4 DEF Finish, Promise!End
    <3> QED BY <3>1 DEF Promise!MNext
  <2>5. CASE Return
    BY <2>5 DEF Return, Promise!AllReturn, Promise!MNext
  <2>6. CASE RaceKills
    BY <2>6 DEF RaceKills, Promise!Terminate, Promise!MNext
  <2>7. CASE UNCHANGED vars
    BY <2>7 DEF vars
  <2> QED BY <2>1, <2>2, <2>3, <2>4, <2>5, <2>6, <2>7 DEF Next, MountThread
<1> QED BY <1>1, <1>2, PTL DEF Spec, Promise!MSafe
=============================================================================
