----------------------------- MODULE ThreadPool -----------------------------
(***************************************************************************)
(* MountAsync and its ThreadPool: one asynchronous submitter per archive   *)
(* enqueues its mount and notifies a worker; MountAsync waits for the      *)
(* submitters, and the pool's destructor stops the workers and joins them. *)
(* queueMutex makes each look at the queue atomic, and so is going to      *)
(* sleep on the condition variable after it.                               *)
(***************************************************************************)
EXTENDS Integers, Sequences, FiniteSets

CONSTANTS
  ArchivePaths,
  Workers,   \* the pool's threads
  Throwing,  \* archives whose mount may throw
  Nothing    \* what an idle worker mounts

ASSUME PoolAssumption ==
  Workers # {} /\ Throwing \subseteq ArchivePaths /\ Nothing \notin ArchivePaths

VARIABLES
  main,      \* MountAsync, from submitting to returning
  submitter, \* by archive: the std::async that enqueues it
  tasks,     \* the queue
  stop,
  worker,    \* by worker: where its loop is
  running,   \* by worker: the archive it mounts
  task       \* by archive: how far its mount is

poolVars == <<main, submitter, tasks, stop, worker, running, task>>

PoolTypeOK ==
  /\ main \in {"submit", "notify", "join", "returned", "terminated"}
  /\ submitter \in [ArchivePaths -> {"new", "pushed", "notified"}]
  /\ tasks \in Seq(ArchivePaths)
  /\ stop \in BOOLEAN
  /\ worker \in [Workers -> {"check", "asleep", "run", "exited"}]
  /\ running \in [Workers -> ArchivePaths \cup {Nothing}]
  /\ task \in [ArchivePaths -> {"waiting", "running", "done"}]
  /\ \A w \in Workers : worker[w] = "run" <=> running[w] # Nothing

PoolInit ==
  /\ main = "submit"
  /\ submitter = [a \in ArchivePaths |-> "new"]
  /\ tasks = <<>>
  /\ stop = FALSE
  /\ worker = [w \in Workers |-> "check"]
  /\ running = [w \in Workers |-> Nothing]
  /\ task = [a \in ArchivePaths |-> "waiting"]

Alive == main \notin {"returned", "terminated"}

-----------------------------------------------------------------------------
(***************************************************************************)
(* Submitting.                                                             *)
(***************************************************************************)
Enqueue(a) ==
  /\ Alive
  /\ submitter[a] = "new"
  /\ submitter' = [submitter EXCEPT ![a] = "pushed"]
  /\ tasks' = Append(tasks, a)
  /\ UNCHANGED <<main, stop, worker, running, task>>

WakeOne ==
  \/ \E w \in Workers : worker[w] = "asleep" /\ worker' = [worker EXCEPT ![w] = "check"]
  \/ (\A w \in Workers : worker[w] # "asleep") /\ UNCHANGED worker

NotifyOne(a) ==
  /\ Alive
  /\ submitter[a] = "pushed"
  /\ submitter' = [submitter EXCEPT ![a] = "notified"]
  /\ WakeOne
  /\ UNCHANGED <<main, tasks, stop, running, task>>

\* Wrong: the pool is destroyed without waiting for the submitters.
StopEarly ==
  /\ main = "submit"
  /\ stop' = TRUE
  /\ main' = "notify"
  /\ UNCHANGED <<submitter, tasks, worker, running, task>>

\* All futures are ready; the pool goes out of scope.
Stop ==
  /\ main = "submit"
  /\ \A a \in ArchivePaths : submitter[a] = "notified"
  /\ stop' = TRUE
  /\ main' = "notify"
  /\ UNCHANGED <<submitter, tasks, worker, running, task>>

\* Wrong: notify_one.
NotifyAllOne ==
  /\ main = "notify"
  /\ WakeOne
  /\ main' = "join"
  /\ UNCHANGED <<submitter, tasks, stop, running, task>>

NotifyAll ==
  /\ main = "notify"
  /\ worker' = [w \in Workers |-> IF worker[w] = "asleep" THEN "check" ELSE worker[w]]
  /\ main' = "join"
  /\ UNCHANGED <<submitter, tasks, stop, running, task>>

Join ==
  /\ main = "join"
  /\ \A w \in Workers : worker[w] = "exited"
  /\ main' = "returned"
  /\ UNCHANGED <<submitter, tasks, stop, worker, running, task>>

-----------------------------------------------------------------------------
(***************************************************************************)
(* A worker.                                                               *)
(***************************************************************************)
Take(w) ==
  /\ Alive
  /\ worker[w] = "check"
  /\ tasks # <<>>
  /\ tasks' = Tail(tasks)
  /\ running' = [running EXCEPT ![w] = Head(tasks)]
  /\ task' = [task EXCEPT ![Head(tasks)] = "running"]
  /\ worker' = [worker EXCEPT ![w] = "run"]
  /\ UNCHANGED <<main, submitter, stop>>

Sleep(w) ==
  /\ Alive
  /\ worker[w] = "check"
  /\ ~stop /\ tasks = <<>>
  /\ worker' = [worker EXCEPT ![w] = "asleep"]
  /\ UNCHANGED <<main, submitter, tasks, stop, running, task>>

\* Condition variables may wake for no reason; nobody counts on it.
WakeSpuriously(w) ==
  /\ Alive
  /\ worker[w] = "asleep"
  /\ worker' = [worker EXCEPT ![w] = "check"]
  /\ UNCHANGED <<main, submitter, tasks, stop, running, task>>

\* Wrong: if (stop) return.
ExitAtStop(w) ==
  /\ Alive
  /\ worker[w] = "check"
  /\ stop
  /\ worker' = [worker EXCEPT ![w] = "exited"]
  /\ UNCHANGED <<main, submitter, tasks, stop, running, task>>

Exit(w) ==
  /\ Alive
  /\ worker[w] = "check"
  /\ stop /\ tasks = <<>>
  /\ worker' = [worker EXCEPT ![w] = "exited"]
  /\ UNCHANGED <<main, submitter, tasks, stop, running, task>>

\* Wrong: the task is not let go.
EndTaskKeeps(w) ==
  /\ Alive
  /\ worker[w] = "run"
  /\ task' = [task EXCEPT ![running[w]] = "done"]
  /\ worker' = [worker EXCEPT ![w] = "check"]
  /\ UNCHANGED <<main, submitter, tasks, stop, running>>

EndTask(w) ==
  /\ Alive
  /\ worker[w] = "run"
  /\ task' = [task EXCEPT ![running[w]] = "done"]
  /\ running' = [running EXCEPT ![w] = Nothing]
  /\ worker' = [worker EXCEPT ![w] = "check"]
  /\ UNCHANGED <<main, submitter, tasks, stop>>

\* An exception in a worker thread is std::terminate: a .ucas that cannot be
\* opened makes the FFileReader constructor throw.
TaskThrows(w) ==
  /\ Alive
  /\ worker[w] = "run"
  /\ running[w] \in Throwing
  /\ main' = "terminated"
  /\ UNCHANGED <<submitter, tasks, stop, worker, running, task>>

Submit(a) == Enqueue(a) \/ NotifyOne(a)
Main == Stop \/ NotifyAll \/ Join
Worker(w) == Take(w) \/ Sleep(w) \/ Exit(w) \/ EndTask(w)

PoolNext ==
  \/ \E a \in ArchivePaths : Submit(a)
  \/ Main
  \/ \E w \in Workers : Worker(w) \/ WakeSpuriously(w) \/ TaskThrows(w)

\* Every thread that can run does.
PoolSpec ==
  /\ PoolInit /\ [][PoolNext]_poolVars
  /\ WF_poolVars(Main)
  /\ \A a \in ArchivePaths : WF_poolVars(Submit(a))
  /\ \A w \in Workers : WF_poolVars(Worker(w))

-----------------------------------------------------------------------------
(***************************************************************************)
(* Properties.                                                             *)
(***************************************************************************)

\* When MountAsync returns, every archive was mounted, none twice, and no worker
\* is left (FileProvider.cpp:87-90, ThreadPool.ixx:36-45): the stop flag does not
\* make a worker drop what is queued.
Drained ==
  main = "returned" =>
    /\ tasks = <<>>
    /\ \A a \in ArchivePaths : task[a] = "done"
    /\ \A w \in Workers : worker[w] = "exited"

\* MountAsync returns, or a mount that threw ended the process.
MountReturns == <>(~Alive)

\* The pool implements what MountAsync promises, liveness included.
PoolPromise == INSTANCE MountTasks WITH
  Archives <- ArchivePaths, mount <- task,
  progress <- IF Alive THEN "mounting" ELSE main
PoolPromiseKept == PoolPromise!MSpec
=============================================================================
