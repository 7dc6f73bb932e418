----------------------------- MODULE ThreadPool -----------------------------
(***************************************************************************)
(* The task thread pool of src/thread_pool: one client thread that        *)
(* submits tasks and then destroys the pool, and the worker threads of     *)
(* ThreadPool::ThreadFunc, in FIXED or CACHED mode.  Everything a thread   *)
(* does under task_que_mtx_ is one step; waiting on a condition variable   *)
(* releases the mutex, and a notified (or, in CACHED mode, timed-out)      *)
(* waiter takes a step of its own to reacquire it.  Spurious wakeups are   *)
(* not assumed to happen.  task_size_ is always Len(queue): it changes     *)
(* with the queue in the same critical sections.                           *)
(***************************************************************************)
EXTENDS Naturals, Sequences, FiniteSets

CONSTANTS
  Modes,        \* the pool_mode_ values the client may pass to SetMode
  InitSizes,    \* the arguments Start may have been called with
  ThreadMax,    \* thread_max_size_
  QueMax,       \* task_que_max_size_
  MaxTasks,     \* bound on the SubmitTask calls of the client
  MaxThreadIds, \* bound on the thread ids ever generated in the process
  FirstIds      \* the values Thread::generate_thread_id_ may have when the
                \* pool is started (0 unless other Threads were made before)

ASSUME /\ Modes \subseteq {"Fixed", "Cached"}
       /\ InitSizes \subseteq Nat \ {0} /\ QueMax \in Nat \ {0} /\ MaxTasks \in Nat
       /\ \A f \in FirstIds : f + ThreadMax <= MaxThreadIds

Tids  == 0..MaxThreadIds - 1  \* thread ids, from Thread::generate_thread_id_
Tasks == 1..MaxTasks

VARIABLES
  mode,      \* pool_mode_
  initSize,  \* init_thread_size_
  running,   \* is_running_
  queue,     \* task_que_, by task id
  threads,   \* the ids in threads_
  current,   \* current_thread_size_
  idle,      \* idle_thread_size_
  wpc,       \* where each worker is
  task,      \* the task a worker is running (0: none)
  nextTid,   \* Thread::generate_thread_id_, the next thread id
  nextTask,  \* the next task the client submits
  accepted,  \* tasks SubmitTask put in the queue
  done,      \* tasks a worker ran
  mpc        \* where the client thread is

vars == <<mode, initSize, running, queue, threads, current, idle, wpc, task, nextTid, nextTask,
          accepted, done, mpc>>

(* Worker: "None" not created; "Check" at the `while (task_que_.empty())`  *)
(* test with the mutex; "Wait" blocked on not_empty_; "Woken" notified,    *)
(* reacquiring the mutex; "Expired" back from wait_for on timeout,        *)
(* reacquiring the mutex; "Run" running a task; "Exited" returned.         *)
WorkerPcs == {"None", "Check", "Wait", "Woken", "Expired", "Run", "Exited"}

(* Client: "Start" configuring the pool and calling ThreadPool::Start;    *)
(* "Crashed" after Start                                                   *)
(* called ->Start() on a null unique_ptr; "Submit" calling SubmitTask,   *)
(* then ~ThreadPool: "Stop" about to                                       *)
(* clear is_running_, "Notify" about to take the mutex and notify_all,     *)
(* "WaitExit" blocked on exit_cond_, "ExitWoken" notified, "Done".         *)
MainPcs == {"Start", "Crashed", "Submit", "Stop", "Notify", "WaitExit", "ExitWoken", "Done"}

(* The state ThreadPool::ThreadPool() leaves. *)
Init ==
  /\ mode = "Fixed"
  /\ initSize = 0
  /\ running = FALSE
  /\ queue = <<>>
  /\ threads = {}
  /\ current = 0
  /\ idle = 0
  /\ wpc = [t \in Tids |-> "None"]
  /\ task = [t \in Tids |-> 0]
  /\ nextTid \in FirstIds
  /\ nextTask = 1
  /\ accepted = {}
  /\ done = {}
  /\ mpc = "Start"

(* notify_all / notify_one on not_empty_. *)
WakeAll(pc) == [t \in Tids |-> IF pc[t] = "Wait" THEN "Woken" ELSE pc[t]]
WakeOne(pc) ==
  { [pc EXCEPT ![t] = "Woken"] : t \in {u \in Tids : pc[u] = "Wait"} }
  \cup (IF \E u \in Tids : pc[u] = "Wait" THEN {} ELSE {pc})

-----------------------------------------------------------------------------
(* The client thread.                                                      *)

(* SetMode before Start: pool_mode_ = m (after Start, CheckRunningState   *)
(* makes it return without a change).                                      *)
SetMode(m) ==
  /\ mpc = "Start" /\ ~running
  /\ mode' = m
  /\ UNCHANGED <<initSize, running, queue, threads, current, idle, wpc, task, nextTid, nextTask,
                 accepted, done, mpc>>

(* SubmitTask before Start: the pool is not running, so the task is not   *)
(* queued and a future of a default value is returned at once.            *)
SubmitNotRunning ==
  /\ mpc = "Start" /\ ~running /\ nextTask <= MaxTasks
  /\ nextTask' = nextTask + 1
  /\ UNCHANGED <<mode, initSize, running, queue, threads, current, idle, wpc, task, nextTid,
                 accepted, done, mpc>>

(* Mutant: the start loop begins at index 1. *)
StartFromOne(n) ==
  LET init == IF n < ThreadMax THEN n ELSE ThreadMax
      ids == nextTid..nextTid + init - 1
      missing == {i \in 1..init - 1 : i \notin ids}
      stop == IF missing = {} THEN init ELSE CHOOSE i \in missing : \A j \in missing : i <= j
  IN  /\ threads' = ids \cup (IF missing = {} THEN {} ELSE {stop})
      /\ wpc' = [t \in Tids |-> IF t \in 1..stop - 1 THEN "Check" ELSE wpc[t]]
      /\ idle' = stop
      /\ mpc' = IF missing = {} THEN "Submit" ELSE "Crashed"

(* ThreadPool::Start(n) without the first line: init_thread_size_ threads  *)
(* get the next ids and enter threads_; then threads_[i]->Start() for i in *)
(* 0..init-1, counting each idle.  threads_[i] for an i that is not a key  *)
(* inserts a null unique_ptr and ->Start() dereferences it: the client     *)
(* crashes there, the threads before i running and the others never.      *)
StartThreads(n) ==
  LET init == IF n < ThreadMax THEN n ELSE ThreadMax
      ids == nextTid..nextTid + init - 1
      missing == {i \in 0..init - 1 : i \notin ids}
      stop == IF missing = {} THEN init ELSE CHOOSE i \in missing : \A j \in missing : i <= j
  IN  /\ threads' = ids \cup (IF missing = {} THEN {} ELSE {stop})
      /\ wpc' = [t \in Tids |-> IF t \in 0..stop - 1 THEN "Check" ELSE wpc[t]]
      /\ idle' = stop
      /\ mpc' = IF missing = {} THEN "Submit" ELSE "Crashed"

(* ThreadPool::Start(n): is_running_ = true, then the threads. *)
Start ==
  /\ mpc = "Start"
  /\ \E n \in InitSizes :
       /\ initSize' = IF n < ThreadMax THEN n ELSE ThreadMax
       /\ current' = initSize'
       /\ nextTid' = nextTid + initSize'
       /\ StartThreads(n)
  /\ running' = TRUE
  /\ UNCHANGED <<mode, queue, task, nextTask, accepted, done>>

SubmitTaskNoBound ==
  /\ mpc = "Submit" /\ nextTask <= MaxTasks
  /\ queue' = Append(queue, nextTask)
  /\ accepted' = accepted \cup {nextTask}
  /\ nextTask' = nextTask + 1
  /\ \E pc \in WakeOne(wpc) : wpc' = pc
  /\ UNCHANGED <<mode, initSize, threads, current, idle, nextTid, running, task, done, mpc>>

(* SubmitTask with room in the queue: push, notify_one, and in CACHED mode *)
(* start one more thread if tasks outnumber idle threads.                  *)
SubmitTask ==
  /\ mpc = "Submit" /\ nextTask <= MaxTasks
  /\ Len(queue) < QueMax
  /\ queue' = Append(queue, nextTask)
  /\ accepted' = accepted \cup {nextTask}
  /\ nextTask' = nextTask + 1
  /\ IF mode = "Cached" /\ Len(queue) + 1 > idle /\ current < ThreadMax
       THEN /\ nextTid < MaxThreadIds
            /\ threads' = threads \cup {nextTid}
            /\ current' = current + 1
            /\ idle' = idle + 1
            /\ nextTid' = nextTid + 1
            /\ \E pc \in WakeOne(wpc) : wpc' = [pc EXCEPT ![nextTid] = "Check"]
       ELSE /\ \E pc \in WakeOne(wpc) : wpc' = pc
            /\ UNCHANGED <<mode, initSize, threads, current, idle, nextTid>>
  /\ UNCHANGED <<mode, initSize, running, task, done, mpc>>

(* SubmitTask with the queue full for the whole second of wait_for: the   *)
(* task is refused and a defaulted future returned.                        *)
SubmitFull ==
  /\ mpc = "Submit" /\ nextTask <= MaxTasks
  /\ Len(queue) = QueMax
  /\ nextTask' = nextTask + 1
  /\ UNCHANGED <<mode, initSize, running, queue, threads, current, idle, wpc, task, nextTid,
                 accepted, done, mpc>>

(* The client is done submitting and the pool goes out of scope. *)
Destroy ==
  /\ mpc = "Submit" /\ nextTask > MaxTasks
  /\ mpc' = "Stop"
  /\ UNCHANGED <<mode, initSize, running, queue, threads, current, idle, wpc, task, nextTid,
                 nextTask, accepted, done>>

(* ~ThreadPool: is_running_ = false, outside the mutex. *)
StopRunning ==
  /\ mpc = "Stop"
  /\ running' = FALSE
  /\ mpc' = "Notify"
  /\ UNCHANGED <<mode, initSize, queue, threads, current, idle, wpc, task, nextTid, nextTask,
                 accepted, done>>

(* With the mutex: notify_all on not_empty_, then exit_cond_.wait with the *)
(* predicate threads_.empty(), tested before blocking.                     *)
NotifyWorkers ==
  /\ mpc = "Notify"
  /\ wpc' = WakeAll(wpc)
  /\ mpc' = IF threads = {} THEN "Done" ELSE "WaitExit"
  /\ UNCHANGED <<mode, initSize, running, queue, threads, current, idle, task, nextTid, nextTask,
                 accepted, done>>

(* Woken on exit_cond_: test the predicate again. *)
ExitCheck ==
  /\ mpc = "ExitWoken"
  /\ mpc' = IF threads = {} THEN "Done" ELSE "WaitExit"
  /\ UNCHANGED <<mode, initSize, running, queue, threads, current, idle, wpc, task, nextTid,
                 nextTask, accepted, done>>

-----------------------------------------------------------------------------
(* A worker thread, ThreadPool::ThreadFunc.                                *)

TakeTaskNoIdle(t) ==
  /\ wpc[t] \in {"Check", "Woken", "Expired"}
  /\ queue # <<>>
  /\ task' = [task EXCEPT ![t] = Head(queue)]
  /\ queue' = Tail(queue)
  /\ wpc' = [IF Tail(queue) # <<>> THEN WakeAll(wpc) ELSE wpc EXCEPT ![t] = "Run"]
  /\ UNCHANGED <<mode, initSize, idle, running, threads, current, nextTid, nextTask, accepted, done, mpc>>

(* The queue is not empty: take the head, notify the other workers if more *)
(* is left and the client that there is room.                              *)
TakeTask(t) ==
  /\ wpc[t] \in {"Check", "Woken", "Expired"}
  /\ queue # <<>>
  /\ idle' = idle - 1
  /\ task' = [task EXCEPT ![t] = Head(queue)]
  /\ queue' = Tail(queue)
  /\ wpc' = [IF Tail(queue) # <<>> THEN WakeAll(wpc) ELSE wpc EXCEPT ![t] = "Run"]
  /\ UNCHANGED <<mode, initSize, running, threads, current, nextTid, nextTask, accepted, done, mpc>>

ExitOnStopEarly(t) ==
  /\ wpc[t] \in {"Check", "Woken", "Expired"}
  /\ ~running
  /\ threads' = threads \ {t}
  /\ wpc' = [wpc EXCEPT ![t] = "Exited"]
  /\ mpc' = IF mpc = "WaitExit" THEN "ExitWoken" ELSE mpc
  /\ UNCHANGED <<mode, initSize, running, queue, current, idle, task, nextTid, nextTask, accepted, done>>

ExitOnStopNoNotify(t) ==
  /\ wpc[t] \in {"Check", "Woken", "Expired"}
  /\ queue = <<>> /\ ~running
  /\ threads' = threads \ {t}
  /\ wpc' = [wpc EXCEPT ![t] = "Exited"]
  /\ UNCHANGED <<mode, initSize, running, queue, current, idle, task, nextTid, nextTask, accepted, done, mpc>>

(* The queue is empty and the pool stopped: leave threads_, notify         *)
(* exit_cond_, return.                                                     *)
ExitOnStop(t) ==
  /\ wpc[t] \in {"Check", "Woken", "Expired"}
  /\ queue = <<>> /\ ~running
  /\ threads' = threads \ {t}
  /\ wpc' = [wpc EXCEPT ![t] = "Exited"]
  /\ mpc' = IF mpc = "WaitExit" THEN "ExitWoken" ELSE mpc
  /\ UNCHANGED <<mode, initSize, running, queue, current, idle, task, nextTid, nextTask, accepted, done>>

(* The queue is empty and the pool running: wait on not_empty_ (wait_for  *)
(* one second in CACHED mode).                                             *)
WaitForTask(t) ==
  /\ wpc[t] \in {"Check", "Woken", "Expired"}
  /\ queue = <<>> /\ running
  /\ wpc' = [wpc EXCEPT ![t] = "Wait"]
  /\ UNCHANGED <<mode, initSize, running, queue, threads, current, idle, task, nextTid, nextTask,
                 accepted, done, mpc>>

(* CACHED mode: the second of wait_for passes; the thread reacquires the *)
(* mutex, and wait_for returns cv_status::timeout even if not_empty_ is    *)
(* notified meanwhile.                                                     *)
WaitTimeout(t) ==
  /\ mode = "Cached"
  /\ wpc[t] = "Wait"
  /\ wpc' = [wpc EXCEPT ![t] = "Expired"]
  /\ UNCHANGED <<mode, initSize, running, queue, threads, current, idle, task, nextTid, nextTask,
                 accepted, done, mpc>>

ReapIdleNoIdleCount(t) ==
  /\ mode = "Cached"
  /\ wpc[t] = "Expired"
  /\ current > initSize
  /\ threads' = threads \ {t}
  /\ current' = current - 1
  /\ wpc' = [wpc EXCEPT ![t] = "Exited"]
  /\ UNCHANGED <<mode, initSize, running, queue, idle, task, nextTid, nextTask, accepted, done, mpc>>

(* CACHED mode: wait_for timed out after the thread idled for              *)
(* kThreadMaxIdleTime and there are more threads than Start made: leave    *)
(* threads_, count down, return (exit_cond_ is not notified).              *)
ReapIdle(t) ==
  /\ mode = "Cached"
  /\ wpc[t] = "Expired"
  /\ current > initSize
  /\ threads' = threads \ {t}
  /\ current' = current - 1
  /\ idle' = idle - 1
  /\ wpc' = [wpc EXCEPT ![t] = "Exited"]
  /\ UNCHANGED <<mode, initSize, running, queue, task, nextTid, nextTask, accepted, done, mpc>>

(* The task runs without the mutex; then ++idle_thread_size_ and back to   *)
(* the loop test.                                                          *)
RunTask(t) ==
  /\ wpc[t] = "Run"
  /\ done' = done \cup {task[t]}
  /\ idle' = idle + 1
  /\ task' = [task EXCEPT ![t] = 0]
  /\ wpc' = [wpc EXCEPT ![t] = "Check"]
  /\ UNCHANGED <<mode, initSize, running, queue, threads, current, nextTid, nextTask, accepted, mpc>>

WorkerStep(t) ==
  TakeTask(t) \/ ExitOnStop(t) \/ WaitForTask(t) \/ WaitTimeout(t) \/ RunTask(t)

ClientStep ==
  \/ \E m \in Modes : SetMode(m)
  \/ SubmitNotRunning
  \/ Start \/ SubmitTask \/ SubmitFull \/ Destroy \/ StopRunning \/ NotifyWorkers \/ ExitCheck

Next ==
  \/ ClientStep
  \/ \E t \in Tids : WorkerStep(t) \/ ReapIdle(t)

(* Threads run; a CACHED worker's one-second wait_for does time out.  The  *)
(* sixty seconds of idleness that allow reaping are not assumed to pass.   *)
Fairness ==
  /\ WF_vars(ClientStep)
  /\ \A t \in Tids : WF_vars(WorkerStep(t))

Spec == Init /\ [][Next]_vars /\ Fairness

-----------------------------------------------------------------------------
TypeOK ==
  /\ running \in BOOLEAN
  /\ queue \in Seq(Tasks) /\ Len(queue) <= QueMax
  /\ threads \subseteq Tids
  /\ current \in 0..ThreadMax
  /\ idle \in 0..ThreadMax
  /\ wpc \in [Tids -> WorkerPcs]
  /\ task \in [Tids -> 0..MaxTasks]
  /\ nextTid \in 0..MaxThreadIds
  /\ nextTask \in 1..MaxTasks + 1
  /\ accepted \subseteq Tasks /\ done \subseteq Tasks
  /\ mpc \in MainPcs
  /\ mode \in Modes \cup {"Fixed"} /\ initSize \in 0..ThreadMax

(* While the pool runs, current_thread_size_ is the number of threads in   *)
(* threads_ and idle_thread_size_ the number of them not running a task,   *)
(* whatever the interleaving of submits, task runs, thread creation and    *)
(* reaping: SubmitTask's decision to add a thread reads these counters.    *)
CountersTrackThreads ==
  running =>
    /\ current = Cardinality(threads)
    /\ idle = Cardinality({t \in threads : wpc[t] # "Run"})

(* Every task SubmitTask accepted is run, even when the pool is destroyed  *)
(* while it is still queued.                                               *)
TasksRun == \A i \in Tasks : i \in accepted ~> i \in done

(* ~ThreadPool returns: every worker leaves threads_ and the last one to   *)
(* leave wakes the destructor.                                             *)
DestructorReturns == (mpc = "Stop") ~> (mpc = "Done")

(* In FIXED mode, where no worker is ever reaped, ~ThreadPool returns.    *)
FixedDestructorReturns == (mode = "Fixed" /\ mpc = "Stop") ~> (mpc = "Done")

(* Once ThreadPool::Start has returned, every thread in threads_ has been *)
(* started: Start's loop reaches each thread it created, whatever ids     *)
(* Thread::generate_thread_id_ gave them.                                  *)
ThreadsStarted == mpc # "Start" => \A t \in threads : wpc[t] # "None"
=============================================================================
