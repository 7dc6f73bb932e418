------------------------------ MODULE MC_Threads ------------------------------
(***************************************************************************)
(* Two components that share no state, checked in one run: the sub-loop   *)
(* threads of an EventLoopThreadPool (EventLoopThread) and the task        *)
(* ThreadPool.  As in MC_Services, Init chooses which component runs       *)
(* (part) and every step is a step of that component with the other left  *)
(* in its initial state, so the run reaches, for each component, exactly  *)
(* the states it reaches alone.  Each component's fairness is asked of    *)
(* its own steps only.  A property about one component holds trivially    *)
(* while the other runs, except where it promises that something happens, *)
(* and then it is stated for its own part.  EventLoopThread's loops stop  *)
(* when its pool is destroyed and ThreadPool's workers when ~ThreadPool    *)
(* returns, so the run does not check for deadlock.                        *)
(***************************************************************************)
CONSTANTS
  NumThreads, MaxConns,                                       \* EventLoopThread
  Modes, InitSizes, ThreadMax, QueMax, MaxTasks, MaxThreadIds, FirstIds \* ThreadPool

VARIABLES
  part,
  opc, cur, tpc, sem, tid, loopPtr, alive, quit, wakeup, next, given,
  mode, initSize, running, queue, threads, current, idle, wpc, task, nextTid, nextTask,
  accepted, done, mpc

thrVars == <<opc, cur, tpc, sem, tid, loopPtr, alive, quit, wakeup, next, given>>
tpVars  == <<mode, initSize, running, queue, threads, current, idle, wpc, task, nextTid, nextTask,
             accepted, done, mpc>>
vars == <<part, thrVars, tpVars>>

Thr == INSTANCE EventLoopThread
Tp  == INSTANCE ThreadPool

Parts == {"EventLoopThread", "ThreadPool"}

(* ThreadPool's Init chooses the first thread id; while EventLoopThread    *)
(* runs, the pool is left in one of its initial states.                   *)
Init ==
  /\ part \in Parts
  /\ Thr!Init /\ Tp!Init
  /\ part # "ThreadPool" => nextTid = CHOOSE f \in FirstIds : TRUE

(* A step of one component, the other unchanged. *)
ThrStep(A) == part = "EventLoopThread" /\ A /\ UNCHANGED <<part, tpVars>>
TpStep(A)  == part = "ThreadPool" /\ A /\ UNCHANGED <<part, thrVars>>

Next == ThrStep(Thr!Next) \/ TpStep(Tp!Next)

(* The fairness of each module, for its own steps: EventLoopThread's      *)
(* owner and loop threads keep running (epoll_wait returns at the latest  *)
(* after kPollTimeMs); ThreadPool's client and workers keep running.      *)
Fairness ==
  /\ WF_vars(ThrStep(Thr!OwnerStep))
  /\ \A i \in Thr!Threads : WF_vars(ThrStep(Thr!LoopThreadStep(i)))
  /\ WF_vars(TpStep(Tp!ClientStep))
  /\ \A t \in Tp!Tids : WF_vars(TpStep(Tp!WorkerStep(t)))

Spec == Init /\ [][Next]_vars /\ Fairness

-----------------------------------------------------------------------------
(* The type invariants of the two modules. *)
TypeOK ==
  /\ part \in Parts
  /\ Thr!TypeOK /\ Tp!TypeOK

(* EventLoopThread!StartReturnsLoops, for the run of EventLoopThread:      *)
(* EventLoopThreadPool::Start returns with every sub-loop live and its tid *)
(* set, whichever side of the semaphore and cond_ handshake runs first.   *)
StartReturnsLoops == part = "EventLoopThread" => Thr!StartReturnsLoops

(* EventLoopThread!RoundRobinBalance: GetNextLoop hands the sub-loops out  *)
(* in turn, so no two counts differ by more than one.                      *)
RoundRobinBalance == Thr!RoundRobinBalance

(* ThreadPool!CountersTrackThreads: while the pool runs,                   *)
(* current_thread_size_ and idle_thread_size_ match the worker threads,    *)
(* which SubmitTask's decision to add a thread reads.                      *)
CountersTrackThreads == Tp!CountersTrackThreads

(* ThreadPool!ThreadsStarted: after ThreadPool::Start returns, every      *)
(* thread in threads_ has been started by Start's loop.                    *)
ThreadsStarted == Tp!ThreadsStarted

(* ThreadPool!TasksRun: every task SubmitTask accepted is run, even when  *)
(* the pool is destroyed while it is queued.                               *)
TasksRun == Tp!TasksRun

(* ThreadPool!FixedDestructorReturns: in FIXED mode ~ThreadPool returns.   *)
FixedDestructorReturns == Tp!FixedDestructorReturns
=============================================================================
