--------------------------- MODULE EventLoopThread ---------------------------
(***************************************************************************)
(* The life of the sub-loop threads of an EventLoopThreadPool              *)
(* (src/mymuduo/event_loop_thread_pool.cpp, event_loop_thread.cpp,         *)
(* thread.cpp).  The owner thread runs EventLoopThreadPool::Start: for     *)
(* each EventLoopThread in turn, StartLoop starts a Thread, waits on a     *)
(* semaphore for its tid, then on cond_ for the EventLoop the new thread   *)
(* creates.  Each new thread runs ThreadFunc: it builds the EventLoop on   *)
(* its stack, publishes it in loop_, runs Loop() until quit_, clears loop_ *)
(* and destroys the EventLoop.  When the pool is destroyed (with its       *)
(* TcpServer) the vector destroys each EventLoopThread in turn, which      *)
(* quits its loop and joins its thread.                                    *)
(* Loop() is reduced to what quitting depends on: the while (!quit_) test  *)
(* and an epoll_wait that returns when the eventfd is written or after     *)
(* kPollTimeMs.  Once the pool runs, the base loop hands its sub-loops   *)
(* to new connections with GetNextLoop.                                    *)
(***************************************************************************)
EXTENDS Naturals, Functions

CONSTANTS
  NumThreads,   \* num_threads_ of the EventLoopThreadPool
  MaxConns      \* bound on the GetNextLoop calls

ASSUME NumThreads \in Nat \ {0}

Threads == 1..NumThreads

VARIABLES
  opc,      \* where the owner thread is
  cur,      \* the EventLoopThread the owner is starting or destroying
  tpc,      \* where each loop thread is ("None" before Thread::Start)
  sem,      \* the count of the semaphore of each Thread::Start
  tid,      \* tid_ has been set by the new thread
  loopPtr,  \* loop_ != nullptr
  alive,    \* the EventLoop object on the loop thread's stack exists
  quit,     \* its quit_
  wakeup,   \* its eventfd is readable
  next,     \* next_ of the EventLoopThreadPool
  given     \* how many times GetNextLoop has returned each sub-loop

vars == <<opc, cur, tpc, sem, tid, loopPtr, alive, quit, wakeup, next, given>>

(* Owner: "Start" calling thread_.Start(); "SemWait" in sem_wait; "Check" *)
(* at the cond_.wait predicate holding mutex_; "Wait" blocked in           *)
(* cond_.wait; "Woken" notified, reacquiring mutex_; "Running" after       *)
(* EventLoopThreadPool::Start; "Dtor" in ~EventLoopThread reading loop_;   *)
(* "Wake" inside Quit() after quit_ = true; "Join" joining the thread;     *)
(* "Done" after the pool's destructor.                                     *)
OwnerPcs == {"Start", "SemWait", "Check", "Wait", "Woken", "Running",
             "Dtor", "Wake", "Join", "Done"}

(* Loop thread: "Tid" at the start of Thread::Start's lambda; "Construct" *)
(* in ThreadFunc before loop_ is set; "Enter" at the top of Loop();        *)
(* "Test" at while (!quit_); "Poll" in epoll_wait; "Clear" after Loop()    *)
(* returned; "Exited" once the thread function has returned.              *)
ThreadPcs == {"None", "Tid", "Construct", "Enter", "Test", "Poll", "Clear", "Exited"}

Init ==
  /\ opc = "Start"
  /\ cur = 1
  /\ tpc = [i \in Threads |-> "None"]
  /\ sem = [i \in Threads |-> 0]
  /\ tid = [i \in Threads |-> FALSE]
  /\ loopPtr = [i \in Threads |-> FALSE]
  /\ alive = [i \in Threads |-> FALSE]
  /\ quit = [i \in Threads |-> FALSE]
  /\ wakeup = [i \in Threads |-> FALSE]
  /\ next = 0
  /\ given = [i \in Threads |-> 0]

-----------------------------------------------------------------------------
(* The owner thread.                                                       *)

(* Thread::Start for EventLoopThread cur: started_ = true, sem_init, and   *)
(* the std::thread is created.                                             *)
ThreadStart ==
  /\ opc = "Start"
  /\ opc' = "SemWait"
  /\ tpc' = [tpc EXCEPT ![cur] = "Tid"]
  /\ UNCHANGED <<next, given, cur, sem, tid, loopPtr, alive, quit, wakeup>>

(* sem_wait returns once the new thread has posted. *)
SemWait ==
  /\ opc = "SemWait"
  /\ sem[cur] > 0
  /\ sem' = [sem EXCEPT ![cur] = @ - 1]
  /\ opc' = "Check"
  /\ UNCHANGED <<next, given, cur, tpc, tid, loopPtr, alive, quit, wakeup>>

(* StartLoop's cond_.wait(lock, [&]{ return loop_ != nullptr; }), on      *)
(* taking mutex_ or after a notify: block unless loop_ is set; once it is, *)
(* StartLoop returns it and Start goes on with the next EventLoopThread.   *)
StartLoopCheckNoPred ==
  /\ opc \in {"Check", "Woken"}
  /\ IF opc = "Woken"
       THEN /\ opc' = IF cur < NumThreads THEN "Start" ELSE "Running"
            /\ cur' = IF cur < NumThreads THEN cur + 1 ELSE cur
       ELSE /\ opc' = "Wait"
            /\ UNCHANGED cur
  /\ UNCHANGED <<next, given, tpc, sem, tid, loopPtr, alive, quit, wakeup>>

StartLoopCheck ==
  /\ opc \in {"Check", "Woken"}
  /\ IF loopPtr[cur]
       THEN /\ opc' = IF cur < NumThreads THEN "Start" ELSE "Running"
            /\ cur' = IF cur < NumThreads THEN cur + 1 ELSE cur
       ELSE /\ opc' = "Wait"
            /\ UNCHANGED cur
  /\ UNCHANGED <<next, given, tpc, sem, tid, loopPtr, alive, quit, wakeup>>

(* The TcpServer, and with it the pool, is destroyed: threads_ destroys    *)
(* its EventLoopThreads from the first.                                    *)
PoolDestroy ==
  /\ opc = "Running"
  /\ opc' = "Dtor"
  /\ cur' = 1
  /\ UNCHANGED <<next, given, tpc, sem, tid, loopPtr, alive, quit, wakeup>>

(* ~EventLoopThread: exiting_ = true; if (loop_), with loop_ read without *)
(* mutex_, loop_->Quit() sets quit_ (the first half of Quit); otherwise    *)
(* only ~Thread joins.                                                     *)
DtorQuit ==
  /\ opc = "Dtor"
  /\ IF loopPtr[cur]
       THEN /\ quit' = [quit EXCEPT ![cur] = TRUE]
            /\ opc' = "Wake"
       ELSE /\ opc' = "Join"
            /\ UNCHANGED quit
  /\ UNCHANGED <<next, given, cur, tpc, sem, tid, loopPtr, alive, wakeup>>

(* The rest of Quit(): the caller is not the loop's thread, so wakeup()    *)
(* writes to the loop's eventfd through the pointer read from loop_.      *)
QuitWakeup ==
  /\ opc = "Wake"
  /\ wakeup' = [wakeup EXCEPT ![cur] = alive[cur] \/ @]
  /\ opc' = "Join"
  /\ UNCHANGED <<next, given, cur, tpc, sem, tid, loopPtr, alive, quit>>

JoinPastEnd ==
  /\ opc = "Join"
  /\ tpc[cur] = "Exited"
  /\ opc' = IF cur <= NumThreads THEN "Dtor" ELSE "Done"
  /\ cur' = IF cur <= NumThreads THEN cur + 1 ELSE cur
  /\ UNCHANGED <<next, given, tpc, sem, tid, loopPtr, alive, quit, wakeup>>

(* thread_.Join() (or ~Thread's join) returns once the thread has ended;  *)
(* then the next EventLoopThread is destroyed.                             *)
Join ==
  /\ opc = "Join"
  /\ tpc[cur] = "Exited"
  /\ opc' = IF cur < NumThreads THEN "Dtor" ELSE "Done"
  /\ cur' = IF cur < NumThreads THEN cur + 1 ELSE cur
  /\ UNCHANGED <<next, given, tpc, sem, tid, loopPtr, alive, quit, wakeup>>

-----------------------------------------------------------------------------
(* The loop threads.                                                       *)

(* tid_ = CurrentThread::Tid(); sem_post; then func_, i.e. ThreadFunc. *)
SetTid(i) ==
  /\ tpc[i] = "Tid"
  /\ tid' = [tid EXCEPT ![i] = TRUE]
  /\ sem' = [sem EXCEPT ![i] = @ + 1]
  /\ tpc' = [tpc EXCEPT ![i] = "Construct"]
  /\ UNCHANGED <<next, given, opc, cur, loopPtr, alive, quit, wakeup>>

(* EventLoop loop; the init callback; then holding mutex_: loop_ = &loop  *)
(* and cond_.notify_one().                                                 *)
PublishNoNotify(i) ==
  /\ tpc[i] = "Construct"
  /\ alive' = [alive EXCEPT ![i] = TRUE]
  /\ loopPtr' = [loopPtr EXCEPT ![i] = TRUE]
  /\ tpc' = [tpc EXCEPT ![i] = "Enter"]
  /\ UNCHANGED <<next, given, opc, cur, sem, tid, quit, wakeup>>

Publish(i) ==
  /\ tpc[i] = "Construct"
  /\ alive' = [alive EXCEPT ![i] = TRUE]
  /\ loopPtr' = [loopPtr EXCEPT ![i] = TRUE]
  /\ tpc' = [tpc EXCEPT ![i] = "Enter"]
  /\ opc' = IF opc = "Wait" /\ cur = i THEN "Woken" ELSE opc
  /\ UNCHANGED <<next, given, cur, sem, tid, quit, wakeup>>

(* Loop() begins with looping_ = true; quit_ = false. *)
LoopEnter(i) ==
  /\ tpc[i] = "Enter"
  /\ quit' = [quit EXCEPT ![i] = FALSE]
  /\ tpc' = [tpc EXCEPT ![i] = "Test"]
  /\ UNCHANGED <<next, given, opc, cur, sem, tid, loopPtr, alive, wakeup>>

(* while (!quit_) *)
LoopTest(i) ==
  /\ tpc[i] = "Test"
  /\ tpc' = [tpc EXCEPT ![i] = IF quit[i] THEN "Clear" ELSE "Poll"]
  /\ UNCHANGED <<next, given, opc, cur, sem, tid, loopPtr, alive, quit, wakeup>>

(* epoll_wait returns with the eventfd readable; HandleRead reads it, and *)
(* DoPendingFunctors finds nothing to run.                                 *)
PollWakeup(i) ==
  /\ tpc[i] = "Poll"
  /\ wakeup[i]
  /\ wakeup' = [wakeup EXCEPT ![i] = FALSE]
  /\ tpc' = [tpc EXCEPT ![i] = "Test"]
  /\ UNCHANGED <<next, given, opc, cur, sem, tid, loopPtr, alive, quit>>

(* epoll_wait returns 0 after kPollTimeMs. *)
PollTimeout(i) ==
  /\ tpc[i] = "Poll"
  /\ ~wakeup[i]
  /\ tpc' = [tpc EXCEPT ![i] = "Test"]
  /\ UNCHANGED <<next, given, opc, cur, sem, tid, loopPtr, alive, quit, wakeup>>

(* After Loop(): loop_ = nullptr under mutex_; ThreadFunc returns and the *)
(* EventLoop on its stack is destroyed, closing its eventfd.               *)
LoopExit(i) ==
  /\ tpc[i] = "Clear"
  /\ loopPtr' = [loopPtr EXCEPT ![i] = FALSE]
  /\ alive' = [alive EXCEPT ![i] = FALSE]
  /\ wakeup' = [wakeup EXCEPT ![i] = FALSE]
  /\ tpc' = [tpc EXCEPT ![i] = "Exited"]
  /\ UNCHANGED <<next, given, opc, cur, sem, tid, quit>>

(* Mutant: next_ wraps one loop early. *)
AdvanceNextEarly == IF next + 2 >= NumThreads THEN 0 ELSE next + 1

AdvanceNext == IF next + 1 >= NumThreads THEN 0 ELSE next + 1

(* TcpServer::NewConnection on the base loop calls GetNextLoop: loops_ is *)
(* not empty, so loops_[next_] is returned and next_ advances, wrapping   *)
(* at loops_.size().                                                      *)
GetNextLoop ==
  /\ opc = "Running"
  /\ FoldFunction(+, 0, given) < MaxConns
  /\ given' = [given EXCEPT ![next + 1] = @ + 1]
  /\ next' = AdvanceNext
  /\ UNCHANGED <<opc, cur, tpc, sem, tid, loopPtr, alive, quit, wakeup>>

OwnerStep ==
  \/ ThreadStart \/ SemWait \/ StartLoopCheck
  \/ DtorQuit \/ QuitWakeup \/ Join

LoopThreadStep(i) ==
  \/ SetTid(i) \/ Publish(i) \/ LoopEnter(i) \/ LoopTest(i)
  \/ PollWakeup(i) \/ PollTimeout(i) \/ LoopExit(i)

Next == OwnerStep \/ GetNextLoop \/ PoolDestroy \/ \E i \in Threads : LoopThreadStep(i)

(* Every thread keeps running, and epoll_wait always returns, at the      *)
(* latest after kPollTimeMs, so a loop thread never stops in "Poll".       *)
(* Destroying the pool and accepting connections are the application's   *)
(* and the peers' choice and are not assumed.                              *)
Fairness ==
  /\ WF_vars(OwnerStep)
  /\ \A i \in Threads : WF_vars(LoopThreadStep(i))

Spec == Init /\ [][Next]_vars /\ Fairness

-----------------------------------------------------------------------------
TypeOK ==
  /\ opc \in OwnerPcs
  /\ cur \in Threads
  /\ tpc \in [Threads -> ThreadPcs]
  /\ sem \in [Threads -> 0..1]
  /\ tid \in [Threads -> BOOLEAN]
  /\ loopPtr \in [Threads -> BOOLEAN]
  /\ alive \in [Threads -> BOOLEAN]
  /\ quit \in [Threads -> BOOLEAN]
  /\ wakeup \in [Threads -> BOOLEAN]
  /\ next \in 0..NumThreads - 1
  /\ given \in [Threads -> 0..MaxConns]

(* EventLoopThreadPool::Start returns, and then every sub-loop it handed   *)
(* out (loops_) is a live EventLoop whose thread has its tid: neither the  *)
(* semaphore nor the cond_ handshake loses the new thread's post or        *)
(* notify, whichever of the two threads gets there first.                  *)
StartReturnsLoops ==
  /\ <>(opc = "Running")
  /\ [](opc = "Running" => \A i \in Threads : alive[i] /\ tid[i])

(* Round robin over the sub-loops (the spec's fairness rule): however    *)
(* many connections the base loop has placed, the numbers GetNextLoop has  *)
(* handed to any two sub-loops differ by at most one, and the next one is  *)
(* a sub-loop that has had the fewest.                                     *)
RoundRobinBalance ==
  /\ \A i, j \in Threads : given[i] <= given[j] + 1
  /\ \A i \in Threads : given[next + 1] <= given[i]

(* Destroying the pool ends: every loop thread leaves Loop() and is        *)
(* joined, wherever it was when ~EventLoopThread called Quit().           *)
DestructorReturns == (opc = "Dtor") ~> (opc = "Done")

(* Quit() never touches a destroyed EventLoop: when ~EventLoopThread's     *)
(* Quit() writes the eventfd, the loop it read from loop_ still exists.    *)
NoWakeupOfDestroyedLoop == opc = "Wake" => alive[cur]
=============================================================================
