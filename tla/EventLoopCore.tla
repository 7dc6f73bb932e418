--------------------------- MODULE EventLoopCore ---------------------------
(***************************************************************************)
(* The per-thread reactor of src/mymuduo/event_loop.cpp, shared by the     *)
(* modules that put work on loops (EventLoop, TcpServer).                  *)
(*                                                                         *)
(* One iteration of EventLoop::Loop() is split at the points where another *)
(* thread can observe or change the loop's shared state:                   *)
(*   "Poll"     blocked in epoll_wait (Poller::Poll)                       *)
(*   "Dispatch" calling HandleEvent on each active channel, one per step   *)
(*   "Drain"    DoPendingFunctors: running the swapped-out functors        *)
(*   "Exited"   the while (!quit_) test failed and Loop() returned         *)
(* A functor is a value chosen by the module that EXTENDS this one; a      *)
(* module that queues work describes it as a sequence of <<loop, functor>> *)
(* pairs, in the order the code calls QueueInLoop.                         *)
(***************************************************************************)
EXTENDS Naturals, Sequences

CONSTANTS Loops,     \* the EventLoop objects, one per thread
          WakeCh     \* the id of each loop's wakeup channel (eventfd)

VARIABLES
  pending,   \* pending_functors_: the vector guarded by mutex_
  wakeup,    \* TRUE iff the eventfd counter is non-zero (readable)
  calling,   \* calling_pending_functors_
  batch,     \* the local `functors` vector of DoPendingFunctors
  pos,       \* index in batch of the next functor to run
  active,    \* active_channels_ not yet dispatched in this iteration
  lpc,       \* where Loop() is: "Poll", "Dispatch", "Drain", "Exited"
  quit       \* quit_

loopVars == <<pending, wakeup, calling, batch, pos, active, lpc, quit>>

LoopPhases == {"Poll", "Dispatch", "Drain", "Exited"}

LoopInit ==
  /\ pending = [l \in Loops |-> <<>>]
  /\ wakeup  = [l \in Loops |-> FALSE]
  /\ calling = [l \in Loops |-> FALSE]
  /\ batch   = [l \in Loops |-> <<>>]
  /\ pos     = [l \in Loops |-> 1]
  /\ active  = [l \in Loops |-> {}]
  /\ lpc     = [l \in Loops |-> "Poll"]
  /\ quit    = [l \in Loops |-> FALSE]

(* The functors of the submissions subs addressed to loop l, in order. *)
FunctorsFor(subs, l) ==
  LET mine == SelectSeq(subs, LAMBDA p : p[1] = l)
  IN  [i \in DOMAIN mine |-> mine[i][2]]

(***************************************************************************)
(* EventLoop::QueueInLoop, called by the thread of loop `self` (or by a    *)
(* thread owning no loop, self \notin Loops) once for each pair of subs:   *)
(* append under mutex_, then write the eventfd when the caller is not the  *)
(* loop's thread or the loop is inside DoPendingFunctors.                  *)
(***************************************************************************)
QueueInLoopNoCallingWake(subs, self) ==
  /\ pending' = [l \in Loops |-> pending[l] \o FunctorsFor(subs, l)]
  /\ wakeup'  = [l \in Loops |-> wakeup[l] \/ (FunctorsFor(subs, l) # <<>> /\ l # self)]

QueueInLoopAtFront(subs, self) ==
  /\ pending' = [l \in Loops |-> FunctorsFor(subs, l) \o pending[l]]
  /\ wakeup'  = [l \in Loops |->
                   wakeup[l] \/ (FunctorsFor(subs, l) # <<>> /\ (l # self \/ calling[l]))]

QueueInLoop(subs, self) ==
  /\ pending' = [l \in Loops |-> pending[l] \o FunctorsFor(subs, l)]
  /\ wakeup'  = [l \in Loops |->
                   wakeup[l] \/ (FunctorsFor(subs, l) # <<>> /\ (l # self \/ calling[l]))]

(* EventLoop::Quit called on loop l by the thread of loop self. *)
QuitNoWake(l, self) ==
  /\ quit' = [quit EXCEPT ![l] = TRUE]
  /\ UNCHANGED wakeup

Quit(l, self) ==
  /\ quit'   = [quit EXCEPT ![l] = TRUE]
  /\ wakeup' = [wakeup EXCEPT ![l] = @ \/ l # self]

(***************************************************************************)
(* Poller::Poll returning: epoll_wait reports every ready channel of the   *)
(* loop (level-triggered); the eventfd is ready when its counter is set.   *)
(* `ready` is the set of the loop's other ready channels.                  *)
(***************************************************************************)
Ready(l, ready) == ready \cup (IF wakeup[l] THEN {WakeCh} ELSE {})

PollReturn(l, ready) ==
  /\ lpc[l] = "Poll"
  /\ Ready(l, ready) # {}
  /\ active' = [active EXCEPT ![l] = Ready(l, ready)]
  /\ lpc'    = [lpc EXCEPT ![l] = "Dispatch"]

(* epoll_wait returning 0 after kPollTimeMs, or -1 with EINTR. *)
PollTimeout(l, ready) ==
  /\ lpc[l] = "Poll"
  /\ Ready(l, ready) = {}
  /\ lpc' = [lpc EXCEPT ![l] = "Dispatch"]
  /\ UNCHANGED active

(* The loop is dispatching channel ch of its active list. *)
Dispatching(l, ch) == lpc[l] = "Dispatch" /\ ch \in active[l]

Dispatched(l, ch) == active' = [active EXCEPT ![l] = @ \ {ch}]

(* EventLoop::HandleRead, the wakeup channel's read callback. *)
HandleWakeup(l) ==
  /\ Dispatching(l, WakeCh)
  /\ Dispatched(l, WakeCh)
  /\ wakeup' = [wakeup EXCEPT ![l] = FALSE]
  /\ UNCHANGED <<pending, calling, batch, pos, lpc, quit>>

(* DoPendingFunctors up to the swap: calling_pending_functors_ = true and  *)
(* the pending vector is swapped into the local one under mutex_.          *)
BeginDrain(l) ==
  /\ lpc[l] = "Dispatch"
  /\ active[l] = {}
  /\ calling' = [calling EXCEPT ![l] = TRUE]
  /\ batch'   = [batch EXCEPT ![l] = pending[l]]
  /\ pending' = [pending EXCEPT ![l] = <<>>]
  /\ pos'     = [pos EXCEPT ![l] = 1]
  /\ lpc'     = [lpc EXCEPT ![l] = "Drain"]
  /\ UNCHANGED <<wakeup, active, quit>>

(* The functor DoPendingFunctors runs next, and the step that runs it. *)
Running(l) == lpc[l] = "Drain" /\ pos[l] <= Len(batch[l])
CurrentFunctor(l) == batch[l][pos[l]]
Ran(l) == pos' = [pos EXCEPT ![l] = @ + 1]

EndDrainKeepPos(l) ==
  /\ lpc[l] = "Drain"
  /\ pos[l] > Len(batch[l])
  /\ calling' = [calling EXCEPT ![l] = FALSE]
  /\ batch'   = [batch EXCEPT ![l] = <<>>]
  /\ lpc'     = [lpc EXCEPT ![l] = IF quit[l] THEN "Exited" ELSE "Poll"]
  /\ UNCHANGED <<pending, wakeup, active, quit, pos>>

(* The end of DoPendingFunctors (the local vector is destroyed) and the    *)
(* while (!quit_) test of Loop().                                          *)
EndDrain(l) ==
  /\ lpc[l] = "Drain"
  /\ pos[l] > Len(batch[l])
  /\ calling' = [calling EXCEPT ![l] = FALSE]
  /\ batch'   = [batch EXCEPT ![l] = <<>>]
  /\ pos'     = [pos EXCEPT ![l] = 1]
  /\ lpc'     = [lpc EXCEPT ![l] = IF quit[l] THEN "Exited" ELSE "Poll"]
  /\ UNCHANGED <<pending, wakeup, active, quit>>

(* The functors a loop still owes: the rest of its batch, then pending. *)
Owed(l) == SubSeq(batch[l], pos[l], Len(batch[l])) \o pending[l]

LoopTypeOK(F) ==
  /\ pending \in [Loops -> Seq(F)]
  /\ batch   \in [Loops -> Seq(F)]
  /\ wakeup  \in [Loops -> BOOLEAN]
  /\ calling \in [Loops -> BOOLEAN]
  /\ quit    \in [Loops -> BOOLEAN]
  /\ \A l \in Loops : pos[l] \in 1..Len(batch[l]) + 1
  /\ lpc     \in [Loops -> LoopPhases]

(***************************************************************************)
(* No functor stalls behind a poll: whenever a loop is blocked in          *)
(* epoll_wait with functors pending, its eventfd is readable, so the poll  *)
(* returns at once rather than after the 10 s kPollTimeMs.  This is what   *)
(* the `|| calling_pending_functors_` in QueueInLoop and the wakeup() in a *)
(* cross-thread QueueInLoop are for.                                       *)
(***************************************************************************)
NoStalledFunctor ==
  \A l \in Loops : lpc[l] = "Poll" /\ pending[l] # <<>> => wakeup[l]
=============================================================================
