----------------------------- MODULE EventLoop ------------------------------
(***************************************************************************)
(* The cross-thread task hand-off of EventLoop (src/mymuduo/event_loop.cpp)*)
(* on its own: loops, a thread that owns no loop and submits work or quits *)
(* loops, one I/O channel per loop whose callback queues work from the     *)
(* loop's own thread, and functors that, when run, queue more work on      *)
(* their own loop, on another loop, or quit their loop.                    *)
(***************************************************************************)
EXTENDS EventLoopCore

CONSTANTS IoCh,         \* a loop's I/O channel (e.g. a connection's socket)
          Outside,      \* a thread that owns no loop
          MaxFunctors   \* bound on the number of functors ever queued

ASSUME Outside \notin Loops /\ MaxFunctors \in Nat \ {0}

Kinds == {"Plain", "Requeue", "Cross", "Quit"}
Functors == [id : 1..MaxFunctors, kind : Kinds]

VARIABLES
  nextId,     \* id of the next functor queued
  submitted,  \* history: the functors queued on each loop, in order
  executed    \* history: the functors each loop ran, in order

vars == <<loopVars, nextId, submitted, executed>>

Init ==
  /\ LoopInit
  /\ nextId = 1
  /\ submitted = [l \in Loops |-> <<>>]
  /\ executed  = [l \in Loops |-> <<>>]

(* QueueInLoop of subs by the thread of self, recorded in the history. *)
Queue(subs, self) ==
  /\ QueueInLoop(subs, self)
  /\ submitted' = [l \in Loops |-> submitted[l] \o FunctorsFor(subs, l)]
  /\ nextId' = nextId + Len(subs)

NewFunctor(k) == [id |-> nextId, kind |-> k]

(* RunInLoop/QueueInLoop called on loop l by a thread owning no loop. *)
Submit(l, k) ==
  /\ nextId <= MaxFunctors
  /\ Queue(<<<<l, NewFunctor(k)>>>>, Outside)
  /\ UNCHANGED <<calling, batch, pos, active, lpc, quit, executed>>

(* EventLoop::Quit called from a thread owning no loop. *)
QuitFromOutside(l) ==
  /\ ~quit[l]
  /\ Quit(l, Outside)
  /\ UNCHANGED <<pending, calling, batch, pos, active, lpc, nextId, submitted, executed>>

(* epoll_wait returns the ready channels: the eventfd if written, and the  *)
(* I/O channel if its socket became ready (something the loop cannot      *)
(* control, so no fairness is assumed for it).                             *)
Poll(l, ready) ==
  /\ PollReturn(l, ready)
  /\ UNCHANGED <<pending, wakeup, calling, batch, pos, quit, nextId, submitted, executed>>

Timeout(l) ==
  /\ PollTimeout(l, {})
  /\ UNCHANGED <<pending, wakeup, calling, batch, pos, quit, nextId, submitted, executed>>

Wake(l) ==
  /\ HandleWakeup(l)
  /\ UNCHANGED <<nextId, submitted, executed>>

(* The I/O channel's callback queues a functor on its own loop from the    *)
(* loop's thread, as TcpConnection::HandleWrite does with the              *)
(* write-complete callback.                                                *)
HandleIo(l) ==
  /\ Dispatching(l, IoCh)
  /\ Dispatched(l, IoCh)
  /\ IF nextId <= MaxFunctors
       THEN Queue(<<<<l, NewFunctor("Plain")>>>>, l)
       ELSE UNCHANGED <<pending, wakeup, nextId, submitted>>
  /\ UNCHANGED <<calling, batch, pos, lpc, quit, executed>>

Drain(l) ==
  /\ BeginDrain(l)
  /\ UNCHANGED <<nextId, submitted, executed>>

(* functor() inside DoPendingFunctors, with what the functor itself does. *)
RunFunctor(l) ==
  /\ Running(l)
  /\ Ran(l)
  /\ executed' = [executed EXCEPT ![l] = Append(@, CurrentFunctor(l))]
  /\ LET k == CurrentFunctor(l).kind IN
       \/ /\ k = "Plain" \/ (k \in {"Requeue", "Cross"} /\ nextId > MaxFunctors)
          /\ UNCHANGED <<pending, wakeup, quit, nextId, submitted>>
       \/ /\ k = "Requeue" /\ nextId <= MaxFunctors
          /\ Queue(<<<<l, NewFunctor("Plain")>>>>, l)
          /\ UNCHANGED quit
       \/ /\ k = "Cross" /\ nextId <= MaxFunctors
          /\ \E m \in Loops \ {l} : Queue(<<<<m, NewFunctor("Plain")>>>>, l)
          /\ UNCHANGED quit
       \/ /\ k = "Quit"
          /\ Quit(l, l)
          /\ UNCHANGED <<pending, nextId, submitted>>
  /\ UNCHANGED <<calling, batch, active, lpc>>

Finish(l) ==
  /\ EndDrain(l)
  /\ UNCHANGED <<nextId, submitted, executed>>

Next ==
  \/ \E l \in Loops, k \in Kinds : Submit(l, k)
  \/ \E l \in Loops : QuitFromOutside(l)
  \/ \E l \in Loops, r \in {{}, {IoCh}} : Poll(l, r)
  \/ \E l \in Loops : Timeout(l)
  \/ \E l \in Loops : Wake(l)
  \/ \E l \in Loops : HandleIo(l)
  \/ \E l \in Loops : Drain(l)
  \/ \E l \in Loops : RunFunctor(l)
  \/ \E l \in Loops : Finish(l)

(* A loop thread always completes the steps of an iteration, and returns   *)
(* from epoll_wait once its eventfd is readable.  The 10 s timeout and the *)
(* I/O channel becoming ready are not assumed, so the liveness properties  *)
(* below say that work is run promptly, not just within kPollTimeMs.       *)
Fairness ==
  \A l \in Loops :
    /\ WF_vars(Poll(l, {}))
    /\ WF_vars(Wake(l))
    /\ WF_vars(HandleIo(l))
    /\ WF_vars(Drain(l))
    /\ WF_vars(RunFunctor(l))
    /\ WF_vars(Finish(l))

Spec == Init /\ [][Next]_vars /\ Fairness

-----------------------------------------------------------------------------
TypeOK ==
  /\ LoopTypeOK(Functors)
  /\ active \in [Loops -> SUBSET {WakeCh, IoCh}]
  /\ nextId \in 1..MaxFunctors + 1
  /\ submitted \in [Loops -> Seq(Functors)]
  /\ executed  \in [Loops -> Seq(Functors)]

(* The loop implements LoopQueue: what each loop still owes (the rest of   *)
(* the swapped batch, then pending_functors_) is a FIFO that only grows at *)
(* the tail, and every functor run is the head of it.  This is the         *)
(* "queue_in_loop delivers functors in submission order" law, including   *)
(* functors queued by functors while DoPendingFunctors runs.               *)
LQ == INSTANCE LoopQueue WITH queue <- [l \in Loops |-> Owed(l)], done <- executed
FifoRefinement == LQ!Spec

Ids(s) == {s[i].id : i \in DOMAIN s}

(* Every functor queued on a loop is eventually run by it, unless the loop *)
(* has left Loop() because of Quit: no wakeup is lost, whichever thread    *)
(* queued it and whatever the loop was doing at the time.                  *)
Delivery ==
  \A l \in Loops, i \in 1..MaxFunctors :
    (i \in Ids(submitted[l])) ~> (i \in Ids(executed[l]) \/ lpc[l] = "Exited")

(* A loop asked to quit, from any thread, leaves Loop() without waiting    *)
(* for the poll timeout.                                                   *)
QuitTerminates == \A l \in Loops : quit[l] ~> (lpc[l] = "Exited")
=============================================================================
