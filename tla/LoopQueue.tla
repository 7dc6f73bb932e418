----------------------------- MODULE LoopQueue ------------------------------
(***************************************************************************)
(* What EventLoop promises to the code that calls RunInLoop/QueueInLoop:   *)
(* each loop owes a FIFO of functors; work is only ever added at the tail, *)
(* and the only functor a loop may run is the head of its own queue.       *)
(* Running a functor may itself add work to any queue.                     *)
(***************************************************************************)
EXTENDS Sequences, SequencesExt

CONSTANT Loops

VARIABLES queue,  \* the functors each loop owes, oldest first
          done    \* the functors each loop has run, in order

Init ==
  /\ queue = [l \in Loops |-> <<>>]
  /\ done  = [l \in Loops |-> <<>>]

Grows(l) == IsPrefix(queue[l], queue'[l])

(* Some threads append work to some loops. *)
Submit ==
  /\ \A l \in Loops : Grows(l)
  /\ UNCHANGED done

(* Loop l runs the head of its queue; the functor may append work. *)
Execute(l) ==
  /\ queue[l] # <<>>
  /\ done' = [done EXCEPT ![l] = Append(@, Head(queue[l]))]
  /\ IsPrefix(Tail(queue[l]), queue'[l])
  /\ \A m \in Loops \ {l} : Grows(m)

Next == Submit \/ \E l \in Loops : Execute(l)

Spec == Init /\ [][Next]_<<queue, done>>
=============================================================================
