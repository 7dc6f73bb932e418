--------------------------- MODULE ConnectionPool ---------------------------
(***************************************************************************)
(* The MySQL connection pool of src/connection_pool/connection_pool.cpp:   *)
(* the producer thread (ProduceConnectionTask), the idle-connection        *)
(* scanner (CheckIdleConnectionTask), and client threads that lease a      *)
(* connection with GetConnection and give it back through the shared_ptr  *)
(* deleter.  Every critical section of queue_mutex_ is one step; a thread  *)
(* waiting on cond_ releases the mutex and, once notified or timed out,    *)
(* takes a step of its own to reacquire it.  Elapsed time is not          *)
(* modelled: whether a wait_for times out, and whether the connection at  *)
(* the head of the queue has idled past max_idle_time_, are choices.       *)
(***************************************************************************)
EXTENDS Naturals, Sequences, FiniteSets

CONSTANTS
  InitSize,   \* init_size_
  MaxSize,    \* max_size_
  Clients,    \* threads calling GetConnection
  MaxConnIds  \* bound on the connections ever created

ASSUME InitSize \in 1..MaxSize /\ MaxSize <= MaxConnIds

ConnIds == 1..MaxConnIds

VARIABLES
  queue,      \* connection_queue_, by connection id (head first)
  current,    \* current_connection_size_
  nextConn,   \* the id of the next Connection created
  freed,      \* connections the scanner deleted
  lease,      \* the connection a client holds (0: none)
  cpc,        \* where each client is
  ppc,        \* where the producer is
  spc         \* where the scanner is

vars == <<queue, current, nextConn, freed, lease, cpc, ppc, spc>>

(* Client: "Idle" not in GetConnection; "Check" at the                     *)
(* `while (connection_queue_.empty())` test with the mutex; "Wait" in      *)
(* wait_for; "Woken" notified and "Expired" timed out, reacquiring the     *)
(* mutex; "Hold" holding the leased connection.                            *)
ClientPcs == {"Idle", "Check", "Wait", "Woken", "Expired", "Hold"}

(* The constructor: InitSize connections queued, then both threads start. *)
Init ==
  /\ queue = [i \in 1..InitSize |-> i]
  /\ current = InitSize
  /\ nextConn = InitSize + 1
  /\ freed = {}
  /\ lease = [c \in Clients |-> 0]
  /\ cpc = [c \in Clients |-> "Idle"]
  /\ ppc = "Check"
  /\ spc = "Sleep"

-----------------------------------------------------------------------------
(* ProduceConnectionTask: cond_.wait(lock, queue empty), then create one   *)
(* connection if below max_size_, and notify_all.                          *)

ProducerWait ==
  /\ ppc \in {"Check", "Woken"}
  /\ queue # <<>>
  /\ ppc' = "Wait"
  /\ UNCHANGED <<queue, current, nextConn, freed, lease, cpc, spc>>

ProduceNoMax ==
  /\ ppc \in {"Check", "Woken"}
  /\ queue = <<>>
  /\ nextConn <= MaxConnIds
  /\ queue' = <<nextConn>>
  /\ current' = current + 1
  /\ nextConn' = nextConn + 1
  /\ cpc' = [c \in Clients |-> IF cpc[c] = "Wait" THEN "Woken" ELSE cpc[c]]
  /\ ppc' = "Check"
  /\ UNCHANGED <<freed, lease, spc>>

Produce ==
  /\ ppc \in {"Check", "Woken"}
  /\ queue = <<>>
  /\ IF current < MaxSize
       THEN /\ nextConn <= MaxConnIds
            /\ queue' = <<nextConn>>
            /\ current' = current + 1
            /\ nextConn' = nextConn + 1
       ELSE UNCHANGED <<queue, current, nextConn>>
  /\ cpc' = [c \in Clients |-> IF cpc[c] = "Wait" THEN "Woken" ELSE cpc[c]]
  /\ ppc' = "Check"
  /\ UNCHANGED <<freed, lease, spc>>

-----------------------------------------------------------------------------
(* GetConnection and the deleter of the shared_ptr it returns.             *)

CallGet(c) ==
  /\ cpc[c] = "Idle"
  /\ cpc' = [cpc EXCEPT ![c] = "Check"]
  /\ UNCHANGED <<queue, current, nextConn, freed, lease, ppc, spc>>

(* The queue is empty: wait_for(connection_timeout_). *)
GetWait(c) ==
  /\ cpc[c] \in {"Check", "Woken"}
  /\ queue = <<>>
  /\ cpc' = [cpc EXCEPT ![c] = "Wait"]
  /\ UNCHANGED <<queue, current, nextConn, freed, lease, ppc, spc>>

GetTimeout(c) ==
  /\ cpc[c] = "Wait"
  /\ cpc' = [cpc EXCEPT ![c] = "Expired"]
  /\ UNCHANGED <<queue, current, nextConn, freed, lease, ppc, spc>>

(* Timed out with the queue still empty: return nullptr. *)
GetFail(c) ==
  /\ cpc[c] = "Expired"
  /\ queue = <<>>
  /\ cpc' = [cpc EXCEPT ![c] = "Idle"]
  /\ UNCHANGED <<queue, current, nextConn, freed, lease, ppc, spc>>

(* The queue is not empty: lease its head, pop, notify_all. *)
GetTake(c) ==
  /\ cpc[c] \in {"Check", "Woken", "Expired"}
  /\ queue # <<>>
  /\ lease' = [lease EXCEPT ![c] = Head(queue)]
  /\ queue' = Tail(queue)
  /\ cpc' = [d \in Clients |-> IF d = c THEN "Hold"
                               ELSE IF cpc[d] = "Wait" THEN "Woken" ELSE cpc[d]]
  /\ ppc' = IF ppc = "Wait" THEN "Woken" ELSE ppc
  /\ UNCHANGED <<current, nextConn, freed, spc>>

ReleaseDropped(c) ==
  /\ cpc[c] = "Hold"
  /\ lease' = [lease EXCEPT ![c] = 0]
  /\ cpc' = [cpc EXCEPT ![c] = "Idle"]
  /\ UNCHANGED <<queue, current, nextConn, freed, ppc, spc>>

(* The last shared_ptr goes: the deleter queues the connection again (no   *)
(* notify).                                                                *)
Release(c) ==
  /\ cpc[c] = "Hold"
  /\ queue' = Append(queue, lease[c])
  /\ lease' = [lease EXCEPT ![c] = 0]
  /\ cpc' = [cpc EXCEPT ![c] = "Idle"]
  /\ UNCHANGED <<current, nextConn, freed, ppc, spc>>

-----------------------------------------------------------------------------
(* CheckIdleConnectionTask: sleep max_idle_time_, then with the mutex pop  *)
(* and delete timed-out connections from the head while there are more     *)
(* than init_size_.  k is how many head connections have idled too long;  *)
(* the loop stops at the first one that has not, or at init_size_.  If it  *)
(* runs out of queued connections first, front() is called on an empty    *)
(* std::queue ("Fault").                                                   *)

ScanNoCount ==
  /\ spc = "Sleep"
  /\ \E k \in 0..Len(queue) :
       LET surplus == IF current > InitSize THEN current - InitSize ELSE 0
           n == IF surplus < k THEN surplus ELSE k
       IN  /\ queue' = SubSeq(queue, n + 1, Len(queue))
           /\ freed' = freed \cup {queue[i] : i \in 1..n}
           /\ spc' = IF n = Len(queue) /\ n < surplus THEN "Fault" ELSE "Sleep"
  /\ UNCHANGED <<current, nextConn, lease, cpc, ppc>>

Scan ==
  /\ spc = "Sleep"
  /\ \E k \in 0..Len(queue) :
       LET surplus == IF current > InitSize THEN current - InitSize ELSE 0
           n == IF surplus < k THEN surplus ELSE k
       IN  /\ queue' = SubSeq(queue, n + 1, Len(queue))
           /\ current' = current - n
           /\ freed' = freed \cup {queue[i] : i \in 1..n}
           /\ spc' = IF n = Len(queue) /\ n < surplus THEN "Fault" ELSE "Sleep"
  /\ UNCHANGED <<nextConn, lease, cpc, ppc>>

Next ==
  \/ ProducerWait \/ Produce
  \/ \E c \in Clients :
       CallGet(c) \/ GetWait(c) \/ GetTimeout(c) \/ GetFail(c) \/ GetTake(c) \/ Release(c)
  \/ Scan

Spec == Init /\ [][Next]_vars

-----------------------------------------------------------------------------
TypeOK ==
  /\ queue \in Seq(ConnIds)
  /\ current \in 0..MaxSize
  /\ nextConn \in 1..MaxConnIds + 1
  /\ freed \subseteq ConnIds
  /\ lease \in [Clients -> 0..MaxConnIds]
  /\ cpc \in [Clients -> ClientPcs]
  /\ ppc \in {"Check", "Wait", "Woken"}
  /\ spc \in {"Sleep", "Fault"}

Leased == {lease[c] : c \in Clients} \ {0}
Queued == {queue[i] : i \in DOMAIN queue}

(* Every connection created and not deleted is in exactly one place,       *)
(* idle in connection_queue_ or leased to one client, and                  *)
(* current_connection_size_ counts them: the producer, the scanner, the    *)
(* clients and the deleter never lose, duplicate or leak one.             *)
ConnectionAccounting ==
  /\ Queued \cap Leased = {}
  /\ \A i, j \in DOMAIN queue : i # j => queue[i] # queue[j]
  /\ \A c, d \in Clients : c # d /\ lease[c] # 0 => lease[c] # lease[d]
  /\ Queued \cup Leased = (1..nextConn - 1) \ freed
  /\ current = Len(queue) + Cardinality(Leased)

(* The scanner only looks at the head of a non-empty connection_queue_.   *)
NoFrontOfEmptyQueue == spc # "Fault"
=============================================================================
