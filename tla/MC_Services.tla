----------------------------- MODULE MC_Services -----------------------------
(***************************************************************************)
(* Five components that share no state, checked in one run: the TCP       *)
(* server on its loops (TcpServer), a connection's Buffer, the MySQL       *)
(* ConnectionPool, the SGI allocator (SgiPool) and the nginx pool          *)
(* (NginxPool).  The run checks their disjoint union: Init chooses which  *)
(* component runs (part), and every step is a step of that component with *)
(* the others left at their initial state.  The states the run reaches    *)
(* for a component are exactly those it reaches alone, their number is    *)
(* the sum of the components' (not the product), and a state without a    *)
(* successor is a deadlock of the chosen component.  Each property below  *)
(* is a property of one component, and holds trivially while another     *)
(* runs, as that component then stays in its initial state.  The fairness *)
(* is TcpServer's, asked of TcpServer's steps only.                        *)
(***************************************************************************)
EXTENDS Naturals

CONSTANTS
  \* TcpServer (Loops is MCLoops below)
  Base, WakeCh, AcceptCh, Outside, MaxConns, MsgSize, MaxUserSends, UserOps, EchoModes,
  \* Buffer
  Bytes, Zero, CheapPrepend, InitialSize, ExtraSize, BufWord, MaxChunk, BufMaxSize,
  \* ConnectionPool
  InitSize, MaxSize, Clients, MaxConnIds,
  \* SgiPool
  Align, MaxBytes, NObjs, Sizes, MaxHeld, MaxFails, HeapBase, MaxHeap,
  \* NginxPool
  Alignment, SmallHdr, LargeHdr, CleanupHdr, PoolObj, MaxAlloc, DefaultPoolSize,
  RequestedSize, NgxWord, NgxSizes, CleanupSizes, MaxBlocks, MaxLarge, NgxMaxFails,
  NgxHeapBase, NgxMaxHeap

VARIABLES
  part,
  pending, wakeup, calling, batch, pos, active, lpc, quit,
  next, nextConnId, backlog, registry, conn, userRef, userSent, uShut, tpc, dsub,
  buffer, readerIndex, writerIndex, lastIn,
  queue, current, nextConn, freed, lease, cpc, ppc, spc,
  freeList, startFree, endFree, heapSize, regions, fails, held,
  alive, blocks, ngxCurrent, size, large, cleanup, ngxRegions, ngxFails, carved, ngxHeld

srvVars == <<pending, wakeup, calling, batch, pos, active, lpc, quit,
             next, nextConnId, backlog, registry, conn, userRef, userSent, uShut, tpc, dsub>>
bufVars == <<buffer, readerIndex, writerIndex, lastIn>>
cpVars  == <<queue, current, nextConn, freed, lease, cpc, ppc, spc>>
sgiVars == <<freeList, startFree, endFree, heapSize, regions, fails, held>>
ngxVars == <<alive, blocks, ngxCurrent, size, large, cleanup, ngxRegions, ngxFails, carved, ngxHeld>>
vars == <<part, srvVars, bufVars, cpVars, sgiVars, ngxVars>>

(* The base loop and one sub-loop. *)
MCLoops == 0..1

Srv == INSTANCE TcpServer WITH Loops <- MCLoops
Buf == INSTANCE Buffer WITH Word <- BufWord, MaxSize <- BufMaxSize
Cp  == INSTANCE ConnectionPool
Sgi == INSTANCE SgiPool
Ngx == INSTANCE NginxPool
  WITH current <- ngxCurrent, regions <- ngxRegions, fails <- ngxFails, held <- ngxHeld,
       Word <- NgxWord, Sizes <- NgxSizes, MaxFails <- NgxMaxFails,
       HeapBase <- NgxHeapBase, MaxHeap <- NgxMaxHeap

Parts == {"TcpServer", "Buffer", "ConnectionPool", "SgiPool", "NginxPool"}

Init ==
  /\ part \in Parts
  /\ Srv!Init /\ Buf!Init /\ Cp!Init /\ Sgi!Init /\ Ngx!Init

(* A step of one component, the others unchanged. *)
SrvStep(A) == part = "TcpServer" /\ A /\ UNCHANGED <<part, bufVars, cpVars, sgiVars, ngxVars>>
BufStep(A) == part = "Buffer" /\ A /\ UNCHANGED <<part, srvVars, cpVars, sgiVars, ngxVars>>
CpStep(A)  == part = "ConnectionPool" /\ A /\ UNCHANGED <<part, srvVars, bufVars, sgiVars, ngxVars>>
SgiStep(A) == part = "SgiPool" /\ A /\ UNCHANGED <<part, srvVars, bufVars, cpVars, ngxVars>>
NgxStep(A) == part = "NginxPool" /\ A /\ UNCHANGED <<part, srvVars, bufVars, cpVars, sgiVars>>

Next ==
  \/ SrvStep(Srv!Next)
  \/ BufStep(Buf!Next)
  \/ CpStep(Cp!Next)
  \/ SgiStep(Sgi!Next)
  \/ NgxStep(Ngx!Next)

(* TcpServer!Fairness, for TcpServer's steps: every loop thread keeps      *)
(* running, a Shutdown() the application started completes, and so does   *)
(* the main thread's teardown once the server is stopped.                  *)
Fairness ==
  /\ \A l \in MCLoops : WF_vars(SrvStep(Srv!LoopStep(l)))
  /\ WF_vars(SrvStep(Srv!UserShutdownAct))
  /\ WF_vars(SrvStep(Srv!TeardownStep))

Spec == Init /\ [][Next]_vars /\ Fairness

-----------------------------------------------------------------------------
(* The type invariants of the five modules. *)
TypeOK ==
  /\ part \in Parts
  /\ Srv!TypeOK /\ Buf!TypeOK /\ Cp!TypeOK /\ Sgi!TypeOK /\ Ngx!TypeOK

(* TcpServer!DownAtMostOnce: ConnectDestroyed reports a connection down at *)
(* most once, however the peer's close and the application's Shutdown     *)
(* interleave across the loops.                                            *)
DownAtMostOnce == Srv!DownAtMostOnce

(* TcpServer!ChannelRemovedBeforeDestroy: a TcpConnection is released only *)
(* when no strong reference remains, and only after its channel left the  *)
(* poller's channels_.                                                     *)
ChannelRemovedBeforeDestroy == Srv!ChannelRemovedBeforeDestroy

(* TcpServer!CloseCompletes: a connection whose peer closes leaves         *)
(* connections_, its channel leaves the poller, and it is reported down.   *)
CloseCompletes == Srv!CloseCompletes

(* TcpServer!TeardownCompletes: once the base loop is told to quit, the    *)
(* server's destructor, the pool's Quit/Join of every sub-loop and the     *)
(* Acceptor's destructor all complete.                                     *)
TeardownCompletes == part = "TcpServer" => Srv!TeardownCompletes

(* Buffer!IndexOrder: kCheapPrepend <= reader_index_ <= writer_index_ <=   *)
(* size() after any sequence of appends, reads, writes and retrieves.     *)
IndexOrder == Buf!IndexOrder

(* Buffer!BufferIsQueue: the readable bytes behave as a byte queue, across *)
(* ReadFd's extra_buf spill and MakeSpace's move or growth.               *)
BufferIsQueue == Buf!BufferIsQueue

(* ConnectionPool!ConnectionAccounting: each live connection is queued or  *)
(* leased, never both nor twice, and current_connection_size_ counts them. *)
ConnectionAccounting == Cp!ConnectionAccounting

(* SgiPool!NoOverlap: the client's blocks, the free nodes and the chunk    *)
(* never overlap and lie in live malloc'd memory.                          *)
NoOverlap == Sgi!NoOverlap

(* SgiPool!NoLeak: every byte the allocator malloc'd is in a client block, *)
(* a free node or the chunk.                                                *)
NoLeak == Sgi!NoLeak

(* NginxPool!LargeAccounting: every live malloc'd region is a small block  *)
(* or a large allocation listed once in large_, across LargeFree, reuse of *)
(* a freed node, a failed header allocation, Reset and the destructor.    *)
LargeAccounting == Ngx!LargeAccounting
=============================================================================
