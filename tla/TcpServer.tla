----------------------------- MODULE TcpServer ------------------------------
(***************************************************************************)
(* The multi-reactor TCP server of src/mymuduo: TcpServer and its Acceptor *)
(* on the base loop, EventLoopThreadPool's round robin, and per connection *)
(* a TcpConnection, its Channel and its registration in the EpollPoller of *)
(* its sub-loop.  The loops are those of EventLoopCore; the peers (TCP     *)
(* clients and the kernel), the application callbacks of the echo example  *)
(* (src/mymuduo/example/testserver.cc) and one application thread that     *)
(* owns no loop and calls Send/Shutdown on connections it has kept are the *)
(* environment.                                                            *)
(*                                                                         *)
(* A connection's state is one record, so that a handler is a function of  *)
(* the record and the calls a handler makes inline (HandleRead -> message  *)
(* callback -> Send -> SendInLoop -> Shutdown -> ShutdownInLoop) compose.  *)
(* Each loop step runs one channel callback or one functor; the only state *)
(* that another thread touches in between is the pending queues, the      *)
(* eventfd, state_ (read and written by Send/Shutdown) and the kernel.     *)
(***************************************************************************)
EXTENDS EventLoopCore, FiniteSets, Functions

LOCAL Seqs == INSTANCE SequencesExt

CONSTANTS
  Base,        \* the base loop: TcpServer::loop_, running the Acceptor
  AcceptCh,    \* the Acceptor's channel (listening socket)
  Outside,     \* the application thread that owns no loop
  MaxConns,    \* bound on the number of clients that ever connect
  MsgSize,     \* bytes of the one message each client sends
  MaxUserSends,\* bound on Send calls per connection from Outside
  UserOps,     \* what Outside calls on a kept connection: SUBSET {"Send", "Shutdown"}
  EchoModes    \* what onMessage does after echoing: SUBSET {"Echo", "EchoShutdown"}

NumThreads == Cardinality(Loops) - 1
Subs == Loops \ {Base}

ASSUME /\ Base = 0 /\ Loops = 0..NumThreads /\ NumThreads >= 1
       /\ Outside \notin Loops
       /\ UserOps \subseteq {"Send", "Shutdown"} /\ EchoModes # {}

Conns == 1..MaxConns
States == {"None", "Connecting", "Connected", "Disconnecting", "Disconnected"}

VARIABLES
  next,        \* EventLoopThreadPool::next_
  nextConnId,  \* TcpServer::next_conn_id_ (connections are named by it)
  backlog,     \* connections the kernel completed and accept4 has not taken
  registry,    \* TcpServer::connections_, by connection id
  conn,        \* per connection: TcpConnection, its Channel, and its socket
  userRef,     \* Outside holds a TcpConnectionPtr to the connection
  userSent,    \* Send calls Outside has made on the connection
  uShut,       \* connection whose Shutdown() Outside is inside, 0 if none
  tpc,         \* where the main thread is in stopping the server (TeardownPcs)
  dsub         \* the sub-loop whose EventLoopThread the pool's destructor is at

srvVars == <<next, nextConnId, backlog, registry, conn, userRef, userSent, uShut, tpc, dsub>>
vars == <<loopVars, srvVars>>

(***************************************************************************)
(* The record of a connection: state_ (st), the Channel's events_ (ev) and *)
(* index_ (idx), whether the Poller's channels_ map holds its fd (mapped), *)
(* output_buffer_'s readable bytes (out), whether shutdown(SHUT_WR) was    *)
(* called (shut), loop_, the number of connection-callback calls that     *)
(* reported it up and down, and the                                        *)
(* socket's receive side: unread bytes (inQ), the peer's FIN (fin), and    *)
(* whether the peer has sent its message (said).                          *)
(***************************************************************************)
NoConn == [st |-> "None", ev |-> {}, idx |-> "New", mapped |-> FALSE, out |-> 0,
           shut |-> FALSE, loop |-> Base, up |-> 0, down |-> 0,
           inQ |-> 0, fin |-> FALSE, said |-> FALSE]

(* A functor queued on a loop; ref says whether it holds a TcpConnectionPtr *)
(* (shared_from_this() or a bound conn) or a raw TcpConnection*.           *)
Fn(op, c, n, ref) == [op |-> op, conn |-> c, n |-> n, ref |-> ref]

-----------------------------------------------------------------------------
(* Channel and EpollPoller (channel.h, channel.cpp, Epoll_poller.cpp).     *)

(* EpollPoller::UpdateChannel, reached through Channel::Update. *)
UpdateChannel(r) ==
  IF r.idx \in {"New", "Deleted"}
    THEN [r EXCEPT !.mapped = @ \/ r.idx = "New", !.idx = "Added"]
    ELSE IF r.ev = {} THEN [r EXCEPT !.idx = "Deleted"]
                      ELSE r

(* EpollPoller::RemoveChannel, reached through Channel::Remove. *)
RemoveChannel(r) == [r EXCEPT !.mapped = FALSE, !.idx = "New"]

EnableReading(r)  == UpdateChannel([r EXCEPT !.ev = @ \cup {"R"}])
EnableWriting(r)  == UpdateChannel([r EXCEPT !.ev = @ \cup {"W"}])
DisableWriting(r) == UpdateChannel([r EXCEPT !.ev = @ \ {"W"}])
DisableAll(r)     == UpdateChannel([r EXCEPT !.ev = {}])

(* Channel::IsWriteEvent compares the whole interest set with kWriteEvent. *)
IsWriteEvent(r) == r.ev = {"W"}

(* What epoll_wait reports for a registered connection (level-triggered):  *)
(* EPOLLIN while bytes or the peer's FIN are unread, EPOLLOUT while        *)
(* writing is watched (reported only when the send buffer has room).       *)
(* EPOLLHUP comes only with EPOLLIN here (both sides shut), so             *)
(* HandleEventWithGuard's close branch (HUP without IN) is never taken.   *)
Revents(r) ==
  IF r.idx # "Added" THEN {}
  ELSE (IF "R" \in r.ev /\ (r.inQ > 0 \/ r.fin) THEN {"IN"} ELSE {})
       \cup (IF "W" \in r.ev THEN {"OUT"} ELSE {})

-----------------------------------------------------------------------------
(* TcpConnection (tcp_connection.cpp) as functions of the record.          *)

(* SendInLoop(data, n) when the kernel would take k bytes of a direct      *)
(* write.  A write after shutdown(SHUT_WR) fails with EPIPE; since the     *)
(* EPIPE/ECONNRESET test is nested inside `errno == EWOULDBLOCK`,          *)
(* fault_error is never set and the data is buffered either way.  No high  *)
(* water mark or write-complete callback is installed by TcpServer's       *)
(* users here.                                                             *)
SendInLoop(r, n, k) ==
  IF r.st = "Disconnected" THEN r
  ELSE LET wrote == IF ~IsWriteEvent(r) /\ r.out = 0 /\ ~r.shut THEN k ELSE 0
           r1    == [r EXCEPT !.out = @ + (n - wrote)]
       IN  IF n - wrote > 0 /\ ~IsWriteEvent(r1) THEN EnableWriting(r1) ELSE r1

(* ShutdownInLoop: half-close unless still watching for writability. *)
ShutdownInLoop(r) == IF ~IsWriteEvent(r) THEN [r EXCEPT !.shut = TRUE] ELSE r

(* Send and Shutdown called on the connection's own loop thread. *)
SendOnLoop(r, n, k) == IF r.st = "Connected" THEN SendInLoop(r, n, k) ELSE r

ShutdownOnLoop(r) ==
  IF r.st = "Connected" THEN ShutdownInLoop([r EXCEPT !.st = "Disconnecting"]) ELSE r

(* ConnectEstablished: Connected, Tie, EnableReading, connection callback. *)
ConnectEstablished(r) == [EnableReading([r EXCEPT !.st = "Connected"]) EXCEPT !.up = @ + 1]

(* HandleClose up to the close callback: Disconnected, DisableAll, and the *)
(* connection callback reporting the connection down.                      *)
HandleClose(r) == [DisableAll([r EXCEPT !.st = "Disconnected"]) EXCEPT !.down = @ + 1]

ConnectDestroyedNoCheck(r) == RemoveChannel(HandleClose(r))

(* ConnectDestroyed: report down if still Connected, then Channel::Remove. *)
ConnectDestroyed(r) ==
  RemoveChannel(IF r.st = "Connected" THEN HandleClose(r) ELSE r)

(* HandleWrite when write() takes k > 0 bytes (EPOLLOUT means room).  *)
HandleWrite(r, k) ==
  IF ~IsWriteEvent(r) \/ r.shut THEN r
  ELSE LET r1 == [r EXCEPT !.out = @ - k]
       IN  IF r1.out > 0 THEN r1
           ELSE LET r2 == DisableWriting(r1)
                IN  IF r2.st = "Disconnecting" THEN ShutdownInLoop(r2) ELSE r2

(* The echo server's onMessage: RetrieveAsString, Send(msg), and in mode   *)
(* "EchoShutdown" also Shutdown().                                         *)
OnMessage(r, n, k, mode) ==
  LET r1 == SendOnLoop(r, n, k)
  IN  IF mode = "EchoShutdown" THEN ShutdownOnLoop(r1) ELSE r1

-----------------------------------------------------------------------------
(* Steps of the base loop.                                                 *)

(* EventLoopThreadPool::GetNextLoop: loops_[next_], then advance next_. *)
GetNextLoop == next + 1
AdvanceNextPastEnd == IF next + 1 > NumThreads THEN 0 ELSE next + 1
AdvanceNext == IF next + 1 >= NumThreads THEN 0 ELSE next + 1

(* TcpServer::NewConnection for accepted connection c: pick the next       *)
(* sub-loop, create the TcpConnection, record it in connections_ and have  *)
(* the sub-loop run ConnectEstablished (always queued: the base loop is    *)
(* never a sub-loop).                                                      *)
NewConnection(c) ==
  LET io == GetNextLoop IN
  /\ next' = AdvanceNext
  /\ nextConnId' = nextConnId + 1
  /\ registry' = registry \cup {c}
  /\ conn' = [conn EXCEPT ![c] = [@ EXCEPT !.st = "Connecting", !.loop = io]]
  /\ QueueInLoop(<<<<io, Fn("ConnectEstablished", c, 0, TRUE)>>>>, Base)

(* Acceptor::HandleRead: accept4 takes one connection from the backlog    *)
(* and hands it to the new-connection callback.                            *)
HandleAccept ==
  /\ Dispatching(Base, AcceptCh)
  /\ Dispatched(Base, AcceptCh)
  /\ backlog > 0
  /\ backlog' = backlog - 1
  /\ NewConnection(nextConnId)
  /\ UNCHANGED <<calling, batch, pos, lpc, quit, userRef, userSent, uShut, tpc, dsub>>

(* TcpServer::RemoveConnectionInLoop: erase from connections_, then queue  *)
(* ConnectDestroyed (holding the connection) on its loop.                  *)
RemoveConnectionInLoopRaw(c) ==
  /\ registry' = registry \ {c}
  /\ QueueInLoop(<<<<conn[c].loop, Fn("ConnectDestroyed", c, 0, FALSE)>>>>, Base)

RemoveConnectionInLoop(c) ==
  /\ registry' = registry \ {c}
  /\ QueueInLoop(<<<<conn[c].loop, Fn("ConnectDestroyed", c, 0, TRUE)>>>>, Base)

-----------------------------------------------------------------------------
(* Steps of a sub-loop: the read and write callbacks of a connection's     *)
(* channel (close > error > read > write: the read part of an event runs   *)
(* before its write part) and the connection functors.                     *)

SetConn(c, r) == conn' = [conn EXCEPT ![c] = r]

(* HandleRead with bytes available: ReadFd, then the message callback. *)
HandleReadData(l, c) ==
  /\ Dispatching(l, <<c, "IN">>)
  /\ Dispatched(l, <<c, "IN">>)
  /\ conn[c].inQ > 0
  /\ \E k \in 0..conn[c].inQ, mode \in EchoModes :
       SetConn(c, OnMessage([conn[c] EXCEPT !.inQ = 0], conn[c].inQ, k, mode))
  /\ UNCHANGED <<pending, wakeup, calling, batch, pos, lpc, quit>>
  /\ UNCHANGED <<next, nextConnId, backlog, registry, userRef, userSent, uShut, tpc, dsub>>

HandleCloseNoServerCallback(l, c) ==
  /\ SetConn(c, HandleClose(conn[c]))
  /\ UNCHANGED <<pending, wakeup>>

(* HandleRead when read() returns 0: HandleClose, whose close callback is  *)
(* TcpServer::RemoveConnection: RunInLoop(RemoveConnectionInLoop) on the   *)
(* base loop, from the sub-loop's thread.                                  *)
HandleCloseStep(l, c) ==
  /\ SetConn(c, HandleClose(conn[c]))
  /\ QueueInLoop(<<<<Base, Fn("RemoveConnectionInLoop", c, 0, TRUE)>>>>, l)

HandleReadEof(l, c) ==
  /\ Dispatching(l, <<c, "IN">>)
  /\ Dispatched(l, <<c, "IN">>)
  /\ conn[c].inQ = 0 /\ conn[c].fin
  /\ HandleCloseStep(l, c)
  /\ UNCHANGED <<calling, batch, pos, lpc, quit>>
  /\ UNCHANGED <<next, nextConnId, backlog, registry, userRef, userSent, uShut, tpc, dsub>>

HandleWriteStep(l, c) ==
  /\ Dispatching(l, <<c, "OUT">>)
  /\ <<c, "IN">> \notin active[l]
  /\ Dispatched(l, <<c, "OUT">>)
  /\ \E k \in 1..MsgSize * (1 + MaxUserSends) :
       /\ k <= conn[c].out \/ ~IsWriteEvent(conn[c])
       /\ SetConn(c, HandleWrite(conn[c], k))
  /\ UNCHANGED <<pending, wakeup, calling, batch, pos, lpc, quit>>
  /\ UNCHANGED <<next, nextConnId, backlog, registry, userRef, userSent, uShut, tpc, dsub>>

-----------------------------------------------------------------------------
(* DoPendingFunctors running one connection functor.                       *)

RunFunctor(l) ==
  /\ Running(l)
  /\ Ran(l)
  /\ LET f == CurrentFunctor(l)
         c == f.conn
     IN
     \/ /\ f.op = "RemoveConnectionInLoop"
        /\ RemoveConnectionInLoop(c)
        /\ UNCHANGED <<conn, userRef>>
     \/ /\ f.op = "ConnectEstablished"
        /\ SetConn(c, ConnectEstablished(conn[c]))
        \* the application's connection callback keeps the connection for
        \* its own thread when that thread is to use it
        /\ userRef' = [userRef EXCEPT ![c] = UserOps # {}]
        /\ UNCHANGED <<pending, wakeup, registry>>
     \/ /\ f.op = "ConnectDestroyed"
        /\ SetConn(c, ConnectDestroyed(conn[c]))
        /\ UNCHANGED <<pending, wakeup, registry, userRef>>
     \/ /\ f.op = "SendInLoop"
        /\ \E k \in 0..f.n : SetConn(c, SendInLoop(conn[c], f.n, k))
        /\ UNCHANGED <<pending, wakeup, registry, userRef>>
     \/ /\ f.op = "ShutdownInLoop"
        /\ SetConn(c, ShutdownInLoop(conn[c]))
        /\ UNCHANGED <<pending, wakeup, registry, userRef>>
  /\ UNCHANGED <<calling, batch, active, lpc, quit>>
  /\ UNCHANGED <<next, nextConnId, backlog, userSent, uShut, tpc, dsub>>

(* The channels epoll_wait reports ready on loop l. *)
ReadyChannels(l) ==
  (IF l = Base /\ backlog > 0 THEN {AcceptCh} ELSE {})
  \cup UNION {{<<c, e>> : e \in Revents(conn[c])} : c \in {d \in Conns : conn[d].loop = l}}

Poll(l) ==
  /\ PollReturn(l, ReadyChannels(l))
  /\ UNCHANGED <<pending, wakeup, calling, batch, pos, quit>>
  /\ UNCHANGED srvVars

Timeout(l) ==
  /\ PollTimeout(l, ReadyChannels(l))
  /\ UNCHANGED <<pending, wakeup, calling, batch, pos, quit>>
  /\ UNCHANGED srvVars

Wake(l)   == HandleWakeup(l) /\ UNCHANGED srvVars
Drain(l)  == BeginDrain(l) /\ UNCHANGED srvVars
Finish(l) == EndDrain(l) /\ UNCHANGED srvVars

-----------------------------------------------------------------------------
(* The environment: clients and the kernel.                                *)

(* A client connects; the kernel completes the handshake into the backlog. *)
PeerConnect ==
  /\ tpc # "Done"
  /\ nextConnId - 1 + backlog < MaxConns
  /\ backlog' = backlog + 1
  /\ UNCHANGED <<loopVars, next, nextConnId, registry, conn, userRef, userSent, uShut, tpc, dsub>>

(* The client of an accepted connection sends its message. *)
PeerSend(c) ==
  /\ c < nextConnId
  /\ ~conn[c].said /\ ~conn[c].fin
  /\ SetConn(c, [conn[c] EXCEPT !.inQ = @ + MsgSize, !.said = TRUE])
  /\ UNCHANGED <<loopVars, next, nextConnId, backlog, registry, userRef, userSent, uShut, tpc, dsub>>

(* The client closes its side (FIN). *)
PeerClose(c) ==
  /\ c < nextConnId
  /\ ~conn[c].fin
  /\ SetConn(c, [conn[c] EXCEPT !.fin = TRUE])
  /\ UNCHANGED <<loopVars, next, nextConnId, backlog, registry, userRef, userSent, uShut, tpc, dsub>>

-----------------------------------------------------------------------------
(* The application thread Outside, on connections it kept.                 *)

(* TcpConnection::Send from a thread that is not the loop's: if Connected, *)
(* RunInLoop(SendInLoop) queues it on the connection's loop.               *)
UserSend(c) ==
  /\ "Send" \in UserOps
  /\ tpc = "Serving"
  /\ userRef[c] /\ uShut = 0
  /\ userSent[c] < MaxUserSends
  /\ userSent' = [userSent EXCEPT ![c] = @ + 1]
  /\ IF conn[c].st = "Connected"
       THEN QueueInLoop(<<<<conn[c].loop, Fn("SendInLoop", c, MsgSize, TRUE)>>>>, Outside)
       ELSE UNCHANGED <<pending, wakeup>>
  /\ UNCHANGED <<calling, batch, pos, active, lpc, quit>>
  /\ UNCHANGED <<next, nextConnId, backlog, registry, conn, userRef, uShut, tpc, dsub>>

(* TcpConnection::Shutdown from Outside: the `state_ == kConnected` test... *)
UserShutdownCheck(c) ==
  /\ "Shutdown" \in UserOps
  /\ tpc = "Serving"
  /\ userRef[c] /\ uShut = 0
  /\ conn[c].st = "Connected"
  /\ uShut' = c
  /\ UNCHANGED <<loopVars, next, nextConnId, backlog, registry, conn, userRef, userSent, tpc, dsub>>

(* ...then SetState(kDisconnecting) and RunInLoop(ShutdownInLoop, this). *)
UserShutdownAct ==
  LET c == uShut IN
  /\ c # 0
  /\ SetConn(c, [conn[c] EXCEPT !.st = "Disconnecting"])
  /\ QueueInLoop(<<<<conn[c].loop, Fn("ShutdownInLoop", c, 0, FALSE)>>>>, Outside)
  /\ uShut' = 0
  /\ UNCHANGED <<calling, batch, pos, active, lpc, quit>>
  /\ UNCHANGED <<next, nextConnId, backlog, registry, userRef, userSent, tpc, dsub>>

(* Outside drops its TcpConnectionPtr (between calls). *)
UserRelease(c) ==
  /\ userRef[c] /\ uShut # c
  /\ userRef' = [userRef EXCEPT ![c] = FALSE]
  /\ UNCHANGED <<loopVars, next, nextConnId, backlog, registry, conn, userSent, uShut, tpc, dsub>>

-----------------------------------------------------------------------------
(* Stopping the server.  The application's main thread runs the base loop; *)
(* another thread ends it with EventLoop::Quit, loop() returns, and the    *)
(* TcpServer goes out of scope: ~TcpServer queues ConnectDestroyed for     *)
(* every connection, then its members are destroyed in reverse order of    *)
(* declaration: thread_pool_ (each EventLoopThread, in order, quits its    *)
(* loop and joins its thread, whose stack EventLoop then dies with its     *)
(* pending functors) before acceptor_ (which closes the listening socket). *)
(*   "Serving"        the base loop runs                                   *)
(*   "Stopping"       Quit was called on the base loop                     *)
(*   "Quit"           ~EventLoopThread of sub-loop dsub is to call Quit    *)
(*   "Join"           ... and is in thread_.Join()                         *)
(*   "Closing"        ~Acceptor is next                                    *)
(*   "Done"           the server is gone                                   *)
TeardownPcs == {"Serving", "Stopping", "Quit", "Join", "Closing", "Done"}

(* The main thread's step after the pool has finished with sub-loop i. *)
AfterSub(i) == IF i < NumThreads THEN "Quit" ELSE "Closing"

(* The sub-loop i's EventLoop has been destroyed. *)
LoopGone(i) ==
  \/ tpc \in {"Closing", "Done"}
  \/ tpc \in {"Quit", "Join"} /\ i < dsub

(* The application thread calls Quit on the base loop, between its calls  *)
(* on connections; it makes no more Send or Shutdown calls afterwards.     *)
StopServer ==
  /\ tpc = "Serving" /\ uShut = 0
  /\ Quit(Base, Outside)
  /\ tpc' = "Stopping"
  /\ UNCHANGED <<pending, calling, batch, pos, active, lpc>>
  /\ UNCHANGED <<next, nextConnId, backlog, registry, conn, userRef, userSent, uShut, dsub>>

(* ~TcpServer, once loop() returned: reset every connections_ entry and    *)
(* RunInLoop(ConnectDestroyed, conn) on the connection's loop, in the      *)
(* map's key order, from the base loop's thread.                           *)
ServerDtor ==
  /\ tpc = "Stopping" /\ lpc[Base] = "Exited"
  /\ LET cs == Seqs!SetToSortSeq(registry, <)
     IN  QueueInLoop([i \in DOMAIN cs |->
                        <<conn[cs[i]].loop, Fn("ConnectDestroyed", cs[i], 0, TRUE)>>], Base)
  /\ registry' = {}
  /\ tpc' = "Quit"
  /\ dsub' = 1
  /\ UNCHANGED <<calling, batch, pos, active, lpc, quit>>
  /\ UNCHANGED <<next, nextConnId, backlog, conn, userRef, userSent, uShut>>

(* ~EventLoopThread of sub-loop i: exiting_, loop_->Quit() (loop_ is set:  *)
(* the loop is running). *)
PoolQuit(i) ==
  /\ tpc = "Quit" /\ dsub = i
  /\ Quit(i, Base)
  /\ tpc' = "Join"
  /\ UNCHANGED <<pending, calling, batch, pos, active, lpc>>
  /\ UNCHANGED <<next, nextConnId, backlog, registry, conn, userRef, userSent, uShut, dsub>>

(* thread_.Join() returns once Loop() returned and ThreadFunc's EventLoop  *)
(* was destroyed, with the functors still in pending_functors_.            *)
PoolJoin(i) ==
  /\ tpc = "Join" /\ dsub = i /\ lpc[i] = "Exited"
  /\ pending' = [pending EXCEPT ![i] = <<>>]
  /\ tpc' = AfterSub(i)
  /\ dsub' = IF i < NumThreads THEN i + 1 ELSE i
  /\ UNCHANGED <<wakeup, calling, batch, pos, active, lpc, quit>>
  /\ UNCHANGED <<next, nextConnId, backlog, registry, conn, userRef, userSent, uShut>>

(* ~Acceptor: the accept channel leaves the base poller and the listening *)
(* socket is closed; connections the kernel completed but nobody accepted *)
(* are reset.                                                              *)
AcceptorDtor ==
  /\ tpc = "Closing"
  /\ backlog' = 0
  /\ tpc' = "Done"
  /\ UNCHANGED <<loopVars, next, nextConnId, registry, conn, userRef, userSent, uShut, dsub>>

(* The main thread's next teardown step. *)
TeardownStep ==
  ServerDtor \/ AcceptorDtor \/ \E i \in Subs : PoolQuit(i) \/ PoolJoin(i)

(* main() has returned: the program has ended. *)
Halted == tpc = "Done" /\ UNCHANGED vars

-----------------------------------------------------------------------------
(* The server after TcpServer::Start: the pool's sub-loops are running and *)
(* the Acceptor listens on the base loop.                                  *)
Init ==
  /\ LoopInit
  /\ next = 0
  /\ nextConnId = 1
  /\ backlog = 0
  /\ registry = {}
  /\ conn = [c \in Conns |-> NoConn]
  /\ userRef = [c \in Conns |-> FALSE]
  /\ userSent = [c \in Conns |-> 0]
  /\ uShut = 0
  /\ tpc = "Serving"
  /\ dsub = 1

(* Everything the thread of loop l may do next, except time out. *)
LoopStep(l) ==
  \/ Poll(l)
  \/ Wake(l)
  \/ l = Base /\ HandleAccept
  \/ \E c \in Conns : HandleReadData(l, c) \/ HandleReadEof(l, c) \/ HandleWriteStep(l, c)
  \/ Drain(l)
  \/ RunFunctor(l)
  \/ Finish(l)

Next ==
  \/ \E l \in Loops : LoopStep(l) \/ Timeout(l)
  \/ PeerConnect
  \/ \E c \in Conns : PeerSend(c) \/ PeerClose(c)
  \/ \E c \in Conns : UserSend(c) \/ UserShutdownCheck(c) \/ UserRelease(c)
  \/ UserShutdownAct
  \/ StopServer
  \/ TeardownStep
  \/ Halted

(* Every thread runs: a loop thread keeps taking its next step, returning  *)
(* from epoll_wait while a channel of it is ready; Outside, once inside    *)
(* Shutdown(), finishes it; the main thread, once the base loop was told   *)
(* to quit, carries the teardown through.  Clients are not obliged to do  *)
(* anything, nor is the application to stop the server.                   *)
Fairness ==
  /\ \A l \in Loops : WF_vars(LoopStep(l))
  /\ WF_vars(UserShutdownAct)
  /\ WF_vars(TeardownStep)

Spec == Init /\ [][Next]_vars /\ Fairness

-----------------------------------------------------------------------------
Functors == [op : {"ConnectEstablished", "RemoveConnectionInLoop", "ConnectDestroyed",
                   "SendInLoop", "ShutdownInLoop"},
             conn : Conns, n : 0..MsgSize, ref : BOOLEAN]

MaxOut == MsgSize * (1 + MaxUserSends)

TypeOK ==
  /\ LoopTypeOK(Functors)
  /\ \A l \in Loops : active[l] \subseteq {WakeCh, AcceptCh} \cup (Conns \X {"IN", "OUT"})
  /\ next \in 0..NumThreads - 1
  /\ nextConnId \in 1..MaxConns + 1
  /\ backlog \in 0..MaxConns
  /\ registry \subseteq Conns
  /\ conn \in [Conns -> [st : States, ev : SUBSET {"R", "W"},
                         idx : {"New", "Added", "Deleted"}, mapped : BOOLEAN,
                         out : 0..MaxOut, shut : BOOLEAN,
                         loop : Loops, up : 0..1, down : 0..2, inQ : 0..MsgSize,
                         fin : BOOLEAN, said : BOOLEAN]]
  /\ userRef \in [Conns -> BOOLEAN]
  /\ userSent \in [Conns -> 0..MaxUserSends]
  /\ uShut \in 0..MaxConns
  /\ tpc \in TeardownPcs
  /\ dsub \in Subs

(* The strong references to a connection: its entry in connections_, the  *)
(* pointer Outside keeps, and every functor that binds a TcpConnectionPtr, *)
(* queued or in the batch DoPendingFunctors is running (the batch vector   *)
(* is destroyed only when the drain ends).  With none left the             *)
(* TcpConnection, its Channel and its Socket are destroyed.               *)
HeldBy(c, fs) == \E i \in DOMAIN fs : fs[i].conn = c /\ fs[i].ref
Refs(c) ==
  \/ c \in registry
  \/ userRef[c]
  \/ \E l \in Loops : HeldBy(c, pending[l]) \/ HeldBy(c, batch[l])
Destroyed(c) == conn[c].st # "None" /\ ~Refs(c)

(* The connection callback reports a connection down at most once, and     *)
(* only after it reported it up: HandleClose (peer EOF) and                *)
(* ConnectDestroyed (queued by RemoveConnectionInLoop from the base loop)  *)
(* both report down, and only ConnectDestroyed's `state_ == kConnected`    *)
(* test keeps the second report away.                                      *)
DownAtMostOnce ==
  \A c \in Conns : conn[c].down <= 1 /\ (conn[c].down = 1 => conn[c].up = 1)

(* A TcpConnection is destroyed only after its channel left the Poller's   *)
(* channels_ map (no dangling Channel* in the poller): the strong          *)
(* references bound into RemoveConnectionInLoop and ConnectDestroyed keep  *)
(* it alive across the sub-loop -> base loop -> sub-loop hops, and those   *)
(* ~TcpServer binds keep it alive until its loop, poller included, is      *)
(* destroyed.                                                              *)
ChannelRemovedBeforeDestroy ==
  \A c \in Conns : Destroyed(c) /\ ~LoopGone(conn[c].loop) => ~conn[c].mapped

(* Every connection whose client closes is reported down exactly once,     *)
(* leaves connections_, and has its channel removed from its loop's        *)
(* poller: the close hand-off HandleClose -> RemoveConnection ->           *)
(* RemoveConnectionInLoop -> ConnectDestroyed always completes, unless the *)
(* server is being stopped (the base loop then no longer runs the          *)
(* RemoveConnectionInLoop it is handed).                                   *)
CloseCompletes ==
  \A c \in Conns :
    (conn[c].fin /\ conn[c].st # "None")
      ~> \/ c \notin registry /\ ~conn[c].mapped /\ conn[c].down = 1
         \/ tpc # "Serving"

(* Stopping the server finishes: once the base loop is told to quit, it    *)
(* exits, ~TcpServer runs, and each ~EventLoopThread's Quit wakes its      *)
(* sub-loop out of epoll_wait so that Join returns, whatever the           *)
(* connections, their functors and the clients are doing.                 *)
TeardownCompletes == tpc = "Stopping" ~> tpc = "Done"

(* Every connection that was reported up is reported down by the time the *)
(* server is gone: the loop of ~TcpServer means to destroy each connection *)
(* through ConnectDestroyed.  Not so: a ConnectDestroyed queued while the  *)
(* sub-loop is past the swap of DoPendingFunctors stays pending when the   *)
(* pool's Quit arrives before the next poll, and dies with the loop.       *)
TeardownReportsDown ==
  tpc = "Done" => \A c \in Conns : conn[c].up = 1 => conn[c].down = 1

-----------------------------------------------------------------------------
(* What the specification and the code's comments say, checked against     *)
(* what the code does.                                                     *)

(* Output the server buffers is delivered: shutdown(SHUT_WR) is issued    *)
(* only once the output buffer is drained (the Disconnecting               *)
(* --output-drained--> Disconnected transition, and the comment in         *)
(* ShutdownInLoop), and HandleWrite eventually writes whatever SendInLoop  *)
(* buffered, unless the connection is closed first.                       *)
OutputDelivered ==
  /\ [](\A c \in Conns : conn[c].shut => conn[c].out = 0)
  /\ \A c \in Conns : conn[c].out > 0 ~> (conn[c].out = 0 \/ conn[c].st = "Disconnected")

(* No functor runs on a destroyed TcpConnection: every task a connection   *)
(* schedules on its loop keeps it alive.                                   *)
NoUseAfterFree ==
  \A l \in Loops : Running(l) => ~Destroyed(CurrentFunctor(l).conn)
=============================================================================
