# TLA+ models of cpp-toy

This directory holds TLA+ models of the concurrent parts of the repository and of its two memory pools.
Every module is checked with TLC. The C++ sources are under `../src`:

| Part | Sources | What it does |
|---|---|---|
| mymuduo reactor | `src/mymuduo/event_loop.cpp`, `channel.*`, `Epoll_poller.cpp` | One `EventLoop` per thread blocks in `epoll_wait` and dispatches ready `Channel`s. Other threads hand it work with `RunInLoop`/`QueueInLoop` and wake it through an eventfd. |
| mymuduo TCP server | `tcp_server.cpp`, `acceptor.cpp`, `tcp_connection.cpp`, `event_loop_thread_pool.cpp`, `example/testserver.cc` | The base loop accepts connections and hands each one round-robin to a sub-loop. Each `TcpConnection` lives on its sub-loop. Closing a connection hops sub-loop → base loop → sub-loop before the object is released. |
| mymuduo thread start-up | `event_loop_thread.cpp`, `thread.cpp` | Creates the sub-loop threads and hands back their `EventLoop*` through a condition variable. |
| mymuduo utilities | `buffer.*`, `socket.*`, `inet_address.*`, `timestamp.*`, `logger.*`, `current_thread.*` | Byte buffer, system-call wrappers, formatting. |
| Thread pool | `src/thread_pool/` | A task queue with fixed or cached (growing and shrinking) worker threads and a destructor that waits for the workers. |
| MySQL connection pool | `src/connection_pool/` | A producer thread creates connections on demand. An idle scanner deletes surplus ones. Clients lease connections and give them back through a `shared_ptr` deleter. |
| SGI memory pool | `src/sgi_memory_pool/` | A second-level allocator: free lists of 8-byte classes up to `kMaxBytes`. Empty lists are refilled from a chunk, and the chunk from `malloc`. Larger requests go straight to `malloc`/`free`. Every call holds the static `mtx_`. |
| nginx memory pool | `src/nginx_memory_pool/` | A single-owner region allocator. Small requests are carved from a chain of blocks; large ones are `malloc`ed and listed; cleanup handlers run in the destructor; `Reset` rewinds the blocks. |

The parts interact in three places:
- The TCP server runs on the reactor: every connection operation is a channel callback or a functor queued on a loop.
- The thread pool, the connection pool and the memory pools are independent of mymuduo and of each other.
- Every component's threads share state only under a mutex or through a loop's functor queue. The models make each critical section, and each functor, one atomic step.

## Modules

| Module | Models | State ↔ code |
|---|---|---|
| `EventLoopCore` | `EventLoop` (`event_loop.cpp`). Shared by the two modules below. | `pending` = `pending_functors_`, `wakeup` = eventfd readable, `calling` = `calling_pending_functors_`, `batch`/`pos` = the swapped local vector and the functor being run, `active` = `active_channels_` not yet dispatched, `lpc` = where `Loop()` is, `quit` = `quit_`. |
| `LoopQueue` | Abstract spec of a loop's functor queue: a FIFO per loop that grows at the tail and whose head is run. | `queue`, `done` |
| `EventLoop`, `MC_EventLoop` | Loops on their own. A foreign thread submits functors and quits loops. Functors queue more work on their own loop or another loop, or quit their loop. An I/O callback queues work from the loop thread. | history variables `submitted`, `executed` |
| `TcpServer`, `MC_TcpServer` | `TcpServer`, `Acceptor`, `TcpConnection`, the channel/poller bookkeeping of connection channels, `GetNextLoop`, and the echo server's `onMessage` as the message callback. Also the peer (connect, send, FIN) and an application thread that keeps connections and calls `Send`/`Shutdown` on them. Stopping the server: the application's `Quit` on the base loop, then, once `loop()` returns in `main`, `~TcpServer` and the destruction of its members (the loop pool quits and joins each sub-loop, whose `EventLoop` dies with its pending functors; then `~Acceptor` closes the listening socket). | `conn[c]` is a record per connection with fields `st` = `state_`, `ev` = `events_`, `idx` = `index_`, `mapped` = in the poller's `channels_`, `out` = output buffer bytes, `shut` = `shutdown(SHUT_WR)` done, `loop` = `loop_`, `up`/`down` = connection-callback reports, `inQ`/`fin`/`said` = the socket's receive side. `registry` = `connections_`, `next` = `next_`, `backlog` = the listen queue, `userRef`/`userSent`/`uShut` = the application thread, `tpc`/`dsub` = the main thread's place in the teardown and the `EventLoopThread` the pool's destructor is at. |
| `EventLoopThread` | `EventLoopThreadPool::Start`, `GetNextLoop` and the destructor, `EventLoopThread::StartLoop`/`ThreadFunc`/destructor, `Thread::Start`/`Join`, with `Loop()` reduced to its `quit_` test and wakeups. | `opc`/`cur` = the owner thread and the `EventLoopThread` it is at; per thread: `tpc` = where it is, `sem` = `Thread::Start`'s semaphore, `tid` = `tid_` set, `loopPtr` = `loop_ != nullptr`, `alive` = the stack `EventLoop` exists, `quit` = `quit_`, `wakeup` = eventfd readable, `next` = `next_`, `given` = how many times `GetNextLoop` returned each loop. |
| `Buffer` | `Buffer` (`buffer.h`, `buffer.cpp`). Each method is a pure operator on a record `[buffer, reader, writer]`. The actions are the calls `TcpConnection` makes: `Append` from `SendInLoop`, `ReadFd` from `HandleRead`, `WriteFd` then `Retrieve(n)` from `HandleWrite`, and `RetrieveAsString()` from the message callback. | `buffer` = `buffer_` (byte `i` is `buffer[i+1]`), `readerIndex`/`writerIndex` = `reader_index_`/`writer_index_`, history `lastIn` = the bytes of the latest `Append` or `readv`. Sizes are constants scaled down; `size_t` wraps modulo `Word`. |
| `ByteQueue` | Abstract spec of a `Buffer`: its readable bytes form a queue. `Put` adds the bytes handed in at the back. `Take` removes bytes from the front. | `content`, `input` |
| `ThreadPool` | The constructor, `SetMode` and a refused `SubmitTask` before `Start`, `ThreadPool::Start`, `SubmitTask`, `ThreadFunc`, the destructor. `SetTaskQueMaxSize`/`SetThreadMaxSize` are the constants `QueMax`/`ThreadMax`: the values in force when `Start` runs. | `nextTid` = `Thread::generate_thread_id_`, shared by every `Thread` of the process (its value when the pool starts is the constant `FirstIds`), `queue` = `task_que_`, `threads` = keys of `threads_`, `current`/`idle` = `current_thread_size_`/`idle_thread_size_`, `wpc` = each worker's position in `ThreadFunc`, `mpc` = the client/destructor thread. |
| `SgiPool` | `Allocate`, `Deallocate`, `Reallocate`, with `Refill` and the recursive `AllocChunk` as operators on a record of the pool's statics. A client holds what it got and gives it back with its size. `malloc` returns the lowest free gap of a bounded heap, or fails (a counted choice). | `freeList` = `free_list_` (class → node addresses, head first), `startFree`/`endFree`/`heapSize` = `start_free_`/`end_free_`/`heap_size_`, `regions` = live `malloc`ed regions, `fails` = failed mallocs, `held` = the client's blocks. |
| `NginxPool` | The constructor, `Allocate` (`AllocateSmall`, `AllocateSmallBlock`, `AllocateLarge`), `AddCleanup`, `LargeFree`, `Reset` and the destructor (`DestoryPool`). Same `malloc` model, with 16-byte-aligned results. | `blocks` = the `SmallBlock` chain `[base, start, end, failed]`, `current` = `current_block_`, `size` = `size_`, `large` = the `LargeBlock` list `[hdr, alloc]`, `cleanup` = the cleanup list, history `carved` = a bag of every piece handed out since the last reset, `held` = the owner's large allocations. |
| `MC_Services` | `TcpServer`, `Buffer`, `ConnectionPool`, `SgiPool` and `NginxPool` in one run, as a disjoint union: `Init` chooses one component (`part`), and every step is a step of that component with the others left in their initial state. | `part` |
| `MC_Threads` | `EventLoopThread` and `ThreadPool` as a disjoint union in the same way. | `part` |
| `ConnectionPool` | Constructor, `ProduceConnectionTask`, `GetConnection` and its deleter, `CheckIdleConnectionTask`. | `queue` = `connection_queue_` (connection ids), `current` = `current_connection_size_`, `lease` = what each client holds, `freed` = deleted connections. |

Conventions:
- Each action is a whole handler.
- A `TcpConnection` method that calls others is modelled as a composition of record-to-record operators that mirrors the code's calls. For example, `HandleClose` → `DisableAll` → `UpdateChannel`.
- A condition-variable wait is two steps. In the first, the thread releases the mutex and waits. In the second, it is notified (`Woken`) or times out (`Expired`) and re-acquires the mutex.
- A timeout is a free choice because time is not modelled. A notify does not cancel a timeout that already happened.
- Mutants of the code are defined just before the operator they mutate. They are named after the change (for example `QueueInLoopNoCallingWake`).
- A disjoint union reaches, for each component, exactly the states that component reaches alone. Its state count is the sum of the components' counts, not their product, and a state with no successor is a deadlock of the chosen component. Each component's fairness is asked of that component's own steps only, as `WF_vars(XStep(A))`. A property that promises something will happen is guarded by `part = "X" =>`. The other properties hold trivially while another component runs.
- `PROJECT.json` `map` lists the source lines each definition translates.

## Runs

| Run | Result | What it shows |
|---|---|---|
| `eventloop` | pass | `NoStalledFunctor`: a loop never blocks in `epoll_wait` while functors are pending and the eventfd is unset. This needs the `\|\| calling_pending_functors_` of `QueueInLoop`. `FifoRefinement`: the loops implement `LoopQueue` under the mapping "owed = rest of batch ++ pending". `Delivery`: every queued functor is run. `QuitTerminates`: a quit loop exits. |
| `tcpserver_output` | violation | `OutputDelivered` is violated. `Channel::IsWriteEvent` compares `events_ == kWriteEvent`, so it is false for a connection that reads, even while `EPOLLOUT` is watched. Two things follow. `HandleWrite` never writes the buffered output. `ShutdownInLoop` shuts the write side with the reply still buffered. |
| `tcpserver_uaf` | violation | `NoUseAfterFree`: `Shutdown` from another thread binds a raw `this`. The peer's close can destroy the connection before `ShutdownInLoop` runs. |
| `threadpool_exit` | violation | `DestructorReturns`: a reaped cached worker leaves without `exit_cond_.notify_all()`. A destructor that is already waiting hangs. |
| `threads` | pass | `MC_Threads`, about 10,000 states. **EventLoopThread:** `StartReturnsLoops`: `EventLoopThreadPool::Start` returns, and every loop it hands out is alive with its tid set, whichever thread runs first in the semaphore and `cond_` handshakes. `RoundRobinBalance`: `GetNextLoop` hands the loops out in turn. **ThreadPool** (either mode chosen by `SetMode`, tasks submitted before `Start` refused, `Start(1)` or `Start(2)`, the first pool of the process): `ThreadsStarted`: after `Start` returns, every thread in `threads_` was started. `CountersTrackThreads`: `current_thread_size_` and `idle_thread_size_` always match the worker threads. `TasksRun`: every accepted task runs. `FixedDestructorReturns`: in fixed mode the destructor returns. |
| `services` | pass | `MC_Services`, about 132,000 states in 1.5 min, deadlock checked. **TcpServer:** `CloseCompletes`: a connection whose peer closes is removed from `connections_`, its channel leaves the poller, and it is reported down, also while the application keeps it and calls `Send` and `Shutdown`, unless the server is stopped first. `DownAtMostOnce`: it is reported down at most once. `ChannelRemovedBeforeDestroy`: while its loop lives, it is released only when no strong reference (registry, application, functor, including those `~TcpServer` binds) remains, and only after its channel left the poller. `TeardownCompletes`: once the base loop is told to quit, `~TcpServer`, the pool's `Quit`/`Join` of every sub-loop and `~Acceptor` all complete, whatever the connections and their functors are doing. **Buffer:** `IndexOrder`: `kCheapPrepend <= reader_index_ <= writer_index_ <= size()`, so the `size_t` subtraction in `MakeSpace` never wraps. `BufferIsQueue`: `Buffer` refines `ByteQueue` under "content = bytes `[reader_index_, writer_index_)`", across the `extra_buf` spill and every `MakeSpace`. **ConnectionPool:** `ConnectionAccounting`: each live connection is queued or leased, never both or twice, and `current_connection_size_` counts them. **SgiPool:** `NoOverlap`: client blocks, free nodes and the chunk never overlap and lie in live `malloc`ed memory, across refills, leftovers and a failed `malloc`. `NoLeak`: they add up to every live region. **NginxPool** (a pool of 128 bytes): `LargeAccounting`: the live regions are the blocks and the large allocations, each listed once in `large_`, across `LargeFree`, reuse of a freed node, a failed header allocation, `Reset` and the destructor. |
| `sgi_nullchunk` | violation | `NoOverlap`: when `malloc` fails, no larger class has a node, and the retry `malloc` fails too, `start_free_` is `nullptr` and `end_free_` is `bytes_to_get`. The recursive `AllocChunk` carves the request from address 0, and `Refill` links free nodes at addresses 8 and 16 that were never allocated. |
| `loopthreads_wakeup` | violation | `NoWakeupOfDestroyedLoop`: `~EventLoopThread` calls `Quit()`, which sets `quit_`. The loop thread sees it after a poll timeout, leaves `Loop()` and destroys its stack `EventLoop`. Only then does `Quit()` call `wakeup()` on it. |
| `threadpool_ids` | violation | `ThreadsStarted`: `Start` stores each `Thread` under its id from the process-wide counter, but starts `threads_[i]` for `i` in `0..n-1`. In a pool started after two other `Thread`s exist (ids 2 and 3), `threads_[0]` inserts a null pointer and `->Start()` dereferences it. The pool's threads are never started. |
| `loopthreads_dtor` | violation | `DestructorReturns`: `loop_` is published before `Loop()` runs, and `Loop()` begins with `quit_ = false`. A pool destroyed right after `Start` can quit a sub-loop inside that window. The quit is erased and `Join` hangs. |
| `connpool_scan` | violation | `NoFrontOfEmptyQueue`: the idle scan calls `front()` on an empty queue when the surplus connections are leased. |
| `nginx_wrap` | violation | `SmallInBounds`: every piece the nginx pool carves lies inside its block, above the header and below `start`, and no two overlap. The constructor does not round the pool size to `kAlignment`. In a pool of 104 bytes, `Allocate(40)` then `AddCleanup(24)` aligns `start` past `end`. `p->end - m` then wraps in `size_t`, and the cleanup data is placed 8 bytes past the block. |

Every property of a passing run has a mutant in `PROJECT.json`. The mutant changes one mapped definition the way a plausible bug would: a dropped guard, a missing wakeup or notify, an off-by-one wrap, a raw pointer instead of a shared one. The property catches it.

## Bounds

| Module | Bounds | Why they suffice |
|---|---|---|
| `EventLoop` | Two loops, one foreign thread, two functors | Two functors are enough for reordering (FIFO), for a functor queued while another runs (the `calling` wakeup), and for cross-loop queuing. |
| `TcpServer` | One base loop and one sub-loop (two sub-loops for round robin); one or two connections, three for round robin; messages of one byte; one application send | These let a peer's FIN race a pending `SendInLoop`/`ShutdownInLoop`, and let the close hand-off interleave with the application's calls. Larger payloads only repeat the same branches of `SendInLoop`/`HandleWrite`. For the teardown, one sub-loop lets `~TcpServer`'s functors, the pool's `Quit` and the application's last calls meet a sub-loop in every phase of `Loop()`; the pool's destructor handles sub-loops one after another, so more of them repeat the same steps. |
| `SgiPool` | 8-byte classes up to 16 bytes (two lists), `nobjs` 3, requests of 8, 16 and 24 bytes, two blocks held, a heap of 160 bytes; one failed `malloc` in `services`, two in `sgi_nullchunk` | Three nodes per refill give a partial chunk and a leftover pushed to the smaller class. 24 bytes is a large request. Reallocating between sizes crosses classes and the large/small line. One failure reaches the "take a node of a larger class" branch and the retry `malloc`; the second failure is what the retry needs to fail. |
| `NginxPool` | Scaled: `kAlignment` 16, headers 32/16/24 bytes, `kMaxAlloc` 63, two blocks, two large allocations, a 320-byte heap, one failed `malloc`. A pool of 128 bytes with requests of 48 and 80 in `services`; 104 bytes in `nginx_wrap` | 48 fills a block in two requests and reaches `AllocateSmallBlock` and its `failed` counter; 80 is a large request, and a failed `malloc` reaches the freed header path. A pool size that is not a multiple of 16 is what the wrap needs. |
| `EventLoopThread` | Two sub-loop threads; three `GetNextLoop` calls | A second thread is needed for the destructor to reach a thread that `Start` has published but that has not yet entered `Loop()`. |
| `Buffer` | `kCheapPrepend` 1, `kInitialSize` 2, `extra_buf` 2, chunks of up to 3 bytes over two byte values, vector size up to 6 | A 3-byte `readv` into 0–2 writable bytes reaches the `extra_buf` spill. Both `MakeSpace` branches are reached: moving the data down after a partial retrieve, and growing the vector. Two byte values are enough to see a byte lost, duplicated or reordered. |
| `ThreadPool` | Up to 2 threads; queue of 2; 3–4 tasks; thread ids from 0 (first pool) or from 2 (`threadpool_ids`) | Enough to fill the queue, grow a cached thread, reap it, and stop with threads in every state. Ids from 2 stand for any earlier `Thread`s: two threads then get ids 2 and 3, neither of which is 0. |
| `ConnectionPool` | `init_size` 1, `max_size` 2; 2–3 clients; 4 connection ids | Enough for the producer to reach the maximum, the scanner to meet a surplus, and the deleter to return a connection while others wait. |

## Fairness

- **EventLoop and TcpServer:** each loop thread has weak fairness on its own steps, and `epoll_wait` returns when a channel is ready. In `TcpServer` the main thread's teardown steps are weakly fair too, but nothing obliges the application to stop the server. The `kPollTimeMs` timeout is in the next-state relation but not fair, so liveness never relies on the 10 s timeout. Peers and the application are not fair: nothing obliges a client to act. The exception is the second half of `Shutdown` once it has started, which is one call on one thread.
- **EventLoopThread:** every thread is weakly fair. `epoll_wait` is fair too, since it returns at the latest after `kPollTimeMs`, so the hang found there does not come from a poll that never returns. Destroying the pool is not assumed.
- **ThreadPool:** the client and the workers are weakly fair. Reaping an idle worker is not fair, because it needs 60 s of idleness.
- **ConnectionPool:** only safety is checked, so no fairness is assumed.
- **SgiPool and NginxPool:** only safety is checked, and the client is never obliged to call.
- **Unions:** `services` checks deadlock: every component there can always take another step within its bounds, except a stopped server, whose program has ended; `TcpServer`'s `Halted` step says so explicitly. `threads` does not, because `EventLoopThread`'s threads really stop once the pool is destroyed and `ThreadPool`'s once the destructor returns.

## Not modelled, and the plan

- **Two teardown defects with no run of their own** (every run checks one question, and the violation runs are spent on the findings above):
  - `TeardownReportsDown` (`TcpServer.tla`): every connection reported up is reported down by the time the server is gone. With `MaxConns = 1`, `UserOps = {}` and `EchoModes = {"Echo"}`, TLC finds it violated in 15 steps. The sub-loop is inside `DoPendingFunctors` when `~TcpServer` queues `ConnectDestroyed`. The pool's `Quit` arrives before its next poll. `Loop()` returns with the functor still pending, and it dies with the `EventLoop`.
  - Without the assumption that the application stops calling `Send`/`Shutdown` once it stops the server, TLC finds `ChannelRemovedBeforeDestroy` violated. `Shutdown`'s `kConnected` test passes before `ConnectDestroyed` runs, and its `kDisconnecting` lets a later `SendInLoop` call `EnableWriting` on the removed channel (index `kNew`). That re-adds the channel to the live poller, and the connection is freed while still registered. `services` makes that assumption (`StopServer` and the guards of `UserSend`/`UserShutdownCheck`).
  - The close callback's raw `TcpServer` `this` (`tcp_server.cpp:118`) is harmless in this order: every sub-loop is joined inside `~TcpServer`, and a `RemoveConnectionInLoop` queued during teardown goes to a base loop that no longer runs.
- **The caller's string in a cross-thread `Send`:** `Send` binds `buf.c_str()` into the queued functor. Neither `TcpServer` (byte counts) nor `Buffer` (which starts at `Append`) has that string as state.
- **`malloc`** is a first-fit search of a bounded heap that may fail. `free` removes the region. Contents of memory are not modelled; the properties are about which bytes are where.
- **nginx small requests larger than the pool:** `AllocateSmallBlock` sets `start = m + size` with no check (`memory_pool.cpp:157`). With a pool of `MinPoolSize()` bytes and a request of `kMaxAlloc`, TLC finds `SmallInBounds` violated in two steps. This is listed as a hazard under the same property as `nginx_wrap`. `services` does not check `SmallInBounds`. Its pool of 128 bytes is a multiple of `kAlignment` and larger than every request, so neither wrap can occur there and the property could not fail.
- **A failed constructor `malloc` in the nginx pool** leaves `current_block_` null, and the next `Allocate` dereferences it. The model lets only the destructor run on such a pool.
- **SGI `Construct`/`Destory`** only run a constructor or a destructor on memory that is already allocated.
- **The EPIPE branch of `SendInLoop`:** the model reproduces it: data is buffered after the write side is shut. A queued `SendInLoop` running after the echo's `Shutdown` takes this path. Its consequence, bytes buffered on a half-closed socket that are never delivered, is the first conjunct of `OutputDelivered`. The `tcpserver_output` run shows that conjunct violated, along the `IsWriteEvent` path.
- **`TcpConnection::HandleError`** (RST), the high-water-mark and write-complete callbacks (no user installs them), and `accept4` failures (EMFILE busy loop).
- **The poller's `channels_` map:** the specification says a channel is in `channels_` exactly when its index is `kAdded`. The code keeps `kDeleted` channels in the map on purpose. The model keeps both facts (`mapped`, `idx`). `ChannelRemovedBeforeDestroy` checks the consequence that matters: no freed channel remains in the map.
- **Not modelled at all:** sockets, addresses, timestamps and logging (system-call wrappers and formatting); `ConnectionPool::LoadConfig` (file parsing); the MySQL `Connection` class; and all `main` programs.
