# TLA+ models of the RTOS IPC message bus

These modules model the inter-process message bus under `src/src/ipc` and the
real-time stage of `src/src/rt`, and the watchdog of `src/src/diagnostics`:

- `IpcBus` and its transports;
- its two wire codecs;
- `RtStage` over `RtQueue`;
- `Watchdog`.

TLC checks them. Every definition is translated from the C++ source.
`PROJECT.json` maps each definition to the lines it models. It also lists the
runs, the mutants that show each property is sensitive to the code, the
findings and the hazards.

## The system

| Part | Source | State | Operations |
|---|---|---|---|
| Delivery bus | `ipc_bus.cpp`, `ipc_bus.h` | `subscriptions_`, `next_id_`, `next_sequence_`, `pending_` (sequence → `PendingMessage`), `running_`; `mutex_`, `send_mutex_`, `pending_mutex_`; `pending_cv_`; the retry thread | subscribe, unsubscribe, publish, dispatch (transport callback), send_ack, handle_ack, retry_loop, destructor |
| Local transport | `local_transport.cpp` | the receive handler | publish calls the handler synchronously on the caller's thread |
| Shared-memory transport | `shm_transport.cpp` | the shared `ShmRingBuffer`; per process `running_` and a receive thread | start (attach a slot), stop (detach, broadcast, join, unlink), publish/write_frame, receive_loop/read_frame |
| TCP transport | `tcp_transport.cpp` | `listen_fd_`, `server_fd_`, `client_fds_`, accept and receive threads; the process's descriptor table | start (server or client role), stop, publish (length-prefixed frames), accept loop, receive loop, remove_client_fd, close_socket |
| Unix transport | `unix_transport.cpp` | as TCP, plus the socket path in the filesystem | as TCP; start unlinks the path before bind, stop unlinks it at the end |
| Binary codec | `binary_serializer.cpp` | none (pure) | serialize, deserialize |
| Protobuf codec | `protobuf_serializer.cpp` | none | copies fields to and from the generated `IpcEnvelope` |
| Watchdog | `watchdog.cpp`, `watchdog.h` | `running_`, `timeout_` and `handler_` under `config_mutex_`, `last_kick_ns_`, `thread_` | start, stop (also run by the destructor), kick, run (copy the configuration, sleep a quarter timeout, call the handler when overdue) |
| RT stage | `rt_pipeline.h`, `rt_queue.h` | input and output `RtQueue`s, `running_`, the stage thread | start, stop, push (`try_push`), pop (`try_pop`), run (`pop_for` 10 ms, handler, `try_push`) |

How the parts interact:

- A bus owns one codec and one transport.
- `publish` serialises the message under `send_mutex_` and hands the bytes to the transport.
- The transport calls back into the bus's `dispatch`:
  - synchronously, for the local transport;
  - from its receive threads, for shm, TCP and Unix.
- `dispatch` clears a pending entry (an ack), or it sends an ack first and then invokes the matching handlers, outside the lock.
- The retry thread resends un-acked at-least-once messages until their budget is spent.

The RT stage and the watchdog do not use the bus. The RT stage is a pipeline of its own: the demo
`rt_pipeline_demo.cpp` feeds it I²C samples.

## Modules

### `IpcBus`: reliable delivery

The module covers `publish`, the ack path, `retry_loop` and `~IpcBus`.

Actions:

- Publisher thread:
  - `PublishStart` (sequence);
  - `PublishRegister` (the `pending_` insert);
  - `PublishNotify` (`notify_one`);
  - `PublishSend` (serialise and transport publish).
- Retry thread: one action per block of `retry_loop`.
  - `rt.pc` records where the thread is.
  - `RetrySend` is the unlocked send window.
  - `RetryRelock` is the `find` after relocking. An erased entry ends the pass. A publish that happened meanwhile may have rehashed the map, so the rest of the pass covers any subset of the unvisited entries.
  - `RetryVisit` picks any unvisited entry, because `unordered_map` order is unspecified.
- Transport: a lossy FIFO pair to a peer bus. The peer is reduced to its `dispatch`: an ack for at-least-once frames, which may itself be lost, then a delivery count.
- Clock: `now` is bounded by `MaxTime`, and the 24 h wait is `LongWait > MaxTime`. A timed wait may return at the horizon, which counts as a permitted spurious wakeup.
- History variables: `sends` (transport publishes per sequence), `delivered` and `acked`.

#### `AckRetry`: abstract specification and refinement

`AckRetry` states what the bookkeeping promises, without threads, clocks or
locks, as a credit protocol per sequence:

- `Issue` hands out a fresh sequence and owes one transmission. An at-least-once sequence is also tracked, with `retry_count` credits.
- While a sequence is tracked, `CommitResend` spends a credit and owes a transmission. The transmission may happen later, after tracking has ended.
- Tracking ends with the ack (`Ack`, only for a sequence that was sent) or with `GiveUp` at zero credit.
- `Transmit` pays what is owed, and it may fail.

`IpcBus` maps onto it with `AR == INSTANCE AckRetry WITH ...`:

- the sequences handed out (`1 .. nextSequence-1`);
- the tracked sequences: the `pending_` keys, plus publishers about to register;
- the credit: `retries_left`;
- the owed transmissions: publishers between `next_sequence_++` and their send, plus the retry thread's copy in its send window;
- `sends`.

`ImplementsAckRetry == AR!Spec` is a property of `bus_safety`. The abstraction is
not a translation of code, so it has no `map` entry.

### `LocalBus`: dispatch over `LocalTransport`

This is the default `IpcBus()` topology. Each user thread has a stack of publish
activations, which runs `send` → (`ack`) → `snapshot` → `invoke` → return. A
handler may push a nested publish.

- `send_mutex_` has an owner thread. Locking it again from the owning thread blocks for ever, which is what glibc's default mutex does with this undefined behaviour.
- `Snapshot` keeps the ids whose topic matches exactly, and `Invoke` calls them one at a time, outside `mutex_`.

The module is checked only for the deadlock (`local_deadlock`). A per-dispatch
exactly-once property would restate the snapshot set and the return guard. A
call after `unsubscribe` is what spec 4.1's unlocked snapshot permits.

### `ShmRing`: the shared-memory ring

The module models the byte-level ring contents, with one slot per process. Each
mutex section is one step.

- A cell holds the frame number and index written to it. A reader therefore rebuilds a length prefix or payload from what is really there, and an overwritten frame reads back as `Corrupt`.
- A garbled length prefix decodes to any length in `0..Capacity+1`.
- `Crash(p)`, for a process in `Mortal`, kills a process that has the segment mapped, between two mutex sections.
  - Its threads are gone, and it leaves the `not_empty` wait set.
  - Nothing in the code clears its slot, so the slot stays active with its tail frozen.
  - A later `Start` with the same consumer id takes the slot over.
- `Start` attaches the slot at the current head and spawns the receive thread. `StartFail` is a start whose `shm_open`, owner `ftruncate` or `mmap` fails: `running_` is cleared again and nothing is attached.
- `waitNE` is the wait set of `not_empty`. `pthread_cond_signal` wakes one arbitrary member, and `stop`'s broadcast wakes all of them.

### `TcpTransport`: sockets, threads and the descriptor table

The module models one process running a `TcpTransport` in the server or client
role.

- `fdTable` maps each descriptor number to the file it names:
  - the listening socket;
  - a connection, named by its peer;
  - another part of the process's socket (`Others`);
  - nothing.
- `socket()` and `accept()` take the lowest free number, as POSIX requires, so closed numbers are reused.
- A thread blocked in `accept()` or `recv()` holds the file it resolved. A `close` from another thread does not wake it, which is Linux behaviour.
- Threads:
  - `ctl` runs `start` and `stop`: `StopBegin`, `StopCloseListen`, `StopCloseClients`, `StopJoin`;
  - `acc` is the accept thread: `AcceptLoop`, `AcceptReturn` (with the EMFILE and `max_clients` branches);
  - `rcv[p]` is the receive thread of connection `p`: `RecvLoop`, `RecvReturn`, `RecvRemove`, `RecvClose`;
  - `pub` is a publisher: `PublishStart`, `PublishSend`.
- SIGPIPE: `send_all` calls `::send` with flags 0, and nothing in the program ignores SIGPIPE or passes `MSG_NOSIGNAL`.
  - A send to a connection whose peer has closed is accepted and lost, fails, or raises SIGPIPE (`Broken`).
  - `PublishSend` chooses the entry of `client_fds_` at which SIGPIPE is raised, if any. Only the entries before it are sent to.
  - `Exit` is the end of the process: the kernel closes every descriptor and the blocked calls die. `killed` is set, and from then on only the peers act (`Next`).
- Helpers:
  - `SendAll`, `Reaches` and `BroadcastTo` are `send_all`, `send_frame` and the server's broadcast loop;
  - `Broken` is the `send_all` that raises SIGPIPE;
  - `RecvAll` is `recv_all`.
- Peers connect, send whole frames and close. Other parts of the process open sockets.
- History:
  - `got[p]`: the publishes that reached peer `p`;
  - `pubTo[k]`: the peers connected when publish `k` sent;
  - `foreign`: a close or send hit a number that names another part's socket.

### `UnixTransport`: the same code, plus a path

`unix_transport.cpp` repeats `tcp_transport.cpp` statement for statement, except
for the address. The module therefore takes the TcpTransport actions through
`T == INSTANCE TcpTransport` and adds `path`, which is what `config_.path` names:

- `"none"`;
- `"stale"`, a socket file left by a crashed server;
- `"self"`;
- `"other"`, another server process on the same path (`OtherStart`, `OtherStop`: the same code in another process).

`StartServer` unlinks the path and binds it. `StopJoin` unlinks it after the
joins. `StartClient` connects only through a path that another server holds.
`PublishSend` may raise SIGPIPE as in TcpTransport. A server killed this way
leaves its socket file behind, so the path becomes `"stale"`.

### `BinaryCodec`: both wire codecs

- `Serialize` and `Deserialize` are `binary_serializer.cpp`.
  - 64-bit fields are kept as their 8 bytes.
  - `host_to_be64` is byte reversal, which is what the code computes on any host.
- `PbSerialize` and `PbDeserialize` are `protobuf_serializer.cpp`. Only their qos cast and timestamp are checked (two cfgs below). A round trip through them would restate their field copies.
  - The generated `IpcEnvelope` code is not in the repository. An envelope record stands for its bytes.
  - `ToDeliveryQos` is the `static_cast` to the `uint8_t`-based enum, which takes the value modulo 256.
  - The receiver stamps `now`.
- The behaviour fixes one message from a bounded set. The invariants are statements about the operators over every message of the set.

### `RtPipeline`: `RtStage` over two `RtQueue`s

- Main thread: `Start`, `Push`, `Pop`, `Stop`, `StopJoin`. `Start` may follow a `stop` that joined the thread, so a stage is restarted with what its queues still hold.
- Stage thread, the steps of `run()`:
  - `StageExit` (the `running_` test);
  - `StageTake` (`pop_for` returns an item at once or when woken);
  - `StageBlock` (it waits);
  - `StageTimeout` (10 ms on an empty queue);
  - `StageHandle` (handler, then `output_.try_push`, whose failure drops the result).
- Every queue method runs under the queue's mutex and is one step. `wait_for` with a predicate re-checks under the lock, so no wakeup is lost.
- History: `accepted`, `dropped`, `popped`.

#### `RtStageSpec`: abstract specification and refinement

`RtStageSpec` states what a stage promises its caller, without queues or threads:
- `todo`: the accepted items not yet handled;
- `done`: results not yet popped;
- `delivered`: the results popped;
- `on`: whether the stage is running.

Its actions:
- `Offer` accepts or refuses the next item. It may refuse only when `todo` holds `Capacity` items.
- `Process` hands the oldest item on as a result.
- `Drop` loses the oldest item's result. It may do so only when `done` is full.
- `Deliver` pops the oldest result.
- Under weak fairness, a running stage keeps handling.

`RtPipeline` maps onto it with `S == INSTANCE RtStageSpec WITH on <- running,
todo <- Unhandled, done <- outQ, delivered <- popped`. `Unhandled` is the item
the stage thread holds, followed by `queue_`, so `StageTake` is a stutter step
of the abstract specification. `ImplementsRtStage == S!Spec` is a property of
`rt_pipeline`. It adds two things to `PipelineOrder`:
- refusals and losses happen only when a queue is full;
- a running stage makes progress.

### `Watchdog`: start, stop, kick and the watchdog thread

- Owner threads (`Owners`): `StartCheck` (the `running_` test; the call's timeout and handler are chosen here), `StartConfig`, `StartKick`, `StartRun`, `StartSpawn`, then `StopExchange` and `StopJoin`. Each atomic operation or `config_mutex_` section is one step.
- `StartSpawn` assigns `thread_`: if it is still joinable, `std::terminate` runs (`terminated`).
- `Kick`: any thread, any time.
- Watchdog thread, the steps of `run()`: `RunLoop` (the `running_` test), `RunCopy` (copies under the mutex, then sleeps `timeout / 4`, an integer division), `RunWake` (the elapsed test), `RunHandler`, `RunStore` (resets `last_kick_ns_`).
- A handler that calls `stop()` while `running_` is set joins its own thread. The join throws, and `std::terminate` runs.
- Time: `Tick` advances the steady clock. The code only uses differences of readings, so the model keeps:
  - `age`, which is now minus `last_kick_ns_`;
  - `sleepLeft`, the time left of the current sleep.
  - Both are capped at one more than the largest timeout, where larger values compare the same.
  - `last_kick_ns_{0}` starts the age at the cap.
- History: `silence`, the time since the last `kick()` or `start()`. Unlike `age`, the watchdog thread's own store does not reset it.

## Runs

| Run | Checks | Result |
|---|---|---|
| `bus_safety` | `TypeOK`, `AckedNeverPending`, `SendBudget`, `ImplementsAckRetry` | holds (about 1.8M states) |
| `bus_oversleep` | `NoOversleep` | violated: the pass ends early after an ack, and the thread sleeps 24 h with an entry due |
| `bus_shutdown` | `ShutdownCompletes` | violated: lost wakeup in `~IpcBus`, so the join hangs |
| `shm_stream` | `TypeOK`, `NoStaleFrame` | holds: two processes publishing, stopping and restarting (one also crashing and restarted) across a wrap and the min-tail overwrite |
| `shm_min_tail` | `StreamIntact` | violated: `ring_min_tail` picks the wrong consumer after a wrap, and a frame is overwritten |
| `shm_signal_one` | `EveryFrameRead` | violated: `signal` wakes one of two consumers |
| `local_deadlock` | `PublishReturns` | violated: `send_ack` re-locks `send_mutex_` |
| `codec` | `RoundTrip`, `MalformedRejected` | holds for 1024 messages |
| `tcp_transport` | `TypeOK`, `ClientFdsMatchThreads`, `ClosedPeerReleased` | holds: both roles, descriptor reuse, another socket in the process, a publish killed by SIGPIPE |
| `tcp_sigpipe` | `ContinueOnError` | violated: a send to a client that has closed raises SIGPIPE, the process dies, and later clients miss the frame (spec 4.3: continue-on-error) |
| `rt_pipeline` | `TypeOK`, `PipelineOrder`, `StopReturns`, `ImplementsRtStage` | holds: refused pushes, dropped results, stop while the stage waits, restart |
| `watchdog` | `TypeOK`, `NoThreadAfterStop`, `StopReturns`, `TimeoutFires` | holds: one owner starting, stopping and restarting; kicks at will; timeouts with sleeps of 0 and 1 tick; with and without a handler |

Each violation is a finding in `PROJECT.json`.

### Configurations that are not runs

The project keeps at most twelve runs.

`UnixTransport.cfg` checks `PathNamesListener`, and it holds: with a stale
socket file and a second server on the same path, whenever the path names this
transport's socket, that socket is listening (except during `stop`). It was a
run until the watchdog took its slot.

The following disagreements are found by the cfg files named here, and each is
a hazard in `PROJECT.json`:

- `IpcBus_NoResendAfterAck.cfg`: an ack handled in `retry_loop`'s unlocked send window is followed by the resend. Spec section 8 forbids this. `AckRetry` allows it as a transmission committed before the ack, and `bus_safety` checks that every resend was committed that way.
- `BinaryCodec_BigEndianLayout.cfg`: `sequence` and `ack_for` are little-endian on the wire. Spec 4.2 says big-endian.
- `BinaryCodec_PbQosRejected.cfg`: the protobuf codec accepts any uint32 qos and keeps its low byte, so 257 arrives as at-least-once. The binary codec rejects the same input.
- `BinaryCodec_PbTimestampCarried.cfg`: the protobuf codec sends `timestamp_ns`, but the receiver replaces it with its own `now()`. The spec says this codec carries an explicit wire timestamp.
- `ShmRing_StopTerminates.cfg`: a consumer that decoded a garbled length, left by the min-tail overwrite, waits in the payload loop, which does not test `running_`. The join then hangs.
- `TcpTransport_StopTerminates.cfg`: `stop` closes `server_fd_` while the client's receive thread is blocked in `recv()`. `close` does not wake it, so `stop` waits until the server speaks. The same holds for a blocked `accept()`.
- `TcpTransport_NoForeignFdUse.cfg`: after `stop` closed a connection's number and another socket of the process reused it, the receive thread closes it again. That closes someone else's socket.
- `UnixTransport_NoStolenPath.cfg`: `start` and `stop` unlink `config_.path` whoever holds it, so a second server on the same path loses its name.
- `Watchdog_ConcurrentStart.cfg`: two owners. One's `start` passes the `running_` test while the other's `stop` is still joining, and `thread_` is assigned while joinable. `NoTerminate` is violated.
- `Watchdog_StopInHandler.cfg`: a timeout handler that calls `stop()` makes the watchdog thread join itself. `NoTerminate` is violated.

## Bounds and why they are enough

**IpcBus**: one publisher, `RetryCount = 1`, `Interval = 1`, `MaxPublish = 2`, `MaxTime = 4`.

- This gives two pending entries at once, an exhausted budget, a lost frame or ack, a resend in flight while an ack and a new publish arrive, and a rehash.
- Every reported trace needs at most these.

**ShmRing**: `Capacity = 16` with payload lengths {1, 4}, so aligned frames are 8 bytes.

- Two frames fill the ring and the third wraps.
- `shm_stream` and `shm_min_tail` use two processes, 4 writes and 2 starts each, which is enough for the overwrite.
- In `shm_stream`, `c2` may crash (`Mortal = {c2}`), and a restart can follow. With both processes mortal the run takes over 2 minutes.
- The violation cfgs keep `Mortal = {}`. A dead consumer would break `EveryFrameRead` by itself, and the cfgs are about other causes.
- `shm_signal_one` needs two writes.

**LocalBus**: two threads, two topics, two subscriptions, two publishes and nesting depth 2, enough for the first at-least-once publish to block on itself.

**BinaryCodec**:

- Topic and payload limits of 2 bytes, with inputs from 0 bytes to one byte over each limit.
- Asymmetric 64-bit byte patterns.
- Sender and receiver clocks `{5, 9}`.
- Wire qos values `{0, 1, 2, 257}`: one value out of range, and one that wraps into range.

**TcpTransport**: two peers, one other socket and four descriptor numbers.

- Four numbers are enough for every file to be open at once, and closed numbers are reused.
- `max_clients = 2`, so a broadcast has two targets and one can fail, or raise SIGPIPE, before the other.
- One publish and one peer frame in all.

**UnixTransport**: two peers, one other socket, three numbers and `max_clients = 1`.

- Both roles are covered.
- The path starts stale or empty, and the other server may start and stop.

**RtPipeline**: input capacity 2 and output capacity 2 (64 in the code), with five items.

- A push is refused and a result is dropped.
- Stop can come before start, while the stage waits, or mid-stream.

**Watchdog**: one owner, timeouts {2, 5}, handlers "none" and "plain".

- A 2-tick timeout sleeps 0 (the code's `timeout_copy / 4` below 4 ms), and a 5-tick one sleeps 1.
- A restart may change the timeout and the handler.
- The cap of 6 ticks lets every timeout be exceeded.
- Two owners and the stopping handler are left to the two cfgs above, where they end in `std::terminate`.

## Fairness

- Bus: weak fairness on each thread's next step inside `publish`, on the retry thread, on the transport delivering queued frames, and on the destructor's join. A runnable OS thread eventually runs.
- TCP and Unix: weak fairness on the accept thread, each receive thread, the steps of a `stop` in progress, and a publish past its `running_` check, as long as the process has not been killed. Peers, the other server and other parts of the process are not obliged to act.
- ShmRing: weak fairness on each receive thread and on a `stop` in progress.
- LocalBus: weak fairness on every thread inside `publish`.
- Watchdog: weak fairness on the watchdog thread, on each step of a `start` or `stop` in progress, and on `Tick` (the steady clock advances). Kicks are not fair.
- RtPipeline: weak fairness on the stage thread (its 10 ms timeout always elapses) and on the join of a `stop` in progress.

User actions (publish, subscribe, push, pop, start, stop, destroy) are never
fair: the application may stop calling.

Deadlock checking is off in every cfg. All these systems legitimately stop: the
bounds are exhausted, or the system is stopped or destroyed.

## Not modelled

- `IpcBus` with caller-supplied sequences. A duplicate sequence overwrites a pending entry, and this is listed as a hazard.
- The shm transport's owner re-running `init_ring` over attached consumers, a consumer dying with the ring mutex held (every process would block), a dead waiter still counted by the condition variable, `consumer_id` clamping and sharing, and segment unlink. These are hazards without properties.
- Blocking sends and socket buffers in TCP and Unix.
- `RtQueue::push_for`, which no code calls.
- `RtScheduler`: OS calls with no state. Spec section 1 calls these realtime-thread configuration helpers and places them out of scope.
- The fault manager and the health monitor. Spec section 1 calls them append/query stores that correctness does not depend on. Each is a mutex-guarded table without a thread of its own.
- The HAL drivers and the QNX resource manager. Spec section 1 calls them thin OS I/O wrappers.
- Secure boot and the KMS client. The spec says secure boot is a mocked policy object with no algorithm and no concurrency.
- The robotics demo. The spec calls it placeholder arithmetic.
- The watchdog's elapsed test reads the clock and `last_kick_ns_` in an unspecified order. `RunWake` reads them together, so a kick that lands between the two reads is not modelled.
- Composition of `IpcBus` over `ShmRing` with acks carried through the ring.
