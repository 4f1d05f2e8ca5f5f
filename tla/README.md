# bounce in TLA+

`bounce` is a C++11 network library in the reactor style: an `EventLoop` per
thread polls descriptors and runs callbacks, a `TcpServer` accepts connections
on a base loop and deals them out to the loops of a thread pool, timers run on
every loop, and any thread may hand a loop a task. This directory holds a TLA+
model of it, model-checked with TLC and, in part, proved with TLAPS. All paths
below are relative to the repository.

## 1. The system

| Component | State | Operations | Talks to |
|---|---|---|---|
| `EventLoop` (`bounce/event_loop.*`) | `task_vec_` under `mutex_`, the flag `doing_the_tasks_`, an eventfd, `active_channels_` | `loop`, `doTaskInThread`, `queueTaskInThread`, `doTheTasks`, `weakupCallback`, `runAt/After/Every`, `deleteTimer` | its poller, its timer queue; every other thread through the task vector |
| `PollPoller`, `Channel` (`poll_poller.*`, `channel.*`) | `channels_` (by descriptor), `pollfds_`, `Channel::index_`, `events_` | `poll`, `updateChannel`, `removeChannel`, `enable…/disable…`, `remove`, `handleChannel` | called by the thread of its loop only |
| `TcpServer` (`tcp_server.*`) | `connection_map_`, `started_` | `start`, `newConnection`, `setNewConnection`, `removeConnection`, `removeConnectionInLoop` | acceptor, connector (callback), pool, connections (callback), two loops |
| `TcpConnection` (`tcp_connection.*`) | `state_`, channel, `output_buffer_`, `input_buffer_`, reference count | `send`, `shutdown`, `forceClose` (any thread); `connectComplete`, `handleRead/Write/Close/Error`, `sendInLoop`, `destroyConnection` (its loop) | server, loop, application callbacks |
| `Acceptor`, `Socket` | the listening descriptor | `handleAccept` | server (callback) |
| `LoopThreadPool`, `EventLoopThread` | `loops_`, `loop_inited_` under `mutex_`, `condition_`, `next_loop_index_` | `start`, `threadLoop`, `setThreadNumber`, `getLoopForNewConnection` | threads it creates, server |
| `Buffer` | `buffer_`, `read_index_`, `write_index_` | `append`, `readFd`, `retrieve`, `readAsString`, `readInt…`, `writeInt…` | connection |
| `Timer`, `TimerQueue` | two multimaps, `min_expiration_`, a timerfd | `addTimer`, `deleteTimer`, `handleRead`, `resetTimerfd` | loop (tasks, poll), application callbacks |
| `Connector` | `conn_map_` of connecting sockets | `connect`, `connectInLoop`, `handleWrite` | server (`setNewConnection`), loop |
| `SockAddress` | a union of `sockaddr_in` and `sockaddr_in6` | two constructors, `ip`, `port`, `setScopeId` | connector, acceptor |
| `Logger`, `EpollPoller` | – | logging; an empty class | – |

What is hard to get right, and hardly tested (`PROJECT.json`, "hazards", has each
at its line):

* whether a queued task wakes the loop (push, flag and eventfd are three steps);
* a connection's end: closed on its loop, erased from the map on the base loop,
  removed from the poller on its own loop, freed with the last `shared_ptr`,
  while other threads call it and the kernel reuses its descriptor;
* lists and indices that were right when they were taken: the active channels,
  `index_` after another channel was removed, `upper_it`, `min_expiration_`;
* the bytes of a connection: several threads send, the socket takes a part, the
  rest waits, and a shutdown overtakes or waits for it;
* a socket that is dialled on one loop, handed over on the base loop and used on
  a third one, under a descriptor that others had before;
* the handshake of `start()` with the threads it creates;
* boundaries: a vector exactly filled by `readv`, a time difference of zero, the
  round-robin index one past the end, descriptor 0 hidden as a negative number.

## 2. Modules

| Module | What it is |
|---|---|
| `TaskExecutor` | abstract: tasks are put in and run once, first in, first out |
| `EventLoop` | the loop thread and any number of queueing threads |
| `EventLoopProofs` | proofs about `EventLoop` |
| `InterestSet` | abstract: a set of watched descriptors |
| `Poller` | the data structure of `PollPoller` and its methods, as operators |
| `PollPoller`, `PollPollerProofs` | one poller and the channels of its loop, `Poller` under all sequences of calls; proofs |
| `TcpServer` | composes server, connections, acceptor, loops and (through `Poller`) one poller per loop |
| `Connector` | extends `TcpServer`: dialled sockets beside a server, up to the connection made of them |
| `SockAddress` | the address union and its conversions, as operators |
| `ServerCalls` | the invariant of `TcpServer` and `Connector`, which share their state, for the proofs |
| `ServerActionProofs`, `ServerProofs` | that the actions of both keep it; the theorems |
| `TcpConnection`, `TcpConnectionProofs` | the output path of one connection, byte by byte; proofs about the stream, and about the order of the senders in it |
| `LoopThreadPool`, `LoopThreadPoolProofs` | `start()` against its threads, round robin; proofs |
| `ByteQueue`, `Buffer`, `BufferProofs` | abstract: a queue of bytes; the vector with two indices; proofs |
| `TimerQueue`, `TimerQueueProofs` | timers, the timerfd, the clock; proofs |
| `MC…` | instances for TLC: symmetry sets and constants that a configuration cannot write |

Definitions that no specification uses and that stand before a similar one
(`PushFront` before `PushBack`, `IgnoredMinus` before `Ignored`) are faulty
variants of it: the mutants listed in `PROJECT.json`, with which every property
is shown to be able to fail.

### EventLoop

`stage` is the loop thread's position in `loop()`; `pc` that of a thread in
`queueTaskInThread`. Locked sections are single actions, everything else is
interleaved: `Push`, then `CheckDoing` (the read of `doing_the_tasks_`), then
`WriteWakeup`. `HandleWakeup` takes the whole counter. All channels but the
eventfd are one channel `io`. `PollFails` is a `::poll` that returns an error, in
which case the code goes on with the round. `stop_` is never set in the code, so
`loop()` never ends. A functor that `doTaskInThread` calls in place is part of
the handler or task that is running.

### Poller, PollPoller

A poller is a record of `channels_`, `pollfds_` and the `index_` of the channels;
`UpdateChannel` and `RemoveChannel` translate the two methods branch by branch,
including the lookup by the descriptor in the moved entry, which fails (field
`crashed`) if that is negative. `PollPoller` drives them the way the library
does: a channel is constructed for a descriptor nobody has and is removed before
it is destroyed. In between it enables and disables events in any order; `disableAll` on
a channel that is not registered registers it, for no event, and the poller does not hide
its descriptor then (`bare`), as it does that of a channel whose last event is disabled.

### TcpServer

Every loop has a stack of calls (`work`); an action is one function body, minus
the calls it makes, which it pushes. Whatever can happen between two function
bodies of one thread on other threads is therefore interleaved. A connection is a
record (`state_`, descriptor, loop, `events_`, whether bytes wait in the output
buffer, whether the write side is shut down). `Held` derives from the map, the
task vectors, the running batch, the stacks and the threads whether a `shared_ptr`
exists; a call bound to a raw `this` does not count. Touching a freed object, a
null pointer or an empty `std::function` sets `fault` and ends the behaviour,
which is why these runs do not check for deadlock.

`Poll` chooses what `::poll` reports of every watched entry; `ActiveChannels` is the
list the loop over `pollfds_` fills, in the order of the vector.

The socket error that `handleError` asks for is only logged, so the action is the
application's `error_cb_`, which may call what `ErrorOps` says; the other callbacks,
`write_complete_cb_` included, call what `HandlerOps` says.

Simplifications: `POLLPRI` counts as "in"; rounds in which nothing is ready and nothing is queued are left
out; each poller has one permanent channel (the timerfd) at index 0; the write
callback is assumed to be set; a callback makes at
most one call on a connection; how a loop is woken is the subject of `EventLoop`,
here a poll may return whenever there is something to do, and need not (Fairness, below); `EagerDrop = FALSE`
describes applications that keep their pointer to a connection until what they
queued on it has run (`TRUE` in the run with other threads).

### Connector, SockAddress

`Connector` adds to `TcpServer` the sockets that are being dialled (`dial`) and
`conn_map_`; everything else (loops, pollers, task vectors, stacks, the connection
that results) is that of `TcpServer`, whose actions stay in the next-state
relation. The connector may use the base loop or a loop of the pool. `Connect` is
the call of a thread without a loop, `ConnectInPlace` that of a callback, including
the connector's own `error_cb_`. `ConnectInLoop` covers the three outcomes of
`::connect`, and a `::socket` that failed; a socket whose `::connect` fails at once
is `leaked`, because nobody closes it (`connector.cc:53`). `Resolve` is the kernel.
`HandleConnect` is `handleWrite`: `conn_map_.erase` destroys the channel, its
callback and the address bound to it, so from there on the reference `addr` may
read anything (`Garbage`), which goes into the connection's peer address and the
error callback. The channels of dials share descriptors and pollers with those of
connections. A dial's channel is reported whenever `::connect` has an outcome, and
a socket without a peer looks like a closed one.

`SockAddress` has the union as its words. A text is the sequence of words it
stands for. `FromText` stores where the code does: at `sin_addr` in both families,
which is right for IPv4 only; and an empty text leaves `AF_UNSPEC`, for which
`::connect` succeeds without connecting to anybody.

### TcpConnection

What becomes of the bytes. `send`, `shutdown` and `forceClose` of another thread
are two or three steps (read `state_`, write it, queue the task), those of the
loop's thread one. `Fits` is what the socket takes, and `sendInLoop` may also find
it unwilling (`EWOULDBLOCK`, a signal). `wire` is what the kernel took, `taken` what
`sendInLoop` did not refuse. `handleClose` ends the model's interest: its callbacks,
the removal and the second life of a connection whose `state_` was overwritten are
in `TcpServer`. The two models split one class: `TcpServer` knows only whether output
waits, `TcpConnection` only one connection that outlives every call. `output_buffer_`
is a sequence, which is what `Buffer` is shown to implement.

### LoopThreadPool

`caller` is the thread in `start()`. Checking the predicate and going to sleep is
one action, because the mutex is held in between; `notify_one` is a step of its
own, after the unlock. Spurious wakeups are allowed but never required.

### Buffer

The n-th byte ever appended is the number n, so that the content says which bytes
it is made of. `ReadFdInto` follows `readFd`: the vector is filled first, the rest
goes through the stack buffer and `append`.

### TimerQueue

One counter stands for both clocks; it advances between any two steps, so
`handleRead` may be late and may take long. A multimap is the sequence of its
timers, `UpperBound` the place its `upper_bound` returns, and `Forever` stands for
`TimePoint::max()`. Callbacks (`cur`) may add timers, which happens in place, and
delete timers, which is always queued. The iterator `upper_it` is a timer that
insertions do not move. A callback of `runAt` or `runAfter` may call anything, one of
`runEvery` may call `runEvery` only if `RunEveryInCallback`.

## 3. Runs

Passing:

| Run | Shows |
|---|---|
| `loop` | no task is lost, doubled or reordered; no written wakeup is consumed without its task being taken; `EventLoop` implements `TaskExecutor`; a task runs if its thread wrote the eventfd, and every task does in a loop that keeps being woken by other channels (a task whose thread did not write may wait for ever in another loop: `loop_quiet`) |
| `poller` | indices and vector stay consistent; `PollPoller` implements `InterestSet`; `removeChannel` fails only beside a hidden channel |
| `server_pool` | two connections, with and without pool threads, peers that close or reset: no use after free, one close, no message after it, entries of the poller belong to their connection, no trace left of a freed one |
| `server_users` | other threads send, shut down, close and drop their pointers at any time: a freed connection is touched only through a task bound to a raw `this`, or after `state_` was overwritten, and a closed connection is freed (or the process has died of that) if no loop stays in `poll` for ever with tasks queued |
| `pool` | the handshake, even dealing, termination of `start()` |
| `buffer` | indices in range, bounded growth; `Buffer` implements `ByteQueue` |
| `timer` | no early, lost, late-deleted or drifting timer; the timerfd is armed for the earliest; every timer that `addTimerInLoop` entered fires |
| `connector` | an open socket of the connector has exactly one future; a descriptor is in one poller, registered by its owner; the address survives; every dial ends if no loop stays in `poll` for ever with tasks queued. This run also carries the type invariant of `TcpServer`, which two modules share |
| `stream` | the stream is what was taken, of whole messages, each sender's in order; the FIN comes after it; what was taken is written; a shutdown has its effect if the loop does not stay in `poll` for ever with tasks queued |

Disagreements of the code with its own comments and tests, each with a
counterexample (`PROJECT.json`, "findings"):

| Run | What happens |
|---|---|
| `loop_quiet` | a task that another thread queues while the batch runs, with `doing_the_tasks_` up, wakes nobody and waits for the next event, for ever if there is none |
| `server_two_close` | two connections closed in one round: `removeChannel` dereferences null |
| `stream_fin` | a thread sends twice and shuts down: `handleWrite` sees the new `state_`, drains the first message and shuts the write side down while the second is still a queued task; it is dropped with `EPIPE` |

Further ones, each reproduced by a configuration of its own:

| Configuration | What happens |
|---|---|
| `TcpServerRawThis.cfg` | `NoUseAfterFree` fails: `send()` of another thread binds a raw `this` (`tcp_connection.cc:79`); a thread that drops its pointer after sending leaves a task for a freed connection |
| `TcpServerCloseTwice.cfg` | `CloseOnce` fails: `forceClose` (`tcp_connection.cc:168`) reads `state_` and writes it in two steps; `handleClose` in between is overwritten, and the connection is closed again. The same overwriting lets a queued `sendInLoop` enable the write event of a channel that was removed, so that the connection is freed while it is registered: the second case of `UseAfterFreeNeedsRace` |
| `TcpServerErrorClose.cfg` | `CloseOnce` fails: `handleChannel` (`channel.cc:27`) calls the read callback after an error callback that closed the connection |
| `TcpServerStaleEvents.cfg` | `CloseOnce` fails: a connection closed by another's callback is closed again by its own pending event (`event_loop.cc:49`) |
| `TcpServerNoCallback.cfg` | `NoEmptyFunction` fails: `connectComplete` (`tcp_connection.cc:63`) calls `connect_cb_` unchecked, and the second echo server of the README sets none |
| `TcpServerAcceptFails.cfg` | `RegisteredAsItself` fails: failed accepts become connections with descriptor -1, the second of which overwrites the timerfd's entry |
| `ConnectorAddress.cfg` | `PeerAddressAlwaysKept` fails: `handleWrite` uses `addr` after it erased the channel that owns it (`connector.cc:84`) |
| `BufferInts.cfg` | `IntsReadBack` fails: `readInt…` moves the index before it looks (`buffer.h:128`), unlike `test/buffer_test.cc:102` expects |
| `TimerQueueCoincide.cfg` | `TimerFires` fails: a time difference of exactly zero disarms the timerfd (`timer_queue.cc:111`) |
| `TimerQueueReentrant.cfg` | `NoEarlyFire` fails: `runEvery` in the callback of a repeating timer inserts before `upper_it` and is called at once (`timer_queue.cc:84`). `DueIsCalled` fails with it: if the new timer comes before the one being called, as it can once timers are called early, the final `erase` (`timer_queue.cc:89`) removes it uncalled and it is lost |

The type invariants of `EventLoop`, `PollPoller`, `TcpConnection`, `Buffer`,
`LoopThreadPool` and `TimerQueue` are proved; that of `TcpServer` and `Connector` is
checked by the run `connector`, and proved (`Types` in `ServerCalls`) but for the
bound on `index_`.

### Bounds

* `EventLoop`: two threads and three tasks, so that a push can fall before, during
  and after a batch and two pushes can share a wakeup. The proofs lift the bound.
* `PollPoller`: three channels and three descriptors, 0 among them: the smallest
  number for which a moved entry is neither the removed nor the first one. The
  proofs lift it.
* `TcpServer`: two connections on one pool loop, or on the base loop, with one
  message and one failed accept (two are the disagreement above), where `error_cb_` may
  shut the connection down but not send (a `send` there and one in `write_complete_cb_`
  together let the task vector grow without end); or one
  connection with two threads making two calls, the fewest for a race on `state_`
  between a read and a write. Descriptors are
  as many as connections, so that they are reused. The proofs lift it for applications
  that call `send` only from other threads.
* `Connector`: two dials and two connections, two descriptors, a server with no
  pool thread or one, an IPv4, an IPv6 and an empty address. A refused dial frees a
  descriptor that the other dial can get while the first connection is closing. The
  proofs lift it.
* `TcpConnection`: two threads and the loop, two messages of up to two bytes, a
  socket that takes one byte until the peer reads, one thread that shuts down or
  closes. Two messages are the fewest that can overtake each other, two bytes the
  fewest that can be cut. The proofs lift all of it; the liveness properties stay
  with TLC.
* `Buffer`: initial size 4, stack buffer 3, chunks up to 4, ten bytes: the content
  is moved, enlarged and spilled several times. The proofs lift it.
* `LoopThreadPool`: four threads, three connections each. The proofs lift it.
* `TimerQueue`: two timers, intervals of one and two steps, a time in the past,
  five clock values. In the passing run the clock is read at even times and
  expirations are odd (`TickStep`, `Skew`), so that the clock is never read at the
  very nanosecond of an expiration; `TimerQueueCoincide.cfg` lifts this. The proofs
  lift the number of timers, the delays, the intervals and the length of time.

### Fairness

Weak fairness is assumed of a thread's own steps only (the scheduler runs every
thread, tasks, callbacks and critical sections end). Not assumed: that a socket
becomes ready, that a signal arrives, that a condition variable wakes by itself,
that anybody calls anything. `ActiveLoopRunsAll` has as its premise that some other
channel keeps becoming ready (`[]<>io`), as a timer of `runEvery` makes it.

That a queued task wakes its loop is not assumed anywhere: `queueTaskInThread` writes the
eventfd only for another thread and only while `doing_the_tasks_` is down, and
`loop_quiet` shows a task that stays queued. In detail:

* `TcpServer`, `FairSpec`: a loop that has returned from `poll` finishes its round
  (`RoundStep`); `poll` itself has no fairness. `ClosedIsFreed` therefore has the premise
  `LoopsKeepWaking`, that no loop stays in `poll` for ever with tasks queued, which holds
  of loops with recurring activity (`ActiveLoopRunsAll`). Threads finish their calls and
  drop their pointers some time.
* `Connector`, `ConnectorSpec`: the same, and `poll` returns while a dialled socket is
  writeable, because `POLLOUT` is level-triggered (`PollDial`); `::connect` has an outcome
  at some time, as the kernel's timeout makes it. `DialEnds` has the same premise: its
  hand-overs are tasks.
* `TcpConnection`, `FairSpec`: the loop handles a socket that is writeable or was reset and
  finishes a batch it has begun; that it begins one (`SwapTasks`) is not assumed. A peer
  that does not reset reads what was sent: otherwise output may wait forever, and the
  code has no timeout. `Drains` needs no more, as only `POLLOUT` is awaited; `ShutdownEnds`
  has the premise that the task vector is empty again and again.
* `TimerQueue`, `FairSpec`: the timerfd is polled and handled and time passes; a queued
  `addTimer` or `deleteTimer` need never run (`RunAdd`, `RunDelete` have no fairness).
  `TimerFires` is about timers that `addTimerInLoop` has entered: the timerfd alone must
  wake the loop for them.

A peer need not end its stream, and applications need not call anything.

## 4. Proofs

`EventLoopProofs`, for any sets of threads and tasks:

* `TypeCorrect`: types, and that a thread inside `queueTaskInThread` knows its task.
* `BatchCorrect`: outside `doTheTasks` there is no half-run batch. Needed for the
  next one: the swap replaces `tmp_vec`, which must be empty then.
* `ConservationCorrect`: `queued = ran \o cur \o tmp_vec \o task_vec_`. Inductive
  together with the two above; the lemmas on concatenation are its leaves.
* `WakeupCorrect`: `WakeupPending`. It needs `PushedBeforeWoken`: a thread that is
  about to write has its task in `queued`, hence in `task_vec_` or already taken.
* `ExecutorRefined`: every step is a step of `TaskExecutor` or changes nothing of it.

`LoopThreadPoolProofs`, for any number of threads and connections:

* `HandshakeCorrect`: the inductive invariant `TypeOK /\ Handshake /\ Progress`. The
  handshake alone is not inductive: `Progress` ties the caller's position to the
  number of threads it has filed away.
* `PoolCompleteCorrect`, `SleeperCorrect`: from it, nobody writes `loops_` after
  `start()`, and no notification is lost.
* `IndexCorrect`, `DealtEvenlyCorrect`: from `Dealt`, that the threads below the index
  are exactly one connection ahead.

`TcpConnectionProofs`, for any number of threads, messages of any length and a
socket of any size:

* the inductive invariant `IInv`: types, `StreamConserved`, `WritingIffBuffered`,
  `RoomOK` (the kernel holds at most `Capacity` bytes, so what `::send` takes is a
  number of bytes and the message can be cut there) and `FinQuiet` (nothing waits
  once the write side of an open connection is shut down). `FinAfterTaken` is not
  inductive by itself: a message could be buffered after the FIN. `FinQuiet` and
  `WritingIffBuffered` together send `sendInLoop` to `::send` then, which refuses.
* `SendInLoopKeeps` and `HandleWriteKeeps` are the two lemmas with content, both by
  cutting a sequence in two and associativity; the other actions leave the output
  path alone.
* `StreamIsConserved`, `FinComesLast`, `WriteInterest` and `TypeCorrect` follow.

The second half of the module, with the same generality, proves `OrderOfSends`.
`SenderOrder` speaks of the stream only, and whether the next message continues it
depends on what is queued. `SendInv` therefore says of every queued `sendInLoop` that
it holds one whole message,
which continues what its sender has in the stream or in an earlier queued one, and
that the last byte a sender has sent is in the stream or in the queue (`QueueOK`).
That holds until the socket refuses a message; from then on it refuses every one
(`Refusing`), which is why a refused message leaves no gap in the middle.

`PollPollerProofs`, for any set of channels and descriptors:

* `PollerInvariant`: `PollerInv`, the conjunction of the types, `DistinctFds`,
  `IndexConsistent`, `MapHoldsOwners` (what the map holds under a descriptor is a living
  channel for it) and `EntriesMatchEvents`. No one of the last three
  is inductive alone: `updateChannel` trusts the `index_` of the channel it is called
  with, so the entry of the map under its descriptor must be that very channel, which
  is so because descriptors of living channels are distinct and the map holds living
  ones only. `RemoveOutcome` describes `removeChannel` (the swap with the last entry)
  once, and both the invariant and the refinement use it.
* `IndexCorrect`, `EntriesCorrect`, `TypeCorrect`: its parts.
* `CrashCorrect`: the action property `CrashNeedsHiddenChannel`. An entry with a
  negative descriptor belongs to a channel without events that is not `bare` (`EntryOwner`).
* `InterestRefined`: every call changes what is watched for its own descriptor only.

`BufferProofs`, for every initial size, stack buffer and sequence of calls:

* `BufferInvariant`: `BufferInv`. The content is the run of bytes after those consumed
  (`Holds`), and `peak` is at least what is readable now. The second conjunct makes
  `GrowthBounded` inductive: `makeSpace` enlarges for what is readable, not for what
  ever was.
* `InBoundsCorrect`, `GrowthCorrect`, `TypeCorrect`: its parts. `AppendAppends` and
  `ReadFdAppends` have the content: moving to the front, `resize` and the spill of
  `readv` leave the readable bytes as they are.
* `QueueRefined`: `Buffer` implements `ByteQueue`.

`TimerQueueProofs`, for any timers, delays, intervals and length of time, if callbacks
of `runEvery` do not call `runEvery`, which the hypothesis `RunEveryInCallback = FALSE` of
each says (with such callbacks `NoEarlyFire` and `DueIsCalled` are false, see
`TimerQueueReentrant.cfg`):

* `TimerInvariant`: `TimerInv`. `MapsOK`: both multimaps are sorted and hold no timer
  twice. `PlacesOK`: a timer is in one place only, and what was deleted in none.
  `TasksOK`: a timer still to be added is nowhere yet, and its deletion is queued
  behind. `HalfOK`: within the second half of `handleRead` the timers before `upper_it`
  are exactly those that were due, and `to_update` and the running timer are the first
  of them. The last is what makes the walk of the iterator right: insertions of
  callbacks go to the other multimap, deletions wait for `doTheTasks`.
* `NoEarlyFireCorrect`, `DeletedIsGoneCorrect`, `DueIsCalledCorrect` (an action property),
  `TypeCorrect` follow from it.
* `NoDriftCorrect` needs `DriftOK`: `NoDrift` speaks of the time outside `handleRead`;
  within it a timer that was called and not yet moved is one call ahead (`Moves`).
* `TimerfdArmedCorrect` needs `ArmInv`: `min_expiration_` is no later than any timer, the
  timerfd no later than that, and no timer is at `TimePoint::max()`. It assumes
  `NeverCoincide`, that expirations fall between the times at which the clock is read;
  without it the statement is false (`TimerQueueCoincide.cfg`).

Without any assumption on callbacks:

* `OneShotNeverEarly`: the callback of `runAt` or `runAfter` is never early. `OneShotInv` says
  nothing of `timer_map_repeat_`, which re-entrant callbacks disturb: only that the timers
  in `timer_map_once_` and in `to_delete` repeat never, that those in `to_delete` are due
  (`SplitMembers`, true of any sequence, sorted or not) and that `timerUpdate` does not
  move a timer whose duration is zero.

The multimaps are sequences, and the re-insertion of `to_update` (`InsertAll`) is a
recursive function; that it keeps them sorted for any number of timers is an
induction, done by the least counterexample (`LeastOf`, `UpTo`), because the library's
induction theorems cannot be applied by the provers at hand.

`ServerActionProofs` and `ServerProofs`, with the invariant of `ServerCalls`, for any
number of connections, descriptors, pool threads, users, dials and calls. What a loop has still to call is its stack of calls, then the rest of the
batch, then its task vector: the sequence `todo[l]`. A step takes the first call of one
loop's `todo`, puts the calls it makes in its place and may append one to a loop's
vector, so a few lemmas (`StepsKeep`, `OwnConnStep`, `OwnDialStep`, `PushStep`) serve all
actions.

* `ServerInvariant`, `ConnectorInvariant`: `ServerInv`. None of the properties is
  inductive; what carries them is
  - `CallsOK`: what each call relies on. A `removeConnection` holds the connection, which
    is closed and in the map; a `destroyConnection` holds it, closed and no longer in the
    map; a `handleRead` has an open one; a `sendInLoop` on a raw `this` has a user who
    keeps it, unless threads may drop their pointer (`MayDangle`); a `newConnection` has a connected socket that has left `conn_map_`;
  - `OnceOK`: at most one call that moves an object on in its life is under way. Without
    it a second `removeConnection` could find the map's entry gone or another's;
  - `OrderOK`: what may lie above what on a stack. `handleClose` is the first call of its
    event, so nothing of the same event runs after a close except what tolerates it;
  - `ActiveOK`: a channel still to be handled in this round is open, listed once and not
    on the stack. This is where another connection's callback would do harm;
  - `FdOK`: connections that are linked (in the map, or on the way out but still in a
    poller) and open dials do not share descriptors, so a reused one meets no old entry;
  - `PollOK`, `RegOK`, `WaitsOK`: what each poller holds belongs to its owner. Until the
    process dies, since the step that kills it leaves `removeChannel` half done.
* `ServerUseAfterFreeNeedsRace`, `ConnectorUseAfterFreeNeedsRace`: threads may drop their
  pointers at any time, so `send()`'s raw `this` may dangle, and `NoUseAfterFree` fails
  (`TcpServerRawThis.cfg`). What is proved is `OnlyRawThis`: a freed object is touched by
  the task that `send()` bound, and by no other step. From the invariant, every call but
  that one holds its object (`NoHarm`). `ServerNoUseAfterFree` is the corollary for threads
  that keep their pointer until their sends have run (`~MayDangle`).
* `ServerCloseOnce`, `ServerNoMessageAfterClose`, `ServerRegisteredAsItself`,
  `ServerFreedIsGone`, `ConnectorOneRegistration` follow from the invariant.
* `ConnectorOneFuture` needs besides that the places `Pending` counts are the places of
  `todo` (`SpotIs`), so that "at most one" of the invariant is a cardinality.
* `ConnectorPeerAddressKept` needs `ReadsBack`: what `FromText` stores for a text of at
  most one word, `Ip` and `Port` return (`TextsFit`: an IPv4 text is one word or empty).

These theorems assume `Friendly`. Each part of it excludes a fault that a configuration
of section 3 shows, so none can be dropped: other threads call only `send`
(`TcpServerCloseTwice.cfg`), a callback acts on its own connection
(`TcpServerStaleEvents.cfg`), `error_cb_` does not call `forceClose`
(`TcpServerErrorClose.cfg`), and `accept` fails at most once
(`TcpServerAcceptFails.cfg`). A thread's `shutdown` is excluded with its `forceClose`: it
overwrites `state_` in the same way. The runs `server_pool` and `connector` are instances.

Assumptions: `NoTask` is not a task; the bounds are naturals; the loop's thread is
none of the others; an initial size and a stack buffer are naturals; no time reaches
`TimePoint::max()`; descriptors are positive, and objects of different kinds are
different.

Only model-checked: all liveness (fairness and `ENABLED` are outside the prover);
`UseAfterFreeNeedsRace` for threads that also shut down and close (`server_users`), under
which most of what `ServerInv` says is false; and the bound on `index_` in the type invariant
of `TcpServer`.

## 5. Not modelled

Copying and moving a `Buffer`; the contexts (`setContext`) and getters of loops and
connections; `Logger` (only logging); `EpollPoller` (an empty class); vendored code
under `deps/`; jumps of the system clock; the destruction of a loop, a pool or a
server (`stop_` is never set); `bind` and `listen`, which end the process when they
fail. A descriptor that leaks when `::connect` fails at once is in the model, but no
property forbids it. An IPv6 address given as text does not read back, unlike
`test/sockaddr_test.cc:28` expects; the model shows it (`FromText`, `Ip`), but since
sockets are `AF_INET` no connection ever carries one.

## 6. Plan

Modelled: event loop, poller, server, connection (life and output path), connector,
addresses, pool, buffer, timers. What is left:

1. A weaker invariant of `TcpServer` for threads that shut down and close, from which
   `UseAfterFreeNeedsRace` follows.
2. A loop with timers and tasks together: `queueTaskInThread` by a timer callback.
