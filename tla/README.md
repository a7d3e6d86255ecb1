# tmms: a TLA+ model of the network library

`tmms` is a C++ network library in the style of muduo: event loops over
edge-triggered epoll, threads that run them, TCP and UDP endpoints on top, and a
few services (DNS table, periodic tasks, logging). This directory holds TLA+
modules for its core, TLC configurations that check them on small instances, and
TLAPS proofs of what matters most for every value of the constants. Sources are
cited relative to the repository (`src/network/net/EventLoop.cpp`), or by their
file name alone.

## 1. The system

| part | state | operations | interacts with |
|---|---|---|---|
| `EventLoop`, `PipeEvent` | `looping_`, `functions_` under `lock_`, `events_`, the wake-up pipe, `wheel_` | `Loop`, `Quit`, `RunInLoop`, `AddEvent`, `DelEvent`, `EnableWrite`, `RunAfter`, `RunEvery`, `InsertEntry` | every other part: callbacks run in the loop's thread; other threads reach it through `RunInLoop` |
| `TimingWheel` | four wheels of slots of shared pointers, `last_ts_`, `tick_` | `InsertEntry`, `RunAfter`, `RunEvery`, `OnTimer`, `PopUp` | ticked by `Loop`; timers are destructors that call back |
| `EventLoopThread`, `EventLoopThreadPool` | `loop_`, `running_`, a mutex, a condition, a promise, a once flag; the pool a counter | constructor, `Run`, `StartEventLoop`, destructor; `GetNextLoop`, `Start` | owner, callers of `Run`, the new thread |
| `MsgBuffer` | a vector and two indices | `append`, `readFd`, `retrieve*`, `unwrite`, `hasWritten` | filled by connections, emptied by message callbacks |
| `TcpConnection` (`Connection`, `Event`) | `closed_`, `fd_`, `event_`, `io_vec_list_`, the timeout entry, contexts | `OnRead`, `OnWrite`, `OnClose`, `OnError`, `Send`, `ForceClose`, `OnTimeout`, `Active` | loop (dispatch, interest), timing wheel, server, user callbacks, other threads |
| `TcpServer`, `Acceptor` | `connections_`, the listening descriptor | `Start`, `Stop`, `OnAccept`, `OnConnectionClose`; `Open`, `OnRead`, `OnClose` | loop, connections |
| `TcpClient` | `status_` and all of `TcpConnection` | `Connect`, `OnRead`, `OnWrite`, `OnClose`, `Send` | loop |
| `UdpSocket`, `UdpServer`, `UdpClient` | the queue of unsent datagrams, idle timeout | `OnRead`, `OnWrite`, `Send`, `OnClose` | loop, timing wheel |
| `SocketOpt`, `InetAddress` | none; an address | one system call each; parsing | |
| `DnsService` | the table of hosts, its thread | `AddHost`, `GetHostAddress`, `OnWork`, `Start`, `Stop` | its own thread and callers |
| `TestContext` | the header length of the message under way | `ParseMessage` | `MsgBuffer` |
| `TaskMgr`, `Task` | the set of tasks under a mutex, next times | `OnWork`, `Add`, `Del` | loop of `main`, task callbacks |
| `FileMgr`, `FileLog`, `Logger` | files, last rotation | `OnCheck`, `RotateX`, `GetFileLog` | `TaskMgr` |
| `Config`, `StringUtils`, `TTime` | the settings | reading, splitting | |

What is hard here:

* *threads*: `RunInLoop` against an iteration of `Loop()`, two loops that hand
  functions to each other, `Quit` against `Loop`, starting and stopping a thread;
* *edges*: epoll reports an edge once, so every handler must take all there is, and
  the registration changes between edge and level (`EnableWrite(false)` clears
  `EPOLLET` too);
* *re-entrance*: callbacks close the connection, send, or start timers in the middle
  of the function that calls them;
* *timers as destructors*: a timer fires when the last of several shared pointers is
  dropped, and moves down the wheels in the destructors of wrappers;
* *partial results*: short writes, errors kept in unsigned integers, reads that fill
  two buffers;
* *numbers*: descriptors run out and are used again, while `events_` is keyed by their
  number, a batch of events names them by number, and `AddEvent` does nothing when a
  number is taken;
* *starting again*: `Start` and `Connect` twice, after a close, or from a callback of the
  close, over flags (`closed_`, `status_`, `connected_`) that nobody resets;
* *time*: delays at the boundaries of the wheels, a clock that jumps, the idle timeout.

The full list, line by line, is under `hazards` in `PROJECT.json`.

What makes the parts correct: a function handed to a loop runs once, in order, in the
loop's thread, without waiting for a timeout, and nobody deadlocks; a timer fires once
and as near its delay as the wheels allow; `Run` yields a loop and the destructor ends
it; a buffer is a stream of bytes; a connection reads all its peer sends, writes all it
is given, in order, and is closed in all places or in none; a server hears all its
connections and goes on accepting, and no descriptor leaks; what a client says of its
connection is true; datagrams go out in order and arrive whole; a host that was added is
resolved, with addresses of its own.

## 2. Modules

| module | models | role |
|---|---|---|
| `LoopQueue` | the promise of `RunInLoop` | abstract specification |
| `EventLoop` | `EventLoop.cpp` (functions, pipe, iterations), `PipeEvent.cpp` | specification, implements `LoopQueue` |
| `MCEventLoop` | | loops, threads and functions for TLC |
| `EventLoopProofs` | | theorems |
| `TimingWheel` | `TimingWheel.cpp`, `.h`, `ExtendLife` | specification |
| `MCTimingWheel` | | delays for TLC |
| `EventLoopThread` | `EventLoopThread.cpp`, `.h` | specification |
| `LoopPartsProofs` | | theorems about `TimingWheel` and `EventLoopThread` |
| `ByteStream` | the promise of `MsgBuffer` | abstract specification |
| `MsgBuffer` | `MsgBuffer.h`, `.cpp` | specification, implements `ByteStream` |
| `TcpConnection` | `TcpConnection.cpp`, the dispatch and the registration in `EventLoop.cpp`, `OnAccept` and `OnConnectionClose` of `TcpServer.cpp` | specification |
| `TcpConnectionProofs` | | theorems |
| `Descriptors` | `events_`, epoll and the kernel's numbers: `AddEvent`, `DelEvent`, `Event::Close` | operators that the server, the client and UDP share |
| `DescriptorsProofs` | | lemmas about them |
| `TcpServer` | `TcpServer.cpp`, `Acceptor.cpp`, the dispatch of `EventLoop.cpp` for many sockets | specification, over `Descriptors` |
| `TcpServerProofs` | | theorems |
| `TcpClient` | `TcpClinet.cpp` | specification, over `Descriptors` |
| `TcpClientProofs` | | theorems |
| `UdpSocket` | `UdpSocket.cpp`, `UdpServer.cpp`, `UdpClient.cpp` | specification, over `Descriptors` |
| `UdpSocketProofs` | | theorems |
| `DnsService` | `DnsService.cpp` | specification |
| `DataProofs` | | theorems about `MsgBuffer` and `DnsService` |

Definitions keep the names of the source, with its spelling (`RunFuctions`,
`kTmingTypeSecond`). Definitions introduced as "Mutant of" are wrong versions of the
definition after them; nothing uses them but the check that each property can fail.

### EventLoop

The state is `looping_`, `functions_`, `lock_` (its holder), `pipe_event_`, the number
of words in the pipe, whether the pipe is on epoll's ready list, and a program counter
per thread. A loop and its thread have one name. `Post` is a call of `RunInLoop` by
another thread; `Push`, `CreatePipe`, `WritePipe` and `Unlock` are its steps, which a
loop's thread takes too when a function it runs calls `RunInLoop` on another loop. An
iteration is `TestLooping`, `EpollReturns`/`EpollTimesOut`/`EpollFails`, `OnRead` (one
step per word), `LockFunctions`, `Front`, `Call`, `Pop`, `UnlockFunctions`, `OnTimer`.
The only thing a function does that this module can tell is to call `RunInLoop`
(`Then`). The dispatch of sockets and the timers are one step, `OnTimer`, or absent:
they have modules of their own. A further word written to a pipe that is not empty may
or may not be reported as another edge; kernels differ.

### TimingWheel

`wheels_[k][i]` is the set of entries in slot i of wheel k: the timer itself, or a
wrapper with the rest of the delay. `OnTimer` reads the clock; `Tick`, `NextWheel` and
`EndTick` are the body of its loop; `PopUp` moves a slot to `dying`, whose entries are
dropped one at a time in any order, because an `unordered_set` has none and each
callback may start timers: `DropWrapper`, `DropReference`, `Fire`. `Start` is
`RunAfter`, `RunEvery` or `InsertEntry` from the loop's thread, `ExtendLife` an
insertion of an entry that is alive. Delays are whole seconds, as the conversion from
`double` to `uint32_t` in `RunAfter` makes them. `due` is history: the tick at which
the arithmetic of `Due`, which knows no slots, says that the timer fires.

### EventLoopThread

One object, its owner, the threads that call `Run` and the thread of `StartEventLoop`.
`Construct` is the initialisation of the members declared after `thread_`; the thread
may use them before. `condition_.wait` is two steps, `Wait` (the predicate) and
`GoToSleep`, so that the constructor may come between them: `lock_` is then free
although the thread is about to sleep, a notification finds nobody, and the thread
sleeps for ever with `running_` set. What a mutex, condition, flag or promise does that
is used before its initialisation, or initialised while it is in use, is undefined; the
model takes the outcome of the present libraries, where the members are overwritten with
zero bytes and the memory may have held anything before: a mutex may look taken
(`Stuck`), a promise is not there (`Crashed`). `overwritten` is history. `lock_` is held
during all of `Loop()`, as in the code.

### MsgBuffer

The vector, its size and the two indices, and all operations that change them. `readFd`
takes any number of bytes up to what `readv` was offered. `taken` and `peak` are
history: what the last operation gave its caller, and the most bytes ever readable.
Precondition asserts (`len <= readableBytes()`) are guards: calls that violate them are
the caller's fault.

### TcpConnection

One connection after `OnAccept`, with its loop's program counter, the kernel's side of
the socket (`sock`, `inbuf`, `sndbuf`, `ready`: marked external in the map) and the
functions queued by other threads. The peer sends, acknowledges, closes and resets
between any two steps. `message_cb_` and `write_complete_cb_` do nothing, send or close,
the second also from inside `OnWrite`'s loop and `SendInLoop`, where it may be called
again before it has returned. A message is a buffer, a list of one node or a list of
none; buffer and node may be empty. A list of several nodes is that of one node, called
several times: `Send(list)` does nothing else between two nodes. `Advanced` is the inner
loop of `OnWrite`, which erases pieces while bytes are left to account for, so that an
empty piece at the end stays. `writev` refuses more than `IovMax` pieces. Bytes sent are
pairs of message and index, so that loss, repetition and order can be told; index 0 is
the byte before the message. Received bytes are counted. `write()` takes what there is
room for; EINTR does not happen on a non-blocking socket. A write after the error of a
reset has been reported raises SIGPIPE, which nothing handles: the process ends
(`Killed`). The object is assumed to be kept alive by the program, and the buffers given
to `Send` too. `missed` is history: whether what waits to be sent may have no edge to
come.

### Descriptors

A table is a record: what file each number is open on, the numbers epoll watches and has
ready, the object `events_` has for a number, and the number each object believes it has
(`fd_`). The kernel gives the lowest free number to the next socket and drops a closed
number from epoll; `events_` is changed by `AddEvent` and `DelEvent` only. The operators
take a table and give the next one. `Hears(t, o, f)` is what the three modules ask of
it: `events_` and epoll both lead from the file `f` to the object `o`.

### TcpServer

The acceptor, the connections in `connections_`, the backlog and each peer's socket, and
one loop. An iteration takes a batch of events (what epoll has ready), dispatches them
one after the other by number, as `Loop()` does, runs the queued functions and the
timeouts. `OnRead` of the acceptor is a loop of accepts, after each of which
`new_connection_cb_` may close the connection it is given; `message_cb_` may close any,
or call `Start`, which opens the acceptor at once, in the middle of a batch. `Stop` is
not queued by the code either: `CallStop` takes the acceptor out of the loop at any
time. `accept4` may fail at any time (no memory, too many files, an error of the
network), whereupon `OnClose` opens the acceptor again, and an `Open` without a socket
ends the process (`OpenFails`). The rest of the program holds a descriptor, which it may
close, so that descriptors run out. `crossed` (a callback closed a connection other than
its own, or called `Start`, before the end of the batch) and `reopened` (`Start` was
called on an open acceptor) are history, and name the exceptions of the properties. What
a connection reads and writes is left to `TcpConnection`; here a socket has input or
not, and reading takes it.

### TcpClient

Handlers are operators from the record `client` (`status_`, `closed_`, the table, the
sockets, what epoll was asked for) to the set of its next values, so that a handler can
call `close_cb_`, which may call `Connect`, which may fail and call `OnClose` in the
middle of another `OnClose`. `connected_cb_` and `message_cb_` (`Callback`) do nothing,
call `ForceClose` or `Connect`, which run at once; `OnRead` then goes on with the socket
that `fd_` is by then. A `Send` of a callback runs at once and goes to the current
socket, which changes nothing here. Each `Connect` is an attempt with a socket of its
own, which the peer accepts, refuses, closes or resets. `over` (attempts that the next
one overtook), `late` (attempts made after a close), `reentered` and `swallowed` are
history.

### UdpSocket

One socket of either kind, its loop, and a neighbour that opens a descriptor whenever
one is free. A message is its number and size, one that arrives only its length. The
kernel takes `SndCap` datagrams before it is full. `msg_buffer_` is a number of bytes
free and used; the callback takes all, or leaves some. An empty message is taken for a
failure, as in the code, and a message too long is refused. `Send(list)` is modelled for
the server with a list of one datagram, and is absent in the client, which hides it
behind an empty function. `message_callback_` and `write_complete_callback_` do nothing,
send, call `ForceClose` or, of a server, `Stop`. `close_callback_` is called in the
middle of `OnClose`, between `closed_ = true` and `Event::Close`; it does nothing, or
calls `Stop`, which leaves the loop and finds `closed_` set, or `Start`, whose new
socket the rest of `OnClose` closes in place of the old one (`Restarted`). A `Send` from
it is a `Send` just before the close. `connected_cb_` is the last call of
`ConnectInLoop`: what it does is what a function queued next does. `again` (opened while
open, or a server after a close), `unclean` (a close that left the loop uninformed, or
`Start` in `close_callback_`), `missed`, `left` and `cut` are history.

### DnsService

The table, the worker's round over its copy of the table, and a program that adds hosts,
sets the parameters, and starts and stops the worker. Functions under `lock_` are one
step. A lookup gives the host's addresses; one that fails leaves `res` as it was, which
is the last answer (the same place of the stack), or ends the process. IPv6 addresses
are dropped: the branch for `AF_INET6` is inside the one for `AF_INET`. Hence a host
that has none but these is never resolved, however often it is tried. `Slot` is the
conversion of `index`, an int up to `MaxIndex`, to a `size_t` of `Width` bits, and the
remainder.

## 3. What TLC checks

| run | shows | bounds |
|---|---|---|
| `loops` | `QueueIsGuarded`, `NoLostWakeup`, `NoSelfDeadlock`, no deadlock, `RunsInOrder` (`LoopQueue` with its fairness), `QuitEndsLoop`, `HandedFunctionRuns` | 2 loops, 2 threads with a function each that leads to another, a pipe of 1 word |
| `loops_cross` | **violated** `HandedFunctionRuns` | functions in both directions |
| `wheel_one` | `NeverOverdue`, `FiresNearDelay` | 1 timer of every delay, every phase |
| `wheel_many` | `FiresWhenDue` | 2 timers of all kinds, clock jumps of 2 |
| `thread` | `LoopIsThere` (`RunYieldsLoop`, `NoDanglingLoop`), `RunReturnsOrOverwritten`, `DestructorReturns` | 3 callers of `Run` and the owner |
| `buffer` | `Bounded`, `IsByteStream`, index order (`TypeOK`) | 2 byte values, a few bytes |
| `connection` | `NoLostEdge` (`NoLostRead`, `OutputIsWritten`), `CloseIsComplete`, `AllReadBeforeClose`, `NothingLost`, `NoMessageAfterClose`, `InputIsRead` | 3 sends of 0 or 2 bytes in 3 ways, room for 3, 2 bytes from the peer, `writev` of 2 pieces at most; 1.7 million states |
| `connection_wrap` | **violated** `SendsTheData` | 2 messages of 2 bytes |
| `server` | `EverybodyHears` (`ConnectionsHear`, `AcceptorHears`), `NoDescriptorLeaks`, `EventsReachTheirSocket`, `NobodyWaitsUnseen` | 3 peers, 3 descriptors, 3 calls from outside, 2 signals; 1.6 million states |
| `client` | `StatusIsTrue` (`ConnectedIsConnected`, `OutcomesAreSeen`, `DisconnectedLeavesLoop`), `AttemptsGiveDescriptorsBack`, `NoInputIsLost`, `MessagesKeepTheirConnection` | 3 calls of `Connect`, 2 descriptors, 1 `Send`, 2 `ForceClose`; 1.3 million states |
| `udp` | `EachOnceInOrder`, `WaitingIsWritten`, `InputIsReceived` (`ArrivingIsRead`, `DatagramsAreWhole`), `OthersHear`, `NoDescriptorLeaks` | both kinds, opened twice, 2 messages (empty, good, too long), 2 arriving, room for 1; 11.2 million states |
| `dns` | `LookupsAreRight` (`OwnAddresses`, `EachIndexFinds`), `StopReturns`, `AddedIsResolved` | 3 hosts: one good, one whose lookup may fail, one without IPv4; a `size_t` of 8 bits, an int from -5 to 4 |

`TypeOK` is an invariant of `buffer`, `connection` and `server`, where the types say
something of the code (the indices stay in their bounds, `OnWrite` takes no more from a
piece than it has, a number is open on one thing); in the other modules it documents the
state, and holds when it is added to their runs.

Why the bounds are enough. `loops`: two loops and two threads give every pair of actors
that can meet at a lock, a pipe and a queue; the pipe fills up, and the theorems of
section 4 cover larger ones. The wheels are scaled down (3 seconds to a minute, 2
minutes to an hour, 2 hours to a day, 2 days) because the code uses only the ratios:
every slot is used, every wheel turns several times, and delays go past the limit; the
theorems of section 4 hold for the real lengths. The buffer starts with so few bytes
that it moves, grows and runs over into `extrabuf`. In `connection` the second message
of 2 bytes does not fit the socket, which has room for 3, so partial writes happen; with
three messages the queue holds a part and a whole, an empty piece before or behind them,
or one piece more than `writev` takes. In `server` three descriptors are the acceptor
and two connections, or one if the rest of the program holds one: the third peer meets a
used number or none at all, in the same batch of events as the close that frees it.
Three attempts of a client are one that is closed, one that overlaps, and one over what
these left. In `udp` two messages make one wait behind the other or pass it, and two
arriving datagrams of 2 and 4 bytes fill a buffer of 3 exactly, partly, or too much. In
`dns` only the order of the steps matters, and each kind of host is there once; a list
has 1 or 3 addresses, and an index goes round it in both directions. Other widths of
`int` and `size_t` are covered by the theorem.

`MCTimingWheel_*` and `EventLoopThread*` switch the deadlock check off because these
systems end: the clock of the model stops at `MaxNow`, and the object is destroyed.
`TcpConnection.cfg` and `DnsService.cfg` do so because the process may end,
`MCEventLoop_cross.cfg` because the deadlock is what it shows.

Fairness. A thread that can run does run (weak fairness of its steps). A mutex that is
free again and again is granted to a thread that waits for it, and a signal does not
interrupt every `epoll_wait` (strong fairness of those steps). Nothing is assumed of
`Quit`, of failures of `epoll_wait`, of spurious wake-ups, of the callers of `Run` and of
the destructor. In `TcpConnection` a peer that is there takes what it is sent; it need not
send, close or reset, and no timeout need happen. In `DnsService` the worker and the
`join` of `Stop` go on; nothing is assumed of the program or of lookups. `TcpServer`,
`TcpClient` and `UdpSocket` assume no fairness: what must not be forgotten is stated as
"when the loop is about to sleep, it is on epoll's ready list", which needs none and
fails at the step that loses it.

### What the code does not do

Two runs show a disagreement between the code and its own comments:

* `loops_cross`: `RunFuctions` holds `lock_` while it calls functions; two loops whose
  functions hand functions to each other deadlock.
* `connection_wrap`: a failed `write()` is kept in a `size_t`, and the byte before the
  message is sent.

The other properties name, as exceptions, the cases in which the code fails to do what
they ask, and show that there is no other. Each exception is needed: without it TLC finds
a counterexample.

* `RunReturnsOrOverwritten`: `EventLoopThread` starts its thread before the members the
  thread uses are initialised; `Run()` may then wait for ever, in one of four ways:
  `lock_` looked taken, the thread held it or slept in `condition_` when they were
  overwritten, or it kept a promise that was not there yet.
* `DestructorReturns`: a `Quit` before `Loop()` has begun is forgotten.
* `InputIsRead`: when `OnWrite` has written everything it calls `writev` with nothing
  again and again, unless the callback closes the connection; so it does when what is
  left is an empty piece of a `Send(list)`, which is never erased, and what is queued
  later waits for ever.
* `OutputIsWritten`: `Send(list)` does not ask for `EPOLLOUT`, and when a connection is
  readable and writable at a time only `OnRead` is called; the data waits for the next
  `Send`. `WaitingIsWritten` says the same of datagrams.
* `ConnectionsHear`, `AcceptorHears`, `NobodyWaitsUnseen`: `Start` on an acceptor that is
  open leaves its old number in `events_`, and the socket that gets the number is deaf.
* `EventsReachTheirSocket`: a callback that closes another connection of the same batch,
  or that starts the server again. In that case `OnError` of the old socket would close
  the new one.
* `AllReadBeforeClose`: a queue of more than `IOV_MAX` pieces closes the connection.
* `ConnectedIsConnected`, `DisconnectedLeavesLoop`, `AttemptsGiveDescriptorsBack`,
  `MessagesKeepTheirConnection`, `OutcomesAreSeen`: `Connect` while an attempt is under
  way or connected, which `connected_cb_` and `message_cb_` may do too, after a close,
  or from `close_cb_`.
* `NoInputIsLost`: a peer that speaks first. If `OnRead` notices the connection, what is
  there already is not read until more comes.
* `ArrivingIsRead`, `NoDescriptorLeaks` (of `UdpSocket`), `OthersHear`: a server started
  again after it was closed is deaf and never closed; one that closes itself without
  `Stop` stays in `events_`; one that is started from `close_callback_` leaks its old
  descriptor and leaves the new one, which is closed at once, in `events_`, even if
  `Stop` was called. `DatagramsAreWhole`: what a callback leaves in the buffer shortens
  the next datagrams, and a full buffer ends reading.
* `OwnAddresses`, `StopReturns`, `AddedIsResolved`: a failed lookup uses a `res` that
  nobody set.

`FiresNearDelay` in the same way says how wrong timers can be: the comments of
`TimingWheel.h` promise a function after `delay` seconds, and from a minute on it may run
up to a unit of its wheel too early, or slightly late. A delay of more than 30 days is
refused, which runs the function at once.

## 4. What is proved

The proofs are about the safety part of a specification, for all values of the
constants that satisfy its `ASSUME`, and use nothing else. Each follows the same plan: an
inductive invariant `IInv`, a conjunction of named parts, that holds initially and is
kept by every action (one lemma or step for each), and implies the properties. TLC found
no reachable state that violates an `IInv` before it was proved.

### EventLoop: any loops, threads, functions, scripts and pipe size

* `QueueIsGuardedTheorem` (`QueueIsGuarded`), `WakeupTheorem` (`NoLostWakeup`),
  `SelfDeadlockTheorem` (`NoSelfDeadlock`), and `Refinement`: `SafeSpec =>
  Queue!SafeSpec`.

`NoLostWakeup` is not inductive. `IInv` adds: who is inside a guard holds the lock and
nobody else does (`GuardInv`, `RunInv`, `OwnerInv`), a loop hands functions to other loops
only (`OtherInv`), the function that runs is still in the queue (`FrontInv`), a word in
the pipe is announced unless `OnRead` is about to take it (`EdgeInv`), and functions that
came after the last `RunFuctions` left a word or a thread about to write one
(`WordInv`). The last is what makes the wake-up hold: between `OnTimer` and `epoll_wait`
nothing drains the pipe.

### TimingWheel: any timers, delays, lengths of the wheels and readings of the clock

* `TypeOKTheorem`, `NeverOverdueTheorem` (`NeverOverdue`), `FiresWhenDueTheorem`
  (`FiresWhenDue`) and `FiresNearDelayTheorem` (`FiresNearDelay`): both runs' properties.

The idea is to give every pointer the tick at which it will be gone, wrappers unwrapped
(`SlotEnd` for one in a slot, `DropEnd` for one about to be dropped), and to forget in
which slot it is: `Held(s, t, x)` says that there is a pointer to t that is gone at tick
x. `InsertEntryAdds` says that `InsertEntry` adds one such pointer, with x = `Due(d)`.
`PopUp` moves every pointer and changes no x (`PopUpKeeps`), because the slots move by
one place exactly when the quotient of tick and unit grows by one (`QuotientSteps`,
`TurnIs`); nor does dropping a wrapper, whose rest is inserted from the tick of that
drop. So the invariant is about x alone: a pointer is to a timer that lives (`LiveInv`),
the last pointer to a timer is gone when the timer is due, and not after the one another
insertion would add now (`DueInv`). The second half is why `ExtendLife` never shortens a
life; it needs that `Due` of the same delay never moves back as the clock goes on
(`DueMonotone`). `NearInv` is arithmetic: each wheel loses less than one unit to its
phase, and only the first one can, because a rest begins at a multiple of its wheel's
unit (`WholeDivisions`: the lengths divide each other).

### EventLoopThread: any number of callers of `Run`

* `LoopIsThereTheorem` (`LoopIsThere`).

That `Run` returns a loop that is there is a chain: `Run` returns after `call_once` is done,
which is after the promise is kept, which is after `loop_` is set (`PromiseInv`).
The initialisation of the members after the thread has started could break the chain; it
does not, because nobody has called `Run` by then and the thread cannot have kept its
promise (`EarlyInv`).

### MsgBuffer: any sizes of the vector, of the data and of `extrabuf`

* `IndicesTheorem` (`TypeOK`: the order of the indices), `BoundedTheorem` and
  `StreamTheorem`: `Spec => IsByteStream`.

`IInv` is `TypeOK`, `Bounded` and `readableBytes <= peak`. The argument is about windows of
the vector: copying data behind a window makes it the window followed by the data
(`CopiedContinues`), moving keeps it (`MovedKeeps`), and each operation is one of these or
changes the window from one end.

### TcpConnection: any messages, sizes and numbers of sends, bytes from the peer, room

* `TypeOKTheorem`, `CloseIsCompleteTheorem`, `AllReadTheorem` (`AllReadBeforeClose`),
  `NoLostEdgeTheorem` (`NoLostEdge`), `NothingLostTheorem` (`NothingLost`), and
  `NoMessageTheorem`, the action property `NoMessageAfterClose`.

`CloseIsComplete` is one part of `IInv`, and the others lean on it. `CauseInv` says what
ended a connection and what the kernel has seen of it by then, so that
`AllReadBeforeClose` follows. `ReadInv` and `WriteInv` say of every place of the loop,
and not only of `epoll_wait`, who will still look at the input and at the output: the
edge that is ready, the handler that is running, or one that is about to be called;
`missed` names the rest. `NothingLost` is inductive once it is known what `Advanced`
leaves of `io_vec_list_` after a short `writev`: the list without its first n bytes (the
lemmas about `FlattenSeq`). `FlattenSeq` is recursive, and what it computes is proved
without induction, from the least index at which two such functions would differ.

### Descriptors and TcpServer: any peers, connections, numbers and calls

* `DescriptorsProofs`: what `OpenAs`, `AddEvent`, `DelEvent`, `EdgeOf` and `Close` do to a
  table, field by field. A number is chosen as the least that is free, which exists by the
  least-number principle.
* `TypeOKTheorem`, `NoDescriptorLeaksTheorem`, `EverybodyHearsTheorem`,
  `EventsReachTheorem` (`EventsReachTheirSocket`) and `NobodyWaitsUnseenTheorem`: all the
  properties of the run.

`Good(table, connections_)` relates the table to the objects: nobody shares a number,
every number that is open has an owner, `connections_` are the open connections, epoll
watches open numbers only. It does not say that `events_` and epoll agree with the
objects: that is `HeardInv`, which a second `Start` breaks (`reopened`), and `Good` must
hold all the same. `StartInv` says that before the first `Start` nothing is open but
what the rest of the program holds, so that a number is left for the acceptor.
`BatchInv` is about what `Loop()` has still to dispatch: one event for a number, none of
a number that was closed meanwhile, unless by a callback of another connection
(`crossed`). `UnseenInv` is `NobodyWaitsUnseen` wherever the loop is: the peer is ready,
in the batch, or being served.

### UdpSocket: any messages, sizes, buffers, openings and numbers

* `EachOnceInOrderTheorem`, `WaitingIsWrittenTheorem`, `InputIsReceivedTheorem`
  (`ArrivingIsRead` and `DatagramsAreWhole`), `OthersHearTheorem` and
  `NoDescriptorLeaksTheorem`: all the properties of the run.

`OrderInv` puts the messages in one line: the wire, then `buffer_list_`, then what
`SendInLoop` has not been given (`Taken`), which the queue of functions counts
(`CountInv`; the lemmas about `Count` are about the cardinality of a set of indices).
`FlagInv` is what the three flags say of the table: `connected_` is that a client has a
number, a close that the loop was not told of (`unclean`) is one of a server that has
`closed_` set for good, and `events_` and epoll agree until then (`Registered`).
`ReadInv` and `WriteInv` say who will look at the input and the output at every place of
the loop, as for a connection. Every close goes through one lemma, `OnCloseKeeps`,
whoever calls `OnClose` and whatever `DelEvent` or a failed `socket()` has done to the
table before (`Shrunk`).

### TcpClient: any number of connects, sends, closes and numbers

* `StatusIsTrueTheorem` (the three parts of `StatusIsTrue`),
  `AttemptsGiveDescriptorsBackTheorem`, `NoInputIsLostTheorem` and
  `MessagesKeepTheirConnectionTheorem`: all the properties of the run.

The hard part is a client in the middle of a handler: `OnClose` calls `close_cb_`, which
may connect, fail, and come back to `OnClose`. `Sound` is what holds of the record
`client` at every such point (numbers and sockets belong together, and an open socket is
the current one or in `over` or `late`), `Closable` what `OnClose` needs of it, and
`Tidy` what it leaves behind, whoever calls it (`OnCloseEnds`). `Begun` and `Ended` are
all that a callback can do to a tidy client (`CallbackIs`): an attempt with a socket of
its own, or a close; and both compose. `Heard` says that an active client is in epoll
and asked for what it waits for, unless it was `reentered`. `Alone` is about clients
none of whose attempts overtook another (`Clean`): epoll knows only the current socket,
whose state fits `status_`. It needs `BatchInv`, that the one event to dispatch is then
of a socket that is no longer connecting. `InputInv` and `OutcomeInv` say who will still
look at the input and at the end of a connect, and `SendInv` that a queued message is
for the current socket, an overtaken one, or a client that is closed.

### DnsService: any hosts, of any kind, any int as an index

* `LookupsAreRightTheorem` (`OwnAddresses` and `EachIndexFinds`).

`ListInv` adds to `OwnAddresses` what the vector holds that is about to be swapped into the
table: an answer for this very host, unless its lookup failed. `EachIndexFinds` is
arithmetic (`SlotIs`): a negative index becomes a `size_t` near 2^`Width`, and neighbours
stay neighbours on the circle (`NextRemainder`), but for -1 and 0.

`EventLoopThread` and `DnsService` have names of their own for `Init`, `Next`, `Spec`
and the tuple of their variables (`ThreadInit`, `DnsInit`, ...), so that
`LoopPartsProofs` and `DataProofs` can each extend two components. Nothing else connects
the two components of such a module: no theorem is about both.

### Assumptions

They are the types of the constants and that names of different things differ; those
of `Descriptors` and `TcpServer` are that there are finitely many numbers, at least two (the
program has one and the acceptor needs one), that the listening socket, the files of the
rest of the program and "no file" are three things, that in `UdpSocket` the neighbour's
file is one, and that in `TcpClient` the files of the rest of the program are no attempt's.
In `TimingWheel` a minute divides an hour and an hour a day, each is longer than the one
before, and a minute has more than one second. In `DnsService` every int from 0 fits into a
`size_t`; that 2^`Width` is a natural number is stated because the provers know nothing of
powers.

### Only model-checked

All liveness properties: `HandedFunctionRuns`, `QuitEndsLoop`,
`RunReturnsOrOverwritten`, `DestructorReturns`, `InputIsRead`, `StopReturns`,
`AddedIsResolved` and the fairness part of `LoopQueue`, which this prover cannot handle.
What needs no fairness was stated as safety (`NoLostEdge`, `NobodyWaitsUnseen`) and is
proved as such.

## 5. What is not modelled, and the plan

Not modelled, and why:

* data races whose outcome is undefined: `events_` changed by the thread that first calls
  `RunInLoop`, or by `TcpServer::Stop`; `RunAfter` with a temporary function; `running_`
  and `retry_` of `DnsService`, which are taken to be atomic;
* a few callbacks: `Start` from `new_connection_cb_` and `destory_connection_cb_` of a
  server and from `message_callback_` and `write_complete_callback_` of a `UdpServer`,
  and the `connected_cb_` of a client's `connect()` that succeeds at once inside another
  callback. Nothing is claimed of programs that use them so;
* EINTR of a non-blocking `accept4`, `read` and `write`, which Linux does not return, and
  failures of `bind` and `listen`, which the code does not look at;
* lifetimes: the objects and the buffers given to `Send` stay. The destructors of
  `Acceptor` and `UdpServer` call `shared_from_this`, which throws;
* the bytes `OnWrite` of `UdpSocket` sends (`buf->sock_addr` in place of the data): which
  datagram is sent is modelled, not what is in it;
* tasks and rotation: `main` never calls `TaskMgr::OnWork`, and `FileLog::SetRotate` is
  empty, so neither a task nor a rotation ever happens in this program;
* `Config`, `Singleton`, `TTime`, `Logger`, `LogStream`, `InetAddress`, `StringUtils`:
  input, output and text, without state that changes;
* `EventLoopThreadPool` (a counter over `EventLoopThread`s), `Connection` (a flag and a
  map) and `TestContext` (the parser of the test programs): not modelled yet.

Next:

1. `EventLoopThreadPool` and `Connection`, small as they are.
2. The absence of deadlock in `EventLoop` as an invariant: who waits for whose `lock_`,
under the condition on `Then` and `Target` that `loops_cross` shows to be needed.
