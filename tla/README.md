# A verification project for wawo

wawo is a C++ network library: a reliable stream over UDP (WCP), sockets and
observers on epoll, select and its own wpoll, transport layer protocols on top
of the sockets (length-prefixed packs, a Diffie-Hellman handshake with a
symmetric cipher), peers that send messages (cargo, ros, mux_cargo, http), and
under all of this its own threads, locks, conditions and task scheduler.  This
directory holds TLA+ modules that model most of its concurrent logic, TLC
configurations that check them on small instances, and TLAPS proofs for
instances of every size.  Paths below are relative to `src/`; `wcp.cpp` is
`src/net/wcp.cpp`, `wcp.hpp` is `include/wawo/net/wcp.hpp`, and so on for the
other files that are named without a directory.

Contents: 1 the system and its parts; 2 the modules; 3 the runs; 4 fairness;
5 the proofs; 6 what the checks found; 7 what is not modelled; 8 the plan.

## 1. The system: inventory

### Parts that are modelled

**WCP data path** (`wcp.cpp`, class WCB).  State: the send buffer `sb`, the
queues `snd_sending`, `snd_flights` and `s_sending_ignore_seq_space`, the
numbers `snd_info.dsn/next/una/rwnd` and `rcv_info.next/wnd`, the reassembly
queue `rcv_received`, two receive buffers `rb` and `rb_standby` that trade
places, keepalive counters.  Operations: `send` and `recv` of the application;
`check_recv`, `check_flights`, `check_send`, run by the ticker thread in
`WCB::update`.  It talks to its peer through a UDP socket which loses, repeats
and reorders.  Correct: no pack is forgotten, no acknowledgement covers what the
peer does not have, the stream arrives once, in order, without gaps, and at
last completely.

**WCP connection life cycle** (`wcp.cpp`: `WCB::update`, `listen_handle_syn`,
`connect`, `accept`, `shutdown`, `close`, `wcp::_update`, `pump_packs`).  State:
the state of each WCB, its error, its flags, the listener's two backlogs, the
four-tuple map.  The ticker of each process and the application's threads meet
in every WCB, and several tests are not protected by what protects the
assignment that follows.  Correct: one connection per client, a bounded
backlog, only clients that took part in the handshake are accepted, a closed
WCB stays closed and is recycled, a blocking connect returns.

**WCP descriptors, options and wpoll** (`wcp.cpp` from 1200, `wcp.hpp`,
`socket_base.cpp`, `observer_impl/wpoll.hpp`).  State: a table of WCBs that were
created and one of WCBs that run, a counter of descriptors, the options of each,
the watched events of the poll and the events that did not fit its array.
Operations: the socket calls, each of which looks its descriptor up in both
tables under two locks, and the ticker that recycles WCBs and reports events.
Correct: a call acts on its own WCB, nothing is left behind, the options are
those the socket believes in, every call returns, what is waited for is told.

**Sockets and observers** (`socket_base.cpp`, `socket.cpp`,
`socket_observer.cpp`, `observer_impl/`).  State: the socket's state, its read
and write flags, its send and receive buffers, the two queues of arrived
packets; the observer's queue of operations and its contexts.  Users send, shut
down and close; runners read and write; the observer's ticker watches, unwatches
and posts tasks; one sequencial runner tells the listeners.  Correct: the flags,
the queue and the contexts agree, bytes, packets and events keep their order,
a blocked writer and an arrived packet are not forgotten, a close is told.

**Connecting, accepting and the transport layer protocols**
(`node_abstract.hpp`, `socket.cpp`, `tlp/`).  State: the listener and the
kernel's backlog, the connecting and the accepted socket, the parse state of
`hlen_packet`, the handshake state of `dh_symmetric_encrypt`.  Correct: one
answer to each connect, success only when both ends agree on keys, nothing left
open after a failure, no frame lost across the handshake, every client served.

**Peers, nodes and dispatchers** (`peer_abstract.hpp`, `peer_proxy.hpp`,
`peer/ros.hpp`, `dispatcher_abstract.hpp`, `node_abstract.hpp`,
`ros_node.hpp`).  State: the requests that wait for an answer, the listeners
of two dispatchers and their queued changes, the proxy's peers and operations.
Correct: each request is answered exactly once, the node hears of each peer in
order, peers that are detached leave, stop reaches everyone.

**Mux streams** (`peer/mux_cargo.hpp`, `peer/message/mux_cargo.hpp` and
`.cpp`).  State: per stream a write buffer, a read buffer, the peer's window and
the update owed to it, seven flags.  Application, ticker and event task meet in
the stream.  Correct: the window holds, the bytes come out as they went in,
a blocked writer resumes, nothing follows the end.

**Task scheduler** (`include/wawo/task`, `src/task`).  State: the priority
queue, the count of waiting runners, the state and wait flag of each runner,
the two vectors of each sequencial runner, the scheduler's state.  Operations:
`schedule` of plain and sequencial tasks, the loops of both kinds of runners,
`start` and the draining `stop`.  Everything else in the library posts its
events here.  Correct: no wake-up is lost, each task runs, tasks with one tag
run in order, `stop` returns.

**Locks and conditions** (`include/wawo/thread`).  `shared_mutex` counts
readers, knows one writer and one upgradable holder and converts between the
three; it waits on `condition_variable`, whose waits can be interrupted.
Correct: a writer is alone, no release takes another's share, no wake-up is
lost.  The pthread wrappers and the spin mutex are taken as mutexes.

### Parts that are not modelled

Section 7 gives the reasons; `PROJECT.json` lists every part.  They are the
congestion control of WCP, the byte ring buffer and packets, the reference
counting, the messenger, cargo and http messages, singletons, signals and the
application, logging, strings, time, addresses and environment, ciphers and key
exchange, HTTP parsing and ICMP, and context switching.

### How the parts meet

The ticker calls the WCP service; WCP and the kernel give events to the
observers; the observers post tasks to the scheduler; the tasks call the
socket's `handle_async_*`; the socket decodes through its tlp and triggers its
dispatcher; the peer listens there, decodes messages and triggers its own
dispatcher for the node and the services.  In the other direction calls are
direct.  Every arrow from a lower part to an upper one is a callback that runs
under the caller's locks or as a task of the scheduler; this is where most of
the hazards of `PROJECT.json` come from.  The modules meet along the same
arrows: `WcpTable` takes from `WcpConnection` that a connection succeeds or
fails, `SocketConnect` and `RosPeer` take from `SocketIO` what a close, a read
and an event task do, `MuxStream` and `RosPeer` take from it that packets come
in order and that `send_packet` accepts, blocks or fails, and all of them take
from `TaskScheduler` that tasks run and that tasks with one tag run in order.

## 2. The modules

| Module | Stands for |
|---|---|
| `WcpTransfer` | two established WCBs and the network between them |
| `WcpStream` | what WCP promises: a first-in-first-out stream per direction |
| `WcpTransferLive` | `WcpTransfer` over a network that calms down, with fairness |
| `WcpTransferProofs` | the invariants of `WcpTransfer`, and that it implements `WcpStream`, proved |
| `WcpConnection` | clients, a listener, the WCBs it accepts, one ticker per process |
| `WcpConnectionLive` | `WcpConnection` with the fairness of the tickers |
| `WcpConnectionProofs` | its inductive invariant and what follows from it, proved |
| `WcpTable` | the descriptors of WCP under socket_base, and wpoll |
| `SocketIO` | one connected socket, its observer and the tasks between them |
| `SocketIOProofs` | the order of its bytes, packets and events, and its watches, proved |
| `SocketConnect` | a listening node, a connecting node, the handshake between them |
| `SocketConnectProofs` | that what the caller of connect is told is what happened, proved |
| `RosPeer` | a node, its peer proxy, ros peers and their requests |
| `RosPeerProofs` | that a request is answered once and the node hears in order, proved |
| `MuxStream` | the two mux peers of a connection and one stream |
| `MuxPipe` | what a mux stream promises: a byte pipe that may be cut, and may shrink once before the first byte is out |
| `MuxStreamProofs` | its windows, and that it implements `MuxPipe`, proved |
| `TaskScheduler` | the scheduler, its two pools and the thread that stops them |
| `TaskSchedulerProofs` | no lost wake-up, the order of tagged tasks, the assertions, proved |
| `SharedMutex` | one shared_mutex and the threads that use it |
| `SharedMutexProofs` | exclusion and the assertions of the releases, proved |
| `MC...` | the instances that TLC checks |

**WcpTransfer.**  One action per handler: `Send`, `Recv` (the calls of the
application), `CheckRecv` and `CheckRecvIdle` (the head of `check_recv`: acks,
SACKs, filing of what arrived, keepalive), `DeliverPack`, `DeliverEnd` (its
loop over `rcv_received`), `Swap` (the exchange of `rb` and `rb_standby`),
`CheckFlights`, `CheckSend`, `SocketError`, and the network's `Lose`.  `phase`
keeps the order of the ticker's pass.  Abstract: a DAT pack carries one full
chunk of MDU bytes, and chunks are numbered in the order written, so that the
contents of a stream are a sequence of numbers; timers expire at any time; the
congestion window lets `CheckSend` stop after any pack.  Sequence numbers are
natural numbers: a run that wraps 32 bits is out of reach.  Assertions of the
code whose failure is possible set `status` to "assert" and stop that end (the
one of `wcp.cpp:781` is of this kind).

**WcpConnection.**  Each client is a process with one WCB, the server a
process with a listener and slots.  `tick` is the place of each ticker in
`WCB::update`, and the application's calls come between any two of its steps.
`Expire`, `Recycle`, `CheckRecv`, the five `Deliver...` (by kind of pack),
`Swap`, `CheckFlights`, `SendPack`, `MoveQueued`, `Packetise` are the pass;
`Arrive` is `pump_packs` for the listener, `ListenHandleSyn`, `ScanPending` and
`CloseListener` its side; `Connect`, `ConnectReturns`, `Accept`, `Send`,
`Recv`, `Shutdown`, `Close` the application.  A blocking connect sleeps on the
condition of its WCB: only the steps in which the code calls `cond.notify_all`
wake it (`Notify`, `NotifyIf`), and it then tests the state and the error as
they are at that time.  A failed assertion ends the process and is recorded in
`crash`.

**WcpTable.**  Two user threads execute scripts of calls on `socket_base`
objects; `Begin` applies the tests of socket_base, and the call goes on through
`Make` and `Insert` (socket), `LookupMap`, `LookupPend` and `Act` (every call on
a descriptor: two lookups under two locks, then the effect; an option is a
GETFL, a SETFL and the assignment of `m_option`, each of them a step with
lookups of its own), `Bind`, `Listen`,
`Connect`, `ConnectReturns`, `Accept` and `Return`.  A call that fails is
followed by close, as the callers in node_abstract do.  The ticker goes round
through `ExecuteOps`, `Update`, `Erase` (wcp::run), `Observe` (the queued watch
operations), `Wait` (wpoll_wait) and `Handle` (the callbacks).  `pm` is the
holder of the spin mutex of the new WCBs, which a blocking connect keeps.  What
happens inside a connection is one word of the environment: it comes up, sends,
is reset or closed by its peer, its SYN cannot be sent, or nobody answers.  A
caller that sleeps in a blocking connect is woken by a notification only.  TCP
sockets are external and have a descriptor only.  The descriptor numbers are a
counter modulo WCP_FD_MAX without a test, as in the code: one of them may be
given out while a socket that has it is still about, whose entry in the table
`insert` then keeps.  The model goes on from there, and `used.clash` remembers it.

**SocketIO.**  Every section under L_READ or L_WRITE is one step; close and
shutdown keep L_SOCKET over several (`held`).  Users: `Send`, `SendFails`,
`UserCall`.  Calls under L_SOCKET: `Acquire`, `AlreadyClosed`, `Flush`,
`ShutRead`, `CloseTells`, `ShutdownTells`.  Runners: `ReadTask`, `SwapQueues`
and `TriggerPacket` (the packet queues that trade places), `ErrorEventTask`,
`WriteTask`, `WriteFailed`.  The observer: `Update` processes the queued
operations and polls, with the watch, unwatch and interest of each poller as an
operator of its own (`EpollWatch`, `SelectUnwatch`, `WpollInterest`, ...);
`UpdateError` is its error path.  `TellOrdered` is the sequencial runner.  Bytes
and packets are numbers; the kernel's buffers are external.

**SocketConnect.**  `StartListen`, `StopListen`, `AcceptPosted`, `HandleAccept`,
`AcceptFails` (the listening node); `AsyncConnect`, `AsyncConnected`,
`AsyncConnectError`, `Connect`, `BlockingRound` (the connecting one);
`HandshakeBegins` and `HandshakeRound` (handle_async_handshake, one iteration of its
loop a step), `PeerAdded`, `ReadBegins`, `ReadRound`, `AsyncError`; `ProcessOp`,
`ErrorEvent`, `WriteEvent`, `ReadEvent` (the observer).  A frame travels in three
parts, so that `Hlen` (hlen_packet::decode_packets) meets a length without its content
and half a content.  Under epoll the watches are edge-triggered (`edge`): the
listener's watch and the infinite one of the handshake post a task when something new
has come and not because something is still there, so that what a handler leaves has
no event of its own.  `PacketArrive` is the handshake; keys are abstract: an end has
made them or not.  Buffers that fill up and the steps of close are left to `SocketIO`.

**RosPeer.**  `AddPeer`, `OnAccepted`, `RequestPush`, `RequestSend`,
`RequestErase`, `Timeout`; `SocketTrigger` and `PacketTrigger` begin an event of
the socket's dispatcher and `OnMessage`, `OnMalformed`, `OnResponse`,
`OnRespond`, `OnOrdered`, `OnEventDetached` are what the peer and its listeners
do with it; `UpdateOp`, `UpdateRemove`, `UpdateBlocked` the proxy's ticker;
`RemovePeer`, `RemoverRemove`, `Stop` and the `Deinit...` steps its other
callers.  A failed WAWO_ASSERT ends the process and is recorded in `failed`.
The socket below is what `SocketIO` says of it.

**MuxStream.**  `Open`, `WriteBegin`, `Write`, `Read`, `Close`, `PeerClose`,
`PeerCloseEnds` (applications); `TickBegin` ... `TickData` (the steps of
stream::_flush, which reads flags and buffer without a lock, and in which `flag |=
BUFFER_DETERMINED` is a read and a write; the first of them shrinks the write buffer
to what the socket sends at once, and drops what does not fit); `Lookup`, `Apply`,
`SocketClosed`, `Drained` (the event task); `Disconnect`, `RemoteClosed` (the
connection, external).

**TaskScheduler.**  The grain is the access of shared fields: what happens
under a mutex is one step, except that every unlocked access of `m_state`,
`m_wait_flag` and the vectors (by `stop` and `__block_until_no_new_task`) is a
step of its own, which is where `runner.cpp:71` and `:80` show.

**SharedMutex.**  One action per operation, from its first line to its return or its
wait; `pc` is what a thread holds or the call it is in, `asleep` the threads that wait
and were not notified.  A notified thread competes for the mutex with everyone.
`unlock_and_lock_shared` goes on where the assertion of line 179 fails, as a release
build does; `AssertionsHold` says when it can.  `Wake` is a wake-up without a
notification and `Interrupt` the exception of an interrupted wait.

## 3. The runs

Every bound is a field of an environment (chosen in `Init` and constant after)
or a CONSTANT, so that one run covers several small worlds.  Deadlock is not
checked in runs where the system may stop: the applications have a bounded
number of calls, and after them nothing has to happen.  `WcpTransferLive` never
stops and is checked for deadlock.

| Run | Result | Distinct states | Shows |
|---|---|---|---|
| `WcpTransfer` | pass | 1,031,599 | `AckSound`, `Reliable`, `Consecutive`, `ReceivedAhead`, `NoGap`, `TypeOK` under loss, repetition, reordering, blocked and failing sockets, keepalive |
| `WcpTransferLive` | pass | 304,971 | `ImplementsStream` (refinement of `WcpStream`), `EveryChunkArrives` with a window that closes and opens again |
| `WcpConnection` | pass | 877,480 | `ConnectionsSound`, `BacklogSound`, `NoLeak`, `NoRevival` in eight environments |
| `WcpConnectionLive` | pass | 29,792 | `ClosedIsRecycled`, `ConnectReturnsAtLast` |
| `WcpTable` | pass | 176,319 | `TablesAgree`, `OptionsAreReal`, `CallsReturn`, `TickerServes` for fifteen pairs of scripts |
| `SocketIO` | pass | 58,382 | `WatchesAgree`, `OrderKept`, `MovesOn`, `CloseIsTold` with epoll, select and wpoll |
| `SocketConnect` | pass | 98,996 | `OutcomeSound`, `FramesSound`, `AllServed` with and without a handshake |
| `RosPeer` | pass | 77,730 | `PeersSound`, `OneAnswer`, `AllEnds` |
| `MuxStream` | pass | 763,494 | `WindowSound`, `ImplementsPipe` (refinement of `MuxPipe`), `NoDataAfterClosed`, `BlockedWriterResumes` |
| `MuxStreamFinIsLast` | violation | 288 | `FinIsLast` fails (section 6) |
| `TaskScheduler` | pass | 312,354 | `WakeUpsSound`, `InOrder`, `AssertionsHold`, `EveryTaskRuns` in four applications |
| `SharedMutex` | pass | 65,142 | `Exclusion`, `AssertionsHold`, `EveryCallReturns`, `TypeOK` with three threads |

Some properties are conjunctions of named parts that are about one thing; each
part is a definition with its own comment, and TLC can be asked for it alone:

| Property | Its parts |
|---|---|
| `ConnectionsSound` | `TypeOK`; `OnePerClient`: a repeated or late SYN makes no second connection; `Handshake`: only clients that took part in it are accepted |
| `BacklogSound` | `BacklogBounded`: the two lists never exceed the backlog; `PendingState`: a pending WCB is in a state the listener's scan knows |
| `WakeUpsSound` | `TypeOK`; `NoLostWakeUp`: a runner sleeps only when the runners on their way to the queue are at least as many as the tasks in it |
| `WatchesAgree` | `TypeOK`; `WatchIsKept`, `BlockedIsWatched`, `NoDoubleWatch`: the socket's flags, the queued operations and the observer's contexts agree |
| `OrderKept` | `BytesInOrder`, `PacketsInOrder`, `EventsInOrder`: each end told once, nothing after E_CLOSE |
| `MovesOn` | `BlockedWriteEnds` (select and wpoll), `ArrivedIsRead` (all pollers) |
| `OutcomeSound` | `TypeOK`; `ToldOnce`, `SuccessIsReal`, `FailedIsClosed` |
| `FramesSound` | `NothingLost`, `KeysBeforeData` |
| `AllServed` | `ConnectIsTold`, `DataArrives`, `BacklogServed` |
| `PeersSound` | `TypeOK`; `MembersAttached`, `ToldInOrder` |
| `OneAnswer` | `AnsweredOnce`, `NeverForgotten` |
| `AllEnds` | `RequestEnds`, `ClosedIsTold`, `DetachedLeaves`, `StopTells` |
| `TablesAgree` | `TypeOK`, `Keyed`; until a number clashes also `OwnWcb`, `OneHome`, `NoLeak`, `ErrorIsReal` |
| `TickerServes` | `ClosedLeaves`, `ReadyIsTold` |
| `WindowSound` | `TypeOK`; `DataFits`: the assertion of `mux_cargo.hpp:352` cannot fail |

Where a part holds only under a condition, the condition is written in it and
its comment says what the code does otherwise; section 6 collects these.

Why the bounds are enough to be interesting:

- `WcpTransfer`: two packs in transit in one direction are needed to reorder,
  a send buffer of two chunks to make `send` partial, one pack that a blocked
  socket leaves behind to make the control queue survive a pass, one keepalive
  probe to reach the limit.  Each environment turns on one kind of trouble; with
  all of them at once the state space does not fit, and the proofs cover the
  combination.  The receive buffer of 9 bytes keeps the window open (chunks of 2
  bytes, headers of 1), that of 6 in `WcpTransferLive` closes it.
- `WcpConnection`: two slots for one client so that a repeated SYN could make a
  second connection; two clients and a backlog of one so that they compete; two
  packs in transit so that an old one meets a new one.  Clients are symmetric.
- `WcpTable`: two threads, on one socket or on two, so that every lookup can be
  overtaken by a move or an erasure; WCP_FD_MAX of 2 and three sockets so that
  the numbers wrap and, in the last two environments, meet a socket still about;
  an array of one event so that two ready sockets overflow it; two threads that
  set options of one socket.
- `SocketIO`: the kernel takes one byte and the user sends two, so that writes
  block; two packets, so that one can overtake; one close or shutdown call, which
  meets the ones the code makes itself; end of stream or reset.
- `SocketConnect`: two data frames on one side and an `arrives` array of two, so
  that a decode leaves something behind; frames in pieces; one failure of each
  kind; two more clients against `AcceptMax` of 2, so that one event of epoll
  stands for more connections than one accept takes.
- `RosPeer`: one peer with two requests, one with a request that gets two
  responses, one whose socket blocks, two peers for the proxy's map.
- `MuxStream`: four bytes, or three and an end, through a window of two, so that
  it closes with a writer blocked behind it and two bytes can change places; a send buffer of one, so that the first flush
  truncates, as with the default sizes (96 KB and 256 KB); writes of up to three
  bytes, so that one of them is larger than the whole write buffer; the
  end is a close of the stream, of the mux, or of the connection, at any time.  The
  channel holds two packets, so that data and a FIN or an update are in it together.
- `TaskScheduler`: two runners, since one wake-up must be able to reach the
  wrong one; three tasks on two runners so that one is left in the queue; two
  tags on two sequencial runners; a second start.
- `SharedMutex`: three threads with three calls each: a reader, a writer and a
  conversion at the same time, and one of them returns for more.

For every property of a passing run `PROJECT.json` names a mutant: a change of a
single definition that a slip in the code would make (a swap without its test,
a guard that forgets the writer, a notification that is not sent) and that makes
the property fail in the same run.  The mutated forms stand before the
definitions they replace.

## 4. Fairness

- `WcpTransferLive`: the ticker visits every WCB again and again and a pass that
  was begun goes on (weak fairness of `Pass`); the application reads what it is
  given.  The network calms down at some time, as nothing can be promised over
  one that loses everything.  Strong fairness for the two steps in which a timer
  that stays armed runs out (`Retransmits`) and in which a socket that is not
  blocked for ever lets `check_send` reach the peer's window (`SendsAll`).
- `WcpConnectionLive`: weak fairness for the steps of a pass that was begun;
  strong fairness for beginning a pass, for the timers and for recycling, as one
  ticker serves all WCBs of its process and each of them waits while another is
  served (`wcp::_update` goes through all of them in every round).  A caller of
  connect that was notified goes on; one that was not is promised nothing.  No
  pack is in transit for ever.  Applications are not obliged to call anything.
- `WcpTable`: weak fairness of the ticker and of each user thread inside a call.
  A blocking connect is released by the ticker alone, as in the code.
- `SocketIO`: weak fairness of the tasks the scheduler has, of the holder of
  L_SOCKET, of the observer and of the sequencial runner, and of the remote side
  reading; strong fairness of `WriteTask`, since it competes for L_WRITE with
  calls that take it again.  Users are not obliged to call anything, and the
  write timer need not expire.
- `SocketConnect`: weak fairness of accepting, connecting, polling, reading, of
  the queued operations and of TCP delivering what was sent.  The remote node is
  part of the model and as fair.
- `RosPeer`: weak fairness of the proxy's ticker, of a trigger that has begun, of
  the timers, of a request() under way and of the removals; strong fairness of the
  tasks of a peer (`Runs`), each of which waits for the spin mutex of a dispatcher
  that other tasks take again and again.
- `MuxStream`: weak fairness of the ticker and of the reading application, strong
  fairness of the event task: it waits for `m_mutex`, which the ticker takes again
  and again but holds for a small part of its period of half a second.
- `TaskScheduler`: weak fairness of the stopping thread, strong fairness of each
  runner, since a runner competes for mutexes that others take again and again
  and the pthread mutex does not starve it.  Nobody is obliged to schedule, and
  nothing to wake without a notification.
- `SharedMutex`: weak fairness of a thread that is awake inside a call, and of
  the release by a holder, which the guards of `mutex_basic.hpp` do when their
  block ends.  A call that finds the lock taken goes back to sleep, so weak
  fairness is enough to let it try.

## 5. The proofs

**WcpTransferProofs** proves for all buffer sizes, bounds and environments that
satisfy the named assumptions

    EndsAssumption    the two ends differ
    SizeAssumption    a pack has a payload and a header, sb holds two chunks, the
                      receive buffer is larger than a pack and a payload
    ProbesAssumption  at least one keepalive probe
    BoundAssumption   the bounds are natural numbers

the theorems `TypeCorrect`, `NothingForgotten`, `AcknowledgementsSound`,
`SendingConsecutive` and `NothingReceivedTwice`, that is, `TypeOK`,
`Reliable`, `AckSound`, `Consecutive` and `ReceivedAhead`.  None but the first is
inductive alone: that no pack is forgotten when it is acknowledged needs that the
acknowledgement is sound, this needs what the SACKs in the control queues and in
transit say, and both need that what is in `snd_flights` was numbered
consecutively.  Their conjunction

    Inv == TypeOK /\ AckSound /\ Reliable /\ Consecutive /\ ReceivedAhead

is inductive.  There is one lemma per action; the hard ones are `CheckRecvInv`
(acknowledgements retire flights and new packs are filed in one step) and
`CheckSendInv` (packs are numbered, sent and put into flight in one step).

**WcpTransferProofs** also proves that what is delivered is what was written, from the
first chunk and without a gap (`NoGapHolds`, that is, `NoGap`), and that the data
path implements `WcpStream` (`StreamImplemented`: `LSpec => ImplementsStream`,
the fairness of `LSpec` not used).  Both have the hypothesis

    WindowsStayOpen   in every environment an end writes nothing, or what its peer
                      may write leaves more than a pack of its receive window

which is not a convenience: without it the theorems are false, as item 2 of
section 6 shows.  It covers a stream of any length that is written in one
direction.  `MCWcpTransfer` and `MCWcpTransferLive` assert it of the environments
of the two runs.  The invariant `StreamInv` stands on `Inv` and says that every
pack with data carries the chunk its number stands for, wherever it is
(`Labelled`), that what is not yet packed follows on
`dsn` (`Written`), that an end that writes has no WND pack under way
(`NoWindowPacks`) and that `read`, `rb` and `standby` are one sequence which
`rcv_info.next` counts (`Placed`).  The refinement then needs only that a step
which changes `read` appends the next chunk and that one which changes `wrote`
adds one.

**SharedMutexProofs** proves for every finite set of threads (`ThreadsAssumption`) and
every environment (`EnvironmentsAssumption`), with interrupted waits,
`MutexTypeCorrect`, `WriterAlone` (`Exclusion`) and `ReleasesSound`
(`AssertionsHold`).  The last is about every assertion of the releases and
conversions; for the one that can fail (line 179) it says that it fails only beside
another thread's upgrade or after an interrupted one.  The inductive invariant adds to
`TypeOK` that `state_data` and the threads agree:

    Agrees == shared_count is the number of threads that hold a share, exclusive
              says whether there is a writer, a writer excludes shares, there is
              one writer at most, S_UP_SET and S_UP_UPING go with the upgradable
              holder and the upgrading thread, of which there is one at most

The exact count is what makes it inductive: without it a reader's release might
bring the count to zero while another still reads.  The cardinalities are taken
from `FiniteSetTheorems` in three lemmas, one per way in which a step changes the
set of sharers.

**WcpConnectionProofs** proves for every set of clients and slots (`NamesAssumption`)
and every environment (`SizesAssumption`) `ConnectionsSound`, `BacklogSound`, `NoLeak`
and the action property `NoRevival`, over a network that loses, repeats and reorders.
`NoLeak` speaks of an open listener, and of a closed one that left nothing in its
lists; section 6 has the other case.  The properties say nothing of packs in transit,
and for that reason none is inductive.  The invariant adds

    Places      which states go with which lists; a ticker is at an open WCB
    Traffic     what each pack, queued, in flight, on the wire or received, says
                of its sender: no ACK or DAT of a client that did not take part
    Beginnings  the first pack of a side is its SYN or SYN|ACK: whatever comes in
                later finds it made
    Lists       the two lists are disjoint, bounded together, and closed by nobody

`NoRevival` needs more than the invariant in one place: the close by an
application between the head of a pass and its deliveries, where `Stopped` says
what the rest of the pass may still do.

**RosPeerProofs** proves for every set of peers and requests (`NamesAssumption`:
their names differ from the constants the model uses) `OneAnswer` and
`PeersSound`.  The invariant ties a request to its peer (`Owned`), says that it is
listed, being called back or called back, one at a time (`Once`), that a response
under way is one to a request that was sent (`Answers`), and that a peer whose
close was told does not listen any more (`Deaf`), through the queue of listener
operations of which the last on a listener decides.

**TaskSchedulerProofs** proves for any number of runners, sequencial runners and
tasks (`SizesAssumption`, from `scheduler.cpp:80` and the types of the arguments)
`WakeUpsSound` and `InOrder`, and under the hypothesis

    Quiet             an application that stops the scheduler has no tasks that
                      schedule others

also `AssertionsHold` (`AssertionsHoldWhenQuiet`); section 6 says what happens
without it, and `MCTaskScheduler` asserts it of the environments of the run.  The
invariant counts the runners `wait_count` stands for exactly, gives m_mutex to the
runner that found no task until it sleeps, and follows each sequencial task from
`assigned` through the two vectors of its runner (`Vectors`, `Accounted`).

**SocketIOProofs** proves for every poller, all buffer sizes and any number of
bytes, packets, runners and calls (`SizesAssumption`: the constants are natural
numbers) `OrderKept` and `WatchesAgree`.  The invariant `OrderInv` has these parts
beside the types:

    Bytes       what was drained, the kernel's buffer and m_sb follow on each other
    Packets     so do the queue being told, the standby queue and the kernel's
    InTime      none of them was overtaken, or the socket is doomed: closed, or
                some thread's remaining calls have a close among them
    Happened    an end that was told or waits to be told has happened, and the
                direction a holder of L_SOCKET has shut down is not told yet

`InTime` is the hard one: a close is promised by an error task, a waiting call, a
reader that has left L_READ, the queue being told or the holder of L_SOCKET, and
each action may hand the promise on but not drop it (`DoomedStays`).  For
`WatchesAgree` the invariant `WatchInv` adds the bounds of the queues (`Bounded`)
and, for each direction (`Watched`), that the last operation in the queue, or the
observer where there is none, agrees with the flag of the socket or has its task
scheduled, and that no watch follows on a watch.  The observer works a queue of
any length off in one step (`Processed`, a recursive function): what it leaves is
proved by an induction along the queue (`ProcessedFacts`).

**MuxStreamProofs** proves for any window, channel and number of bytes, calls and
closes (`MuxAssumption`: the ends differ, the sizes are positive) `WindowSound`,
the action property `NoDataAfterClosed` and the refinement `ImplementsPipe`
(`PipeImplemented`).  The relation of the send buffer to the window is free.
Where the buffer is the smaller one, as with BT_DEFAULT, the first flush drops
what was written beyond it, and this is the pipe's one `Shrink`, to `Room` bytes,
which may come only before a byte is out: afterwards the bytes are those written,
with that one gap at most.  `WindowInv` has these parts beside
the types and bounds:

    Locals      what goes with a stream in the map, a ticker under way, a packet
                in the hands of the task; A reads nothing and B writes nothing
    OneSyn      the SYN is planned, under way or has made B's stream: one of them
    Balance     while B reads, wb_wnd, the bytes under way, those not read, the
                credit B owes and the credit under way are at most one window
    Counted     what was read, waits, is under way or unsent was written

`Balance` is the reason why `WindowSound` holds; the sums run over packets of the
channel and the task (`Flow`, a FlattenSeq), and how a sum changes when a packet is
appended or taken is proved by induction on the length of the channel. `PipeInv` adds
what the refinement needs of the packets: a FIN or a RST is under way only when the
stream is cut already, the data come after the SYN, a SYN under way finds no stream at
B, a ticker past its checks may go on (`Flushes`, `Goes`), and nothing was read before
the first flush (`FirstFlush`), which is what makes the resize a `Shrink`.  Each
action then puts, takes, cuts or leaves the pipe alone.

**SocketConnectProofs** proves for every environment, any number of frames, tasks
and other clients `OutcomeSound`.  It assumes

    EnvsAssumption    the protocol is hlen or dh, the users send frames of data, an
                      infinite watch may post a task
    SizesAssumption   there is room for a packet and for a connection

which the types of the code give (`arrives[5]`, WAWO_MAX_ACCEPTS_ONE_TIME), and
which TLC evaluates in the run.  The invariant `IInv` has three parts:

    Typed       what the variables hold
    StreamsInv  which frames may be on their way to an end: with dh none to the
                connecting end before the accepted one has seen its HELLO, and a
                HELLO only to the accepted one
    CallerInv   the connecting socket is untouched, its watch for the connect is
                queued, active or a task (Waits), or the connect event was taken
                (Later), with the tasks, watches, readers and answers of each

`StreamsInv` is why a success means keys on both ends: the connecting end enters
DATA_TRANSFER by an OK only, and no OK was sent to it before the other end made
its keys.  `CallerInv` is why there is one answer: the connect watch becomes one
task, the handshake is read by one thread at a time, and its result is told once.
Under epoll with a handshake the last two fail (`Strict` says where they hold),
and the invariant then bounds the tasks no more, but still closes the socket
before an error is told.  There are two lemmas per action, one for the first two
parts and one for the caller, and lemmas about `Hlen`, `Decode`, `Receive` and
`Delivered` that say which frames they take and leave.

An induction over data, here, is one over a set of naturals: the set of the
lengths for which the fact fails has no least element (`LeastNatural` and `UpTo`,
from `WellFoundedInduction`).  It needs no operator as a parameter.

Every invariant was checked with TLC on the instance of its run before it was
proved.

Only model-checked:

- every liveness property (the prover has no fairness), so the properties of
  `WcpTransferLive` but the refinement, those of `WcpConnectionLive`, and those of
  the other runs that speak of something that happens in the end;
- `FramesSound` of `SocketConnect`, `TablesAgree` and `OptionsAreReal` of
  `WcpTable`, not attempted.

## 6. What the checks found

With a run:

1. `mux_cargo.cpp:41`.  The tick tests the length of the write buffer before it
   tests the shutdown flags: a write and a close_write in between are overtaken by
   the FIN, although the comment above `close` says that what was written is sent
   first (`MuxStreamFinIsLast`).

Stated in the modules as definitions the code does not keep.  To see the
behaviour, put the environments named here and the property into a copy of the
run's configuration:

2. `wcp.cpp:308`.  A WND pack carries the number of the next DAT pack and is
   filed under it.  If it arrives first the DAT pack is a duplicate, and its
   bytes are lost.  It takes two writers and a window that closes (`NoGap`, with
   `ClosingEnvironments` of `MCWcpTransfer` and a receive buffer of 6).
3. `wcp.cpp:832`.  The FIN stays at the front of `snd_sending` after it was sent,
   and the next pass fails the assertion of line 780 (`SentInTurn`, with
   `ShutdownEnvironments` of `MCWcpConnection`).
4. `wcp.cpp:528`.  `close` from an application's thread between the head of a pass
   and the delivery of a pack leads to the assertion "wcp state logic issue"
   (`AckExpected`, with `CloseEnvironments`).
5. `runner.cpp:37`.  `runner::stop` writes the state without the mutex, and a
   runner on its way to the wait overwrites it: `scheduler::stop` never returns
   (`StopEnds`, with `IdleEnvironments` of `MCTaskScheduler`).
6. `shared_mutex.hpp:132`.  The last reader tests for S_UP_SET where the
   upgrading thread has S_UP_UPING, so that nobody notifies it (`UpgradeEnds`,
   with `UpgradeEnvironments` of `MCSharedMutex`).
7. `ros.hpp:155`.  The check that a request whose send failed is still listed
   throws when the timeout or a close has taken it (`RequestStillListed`, with the
   environments of the run).

Behaviours that the models contain and that conditions in the properties, or
the choice of environments, set aside:

- WCP: `recv` after a RST meets the assertion of `wcp.cpp:1602`; the test of
  `wcp.cpp:1146` always takes the abortive branch, so `close` never sends a FIN.
- Blocking connect: two things leave the caller asleep for ever.  A SYN that could
  not be sent sets `wcb_errno` and notifies nobody, in that pass and in every later
  one (`wcp.cpp:787`); and a FIN that is handled before the woken caller tests for
  ESTABLISHED (`wcp.cpp:1089`).  `ConnectReturnsAtLast` and `CallsReturn` name both
  (`Stranded`, `Asleep`), and environments of the two runs reach both.
- Listener: `WCB::close` does not look at the two lists of a listener, no pass
  scans them afterwards and nobody else has the descriptors, so that the
  connections in them stay in the maps for ever.  `NoLeak` excludes exactly this.
- Replays: `met` in `Handshake` is monotone.  A SYN and an ACK of a connection that
  has gone, both repeated after its slot was recycled, are not told apart from the
  connection they belonged to.
- Descriptors: `make_wcb_fd` (`wcp.hpp:713`) does not test whether the number it
  makes is in use, and `insert` keeps the old entry.  One socket that is about
  while 2048 others are made is enough for a call to act on the wrong WCB.
  `TablesAgree` and the liveness of `WcpTable` say nothing after this
  (`used.clash`), but for the types and for `Keyed`: an entry is still filed under
  its own number.
- wpoll: an event that did not fit the array is handled in a later round, and
  after an error the ticker calls getsockopt (`wpoll.hpp:152`), which waits for the
  spin mutex that a blocking connect keeps while it waits for the ticker
  (`wcp.cpp:1342`).  The liveness properties of `WcpTable` say nothing after such an
  overflow (`used.over`), whether or not it comes to that.  With a socket that
  was shut down on this side the same deferred event may meet the assertions of
  `wpoll_wait` on `wcb_errno` and of `wpoll.hpp:191`.
- Options: `turnoff_nonblocking` does not clear the flag of a WCP descriptor
  (`socket_base.cpp:1188`), which is why `OptionsAreReal` is an inclusion;
  `reuse_addr` takes no lock, and beside a call that turns non-blocking off and on
  it can leave `m_option` wrong, so that sockets whose options two threads have
  changed at once are excluded (`used.raced`);
  `open` compares `m_option` with itself (`socket_base.cpp:595`).
- Observers: EPOLL_CTL_MOD replaces the interest (`epoll.hpp:67`), so that
  `BlockedWriteEnds` excludes epoll, and `ArrivedIsRead` holds under epoll because
  the remote side goes on reading; `WatchesAgree` is about the contexts, not the
  kernel's mask; the lambda of an epoll error tells twice
  (`epoll.hpp:229`), so that `ToldOnce` excludes epoll with a handshake.
  `select.hpp:265` passes the highest descriptor without adding one; the model has
  one descriptor per observer and does not show it.
- Handshake: with half a frame `handle_async_handshake` spins
  (`socket.cpp:533`), which the condition `Pieces` excludes; data that arrives in
  one read with the OK and the end of the stream is lost (`socket.cpp:777` and
  `:735`); a connect that returns at once skips the handshake
  (`socket_base.cpp:873`), the field `once` of the environment; the blocking
  `node::connect` takes E_TLP_HANDSHAKE_DONE for a failure
  (`node_abstract.hpp:349`), so that it fails always; the assertion of
  `socket.cpp:78` can fail; after an error of accept the closed listener stays
  in `m_listen_sockets` (`node_abstract.hpp:213` and `:77`).
- Peers: the assertions of `ros.hpp:177` (a packet after the peer was detached) and
  `peer_proxy.hpp:326` (a peer removed twice) can fail; the liveness properties
  of `RosPeer` allow for it (`failed`).
- Mux: with a send buffer smaller than the window, which is the default, what was
  written before the first flush and does not fit is dropped (`mux_cargo.cpp:73`),
  the `Shrink` of `MuxPipe`; a write larger than the whole write buffer is blocked
  (`message/mux_cargo.hpp:132`) and, when the buffer is empty, nothing ever unblocks
  it, so that `BlockedWriterResumes` speaks of packets that fit; a SYN that was
  looked up before mux_cargo::close adds a stream nobody closes, which
  `BlockedWriterResumes` excludes too; the unlocked update of BUFFER_DETERMINED can
  take back a flag that was set in between.
- Locks: the assertion of `shared_mutex.hpp:179` fails when `lock` succeeds while
  another thread waits in `unlock_upgrade_and_lock`, and after an interrupted
  upgrade, which leaves S_UP_UPING behind; both happen in the run.
- Tasks: tasks that schedule tasks while `stop` is under way meet the assertions of
  `scheduler.hpp:68` and `scheduler.cpp:89`, for which reason no environment of
  `TaskScheduler` has both; an interrupted wait may lose a notification, for which
  reason `EveryCallReturns` speaks of environments without interruptions.

What the properties cannot see follows from these conditions: a liveness property
is satisfied by a process that has failed an assertion (`failed` in `RosPeer`,
`crash` in `WcpConnectionLive`), and `AssertionsHold` of `TaskScheduler` is about
`Quiet` applications.

## 7. What is not modelled

- **WCP congestion control**: floating-point and clock arithmetic that decides when
  something is sent; `WcpTransfer` allows every time.  32-bit wrap-around of
  sequence numbers and windows, and chunks of unequal size.
- **Descriptors**: `wpoll_create`, `wpoll_close` and the stop of the WCP service;
  `sendto` and `recvfrom`; keepalive, linger and TOS settings, which pass a value
  on to the kernel.
- **Byte ring buffer and packets**: used as a bounded queue; its index arithmetic is
  sequential and belongs to unit tests.
- **Reference counting**: a reference keeps its object alive; the counts are not
  modelled.
- **Transport layer protocols**: `stream`, which has no framing; ciphers and the key
  exchange themselves, beyond a model checker.
- **Peers**: cargo and http send and parse one message at a time; `messenger` waits for
  one ros request; the HTTP parser is vendored.
- **Nodes**: the service pool and the node classes forward to node_abstract.
- **Threads and ticker**: the run-object loop is part of `TaskScheduler`; the slots of
  the ticker are represented by the fairness of the tickers.
- **Singletons, signals, application, logging, strings, time, addresses, environment,
  ICMP, context switching**: no concurrent state the parts above depend on.
- **Windows**: the branches of another platform.
- Within the modelled parts: tasks that throw (the process ends), the debugging
  bookkeeping of the lock wrappers, and hazards with a `note` in `PROJECT.json`.

Simplifications inside the modelled parts, each also noted at its definition:

- `WcpTransfer`: only the peer sends to a WCB, so the RST for a pack from another
  address (`wcp.cpp:407`) is left out.
- `WcpConnection`: the SYN and the ACK flags of one pack (`wcp.cpp:448` and `:469`)
  are handled in one step of the ticker; state RECYCLE and the removal from the map
  at the end of the same pass (`wcp.cpp:1293`) are one step, as only this thread
  looks at the map.
- `WcpTable`: a round of `wcp::_update` visits all WCBs in one step.
- `SocketIO`: the test of SHUTDOWN_WR (`socket.cpp:431`) and the section under
  L_WRITE are one step, so that no shutdown comes between the two; EPOLLHUP comes
  with a reset only (`epoll.hpp:207`); one descriptor per observer.
- `RosPeer`: of the events of a close the two of the shutdowns, which the node
  answers with a close, are left out (`socket.cpp:318`), and the shutdown of both directions
  of a blocked socket (`peer_proxy.hpp:161`) is the close it leads to.
- `MuxStream`: the assertions on the mux's and the stream's state in the sending of
  a RST and a FIN (`peer/mux_cargo.hpp:154`, `message/mux_cargo.hpp:56`) are empty in
  a release build and the step goes on.
- Dispatchers: a listener that triggers the dispatcher it is called from
  (`dispatcher_abstract.hpp:129`), which the peers modelled here do not.

## 8. The plan

What is left is to prove more of what the runs check; the modules are written
without RECURSIVE operators.

1. `WcpTable`: `OneHome` and `OwnWcb` of `TablesAgree`, by an invariant that says
   which descriptor and which map entry belong to a thread inside a call.
2. `SocketConnect`: `FramesSound`, with an invariant that orders the frames where
   `StreamsInv` only says which there are.
3. The ticker's slots and the ring buffer, as modules of their own, if the parts
   above leave room.
