----------------------------- MODULE SocketIO -----------------------------
(***************************************************************************)
(* One connected, nonblocking data socket (wawo::net::socket), the         *)
(* observer that watches its descriptor, the tasks the observer schedules  *)
(* and the ordered tasks that tell the listeners.                          *)
(*                                                                         *)
(* The user threads send, close and shut down; the observer's ticker       *)
(* processes the queue of watch and unwatch operations and polls the       *)
(* kernel; the runners execute async_read, async_write and async_error;    *)
(* one sequential runner executes what oschedule queued.  Every section    *)
(* under L_READ or L_WRITE is one step.  close and shutdown keep L_SOCKET  *)
(* from their first to their last step (`held`), and L_WRITE while they    *)
(* flush.                                                                  *)
(*                                                                         *)
(* Sent bytes and received packets are numbered.  The kernel is external:  *)
(* a send buffer of KCap bytes the remote side drains, packets that have   *)
(* arrived, the end of the stream and a reset.                             *)
(***************************************************************************)
EXTENDS Naturals, Sequences, FiniteSets, SequencesExt

CONSTANTS Polls,      \* the pollers checked: a subset of PollTypes
          KCap,       \* bytes the kernel's send buffer holds
          SbCap,      \* m_sb->capacity()
          Limits      \* bounds of a behaviour, [out, in, calls, end, posted]: bytes
                      \* the user sends, packets the remote side sends, close and
                      \* shutdown calls of the user, how the remote side may end the
                      \* stream, read events posted with the first watch

VARIABLES poll,      \* m_polltype
          limit,     \* the bounds of this behaviour
          sk,        \* [st, rf, wf, sb, wt]: m_state, m_rflag, m_wflag, m_sb, m_async_wt # 0
          ops,       \* socket_observer::m_ops
          ctx,       \* observer_ctx::flag of the descriptor; {}: not in m_ctxs
          mask,      \* events the kernel poller reports (epoll only)
          tasks,     \* scheduled tasks, by kind
          readers,   \* threads past the L_READ section of handle_async_read
          rq,        \* m_rps_q and its holder: [by, q]
          standby,   \* m_rps_q_standby
          calls,     \* close and shutdown calls that wait for L_SOCKET
          held,      \* the call that holds L_SOCKET, or Nobody
          oev,       \* ordered tasks not yet run
          telling,   \* the ordered task is inside __rdwr_check's close
          heard,     \* ends the ordered tasks have told
          got,       \* the last packet told with E_PACKET_ARRIVE
          net,       \* kernel: [kout, drained, kin, eof, rst]
          used       \* what has happened of what limit bounds

vars == <<poll, limit, sk, ops, ctx, mask, tasks, readers, rq, standby, calls, held,
          oev, telling, heard, got, net, used>>

PollTypes == {"epoll", "select", "wpoll"}
Dirs == {"R", "W"}                       \* IOE_READ, IOE_WRITE

ASSUME SizesAssumption ==
  /\ Polls \subseteq PollTypes
  /\ KCap \in Nat /\ SbCap \in Nat
  /\ Limits \subseteq [out : Nat, in : Nat, calls : Nat, end : {"none", "eof", "rst"}, posted : Nat]

TaskKinds == {"read", "write", "re", "drain"}
Nobody == [op |-> "none", step |-> "none", rest |-> <<>>]

Op(kind, d) == [op |-> kind, dir |-> d]
CloseCall(ec) == [op |-> "close", flag |-> {"R", "W"}, ec |-> ec, by |-> "thread"]
ShutdownCall(flag) == [op |-> "shutdown", flag |-> flag, ec |-> "OK", by |-> "thread"]

Ends == {"RD_SHUTDOWN", "WR_SHUTDOWN", "CLOSE"}

\* What an ordered task tells; check: it ends in __rdwr_check(ec).
Told(evs, check, ec) == [evs |-> evs, check |-> check, ec |-> ec]

---------------------------------------------------------------------------
(* The watch flags of a socket, m_rflag and m_wflag.                       *)

\* _begin_async_read and _begin_async_write: the flag, the operation pushed
\* to the observer and, when the direction is shut down, the scheduled
\* async_error, which is a close that waits for its turn.
BeginFlag(f) == IF "SHUT" \in f THEN f ELSE f \cup {"WATCH"}
BeginOps(f, d) == IF f \cap {"SHUT", "WATCH"} = {} THEN <<Op("watch", d)>> ELSE <<>>
BeginError(f) == IF "SHUT" \in f THEN <<CloseCall("ERR")>> ELSE <<>>

\* _end_async_read and _end_async_write.
MEndFlag(f) == f
EndFlag(f) == f \ {"WATCH"}
EndOps(f, d) == IF "WATCH" \in f THEN <<Op("unwatch", d)>> ELSE <<>>

\* send, handle_async_write and flush take L_WRITE, which a flushing close
\* or shutdown keeps.
WriteFree == held.step # "flush"

Scheduled(t, kind, n) == [t EXCEPT ![kind] = @ + n]

---------------------------------------------------------------------------
(* The kernel.                                                             *)

Room == KCap - Len(net.kout)
Readable == net.kin # <<>> \/ net.eof \/ net.rst # "no"
Writable == Room > 0 \/ net.rst # "no"

\* standard_socket::send of the bytes bs: how many the kernel takes, and why
\* it stopped.
Taken(bs) == IF net.rst # "no" THEN 0 ELSE IF Len(bs) < Room THEN Len(bs) ELSE Room
SendEc(bs) == IF net.rst # "no" THEN "ERR"
              ELSE IF Taken(bs) < Len(bs) THEN "BLOCK" ELSE "OK"
\* The bytes that remain.
Unsent(bs) == SubSeq(bs, Taken(bs) + 1, Len(bs))
NetSent(bs) ==
  [net EXCEPT !.kout = @ \o SubSeq(bs, 1, Taken(bs)),
              !.rst  = IF @ = "pending" THEN "taken" ELSE @]

\* standard_socket::recv once the packets have been read.  A reset is
\* reported once: to recv, to send or to getsockopt(SO_ERROR).
RecvEc == IF net.rst = "pending" THEN "ERR"
          ELSE IF net.eof \/ net.rst = "taken" THEN "GRACE" ELSE "BLOCK"
NetRead == [net EXCEPT !.kin = <<>>, !.rst = IF @ = "pending" THEN "taken" ELSE @]

---------------------------------------------------------------------------
(* socket::send, with F_SEND_USE_SND_BUFFER.                               *)

Fresh(n) == [i \in 1..n |-> used.out + i]

\* Bytes wait already: the new ones are appended when they fit.
SendAppend(n) ==
  /\ sk.sb # <<>>
  /\ SbCap - Len(sk.sb) > n
  /\ sk' = [sk EXCEPT !.sb = @ \o Fresh(n)]
  /\ UNCHANGED <<net, ops, tasks, oev>>

SendDirect(n) ==
  LET blocked == SendEc(Fresh(n)) = "BLOCK" IN
  /\ sk.sb = <<>>
  /\ SendEc(Fresh(n)) # "ERR"
  /\ net' = NetSent(Fresh(n))
  /\ sk' = IF ~blocked THEN sk
           ELSE [sk EXCEPT !.sb = Unsent(Fresh(n)), !.wt = TRUE,
                           !.wf = BeginFlag(@)]
  /\ oev' = IF blocked THEN Append(oev, Told(<<"WR_BLOCK">>, FALSE, "OK")) ELSE oev
  /\ ops' = IF blocked THEN ops \o BeginOps(sk.wf, "W") ELSE ops
  /\ UNCHANGED tasks

\* send: the test of SHUTDOWN_WR, which the code makes just before it takes
\* L_WRITE, and what it does under the lock.
Send(n) ==
  /\ WriteFree
  /\ n =< SbCap
  /\ used.out + n =< limit.out
  /\ "SHUT" \notin sk.wf
  /\ SendAppend(n) \/ SendDirect(n)
  /\ used' = [used EXCEPT !.out = @ + n]
  /\ UNCHANGED <<poll, limit, ctx, mask, readers, rq, standby, calls, held, telling, heard, got>>

\* send meets a reset: nothing is kept and the caller is told.
SendFails ==
  /\ WriteFree
  /\ used.out < limit.out
  /\ "SHUT" \notin sk.wf
  /\ sk.sb = <<>>
  /\ net.rst = "pending"
  /\ net' = NetSent(<<>>)
  /\ UNCHANGED <<poll, limit, sk, ops, ctx, mask, tasks, readers, rq, standby, calls, held,
                 oev, telling, heard, got, used>>

---------------------------------------------------------------------------
(* async_read: handle_async_read and what it does with its result.         *)

\* The call async_read makes for the result of handle_async_read.
AfterRead(ec) == CASE ec = "GRACE" -> <<ShutdownCall({"R"})>>
                   [] ec = "ERR"   -> <<CloseCall("ERR")>>
                   [] OTHER        -> <<>>

WithCalls(cs) == IF cs = <<>> THEN calls ELSE calls \cup {cs}
WithErrors(cs, e) == IF e = <<>> THEN cs ELSE cs \cup {e}

\* The section under L_READ: the one-shot watch ends, the socket is read until
\* it would block, what arrived goes to the standby queue; when nothing arrived
\* the watch begins again.  `rest` is what the thread does afterwards.
MQueued(new) == new \o standby
Queued(new) == standby \o new
ReadSection(rest) ==
  LET shut == "SHUT" \in sk.rf
      new  == IF shut THEN <<>> ELSE net.kin
      ec   == IF shut THEN "BLOCK" ELSE RecvEc
      rf   == EndFlag(sk.rf)
      todo == AfterRead(ec) \o rest
  IN /\ net' = IF shut THEN net ELSE NetRead
     /\ standby' = Queued(new)
     /\ IF new = <<>>
        THEN /\ sk' = [sk EXCEPT !.rf = BeginFlag(rf)]
             /\ ops' = ops \o EndOps(sk.rf, "R") \o BeginOps(rf, "R")
             /\ calls' = WithErrors(WithCalls(todo), BeginError(rf))
             /\ UNCHANGED readers
        ELSE /\ sk' = [sk EXCEPT !.rf = rf]
             /\ ops' = ops \o EndOps(sk.rf, "R")
             /\ readers' = Append(readers, todo)
             /\ UNCHANGED calls

ReadTask ==
  /\ tasks["read"] > 0
  /\ ReadSection(<<>>)
  /\ tasks' = Scheduled(tasks, "read", 0 - 1)
  /\ UNCHANGED <<poll, limit, ctx, mask, rq, held, oev, telling, heard, got, used>>

\* The lambda of an error event: the read function, then the error functions.
ErrorEventTask ==
  /\ tasks["re"] > 0
  /\ ReadSection(<<CloseCall("ERR")>>)
  /\ tasks' = Scheduled(tasks, "re", 0 - 1)
  /\ UNCHANGED <<poll, limit, ctx, mask, rq, held, oev, telling, heard, got, used>>

\* Under m_rps_q_mutex a thread takes the standby queue, which another may
\* have emptied.
SwapQueues(i) ==
  /\ rq.q = <<>>
  /\ rq' = [q |-> standby, then |-> IF standby = <<>> THEN <<>> ELSE readers[i]]
  /\ standby' = <<>>
  /\ readers' = RemoveAt(readers, i)
  /\ calls' = IF standby = <<>> THEN WithCalls(readers[i]) ELSE calls
  /\ UNCHANGED <<poll, limit, sk, ops, ctx, mask, tasks, held, oev, telling, heard, got, net, used>>

\* E_PACKET_ARRIVE of the first packet; the peer's on_event begins the next
\* asynchronous read.  After the last one the thread goes on.
TriggerPacket ==
  LET last == Len(rq.q) = 1 IN
  /\ rq.q # <<>>
  /\ got' = Head(rq.q)
  /\ rq' = [q |-> Tail(rq.q), then |-> IF last THEN <<>> ELSE rq.then]
  /\ sk' = [sk EXCEPT !.rf = BeginFlag(@)]
  /\ ops' = ops \o BeginOps(sk.rf, "R")
  /\ calls' = WithErrors(IF last THEN WithCalls(rq.then) ELSE calls, BeginError(sk.rf))
  /\ UNCHANGED <<poll, limit, ctx, mask, tasks, readers, standby, held, oev, telling, heard, net,
                 used>>

---------------------------------------------------------------------------
(* async_write.                                                            *)

\* handle_async_write.  `expired`: the write has been blocked for longer than
\* m_delay_wp.
WriteTask(expired) ==
  LET ec   == IF sk.sb = <<>> THEN "OK"
              ELSE IF "SHUT" \in sk.wf THEN "SHUT" ELSE SendEc(sk.sb)
      wf   == EndFlag(sk.wf)
      over == ec = "BLOCK" /\ Taken(sk.sb) = 0 /\ expired
      again == ec = "BLOCK" /\ ~over
      fail == ec = "ERR" \/ over
  IN /\ tasks["write"] > 0
     /\ WriteFree
     /\ expired => ec = "BLOCK" /\ Taken(sk.sb) = 0
     /\ net' = IF ec \in {"OK", "BLOCK", "ERR"} /\ sk.sb # <<>> THEN NetSent(sk.sb) ELSE net
     /\ sk' = [sk EXCEPT !.sb = IF ec \in {"OK", "BLOCK"} THEN Unsent(sk.sb) ELSE @,
                         !.wt = IF ec = "OK" /\ sk.sb # <<>> THEN FALSE ELSE @,
                         !.wf = IF again THEN BeginFlag(wf) ELSE wf]
     /\ ops' = ops \o EndOps(sk.wf, "W") \o (IF again THEN BeginOps(wf, "W") ELSE <<>>)
     /\ oev' = IF ec = "OK" /\ sk.sb # <<>>
               THEN Append(oev, Told(<<"WR_UNBLOCK">>, FALSE, "OK")) ELSE oev
     /\ tasks' = Scheduled(Scheduled(tasks, "write", 0 - 1), "drain", IF fail THEN 1 ELSE 0)
     /\ UNCHANGED <<poll, limit, ctx, mask, readers, rq, standby, calls, held, telling, heard,
                    got, used>>

\* async_write after a failed or expired write: the packets that have arrived
\* are read and told by this thread, past m_rps_q, and the socket is closed.
WriteFailed ==
  LET new == IF "SHUT" \in sk.rf THEN <<>> ELSE net.kin
      rf  == IF new # <<>> THEN BeginFlag(sk.rf) ELSE sk.rf
  IN /\ tasks["drain"] > 0
     /\ tasks' = Scheduled(tasks, "drain", 0 - 1)
     /\ net' = IF "SHUT" \in sk.rf THEN net ELSE NetRead
     /\ got' = IF new = <<>> THEN got ELSE Last(new)
     /\ sk' = [sk EXCEPT !.rf = rf]
     /\ ops' = IF new # <<>> THEN ops \o BeginOps(sk.rf, "R") ELSE ops
     /\ calls' = calls \cup {<<CloseCall("ERR")>>}
     /\ UNCHANGED <<poll, limit, ctx, mask, readers, rq, standby, held, oev, telling, heard, used>>

---------------------------------------------------------------------------
(* close and shutdown.                                                     *)

\* A user's call; E_CLOSE of a closed socket is not told again, so the calls
\* a peer or a node makes from its handlers are of this kind too.
UserCall(c) ==
  /\ used.calls < limit.calls
  /\ sk.st # "CLOSED"
  /\ used' = [used EXCEPT !.calls = @ + 1]
  /\ calls' = calls \cup {<<c>>}
  /\ UNCHANGED <<poll, limit, sk, ops, ctx, mask, tasks, readers, rq, standby, held, oev,
                 telling, heard, got, net>>

\* The call returns: L_SOCKET is released and the thread goes on.
Returns(rest, by) ==
  /\ held' = Nobody
  /\ calls' = WithCalls(rest)
  /\ telling' = IF by = "ordered" THEN FALSE ELSE telling

\* close returns at once when the socket is closed; otherwise both flush what
\* is buffered, unless the write side is shut down.
Acquire(cs) ==
  LET c == Head(cs) IN
  /\ held.op = "none"
  /\ ~(c.op = "close" /\ sk.st = "CLOSED")
  /\ held' = [op |-> c.op, flag |-> c.flag, ec |-> c.ec, by |-> c.by, rest |-> Tail(cs),
              step |-> IF "SHUT" \in sk.wf THEN "rd" ELSE "flush",
              tries |-> 0, sflag |-> {}]
  /\ calls' = calls \ {cs}
  /\ UNCHANGED <<poll, limit, sk, ops, ctx, mask, tasks, readers, rq, standby, oev, telling,
                 heard, got, net, used>>

AlreadyClosed(cs) ==
  LET c == Head(cs) IN
  /\ held.op = "none"
  /\ c.op = "close" /\ sk.st = "CLOSED"
  /\ calls' = WithCalls(Tail(cs)) \ {cs}
  /\ telling' = IF c.by = "ordered" THEN FALSE ELSE telling
  /\ UNCHANGED <<poll, limit, sk, ops, ctx, mask, tasks, readers, rq, standby, held, oev, heard,
                 got, net, used>>

\* flush: until all is sent or an error; close(OK) waits without limit, the
\* others give up after their first sleep (begin_time-now is unsigned).
Flush ==
  LET left == Unsent(sk.sb)
      ends == sk.sb = <<>> \/ SendEc(sk.sb) # "BLOCK" \/
              (~(held.op = "close" /\ held.ec = "OK") /\ held.tries = 1)
  IN /\ held.step = "flush"
     /\ IF sk.sb = <<>> THEN UNCHANGED <<net, sk>>
        ELSE /\ net' = NetSent(sk.sb)
             /\ sk' = [sk EXCEPT !.sb = left, !.wt = @ /\ left # <<>>]
     /\ held' = IF ends THEN [held EXCEPT !.step = "rd"] ELSE [held EXCEPT !.tries = 1]
     /\ UNCHANGED <<poll, limit, ops, ctx, mask, tasks, readers, rq, standby, calls, oev,
                    telling, heard, got, used>>

\* The section under L_READ.  close ends the watch whether or not it was the
\* one that shut the direction down.
ShutRead ==
  LET first == "R" \in held.flag /\ "SHUT" \notin sk.rf IN
  /\ held.step = "rd"
  /\ IF first \/ held.op = "close"
     THEN /\ sk' = [sk EXCEPT !.rf = EndFlag(@) \cup {"SHUT"}]
          /\ ops' = ops \o EndOps(sk.rf, "R")
     ELSE UNCHANGED <<sk, ops>>
  /\ held' = [held EXCEPT !.step = "wr", !.sflag = IF first THEN {"R"} ELSE {}]
  /\ UNCHANGED <<poll, limit, ctx, mask, tasks, readers, rq, standby, calls, oev, telling,
                 heard, got, net, used>>

ShutEvents(sflag) == (IF "R" \in sflag THEN <<"RD_SHUTDOWN">> ELSE <<>>)
                     \o (IF "W" \in sflag THEN <<"WR_SHUTDOWN">> ELSE <<>>)

MCloseEvents(sflag) == IF sflag = {} THEN <<>> ELSE Append(ShutEvents(sflag), "CLOSE")
CloseEvents(sflag) == Append(ShutEvents(sflag), "CLOSE")

\* What this call shut down, itself.
Ended == held.sflag \cup (IF "W" \in held.flag /\ "SHUT" \notin sk.wf THEN {"W"} ELSE {})

\* close, its section under L_WRITE and _close: the kernel forgets the
\* descriptor; one ordered task tells all.
CloseTells ==
  /\ held.op = "close"
  /\ held.step = "wr"
  /\ sk' = [sk EXCEPT !.st = "CLOSED", !.wf = EndFlag(@) \cup {"SHUT"}]
  /\ ops' = ops \o EndOps(sk.wf, "W")
  /\ mask' = {}
  /\ oev' = Append(oev, Told(CloseEvents(Ended), FALSE, held.ec))
  /\ Returns(held.rest, held.by)
  /\ UNCHANGED <<poll, limit, ctx, tasks, readers, rq, standby, heard, got, net, used>>

ShutdownTells ==
  /\ held.op = "shutdown"
  /\ held.step = "wr"
  /\ IF "W" \in Ended
     THEN /\ sk' = [sk EXCEPT !.wf = EndFlag(@) \cup {"SHUT"}]
          /\ ops' = ops \o EndOps(sk.wf, "W")
     ELSE UNCHANGED <<sk, ops>>
  /\ oev' = IF Ended = {} THEN oev ELSE Append(oev, Told(ShutEvents(Ended), TRUE, held.ec))
  /\ Returns(held.rest, held.by)
  /\ UNCHANGED <<poll, limit, ctx, mask, tasks, readers, rq, standby, heard, got, net, used>>

\* The sequential runner executes the next ordered task; __rdwr_check closes
\* the socket when both directions are shut down.
TellOrdered ==
  LET t == Head(oev)
      closes == t.check /\ "SHUT" \in sk.rf /\ "SHUT" \in sk.wf
  IN /\ oev # <<>>
     /\ ~telling
     /\ oev' = Tail(oev)
     /\ heard' = heard \cup (Range(t.evs) \cap Ends)
     /\ telling' = closes
     /\ calls' = IF closes THEN calls \cup {<<[CloseCall(t.ec) EXCEPT !.by = "ordered"]>>}
                 ELSE calls
     /\ UNCHANGED <<poll, limit, sk, ops, ctx, mask, tasks, readers, rq, standby, held, got, net,
                    used>>

---------------------------------------------------------------------------
(* The observer.                                                           *)

\* ctx_update_for_watch and ctx_update_for_unwatch.
CtxWatch(c, d) == c \cup {d}
CtxUnwatch(c, d) == c \ {d}

\* epoll::watch adds the descriptor, or modifies it to the new interest alone;
\* on a closed descriptor epoll_ctl fails and the error function is scheduled.
EpollWatch(o, d) ==
  IF sk.st = "CLOSED" THEN o
  ELSE [o EXCEPT !.ctx = CtxWatch(@, d), !.mask = {d}]
WatchError ==
  IF poll = "epoll" /\ sk.st = "CLOSED" /\ \E i \in 1..Len(ops) : ops[i].op = "watch"
  THEN <<CloseCall("ERR")>> ELSE <<>>

\* epoll::unwatch leaves the interests of the other direction; on a closed
\* descriptor it fails and the context is erased.
EpollUnwatch(o, d) ==
  IF o.ctx = {} THEN o
  ELSE IF sk.st = "CLOSED" THEN [o EXCEPT !.ctx = {}, !.mask = {}]
  ELSE [o EXCEPT !.ctx = CtxUnwatch(@, d), !.mask = o.ctx \ {d}]

\* select and wpoll keep the interests of a descriptor in one set.
SelectWatch(o, d) == [o EXCEPT !.ctx = CtxWatch(@, d)]
MForgets(o, d) == [o EXCEPT !.ctx = {}]
SelectUnwatch(o, d) == [o EXCEPT !.ctx = CtxUnwatch(@, d)]
WpollWatch(o, d) == [o EXCEPT !.ctx = CtxWatch(@, d)]
WpollUnwatch(o, d) == [o EXCEPT !.ctx = CtxUnwatch(@, d)]

Watch(o, d) == CASE poll = "epoll" -> EpollWatch(o, d)
                 [] poll = "select" -> SelectWatch(o, d)
                 [] poll = "wpoll" -> WpollWatch(o, d)
Unwatch(o, d) == CASE poll = "epoll" -> EpollUnwatch(o, d)
                   [] poll = "select" -> SelectUnwatch(o, d)
                   [] poll = "wpoll" -> WpollUnwatch(o, d)

Observed == [ctx |-> ctx, mask |-> mask]
ApplyOp(o, op) == IF op.op = "watch" THEN Watch(o, op.dir) ELSE Unwatch(o, op.dir)

\* _process_ops: the queue in order, then the poller's check_ioe.
Processed ==
  LET done[i \in 0..Len(ops)] == IF i = 0 THEN Observed ELSE ApplyOp(done[i - 1], ops[i])
  IN done[Len(ops)]

\* check_ioe of each poller: what it asks the kernel about.
EpollInterest(o) == o.mask
SelectInterest(o) == o.ctx        \* all of them: the highest descriptor too
WpollInterest(o) == o.ctx
Interest(o) == CASE poll = "epoll" -> EpollInterest(o)
                 [] poll = "select" -> SelectInterest(o)
                 [] poll = "wpoll" -> WpollInterest(o)

\* What the kernel reports of the descriptor to the poller in state o.
Ready(o) ==
  {d \in Interest(o) : sk.st # "CLOSED" /\ IF d = "R" THEN Readable ELSE Writable}
\* An error event comes of a reset; EPOLLHUP alone is left out.
ErrorEvent(o) == sk.st # "CLOSED" /\ net.rst # "no" /\ o.ctx # {} /\ poll # "select"

TaskOf(d) == IF d = "R" THEN "read" ELSE "write"

\* An event ends the watch: no watch of a data socket is infinite.
OneShot(o, evs) ==
  LET o1 == IF "R" \in evs THEN Unwatch(o, "R") ELSE o
  IN IF "W" \in evs THEN Unwatch(o1, "W") ELSE o1

Ticked(o) ==
  /\ ops' = <<>>
  /\ ctx' = o.ctx
  /\ mask' = o.mask
  /\ UNCHANGED <<poll, limit, sk, readers, rq, standby, held, oev, telling, heard, got, used>>

\* The function of each direction that is ready is scheduled.
Update ==
  LET o == Processed
      evs == Ready(o)
  IN /\ ops # <<>> \/ evs # {}
     /\ ~ErrorEvent(o)
     /\ Ticked(OneShot(o, evs))
     /\ tasks' = [k \in TaskKinds |->
                    tasks[k] + (IF \E d \in evs : k = TaskOf(d) THEN 1 ELSE 0)]
     /\ calls' = WithErrors(calls, WatchError)
     /\ UNCHANGED net

\* An error event of epoll and wpoll: getsockopt takes the error, both watches
\* end, and one lambda runs the read function (when the descriptor is readable
\* and watched for it) and the error functions.
UpdateError ==
  LET o == Processed IN
  /\ ErrorEvent(o)
  /\ Ticked(Unwatch(Unwatch(o, "W"), "R"))
  /\ net' = [net EXCEPT !.rst = "taken"]
  /\ IF "R" \in Ready(o)
     THEN tasks' = Scheduled(tasks, "re", 1) /\ UNCHANGED calls
     ELSE calls' = WithErrors(calls, <<CloseCall("ERR")>>) /\ UNCHANGED tasks

---------------------------------------------------------------------------
(* The remote side (external).                                             *)

RemoteSends ==
  /\ sk.st # "CLOSED"
  /\ used.in < limit.in
  /\ ~net.eof /\ net.rst = "no"
  /\ net' = [net EXCEPT !.kin = Append(@, used.in + 1)]
  /\ used' = [used EXCEPT !.in = @ + 1]
  /\ UNCHANGED <<poll, limit, sk, ops, ctx, mask, tasks, readers, rq, standby, calls, held, oev,
                 telling, heard, got>>

RemoteDrains ==
  /\ sk.st # "CLOSED"
  /\ net.kout # <<>>
  /\ net' = [net EXCEPT !.kout = Tail(@), !.drained = Head(net.kout)]
  /\ UNCHANGED <<poll, limit, sk, ops, ctx, mask, tasks, readers, rq, standby, calls, held, oev,
                 telling, heard, got, used>>

RemoteEnds ==
  /\ sk.st # "CLOSED"
  /\ ~net.eof /\ net.rst = "no"
  /\ \/ limit.end = "eof" /\ net' = [net EXCEPT !.eof = TRUE]
     \/ limit.end = "rst" /\ net' = [net EXCEPT !.rst = "pending", !.kin = <<>>]
  /\ UNCHANGED <<poll, limit, sk, ops, ctx, mask, tasks, readers, rq, standby, calls, held, oev,
                 telling, heard, got, used>>

---------------------------------------------------------------------------

\* The node has begun the first asynchronous read: of an accepted socket
\* with begin_async_read(), of a connected one with the option that posts a
\* read event as well.
Init ==
  /\ poll \in Polls /\ limit \in Limits
  /\ sk = [st |-> "CONNECTED", rf |-> {"WATCH"}, wf |-> {}, sb |-> <<>>, wt |-> FALSE]
  /\ ops = <<Op("watch", "R")>>
  /\ ctx = {} /\ mask = {}
  /\ tasks = [k \in TaskKinds |-> IF k = "read" THEN limit.posted ELSE 0]
  /\ readers = <<>> /\ rq = [q |-> <<>>, then |-> <<>>] /\ standby = <<>>
  /\ calls = {} /\ held = Nobody
  /\ oev = <<>> /\ telling = FALSE /\ heard = {} /\ got = 0
  /\ net = [kout |-> <<>>, drained |-> 0, kin |-> <<>>, eof |-> FALSE, rst |-> "no"]
  /\ used = [out |-> 0, in |-> 0, calls |-> 0]

Runners == \/ ReadTask \/ ErrorEventTask
           \/ \E i \in 1..Len(readers) : SwapQueues(i)
           \/ TriggerPacket
           \/ \E e \in BOOLEAN : WriteTask(e)
           \/ WriteFailed

Locked == \/ \E cs \in calls : Acquire(cs) \/ AlreadyClosed(cs)
          \/ Flush \/ ShutRead \/ CloseTells \/ ShutdownTells

Users == \/ \E n \in 1..2 : Send(n)
         \/ SendFails
         \/ UserCall(CloseCall("OK"))
         \/ \E flag \in (SUBSET Dirs) \ {{}} : UserCall(ShutdownCall(flag))

Observer == Update \/ UpdateError

Next == Runners \/ Locked \/ Users \/ Observer \/ TellOrdered
        \/ RemoteSends \/ RemoteDrains \/ RemoteEnds

Spec == Init /\ [][Next]_vars

\* Every thread the program owns is scheduled; the remote side goes on reading
\* what it was sent.  Users and the rest of the remote side owe nothing.
FairSpec == /\ Spec
            /\ WF_vars(ReadTask) /\ WF_vars(ErrorEventTask)
            /\ WF_vars(\E i \in 1..Len(readers) : SwapQueues(i))
            /\ WF_vars(TriggerPacket)
            /\ SF_vars(WriteTask(FALSE)) /\ WF_vars(WriteFailed)
            /\ WF_vars(Locked)
            /\ WF_vars(Observer)
            /\ WF_vars(TellOrdered)
            /\ WF_vars(RemoteDrains)

---------------------------------------------------------------------------
(* Properties.                                                             *)

Calls == [op : {"close", "shutdown"}, flag : SUBSET Dirs, ec : {"OK", "ERR"},
          by : {"thread", "ordered"}]
Events == {"WR_BLOCK", "WR_UNBLOCK", "RD_SHUTDOWN", "WR_SHUTDOWN", "CLOSE"}

\* The variables keep their types, and the send buffer its capacity
\* (socket::send asserts m_sb->left_capacity() >= to_buffer_c).
TypeOK ==
  /\ poll \in PollTypes
  /\ sk.st \in {"CONNECTED", "CLOSED"}
  /\ sk.rf \subseteq {"SHUT", "WATCH"} /\ sk.wf \subseteq {"SHUT", "WATCH"}
  /\ sk.sb \in Seq(1..limit.out) /\ Len(sk.sb) =< SbCap /\ sk.wt \in BOOLEAN
  /\ ops \in Seq([op : {"watch", "unwatch"}, dir : Dirs])
  /\ ctx \subseteq Dirs /\ mask \subseteq ctx
  /\ tasks \in [TaskKinds -> Nat]
  /\ readers \in Seq(Seq(Calls)) /\ calls \subseteq Seq(Calls)
  /\ rq.q \in Seq(1..limit.in) /\ standby \in Seq(1..limit.in) /\ got \in 0..limit.in
  /\ heard \subseteq Ends /\ telling \in BOOLEAN

\* The operations m to n of the queue leave the direction d alone.
Quiet(m, n, d) == \A k \in m..n : ops[k].dir # d

\* After n operations of the queue the observer is to watch the direction d.
Watching(n, d) == \/ \E j \in 1..n : ops[j] = Op("watch", d) /\ Quiet(j + 1, n, d)
                  \/ d \in ctx /\ Quiet(1, n, d)

\* A thread that will close the socket is under way.
Closing == \/ tasks["re"] + tasks["drain"] > 0
           \/ \E cs \in calls : \E i \in 1..Len(cs) : cs[i].op = "close"
           \/ held.op = "close"
           \/ held.op = "shutdown" /\ held.rest # <<>>
           \/ \E i \in 1..Len(readers) : \E j \in 1..Len(readers[i]) : readers[i][j].op = "close"
           \/ \E j \in 1..Len(rq.then) : rq.then[j].op = "close"

\* A direction marked WATCH is watched, or about to be, or its event is on its
\* way: the flags under L_READ and L_WRITE, the queue of operations and the
\* observer's contexts, kept by three threads, never disagree for good.
Awaited(f, d, kind) ==
  "WATCH" \in f => \/ Watching(Len(ops), d)
                   \/ Quiet(1, Len(ops), d) /\ tasks[kind] > 0
                   \/ Closing
WatchIsKept == Awaited(sk.rf, "R", "read") /\ Awaited(sk.wf, "W", "write")

\* While bytes wait in the send buffer of an open write side, the socket is
\* watched for writing and the write timer runs (handle_async_write asserts
\* m_async_wt != 0): a blocked writer is never forgotten.
BlockedIsWatched ==
  sk.sb # <<>> /\ "SHUT" \notin sk.wf => sk.wt /\ ("WATCH" \in sk.wf \/ Closing)

\* The observer is never asked to watch what it watches already
\* (ctx_update_for_watch asserts (ctx->flag&flag) == 0 and empty slots).
NoDoubleWatch == \A i \in 1..Len(ops) : ops[i].op = "watch" => ~Watching(i - 1, ops[i].dir)

\* What the user sent leaves in order: what the remote side has read, the
\* kernel's buffer and the send buffer are the bytes accepted so far.
BytesInOrder == net.kout \o sk.sb = [i \in 1..(used.out - net.drained) |-> net.drained + i]

\* Packets are told in the order they arrived, although several runners read
\* and tell them: none that waits was overtaken.  Only the drain after a failed
\* write goes past the queue, and the socket is closed then.
PacketsInOrder ==
  \/ \A p \in Range(rq.q \o standby \o net.kin) : p > got
  \/ Closing \/ sk.st = "CLOSED"

Forbidden(ends) == ends \cup (IF "WR_SHUTDOWN" \in ends THEN {"WR_BLOCK", "WR_UNBLOCK"} ELSE {})
                        \cup (IF "CLOSE" \in ends THEN Events ELSE {})
\* The ordered events: each end is told once, nothing of writing after
\* E_WR_SHUTDOWN, nothing at all after E_CLOSE.
EventsInOrder ==
  \A k \in 1..Len(oev) : \A i \in 1..Len(oev[k].evs) :
    /\ oev[k].evs[i] \notin Forbidden(heard)
    /\ \A l \in 1..Len(oev) : \A j \in 1..Len(oev[l].evs) :
         l > k \/ (l = k /\ j > i) => oev[l].evs[j] \notin Forbidden({oev[k].evs[i]} \cap Ends)

\* A blocked write ends: the bytes leave or the write side is shut down.  With
\* epoll this fails: the watch for reading that follows replaces the interest
\* in writing, and a writer waits for the next packet to arrive.
BlockedWriteEnds == (poll # "epoll" /\ sk.sb # <<>>) ~> (sk.sb = <<>> \/ "SHUT" \in sk.wf)

\* What has arrived is read, or the read side is shut down, with every poller.
ArrivedIsRead == (net.kin # <<>>) ~> (net.kin = <<>> \/ "SHUT" \in sk.rf)

\* A close that was asked for is told to the listeners.
CloseIsTold == (\E cs \in calls : Head(cs).op = "close") ~> ("CLOSE" \in heard)

\* The socket, the queue of operations and the observer agree on what is watched.
WatchesAgree == TypeOK /\ WatchIsKept /\ BlockedIsWatched /\ NoDoubleWatch

\* Bytes, packets and events keep their order, whichever threads carry them.
OrderKept == BytesInOrder /\ PacketsInOrder /\ EventsInOrder

\* Neither direction of an open socket stands still: what waits to be written
\* leaves (epoll excepted), and what has arrived is read.
MovesOn == BlockedWriteEnds /\ ArrivedIsRead
===========================================================================
