------------------------------ MODULE WcpTable ------------------------------
(***************************************************************************)
(* The descriptors of WCP: socket_base on top of the two tables of wcp     *)
(* (the WCBs that were created and the WCBs that run), the descriptors'    *)
(* numbers, their options, and wpoll below the observer.                   *)
(*                                                                         *)
(* User threads execute scripts of calls on socket_base objects; a call    *)
(* that fails is followed by close, as every caller in node_abstract does. *)
(* A call on a descriptor looks it up in m_wcb_map under that map's lock,  *)
(* then in m_wcb_create_pending_map under that map's spin mutex, and then  *)
(* acts on what it found: three steps.  bind, listen and connect are one   *)
(* step under the spin mutex, which a blocking connect keeps while it      *)
(* waits.  The observer_ticker thread runs wcp::run and then the observer. *)
(*                                                                         *)
(* A WCB and the socket_base that made it have one name; passive WCBs come *)
(* from the SYNs a listener handles.  What a connection does is the subject*)
(* of WcpConnection: here it succeeds or fails as env.fate says: the peer  *)
(* is up, dead, sends, resets or closes, or the SYN cannot be sent.  A TCP *)
(* socket (external) has a descriptor of the kernel and no table.          *)
(***************************************************************************)
EXTENDS Integers, Sequences, FiniteSets, SequencesExt

CONSTANTS Envs,     \* environments: [prog, proto, fate, fails, fdmax, syn]: scripts by thread,
                    \* protocol and fate of each socket, what may fail once, WCP_FD_MAX,
                    \* the connections that come in
          Users,    \* the user threads
          Active,   \* socket_base objects the users create
          Passive,  \* WCBs of incoming connections
          EvtMax    \* size of the array wpoll_wait fills

VARIABLES env,    \* the environment of this behaviour
          so,     \* socket_base: [st, fd, opt, lock, watch, shut]
          wcb,    \* the WCBs: [st, fd, err, flags, opt, rd]; err is wcb_errno # 0,
                  \* flags has L (IS_LISTENER), C (CLOSED_CALLED) and the local
                  \* shutdowns R and W, rd: there is something to read
          backlog,\* the listener's [q, pend]: backlogq and backloglist_pending
          pend,   \* m_wcb_create_pending_map, by descriptor
          map,    \* m_wcb_map, by descriptor
          pm,     \* the holder of m_wcb_create_pending_map_mutex
          th,     \* the threads: [left, call, s, want, todo, step, found, mode]
          wq,     \* the operations queued at the observer
          ops,    \* wcp::m_ops: WCBs to insert
          tick,   \* where the ticker is: [at, dead, evs]
          ent,    \* every wpoll_watch_event made, with the callbacks of its
                  \* observer_ctx: [s, dirs, fn]
          evts,   \* wpoll::evts, the numbers of those in it
          pendq,  \* m_event_pending_queue: [i, ev]
          made,   \* descriptors made so far
          told,   \* events told, by socket
          used    \* [fail, over, clash, raced]: a failure happened; wpoll_wait had more
                  \* than EvtMax events; a number was made that another socket still has;
                  \* the sockets whose options two calls changed at once

vars == <<env, so, wcb, backlog, pend, map, pm, th, wq, ops, tick, ent, evts, pendq, made, told, used>>

None == "none"
Socks == Active \cup Passive
Fds == 0..(env.fdmax - 1)
Idle == [call |-> None, s |-> None, want |-> {}, todo |-> <<>>, step |-> None, found |-> None, mode |-> <<>>]
Watch == [watchR |-> "R", watchW |-> "W"]
Locked(call) == call \notin {"bufsize", "reuse", "name", "accept"}
Wcp(s) == env.proto[s] = "WCP"
Fails(what) == what \in env.fails /\ ~used.fail

\* make_wcb_fd: the counter modulo WCP_FD_MAX.
MakeFd(n) == n % env.fdmax

NewWcb(st, n) == [st |-> st, fd |-> MakeFd(n), err |-> FALSE, flags |-> {}, opt |-> {},
                  rd |-> FALSE]
NoWcb == [st |-> "NONE", fd |-> 0, err |-> FALSE, flags |-> {}, opt |-> {}, rd |-> FALSE]

\* A socket is about while its user, a table, the poll or a queue knows it.
\* Nothing keeps make_wcb_fd from a number that a socket still about has.
InTable(s) == \E f \in Fds : map[f] = s \/ pend[f] = s
InPoll(s) == \E i \in ToSet(evts) \cup {e.i : e \in ToSet(pendq \o tick.evs)} : ent[i].s = s
About(s) == \/ so[s].st # "CLOSED" \/ \E t \in Users : th[t].s = s
            \/ InTable(s) \/ InPoll(s) \/ s \in ToSet(ops) \/ \E o \in ToSet(wq) : o.s = s
Taken(n) == \E s \in Socks : Wcp(s) /\ wcb[s].st # "NONE" /\ wcb[s].fd = MakeFd(n) /\ About(s)

---------------------------------------------------------------------------
(* The calls of socket_base, and what each does to the descriptor.         *)

\* The options a call wants the socket to have, read before it begins.
Options == {"RA", "NB", "ND"}
Wanted(call, s) ==
  CASE call = "on"      -> so[s].opt \cup {"NB"}
    [] call = "off"     -> so[s].opt \ {"NB"}
    [] call = "reuse"   -> so[s].opt \cup {"RA"}
    [] call = "nodelay" -> so[s].opt \cup {"ND"}
    [] OTHER -> {}
\* _set_options goes through the options in this order and changes the ones that
\* are not as wanted when it comes to them.  open sets the buffer sizes (one lookup here).
Todo(call, s) ==
  CASE call = "open" -> <<"make", "insert", "bufsize">>
    [] call \in {"on", "off", "reuse", "nodelay"} -> IF Wcp(s) THEN <<"RA", "NB">> ELSE <<"RA", "NB", "ND">>
    [] OTHER -> <<call>>
From(todo, s, want) ==
  LET due == {i \in DOMAIN todo : todo[i] \in Options => (todo[i] \in want) # (todo[i] \in so[s].opt)}
  IN IF due = {} THEN <<>> ELSE SubSeq(todo, Min(due), Len(todo))

\* The states in which the callers in this code make a call.
Allowed(call, s) ==
  CASE call = "open"    -> so[s].fd = -1
    [] call \in {"bind", "reuse"} -> so[s].st = "OPENED"
    [] call = "nodelay" -> ~Wcp(s) /\ so[s].st # "CLOSED"
    [] call = "listen"  -> so[s].st = "BINDED"
    [] call = "connect" -> so[s].st \in {"OPENED", "BINDED"}
    [] call = "accept"  -> so[s].st = "LISTEN"
    [] call = "watchR"  -> so[s].st \in {"LISTEN", "CONNECTED"} /\ "R" \notin so[s].shut
    [] call = "watchW"  -> so[s].st = "CONNECTING" /\ "W" \notin so[s].shut
    [] call = "shutdown" -> so[s].st = "CONNECTED" /\ "R" \notin so[s].shut
    [] OTHER -> so[s].st # "CLOSED"

Step(todo) == IF todo = <<>> THEN "done"
              ELSE IF Head(todo) \in {"make", "insert", "bind", "listen", "connect", "accept"} THEN Head(todo)
              ELSE "map"

Changing(s) == \E t \in Users : th[t].s = s /\ \E o \in ToSet(th[t].todo) : o \in Options

\* A call begins: L_SOCKET is taken where the code takes it; close and shutdown
\* set their flags and end the watches first.  A call its caller would not make
\* now is left out; accept is called when the watch of the listener says so.
Shuts(call) == CASE call = "close" -> {"R", "W"} [] call = "shutdown" -> {"R"} [] OTHER -> {}
Queued(op, s, dirs) == SetToSeq({[op |-> op, fd |-> so[s].fd, s |-> s, dir |-> d] : d \in dirs})
Begin(t) ==
  LET call == Head(th[t].left)[1]
      s    == Head(th[t].left)[2]
      want == Wanted(call, s)
      todo == From(Todo(call, s), s, want)
  IN /\ th[t].call = None /\ th[t].left # <<>> /\ call \notin DOMAIN Watch
     /\ call = "accept" => "R" \in told[s] \/ so[s].st # "LISTEN"
     /\ \/ /\ ~Allowed(call, s)
           /\ th' = [th EXCEPT ![t].left = Tail(@)]
           /\ UNCHANGED <<so, wq, used>>
        \/ /\ Allowed(call, s)
           /\ used' = IF ToSet(todo) \cap Options # {} /\ Changing(s) THEN [used EXCEPT !.raced = @ \cup {s}] ELSE used
           /\ Locked(call) => so[s].lock = None
           /\ th' = [th EXCEPT ![t] = [left |-> Tail(@.left), call |-> call, s |-> s, want |-> want,
                                       todo |-> todo, step |-> Step(todo), found |-> None, mode |-> <<>>]]
           /\ so' = [so EXCEPT ![s].lock = IF Locked(call) THEN t ELSE @, ![s].shut = @ \cup Shuts(call),
                               ![s].watch = @ \ Shuts(call)]
           /\ wq' = wq \o Queued("del", s, so[s].watch \cap Shuts(call))
     /\ UNCHANGED <<env, wcb, backlog, pend, map, pm, ops, tick, ent, evts, pendq, made, told>>

\* begin_async_read and begin_async_connect queue a watch under L_READ or L_WRITE.
BeginWatch(t) ==
  LET call == Head(th[t].left)[1]
      s    == Head(th[t].left)[2]
      dirs == IF Allowed(call, s) THEN {Watch[call]} \ so[s].watch ELSE {}
  IN /\ th[t].call = None /\ th[t].left # <<>> /\ call \in DOMAIN Watch
     /\ th' = [th EXCEPT ![t].left = Tail(@)]
     /\ so' = [so EXCEPT ![s].watch = @ \cup dirs]
     /\ wq' = wq \o Queued("add", s, dirs)
     /\ UNCHANGED <<env, wcb, backlog, pend, map, pm, ops, tick, ent, evts, pendq, made, told, used>>

\* The operation is done; or the call returns an error, and the caller closes
\* the socket unless the call was close or one whose result it does not need.
Done(t) == LET rest == From(Tail(th[t].todo), th[t].s, th[t].want) IN [th[t] EXCEPT !.todo = rest, !.step = Step(rest), !.found = None, !.mode = <<>>]
Failed(t) ==
  LET s == th[t].s IN
  [th[t] EXCEPT !.todo = <<>>, !.step = "done", !.call = IF @ = "close" THEN @ ELSE "failed",
                !.left = IF th[t].call \in {"close", "bufsize", "name", "shutdown", "accept"} THEN @
                         ELSE <<<<"close", s>>>> \o SelectSeq(@, LAMBDA c : c[2] # s)]

\* m_state after a call that succeeded.
StateAfter(call, s) ==
  CASE call = "bind"   -> "BINDED"
    [] call = "listen" -> "LISTEN"
    [] call = "close"  -> "CLOSED"
    [] OTHER -> so[s].st

\* The call returns and releases L_SOCKET.
Return(t) ==
  LET c == th[t].call
      s == th[t].s
  IN /\ th[t].step = "done"
     /\ so' = [so EXCEPT ![s].st = StateAfter(c, s), ![s].lock = IF @ = t THEN None ELSE @]
     /\ th' = [th EXCEPT ![t] = [left |-> @.left] @@ Idle]
     /\ UNCHANGED <<env, wcb, backlog, pend, map, pm, wq, ops, tick, ent, evts, pendq, made, told, used>>

---------------------------------------------------------------------------
(* The descriptor calls of wcp.                                            *)

\* wcp::socket: the UDP socket is opened and the descriptor made,
Make(t) ==
  LET s == th[t].s IN
  /\ th[t].step = "make"
  /\ \/ /\ th' = [th EXCEPT ![t] = Done(t)]
        /\ made' = IF Wcp(s) THEN made + 1 ELSE made
        /\ wcb' = [wcb EXCEPT ![s] = NewWcb("CLOSED", IF Wcp(s) THEN made + 1 ELSE 0)]
        /\ used' = [used EXCEPT !.clash = @ \/ (Wcp(s) /\ Taken(made + 1))]
     \/ /\ Fails("socket") /\ used' = [used EXCEPT !.fail = TRUE]
        /\ th' = [th EXCEPT ![t] = [Failed(t) EXCEPT !.left = SelectSeq(@, LAMBDA c : c[2] # s)]]
        /\ UNCHANGED <<made, wcb>>
  /\ UNCHANGED <<env, so, backlog, pend, map, pm, wq, ops, tick, ent, evts, pendq, told>>

\* and the WCB enters the table of new ones, unless the number is there.
Insert(t) ==
  LET s  == th[t].s
      fd == wcb[s].fd
  IN /\ th[t].step = "insert"
     /\ Wcp(s) => pm = None
     /\ IF Wcp(s) /\ pend[fd] # None
        THEN /\ th' = [th EXCEPT ![t] = [Failed(t) EXCEPT !.left = SelectSeq(@, LAMBDA c : c[2] # s)]]
             /\ UNCHANGED <<so, pend>>
        ELSE /\ th' = [th EXCEPT ![t] = Done(t)]
             /\ so' = [so EXCEPT ![s].st = "OPENED", ![s].fd = fd]
             /\ pend' = IF Wcp(s) THEN [pend EXCEPT ![fd] = s] ELSE pend
     /\ UNCHANGED <<env, wcb, backlog, map, pm, wq, ops, tick, ent, evts, pendq, made, told, used>>

\* The lookups in the two tables.  shutdown and getsockname look only into
\* m_wcb_map; close takes a WCB out of the table of new ones.
LookupMap(t) ==
  LET s == th[t].s
      f == IF Wcp(s) THEN map[so[s].fd] ELSE s
  IN /\ th[t].step = "map"
     /\ th' = [th EXCEPT ![t].found = f,
                         ![t].step = IF f # None \/ Head(th[t].todo) \in {"shutdown", "name"} THEN "act" ELSE "pend"]
     /\ UNCHANGED <<env, so, wcb, backlog, pend, map, pm, wq, ops, tick, ent, evts, pendq, made, told, used>>
\* mutant: every call takes what it finds out of the table
MLookupPend(t) ==
  LET fd == so[th[t].s].fd IN
  /\ th[t].step = "pend" /\ pm = None
  /\ th' = [th EXCEPT ![t].found = pend[fd], ![t].step = "act"]
  /\ pend' = [pend EXCEPT ![fd] = None]
  /\ UNCHANGED <<env, so, wcb, backlog, map, pm, wq, ops, tick, ent, evts, pendq, made, told, used>>
LookupPend(t) ==
  LET fd == so[th[t].s].fd IN
  /\ th[t].step = "pend" /\ pm = None
  /\ th' = [th EXCEPT ![t].found = pend[fd], ![t].step = "act"]
  /\ pend' = IF Head(th[t].todo) = "close" THEN [pend EXCEPT ![fd] = None] ELSE pend
  /\ UNCHANGED <<env, so, wcb, backlog, map, pm, wq, ops, tick, ent, evts, pendq, made, told, used>>

\* What a call does to the WCB it found.  A missing WCB is E_EBADF.  The buffer
\* sizes of a WCB are set before it runs; a listener is not shut down.
SizeRefused(f) == Wcp(f) /\ wcb[f].st # "CLOSED"
ShutRefused(f) == wcb[f].flags \cap {"L", "R"} # {}
Refused(op, f) ==
  IF f = None THEN TRUE
  ELSE CASE op = "bufsize"  -> SizeRefused(f)
         [] op = "shutdown" -> ShutRefused(f)
         [] op = "close"    -> "C" \in wcb[f].flags
         [] OTHER -> FALSE
\* The options of a descriptor.  WCP clears none: setsockopt hands SO_REUSEADDR
\* to reuse_addr whatever the value, and non-blocking is turned off with
\* mode &= WCP_O_NONBLOCK.  The mode is read by F_GETFL, which leaves -1 when it
\* finds no WCB, and written by F_SETFL.
GetFl(f) == IF f = None THEN {"NB"} ELSE wcb[f].opt \cap {"NB"}
SetFl(mode, want, f) == IF "NB" \in want THEN {"NB"} ELSE IF Wcp(f) THEN mode ELSE {}
SetFlag(o, want, mode, f) ==
  IF o = "NB" THEN (wcb[f].opt \ {"NB"}) \cup SetFl(mode, want, f)
  ELSE IF o \in want \/ Wcp(f) THEN wcb[f].opt \cup {o} ELSE wcb[f].opt \ {o}
\* WCB::close
Closed(w) == [w EXCEPT !.st = "CLOSED", !.err = TRUE, !.flags = @ \cup {"C", "R", "W"}]
After(op, want, mode, f) ==
  LET w == wcb[f] IN
  CASE op \in Options  -> [w EXCEPT !.opt = SetFlag(op, want, mode, f)]
    [] op = "shutdown" -> [w EXCEPT !.flags = @ \cup {"R"}]
    [] op = "close"    -> IF Wcp(f) THEN Closed(w) ELSE [Closed(w) EXCEPT !.st = "RECYCLE"]
    [] OTHER -> w
\* F_GETFL, and the lookup of F_SETFL begins.
ReadMode(t) ==
  /\ th[t].step = "act" /\ Head(th[t].todo) = "NB" /\ th[t].mode = <<>>
  /\ th' = [th EXCEPT ![t].mode = <<GetFl(th[t].found)>>, ![t].found = None, ![t].step = "map"]
  /\ UNCHANGED <<env, so, wcb, backlog, pend, map, pm, wq, ops, tick, ent, evts, pendq, made, told, used>>
\* mutant: an option call that found no WCB goes on as if it had set the option
MAct(t) ==
  LET op == Head(th[t].todo)
      f  == th[t].found
  IN /\ th[t].step = "act" /\ (op = "NB" => th[t].mode # <<>>)
     /\ IF Refused(op, f)
        THEN /\ th' = [th EXCEPT ![t] = IF op \in Options THEN [@ EXCEPT !.step = "assign"] ELSE Failed(t)]
             /\ UNCHANGED wcb
        ELSE /\ th' = [th EXCEPT ![t] = IF op \in Options THEN [@ EXCEPT !.step = "assign"] ELSE Done(t)]
             /\ wcb' = [wcb EXCEPT ![f] = After(op, th[t].want, IF op = "NB" THEN Head(th[t].mode) ELSE {}, f)]
     /\ UNCHANGED <<env, so, backlog, pend, map, pm, wq, ops, tick, ent, evts, pendq, made, told, used>>
Act(t) ==
  LET op == Head(th[t].todo)
      f  == th[t].found
  IN /\ th[t].step = "act" /\ (op = "NB" => th[t].mode # <<>>)
     /\ IF Refused(op, f) THEN th' = [th EXCEPT ![t] = Failed(t)] /\ UNCHANGED wcb
        ELSE /\ th' = [th EXCEPT ![t] = IF op \in Options THEN [@ EXCEPT !.step = "assign"] ELSE Done(t)]
             /\ wcb' = [wcb EXCEPT ![f] = After(op, th[t].want, IF op = "NB" THEN Head(th[t].mode) ELSE {}, f)]
     /\ UNCHANGED <<env, so, backlog, pend, map, pm, wq, ops, tick, ent, evts, pendq, made, told, used>>
\* m_option follows what was set on the descriptor; the options that come after
\* it are compared with the m_option of now.
Assigned(t) == LET op == Head(th[t].todo) IN
  IF op \in th[t].want THEN so[th[t].s].opt \cup {op} ELSE so[th[t].s].opt \ {op}
Assign(t) ==
  /\ th[t].step = "assign"
  /\ so' = [so EXCEPT ![th[t].s].opt = Assigned(t)]
  /\ th' = [th EXCEPT ![t] = Done(t)]
  /\ UNCHANGED <<env, wcb, backlog, pend, map, pm, wq, ops, tick, ent, evts, pendq, made, told, used>>

\* m_wcb_create_pending_map.erase
Erased(fd) == [pend EXCEPT ![fd] = None]
\* std::map::insert leaves an entry that is there.
MapInsert(m, fd, s) == IF m[fd] = None THEN [m EXCEPT ![fd] = s] ELSE m

\* bind, listen and connect of a new WCB, under the mutex of their table.
Bind(t) ==
  LET f == pend[so[th[t].s].fd] IN
  /\ th[t].step = "bind" /\ pm = None
  /\ \/ th' = [th EXCEPT ![t] = IF f = None THEN Failed(t) ELSE Done(t)] /\ UNCHANGED <<wcb, used>>
     \/ /\ f # None /\ Fails("bind") /\ used' = [used EXCEPT !.fail = TRUE]
        /\ th' = [th EXCEPT ![t] = Failed(t)]
        /\ wcb' = [wcb EXCEPT ![f].err = TRUE]
  /\ UNCHANGED <<env, so, backlog, pend, map, pm, wq, ops, tick, ent, evts, pendq, made, told>>

Listen(t) ==
  LET fd == so[th[t].s].fd
      f  == pend[fd]
  IN /\ th[t].step = "listen" /\ pm = None
     /\ th' = [th EXCEPT ![t] = IF f = None THEN Failed(t) ELSE Done(t)]
     /\ wcb' = IF f = None THEN wcb ELSE [wcb EXCEPT ![f].st = "LISTEN", ![f].flags = @ \cup {"L"}]
     /\ pend' = Erased(fd)
     /\ map' = IF f = None THEN map ELSE MapInsert(map, fd, f)
     /\ UNCHANGED <<env, so, backlog, pm, wq, ops, tick, ent, evts, pendq, made, told, used>>

\* A blocking connect keeps the mutex and waits for the ticker; EINPROGRESS is
\* an error to a socket that does not know itself to be non-blocking.
Connect(t) ==
  LET s  == th[t].s
      fd == so[s].fd
      f  == pend[fd]
  IN /\ th[t].step = "connect" /\ pm = None
     /\ IF f = None THEN th' = [th EXCEPT ![t] = Failed(t)] /\ UNCHANGED <<so, wcb, pend, map, pm>>
        ELSE
           /\ pend' = Erased(fd)
           /\ map' = MapInsert(map, fd, f)
           /\ wcb' = [wcb EXCEPT ![f].st = "SYNING"]
           /\ IF "NB" \notin wcb[f].opt
              THEN th' = [th EXCEPT ![t].step = "blocked", ![t].found = f] /\ pm' = t /\ UNCHANGED so
              ELSE /\ th' = [th EXCEPT ![t] = IF "NB" \in so[s].opt THEN Done(t) ELSE Failed(t)]
                   /\ so' = IF "NB" \in so[s].opt THEN [so EXCEPT ![s].st = "CONNECTING"] ELSE so
                   /\ UNCHANGED pm
     /\ UNCHANGED <<env, backlog, wq, ops, tick, ent, evts, pendq, made, told, used>>
\* mutant: the loop does not look at wcb_errno
MConnected(f) == wcb[f].st = "ESTABLISHED"
Connected(f) == wcb[f].err \/ wcb[f].st = "ESTABLISHED"
ConnectReturns(t) ==
  LET s == th[t].s
      f == th[t].found
  IN /\ th[t].step = "woken"
     /\ IF Connected(f)
        THEN /\ pm' = None
             /\ so' = IF wcb[f].err THEN so ELSE [so EXCEPT ![s].st = "CONNECTED"]
             /\ th' = [th EXCEPT ![t] = IF wcb[f].err THEN Failed(t) ELSE Done(t)]
        ELSE th' = [th EXCEPT ![t].step = "blocked"] /\ UNCHANGED <<so, pm>>
     /\ UNCHANGED <<env, wcb, backlog, pend, map, wq, ops, tick, ent, evts, pendq, made, told, used>>
\* cond.notify_all: the connects that wait on one of these WCBs test again.
Notified(ws) == [t \in Users |-> IF th[t].step = "blocked" /\ th[t].found \in ws
                                THEN [th[t] EXCEPT !.step = "woken"] ELSE th[t]]

\* accept, called until it returns EWOULDBLOCK or an error.
Accept(t) ==
  LET f == map[so[th[t].s].fd]
      p == Head(backlog.q)
      takes == f # None /\ "R" \notin wcb[f].flags
  IN /\ th[t].step = "accept"
     /\ \/ /\ takes /\ backlog.q # <<>>
           /\ backlog' = [backlog EXCEPT !.q = Tail(@)]
           /\ so' = [so EXCEPT ![p].st = "CONNECTED", ![p].fd = wcb[p].fd]
           /\ UNCHANGED th
        \/ /\ takes /\ backlog.q = <<>>
           /\ th' = [th EXCEPT ![t] = Done(t)]
           /\ UNCHANGED <<so, backlog>>
        \/ /\ ~takes
           /\ th' = [th EXCEPT ![t] = Failed(t)]
           /\ UNCHANGED <<so, backlog>>
     /\ UNCHANGED <<env, wcb, pend, map, pm, wq, ops, tick, ent, evts, pendq, made, told, used>>

---------------------------------------------------------------------------
(* The ticker: wcp::run, then the observer of the WCP descriptors.         *)

At(where) == tick.at = where
Go(where) == [tick EXCEPT !.at = where]

\* wcp::_execute_ops: the WCBs of new connections enter the table.
ExecuteOps ==
  /\ At("run") /\ ops # <<>>
  /\ map' = MapInsert(map, wcb[Head(ops)].fd, Head(ops))
  /\ ops' = Tail(ops)
  /\ UNCHANGED <<env, so, wcb, backlog, pend, pm, th, wq, tick, ent, evts, pendq, made, told, used>>

\* wcp::_update, for all WCBs in one step.  WCB::update of one WCB: SYN, answer
\* and timeout are one step, and a SYN that cannot be sent leaves its error and
\* wakes nobody; the connections of a listener that runs are passed to backlogq
\* when they are established, or closed.
\* mutant: a listener is not recycled
MRecyclable(w) == w.st = "CLOSED" /\ {"C", "R", "W"} \subseteq w.flags /\ "L" \notin w.flags
Recyclable(w) == w.st = "CLOSED" /\ {"C", "R", "W"} \subseteq w.flags
Updated(s) ==
  LET w    == wcb[s]
      dead == env.fate[s] = "dead"
  IN CASE Recyclable(w) -> [w EXCEPT !.st = "RECYCLE"]
       [] w.st = "SYNING" /\ env.fate[s] = "unsent" -> [w EXCEPT !.err = TRUE]
       [] w.st \in {"SYNING", "SYN_RECEIVED"} ->
            [w EXCEPT !.st = IF dead THEN "CLOSED" ELSE "ESTABLISHED", !.err = dead]
       [] w.st \in {"ESTABLISHED", "CLOSE_WAIT"} /\ w.err -> [w EXCEPT !.st = "CLOSED"]
       [] OTHER -> w
Running == {s \in Socks : map[wcb[s].fd] = s}
Listening == \E s \in Running : wcb[s].st = "LISTEN"
\* listen_handle_syn: the WCB of a SYN, if one came.
Update ==
  LET up    == [s \in Socks |-> IF s \in Running THEN Updated(s) ELSE wcb[s]]
      ready == {p \in backlog.pend \cap Running : up[p].st # "SYN_RECEIVED"}
      after == [s \in Socks |-> IF s \in ready /\ Listening /\ up[s].st = "CLOSED" THEN Closed(up[s]) ELSE up[s]]
      dead  == {s \in Running : after[s].st = "RECYCLE"}
  IN /\ At("run") /\ ops = <<>>
     /\ tick' = [Go(IF dead = {} THEN "observe" ELSE "erase") EXCEPT !.dead = dead]
     /\ \E syn \in {{}} \cup {{p} : p \in {q \in env.syn : Listening /\ wcb[q].st = "NONE"}} :
          /\ made' = made + Cardinality(syn)
          /\ used' = [used EXCEPT !.clash = @ \/ (syn # {} /\ Taken(made + 1))]
          /\ ops' = SetToSeq(syn)
          /\ wcb' = [s \in Socks |-> IF s \in syn THEN NewWcb("SYN_RECEIVED", made + 1) ELSE after[s]]
          /\ backlog' = IF Listening
                        THEN [q    |-> backlog.q \o SetToSeq({p \in ready : up[p].st = "ESTABLISHED"}),
                              pend |-> (backlog.pend \ ready) \cup syn]
                        ELSE backlog
     /\ th' = Notified({s \in Running : wcb[s].st = "SYNING" /\ up[s].st # "SYNING"})
     /\ UNCHANGED <<env, so, pend, map, pm, wq, ent, evts, pendq, told>>
Erase ==
  /\ At("erase")
  /\ map' = [f \in Fds |-> IF \E s \in tick.dead : wcb[s].fd = f THEN None ELSE map[f]]
  /\ tick' = [Go("observe") EXCEPT !.dead = {}]
  /\ UNCHANGED <<env, so, wcb, backlog, pend, pm, th, wq, ops, ent, evts, pendq, made, told, used>>

\* wpoll_ctl(WPOLL_CTL_DEL) and the callbacks of the context.  It fails when the
\* WCB has left the table: then the entry stays until wpoll_wait meets it.
Entry(fd) == {i \in ToSet(evts) : wcb[ent[i].s].fd = fd}
Without(i, dirs) == [ent EXCEPT ![i].dirs = @ \ dirs, ![i].fn = @ \ dirs]
Unwatched(i, dirs) == IF map[wcb[ent[i].s].fd] = None THEN ent ELSE Without(i, dirs)
Kept(i, e) == IF map[wcb[ent[i].s].fd] # None /\ e[i].dirs = {} THEN SelectSeq(evts, LAMBDA k : k # i) ELSE evts

\* One watch or unwatch the sockets queued.
ObserveAdd(op) ==
  LET found == Entry(op.fd) IN
  IF map[op.fd] = None
  THEN /\ told' = [told EXCEPT ![op.s] = @ \cup {"ERR"}]
       /\ so' = [so EXCEPT ![op.s].watch = @ \ {op.dir}]
       /\ UNCHANGED <<ent, evts>>
  ELSE /\ IF found = {}
          THEN /\ ent' = Append(ent, [s |-> map[op.fd], dirs |-> {op.dir}, fn |-> {op.dir}])
               /\ evts' = Append(evts, Len(ent) + 1)
          ELSE /\ ent' = [i \in DOMAIN ent |-> IF i \notin found THEN ent[i]
                            ELSE [ent[i] EXCEPT !.dirs = @ \cup {op.dir}, !.fn = @ \cup {op.dir}]]
               /\ UNCHANGED evts
       /\ UNCHANGED <<so, told>>
ObserveDel(op) ==
  /\ IF Entry(op.fd) = {} THEN UNCHANGED <<ent, evts>>
     ELSE \E i \in Entry(op.fd) : ent' = Unwatched(i, {op.dir}) /\ evts' = Kept(i, ent')
  /\ UNCHANGED <<so, told>>
Observe ==
  /\ At("observe")
  /\ IF wq = <<>> THEN tick' = Go("wait") /\ UNCHANGED <<so, wq, ent, evts, told>>
     ELSE /\ IF Head(wq).op = "add" THEN ObserveAdd(Head(wq)) ELSE ObserveDel(Head(wq))
          /\ wq' = Tail(wq) /\ UNCHANGED tick
  /\ UNCHANGED <<env, wcb, backlog, pend, map, pm, th, ops, pendq, made, used>>

\* wpoll_wait: the events that were left over; otherwise the entries' events.
Ready(i) ==
  LET e == ent[i]
      w == wcb[e.s]
  IN (IF "R" \in e.dirs /\ (IF "L" \in w.flags THEN backlog.q # <<>> ELSE w.rd) THEN {"R"} ELSE {})
       \cup (IF "W" \in e.dirs /\ "W" \notin w.flags /\ w.st = "ESTABLISHED" THEN {"W"} ELSE {})
       \cup (IF w.err \/ \E d \in e.dirs : d \in w.flags THEN {"ERR"} ELSE {})
\* Nothing more is sent: the local shutdown, or a SYN that was not sent.
NoMoreOut(w) == "W" \in w.flags \/ (w.st = "SYNING" /\ w.err)
\* What the array holds, and what is left over.
FirstOf(q) == IF Len(q) =< EvtMax THEN q ELSE SubSeq(q, 1, EvtMax)
RestOf(q) == IF Len(q) =< EvtMax THEN <<>> ELSE SubSeq(q, EvtMax + 1, Len(q))
Wait ==
  LET left == SelectSeq(pendq, LAMBDA e : ent[e.i].dirs # {})
      live == SelectSeq(evts, LAMBDA i : wcb[ent[i].s].st # "RECYCLE")
      all  == SelectSeq([k \in DOMAIN live |-> [i |-> live[k], ev |-> Ready(live[k])]], LAMBDA e : e.ev # {})
      evs  == FirstOf(IF left # <<>> THEN left ELSE all)
  IN /\ At("wait")
     /\ tick' = [Go(IF evs = <<>> THEN "run" ELSE "handle") EXCEPT !.evs = evs]
     /\ IF left # <<>>
        THEN /\ pendq' = RestOf(left)
             /\ UNCHANGED <<ent, evts, used>>
        ELSE /\ pendq' = RestOf(all)
             /\ evts' = live
             /\ ent' = [i \in DOMAIN ent |-> IF i \in ToSet(live) /\ NoMoreOut(wcb[ent[i].s])
                                             THEN [ent[i] EXCEPT !.dirs = @ \ {"W"}] ELSE ent[i]]
             /\ used' = [used EXCEPT !.over = @ \/ Len(all) > EvtMax]
     /\ UNCHANGED <<env, so, wcb, backlog, pend, map, pm, th, wq, ops, made, told>>

\* getsockopt(SO_ERROR) by the ticker: it waits for the mutex of the new WCBs
\* when the descriptor is not in m_wcb_map.
MayReadError(fd) == map[fd] # None \/ pm = None
\* check_ioe: an error is read with getsockopt, told to both callbacks and ends
\* both watches; an event ends its watch unless it is a listener's.
Handle ==
  LET e    == Head(tick.evs)
      s    == ent[e.i].s
      err  == "ERR" \in e.ev
      ends == IF err THEN {"R", "W"} ELSE IF "L" \in wcb[s].flags THEN e.ev \ {"R"} ELSE e.ev
      tell == (e.ev \cap ent[e.i].fn) \cup (IF err /\ ent[e.i].fn # {} THEN {"ERR"} ELSE {})
  IN /\ At("handle")
     /\ err => MayReadError(wcb[s].fd)
     /\ tick' = [Go(IF Len(tick.evs) = 1 THEN "run" ELSE "handle") EXCEPT !.evs = Tail(@)]
     /\ told' = [told EXCEPT ![s] = @ \cup tell]
     /\ so' = [so EXCEPT ![s].watch = @ \ ends,
                         ![s].st = IF @ = "CONNECTING" /\ "W" \in tell /\ ~err THEN "CONNECTED" ELSE @]
     /\ ent' = Unwatched(e.i, ends)
     /\ evts' = Kept(e.i, ent')
     /\ UNCHANGED <<env, wcb, backlog, pend, map, pm, th, wq, ops, pendq, made, used>>

Tick == ExecuteOps \/ Update \/ Erase \/ Observe \/ Wait \/ Handle

---------------------------------------------------------------------------
\* The peer: it sends something to read, resets the connection, or closes it.
PeerSends(s) ==
  /\ wcb[s].st = "ESTABLISHED" /\ ~wcb[s].err /\ ~wcb[s].rd /\ env.fate[s] = "sends"
  /\ wcb' = [wcb EXCEPT ![s].rd = TRUE]
  /\ UNCHANGED <<env, so, backlog, pend, map, pm, th, wq, ops, tick, ent, evts, pendq, made, told, used>>
PeerResets(s) ==
  /\ wcb[s].st = "ESTABLISHED" /\ ~wcb[s].err /\ env.fate[s] = "resets"
  /\ wcb' = [wcb EXCEPT ![s].err = TRUE]
  /\ UNCHANGED <<env, so, backlog, pend, map, pm, th, wq, ops, tick, ent, evts, pendq, made, told, used>>

PeerCloses(s) ==
  /\ wcb[s].st = "ESTABLISHED" /\ ~wcb[s].err /\ env.fate[s] = "closes"
  /\ wcb' = [wcb EXCEPT ![s].st = "CLOSE_WAIT", ![s].rd = TRUE]
  /\ th' = Notified({s})
  /\ UNCHANGED <<env, so, backlog, pend, map, pm, wq, ops, tick, ent, evts, pendq, made, told, used>>

Init ==
  /\ env \in Envs
  /\ so = [s \in Socks |-> [st |-> "CLOSED", fd |-> -1, opt |-> {}, lock |-> None, watch |-> {}, shut |-> {}]]
  /\ wcb = [s \in Socks |-> NoWcb]
  /\ backlog = [q |-> <<>>, pend |-> {}]
  /\ pend = [f \in Fds |-> None] /\ map = [f \in Fds |-> None]
  /\ pm = None
  /\ th = [t \in Users |-> [left |-> env.prog[t]] @@ Idle]
  /\ wq = <<>> /\ ops = <<>>
  /\ tick = [at |-> "run", dead |-> {}, evs |-> <<>>]
  /\ ent = <<>> /\ evts = <<>> /\ pendq = <<>>
  /\ made = 0
  /\ told = [s \in Socks |-> {}]
  /\ used = [fail |-> FALSE, over |-> FALSE, clash |-> FALSE, raced |-> {}]

Call(t) == \/ Make(t) \/ Insert(t) \/ LookupMap(t) \/ LookupPend(t) \/ ReadMode(t) \/ Act(t) \/ Assign(t)
           \/ Bind(t) \/ Listen(t) \/ Connect(t) \/ ConnectReturns(t) \/ Accept(t) \/ Return(t)
Next == \/ Tick
        \/ \E t \in Users : Begin(t) \/ BeginWatch(t) \/ Call(t)
        \/ \E s \in Socks : PeerSends(s) \/ PeerResets(s) \/ PeerCloses(s)

\* The ticker thread runs for ever and a call that has begun goes on.
FairSpec == /\ Init /\ [][Next]_vars
            /\ WF_vars(Tick)
            /\ \A t \in Users : WF_vars(Call(t))

---------------------------------------------------------------------------
Dirs == {"R", "W"}
Events == {"R", "W", "ERR"}

\* The types of the state.
TypeOK ==
  /\ \A s \in Socks :
       /\ so[s].st \in {"CLOSED", "OPENED", "BINDED", "LISTEN", "CONNECTING", "CONNECTED"}
       /\ so[s].fd \in Fds \cup {-1} /\ so[s].lock \in Users \cup {None}
       /\ so[s].opt \subseteq Options /\ so[s].watch \cup so[s].shut \subseteq Dirs
       /\ wcb[s].st \in {"NONE", "CLOSED", "LISTEN", "SYNING", "SYN_RECEIVED", "ESTABLISHED",
                          "CLOSE_WAIT", "RECYCLE"}
       /\ wcb[s].fd \in Fds /\ wcb[s].flags \subseteq {"L", "C", "R", "W"}
       /\ told[s] \subseteq Events
  /\ pend \in [Fds -> Socks \cup {None}] /\ map \in [Fds -> Socks \cup {None}]
  /\ pm \in Users \cup {None}
  /\ \A i \in DOMAIN ent : ent[i].s \in Socks /\ ent[i].dirs \subseteq Dirs /\ ent[i].fn \subseteq Dirs
  /\ ToSet(evts) \subseteq DOMAIN ent

\* Whatever is in a table is there under its own number.
Keyed == \A f \in Fds : (map[f] # None => wcb[map[f]].fd = f) /\ (pend[f] # None => wcb[pend[f]].fd = f)

\* A call under L_SOCKET acts on the WCB its socket made, wherever connect,
\* listen or the ticker have moved it between the lookups (wcp.cpp:1485-1824):
\* bind, listen and connect find it among the new ones.
OwnWcb ==
  \A t \in Users :
    /\ th[t].step = "act" /\ Locked(th[t].call) => th[t].found = th[t].s
    /\ th[t].step \in {"bind", "listen", "connect"} => pend[so[th[t].s].fd] = th[t].s

\* A WCB is in one table at a time and in the poll only once.
OneHome ==
  /\ \A f \in Fds : map[f] # None => pend[f] = None
  /\ \A i, j \in ToSet(evts) : wcb[ent[i].s].fd = wcb[ent[j].s].fd => i = j

\* A closed socket leaves no WCB behind that nobody closed: whatever is still in
\* a table has been asked to close, so that the ticker will recycle it.  A WCB
\* of an incoming connection is some socket's, is in the lists of its listener
\* (where it stays when the listener is closed) or has been asked to close.
NoLeak ==
  \A s \in Socks : InTable(s) /\ so[s].st = "CLOSED" /\ so[s].lock = None /\ "C" \notin wcb[s].flags
                     => /\ so[s].fd = -1
                        /\ s \in ToSet(backlog.q) \cup backlog.pend

\* An error is told only of a WCB that has one, or that was shut down by this
\* side: a watch never fails because its WCB is in the other table, or in none.
ErrorIsReal ==
  \A s \in Socks : "ERR" \in told[s] => wcb[s].err \/ "R" \in wcb[s].flags

\* Until a number is made that a socket still about has, the descriptor a
\* socket_base holds, the two tables and the poll agree, between any two of the
\* lookups, moves and erasures of users and ticker.  Nothing in the code keeps
\* such a number from being made: 2048 calls of wcp::socket and SYNs after a socket
\* was opened are enough, and then a call acts on the other socket's WCB.
TablesAgree == TypeOK /\ Keyed /\ (~used.clash => OwnWcb /\ OneHome /\ NoLeak /\ ErrorIsReal)

\* The options a socket says it has are set on its descriptor whenever no call is
\* changing them, although GETFL, SETFL and m_option are three steps with two
\* lookups in between, and although reuse_addr, which takes no lock, may miss a
\* WCB that connect moves; a non-blocking socket never waits in connect.  When
\* reuse_addr runs beside a call that turns non-blocking off and on, m_option may
\* say that a descriptor is non-blocking which is not.
OptionsAreReal ==
  \A s \in Socks :
    /\ ~used.clash /\ ~Changing(s) /\ s \notin used.raced => so[s].opt \subseteq wcb[s].opt
    /\ ~used.clash /\ "NB" \in so[s].opt => ~\E t \in Users : th[t].s = s /\ th[t].step = "blocked"

\* Every call returns: no lookup and no blocking connect waits for ever for the
\* mutex of the new WCBs or for the ticker, so that again and again no call is
\* under way.  Three things can prevent it.  When wpoll_wait had more events than
\* its array holds, the ticker itself may wait for that mutex, which the connect
\* that waits for it holds.  When a number was made twice, a WCB may be in no
\* table.  And a blocking connect sleeps for ever, with the mutex, when the SYN
\* could not be sent (wcp.cpp:787 wakes nobody) or when the FIN is handled before
\* the caller woken by the SYN's answer tests the state (wcp.cpp:1089).
Asleep(t) == /\ th[t].step = "blocked"
             /\ LET w == wcb[th[t].found] IN (w.st = "SYNING" /\ w.err) \/ w.st = "CLOSE_WAIT"
Disturbed == used.over \/ used.clash \/ \E t \in Users : Asleep(t)
CallsReturn == []<>(Disturbed \/ \A t \in Users : th[t].call = None)

\* A WCB that was closed leaves the tables and the poll: again and again none is left.
Gone(s) == ~InTable(s) /\ ~\E i \in ToSet(evts) : ent[i].s = s
ClosedLeaves == []<>(Disturbed \/ \A s \in Socks : "C" \in wcb[s].flags => Gone(s))

\* What a socket waits for is told to it, unless it is closed first: a connection
\* that is established or has failed, bytes to read, a connection to accept.  A
\* connect whose connection the peer closed before the poll saw it established
\* is told nothing (wcp.cpp:2005).
Waited(s, d) ==
  /\ d \in so[s].watch
  /\ \/ wcb[s].err
     \/ d = "W" /\ wcb[s].st = "ESTABLISHED"
     \/ d = "R" /\ wcb[s].rd
     \/ d = "R" /\ wcb[s].st = "LISTEN" /\ backlog.q # <<>>
ReadyIsTold == []<>(Disturbed \/ \A s \in Socks, d \in Dirs : Waited(s, d) => d \in told[s])

\* The ticker does its work: closed WCBs leave, and what is waited for is told.
TickerServes == ClosedLeaves /\ ReadyIsTold
=============================================================================
