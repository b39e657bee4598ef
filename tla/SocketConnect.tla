--------------------------- MODULE SocketConnect ---------------------------
(***************************************************************************)
(* How a connection comes about: a node that listens and accepts, a node   *)
(* that connects (async_connect, or the blocking connect), the handshake   *)
(* of the transport layer protocol on the way, and the first packets       *)
(* behind it.                                                              *)
(*                                                                         *)
(* End C is the connecting socket, end S the accepted one.  A frame of     *)
(* hlen_packet travels in three parts: its length, and the two halves of   *)
(* its content; TCP (external) hands them over one by one when env.split   *)
(* is set, otherwise frame by frame.  The thread that holds L_READ in a    *)
(* loop of _receive_packets is rd[e]; every iteration is one step.         *)
(* Buffers that fill up, blocked writes and the steps of close are the     *)
(* subject of SocketIO: here the kernel takes what is sent and close is    *)
(* one step.                                                               *)
(***************************************************************************)
EXTENDS Naturals, Sequences, FiniteSets, SequencesExt

CONSTANTS Envs,       \* environments: poller, protocol, first cipher of the HELLO,
                      \* async or blocking connect, split frames, may a nonblocking
                      \* connect return at once, what may fail once, what the users
                      \* may close, the data frames each end sends, connections of
                      \* other clients, tasks an infinite watch may have posted
          Arrives,    \* packets one decode may return (arrives[5] of handle_async_read)
          AcceptMax   \* WAWO_MAX_ACCEPTS_ONE_TIME

\* The users send frames of data, an infinite watch may post a task, and there
\* is room for a packet and for a connection.
ASSUME EnvsAssumption ==
  \A v \in Envs :
    /\ v.tlp \in {"hlen", "dh"}
    /\ v.posted \in Nat \ {0}
    /\ \A e \in {"C", "S"} : v.data[e] \in Seq([type : {"DATA", "LONG"}, n : Nat])
ASSUME SizesAssumption == {Arrives, AcceptMax} \subseteq Nat \ {0}

VARIABLES env,      \* the environment of this behaviour
          ls,       \* the listener: [st, listed, watch, posted]
          backlog,  \* the kernel's queue of connections to accept
          so,       \* the two sockets: [st, rf, wf, dh, parse, rb]
          ctx,      \* the observer's entry of each: [r, inf, w]
          edge,     \* epoll (EPOLLET), for the infinite watches: [fresh: descriptors with
                    \* something new since the last event, eof: ends whose EOF was an event]
          ops,      \* socket_observer::m_ops
          tasks,    \* scheduled tasks by end and kind
          rd,       \* the thread that holds L_READ
          proxy,    \* peer_proxy: m_state = S_RUN
          call,     \* the connecting call: idle, begun, blocking, failed
          told,     \* calls of [ok: lambda_connect_success, err: lambda_connect_err,
                    \*           acc: on_accepted]
          conn,     \* kernel: none, syn, up, refused
          net,      \* kernel, by end: [tr, kin, rst]
          sent,     \* data packets sent, by end
          got,      \* data packets told with E_PACKET_ARRIVE, by end
          used      \* failures and closes so far

vars == <<env, ls, backlog, so, ctx, edge, ops, tasks, rd, proxy, call, told, conn, net, sent, got, used>>

Ends == {"C", "S"}
Other(e) == IF e = "C" THEN "S" ELSE "C"
Kinds == {"connected", "cerr", "success", "handshake", "hserr", "added", "read", "rderr", "error"}
Idle == [who |-> "none", always |-> FALSE, new |-> <<>>]
Holding(kind) == [who |-> kind, always |-> TRUE, new |-> <<>>]
NoCtx == [r |-> "none", inf |-> FALSE, w |-> "none"]

Scheduled(e, kind) == [tasks EXCEPT ![e][kind] = @ + 1]
Taken(e, kind) == [tasks EXCEPT ![e][kind] = @ - 1]

---------------------------------------------------------------------------
(* Frames.                                                                 *)

\* LONG is a frame of data that announces more than the receiver can hold.
FrameTypes == {"HELLO", "RESP", "OK", "DATA", "LONG"}
Frame(type, n) == [type |-> type, n |-> n]
\* hlen_packet::encode: the length in front of the content.
Encode(f) == <<[f |-> f, part |-> 1], [f |-> f, part |-> 2], [f |-> f, part |-> 3]>>
EncodeAll(fs) == FlattenSeq([i \in 1..Len(fs) |-> Encode(fs[i])])

\* A length that exceeds the capacity of the receiver's buffer.
TooLong(p) == p.part = 1 /\ p.f.type = "LONG"

\* hlen_packet::decode_packets.  In state CONTENT the length has been read from
\* the buffer; the loop takes complete frames while arrives[] has room.
Hlen(parse, rb, size) ==
  LET whole  == IF parse = "LEN" THEN rb ELSE <<[f |-> Frame("HEAD", 0), part |-> 1]>> \o rb
      sound  == SelectInSeq(whole, TooLong)          \* 0: all of them
      ready  == (IF sound = 0 THEN Len(whole) ELSE sound - 1) \div 3
      n      == IF ready < size THEN ready ELSE size
      rest   == SubSeq(whole, 3 * n + 1, Len(whole))
      broken == sound = 3 * n + 1
  IN [packs |-> [i \in 1..n |-> whole[3 * i].f],
      rb    |-> IF rest = <<>> THEN rest ELSE Tail(rest),
      parse |-> IF rest = <<>> \/ broken THEN "LEN" ELSE "CONTENT",
      ec    |-> IF broken THEN "BROKEN" ELSE IF ready > size THEN "TLP_AGAIN" ELSE "OK"]

---------------------------------------------------------------------------
(* dh_symmetric_encrypt.                                                   *)

Hello == Frame("HELLO", 0)
\* make_cipher_suite
KnownCipher(c) == c = "XXTEA"
HandshakeDone(s) == env.tlp = "hlen" \/ s.dh = "DATA_TRANSFER"
Handshaking(s) == env.tlp = "dh" /\ s.dh = "HANDSHAKE"

MPacketArrive(f, dh) ==      \* mutant: HELLO_RESP ends the handshake
  IF f.type = "RESP" THEN [dh |-> "DATA_TRANSFER", out |-> <<Frame("OK", 0)>>, ec |-> "DONE"]
  ELSE IF f.type = "HELLO"
       THEN [dh |-> "HANDSHAKE", out |-> <<Frame("RESP", 0), Frame("OK", 0)>>, ec |-> "HANDSHAKING"]
       ELSE [dh |-> "DATA_TRANSFER", out |-> <<>>, ec |-> "DONE"]
\* handshake_packet_arrive: [dh, out, ec].  The first cipher of the HELLO is
\* taken, whether or not make_cipher_suite knows it.
PacketArrive(f, dh) ==
  CASE f.type = "HELLO" ->
         IF ~KnownCipher(env.cipher) THEN [dh |-> "HANDSHAKE", out |-> <<>>, ec |-> "UNKNOWN_CIPHER"]
         ELSE [dh |-> "HANDSHAKE", out |-> <<Frame("RESP", 0), Frame("OK", 0)>>, ec |-> "HANDSHAKING"]
    [] f.type = "RESP" -> [dh |-> dh, out |-> <<Frame("OK", 0)>>, ec |-> "HANDSHAKING"]
    [] f.type = "OK"   -> [dh |-> "DATA_TRANSFER", out |-> <<>>, ec |-> "DONE"]
    [] OTHER           -> [dh |-> dh, out |-> <<>>, ec |-> "INVALID_PACKET"]

\* decode_packets: during the handshake one frame at a time, whose result
\* replaces the code of hlen_packet; afterwards the packets are decrypted.  The
\* set of its outcomes, which is one.
Decode(s, rb, size) ==
  {LET p == PacketArrive(h.packs[1], s.dh) IN
   IF HandshakeDone(s) \/ h.packs = <<>>
   THEN [packs |-> h.packs, rb |-> h.rb, parse |-> h.parse, dh |-> s.dh, out |-> <<>>, ec |-> h.ec]
   ELSE [packs |-> <<>>, rb |-> h.rb, parse |-> h.parse, dh |-> p.dh, out |-> p.out, ec |-> p.ec]
   : h \in {Hlen(s.parse, rb, IF HandshakeDone(s) THEN size ELSE 1)}}

---------------------------------------------------------------------------
(* The kernel, and _receive_packets on top of it.                          *)

Open(e) == so[e].st \notin {"NONE", "CLOSED"} \/ (e = "S" /\ e \in Range(backlog))
Eof(e) == conn = "up" /\ ~Open(Other(e)) /\ net[e].tr = <<>>
Readable(e) == net[e].kin # <<>> \/ net[e].rst # "no" \/ Eof(e)

RecvEc(e) == IF "SHUT" \in so[e].rf THEN "RD_SHUT"
             ELSE IF net[e].kin # <<>> THEN "OK"
             ELSE IF net[e].rst = "pending" THEN "ERR"
             ELSE IF Eof(e) \/ net[e].rst = "taken" THEN "GRACE" ELSE "BLOCK"
ErrorTaken(n, e) == [n EXCEPT ![e].rst = IF @ = "pending" THEN "taken" ELSE @]

\* What is written to a peer that has gone comes back as a reset.
SendEc(e) == IF net[e].rst = "no" THEN "OK" ELSE "ERR"
Delivered(n, e, fs) ==
  IF fs = <<>> THEN n
  ELSE IF n[e].rst # "no" THEN ErrorTaken(n, e)
  ELSE IF Open(Other(e)) THEN [n EXCEPT ![Other(e)].tr = @ \o EncodeAll(fs)]
  ELSE [n EXCEPT ![e].rst = "pending"]

\* tlp_handshake sends the HELLO.
HelloSent == Delivered(net, "C", <<Hello>>)

\* _receive_packets(arrives, size, ec, flag): _pump when the buffer is empty or
\* F_RCV_ALWAYS_PUMP is given, decode, send what the handshake answers.  The
\* last code the function assigns is the one it returns; that no pump was needed
\* counts as one that succeeded.
MustPump(s) == s.rb = <<>>
Fatal(ec) == ec \notin {"OK", "HANDSHAKING", "DONE", "TLP_AGAIN"}
Nonblocking(e) == e = "S" \/ env.mode = "async"
Pumped(e, always) == IF MustPump(so[e]) \/ always THEN RecvEc(e) ELSE "SKIPPED"
Receive(e, size, always) ==
  LET s    == so[e]
      pec  == Pumped(e, always)
      rb   == IF pec = "OK" THEN s.rb \o net[e].kin ELSE s.rb
      n    == CASE pec = "ERR" -> ErrorTaken(net, e)
                [] pec = "OK" -> [net EXCEPT ![e].kin = <<>>]
                [] OTHER -> net
  IN IF pec \notin {"OK", "BLOCK", "SKIPPED"} \/ rb = <<>>
     THEN {[s |-> s, net |-> n, packs |-> <<>>, ec |-> pec]}
     ELSE {[s     |-> [s EXCEPT !.rb = d.rb, !.parse = d.parse, !.dh = d.dh],
            net   |-> IF Fatal(d.ec) THEN n ELSE Delivered(n, e, d.out),
            packs |-> d.packs,
            ec    |-> IF Fatal(d.ec) THEN d.ec
                      ELSE IF Len(d.packs) = size /\ d.rb # <<>> THEN "TLP_AGAIN"
                      ELSE IF pec \in {"OK", "SKIPPED"} /\ Nonblocking(e) THEN "PUMP_AGAIN"
                      ELSE IF d.out # <<>> /\ SendEc(e) # "OK" THEN SendEc(e) ELSE d.ec]
           : d \in Decode(s, rb, size)}
TryAgain(ec) == ec \in {"TLP_AGAIN", "PUMP_AGAIN"}

---------------------------------------------------------------------------
(* The flags of a socket and its close.                                    *)

Watched(s) == [s EXCEPT !.rf = @ \cup {"WATCH"}]
Unwatched(s) == [s EXCEPT !.rf = @ \ {"WATCH"}]
WatchOp(fn, inf) == [op |-> "watch", dir |-> "R", fn |-> fn, inf |-> inf]
ConnectWatch == [op |-> "watch", dir |-> "W", fn |-> "connected", inf |-> FALSE]
UnwatchOp(d) == [op |-> "unwatch", dir |-> d, fn |-> "none", inf |-> FALSE]
EndRead(s) == IF "WATCH" \in s.rf THEN <<UnwatchOp("R")>> ELSE <<>>
EndWrite(s) == IF "WATCH" \in s.wf THEN <<UnwatchOp("W")>> ELSE <<>>

ClosedSocket(s) == [s EXCEPT !.st = "CLOSED", !.rf = {"SHUT"}, !.wf = {"SHUT"}]

---------------------------------------------------------------------------
(* The listening node.                                                     *)

\* Something new at descriptor d, for the next epoll_wait.
Freshened(d) == IF env.poll = "epoll" THEN [edge EXCEPT !.fresh = @ \cup {d}] ELSE edge

Fails(what) == what \in env.fails /\ ~used.fail

\* start_listen: any of open, reuse_addr, reuse_port, bind, turnon_nonblocking
\* and listen may fail, and the socket is closed.
StartListen ==
  /\ ls.st = "NONE"
  /\ \/ ls' = [ls EXCEPT !.st = "LISTEN", !.listed = TRUE, !.watch = TRUE] /\ UNCHANGED used
     \/ Fails("listen") /\ ls' = [ls EXCEPT !.st = "CLOSED"] /\ used' = [used EXCEPT !.fail = TRUE]
  /\ UNCHANGED <<env, edge, backlog, so, ctx, ops, tasks, rd, proxy, call, told, conn, net, sent, got>>

\* The kernel resets what nobody has accepted.
ResetBacklog == [net EXCEPT !["C"].rst = IF "S" \in Range(backlog) THEN "pending" ELSE @]

StopListen ==
  /\ "listener" \in env.closes
  /\ ls.listed
  /\ ls' = [ls EXCEPT !.st = "CLOSED", !.listed = FALSE, !.watch = FALSE]
  /\ backlog' = <<>>
  /\ net' = IF ls.st = "LISTEN" THEN ResetBacklog ELSE net
  /\ UNCHANGED <<env, edge, so, ctx, ops, tasks, rd, proxy, call, told, conn, sent, got, used>>

\* The infinite watch posts cb_async_accept.  epoll does so once for what has
\* come since its last event; select as long as a connection waits, once the
\* posted task has run (S_READ_POSTED).
AcceptPosted ==
  /\ ls.watch /\ ls.st = "LISTEN"
  /\ backlog # <<>>
  /\ env.poll = "epoll" => "L" \in edge.fresh
  /\ ls.posted < (IF env.poll = "select" THEN 1 ELSE env.posted)
  /\ ls' = [ls EXCEPT !.posted = @ + 1]
  /\ edge' = [edge EXCEPT !.fresh = @ \ {"L"}]
  /\ UNCHANGED <<env, backlog, so, ctx, ops, tasks, rd, proxy, call, told, conn, net, sent, got, used>>

\* handle_async_accept, one round of its loop: accept takes up to AcceptMax
\* connections under L_READ; each becomes a peer, or is closed when
\* turnon_nonblocking, set_keep_alive_vals or add_peer fails.
MAcceptEc(n) == "OK"         \* mutant: one round for each event
AcceptEc(n) == IF n = AcceptMax THEN "TRY_AGAIN" ELSE "OK"
Accepted == [so EXCEPT !["S"] = [@ EXCEPT !.st = "CONNECTED", !.rf = {}, !.wf = {}]]
HandleAccept(ok) ==
  LET n    == IF Len(backlog) < AcceptMax THEN Len(backlog) ELSE AcceptMax
      mine == "S" \in Range(SubSeq(backlog, 1, n))
      kept == ok /\ proxy
  IN /\ ls.posted > 0
     /\ ls.st = "LISTEN"
     /\ ok \/ (Fails("accepted") /\ mine)
     /\ backlog' = SubSeq(backlog, n + 1, Len(backlog))
     /\ ls' = [ls EXCEPT !.posted = IF AcceptEc(n) = "TRY_AGAIN" THEN @ ELSE @ - 1]
     /\ so' = IF ~mine THEN so ELSE IF kept THEN Accepted
              ELSE [so EXCEPT !["S"] = ClosedSocket(@)]
     /\ tasks' = IF mine /\ kept THEN Scheduled("S", "added") ELSE tasks
     /\ used' = [used EXCEPT !.fail = @ \/ ~ok]
     /\ UNCHANGED <<env, edge, ctx, ops, rd, proxy, call, told, conn, net, sent, got>>

\* accept of a listener that was closed returns E_INVALID_STATE; any other
\* error of accept closes the listener, which stays in m_listen_sockets.
AcceptFails ==
  /\ ls.posted > 0
  /\ \/ ls.st # "LISTEN" /\ UNCHANGED <<used, backlog, net>>
     \/ /\ Fails("accept") /\ used' = [used EXCEPT !.fail = TRUE]
        /\ backlog' = <<>> /\ net' = ResetBacklog
  /\ ls' = [ls EXCEPT !.posted = @ - 1, !.st = "CLOSED", !.watch = FALSE]
  /\ UNCHANGED <<env, edge, so, ctx, ops, tasks, rd, proxy, call, told, conn, sent, got>>

---------------------------------------------------------------------------
(* The connecting node.                                                    *)

Opened == [so EXCEPT !["C"] = [@ EXCEPT !.st = "OPENED", !.rf = {}, !.wf = {}]]

\* socket_base::async_connect and _connect.
ConnectedBy(rt) == CASE rt = "OK" -> [Opened["C"] EXCEPT !.st = "CONNECTED"]
                     [] rt = "CONNECTING" -> [Opened["C"] EXCEPT !.st = "CONNECTING", !.wf = {"WATCH"}]
                     [] OTHER -> ClosedSocket(so["C"])

\* _async_connect: open, set_keep_alive_vals, set_tlp, then async_connect of the
\* socket, which connects at once, is connecting, or fails.
AsyncConnect(rt) ==
  /\ env.mode = "async" /\ call = "idle" /\ ls.st # "NONE"
  /\ rt = "OK" => ls.st = "LISTEN" /\ env.once
  /\ rt = "ERR" => Fails("connect")
  /\ call' = IF rt = "ERR" THEN "failed" ELSE "begun"
  /\ used' = [used EXCEPT !.fail = @ \/ rt = "ERR"]
  /\ conn' = CASE rt = "OK" -> "up" [] rt = "CONNECTING" -> "syn" [] OTHER -> conn
  /\ backlog' = IF rt = "OK" THEN Append(backlog, "S") ELSE backlog
  /\ edge' = IF rt = "OK" THEN Freshened("L") ELSE edge
  /\ so' = [so EXCEPT !["C"] = ConnectedBy(rt)]
  /\ ops' = IF rt = "CONNECTING"
            THEN [ops EXCEPT !["C"] = Append(@, ConnectWatch)]
            ELSE ops
  /\ tasks' = IF rt = "OK" THEN Scheduled("C", "success") ELSE tasks
  /\ UNCHANGED <<env, ls, ctx, rd, proxy, told, net, sent, got>>

\* cb_async_connect_error: the socket is closed and the user is told.
ConnectFails(s) ==
  [so |-> ClosedSocket(s), ops |-> EndRead(s) \o EndWrite(s), told |-> [told EXCEPT !.err = @ + 1]]
Fail(s) ==
  /\ so' = [so EXCEPT !["C"] = ConnectFails(s).so]
  /\ ops' = [ops EXCEPT !["C"] = @ \o ConnectFails(s).ops]
  /\ told' = ConnectFails(s).told

\* cb_async_connected of a socket in state s, whose operations so far are os:
\* a peer is added and the sequential runner will tell the user.
AddPeer(s, os, ts) ==
  IF proxy
  THEN /\ so' = [so EXCEPT !["C"] = s]
       /\ ops' = [ops EXCEPT !["C"] = @ \o os]
       /\ tasks' = [ts EXCEPT !["C"]["added"] = @ + 1]
       /\ UNCHANGED told
  ELSE /\ so' = [so EXCEPT !["C"] = ClosedSocket(s)]
       /\ ops' = [ops EXCEPT !["C"] = @ \o os]
       /\ told' = [told EXCEPT !.err = @ + 1]
       /\ tasks' = ts

\* async_connect connected at once: the success function is called without a
\* handshake.
ConnectedAtOnce ==
  /\ tasks["C"]["success"] > 0
  /\ AddPeer(so["C"], <<>>, Taken("C", "success"))
  /\ UNCHANGED <<env, edge, ls, backlog, ctx, rd, proxy, call, conn, net, sent, got, used>>

\* async_connected: end_async_write, handle_async_connected, tlp_handshake.  The
\* state of the handshake changes before the HELLO is sent.
HandledConnected(s) == [s EXCEPT !.st = "CONNECTED", !.wf = @ \ {"WATCH"}]
AsyncConnected ==
  LET s == HandledConnected(so["C"]) IN
  /\ tasks["C"]["connected"] > 0
  /\ IF env.tlp = "hlen"
     THEN AddPeer(s, EndWrite(so["C"]), Taken("C", "connected")) /\ UNCHANGED net
     ELSE /\ tasks' = Taken("C", "connected")
          /\ net' = HelloSent
          /\ IF SendEc("C") = "OK"
             THEN /\ so' = [so EXCEPT !["C"] = [Watched(s) EXCEPT !.dh = "HANDSHAKE"]]
                  /\ ops' = [ops EXCEPT !["C"] = @ \o EndWrite(so["C"])
                                                   \o <<WatchOp("handshake", TRUE)>>]
                  /\ UNCHANGED told
             ELSE Fail([so["C"] EXCEPT !.dh = "HANDSHAKE"])
  /\ UNCHANGED <<env, edge, ls, backlog, ctx, rd, proxy, call, conn, sent, got, used>>

\* async_connect_error.
AsyncConnectError ==
  /\ tasks["C"]["cerr"] > 0
  /\ tasks' = Taken("C", "cerr")
  /\ Fail(so["C"])
  /\ UNCHANGED <<env, edge, ls, backlog, ctx, rd, proxy, call, conn, net, sent, got, used>>
---------------------------------------------------------------------------
(* async_handshake, on the connecting end.                                 *)

ReadFree(e) == rd[e].who = "none"

\* A task that finds the handshake done does nothing; the lambda of an epoll
\* error goes on to async_handshake_error.
Afterwards(kind) == IF kind = "hserr" THEN Scheduled("C", "cerr") ELSE tasks
HandshakeBegins(kind) ==
  /\ tasks["C"][kind] > 0
  /\ ReadFree("C")
  /\ IF HandshakeDone(so["C"])
     THEN tasks' = [Afterwards(kind) EXCEPT !["C"][kind] = @ - 1] /\ UNCHANGED rd
     ELSE tasks' = Taken("C", kind) /\ rd' = [rd EXCEPT !["C"] = Holding(kind)]
  /\ UNCHANGED <<env, edge, ls, backlog, so, ctx, ops, proxy, call, told, conn, net, sent, got, used>>

\* The switch of async_handshake over the code of handle_async_handshake.
HandshakeEnds(s, ec, kind) ==
  \/ /\ ec = "DONE"
     /\ AddPeer(Unwatched(s), EndRead(s), Afterwards(kind))
  \/ /\ ec \in {"OK", "BLOCK", "HANDSHAKING", "TLP_AGAIN", "PUMP_AGAIN"}
     /\ so' = [so EXCEPT !["C"] = s]
     /\ tasks' = Afterwards(kind)
     /\ UNCHANGED <<ops, told>>
  \/ /\ ec \notin {"DONE", "OK", "BLOCK", "HANDSHAKING", "TLP_AGAIN", "PUMP_AGAIN"}
     /\ Fail(so["C"])
     /\ tasks' = Afterwards(kind)

\* One round of the loop of handle_async_handshake.  A stale round on a socket
\* that was closed fails again.
HandshakeRound ==
  /\ rd["C"].who \in {"handshake", "hserr"}
  /\ \E r \in Receive("C", 0, rd["C"].always) :
       LET again == TryAgain(r.ec) /\ Handshaking(r.s)
           done  == HandshakeDone(r.s) /\ r.ec \in {"OK", "BLOCK", "TLP_AGAIN", "PUMP_AGAIN"}
       IN /\ net' = r.net
          /\ rd' = [rd EXCEPT !["C"] = IF again THEN [@ EXCEPT !.always = (r.ec = "PUMP_AGAIN")] ELSE Idle]
          /\ IF again THEN so' = [so EXCEPT !["C"] = r.s] /\ UNCHANGED <<tasks, ops, told>>
             ELSE HandshakeEnds(r.s, IF done THEN "DONE" ELSE r.ec, rd["C"].who)
          /\ UNCHANGED <<env, edge, ls, backlog, ctx, proxy, call, conn, sent, got, used>>

---------------------------------------------------------------------------
(* Reading, on both ends.                                                  *)

\* _begin_async_read: [s, ops, tasks].
BeginRead(e, s, ts, post) ==
  IF "SHUT" \in s.rf THEN [s |-> s, ops |-> <<>>, tasks |-> [ts EXCEPT ![e]["error"] = @ + 1]]
  ELSE IF "WATCH" \in s.rf THEN [s |-> s, ops |-> <<>>, tasks |-> ts]
  ELSE [s |-> Watched(s), ops |-> <<WatchOp("read", FALSE)>>,
        tasks |-> [ts EXCEPT ![e]["read"] = IF post THEN @ + 1 ELSE @]]

\* The lambda the sequential runner executes for a new peer: the user is told
\* and the first read begins.  The connecting end also posts a read: the
\* handshake may have left packets in m_rb.
Posts(e) == e = "C"
PeerAdded(e) ==
  LET b == BeginRead(e, so[e], Taken(e, "added"), Posts(e)) IN
  /\ tasks[e]["added"] > 0
  /\ ReadFree(e)
  /\ so' = [so EXCEPT ![e] = b.s]
  /\ ops' = [ops EXCEPT ![e] = @ \o b.ops]
  /\ tasks' = b.tasks
  /\ told' = IF e = "C" THEN [told EXCEPT !.ok = @ + 1] ELSE [told EXCEPT !.acc = @ + 1]
  /\ UNCHANGED <<env, edge, ls, backlog, ctx, rd, proxy, call, conn, net, sent, got, used>>

\* handle_async_read takes L_READ and ends the watch.
ReadBegins(e, kind) ==
  /\ tasks[e][kind] > 0
  /\ ReadFree(e)
  /\ tasks' = Taken(e, kind)
  /\ rd' = [rd EXCEPT ![e] = Holding(kind)]
  /\ so' = [so EXCEPT ![e] = Unwatched(@)]
  /\ ops' = [ops EXCEPT ![e] = @ \o EndRead(so[e])]
  /\ UNCHANGED <<env, edge, ls, backlog, ctx, proxy, call, told, conn, net, sent, got, used>>

\* One round of its loop.  After the last one the packets are told, the next
\* read begins (here, or by the listener the packets were told to), and
\* async_read shuts down or closes for the codes that say so.
ReadRound(e) ==
  /\ rd[e].who \in {"read", "rderr"}
  /\ \E r \in Receive(e, Arrives, rd[e].always) :
       LET new  == rd[e].new \o r.packs
           ts   == IF rd[e].who = "rderr" THEN Scheduled(e, "error") ELSE tasks
           b    == BeginRead(e, r.s, ts, FALSE)
           end  == CASE r.ec \in {"OK", "BLOCK", "DONE", "HANDSHAKING", "RD_SHUT"} -> b.s
                     [] r.ec = "GRACE" -> [b.s EXCEPT !.rf = {"SHUT"}]
                     [] OTHER -> ClosedSocket(b.s)
       IN /\ net' = r.net
          /\ IF TryAgain(r.ec)
             THEN /\ so' = [so EXCEPT ![e] = r.s]
                  /\ rd' = [rd EXCEPT ![e] = [@ EXCEPT !.always = (r.ec = "PUMP_AGAIN"), !.new = new]]
                  /\ UNCHANGED <<ops, tasks, got>>
             ELSE /\ so' = [so EXCEPT ![e] = end]
                  /\ rd' = [rd EXCEPT ![e] = Idle]
                  /\ ops' = [ops EXCEPT ![e] = @ \o b.ops \o
                                               (IF end = b.s THEN <<>> ELSE EndRead(b.s))]
                  /\ tasks' = b.tasks
                  /\ got' = [got EXCEPT ![e] = @ \o new]
          /\ UNCHANGED <<env, edge, ls, backlog, ctx, proxy, call, told, conn, sent, used>>

Closes(e) ==
  /\ so' = [so EXCEPT ![e] = ClosedSocket(@)]
  /\ ops' = [ops EXCEPT ![e] = @ \o EndRead(so[e]) \o EndWrite(so[e])]

\* async_error.
AsyncError(e) ==
  /\ tasks[e]["error"] > 0
  /\ ReadFree(e)
  /\ tasks' = Taken(e, "error")
  /\ Closes(e)
  /\ UNCHANGED <<env, edge, ls, backlog, ctx, rd, proxy, call, told, conn, net, sent, got, used>>

---------------------------------------------------------------------------
(* The blocking connect of a node: tlp_handshake returns                   *)
(* E_TLP_HANDSHAKE_DONE, which node::connect takes for a failure.          *)

Connect(ok) ==
  /\ env.mode = "sync" /\ call = "idle" /\ ls.st # "NONE"
  /\ ok => ls.st = "LISTEN"
  /\ ~ok => ls.st # "LISTEN" \/ Fails("connect")
  /\ used' = [used EXCEPT !.fail = @ \/ (~ok /\ ls.st = "LISTEN")]
  /\ conn' = IF ok THEN "up" ELSE "refused"
  /\ backlog' = IF ok THEN Append(backlog, "S") ELSE backlog
  /\ edge' = IF ok THEN Freshened("L") ELSE edge
  /\ IF ok /\ env.tlp = "dh"
     THEN /\ call' = "blocking"
          /\ so' = [Opened EXCEPT !["C"].st = "CONNECTED", !["C"].dh = "HANDSHAKE"]
          /\ net' = [net EXCEPT !["S"].tr = @ \o Encode(Hello)]
     ELSE /\ call' = "failed"
          /\ so' = [so EXCEPT !["C"] = ClosedSocket(@)]
          /\ UNCHANGED net
  /\ UNCHANGED <<env, ls, ctx, ops, tasks, rd, proxy, told, sent, got>>

\* The loop of tlp_handshake: recv blocks when the buffer is empty.
BlockingRound ==
  /\ call = "blocking"
  /\ MustPump(so["C"]) => RecvEc("C") # "BLOCK"
  /\ \E r \in Receive("C", 0, FALSE) :
       LET over == ~Handshaking(r.s) \/ r.ec \notin {"OK", "BLOCK", "HANDSHAKING", "TLP_AGAIN", "PUMP_AGAIN"}
       IN /\ net' = r.net
          /\ so' = [so EXCEPT !["C"] = IF over THEN ClosedSocket(r.s) ELSE r.s]
          /\ call' = IF over THEN "failed" ELSE call
          /\ UNCHANGED <<env, edge, ls, backlog, ctx, ops, tasks, rd, proxy, told, conn, sent, got, used>>

---------------------------------------------------------------------------
(* The observer.                                                           *)

\* One operation on the entry of a descriptor; epoll_ctl fails for a descriptor
\* that was closed, and the error function is scheduled.  EPOLL_CTL_ADD and MOD
\* report what is there already.
Applied(c, o) ==
  IF o.op = "unwatch" THEN IF o.dir = "R" THEN [c EXCEPT !.r = "none", !.inf = FALSE] ELSE [c EXCEPT !.w = "none"]
  ELSE IF o.dir = "R" THEN [c EXCEPT !.r = o.fn, !.inf = o.inf] ELSE [c EXCEPT !.w = o.fn]
ErrorOf(fn) == IF fn = "read" THEN "error" ELSE "cerr"
ProcessOp(e) ==
  LET o == Head(ops[e]) IN
  /\ ops[e] # <<>>
  /\ ops' = [ops EXCEPT ![e] = Tail(@)]
  /\ IF o.op = "watch" /\ env.poll = "epoll" /\ so[e].st = "CLOSED"
     THEN tasks' = Scheduled(e, ErrorOf(o.fn)) /\ UNCHANGED <<ctx, edge>>
     ELSE /\ ctx' = [ctx EXCEPT ![e] = Applied(@, o)]
          /\ edge' = IF Applied(ctx[e], o).inf THEN Freshened(e) ELSE [edge EXCEPT !.fresh = @ \ {e}]
          /\ UNCHANGED tasks
  /\ UNCHANGED <<env, ls, backlog, so, rd, proxy, call, told, conn, net, sent, got, used>>

\* EPOLLERR or EPOLLHUP: both directions are unwatched; the scheduled lambda
\* calls the read function first and then the error functions.
ErrorEvent(e) ==
  /\ env.poll = "epoll" /\ so[e].st # "CLOSED"
  /\ net[e].rst # "no"
  /\ ctx[e] # NoCtx
  /\ tasks' = CASE ctx[e].r = "handshake" -> Scheduled(e, "hserr")
                [] ctx[e].r = "read" -> Scheduled(e, "rderr")
                [] OTHER -> Scheduled(e, "cerr")
  /\ ctx' = [ctx EXCEPT ![e] = NoCtx]
  /\ net' = ErrorTaken(net, e)
  /\ UNCHANGED <<env, edge, ls, backlog, so, ops, rd, proxy, call, told, conn, sent, got, used>>

\* mutants: the watch stays; fds_ex is not looked at
MWriteAgain ==
  /\ so["C"].st # "CLOSED" /\ ctx["C"].w = "connected" /\ conn = "up"
  /\ tasks' = Scheduled("C", "connected")
  /\ UNCHANGED <<env, edge, ls, backlog, so, ctx, ops, rd, proxy, call, told, conn, net, sent, got, used>>
\* The descriptor is writable once connected.  select reports a connect that
\* failed in fds_ex.
WriteEvent ==
  /\ so["C"].st # "CLOSED"
  /\ ctx["C"].w = "connected"
  /\ conn = "up" \/ (conn = "refused" /\ env.poll = "select")
  /\ env.poll = "epoll" => net["C"].rst = "no"
  /\ tasks' = Scheduled("C", IF conn = "up" THEN "connected" ELSE "cerr")
  /\ ctx' = [ctx EXCEPT !["C"].w = "none"]
  /\ UNCHANGED <<env, edge, ls, backlog, so, ops, rd, proxy, call, told, conn, net, sent, got, used>>

\* A one-shot read watch is set anew each time, which reports what is there, and
\* ends with its event.  The infinite watch of the handshake posts for what is
\* new under epoll, and when the posted task has run under select.
ReadEvent(e) ==
  LET kind == ctx[e].r IN
  /\ so[e].st # "CLOSED"
  /\ kind # "none"
  /\ Readable(e)
  /\ env.poll = "epoll" => net[e].rst = "no"
  /\ ctx[e].inf => IF env.poll = "select"
                   THEN tasks[e][kind] = 0 /\ rd[e].who # kind
                   ELSE /\ e \in edge.fresh \/ (Eof(e) /\ e \notin edge.eof)
                        /\ tasks[e][kind] < env.posted
  /\ tasks' = Scheduled(e, kind)
  /\ ctx' = IF ctx[e].inf THEN ctx ELSE [ctx EXCEPT ![e].r = "none"]
  /\ edge' = IF ctx[e].inf /\ env.poll = "epoll"
             THEN [fresh |-> edge.fresh \ {e}, eof |-> edge.eof \cup {x \in {e} : Eof(x)}]
             ELSE edge
  /\ UNCHANGED <<env, ls, backlog, so, ops, rd, proxy, call, told, conn, net, sent, got, used>>

---------------------------------------------------------------------------
(* The users.                                                              *)

Known(e) == IF e = "C" THEN told.ok > 0 ELSE told.acc > 0

SendPacket(e) ==
  LET f == env.data[e][sent[e] + 1] IN
  /\ Known(e) /\ so[e].st = "CONNECTED" /\ HandshakeDone(so[e])
  /\ sent[e] < Len(env.data[e])
  /\ SendEc(e) = "OK"
  /\ sent' = [sent EXCEPT ![e] = @ + 1]
  /\ net' = Delivered(net, e, <<f>>)
  /\ UNCHANGED <<env, edge, ls, backlog, so, ctx, ops, tasks, rd, proxy, call, told, conn, got, used>>

UserCloses(e) ==
  /\ e \in env.closes
  /\ Known(e) /\ so[e].st = "CONNECTED"
  /\ ReadFree(e)
  /\ Closes(e)
  /\ UNCHANGED <<env, edge, ls, backlog, ctx, tasks, rd, proxy, call, told, conn, net, sent, got, used>>

\* peer_proxy::stop, before the peer of this connection is added.
StopProxy ==
  /\ "proxy" \in env.closes /\ proxy
  /\ proxy' = FALSE
  /\ UNCHANGED <<env, edge, ls, backlog, so, ctx, ops, tasks, rd, call, told, conn, net, sent, got, used>>

---------------------------------------------------------------------------
(* The kernel and the network.                                             *)

\* The SYN is answered.
Answered ==
  /\ conn = "syn"
  /\ IF ls.st = "LISTEN"
     THEN conn' = "up" /\ backlog' = Append(backlog, "S") /\ edge' = Freshened("L") /\ UNCHANGED net
     ELSE /\ conn' = "refused" /\ net' = [net EXCEPT !["C"].rst = "pending"]
          /\ UNCHANGED <<backlog, edge>>
  /\ UNCHANGED <<env, ls, so, ctx, ops, tasks, rd, proxy, call, told, sent, got, used>>

\* Another client connects.
OtherClient ==
  /\ used.more < env.more /\ ls.st = "LISTEN"
  /\ backlog' = Append(backlog, "other")
  /\ edge' = Freshened("L")
  /\ used' = [used EXCEPT !.more = @ + 1]
  /\ UNCHANGED <<env, ls, so, ctx, ops, tasks, rd, proxy, call, told, conn, net, sent, got>>

Segment == IF env.split THEN 1 ELSE 3
Arrival(e) ==
  /\ net[e].tr # <<>> /\ Open(e)
  /\ net' = [net EXCEPT ![e].kin = @ \o SubSeq(net[e].tr, 1, Segment),
                        ![e].tr = SubSeq(@, Segment + 1, Len(@))]
  /\ edge' = IF ctx[e].inf THEN Freshened(e) ELSE edge
  /\ UNCHANGED <<env, ls, backlog, so, ctx, ops, tasks, rd, proxy, call, told, conn, sent, got, used>>

Reset ==
  /\ Fails("reset") /\ conn = "up"
  /\ used' = [used EXCEPT !.fail = TRUE]
  /\ net' = [e \in Ends |-> [net[e] EXCEPT !.tr = <<>>, !.rst = IF Open(e) THEN "pending" ELSE @]]
  /\ UNCHANGED <<env, edge, ls, backlog, so, ctx, ops, tasks, rd, proxy, call, told, conn, sent, got>>

---------------------------------------------------------------------------

NewSocket == [st |-> "NONE", rf |-> {}, wf |-> {}, dh |-> "IDLE", parse |-> "LEN", rb |-> <<>>]
Init ==
  /\ env \in Envs
  /\ ls = [st |-> "NONE", listed |-> FALSE, watch |-> FALSE, posted |-> 0]
  /\ backlog = <<>>
  /\ so = [e \in Ends |-> NewSocket]
  /\ ctx = [e \in Ends |-> NoCtx]
  /\ edge = [fresh |-> {}, eof |-> {}]
  /\ ops = [e \in Ends |-> <<>>]
  /\ tasks = [e \in Ends |-> [k \in Kinds |-> 0]]
  /\ rd = [e \in Ends |-> Idle]
  /\ proxy = TRUE
  /\ call = "idle"
  /\ told = [ok |-> 0, err |-> 0, acc |-> 0]
  /\ conn = "none"
  /\ net = [e \in Ends |-> [tr |-> <<>>, kin |-> <<>>, rst |-> "no"]]
  /\ sent = [e \in Ends |-> 0]
  /\ got = [e \in Ends |-> <<>>]
  /\ used = [fail |-> FALSE, more |-> 0]

Accepting == AcceptPosted \/ HandleAccept(TRUE) \/ AcceptFails
Connecting ==
  \/ ConnectedAtOnce \/ AsyncConnected \/ AsyncConnectError
  \/ \E k \in {"handshake", "hserr"} : HandshakeBegins(k)
  \/ HandshakeRound \/ BlockingRound
Reading(e) == PeerAdded(e) \/ (\E k \in {"read", "rderr"} : ReadBegins(e, k)) \/ ReadRound(e) \/ AsyncError(e)
Observing(e) == ProcessOp(e) \/ ErrorEvent(e) \/ ReadEvent(e)
Users ==
  \/ StartListen \/ StopListen \/ StopProxy
  \/ \E rt \in {"OK", "CONNECTING", "ERR"} : AsyncConnect(rt)
  \/ \E ok \in BOOLEAN : Connect(ok)
  \/ \E e \in Ends : SendPacket(e) \/ UserCloses(e)
Network == Answered \/ OtherClient \/ Reset \/ \E e \in Ends : Arrival(e)

Next ==
  \/ Users \/ Accepting \/ HandleAccept(FALSE) \/ Connecting \/ WriteEvent \/ Network
  \/ \E e \in Ends : Reading(e) \/ Observing(e)

Spec == Init /\ [][Next]_vars

\* The runners execute what is scheduled, the observer's ticker goes on with the
\* queued operations and with the events, the network delivers; nobody has to
\* stop, close, fail, send or connect.
Polling == WriteEvent \/ \E e \in Ends : ErrorEvent(e) \/ ReadEvent(e)
Delivering == Answered \/ \E e \in Ends : Arrival(e)
Fairness ==
  /\ WF_vars(Accepting) /\ WF_vars(Connecting) /\ WF_vars(Polling) /\ WF_vars(Delivering)
  /\ \A e \in Ends : WF_vars(Reading(e)) /\ WF_vars(ProcessOp(e))
FairSpec == Spec /\ Fairness

---------------------------------------------------------------------------
(* Properties.                                                             *)

Parts == [f : [type : FrameTypes, n : Nat], part : 1..3]
TypeOK ==
  /\ ls.st \in {"NONE", "LISTEN", "CLOSED"} /\ ls.posted \in 0..env.posted
  /\ \A e \in Ends :
       /\ so[e].st \in {"NONE", "OPENED", "CONNECTING", "CONNECTED", "CLOSED"}
       /\ so[e].rf \cup so[e].wf \subseteq {"WATCH", "SHUT"}
       /\ so[e].dh \in {"IDLE", "HANDSHAKE", "DATA_TRANSFER"}
       /\ so[e].rb \in Seq(Parts) /\ so[e].parse \in {"LEN", "CONTENT"}
       /\ rd[e].who \in {"none", "handshake", "hserr", "read", "rderr"}
       /\ net[e].tr \in Seq(Parts) /\ net[e].kin \in Seq(Parts)
       /\ net[e].rst \in {"no", "pending", "taken"}
       /\ \A k \in Kinds : tasks[e][k] \in Nat
  /\ call \in {"idle", "begun", "blocking", "failed"}
  /\ conn \in {"none", "syn", "up", "refused"}

\* One call of async_connect leads to one answer: the return code, the success
\* function or the error function.  Under epoll with a handshake it does not:
\* the lambda of an error event calls async_handshake and then
\* async_handshake_error, and the infinite watch posts tasks that outlive it.
Answers == told.ok + told.err + tasks["C"]["added"] + (IF call = "failed" THEN 1 ELSE 0)
ToldOnce == (env.poll = "select" \/ env.tlp = "hlen") => Answers =< 1

\* lambda_connect_success means a connection on which the transport layer
\* protocol agreed with its peer: the server has made its keys.  (A connect
\* that returns at once skips the handshake.)
SuccessIsReal ==
  told.ok > 0 =>
    /\ conn = "up"
    /\ ~env.once => HandshakeDone(so["C"])
    /\ (~env.once /\ env.tlp = "dh") => so["S"].dh # "IDLE"

\* Whoever was told of a failure holds no descriptor: the socket is closed, for
\* each of the ways a connect can fail.
FailedIsClosed == (told.err > 0 \/ call = "failed") => so["C"].st = "CLOSED"

\* The packets one end sent are those the other was told, has in its buffers
\* or will receive, in order: across the handshake, where one frame is decoded
\* at a time, frames that arrive in pieces and rounds that leave packets in m_rb.
DataOf(parts) == LET ds == SelectSeq(parts, LAMBDA p : p.part = 3 /\ p.f.type \in {"DATA", "LONG"})
                 IN [i \in 1..Len(ds) |-> ds[i].f]
NothingLost ==
  \A e \in Ends :
    so[e].rf \cap {"SHUT"} = {} /\ so[Other(e)].st # "CLOSED" /\ net[e].rst = "no" /\ net[Other(e)].rst = "no" =>
      got[e] \o rd[e].new \o DataOf(so[e].rb \o net[e].kin \o net[e].tr)
        = SubSeq(env.data[Other(e)], 1, sent[Other(e)])

\* A frame of data never reaches an end that still takes it for a frame of the
\* handshake: behind it in the stream there is the peer's OK.
KeysBeforeData ==
  \A e \in Ends :
    LET s == so[e].rb \o net[e].kin \o net[e].tr IN
    ~HandshakeDone(so[e]) =>
      \A i \in 1..Len(s) : s[i].f.type = "DATA" => \E j \in 1..i : s[j].f.type = "OK"

\* An async_connect that was begun is answered, whatever the server, the
\* network and the observer do.  (When half a frame
\* of the handshake arrives, handle_async_handshake spins: it decodes the half
\* again and again and never pumps, because size and count are both 0.)
Pieces == env.split /\ env.tlp = "dh"
ConnectIsTold == (call = "begun" /\ ~Pieces) ~> (told.ok + told.err > 0)

\* A packet that was sent is told to the other end, or one of the two closes or
\* shuts down, also when it arrives together with the end of the handshake.
DataArrives ==
  \A e \in Ends : (sent[e] > 0 /\ ~Pieces) ~>
     \/ Len(got[Other(e)]) = sent[e]
     \/ \E x \in Ends : "SHUT" \in so[x].rf

\* Connections do not wait in the listener's queue for ever: one event of epoll
\* may stand for more of them than one accept takes, and the loop of
\* handle_async_accept goes on until the queue is empty.
BacklogServed == (backlog # <<>>) ~> (backlog = <<>>)

\* What the caller of connect is told is what happened: one answer, success only
\* of a connection that is agreed on, and after a failure nothing left open.
OutcomeSound == TypeOK /\ ToldOnce /\ SuccessIsReal /\ FailedIsClosed

\* The stream of frames survives the handshake and the cuts of TCP.
FramesSound == NothingLost /\ KeysBeforeData

\* Everyone is served at last: the caller of connect, the reader of what was
\* sent, the connections at the listener.
AllServed == ConnectIsTold /\ DataArrives /\ BacklogServed
===========================================================================
