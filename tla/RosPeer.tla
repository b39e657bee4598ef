------------------------------ MODULE RosPeer ------------------------------
(***************************************************************************)
(* Nodes, the peer proxy, ros peers and their requests: node_abstract and  *)
(* ros_node, peer_proxy, peer_abstract, peer::ros and the listeners of     *)
(* dispatcher_abstract.                                                    *)
(*                                                                         *)
(* A peer has two dispatchers in its way: the socket's, whose listener is  *)
(* the peer, and its own, whose listeners are the node and the proxy.      *)
(* Registrations are queued and take effect at the next trigger, which     *)
(* holds the dispatcher's spin mutex until its listeners return: `inside`  *)
(* is the trigger of the socket's dispatcher that is under way.  Events of *)
(* a socket come from one sequential runner in order, packets from other   *)
(* runners at any time, also after E_CLOSE (see SocketIO).                 *)
(*                                                                         *)
(* Every section under m_requested_mutex, the peer's m_mutex, m_ops_mutex  *)
(* or m_peers_mutex is one step.  The proxy's m_mutex is held, shared, by  *)
(* the ticker and by remove_peer between their two steps, and exclusively  *)
(* while _deinit runs.  A WAWO_ASSERT that fails ends the process.         *)
(***************************************************************************)
EXTENDS Naturals, Sequences, FiniteSets, SequencesExt

CONSTANTS Peers,     \* peers, each with the socket it is attached to
          Reqs,      \* requests
          Limits     \* bounds of a behaviour, [peers, reqs, in, blocks, resps]: the peers
                     \* that come, the requests users make, the requests and malformed
                     \* packets that arrive at a peer, the times its socket's write
                     \* blocks, the responses to a request

VARIABLES limit,    \* the bounds of this behaviour
          proxy,    \* [st, ops, peers, blocked]: m_state ("DEINIT": _deinit holds m_mutex),
                    \* m_ops, m_peers, m_async_write_sockets
          ticker,   \* the peer update is removing, between its two steps, or Nobody
          remover,  \* the same for a user's remove_peer
          so,       \* [Peers -> m_so]: "none" before attach_socket, "gone" after detach_socket
          open,     \* [Peers -> the socket]: "no", "open", "closed"
          slis,     \* [Peers -> the listeners of the socket's dispatcher]
          plis,     \* [Peers -> the listeners of the peer's dispatcher]
          oev,      \* [Peers -> ordered tasks of the socket's tag]
          pkts,     \* [Peers -> packets read and not yet triggered]
          inside,   \* [Peers -> the event being delivered by the socket's dispatcher]
          acc,      \* [Peers -> the lambda of add_peer]: "none", "scheduled", "done"
          told,     \* [Peers -> what the node was told]: [msgs, closes, late]
          req,      \* [Reqs -> [peer, at, cbs]]: the user's request and its callbacks
          pool,     \* [Peers -> m_requested]
          failed,   \* the assertion that failed, or "none"
          used      \* [Peers -> [in, blocks]]: what the bounds have let happen

vars == <<limit, proxy, ticker, remover, so, open, slis, plis, oev, pkts, inside, acc, told, req,
          pool, failed, used>>

Nobody == "nobody"
ASSUME NamesAssumption == Nobody \notin Peers /\ Reqs \cap {"none", "peer", "proxy"} = {}

Quiet == [ev |-> "none", arg |-> "none"]
Event(ev, arg) == [ev |-> ev, arg |-> arg]

---------------------------------------------------------------------------
(* dispatcher_abstract: the listeners `in` and the queue of operations.    *)

Listeners == [in |-> {}, ops |-> <<>>]
Register(d, l) == [d EXCEPT !.ops = Append(@, [op |-> "add", lis |-> l])]
Unregister(d, l) == [d EXCEPT !.ops = Append(@, [op |-> "remove", lis |-> l])]

\* l is a listener once the queue is processed: the last operation on it decides.
Listens(d, l) ==
  \/ l \in d.in /\ \A i \in DOMAIN d.ops : d.ops[i].lis # l
  \/ \E i \in DOMAIN d.ops :
       /\ d.ops[i] = [op |-> "add", lis |-> l]
       /\ \A j \in DOMAIN d.ops : j > i => d.ops[j].lis # l

\* _process_listener_op, at the beginning of a trigger.
Processed(d) == [in |-> {l \in {"peer", "node", "proxy"} : Listens(d, l)}, ops |-> <<>>]

---------------------------------------------------------------------------
(* Sockets: what SocketIO says of them.                                    *)

\* close tells once, through the ordered tasks; E_RD_SHUTDOWN and E_WR_SHUTDOWN
\* of the same task, which the node answers with a close, are left out.
Closed(p) == [open EXCEPT ![p] = "closed"]
TellClose(q, p) == IF open[p] = "open" THEN [q EXCEPT ![p] = Append(@, "CLOSE")] ELSE q

\* The remote side, an I/O error, a user or the write timer closes the socket.
SocketCloses(p) ==
  /\ open[p] = "open"
  /\ acc[p] = "done"
  /\ open' = Closed(p)
  /\ oev' = TellClose(oev, p)
  /\ UNCHANGED <<limit, proxy, ticker, remover, so, slis, plis, pkts, inside, acc, told, req, pool,
                 failed, used>>

\* The remote side shuts down: E_RD_SHUTDOWN, on which the node closes.
SocketShutsDown(p) ==
  /\ open[p] = "open"
  /\ acc[p] = "done"
  /\ "RD_SHUTDOWN" \notin Range(oev[p])
  /\ inside[p].ev # "RD_SHUTDOWN"
  /\ oev' = [oev EXCEPT ![p] = Append(@, "RD_SHUTDOWN")]
  /\ UNCHANGED <<limit, proxy, ticker, remover, so, open, slis, plis, pkts, inside, acc, told, req,
                 pool, failed, used>>

SocketBlocks(p) ==
  /\ open[p] = "open"
  /\ acc[p] = "done"
  /\ used[p].blocks < 2 * limit.blocks
  /\ used' = [used EXCEPT ![p].blocks = @ + 1]
  /\ oev' = [oev EXCEPT ![p] = Append(@, IF used[p].blocks % 2 = 0 THEN "WR_BLOCK"
                                        ELSE "WR_UNBLOCK")]
  /\ UNCHANGED <<limit, proxy, ticker, remover, so, open, slis, plis, pkts, inside, acc, told, req,
                 pool, failed>>

\* A request of the remote side, or a packet that does not decode.
PacketArrives(p, kind) ==
  /\ open[p] = "open"
  /\ acc[p] = "done"
  /\ used[p].in < limit.in
  /\ used' = [used EXCEPT ![p].in = @ + 1]
  /\ pkts' = [pkts EXCEPT ![p] = Append(@, Event(kind, "none"))]
  /\ UNCHANGED <<limit, proxy, ticker, remover, so, open, slis, plis, oev, inside, acc, told, req,
                 pool, failed>>

\* A response to a request that was sent; it may come late or twice.
ResponseArrives(r) ==
  LET p == req[r].peer IN
  /\ req[r].sent /\ req[r].resps < limit.resps
  /\ open[p] = "open"
  /\ req' = [req EXCEPT ![r].resps = @ + 1]
  /\ pkts' = [pkts EXCEPT ![p] = Append(@, Event("RESPONSE", r))]
  /\ UNCHANGED <<limit, proxy, ticker, remover, so, open, slis, plis, oev, inside, acc, told, pool,
                 failed, used>>

---------------------------------------------------------------------------
(* node_abstract and the proxy: peers come.                                *)

Locked == proxy.st = "DEINIT"

\* handle_async_accept and cb_async_connected: the node watches the peer,
\* attach_socket, _add_peer and the ordered lambda; or the proxy has stopped
\* and the socket is closed.
AddPeer(p) ==
  LET watched == Register(plis[p], "node") IN
  /\ so[p] = "none" /\ open[p] = "no" /\ p \in limit.peers
  /\ ~Locked
  /\ IF proxy.st = "RUN"
     THEN /\ so' = [so EXCEPT ![p] = "attached"]
          /\ open' = [open EXCEPT ![p] = "open"]
          /\ slis' = [slis EXCEPT ![p] = Register(@, "peer")]
          /\ plis' = [plis EXCEPT ![p] = Register(watched, "proxy")]
          /\ proxy' = [proxy EXCEPT !.peers = @ \cup {p}]
          /\ acc' = [acc EXCEPT ![p] = "scheduled"]
     ELSE /\ open' = Closed(p)
          /\ plis' = [plis EXCEPT ![p] = Unregister(watched, "node")]
          /\ UNCHANGED <<so, slis, proxy, acc>>
  /\ UNCHANGED <<limit, ticker, remover, oev, pkts, inside, told, req, pool, failed, used>>

\* on_accepted, then the first asynchronous read.
OnAccepted(p) ==
  /\ acc[p] = "scheduled"
  /\ acc' = [acc EXCEPT ![p] = "done"]
  /\ UNCHANGED <<limit, proxy, ticker, remover, so, open, slis, plis, oev, pkts, inside, told, req,
                 pool, failed, used>>

---------------------------------------------------------------------------
(* Requests.                                                               *)

\* request: into m_requested before the packet is sent.
RequestPush(r, p) ==
  /\ req[r].at = "idle" /\ r \in limit.reqs
  /\ acc[p] = "done"
  /\ req' = [req EXCEPT ![r] = [@ EXCEPT !.peer = p, !.at = "pushed"]]
  /\ pool' = [pool EXCEPT ![p] = @ \cup {r}]
  /\ UNCHANGED <<limit, proxy, ticker, remover, so, open, slis, plis, oev, pkts, inside, acc, told,
                 failed, used>>

\* do_send_message: no socket is attached, send_packet fails (closed, or its
\* buffer is full), or it is sent.
RequestSend(r, ok) ==
  LET p == req[r].peer IN
  /\ req[r].at = "pushed"
  /\ ok => so[p] = "attached" /\ open[p] = "open"
  /\ req' = [req EXCEPT ![r] = [@ EXCEPT !.at = IF ok THEN "returned" ELSE "refused",
                                        !.sent = ok]]
  /\ UNCHANGED <<limit, proxy, ticker, remover, so, open, slis, plis, oev, pkts, inside, acc, told,
                 pool, failed, used>>

\* After a send that failed the request is taken back; when it is not there
\* any more WAWO_CONDITION_CHECK throws.
RequestErase(r) ==
  LET p == req[r].peer IN
  /\ req[r].at = "refused"
  /\ req' = [req EXCEPT ![r].at = IF r \in pool[p] THEN "error" ELSE "thrown"]
  /\ pool' = [pool EXCEPT ![p] = @ \ {r}]
  /\ UNCHANGED <<limit, proxy, ticker, remover, so, open, slis, plis, oev, pkts, inside, acc, told,
                 failed, used>>

\* The callbacks of the requests rs.
Called(rs) == [r \in Reqs |-> IF r \in rs THEN [req[r] EXCEPT !.cbs = @ + 1] ELSE req[r]]

\* _peer_ticker and _check_requested_message: a peer of m_peers whose requests
\* rs have timed out.
MTimeout(p, rs) ==
  /\ proxy.st = "RUN" /\ p \in proxy.peers
  /\ rs \subseteq pool[p] /\ rs # {}
  /\ req' = Called(rs)
  /\ UNCHANGED <<limit, proxy, ticker, remover, so, open, slis, plis, oev, pkts, inside, acc, told,
                 pool, failed, used>>
Timeout(p, rs) ==
  /\ proxy.st = "RUN" /\ p \in proxy.peers
  /\ rs \subseteq pool[p] /\ rs # {}
  /\ req' = Called(rs)
  /\ pool' = [pool EXCEPT ![p] = @ \ rs]
  /\ UNCHANGED <<limit, proxy, ticker, remover, so, open, slis, plis, oev, pkts, inside, acc, told,
                 failed, used>>

---------------------------------------------------------------------------
(* Events.                                                                 *)

\* trigger of the socket's dispatcher: for the next ordered event ...
SocketTrigger(p) ==
  LET d == Processed(slis[p]) IN
  /\ inside[p] = Quiet
  /\ oev[p] # <<>> /\ Head(oev[p]) # "PEER_CLOSE"
  /\ slis' = [slis EXCEPT ![p] = d]
  /\ oev' = [oev EXCEPT ![p] = Tail(@)]
  /\ inside' = [inside EXCEPT ![p] = IF "peer" \in d.in THEN Event(Head(oev[p]), "peer")
                                     ELSE Quiet]
  /\ UNCHANGED <<limit, proxy, ticker, remover, so, open, plis, pkts, acc, told, req, pool, failed,
                 used>>

\* ... or E_PACKET_ARRIVE.
PacketTrigger(p) ==
  LET d == Processed(slis[p]) IN
  /\ inside[p] = Quiet
  /\ pkts[p] # <<>>
  /\ slis' = [slis EXCEPT ![p] = d]
  /\ pkts' = [pkts EXCEPT ![p] = Tail(@)]
  /\ inside' = [inside EXCEPT ![p] = IF "peer" \in d.in THEN Head(pkts[p]) ELSE Quiet]
  /\ UNCHANGED <<limit, proxy, ticker, remover, so, open, plis, oev, acc, told, req, pool, failed,
                 used>>

\* ros::on_event asserts that the event is of the socket it is attached to.
Mine(p) == so[p] = "attached"
AssertionFails(what) ==
  /\ failed' = what
  /\ UNCHANGED <<limit, proxy, ticker, remover, so, open, slis, plis, oev, pkts, inside, acc, told,
                 req, pool, used>>
OnEventDetached(p) ==
  /\ inside[p] # Quiet
  /\ inside[p].ev # "CALLBACK" /\ inside[p].arg # "proxy"
  /\ ~Mine(p)
  /\ AssertionFails("ros.hpp:177")

\* What the node's on_event keeps of a telling.
Hear(p, d, ev) ==
  IF "node" \notin d.in THEN told[p]
  ELSE [told[p] EXCEPT !.late = @ \/ told[p].closes > 0,
                       !.early = @ \/ acc[p] # "done",
                       !.msgs = IF ev = "MESSAGE" THEN @ + 1 ELSE @,
                       !.closes = IF ev = "CLOSE" THEN @ + 1 ELSE @]

\* E_CLOSE: the node unwatches the peer.
MNodeLeaves(d, ev) == d
NodeLeaves(d, ev) == IF ev = "CLOSE" /\ "node" \in d.in THEN Unregister(d, "node") ELSE d

\* A request of the remote side: E_MESSAGE to the node.
OnMessage(p) ==
  LET d == Processed(plis[p]) IN
  /\ inside[p].ev = "REQUEST" /\ Mine(p)
  /\ plis' = [plis EXCEPT ![p] = d]
  /\ told' = [told EXCEPT ![p] = Hear(p, d, "MESSAGE")]
  /\ inside' = [inside EXCEPT ![p] = Quiet]
  /\ UNCHANGED <<limit, proxy, ticker, remover, so, open, slis, oev, pkts, acc, req, pool, failed,
                 used>>

\* _decode_message_from_packet throws and the socket is closed.
OnMalformed(p) ==
  /\ inside[p].ev = "MALFORMED" /\ Mine(p)
  /\ open' = Closed(p)
  /\ oev' = TellClose(oev, p)
  /\ inside' = [inside EXCEPT ![p] = Quiet]
  /\ UNCHANGED <<limit, proxy, ticker, remover, so, slis, plis, pkts, acc, told, req, pool, failed,
                 used>>

\* _handle_resp_message: the request is taken out of m_requested, and its
\* callback called afterwards; a late response finds nothing.
OnResponse(p) ==
  LET r == inside[p].arg IN
  /\ inside[p].ev = "RESPONSE" /\ Mine(p)
  /\ pool' = [pool EXCEPT ![p] = @ \ {r}]
  /\ inside' = [inside EXCEPT ![p] = IF r \in pool[p] THEN Event("CALLBACK", r) ELSE Quiet]
  /\ UNCHANGED <<limit, proxy, ticker, remover, so, open, slis, plis, oev, pkts, acc, told, req,
                 failed, used>>

OnRespond(p) ==
  /\ inside[p].ev = "CALLBACK"
  /\ req' = Called({inside[p].arg})
  /\ inside' = [inside EXCEPT ![p] = Quiet]
  /\ UNCHANGED <<limit, proxy, ticker, remover, so, open, slis, plis, oev, pkts, acc, told, pool,
                 failed, used>>

\* The events the proxy registers for.
ForProxy(ev) == ev \in {"CLOSE", "WR_BLOCK", "WR_UNBLOCK"}

\* The other events go on to the peer's dispatcher: the node is told first,
\* which closes the socket on a shutdown, then the proxy.
OnOrdered(p) ==
  LET d == Processed(plis[p])
      ev == inside[p].ev
      closes == ev = "RD_SHUTDOWN" /\ "node" \in d.in
  IN /\ inside[p].arg = "peer" /\ Mine(p)
     /\ plis' = [plis EXCEPT ![p] = NodeLeaves(d, ev)]
     /\ told' = [told EXCEPT ![p] = Hear(p, d, ev)]
     /\ open' = IF closes THEN Closed(p) ELSE open
     /\ oev' = IF closes THEN TellClose(oev, p) ELSE oev
     /\ inside' = [inside EXCEPT ![p] = IF "proxy" \in d.in /\ ForProxy(ev)
                                        THEN Event(ev, "proxy") ELSE Quiet]
     /\ UNCHANGED <<limit, proxy, ticker, remover, so, slis, pkts, acc, req, pool, failed, used>>

\* peer_proxy::on_event: an operation for the next update; a proxy that has
\* stopped closes the socket.
ProxyOnEvent(p) ==
  /\ inside[p].arg = "proxy"
  /\ ~Locked
  /\ inside' = [inside EXCEPT ![p] = Quiet]
  /\ IF proxy.st = "RUN"
     THEN /\ proxy' = [proxy EXCEPT !.ops = Append(@, [code |-> inside[p].ev, peer |-> p])]
          /\ UNCHANGED <<open, oev, plis>>
     ELSE /\ open' = Closed(p)
          /\ oev' = TellClose(oev, p)
          /\ plis' = [plis EXCEPT ![p] = Unregister(@, "proxy")]
          /\ UNCHANGED proxy
  /\ UNCHANGED <<limit, ticker, remover, so, slis, pkts, acc, told, req, pool, failed, used>>

\* The E_CLOSE that _deinit scheduled on the peer's own dispatcher, with the
\* socket's tag: it waits for the ordered events before it, and for no packet
\* that the socket's dispatcher is telling.
PeerClose(p) ==
  LET d == Processed(plis[p]) IN
  /\ inside[p].arg \notin {"peer", "proxy"}
  /\ oev[p] # <<>> /\ Head(oev[p]) = "PEER_CLOSE"
  /\ oev' = [oev EXCEPT ![p] = Tail(@)]
  /\ plis' = [plis EXCEPT ![p] = NodeLeaves(d, "CLOSE")]
  /\ told' = [told EXCEPT ![p] = Hear(p, d, "CLOSE")]
  /\ UNCHANGED <<limit, proxy, ticker, remover, so, open, slis, pkts, inside, acc, req, pool, failed,
                 used>>

---------------------------------------------------------------------------
(* peer_proxy: update, remove_peer, stop.                                  *)

\* ros::detach_socket: the listener leaves, and every request is cancelled.
MCancelled(p) == {}
Cancelled(p) == pool[p]
Detach(p) ==
  /\ so' = [so EXCEPT ![p] = IF @ = "attached" THEN "gone" ELSE @]
  /\ slis' = [slis EXCEPT ![p] = IF so[p] = "attached" THEN Unregister(@, "peer") ELSE @]
  /\ req' = Called(Cancelled(p))
  /\ pool' = [pool EXCEPT ![p] = @ \ Cancelled(p)]

\* _remove_peer, which asserts that the peer is there.
EraseMember(p) ==
  /\ plis' = [plis EXCEPT ![p] = Unregister(@, "proxy")]
  /\ proxy' = [proxy EXCEPT !.peers = @ \ {p}]

\* _execute_ops, by the ticker: the next operation.
WriteOp(o) ==
  proxy' = [proxy EXCEPT !.ops = Tail(@),
                         !.blocked = IF o.code = "WR_BLOCK" THEN @ \cup {o.peer}
                                     ELSE @ \ {o.peer}]
UpdateOp ==
  LET o == Head(proxy.ops) IN
  /\ proxy.st = "RUN" /\ proxy.ops # <<>>
  /\ ticker = Nobody
  /\ IF o.code = "CLOSE"
     THEN /\ Detach(o.peer)
          /\ ticker' = o.peer
          /\ proxy' = [proxy EXCEPT !.ops = Tail(@)]
     ELSE /\ WriteOp(o)
          /\ UNCHANGED <<so, slis, req, pool, ticker>>
  /\ UNCHANGED <<limit, remover, open, plis, oev, pkts, inside, acc, told, failed, used>>

UpdateRemove ==
  /\ proxy.st = "RUN" /\ ticker # Nobody
  /\ ticker \in proxy.peers
  /\ EraseMember(ticker)
  /\ ticker' = Nobody
  /\ UNCHANGED <<limit, remover, so, open, slis, oev, pkts, inside, acc, told, req, pool, failed,
                 used>>

\* _check_async_write_sockets: a socket whose write side is shut down, or has
\* been blocked for too long, which is then shut down in both directions and so
\* closed (__rdwr_check).
UpdateBlocked(p) ==
  /\ proxy.st = "RUN" /\ ticker = Nobody
  /\ p \in proxy.blocked
  /\ proxy' = [proxy EXCEPT !.blocked = @ \ {p}]
  /\ open' = Closed(p)
  /\ oev' = TellClose(oev, p)
  /\ UNCHANGED <<limit, ticker, remover, so, slis, plis, pkts, inside, acc, told, req, pool, failed,
                 used>>

\* remove_peer, by a user.
RemovePeer(p) ==
  /\ proxy.st = "RUN"
  /\ acc[p] = "done" /\ so[p] = "attached"
  /\ remover = Nobody
  /\ Detach(p)
  /\ remover' = p
  /\ UNCHANGED <<limit, proxy, ticker, open, plis, oev, pkts, inside, acc, told, failed, used>>

RemoverRemove ==
  /\ remover # Nobody
  /\ remover \in proxy.peers
  /\ EraseMember(remover)
  /\ remover' = Nobody
  /\ UNCHANGED <<limit, ticker, so, open, slis, oev, pkts, inside, acc, told, req, pool, failed,
                 used>>

RemovedTwice ==
  /\ \E p \in {ticker, remover} \ {Nobody} : p \notin proxy.peers
  /\ AssertionFails("peer_proxy.hpp:326")

\* stop: S_EXIT, once no reader holds m_mutex.
Stop ==
  /\ proxy.st = "RUN"
  /\ ticker = Nobody /\ remover = Nobody
  /\ proxy' = [proxy EXCEPT !.st = "EXIT"]
  /\ UNCHANGED <<limit, ticker, remover, so, open, slis, plis, oev, pkts, inside, acc, told, req,
                 pool, failed, used>>

DeinitBegins ==
  /\ proxy.st = "EXIT"
  /\ proxy' = [proxy EXCEPT !.st = "DEINIT"]
  /\ UNCHANGED <<limit, ticker, remover, so, open, slis, plis, oev, pkts, inside, acc, told, req,
                 pool, failed, used>>

\* _deinit: the operations that are left ...
DeinitOp ==
  LET o == Head(proxy.ops) IN
  /\ proxy.st = "DEINIT" /\ proxy.ops # <<>>
  /\ IF o.code = "CLOSE"
     THEN /\ Detach(o.peer)
          /\ o.peer \in proxy.peers
          /\ plis' = [plis EXCEPT ![o.peer] = Unregister(@, "proxy")]
          /\ proxy' = [proxy EXCEPT !.ops = Tail(@), !.peers = @ \ {o.peer}]
     ELSE /\ WriteOp(o)
          /\ UNCHANGED <<so, slis, req, pool, plis>>
  /\ UNCHANGED <<limit, ticker, remover, open, oev, pkts, inside, acc, told, failed, used>>

DeinitOpTwice ==
  /\ proxy.st = "DEINIT" /\ proxy.ops # <<>>
  /\ Head(proxy.ops).code = "CLOSE" /\ Head(proxy.ops).peer \notin proxy.peers
  /\ AssertionFails("peer_proxy.hpp:326")

\* ... and for every peer: the proxy leaves its dispatcher, the socket is
\* closed,
DeinitClose(p) ==
  /\ proxy.st = "DEINIT" /\ proxy.ops = <<>>
  /\ ticker = Nobody
  /\ p \in proxy.peers
  /\ plis' = [plis EXCEPT ![p] = Unregister(@, "proxy")]
  /\ open' = Closed(p)
  /\ oev' = TellClose(oev, p)
  /\ ticker' = p
  /\ UNCHANGED <<limit, proxy, remover, so, slis, pkts, inside, acc, told, req, pool, failed, used>>

\* it is detached, and its E_CLOSE scheduled once more.
LastClose(q) == Append(q, "PEER_CLOSE")
DeinitDetach ==
  /\ proxy.st = "DEINIT" /\ ticker # Nobody
  /\ Detach(ticker)
  /\ oev' = [oev EXCEPT ![ticker] = LastClose(@)]
  /\ proxy' = [proxy EXCEPT !.peers = @ \ {ticker}]
  /\ ticker' = Nobody
  /\ UNCHANGED <<limit, remover, open, plis, pkts, inside, acc, told, failed, used>>

DeinitEnds ==
  /\ proxy.st = "DEINIT" /\ proxy.ops = <<>> /\ proxy.peers = {}
  /\ proxy' = [proxy EXCEPT !.st = "STOPPED"]
  /\ UNCHANGED <<limit, ticker, remover, so, open, slis, plis, oev, pkts, inside, acc, told, req,
                 pool, failed, used>>

---------------------------------------------------------------------------

Init ==
  /\ limit \in Limits
  /\ proxy = [st |-> "RUN", ops |-> <<>>, peers |-> {}, blocked |-> {}]
  /\ ticker = Nobody /\ remover = Nobody
  /\ so = [p \in Peers |-> "none"] /\ open = [p \in Peers |-> "no"]
  /\ slis = [p \in Peers |-> Listeners] /\ plis = [p \in Peers |-> Listeners]
  /\ oev = [p \in Peers |-> <<>>] /\ pkts = [p \in Peers |-> <<>>]
  /\ inside = [p \in Peers |-> Quiet]
  /\ acc = [p \in Peers |-> "none"]
  /\ told = [p \in Peers |-> [msgs |-> 0, closes |-> 0, late |-> FALSE, early |-> FALSE]]
  /\ req = [r \in Reqs |-> [peer |-> Nobody, at |-> "idle", sent |-> FALSE, resps |-> 0,
                            cbs |-> 0]]
  /\ pool = [p \in Peers |-> {}]
  /\ failed = "none"
  /\ used = [p \in Peers |-> [in |-> 0, blocks |-> 0]]

World(p) == \/ SocketCloses(p) \/ SocketShutsDown(p) \/ SocketBlocks(p)
            \/ \E kind \in {"REQUEST", "MALFORMED"} : PacketArrives(p, kind)
            \/ AddPeer(p) \/ RemovePeer(p)

Deliver(p) == \/ OnEventDetached(p) \/ OnMessage(p) \/ OnMalformed(p) \/ OnResponse(p)
              \/ OnRespond(p) \/ OnOrdered(p) \/ ProxyOnEvent(p)
Runs(p) == SocketTrigger(p) \/ PeerClose(p)

Requesting(r) == RequestErase(r) \/ RequestSend(r, FALSE) \/ RequestSend(r, TRUE)

Update == UpdateOp \/ UpdateRemove \/ RemovedTwice
Deinit == DeinitBegins \/ DeinitOp \/ DeinitOpTwice \/ DeinitDetach \/ DeinitEnds
          \/ \E p \in Peers : DeinitClose(p)

Next ==
  /\ failed = "none"
  /\ \/ \E p \in Peers : \/ World(p) \/ OnAccepted(p) \/ Deliver(p) \/ Runs(p)
                         \/ PacketTrigger(p) \/ UpdateBlocked(p)
                         \/ \E r \in Reqs : RequestPush(r, p)
                         \/ \E rs \in SUBSET Reqs : Timeout(p, rs)
     \/ \E r \in Reqs : Requesting(r) \/ ResponseArrives(r)
     \/ Update \/ RemoverRemove \/ Stop \/ Deinit

Spec == Init /\ [][Next]_vars

\* The runners, the two tickers and a thread inside a call are scheduled; the
\* users, the remote side and the sockets owe nothing.
FairSpec ==
  /\ Spec
  /\ \A p \in Peers : /\ WF_vars(failed = "none" /\ OnAccepted(p))
                      /\ WF_vars(failed = "none" /\ Deliver(p))
                      /\ SF_vars(failed = "none" /\ Runs(p))
                      /\ WF_vars(failed = "none" /\ \E rs \in SUBSET Reqs : Timeout(p, rs))
  /\ \A r \in Reqs : WF_vars(failed = "none" /\ Requesting(r))
  /\ WF_vars(failed = "none" /\ Update)
  /\ WF_vars(failed = "none" /\ RemoverRemove)
  /\ WF_vars(failed = "none" /\ Deinit)

---------------------------------------------------------------------------
(* Properties.                                                             *)

TypeOK ==
  /\ proxy.st \in {"RUN", "EXIT", "DEINIT", "STOPPED"} /\ proxy.peers \subseteq Peers
  /\ proxy.ops \in Seq([code : {"CLOSE", "WR_BLOCK", "WR_UNBLOCK"}, peer : Peers])
  /\ proxy.blocked \subseteq Peers
  /\ ticker \in Peers \cup {Nobody} /\ remover \in Peers \cup {Nobody}
  /\ so \in [Peers -> {"none", "attached", "gone"}]
  /\ open \in [Peers -> {"no", "open", "closed"}]
  /\ \A p \in Peers : slis[p].in \subseteq {"peer"} /\ plis[p].in \subseteq {"node", "proxy"}
  /\ pool \in [Peers -> SUBSET Reqs]
  /\ failed \in {"none", "ros.hpp:177", "peer_proxy.hpp:326"}

\* A request is answered at most once, by its response, its timeout or the
\* detaching of the socket; not at all when request() returned an error; and
\* one that is over is not listed any more.
AnsweredOnce ==
  \A r \in Reqs :
    LET p == req[r].peer
        listed == \E q \in Peers : r \in pool[q]
        called == \E q \in Peers : inside[q] = Event("CALLBACK", r)
    IN /\ req[r].cbs + (IF listed THEN 1 ELSE 0) + (IF called THEN 1 ELSE 0) =< 1
       /\ req[r].at = "error" => req[r].cbs = 0 /\ ~listed /\ ~called

\* A request that was sent is never forgotten: listed, being answered, or
\* answered.
NeverForgotten ==
  \A r \in Reqs : req[r].sent =>
    \/ req[r].cbs = 1
    \/ r \in pool[req[r].peer] /\ req[r].peer \in proxy.peers
    \/ inside[req[r].peer] = Event("CALLBACK", r)

\* The node hears on_close once, and after it nothing of the peer; before
\* on_accepted it hears nothing, unless the proxy is being stopped.
ToldInOrder ==
  \A p \in Peers : /\ told[p].closes =< 1 /\ ~told[p].late
                   /\ told[p].early => proxy.st # "RUN"

\* Every peer of the proxy has its socket (_deinit asserts it), except the one
\* being removed.
MembersAttached ==
  \A p \in proxy.peers : so[p] = "attached" \/ p \in {ticker, remover}

\* The close of a peer's socket is told to the node, unless a user removes the
\* peer first.
ClosedIsTold ==
  \A p \in Peers : (open[p] = "closed" /\ so[p] = "attached") ~>
    (told[p].closes = 1 \/ remover = p \/ failed # "none")

\* A peer that is detached leaves the proxy.
DetachedLeaves ==
  \A p \in Peers : (so[p] = "gone") ~> (p \notin proxy.peers \/ failed # "none")

\* Stopping the proxy tells the node the close of every peer it had.
StopTells ==
  \A p \in Peers : (proxy.st = "EXIT" /\ p \in proxy.peers) ~>
    (told[p].closes = 1 \/ failed # "none")

\* Every request ends: a callback, an error or an exception.
RequestEnds ==
  \A r \in Reqs : (req[r].at = "pushed") ~>
    (req[r].cbs = 1 \/ req[r].at \in {"error", "thrown"} \/ failed # "none")

\* The check of request(): a request whose send failed is still listed.  The code
\* does not keep it: the timeout or a close may have taken the request away.
RequestStillListed == \A r \in Reqs : req[r].at # "thrown"

\* A request that was made is answered exactly once, or still waited for: of the
\* response, the timeout, the detaching and a failing send one wins.
OneAnswer == AnsweredOnce /\ NeverForgotten

\* The proxy's peers are attached, and the node hears of each in order.
PeersSound == TypeOK /\ MembersAttached /\ ToldInOrder

\* Nothing is left over: requests end, closes are told, detached peers leave the
\* proxy, and stop reaches every peer.
AllEnds == RequestEnds /\ ClosedIsTold /\ DetachedLeaves /\ StopTells
===========================================================================
