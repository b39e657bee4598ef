--------------------------- MODULE RosPeerProofs ---------------------------
(***************************************************************************)
(* Proofs about RosPeer: every request is answered once, no request that   *)
(* was sent is forgotten, the proxy's peers are attached, and the node     *)
(* hears of each peer in order, for every set of peers and requests.       *)
(***************************************************************************)
EXTENDS RosPeer, TLAPS

---------------------------------------------------------------------------
(* The inductive invariant.                                                *)

Names == {"peer", "node", "proxy"}
Dispatchers(S) == [in : SUBSET S, ops : Seq([op : {"add", "remove"}, lis : S])]
ProxyOps == [code : {"CLOSE", "WR_BLOCK", "WR_UNBLOCK"}, peer : Peers]
OrderedEvents == {"CLOSE", "RD_SHUTDOWN", "WR_BLOCK", "WR_UNBLOCK", "PEER_CLOSE"}
PacketEvents == [ev : {"REQUEST", "MALFORMED", "RESPONSE"}, arg : Reqs \cup {"none"}]
Deliveries == [ev : OrderedEvents \cup {"none", "REQUEST", "MALFORMED", "RESPONSE", "CALLBACK"},
               arg : Reqs \cup {"none", "peer", "proxy"}]
Histories == [msgs : Nat, closes : Nat, late : BOOLEAN, early : BOOLEAN]
Requests == [peer : Peers \cup {Nobody}, sent : BOOLEAN, resps : Nat, cbs : Nat,
             at : {"idle", "pushed", "returned", "refused", "error", "thrown"}]

\* The proxy and the sockets.
ProxyTypes ==
  /\ proxy \in [st : {"RUN", "EXIT", "DEINIT", "STOPPED"}, ops : Seq(ProxyOps),
                peers : SUBSET Peers, blocked : SUBSET Peers]
  /\ ticker \in Peers \cup {Nobody} /\ remover \in Peers \cup {Nobody}
  /\ so \in [Peers -> {"none", "attached", "gone"}]
  /\ open \in [Peers -> {"no", "open", "closed"}]
  /\ acc \in [Peers -> {"none", "scheduled", "done"}]
  /\ failed \in {"none", "ros.hpp:177", "peer_proxy.hpp:326"}

\* What the proxy knows of a peer.
Members ==
  /\ \A p \in Peers : so[p] = "attached" => p \in proxy.peers
  /\ \A p \in Peers : so[p] = "none" => p \notin proxy.peers /\ acc[p] = "none"
  /\ ticker # Nobody => \/ proxy.st = "RUN" /\ so[ticker] = "gone"
                        \/ proxy.st = "DEINIT" /\ ticker \in proxy.peers /\ proxy.ops = <<>>
  /\ remover # Nobody => so[remover] = "gone" /\ proxy.st = "RUN"
  /\ \A p \in proxy.blocked : acc[p] = "done"
  /\ \A i \in 1..Len(proxy.ops) : acc[proxy.ops[i].peer] = "done"

Membership == ProxyTypes /\ Members /\ MembersAttached

\* Events are delivered to a peer only when it has a socket, and before
\* on_accepted only when the proxy is being stopped.
Untouched(p) == oev[p] = <<>> /\ pkts[p] = <<>> /\ inside[p] = Quiet
EventTypes ==
  /\ oev \in [Peers -> Seq(OrderedEvents)]
  /\ pkts \in [Peers -> Seq(PacketEvents)]
  /\ inside \in [Peers -> Deliveries]
  /\ \A p \in Peers : inside[p].arg = "proxy" => ForProxy(inside[p].ev)
Delivery ==
  /\ EventTypes
  /\ \A p \in Peers : so[p] = "none" \/ (acc[p] # "done" /\ proxy.st = "RUN") => Untouched(p)

\* The listeners and what the node was told: one that has heard of the close
\* does not listen any more, and one without a socket has not heard of it.
HearingTypes ==
  /\ slis \in [Peers -> Dispatchers({"peer"})]
  /\ plis \in [Peers -> Dispatchers({"node", "proxy"})]
  /\ told \in [Peers -> Histories]
Deaf == \A p \in Peers : told[p].closes > 0 => so[p] # "none" /\ ~Listens(plis[p], "node")
Hearing == HearingTypes /\ Deaf /\ ToldInOrder

\* A request is listed, being called back or called back, one at a time.
RequestTypes == req \in [Reqs -> Requests] /\ pool \in [Peers -> SUBSET Reqs]
Listed(r) == \E q \in Peers : r \in pool[q]
BeingCalled(r) == \E q \in Peers : inside[q] = Event("CALLBACK", r)
Once ==
  \A r \in Reqs :
    /\ req[r].cbs \in {0, 1}
    /\ Listed(r) => req[r].cbs = 0 /\ ~BeingCalled(r)
    /\ BeingCalled(r) => req[r].cbs = 0
    /\ req[r].at = "error" => req[r].cbs = 0 /\ ~Listed(r) /\ ~BeingCalled(r)

\* A request belongs to one peer, which was accepted, and is sent after it was
\* listed; while it waits for its response its peer has a socket.
Owned ==
  \A r \in Reqs :
    /\ \A q \in Peers : r \in pool[q] => q = req[r].peer
    /\ req[r].at = "idle" <=> req[r].peer = Nobody
    /\ req[r].at = "idle" => req[r].cbs = 0
    /\ req[r].at # "idle" => acc[req[r].peer] = "done"
    /\ req[r].sent => req[r].at = "returned"
    /\ req[r].at = "pushed" => r \in pool[req[r].peer] \/ req[r].cbs = 1
    /\ req[r].sent /\ r \in pool[req[r].peer] => so[req[r].peer] = "attached"

\* A response is one to a request of this peer that was sent.
Response(p, e) == e.ev \in {"RESPONSE", "CALLBACK"} => /\ e.arg \in Reqs /\ req[e.arg].sent
                                                      /\ req[e.arg].peer = p
Answers == \A p \in Peers : /\ Response(p, inside[p])
                            /\ \A i \in 1..Len(pkts[p]) : Response(p, pkts[p][i])

Requesters == RequestTypes /\ Once /\ NeverForgotten /\ Owned /\ Answers

Inv == Membership /\ Delivery /\ Hearing /\ Requesters

---------------------------------------------------------------------------
(* Dispatchers.                                                            *)

\* An operation that is queued decides about its listener and no other.
LEMMA QueuedFacts ==
  ASSUME NEW S, NEW d \in Dispatchers(S), NEW o \in [op : {"add", "remove"}, lis : S]
  PROVE  LET e == [d EXCEPT !.ops = Append(@, o)]
         IN /\ e \in Dispatchers(S)
            /\ \A k : Listens(e, k) <=> IF k = o.lis THEN o.op = "add" ELSE Listens(d, k)
<1> DEFINE T == [op : {"add", "remove"}, lis : S]
           e == [d EXCEPT !.ops = Append(@, o)]
           n == Len(d.ops)
<1>1. d.in \in SUBSET S /\ d.ops \in Seq(T)
  BY DEF Dispatchers
<1>2. e = [in |-> d.in, ops |-> Append(d.ops, o)]
  BY SMTT(30) DEF Dispatchers
<1>3. n \in Nat /\ DOMAIN d.ops = 1..n /\ Append(d.ops, o) \in Seq(T)
      /\ DOMAIN Append(d.ops, o) = 1..(n + 1)
  BY <1>1
<1>4. Append(d.ops, o)[n + 1] = o /\ \A i \in 1..n : Append(d.ops, o)[i] = d.ops[i]
  BY <1>1
<1>5. e \in Dispatchers(S)
  BY <1>1, <1>2, <1>3 DEF Dispatchers
<1>6. e.in = d.in /\ e.ops = Append(d.ops, o)
  BY <1>2
<1> HIDE DEF e, n, T
<1>7. \A i \in 1..(n + 1) : e.ops[i] = IF i = n + 1 THEN o ELSE d.ops[i]
  BY <1>3, <1>4, <1>6
<1>8. ASSUME NEW k
      PROVE  Listens(e, k) <=> IF k = o.lis THEN o.op = "add" ELSE Listens(d, k)
  <2>1. CASE k = o.lis
    <3>1. ~\A i \in DOMAIN e.ops : e.ops[i].lis # k
      BY <1>3, <1>6, <1>7, <2>1
    <3>2. ASSUME o.op = "add" PROVE Listens(e, k)
      <4>1. e.ops[n + 1] = [op |-> "add", lis |-> k]
        BY <1>3, <1>7, <2>1, <3>2
      <4> QED
        BY <1>3, <1>6, <4>1 DEF Listens
    <3>3. ASSUME Listens(e, k) PROVE o.op = "add"
      <4>1. PICK i \in DOMAIN e.ops : /\ e.ops[i] = [op |-> "add", lis |-> k]
                                      /\ \A j \in DOMAIN e.ops : j > i => e.ops[j].lis # k
        BY <3>1, <3>3 DEF Listens
      <4>2. i = n + 1
        BY <1>3, <1>6, <1>7, <2>1, <4>1
      <4> QED
        BY <1>3, <1>7, <4>1, <4>2
    <3> QED
      BY <2>1, <3>2, <3>3
  <2>2. CASE k # o.lis
    <3>1. (\A i \in DOMAIN e.ops : e.ops[i].lis # k) <=> \A i \in DOMAIN d.ops : d.ops[i].lis # k
      BY <1>3, <1>6, <1>7, <2>2
    <3>2. ASSUME NEW i \in DOMAIN d.ops
          PROVE  (\A j \in DOMAIN e.ops : j > i => e.ops[j].lis # k)
                   <=> \A j \in DOMAIN d.ops : j > i => d.ops[j].lis # k
      BY <1>3, <1>6, <1>7, <2>2
    <3>3. ~(e.ops[n + 1] = [op |-> "add", lis |-> k])
      BY <1>3, <1>7, <2>2
    <3> QED
      BY <1>3, <1>6, <1>7, <2>2, <3>1, <3>2, <3>3 DEF Listens
  <2> QED
    BY <2>1, <2>2
<1> QED
  BY <1>5, <1>8 DEF e

\* register_listener: the listener listens once the queue is processed.
LEMMA RegisterFacts ==
  ASSUME NEW S, NEW d \in Dispatchers(S), NEW l \in S
  PROVE  /\ Register(d, l) \in Dispatchers(S)
         /\ \A k : Listens(Register(d, l), k) <=> k = l \/ Listens(d, k)
<1> DEFINE o == [op |-> "add", lis |-> l]
<1>1. o \in [op : {"add", "remove"}, lis : S] /\ o.op = "add" /\ o.lis = l
  OBVIOUS
<1> HIDE DEF o
<1>2. /\ [d EXCEPT !.ops = Append(@, o)] \in Dispatchers(S)
      /\ \A k : Listens([d EXCEPT !.ops = Append(@, o)], k)
                  <=> IF k = o.lis THEN o.op = "add" ELSE Listens(d, k)
  BY <1>1, QueuedFacts
<1>3. Register(d, l) = [d EXCEPT !.ops = Append(@, o)]
  BY DEF Register, o
<1> QED
  BY <1>1, <1>2, <1>3

\* unregister_listener: the listener does not listen once the queue is processed.
LEMMA UnregisterFacts ==
  ASSUME NEW S, NEW d \in Dispatchers(S), NEW l \in S
  PROVE  /\ Unregister(d, l) \in Dispatchers(S)
         /\ \A k : Listens(Unregister(d, l), k) <=> k # l /\ Listens(d, k)
<1> DEFINE o == [op |-> "remove", lis |-> l]
<1>1. o \in [op : {"add", "remove"}, lis : S] /\ o.op # "add" /\ o.lis = l
  OBVIOUS
<1> HIDE DEF o
<1>2. /\ [d EXCEPT !.ops = Append(@, o)] \in Dispatchers(S)
      /\ \A k : Listens([d EXCEPT !.ops = Append(@, o)], k)
                  <=> IF k = o.lis THEN o.op = "add" ELSE Listens(d, k)
  BY <1>1, QueuedFacts
<1>3. Unregister(d, l) = [d EXCEPT !.ops = Append(@, o)]
  BY DEF Unregister, o
<1> QED
  BY <1>1, <1>2, <1>3

\* _process_listener_op: those listen who would have before.
LEMMA ProcessedFacts ==
  ASSUME NEW S \in SUBSET Names, NEW d \in Dispatchers(S)
  PROVE  /\ Processed(d) \in Dispatchers(S)
         /\ \A k \in Names : /\ Listens(Processed(d), k) <=> Listens(d, k)
                             /\ k \in Processed(d).in <=> Listens(d, k)
<1>1. \A k : Listens(d, k) => k \in S
  BY DEF Listens, Dispatchers
<1>2. Processed(d).ops = <<>> /\ Processed(d).in = {l \in Names : Listens(d, l)}
  BY DEF Processed, Names
<1>3. Processed(d) \in Dispatchers(S)
  BY <1>1 DEF Processed, Dispatchers, Names
<1>4. \A k \in Names : Listens(Processed(d), k) <=> k \in Processed(d).in
  BY <1>2 DEF Listens
<1> QED
  BY <1>2, <1>3, <1>4

---------------------------------------------------------------------------
(* Requests.                                                               *)

\* The requests are not disturbed by a step that leaves them and their
\* callbacks alone, and keeps the attached peers in the proxy.
LEMMA RequestersKept ==
  ASSUME ProxyTypes, EventTypes, Requesters, req' = req, pool' = pool,
         \A q \in Peers : acc[q] = "done" => acc'[q] = "done",
         \A q \in Peers : so[q] = "attached" => /\ so'[q] = "attached"
                                                /\ q \in proxy.peers => q \in proxy'.peers,
         \A q \in Peers : \/ inside'[q] = inside[q]
                          \/ /\ inside[q].ev # "CALLBACK" /\ inside'[q].ev # "CALLBACK"
                             /\ Response(q, inside'[q]),
         \A q \in Peers : \A i \in 1..Len(pkts'[q]) : Response(q, pkts'[q][i])
  PROVE  Requesters'
<1>1. RequestTypes'
  BY DEF Requesters, RequestTypes
<1>2. \A q \in Peers : \A r : inside'[q] = Event("CALLBACK", r) <=> inside[q] = Event("CALLBACK", r)
  BY DEF Event
<1>3. \A r : (Listed(r))' <=> Listed(r)
  BY DEF Listed
<1>4. \A r : (BeingCalled(r))' <=> BeingCalled(r)
  <2>1. \A r : (BeingCalled(r))' <=> \E q \in Peers : inside'[q] = Event("CALLBACK", r)
    BY DEF BeingCalled, Event
  <2> QED
    BY <1>2, <2>1 DEF BeingCalled
<1>5. Once'
  BY <1>3, <1>4 DEF Requesters, Once
<1>6. Owned'
  <2> SUFFICES ASSUME NEW r \in Reqs
               PROVE  /\ req[r].at # "idle" => acc'[req[r].peer] = "done"
                      /\ req[r].sent /\ r \in pool[req[r].peer] => so'[req[r].peer] = "attached"
    BY DEF Requesters, Owned
  <2>1. req[r].at # "idle" => req[r].peer \in Peers
    BY DEF Requesters, Owned, RequestTypes, Requests
  <2> QED
    BY <2>1 DEF Requesters, Owned
<1>7. NeverForgotten'
  <2> SUFFICES ASSUME NEW r \in Reqs, req[r].sent, req[r].cbs # 1
               PROVE  \/ r \in pool[req[r].peer] /\ req[r].peer \in proxy'.peers
                      \/ inside'[req[r].peer] = Event("CALLBACK", r)
    BY DEF NeverForgotten, Event
  <2>1. req[r].peer \in Peers
    BY DEF Requesters, Owned, RequestTypes, Requests
  <2>2. CASE r \in pool[req[r].peer] /\ req[r].peer \in proxy.peers
    BY <2>1, <2>2 DEF Requesters, Owned
  <2>3. CASE inside[req[r].peer] = Event("CALLBACK", r)
    BY <1>2, <2>1, <2>3
  <2> QED
    BY <2>2, <2>3 DEF Requesters, NeverForgotten
<1>8. Answers'
  BY DEF Requesters, Answers, Response
<1> QED
  BY <1>1, <1>5, <1>6, <1>7, <1>8 DEF Requesters

\* The requests rs of a peer are called back and leave m_requested together, as
\* its time-out and the detaching of its socket do.
LEMMA RequestersCalled ==
  ASSUME ProxyTypes, EventTypes, Requesters,
         NEW p \in Peers, NEW rs \in SUBSET pool[p],
         req' = Called(rs), pool' = [pool EXCEPT ![p] = @ \ rs],
         inside' = inside, pkts' = pkts, acc' = acc,
         \A q \in Peers : so[q] = "attached" /\ (q # p \/ rs # pool[p]) => so'[q] = "attached",
         \A q \in proxy.peers : q # p \/ rs # pool[p] => q \in proxy'.peers
  PROVE  Requesters'
<1> USE DEF Requesters
<1>1. rs \subseteq Reqs
  BY DEF RequestTypes
<1>2. \A r \in Reqs : /\ req'[r].peer = req[r].peer /\ req'[r].sent = req[r].sent
                      /\ req'[r].at = req[r].at /\ req'[r].resps = req[r].resps
                      /\ req'[r].cbs = IF r \in rs THEN req[r].cbs + 1 ELSE req[r].cbs
                      /\ req'[r] \in Requests
  BY <1>1 DEF RequestTypes, Requests, Called
<1>3. \A q \in Peers : pool'[q] = IF q = p THEN pool[q] \ rs ELSE pool[q]
  BY DEF RequestTypes
<1>4. RequestTypes'
  <2>1. req' \in [Reqs -> Requests]
    BY <1>2 DEF Called
  <2>2. pool' \in [Peers -> SUBSET Reqs]
    BY DEF RequestTypes
  <2> QED
    BY <2>1, <2>2 DEF RequestTypes
<1>5. \A r \in Reqs : r \in rs => req[r].peer = p /\ req[r].cbs = 0 /\ Listed(r)
  BY DEF Owned, Once, Listed
<1>6. \A r \in Reqs : (Listed(r))' <=> Listed(r) /\ r \notin rs
  <2> SUFFICES ASSUME NEW r \in Reqs PROVE (\E q \in Peers : r \in pool'[q]) <=> Listed(r) /\ r \notin rs
    BY DEF Listed
  <2>1. \A q \in Peers : r \in pool'[q] => r \in pool[q] /\ r \notin rs
    BY <1>3, <1>5 DEF Owned
  <2>2. \A q \in Peers : r \in pool[q] /\ r \notin rs => r \in pool'[q]
    BY <1>3
  <2> QED
    BY <2>1, <2>2 DEF Listed
<1>7. \A r : (BeingCalled(r))' <=> BeingCalled(r)
  BY DEF BeingCalled, Event
<1>8. Once'
  <2> SUFFICES ASSUME NEW r \in Reqs
               PROVE  /\ req'[r].cbs \in {0, 1}
                      /\ (Listed(r))' => req'[r].cbs = 0 /\ ~(BeingCalled(r))'
                      /\ (BeingCalled(r))' => req'[r].cbs = 0
                      /\ req'[r].at = "error" => /\ req'[r].cbs = 0 /\ ~(Listed(r))'
                                                 /\ ~(BeingCalled(r))'
    BY DEF Once
  <2> QED
    BY <1>2, <1>5, <1>6, <1>7 DEF Once
<1>9. Owned'
  <2> SUFFICES ASSUME NEW r \in Reqs
               PROVE  /\ \A q \in Peers : r \in pool'[q] => q = req'[r].peer
                      /\ req'[r].at = "idle" <=> req'[r].peer = Nobody
                      /\ req'[r].at = "idle" => req'[r].cbs = 0
                      /\ req'[r].at # "idle" => acc'[req'[r].peer] = "done"
                      /\ req'[r].sent => req'[r].at = "returned"
                      /\ req'[r].at = "pushed" => r \in pool'[req'[r].peer] \/ req'[r].cbs = 1
                      /\ req'[r].sent /\ r \in pool'[req'[r].peer]
                           => so'[req'[r].peer] = "attached"
    BY DEF Owned
  <2>1. req[r].at # "idle" => req[r].peer \in Peers
    BY DEF Owned, RequestTypes, Requests
  <2>2. \A q \in Peers : r \in pool'[q] => r \in pool[q] /\ r \notin rs
    BY <1>3, <1>5 DEF Owned
  <2>3. req'[r].at = "pushed" => r \in pool'[req'[r].peer] \/ req'[r].cbs = 1
    BY <1>2, <1>3, <1>5, <2>1 DEF Owned
  <2>4. req'[r].sent /\ r \in pool'[req'[r].peer] => so'[req'[r].peer] = "attached"
    <3> SUFFICES ASSUME req[r].sent, r \in pool'[req[r].peer] PROVE so'[req[r].peer] = "attached"
      BY <1>2
    <3>1. req[r].peer \in Peers
      BY <2>1 DEF Owned
    <3>2. r \in pool[req[r].peer] /\ r \notin rs
      BY <2>2, <3>1
    <3> QED
      BY <3>1, <3>2 DEF Owned
  <2>5. req'[r].at = "idle" => req'[r].cbs = 0
    BY <1>2, <1>5, NamesAssumption DEF Owned
  <2> QED
    BY <1>2, <2>2, <2>3, <2>4, <2>5 DEF Owned
<1>10. NeverForgotten'
  <2> SUFFICES ASSUME NEW r \in Reqs, req[r].sent
               PROVE  \/ req'[r].cbs = 1
                      \/ r \in pool'[req[r].peer] /\ req[r].peer \in proxy'.peers
                      \/ inside[req[r].peer] = Event("CALLBACK", r)
    BY <1>2 DEF NeverForgotten, Event
  <2>1. CASE r \in rs
    BY <1>2, <1>5, <2>1
  <2>2. CASE r \notin rs
    <3>1. req[r].peer \in Peers
      BY DEF Owned, RequestTypes, Requests
    <3> QED
      BY <1>2, <1>3, <2>2, <3>1 DEF NeverForgotten
  <2> QED
    BY <2>1, <2>2
<1>11. Answers'
  BY <1>2 DEF Answers, Response
<1> QED
  BY <1>4, <1>8, <1>9, <1>10, <1>11

\* request(): the request is listed before it is sent.
LEMMA RequestersPush ==
  ASSUME Membership, Delivery, Requesters, NEW p \in Peers, NEW s \in Reqs, RequestPush(s, p)
  PROVE  Requesters'
<1> USE DEF Requesters
<1>1. \A r \in Reqs : req'[r] = IF r = s THEN [req[r] EXCEPT !.peer = p, !.at = "pushed"]
                                ELSE req[r]
  BY DEF RequestTypes, RequestPush
<1>2. \A q \in Peers : pool'[q] = IF q = p THEN pool[q] \cup {s} ELSE pool[q]
  BY DEF RequestTypes, RequestPush
<1>3. /\ inside' = inside /\ pkts' = pkts /\ so' = so /\ acc' = acc /\ proxy' = proxy
      /\ req[s].at = "idle" /\ acc[p] = "done"
  BY DEF RequestPush
<1>4. req[s].peer = Nobody /\ ~req[s].sent /\ req[s] \in Requests
  BY <1>3 DEF Owned, RequestTypes, Requests
<1>5. RequestTypes'
  <2>1. \A r \in Reqs : req'[r] \in Requests
    <3>1. req'[s] \in Requests
      BY <1>1, <1>4 DEF Requests
    <3> QED
      BY <1>1, <3>1 DEF RequestTypes
  <2>2. req' \in [Reqs -> Requests]
    BY <2>1 DEF RequestPush, RequestTypes
  <2>3. pool' \in [Peers -> SUBSET Reqs]
    BY DEF RequestPush, RequestTypes
  <2> QED
    BY <2>2, <2>3 DEF RequestTypes
<1>6. /\ req'[s].peer = p /\ req'[s].at = "pushed" /\ ~req'[s].sent /\ req'[s].cbs = req[s].cbs
      /\ \A r \in Reqs : r # s => req'[r] = req[r]
  BY <1>1, <1>4 DEF Requests
<1>7. ~Listed(s) /\ ~BeingCalled(s)
  BY <1>4, NamesAssumption DEF Listed, BeingCalled, Owned, Answers, Response, Event
<1>8. \A r \in Reqs : r # s => (Listed(r))' = Listed(r)
  BY <1>2 DEF Listed
<1>9. \A r : (BeingCalled(r))' = BeingCalled(r)
  BY <1>3 DEF BeingCalled, Event
<1>10. Once'
  <2> SUFFICES ASSUME NEW r \in Reqs
               PROVE  /\ req'[r].cbs \in {0, 1}
                      /\ (Listed(r))' => req'[r].cbs = 0 /\ ~(BeingCalled(r))'
                      /\ (BeingCalled(r))' => req'[r].cbs = 0
                      /\ req'[r].at = "error" => /\ req'[r].cbs = 0 /\ ~(Listed(r))'
                                                 /\ ~(BeingCalled(r))'
    BY DEF Once
  <2>1. CASE r = s
    BY <1>3, <1>6, <1>7, <1>9, <2>1 DEF Owned
  <2>2. CASE r # s
    BY <1>6, <1>8, <1>9, <2>2 DEF Once
  <2> QED
    BY <2>1, <2>2
<1>11. Owned'
  <2> SUFFICES ASSUME NEW r \in Reqs
               PROVE  /\ \A q \in Peers : r \in pool'[q] => q = req'[r].peer
                      /\ req'[r].at = "idle" <=> req'[r].peer = Nobody
                      /\ req'[r].at = "idle" => req'[r].cbs = 0
                      /\ req'[r].at # "idle" => acc'[req'[r].peer] = "done"
                      /\ req'[r].sent => req'[r].at = "returned"
                      /\ req'[r].at = "pushed" => r \in pool'[req'[r].peer] \/ req'[r].cbs = 1
                      /\ req'[r].sent /\ r \in pool'[req'[r].peer]
                           => so'[req'[r].peer] = "attached"
    BY DEF Owned
  <2>1. CASE r = s
    BY <1>2, <1>3, <1>6, <1>7, <2>1, NamesAssumption DEF Listed, Owned
  <2>2. CASE r # s
    <3>1. req'[r] = req[r] /\ (req[r].at # "idle" => req[r].peer \in Peers)
      BY <1>6, <2>2 DEF Owned, RequestTypes, Requests
    <3>2. \A q \in Peers : r \in pool'[q] <=> r \in pool[q]
      BY <1>2, <2>2
    <3> QED
      BY <1>3, <3>1, <3>2 DEF Owned
  <2> QED
    BY <2>1, <2>2
<1>12. NeverForgotten'
  <2> SUFFICES ASSUME NEW r \in Reqs, req'[r].sent
               PROVE  \/ req'[r].cbs = 1
                      \/ r \in pool'[req'[r].peer] /\ req'[r].peer \in proxy'.peers
                      \/ inside'[req'[r].peer] = Event("CALLBACK", r)
    BY DEF NeverForgotten, Event
  <2>1. r # s /\ req'[r] = req[r] /\ req[r].peer \in Peers
    BY <1>6 DEF Owned, RequestTypes, Requests
  <2> QED
    BY <1>2, <1>3, <2>1 DEF NeverForgotten
<1>13. Answers'
  BY <1>3, <1>4, <1>6 DEF Answers, Response
<1> QED
  BY <1>5, <1>10, <1>11, <1>12, <1>13

\* do_send_message: a request that is sent has an attached socket.
LEMMA RequestersSend ==
  ASSUME Membership, Delivery, Requesters, NEW s \in Reqs, NEW ok \in BOOLEAN, RequestSend(s, ok)
  PROVE  Requesters'
<1> USE DEF Requesters
<1> DEFINE p == req[s].peer
<1>1. /\ \A r \in Reqs : r # s => req'[r] = req[r]
      /\ req'[s] = [req[s] EXCEPT !.at = IF ok THEN "returned" ELSE "refused", !.sent = ok]
  BY DEF RequestTypes, RequestSend
<1>2. /\ inside' = inside /\ pkts' = pkts /\ so' = so /\ acc' = acc /\ proxy' = proxy /\ pool' = pool
      /\ req[s].at = "pushed" /\ (ok => so[p] = "attached")
  BY DEF RequestSend
<1>3. req[s] \in Requests /\ p \in Peers /\ ~req[s].sent
  BY <1>2 DEF Owned, RequestTypes, Requests
<1>4. /\ req'[s] \in Requests /\ req'[s].peer = p /\ req'[s].sent = ok /\ req'[s].cbs = req[s].cbs
      /\ req'[s].at = IF ok THEN "returned" ELSE "refused"
  BY <1>1, <1>3 DEF Requests
<1>5. RequestTypes'
  <2>1. \A r \in Reqs : req'[r] \in Requests
    BY <1>1, <1>4 DEF RequestTypes
  <2>2. req' \in [Reqs -> Requests]
    BY <2>1 DEF RequestSend, RequestTypes
  <2> QED
    BY <1>2, <2>2 DEF RequestTypes
<1>6. \A r : (Listed(r))' = Listed(r) /\ (BeingCalled(r))' = BeingCalled(r)
  BY <1>2 DEF BeingCalled, Listed, Event
<1>7. s \in pool[p] \/ req[s].cbs = 1
  BY <1>2 DEF Owned
<1> HIDE DEF p
<1>8. Once'
  <2> SUFFICES ASSUME NEW r \in Reqs
               PROVE  /\ req'[r].cbs \in {0, 1}
                      /\ (Listed(r))' => req'[r].cbs = 0 /\ ~(BeingCalled(r))'
                      /\ (BeingCalled(r))' => req'[r].cbs = 0
                      /\ req'[r].at = "error" => /\ req'[r].cbs = 0 /\ ~(Listed(r))'
                                                 /\ ~(BeingCalled(r))'
    BY DEF Once
  <2> QED
    BY <1>1, <1>4, <1>6 DEF Once
<1>9. Owned'
  <2> SUFFICES ASSUME NEW r \in Reqs
               PROVE  /\ \A q \in Peers : r \in pool'[q] => q = req'[r].peer
                      /\ req'[r].at = "idle" <=> req'[r].peer = Nobody
                      /\ req'[r].at = "idle" => req'[r].cbs = 0
                      /\ req'[r].at # "idle" => acc'[req'[r].peer] = "done"
                      /\ req'[r].sent => req'[r].at = "returned"
                      /\ req'[r].at = "pushed" => r \in pool'[req'[r].peer] \/ req'[r].cbs = 1
                      /\ req'[r].sent /\ r \in pool'[req'[r].peer]
                           => so'[req'[r].peer] = "attached"
    BY DEF Owned
  <2>1. CASE r = s
    BY <1>2, <1>3, <1>4, <2>1, NamesAssumption DEF Owned, p
  <2>2. CASE r # s
    BY <1>1, <1>2, <2>2 DEF Owned
  <2> QED
    BY <2>1, <2>2
<1>10. NeverForgotten'
  <2> SUFFICES ASSUME NEW r \in Reqs, req'[r].sent
               PROVE  \/ req'[r].cbs = 1
                      \/ r \in pool'[req'[r].peer] /\ req'[r].peer \in proxy'.peers
                      \/ inside'[req'[r].peer] = Event("CALLBACK", r)
    BY DEF NeverForgotten, Event
  <2>1. CASE r = s
    BY <1>2, <1>3, <1>4, <1>7, <2>1 DEF Membership, Members
  <2>2. CASE r # s
    BY <1>1, <1>2, <2>2 DEF NeverForgotten
  <2> QED
    BY <2>1, <2>2
<1>11. Answers'
  <2>1. \A r \in Reqs : req[r].sent => req'[r] = req[r]
    BY <1>1, <1>3
  <2> QED
    BY <1>2, <2>1 DEF Answers, Response
<1> QED
  BY <1>5, <1>8, <1>9, <1>10, <1>11

\* request(), after a send that failed: taken out of m_requested, or gone.
LEMMA RequestersErase ==
  ASSUME Membership, Delivery, Requesters, NEW s \in Reqs, RequestErase(s)
  PROVE  Requesters'
<1> USE DEF Requesters
<1> DEFINE p == req[s].peer
<1>1. /\ \A r \in Reqs : r # s => req'[r] = req[r]
      /\ req'[s] = [req[s] EXCEPT !.at = IF s \in pool[p] THEN "error" ELSE "thrown"]
  BY DEF RequestTypes, RequestErase
<1>2. /\ inside' = inside /\ pkts' = pkts /\ so' = so /\ acc' = acc /\ proxy' = proxy
      /\ pool' = [pool EXCEPT ![p] = @ \ {s}] /\ req[s].at = "refused"
  BY DEF RequestErase
<1>3. req[s] \in Requests /\ p \in Peers /\ ~req[s].sent
  BY <1>2 DEF Owned, RequestTypes, Requests
<1>4. /\ req'[s] \in Requests /\ req'[s].peer = p /\ ~req'[s].sent /\ req'[s].cbs = req[s].cbs
      /\ req'[s].at = IF s \in pool[p] THEN "error" ELSE "thrown"
  BY <1>1, <1>3 DEF Requests
<1>5. RequestTypes'
  <2>1. \A r \in Reqs : req'[r] \in Requests
    BY <1>1, <1>4 DEF RequestTypes
  <2>2. req' \in [Reqs -> Requests]
    BY <2>1 DEF RequestErase, RequestTypes
  <2>3. pool' \in [Peers -> SUBSET Reqs]
    BY <1>2 DEF RequestTypes
  <2> QED
    BY <2>2, <2>3 DEF RequestTypes
<1>6. \A q \in Peers : pool'[q] = IF q = p THEN pool[q] \ {s} ELSE pool[q]
  BY <1>2 DEF RequestTypes
<1> HIDE DEF p
<1>7. ~(Listed(s))' /\ \A r \in Reqs : r # s => (Listed(r))' = Listed(r)
  <2>1. \A q \in Peers : s \notin pool'[q]
    BY <1>3, <1>6 DEF Owned, p
  <2> QED
    BY <1>6, <2>1 DEF Listed
<1>8. \A r : (BeingCalled(r))' = BeingCalled(r)
  BY <1>2 DEF BeingCalled, Event
<1>9. s \in pool[p] => req[s].cbs = 0 /\ ~BeingCalled(s)
  BY <1>3 DEF Once, Listed
<1>10. Once'
  <2> SUFFICES ASSUME NEW r \in Reqs
               PROVE  /\ req'[r].cbs \in {0, 1}
                      /\ (Listed(r))' => req'[r].cbs = 0 /\ ~(BeingCalled(r))'
                      /\ (BeingCalled(r))' => req'[r].cbs = 0
                      /\ req'[r].at = "error" => /\ req'[r].cbs = 0 /\ ~(Listed(r))'
                                                 /\ ~(BeingCalled(r))'
    BY DEF Once
  <2>1. CASE r = s
    BY <1>4, <1>7, <1>8, <1>9, <2>1 DEF Once
  <2>2. CASE r # s
    BY <1>1, <1>7, <1>8, <2>2 DEF Once
  <2> QED
    BY <2>1, <2>2
<1>11. Owned'
  <2> SUFFICES ASSUME NEW r \in Reqs
               PROVE  /\ \A q \in Peers : r \in pool'[q] => q = req'[r].peer
                      /\ req'[r].at = "idle" <=> req'[r].peer = Nobody
                      /\ req'[r].at = "idle" => req'[r].cbs = 0
                      /\ req'[r].at # "idle" => acc'[req'[r].peer] = "done"
                      /\ req'[r].sent => req'[r].at = "returned"
                      /\ req'[r].at = "pushed" => r \in pool'[req'[r].peer] \/ req'[r].cbs = 1
                      /\ req'[r].sent /\ r \in pool'[req'[r].peer]
                           => so'[req'[r].peer] = "attached"
    BY DEF Owned
  <2>1. CASE r = s
    BY <1>2, <1>3, <1>4, <1>7, <2>1, NamesAssumption DEF Listed, Owned, p
  <2>2. CASE r # s
    BY <1>1, <1>2, <1>6, <2>2 DEF Owned, RequestTypes, Requests
  <2> QED
    BY <2>1, <2>2
<1>12. NeverForgotten'
  <2> SUFFICES ASSUME NEW r \in Reqs, req'[r].sent
               PROVE  \/ req'[r].cbs = 1
                      \/ r \in pool'[req'[r].peer] /\ req'[r].peer \in proxy'.peers
                      \/ inside'[req'[r].peer] = Event("CALLBACK", r)
    BY DEF NeverForgotten, Event
  <2>1. r # s /\ req'[r] = req[r] /\ req[r].peer \in Peers
    BY <1>1, <1>4 DEF Owned, RequestTypes, Requests
  <2> QED
    BY <1>2, <1>6, <2>1 DEF NeverForgotten
<1>13. Answers'
  <2>1. \A r \in Reqs : req[r].sent => req'[r] = req[r]
    BY <1>1, <1>3
  <2> QED
    BY <1>2, <2>1 DEF Answers, Response
<1> QED
  BY <1>5, <1>10, <1>11, <1>12, <1>13

\* Responses stay sound when the requests they answer keep their peers.
LEMMA AnswersKept ==
  ASSUME \A r \in Reqs : req[r].sent => req'[r].sent /\ req'[r].peer = req[r].peer,
         \A q \in Peers : Response(q, inside'[q]),
         \A q \in Peers : \A i \in 1..Len(pkts'[q]) : Response(q, pkts'[q][i])
  PROVE  Answers'
<1> SUFFICES ASSUME NEW q \in Peers, NEW e, Response(q, e)
             PROVE  e.ev \in {"RESPONSE", "CALLBACK"} => /\ e.arg \in Reqs /\ req'[e.arg].sent
                                                         /\ req'[e.arg].peer = q
  BY DEF Answers, Response
<1> QED
  BY DEF Response

\* _handle_resp_message: the request moves from m_requested to its callback.
LEMMA RequestersResponse ==
  ASSUME Membership, Delivery, Requesters, NEW p \in Peers, OnResponse(p)
  PROVE  Requesters'
<1> USE DEF Requesters
<1>0. PICK s : s = inside[p].arg
  OBVIOUS
<1>1. /\ req' = req /\ pkts' = pkts /\ so' = so /\ acc' = acc /\ proxy' = proxy
      /\ pool' = [pool EXCEPT ![p] = @ \ {s}]
      /\ inside' = [inside EXCEPT ![p] = IF s \in pool[p] THEN Event("CALLBACK", s) ELSE Quiet]
      /\ inside[p].ev = "RESPONSE"
  BY <1>0 DEF OnResponse
<1>2. s \in Reqs /\ req[s].sent /\ req[s].peer = p
  BY <1>0, <1>1 DEF Answers, Response
<1>3. \A q \in Peers : pool'[q] = IF q = p THEN pool[q] \ {s} ELSE pool[q]
  BY <1>1 DEF RequestTypes
<1>4. \A q \in Peers : inside'[q] = IF q # p THEN inside[q]
                                    ELSE IF s \in pool[p] THEN Event("CALLBACK", s) ELSE Quiet
  BY <1>1 DEF Delivery, EventTypes
<1>5. RequestTypes'
  BY <1>1 DEF RequestTypes
<1>6. ~(Listed(s))' /\ \A r \in Reqs : r # s => ((Listed(r))' <=> Listed(r))
  <2>1. \A q \in Peers : s \notin pool'[q]
    <3>1. \A q \in Peers : s \in pool[q] => q = p
      BY <1>2 DEF Owned
    <3> QED
      BY <1>3, <3>1
  <2>2. \A r \in Reqs, q \in Peers : r # s => (r \in pool'[q] <=> r \in pool[q])
    BY <1>3
  <2> QED
    BY <2>1, <2>2 DEF Listed
<1>7. \A q \in Peers : \A r : inside'[q] = Event("CALLBACK", r)
                            <=> \/ inside[q] = Event("CALLBACK", r)
                                \/ q = p /\ r = s /\ s \in pool[p]
  <2>1. \A r : inside[p] # Event("CALLBACK", r) /\ Quiet # Event("CALLBACK", r)
    BY <1>1 DEF Event, Quiet
  <2>2. \A r : Event("CALLBACK", s) = Event("CALLBACK", r) <=> r = s
    BY DEF Event
  <2> QED
    BY <1>4, <2>1, <2>2
<1>8. \A r \in Reqs : (BeingCalled(r))' <=> BeingCalled(r) \/ (r = s /\ s \in pool[p])
  <2> SUFFICES ASSUME NEW r \in Reqs
               PROVE  (\E q \in Peers : inside'[q] = Event("CALLBACK", r))
                        <=> (\E q \in Peers : inside[q] = Event("CALLBACK", r))
                            \/ (r = s /\ s \in pool[p])
    BY DEF BeingCalled, Event
  <2> QED
    BY <1>7
<1>9. s \in pool[p] => Listed(s) /\ req[s].cbs = 0
  BY <1>2 DEF Listed, Once
<1>10. Once'
  <2> SUFFICES ASSUME NEW r \in Reqs
               PROVE  /\ req'[r].cbs \in {0, 1}
                      /\ (Listed(r))' => req'[r].cbs = 0 /\ ~(BeingCalled(r))'
                      /\ (BeingCalled(r))' => req'[r].cbs = 0
                      /\ req'[r].at = "error" => /\ req'[r].cbs = 0 /\ ~(Listed(r))'
                                                 /\ ~(BeingCalled(r))'
    BY DEF Once
  <2>1. CASE r = s
    <3>1. req[r].at # "error"
      BY <1>2, <2>1 DEF Owned
    <3> QED
      BY <1>1, <1>6, <1>8, <1>9, <2>1, <3>1 DEF Once
  <2>2. CASE r # s
    BY <1>1, <1>6, <1>8, <2>2 DEF Once
  <2> QED
    BY <2>1, <2>2
<1>11. Owned'
  <2> SUFFICES ASSUME NEW r \in Reqs
               PROVE  /\ \A q \in Peers : r \in pool'[q] => q = req'[r].peer
                      /\ req'[r].at = "idle" <=> req'[r].peer = Nobody
                      /\ req'[r].at = "idle" => req'[r].cbs = 0
                      /\ req'[r].at # "idle" => acc'[req'[r].peer] = "done"
                      /\ req'[r].sent => req'[r].at = "returned"
                      /\ req'[r].at = "pushed" => r \in pool'[req'[r].peer] \/ req'[r].cbs = 1
                      /\ req'[r].sent /\ r \in pool'[req'[r].peer]
                           => so'[req'[r].peer] = "attached"
    BY DEF Owned
  <2>1. req[r].at # "idle" => req[r].peer \in Peers
    BY DEF Owned, RequestTypes, Requests
  <2>2. CASE r = s
    BY <1>1, <1>2, <1>3, <2>2 DEF Owned
  <2>3. CASE r # s
    <3>1. \A q \in Peers : r \in pool'[q] <=> r \in pool[q]
      BY <1>3, <2>3
    <3> QED
      BY <1>1, <2>1, <3>1 DEF Owned
  <2> QED
    BY <2>2, <2>3
<1>12. NeverForgotten'
  <2> SUFFICES ASSUME NEW r \in Reqs, req'[r].sent
               PROVE  \/ req'[r].cbs = 1
                      \/ r \in pool'[req'[r].peer] /\ req'[r].peer \in proxy'.peers
                      \/ inside'[req'[r].peer] = Event("CALLBACK", r)
    BY DEF NeverForgotten, Event
  <2>1. req[r].peer \in Peers
    BY <1>1 DEF Owned, RequestTypes, Requests
  <2>2. CASE r = s
    BY <1>1, <1>2, <1>7, <2>1, <2>2 DEF NeverForgotten
  <2>3. CASE r # s
    BY <1>1, <1>3, <1>7, <2>1, <2>3 DEF NeverForgotten
  <2> QED
    BY <2>2, <2>3
<1>13. Answers'
  <2>1. \A q \in Peers : Response(q, inside'[q])
    <3>1. Response(p, Event("CALLBACK", s)) /\ Response(p, Quiet)
      BY <1>2 DEF Response, Event, Quiet
    <3> QED
      BY <1>4, <3>1 DEF Answers
  <2> QED
    BY <1>1, <2>1, AnswersKept DEF Answers
<1> QED
  BY <1>5, <1>10, <1>11, <1>12, <1>13

\* cb_respond: the callback of the response.
LEMMA RequestersRespond ==
  ASSUME Membership, Delivery, Requesters, NEW p \in Peers, OnRespond(p)
  PROVE  Requesters'
<1> USE DEF Requesters
<1>0. PICK s : s = inside[p].arg
  OBVIOUS
<1>1. /\ pool' = pool /\ pkts' = pkts /\ so' = so /\ acc' = acc /\ proxy' = proxy /\ req' = Called({s})
      /\ inside' = [inside EXCEPT ![p] = Quiet] /\ inside[p].ev = "CALLBACK"
  BY <1>0 DEF OnRespond
<1>2. s \in Reqs /\ req[s].sent /\ req[s].peer = p /\ inside[p] = Event("CALLBACK", s)
  BY <1>0, <1>1 DEF Answers, Response, Delivery, EventTypes, Deliveries, Event
<1>3. \A q \in Peers : inside'[q] = IF q = p THEN Quiet ELSE inside[q]
  BY <1>1 DEF Delivery, EventTypes
<1>4. BeingCalled(s) /\ req[s].cbs = 0 /\ ~Listed(s)
  BY <1>2 DEF BeingCalled, Once
<1>5. /\ \A r \in Reqs : r # s => req'[r] = req[r]
      /\ req'[s] \in Requests /\ req'[s].peer = p /\ req'[s].sent
      /\ req'[s].at = req[s].at /\ req'[s].cbs = 1
  <2>1. /\ \A r \in Reqs : r # s => req'[r] = req[r]
        /\ req'[s] = [req[s] EXCEPT !.cbs = @ + 1]
    BY <1>1, <1>2 DEF Called
  <2>2. req[s] \in Requests
    BY <1>2 DEF RequestTypes
  <2>3. /\ req'[s] \in Requests /\ req'[s].peer = req[s].peer /\ req'[s].sent = req[s].sent
        /\ req'[s].at = req[s].at /\ req'[s].cbs = req[s].cbs + 1
    BY <2>1, <2>2 DEF Requests
  <2>4. req'[s].cbs = 1
    BY <1>4, <2>3
  <2> QED
    BY <1>2, <2>1, <2>3, <2>4
<1>6. RequestTypes'
  <2>1. req' \in [Reqs -> Requests]
    BY <1>1, <1>5 DEF Called, RequestTypes
  <2> QED
    BY <1>1, <2>1 DEF RequestTypes
<1>7. \A q \in Peers : \A r : inside'[q] = Event("CALLBACK", r)
                            <=> q # p /\ inside[q] = Event("CALLBACK", r)
  BY <1>3 DEF Event, Quiet
<1>8. \A q \in Peers : inside[q] = Event("CALLBACK", s) => q = p
  BY <1>2 DEF Answers, Response, Event
<1>9. ~(BeingCalled(s))' /\ \A r \in Reqs : r # s => ((BeingCalled(r))' <=> BeingCalled(r))
  <2>1. \A q \in Peers : inside'[q] # Event("CALLBACK", s)
    BY <1>7, <1>8
  <2>2. \A r : inside[p] = Event("CALLBACK", r) => r = s
    BY <1>2 DEF Event
  <2>3. \A r \in Reqs, q \in Peers : r # s => (inside'[q] = Event("CALLBACK", r)
                                       <=> inside[q] = Event("CALLBACK", r))
    BY <1>7, <2>2
  <2>4. ~(BeingCalled(s))'
    BY <2>1 DEF BeingCalled, Event
  <2>5. ASSUME NEW r \in Reqs, r # s PROVE (BeingCalled(r))' <=> BeingCalled(r)
    <3> SUFFICES (\E q \in Peers : inside'[q] = Event("CALLBACK", r))
                   <=> (\E q \in Peers : inside[q] = Event("CALLBACK", r))
      BY DEF BeingCalled, Event
    <3> QED
      BY <2>3, <2>5
  <2> QED
    BY <2>4, <2>5
<1>10. \A r : ((Listed(r))' <=> Listed(r))
  BY <1>1 DEF Listed
<1>11. Once'
  <2> SUFFICES ASSUME NEW r \in Reqs
               PROVE  /\ req'[r].cbs \in {0, 1}
                      /\ (Listed(r))' => req'[r].cbs = 0 /\ ~(BeingCalled(r))'
                      /\ (BeingCalled(r))' => req'[r].cbs = 0
                      /\ req'[r].at = "error" => /\ req'[r].cbs = 0 /\ ~(Listed(r))'
                                                 /\ ~(BeingCalled(r))'
    BY DEF Once
  <2>1. CASE r = s
    <3>1. req[r].at # "error"
      BY <1>2, <2>1 DEF Owned
    <3> QED
      BY <1>4, <1>5, <1>9, <1>10, <2>1, <3>1
  <2>2. CASE r # s
    BY <1>5, <1>9, <1>10, <2>2 DEF Once
  <2> QED
    BY <2>1, <2>2
<1>12. Owned'
  <2> SUFFICES ASSUME NEW r \in Reqs
               PROVE  /\ \A q \in Peers : r \in pool'[q] => q = req'[r].peer
                      /\ req'[r].at = "idle" <=> req'[r].peer = Nobody
                      /\ req'[r].at = "idle" => req'[r].cbs = 0
                      /\ req'[r].at # "idle" => acc'[req'[r].peer] = "done"
                      /\ req'[r].sent => req'[r].at = "returned"
                      /\ req'[r].at = "pushed" => r \in pool'[req'[r].peer] \/ req'[r].cbs = 1
                      /\ req'[r].sent /\ r \in pool'[req'[r].peer]
                           => so'[req'[r].peer] = "attached"
    BY DEF Owned
  <2>1. CASE r = s
    <3>1. /\ req'[r].peer = req[r].peer /\ req'[r].sent /\ req'[r].at = req[r].at
          /\ req'[r].cbs = 1 /\ pool' = pool /\ so' = so /\ acc' = acc
      BY <1>1, <1>2, <1>5, <2>1
    <3>2. req[r].at = "returned" /\ req[r].peer # Nobody
      BY <1>2, <2>1 DEF Owned
    <3> QED
      BY <1>2, <2>1, <3>1, <3>2 DEF Owned
  <2>2. CASE r # s
    <3>1. req'[r] = req[r] /\ pool' = pool /\ so' = so /\ acc' = acc
      BY <1>1, <1>5, <2>2
    <3> QED
      BY <3>1 DEF Owned
  <2> QED
    BY <2>1, <2>2
<1>13. NeverForgotten'
  <2> SUFFICES ASSUME NEW r \in Reqs, req'[r].sent
               PROVE  \/ req'[r].cbs = 1
                      \/ r \in pool'[req'[r].peer] /\ req'[r].peer \in proxy'.peers
                      \/ inside'[req'[r].peer] = Event("CALLBACK", r)
    BY DEF NeverForgotten, Event
  <2>1. CASE r = s
    BY <1>5, <2>1
  <2>2. CASE r # s
    <3>1. req'[r] = req[r] /\ req[r].peer \in Peers
      BY <1>5, <2>2 DEF Owned, RequestTypes, Requests
    <3>2. inside[p] # Event("CALLBACK", r)
      BY <1>2, <2>2 DEF Event
    <3> QED
      BY <1>1, <1>7, <3>1, <3>2 DEF NeverForgotten
  <2> QED
    BY <2>1, <2>2
<1>14. Answers'
  <2>1. \A r \in Reqs : req[r].sent => req'[r].sent /\ req'[r].peer = req[r].peer
    BY <1>2, <1>5
  <2>2. \A q \in Peers : Response(q, inside'[q]) /\ \A i \in 1..Len(pkts'[q]) : Response(q, pkts'[q][i])
    BY <1>1, <1>3 DEF Answers, Response, Quiet
  <2> QED
    BY <1>1, <2>1, <2>2, AnswersKept
<1> QED
  BY <1>6, <1>11, <1>12, <1>13, <1>14

\* A response is received for a request that was sent; nothing of the request
\* changes but the count of its responses.
LEMMA RequestersArrive ==
  ASSUME Membership, Delivery, Requesters, NEW s \in Reqs, ResponseArrives(s)
  PROVE  Requesters'
<1> USE DEF Requesters
<1> DEFINE p == req[s].peer
           e == Event("RESPONSE", s)
<1>1. /\ inside' = inside /\ so' = so /\ acc' = acc /\ proxy' = proxy /\ pool' = pool
      /\ req' = [req EXCEPT ![s].resps = @ + 1] /\ req[s].sent
      /\ pkts' = [pkts EXCEPT ![p] = Append(@, e)]
  BY DEF ResponseArrives
<1>2. req[s] \in Requests /\ p \in Peers
  BY <1>1 DEF Owned, RequestTypes, Requests
<1>3. \A r \in Reqs : /\ req'[r] \in Requests /\ req'[r].peer = req[r].peer
                      /\ req'[r].sent = req[r].sent /\ req'[r].at = req[r].at
                      /\ req'[r].cbs = req[r].cbs
  <2> SUFFICES ASSUME NEW r \in Reqs
               PROVE  /\ req'[r] \in Requests /\ req'[r].peer = req[r].peer
                      /\ req'[r].sent = req[r].sent /\ req'[r].at = req[r].at
                      /\ req'[r].cbs = req[r].cbs
    OBVIOUS
  <2>1. req \in [Reqs -> Requests] /\ req[r] \in Requests
    BY DEF RequestTypes
  <2>2. CASE r # s
    BY <1>1, <2>1, <2>2
  <2>3. CASE r = s
    <3>1. req'[r] = [req[r] EXCEPT !.resps = @ + 1]
      BY <1>1, <2>1, <2>3
    <3> QED
      BY <2>1, <3>1 DEF Requests
  <2> QED
    BY <2>2, <2>3
<1>4. RequestTypes'
  BY <1>1, <1>3 DEF RequestTypes
<1>5. \A r : ((Listed(r))' <=> Listed(r)) /\ ((BeingCalled(r))' <=> BeingCalled(r))
  BY <1>1 DEF Listed, BeingCalled, Event
<1>6. Once'
  BY <1>3, <1>5 DEF Once
<1>7. Owned'
  BY <1>1, <1>3 DEF Owned
<1>8. NeverForgotten'
  BY <1>1, <1>3 DEF NeverForgotten, Event
<1>9. Answers'
  <2>1. Response(p, e)
    BY <1>1 DEF Response, Event
  <2> HIDE DEF p, e
  <2>2. ASSUME NEW q \in Peers, NEW i \in 1..Len(pkts'[q])
        PROVE  Response(q, pkts'[q][i])
    <3>1. pkts[q] \in Seq(PacketEvents)
      BY DEF Delivery, EventTypes
    <3>2. CASE q = p
      <4>1. pkts'[q] = Append(pkts[q], e)
        BY <1>1, <1>2, <3>2 DEF Delivery, EventTypes
      <4>2. CASE i = Len(pkts[q]) + 1
        BY <2>1, <3>1, <3>2, <4>1, <4>2
      <4>3. CASE i # Len(pkts[q]) + 1
        <5>1. i \in 1..Len(pkts[q]) /\ pkts'[q][i] = pkts[q][i]
          BY <3>1, <4>1, <4>3
        <5> QED
          BY <5>1 DEF Answers
      <4> QED
        BY <4>2, <4>3
    <3>3. CASE q # p
      <4>1. pkts'[q] = pkts[q]
        BY <1>1, <3>3 DEF Delivery, EventTypes
      <4> QED
        BY <4>1 DEF Answers
    <3> QED
      BY <3>2, <3>3
  <2> QED
    BY <1>1, <1>3, <2>2, AnswersKept DEF Answers
<1> QED
  BY <1>4, <1>6, <1>7, <1>8, <1>9

---------------------------------------------------------------------------
(* The proxy's peers, the events and the listeners.                        *)

\* A step that leaves the proxy and the attachments alone.
LEMMA MembershipKept ==
  ASSUME Membership, UNCHANGED <<proxy, ticker, remover, so, acc>>,
         open' \in [Peers -> {"no", "open", "closed"}],
         failed' \in {failed, "ros.hpp:177", "peer_proxy.hpp:326"}
  PROVE  Membership'
BY DEF Membership, ProxyTypes, Members, MembersAttached

\* The operations of the proxy are about peers.
LEMMA OpPeers ==
  ASSUME ProxyTypes
  PROVE  /\ proxy.ops \in Seq(ProxyOps)
         /\ \A i \in 1..Len(proxy.ops) : /\ proxy.ops[i].peer \in Peers
                                         /\ proxy.ops[i].code \in {"CLOSE", "WR_BLOCK", "WR_UNBLOCK"}
<1>1. proxy.ops \in Seq(ProxyOps)
  BY DEF ProxyTypes
<1>2. \A i \in 1..Len(proxy.ops) : proxy.ops[i] \in ProxyOps
  BY <1>1
<1> QED
  BY <1>1, <1>2 DEF ProxyOps

\* Something may happen to a peer when it has a socket and was accepted, or the
\* proxy is being stopped.
Touchable(p) == so[p] # "none" /\ (acc[p] = "done" \/ proxy.st # "RUN")

\* A step in which events come and go only at such peers.
LEMMA DeliveryKept ==
  ASSUME Delivery, EventTypes',
         proxy'.st = "RUN" => proxy.st = "RUN",
         \A q \in Peers : /\ so'[q] = "none" => so[q] = "none"
                          /\ acc[q] = "done" => acc'[q] = "done"
                          /\ \/ oev'[q] = oev[q] /\ pkts'[q] = pkts[q] /\ inside'[q] = inside[q]
                             \/ Touchable(q)
  PROVE  Delivery'
<1> SUFFICES ASSUME NEW q \in Peers, so'[q] = "none" \/ (acc'[q] # "done" /\ proxy'.st = "RUN")
             PROVE  oev'[q] = <<>> /\ pkts'[q] = <<>> /\ inside'[q] = Quiet
  BY DEF Delivery, Untouched, Quiet
<1> QED
  BY DEF Delivery, Untouched, Touchable

\* A peer to which something is under way.
LEMMA Busy ==
  ASSUME Delivery, NEW p \in Peers, oev[p] # <<>> \/ pkts[p] # <<>> \/ inside[p] # Quiet
  PROVE  Touchable(p)
BY DEF Delivery, Untouched, Touchable

\* A socket that was accepted is one the proxy was given.
LEMMA Accepted ==
  ASSUME Membership, NEW p \in Peers, acc[p] = "done"
  PROVE  Touchable(p)
BY DEF Membership, Members, ProxyTypes, Touchable

\* close adds at most one ordered event of this socket.
LEMMA TellCloseFacts ==
  ASSUME EventTypes, NEW p \in Peers
  PROVE  /\ TellClose(oev, p) \in [Peers -> Seq(OrderedEvents)]
         /\ \A q \in Peers : q # p => TellClose(oev, p)[q] = oev[q]
<1>1. oev \in [Peers -> Seq(OrderedEvents)] /\ "CLOSE" \in OrderedEvents
  BY DEF EventTypes, OrderedEvents
<1> HIDE DEF OrderedEvents
<1>2. Append(oev[p], "CLOSE") \in Seq(OrderedEvents)
  BY <1>1
<1> QED
  BY <1>1, <1>2 DEF TellClose

\* close leaves the socket closed.
LEMMA ClosedFacts ==
  ASSUME ProxyTypes, NEW p \in Peers
  PROVE  Closed(p) \in [Peers -> {"no", "open", "closed"}]
BY DEF ProxyTypes, Closed

\* A step in which the node hears nothing and does not begin to listen.
LEMMA HearingKept ==
  ASSUME Hearing, told' = told,
         proxy'.st = "RUN" => proxy.st = "RUN",
         slis' \in [Peers -> Dispatchers({"peer"})],
         plis' \in [Peers -> Dispatchers({"node", "proxy"})],
         \A q \in Peers : /\ so'[q] = "none" => so[q] = "none"
                          /\ Listens(plis'[q], "node") => \/ Listens(plis[q], "node")
                                                          \/ so[q] = "none"
  PROVE  Hearing'
<1>1. HearingTypes'
  BY DEF Hearing, HearingTypes
<1>2. Deaf'
  <2> SUFFICES ASSUME NEW q \in Peers, told[q].closes > 0
               PROVE  so'[q] # "none" /\ ~Listens(plis'[q], "node")
    BY DEF Deaf, Listens
  <2> QED
    BY DEF Hearing, Deaf
<1>3. ToldInOrder'
  BY DEF Hearing, ToldInOrder
<1> QED
  BY <1>1, <1>2, <1>3 DEF Hearing

\* The listeners of a peer's dispatcher: who listens after each operation.
LEMMA PeerListeners ==
  ASSUME HearingTypes, NEW p \in Peers
  PROVE  LET D == Dispatchers({"node", "proxy"})
         IN /\ plis[p] \in D /\ Unregister(plis[p], "proxy") \in D /\ Processed(plis[p]) \in D
            /\ Listens(Unregister(plis[p], "proxy"), "node") <=> Listens(plis[p], "node")
            /\ Listens(Processed(plis[p]), "node") <=> Listens(plis[p], "node")
            /\ "node" \in Processed(plis[p]).in <=> Listens(plis[p], "node")
            /\ Unregister(Processed(plis[p]), "node") \in D
            /\ ~Listens(Unregister(Processed(plis[p]), "node"), "node")
<1> DEFINE S == {"node", "proxy"}
<1>1. S \in SUBSET Names /\ "node" \in S /\ "proxy" \in S /\ "node" \in Names
  BY DEF Names
<1>2. plis[p] \in Dispatchers(S)
  BY DEF HearingTypes
<1> HIDE DEF S
<1>3. Processed(plis[p]) \in Dispatchers(S)
  BY <1>1, <1>2, ProcessedFacts
<1> QED
  BY <1>1, <1>2, <1>3, ProcessedFacts, UnregisterFacts DEF S

\* The listeners of a socket's dispatcher.
LEMMA SocketListeners ==
  ASSUME HearingTypes, NEW p \in Peers
  PROVE  LET D == Dispatchers({"peer"})
         IN /\ slis[p] \in D /\ Register(slis[p], "peer") \in D
            /\ Unregister(slis[p], "peer") \in D /\ Processed(slis[p]) \in D
<1> DEFINE S == {"peer"}
<1>1. S \in SUBSET Names /\ "peer" \in S
  BY DEF Names
<1>2. slis[p] \in Dispatchers(S)
  BY DEF HearingTypes
<1> HIDE DEF S
<1> QED
  BY <1>1, <1>2, ProcessedFacts, UnregisterFacts, RegisterFacts DEF S

\* A telling of the node: it hears it when it listens, which it does not after
\* the close, and it leaves on the close.
LEMMA HearingTold ==
  ASSUME Membership, Hearing, NEW p \in Peers, NEW ev, Touchable(p),
         plis' = [plis EXCEPT ![p] = NodeLeaves(Processed(plis[p]), ev)],
         told' = [told EXCEPT ![p] = Hear(p, Processed(plis[p]), ev)],
         UNCHANGED <<proxy, so, acc>>,
         slis' = slis
  PROVE  Hearing'
<1> DEFINE d == Processed(plis[p])
<1>1. /\ d \in Dispatchers({"node", "proxy"})
      /\ Listens(d, "node") <=> Listens(plis[p], "node")
      /\ "node" \in d.in <=> Listens(plis[p], "node")
      /\ Unregister(d, "node") \in Dispatchers({"node", "proxy"})
      /\ ~Listens(Unregister(d, "node"), "node")
  BY PeerListeners DEF Hearing
<1> HIDE DEF d
<1>2. /\ plis'[p] = NodeLeaves(d, ev) /\ told'[p] = Hear(p, d, ev)
      /\ \A q \in Peers : q # p => plis'[q] = plis[q] /\ told'[q] = told[q]
  BY DEF Hearing, HearingTypes, d
<1>3. told[p] \in Histories /\ told[p].closes \in {0, 1} /\ ~told[p].late
  <2>1. told[p] \in Histories
    BY DEF Hearing, HearingTypes
  <2>2. told[p].closes =< 1 /\ ~told[p].late
    BY DEF Hearing, ToldInOrder
  <2>3. told[p].closes \in Nat
    BY <2>1 DEF Histories
  <2> QED
    BY <2>1, <2>2, <2>3
<1>4. NodeLeaves(d, ev) \in Dispatchers({"node", "proxy"})
  BY <1>1 DEF NodeLeaves
<1>5. /\ Hear(p, d, ev) \in Histories
      /\ "node" \notin d.in => Hear(p, d, ev) = told[p]
      /\ "node" \in d.in => /\ Hear(p, d, ev).closes = told[p].closes + (IF ev = "CLOSE" THEN 1 ELSE 0)
                            /\ Hear(p, d, ev).late <=> told[p].late \/ told[p].closes > 0
                            /\ Hear(p, d, ev).early <=> told[p].early \/ acc[p] # "done"
  <2>1. CASE "node" \notin d.in
    BY <1>3, <2>1 DEF Hear
  <2>2. CASE "node" \in d.in
    <3> DEFINE late == told[p].late \/ told[p].closes > 0
               early == told[p].early \/ acc[p] # "done"
               msgs == IF ev = "MESSAGE" THEN told[p].msgs + 1 ELSE told[p].msgs
               closes == IF ev = "CLOSE" THEN told[p].closes + 1 ELSE told[p].closes
    <3>1. Hear(p, d, ev) = [msgs |-> msgs, closes |-> closes, late |-> late, early |-> early]
      BY <1>3, <2>2 DEF Hear, Histories
    <3>2. msgs \in Nat /\ closes \in Nat /\ late \in BOOLEAN /\ early \in BOOLEAN
      BY <1>3 DEF Histories
    <3>3. closes = told[p].closes + (IF ev = "CLOSE" THEN 1 ELSE 0)
      BY <1>3
    <3> HIDE DEF late, early, msgs, closes
    <3>4. /\ Hear(p, d, ev) \in Histories /\ Hear(p, d, ev).closes = closes
          /\ Hear(p, d, ev).late = late /\ Hear(p, d, ev).early = early
      BY <3>1, <3>2 DEF Histories
    <3> QED
      BY <2>2, <3>3, <3>4 DEF late, early
  <2> QED
    BY <2>1, <2>2
<1>6. "node" \in d.in => told[p].closes = 0
  BY <1>1, <1>3 DEF Hearing, Deaf
<1>7. HearingTypes'
  <2>1. plis' \in [Peers -> Dispatchers({"node", "proxy"})]
    BY <1>4 DEF Hearing, HearingTypes, d
  <2>2. told' \in [Peers -> Histories]
    BY <1>5 DEF Hearing, HearingTypes, d
  <2> QED
    BY <2>1, <2>2 DEF Hearing, HearingTypes
<1>8. Deaf'
  <2> SUFFICES ASSUME NEW q \in Peers, told'[q].closes > 0
               PROVE  so[q] # "none" /\ ~Listens(plis'[q], "node")
    BY DEF Deaf, Listens
  <2>1. CASE q # p
    BY <1>2, <2>1 DEF Hearing, Deaf
  <2>2. CASE q = p /\ "node" \in d.in
    BY <1>1, <1>2, <1>3, <1>5, <1>6, <2>2 DEF Touchable, NodeLeaves
  <2>3. CASE q = p /\ "node" \notin d.in
    BY <1>1, <1>2, <1>5, <2>3 DEF Touchable, NodeLeaves
  <2> QED
    BY <2>1, <2>2, <2>3
<1>9. ToldInOrder'
  <2> SUFFICES ASSUME NEW q \in Peers
               PROVE  /\ told'[q].closes =< 1 /\ ~told'[q].late
                      /\ told'[q].early => proxy.st # "RUN"
    BY DEF ToldInOrder
  <2>1. CASE q # p
    BY <1>2, <2>1 DEF Hearing, ToldInOrder
  <2>2. CASE q = p
    BY <1>2, <1>3, <1>5, <1>6, <2>2 DEF Hearing, ToldInOrder, Touchable
  <2> QED
    BY <2>1, <2>2
<1> QED
  BY <1>7, <1>8, <1>9 DEF Hearing

\* The next operation is about a peer that was accepted, and so are the others.
LEMMA HeadOp ==
  ASSUME Membership, proxy.ops # <<>>
  PROVE  /\ Head(proxy.ops).peer \in Peers
         /\ acc[Head(proxy.ops).peer] = "done" /\ so[Head(proxy.ops).peer] # "none"
         /\ Tail(proxy.ops) \in Seq(ProxyOps)
         /\ \A i \in 1..Len(Tail(proxy.ops)) : acc[Tail(proxy.ops)[i].peer] = "done"
<1>1. /\ proxy.ops \in Seq(ProxyOps)
      /\ \A i \in 1..Len(proxy.ops) : proxy.ops[i].peer \in Peers /\ acc[proxy.ops[i].peer] = "done"
  BY OpPeers DEF Membership, Members
<1>2. /\ 1 \in 1..Len(proxy.ops) /\ Head(proxy.ops) = proxy.ops[1]
      /\ Tail(proxy.ops) \in Seq(ProxyOps)
      /\ \A i \in 1..Len(Tail(proxy.ops)) : /\ Tail(proxy.ops)[i] = proxy.ops[i + 1]
                                           /\ i + 1 \in 1..Len(proxy.ops)
  BY <1>1
<1>3. Head(proxy.ops).peer \in Peers /\ acc[Head(proxy.ops).peer] = "done"
  BY <1>1, <1>2
<1>4. \A i \in 1..Len(Tail(proxy.ops)) : acc[Tail(proxy.ops)[i].peer] = "done"
  BY <1>1, <1>2
<1> QED
  BY <1>2, <1>3, <1>4 DEF Membership, Members

\* detach_socket: the attachment and the listener ...
LEMMA Detached ==
  ASSUME Inv, NEW p \in Peers, Detach(p)
  PROVE  /\ so' \in [Peers -> {"none", "attached", "gone"}]
         /\ so'[p] = IF so[p] = "attached" THEN "gone" ELSE so[p]
         /\ \A q \in Peers : q # p => so'[q] = so[q]
         /\ slis' \in [Peers -> Dispatchers({"peer"})]
<1>1. slis' \in [Peers -> Dispatchers({"peer"})]
  BY SocketListeners DEF Inv, Hearing, HearingTypes, Detach
<1> QED
  BY <1>1 DEF Inv, Membership, ProxyTypes, Detach

\* ... and every request of the peer.
LEMMA RequestersDetached ==
  ASSUME Inv, NEW p \in Peers, Detach(p), UNCHANGED <<inside, pkts, acc>>,
         \A q \in proxy.peers : q # p => q \in proxy'.peers
  PROVE  Requesters'
<1>1. \A q \in Peers : q # p => so'[q] = so[q]
  BY Detached
<1>2. req' = Called(pool[p]) /\ pool' = [pool EXCEPT ![p] = @ \ pool[p]]
  BY DEF Detach, Cancelled
<1>3. ProxyTypes /\ EventTypes /\ Requesters
  BY DEF Inv, Membership, Delivery
<1> QED
  BY <1>1, <1>2, <1>3, RequestersCalled

\* A step that changes the proxy: what it has to keep.
LEMMA MembershipStep ==
  ASSUME Membership, ProxyTypes', acc' = acc,
         \A q \in Peers : /\ so'[q] = "attached" => q \in proxy'.peers
                          /\ so'[q] = "none" => so[q] = "none" /\ q \notin proxy'.peers
                          /\ q \in proxy'.peers => so'[q] = "attached" \/ q \in {ticker', remover'},
         ticker' # Nobody => \/ proxy'.st = "RUN" /\ so'[ticker'] = "gone"
                             \/ proxy'.st = "DEINIT" /\ ticker' \in proxy'.peers /\ proxy'.ops = <<>>,
         remover' # Nobody => so'[remover'] = "gone" /\ proxy'.st = "RUN",
         \A q \in proxy'.blocked : acc[q] = "done",
         \A i \in 1..Len(proxy'.ops) : acc[proxy'.ops[i].peer] = "done"
  PROVE  Membership'
<1>1. Members'
  BY DEF Membership, Members
<1>2. MembersAttached'
  BY DEF ProxyTypes, MembersAttached
<1> QED
  BY <1>1, <1>2 DEF Membership

---------------------------------------------------------------------------
(* Every action preserves the invariant.                                   *)

\* The socket is closed: one ordered event.
LEMMA SocketClosesInv ==
  ASSUME Inv, NEW p \in Peers, SocketCloses(p)
  PROVE  Inv'
<1>1. Touchable(p)
  BY Accepted DEF Inv, SocketCloses
<1>2. Membership'
  BY MembershipKept, ClosedFacts DEF Inv, Membership, ProxyTypes, SocketCloses
<1>3. Delivery'
  <2>1. EventTypes'
    BY TellCloseFacts DEF Inv, Delivery, EventTypes, SocketCloses
  <2>2. \A q \in Peers : q # p => oev'[q] = oev[q] /\ pkts'[q] = pkts[q] /\ inside'[q] = inside[q]
    BY TellCloseFacts DEF Inv, Delivery, EventTypes, SocketCloses
  <2> QED
    BY <1>1, <2>1, <2>2, DeliveryKept DEF Inv, SocketCloses
<1>4. Hearing'
  BY HearingKept DEF Inv, Hearing, HearingTypes, SocketCloses
<1>5. Requesters'
  BY RequestersKept DEF Inv, Membership, Delivery, Requesters, Answers, SocketCloses
<1> QED
  BY <1>2, <1>3, <1>4, <1>5 DEF Inv

\* E_RD_SHUTDOWN, one ordered event.
LEMMA SocketShutsDownInv ==
  ASSUME Inv, NEW p \in Peers, SocketShutsDown(p)
  PROVE  Inv'
<1>1. Touchable(p)
  BY Accepted DEF Inv, SocketShutsDown
<1>2. Membership'
  BY MembershipKept DEF Inv, Membership, ProxyTypes, SocketShutsDown
<1>3. Delivery'
  <2>1. EventTypes'
    <3>1. oev[p] \in Seq(OrderedEvents) /\ "RD_SHUTDOWN" \in OrderedEvents
      BY DEF Inv, Delivery, EventTypes, OrderedEvents
    <3>2. Append(oev[p], "RD_SHUTDOWN") \in Seq(OrderedEvents)
      BY <3>1
    <3> QED
      BY <3>2 DEF Inv, Delivery, EventTypes, SocketShutsDown
  <2>2. \A q \in Peers : q # p => oev'[q] = oev[q] /\ pkts'[q] = pkts[q] /\ inside'[q] = inside[q]
    BY DEF Inv, Delivery, EventTypes, SocketShutsDown
  <2> QED
    BY <1>1, <2>1, <2>2, DeliveryKept DEF Inv, SocketShutsDown
<1>4. Hearing'
  BY HearingKept DEF Inv, Hearing, HearingTypes, SocketShutsDown
<1>5. Requesters'
  BY RequestersKept DEF Inv, Membership, Delivery, Requesters, Answers, SocketShutsDown
<1> QED
  BY <1>2, <1>3, <1>4, <1>5 DEF Inv

\* E_WR_BLOCK and E_WR_UNBLOCK, in turn.
LEMMA SocketBlocksInv ==
  ASSUME Inv, NEW p \in Peers, SocketBlocks(p)
  PROVE  Inv'
<1>1. Touchable(p)
  BY Accepted DEF Inv, SocketBlocks
<1>2. Membership'
  BY MembershipKept DEF Inv, Membership, ProxyTypes, SocketBlocks
<1>3. Delivery'
  <2>1. EventTypes'
    <3>1. oev[p] \in Seq(OrderedEvents) /\ (IF used[p].blocks % 2 = 0 THEN "WR_BLOCK" ELSE "WR_UNBLOCK")
             \in OrderedEvents
      BY DEF Inv, Delivery, EventTypes, OrderedEvents
    <3>2. Append(oev[p], (IF used[p].blocks % 2 = 0 THEN "WR_BLOCK" ELSE "WR_UNBLOCK")) \in Seq(OrderedEvents)
      BY <3>1
    <3> QED
      BY <3>2 DEF Inv, Delivery, EventTypes, SocketBlocks
  <2>2. \A q \in Peers : q # p => oev'[q] = oev[q] /\ pkts'[q] = pkts[q] /\ inside'[q] = inside[q]
    BY DEF Inv, Delivery, EventTypes, SocketBlocks
  <2> QED
    BY <1>1, <2>1, <2>2, DeliveryKept DEF Inv, SocketBlocks
<1>4. Hearing'
  BY HearingKept DEF Inv, Hearing, HearingTypes, SocketBlocks
<1>5. Requesters'
  BY RequestersKept DEF Inv, Membership, Delivery, Requesters, Answers, SocketBlocks
<1> QED
  BY <1>2, <1>3, <1>4, <1>5 DEF Inv

\* A packet that is no response.
LEMMA PacketArrivesInv ==
  ASSUME Inv, NEW p \in Peers, NEW kind \in {"REQUEST", "MALFORMED"}, PacketArrives(p, kind)
  PROVE  Inv'
<1>1. Touchable(p)
  BY Accepted DEF Inv, PacketArrives
<1>2. pkts[p] \in Seq(PacketEvents) /\ Event(kind, "none") \in PacketEvents
  BY DEF Inv, Delivery, EventTypes, PacketEvents, Event
<1>3. Append(pkts[p], Event(kind, "none")) \in Seq(PacketEvents)
  BY <1>2
<1>4. Membership'
  BY MembershipKept DEF Inv, Membership, ProxyTypes, PacketArrives
<1>5. Delivery'
  <2>1. EventTypes'
    BY <1>3 DEF Inv, Delivery, EventTypes, PacketArrives
  <2>2. \A q \in Peers : q # p => oev'[q] = oev[q] /\ pkts'[q] = pkts[q] /\ inside'[q] = inside[q]
    BY DEF Inv, Delivery, EventTypes, PacketArrives
  <2> QED
    BY <1>1, <2>1, <2>2, DeliveryKept DEF Inv, PacketArrives
<1>6. Hearing'
  BY HearingKept DEF Inv, Hearing, HearingTypes, PacketArrives
<1>7. Requesters'
  <2>1. Response(p, Event(kind, "none"))
    BY DEF Response, Event
  <2>2. ASSUME NEW q \in Peers, NEW i \in 1..Len(pkts'[q])
        PROVE  Response(q, pkts'[q][i])
    <3>1. CASE q = p
      <4>1. pkts'[p] = Append(pkts[p], Event(kind, "none"))
        BY DEF Inv, Delivery, EventTypes, PacketArrives
      <4>2. \/ i \in 1..Len(pkts[p]) /\ pkts'[p][i] = pkts[p][i]
            \/ pkts'[p][i] = Event(kind, "none")
        BY <1>2, <3>1, <4>1
      <4> QED
        BY <2>1, <3>1, <4>2 DEF Inv, Requesters, Answers
    <3>2. CASE q # p
      <4>1. pkts'[q] = pkts[q]
        BY <3>2 DEF Inv, Delivery, EventTypes, PacketArrives
      <4> QED
        BY <4>1 DEF Inv, Requesters, Answers
    <3> QED
      BY <3>1, <3>2
  <2> QED
    BY <2>2, RequestersKept DEF Inv, Membership, Delivery, PacketArrives
<1> QED
  BY <1>4, <1>5, <1>6, <1>7 DEF Inv

\* attach_socket and _add_peer; or the proxy has stopped.
LEMMA AddPeerInv ==
  ASSUME Inv, NEW p \in Peers, AddPeer(p)
  PROVE  Inv'
<1>1. /\ so[p] = "none" /\ p \notin proxy.peers
      /\ UNCHANGED <<ticker, remover, oev, pkts, inside, told, req, pool, failed>>
  BY DEF Inv, Membership, Members, AddPeer
<1>2. \/ /\ so' = [so EXCEPT ![p] = "attached"] /\ open' = [open EXCEPT ![p] = "open"]
         /\ slis' = [slis EXCEPT ![p] = Register(@, "peer")]
         /\ plis' = [plis EXCEPT ![p] = Register(Register(plis[p], "node"), "proxy")]
         /\ proxy' = [proxy EXCEPT !.peers = @ \cup {p}]
         /\ acc' = [acc EXCEPT ![p] = "scheduled"]
      \/ /\ open' = Closed(p) /\ UNCHANGED <<so, slis, proxy, acc>>
         /\ plis' = [plis EXCEPT ![p] = Unregister(Register(plis[p], "node"), "node")]
  BY DEF AddPeer
<1>3. acc[p] = "none"
  BY <1>1 DEF Inv, Membership, Members
<1>4. Membership'
  <2>1. ProxyTypes'
    <3>1. proxy' \in [st : {"RUN", "EXIT", "DEINIT", "STOPPED"}, ops : Seq(ProxyOps),
                      peers : SUBSET Peers, blocked : SUBSET Peers]
      BY <1>2 DEF Inv, Membership, ProxyTypes
    <3>2. open' \in [Peers -> {"no", "open", "closed"}]
      BY <1>2, ClosedFacts DEF Inv, Membership, ProxyTypes
    <3> QED
      BY <1>1, <1>2, <3>1, <3>2 DEF Inv, Membership, ProxyTypes
  <2>2. Members'
    <3>1. proxy'.st = proxy.st /\ proxy'.ops = proxy.ops /\ proxy'.blocked = proxy.blocked
      BY <1>2 DEF Inv, Membership, ProxyTypes
    <3>2. \A q \in Peers : q # p => /\ so'[q] = so[q] /\ acc'[q] = acc[q]
                                    /\ q \in proxy'.peers <=> q \in proxy.peers
      BY <1>2 DEF Inv, Membership, ProxyTypes
    <3>3. \/ so'[p] = "attached" /\ p \in proxy'.peers
          \/ so'[p] = "none" /\ p \notin proxy'.peers /\ acc'[p] = "none"
      BY <1>1, <1>2, <1>3 DEF Inv, Membership, ProxyTypes
    <3>4. \A q \in Peers : acc[q] = "done" => acc'[q] = "done"
      BY <1>3, <3>2
    <3>5. \A i \in 1..Len(proxy.ops) : proxy.ops[i].peer \in Peers
      BY OpPeers DEF Inv, Membership
    <3>6. ticker # Nobody => ticker # p /\ ticker \in Peers
      BY <1>1 DEF Inv, Membership, ProxyTypes, Members
    <3>7. remover # Nobody => remover # p /\ remover \in Peers
      BY <1>1 DEF Inv, Membership, ProxyTypes, Members
    <3>8. \A q \in proxy.blocked : q \in Peers
      BY DEF Inv, Membership, ProxyTypes
    <3> QED
      BY <1>1, <3>1, <3>2, <3>3, <3>4, <3>5, <3>6, <3>7, <3>8 DEF Inv, Membership, Members
  <2>3. MembersAttached'
    BY <1>1, <1>2 DEF Inv, Membership, ProxyTypes, MembersAttached
  <2> QED
    BY <2>1, <2>2, <2>3 DEF Membership
<1>5. Delivery'
  <2>1. EventTypes'
    BY <1>1 DEF Inv, Delivery, EventTypes
  <2>2. proxy'.st = proxy.st
    BY <1>2 DEF Inv, Membership, ProxyTypes
  <2>3. \A q \in Peers : /\ so'[q] = "none" => so[q] = "none"
                         /\ acc[q] = "done" => acc'[q] = "done"
    BY <1>2, <1>3 DEF Inv, Membership, ProxyTypes
  <2> QED
    BY <1>1, <2>1, <2>2, <2>3, DeliveryKept DEF Inv
<1>6. Hearing'
  <2> DEFINE D == Dispatchers({"node", "proxy"})
  <2>1. proxy'.st = proxy.st
    BY <1>2 DEF Inv, Membership, ProxyTypes
  <2>2. plis[p] \in D /\ Register(plis[p], "node") \in D
    BY PeerListeners, RegisterFacts DEF Inv, Hearing
  <2>3. /\ Register(Register(plis[p], "node"), "proxy") \in D
        /\ Unregister(Register(plis[p], "node"), "node") \in D
    BY <2>2, RegisterFacts, UnregisterFacts
  <2>4. plis' \in [Peers -> D]
    BY <1>2, <2>3 DEF Inv, Hearing, HearingTypes
  <2>5. slis' \in [Peers -> Dispatchers({"peer"})]
    BY <1>2, SocketListeners DEF Inv, Hearing, HearingTypes
  <2>6. \A q \in Peers : q # p => so'[q] = so[q] /\ plis'[q] = plis[q]
    BY <1>2 DEF Inv, Hearing, HearingTypes, Membership, ProxyTypes
  <2> HIDE DEF D
  <2> QED
    BY <1>1, <2>1, <2>4, <2>5, <2>6, HearingKept DEF Inv, D
<1>7. Requesters'
  <2>1. \A q \in Peers : so[q] = "attached" => /\ so'[q] = "attached"
                                               /\ q \in proxy.peers => q \in proxy'.peers
    BY <1>1, <1>2 DEF Inv, Membership, ProxyTypes
  <2>2. \A q \in Peers : \A i \in 1..Len(pkts'[q]) : Response(q, pkts'[q][i])
    BY <1>1 DEF Inv, Requesters, Answers
  <2>3. \A q \in Peers : acc[q] = "done" => acc'[q] = "done"
    BY <1>2, <1>3 DEF Inv, Membership, ProxyTypes
  <2>4. req' = req /\ pool' = pool /\ \A q \in Peers : inside'[q] = inside[q]
    BY <1>1
  <2>5. ProxyTypes /\ EventTypes /\ Requesters
    BY DEF Inv, Membership, Delivery
  <2> QED
    BY <2>1, <2>2, <2>3, <2>4, <2>5, RequestersKept
<1> QED
  BY <1>4, <1>5, <1>6, <1>7 DEF Inv

\* on_accepted.
LEMMA OnAcceptedInv ==
  ASSUME Inv, NEW p \in Peers, OnAccepted(p)
  PROVE  Inv'
<1>1. Membership'
  <2>1. acc[p] = "scheduled" /\ so[p] # "none"
    BY DEF Inv, Membership, Members, OnAccepted
  <2>2. \A q \in Peers : acc'[q] = IF q = p THEN "done" ELSE acc[q]
    BY DEF Inv, Membership, ProxyTypes, OnAccepted
  <2>3. ProxyTypes'
    BY DEF Inv, Membership, ProxyTypes, OnAccepted
  <2>4. Members'
    <3>1. UNCHANGED <<proxy, ticker, remover, so>>
      BY DEF OnAccepted
    <3>2. \A i \in 1..Len(proxy.ops) : proxy.ops[i].peer \in Peers
      BY OpPeers DEF Inv, Membership
    <3>3. \A q \in proxy.blocked : q \in Peers
      BY DEF Inv, Membership, ProxyTypes
    <3> QED
      BY <2>1, <2>2, <3>1, <3>2, <3>3 DEF Inv, Membership, Members
  <2>5. MembersAttached'
    BY DEF Inv, Membership, MembersAttached, OnAccepted
  <2> QED
    BY <2>3, <2>4, <2>5 DEF Membership
<1>2. Delivery'
  <2>1. EventTypes'
    BY DEF Inv, Delivery, EventTypes, OnAccepted
  <2> QED
    BY <2>1, DeliveryKept DEF Inv, Membership, ProxyTypes, OnAccepted
<1>3. Hearing'
  BY HearingKept DEF Inv, Hearing, HearingTypes, OnAccepted
<1>4. Requesters'
  BY RequestersKept DEF Inv, Membership, Delivery, Requesters, Answers, OnAccepted
<1> QED
  BY <1>1, <1>2, <1>3, <1>4 DEF Inv

\* request() lists the request.
LEMMA RequestPushInv ==
  ASSUME Inv, NEW p \in Peers, NEW r \in Reqs, RequestPush(r, p)
  PROVE  Inv'
<1>1. Membership'
  BY MembershipKept DEF Inv, Membership, ProxyTypes, RequestPush
<1>2. Delivery'
  BY DeliveryKept DEF Inv, Delivery, EventTypes, RequestPush
<1>3. Hearing'
  BY HearingKept DEF Inv, Hearing, HearingTypes, RequestPush
<1>4. Requesters'
  BY RequestersPush DEF Inv
<1> QED
  BY <1>1, <1>2, <1>3, <1>4 DEF Inv

\* do_send_message.
LEMMA RequestSendInv ==
  ASSUME Inv, NEW r \in Reqs, NEW ok \in BOOLEAN, RequestSend(r, ok)
  PROVE  Inv'
<1>1. Membership'
  BY MembershipKept DEF Inv, Membership, ProxyTypes, RequestSend
<1>2. Delivery'
  BY DeliveryKept DEF Inv, Delivery, EventTypes, RequestSend
<1>3. Hearing'
  BY HearingKept DEF Inv, Hearing, HearingTypes, RequestSend
<1>4. Requesters'
  BY RequestersSend DEF Inv
<1> QED
  BY <1>1, <1>2, <1>3, <1>4 DEF Inv

\* request() takes back what could not be sent.
LEMMA RequestEraseInv ==
  ASSUME Inv, NEW r \in Reqs, RequestErase(r)
  PROVE  Inv'
<1>1. Membership'
  BY MembershipKept DEF Inv, Membership, ProxyTypes, RequestErase
<1>2. Delivery'
  BY DeliveryKept DEF Inv, Delivery, EventTypes, RequestErase
<1>3. Hearing'
  BY HearingKept DEF Inv, Hearing, HearingTypes, RequestErase
<1>4. Requesters'
  BY RequestersErase DEF Inv
<1> QED
  BY <1>1, <1>2, <1>3, <1>4 DEF Inv

\* _check_requested_message.
LEMMA TimeoutInv ==
  ASSUME Inv, NEW p \in Peers, NEW rs \in SUBSET Reqs, Timeout(p, rs)
  PROVE  Inv'
<1>1. Membership'
  BY MembershipKept DEF Inv, Membership, ProxyTypes, Timeout
<1>2. Delivery'
  BY DeliveryKept DEF Inv, Delivery, EventTypes, Timeout
<1>3. Hearing'
  BY HearingKept DEF Inv, Hearing, HearingTypes, Timeout
<1>4. Requesters'
  <2>1. UNCHANGED <<so, acc, proxy, inside, pkts>> /\ rs \in SUBSET pool[p]
    BY DEF Timeout
  <2>2. req' = Called(rs) /\ pool' = [pool EXCEPT ![p] = @ \ rs]
    BY DEF Timeout
  <2> QED
    BY <2>1, <2>2, RequestersCalled DEF Inv, Membership, Delivery
<1> QED
  BY <1>1, <1>2, <1>3, <1>4 DEF Inv

\* A response comes in.
LEMMA ResponseArrivesInv ==
  ASSUME Inv, NEW r \in Reqs, ResponseArrives(r)
  PROVE  Inv'
<1>1. PICK p : p = req[r].peer
  OBVIOUS
<1>2. /\ p \in Peers /\ req[r].sent /\ pkts' = [pkts EXCEPT ![p] = Append(@, Event("RESPONSE", r))]
      /\ UNCHANGED <<so, acc, proxy, oev, inside>>
  BY <1>1 DEF Inv, Requesters, Owned, RequestTypes, Requests, ResponseArrives
<1>3. Touchable(p)
  BY <1>1, <1>2, Accepted DEF Inv, Requesters, Owned
<1>4. Membership'
  BY MembershipKept DEF Inv, Membership, ProxyTypes, ResponseArrives
<1>5. Delivery'
  <2>1. Append(pkts[p], Event("RESPONSE", r)) \in Seq(PacketEvents)
    <3>1. pkts[p] \in Seq(PacketEvents) /\ Event("RESPONSE", r) \in PacketEvents
      BY <1>2 DEF Inv, Delivery, EventTypes, PacketEvents, Event
    <3> QED
      BY <3>1
  <2>2. EventTypes'
    BY <1>2, <2>1 DEF Inv, Delivery, EventTypes
  <2>3. \A q \in Peers : q # p => pkts'[q] = pkts[q]
    BY <1>2 DEF Inv, Delivery, EventTypes
  <2> QED
    BY <1>2, <1>3, <2>2, <2>3, DeliveryKept DEF Inv
<1>6. Hearing'
  BY HearingKept DEF Inv, Hearing, HearingTypes, ResponseArrives
<1>7. Requesters'
  BY RequestersArrive DEF Inv
<1> QED
  BY <1>4, <1>5, <1>6, <1>7 DEF Inv

\* trigger of the socket's dispatcher, for an ordered event.
LEMMA SocketTriggerInv ==
  ASSUME Inv, NEW p \in Peers, SocketTrigger(p)
  PROVE  Inv'
<1>1. Touchable(p)
  BY Busy DEF Inv, SocketTrigger
<1>2. /\ inside[p] = Quiet /\ oev[p] # <<>> /\ oev[p] \in Seq(OrderedEvents)
      /\ slis' = [slis EXCEPT ![p] = Processed(slis[p])]
      /\ inside'[p] = Quiet \/ inside'[p] = Event(Head(oev[p]), "peer")
      /\ \A q \in Peers : q # p => inside'[q] = inside[q]
  BY DEF Inv, Delivery, EventTypes, SocketTrigger
<1>3. Head(oev[p]) \in OrderedEvents /\ Tail(oev[p]) \in Seq(OrderedEvents)
  BY <1>2
<1>4. Membership'
  BY MembershipKept DEF Inv, Membership, ProxyTypes, SocketTrigger
<1>5. Delivery'
  <2>1. EventTypes'
    <3>1. inside' \in [Peers -> Deliveries]
      <4>1. Quiet \in Deliveries /\ Event(Head(oev[p]), "peer") \in Deliveries
        BY <1>3 DEF Quiet, Event, Deliveries
      <4> QED
        BY <4>1 DEF Inv, Delivery, EventTypes, SocketTrigger
    <3>2. inside'[p].arg # "proxy"
      BY <1>2 DEF Quiet, Event
    <3>3. oev' \in [Peers -> Seq(OrderedEvents)]
      BY <1>3 DEF Inv, Delivery, EventTypes, SocketTrigger
    <3>4. pkts' = pkts
      BY DEF SocketTrigger
    <3> QED
      BY <1>2, <3>1, <3>2, <3>3, <3>4 DEF Inv, Delivery, EventTypes
  <2>2. \A q \in Peers : q # p => oev'[q] = oev[q] /\ pkts'[q] = pkts[q] /\ inside'[q] = inside[q]
    BY DEF Inv, Delivery, EventTypes, SocketTrigger
  <2> QED
    BY <1>1, <2>1, <2>2, DeliveryKept DEF Inv, SocketTrigger
<1>6. Hearing'
  <2>1. slis' \in [Peers -> Dispatchers({"peer"})]
    BY <1>2, SocketListeners DEF Inv, Hearing, HearingTypes
  <2> QED
    BY <2>1, HearingKept DEF Inv, Hearing, HearingTypes, SocketTrigger
<1>7. Requesters'
  <2>1. UNCHANGED <<req, pool, so, acc, pkts>> /\ proxy'.peers = proxy.peers
    BY DEF SocketTrigger
  <2>2. \A q \in Peers : q # p => inside'[q] = inside[q]
    BY DEF Inv, Delivery, EventTypes, SocketTrigger
  <2>3. \A q \in Peers : \A i \in 1..Len(pkts'[q]) : Response(q, pkts'[q][i])
    BY <2>1 DEF Inv, Requesters, Answers
  <2>4. inside[p].ev # "CALLBACK" /\ inside'[p].ev # "CALLBACK" /\ Response(p, inside'[p])
    BY <1>2, <1>3 DEF Quiet, Event, OrderedEvents, Response
  <2> QED
    BY <2>1, <2>2, <2>3, <2>4, RequestersKept DEF Inv, Membership, Delivery
<1> QED
  BY <1>4, <1>5, <1>6, <1>7 DEF Inv

\* trigger of the socket's dispatcher, for a packet.
LEMMA PacketTriggerInv ==
  ASSUME Inv, NEW p \in Peers, PacketTrigger(p)
  PROVE  Inv'
<1>1. Touchable(p)
  BY Busy DEF Inv, PacketTrigger
<1>2. /\ inside[p] = Quiet /\ pkts[p] # <<>> /\ pkts[p] \in Seq(PacketEvents)
      /\ slis' = [slis EXCEPT ![p] = Processed(slis[p])]
      /\ inside'[p] = Quiet \/ inside'[p] = Head(pkts[p])
      /\ \A q \in Peers : inside'[q] = inside[q] \/ q = p
  BY DEF Inv, Delivery, EventTypes, PacketTrigger
<1>3. /\ Head(pkts[p]) \in PacketEvents /\ Tail(pkts[p]) \in Seq(PacketEvents)
      /\ Head(pkts[p]) = pkts[p][1] /\ Len(pkts[p]) > 0
      /\ \A i \in 1..Len(Tail(pkts[p])) : /\ Tail(pkts[p])[i] = pkts[p][i + 1]
                                         /\ i + 1 \in 1..Len(pkts[p])
  BY <1>2
<1>4. Membership'
  BY MembershipKept DEF Inv, Membership, ProxyTypes, PacketTrigger
<1>5. Delivery'
  <2>1. EventTypes'
    <3>1. inside' \in [Peers -> Deliveries]
      <4>1. Quiet \in Deliveries /\ Head(pkts[p]) \in Deliveries
        BY <1>3 DEF Quiet, PacketEvents, Deliveries
      <4> QED
        BY <4>1 DEF Inv, Delivery, EventTypes, PacketTrigger
    <3>2. inside'[p].arg # "proxy"
      BY <1>2, <1>3, NamesAssumption DEF Quiet, PacketEvents
    <3>3. pkts' \in [Peers -> Seq(PacketEvents)]
      BY <1>3 DEF Inv, Delivery, EventTypes, PacketTrigger
    <3>4. oev' = oev
      BY DEF PacketTrigger
    <3> QED
      BY <1>2, <3>1, <3>2, <3>3, <3>4 DEF Inv, Delivery, EventTypes
  <2>2. \A q \in Peers : q # p => oev'[q] = oev[q] /\ pkts'[q] = pkts[q] /\ inside'[q] = inside[q]
    BY DEF Inv, Delivery, EventTypes, PacketTrigger
  <2> QED
    BY <1>1, <2>1, <2>2, DeliveryKept DEF Inv, PacketTrigger
<1>6. Hearing'
  <2>1. slis' \in [Peers -> Dispatchers({"peer"})]
    BY <1>2, SocketListeners DEF Inv, Hearing, HearingTypes
  <2> QED
    BY <2>1, HearingKept DEF Inv, Hearing, HearingTypes, PacketTrigger
<1>7. Requesters'
  <2>1. UNCHANGED <<req, pool, so, acc, proxy>>
    BY DEF PacketTrigger
  <2>2. \A i \in 1..Len(pkts[p]) : Response(p, pkts[p][i])
    BY DEF Inv, Requesters, Answers
  <2>3. ASSUME NEW q \in Peers, NEW i \in 1..Len(pkts'[q])
        PROVE  Response(q, pkts'[q][i])
    <3>1. pkts'[q] = IF q = p THEN Tail(pkts[p]) ELSE pkts[q]
      BY DEF Inv, Delivery, EventTypes, PacketTrigger
    <3>2. CASE q = p
      <4>1. i \in 1..Len(Tail(pkts[p])) /\ pkts'[q][i] = Tail(pkts[p])[i]
        BY <3>1, <3>2
      <4> QED
        BY <1>3, <2>2, <3>2, <4>1
    <3>3. CASE q # p
      BY <3>1, <3>3 DEF Inv, Requesters, Answers
    <3> QED
      BY <3>2, <3>3
  <2>4. Response(p, Head(pkts[p])) /\ Response(p, Quiet) /\ Head(pkts[p]).ev # "CALLBACK"
    <3>1. 1 \in 1..Len(pkts[p])
      BY <1>2
    <3> QED
      BY <1>3, <2>2, <3>1 DEF Response, Quiet, PacketEvents
  <2>5. inside[p].ev # "CALLBACK" /\ inside'[p].ev # "CALLBACK" /\ Response(p, inside'[p])
    BY <1>2, <2>4 DEF Quiet
  <2> QED
    BY <1>2, <2>1, <2>3, <2>5, RequestersKept DEF Inv, Membership, Delivery
<1> QED
  BY <1>4, <1>5, <1>6, <1>7 DEF Inv

\* A WAWO_ASSERT that fails changes nothing else.
LEMMA AssertionInv ==
  ASSUME Inv, NEW what \in {"ros.hpp:177", "peer_proxy.hpp:326"}, AssertionFails(what)
  PROVE  Inv'
<1>1. Membership'
  BY MembershipKept DEF Inv, Membership, ProxyTypes, AssertionFails
<1>2. Delivery'
  BY DeliveryKept DEF Inv, Delivery, EventTypes, AssertionFails
<1>3. Hearing'
  BY HearingKept DEF Inv, Hearing, HearingTypes, AssertionFails
<1>4. Requesters'
  BY RequestersKept DEF Inv, Membership, Delivery, Requesters, Answers, AssertionFails
<1> QED
  BY <1>1, <1>2, <1>3, <1>4 DEF Inv

\* A request of the remote side is told to the node.
LEMMA OnMessageInv ==
  ASSUME Inv, NEW p \in Peers, OnMessage(p)
  PROVE  Inv'
<1>1. Touchable(p)
  BY Busy DEF Inv, OnMessage, Quiet
<1>2. Membership'
  BY MembershipKept DEF Inv, Membership, ProxyTypes, OnMessage
<1>3. Delivery'
  <2>1. EventTypes'
    <3>1. Quiet \in Deliveries /\ Quiet.arg # "proxy"
      BY DEF Quiet, Deliveries
    <3> QED
      BY <3>1 DEF Inv, Delivery, EventTypes, OnMessage
  <2>2. \A q \in Peers : q # p => oev'[q] = oev[q] /\ pkts'[q] = pkts[q] /\ inside'[q] = inside[q]
    BY DEF Inv, Delivery, EventTypes, OnMessage
  <2> QED
    BY <1>1, <2>1, <2>2, DeliveryKept DEF Inv, OnMessage
<1>4. Hearing'
  <2>1. NodeLeaves(Processed(plis[p]), "MESSAGE") = Processed(plis[p])
    BY DEF NodeLeaves
  <2> QED
    BY <1>1, <2>1, HearingTold DEF Inv, OnMessage
<1>5. Requesters'
  <2>1. UNCHANGED <<req, pool, so, acc, pkts>> /\ proxy'.peers = proxy.peers
    BY DEF OnMessage
  <2>2. \A q \in Peers : q # p => inside'[q] = inside[q]
    BY DEF Inv, Delivery, EventTypes, OnMessage
  <2>3. \A q \in Peers : \A i \in 1..Len(pkts'[q]) : Response(q, pkts'[q][i])
    BY <2>1 DEF Inv, Requesters, Answers
  <2>4. inside[p].ev # "CALLBACK" /\ inside'[p].ev # "CALLBACK" /\ Response(p, inside'[p])
    BY DEF Inv, Delivery, EventTypes, OnMessage, Quiet, Response
  <2> QED
    BY <2>1, <2>2, <2>3, <2>4, RequestersKept DEF Inv, Membership, Delivery
<1> QED
  BY <1>2, <1>3, <1>4, <1>5 DEF Inv

\* A packet that does not decode closes the socket.
LEMMA OnMalformedInv ==
  ASSUME Inv, NEW p \in Peers, OnMalformed(p)
  PROVE  Inv'
<1>1. Touchable(p)
  BY Busy DEF Inv, OnMalformed, Quiet
<1>2. Membership'
  BY MembershipKept, ClosedFacts DEF Inv, Membership, ProxyTypes, OnMalformed
<1>3. Delivery'
  <2>1. EventTypes'
    <3>1. Quiet \in Deliveries /\ Quiet.arg # "proxy"
      BY DEF Quiet, Deliveries
    <3> QED
      BY <3>1, TellCloseFacts DEF Inv, Delivery, EventTypes, OnMalformed
  <2>2. \A q \in Peers : q # p => oev'[q] = oev[q] /\ pkts'[q] = pkts[q] /\ inside'[q] = inside[q]
    BY TellCloseFacts DEF Inv, Delivery, EventTypes, OnMalformed
  <2> QED
    BY <1>1, <2>1, <2>2, DeliveryKept DEF Inv, OnMalformed
<1>4. Hearing'
  BY HearingKept DEF Inv, Hearing, HearingTypes, OnMalformed
<1>5. Requesters'
  <2>1. UNCHANGED <<req, pool, so, acc, pkts>> /\ proxy'.peers = proxy.peers
    BY DEF OnMalformed
  <2>2. \A q \in Peers : q # p => inside'[q] = inside[q]
    BY DEF Inv, Delivery, EventTypes, OnMalformed
  <2>3. \A q \in Peers : \A i \in 1..Len(pkts'[q]) : Response(q, pkts'[q][i])
    BY <2>1 DEF Inv, Requesters, Answers
  <2>4. inside[p].ev # "CALLBACK" /\ inside'[p].ev # "CALLBACK" /\ Response(p, inside'[p])
    BY DEF Inv, Delivery, EventTypes, OnMalformed, Quiet, Response
  <2> QED
    BY <2>1, <2>2, <2>3, <2>4, RequestersKept DEF Inv, Membership, Delivery
<1> QED
  BY <1>2, <1>3, <1>4, <1>5 DEF Inv

\* A response takes its request out of m_requested.
LEMMA OnResponseInv ==
  ASSUME Inv, NEW p \in Peers, OnResponse(p)
  PROVE  Inv'
<1>1. Touchable(p)
  BY Busy DEF Inv, OnResponse, Quiet
<1>2. inside[p].arg \in Reqs
  BY DEF Inv, Requesters, Answers, Response, OnResponse
<1>3. Membership'
  BY MembershipKept DEF Inv, Membership, ProxyTypes, OnResponse
<1>4. Delivery'
  <2>1. EventTypes'
    <3>1. /\ Quiet \in Deliveries /\ Quiet.arg # "proxy"
          /\ Event("CALLBACK", inside[p].arg) \in Deliveries
          /\ Event("CALLBACK", inside[p].arg).arg # "proxy"
      BY <1>2, NamesAssumption DEF Quiet, Event, Deliveries
    <3> QED
      BY <3>1 DEF Inv, Delivery, EventTypes, OnResponse
  <2>2. \A q \in Peers : q # p => oev'[q] = oev[q] /\ pkts'[q] = pkts[q] /\ inside'[q] = inside[q]
    BY DEF Inv, Delivery, EventTypes, OnResponse
  <2> QED
    BY <1>1, <2>1, <2>2, DeliveryKept DEF Inv, OnResponse
<1>5. Hearing'
  BY HearingKept DEF Inv, Hearing, HearingTypes, OnResponse
<1>6. Requesters'
  BY RequestersResponse DEF Inv
<1> QED
  BY <1>3, <1>4, <1>5, <1>6 DEF Inv

\* The callback of a response.
LEMMA OnRespondInv ==
  ASSUME Inv, NEW p \in Peers, OnRespond(p)
  PROVE  Inv'
<1>1. Touchable(p)
  BY Busy DEF Inv, OnRespond, Quiet
<1>2. Membership'
  BY MembershipKept DEF Inv, Membership, ProxyTypes, OnRespond
<1>3. Delivery'
  <2>1. EventTypes'
    <3>1. Quiet \in Deliveries /\ Quiet.arg # "proxy"
      BY DEF Quiet, Deliveries
    <3> QED
      BY <3>1 DEF Inv, Delivery, EventTypes, OnRespond
  <2>2. \A q \in Peers : q # p => oev'[q] = oev[q] /\ pkts'[q] = pkts[q] /\ inside'[q] = inside[q]
    BY DEF Inv, Delivery, EventTypes, OnRespond
  <2> QED
    BY <1>1, <2>1, <2>2, DeliveryKept DEF Inv, OnRespond
<1>4. Hearing'
  BY HearingKept DEF Inv, Hearing, HearingTypes, OnRespond
<1>5. Requesters'
  BY RequestersRespond DEF Inv
<1> QED
  BY <1>2, <1>3, <1>4, <1>5 DEF Inv

\* The E_CLOSE of _deinit is told to the node.
LEMMA PeerCloseInv ==
  ASSUME Inv, NEW p \in Peers, PeerClose(p)
  PROVE  Inv'
<1>1. Touchable(p)
  BY Busy DEF Inv, PeerClose
<1>2. oev[p] # <<>> /\ oev[p] \in Seq(OrderedEvents)
  BY DEF Inv, Delivery, EventTypes, PeerClose
<1>3. Tail(oev[p]) \in Seq(OrderedEvents)
  BY <1>2
<1>4. Membership'
  BY MembershipKept DEF Inv, Membership, ProxyTypes, PeerClose
<1>5. Delivery'
  <2>1. EventTypes'
    BY <1>3 DEF Inv, Delivery, EventTypes, PeerClose
  <2>2. \A q \in Peers : q # p => oev'[q] = oev[q] /\ pkts'[q] = pkts[q] /\ inside'[q] = inside[q]
    BY DEF Inv, Delivery, EventTypes, PeerClose
  <2> QED
    BY <1>1, <2>1, <2>2, DeliveryKept DEF Inv, PeerClose
<1>6. Hearing'
  BY <1>1, HearingTold DEF Inv, PeerClose
<1>7. Requesters'
  BY RequestersKept DEF Inv, Membership, Delivery, Requesters, Answers, PeerClose
<1> QED
  BY <1>4, <1>5, <1>6, <1>7 DEF Inv

\* The other events: the node is told, then the proxy.
LEMMA OnOrderedInv ==
  ASSUME Inv, NEW p \in Peers, OnOrdered(p)
  PROVE  Inv'
<1>1. inside[p].arg = "peer" /\ Mine(p)
  BY DEF OnOrdered
<1>2. Touchable(p)
  BY <1>1, Busy DEF Inv, Quiet
<1>3. /\ open' = open \/ open' = Closed(p)
      /\ oev' = oev \/ oev' = TellClose(oev, p)
      /\ UNCHANGED <<proxy, ticker, remover, so, slis, pkts, acc, req, pool, failed>>
  BY DEF OnOrdered
<1>4. /\ \A q \in Peers : q # p => inside'[q] = inside[q]
      /\ \/ inside'[p] = Quiet
         \/ ForProxy(inside[p].ev) /\ inside'[p] = Event(inside[p].ev, "proxy")
  BY DEF Inv, Delivery, EventTypes, OnOrdered
<1>5. Membership'
  BY <1>3, MembershipKept, ClosedFacts DEF Inv, Membership, ProxyTypes
<1>6. Delivery'
  <2>1. /\ oev' \in [Peers -> Seq(OrderedEvents)]
        /\ \A q \in Peers : q # p => oev'[q] = oev[q]
    BY <1>3, TellCloseFacts DEF Inv, Delivery, EventTypes
  <2>2. Quiet \in Deliveries /\ (ForProxy(inside[p].ev) => Event(inside[p].ev, "proxy") \in Deliveries)
    BY DEF Quiet, Deliveries, ForProxy, Event, OrderedEvents
  <2>3. inside' \in [Peers -> Deliveries]
    BY <2>2 DEF Inv, Delivery, EventTypes, OnOrdered
  <2>4. inside'[p].arg = "proxy" => ForProxy(inside'[p].ev)
    BY <1>4 DEF Quiet, Event
  <2>5. EventTypes'
    BY <1>3, <1>4, <2>1, <2>3, <2>4 DEF Inv, Delivery, EventTypes
  <2> QED
    BY <1>2, <1>3, <1>4, <2>1, <2>5, DeliveryKept DEF Inv
<1>7. Hearing'
  BY <1>2, HearingTold DEF Inv, OnOrdered
<1>8. Requesters'
  <2>1. \A q \in Peers : \A i \in 1..Len(pkts'[q]) : Response(q, pkts'[q][i])
    BY <1>3 DEF Inv, Requesters, Answers
  <2>2. inside[p].ev # "CALLBACK"
    BY <1>1, NamesAssumption DEF Inv, Requesters, Answers, Response
  <2>3. inside'[p].ev # "CALLBACK" /\ Response(p, inside'[p])
    BY <1>4 DEF Quiet, Event, ForProxy, Response
  <2> QED
    BY <1>3, <1>4, <2>1, <2>2, <2>3, RequestersKept DEF Inv, Membership, Delivery
<1> QED
  BY <1>5, <1>6, <1>7, <1>8 DEF Inv

\* peer_proxy::on_event.
LEMMA ProxyOnEventInv ==
  ASSUME Inv, NEW p \in Peers, ProxyOnEvent(p)
  PROVE  Inv'
<1>1. /\ inside[p].arg = "proxy" /\ ForProxy(inside[p].ev) /\ inside' = [inside EXCEPT ![p] = Quiet]
      /\ UNCHANGED <<ticker, remover, so, slis, pkts, acc, told, req, pool, failed>>
  BY DEF Inv, Delivery, EventTypes, ProxyOnEvent
<1>2. Touchable(p)
  BY <1>1, Busy DEF Inv, Quiet
<1>3. \/ /\ proxy.st = "RUN" /\ UNCHANGED <<open, oev, plis>>
         /\ proxy' = [proxy EXCEPT !.ops = Append(@, [code |-> inside[p].ev, peer |-> p])]
      \/ /\ open' = Closed(p) /\ oev' = TellClose(oev, p) /\ proxy' = proxy
         /\ plis' = [plis EXCEPT ![p] = Unregister(@, "proxy")]
  BY DEF ProxyOnEvent
<1>4. /\ proxy'.st = proxy.st /\ proxy'.peers = proxy.peers
  BY <1>3 DEF Inv, Membership, ProxyTypes
<1>5. Membership'
  <2>1. CASE proxy' = proxy
    BY <1>1, <1>3, <2>1, MembershipKept, ClosedFacts DEF Inv, Membership, ProxyTypes
  <2>2. CASE /\ proxy.st = "RUN" /\ UNCHANGED <<open, oev, plis>>
             /\ proxy' = [proxy EXCEPT !.ops = Append(@, [code |-> inside[p].ev, peer |-> p])]
    <3> DEFINE o == [code |-> inside[p].ev, peer |-> p]
    <3>1. o \in ProxyOps /\ o.peer = p
      BY <1>1 DEF ForProxy, ProxyOps
    <3> HIDE DEF o
    <3>2. proxy.ops \in Seq(ProxyOps) /\ Append(proxy.ops, o) \in Seq(ProxyOps)
      BY <3>1 DEF Inv, Membership, ProxyTypes
    <3>3. /\ proxy'.ops = Append(proxy.ops, o) /\ proxy'.blocked = proxy.blocked
          /\ ProxyTypes'
      BY <1>1, <2>2, <3>2 DEF Inv, Membership, ProxyTypes, o
    <3>4. acc[p] = "done"
      BY <1>2, <2>2 DEF Touchable
    <3>5. \A i \in 1..Len(proxy'.ops) : acc[proxy'.ops[i].peer] = "done"
      <4>1. \A i \in 1..Len(Append(proxy.ops, o)) :
              \/ i \in 1..Len(proxy.ops) /\ Append(proxy.ops, o)[i] = proxy.ops[i]
              \/ Append(proxy.ops, o)[i] = o
        BY <3>2
      <4> QED
        BY <3>1, <3>3, <3>4, <4>1 DEF Inv, Membership, Members
    <3>6. \A q \in Peers : q \in proxy.peers => so[q] = "attached" \/ q \in {ticker, remover}
      BY DEF Inv, Membership, MembersAttached
    <3> QED
      BY <1>1, <1>4, <2>2, <3>3, <3>5, <3>6, MembershipStep DEF Inv, Membership, Members
  <2> QED
    BY <1>3, <2>1, <2>2
<1>6. Delivery'
  <2>1. /\ oev' \in [Peers -> Seq(OrderedEvents)]
        /\ \A q \in Peers : q # p => oev'[q] = oev[q]
    BY <1>3, TellCloseFacts DEF Inv, Delivery, EventTypes
  <2>2. Quiet \in Deliveries /\ Quiet.arg # "proxy"
    BY DEF Quiet, Deliveries
  <2>3. EventTypes' /\ \A q \in Peers : q # p => inside'[q] = inside[q]
    BY <1>1, <2>1, <2>2 DEF Inv, Delivery, EventTypes
  <2> QED
    BY <1>1, <1>2, <1>4, <2>1, <2>3, DeliveryKept DEF Inv
<1>7. Hearing'
  <2>1. /\ plis' \in [Peers -> Dispatchers({"node", "proxy"})]
        /\ \A q \in Peers : Listens(plis'[q], "node") => Listens(plis[q], "node")
    BY <1>3, PeerListeners DEF Inv, Hearing, HearingTypes
  <2> QED
    BY <1>1, <1>4, <2>1, HearingKept DEF Inv, Hearing, HearingTypes
<1>8. Requesters'
  <2>1. \A q \in Peers : \A i \in 1..Len(pkts'[q]) : Response(q, pkts'[q][i])
    BY <1>1 DEF Inv, Requesters, Answers
  <2>2. inside[p].ev # "CALLBACK"
    BY <1>1 DEF ForProxy
  <2>3. /\ \A q \in Peers : q # p => inside'[q] = inside[q]
        /\ inside'[p].ev # "CALLBACK" /\ Response(p, inside'[p])
    BY <1>1 DEF Inv, Delivery, EventTypes, Quiet, Response
  <2> QED
    BY <1>1, <1>4, <2>1, <2>2, <2>3, RequestersKept DEF Inv, Membership, Delivery
<1> QED
  BY <1>5, <1>6, <1>7, <1>8 DEF Inv

\* stop.
LEMMA StopInv ==
  ASSUME Inv, Stop
  PROVE  Inv'
<1>1. /\ ticker = Nobody /\ remover = Nobody
      /\ proxy' = [proxy EXCEPT !.st = "EXIT"]
      /\ UNCHANGED <<ticker, remover, so, open, slis, plis, oev, pkts, inside, acc, told, req, pool, failed>>
  BY DEF Stop
<1>2. /\ proxy'.st = "EXIT" /\ proxy'.ops = proxy.ops /\ proxy'.peers = proxy.peers
      /\ proxy'.blocked = proxy.blocked /\ ProxyTypes'
  BY <1>1 DEF Inv, Membership, ProxyTypes
<1>3. Membership'
  <2>1. ticker = Nobody /\ remover = Nobody
    BY <1>1 DEF Inv, Membership, Members
  <2>2. \A q \in Peers : q \in proxy.peers => so[q] = "attached" \/ q \in {ticker, remover}
    BY DEF Inv, Membership, MembersAttached
  <2> QED
    BY <1>1, <1>2, <2>1, <2>2, MembershipStep DEF Inv, Membership, Members
<1>4. Delivery'
  BY <1>1, <1>2, DeliveryKept DEF Inv, Delivery, EventTypes
<1>5. Hearing'
  BY <1>1, <1>2, HearingKept DEF Inv, Hearing, HearingTypes
<1>6. Requesters'
  BY <1>1, <1>2, RequestersKept DEF Inv, Membership, Delivery, Requesters, Answers
<1> QED
  BY <1>3, <1>4, <1>5, <1>6 DEF Inv

\* _deinit takes m_mutex.
LEMMA DeinitBeginsInv ==
  ASSUME Inv, DeinitBegins
  PROVE  Inv'
<1>1. /\ proxy.st = "EXIT"
      /\ proxy' = [proxy EXCEPT !.st = "DEINIT"]
      /\ UNCHANGED <<ticker, remover, so, open, slis, plis, oev, pkts, inside, acc, told, req, pool, failed>>
  BY DEF DeinitBegins
<1>2. /\ proxy'.st = "DEINIT" /\ proxy'.ops = proxy.ops /\ proxy'.peers = proxy.peers
      /\ proxy'.blocked = proxy.blocked /\ ProxyTypes'
  BY <1>1 DEF Inv, Membership, ProxyTypes
<1>3. Membership'
  <2>1. ticker = Nobody /\ remover = Nobody
    BY <1>1 DEF Inv, Membership, Members
  <2>2. \A q \in Peers : q \in proxy.peers => so[q] = "attached" \/ q \in {ticker, remover}
    BY DEF Inv, Membership, MembersAttached
  <2> QED
    BY <1>1, <1>2, <2>1, <2>2, MembershipStep DEF Inv, Membership, Members
<1>4. Delivery'
  BY <1>1, <1>2, DeliveryKept DEF Inv, Delivery, EventTypes
<1>5. Hearing'
  BY <1>1, <1>2, HearingKept DEF Inv, Hearing, HearingTypes
<1>6. Requesters'
  BY <1>1, <1>2, RequestersKept DEF Inv, Membership, Delivery, Requesters, Answers
<1> QED
  BY <1>3, <1>4, <1>5, <1>6 DEF Inv

\* _deinit is over.
LEMMA DeinitEndsInv ==
  ASSUME Inv, DeinitEnds
  PROVE  Inv'
<1>1. /\ proxy.st = "DEINIT" /\ proxy.peers = {}
      /\ proxy' = [proxy EXCEPT !.st = "STOPPED"]
      /\ UNCHANGED <<ticker, remover, so, open, slis, plis, oev, pkts, inside, acc, told, req, pool, failed>>
  BY DEF DeinitEnds
<1>2. /\ proxy'.st = "STOPPED" /\ proxy'.ops = proxy.ops /\ proxy'.peers = proxy.peers
      /\ proxy'.blocked = proxy.blocked /\ ProxyTypes'
  BY <1>1 DEF Inv, Membership, ProxyTypes
<1>3. Membership'
  <2>1. ticker = Nobody /\ remover = Nobody
    BY <1>1 DEF Inv, Membership, Members
  <2>2. \A q \in Peers : q \in proxy.peers => so[q] = "attached" \/ q \in {ticker, remover}
    BY DEF Inv, Membership, MembersAttached
  <2> QED
    BY <1>1, <1>2, <2>1, <2>2, MembershipStep DEF Inv, Membership, Members
<1>4. Delivery'
  BY <1>1, <1>2, DeliveryKept DEF Inv, Delivery, EventTypes
<1>5. Hearing'
  BY <1>1, <1>2, HearingKept DEF Inv, Hearing, HearingTypes
<1>6. Requesters'
  BY <1>1, <1>2, RequestersKept DEF Inv, Membership, Delivery, Requesters, Answers
<1> QED
  BY <1>3, <1>4, <1>5, <1>6 DEF Inv

\* _check_async_write_sockets.
LEMMA UpdateBlockedInv ==
  ASSUME Inv, NEW p \in Peers, UpdateBlocked(p)
  PROVE  Inv'
<1>1. /\ p \in proxy.blocked /\ open' = Closed(p) /\ oev' = TellClose(oev, p)
      /\ proxy' = [proxy EXCEPT !.blocked = @ \ {p}]
      /\ UNCHANGED <<ticker, remover, so, slis, plis, pkts, inside, acc, told, req, pool, failed>>
  BY DEF UpdateBlocked
<1>2. /\ proxy'.st = proxy.st /\ proxy'.ops = proxy.ops /\ proxy'.peers = proxy.peers
      /\ proxy'.blocked = proxy.blocked \ {p} /\ ProxyTypes'
  BY <1>1, ClosedFacts DEF Inv, Membership, ProxyTypes
<1>3. Touchable(p)
  BY <1>1, Accepted DEF Inv, Membership, Members
<1>4. Membership'
  <2>1. \A q \in Peers : q \in proxy.peers => so[q] = "attached" \/ q \in {ticker, remover}
    BY DEF Inv, Membership, MembersAttached
  <2> QED
    BY <1>1, <1>2, <2>1, MembershipStep DEF Inv, Membership, Members
<1>5. Delivery'
  <2>1. EventTypes' /\ \A q \in Peers : q # p => oev'[q] = oev[q]
    BY <1>1, TellCloseFacts DEF Inv, Delivery, EventTypes
  <2> QED
    BY <1>1, <1>2, <1>3, <2>1, DeliveryKept DEF Inv
<1>6. Hearing'
  BY <1>1, <1>2, HearingKept DEF Inv, Hearing, HearingTypes
<1>7. Requesters'
  BY <1>1, <1>2, RequestersKept DEF Inv, Membership, Delivery, Requesters, Answers
<1> QED
  BY <1>4, <1>5, <1>6, <1>7 DEF Inv

\* The second step of an E_CLOSE operation: _remove_peer.
LEMMA UpdateRemoveInv ==
  ASSUME Inv, UpdateRemove
  PROVE  Inv'
<1>1. PICK p : p = ticker
  OBVIOUS
<1>2. /\ p \in Peers /\ p \in proxy.peers /\ so[p] = "gone" /\ proxy.st = "RUN" /\ ticker' = Nobody
      /\ plis' = [plis EXCEPT ![p] = Unregister(@, "proxy")]
      /\ proxy' = [proxy EXCEPT !.peers = @ \ {p}]
      /\ UNCHANGED <<remover, so, open, slis, oev, pkts, inside, acc, told, req, pool, failed>>
  BY <1>1 DEF Inv, Membership, ProxyTypes, Members, UpdateRemove, EraseMember
<1>3. /\ proxy'.st = proxy.st /\ proxy'.ops = proxy.ops /\ proxy'.peers = proxy.peers \ {p}
      /\ proxy'.blocked = proxy.blocked /\ ProxyTypes'
  BY <1>2 DEF Inv, Membership, ProxyTypes
<1>4. Membership'
  <2>1. \A q \in Peers : q \in proxy.peers => so[q] = "attached" \/ q \in {ticker, remover}
    BY DEF Inv, Membership, MembersAttached
  <2>2. remover # Nobody => so[remover] = "gone"
    BY <1>2 DEF Inv, Membership, Members
  <2> QED
    BY <1>1, <1>2, <1>3, <2>1, <2>2, MembershipStep DEF Inv, Membership, Members
<1>5. Delivery'
  BY <1>2, <1>3, DeliveryKept DEF Inv, Delivery, EventTypes
<1>6. Hearing'
  <2>1. /\ plis' \in [Peers -> Dispatchers({"node", "proxy"})]
        /\ \A q \in Peers : Listens(plis'[q], "node") => Listens(plis[q], "node")
    BY <1>2, PeerListeners DEF Inv, Hearing, HearingTypes
  <2> QED
    BY <1>2, <1>3, <2>1, HearingKept DEF Inv, Hearing, HearingTypes
<1>7. Requesters'
  BY <1>2, <1>3, RequestersKept DEF Inv, Membership, Delivery, Requesters, Answers
<1> QED
  BY <1>4, <1>5, <1>6, <1>7 DEF Inv

\* The second step of remove_peer.
LEMMA RemoverRemoveInv ==
  ASSUME Inv, RemoverRemove
  PROVE  Inv'
<1>1. PICK p : p = remover
  OBVIOUS
<1>2. /\ p \in Peers /\ p \in proxy.peers /\ so[p] = "gone" /\ proxy.st = "RUN" /\ remover' = Nobody
      /\ plis' = [plis EXCEPT ![p] = Unregister(@, "proxy")]
      /\ proxy' = [proxy EXCEPT !.peers = @ \ {p}]
      /\ UNCHANGED <<ticker, so, open, slis, oev, pkts, inside, acc, told, req, pool, failed>>
  BY <1>1 DEF Inv, Membership, ProxyTypes, Members, RemoverRemove, EraseMember
<1>3. /\ proxy'.st = proxy.st /\ proxy'.ops = proxy.ops /\ proxy'.peers = proxy.peers \ {p}
      /\ proxy'.blocked = proxy.blocked /\ ProxyTypes'
  BY <1>2 DEF Inv, Membership, ProxyTypes
<1>4. Membership'
  <2>1. \A q \in Peers : q \in proxy.peers => so[q] = "attached" \/ q \in {ticker, remover}
    BY DEF Inv, Membership, MembersAttached
  <2>2. ticker # Nobody => so[ticker] = "gone"
    BY <1>2 DEF Inv, Membership, Members
  <2> QED
    BY <1>1, <1>2, <1>3, <2>1, <2>2, MembershipStep DEF Inv, Membership, Members
<1>5. Delivery'
  BY <1>2, <1>3, DeliveryKept DEF Inv, Delivery, EventTypes
<1>6. Hearing'
  <2>1. /\ plis' \in [Peers -> Dispatchers({"node", "proxy"})]
        /\ \A q \in Peers : Listens(plis'[q], "node") => Listens(plis[q], "node")
    BY <1>2, PeerListeners DEF Inv, Hearing, HearingTypes
  <2> QED
    BY <1>2, <1>3, <2>1, HearingKept DEF Inv, Hearing, HearingTypes
<1>7. Requesters'
  BY <1>2, <1>3, RequestersKept DEF Inv, Membership, Delivery, Requesters, Answers
<1> QED
  BY <1>4, <1>5, <1>6, <1>7 DEF Inv

\* The first step of remove_peer: detach_socket.
LEMMA RemovePeerInv ==
  ASSUME Inv, NEW p \in Peers, RemovePeer(p)
  PROVE  Inv'
<1>1. /\ proxy.st = "RUN" /\ so[p] = "attached" /\ remover = Nobody /\ remover' = p
      /\ UNCHANGED <<proxy, ticker, open, plis, oev, pkts, inside, acc, told, failed>>
  BY DEF RemovePeer
<1>2. /\ so' \in [Peers -> {"none", "attached", "gone"}]
      /\ so'[p] = "gone" /\ \A q \in Peers : q # p => so'[q] = so[q]
      /\ slis' \in [Peers -> Dispatchers({"peer"})]
  BY <1>1, Detached DEF RemovePeer
<1>3. Membership'
  <2>1. \A q \in Peers : q \in proxy.peers => so[q] = "attached" \/ q \in {ticker, remover}
    BY DEF Inv, Membership, MembersAttached
  <2>2. ProxyTypes'
    BY <1>1, <1>2 DEF Inv, Membership, ProxyTypes
  <2>3. ticker # Nobody => ticker \in Peers /\ so[ticker] = "gone"
    BY <1>1 DEF Inv, Membership, ProxyTypes, Members
  <2>4. p \in proxy.peers
    BY <1>1 DEF Inv, Membership, Members
  <2>5. ticker # Nobody => so'[ticker] = "gone"
    BY <1>1, <1>2, <2>3
  <2>6. \A q \in Peers : q \in proxy.peers => so'[q] = "attached" \/ q \in {ticker, p}
    BY <1>1, <1>2, <2>1, NamesAssumption
  <2> QED
    BY <1>1, <1>2, <2>2, <2>4, <2>5, <2>6, MembershipStep DEF Inv, Membership, Members
<1>4. Delivery'
  BY <1>1, <1>2, DeliveryKept DEF Inv, Delivery, EventTypes
<1>5. Hearing'
  BY <1>1, <1>2, HearingKept DEF Inv, Hearing, HearingTypes
<1>6. Requesters'
  BY <1>1, RequestersDetached DEF RemovePeer
<1> QED
  BY <1>3, <1>4, <1>5, <1>6 DEF Inv

\* _deinit, for a peer: the socket is closed.
LEMMA DeinitCloseInv ==
  ASSUME Inv, NEW p \in Peers, DeinitClose(p)
  PROVE  Inv'
<1>1. /\ proxy.st = "DEINIT" /\ proxy.ops = <<>> /\ p \in proxy.peers /\ ticker = Nobody
      /\ plis' = [plis EXCEPT ![p] = Unregister(@, "proxy")]
      /\ open' = Closed(p) /\ oev' = TellClose(oev, p) /\ ticker' = p
      /\ UNCHANGED <<proxy, remover, so, slis, pkts, inside, acc, told, req, pool, failed>>
  BY DEF DeinitClose
<1>2. Touchable(p)
  BY <1>1 DEF Inv, Membership, Members, Touchable
<1>3. Membership'
  <2>1. \A q \in Peers : q \in proxy.peers => so[q] = "attached" \/ q \in {ticker, remover}
    BY DEF Inv, Membership, MembersAttached
  <2>2. ProxyTypes'
    BY <1>1, ClosedFacts DEF Inv, Membership, ProxyTypes
  <2>3. remover = Nobody
    BY <1>1 DEF Inv, Membership, Members
  <2> QED
    BY <1>1, <2>1, <2>2, <2>3, NamesAssumption, MembershipStep DEF Inv, Membership, Members
<1>4. Delivery'
  <2>1. EventTypes' /\ \A q \in Peers : q # p => oev'[q] = oev[q]
    BY <1>1, TellCloseFacts DEF Inv, Delivery, EventTypes
  <2> QED
    BY <1>1, <1>2, <2>1, DeliveryKept DEF Inv
<1>5. Hearing'
  <2>1. /\ plis' \in [Peers -> Dispatchers({"node", "proxy"})]
        /\ \A q \in Peers : Listens(plis'[q], "node") => Listens(plis[q], "node")
    BY <1>1, PeerListeners DEF Inv, Hearing, HearingTypes
  <2> QED
    BY <1>1, <2>1, HearingKept DEF Inv, Hearing, HearingTypes
<1>6. Requesters'
  BY <1>1, RequestersKept DEF Inv, Membership, Delivery, Requesters, Answers
<1> QED
  BY <1>3, <1>4, <1>5, <1>6 DEF Inv

\* _deinit, for a peer: it is detached and told its close.
LEMMA DeinitDetachInv ==
  ASSUME Inv, DeinitDetach
  PROVE  Inv'
<1>1. PICK p : p = ticker
  OBVIOUS
<1>2. /\ proxy.st = "DEINIT" /\ p \in Peers /\ p \in proxy.peers /\ proxy.ops = <<>> /\ remover = Nobody
      /\ Detach(p) /\ ticker' = Nobody
      /\ oev' = [oev EXCEPT ![p] = Append(@, "PEER_CLOSE")]
      /\ proxy' = [proxy EXCEPT !.peers = @ \ {p}]
      /\ UNCHANGED <<remover, open, plis, pkts, inside, acc, told, failed>>
  BY <1>1 DEF Inv, Membership, ProxyTypes, Members, DeinitDetach, LastClose
<1>3. /\ so' \in [Peers -> {"none", "attached", "gone"}]
      /\ so[p] # "none" /\ so'[p] = "gone" /\ \A q \in Peers : q # p => so'[q] = so[q]
      /\ slis' \in [Peers -> Dispatchers({"peer"})]
  BY <1>2, Detached DEF Inv, Membership, Members, ProxyTypes
<1>4. /\ proxy'.st = proxy.st /\ proxy'.ops = proxy.ops /\ proxy'.peers = proxy.peers \ {p}
      /\ proxy'.blocked = proxy.blocked /\ ProxyTypes'
  BY <1>2, <1>3 DEF Inv, Membership, ProxyTypes
<1>5. Touchable(p)
  BY <1>2, <1>3 DEF Touchable
<1>6. Membership'
  <2>1. \A q \in Peers : q \in proxy.peers => so[q] = "attached" \/ q \in {ticker, remover}
    BY DEF Inv, Membership, MembersAttached
  <2> QED
    BY <1>1, <1>2, <1>3, <1>4, <2>1, NamesAssumption, MembershipStep DEF Inv, Membership, Members
<1>7. Delivery'
  <2>1. oev[p] \in Seq(OrderedEvents) /\ "PEER_CLOSE" \in OrderedEvents
    BY <1>2 DEF Inv, Delivery, EventTypes, OrderedEvents
  <2>2. Append(oev[p], "PEER_CLOSE") \in Seq(OrderedEvents)
    BY <2>1
  <2>3. EventTypes' /\ \A q \in Peers : q # p => oev'[q] = oev[q]
    BY <1>2, <2>2 DEF Inv, Delivery, EventTypes
  <2> QED
    BY <1>2, <1>3, <1>4, <1>5, <2>3, DeliveryKept DEF Inv
<1>8. Hearing'
  BY <1>2, <1>3, <1>4, HearingKept DEF Inv, Hearing, HearingTypes
<1>9. Requesters'
  BY <1>2, <1>4, RequestersDetached
<1> QED
  BY <1>6, <1>7, <1>8, <1>9 DEF Inv

\* An operation on the sockets whose writes are blocked.
LEMMA WriteOpInv ==
  ASSUME Inv, NEW o, proxy.ops # <<>>, o = Head(proxy.ops), WriteOp(o),
         UNCHANGED <<so, slis, plis, req, pool, ticker, remover, open, oev, pkts, inside, acc, told,
                     failed>>
  PROVE  Inv'
<1>1. o.peer \in Peers /\ acc[o.peer] = "done"
  BY HeadOp DEF Inv
<1>2. Tail(proxy.ops) \in Seq(ProxyOps)
      /\ \A i \in 1..Len(Tail(proxy.ops)) : acc[Tail(proxy.ops)[i].peer] = "done"
  BY HeadOp DEF Inv
<1>3. /\ proxy'.st = proxy.st /\ proxy'.ops = Tail(proxy.ops) /\ proxy'.peers = proxy.peers
      /\ proxy'.blocked \subseteq proxy.blocked \cup {o.peer}
  BY DEF Inv, Membership, ProxyTypes, WriteOp
<1>4. ProxyTypes'
  BY <1>1, <1>2 DEF Inv, Membership, ProxyTypes, WriteOp
<1>5. Membership'
  <2>1. \A q \in Peers : q \in proxy.peers => so[q] = "attached" \/ q \in {ticker, remover}
    BY DEF Inv, Membership, MembersAttached
  <2>2. \A q \in proxy'.blocked : acc[q] = "done"
    BY <1>1, <1>3 DEF Inv, Membership, Members
  <2> QED
    BY <1>2, <1>3, <1>4, <2>1, <2>2, MembershipStep DEF Inv, Membership, Members
<1>6. Delivery'
  BY <1>3, DeliveryKept DEF Inv, Delivery, EventTypes
<1>7. Hearing'
  BY <1>3, HearingKept DEF Inv, Hearing, HearingTypes
<1>8. Requesters'
  BY <1>3, RequestersKept DEF Inv, Membership, Delivery, Requesters, Answers
<1> QED
  BY <1>5, <1>6, <1>7, <1>8 DEF Inv

\* _execute_ops: a close detaches, the others are about blocked writes.
LEMMA UpdateOpInv ==
  ASSUME Inv, UpdateOp
  PROVE  Inv'
<1>1. PICK o : o = Head(proxy.ops)
  OBVIOUS
<1>2. PICK p : p = o.peer
  OBVIOUS
<1>3. proxy.ops # <<>> /\ p \in Peers /\ acc[p] = "done" /\ so[p] # "none"
  BY <1>1, <1>2, HeadOp DEF Inv, UpdateOp
<1>4. CASE o.code # "CLOSE"
  <2>1. /\ WriteOp(o)
        /\ UNCHANGED <<so, slis, plis, req, pool, ticker, remover, open, oev, pkts, inside, acc, told,
                       failed>>
    BY <1>1, <1>4 DEF UpdateOp
  <2> QED
    BY <1>1, <1>3, <2>1, WriteOpInv
<1>5. CASE o.code = "CLOSE"
  <2>1. /\ proxy.st = "RUN" /\ ticker = Nobody
        /\ Detach(p) /\ ticker' = p
        /\ proxy' = [proxy EXCEPT !.ops = Tail(@)]
        /\ plis' = plis
        /\ UNCHANGED <<remover, open, oev, pkts, inside, acc, told, failed>>
    BY <1>1, <1>2, <1>5 DEF UpdateOp
  <2>2. /\ so' \in [Peers -> {"none", "attached", "gone"}]
        /\ so'[p] = "gone" /\ \A q \in Peers : q # p => so'[q] = so[q]
        /\ slis' \in [Peers -> Dispatchers({"peer"})]
    BY <1>3, <2>1, Detached DEF Inv, Membership, ProxyTypes
  <2>3. /\ Tail(proxy.ops) \in Seq(ProxyOps)
        /\ \A i \in 1..Len(Tail(proxy.ops)) : acc[Tail(proxy.ops)[i].peer] = "done"
    BY <1>3, HeadOp DEF Inv
  <2>4. /\ proxy'.st = proxy.st /\ proxy'.ops = Tail(proxy.ops)
        /\ proxy'.peers = proxy.peers /\ proxy'.blocked = proxy.blocked
    BY <2>1 DEF Inv, Membership, ProxyTypes
  <2>5. ProxyTypes'
    BY <1>3, <2>1, <2>2, <2>3 DEF Inv, Membership, ProxyTypes
  <2>6. Membership'
    <3>1. \A q \in Peers : q \in proxy.peers => so[q] = "attached" \/ q \in {ticker, remover}
      BY DEF Inv, Membership, MembersAttached
    <3>2. ticker = Nobody
      BY <1>3, <2>1 DEF Inv, Membership, ProxyTypes, Members
    <3>3. remover # Nobody => remover \in Peers /\ so[remover] = "gone" /\ proxy.st = "RUN"
      BY DEF Inv, Membership, ProxyTypes, Members
    <3>4. remover # Nobody => so'[remover] = "gone"
      BY <2>2, <3>3
    <3>5. \A q \in Peers :
            /\ so'[q] = "attached" => q \in proxy'.peers
            /\ so'[q] = "none" => so[q] = "none" /\ q \notin proxy'.peers
            /\ q \in proxy'.peers => so'[q] = "attached" \/ q \in {ticker', remover'}
      BY <1>3, <2>1, <2>2, <2>4, <3>1, <3>2, NamesAssumption DEF Inv, Membership, Members
    <3>6. ticker' # Nobody => proxy'.st = "RUN" /\ so'[ticker'] = "gone"
      BY <2>1, <2>2, <2>4, <3>2
    <3> QED
      BY <2>1, <2>3, <2>4, <2>5, <3>3, <3>4, <3>5, <3>6, MembershipStep DEF Inv, Membership, Members
  <2>7. Delivery'
    BY <2>1, <2>2, <2>4, DeliveryKept DEF Inv, Delivery, EventTypes
  <2>8. Hearing'
    <3>1. /\ plis' \in [Peers -> Dispatchers({"node", "proxy"})]
          /\ \A q \in Peers : Listens(plis'[q], "node") => Listens(plis[q], "node")
      BY <1>3, <2>1, PeerListeners DEF Inv, Hearing, HearingTypes
    <3> QED
      BY <1>3, <2>1, <2>2, <2>4, <3>1, HearingKept DEF Inv
  <2>9. Requesters'
    BY <1>3, <2>1, <2>4, RequestersDetached
  <2> QED
    BY <2>6, <2>7, <2>8, <2>9 DEF Inv
<1> QED
  BY <1>4, <1>5

\* _deinit executes the operations that are left.
LEMMA DeinitOpInv ==
  ASSUME Inv, DeinitOp
  PROVE  Inv'
<1>1. PICK o : o = Head(proxy.ops)
  OBVIOUS
<1>2. PICK p : p = o.peer
  OBVIOUS
<1>3. proxy.ops # <<>> /\ p \in Peers /\ acc[p] = "done" /\ so[p] # "none"
  BY <1>1, <1>2, HeadOp DEF Inv, DeinitOp
<1>4. CASE o.code # "CLOSE"
  <2>1. /\ WriteOp(o)
        /\ UNCHANGED <<so, slis, plis, req, pool, ticker, remover, open, oev, pkts, inside, acc, told,
                       failed>>
    BY <1>1, <1>4 DEF DeinitOp
  <2> QED
    BY <1>1, <1>3, <2>1, WriteOpInv
<1>5. CASE o.code = "CLOSE"
  <2>1. /\ proxy.st = "DEINIT" /\ p \in proxy.peers
        /\ Detach(p) /\ ticker' = ticker
        /\ proxy' = [proxy EXCEPT !.ops = Tail(@), !.peers = @ \ {p}]
        /\ plis' = [plis EXCEPT ![p] = Unregister(@, "proxy")]
        /\ UNCHANGED <<remover, open, oev, pkts, inside, acc, told, failed>>
    BY <1>1, <1>2, <1>5 DEF DeinitOp
  <2>2. /\ so' \in [Peers -> {"none", "attached", "gone"}]
        /\ so'[p] = "gone" /\ \A q \in Peers : q # p => so'[q] = so[q]
        /\ slis' \in [Peers -> Dispatchers({"peer"})]
    BY <1>3, <2>1, Detached DEF Inv, Membership, ProxyTypes
  <2>3. /\ Tail(proxy.ops) \in Seq(ProxyOps)
        /\ \A i \in 1..Len(Tail(proxy.ops)) : acc[Tail(proxy.ops)[i].peer] = "done"
    BY <1>3, HeadOp DEF Inv
  <2>4. /\ proxy'.st = proxy.st /\ proxy'.ops = Tail(proxy.ops)
        /\ proxy'.peers = proxy.peers \ {p} /\ proxy'.blocked = proxy.blocked
    BY <2>1 DEF Inv, Membership, ProxyTypes
  <2>5. ProxyTypes'
    BY <1>3, <2>1, <2>2, <2>3 DEF Inv, Membership, ProxyTypes
  <2>6. Membership'
    <3>1. \A q \in Peers : q \in proxy.peers => so[q] = "attached" \/ q \in {ticker, remover}
      BY DEF Inv, Membership, MembersAttached
    <3>2. ticker = Nobody
      BY <1>3, <2>1 DEF Inv, Membership, ProxyTypes, Members
    <3>3. remover # Nobody => remover \in Peers /\ so[remover] = "gone" /\ proxy.st = "RUN"
      BY DEF Inv, Membership, ProxyTypes, Members
    <3>4. remover # Nobody => so'[remover] = "gone"
      BY <2>2, <3>3
    <3>5. \A q \in Peers :
            /\ so'[q] = "attached" => q \in proxy'.peers
            /\ so'[q] = "none" => so[q] = "none" /\ q \notin proxy'.peers
            /\ q \in proxy'.peers => so'[q] = "attached" \/ q \in {ticker', remover'}
      BY <1>3, <2>1, <2>2, <2>4, <3>1, <3>2, NamesAssumption DEF Inv, Membership, Members
    <3>6. ticker' # Nobody => proxy'.st = "RUN" /\ so'[ticker'] = "gone"
      BY <2>1, <2>2, <2>4, <3>2
    <3> QED
      BY <2>1, <2>3, <2>4, <2>5, <3>3, <3>4, <3>5, <3>6, MembershipStep DEF Inv, Membership, Members
  <2>7. Delivery'
    BY <2>1, <2>2, <2>4, DeliveryKept DEF Inv, Delivery, EventTypes
  <2>8. Hearing'
    <3>1. /\ plis' \in [Peers -> Dispatchers({"node", "proxy"})]
          /\ \A q \in Peers : Listens(plis'[q], "node") => Listens(plis[q], "node")
      BY <1>3, <2>1, PeerListeners DEF Inv, Hearing, HearingTypes
    <3> QED
      BY <1>3, <2>1, <2>2, <2>4, <3>1, HearingKept DEF Inv
  <2>9. Requesters'
    BY <1>3, <2>1, <2>4, RequestersDetached
  <2> QED
    BY <2>6, <2>7, <2>8, <2>9 DEF Inv
<1> QED
  BY <1>4, <1>5

---------------------------------------------------------------------------
(* The theorems.                                                           *)

\* Nothing has happened at the beginning.
LEMMA InitInv == Init => Inv
<1> SUFFICES ASSUME Init PROVE Inv
  OBVIOUS
<1>1. <<>> \in Seq(ProxyOps) /\ <<>> \in Seq(OrderedEvents) /\ <<>> \in Seq(PacketEvents)
  OBVIOUS
<1>2. Membership
  <2>1. ProxyTypes
    BY <1>1 DEF Init, ProxyTypes
  <2>2. Members /\ MembersAttached
    BY DEF Init, Members, MembersAttached
  <2> QED
    BY <2>1, <2>2 DEF Membership
<1>3. Delivery
  BY <1>1 DEF Init, Delivery, EventTypes, Untouched, Quiet, Deliveries
<1>4. Hearing
  <2>1. Listeners \in Dispatchers({"peer"}) /\ Listeners \in Dispatchers({"node", "proxy"})
    BY DEF Listeners, Dispatchers
  <2>2. [msgs |-> 0, closes |-> 0, late |-> FALSE, early |-> FALSE] \in Histories
    BY DEF Histories
  <2> QED
    BY <2>1, <2>2 DEF Init, Hearing, HearingTypes, Deaf, ToldInOrder
<1>5. Requesters
  <2>1. RequestTypes
    BY DEF Init, RequestTypes, Requests
  <2>2. Once /\ NeverForgotten /\ Owned
    BY NamesAssumption DEF Init, Once, Listed, BeingCalled, Event, Quiet, NeverForgotten, Owned
  <2>3. Answers
    BY DEF Init, Answers, Response, Quiet
  <2> QED
    BY <2>1, <2>2, <2>3 DEF Requesters
<1> QED
  BY <1>2, <1>3, <1>4, <1>5 DEF Inv

\* No step of the sockets, the users, the peers, the nodes and the proxy breaks it.
LEMMA NextInv == Inv /\ [Next]_vars => Inv'
<1> SUFFICES ASSUME Inv, [Next]_vars PROVE Inv'
  OBVIOUS
<1>1. CASE UNCHANGED vars
  <2>1. Membership'
    BY <1>1, MembershipKept DEF Inv, Membership, ProxyTypes, vars
  <2>2. Delivery'
    BY <1>1, DeliveryKept DEF Inv, Delivery, EventTypes, vars
  <2>3. Hearing'
    BY <1>1, HearingKept DEF Inv, Hearing, HearingTypes, vars
  <2>4. Requesters'
    BY <1>1, RequestersKept DEF Inv, Membership, Delivery, Requesters, Answers, vars
  <2> QED
    BY <2>1, <2>2, <2>3, <2>4 DEF Inv
<1>2. ASSUME NEW p \in Peers, World(p) PROVE Inv'
  BY <1>2, SocketClosesInv, SocketShutsDownInv, SocketBlocksInv, PacketArrivesInv, AddPeerInv,
     RemovePeerInv DEF World
<1>3. ASSUME NEW p \in Peers, Deliver(p) PROVE Inv'
  <2>1. CASE OnEventDetached(p)
    BY <2>1, AssertionInv DEF OnEventDetached
  <2> QED
    BY <1>3, <2>1, OnMessageInv, OnMalformedInv, OnResponseInv, OnRespondInv, OnOrderedInv,
       ProxyOnEventInv DEF Deliver
<1>4. ASSUME NEW p \in Peers, Runs(p) PROVE Inv'
  BY <1>4, SocketTriggerInv, PeerCloseInv DEF Runs
<1>5. ASSUME NEW r \in Reqs, Requesting(r) PROVE Inv'
  BY <1>5, RequestEraseInv, RequestSendInv DEF Requesting
<1>6. CASE Update
  <2>1. CASE RemovedTwice
    BY <2>1, AssertionInv DEF RemovedTwice
  <2> QED
    BY <1>6, <2>1, UpdateOpInv, UpdateRemoveInv DEF Update
<1>7. CASE Deinit
  <2>1. CASE DeinitOpTwice
    BY <2>1, AssertionInv DEF DeinitOpTwice
  <2> QED
    BY <1>7, <2>1, DeinitBeginsInv, DeinitOpInv, DeinitDetachInv, DeinitEndsInv, DeinitCloseInv
       DEF Deinit
<1>8. ASSUME NEW p \in Peers,
             \/ OnAccepted(p) \/ PacketTrigger(p) \/ UpdateBlocked(p)
             \/ \E r \in Reqs : RequestPush(r, p)
             \/ \E rs \in SUBSET Reqs : Timeout(p, rs)
      PROVE  Inv'
  BY <1>8, OnAcceptedInv, PacketTriggerInv, UpdateBlockedInv, RequestPushInv, TimeoutInv
<1>9. ASSUME NEW r \in Reqs, ResponseArrives(r) PROVE Inv'
  BY <1>9, ResponseArrivesInv
<1>10. CASE RemoverRemove \/ Stop
  BY <1>10, RemoverRemoveInv, StopInv
<1> QED
  BY <1>1, <1>2, <1>3, <1>4, <1>5, <1>6, <1>7, <1>8, <1>9, <1>10 DEF Next

\* The peers, their events and listeners and the requests keep the invariant, in
\* every behaviour of nodes, proxy, peers and sockets.
THEOREM PeersInductive == Spec => []Inv
BY InitInv, NextInv, PTL DEF Spec

\* A request is answered at most once, by its response, its timeout or the
\* detaching of its socket, and not when request() returned an error; and one
\* that was sent is listed, being answered or answered.
THEOREM OneAnswerHolds == Spec => []OneAnswer
<1>1. Inv => OneAnswer
  <2> SUFFICES ASSUME Inv, NEW r \in Reqs
               PROVE  /\ req[r].cbs + (IF Listed(r) THEN 1 ELSE 0)
                           + (IF BeingCalled(r) THEN 1 ELSE 0) =< 1
                      /\ req[r].at = "error" => req[r].cbs = 0 /\ ~Listed(r) /\ ~BeingCalled(r)
    BY DEF Inv, Requesters, OneAnswer, AnsweredOnce, Listed, BeingCalled
  <2> QED
    BY DEF Inv, Requesters, Once
<1> QED
  BY <1>1, PeersInductive, PTL

\* The proxy's peers have their sockets, as _deinit asserts, and the node hears
\* on_close of a peer once and nothing after it.
THEOREM PeersSoundHolds == Spec => []PeersSound
<1>1. Inv => PeersSound
  <2> SUFFICES ASSUME Inv PROVE PeersSound
    OBVIOUS
  <2>1. MembersAttached /\ ToldInOrder
    BY DEF Inv, Membership, Hearing
  <2>2. TypeOK
    <3>1. proxy.ops \in Seq([code : {"CLOSE", "WR_BLOCK", "WR_UNBLOCK"}, peer : Peers])
      BY DEF Inv, Membership, ProxyTypes, ProxyOps
    <3>2. \A p \in Peers : slis[p].in \subseteq {"peer"} /\ plis[p].in \subseteq {"node", "proxy"}
      BY DEF Inv, Hearing, HearingTypes, Dispatchers
    <3> QED
      BY <3>1, <3>2 DEF Inv, Membership, ProxyTypes, Requesters, RequestTypes, TypeOK
  <2> QED
    BY <2>1, <2>2 DEF PeersSound
<1> QED
  BY <1>1, PeersInductive, PTL

=============================================================================
