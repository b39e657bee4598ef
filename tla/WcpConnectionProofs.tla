------------------------ MODULE WcpConnectionProofs ------------------------
(***************************************************************************)
(* Proofs about WcpConnection, for every set of clients and slots and      *)
(* every environment: one connection per client, made by clients that took *)
(* part in the handshake; the listener keeps to its backlog and leaks      *)
(* nothing; and no WCB comes back once it was closed.                      *)
(***************************************************************************)
EXTENDS WcpConnection, FiniteSetTheorems, TLAPS

---------------------------------------------------------------------------
(* The inductive invariant.                                                *)

\* The states of a slot in backloglist_pending (wcp.cpp:156).
Awaited == {"SYN_RECEIVED", "ESTABLISHED", "CLOSE_WAIT", "CLOSED"}
Held == pending \cup Elements(backlogq) \cup accepted

\* Every open slot is in a list or the application's, or was closed.
SlotsKept ==
  \A s \in Slots : Open(s) => s \in Held \/ (state[s] = "CLOSED" /\ MayRecycle(s))

\* A slot is made once, a client connects once, the ticker is at WCBs that are
\* open, and a WCB that was closed stays so.
Places ==
  /\ \A s \in Slots : /\ state[s] = "FREE" <=> peer[s] = None
                      /\ state[s] \notin {"SYNING", "SYN_SENT"}
  /\ \A s \in Held : state[s] # "FREE"
  /\ \A c \in Clients : /\ state[c] \notin {"FREE", "SYN_RECEIVED"}
                        /\ conn[c] = "no" => state[c] = "CLOSED" /\ flags[c] = {}
  /\ \A w \in Wcbs : /\ tick[Proc(w)].wcb = w => /\ Open(w)
                                                 /\ w \in Clients => conn[w] # "no"
                     /\ "CLOSED_CALLED" \in flags[w] => state[w] \in {"CLOSED", "RECYCLE"}

\* The lists of the listener; what is pending was closed by nobody.
Lists ==
  /\ IsFiniteSet(pending) /\ pending \cap accepted = {}
  /\ BacklogBounded /\ PendingState
  /\ \A s \in pending : "CLOSED_CALLED" \notin flags[s]

\* The application of c has done its part of the handshake, or has written.
Met(c) == c \in Clients /\ (c \in met \/ wrote[c] > 0)

\* What w may put on the wire after its first pack, and when.
Later(p) == p.type \in {"ACK", "DAT", "FIN"} => p.seq >= 1
Genuine(w, p) ==
  /\ Later(p)
  /\ p.type \in {"ACK", "DAT"} /\ w \in Clients => Met(w)
  /\ p.type = "FIN" /\ w \in Slots => w \in accepted

Outgoing(w) == Elements(queued[w]) \cup Elements(sending[w]) \cup flights[w]
Sent == \A w \in Wcbs : \A p \in Outgoing(w) : Genuine(w, p)

OnTheWire ==
  \A c \in Clients : /\ \A p \in up[c] : Later(p) /\ (p.type \in {"ACK", "DAT"} => Met(c))
                     /\ \A p \in down[c] : Later(p)

Received ==
  \A w \in Wcbs : \A p \in rcvd[w] :
    Later(p) /\ (p.type \in {"ACK", "DAT"} /\ w \in Slots => Met(peer[w]))

\* The pass of w does not deliver any more.
Stopped(w) == /\ state[w] \in {"CLOSED", "RECYCLE"}
              /\ tick[Proc(w)].wcb = w => tick[Proc(w)].step \notin {"recv", "deliver"}

\* The handshake of slot s has gone through.
Working(s) == \/ state[s] \notin {"FREE", "SYN_RECEIVED", "CLOSED", "RECYCLE"}
              \/ s \in Elements(backlogq) \cup accepted

\* The first pack of a side is its SYN or SYN|ACK: what comes in after it, and
\* what the applications do, finds it made.
Beginnings ==
  /\ \A w \in Wcbs : sb[w] > 0 => dsn[w] >= 1 /\ (w \in Clients => Met(w))
  /\ \A c \in Clients : /\ conn[c] # "no" => dsn[c] >= 1
                        /\ conn[c] = "no" => rcvNext[c] = 0
                        /\ rcvNext[c] >= 1 => c \in met \/ Stopped(c)
  /\ \A s \in Slots : /\ rcvNext[s] >= 1 => dsn[s] >= 1 \/ Stopped(s)
                      /\ Working(s) => dsn[s] >= 1 /\ Met(peer[s])

Standing == Places /\ OnePerClient /\ Lists /\ SlotsKept
Traffic == Sent /\ OnTheWire /\ Received
Inv == TypeOK /\ env \in Environments /\ Standing /\ Traffic /\ Beginnings

---------------------------------------------------------------------------
(* The tables of check_recv and check_send.                                *)

\* What check_recv makes of a state on an ACK.
LEMMA AckFacts ==
  ASSUME NEW s \in DOMAIN OnAck
  PROVE  /\ s \notin {"FREE", "RECYCLE", "CLOSED", "SYNING"}
         /\ OnAck[s] \in States \ {"FREE", "RECYCLE", "SYNING", "SYN_SENT", "SYN_RECEIVED"}
         /\ s \in Awaited => OnAck[s] \in {"ESTABLISHED", "CLOSE_WAIT"}
<1>1. DOMAIN OnAck = {"SYN_SENT", "SYN_RECEIVED", "FIN_WAIT_1", "LAST_ACK", "CLOSING", "ESTABLISHED",
                      "FIN_WAIT_2", "CLOSE_WAIT", "TIME_WAIT"}
  BY DEF OnAck
<1> QED
  BY <1>1 DEF OnAck, States, Awaited

\* What it makes of a state on a FIN.
LEMMA FinFacts ==
  ASSUME NEW s \in DOMAIN OnFin
  PROVE  /\ s \notin {"FREE", "RECYCLE", "CLOSED", "SYN_RECEIVED"}
         /\ OnFin[s] \in States \ {"FREE", "RECYCLE", "CLOSED", "SYNING", "SYN_SENT", "SYN_RECEIVED"}
         /\ s \in Awaited => OnFin[s] = "CLOSE_WAIT"
<1>1. DOMAIN OnFin = {"ESTABLISHED", "FIN_WAIT_1", "FIN_WAIT_2"}
  BY DEF OnFin
<1> QED
  BY <1>1 DEF OnFin, States, Awaited

\* What check_send makes of a state when it sends the FIN.
LEMMA FinSentFacts ==
  ASSUME NEW s \in DOMAIN OnFinSent
  PROVE  /\ s \in {"ESTABLISHED", "CLOSE_WAIT"}
         /\ OnFinSent[s] \in {"FIN_WAIT_1", "LAST_ACK"}
<1>1. DOMAIN OnFinSent = {"ESTABLISHED", "CLOSE_WAIT"}
  BY DEF OnFinSent
<1> QED
  BY <1>1 DEF OnFinSent

\* The elements of a queue.
LEMMA ElementsAppend ==
  ASSUME NEW S, NEW q \in Seq(S), NEW e
  PROVE  Elements(Append(q, e)) = Elements(q) \cup {e}
<1>1. /\ Len(Append(q, e)) = Len(q) + 1 /\ Append(q, e)[Len(q) + 1] = e
      /\ \A i \in 1..Len(q) : Append(q, e)[i] = q[i]
  OBVIOUS
<1>2. Len(q) \in Nat
  OBVIOUS
<1>3. \A i \in 1..(Len(q) + 1) : i \in 1..Len(q) \/ i = Len(q) + 1
  BY <1>2
<1>4. Elements(Append(q, e)) \subseteq Elements(q) \cup {e}
  BY <1>1, <1>2, <1>3 DEF Elements
<1>5. Elements(q) \subseteq Elements(Append(q, e)) /\ e \in Elements(Append(q, e))
  BY <1>1, <1>2 DEF Elements
<1> QED
  BY <1>4, <1>5

\* check_send and accept take the first element of a queue.
LEMMA ElementsTail ==
  ASSUME NEW S, NEW q \in Seq(S), q # <<>>
  PROVE  /\ Elements(Tail(q)) \subseteq Elements(q) /\ Head(q) \in Elements(q)
         /\ Elements(q) \subseteq Elements(Tail(q)) \cup {Head(q)}
         /\ Tail(q) \in Seq(S) /\ Head(q) \in S
<1>1. /\ Len(q) \in Nat /\ Len(q) > 0 /\ Len(Tail(q)) = Len(q) - 1
      /\ \A i \in 1..(Len(q) - 1) : Tail(q)[i] = q[i + 1]
      /\ Head(q) = q[1] /\ Tail(q) \in Seq(S) /\ Head(q) \in S
  OBVIOUS
<1>2. \A i \in 1..(Len(q) - 1) : Tail(q)[i] = q[i + 1] /\ i + 1 \in 1..Len(q)
  BY <1>1
<1>3. \A i \in 1..Len(q) : i = 1 \/ (i - 1 \in 1..(Len(q) - 1) /\ q[i] = Tail(q)[i - 1])
  BY <1>1
<1>4. Elements(Tail(q)) \subseteq Elements(q)
  BY <1>1, <1>2 DEF Elements
<1>5. Head(q) \in Elements(q)
  BY <1>1 DEF Elements
<1>6. Elements(q) \subseteq Elements(Tail(q)) \cup {Head(q)}
  BY <1>1, <1>3 DEF Elements
<1> QED
  BY <1>1, <1>4, <1>5, <1>6

\* check_send empties one queue into another.
LEMMA ElementsConcat ==
  ASSUME NEW S, NEW q \in Seq(S), NEW r \in Seq(S)
  PROVE  Elements(q \o r) = Elements(q) \cup Elements(r) /\ q \o r \in Seq(S)
<1>1. /\ Len(q) \in Nat /\ Len(r) \in Nat /\ Len(q \o r) = Len(q) + Len(r) /\ q \o r \in Seq(S)
      /\ \A i \in 1..(Len(q) + Len(r)) : (q \o r)[i] = IF i <= Len(q) THEN q[i] ELSE r[i - Len(q)]
  OBVIOUS
<1>2. \A i \in 1..Len(q) : (q \o r)[i] = q[i] /\ i \in 1..(Len(q) + Len(r))
  BY <1>1
<1>3. \A i \in 1..Len(r) : (q \o r)[Len(q) + i] = r[i] /\ Len(q) + i \in 1..(Len(q) + Len(r))
  BY <1>1
<1>4. \A i \in 1..(Len(q) + Len(r)) : i \in 1..Len(q) \/ i - Len(q) \in 1..Len(r)
  BY <1>1
<1>5. Elements(q \o r) \subseteq Elements(q) \cup Elements(r)
  BY <1>1, <1>4 DEF Elements
<1>6. Elements(q) \subseteq Elements(q \o r)
  BY <1>1, <1>2 DEF Elements
<1>7. Elements(r) \subseteq Elements(q \o r)
  BY <1>1, <1>3 DEF Elements
<1> QED
  BY <1>1, <1>5, <1>6, <1>7

\* The queues of a WCB are made of its own packs.
LEMMA ElementsTyped ==
  ASSUME NEW S, NEW q \in Seq(S)
  PROVE  Elements(q) \subseteq S
BY DEF Elements

---------------------------------------------------------------------------
(* Steps that keep a part of the invariant.                                *)

\* A state changes as the passes and calls change it: never by itself out of
\* CLOSED, and in backloglist_pending to a state the listener handles.
KeepsPlace(v) ==
  \/ state'[v] = state[v]
  \/ /\ state[v] \notin {"FREE", "RECYCLE", "CLOSED"}
     /\ state'[v] \notin {"FREE", "RECYCLE", "SYNING", "SYN_RECEIVED"}
     /\ v \in Slots => state'[v] # "SYN_SENT"
     /\ v \in pending => state'[v] \in Awaited

\* Only a WCB at work gets the ticker.
KeepsTicker(v) ==
  tick'[Proc(v)].wcb = v => \/ tick[Proc(v)].wcb = v
                            \/ Open(v) /\ (v \in Clients => conn[v] # "no")

KeepsFlags(v) ==
  /\ flags[v] \ {"FIN_READ"} \subseteq flags'[v]
  /\ "CLOSED_CALLED" \in flags'[v] => \/ "CLOSED_CALLED" \in flags[v]
                                      \/ state'[v] = "CLOSED" /\ v \notin pending
  /\ v \in Clients /\ conn[v] = "no" => flags'[v] = flags[v]

\* Steps of the passes and the calls that leave the listener's lists alone.
StandingStep ==
  /\ UNCHANGED <<pending, backlogq, peer, tuples, accepted, env>>
  /\ \A c \in Clients : conn'[c] = "no" <=> conn[c] = "no"
  /\ \A v \in Wcbs : KeepsPlace(v) /\ KeepsTicker(v) /\ KeepsFlags(v)

\* They keep what is said of states, tickers and lists.
LEMMA StandingKept ==
  ASSUME TypeOK, Standing, TypeOK', StandingStep
  PROVE  Standing'
<1>1. \A v \in Wcbs : /\ (Open(v))' <=> Open(v)
                      /\ state'[v] = "FREE" <=> state[v] = "FREE"
                      /\ state[v] = "CLOSED" => state'[v] = "CLOSED"
                      /\ state[v] = "RECYCLE" => state'[v] = "RECYCLE"
  BY DEF StandingStep, KeepsPlace, Open
<1>2. Clients \subseteq Wcbs /\ Slots \subseteq Wcbs
  BY DEF Wcbs
<1>3. Held' = Held /\ Held \subseteq Slots
  BY ElementsTyped DEF StandingStep, Held, Elements, TypeOK
<1>4. Places'
  <2>1. \A s \in Slots : /\ state'[s] = "FREE" <=> peer'[s] = None
                         /\ state'[s] \notin {"SYNING", "SYN_SENT"}
    BY <1>1, <1>2 DEF StandingStep, Standing, Places, KeepsPlace
  <2>2. \A s \in Held' : state'[s] # "FREE"
    BY <1>1, <1>2, <1>3 DEF Standing, Places
  <2>3. \A c \in Clients : /\ state'[c] \notin {"FREE", "SYN_RECEIVED"}
                           /\ conn'[c] = "no" => state'[c] = "CLOSED" /\ flags'[c] = {}
    BY <1>1, <1>2 DEF StandingStep, Standing, Places, KeepsPlace, KeepsFlags
  <2>4. \A w \in Wcbs : tick'[Proc(w)].wcb = w => (Open(w))' /\ (w \in Clients => conn'[w] # "no")
    BY <1>1 DEF StandingStep, Standing, Places, KeepsTicker
  <2>5. \A w \in Wcbs : "CLOSED_CALLED" \in flags'[w] => state'[w] \in {"CLOSED", "RECYCLE"}
    BY <1>1 DEF StandingStep, Standing, Places, KeepsFlags
  <2> QED
    BY <2>1, <2>2, <2>3, <2>4, <2>5 DEF Places, Proc
<1>5. OnePerClient'
  BY <1>1, <1>2 DEF StandingStep, Standing, OnePerClient
<1>6. Lists'
  <2>1. PendingState'
    BY <1>2 DEF StandingStep, Standing, Lists, PendingState, KeepsPlace, Awaited, TypeOK
  <2>2. \A s \in pending' : "CLOSED_CALLED" \notin flags'[s]
    BY <1>2 DEF StandingStep, Standing, Lists, KeepsFlags, TypeOK
  <2> QED
    BY <2>1, <2>2 DEF StandingStep, Standing, Lists, BacklogBounded
<1>7. SlotsKept'
  <2> SUFFICES ASSUME NEW s \in Slots, Open(s)
               PROVE  s \in Held \/ (state'[s] = "CLOSED" /\ (MayRecycle(s))')
    BY <1>1, <1>2, <1>3 DEF SlotsKept, Held
  <2>1. CASE s \in Held
    BY <2>1
  <2>2. CASE state[s] = "CLOSED" /\ MayRecycle(s)
    BY <1>1, <1>2, <2>2 DEF StandingStep, KeepsFlags, MayRecycle
  <2> QED
    BY <2>1, <2>2 DEF Standing, SlotsKept, Held
<1> QED
  BY <1>4, <1>5, <1>6, <1>7 DEF Standing

\* A notification only wakes a connect that waits.
LEMMA NotifyKeeps ==
  ASSUME TypeOK, NEW w, NEW cond, NotifyIf(w, cond) \/ Notify(w)
  PROVE  /\ conn' \in [Clients -> {"no", "wait", "woken", "done", "failed"}]
         /\ \A c \in Clients : conn'[c] = "no" <=> conn[c] = "no"
  BY DEF TypeOK, NotifyIf, Notify

\* Everything that is put into a queue, on the wire or into rcv_received is
\* genuine, and what is there stays so.
MetGrows ==
  /\ met \subseteq met' /\ accepted \subseteq accepted'
  /\ \A c \in Clients : wrote'[c] >= wrote[c]

TrafficStep ==
  /\ MetGrows
  /\ \A v \in Wcbs : \A p \in (Outgoing(v))' : p \in Outgoing(v) \/ (Genuine(v, p))'
  /\ \A c \in Clients : \A p \in up'[c] : p \in up[c] \/ (Later(p) /\ (p.type \in {"ACK", "DAT"} => (Met(c))'))
  /\ \A c \in Clients : \A p \in down'[c] : p \in down[c] \/ Later(p)
  /\ \A v \in Wcbs : \A p \in rcvd'[v] :
       \/ p \in rcvd[v] /\ (v \in Slots => peer'[v] = peer[v])
       \/ Later(p) /\ (p.type \in {"ACK", "DAT"} /\ v \in Slots => (Met(peer[v]))')

\* Who has met the other side has done so for good.
LEMMA MetKept ==
  ASSUME TypeOK, TypeOK', MetGrows
  PROVE  \A c : Met(c) => (Met(c))'
<1> SUFFICES ASSUME NEW c, Met(c)
             PROVE  c \in met' \/ wrote'[c] > 0
  BY DEF Met
<1>1. c \in Clients /\ wrote[c] \in Nat /\ wrote'[c] \in Nat
  BY SizesAssumption DEF Met, TypeOK, Wcbs
<1> QED
  BY <1>1 DEF Met, MetGrows

\* Such steps keep what is said of packs.
LEMMA TrafficKept ==
  ASSUME TypeOK, TypeOK', Traffic, TrafficStep
  PROVE  Traffic'
<1>1. \A c : Met(c) => (Met(c))'
  BY MetKept DEF TrafficStep
<1>2. \A v, p : Genuine(v, p) => (Genuine(v, p))'
  BY <1>1 DEF Genuine, Later, TrafficStep, MetGrows
<1>3. Sent'
  BY <1>2 DEF Traffic, Sent, TrafficStep
<1>4. OnTheWire'
  BY <1>1 DEF Traffic, OnTheWire, TrafficStep, Later
<1>5. Received'
  BY <1>1 DEF Traffic, Received, TrafficStep, Later
<1> QED
  BY <1>3, <1>4, <1>5 DEF Traffic

\* Numbers are only given out, and a WCB receives in its pass.
BeginningsStep ==
  /\ MetGrows
  /\ UNCHANGED peer
  /\ \A c \in Clients : conn'[c] = "no" <=> conn[c] = "no"
  /\ \A v \in Wcbs : /\ dsn'[v] >= dsn[v]
                     /\ sb'[v] > 0 => sb[v] > 0 \/ (dsn'[v] >= 1 /\ (v \in Clients => (Met(v))'))
                     /\ Stopped(v) => (Stopped(v))'
  /\ \A c \in Clients : \/ rcvNext'[c] = rcvNext[c]
                        \/ conn[c] # "no" /\ (c \in met' \/ (Stopped(c))')
  /\ \A s \in Slots : /\ rcvNext'[s] = rcvNext[s] \/ dsn'[s] >= 1 \/ (Stopped(s))'
                      /\ (Working(s))' => Working(s) \/ (dsn'[s] >= 1 /\ (Met(peer[s]))')

\* Such steps keep what is said of the first packs.
LEMMA BeginningsKept ==
  ASSUME TypeOK, TypeOK', Beginnings, BeginningsStep
  PROVE  Beginnings'
<1>1. \A c : Met(c) => (Met(c))'
  BY MetKept DEF BeginningsStep
<1>2. \A v \in Wcbs : dsn[v] \in Nat /\ dsn'[v] \in Nat
  BY DEF TypeOK
<1>3. \A v \in Wcbs : dsn[v] >= 1 => dsn'[v] >= 1
  BY <1>2 DEF BeginningsStep
<1>4. Clients \subseteq Wcbs /\ Slots \subseteq Wcbs
  BY DEF Wcbs
<1>5. \A w \in Wcbs : sb'[w] > 0 => dsn'[w] >= 1 /\ (w \in Clients => (Met(w))')
  BY <1>1, <1>3 DEF Beginnings, BeginningsStep
<1>6. \A c \in Clients : /\ conn'[c] # "no" => dsn'[c] >= 1
                         /\ conn'[c] = "no" => rcvNext'[c] = 0
                         /\ rcvNext'[c] >= 1 => c \in met' \/ (Stopped(c))'
  BY <1>3, <1>4 DEF Beginnings, BeginningsStep, MetGrows
<1>7. \A s \in Slots : /\ rcvNext'[s] >= 1 => dsn'[s] >= 1 \/ (Stopped(s))'
                       /\ (Working(s))' => dsn'[s] >= 1 /\ (Met(peer[s]))'
  BY <1>1, <1>3, <1>4 DEF Beginnings, BeginningsStep
<1> QED
  BY <1>5, <1>6, <1>7 DEF Beginnings

---------------------------------------------------------------------------
(* Facts about the pass of a WCB.                                          *)

Steps == {"idle", "recv", "deliver", "swap", "flights", "send", "move", "pack"}

\* A WCB belongs to a client or to the server's process.
LEMMA WcbFacts ==
  ASSUME NEW w \in Wcbs
  PROVE  /\ w \in Clients <=> w \notin Slots
         /\ Proc(w) \in Procs /\ w # None /\ w # Server
         /\ w \in Clients => Proc(w) = w
         /\ w \in Slots => Proc(w) = Server
BY NamesAssumption DEF Wcbs, Procs, Proc

\* The ticker goes on to the next step of a pass.
LEMMA GoToFacts ==
  ASSUME TypeOK, NEW w \in Wcbs, NEW s \in Steps, GoTo(w, s)
  PROVE  /\ tick' \in [Procs -> [wcb : Wcbs \cup {None}, step : Steps]]
         /\ \A v \in Wcbs : \/ v # w /\ tick'[Proc(v)].wcb # v
                            \/ v # w /\ tick'[Proc(v)] = tick[Proc(v)]
                            \/ v = w /\ tick'[Proc(v)].wcb = v /\ tick'[Proc(v)].step = s
<1>1. Proc(w) \in Procs
  BY WcbFacts
<1>2. tick \in [Procs -> [wcb : Wcbs \cup {None}, step : Steps]]
  BY DEF TypeOK, Steps
<1>3. tick' = [tick EXCEPT ![Proc(w)] = [wcb |-> w, step |-> s]]
  BY DEF GoTo
<1>4. tick'[Proc(w)] = [wcb |-> w, step |-> s]
  BY <1>1, <1>2, <1>3
<1>5. \A v \in Wcbs : Proc(v) # Proc(w) => tick'[Proc(v)] = tick[Proc(v)]
  BY <1>2, <1>3, WcbFacts
<1>6. tick' \in [Procs -> [wcb : Wcbs \cup {None}, step : Steps]]
  BY <1>1, <1>2, <1>3
<1> QED
  BY <1>4, <1>5, <1>6

\* The ticker leaves a WCB.
LEMMA EndPassFacts ==
  ASSUME TypeOK, NEW w \in Wcbs, EndPass(w)
  PROVE  /\ tick' \in [Procs -> [wcb : Wcbs \cup {None}, step : Steps]]
         /\ \A v \in Wcbs : tick'[Proc(v)].wcb # v \/ tick'[Proc(v)] = tick[Proc(v)]
<1>1. Proc(w) \in Procs
  BY WcbFacts
<1>2. tick \in [Procs -> [wcb : Wcbs \cup {None}, step : Steps]]
  BY DEF TypeOK, Steps
<1>3. tick' = [tick EXCEPT ![Proc(w)] = [wcb |-> None, step |-> "idle"]]
  BY DEF EndPass, IdleTick
<1>4. tick'[Proc(w)] = [wcb |-> None, step |-> "idle"]
  BY <1>1, <1>2, <1>3
<1>5. \A v \in Wcbs : Proc(v) # Proc(w) => tick'[Proc(v)] = tick[Proc(v)]
  BY <1>2, <1>3, WcbFacts
<1>6. tick' \in [Procs -> [wcb : Wcbs \cup {None}, step : Steps]]
  BY <1>1, <1>2, <1>3 DEF Steps
<1> QED
  BY <1>4, <1>5, <1>6, WcbFacts

\* What is known of a WCB in its pass: it is open, a client has connected, a slot
\* has a client; and one that delivers a later pack has made its own first one.
LEMMA AtFacts ==
  ASSUME Inv, NEW w \in Wcbs, NEW s, At(w, s)
  PROVE  /\ tick[Proc(w)].wcb = w /\ tick[Proc(w)].step = s
         /\ Open(w)
         /\ w \in Clients => conn[w] # "no" /\ dsn[w] >= 1 /\ state[w] # "SYN_RECEIVED"
         /\ w \in Slots => peer[w] \in Clients /\ state[w] \notin {"SYNING", "SYN_SENT"}
         /\ s = "deliver" /\ rcvNext[w] >= 1 => dsn[w] >= 1 /\ (w \in Clients => w \in met)
<1>1. tick[Proc(w)].wcb = w /\ tick[Proc(w)].step = s
  BY DEF At
<1>2. Open(w) /\ (w \in Clients => conn[w] # "no" /\ state[w] # "SYN_RECEIVED")
  BY <1>1 DEF Inv, Standing, Places
<1>3. w \in Clients => dsn[w] >= 1
  BY <1>2 DEF Inv, Beginnings
<1>4. w \in Slots => peer[w] \in Clients /\ state[w] \notin {"SYNING", "SYN_SENT"}
  BY <1>2 DEF Inv, Standing, Places, TypeOK, Open
<1>5. s = "deliver" => ~Stopped(w)
  BY <1>1 DEF Stopped
<1>6. s = "deliver" /\ rcvNext[w] >= 1 => dsn[w] >= 1 /\ (w \in Clients => w \in met)
  BY <1>3, <1>5, WcbFacts DEF Inv, Beginnings
<1> QED
  BY <1>1, <1>2, <1>3, <1>4, <1>6

\* The packs that a WCB puts on the wire.
LEMMA InjectFacts ==
  ASSUME TypeOK, NEW w \in Wcbs, NEW packs \in SUBSET Packs, Inject(w, packs),
         w \in Slots => peer[w] \in Clients
  PROVE  /\ up' \in [Clients -> SUBSET Packs] /\ down' \in [Clients -> SUBSET Packs]
         /\ \A c \in Clients : \A p \in up'[c] : p \in up[c] \/ (w = c /\ p \in packs)
         /\ \A c \in Clients : \A p \in down'[c] : p \in down[c] \/ (w \in Slots /\ p \in packs)
<1>1. up \in [Clients -> SUBSET Packs] /\ down \in [Clients -> SUBSET Packs]
  BY DEF TypeOK
<1>2. CASE w \in Clients
  <2>1. up' = [up EXCEPT ![w] = up[w] \cup packs] /\ down' = down
    BY <1>2 DEF Inject
  <2>2. \A c \in Clients : up'[c] = IF c = w THEN up[w] \cup packs ELSE up[c]
    BY <1>1, <2>1
  <2>3. up' \in [Clients -> SUBSET Packs]
    BY <1>1, <1>2, <2>1
  <2> QED
    BY <1>1, <2>1, <2>2, <2>3
<1>3. CASE w \notin Clients
  <2>1. w \in Slots /\ peer[w] \in Clients
    BY <1>3, WcbFacts
  <2>2. down' = [down EXCEPT ![peer[w]] = down[peer[w]] \cup packs] /\ up' = up
    BY <1>3 DEF Inject
  <2>3. \A c \in Clients : down'[c] = IF c = peer[w] THEN down[peer[w]] \cup packs ELSE down[c]
    BY <1>1, <2>2
  <2>4. down' \in [Clients -> SUBSET Packs]
    BY <1>1, <2>1, <2>2
  <2> QED
    BY <1>1, <2>1, <2>2, <2>3, <2>4
<1> QED
  BY <1>2, <1>3

\* A pack is put into s_sending_standby.
LEMMA QueueFacts ==
  ASSUME TypeOK, NEW w \in Wcbs, NEW t \in Types, Queue(w, t)
  PROVE  /\ queued' \in [Wcbs -> Seq(SndPacks)]
         /\ dsn' \in [Wcbs -> Nat] /\ dsn'[w] >= 1
         /\ \A v \in Wcbs : dsn'[v] >= dsn[v]
         /\ \A v \in Wcbs : \A p \in Elements(queued'[v]) :
              p \in Elements(queued[v]) \/ (v = w /\ p = [type |-> t, seq |-> dsn[w]])
<1>1. PICK e : e = [type |-> t, seq |-> dsn[w]]
  OBVIOUS
<1>2. e \in SndPacks
  BY <1>1 DEF TypeOK, SndPacks
<1>3. queued[w] \in Seq(SndPacks) /\ queued' = [queued EXCEPT ![w] = Append(queued[w], e)]
  BY <1>1 DEF Queue, TypeOK
<1>4. Append(queued[w], e) \in Seq(SndPacks)
  BY <1>2, <1>3
<1>5. queued' \in [Wcbs -> Seq(SndPacks)]
  BY <1>3, <1>4 DEF TypeOK
<1>6. Elements(Append(queued[w], e)) = Elements(queued[w]) \cup {e}
  BY <1>3, ElementsAppend
<1>7. \A v \in Wcbs : queued'[v] = IF v = w THEN Append(queued[w], e) ELSE queued[v]
  BY <1>3 DEF TypeOK
<1>8. /\ dsn' \in [Wcbs -> Nat] /\ dsn'[w] >= 1
      /\ \A v \in Wcbs : dsn'[v] >= dsn[v]
  <2>1. dsn \in [Wcbs -> Nat] /\ dsn' = [dsn EXCEPT ![w] = dsn[w] + 1]
    BY DEF Queue, TypeOK
  <2>2. dsn[w] \in Nat /\ dsn'[w] = dsn[w] + 1
    BY <2>1
  <2>3. \A v \in Wcbs : dsn[v] \in Nat /\ (v # w => dsn'[v] = dsn[v])
    BY <2>1
  <2> QED
    BY <2>1, <2>2, <2>3
<1>9. \A v \in Wcbs : \A p \in Elements(queued'[v]) :
        p \in Elements(queued[v]) \/ (v = w /\ p = [type |-> t, seq |-> dsn[w]])
  BY <1>1, <1>6, <1>7
<1> QED
  BY <1>5, <1>8, <1>9

---------------------------------------------------------------------------
(* The steps of a pass.                                                    *)

\* The ticker stays, goes on or leaves: it gets to no WCB that is not at work,
\* and a WCB that stopped receiving does not begin again.
TickerStep == \A v \in Wcbs : KeepsTicker(v) /\ (Stopped(v) => (Stopped(v))')

\* So in a pass.
LEMMA PassTicker ==
  ASSUME Inv, NEW w \in Wcbs, NEW s \in Steps, NEW s0, At(w, s0), GoTo(w, s) \/ EndPass(w) \/ tick' = tick,
         s \in {"recv", "deliver"} => s0 \in {"recv", "deliver"},
         \A v \in Wcbs : KeepsPlace(v)
  PROVE  TickerStep
<1>1. TypeOK
  BY DEF Inv
<1>2. tick[Proc(w)].wcb = w /\ tick[Proc(w)].step = s0
  BY AtFacts
<1>3. \A v \in Wcbs : \/ v = w /\ tick'[Proc(v)].wcb = v /\ tick'[Proc(v)].step = s
                      \/ tick'[Proc(v)].wcb # v
                      \/ tick'[Proc(v)] = tick[Proc(v)]
  BY <1>1, GoToFacts, EndPassFacts
<1> SUFFICES ASSUME NEW v \in Wcbs
             PROVE  KeepsTicker(v) /\ (Stopped(v) => (Stopped(v))')
  BY DEF TickerStep
<1>4. KeepsTicker(v)
  BY <1>2, <1>3 DEF KeepsTicker
<1>5. state[v] \in {"CLOSED", "RECYCLE"} => state'[v] \in {"CLOSED", "RECYCLE"}
  BY DEF KeepsPlace
<1>6. (Stopped(v))' <=> /\ state'[v] \in {"CLOSED", "RECYCLE"}
                        /\ tick'[Proc(v)].wcb = v => tick'[Proc(v)].step \notin {"recv", "deliver"}
  BY DEF Stopped, Proc
<1>7. Stopped(v) => (Stopped(v))'
  BY <1>2, <1>3, <1>5, <1>6 DEF Stopped
<1> QED
  BY <1>4, <1>7

\* The same where the ticker is elsewhere.
LEMMA CallTicker ==
  ASSUME tick' = tick, \A v \in Wcbs : KeepsPlace(v)
  PROVE  TickerStep
<1> SUFFICES ASSUME NEW v \in Wcbs
             PROVE  KeepsTicker(v) /\ (Stopped(v) => (Stopped(v))')
  BY DEF TickerStep
<1>1. state[v] \in {"CLOSED", "RECYCLE"} => state'[v] \in {"CLOSED", "RECYCLE"}
  BY DEF KeepsPlace
<1> QED
  BY <1>1 DEF KeepsTicker, Stopped, Proc

\* The head of WCB::update: the pass of a WCB begins.
LEMMA BeginPassInv ==
  ASSUME Inv, NEW w \in Wcbs, BeginPass(w), UNCHANGED env
  PROVE  Inv'
<1>1. TypeOK /\ state[w] \notin {"FREE", "RECYCLE", "CLOSED"}
  BY DEF Inv, BeginPass, Carrying, Finishing
<1>2. PICK s \in {"flights", "recv"} : GoTo(w, s)
  BY DEF BeginPass
<1>3. /\ tick' \in [Procs -> [wcb : Wcbs \cup {None}, step : Steps]]
      /\ \A v \in Wcbs : v # w => tick'[Proc(v)].wcb # v \/ tick'[Proc(v)] = tick[Proc(v)]
  BY <1>1, <1>2, GoToFacts DEF Steps
<1>4. TypeOK'
  BY <1>1, <1>3 DEF TypeOK, BeginPass, sndVars, rcvVars, netVars, lisVars, appVars, Steps
<1>5. \A v \in Wcbs : KeepsPlace(v)
  BY DEF KeepsPlace, BeginPass
<1>6. TickerStep
  <2> SUFFICES ASSUME NEW v \in Wcbs
               PROVE  KeepsTicker(v) /\ (Stopped(v) => (Stopped(v))')
    BY DEF TickerStep
  <2>1. KeepsTicker(v)
    BY <1>1, <1>3 DEF KeepsTicker, Open, Inv, Standing, Places
  <2>2. (Stopped(v))' <=> /\ state'[v] \in {"CLOSED", "RECYCLE"}
                          /\ tick'[Proc(v)].wcb = v => tick'[Proc(v)].step \notin {"recv", "deliver"}
    BY DEF Stopped, Proc
  <2>3. Stopped(v) => (Stopped(v))'
    BY <1>1, <1>3, <2>2 DEF Stopped, BeginPass
  <2> QED
    BY <2>1, <2>3
<1>7. Standing'
  <2>1. StandingStep
    BY <1>5, <1>6 DEF StandingStep, KeepsFlags, TickerStep, BeginPass, lisVars, appVars, Inv, Standing, Places
  <2> QED
    BY <1>1, <1>4, <2>1, StandingKept DEF Inv
<1>8. Traffic'
  <2>1. TrafficStep
    BY <1>1 DEF TrafficStep, MetGrows, Outgoing, Elements, BeginPass, sndVars, rcvVars, netVars, lisVars, appVars, TypeOK, Wcbs
  <2> QED
    BY <1>1, <1>4, <2>1, TrafficKept DEF Inv
<1>9. Beginnings'
  <2>1. BeginningsStep
    BY <1>1, <1>6 DEF BeginningsStep, TickerStep, MetGrows, Working, Elements, BeginPass, sndVars, rcvVars, lisVars,
                      appVars, TypeOK, Wcbs
  <2> QED
    BY <1>1, <1>4, <2>1, BeginningsKept DEF Inv
<1> QED
  BY <1>4, <1>7, <1>8, <1>9 DEF Inv

\* A timer of the state has run out, or an error is known: the WCB is closed.
LEMMA ExpireInv ==
  ASSUME Inv, NEW w \in Wcbs, Expire(w), UNCHANGED env
  PROVE  Inv'
<1>1. /\ TypeOK
      /\ conn' \in [Clients -> {"no", "wait", "woken", "done", "failed"}]
      /\ \A c \in Clients : conn'[c] = "no" <=> conn[c] = "no"
  BY NotifyKeeps DEF Inv, Expire
<1>2. state[w] \notin {"FREE", "RECYCLE", "CLOSED"}
  BY DEF Expire, Carrying, Finishing
<1>3. TypeOK'
  BY <1>1, <1>2 DEF TypeOK, Expire, sndVars, rcvVars, netVars, lisVars, appVars, procVars, Steps, ExpiredErrno, States
<1>4. \A v \in Wcbs : KeepsPlace(v)
  BY <1>1, <1>2 DEF KeepsPlace, Expire, TypeOK, Open, Awaited
<1>5. TickerStep
  BY <1>1, <1>2, <1>4, CallTicker DEF Expire, procVars
<1>6. Standing'
  <2>1. StandingStep
    BY <1>1, <1>2, <1>4, <1>5 DEF StandingStep, KeepsFlags, TickerStep, Expire, lisVars, appVars,
      Inv, TypeOK, Standing, Places, Wcbs
  <2> QED
    BY <1>1, <1>2, <1>3, <2>1, StandingKept DEF Inv
<1>7. Traffic'
  <2>1. TrafficStep
    BY <1>1, <1>2 DEF TrafficStep, MetGrows, Outgoing, Elements, Expire, sndVars, rcvVars, netVars, lisVars, appVars, procVars, TypeOK, Wcbs
  <2> QED
    BY <1>1, <1>2, <1>3, <2>1, TrafficKept DEF Inv
<1>8. Beginnings'
  <2>1. \A s \in Slots : (Working(s))' => Working(s)
    BY <1>1, <1>2 DEF Working, Elements, Expire, lisVars, appVars, TypeOK, Wcbs
  <2>2. BeginningsStep
    BY <1>1, <1>2, <1>5, <2>1 DEF BeginningsStep, TickerStep, MetGrows, Expire, sndVars, rcvVars, netVars, lisVars, appVars, procVars,
      TypeOK, Wcbs
  <2> QED
    BY <1>1, <1>2, <1>3, <2>2, BeginningsKept DEF Inv
<1> QED
  BY <1>3, <1>6, <1>7, <1>8 DEF Inv

\* Nothing is left to deliver.
LEMMA DeliverEndInv ==
  ASSUME Inv, NEW w \in Wcbs, DeliverEnd(w), UNCHANGED env
  PROVE  Inv'
<1>1. TypeOK
  BY DEF Inv
<1>2. /\ At(w, "deliver")
      /\ GoTo(w, "swap") /\ "swap" \in Steps
  BY DEF DeliverEnd, Steps
<1>3. tick' \in [Procs -> [wcb : Wcbs \cup {None}, step : Steps]]
  BY <1>1, <1>2, GoToFacts
<1>4. TypeOK'
  BY <1>1, <1>2, <1>3 DEF TypeOK, DeliverEnd, sndVars, rcvVars, netVars, lisVars, appVars, procVars, Steps
<1>5. \A v \in Wcbs : KeepsPlace(v)
  BY <1>1, <1>2, <1>3 DEF KeepsPlace, DeliverEnd, TypeOK, Open
<1>6. TickerStep
  BY <1>1, <1>2, <1>3, <1>5, PassTicker
<1>7. Standing'
  <2>1. StandingStep
    BY <1>1, <1>2, <1>3, <1>5, <1>6 DEF StandingStep, KeepsFlags, TickerStep, DeliverEnd, lisVars, appVars,
      Inv, TypeOK, Standing, Places, Wcbs
  <2> QED
    BY <1>1, <1>2, <1>3, <1>4, <2>1, StandingKept DEF Inv
<1>8. Traffic'
  <2>1. TrafficStep
    BY <1>1, <1>2, <1>3 DEF TrafficStep, MetGrows, Outgoing, Elements, DeliverEnd, sndVars, rcvVars, netVars, lisVars, appVars, procVars, TypeOK, Wcbs
  <2> QED
    BY <1>1, <1>2, <1>3, <1>4, <2>1, TrafficKept DEF Inv
<1>9. Beginnings'
  <2>1. \A s \in Slots : (Working(s))' => Working(s)
    BY <1>1, <1>2, <1>3 DEF Working, Elements, DeliverEnd, lisVars, appVars, TypeOK, Wcbs
  <2>2. BeginningsStep
    BY <1>1, <1>2, <1>3, <1>6, <2>1 DEF BeginningsStep, TickerStep, MetGrows, DeliverEnd, sndVars, rcvVars, netVars, lisVars, appVars, procVars,
      TypeOK, Wcbs
  <2> QED
    BY <1>1, <1>2, <1>3, <1>4, <2>2, BeginningsKept DEF Inv
<1> QED
  BY <1>4, <1>7, <1>8, <1>9 DEF Inv

\* The tail of check_recv.
LEMMA SwapInv ==
  ASSUME Inv, NEW w \in Wcbs, Swap(w), UNCHANGED env
  PROVE  Inv'
<1>1. /\ TypeOK
      /\ conn' \in [Clients -> {"no", "wait", "woken", "done", "failed"}]
      /\ \A c \in Clients : conn'[c] = "no" <=> conn[c] = "no"
  BY NotifyKeeps DEF Inv, Swap
<1>2. /\ At(w, "swap")
      /\ GoTo(w, "flights") /\ "flights" \in Steps
  BY DEF Swap, Steps
<1>3. tick' \in [Procs -> [wcb : Wcbs \cup {None}, step : Steps]]
  BY <1>1, <1>2, GoToFacts
<1>4. rb' \in [Wcbs -> Nat] /\ standby' \in [Wcbs -> Nat]
  <2>1. rb[w] \in Nat /\ standby[w] \in Nat
    BY <1>1 DEF TypeOK
  <2>2. CASE rb[w] = 0
    <3>1. rb' = [rb EXCEPT ![w] = standby[w]] /\ standby' = [standby EXCEPT ![w] = 0]
      BY <2>2 DEF Swap
    <3> QED
      BY <1>1, <2>1, <3>1 DEF TypeOK
  <2>3. CASE rb[w] # 0
    BY <1>1, <2>3 DEF Swap, TypeOK
  <2> QED
    BY <2>2, <2>3
<1>5. TypeOK'
  BY <1>1, <1>2, <1>3, <1>4 DEF TypeOK, Swap, sndVars, rcvVars, netVars, lisVars, appVars, procVars, Steps
<1>6. \A v \in Wcbs : KeepsPlace(v)
  BY <1>1, <1>2, <1>3, <1>4 DEF KeepsPlace, Swap, TypeOK, Open
<1>7. TickerStep
  BY <1>1, <1>2, <1>3, <1>4, <1>6, PassTicker
<1>8. Standing'
  <2>1. StandingStep
    BY <1>1, <1>2, <1>3, <1>4, <1>6, <1>7 DEF StandingStep, KeepsFlags, TickerStep, Swap, lisVars, appVars,
      Inv, TypeOK, Standing, Places, Wcbs
  <2> QED
    BY <1>1, <1>2, <1>3, <1>4, <1>5, <2>1, StandingKept DEF Inv
<1>9. Traffic'
  <2>1. UNCHANGED <<queued, sending, flights, up, down, rcvd, peer, met, wrote, accepted>>
    BY DEF Swap, sndVars, netVars, lisVars
  <2>2. TrafficStep
    BY <1>1, <2>1 DEF TrafficStep, MetGrows, Outgoing, Elements, TypeOK, Wcbs
  <2> QED
    BY <1>1, <1>2, <1>3, <1>4, <1>5, <2>2, TrafficKept DEF Inv
<1>10. Beginnings'
  <2>1. \A s \in Slots : (Working(s))' => Working(s)
    BY <1>1, <1>2, <1>3, <1>4 DEF Working, Elements, Swap, lisVars, appVars, TypeOK, Wcbs
  <2>2. BeginningsStep
    BY <1>1, <1>2, <1>3, <1>4, <1>7, <2>1 DEF BeginningsStep, TickerStep, MetGrows, Swap, sndVars, rcvVars, netVars, lisVars, appVars, procVars,
      TypeOK, Wcbs
  <2> QED
    BY <1>1, <1>2, <1>3, <1>4, <1>5, <2>2, BeginningsKept DEF Inv
<1> QED
  BY <1>5, <1>8, <1>9, <1>10 DEF Inv

\* The packs of a batch are filed under their numbers.
LEMMA CheckRecvInv ==
  ASSUME Inv, NEW w \in Wcbs, NEW batch \in SUBSET OnTheWay(w), state[w] # "FREE",
         CheckRecv(w, batch), UNCHANGED env
  PROVE  Inv'
<1>1. TypeOK
  BY DEF Inv
<1>2. At(w, "recv")
  BY DEF CheckRecv
<1>3. PICK s \in {"deliver", "swap"} : GoTo(w, s)
  BY DEF CheckRecv
<1>4. tick' \in [Procs -> [wcb : Wcbs \cup {None}, step : Steps]] /\ s \in Steps
  BY <1>1, <1>3, GoToFacts DEF Steps
<1>5. w \in Slots => peer[w] \in Clients
  BY <1>2, AtFacts
<1>6. /\ batch \subseteq Packs
      /\ \A p \in batch : Later(p) /\ (p.type \in {"ACK", "DAT"} /\ w \in Slots => Met(peer[w]))
  BY <1>1, <1>5, WcbFacts DEF OnTheWay, TypeOK, Inv, Traffic, OnTheWire
<1>7. una' \in [Wcbs -> Nat]
  BY <1>1, <1>6 DEF CheckRecv, TypeOK, Packs
<1>8. /\ rcvd' \in [Wcbs -> SUBSET Packs]
      /\ \A v \in Wcbs : \A p \in rcvd'[v] : p \in rcvd[v] \/ (v = w /\ p \in batch)
  BY <1>1, <1>6 DEF CheckRecv, TypeOK
<1>9. TypeOK'
  BY <1>1, <1>2, <1>3, <1>4, <1>5, <1>6, <1>7, <1>8 DEF TypeOK, CheckRecv, sndVars, rcvVars, netVars, lisVars, appVars, procVars, Steps
<1>10. \A v \in Wcbs : KeepsPlace(v)
  BY <1>1, <1>2, <1>3, <1>4, <1>5, <1>6, <1>7, <1>8 DEF KeepsPlace, CheckRecv, TypeOK, Open
<1>11. TickerStep
  BY <1>1, <1>2, <1>3, <1>4, <1>5, <1>6, <1>7, <1>8, <1>10, PassTicker
<1>12. Standing'
  <2>1. StandingStep
    BY <1>1, <1>2, <1>3, <1>4, <1>5, <1>6, <1>7, <1>8, <1>10, <1>11 DEF StandingStep, KeepsFlags, TickerStep, CheckRecv, lisVars, appVars,
      Inv, TypeOK, Standing, Places, Wcbs
  <2> QED
    BY <1>1, <1>2, <1>3, <1>4, <1>5, <1>6, <1>7, <1>8, <1>9, <2>1, StandingKept DEF Inv
<1>13. Traffic'
  <2>1. MetGrows
    BY <1>1, <1>2, <1>3, <1>4, <1>5, <1>6, <1>7, <1>8 DEF MetGrows, CheckRecv, appVars, TypeOK, Wcbs
  <2>2. \A v \in Wcbs : \A q \in (Outgoing(v))' : q \in Outgoing(v) \/ (Genuine(v, q))'
    BY <1>1, <1>2, <1>3, <1>4, <1>5, <1>6, <1>7, <1>8 DEF Outgoing, Elements, CheckRecv, sndVars
  <2>3. \A c \in Clients : \A q \in up'[c] :
          q \in up[c] \/ (Later(q) /\ (q.type \in {"ACK", "DAT"} => (Met(c))'))
    BY <1>1, <1>2, <1>3, <1>4, <1>5, <1>6, <1>7, <1>8 DEF CheckRecv, netVars
  <2>4. \A c \in Clients : \A q \in down'[c] : q \in down[c] \/ Later(q)
    BY <1>1, <1>2, <1>3, <1>4, <1>5, <1>6, <1>7, <1>8 DEF CheckRecv, netVars
  <2>5. \A v \in Wcbs : \A q \in rcvd'[v] :
          \/ q \in rcvd[v] /\ (v \in Slots => peer'[v] = peer[v])
          \/ Later(q) /\ (q.type \in {"ACK", "DAT"} /\ v \in Slots => (Met(peer[v]))')
    BY <1>1, <1>2, <1>3, <1>4, <1>5, <1>6, <1>7, <1>8 DEF CheckRecv, lisVars, appVars, Later, Met
  <2>6. TrafficStep
    BY <2>1, <2>2, <2>3, <2>4, <2>5 DEF TrafficStep
  <2> QED
    BY <1>1, <1>2, <1>3, <1>4, <1>5, <1>6, <1>7, <1>8, <1>9, <2>6, TrafficKept DEF Inv
<1>14. Beginnings'
  <2>1. \A t \in Slots : (Working(t))' => Working(t)
    BY <1>1, <1>2, <1>3, <1>4, <1>5, <1>6, <1>7, <1>8 DEF Working, Elements, CheckRecv, lisVars, appVars, TypeOK, Wcbs
  <2>2. BeginningsStep
    BY <1>1, <1>2, <1>3, <1>4, <1>5, <1>6, <1>7, <1>8, <1>11, <2>1 DEF BeginningsStep, TickerStep, MetGrows, CheckRecv, sndVars, rcvVars, netVars, lisVars, appVars, procVars,
      TypeOK, Wcbs
  <2> QED
    BY <1>1, <1>2, <1>3, <1>4, <1>5, <1>6, <1>7, <1>8, <1>9, <2>2, BeginningsKept DEF Inv
<1> QED
  BY <1>9, <1>12, <1>13, <1>14 DEF Inv

\* A RST in its turn closes the WCB.
LEMMA DeliverRstInv ==
  ASSUME Inv, NEW w \in Wcbs, NEW p \in rcvd[w], DeliverRst(w, p), UNCHANGED env
  PROVE  Inv'
<1>1. /\ TypeOK
      /\ conn' \in [Clients -> {"no", "wait", "woken", "done", "failed"}]
      /\ \A c \in Clients : conn'[c] = "no" <=> conn[c] = "no"
  BY NotifyKeeps DEF Inv, DeliverRst
<1>2. At(w, "deliver")
  BY DEF DeliverRst
<1>3. /\ Open(w) /\ (w \in Clients => conn[w] # "no" /\ dsn[w] >= 1 /\ state[w] # "SYN_RECEIVED")
      /\ (w \in Slots => peer[w] \in Clients /\ state[w] \notin {"SYNING", "SYN_SENT"})
  BY <1>2, AtFacts
<1>4. /\ tick' \in [Procs -> [wcb : Wcbs \cup {None}, step : Steps]]
      /\ tick'[Proc(w)].wcb = w /\ tick'[Proc(w)].step = "swap" /\ "swap" \in Steps
  BY <1>1, GoToFacts DEF DeliverRst, Steps
<1>5. state'[w] = "CLOSED"
  BY <1>1 DEF DeliverRst, TypeOK
<1>6. (Stopped(w))'
  BY <1>4, <1>5 DEF Stopped, Proc
<1>7. /\ rcvNext' \in [Wcbs -> Nat]
      /\ \A v \in Wcbs : v # w => rcvNext'[v] = rcvNext[v]
  BY <1>1 DEF DeliverRst, TypeOK
<1>8. TypeOK'
  BY <1>1, <1>2, <1>3, <1>4, <1>5, <1>6, <1>7 DEF TypeOK, DeliverRst, sndVars, rcvVars, netVars, lisVars, appVars, procVars, Steps, States
<1>9. \A v \in Wcbs : KeepsPlace(v)
  BY <1>1, <1>2, <1>3, <1>4, <1>5, <1>6, <1>7 DEF KeepsPlace, DeliverRst, TypeOK, Open, Awaited
<1>10. TickerStep
  BY <1>1, <1>2, <1>3, <1>4, <1>5, <1>6, <1>7, <1>9, <1>2, PassTicker DEF DeliverRst, Steps
<1>11. Standing'
  <2>1. StandingStep
    BY <1>1, <1>2, <1>3, <1>4, <1>5, <1>6, <1>7, <1>9, <1>10 DEF StandingStep, KeepsFlags, TickerStep, DeliverRst, lisVars, appVars,
      Inv, TypeOK, Standing, Places, Wcbs
  <2> QED
    BY <1>1, <1>2, <1>3, <1>4, <1>5, <1>6, <1>7, <1>8, <2>1, StandingKept DEF Inv
<1>12. Traffic'
  <2>1. UNCHANGED <<queued, sending, flights, up, down, rcvd, peer, met, wrote, accepted>>
    BY DEF DeliverRst, sndVars, netVars, lisVars
  <2>2. TrafficStep
    BY <1>1, <2>1 DEF TrafficStep, MetGrows, Outgoing, Elements, TypeOK, Wcbs
  <2> QED
    BY <1>1, <1>2, <1>3, <1>4, <1>5, <1>6, <1>7, <1>8, <2>2, TrafficKept DEF Inv
<1>13. Beginnings'
  <2>1. MetGrows
    BY <1>1, <1>2, <1>3, <1>4, <1>5, <1>6, <1>7 DEF MetGrows, DeliverRst, appVars, TypeOK, Wcbs
  <2>2. /\ UNCHANGED peer /\ \A c \in Clients : conn'[c] = "no" <=> conn[c] = "no"
        /\ \A v \in Wcbs : dsn'[v] >= dsn[v] /\ sb'[v] = sb[v]
    BY <1>1, <1>2, <1>3, <1>4, <1>5, <1>6, <1>7 DEF DeliverRst, lisVars, appVars, sndVars, TypeOK
  <2>3. \A v \in Wcbs : Stopped(v) => (Stopped(v))'
    BY <1>10 DEF TickerStep
  <2>4. \A c \in Clients : \/ rcvNext'[c] = rcvNext[c]
                           \/ conn[c] # "no" /\ (c \in met' \/ (Stopped(c))')
    BY <1>1, <1>2, <1>3, <1>4, <1>5, <1>6, <1>7 DEF Wcbs
  <2>5. \A s \in Slots : rcvNext'[s] = rcvNext[s] \/ dsn'[s] >= 1 \/ (Stopped(s))'
    BY <1>1, <1>2, <1>3, <1>4, <1>5, <1>6, <1>7 DEF Wcbs
  <2>6. \A s \in Slots : (Working(s))' => Working(s) \/ (dsn'[s] >= 1 /\ (Met(peer[s]))')
    BY <1>1, <1>2, <1>3, <1>4, <1>5, <1>6, <1>7 DEF Working, Elements, DeliverRst, lisVars, appVars, TypeOK, Wcbs
  <2>7. BeginningsStep
    BY <2>1, <2>2, <2>3, <2>4, <2>5, <2>6 DEF BeginningsStep
  <2> QED
    BY <1>1, <1>2, <1>3, <1>4, <1>5, <1>6, <1>7, <1>8, <2>7, BeginningsKept DEF Inv
<1> QED
  BY <1>8, <1>11, <1>12, <1>13 DEF Inv

\* A SYN in a state that does not expect it closes the WCB, with a RST.
LEMMA DeliverSynRefusedInv ==
  ASSUME Inv, NEW w \in Wcbs, NEW p \in rcvd[w], DeliverSynRefused(w, p), UNCHANGED env
  PROVE  Inv'
<1>1. /\ TypeOK
      /\ conn' \in [Clients -> {"no", "wait", "woken", "done", "failed"}]
      /\ \A c \in Clients : conn'[c] = "no" <=> conn[c] = "no"
  BY NotifyKeeps DEF Inv, DeliverSynRefused
<1>2. At(w, "deliver")
  BY DEF DeliverSynRefused
<1>3. /\ Open(w) /\ (w \in Clients => conn[w] # "no" /\ dsn[w] >= 1 /\ state[w] # "SYN_RECEIVED")
      /\ (w \in Slots => peer[w] \in Clients /\ state[w] \notin {"SYNING", "SYN_SENT"})
  BY <1>2, AtFacts
<1>4. /\ tick' \in [Procs -> [wcb : Wcbs \cup {None}, step : Steps]]
      /\ tick'[Proc(w)].wcb = w /\ tick'[Proc(w)].step = "swap" /\ "swap" \in Steps
  BY <1>1, GoToFacts DEF DeliverSynRefused, Steps
<1>5. state'[w] = "CLOSED"
  BY <1>1 DEF DeliverSynRefused, TypeOK
<1>6. (Stopped(w))'
  BY <1>4, <1>5 DEF Stopped, Proc
<1>7. /\ rcvNext' \in [Wcbs -> Nat]
      /\ \A v \in Wcbs : v # w => rcvNext'[v] = rcvNext[v]
  BY <1>1 DEF DeliverSynRefused, TypeOK
<1>8. /\ {Rst(p)} \subseteq Packs
      /\ \A q \in {Rst(p)} : q.type = "RST"
  BY <1>1 DEF Rst, Packs, Types, TypeOK
<1>9. /\ up' \in [Clients -> SUBSET Packs] /\ down' \in [Clients -> SUBSET Packs]
      /\ \A c \in Clients : \A q \in up'[c] : q \in up[c] \/ q.type = "RST"
      /\ \A c \in Clients : \A q \in down'[c] : q \in down[c] \/ q.type = "RST"
  BY <1>1, <1>3, <1>8, InjectFacts DEF DeliverSynRefused
<1>10. TypeOK'
  BY <1>1, <1>2, <1>3, <1>4, <1>5, <1>6, <1>7, <1>8, <1>9 DEF TypeOK, DeliverSynRefused, sndVars, rcvVars, netVars, lisVars, appVars, procVars, Steps, States
<1>11. \A v \in Wcbs : KeepsPlace(v)
  BY <1>1, <1>2, <1>3, <1>4, <1>5, <1>6, <1>7, <1>8, <1>9 DEF KeepsPlace, DeliverSynRefused, TypeOK, Open, Awaited
<1>12. TickerStep
  BY <1>1, <1>2, <1>3, <1>4, <1>5, <1>6, <1>7, <1>8, <1>9, <1>11, <1>2, PassTicker DEF DeliverSynRefused, Steps
<1>13. Standing'
  <2>1. StandingStep
    BY <1>1, <1>2, <1>3, <1>4, <1>5, <1>6, <1>7, <1>8, <1>9, <1>11, <1>12 DEF StandingStep, KeepsFlags, TickerStep, DeliverSynRefused, lisVars, appVars,
      Inv, TypeOK, Standing, Places, Wcbs
  <2> QED
    BY <1>1, <1>2, <1>3, <1>4, <1>5, <1>6, <1>7, <1>8, <1>9, <1>10, <2>1, StandingKept DEF Inv
<1>14. Traffic'
  <2>1. MetGrows
    BY <1>1, <1>2, <1>3, <1>4, <1>5, <1>6, <1>7, <1>8, <1>9 DEF MetGrows, DeliverSynRefused, appVars, TypeOK, Wcbs
  <2>2. \A v \in Wcbs : \A q \in (Outgoing(v))' : q \in Outgoing(v) \/ (Genuine(v, q))'
    BY <1>1, <1>2, <1>3, <1>4, <1>5, <1>6, <1>7, <1>8, <1>9 DEF Outgoing, Elements, DeliverSynRefused, sndVars
  <2>3. \A c \in Clients : \A q \in up'[c] :
          q \in up[c] \/ (Later(q) /\ (q.type \in {"ACK", "DAT"} => (Met(c))'))
    BY <1>9 DEF Later
  <2>4. \A c \in Clients : \A q \in down'[c] : q \in down[c] \/ Later(q)
    BY <1>9 DEF Later
  <2>5. \A v \in Wcbs : \A q \in rcvd'[v] :
          \/ q \in rcvd[v] /\ (v \in Slots => peer'[v] = peer[v])
          \/ Later(q) /\ (q.type \in {"ACK", "DAT"} /\ v \in Slots => (Met(peer[v]))')
    BY <1>1, <1>2, <1>3, <1>4, <1>5, <1>6, <1>7, <1>8, <1>9 DEF DeliverSynRefused, lisVars, TypeOK
  <2>6. TrafficStep
    BY <2>1, <2>2, <2>3, <2>4, <2>5 DEF TrafficStep
  <2> QED
    BY <1>1, <1>2, <1>3, <1>4, <1>5, <1>6, <1>7, <1>8, <1>9, <1>10, <2>6, TrafficKept DEF Inv
<1>15. Beginnings'
  <2>1. MetGrows
    BY <1>1, <1>2, <1>3, <1>4, <1>5, <1>6, <1>7, <1>8, <1>9 DEF MetGrows, DeliverSynRefused, appVars, TypeOK, Wcbs
  <2>2. /\ UNCHANGED peer /\ \A c \in Clients : conn'[c] = "no" <=> conn[c] = "no"
        /\ \A v \in Wcbs : dsn'[v] >= dsn[v] /\ sb'[v] = sb[v]
    BY <1>1, <1>2, <1>3, <1>4, <1>5, <1>6, <1>7, <1>8, <1>9 DEF DeliverSynRefused, lisVars, appVars, sndVars, TypeOK
  <2>3. \A v \in Wcbs : Stopped(v) => (Stopped(v))'
    BY <1>12 DEF TickerStep
  <2>4. \A c \in Clients : \/ rcvNext'[c] = rcvNext[c]
                           \/ conn[c] # "no" /\ (c \in met' \/ (Stopped(c))')
    BY <1>1, <1>2, <1>3, <1>4, <1>5, <1>6, <1>7, <1>8, <1>9 DEF Wcbs
  <2>5. \A s \in Slots : rcvNext'[s] = rcvNext[s] \/ dsn'[s] >= 1 \/ (Stopped(s))'
    BY <1>1, <1>2, <1>3, <1>4, <1>5, <1>6, <1>7, <1>8, <1>9 DEF Wcbs
  <2>6. \A s \in Slots : (Working(s))' => Working(s) \/ (dsn'[s] >= 1 /\ (Met(peer[s]))')
    BY <1>1, <1>2, <1>3, <1>4, <1>5, <1>6, <1>7, <1>8, <1>9 DEF Working, Elements, DeliverSynRefused, lisVars, appVars, TypeOK, Wcbs
  <2>7. BeginningsStep
    BY <2>1, <2>2, <2>3, <2>4, <2>5, <2>6 DEF BeginningsStep
  <2> QED
    BY <1>1, <1>2, <1>3, <1>4, <1>5, <1>6, <1>7, <1>8, <1>9, <1>10, <2>7, BeginningsKept DEF Inv
<1> QED
  BY <1>10, <1>13, <1>14, <1>15 DEF Inv

\* The SYN that made a slot is answered with SYN|ACK.
LEMMA DeliverSynInv ==
  ASSUME Inv, NEW w \in Wcbs, NEW p \in rcvd[w], DeliverSyn(w, p), UNCHANGED env
  PROVE  Inv'
<1>1. TypeOK
  BY DEF Inv
<1>2. At(w, "deliver")
  BY DEF DeliverSyn
<1>3. /\ Open(w) /\ (w \in Clients => conn[w] # "no" /\ dsn[w] >= 1 /\ state[w] # "SYN_RECEIVED")
      /\ (w \in Slots => peer[w] \in Clients /\ state[w] \notin {"SYNING", "SYN_SENT"})
  BY <1>2, AtFacts
<1>4. w \in Slots /\ w \notin Clients
  BY <1>3, WcbFacts DEF DeliverSyn
<1>5. /\ queued' \in [Wcbs -> Seq(SndPacks)]
      /\ dsn' \in [Wcbs -> Nat] /\ dsn'[w] >= 1
      /\ \A v \in Wcbs : dsn'[v] >= dsn[v]
      /\ \A v \in Wcbs : \A q \in Elements(queued'[v]) : q \in Elements(queued[v]) \/ q.type = "SYNACK"
  BY <1>1, QueueFacts DEF DeliverSyn, Types
<1>6. "deliver" \in Steps
  BY DEF Steps
<1>7. /\ rcvNext' \in [Wcbs -> Nat]
      /\ \A v \in Wcbs : v # w => rcvNext'[v] = rcvNext[v]
  BY <1>1 DEF DeliverSyn, TypeOK
<1>8. TypeOK'
  BY <1>1, <1>2, <1>3, <1>4, <1>5, <1>6, <1>7 DEF TypeOK, DeliverSyn, sndVars, rcvVars, netVars, lisVars, appVars, procVars, Steps
<1>9. \A v \in Wcbs : KeepsPlace(v)
  BY <1>1, <1>2, <1>3, <1>4, <1>5, <1>6, <1>7 DEF KeepsPlace, DeliverSyn, TypeOK, Open
<1>10. TickerStep
  BY <1>1, <1>2, <1>3, <1>4, <1>5, <1>6, <1>7, <1>9, <1>2, PassTicker DEF DeliverSyn, procVars
<1>11. Standing'
  <2>1. StandingStep
    BY <1>1, <1>2, <1>3, <1>4, <1>5, <1>6, <1>7, <1>9, <1>10 DEF StandingStep, KeepsFlags, TickerStep, DeliverSyn, lisVars, appVars,
      Inv, TypeOK, Standing, Places, Wcbs
  <2> QED
    BY <1>1, <1>2, <1>3, <1>4, <1>5, <1>6, <1>7, <1>8, <2>1, StandingKept DEF Inv
<1>12. Traffic'
  <2>1. MetGrows
    BY <1>1, <1>2, <1>3, <1>4, <1>5, <1>6, <1>7 DEF MetGrows, DeliverSyn, appVars, TypeOK, Wcbs
  <2>2. \A v \in Wcbs : \A q \in (Outgoing(v))' : q \in Outgoing(v) \/ (Genuine(v, q))'
    BY <1>5 DEF Outgoing, Elements, DeliverSyn, Genuine, Later
  <2>3. \A c \in Clients : \A q \in up'[c] :
          q \in up[c] \/ (Later(q) /\ (q.type \in {"ACK", "DAT"} => (Met(c))'))
    BY <1>1, <1>2, <1>3, <1>4, <1>5, <1>6, <1>7 DEF DeliverSyn, netVars
  <2>4. \A c \in Clients : \A q \in down'[c] : q \in down[c] \/ Later(q)
    BY <1>1, <1>2, <1>3, <1>4, <1>5, <1>6, <1>7 DEF DeliverSyn, netVars
  <2>5. \A v \in Wcbs : \A q \in rcvd'[v] :
          \/ q \in rcvd[v] /\ (v \in Slots => peer'[v] = peer[v])
          \/ Later(q) /\ (q.type \in {"ACK", "DAT"} /\ v \in Slots => (Met(peer[v]))')
    BY <1>1, <1>2, <1>3, <1>4, <1>5, <1>6, <1>7 DEF DeliverSyn, lisVars, TypeOK
  <2>6. TrafficStep
    BY <2>1, <2>2, <2>3, <2>4, <2>5 DEF TrafficStep
  <2> QED
    BY <1>1, <1>2, <1>3, <1>4, <1>5, <1>6, <1>7, <1>8, <2>6, TrafficKept DEF Inv
<1>13. Beginnings'
  <2>1. MetGrows
    BY <1>1, <1>2, <1>3, <1>4, <1>5, <1>6, <1>7 DEF MetGrows, DeliverSyn, appVars, TypeOK, Wcbs
  <2>2. /\ UNCHANGED <<peer, conn>>
        /\ \A v \in Wcbs : dsn'[v] >= dsn[v] /\ sb'[v] = sb[v]
    BY <1>1, <1>2, <1>3, <1>4, <1>5, <1>6, <1>7 DEF DeliverSyn, lisVars, appVars, sndVars, TypeOK
  <2>3. \A v \in Wcbs : Stopped(v) => (Stopped(v))'
    BY <1>10 DEF TickerStep
  <2>4. \A c \in Clients : \/ rcvNext'[c] = rcvNext[c]
                           \/ conn[c] # "no" /\ (c \in met' \/ (Stopped(c))')
    BY <1>1, <1>2, <1>3, <1>4, <1>5, <1>6, <1>7 DEF Wcbs
  <2>5. \A s \in Slots : rcvNext'[s] = rcvNext[s] \/ dsn'[s] >= 1 \/ (Stopped(s))'
    BY <1>1, <1>2, <1>3, <1>4, <1>5, <1>6, <1>7 DEF Wcbs
  <2>6. \A s \in Slots : (Working(s))' => Working(s) \/ (dsn'[s] >= 1 /\ (Met(peer[s]))')
    BY <1>1, <1>2, <1>3, <1>4, <1>5, <1>6, <1>7 DEF Working, Elements, DeliverSyn, lisVars, appVars, TypeOK, Wcbs
  <2>7. BeginningsStep
    BY <2>1, <2>2, <2>3, <2>4, <2>5, <2>6 DEF BeginningsStep
  <2> QED
    BY <1>1, <1>2, <1>3, <1>4, <1>5, <1>6, <1>7, <1>8, <2>7, BeginningsKept DEF Inv
<1> QED
  BY <1>8, <1>11, <1>12, <1>13 DEF Inv

\* SYN|ACK, ACK and DAT: a slot is established by a client that has met the server.
LEMMA DeliverAckInv ==
  ASSUME Inv, NEW w \in Wcbs, NEW p \in rcvd[w], DeliverAck(w, p), UNCHANGED env
  PROVE  Inv'
<1>1. /\ TypeOK
      /\ conn' \in [Clients -> {"no", "wait", "woken", "done", "failed"}]
      /\ \A c \in Clients : conn'[c] = "no" <=> conn[c] = "no"
  BY NotifyKeeps DEF Inv, DeliverAck
<1>2. At(w, "deliver")
  BY DEF DeliverAck
<1>3. /\ Open(w) /\ (w \in Clients => conn[w] # "no" /\ dsn[w] >= 1 /\ state[w] # "SYN_RECEIVED")
      /\ (w \in Slots => peer[w] \in Clients /\ state[w] \notin {"SYNING", "SYN_SENT"})
  BY <1>2, AtFacts
<1>4. /\ p \in Packs /\ p.seq = rcvNext[w] /\ Later(p)
      /\ p.type \in {"ACK", "DAT"} /\ w \in Slots => Met(peer[w])
  BY <1>1 DEF DeliverAck, TypeOK, Inv, Traffic, Received
<1>5. /\ p.type \in {"ACK", "DAT"} => dsn[w] >= 1 /\ (w \in Clients => w \in met)
      /\ p.type = "SYNACK" => w \in Clients /\ state[w] = "SYN_SENT"
      /\ p.type \in {"ACK", "DAT", "SYNACK"}
  BY <1>2, <1>3, <1>4, AtFacts, WcbFacts DEF Later, DeliverAck
<1>6. /\ queued' \in [Wcbs -> Seq(SndPacks)] /\ dsn' \in [Wcbs -> Nat] /\ dsn'[w] >= 1
      /\ \A v \in Wcbs : dsn'[v] >= dsn[v]
      /\ met \subseteq met' /\ met' \subseteq Clients /\ (w \in Clients => w \in met')
      /\ \A v \in Wcbs : \A q \in Elements(queued'[v]) :
           \/ q \in Elements(queued[v])
           \/ v \in Clients /\ v \in met' /\ q.type = "ACK" /\ q.seq >= 1
  <2>1. CASE p.type \in {"ACK", "DAT"} /\ QueueNone /\ UNCHANGED met
    BY <1>1, <1>5, <2>1 DEF QueueNone, TypeOK
  <2>2. CASE p.type = "SYNACK" /\ Queue(w, "ACK") /\ met' = met \cup {w}
    <3>1. /\ queued' \in [Wcbs -> Seq(SndPacks)]
          /\ dsn' \in [Wcbs -> Nat] /\ dsn'[w] >= 1
          /\ \A v \in Wcbs : dsn'[v] >= dsn[v]
          /\ \A v \in Wcbs : \A q \in Elements(queued'[v]) :
               q \in Elements(queued[v]) \/ (v = w /\ q = [type |-> "ACK", seq |-> dsn[w]])
      BY <1>1, <2>2, QueueFacts DEF Types
    <3>2. w \in Clients /\ met \subseteq Clients /\ dsn[w] >= 1
      BY <1>1, <1>3, <1>5, <2>2 DEF TypeOK
    <3> QED
      BY <2>2, <3>1, <3>2
  <2> QED
    BY <2>1, <2>2 DEF DeliverAck
<1>7. /\ rcvNext' \in [Wcbs -> Nat]
      /\ \A v \in Wcbs : v # w => rcvNext'[v] = rcvNext[v]
  BY <1>1 DEF DeliverAck, TypeOK
<1>8. rcvd' \in [Wcbs -> SUBSET Packs] /\ \A v \in Wcbs : rcvd'[v] \subseteq rcvd[v]
  <2>1. CASE rcvd' = [rcvd EXCEPT ![w] = @ \ {p}]
    BY <1>1, <2>1 DEF TypeOK
  <2>2. CASE rcvd' = rcvd
    BY <1>1, <2>2 DEF TypeOK
  <2> QED
    BY <2>1, <2>2 DEF DeliverAck
<1>9. /\ state' \in [Wcbs -> States] /\ \A v \in Wcbs : v # w => state'[v] = state[v]
      /\ \/ state'[w] = state[w]
         \/ /\ state[w] \notin {"FREE", "RECYCLE", "CLOSED"}
            /\ state'[w] \in States \ {"FREE", "RECYCLE", "SYNING", "SYN_SENT", "SYN_RECEIVED"}
            /\ w \in pending => state'[w] \in Awaited
  <2>1. state \in [Wcbs -> States] /\ state[w] \in States
    BY <1>1 DEF TypeOK
  <2>2. CASE state[w] \in DOMAIN OnAck /\ state' = [state EXCEPT ![w] = OnAck[@]]
    <3>1. /\ OnAck[state[w]] \in States \ {"FREE", "RECYCLE", "SYNING", "SYN_SENT", "SYN_RECEIVED"}
          /\ state[w] \notin {"FREE", "RECYCLE", "CLOSED"}
          /\ state[w] \in Awaited => OnAck[state[w]] \in {"ESTABLISHED", "CLOSE_WAIT"}
      BY <2>2, AckFacts
    <3>2. w \in pending => state[w] \in Awaited
      BY DEF Inv, Standing, Lists, PendingState, Awaited
    <3>3. state'[w] = OnAck[state[w]]
      BY <2>1, <2>2
    <3> QED
      BY <2>1, <2>2, <3>1, <3>2, <3>3 DEF Awaited
  <2>3. CASE state[w] = "SYN_SENT" /\ state' = [state EXCEPT ![w] = "CLOSED"]
    BY <2>1, <2>3 DEF Awaited, States
  <2>4. CASE state' = state
    BY <2>1, <2>4
  <2> QED
    BY <2>2, <2>3, <2>4 DEF DeliverAck
<1>10. /\ errno' \in [Wcbs -> {"ok", "timeout", "reset", "aborted", "socket"}]
       /\ crash' \in [Procs -> {"no", "ack", "syn", "fin", "seq", "connect", "recv"}]
       /\ standby' \in [Wcbs -> Nat]
  <2>1. errno' \in [Wcbs -> {"ok", "timeout", "reset", "aborted", "socket"}]
    BY <1>1 DEF DeliverAck, TypeOK
  <2>2. crash' = crash \/ crash' = [crash EXCEPT ![Proc(w)] = "ack"]
    BY DEF DeliverAck, Fail
  <2>3. crash' \in [Procs -> {"no", "ack", "syn", "fin", "seq", "connect", "recv"}]
    BY <1>1, <2>2 DEF TypeOK
  <2>4. PICK n \in Nat : standby' = [standby EXCEPT ![w] = n]
    <3>1. standby[w] \in Nat /\ standby[w] + 1 \in Nat
      BY <1>1 DEF TypeOK
    <3>2. \/ standby' = [standby EXCEPT ![w] = standby[w] + 1]
          \/ standby' = [standby EXCEPT ![w] = standby[w]]
      BY DEF DeliverAck
    <3> QED
      BY <3>1, <3>2
  <2>5. standby' \in [Wcbs -> Nat]
    BY <1>1, <2>4 DEF TypeOK
  <2> QED
    BY <2>1, <2>3, <2>5
<1>11. "deliver" \in Steps
  BY DEF Steps
<1>12. TypeOK'
  BY <1>1, <1>2, <1>3, <1>4, <1>5, <1>6, <1>7, <1>8, <1>9, <1>10, <1>11 DEF TypeOK, DeliverAck, sndVars, rcvVars, netVars, lisVars, appVars, procVars, Steps
<1>13. \A v \in Wcbs : KeepsPlace(v)
  BY <1>1, <1>2, <1>3, <1>4, <1>5, <1>6, <1>7, <1>8, <1>9, <1>10, <1>11 DEF KeepsPlace, DeliverAck, TypeOK, Open
<1>14. TickerStep
  BY <1>1, <1>2, <1>3, <1>4, <1>5, <1>6, <1>7, <1>8, <1>9, <1>10, <1>11, <1>13, <1>2, PassTicker DEF DeliverAck
<1>15. Standing'
  <2>1. StandingStep
    BY <1>1, <1>2, <1>3, <1>4, <1>5, <1>6, <1>7, <1>8, <1>9, <1>10, <1>11, <1>13, <1>14 DEF StandingStep, KeepsFlags, TickerStep, DeliverAck, lisVars, appVars,
      Inv, TypeOK, Standing, Places, Wcbs
  <2> QED
    BY <1>1, <1>2, <1>3, <1>4, <1>5, <1>6, <1>7, <1>8, <1>9, <1>10, <1>11, <1>12, <2>1, StandingKept DEF Inv
<1>16. Traffic'
  <2>1. MetGrows
    BY <1>1, <1>6 DEF MetGrows, DeliverAck, TypeOK, Wcbs
  <2>2. \A v \in Wcbs : \A q \in (Outgoing(v))' : q \in Outgoing(v) \/ (Genuine(v, q))'
    <3> SUFFICES ASSUME NEW v \in Wcbs, NEW q \in Elements(queued'[v]), q \notin Elements(queued[v])
                 PROVE  (Genuine(v, q))'
      BY DEF Outgoing, Elements, DeliverAck
    <3>1. v \in Clients /\ v \in met' /\ q.type = "ACK" /\ q.seq >= 1
      BY <1>6
    <3> QED
      BY <3>1 DEF Genuine, Later, Met
  <2>3. \A c \in Clients : \A q \in up'[c] :
          q \in up[c] \/ (Later(q) /\ (q.type \in {"ACK", "DAT"} => (Met(c))'))
    BY <1>1, <1>2, <1>3, <1>4, <1>5, <1>6, <1>7, <1>8, <1>9, <1>10, <1>11 DEF DeliverAck, netVars
  <2>4. \A c \in Clients : \A q \in down'[c] : q \in down[c] \/ Later(q)
    BY <1>1, <1>2, <1>3, <1>4, <1>5, <1>6, <1>7, <1>8, <1>9, <1>10, <1>11 DEF DeliverAck, netVars
  <2>5. \A v \in Wcbs : \A q \in rcvd'[v] :
          \/ q \in rcvd[v] /\ (v \in Slots => peer'[v] = peer[v])
          \/ Later(q) /\ (q.type \in {"ACK", "DAT"} /\ v \in Slots => (Met(peer[v]))')
    BY <1>8 DEF DeliverAck, lisVars
  <2>6. TrafficStep
    BY <2>1, <2>2, <2>3, <2>4, <2>5 DEF TrafficStep
  <2> QED
    BY <1>1, <1>2, <1>3, <1>4, <1>5, <1>6, <1>7, <1>8, <1>9, <1>10, <1>11, <1>12, <2>6, TrafficKept DEF Inv
<1>17. Beginnings'
  <2>1. MetGrows
    BY <1>1, <1>6 DEF MetGrows, DeliverAck, TypeOK, Wcbs
  <2>2. /\ UNCHANGED peer /\ \A c \in Clients : conn'[c] = "no" <=> conn[c] = "no"
        /\ \A v \in Wcbs : dsn'[v] >= dsn[v] /\ sb'[v] = sb[v]
    BY <1>1, <1>6 DEF DeliverAck, lisVars
  <2>3. \A v \in Wcbs : Stopped(v) => (Stopped(v))'
    BY <1>14 DEF TickerStep
  <2>4. \A c \in Clients : \/ rcvNext'[c] = rcvNext[c]
                           \/ conn[c] # "no" /\ (c \in met' \/ (Stopped(c))')
    BY <1>1, <1>2, <1>3, <1>4, <1>5, <1>6, <1>7, <1>8, <1>9, <1>10, <1>11 DEF Wcbs
  <2>5. \A s \in Slots : rcvNext'[s] = rcvNext[s] \/ dsn'[s] >= 1 \/ (Stopped(s))'
    BY <1>1, <1>2, <1>3, <1>4, <1>5, <1>6, <1>7, <1>8, <1>9, <1>10, <1>11 DEF Wcbs
  <2>6. \A s \in Slots : (Working(s))' => Working(s) \/ (dsn'[s] >= 1 /\ (Met(peer[s]))')
    <3> SUFFICES ASSUME NEW s \in Slots, (Working(s))', ~Working(s)
                 PROVE  dsn'[s] >= 1 /\ (Met(peer[s]))'
      OBVIOUS
    <3>1. s = w
      BY <1>9 DEF Working, Elements, DeliverAck, lisVars, Wcbs
    <3>2. p.type \in {"ACK", "DAT"}
      BY <1>5, <3>1, WcbFacts
    <3> QED
      BY <1>4, <1>6, <2>1, <3>1, <3>2 DEF Met, MetGrows, DeliverAck, lisVars
  <2>7. BeginningsStep
    BY <2>1, <2>2, <2>3, <2>4, <2>5, <2>6 DEF BeginningsStep
  <2> QED
    BY <1>1, <1>2, <1>3, <1>4, <1>5, <1>6, <1>7, <1>8, <1>9, <1>10, <1>11, <1>12, <2>7, BeginningsKept DEF Inv
<1> QED
  BY <1>12, <1>15, <1>16, <1>17 DEF Inv

\* A FIN in its turn, expected or not.
LEMMA DeliverFinInv ==
  ASSUME Inv, NEW w \in Wcbs, NEW p \in rcvd[w], DeliverFin(w, p), UNCHANGED env
  PROVE  Inv'
<1>1. /\ TypeOK
      /\ conn' \in [Clients -> {"no", "wait", "woken", "done", "failed"}]
      /\ \A c \in Clients : conn'[c] = "no" <=> conn[c] = "no"
  BY NotifyKeeps DEF Inv, DeliverFin
<1>2. At(w, "deliver")
  BY DEF DeliverFin
<1>3. /\ Open(w) /\ (w \in Clients => conn[w] # "no" /\ dsn[w] >= 1 /\ state[w] # "SYN_RECEIVED")
      /\ (w \in Slots => peer[w] \in Clients /\ state[w] \notin {"SYNING", "SYN_SENT"})
  BY <1>2, AtFacts
<1>4. /\ p \in Packs /\ p.seq = rcvNext[w] /\ Later(p)
      /\ p.type \in {"ACK", "DAT"} /\ w \in Slots => Met(peer[w])
  BY <1>1 DEF DeliverFin, TypeOK, Inv, Traffic, Received
<1>5. dsn[w] >= 1 /\ (w \in Clients => w \in met)
  BY <1>2, <1>3, <1>4, AtFacts DEF Later, DeliverFin
<1>6. /\ {Rst(p)} \subseteq Packs
      /\ \A q \in {Rst(p)} : q.type = "RST"
  BY <1>1, <1>4 DEF Rst, Packs, Types, TypeOK
<1>7. /\ up' \in [Clients -> SUBSET Packs] /\ down' \in [Clients -> SUBSET Packs]
      /\ \A c \in Clients : \A q \in up'[c] : q \in up[c] \/ q.type = "RST"
      /\ \A c \in Clients : \A q \in down'[c] : q \in down[c] \/ q.type = "RST"
  <2>1. CASE UNCHANGED netVars
    BY <1>1, <2>1 DEF netVars, TypeOK
  <2>2. CASE Inject(w, {Rst(p)})
    BY <1>1, <1>3, <1>6, <2>2, InjectFacts
  <2> QED
    BY <2>1, <2>2 DEF DeliverFin
<1>8. /\ queued' \in [Wcbs -> Seq(SndPacks)] /\ dsn' \in [Wcbs -> Nat] /\ dsn'[w] >= 1
      /\ \A v \in Wcbs : dsn'[v] >= dsn[v]
      /\ \A v \in Wcbs : \A q \in Elements(queued'[v]) :
           \/ q \in Elements(queued[v])
           \/ v = w /\ q = [type |-> "ACK", seq |-> dsn[w]]
  BY <1>1, QueueFacts DEF DeliverFin, Types
<1>9. /\ rcvNext' \in [Wcbs -> Nat]
      /\ \A v \in Wcbs : v # w => rcvNext'[v] = rcvNext[v]
  BY <1>1 DEF DeliverFin, TypeOK
<1>10. rcvd' \in [Wcbs -> SUBSET Packs] /\ \A v \in Wcbs : rcvd'[v] \subseteq rcvd[v]
  BY <1>1 DEF TypeOK, DeliverFin
<1>11. /\ state' \in [Wcbs -> States] /\ \A v \in Wcbs : v # w => state'[v] = state[v]
       /\ \/ state'[w] = state[w]
          \/ /\ state[w] \notin {"FREE", "RECYCLE", "CLOSED"}
             /\ state'[w] \in States \ {"FREE", "RECYCLE", "SYNING", "SYN_SENT", "SYN_RECEIVED"}
             /\ w \in pending => state'[w] \in Awaited
       /\ state'[w] = "CLOSED" \/ (state[w] \in States \ {"SYN_RECEIVED", "CLOSED"})
  <2>1. state \in [Wcbs -> States] /\ state[w] \in States
    BY <1>1 DEF TypeOK
  <2>2. CASE state[w] \in DOMAIN OnFin /\ state' = [state EXCEPT ![w] = OnFin[@]]
    <3>1. /\ OnFin[state[w]] \in States \ {"FREE", "RECYCLE", "CLOSED", "SYNING", "SYN_SENT", "SYN_RECEIVED"}
          /\ state[w] \notin {"FREE", "RECYCLE", "CLOSED", "SYN_RECEIVED"}
          /\ state[w] \in Awaited => OnFin[state[w]] = "CLOSE_WAIT"
      BY <2>2, FinFacts
    <3>2. w \in pending => state[w] \in Awaited
      BY DEF Inv, Standing, Lists, PendingState, Awaited
    <3>3. state'[w] = OnFin[state[w]]
      BY <2>1, <2>2
    <3> QED
      BY <2>1, <2>2, <3>1, <3>2, <3>3 DEF Awaited
  <2>3. CASE state' = [state EXCEPT ![w] = "CLOSED"]
    BY <1>3, <2>1, <2>3 DEF Awaited, States, Open
  <2> QED
    BY <2>2, <2>3 DEF DeliverFin
<1>12. /\ errno' \in [Wcbs -> {"ok", "timeout", "reset", "aborted", "socket"}]
       /\ flags' \in [Wcbs -> SUBSET {"CLOSED_CALLED", "READ_SHUT", "WRITE_SHUT", "FIN_RECEIVED", "FIN_READ",
                                       "FIN_SENT", "RECV_ERROR", "SEND_ERROR"}]
       /\ \A v \in Wcbs : KeepsFlags(v)
  <2>1. errno' \in [Wcbs -> {"ok", "timeout", "reset", "aborted", "socket"}]
    BY <1>1 DEF DeliverFin, TypeOK
  <2>2. PICK f : /\ flags' = [flags EXCEPT ![w] = f]
                 /\ f = flags[w] \/ f = (flags[w] \cup {"FIN_RECEIVED"}) \ {"FIN_READ"}
    <3>1. [flags EXCEPT ![w] = flags[w]] = flags
      BY <1>1 DEF TypeOK
    <3> QED
      BY <3>1 DEF DeliverFin
  <2>3. flags' \in [Wcbs -> SUBSET {"CLOSED_CALLED", "READ_SHUT", "WRITE_SHUT", "FIN_RECEIVED", "FIN_READ",
                                    "FIN_SENT", "RECV_ERROR", "SEND_ERROR"}]
    <3>1. f \in SUBSET {"CLOSED_CALLED", "READ_SHUT", "WRITE_SHUT", "FIN_RECEIVED", "FIN_READ",
                        "FIN_SENT", "RECV_ERROR", "SEND_ERROR"}
      BY <1>1, <2>2 DEF TypeOK
    <3> QED
      BY <1>1, <2>2, <3>1 DEF TypeOK
  <2>4. ASSUME NEW v \in Wcbs
        PROVE  KeepsFlags(v)
    <3>1. flags'[v] = IF v = w THEN f ELSE flags[v]
      BY <1>1, <2>2 DEF TypeOK
    <3> QED
      BY <1>3, <2>2, <3>1 DEF KeepsFlags
  <2> QED
    BY <2>1, <2>3, <2>4
<1>13. "deliver" \in Steps
  BY DEF Steps
<1>14. TypeOK'
  <2>1. UNCHANGED <<crash, tick, sb, next, una, sending, flights, rb, standby, lstate, inbox, pending, backlogq,
                    peer, tuples, accepted, wrote, met>>
    BY DEF DeliverFin, procVars, lisVars, appVars
  <2> QED
    BY <1>1, <1>7, <1>8, <1>9, <1>10, <1>11, <1>12, <2>1 DEF TypeOK
<1>15. \A v \in Wcbs : KeepsPlace(v)
  BY <1>11 DEF KeepsPlace
<1>16. TickerStep
  BY <1>1, <1>2, <1>3, <1>4, <1>5, <1>6, <1>7, <1>8, <1>9, <1>10, <1>11, <1>12, <1>13, <1>15, <1>2, PassTicker DEF DeliverFin, procVars
<1>17. Standing'
  <2>1. StandingStep
    BY <1>1, <1>2, <1>3, <1>4, <1>5, <1>6, <1>7, <1>8, <1>9, <1>10, <1>11, <1>12, <1>13, <1>15, <1>16 DEF StandingStep, KeepsFlags, TickerStep, DeliverFin, lisVars, appVars,
      Inv, TypeOK, Standing, Places, Wcbs
  <2> QED
    BY <1>1, <1>2, <1>3, <1>4, <1>5, <1>6, <1>7, <1>8, <1>9, <1>10, <1>11, <1>12, <1>13, <1>14, <2>1, StandingKept DEF Inv
<1>18. Traffic'
  <2>1. MetGrows
    BY <1>1, <1>2, <1>3, <1>4, <1>5, <1>6, <1>7, <1>8, <1>9, <1>10, <1>11, <1>12, <1>13 DEF MetGrows, DeliverFin, appVars, TypeOK, Wcbs
  <2>2. \A v \in Wcbs : \A q \in (Outgoing(v))' : q \in Outgoing(v) \/ (Genuine(v, q))'
    <3> SUFFICES ASSUME NEW v \in Wcbs, NEW q \in Elements(queued'[v]), q \notin Elements(queued[v])
                 PROVE  (Genuine(v, q))'
      BY DEF Outgoing, Elements, DeliverFin
    <3>1. v = w /\ q.type = "ACK" /\ q.seq >= 1
      BY <1>5, <1>8
    <3> QED
      BY <1>5, <3>1 DEF Genuine, Later, Met, DeliverFin, appVars
  <2>3. \A c \in Clients : \A q \in up'[c] :
          q \in up[c] \/ (Later(q) /\ (q.type \in {"ACK", "DAT"} => (Met(c))'))
    BY <1>7 DEF Later
  <2>4. \A c \in Clients : \A q \in down'[c] : q \in down[c] \/ Later(q)
    BY <1>7 DEF Later
  <2>5. \A v \in Wcbs : \A q \in rcvd'[v] :
          \/ q \in rcvd[v] /\ (v \in Slots => peer'[v] = peer[v])
          \/ Later(q) /\ (q.type \in {"ACK", "DAT"} /\ v \in Slots => (Met(peer[v]))')
    BY <1>10 DEF DeliverFin, lisVars
  <2>6. TrafficStep
    BY <2>1, <2>2, <2>3, <2>4, <2>5 DEF TrafficStep
  <2> QED
    BY <1>1, <1>2, <1>3, <1>4, <1>5, <1>6, <1>7, <1>8, <1>9, <1>10, <1>11, <1>12, <1>13, <1>14, <2>6, TrafficKept DEF Inv
<1>19. Beginnings'
  <2>1. MetGrows
    BY <1>1, <1>2, <1>3, <1>4, <1>5, <1>6, <1>7, <1>8, <1>9, <1>10, <1>11, <1>12, <1>13 DEF MetGrows, DeliverFin, appVars, TypeOK, Wcbs
  <2>2. /\ UNCHANGED peer /\ \A c \in Clients : conn'[c] = "no" <=> conn[c] = "no"
        /\ \A v \in Wcbs : dsn'[v] >= dsn[v] /\ sb'[v] = sb[v]
    BY <1>1, <1>8 DEF DeliverFin, lisVars, appVars
  <2>3. \A v \in Wcbs : Stopped(v) => (Stopped(v))'
    BY <1>16 DEF TickerStep
  <2>4. \A c \in Clients : \/ rcvNext'[c] = rcvNext[c]
                           \/ conn[c] # "no" /\ (c \in met' \/ (Stopped(c))')
    BY <1>3, <1>5, <1>9 DEF DeliverFin, appVars, Wcbs
  <2>5. \A s \in Slots : rcvNext'[s] = rcvNext[s] \/ dsn'[s] >= 1 \/ (Stopped(s))'
    BY <1>8, <1>9 DEF Wcbs
  <2>6. \A s \in Slots : (Working(s))' => Working(s) \/ (dsn'[s] >= 1 /\ (Met(peer[s]))')
    <3> SUFFICES ASSUME NEW s \in Slots, (Working(s))'
                 PROVE  Working(s)
      OBVIOUS
    <3>1. CASE s = w
      BY <1>3, <1>11, <3>1 DEF Working, Open, Elements, DeliverFin, lisVars, appVars
    <3>2. CASE s # w
      BY <1>11, <3>2 DEF Working, Elements, DeliverFin, lisVars, appVars, Wcbs
    <3> QED
      BY <3>1, <3>2
  <2>7. BeginningsStep
    BY <2>1, <2>2, <2>3, <2>4, <2>5, <2>6 DEF BeginningsStep
  <2> QED
    BY <1>1, <1>2, <1>3, <1>4, <1>5, <1>6, <1>7, <1>8, <1>9, <1>10, <1>11, <1>12, <1>13, <1>14, <2>7, BeginningsKept DEF Inv
<1> QED
  BY <1>14, <1>17, <1>18, <1>19 DEF Inv

\* Packs in flight are sent again.
LEMMA CheckFlightsInv ==
  ASSUME Inv, NEW w \in Wcbs, CheckFlights(w), UNCHANGED env
  PROVE  Inv'
<1>1. TypeOK
  BY DEF Inv
<1>2. At(w, "flights")
  BY DEF CheckFlights
<1>3. /\ Open(w) /\ (w \in Clients => conn[w] # "no" /\ dsn[w] >= 1 /\ state[w] # "SYN_RECEIVED")
      /\ (w \in Slots => peer[w] \in Clients /\ state[w] \notin {"SYNING", "SYN_SENT"})
  BY <1>2, AtFacts
<1>4. tick' \in [Procs -> [wcb : Wcbs \cup {None}, step : Steps]] /\ "send" \in Steps
  BY <1>1, GoToFacts DEF CheckFlights, Steps
<1>5. flights' \in [Wcbs -> SUBSET SndPacks] /\ \A v \in Wcbs : flights'[v] \subseteq flights[v]
  BY <1>1 DEF CheckFlights, TypeOK
<1>6. PICK due \in SUBSET flights'[w] : Inject(w, {WithAck(w, q) : q \in due})
  BY DEF CheckFlights
<1>7. PICK packs : packs = {WithAck(w, q) : q \in due}
  OBVIOUS
<1>8. /\ packs \in SUBSET Packs
      /\ \A q \in packs : Later(q) /\ (q.type \in {"ACK", "DAT"} /\ w \in Clients => Met(w))
  <2>1. due \subseteq flights[w] /\ flights[w] \subseteq SndPacks /\ rcvNext[w] \in Nat
    BY <1>1, <1>5 DEF TypeOK
  <2>2. \A q \in due : Genuine(w, q)
    BY <2>1 DEF Inv, Traffic, Sent, Outgoing
  <2>3. \A q \in due : WithAck(w, q) \in Packs /\ WithAck(w, q).type = q.type /\ WithAck(w, q).seq = q.seq
    BY <2>1 DEF WithAck, Packs, SndPacks
  <2> QED
    BY <1>7, <2>2, <2>3 DEF Genuine, Later
<1>9. /\ up' \in [Clients -> SUBSET Packs] /\ down' \in [Clients -> SUBSET Packs]
      /\ \A c \in Clients : \A q \in up'[c] : q \in up[c] \/ (w = c /\ q \in packs)
      /\ \A c \in Clients : \A q \in down'[c] : q \in down[c] \/ (w \in Slots /\ q \in packs)
  BY <1>1, <1>3, <1>6, <1>7, <1>8, InjectFacts
<1>10. TypeOK'
  <2>1. UNCHANGED <<crash, state, errno, flags, sb, dsn, next, una, queued, sending, rcvNext, rcvd, rb, standby,
                    lstate, inbox, pending, backlogq, peer, tuples, accepted, conn, wrote, met>>
    BY DEF CheckFlights, rcvVars, lisVars, appVars
  <2> QED
    BY <1>1, <1>4, <1>5, <1>9, <2>1 DEF TypeOK, Steps
<1>11. \A v \in Wcbs : KeepsPlace(v)
  BY DEF KeepsPlace, CheckFlights
<1>12. TickerStep
  BY <1>1, <1>2, <1>3, <1>4, <1>5, <1>6, <1>7, <1>8, <1>9, <1>11, PassTicker DEF CheckFlights
<1>13. Standing'
  <2>1. StandingStep
    BY <1>1, <1>2, <1>3, <1>4, <1>5, <1>6, <1>7, <1>8, <1>9, <1>11, <1>12 DEF StandingStep, KeepsFlags, TickerStep, CheckFlights, lisVars, appVars,
      Inv, TypeOK, Standing, Places, Wcbs
  <2> QED
    BY <1>1, <1>2, <1>3, <1>4, <1>5, <1>6, <1>7, <1>8, <1>9, <1>10, <2>1, StandingKept DEF Inv
<1>14. Traffic'
  <2>1. MetGrows
    BY <1>1, <1>2, <1>3, <1>4, <1>5, <1>6, <1>7, <1>8, <1>9 DEF MetGrows, CheckFlights, appVars, TypeOK, Wcbs
  <2>2. \A v \in Wcbs : \A q \in (Outgoing(v))' : q \in Outgoing(v) \/ (Genuine(v, q))'
    BY <1>5 DEF Outgoing, Elements, CheckFlights
  <2>3. \A c \in Clients : \A q \in up'[c] :
          q \in up[c] \/ (Later(q) /\ (q.type \in {"ACK", "DAT"} => (Met(c))'))
    BY <1>8, <1>9 DEF Met, CheckFlights, appVars
  <2>4. \A c \in Clients : \A q \in down'[c] : q \in down[c] \/ Later(q)
    BY <1>8, <1>9
  <2>5. \A v \in Wcbs : \A q \in rcvd'[v] :
          \/ q \in rcvd[v] /\ (v \in Slots => peer'[v] = peer[v])
          \/ Later(q) /\ (q.type \in {"ACK", "DAT"} /\ v \in Slots => (Met(peer[v]))')
    BY <1>1, <1>2, <1>3, <1>4, <1>5, <1>6, <1>7, <1>8, <1>9 DEF CheckFlights, rcvVars, lisVars
  <2>6. TrafficStep
    BY <2>1, <2>2, <2>3, <2>4, <2>5 DEF TrafficStep
  <2> QED
    BY <1>1, <1>2, <1>3, <1>4, <1>5, <1>6, <1>7, <1>8, <1>9, <1>10, <2>6, TrafficKept DEF Inv
<1>15. Beginnings'
  <2>1. \A s \in Slots : (Working(s))' => Working(s)
    BY <1>1, <1>2, <1>3, <1>4, <1>5, <1>6, <1>7, <1>8, <1>9 DEF Working, Elements, CheckFlights, lisVars, appVars, TypeOK, Wcbs
  <2>2. BeginningsStep
    BY <1>1, <1>2, <1>3, <1>4, <1>5, <1>6, <1>7, <1>8, <1>9, <1>12, <2>1 DEF BeginningsStep, TickerStep, MetGrows, CheckFlights, sndVars, rcvVars, netVars, lisVars, appVars, procVars,
      TypeOK, Wcbs
  <2> QED
    BY <1>1, <1>2, <1>3, <1>4, <1>5, <1>6, <1>7, <1>8, <1>9, <1>10, <2>2, BeginningsKept DEF Inv
<1> QED
  BY <1>10, <1>13, <1>14, <1>15 DEF Inv

\* check_send stops before it has sent everything.
LEMMA SendStopsInv ==
  ASSUME Inv, NEW w \in Wcbs, SendStops(w), UNCHANGED env
  PROVE  Inv'
<1>1. TypeOK
  BY DEF Inv
<1>2. At(w, "send")
  BY DEF SendStops
<1>3. /\ Open(w) /\ (w \in Clients => conn[w] # "no" /\ dsn[w] >= 1 /\ state[w] # "SYN_RECEIVED")
      /\ (w \in Slots => peer[w] \in Clients /\ state[w] \notin {"SYNING", "SYN_SENT"})
  BY <1>2, AtFacts
<1>4. tick' \in [Procs -> [wcb : Wcbs \cup {None}, step : Steps]] /\ "send" \in Steps
  BY <1>1, EndPassFacts DEF SendStops, Steps
<1>5. TypeOK'
  BY <1>1, <1>2, <1>3, <1>4 DEF TypeOK, SendStops, sndVars, rcvVars, netVars, lisVars, appVars, procVars, Steps
<1>6. \A v \in Wcbs : KeepsPlace(v)
  BY <1>1, <1>2, <1>3, <1>4 DEF KeepsPlace, SendStops, TypeOK, Open
<1>7. TickerStep
  BY <1>1, <1>2, <1>3, <1>4, <1>6, PassTicker DEF SendStops
<1>8. Standing'
  <2>1. StandingStep
    BY <1>1, <1>2, <1>3, <1>4, <1>6, <1>7 DEF StandingStep, KeepsFlags, TickerStep, SendStops, lisVars, appVars,
      Inv, TypeOK, Standing, Places, Wcbs
  <2> QED
    BY <1>1, <1>2, <1>3, <1>4, <1>5, <2>1, StandingKept DEF Inv
<1>9. Traffic'
  <2>1. TrafficStep
    BY <1>1, <1>2, <1>3, <1>4 DEF TrafficStep, MetGrows, Outgoing, Elements, SendStops, sndVars, rcvVars, netVars, lisVars, appVars, procVars, TypeOK, Wcbs
  <2> QED
    BY <1>1, <1>2, <1>3, <1>4, <1>5, <2>1, TrafficKept DEF Inv
<1>10. Beginnings'
  <2>1. \A s \in Slots : (Working(s))' => Working(s)
    BY <1>1, <1>2, <1>3, <1>4 DEF Working, Elements, SendStops, lisVars, appVars, TypeOK, Wcbs
  <2>2. BeginningsStep
    BY <1>1, <1>2, <1>3, <1>4, <1>7, <2>1 DEF BeginningsStep, TickerStep, MetGrows, SendStops, sndVars, rcvVars, netVars, lisVars, appVars, procVars,
      TypeOK, Wcbs
  <2> QED
    BY <1>1, <1>2, <1>3, <1>4, <1>5, <2>2, BeginningsKept DEF Inv
<1> QED
  BY <1>5, <1>8, <1>9, <1>10 DEF Inv

\* The pack at the front is not the next one: an assertion ends the process.
LEMMA SendOutOfTurnInv ==
  ASSUME Inv, NEW w \in Wcbs, SendOutOfTurn(w), UNCHANGED env
  PROVE  Inv'
<1>1. TypeOK
  BY DEF Inv
<1>2. At(w, "send")
  BY DEF SendOutOfTurn
<1>3. /\ Open(w) /\ (w \in Clients => conn[w] # "no" /\ dsn[w] >= 1 /\ state[w] # "SYN_RECEIVED")
      /\ (w \in Slots => peer[w] \in Clients /\ state[w] \notin {"SYNING", "SYN_SENT"})
  BY <1>2, AtFacts
<1>4. crash' \in [Procs -> {"no", "ack", "syn", "fin", "seq", "connect", "recv"}]
  BY <1>1, WcbFacts DEF SendOutOfTurn, Fail, TypeOK
<1>5. "send" \in Steps
  BY DEF Steps
<1>6. TypeOK'
  BY <1>1, <1>2, <1>3, <1>4, <1>5 DEF TypeOK, SendOutOfTurn, sndVars, rcvVars, netVars, lisVars, appVars, procVars, Steps
<1>7. \A v \in Wcbs : KeepsPlace(v)
  BY <1>1, <1>2, <1>3, <1>4, <1>5 DEF KeepsPlace, SendOutOfTurn, TypeOK, Open
<1>8. TickerStep
  BY <1>1, <1>2, <1>3, <1>4, <1>5, <1>7, PassTicker DEF SendOutOfTurn
<1>9. Standing'
  <2>1. StandingStep
    BY <1>1, <1>2, <1>3, <1>4, <1>5, <1>7, <1>8 DEF StandingStep, KeepsFlags, TickerStep, SendOutOfTurn, lisVars, appVars,
      Inv, TypeOK, Standing, Places, Wcbs
  <2> QED
    BY <1>1, <1>2, <1>3, <1>4, <1>5, <1>6, <2>1, StandingKept DEF Inv
<1>10. Traffic'
  <2>1. MetGrows
    BY <1>1, <1>2, <1>3, <1>4, <1>5 DEF MetGrows, SendOutOfTurn, appVars, TypeOK, Wcbs
  <2>2. \A v \in Wcbs : \A q \in (Outgoing(v))' : q \in Outgoing(v) \/ (Genuine(v, q))'
    BY <1>1, <1>2, <1>3, <1>4, <1>5 DEF Outgoing, Elements, SendOutOfTurn, sndVars
  <2>3. \A c \in Clients : \A q \in up'[c] :
          q \in up[c] \/ (Later(q) /\ (q.type \in {"ACK", "DAT"} => (Met(c))'))
    BY <1>1, <1>2, <1>3, <1>4, <1>5 DEF SendOutOfTurn, netVars
  <2>4. \A c \in Clients : \A q \in down'[c] : q \in down[c] \/ Later(q)
    BY <1>1, <1>2, <1>3, <1>4, <1>5 DEF SendOutOfTurn, netVars
  <2>5. \A v \in Wcbs : \A q \in rcvd'[v] :
          \/ q \in rcvd[v] /\ (v \in Slots => peer'[v] = peer[v])
          \/ Later(q) /\ (q.type \in {"ACK", "DAT"} /\ v \in Slots => (Met(peer[v]))')
    BY <1>1, <1>2, <1>3, <1>4, <1>5 DEF SendOutOfTurn, rcvVars, lisVars
  <2>6. TrafficStep
    BY <2>1, <2>2, <2>3, <2>4, <2>5 DEF TrafficStep
  <2> QED
    BY <1>1, <1>2, <1>3, <1>4, <1>5, <1>6, <2>6, TrafficKept DEF Inv
<1>11. Beginnings'
  <2>1. \A s \in Slots : (Working(s))' => Working(s)
    BY <1>1, <1>2, <1>3, <1>4, <1>5 DEF Working, Elements, SendOutOfTurn, lisVars, appVars, TypeOK, Wcbs
  <2>2. BeginningsStep
    BY <1>1, <1>2, <1>3, <1>4, <1>5, <1>8, <2>1 DEF BeginningsStep, TickerStep, MetGrows, SendOutOfTurn, sndVars, rcvVars, netVars, lisVars, appVars, procVars,
      TypeOK, Wcbs
  <2> QED
    BY <1>1, <1>2, <1>3, <1>4, <1>5, <1>6, <2>2, BeginningsKept DEF Inv
<1> QED
  BY <1>6, <1>9, <1>10, <1>11 DEF Inv

\* s_sending_standby is emptied into snd_sending.
LEMMA MoveQueuedInv ==
  ASSUME Inv, NEW w \in Wcbs, MoveQueued(w), UNCHANGED env
  PROVE  Inv'
<1>1. TypeOK
  BY DEF Inv
<1>2. PICK s : At(w, s) /\ s \in {"send", "move"}
  BY DEF MoveQueued
<1>3. GoTo(w, "pack") /\ "pack" \in Steps
  BY DEF MoveQueued, Steps
<1>4. tick' \in [Procs -> [wcb : Wcbs \cup {None}, step : Steps]]
  BY <1>1, <1>3, GoToFacts
<1>5. /\ sending' \in [Wcbs -> Seq(SndPacks)] /\ queued' \in [Wcbs -> Seq(SndPacks)]
      /\ \A v \in Wcbs : Elements(sending'[v]) \cup Elements(queued'[v]) \subseteq Elements(sending[v]) \cup Elements(queued[v])
  <2>1. PICK q : q = sending[w] \o queued[w]
    OBVIOUS
  <2>2. sending[w] \in Seq(SndPacks) /\ queued[w] \in Seq(SndPacks) /\ <<>> \in Seq(SndPacks)
    BY <1>1 DEF TypeOK
  <2>3. q \in Seq(SndPacks) /\ Elements(q) = Elements(sending[w]) \cup Elements(queued[w])
    BY <2>1, <2>2, ElementsConcat
  <2>4. Elements(<<>>) = {}
    BY DEF Elements
  <2>5. sending' = [sending EXCEPT ![w] = q] /\ queued' = [queued EXCEPT ![w] = <<>>]
    BY <2>1 DEF MoveQueued
  <2>6. \A v \in Wcbs : /\ sending'[v] = IF v = w THEN q ELSE sending[v]
                        /\ queued'[v] = IF v = w THEN <<>> ELSE queued[v]
    BY <1>1, <2>5 DEF TypeOK
  <2>7. sending' \in [Wcbs -> Seq(SndPacks)] /\ queued' \in [Wcbs -> Seq(SndPacks)]
    BY <1>1, <2>2, <2>3, <2>5 DEF TypeOK
  <2> QED
    BY <2>3, <2>4, <2>6, <2>7
<1>6. TypeOK'
  BY <1>1, <1>2, <1>3, <1>4, <1>5 DEF TypeOK, MoveQueued, sndVars, rcvVars, netVars, lisVars, appVars, procVars, Steps
<1>7. \A v \in Wcbs : KeepsPlace(v)
  BY <1>1, <1>2, <1>3, <1>4, <1>5 DEF KeepsPlace, MoveQueued, TypeOK, Open
<1>8. TickerStep
  BY <1>1, <1>2, <1>3, <1>4, <1>5, <1>7, PassTicker
<1>9. Standing'
  <2>1. StandingStep
    BY <1>1, <1>2, <1>3, <1>4, <1>5, <1>7, <1>8 DEF StandingStep, KeepsFlags, TickerStep, MoveQueued, lisVars, appVars,
      Inv, TypeOK, Standing, Places, Wcbs
  <2> QED
    BY <1>1, <1>2, <1>3, <1>4, <1>5, <1>6, <2>1, StandingKept DEF Inv
<1>10. Traffic'
  <2>1. MetGrows
    BY <1>1, <1>2, <1>3, <1>4, <1>5 DEF MetGrows, MoveQueued, appVars, TypeOK, Wcbs
  <2>2. \A v \in Wcbs : \A q \in (Outgoing(v))' : q \in Outgoing(v) \/ (Genuine(v, q))'
    BY <1>5 DEF Outgoing, MoveQueued
  <2>3. \A c \in Clients : \A q \in up'[c] :
          q \in up[c] \/ (Later(q) /\ (q.type \in {"ACK", "DAT"} => (Met(c))'))
    BY <1>1, <1>2, <1>3, <1>4, <1>5 DEF MoveQueued, netVars
  <2>4. \A c \in Clients : \A q \in down'[c] : q \in down[c] \/ Later(q)
    BY <1>1, <1>2, <1>3, <1>4, <1>5 DEF MoveQueued, netVars
  <2>5. \A v \in Wcbs : \A q \in rcvd'[v] :
          \/ q \in rcvd[v] /\ (v \in Slots => peer'[v] = peer[v])
          \/ Later(q) /\ (q.type \in {"ACK", "DAT"} /\ v \in Slots => (Met(peer[v]))')
    BY <1>1, <1>2, <1>3, <1>4, <1>5 DEF MoveQueued, rcvVars, lisVars
  <2>6. TrafficStep
    BY <2>1, <2>2, <2>3, <2>4, <2>5 DEF TrafficStep
  <2> QED
    BY <1>1, <1>2, <1>3, <1>4, <1>5, <1>6, <2>6, TrafficKept DEF Inv
<1>11. Beginnings'
  <2>1. \A t \in Slots : (Working(t))' => Working(t)
    BY <1>1, <1>2, <1>3, <1>4, <1>5 DEF Working, Elements, MoveQueued, lisVars, appVars, TypeOK, Wcbs
  <2>2. BeginningsStep
    BY <1>1, <1>2, <1>3, <1>4, <1>5, <1>8, <2>1 DEF BeginningsStep, TickerStep, MetGrows, MoveQueued, sndVars, rcvVars, netVars, lisVars, appVars, procVars,
      TypeOK, Wcbs
  <2> QED
    BY <1>1, <1>2, <1>3, <1>4, <1>5, <1>6, <2>2, BeginningsKept DEF Inv
<1> QED
  BY <1>6, <1>9, <1>10, <1>11 DEF Inv

\* Chunks of sb are put into packs.
LEMMA PacketiseInv ==
  ASSUME Inv, NEW w \in Wcbs, Packetise(w), UNCHANGED env
  PROVE  Inv'
<1>1. TypeOK
  BY DEF Inv
<1>2. At(w, "pack")
  BY DEF Packetise
<1>3. /\ Open(w) /\ (w \in Clients => conn[w] # "no" /\ dsn[w] >= 1 /\ state[w] # "SYN_RECEIVED")
      /\ (w \in Slots => peer[w] \in Clients /\ state[w] \notin {"SYNING", "SYN_SENT"})
  BY <1>2, AtFacts
<1>4. /\ tick' \in [Procs -> [wcb : Wcbs \cup {None}, step : Steps]]
      /\ (GoTo(w, "send") /\ "send" \in Steps) \/ EndPass(w)
  BY <1>1, GoToFacts, EndPassFacts DEF Packetise, Steps
<1>5. PICK j \in 0..Packable(w) :
        /\ sending' = [sending EXCEPT ![w] = @ \o [i \in 1..j |-> [type |-> "DAT", seq |-> dsn[w] + i - 1]]]
        /\ dsn' = [dsn EXCEPT ![w] = @ + j] /\ sb' = [sb EXCEPT ![w] = @ - j]
  BY DEF Packetise
<1>6. j \in Nat /\ j <= sb[w] /\ sb[w] \in Nat /\ dsn[w] \in Nat
  BY <1>1 DEF Packable, TypeOK
<1>7. /\ dsn' \in [Wcbs -> Nat] /\ sb' \in [Wcbs -> Nat]
      /\ \A v \in Wcbs : dsn'[v] >= dsn[v] /\ sb'[v] <= sb[v]
  <2>1. dsn \in [Wcbs -> Nat] /\ sb \in [Wcbs -> Nat]
    BY <1>1 DEF TypeOK
  <2>2. dsn[w] + j \in Nat /\ dsn[w] + j >= dsn[w] /\ sb[w] - j \in Nat /\ sb[w] - j <= sb[w]
    BY <1>6
  <2>3. \A v \in Wcbs : dsn'[v] = (IF v = w THEN dsn[w] + j ELSE dsn[v]) /\ sb'[v] = IF v = w THEN sb[w] - j ELSE sb[v]
    BY <1>5, <2>1
  <2>4. \A v \in Wcbs : dsn[v] \in Nat /\ sb[v] \in Nat
    BY <2>1
  <2>5. dsn' \in [Wcbs -> Nat] /\ sb' \in [Wcbs -> Nat]
    BY <1>5, <2>1, <2>2
  <2> QED
    BY <2>2, <2>3, <2>4, <2>5
<1>8. /\ sending' \in [Wcbs -> Seq(SndPacks)]
      /\ \A v \in Wcbs : \A q \in Elements(sending'[v]) :
           \/ q \in Elements(sending[v])
           \/ v = w /\ sb[w] > 0 /\ q.type = "DAT" /\ q.seq >= dsn[w]
  <2>1. PICK d : d = [i \in 1..j |-> [type |-> "DAT", seq |-> dsn[w] + i - 1]]
    OBVIOUS
  <2>2. \A i \in 1..j : /\ dsn[w] + i - 1 \in Nat /\ dsn[w] + i - 1 >= dsn[w] /\ j > 0
    BY <1>6
  <2>3. \A i \in 1..j : [type |-> "DAT", seq |-> dsn[w] + i - 1] \in SndPacks
    BY <2>2 DEF SndPacks, Types
  <2>4. d \in Seq(SndPacks) /\ Len(d) = j
    BY <1>6, <2>1, <2>3
  <2>5. \A q \in Elements(d) : sb[w] > 0 /\ q.type = "DAT" /\ q.seq >= dsn[w]
    <3> SUFFICES ASSUME NEW i \in 1..j
                 PROVE  sb[w] > 0 /\ d[i].type = "DAT" /\ d[i].seq >= dsn[w]
      BY <2>4 DEF Elements
    <3>1. d[i] = [type |-> "DAT", seq |-> dsn[w] + i - 1]
      BY <2>1
    <3> QED
      BY <1>6, <2>2, <3>1
  <2>6. sending[w] \in Seq(SndPacks)
    BY <1>1 DEF TypeOK
  <2>7. PICK e : e = sending[w] \o d
    OBVIOUS
  <2>8. e \in Seq(SndPacks) /\ Elements(e) = Elements(sending[w]) \cup Elements(d)
    BY <2>4, <2>6, <2>7, ElementsConcat
  <2>9. sending' = [sending EXCEPT ![w] = e]
    BY <1>5, <2>1, <2>7
  <2>10. \A v \in Wcbs : sending'[v] = IF v = w THEN e ELSE sending[v]
    BY <1>1, <2>9 DEF TypeOK
  <2>11. sending' \in [Wcbs -> Seq(SndPacks)]
    BY <1>1, <2>8, <2>9 DEF TypeOK
  <2> QED
    BY <2>5, <2>8, <2>10, <2>11
<1>9. "pack" \in Steps
  BY DEF Steps
<1>10. TypeOK'
  <2>1. UNCHANGED <<crash, state, errno, flags, next, una, queued, flights, rcvNext, rcvd, rb, standby, up, down,
                    lstate, inbox, pending, backlogq, peer, tuples, accepted, conn, wrote, met>>
    BY DEF Packetise, netVars, rcvVars, lisVars, appVars
  <2> QED
    BY <1>1, <1>4, <1>7, <1>8, <2>1 DEF TypeOK, Steps
<1>11. \A v \in Wcbs : KeepsPlace(v)
  BY DEF KeepsPlace, Packetise
<1>12. TickerStep
  BY <1>1, <1>2, <1>3, <1>4, <1>5, <1>6, <1>7, <1>8, <1>9, <1>11, PassTicker
<1>13. Standing'
  <2>1. StandingStep
    BY <1>1, <1>2, <1>3, <1>4, <1>5, <1>6, <1>7, <1>8, <1>9, <1>11, <1>12 DEF StandingStep, KeepsFlags, TickerStep, Packetise, lisVars, appVars,
      Inv, TypeOK, Standing, Places, Wcbs
  <2> QED
    BY <1>1, <1>2, <1>3, <1>4, <1>5, <1>6, <1>7, <1>8, <1>9, <1>10, <2>1, StandingKept DEF Inv
<1>14. Traffic'
  <2>1. MetGrows
    BY <1>1, <1>2, <1>3, <1>4, <1>5, <1>6, <1>7, <1>8, <1>9 DEF MetGrows, Packetise, appVars, TypeOK, Wcbs
  <2>2. \A v \in Wcbs : \A q \in (Outgoing(v))' : q \in Outgoing(v) \/ (Genuine(v, q))'
    <3> SUFFICES ASSUME NEW v \in Wcbs, NEW q \in Elements(sending'[v]), q \notin Elements(sending[v])
                 PROVE  (Genuine(v, q))'
      BY DEF Outgoing, Elements, Packetise
    <3>1. v = w /\ sb[w] > 0 /\ q.type = "DAT" /\ q.seq >= dsn[w]
      BY <1>8
    <3>2. dsn[w] >= 1 /\ (w \in Clients => Met(w))
      BY <3>1 DEF Inv, Beginnings
    <3>3. sending'[v] \in Seq(SndPacks)
      BY <1>8
    <3>4. q.seq \in Nat
      BY <3>3, ElementsTyped DEF SndPacks
    <3>5. q.seq >= 1
      BY <1>6, <3>1, <3>2, <3>4
    <3> QED
      BY <3>1, <3>2, <3>5 DEF Genuine, Later, Met, Packetise, appVars
  <2>3. \A c \in Clients : \A q \in up'[c] :
          q \in up[c] \/ (Later(q) /\ (q.type \in {"ACK", "DAT"} => (Met(c))'))
    BY <1>1, <1>2, <1>3, <1>4, <1>5, <1>6, <1>7, <1>8, <1>9 DEF Packetise, netVars
  <2>4. \A c \in Clients : \A q \in down'[c] : q \in down[c] \/ Later(q)
    BY <1>1, <1>2, <1>3, <1>4, <1>5, <1>6, <1>7, <1>8, <1>9 DEF Packetise, netVars
  <2>5. \A v \in Wcbs : \A q \in rcvd'[v] :
          \/ q \in rcvd[v] /\ (v \in Slots => peer'[v] = peer[v])
          \/ Later(q) /\ (q.type \in {"ACK", "DAT"} /\ v \in Slots => (Met(peer[v]))')
    BY <1>1, <1>2, <1>3, <1>4, <1>5, <1>6, <1>7, <1>8, <1>9 DEF Packetise, rcvVars, lisVars
  <2>6. TrafficStep
    BY <2>1, <2>2, <2>3, <2>4, <2>5 DEF TrafficStep
  <2> QED
    BY <1>1, <1>2, <1>3, <1>4, <1>5, <1>6, <1>7, <1>8, <1>9, <1>10, <2>6, TrafficKept DEF Inv
<1>15. Beginnings'
  <2>1. MetGrows
    BY <1>1, <1>2, <1>3, <1>4, <1>5, <1>6, <1>7, <1>8, <1>9 DEF MetGrows, Packetise, appVars, TypeOK, Wcbs
  <2>2. /\ UNCHANGED <<peer, conn>>
        /\ \A v \in Wcbs : dsn'[v] >= dsn[v] /\ (sb'[v] > 0 => sb[v] > 0)
    <3>1. \A v \in Wcbs : sb[v] \in Nat /\ sb'[v] \in Nat
      BY <1>1, <1>7 DEF TypeOK
    <3> QED
      BY <1>7, <3>1 DEF Packetise, lisVars, appVars
  <2>3. \A v \in Wcbs : Stopped(v) => (Stopped(v))'
    BY <1>12 DEF TickerStep
  <2>4. \A c \in Clients : \/ rcvNext'[c] = rcvNext[c]
                           \/ conn[c] # "no" /\ (c \in met' \/ (Stopped(c))')
    BY DEF Packetise, rcvVars
  <2>5. \A s \in Slots : rcvNext'[s] = rcvNext[s] \/ dsn'[s] >= 1 \/ (Stopped(s))'
    BY DEF Packetise, rcvVars
  <2>6. \A s \in Slots : (Working(s))' => Working(s) \/ (dsn'[s] >= 1 /\ (Met(peer[s]))')
    BY DEF Working, Elements, Packetise, lisVars, appVars
  <2>7. BeginningsStep
    BY <2>1, <2>2, <2>3, <2>4, <2>5, <2>6 DEF BeginningsStep
  <2> QED
    BY <1>1, <1>2, <1>3, <1>4, <1>5, <1>6, <1>7, <1>8, <1>9, <1>10, <2>7, BeginningsKept DEF Inv
<1> QED
  BY <1>10, <1>13, <1>14, <1>15 DEF Inv

\* check_send puts the pack at the front on the wire; the FIN moves the state on.
LEMMA SendPackInv ==
  ASSUME Inv, NEW w \in Wcbs, SendPack(w), UNCHANGED env
  PROVE  Inv'
<1>1. TypeOK
  BY DEF Inv
<1>2. At(w, "send")
  BY DEF SendPack
<1>3. /\ Open(w) /\ (w \in Clients => conn[w] # "no" /\ dsn[w] >= 1 /\ state[w] # "SYN_RECEIVED")
      /\ (w \in Slots => peer[w] \in Clients /\ state[w] \notin {"SYNING", "SYN_SENT"})
  BY <1>2, AtFacts
<1>4. PICK p : p = Head(sending[w])
  OBVIOUS
<1>5. /\ p \in SndPacks /\ Genuine(w, p)
      /\ Tail(sending[w]) \in Seq(SndPacks)
      /\ Elements(Tail(sending[w])) \subseteq Elements(sending[w])
  <2>1. sending[w] \in Seq(SndPacks) /\ sending[w] # <<>>
    BY <1>1 DEF SendPack, TypeOK
  <2>2. /\ p \in SndPacks /\ p \in Elements(sending[w])
        /\ Tail(sending[w]) \in Seq(SndPacks)
        /\ Elements(Tail(sending[w])) \subseteq Elements(sending[w])
    BY <1>4, <2>1, ElementsTail
  <2> QED
    BY <2>2 DEF Inv, Traffic, Sent, Outgoing
<1>6. /\ tick' \in [Procs -> [wcb : Wcbs \cup {None}, step : Steps]]
      /\ tick' = tick \/ GoTo(w, "move")
  <2>1. tick' = tick \/ GoTo(w, "move")
    BY DEF SendPack
  <2>2. "move" \in Steps
    BY DEF Steps
  <2>3. CASE tick' = tick
    BY <1>1, <2>3 DEF TypeOK, Steps
  <2>4. CASE GoTo(w, "move")
    BY <1>1, <2>2, <2>4, GoToFacts
  <2> QED
    BY <2>1, <2>3, <2>4
<1>7. /\ sending' \in [Wcbs -> Seq(SndPacks)]
      /\ \A v \in Wcbs : Elements(sending'[v]) \subseteq Elements(sending[v])
  <2>1. CASE sending' = [sending EXCEPT ![w] = Tail(sending[w])]
    <3>1. \A v \in Wcbs : sending'[v] = IF v = w THEN Tail(sending[w]) ELSE sending[v]
      BY <1>1, <2>1 DEF TypeOK
    <3>2. sending' \in [Wcbs -> Seq(SndPacks)]
      BY <1>1, <1>5, <2>1 DEF TypeOK
    <3> QED
      BY <1>5, <3>1, <3>2
  <2>2. CASE sending' = sending
    BY <1>1, <2>2 DEF TypeOK
  <2> QED
    BY <2>1, <2>2 DEF SendPack
<1>8. /\ flights' \in [Wcbs -> SUBSET SndPacks] /\ next' \in [Wcbs -> Nat]
      /\ \A v \in Wcbs : \A q \in flights'[v] : q \in flights[v] \/ (v = w /\ q = p)
  <2>1. flights' = [flights EXCEPT ![w] = flights[w] \cup {p}] /\ next' = [next EXCEPT ![w] = next[w] + 1]
    BY <1>4 DEF SendPack
  <2>2. flights' \in [Wcbs -> SUBSET SndPacks]
    BY <1>1, <1>5, <2>1 DEF TypeOK
  <2>3. next' \in [Wcbs -> Nat]
    BY <1>1, <2>1 DEF TypeOK
  <2>4. \A v \in Wcbs : flights'[v] = IF v = w THEN flights[w] \cup {p} ELSE flights[v]
    BY <1>1, <2>1 DEF TypeOK
  <2> QED
    BY <2>2, <2>3, <2>4
<1>9. PICK packs : packs = {WithAck(w, p)} /\ Inject(w, packs)
  BY <1>4 DEF SendPack
<1>10. /\ packs \in SUBSET Packs
       /\ \A q \in packs : Later(q) /\ (q.type \in {"ACK", "DAT"} /\ w \in Clients => Met(w))
  <2>1. WithAck(w, p) \in Packs /\ WithAck(w, p).type = p.type /\ WithAck(w, p).seq = p.seq
    BY <1>1, <1>5 DEF WithAck, Packs, SndPacks, TypeOK
  <2> QED
    BY <1>5, <1>9, <2>1 DEF Genuine, Later
<1>11. /\ up' \in [Clients -> SUBSET Packs] /\ down' \in [Clients -> SUBSET Packs]
       /\ \A c \in Clients : \A q \in up'[c] : q \in up[c] \/ (w = c /\ q \in packs)
       /\ \A c \in Clients : \A q \in down'[c] : q \in down[c] \/ (w \in Slots /\ q \in packs)
  BY <1>1, <1>3, <1>9, <1>10, InjectFacts
<1>12. /\ state' \in [Wcbs -> States] /\ \A v \in Wcbs : v # w => state'[v] = state[v]
       /\ \/ state'[w] = state[w]
          \/ /\ state[w] \notin {"FREE", "RECYCLE", "CLOSED"}
             /\ state'[w] \in States \ {"FREE", "RECYCLE", "SYNING", "SYN_RECEIVED"}
             /\ w \in Slots => state'[w] # "SYN_SENT" /\ state[w] \in {"ESTABLISHED", "CLOSE_WAIT"}
             /\ w \in pending => state'[w] \in Awaited
  <2>1. state \in [Wcbs -> States] /\ state[w] \in States
    BY <1>1 DEF TypeOK
  <2>2. CASE /\ state[w] \in {"SYNING", "SYN_RECEIVED"}
             /\ state' = [state EXCEPT ![w] = IF @ = "SYNING" THEN "SYN_SENT" ELSE @]
    <3>1. CASE state[w] = "SYNING"
      <4>1. w \notin Slots /\ w \notin pending
        BY <1>1, <1>3, <3>1 DEF TypeOK
      <4>2. "SYN_SENT" \in States \ {"FREE", "RECYCLE", "SYNING", "SYN_RECEIVED"}
        BY DEF States
      <4> QED
        BY <2>1, <2>2, <3>1, <4>1, <4>2
    <3>2. CASE state[w] # "SYNING"
      BY <2>1, <2>2, <3>2
    <3> QED
      BY <3>1, <3>2
  <2>3. CASE p.type = "FIN" /\ state[w] \in DOMAIN OnFinSent /\ state' = [state EXCEPT ![w] = OnFinSent[@]]
    <3>1. state[w] \in {"ESTABLISHED", "CLOSE_WAIT"} /\ OnFinSent[state[w]] \in {"FIN_WAIT_1", "LAST_ACK"}
      BY <2>3, FinSentFacts
    <3>2. OnFinSent[state[w]] \in States \ {"FREE", "RECYCLE", "SYNING", "SYN_RECEIVED", "SYN_SENT"}
      BY <3>1 DEF States
    <3>3. w \notin pending
      BY <1>1, <1>5, <2>3 DEF Genuine, TypeOK, Inv, Standing, Lists
    <3>4. state'[w] = OnFinSent[state[w]]
      BY <2>1, <2>3
    <3> QED
      BY <2>1, <2>3, <3>1, <3>2, <3>3, <3>4
  <2>4. CASE state' = state
    BY <2>1, <2>4
  <2> QED
    BY <1>4, <2>2, <2>3, <2>4 DEF SendPack
<1>13. /\ flags' \in [Wcbs -> SUBSET {"CLOSED_CALLED", "READ_SHUT", "WRITE_SHUT", "FIN_RECEIVED", "FIN_READ",
                                       "FIN_SENT", "RECV_ERROR", "SEND_ERROR"}]
       /\ \A v \in Wcbs : KeepsFlags(v)
  <2>1. PICK f : flags' = [flags EXCEPT ![w] = f] /\ (f = flags[w] \/ f = flags[w] \cup {"FIN_SENT"})
    <3>1. [flags EXCEPT ![w] = flags[w]] = flags
      BY <1>1 DEF TypeOK
    <3> QED
      BY <3>1 DEF SendPack
  <2>2. f \in SUBSET {"CLOSED_CALLED", "READ_SHUT", "WRITE_SHUT", "FIN_RECEIVED", "FIN_READ",
                      "FIN_SENT", "RECV_ERROR", "SEND_ERROR"}
    BY <1>1, <2>1 DEF TypeOK
  <2>3. \A v \in Wcbs : flags'[v] = IF v = w THEN f ELSE flags[v]
    BY <1>1, <2>1 DEF TypeOK
  <2>4. \A v \in Wcbs : KeepsFlags(v)
    BY <1>3, <2>1, <2>3 DEF KeepsFlags
  <2> QED
    BY <1>1, <2>1, <2>2, <2>4 DEF TypeOK
<1>14. crash' \in [Procs -> {"no", "ack", "syn", "fin", "seq", "connect", "recv"}]
  <2>1. crash' = crash \/ crash' = [crash EXCEPT ![Proc(w)] = "syn"] \/ crash' = [crash EXCEPT ![Proc(w)] = "fin"]
    BY DEF SendPack, Fail
  <2> QED
    BY <1>1, <2>1 DEF TypeOK
<1>15. UNCHANGED <<errno, sb, dsn, una, queued, rcvNext, rcvd, rb, standby, lstate, inbox, pending, backlogq, peer,
                     tuples, accepted, conn, wrote, met>>
  BY DEF SendPack, rcvVars, lisVars, appVars
<1>16. "move" \in Steps
  BY DEF Steps
<1>17. TypeOK'
  BY <1>1, <1>6, <1>7, <1>8, <1>11, <1>12, <1>13, <1>14, <1>15 DEF TypeOK, Steps
<1>18. \A v \in Wcbs : KeepsPlace(v)
  BY <1>12 DEF KeepsPlace
<1>19. TickerStep
  BY <1>1, <1>2, <1>3, <1>4, <1>5, <1>6, <1>7, <1>8, <1>9, <1>10, <1>11, <1>12, <1>13, <1>14, <1>15, <1>16, <1>18, <1>2, PassTicker
<1>20. Standing'
  <2>1. StandingStep
    BY <1>13, <1>15, <1>18, <1>19 DEF StandingStep, TickerStep
  <2> QED
    BY <1>1, <1>2, <1>3, <1>4, <1>5, <1>6, <1>7, <1>8, <1>9, <1>10, <1>11, <1>12, <1>13, <1>14, <1>15, <1>16, <1>17, <2>1, StandingKept DEF Inv
<1>21. Traffic'
  <2>1. MetGrows
    BY <1>1, <1>15 DEF MetGrows, TypeOK, Wcbs
  <2>2. \A v \in Wcbs : \A q \in (Outgoing(v))' : q \in Outgoing(v) \/ (Genuine(v, q))'
    <3> SUFFICES ASSUME NEW v \in Wcbs, NEW q \in (Outgoing(v))', q \notin Outgoing(v)
                 PROVE  (Genuine(v, q))'
      OBVIOUS
    <3>1. v = w /\ q = p
      BY <1>7, <1>8, <1>15 DEF Outgoing
    <3> QED
      BY <1>5, <1>15, <3>1 DEF Genuine, Later, Met
  <2>3. \A c \in Clients : \A q \in up'[c] :
          q \in up[c] \/ (Later(q) /\ (q.type \in {"ACK", "DAT"} => (Met(c))'))
    BY <1>10, <1>11, <1>15 DEF Met
  <2>4. \A c \in Clients : \A q \in down'[c] : q \in down[c] \/ Later(q)
    BY <1>10, <1>11
  <2>5. \A v \in Wcbs : \A q \in rcvd'[v] :
          \/ q \in rcvd[v] /\ (v \in Slots => peer'[v] = peer[v])
          \/ Later(q) /\ (q.type \in {"ACK", "DAT"} /\ v \in Slots => (Met(peer[v]))')
    BY <1>15
  <2>6. TrafficStep
    BY <2>1, <2>2, <2>3, <2>4, <2>5 DEF TrafficStep
  <2> QED
    BY <1>1, <1>2, <1>3, <1>4, <1>5, <1>6, <1>7, <1>8, <1>9, <1>10, <1>11, <1>12, <1>13, <1>14, <1>15, <1>16, <1>17, <2>6, TrafficKept DEF Inv
<1>22. Beginnings'
  <2>1. MetGrows
    BY <1>1, <1>15 DEF MetGrows, TypeOK, Wcbs
  <2>2. /\ UNCHANGED <<peer, conn>>
        /\ \A v \in Wcbs : dsn'[v] >= dsn[v] /\ sb'[v] = sb[v]
    BY <1>1, <1>15 DEF TypeOK
  <2>3. \A v \in Wcbs : Stopped(v) => (Stopped(v))'
    BY <1>19 DEF TickerStep
  <2>4. \A c \in Clients : \/ rcvNext'[c] = rcvNext[c]
                           \/ conn[c] # "no" /\ (c \in met' \/ (Stopped(c))')
    BY <1>15
  <2>5. \A s \in Slots : rcvNext'[s] = rcvNext[s] \/ dsn'[s] >= 1 \/ (Stopped(s))'
    BY <1>15
  <2>6. \A s \in Slots : (Working(s))' => Working(s) \/ (dsn'[s] >= 1 /\ (Met(peer[s]))')
    <3> SUFFICES ASSUME NEW s \in Slots, (Working(s))'
                 PROVE  Working(s)
      OBVIOUS
    <3>1. CASE s = w
      BY <1>12, <1>15, <3>1 DEF Working, Elements
    <3>2. CASE s # w
      BY <1>12, <1>15, <3>2 DEF Working, Elements, Wcbs
    <3> QED
      BY <3>1, <3>2
  <2>7. BeginningsStep
    BY <2>1, <2>2, <2>3, <2>4, <2>5, <2>6 DEF BeginningsStep
  <2> QED
    BY <1>1, <1>2, <1>3, <1>4, <1>5, <1>6, <1>7, <1>8, <1>9, <1>10, <1>11, <1>12, <1>13, <1>14, <1>15, <1>16, <1>17, <2>7, BeginningsKept DEF Inv
<1> QED
  BY <1>17, <1>20, <1>21, <1>22 DEF Inv

---------------------------------------------------------------------------
(* The calls of the applications, the listener's socket and UDP.           *)

\* A descriptor the application has: its first pack is made, and it is no free slot.
LEMMA CallableFacts ==
  ASSUME Inv, NEW w \in Wcbs, Closable(w)
  PROVE  /\ dsn[w] >= 1 /\ Open(w)
         /\ w \in Clients => conn[w] # "no"
         /\ w \in Slots => w \in accepted
<1>1. w \in accepted \/ (w \in Clients /\ conn[w] \in {"done", "failed"})
  BY DEF Closable, Callable
<1>2. state[w] # "RECYCLE"
  BY DEF Closable, Callable
<1>3. w \in accepted => w \in Slots /\ w \notin Clients
  BY WcbFacts DEF Inv, TypeOK
<1>4. CASE w \in accepted
  <2>1. Working(w) /\ w \in Held
    BY <1>4 DEF Working, Held
  <2>2. dsn[w] >= 1 /\ state[w] # "FREE"
    BY <1>3, <1>4, <2>1 DEF Inv, Beginnings, Standing, Places
  <2> QED
    BY <1>2, <1>3, <1>4, <2>2 DEF Open
<1>5. CASE w \in Clients /\ conn[w] \in {"done", "failed"}
  BY <1>2, <1>5, WcbFacts DEF Inv, Beginnings, Standing, Places, Open
<1> QED
  BY <1>1, <1>4, <1>5

\* A pack reaches the socket of the listener.
LEMMA ArriveInv ==
  ASSUME Inv, NEW c \in Clients, Arrive(c), UNCHANGED env
  PROVE  Inv'
<1>1. TypeOK
  BY DEF Inv
<1>2. inbox' \in Seq([from : Clients, pack : Packs])
  <2>1. PICK p \in up[c] : inbox' = Append(inbox, [from |-> c, pack |-> p])
    BY DEF Arrive
  <2>2. [from |-> c, pack |-> p] \in [from : Clients, pack : Packs]
    BY <1>1, <2>1 DEF TypeOK
  <2>3. inbox \in Seq([from : Clients, pack : Packs])
    BY <1>1 DEF TypeOK
  <2> QED
    BY <2>1, <2>2, <2>3
<1>3. TypeOK'
  BY <1>1, <1>2 DEF TypeOK, Arrive, sndVars, rcvVars, netVars, lisVars, appVars, procVars, Steps
<1>4. \A v \in Wcbs : KeepsPlace(v)
  BY <1>1, <1>2 DEF KeepsPlace, Arrive, TypeOK, Open
<1>5. TickerStep
  BY <1>1, <1>2, <1>4, CallTicker DEF Arrive, procVars
<1>6. Standing'
  <2>1. StandingStep
    BY <1>1, <1>2, <1>4, <1>5 DEF StandingStep, KeepsFlags, TickerStep, Arrive, lisVars, appVars,
      Inv, TypeOK, Standing, Places, Wcbs
  <2> QED
    BY <1>1, <1>2, <1>3, <2>1, StandingKept DEF Inv
<1>7. Traffic'
  <2>1. TrafficStep
    BY <1>1, <1>2 DEF TrafficStep, MetGrows, Outgoing, Elements, Arrive, sndVars, rcvVars, netVars, lisVars, appVars, procVars, TypeOK, Wcbs
  <2> QED
    BY <1>1, <1>2, <1>3, <2>1, TrafficKept DEF Inv
<1>8. Beginnings'
  <2>1. \A s \in Slots : (Working(s))' => Working(s)
    BY <1>1, <1>2 DEF Working, Elements, Arrive, lisVars, appVars, TypeOK, Wcbs
  <2>2. BeginningsStep
    BY <1>1, <1>2, <1>5, <2>1 DEF BeginningsStep, TickerStep, MetGrows, Arrive, sndVars, rcvVars, netVars, lisVars, appVars, procVars,
      TypeOK, Wcbs
  <2> QED
    BY <1>1, <1>2, <1>3, <2>2, BeginningsKept DEF Inv
<1> QED
  BY <1>3, <1>6, <1>7, <1>8 DEF Inv

\* The listener is closed, and recycled in a later pass.
LEMMA CloseListenerInv ==
  ASSUME Inv, CloseListener, UNCHANGED env
  PROVE  Inv'
<1>1. TypeOK
  BY DEF Inv
<1>2. TypeOK'
  BY <1>1 DEF TypeOK, CloseListener, sndVars, rcvVars, netVars, lisVars, appVars, procVars, Steps
<1>3. \A v \in Wcbs : KeepsPlace(v)
  BY <1>1 DEF KeepsPlace, CloseListener, TypeOK, Open
<1>4. TickerStep
  BY <1>1, <1>3, CallTicker DEF CloseListener, procVars
<1>5. Standing'
  <2>1. StandingStep
    BY <1>1, <1>3, <1>4 DEF StandingStep, KeepsFlags, TickerStep, CloseListener, lisVars, appVars,
      Inv, TypeOK, Standing, Places, Wcbs
  <2> QED
    BY <1>1, <1>2, <2>1, StandingKept DEF Inv
<1>6. Traffic'
  <2>1. MetGrows
    BY <1>1 DEF MetGrows, CloseListener, appVars, TypeOK, Wcbs
  <2>2. \A v \in Wcbs : \A q \in (Outgoing(v))' : q \in Outgoing(v) \/ (Genuine(v, q))'
    BY <1>1 DEF Outgoing, Elements, CloseListener, sndVars
  <2>3. \A c \in Clients : \A q \in up'[c] :
          q \in up[c] \/ (Later(q) /\ (q.type \in {"ACK", "DAT"} => (Met(c))'))
    BY <1>1 DEF CloseListener, netVars
  <2>4. \A c \in Clients : \A q \in down'[c] : q \in down[c] \/ Later(q)
    BY <1>1 DEF CloseListener, netVars
  <2>5. \A v \in Wcbs : \A q \in rcvd'[v] :
          \/ q \in rcvd[v] /\ (v \in Slots => peer'[v] = peer[v])
          \/ Later(q) /\ (q.type \in {"ACK", "DAT"} /\ v \in Slots => (Met(peer[v]))')
    BY <1>1 DEF CloseListener, rcvVars, lisVars
  <2>6. TrafficStep
    BY <2>1, <2>2, <2>3, <2>4, <2>5 DEF TrafficStep
  <2> QED
    BY <1>1, <1>2, <2>6, TrafficKept DEF Inv
<1>7. Beginnings'
  <2>1. \A s \in Slots : (Working(s))' => Working(s)
    BY <1>1 DEF Working, Elements, CloseListener, lisVars, appVars, TypeOK, Wcbs
  <2>2. BeginningsStep
    BY <1>1, <1>4, <2>1 DEF BeginningsStep, TickerStep, MetGrows, CloseListener, sndVars, rcvVars, netVars, lisVars, appVars, procVars,
      TypeOK, Wcbs
  <2> QED
    BY <1>1, <1>2, <2>2, BeginningsKept DEF Inv
<1> QED
  BY <1>2, <1>5, <1>6, <1>7 DEF Inv

\* UDP loses a pack.
LEMMA LoseInv ==
  ASSUME Inv, NEW c \in Clients, Lose(c), UNCHANGED env
  PROVE  Inv'
<1>1. TypeOK
  BY DEF Inv
<1>2. /\ up' \in [Clients -> SUBSET Packs] /\ down' \in [Clients -> SUBSET Packs]
      /\ \A d \in Clients : up'[d] \subseteq up[d] /\ down'[d] \subseteq down[d]
  <2>1. CASE \E p \in up[c] : up' = [up EXCEPT ![c] = @ \ {p}] /\ UNCHANGED down
    BY <1>1, <2>1 DEF TypeOK
  <2>2. CASE \E p \in down[c] : down' = [down EXCEPT ![c] = @ \ {p}] /\ UNCHANGED up
    BY <1>1, <2>2 DEF TypeOK
  <2> QED
    BY <2>1, <2>2 DEF Lose
<1>3. TypeOK'
  BY <1>1, <1>2 DEF TypeOK, Lose, sndVars, rcvVars, netVars, lisVars, appVars, procVars, Steps
<1>4. \A v \in Wcbs : KeepsPlace(v)
  BY <1>1, <1>2 DEF KeepsPlace, Lose, TypeOK, Open
<1>5. TickerStep
  BY <1>1, <1>2, <1>4, CallTicker DEF Lose, procVars
<1>6. Standing'
  <2>1. StandingStep
    BY <1>1, <1>2, <1>4, <1>5 DEF StandingStep, KeepsFlags, TickerStep, Lose, lisVars, appVars,
      Inv, TypeOK, Standing, Places, Wcbs
  <2> QED
    BY <1>1, <1>2, <1>3, <2>1, StandingKept DEF Inv
<1>7. Traffic'
  <2>1. MetGrows
    BY <1>1, <1>2 DEF MetGrows, Lose, appVars, TypeOK, Wcbs
  <2>2. \A v \in Wcbs : \A q \in (Outgoing(v))' : q \in Outgoing(v) \/ (Genuine(v, q))'
    BY <1>1, <1>2 DEF Outgoing, Elements, Lose, sndVars
  <2>3. \A d \in Clients : \A q \in up'[d] :
          q \in up[d] \/ (Later(q) /\ (q.type \in {"ACK", "DAT"} => (Met(d))'))
    BY <1>2
  <2>4. \A d \in Clients : \A q \in down'[d] : q \in down[d] \/ Later(q)
    BY <1>2
  <2>5. \A v \in Wcbs : \A q \in rcvd'[v] :
          \/ q \in rcvd[v] /\ (v \in Slots => peer'[v] = peer[v])
          \/ Later(q) /\ (q.type \in {"ACK", "DAT"} /\ v \in Slots => (Met(peer[v]))')
    BY <1>1, <1>2 DEF Lose, rcvVars, lisVars
  <2>6. TrafficStep
    BY <2>1, <2>2, <2>3, <2>4, <2>5 DEF TrafficStep
  <2> QED
    BY <1>1, <1>2, <1>3, <2>6, TrafficKept DEF Inv
<1>8. Beginnings'
  <2>1. \A s \in Slots : (Working(s))' => Working(s)
    BY <1>1, <1>2 DEF Working, Elements, Lose, lisVars, appVars, TypeOK, Wcbs
  <2>2. BeginningsStep
    BY <1>1, <1>2, <1>5, <2>1 DEF BeginningsStep, TickerStep, MetGrows, Lose, sndVars, rcvVars, netVars, lisVars, appVars, procVars,
      TypeOK, Wcbs
  <2> QED
    BY <1>1, <1>2, <1>3, <2>2, BeginningsKept DEF Inv
<1> QED
  BY <1>3, <1>6, <1>7, <1>8 DEF Inv

\* The blocked connect returns.
LEMMA ConnectReturnsInv ==
  ASSUME Inv, NEW c \in Clients, ConnectReturns(c), UNCHANGED env
  PROVE  Inv'
<1>1. TypeOK
  BY DEF Inv
<1>2. /\ conn' \in [Clients -> {"no", "wait", "woken", "done", "failed"}]
      /\ \A d \in Clients : conn'[d] = "no" <=> conn[d] = "no"
  BY <1>1 DEF ConnectReturns, TypeOK
<1>3. crash' \in [Procs -> {"no", "ack", "syn", "fin", "seq", "connect", "recv"}]
  <2>1. crash' = crash \/ crash' = [crash EXCEPT ![Proc(c)] = "connect"]
    BY DEF ConnectReturns, Fail
  <2> QED
    BY <1>1, <2>1 DEF TypeOK
<1>4. TypeOK'
  BY <1>1, <1>2, <1>3 DEF TypeOK, ConnectReturns, sndVars, rcvVars, netVars, lisVars, appVars, procVars, Steps
<1>5. \A v \in Wcbs : KeepsPlace(v)
  BY <1>1, <1>2, <1>3 DEF KeepsPlace, ConnectReturns, TypeOK, Open
<1>6. TickerStep
  BY <1>1, <1>2, <1>3, <1>5, CallTicker DEF ConnectReturns, procVars
<1>7. Standing'
  <2>1. StandingStep
    BY <1>1, <1>2, <1>3, <1>5, <1>6 DEF StandingStep, KeepsFlags, TickerStep, ConnectReturns, lisVars, appVars,
      Inv, TypeOK, Standing, Places, Wcbs
  <2> QED
    BY <1>1, <1>2, <1>3, <1>4, <2>1, StandingKept DEF Inv
<1>8. Traffic'
  <2>1. TrafficStep
    BY <1>1, <1>2, <1>3 DEF TrafficStep, MetGrows, Outgoing, Elements, ConnectReturns, sndVars, rcvVars, netVars, lisVars, appVars, procVars, TypeOK, Wcbs
  <2> QED
    BY <1>1, <1>2, <1>3, <1>4, <2>1, TrafficKept DEF Inv
<1>9. Beginnings'
  <2>1. \A s \in Slots : (Working(s))' => Working(s)
    BY <1>1, <1>2, <1>3 DEF Working, Elements, ConnectReturns, lisVars, appVars, TypeOK, Wcbs
  <2>2. BeginningsStep
    BY <1>1, <1>2, <1>3, <1>6, <2>1 DEF BeginningsStep, TickerStep, MetGrows, ConnectReturns, sndVars, rcvVars, netVars, lisVars, appVars, procVars,
      TypeOK, Wcbs
  <2> QED
    BY <1>1, <1>2, <1>3, <1>4, <2>2, BeginningsKept DEF Inv
<1> QED
  BY <1>4, <1>7, <1>8, <1>9 DEF Inv

\* The application writes a chunk.
LEMMA SendInv ==
  ASSUME Inv, NEW w \in Wcbs, Send(w), UNCHANGED env
  PROVE  Inv'
<1>1. TypeOK
  BY DEF Inv
<1>2. /\ dsn[w] >= 1 /\ Open(w) /\ (w \in Clients => conn[w] # "no")
      /\ w \in Slots => w \in accepted
  BY CallableFacts DEF Send, Closable
<1>3. /\ sb' \in [Wcbs -> Nat] /\ wrote' \in [Wcbs -> 0..MaxWrite] /\ wrote'[w] > 0
      /\ \A v \in Wcbs : wrote'[v] >= wrote[v] /\ (v # w => sb'[v] = sb[v])
  <2>1. sb \in [Wcbs -> Nat] /\ wrote \in [Wcbs -> 0..MaxWrite] /\ MaxWrite \in Nat
    BY <1>1, SizesAssumption DEF TypeOK
  <2>2. sb' = [sb EXCEPT ![w] = sb[w] + 1] /\ wrote' = [wrote EXCEPT ![w] = wrote[w] + 1] /\ wrote[w] < MaxWrite
    BY DEF Send
  <2>3. sb[w] + 1 \in Nat /\ wrote[w] \in Nat /\ wrote[w] + 1 \in 0..MaxWrite
    BY <2>1, <2>2
  <2>4. \A v \in Wcbs : /\ wrote[v] \in Nat /\ wrote'[v] = IF v = w THEN wrote[w] + 1 ELSE wrote[v]
                        /\ v # w => sb'[v] = sb[v]
    BY <2>1, <2>2
  <2>5. sb' \in [Wcbs -> Nat] /\ wrote' \in [Wcbs -> 0..MaxWrite]
    BY <2>1, <2>2, <2>3
  <2> QED
    BY <2>3, <2>4, <2>5
<1>4. TypeOK'
  BY <1>1, <1>2, <1>3 DEF TypeOK, Send, sndVars, rcvVars, netVars, lisVars, appVars, procVars, Steps
<1>5. \A v \in Wcbs : KeepsPlace(v)
  BY <1>1, <1>2, <1>3 DEF KeepsPlace, Send, TypeOK, Open
<1>6. TickerStep
  BY <1>1, <1>2, <1>3, <1>5, CallTicker DEF Send, procVars
<1>7. Standing'
  <2>1. StandingStep
    BY <1>1, <1>2, <1>3, <1>5, <1>6 DEF StandingStep, KeepsFlags, TickerStep, Send, lisVars, appVars,
      Inv, TypeOK, Standing, Places, Wcbs
  <2> QED
    BY <1>1, <1>2, <1>3, <1>4, <2>1, StandingKept DEF Inv
<1>8. Traffic'
  <2>1. MetGrows
    BY <1>3 DEF MetGrows, Send, Wcbs
  <2>2. \A v \in Wcbs : \A q \in (Outgoing(v))' : q \in Outgoing(v) \/ (Genuine(v, q))'
    BY <1>1, <1>2, <1>3 DEF Outgoing, Elements, Send, sndVars
  <2>3. \A c \in Clients : \A q \in up'[c] :
          q \in up[c] \/ (Later(q) /\ (q.type \in {"ACK", "DAT"} => (Met(c))'))
    BY <1>1, <1>2, <1>3 DEF Send, netVars
  <2>4. \A c \in Clients : \A q \in down'[c] : q \in down[c] \/ Later(q)
    BY <1>1, <1>2, <1>3 DEF Send, netVars
  <2>5. \A v \in Wcbs : \A q \in rcvd'[v] :
          \/ q \in rcvd[v] /\ (v \in Slots => peer'[v] = peer[v])
          \/ Later(q) /\ (q.type \in {"ACK", "DAT"} /\ v \in Slots => (Met(peer[v]))')
    BY <1>1, <1>2, <1>3 DEF Send, rcvVars, lisVars
  <2>6. TrafficStep
    BY <2>1, <2>2, <2>3, <2>4, <2>5 DEF TrafficStep
  <2> QED
    BY <1>1, <1>2, <1>3, <1>4, <2>6, TrafficKept DEF Inv
<1>9. Beginnings'
  <2>1. MetGrows
    BY <1>3 DEF MetGrows, Send, Wcbs
  <2>2. /\ UNCHANGED <<peer, conn>>
        /\ \A v \in Wcbs : dsn'[v] >= dsn[v] /\ (sb'[v] > 0 => sb[v] > 0 \/ (dsn'[v] >= 1 /\ (v \in Clients => (Met(v))')))
    <3>1. UNCHANGED <<peer, conn, dsn>> /\ \A v \in Wcbs : dsn[v] \in Nat
      BY <1>1 DEF Send, lisVars, TypeOK
    <3>2. w \in Clients => (Met(w))'
      BY <1>3 DEF Met
    <3> QED
      BY <1>2, <1>3, <3>1, <3>2
  <2>3. \A v \in Wcbs : Stopped(v) => (Stopped(v))'
    BY <1>6 DEF TickerStep
  <2>4. \A c \in Clients : \/ rcvNext'[c] = rcvNext[c]
                           \/ conn[c] # "no" /\ (c \in met' \/ (Stopped(c))')
    BY DEF Send, rcvVars
  <2>5. \A s \in Slots : rcvNext'[s] = rcvNext[s] \/ dsn'[s] >= 1 \/ (Stopped(s))'
    BY DEF Send, rcvVars
  <2>6. \A s \in Slots : (Working(s))' => Working(s) \/ (dsn'[s] >= 1 /\ (Met(peer[s]))')
    BY DEF Working, Elements, Send, lisVars
  <2>7. BeginningsStep
    BY <2>1, <2>2, <2>3, <2>4, <2>5, <2>6 DEF BeginningsStep
  <2> QED
    BY <1>1, <1>2, <1>3, <1>4, <2>7, BeginningsKept DEF Inv
<1> QED
  BY <1>4, <1>7, <1>8, <1>9 DEF Inv

\* The application reads: data, the end of the stream, or an assertion.
LEMMA RecvInv ==
  ASSUME Inv, NEW w \in Wcbs, Recv(w), UNCHANGED env
  PROVE  Inv'
<1>1. TypeOK
  BY DEF Inv
<1>2. /\ dsn[w] >= 1 /\ Open(w) /\ (w \in Clients => conn[w] # "no")
      /\ w \in Slots => w \in accepted
  BY CallableFacts DEF Recv, Closable
<1>3. /\ flags' \in [Wcbs -> SUBSET {"CLOSED_CALLED", "READ_SHUT", "WRITE_SHUT", "FIN_RECEIVED", "FIN_READ",
                                      "FIN_SENT", "RECV_ERROR", "SEND_ERROR"}]
      /\ \A v \in Wcbs : KeepsFlags(v)
  <2>1. PICK f : flags' = [flags EXCEPT ![w] = f] /\ (f = flags[w] \/ f = flags[w] \cup {"FIN_READ"})
    <3>1. [flags EXCEPT ![w] = flags[w]] = flags
      BY <1>1 DEF TypeOK
    <3> QED
      BY <3>1 DEF Recv
  <2>2. f \in SUBSET {"CLOSED_CALLED", "READ_SHUT", "WRITE_SHUT", "FIN_RECEIVED", "FIN_READ",
                      "FIN_SENT", "RECV_ERROR", "SEND_ERROR"}
    BY <1>1, <2>1 DEF TypeOK
  <2>3. \A v \in Wcbs : flags'[v] = IF v = w THEN f ELSE flags[v]
    BY <1>1, <2>1 DEF TypeOK
  <2>4. \A v \in Wcbs : KeepsFlags(v)
    BY <1>2, <2>1, <2>3 DEF KeepsFlags
  <2> QED
    BY <1>1, <2>1, <2>2, <2>4 DEF TypeOK
<1>4. /\ rb' \in [Wcbs -> Nat]
      /\ crash' \in [Procs -> {"no", "ack", "syn", "fin", "seq", "connect", "recv"}]
  <2>1. rb' = rb \/ rb' = [rb EXCEPT ![w] = 0]
    BY DEF Recv
  <2>2. crash' = crash \/ crash' = [crash EXCEPT ![Proc(w)] = "recv"]
    BY DEF Recv, Fail
  <2>3. rb' \in [Wcbs -> Nat]
    <3>1. rb \in [Wcbs -> Nat] /\ 0 \in Nat
      BY <1>1 DEF TypeOK
    <3> QED
      BY <2>1, <3>1
  <2>4. crash' \in [Procs -> {"no", "ack", "syn", "fin", "seq", "connect", "recv"}]
    BY <1>1, <2>2 DEF TypeOK
  <2> QED
    BY <2>3, <2>4
<1>5. UNCHANGED <<tick, state, errno, sb, dsn, next, una, queued, sending, flights, rcvNext, rcvd, standby, up, down,
                   lstate, inbox, pending, backlogq, peer, tuples, accepted, conn, wrote, met>>
  BY DEF Recv, sndVars, netVars, lisVars, appVars
<1>6. TypeOK'
  BY <1>1, <1>3, <1>4, <1>5 DEF TypeOK
<1>7. \A v \in Wcbs : KeepsPlace(v)
  BY <1>5 DEF KeepsPlace
<1>8. TickerStep
  BY <1>1, <1>2, <1>3, <1>4, <1>5, <1>7, CallTicker
<1>9. Standing'
  <2>1. StandingStep
    BY <1>3, <1>5, <1>7, <1>8 DEF StandingStep, TickerStep
  <2> QED
    BY <1>1, <1>2, <1>3, <1>4, <1>5, <1>6, <2>1, StandingKept DEF Inv
<1>10. Traffic'
  <2>1. MetGrows
    BY <1>1, <1>5 DEF MetGrows, TypeOK, Wcbs
  <2>2. \A v \in Wcbs : \A q \in (Outgoing(v))' : q \in Outgoing(v) \/ (Genuine(v, q))'
    BY <1>5 DEF Outgoing, Elements
  <2>3. \A c \in Clients : \A q \in up'[c] :
          q \in up[c] \/ (Later(q) /\ (q.type \in {"ACK", "DAT"} => (Met(c))'))
    BY <1>5
  <2>4. \A c \in Clients : \A q \in down'[c] : q \in down[c] \/ Later(q)
    BY <1>5
  <2>5. \A v \in Wcbs : \A q \in rcvd'[v] :
          \/ q \in rcvd[v] /\ (v \in Slots => peer'[v] = peer[v])
          \/ Later(q) /\ (q.type \in {"ACK", "DAT"} /\ v \in Slots => (Met(peer[v]))')
    BY <1>5
  <2>6. TrafficStep
    BY <2>1, <2>2, <2>3, <2>4, <2>5 DEF TrafficStep
  <2> QED
    BY <1>1, <1>2, <1>3, <1>4, <1>5, <1>6, <2>6, TrafficKept DEF Inv
<1>11. Beginnings'
  <2>1. MetGrows
    BY <1>1, <1>5 DEF MetGrows, TypeOK, Wcbs
  <2>2. /\ UNCHANGED <<peer, conn>>
        /\ \A v \in Wcbs : dsn'[v] >= dsn[v] /\ sb'[v] = sb[v]
    BY <1>1, <1>5 DEF TypeOK
  <2>3. \A v \in Wcbs : Stopped(v) => (Stopped(v))'
    BY <1>8 DEF TickerStep
  <2>4. \A c \in Clients : \/ rcvNext'[c] = rcvNext[c]
                           \/ conn[c] # "no" /\ (c \in met' \/ (Stopped(c))')
    BY <1>5
  <2>5. \A s \in Slots : rcvNext'[s] = rcvNext[s] \/ dsn'[s] >= 1 \/ (Stopped(s))'
    BY <1>5
  <2>6. \A s \in Slots : (Working(s))' => Working(s) \/ (dsn'[s] >= 1 /\ (Met(peer[s]))')
    BY <1>5 DEF Working, Elements
  <2>7. BeginningsStep
    BY <2>1, <2>2, <2>3, <2>4, <2>5, <2>6 DEF BeginningsStep
  <2> QED
    BY <1>1, <1>2, <1>3, <1>4, <1>5, <1>6, <2>7, BeginningsKept DEF Inv
<1> QED
  BY <1>6, <1>9, <1>10, <1>11 DEF Inv

\* A socket fails, or the last keepalive probe got no answer.
LEMMA SocketErrorInv ==
  ASSUME Inv, NEW w \in Wcbs, SocketError(w), UNCHANGED env
  PROVE  Inv'
<1>1. TypeOK
  BY DEF Inv
<1>2. Open(w) /\ (w \in Clients => conn[w] # "no")
  BY DEF SocketError, Inv, Standing, Places
<1>3. /\ flags' \in [Wcbs -> SUBSET {"CLOSED_CALLED", "READ_SHUT", "WRITE_SHUT", "FIN_RECEIVED", "FIN_READ",
                                      "FIN_SENT", "RECV_ERROR", "SEND_ERROR"}]
      /\ \A v \in Wcbs : KeepsFlags(v)
  <2>1. PICK f : flags' = [flags EXCEPT ![w] = f] /\ (f = flags[w] \cup {"RECV_ERROR"} \/ f = flags[w] \cup {"SEND_ERROR"})
    <3>1. [flags EXCEPT ![w] = flags[w]] = flags
      BY <1>1 DEF TypeOK
    <3> QED
      BY <3>1 DEF SocketError
  <2>2. f \in SUBSET {"CLOSED_CALLED", "READ_SHUT", "WRITE_SHUT", "FIN_RECEIVED", "FIN_READ",
                      "FIN_SENT", "RECV_ERROR", "SEND_ERROR"}
    BY <1>1, <2>1 DEF TypeOK
  <2>3. \A v \in Wcbs : flags'[v] = IF v = w THEN f ELSE flags[v]
    BY <1>1, <2>1 DEF TypeOK
  <2>4. \A v \in Wcbs : KeepsFlags(v)
    BY <1>2, <2>1, <2>3 DEF KeepsFlags
  <2> QED
    BY <1>1, <2>1, <2>2, <2>4 DEF TypeOK
<1>4. errno' \in [Wcbs -> {"ok", "timeout", "reset", "aborted", "socket"}]
  BY <1>1 DEF SocketError, TypeOK
<1>5. UNCHANGED <<crash, tick, state, sb, dsn, next, una, queued, sending, flights, rcvNext, rcvd, rb, standby, up, down,
                   lstate, inbox, pending, backlogq, peer, tuples, accepted, conn, wrote, met>>
  BY DEF SocketError, procVars, sndVars, rcvVars, netVars, lisVars, appVars
<1>6. TypeOK'
  BY <1>1, <1>3, <1>4, <1>5 DEF TypeOK
<1>7. \A v \in Wcbs : KeepsPlace(v)
  BY <1>5 DEF KeepsPlace
<1>8. TickerStep
  BY <1>1, <1>2, <1>3, <1>4, <1>5, <1>7, CallTicker
<1>9. Standing'
  <2>1. StandingStep
    BY <1>3, <1>5, <1>7, <1>8 DEF StandingStep, TickerStep
  <2> QED
    BY <1>1, <1>2, <1>3, <1>4, <1>5, <1>6, <2>1, StandingKept DEF Inv
<1>10. Traffic'
  <2>1. MetGrows
    BY <1>1, <1>5 DEF MetGrows, TypeOK, Wcbs
  <2>2. \A v \in Wcbs : \A q \in (Outgoing(v))' : q \in Outgoing(v) \/ (Genuine(v, q))'
    BY <1>5 DEF Outgoing, Elements
  <2>3. \A c \in Clients : \A q \in up'[c] :
          q \in up[c] \/ (Later(q) /\ (q.type \in {"ACK", "DAT"} => (Met(c))'))
    BY <1>5
  <2>4. \A c \in Clients : \A q \in down'[c] : q \in down[c] \/ Later(q)
    BY <1>5
  <2>5. \A v \in Wcbs : \A q \in rcvd'[v] :
          \/ q \in rcvd[v] /\ (v \in Slots => peer'[v] = peer[v])
          \/ Later(q) /\ (q.type \in {"ACK", "DAT"} /\ v \in Slots => (Met(peer[v]))')
    BY <1>5
  <2>6. TrafficStep
    BY <2>1, <2>2, <2>3, <2>4, <2>5 DEF TrafficStep
  <2> QED
    BY <1>1, <1>2, <1>3, <1>4, <1>5, <1>6, <2>6, TrafficKept DEF Inv
<1>11. Beginnings'
  <2>1. MetGrows
    BY <1>1, <1>5 DEF MetGrows, TypeOK, Wcbs
  <2>2. /\ UNCHANGED <<peer, conn>>
        /\ \A v \in Wcbs : dsn'[v] >= dsn[v] /\ sb'[v] = sb[v]
    BY <1>1, <1>5 DEF TypeOK
  <2>3. \A v \in Wcbs : Stopped(v) => (Stopped(v))'
    BY <1>8 DEF TickerStep
  <2>4. \A c \in Clients : \/ rcvNext'[c] = rcvNext[c]
                           \/ conn[c] # "no" /\ (c \in met' \/ (Stopped(c))')
    BY <1>5
  <2>5. \A s \in Slots : rcvNext'[s] = rcvNext[s] \/ dsn'[s] >= 1 \/ (Stopped(s))'
    BY <1>5
  <2>6. \A s \in Slots : (Working(s))' => Working(s) \/ (dsn'[s] >= 1 /\ (Met(peer[s]))')
    BY <1>5 DEF Working, Elements
  <2>7. BeginningsStep
    BY <2>1, <2>2, <2>3, <2>4, <2>5, <2>6 DEF BeginningsStep
  <2> QED
    BY <1>1, <1>2, <1>3, <1>4, <1>5, <1>6, <2>7, BeginningsKept DEF Inv
<1> QED
  BY <1>6, <1>9, <1>10, <1>11 DEF Inv

\* The application shuts a side of a connection down.
LEMMA ShutdownInv ==
  ASSUME Inv, NEW w \in Wcbs, NEW sides, Shutdown(w, sides), UNCHANGED env
  PROVE  Inv'
<1>1. TypeOK
  BY DEF Inv
<1>2. /\ dsn[w] >= 1 /\ Open(w) /\ (w \in Clients => conn[w] # "no")
      /\ w \in Slots => w \in accepted
  BY CallableFacts DEF Shutdown, Closable
<1>3. /\ flags' \in [Wcbs -> SUBSET {"CLOSED_CALLED", "READ_SHUT", "WRITE_SHUT", "FIN_RECEIVED", "FIN_READ",
                                      "FIN_SENT", "RECV_ERROR", "SEND_ERROR"}]
      /\ \A v \in Wcbs : KeepsFlags(v)
  <2>1. PICK f : f = flags[w] \cup sides
    OBVIOUS
  <2>2. f \in SUBSET {"CLOSED_CALLED", "READ_SHUT", "WRITE_SHUT", "FIN_RECEIVED", "FIN_READ",
                      "FIN_SENT", "RECV_ERROR", "SEND_ERROR"}
    BY <1>1, <2>1 DEF TypeOK, Shutdown
  <2>3. flags' = [flags EXCEPT ![w] = f] /\ \A v \in Wcbs : flags'[v] = IF v = w THEN f ELSE flags[v]
    BY <1>1, <2>1 DEF TypeOK, Shutdown
  <2>4. "CLOSED_CALLED" \notin sides
    BY DEF Shutdown
  <2>5. \A v \in Wcbs : KeepsFlags(v)
    BY <1>2, <2>1, <2>3, <2>4 DEF KeepsFlags
  <2> QED
    BY <1>1, <2>2, <2>3, <2>5 DEF TypeOK
<1>4. /\ queued' \in [Wcbs -> Seq(SndPacks)] /\ dsn' \in [Wcbs -> Nat]
      /\ \A v \in Wcbs : dsn'[v] >= dsn[v]
      /\ \A v \in Wcbs : \A q \in Elements(queued'[v]) :
           q \in Elements(queued[v]) \/ (v = w /\ q = [type |-> "FIN", seq |-> dsn[w]])
  <2>1. CASE Queue(w, "FIN")
    BY <1>1, <2>1, QueueFacts DEF Types
  <2>2. CASE QueueNone
    BY <1>1, <2>2 DEF QueueNone, TypeOK
  <2> QED
    BY <2>1, <2>2 DEF Shutdown
<1>5. UNCHANGED <<crash, tick, state, errno, sb, next, una, sending, flights, rcvNext, rcvd, rb, standby, up, down,
                   lstate, inbox, pending, backlogq, peer, tuples, accepted, conn, wrote, met>>
  BY DEF Shutdown, procVars, rcvVars, netVars, lisVars, appVars
<1>6. TypeOK'
  BY <1>1, <1>3, <1>4, <1>5 DEF TypeOK
<1>7. \A v \in Wcbs : KeepsPlace(v)
  BY <1>5 DEF KeepsPlace
<1>8. TickerStep
  BY <1>1, <1>2, <1>3, <1>4, <1>5, <1>7, CallTicker
<1>9. Standing'
  <2>1. StandingStep
    BY <1>3, <1>5, <1>7, <1>8 DEF StandingStep, TickerStep
  <2> QED
    BY <1>1, <1>2, <1>3, <1>4, <1>5, <1>6, <2>1, StandingKept DEF Inv
<1>10. Traffic'
  <2>1. MetGrows
    BY <1>1, <1>5 DEF MetGrows, TypeOK, Wcbs
  <2>2. \A v \in Wcbs : \A q \in (Outgoing(v))' : q \in Outgoing(v) \/ (Genuine(v, q))'
    <3> SUFFICES ASSUME NEW v \in Wcbs, NEW q \in Elements(queued'[v]), q \notin Elements(queued[v])
                 PROVE  (Genuine(v, q))'
      BY <1>5 DEF Outgoing, Elements
    <3>1. v = w /\ q.type = "FIN" /\ q.seq >= 1
      BY <1>2, <1>4
    <3> QED
      BY <1>2, <1>5, <3>1 DEF Genuine, Later
  <2>3. \A c \in Clients : \A q \in up'[c] :
          q \in up[c] \/ (Later(q) /\ (q.type \in {"ACK", "DAT"} => (Met(c))'))
    BY <1>5
  <2>4. \A c \in Clients : \A q \in down'[c] : q \in down[c] \/ Later(q)
    BY <1>5
  <2>5. \A v \in Wcbs : \A q \in rcvd'[v] :
          \/ q \in rcvd[v] /\ (v \in Slots => peer'[v] = peer[v])
          \/ Later(q) /\ (q.type \in {"ACK", "DAT"} /\ v \in Slots => (Met(peer[v]))')
    BY <1>5
  <2>6. TrafficStep
    BY <2>1, <2>2, <2>3, <2>4, <2>5 DEF TrafficStep
  <2> QED
    BY <1>1, <1>2, <1>3, <1>4, <1>5, <1>6, <2>6, TrafficKept DEF Inv
<1>11. Beginnings'
  <2>1. MetGrows
    BY <1>1, <1>5 DEF MetGrows, TypeOK, Wcbs
  <2>2. /\ UNCHANGED <<peer, conn>>
        /\ \A v \in Wcbs : dsn'[v] >= dsn[v] /\ sb'[v] = sb[v]
    BY <1>4, <1>5
  <2>3. \A v \in Wcbs : Stopped(v) => (Stopped(v))'
    BY <1>8 DEF TickerStep
  <2>4. \A c \in Clients : \/ rcvNext'[c] = rcvNext[c]
                           \/ conn[c] # "no" /\ (c \in met' \/ (Stopped(c))')
    BY <1>5
  <2>5. \A s \in Slots : rcvNext'[s] = rcvNext[s] \/ dsn'[s] >= 1 \/ (Stopped(s))'
    BY <1>5
  <2>6. \A s \in Slots : (Working(s))' => Working(s) \/ (dsn'[s] >= 1 /\ (Met(peer[s]))')
    BY <1>5 DEF Working, Elements
  <2>7. BeginningsStep
    BY <2>1, <2>2, <2>3, <2>4, <2>5, <2>6 DEF BeginningsStep
  <2> QED
    BY <1>1, <1>2, <1>3, <1>4, <1>5, <1>6, <2>7, BeginningsKept DEF Inv
<1> QED
  BY <1>6, <1>9, <1>10, <1>11 DEF Inv

\* The application closes a connection.
LEMMA CloseInv ==
  ASSUME Inv, NEW w \in Wcbs, Close(w), UNCHANGED env
  PROVE  Inv'
<1>1. TypeOK
  BY DEF Inv
<1>2. /\ dsn[w] >= 1 /\ Open(w) /\ (w \in Clients => conn[w] # "no")
      /\ w \in Slots => w \in accepted
  BY CallableFacts DEF Close, Closable
<1>3. /\ state' \in [Wcbs -> States] /\ state'[w] = "CLOSED"
      /\ \A v \in Wcbs : v # w => state'[v] = state[v]
  BY <1>1 DEF Close, CloseWcb, TypeOK, States
<1>4. /\ flags' \in [Wcbs -> SUBSET {"CLOSED_CALLED", "READ_SHUT", "WRITE_SHUT", "FIN_RECEIVED", "FIN_READ",
                                      "FIN_SENT", "RECV_ERROR", "SEND_ERROR"}]
      /\ \A v \in Wcbs : KeepsFlags(v)
  <2>1. PICK f : f = flags[w] \cup {"CLOSED_CALLED", "READ_SHUT", "WRITE_SHUT"}
    OBVIOUS
  <2>2. f \in SUBSET {"CLOSED_CALLED", "READ_SHUT", "WRITE_SHUT", "FIN_RECEIVED", "FIN_READ",
                      "FIN_SENT", "RECV_ERROR", "SEND_ERROR"}
    BY <1>1, <2>1 DEF TypeOK
  <2>3. flags' = [flags EXCEPT ![w] = f] /\ \A v \in Wcbs : flags'[v] = IF v = w THEN f ELSE flags[v]
    BY <1>1, <2>1 DEF TypeOK, Close, CloseWcb, ClosedFlags
  <2>4. w \notin pending
    BY <1>1, <1>2 DEF Inv, TypeOK, Standing, Lists
  <2>5. \A v \in Wcbs : KeepsFlags(v)
    BY <1>2, <1>3, <2>1, <2>3, <2>4 DEF KeepsFlags
  <2> QED
    BY <1>1, <2>2, <2>3, <2>5 DEF TypeOK
<1>5. errno' \in [Wcbs -> {"ok", "timeout", "reset", "aborted", "socket"}]
  BY <1>1 DEF Close, CloseWcb, ClosedErrno, TypeOK
<1>6. UNCHANGED <<crash, tick, sb, dsn, next, una, queued, sending, flights, rcvNext, rcvd, rb, standby, up, down,
                   lstate, inbox, pending, backlogq, peer, tuples, accepted, conn, wrote, met>>
  BY DEF Close, procVars, sndVars, rcvVars, netVars, lisVars, appVars
<1>7. TypeOK'
  BY <1>1, <1>3, <1>4, <1>5, <1>6 DEF TypeOK
<1>8. \A v \in Wcbs : KeepsPlace(v)
  BY <1>2, <1>3 DEF KeepsPlace, Awaited, Open
<1>9. TickerStep
  BY <1>1, <1>2, <1>3, <1>4, <1>5, <1>6, <1>8, CallTicker
<1>10. Standing'
  <2>1. StandingStep
    BY <1>4, <1>6, <1>8, <1>9 DEF StandingStep, TickerStep
  <2> QED
    BY <1>1, <1>2, <1>3, <1>4, <1>5, <1>6, <1>7, <2>1, StandingKept DEF Inv
<1>11. Traffic'
  <2>1. MetGrows
    BY <1>1, <1>6 DEF MetGrows, TypeOK, Wcbs
  <2>2. \A v \in Wcbs : \A q \in (Outgoing(v))' : q \in Outgoing(v) \/ (Genuine(v, q))'
    BY <1>6 DEF Outgoing, Elements
  <2>3. \A c \in Clients : \A q \in up'[c] :
          q \in up[c] \/ (Later(q) /\ (q.type \in {"ACK", "DAT"} => (Met(c))'))
    BY <1>6
  <2>4. \A c \in Clients : \A q \in down'[c] : q \in down[c] \/ Later(q)
    BY <1>6
  <2>5. \A v \in Wcbs : \A q \in rcvd'[v] :
          \/ q \in rcvd[v] /\ (v \in Slots => peer'[v] = peer[v])
          \/ Later(q) /\ (q.type \in {"ACK", "DAT"} /\ v \in Slots => (Met(peer[v]))')
    BY <1>6
  <2>6. TrafficStep
    BY <2>1, <2>2, <2>3, <2>4, <2>5 DEF TrafficStep
  <2> QED
    BY <1>1, <1>2, <1>3, <1>4, <1>5, <1>6, <1>7, <2>6, TrafficKept DEF Inv
<1>12. Beginnings'
  <2>1. MetGrows
    BY <1>1, <1>6 DEF MetGrows, TypeOK, Wcbs
  <2>2. /\ UNCHANGED <<peer, conn>>
        /\ \A v \in Wcbs : dsn'[v] >= dsn[v] /\ sb'[v] = sb[v]
    BY <1>1, <1>6 DEF TypeOK
  <2>3. \A v \in Wcbs : Stopped(v) => (Stopped(v))'
    BY <1>9 DEF TickerStep
  <2>4. \A c \in Clients : \/ rcvNext'[c] = rcvNext[c]
                           \/ conn[c] # "no" /\ (c \in met' \/ (Stopped(c))')
    BY <1>6
  <2>5. \A s \in Slots : rcvNext'[s] = rcvNext[s] \/ dsn'[s] >= 1 \/ (Stopped(s))'
    BY <1>6
  <2>6. \A s \in Slots : (Working(s))' => Working(s) \/ (dsn'[s] >= 1 /\ (Met(peer[s]))')
    BY <1>3, <1>6 DEF Working, Elements, Wcbs
  <2>7. BeginningsStep
    BY <2>1, <2>2, <2>3, <2>4, <2>5, <2>6 DEF BeginningsStep
  <2> QED
    BY <1>1, <1>2, <1>3, <1>4, <1>5, <1>6, <1>7, <2>7, BeginningsKept DEF Inv
<1> QED
  BY <1>7, <1>10, <1>11, <1>12 DEF Inv

---------------------------------------------------------------------------
(* The steps that change the listener's lists, the four-tuple map or the    *)
(* set of connected clients.                                               *)

\* Only slots are pending, queued or accepted.
LEMMA HeldFacts ==
  ASSUME TypeOK
  PROVE  Held \subseteq Slots /\ Elements(backlogq) \subseteq Slots
<1>1. backlogq \in Seq(Slots) /\ pending \subseteq Slots /\ accepted \subseteq Slots
  BY DEF TypeOK
<1>2. Elements(backlogq) \subseteq Slots
  BY <1>1, ElementsTyped
<1> QED
  BY <1>1, <1>2 DEF Held

\* A closed WCB is recycled: it leaves the four-tuple map.
LEMMA RecycleInv ==
  ASSUME Inv, NEW w \in Wcbs, Recycle(w), UNCHANGED env
  PROVE  Inv'
<1>1. TypeOK
  BY DEF Inv
<1>2. UNCHANGED <<crash, tick, errno, flags, sb, dsn, next, una, queued, sending, flights, rcvNext, rcvd, rb,
                  standby, up, down, lstate, inbox, pending, backlogq, peer, accepted, conn, wrote, met>>
  BY DEF Recycle, procVars, sndVars, rcvVars, netVars, appVars
<1>3. /\ state[w] = "CLOSED" /\ "CLOSED_CALLED" \in flags[w] /\ tick[Proc(w)].wcb = None
      /\ tuples' = tuples \ {w}
  BY DEF Recycle, MayRecycle, TickIdle, IdleTick
<1>4. /\ state' \in [Wcbs -> States] /\ state'[w] = "RECYCLE"
      /\ \A v \in Wcbs : v # w => state'[v] = state[v]
  BY <1>1 DEF Recycle, TypeOK, States
<1>5. TypeOK'
  BY <1>1, <1>2, <1>3, <1>4 DEF TypeOK
<1>6. w # None /\ Clients \subseteq Wcbs /\ Slots \subseteq Wcbs
  BY WcbFacts DEF Wcbs
<1>7. Standing'
  <2>1. Held' = Held /\ Held \subseteq Slots
    BY <1>1, <1>2, HeldFacts DEF Held, Elements
  <2>2. \A s \in Slots : /\ state'[s] = "FREE" <=> peer'[s] = None
                         /\ state'[s] \notin {"SYNING", "SYN_SENT"}
    BY <1>2, <1>3, <1>4, <1>6 DEF Inv, Standing, Places
  <2>3. \A s \in Held' : state'[s] # "FREE"
    BY <1>4, <1>6, <2>1 DEF Inv, Standing, Places
  <2>4. \A c \in Clients : /\ state'[c] \notin {"FREE", "SYN_RECEIVED"}
                           /\ conn'[c] = "no" => state'[c] = "CLOSED" /\ flags'[c] = {}
    BY <1>2, <1>3, <1>4, <1>6 DEF Inv, Standing, Places
  <2>5. \A v \in Wcbs : /\ tick'[Proc(v)].wcb = v => (Open(v))' /\ (v \in Clients => conn'[v] # "no")
                        /\ "CLOSED_CALLED" \in flags'[v] => state'[v] \in {"CLOSED", "RECYCLE"}
    BY <1>2, <1>3, <1>4, <1>6 DEF Inv, Standing, Places, Open
  <2>6. Places'
    BY <2>2, <2>3, <2>4, <2>5 DEF Places, Proc
  <2>7. OnePerClient'
    <3>1. tuples' = {s \in Slots : state'[s] \notin {"FREE", "RECYCLE"}}
      BY <1>3, <1>4, <1>6 DEF Inv, Standing, OnePerClient, Open
    <3> QED
      BY <1>2, <1>3, <3>1 DEF Inv, Standing, OnePerClient, Open
  <2>8. Lists'
    <3>1. w \notin pending
      BY <1>3 DEF Inv, Standing, Lists
    <3>2. PendingState'
      BY <1>1, <1>2, <1>4, <1>6, <3>1 DEF Inv, Standing, Lists, PendingState, TypeOK
    <3> QED
      BY <1>2, <3>2 DEF Inv, Standing, Lists, BacklogBounded
  <2>9. SlotsKept'
    <3> SUFFICES ASSUME NEW s \in Slots, (Open(s))'
                 PROVE  s \in Held \/ (state'[s] = "CLOSED" /\ (MayRecycle(s))')
      BY <2>1 DEF SlotsKept, Held
    <3>1. s # w /\ state'[s] = state[s]
      BY <1>4, <1>6 DEF Open
    <3> QED
      BY <1>2, <3>1 DEF Inv, Standing, SlotsKept, Held, Open, MayRecycle
  <2> QED
    BY <2>6, <2>7, <2>8, <2>9 DEF Standing
<1>8. MetGrows
  BY <1>1, <1>2 DEF MetGrows, TypeOK, Wcbs
<1>9. Traffic'
  <2>1. TrafficStep
    BY <1>2, <1>8 DEF TrafficStep, Outgoing, Elements
  <2> QED
    BY <1>1, <1>5, <2>1, TrafficKept DEF Inv
<1>10. Beginnings'
  <2>1. \A s \in Slots : (Working(s))' => Working(s)
    BY <1>2, <1>4, <1>6 DEF Working, Elements
  <2>2. \A v \in Wcbs : Stopped(v) => (Stopped(v))'
    BY <1>2, <1>3, <1>4 DEF Stopped, Proc
  <2>3. \A v \in Wcbs : dsn'[v] >= dsn[v]
    BY <1>1, <1>2 DEF TypeOK
  <2>4. BeginningsStep
    BY <1>2, <1>8, <2>1, <2>2, <2>3 DEF BeginningsStep
  <2> QED
    BY <1>1, <1>5, <2>4, BeginningsKept DEF Inv
<1> QED
  BY <1>5, <1>7, <1>9, <1>10 DEF Inv

\* wcp::connect makes the SYN of a client.
LEMMA ConnectInv ==
  ASSUME Inv, NEW c \in Clients, Connect(c), UNCHANGED env
  PROVE  Inv'
<1>1. TypeOK /\ c \in Wcbs /\ Clients \subseteq Wcbs /\ Slots \subseteq Wcbs /\ c \notin Slots
  BY NamesAssumption DEF Inv, Wcbs
<1>2. UNCHANGED <<crash, tick, errno, flags, sb, next, una, sending, flights, rcvNext, rcvd, rb, standby, up, down,
                  lstate, inbox, pending, backlogq, peer, tuples, accepted, wrote, met>>
  BY DEF Connect, procVars, rcvVars, netVars, lisVars
<1>3. conn[c] = "no" /\ state[c] = "CLOSED" /\ flags[c] = {} /\ rcvNext[c] = 0
  BY DEF Connect, Inv, Standing, Places, Beginnings
<1>4. /\ conn' \in [Clients -> {"no", "wait", "woken", "done", "failed"}] /\ conn'[c] # "no"
      /\ \A d \in Clients : d # c => conn'[d] = conn[d]
  BY <1>1 DEF Connect, TypeOK
<1>5. /\ state' \in [Wcbs -> States] /\ state'[c] = "SYNING"
      /\ \A v \in Wcbs : v # c => state'[v] = state[v]
  BY <1>1 DEF Connect, TypeOK, States
<1>6. /\ queued' \in [Wcbs -> Seq(SndPacks)]
      /\ dsn' \in [Wcbs -> Nat] /\ dsn'[c] >= 1
      /\ \A v \in Wcbs : dsn'[v] >= dsn[v]
      /\ \A v \in Wcbs : \A q \in Elements(queued'[v]) : q \in Elements(queued[v]) \/ q.type = "SYN"
  BY <1>1, QueueFacts DEF Connect, Types
<1>7. TypeOK'
  BY <1>1, <1>2, <1>4, <1>5, <1>6 DEF TypeOK
<1>8. \A s \in Slots : state'[s] = state[s] /\ ((Open(s))' <=> Open(s)) /\ ((MayRecycle(s))' <=> MayRecycle(s))
  BY <1>1, <1>2, <1>5 DEF Open, MayRecycle
<1>9. Standing'
  <2>1. Held' = Held /\ Held \subseteq Slots
    BY <1>1, <1>2, HeldFacts DEF Held, Elements
  <2>2. \A s \in Slots : /\ state'[s] = "FREE" <=> peer'[s] = None
                         /\ state'[s] \notin {"SYNING", "SYN_SENT"}
    BY <1>2, <1>8 DEF Inv, Standing, Places
  <2>3. \A s \in Held' : state'[s] # "FREE"
    BY <1>8, <2>1 DEF Inv, Standing, Places
  <2>4. \A d \in Clients : /\ state'[d] \notin {"FREE", "SYN_RECEIVED"}
                           /\ conn'[d] = "no" => state'[d] = "CLOSED" /\ flags'[d] = {}
    BY <1>1, <1>2, <1>4, <1>5 DEF Inv, Standing, Places
  <2>5. \A v \in Wcbs : /\ tick'[Proc(v)].wcb = v => (Open(v))' /\ (v \in Clients => conn'[v] # "no")
                        /\ "CLOSED_CALLED" \in flags'[v] => state'[v] \in {"CLOSED", "RECYCLE"}
    BY <1>2, <1>3, <1>4, <1>5 DEF Inv, Standing, Places, Open
  <2>6. Places'
    BY <2>2, <2>3, <2>4, <2>5 DEF Places, Proc
  <2>7. OnePerClient'
    BY <1>2, <1>8 DEF Inv, Standing, OnePerClient
  <2>8. Lists'
    BY <1>1, <1>2, <1>8 DEF Inv, Standing, Lists, BacklogBounded, PendingState, TypeOK
  <2>9. SlotsKept'
    BY <1>2, <1>8 DEF Inv, Standing, SlotsKept, Held, Elements
  <2> QED
    BY <2>6, <2>7, <2>8, <2>9 DEF Standing
<1>10. MetGrows
  BY <1>1, <1>2 DEF MetGrows, TypeOK
<1>11. Traffic'
  <2>1. \A v \in Wcbs : \A q \in (Outgoing(v))' : q \in Outgoing(v) \/ (Genuine(v, q))'
    BY <1>2, <1>6 DEF Outgoing, Elements, Genuine, Later
  <2>2. TrafficStep
    BY <1>2, <1>10, <2>1 DEF TrafficStep
  <2> QED
    BY <1>1, <1>7, <2>2, TrafficKept DEF Inv
<1>12. Beginnings'
  <2>1. \A d : Met(d) => (Met(d))'
    BY <1>1, <1>7, <1>10, MetKept
  <2>2. \A v \in Wcbs : dsn[v] >= 1 => dsn'[v] >= 1
    <3>1. \A v \in Wcbs : dsn[v] \in Nat /\ dsn'[v] \in Nat
      BY <1>1, <1>6 DEF TypeOK
    <3> QED
      BY <1>6, <3>1
  <2>3. \A v \in Wcbs : sb'[v] > 0 => dsn'[v] >= 1 /\ (v \in Clients => (Met(v))')
    BY <1>2, <2>1, <2>2 DEF Inv, Beginnings
  <2>4. \A v \in Wcbs : v # c /\ Stopped(v) => (Stopped(v))'
    BY <1>2, <1>5 DEF Stopped, Proc
  <2>5. \A d \in Clients : /\ conn'[d] # "no" => dsn'[d] >= 1
                           /\ conn'[d] = "no" => rcvNext'[d] = 0
                           /\ rcvNext'[d] >= 1 => d \in met' \/ (Stopped(d))'
    BY <1>1, <1>2, <1>3, <1>4, <1>6, <2>2, <2>4 DEF Inv, Beginnings
  <2>6. \A s \in Slots : (Working(s))' => Working(s)
    BY <1>2, <1>8 DEF Working, Elements
  <2>7. \A s \in Slots : /\ rcvNext'[s] >= 1 => dsn'[s] >= 1 \/ (Stopped(s))'
                         /\ (Working(s))' => dsn'[s] >= 1 /\ (Met(peer[s]))'
    BY <1>1, <1>2, <2>1, <2>2, <2>4, <2>6 DEF Inv, Beginnings
  <2> QED
    BY <2>3, <2>5, <2>7 DEF Beginnings
<1> QED
  BY <1>7, <1>9, <1>11, <1>12 DEF Inv

\* accept takes the first slot of backlogq.
LEMMA AcceptInv ==
  ASSUME Inv, Accept, UNCHANGED env
  PROVE  Inv'
<1>1. TypeOK
  BY DEF Inv
<1>2. UNCHANGED <<crash, tick, state, errno, flags, sb, dsn, next, una, queued, sending, flights, rcvNext, rcvd, rb,
                  standby, up, down, lstate, inbox, pending, peer, tuples, conn, wrote, met>>
  BY DEF Accept, procVars, sndVars, rcvVars, netVars
<1>3. PICK s : s = Head(backlogq)
  OBVIOUS
<1>4. /\ backlogq \in Seq(Slots) /\ backlogq # <<>>
      /\ backlogq' = Tail(backlogq) /\ accepted' = accepted \cup {s}
  BY <1>1, <1>3 DEF Accept, TypeOK
<1>5. /\ Elements(backlogq') \subseteq Elements(backlogq) /\ s \in Elements(backlogq)
      /\ Elements(backlogq) \subseteq Elements(backlogq') \cup {s}
      /\ backlogq' \in Seq(Slots) /\ s \in Slots
  BY <1>3, <1>4, ElementsTail
<1>6. /\ Len(backlogq) \in Nat /\ Len(backlogq) > 0 /\ Len(backlogq') = Len(backlogq) - 1
      /\ \A i \in 1..(Len(backlogq) - 1) : backlogq'[i] = backlogq[i + 1]
      /\ s = backlogq[1]
  BY <1>3, <1>4
<1>7. TypeOK'
  BY <1>1, <1>2, <1>4, <1>5 DEF TypeOK
<1>8. Elements(backlogq') \cup accepted' = Elements(backlogq) \cup accepted
  BY <1>4, <1>5
<1>9. Held' = Held
  BY <1>2, <1>8 DEF Held
<1>10. Standing'
  <2>1. Places'
    BY <1>2, <1>9 DEF Inv, Standing, Places, Open, Proc
  <2>2. OnePerClient'
    BY <1>2 DEF Inv, Standing, OnePerClient, Open
  <2>3. BacklogBounded'
    <3>1. /\ \A i \in 1..Len(backlogq) : backlogq[i] \notin pending \cup accepted
          /\ \A i, j \in 1..Len(backlogq) : backlogq[i] = backlogq[j] => i = j
          /\ Cardinality(pending) + Len(backlogq) <= env.backlog
      BY DEF Inv, Standing, Lists, BacklogBounded
    <3>2. \A i \in 1..Len(backlogq') : i + 1 \in 1..Len(backlogq) /\ i + 1 # 1 /\ backlogq'[i] = backlogq[i + 1]
      BY <1>6
    <3>3. 1 \in 1..Len(backlogq)
      BY <1>6
    <3>4. \A i \in 1..Len(backlogq') : backlogq'[i] \notin pending \cup accepted'
      BY <1>4, <1>6, <3>1, <3>2, <3>3
    <3>5. \A i, j \in 1..Len(backlogq') : backlogq'[i] = backlogq'[j] => i = j
      BY <3>1, <3>2
    <3>6. Cardinality(pending) \in Nat /\ env.backlog \in Nat
      BY FS_CardinalityType, SizesAssumption DEF Inv, Standing, Lists
    <3>7. Cardinality(pending') + Len(backlogq') <= env'.backlog
      BY <1>2, <1>6, <3>1, <3>6
    <3> QED
      BY <1>2, <3>4, <3>5, <3>7 DEF BacklogBounded
  <2>4. pending' \cap accepted' = {}
    <3>1. s \notin pending
      BY <1>6 DEF Inv, Standing, Lists, BacklogBounded
    <3> QED
      BY <1>2, <1>4, <3>1 DEF Inv, Standing, Lists
  <2>5. Lists'
    BY <1>2, <2>3, <2>4 DEF Inv, Standing, Lists, PendingState
  <2>6. SlotsKept'
    <3> SUFFICES ASSUME NEW t \in Slots, Open(t)
                 PROVE  t \in Held \/ (state[t] = "CLOSED" /\ MayRecycle(t))
      BY <1>2, <1>9 DEF SlotsKept, Held, Open, MayRecycle
    <3> QED
      BY DEF Inv, Standing, SlotsKept, Held
  <2> QED
    BY <2>1, <2>2, <2>5, <2>6 DEF Standing
<1>11. MetGrows
  BY <1>1, <1>2, <1>4 DEF MetGrows, TypeOK, Wcbs
<1>12. Traffic'
  <2>1. TrafficStep
    BY <1>2, <1>11 DEF TrafficStep, Outgoing, Elements
  <2> QED
    BY <1>1, <1>7, <2>1, TrafficKept DEF Inv
<1>13. Beginnings'
  <2>1. \A t \in Slots : (Working(t))' => Working(t)
    BY <1>2, <1>8 DEF Working
  <2>2. \A v \in Wcbs : Stopped(v) => (Stopped(v))'
    BY <1>2 DEF Stopped, Proc
  <2>3. \A v \in Wcbs : dsn'[v] >= dsn[v]
    BY <1>1, <1>2 DEF TypeOK
  <2>4. BeginningsStep
    BY <1>2, <1>11, <2>1, <2>2, <2>3 DEF BeginningsStep
  <2> QED
    BY <1>1, <1>7, <2>4, BeginningsKept DEF Inv
<1> QED
  BY <1>7, <1>10, <1>12, <1>13 DEF Inv

\* The scan of backloglist_pending: an established slot goes to backlogq, a
\* broken one is closed.
LEMMA ScanPendingInv ==
  ASSUME Inv, NEW s \in Slots, ScanPending(s), UNCHANGED env
  PROVE  Inv'
<1>1. TypeOK /\ s \in Wcbs /\ Clients \subseteq Wcbs /\ Slots \subseteq Wcbs /\ s \notin Clients
  BY NamesAssumption DEF Inv, Wcbs
<1>2. UNCHANGED <<crash, tick, sb, dsn, next, una, queued, sending, flights, rcvNext, rcvd, rb, standby, up, down,
                  lstate, inbox, peer, tuples, accepted, conn, wrote, met>>
  BY DEF ScanPending, procVars, sndVars, rcvVars, netVars, appVars
<1>3. /\ s \in pending /\ s \notin accepted /\ "CLOSED_CALLED" \notin flags[s]
      /\ pending' = pending \ {s} /\ tick[Server].wcb = None
      /\ \A i \in 1..Len(backlogq) : backlogq[i] # s
  BY DEF ScanPending, Inv, Standing, Lists, BacklogBounded, TickIdle, IdleTick
<1>4. /\ \A v \in Wcbs : v # s => state'[v] = state[v] /\ flags'[v] = flags[v]
      /\ \/ state' = state /\ errno' = errno /\ flags' = flags /\ state[s] = "ESTABLISHED"
            /\ backlogq' = Append(backlogq, s)
         \/ /\ state'[s] = "CLOSED" /\ {"CLOSED_CALLED", "READ_SHUT", "WRITE_SHUT"} \subseteq flags'[s]
            /\ state[s] \in {"CLOSE_WAIT", "CLOSED"} /\ backlogq' = backlogq
  BY <1>1 DEF ScanPending, CloseWcb, ClosedFlags, TypeOK
<1>5. /\ state' \in [Wcbs -> States]
      /\ flags' \in [Wcbs -> SUBSET {"CLOSED_CALLED", "READ_SHUT", "WRITE_SHUT", "FIN_RECEIVED", "FIN_READ",
                                     "FIN_SENT", "RECV_ERROR", "SEND_ERROR"}]
      /\ errno' \in [Wcbs -> {"ok", "timeout", "reset", "aborted", "socket"}]
  <2>1. CASE UNCHANGED <<state, errno, flags>>
    BY <1>1, <2>1 DEF TypeOK
  <2>2. CASE CloseWcb(s)
    <3>1. ClosedFlags(s) \in SUBSET {"CLOSED_CALLED", "READ_SHUT", "WRITE_SHUT", "FIN_RECEIVED", "FIN_READ",
                                     "FIN_SENT", "RECV_ERROR", "SEND_ERROR"}
      BY <1>1 DEF ClosedFlags, TypeOK
    <3>2. ClosedErrno(s) \in {"ok", "timeout", "reset", "aborted", "socket"} /\ "CLOSED" \in States
      BY <1>1 DEF ClosedErrno, TypeOK, States
    <3> QED
      BY <1>1, <2>2, <3>1, <3>2 DEF CloseWcb, TypeOK
  <2> QED
    BY <2>1, <2>2 DEF ScanPending
<1>6. backlogq' \in Seq(Slots) /\ Elements(backlogq') \subseteq Elements(backlogq) \cup {s}
      /\ Elements(backlogq) \subseteq Elements(backlogq')
      /\ (state'[s] = "CLOSED" \/ s \in Elements(backlogq'))
  <2>1. backlogq \in Seq(Slots)
    BY <1>1 DEF TypeOK
  <2>2. CASE backlogq' = Append(backlogq, s)
    BY <2>1, <2>2, ElementsAppend
  <2>3. CASE state'[s] = "CLOSED" /\ backlogq' = backlogq
    BY <2>1, <2>3
  <2> QED
    BY <1>4, <2>2, <2>3
<1>7. TypeOK'
  BY <1>1, <1>2, <1>3, <1>5, <1>6 DEF TypeOK
<1>8. \A v \in Wcbs : /\ state'[v] = "FREE" <=> state[v] = "FREE"
                      /\ state'[v] = "RECYCLE" <=> state[v] = "RECYCLE"
                      /\ state[v] = "CLOSED" => state'[v] = "CLOSED"
                      /\ v # s => state'[v] = state[v] /\ flags'[v] = flags[v]
  BY <1>4
<1>9. Standing'
  <2>1. Held' \subseteq Held /\ Held \subseteq Slots
    BY <1>1, <1>2, <1>3, <1>6, HeldFacts DEF Held
  <2>2. \A t \in Slots : /\ state'[t] = "FREE" <=> peer'[t] = None
                         /\ state'[t] \notin {"SYNING", "SYN_SENT"}
    BY <1>1, <1>2, <1>4, <1>8 DEF Inv, Standing, Places
  <2>3. \A t \in Held' : state'[t] # "FREE"
    BY <1>1, <1>8, <2>1 DEF Inv, Standing, Places
  <2>4. \A c \in Clients : /\ state'[c] \notin {"FREE", "SYN_RECEIVED"}
                           /\ conn'[c] = "no" => state'[c] = "CLOSED" /\ flags'[c] = {}
    BY <1>1, <1>2, <1>8 DEF Inv, Standing, Places
  <2>5. \A v \in Wcbs : tick'[Proc(v)].wcb = v => (Open(v))' /\ (v \in Clients => conn'[v] # "no")
    BY <1>2, <1>8 DEF Inv, Standing, Places, Open
  <2>6. \A v \in Wcbs : "CLOSED_CALLED" \in flags'[v] => state'[v] \in {"CLOSED", "RECYCLE"}
    BY <1>3, <1>4, <1>8 DEF Inv, Standing, Places
  <2>7. Places'
    BY <2>2, <2>3, <2>4, <2>5, <2>6 DEF Places, Proc
  <2>8. OnePerClient'
    BY <1>1, <1>2, <1>8 DEF Inv, Standing, OnePerClient, Open
  <2>9. IsFiniteSet(pending) /\ Cardinality(pending) \in Nat /\ env.backlog \in Nat
    BY FS_CardinalityType, SizesAssumption DEF Inv, Standing, Lists
  <2>10. IsFiniteSet(pending') /\ Cardinality(pending') = Cardinality(pending) - 1
    BY <1>3, <2>9, FS_RemoveElement
  <2>11. BacklogBounded'
    <3>1. /\ \A i \in 1..Len(backlogq) : backlogq[i] \notin pending \cup accepted
          /\ \A i, j \in 1..Len(backlogq) : backlogq[i] = backlogq[j] => i = j
          /\ Cardinality(pending) + Len(backlogq) <= env.backlog
      BY DEF Inv, Standing, Lists, BacklogBounded
    <3>2. Len(backlogq) \in Nat /\ backlogq \in Seq(Slots)
      BY <1>1 DEF TypeOK
    <3>3. CASE backlogq' = Append(backlogq, s)
      <4>1. /\ Len(backlogq') = Len(backlogq) + 1 /\ backlogq'[Len(backlogq) + 1] = s
            /\ \A i \in 1..Len(backlogq) : backlogq'[i] = backlogq[i]
        BY <3>2, <3>3
      <4>2. \A i \in 1..Len(backlogq') : i \in 1..Len(backlogq) \/ i = Len(backlogq) + 1
        BY <3>2, <4>1
      <4>3. \A i \in 1..Len(backlogq') : backlogq'[i] \notin pending' \cup accepted'
        BY <1>2, <1>3, <3>1, <4>1, <4>2
      <4>4. \A i, j \in 1..Len(backlogq') : backlogq'[i] = backlogq'[j] => i = j
        BY <1>3, <3>1, <4>1, <4>2
      <4>5. Cardinality(pending') + Len(backlogq') <= env'.backlog
        BY <2>9, <2>10, <3>1, <3>2, <4>1
      <4> QED
        BY <4>3, <4>4, <4>5 DEF BacklogBounded
    <3>4. CASE backlogq' = backlogq
      <4>1. Cardinality(pending') + Len(backlogq') <= env'.backlog
        BY <2>9, <2>10, <3>1, <3>2, <3>4
      <4> QED
        BY <1>2, <1>3, <3>1, <3>4, <4>1 DEF BacklogBounded
    <3> QED
      BY <1>4, <3>3, <3>4
  <2>12. Lists'
    BY <1>1, <1>2, <1>3, <1>8, <2>10, <2>11 DEF Inv, Standing, Lists, PendingState, TypeOK
  <2>13. SlotsKept'
    <3> SUFFICES ASSUME NEW t \in Slots, Open(t)
                 PROVE  t \in Held' \/ (state'[t] = "CLOSED" /\ (MayRecycle(t))')
      BY <1>1, <1>8 DEF SlotsKept, Held, Open
    <3>1. CASE t = s
      BY <1>4, <1>6, <3>1 DEF MayRecycle, Held
    <3>2. CASE t # s
      <4>1. t \in Held => t \in Held'
        BY <1>2, <1>3, <1>6, <3>2 DEF Held
      <4>2. MayRecycle(t) => (MayRecycle(t))'
        BY <1>1, <1>8, <3>2 DEF MayRecycle
      <4> QED
        BY <1>1, <1>8, <3>2, <4>1, <4>2 DEF Inv, Standing, SlotsKept, Held
    <3> QED
      BY <3>1, <3>2
  <2> QED
    BY <2>7, <2>8, <2>12, <2>13 DEF Standing
<1>10. MetGrows
  BY <1>1, <1>2 DEF MetGrows, TypeOK
<1>11. Traffic'
  <2>1. TrafficStep
    BY <1>2, <1>10 DEF TrafficStep, Outgoing, Elements
  <2> QED
    BY <1>1, <1>7, <2>1, TrafficKept DEF Inv
<1>12. Beginnings'
  <2>1. \A t \in Slots : (Working(t))' => Working(t)
    <3> SUFFICES ASSUME NEW t \in Slots, (Working(t))'
                 PROVE  Working(t)
      OBVIOUS
    <3>1. CASE t = s
      <4>1. s \notin Elements(backlogq) /\ s \notin accepted'
        BY <1>2, <1>3 DEF Elements
      <4>2. CASE state[s] = "ESTABLISHED"
        BY <3>1, <4>2 DEF Working
      <4>3. CASE state'[s] = "CLOSED" /\ backlogq' = backlogq
        BY <3>1, <4>1, <4>3 DEF Working, Elements
      <4> QED
        BY <1>4, <4>2, <4>3
    <3>2. CASE t # s
      BY <1>1, <1>2, <1>6, <1>8, <3>2 DEF Working
    <3> QED
      BY <3>1, <3>2
  <2>2. \A v \in Wcbs : Stopped(v) => (Stopped(v))'
    BY <1>2, <1>8 DEF Stopped, Proc
  <2>3. \A v \in Wcbs : dsn'[v] >= dsn[v]
    BY <1>1, <1>2 DEF TypeOK
  <2>4. BeginningsStep
    BY <1>2, <1>10, <2>1, <2>2, <2>3 DEF BeginningsStep
  <2> QED
    BY <1>1, <1>7, <2>4, BeginningsKept DEF Inv
<1> QED
  BY <1>7, <1>9, <1>11, <1>12 DEF Inv

\* listen_handle_syn drops a pack, or answers it with a RST.
LEMMA NotAdmitted ==
  ASSUME Inv, ListenHandleSyn, UNCHANGED <<env, up, state, peer, rcvd, tuples, pending>>,
         \/ UNCHANGED down
         \/ down' = [down EXCEPT ![Head(inbox).from] = @ \cup {Rst(Head(inbox).pack)}]
  PROVE  Inv'
<1>1. TypeOK
  BY DEF Inv
<1>2. UNCHANGED <<crash, tick, errno, flags, sb, dsn, next, una, queued, sending, flights, rcvNext, rb, standby,
                  lstate, backlogq, accepted, conn, wrote, met>>
  BY DEF ListenHandleSyn, procVars, sndVars, appVars
<1>3. PICK m : m = Head(inbox)
  OBVIOUS
<1>4. /\ m \in [from : Clients, pack : Packs]
      /\ inbox' \in Seq([from : Clients, pack : Packs])
  <2>1. inbox \in Seq([from : Clients, pack : Packs]) /\ inbox # <<>> /\ inbox' = Tail(inbox)
    BY <1>1 DEF ListenHandleSyn, TypeOK
  <2> QED
    BY <1>3, <2>1, ElementsTail
<1>5. /\ down' \in [Clients -> SUBSET Packs]
      /\ \A c \in Clients : \A q \in down'[c] : q \in down[c] \/ q.type = "RST"
  <2>1. PICK r : r = Rst(m.pack)
    OBVIOUS
  <2>2. r \in Packs /\ r.type = "RST" /\ m.from \in Clients
    BY <1>4, <2>1 DEF Rst, Packs, Types
  <2>3. down' = down \/ down' = [down EXCEPT ![m.from] = down[m.from] \cup {r}]
    BY <1>3, <2>1
  <2>4. down \in [Clients -> SUBSET Packs]
    BY <1>1 DEF TypeOK
  <2>5. \A c \in Clients : down'[c] = down[c] \/ down'[c] = down[c] \cup {r}
    BY <2>3, <2>4
  <2>6. down' \in [Clients -> SUBSET Packs]
    BY <2>2, <2>3, <2>4
  <2> QED
    BY <2>2, <2>5, <2>6
<1>6. TypeOK'
  BY <1>1, <1>2, <1>4, <1>5 DEF TypeOK
<1>7. \A v \in Wcbs : KeepsPlace(v)
  BY DEF KeepsPlace
<1>8. TickerStep
  BY <1>2, <1>7, CallTicker
<1>9. Standing'
  <2>1. StandingStep
    BY <1>2, <1>7, <1>8 DEF StandingStep, TickerStep, KeepsFlags
  <2> QED
    BY <1>1, <1>6, <2>1, StandingKept DEF Inv
<1>10. MetGrows
  BY <1>1, <1>2 DEF MetGrows, TypeOK, Wcbs
<1>11. Traffic'
  <2>1. TrafficStep
    BY <1>2, <1>5, <1>10 DEF TrafficStep, Outgoing, Elements, Later
  <2> QED
    BY <1>1, <1>6, <2>1, TrafficKept DEF Inv
<1>12. Beginnings'
  <2>1. \A v \in Wcbs : dsn'[v] >= dsn[v]
    BY <1>1, <1>2 DEF TypeOK
  <2>2. BeginningsStep
    BY <1>2, <1>8, <1>10, <2>1 DEF BeginningsStep, TickerStep, Working, Elements
  <2> QED
    BY <1>1, <1>6, <2>2, BeginningsKept DEF Inv
<1> QED
  BY <1>6, <1>9, <1>11, <1>12 DEF Inv

\* A SYN of a client without a slot makes one, if the backlog has room.
LEMMA AdmitInv ==
  ASSUME Inv, ListenHandleSyn, UNCHANGED env, ~Full, Head(inbox).pack.type = "SYN", ~Known(Head(inbox).from),
         Admit(Head(inbox).from, Head(inbox).pack)
  PROVE  Inv'
<1>1. TypeOK /\ Clients \subseteq Wcbs /\ Slots \subseteq Wcbs
  BY DEF Inv, Wcbs
<1>2. UNCHANGED <<crash, tick, errno, flags, sb, dsn, next, una, queued, sending, flights, rcvNext, rb, standby,
                  up, down, lstate, backlogq, accepted, conn, wrote, met>>
  BY DEF ListenHandleSyn, Admit, procVars, sndVars, netVars, appVars
<1>3. PICK m : m = Head(inbox)
  OBVIOUS
<1>4. /\ m \in [from : Clients, pack : Packs] /\ m.pack.type = "SYN"
      /\ inbox' \in Seq([from : Clients, pack : Packs])
  <2>1. inbox \in Seq([from : Clients, pack : Packs]) /\ inbox # <<>> /\ inbox' = Tail(inbox)
    BY <1>1 DEF ListenHandleSyn, TypeOK
  <2> QED
    BY <1>3, <2>1, ElementsTail
<1>5. PICK c \in Clients, p \in Packs : c = m.from /\ p = m.pack
  BY <1>4
<1>6. PICK s \in Slots : /\ state[s] = "FREE"
                         /\ state' = [state EXCEPT ![s] = "SYN_RECEIVED"]
                         /\ peer' = [peer EXCEPT ![s] = c]
                         /\ rcvd' = [rcvd EXCEPT ![s] = {p}]
                         /\ tuples' = tuples \cup {s} /\ pending' = pending \cup {s}
  BY <1>3, <1>5 DEF Admit, NewState
<1>7. p.type = "SYN" /\ c # None /\ s \notin Clients /\ \A t \in tuples : peer[t] # c
  BY <1>3, <1>4, <1>5, <1>6, NamesAssumption DEF Known, Wcbs
<1>8. /\ state' \in [Wcbs -> States] /\ state'[s] = "SYN_RECEIVED"
      /\ \A v \in Wcbs : v # s => state'[v] = state[v]
  BY <1>1, <1>6 DEF TypeOK, States
<1>9. /\ peer' \in [Slots -> Clients \cup {None}] /\ peer'[s] = c
      /\ \A t \in Slots : t # s => peer'[t] = peer[t]
  BY <1>1, <1>6 DEF TypeOK
<1>10. /\ rcvd' \in [Wcbs -> SUBSET Packs] /\ rcvd'[s] = {p}
       /\ \A v \in Wcbs : v # s => rcvd'[v] = rcvd[v]
  BY <1>1, <1>6 DEF TypeOK
<1>11. TypeOK'
  BY <1>1, <1>2, <1>4, <1>6, <1>8, <1>9, <1>10 DEF TypeOK
<1>12. s \notin Held /\ Held' = Held \cup {s} /\ Held \subseteq Slots
  BY <1>1, <1>2, <1>6, HeldFacts DEF Inv, Standing, Places, Held, Elements
<1>13. Standing'
  <2>1. \A t \in Slots : /\ state'[t] = "FREE" <=> peer'[t] = None
                         /\ state'[t] \notin {"SYNING", "SYN_SENT"}
    BY <1>1, <1>7, <1>8, <1>9 DEF Inv, Standing, Places
  <2>2. \A t \in Held' : state'[t] # "FREE"
    BY <1>1, <1>8, <1>12 DEF Inv, Standing, Places
  <2>3. \A d \in Clients : /\ state'[d] \notin {"FREE", "SYN_RECEIVED"}
                           /\ conn'[d] = "no" => state'[d] = "CLOSED" /\ flags'[d] = {}
    BY <1>1, <1>2, <1>7, <1>8 DEF Inv, Standing, Places
  <2>4. \A v \in Wcbs : tick'[Proc(v)].wcb = v => (Open(v))' /\ (v \in Clients => conn'[v] # "no")
    BY <1>2, <1>7, <1>8 DEF Inv, Standing, Places, Open
  <2>5. "CLOSED_CALLED" \notin flags[s]
    BY <1>1, <1>6 DEF Inv, Standing, Places
  <2>6. \A v \in Wcbs : "CLOSED_CALLED" \in flags'[v] => state'[v] \in {"CLOSED", "RECYCLE"}
    BY <1>2, <1>8, <2>5 DEF Inv, Standing, Places
  <2>7. Places'
    BY <2>1, <2>2, <2>3, <2>4, <2>6 DEF Places, Proc
  <2>8. OnePerClient'
    <3>1. tuples' = {t \in Slots : state'[t] \notin {"FREE", "RECYCLE"}}
      BY <1>1, <1>6, <1>8 DEF Inv, Standing, OnePerClient, Open
    <3>2. s \notin tuples
      BY <1>6 DEF Inv, Standing, OnePerClient, Open
    <3>3. \A t \in tuples : t \in Slots /\ peer'[t] = peer[t] /\ peer'[t] # peer'[s]
      BY <1>1, <1>7, <1>9, <3>2 DEF TypeOK
    <3>4. \A t, u \in tuples' : peer'[t] = peer'[u] => t = u
      BY <1>6, <3>3 DEF Inv, Standing, OnePerClient
    <3> QED
      BY <3>1, <3>4 DEF OnePerClient, Open
  <2>9. IsFiniteSet(pending) /\ Cardinality(pending) \in Nat /\ env.backlog \in Nat
    BY FS_CardinalityType, SizesAssumption DEF Inv, Standing, Lists
  <2>10. s \notin pending /\ s \notin accepted /\ s \notin Elements(backlogq)
    BY <1>12 DEF Held
  <2>11. IsFiniteSet(pending') /\ Cardinality(pending') = Cardinality(pending) + 1
    BY <1>6, <2>9, <2>10, FS_AddElement
  <2>12. BacklogBounded'
    <3>1. /\ \A i \in 1..Len(backlogq) : backlogq[i] \notin pending \cup accepted
          /\ \A i, j \in 1..Len(backlogq) : backlogq[i] = backlogq[j] => i = j
          /\ Cardinality(pending) + Len(backlogq) <= env.backlog
          /\ Cardinality(pending) + Len(backlogq) # env.backlog
      BY DEF Inv, Standing, Lists, BacklogBounded, Full
    <3>2. Len(backlogq) \in Nat
      BY <1>1 DEF TypeOK
    <3>3. Cardinality(pending') + Len(backlogq') <= env'.backlog
      BY <1>2, <2>9, <2>11, <3>1, <3>2
    <3>4. \A i \in 1..Len(backlogq) : backlogq[i] # s
      BY <2>10 DEF Elements
    <3> QED
      BY <1>2, <1>6, <3>1, <3>3, <3>4 DEF BacklogBounded
  <2>13. PendingState'
    BY <1>1, <1>6, <1>8, <2>10 DEF Inv, Standing, Lists, PendingState, TypeOK
  <2>14. Lists'
    BY <1>2, <1>6, <2>5, <2>10, <2>11, <2>12, <2>13 DEF Inv, Standing, Lists
  <2>15. SlotsKept'
    <3> SUFFICES ASSUME NEW t \in Slots, (Open(t))'
                 PROVE  t \in Held' \/ (state'[t] = "CLOSED" /\ (MayRecycle(t))')
      BY DEF SlotsKept, Held
    <3>1. CASE t = s
      BY <1>12, <3>1
    <3>2. CASE t # s
      BY <1>1, <1>2, <1>8, <1>12, <3>2 DEF Inv, Standing, SlotsKept, Held, Open, MayRecycle
    <3> QED
      BY <3>1, <3>2
  <2> QED
    BY <2>7, <2>8, <2>14, <2>15 DEF Standing
<1>14. MetGrows
  BY <1>1, <1>2 DEF MetGrows, TypeOK
<1>15. Traffic'
  <2>1. \A v \in Wcbs : \A q \in rcvd'[v] :
          \/ q \in rcvd[v] /\ (v \in Slots => peer'[v] = peer[v])
          \/ Later(q) /\ (q.type \in {"ACK", "DAT"} /\ v \in Slots => (Met(peer[v]))')
    <3> SUFFICES ASSUME NEW v \in Wcbs, NEW q \in rcvd'[v]
                 PROVE  \/ q \in rcvd[v] /\ (v \in Slots => peer'[v] = peer[v])
                        \/ Later(q) /\ q.type \notin {"ACK", "DAT"}
      OBVIOUS
    <3>1. CASE v = s
      BY <1>7, <1>10, <3>1 DEF Later
    <3>2. CASE v # s
      BY <1>9, <1>10, <3>2
    <3> QED
      BY <3>1, <3>2
  <2>2. TrafficStep
    BY <1>2, <1>14, <2>1 DEF TrafficStep, Outgoing, Elements
  <2> QED
    BY <1>1, <1>11, <2>2, TrafficKept DEF Inv
<1>16. Beginnings'
  <2>1. \A d : Met(d) => (Met(d))'
    BY <1>1, <1>11, <1>14, MetKept
  <2>2. \A v \in Wcbs : v # s /\ Stopped(v) => (Stopped(v))'
    BY <1>2, <1>8 DEF Stopped, Proc
  <2>3. ~Stopped(s) /\ ~(Working(s))'
    <3>1. s \notin Elements(backlogq') \cup accepted'
      BY <1>2, <1>12 DEF Held, Elements
    <3> QED
      BY <1>6, <1>8, <3>1 DEF Stopped, Working
  <2>4. \A t \in Slots : t # s => ((Working(t))' => Working(t)) /\ peer'[t] = peer[t]
    BY <1>1, <1>2, <1>8, <1>9 DEF Working, Elements
  <2>5. \A v \in Wcbs : sb'[v] > 0 => dsn'[v] >= 1 /\ (v \in Clients => (Met(v))')
    BY <1>2, <2>1 DEF Inv, Beginnings
  <2>6. \A d \in Clients : /\ conn'[d] # "no" => dsn'[d] >= 1
                           /\ conn'[d] = "no" => rcvNext'[d] = 0
                           /\ rcvNext'[d] >= 1 => d \in met' \/ (Stopped(d))'
    BY <1>1, <1>2, <1>7, <2>2 DEF Inv, Beginnings
  <2>7. \A t \in Slots : rcvNext'[t] >= 1 => dsn'[t] >= 1 \/ (Stopped(t))'
    BY <1>1, <1>2, <2>2, <2>3 DEF Inv, Beginnings
  <2>8. \A t \in Slots : (Working(t))' => dsn'[t] >= 1 /\ (Met(peer[t]))'
    <3> SUFFICES ASSUME NEW t \in Slots, (Working(t))'
                 PROVE  dsn'[t] >= 1 /\ (Met(peer[t]))'
      OBVIOUS
    <3>1. Working(t) /\ peer'[t] = peer[t]
      BY <2>3, <2>4
    <3>2. dsn[t] >= 1 /\ Met(peer[t])
      BY <3>1 DEF Inv, Beginnings
    <3> QED
      BY <1>2, <3>1, <3>2 DEF Met
  <2> QED
    BY <2>5, <2>6, <2>7, <2>8 DEF Beginnings
<1> QED
  BY <1>11, <1>13, <1>15, <1>16 DEF Inv

\* One round of listen_handle_syn.
LEMMA ListenHandleSynInv ==
  ASSUME Inv, ListenHandleSyn, UNCHANGED env
  PROVE  Inv'
<1>1. \/ UNCHANGED <<up, down, state, peer, rcvd, tuples, pending>>
      \/ /\ down' = [down EXCEPT ![Head(inbox).from] = @ \cup {Rst(Head(inbox).pack)}]
         /\ UNCHANGED <<up, state, peer, rcvd, tuples, pending>>
      \/ /\ ~Full /\ Head(inbox).pack.type = "SYN" /\ ~Known(Head(inbox).from)
         /\ Admit(Head(inbox).from, Head(inbox).pack)
  BY DEF ListenHandleSyn, netVars
<1> QED
  BY <1>1, NotAdmitted, AdmitInv

---------------------------------------------------------------------------
(* The invariant.                                                          *)

\* It holds when the processes start.
LEMMA InitInv ==
  ASSUME Init
  PROVE  Inv
<1>1. TypeOK
  <2>1. <<>> \in Seq(SndPacks) /\ <<>> \in Seq(Slots) /\ <<>> \in Seq([from : Clients, pack : Packs])
    OBVIOUS
  <2>2. MaxWrite \in Nat
    BY SizesAssumption
  <2>3. IdleTick \in [wcb : Wcbs \cup {None},
                      step : {"idle", "recv", "deliver", "swap", "flights", "send", "move", "pack"}]
    BY DEF IdleTick
  <2>4. "CLOSED" \in States /\ "FREE" \in States
    BY DEF States
  <2> QED
    BY <2>1, <2>2, <2>3, <2>4 DEF Init, TypeOK
<1>2. env \in Environments
  BY DEF Init
<1>3. Clients \subseteq Wcbs /\ Slots \subseteq Wcbs /\ Clients \cap Slots = {} /\ None \notin Wcbs
  BY NamesAssumption DEF Wcbs
<1>4. Elements(<<>>) = {}
  BY DEF Elements
<1>5. Held = {}
  BY <1>4 DEF Held, Init
<1>6. \A s \in Slots : state[s] = "FREE" /\ peer[s] = None
  BY <1>3 DEF Init
<1>7. \A c \in Clients : state[c] = "CLOSED" /\ flags[c] = {} /\ conn[c] = "no"
  BY <1>3 DEF Init
<1>8. \A w \in Wcbs : tick[Proc(w)].wcb = None
  BY WcbFacts DEF Init, IdleTick
<1>9. Standing
  <2>1. Places
    BY <1>3, <1>5, <1>6, <1>7, <1>8 DEF Places, Init
  <2>2. OnePerClient
    BY <1>6 DEF OnePerClient, Open, Init
  <2>3. Lists
    <3>1. pending = {} /\ backlogq = <<>> /\ Len(backlogq) = 0
      BY DEF Init
    <3>2. IsFiniteSet(pending) /\ Cardinality(pending) = 0
      BY <3>1, FS_EmptySet
    <3>3. env.backlog \in Nat
      BY <1>2, SizesAssumption
    <3>4. BacklogBounded
      BY <3>1, <3>2, <3>3 DEF BacklogBounded
    <3> QED
      BY <3>1, <3>2, <3>4 DEF Lists, PendingState
  <2>4. SlotsKept
    BY <1>6 DEF SlotsKept, Open
  <2> QED
    BY <2>1, <2>2, <2>3, <2>4 DEF Standing
<1>10. Traffic
  <2>1. Sent
    BY <1>4 DEF Sent, Outgoing, Init
  <2>2. OnTheWire
    BY DEF OnTheWire, Init
  <2>3. Received
    BY DEF Received, Init
  <2> QED
    BY <2>1, <2>2, <2>3 DEF Traffic
<1>11. Beginnings
  <2>1. \A w \in Wcbs : sb[w] = 0 /\ rcvNext[w] = 0
    BY DEF Init
  <2>2. \A s \in Slots : ~Working(s)
    BY <1>4, <1>6 DEF Working, Init
  <2> QED
    BY <1>3, <1>7, <2>1, <2>2 DEF Beginnings
<1> QED
  BY <1>1, <1>2, <1>9, <1>10, <1>11 DEF Inv

\* Every step of a pass keeps it.
LEMMA PassInv ==
  ASSUME Inv, NEW w \in Wcbs, Pass(w), UNCHANGED env
  PROVE  Inv'
<1>1. CASE BeginPass(w)
  BY <1>1, BeginPassInv
<1>2. CASE Expire(w)
  BY <1>2, ExpireInv
<1>3. CASE Recycle(w)
  BY <1>3, RecycleInv
<1>4. CASE state[w] # "FREE" /\ \E batch \in SUBSET OnTheWay(w) : CheckRecv(w, batch)
  BY <1>4, CheckRecvInv
<1>5. ASSUME NEW p \in rcvd[w],
             \/ DeliverRst(w, p) \/ DeliverSynRefused(w, p) \/ DeliverSyn(w, p)
             \/ DeliverAck(w, p) \/ DeliverFin(w, p)
      PROVE  Inv'
  BY <1>5, DeliverRstInv, DeliverSynRefusedInv, DeliverSynInv, DeliverAckInv, DeliverFinInv
<1>6. CASE DeliverEnd(w)
  BY <1>6, DeliverEndInv
<1>7. CASE Swap(w)
  BY <1>7, SwapInv
<1>8. CASE CheckFlights(w)
  BY <1>8, CheckFlightsInv
<1>9. CASE SendStops(w)
  BY <1>9, SendStopsInv
<1>10. CASE SendPack(w)
  BY <1>10, SendPackInv
<1>11. CASE SendOutOfTurn(w)
  BY <1>11, SendOutOfTurnInv
<1>12. CASE MoveQueued(w)
  BY <1>12, MoveQueuedInv
<1>13. CASE Packetise(w)
  BY <1>13, PacketiseInv
<1> QED
  BY <1>1, <1>2, <1>3, <1>4, <1>5, <1>6, <1>7, <1>8, <1>9, <1>10, <1>11, <1>12, <1>13 DEF Pass

\* Every step of the processes and the network keeps it.
LEMMA NextInv ==
  ASSUME Inv, [Next]_vars
  PROVE  Inv'
<1>1. CASE UNCHANGED vars
  <2>1. TypeOK' /\ env' \in Environments
    BY <1>1 DEF vars, procVars, sndVars, rcvVars, netVars, lisVars, appVars, Inv, TypeOK
  <2>2. Standing'
    <3>1. UNCHANGED <<state, peer, conn, flags, tick, pending, backlogq, accepted, tuples, env>>
      BY <1>1 DEF vars, procVars, lisVars, appVars
    <3>2. Places' /\ OnePerClient'
      BY <3>1 DEF Inv, Standing, Places, Held, Elements, OnePerClient, Open, Proc
    <3>3. Lists' /\ SlotsKept'
      BY <3>1 DEF Inv, Standing, Lists, BacklogBounded, PendingState, SlotsKept, Held, Open, MayRecycle, Elements
    <3> QED
      BY <3>2, <3>3 DEF Standing
  <2>3. Traffic'
    <3>1. UNCHANGED <<queued, sending, flights, up, down, rcvd, peer, met, wrote, accepted>>
      BY <1>1 DEF vars, sndVars, rcvVars, netVars, lisVars, appVars
    <3> QED
      BY <3>1 DEF Inv, Traffic, Sent, OnTheWire, Received, Outgoing, Elements, Genuine, Later, Met
  <2>4. Beginnings'
    <3>1. UNCHANGED <<sb, dsn, conn, rcvNext, met, wrote, state, tick, backlogq, accepted, peer>>
      BY <1>1 DEF vars, procVars, sndVars, rcvVars, lisVars, appVars
    <3> QED
      BY <3>1 DEF Inv, Beginnings, Met, Stopped, Working, Elements, Proc
  <2> QED
    BY <2>1, <2>2, <2>3, <2>4 DEF Inv
<1>2. ASSUME Step, UNCHANGED env
      PROVE  Inv'
  <2>1. ASSUME NEW w \in Wcbs, Pass(w)
        PROVE  Inv'
    BY <1>2, <2>1, PassInv
  <2>2. ASSUME NEW w \in Wcbs, Call(w)
        PROVE  Inv'
    BY <1>2, <2>2, SendInv, RecvInv, ShutdownInv, CloseInv DEF Call
  <2>3. ASSUME NEW w \in Wcbs, SocketError(w)
        PROVE  Inv'
    BY <1>2, <2>3, SocketErrorInv
  <2>4. ASSUME NEW c \in Clients, Arrive(c) \/ Connect(c) \/ ConnectReturns(c) \/ Lose(c)
        PROVE  Inv'
    BY <1>2, <2>4, ArriveInv, ConnectInv, ConnectReturnsInv, LoseInv
  <2>5. ASSUME NEW s \in Slots, ScanPending(s)
        PROVE  Inv'
    BY <1>2, <2>5, ScanPendingInv
  <2>6. CASE ListenHandleSyn \/ CloseListener \/ Accept
    BY <1>2, <2>6, ListenHandleSynInv, CloseListenerInv, AcceptInv
  <2> QED
    BY <1>2, <2>1, <2>2, <2>3, <2>4, <2>5, <2>6 DEF Step
<1> QED
  BY <1>1, <1>2 DEF Next

\* Whatever UDP loses, repeats or delays, and whenever the applications connect,
\* write, shut down and close, the WCBs keep to the invariant.
THEOREM ConnectionInductive == Spec => []Inv
<1>1. Init => Inv
  BY InitInv
<1>2. Inv /\ [Next]_vars => Inv'
  BY NextInv
<1> QED
  BY <1>1, <1>2, PTL DEF Spec

\* A client has at most one slot in the four-tuple map, which holds exactly the
\* open slots, and only a client that took part in the handshake has a slot that
\* is established or accepted (listen_handle_syn, check_recv, accept).
THEOREM ConnectionsSoundHolds == Spec => []ConnectionsSound
<1>1. Inv => ConnectionsSound
  <2> SUFFICES ASSUME Inv
               PROVE  ConnectionsSound
    OBVIOUS
  <2>1. Handshake
    <3> SUFFICES ASSUME NEW s \in Slots, state[s] \in {"ESTABLISHED", "CLOSE_WAIT"} \/ s \in accepted
                 PROVE  peer[s] \in met \/ wrote[peer[s]] > 0
      BY DEF Handshake
    <3>1. Working(s)
      BY DEF Working
    <3> QED
      BY <3>1 DEF Inv, Beginnings, Met
  <2> QED
    BY <2>1 DEF Inv, Standing, ConnectionsSound
<1> QED
  BY <1>1, ConnectionInductive, PTL

\* backloglist_pending and backlogq together keep to the backlog, no slot is in
\* them twice, and what is pending is in a state that the scan handles: the two
\* assertions of the listener's pass (wcp.cpp:142 and 156) never fail.
THEOREM BacklogSoundHolds == Spec => []BacklogSound
<1>1. Inv => BacklogSound
  BY DEF Inv, Standing, Lists, BacklogSound
<1> QED
  BY <1>1, ConnectionInductive, PTL

\* While the listener is open, and after it was closed with nothing in its two
\* lists, every open slot is the application's, is about to be recycled, or
\* waits in a list that the listener goes on scanning.
THEOREM NoLeakHolds == Spec => []NoLeak
<1>1. Inv => NoLeak
  <2> SUFFICES ASSUME Inv, lstate = "LISTEN" \/ (pending = {} /\ backlogq = <<>>),
                      NEW s \in Slots, Open(s)
               PROVE  \/ s \in accepted
                      \/ state[s] = "CLOSED" /\ MayRecycle(s)
                      \/ lstate = "LISTEN" /\ s \in pending \cup Elements(backlogq)
    BY DEF NoLeak
  <2>1. s \in Held \/ (state[s] = "CLOSED" /\ MayRecycle(s))
    BY DEF Inv, Standing, SlotsKept
  <2>2. backlogq = <<>> => Elements(backlogq) = {}
    BY DEF Elements
  <2> QED
    BY <2>1, <2>2 DEF Held
<1> QED
  BY <1>1, ConnectionInductive, PTL

---------------------------------------------------------------------------
(* No revival.                                                             *)

\* A step leaves what was recycled, and who was closed, alone.
Rests(w) == /\ "CLOSED_CALLED" \in flags[w] => "CLOSED_CALLED" \in flags'[w]
            /\ state[w] = "RECYCLE" => state'[w] = "RECYCLE"

\* So do the steps of a pass: the ticker is never at a recycled WCB.
LEMMA PassRests ==
  ASSUME Inv, NEW w \in Wcbs, Pass(w)
  PROVE  \A v \in Wcbs : Rests(v)
<1>1. TypeOK
  BY DEF Inv
<1>2. CASE /\ \A v \in Wcbs : v # w => state'[v] = state[v]
           /\ \A v \in Wcbs : flags[v] \ {"FIN_READ"} \subseteq flags'[v]
           /\ state'[w] = state[w] \/ state[w] # "RECYCLE"
  BY <1>2 DEF Rests
<1>3. CASE BeginPass(w) \/ DeliverEnd(w) \/ Swap(w) \/ CheckFlights(w) \/ SendStops(w) \/ SendOutOfTurn(w)
           \/ MoveQueued(w) \/ Packetise(w) \/ \E batch \in SUBSET OnTheWay(w) : CheckRecv(w, batch)
  <2>1. state' = state /\ flags' = flags
    BY <1>3 DEF BeginPass, DeliverEnd, Swap, CheckFlights, SendStops, SendOutOfTurn, MoveQueued, Packetise, CheckRecv
  <2> QED
    BY <2>1 DEF Rests
<1>4. CASE Expire(w) \/ Recycle(w)
  <2>1. state[w] # "RECYCLE" /\ flags' = flags /\ \A v \in Wcbs : v # w => state'[v] = state[v]
    BY <1>1, <1>4 DEF Expire, Recycle, Carrying, Finishing, TypeOK
  <2> QED
    BY <1>2, <2>1
<1>5. ASSUME NEW p \in rcvd[w],
             \/ DeliverRst(w, p) \/ DeliverSynRefused(w, p) \/ DeliverSyn(w, p)
             \/ DeliverAck(w, p) \/ DeliverFin(w, p)
      PROVE  \A v \in Wcbs : Rests(v)
  <2>1. At(w, "deliver")
    BY <1>5 DEF DeliverRst, DeliverSynRefused, DeliverSyn, DeliverAck, DeliverFin
  <2>2. state[w] # "RECYCLE"
    BY <2>1, AtFacts DEF Open
  <2>3. \A v \in Wcbs : v # w => state'[v] = state[v]
    BY <1>1, <1>5 DEF DeliverRst, DeliverSynRefused, DeliverSyn, DeliverAck, DeliverFin, TypeOK
  <2>4. \A v \in Wcbs : flags[v] \ {"FIN_READ"} \subseteq flags'[v]
    <3>1. CASE DeliverFin(w, p)
      <4>1. PICK f : /\ flags' = [flags EXCEPT ![w] = f]
                     /\ f = flags[w] \/ f = (flags[w] \cup {"FIN_RECEIVED"}) \ {"FIN_READ"}
        <5>1. [flags EXCEPT ![w] = flags[w]] = flags
          BY <1>1 DEF TypeOK
        <5> QED
          BY <3>1, <5>1 DEF DeliverFin
      <4>2. \A v \in Wcbs : flags'[v] = IF v = w THEN f ELSE flags[v]
        BY <1>1, <4>1 DEF TypeOK
      <4> QED
        BY <4>1, <4>2
    <3>2. CASE flags' = flags
      BY <3>2
    <3> QED
      BY <1>5, <3>1, <3>2 DEF DeliverRst, DeliverSynRefused, DeliverSyn, DeliverAck
  <2> QED
    BY <1>2, <2>2, <2>3, <2>4
<1>6. CASE SendPack(w)
  <2>1. state[w] # "RECYCLE"
    BY <1>6, AtFacts DEF SendPack, Open
  <2>2. \A v \in Wcbs : v # w => state'[v] = state[v]
    BY <1>1, <1>6 DEF SendPack, TypeOK
  <2>3. PICK f : flags' = [flags EXCEPT ![w] = f] /\ (f = flags[w] \/ f = flags[w] \cup {"FIN_SENT"})
    <3>1. [flags EXCEPT ![w] = flags[w]] = flags
      BY <1>1 DEF TypeOK
    <3> QED
      BY <1>6, <3>1 DEF SendPack
  <2>4. \A v \in Wcbs : flags'[v] = IF v = w THEN f ELSE flags[v]
    BY <1>1, <2>3 DEF TypeOK
  <2> QED
    BY <1>2, <2>1, <2>2, <2>3, <2>4
<1> QED
  BY <1>3, <1>4, <1>5, <1>6 DEF Pass

\* And the steps of the listener, the applications and UDP.
LEMMA StepRests ==
  ASSUME Inv, Step
  PROVE  \A v \in Wcbs : Rests(v)
<1>1. TypeOK /\ Clients \subseteq Wcbs /\ Slots \subseteq Wcbs
  BY DEF Inv, Wcbs
<1>2. ASSUME NEW w \in Wcbs, Pass(w)
      PROVE  \A v \in Wcbs : Rests(v)
  BY <1>2, PassRests
<1>3. ASSUME NEW w \in Wcbs, Call(w) \/ SocketError(w)
      PROVE  \A v \in Wcbs : Rests(v)
  <2>1. CASE Send(w)
    BY <2>1 DEF Send, Rests
  <2>2. CASE Recv(w)
    <3>1. state' = state /\ (flags' = flags \/ flags' = [flags EXCEPT ![w] = flags[w] \cup {"FIN_READ"}])
      BY <2>2 DEF Recv
    <3>2. CASE flags' = flags
      BY <3>1, <3>2 DEF Rests
    <3>3. CASE flags' = [flags EXCEPT ![w] = flags[w] \cup {"FIN_READ"}]
      <4>1. \A v \in Wcbs : flags'[v] = IF v = w THEN flags[w] \cup {"FIN_READ"} ELSE flags[v]
        BY <1>1, <3>3 DEF TypeOK
      <4> QED
        BY <3>1, <4>1 DEF Rests
    <3> QED
      BY <3>1, <3>2, <3>3
  <2>3. ASSUME NEW sides, Shutdown(w, sides)
        PROVE  \A v \in Wcbs : Rests(v)
    <3>1. state' = state /\ flags' = [flags EXCEPT ![w] = flags[w] \cup sides]
      BY <2>3 DEF Shutdown
    <3> QED
      BY <1>1, <3>1 DEF Rests, TypeOK
  <2>4. CASE Close(w)
    <3>1. /\ state[w] # "RECYCLE" /\ flags' = [flags EXCEPT ![w] = flags[w] \cup {"CLOSED_CALLED", "READ_SHUT", "WRITE_SHUT"}]
          /\ state' = [state EXCEPT ![w] = "CLOSED"]
      BY <2>4 DEF Close, CloseWcb, ClosedFlags, Closable, Callable
    <3>2. \A v \in Wcbs : v # w => state'[v] = state[v] /\ flags'[v] = flags[v]
      BY <1>1, <3>1 DEF TypeOK
    <3>3. "CLOSED_CALLED" \in flags'[w]
      BY <1>1, <3>1 DEF TypeOK
    <3> QED
      BY <3>1, <3>2, <3>3 DEF Rests
  <2>5. CASE SocketError(w)
    <3>1. /\ state' = state
          /\ \E err \in {"RECV_ERROR", "SEND_ERROR"} : flags' = [flags EXCEPT ![w] = flags[w] \cup {err}]
      BY <2>5 DEF SocketError
    <3> QED
      BY <1>1, <3>1 DEF Rests, TypeOK
  <2> QED
    BY <1>3, <2>1, <2>2, <2>3, <2>4, <2>5 DEF Call
<1>4. ASSUME NEW c \in Clients, Arrive(c) \/ Connect(c) \/ ConnectReturns(c) \/ Lose(c)
      PROVE  \A v \in Wcbs : Rests(v)
  <2>1. flags' = flags /\ (state' = state \/ (state' = [state EXCEPT ![c] = "SYNING"] /\ conn[c] = "no"))
    BY <1>4 DEF Arrive, Connect, ConnectReturns, Lose
  <2>2. conn[c] = "no" => state[c] # "RECYCLE"
    BY DEF Inv, Standing, Places
  <2> QED
    BY <1>1, <2>1, <2>2 DEF Rests, TypeOK
<1>5. ASSUME NEW s \in Slots, ScanPending(s)
      PROVE  \A v \in Wcbs : Rests(v)
  <2>1. \/ state' = state /\ flags' = flags
        \/ /\ state[s] # "RECYCLE" /\ flags' = [flags EXCEPT ![s] = flags[s] \cup {"CLOSED_CALLED", "READ_SHUT", "WRITE_SHUT"}]
           /\ state' = [state EXCEPT ![s] = "CLOSED"]
    BY <1>5 DEF ScanPending, CloseWcb, ClosedFlags
  <2>2. \A v \in Wcbs : v # s => state'[v] = state[v] /\ flags'[v] = flags[v]
    BY <1>1, <2>1 DEF TypeOK
  <2>3. flags' = flags \/ "CLOSED_CALLED" \in flags'[s]
    BY <1>1, <2>1 DEF TypeOK
  <2>4. state' = state \/ state[s] # "RECYCLE"
    BY <2>1
  <2> QED
    BY <2>2, <2>3, <2>4 DEF Rests
<1>6. CASE ListenHandleSyn
  <2>1. flags' = flags
    BY <1>6 DEF ListenHandleSyn
  <2>2. state' = state \/ \E s \in Slots : state[s] = "FREE" /\ state' = [state EXCEPT ![s] = "SYN_RECEIVED"]
    BY <1>6 DEF ListenHandleSyn, Admit, NewState
  <2> QED
    BY <1>1, <2>1, <2>2 DEF Rests, TypeOK
<1>7. CASE CloseListener \/ Accept
  BY <1>7 DEF CloseListener, Accept, Rests
<1> QED
  BY <1>2, <1>3, <1>4, <1>5, <1>6, <1>7 DEF Step

\* Once close was called, no step of the ticker (an ACK that arrives late, a FIN,
\* a RST, a timer) brings the WCB back, and a recycled WCB stays so.
THEOREM NoRevivalHolds == Spec => NoRevival
<1>1. Inv /\ Inv' /\ [Next]_vars =>
        [\A w \in Wcbs :
            /\ "CLOSED_CALLED" \in flags[w] => state'[w] \in {"CLOSED", "RECYCLE"}
            /\ state[w] = "RECYCLE" => state'[w] = "RECYCLE"]_vars
  <2> SUFFICES ASSUME Inv, Inv', Next, NEW w \in Wcbs
               PROVE  /\ "CLOSED_CALLED" \in flags[w] => state'[w] \in {"CLOSED", "RECYCLE"}
                      /\ state[w] = "RECYCLE" => state'[w] = "RECYCLE"
    OBVIOUS
  <2>1. Rests(w)
    BY StepRests DEF Next
  <2>2. "CLOSED_CALLED" \in flags'[w] => state'[w] \in {"CLOSED", "RECYCLE"}
    BY DEF Inv, Standing, Places
  <2> QED
    BY <2>1, <2>2 DEF Rests
<1> QED
  BY <1>1, ConnectionInductive, PTL DEF Spec, NoRevival
=============================================================================
