------------------------- MODULE WcpTransferProofs -------------------------
(***************************************************************************)
(* Proofs about the data path of WCP, for buffers, windows and bounds of   *)
(* every size: first its type invariant and the inductive invariant of     *)
(* what is under way, then that it delivers each stream whole and in       *)
(* order, and so implements WcpStream.                                     *)
(***************************************************************************)
EXTENDS WcpTransferLive, TLAPS

LEMMA PeerFacts == \A e \in End : Peer(e) \in End /\ Peer(e) # e /\ Peer(Peer(e)) = e
  BY EndsAssumption DEF End, Peer

(* What goes out to the peer of e is well formed. *)
LEMMA InjectType ==
  ASSUME TypeOK, NEW e \in End, NEW packs \in SUBSET CtlPacks, Inject(e, packs)
  PROVE  net' \in [End -> SUBSET NetPacks]
  <1>1. \A p \in packs : SendPack(e, p) \in NetPacks
    BY DEF TypeOK, SendPack, CtlPacks, NetPacks
  <1> QED
    BY <1>1, PeerFacts DEF TypeOK, Inject

LEMMA DatIsCtl == DatPacks \subseteq CtlPacks
  BY DEF DatPacks, CtlPacks, Kinds

LEMMA InitType == Init => TypeOK
  BY SizeAssumption, ProbesAssumption, PeerFacts
  DEF Init, TypeOK, FirstSeq, End, Peer, DatPacks, CtlPacks, NetPacks

LEMMA SendType ==
  ASSUME TypeOK, NEW e \in End, NEW n \in 1..MaxCall, Send(e, n)
  PROVE  TypeOK'
  <1> DEFINE left == SndCap - Len(sb[e])
             take == IF left > n THEN n ELSE left
  <1>1. n \in Nat \ {0} /\ left \in Int
    BY SizeAssumption, BoundAssumption DEF TypeOK
  <1>2. take \in Nat
    BY <1>1 DEF Send
  <1>a. /\ sb' = [sb EXCEPT ![e] = @ \o [i \in 1..take |-> wrote[e] + i]]
        /\ wrote' = [wrote EXCEPT ![e] = @ + take]
        /\ wrote \in [End -> Nat] /\ sb \in [End -> Seq(Nat)]
    BY DEF Send, TypeOK
  <1> HIDE DEF take
  <1>3. [i \in 1..take |-> wrote[e] + i] \in Seq(Nat)
    BY <1>2, <1>a
  <1>b. sb[e] \o [i \in 1..take |-> wrote[e] + i] \in Seq(Nat)
    BY <1>3, <1>a
  <1>4. sb' \in [End -> Seq(Nat)] /\ wrote' \in [End -> Nat]
    BY <1>2, <1>b, <1>a
  <1> QED
    BY <1>4 DEF Send, TypeOK, ackVars, rcvVars

LEMMA RecvType ==
  ASSUME TypeOK, NEW e \in End, NEW n \in 1..MaxCall, Recv(e, n)
  PROVE  TypeOK'
  <1> DEFINE take == IF Len(rb[e]) > n THEN n ELSE Len(rb[e])
  <1>1. take \in Nat /\ take <= Len(rb[e]) /\ rb[e] \in Seq(Nat)
    BY BoundAssumption DEF TypeOK
  <1>2. SubSeq(rb[e], 1, take) \in Seq(Nat) /\ SubSeq(rb[e], take + 1, Len(rb[e])) \in Seq(Nat)
    BY <1>1
  <1>a. /\ read' = [read EXCEPT ![e] = @ \o SubSeq(rb[e], 1, take)]
        /\ rb' = [rb EXCEPT ![e] = SubSeq(@, take + 1, Len(@))]
        /\ read \in [End -> Seq(Nat)] /\ rb \in [End -> Seq(Nat)]
    BY DEF TypeOK, Recv
  <1> HIDE DEF take
  <1>b. read[e] \o SubSeq(rb[e], 1, take) \in Seq(Nat)
    BY <1>2, <1>a
  <1>3. read' \in [End -> Seq(Nat)] /\ rb' \in [End -> Seq(Nat)]
    BY <1>2, <1>a, <1>b
  <1> QED
    BY <1>3 DEF Recv, TypeOK, sndVars, ackVars

LEMMA CheckRecvType ==
  ASSUME TypeOK, NEW e \in End, NEW batch \in SUBSET net[e], NEW again \in SUBSET batch,
         CheckRecv(e, batch, again)
  PROVE  TypeOK'
  <1>1. batch \subseteq NetPacks
    BY DEF TypeOK
  <1>2. una' \in [End -> Nat] /\ unaUpd' \in [End -> BOOLEAN] /\ rwnd' \in [End -> Nat]
        /\ flights' \in [End -> SUBSET DatPacks]
    <2>1. PICK top \in {una[e]} \cup {m.ack : m \in batch} :
            LET src == {m \in batch : m.upd \/ (top > una[e] /\ m.ack = top)}
                sacked == UNION {m.sacks : m \in batch}
            IN /\ una' = [una EXCEPT ![e] = top]
               /\ unaUpd' = [unaUpd EXCEPT ![e] = @ \/ top > una[e]]
               /\ \E w \in (IF src = {} THEN {rwnd[e]} ELSE {m.wnd : m \in src}) :
                    rwnd' = [rwnd EXCEPT ![e] = w]
               /\ flights' = [flights EXCEPT ![e] = {p \in @ : p.seq < top \/ p.seq \notin sacked}]
      BY DEF CheckRecv, HandleAcks, Unsacked
    <2>2. top \in Nat
      BY <1>1, SMTT(30) DEF TypeOK, NetPacks
    <2>3. una' \in [End -> Nat] /\ unaUpd' \in [End -> BOOLEAN]
      BY <2>1, <2>2 DEF TypeOK
    <2>4. rwnd' \in [End -> Nat]
      <3>1. \A m \in batch : m.wnd \in Nat
        BY <1>1 DEF NetPacks
      <3>2. rwnd \in [End -> Nat]
        BY DEF TypeOK
      <3> QED BY <2>1, <3>1, <3>2
    <2>5. flights' \in [End -> SUBSET DatPacks]
      BY <2>1 DEF TypeOK
    <2> QED BY <2>3, <2>4, <2>5
  <1>3. ctl' \in [End -> Seq(CtlPacks)]
    <2>1. Seqs({b \in batch : InSeqSpace(b)}) \in SUBSET Nat
      BY <1>1 DEF Seqs, NetPacks
    <2>2. \A S \in SUBSET Nat : /\ Control("SACK", dsn[e], S) \in CtlPacks
                                /\ Control("KEEP_ALIVE_REPLY", dsn[e], S) \in CtlPacks
      BY DEF Control, CtlPacks, Kinds, NoChunk, TypeOK
    <2>3. Replies(e, batch) \in Seq(CtlPacks)
      BY <2>1, <2>2 DEF Replies
    <2> QED BY <2>3 DEF TypeOK, CheckRecv
  <1>4. rcvd' \in [End -> SUBSET [seq : Nat, chunk : Nat]]
    <2>1. Fresh(e, batch) \subseteq [seq : Nat, chunk : Nat]
      BY <1>1 DEF Fresh, NetPacks
    <2>2. rcvd \in [End -> SUBSET [seq : Nat, chunk : Nat]]
      BY DEF TypeOK
    <2>3. PICK new \in SUBSET Fresh(e, batch) : rcvd' = [rcvd EXCEPT ![e] = @ \cup new]
      BY DEF CheckRecv, Insert
    <2>4. rcvd[e] \cup new \in SUBSET [seq : Nat, chunk : Nat]
      BY <2>1, <2>2
    <2> QED BY <2>2, <2>3, <2>4
  <1>5. net' \in [End -> SUBSET NetPacks] /\ probes' \in [End -> 0..Probes]
        /\ phase' \in [End -> {"recv", "deliver", "swap", "flights", "send"}]
    BY <1>1, ProbesAssumption DEF TypeOK, CheckRecv
  <1> QED
    BY <1>2, <1>3, <1>4, <1>5 DEF CheckRecv, TypeOK, appVars, sndVars

LEMMA CheckRecvIdleType ==
  ASSUME TypeOK, NEW e \in End, CheckRecvIdle(e)
  PROVE  TypeOK'
  <1>1. Control("KEEP_ALIVE", dsn[e], {}) \in CtlPacks
    BY DEF Control, CtlPacks, Kinds, NoChunk, TypeOK
  <1>2. ctl' \in [End -> Seq(CtlPacks)]
    <2>1. ctl \in [End -> Seq(CtlPacks)]
      BY DEF TypeOK
    <2>2. \/ ctl' = [ctl EXCEPT ![e] = Append(@, Control("KEEP_ALIVE", dsn[e], {}))]
          \/ ctl' = ctl
      BY DEF CheckRecvIdle
    <2>3. Append(ctl[e], Control("KEEP_ALIVE", dsn[e], {})) \in Seq(CtlPacks)
      BY <2>1, <1>1
    <2> QED BY <2>1, <2>2, <2>3
  <1>3. probes' \in [End -> 0..Probes]
    <2>1. probes \in [End -> 0..Probes]
      BY DEF TypeOK
    <2>2. \/ probes[e] < Probes /\ probes' = [probes EXCEPT ![e] = @ + 1]
          \/ probes' = probes
      BY <2>1, ProbesAssumption DEF CheckRecvIdle, GaveUp
    <2> QED BY <2>1, <2>2, ProbesAssumption
  <1>4. /\ status' \in [End -> {"up", "rcverr", "snderr", "assert"}]
        /\ phase' \in [End -> {"recv", "deliver", "swap", "flights", "send"}]
    <2>1. status \in [End -> {"up", "rcverr", "snderr", "assert"}]
          /\ phase \in [End -> {"recv", "deliver", "swap", "flights", "send"}]
      BY DEF TypeOK
    <2>2. /\ status' = [status EXCEPT ![e] = "rcverr"] \/ status' = status
          /\ phase' = [phase EXCEPT ![e] = "swap"]
      BY DEF CheckRecvIdle
    <2> QED BY <2>1, <2>2
  <1> QED
    BY <1>2, <1>3, <1>4 DEF CheckRecvIdle, TypeOK, appVars, sndVars, ackVars, rcvVars

LEMMA LeftType == TypeOK => \A e \in End : Left(e) \in Int
  BY SizeAssumption DEF Left, TypeOK

LEMMA DeliverPackType ==
  ASSUME TypeOK, NEW e \in End, NEW p \in rcvd[e], DeliverPack(e, p)
  PROVE  TypeOK'
  <1>1. p.chunk \in Nat
    BY DEF TypeOK
  <1>2. rcvNext' \in [End -> Nat] /\ rcvd' \in [End -> SUBSET [seq : Nat, chunk : Nat]]
    <2>1. rcvNext \in [End -> Nat] /\ rcvd \in [End -> SUBSET [seq : Nat, chunk : Nat]]
      BY DEF TypeOK
    <2>2. /\ rcvNext' = [rcvNext EXCEPT ![e] = @ + 1]
          /\ rcvd' = [rcvd EXCEPT ![e] = @ \ {p}]
      BY DEF DeliverPack
    <2> QED BY <2>1, <2>2
  <1>3. standby' \in [End -> Seq(Nat)] /\ rcvWnd' \in [End -> Nat]
        /\ rflag' \in [End -> SUBSET {"LESS", "MORE"}]
    <2>1. /\ standby \in [End -> Seq(Nat)] /\ rcvWnd \in [End -> Nat]
          /\ rflag \in [End -> SUBSET {"LESS", "MORE"}]
      BY DEF TypeOK
    <2>2. CASE p.chunk = NoChunk
      BY <2>1, <2>2 DEF DeliverPack
    <2>3. CASE p.chunk # NoChunk
      <3>1. /\ Left(e) >= MDU
            /\ standby' = [standby EXCEPT ![e] = Append(@, p.chunk)]
            /\ rcvWnd' = [rcvWnd EXCEPT ![e] = Left(e) - MDU]
            /\ \/ rflag' = [rflag EXCEPT ![e] = @ \cup {"LESS"}]
               \/ rflag' = [rflag EXCEPT ![e] = {}]
        BY <2>3 DEF DeliverPack
      <3>2. Append(standby[e], p.chunk) \in Seq(Nat)
        BY <1>1, <2>1
      <3>3. Left(e) - MDU \in Nat
        BY <3>1, LeftType, SizeAssumption
      <3>4. rflag' \in [End -> SUBSET {"LESS", "MORE"}]
        BY <2>1, <3>1
      <3> QED BY <2>1, <3>1, <3>2, <3>3, <3>4
    <2> QED BY <2>2, <2>3
  <1> QED
    BY <1>2, <1>3 DEF DeliverPack, TypeOK, appVars, sndVars, ackVars

LEMMA DeliverEndType ==
  ASSUME TypeOK, NEW e \in End, DeliverEnd(e)
  PROVE  TypeOK'
  <1>1. /\ rflag \in [End -> SUBSET {"LESS", "MORE"}]
        /\ phase \in [End -> {"recv", "deliver", "swap", "flights", "send"}]
    BY DEF TypeOK
  <1>2. /\ rflag' = rflag \/ rflag' = [rflag EXCEPT ![e] = @ \cup {"LESS"}]
        /\ phase' = [phase EXCEPT ![e] = "swap"]
    BY DEF DeliverEnd
  <1>3. /\ rflag' \in [End -> SUBSET {"LESS", "MORE"}]
        /\ phase' \in [End -> {"recv", "deliver", "swap", "flights", "send"}]
    BY <1>1, <1>2
  <1> QED
    BY <1>3 DEF DeliverEnd, TypeOK, appVars, sndVars, ackVars

LEMMA SwapType ==
  ASSUME TypeOK, NEW e \in End, Swap(e)
  PROVE  TypeOK'
  <1>1. /\ rb \in [End -> Seq(Nat)] /\ standby \in [End -> Seq(Nat)] /\ rcvWnd \in [End -> Nat]
        /\ rflag \in [End -> SUBSET {"LESS", "MORE"}]
        /\ phase \in [End -> {"recv", "deliver", "swap", "flights", "send"}]
    BY DEF TypeOK
  <1>2. /\ rb' = rb \/ rb' = [rb EXCEPT ![e] = standby[e]]
        /\ standby' = standby \/ standby' = [standby EXCEPT ![e] = rb[e]]
        /\ rflag' = rflag \/ rflag' = [rflag EXCEPT ![e] = @ \cup {"MORE"}]
        /\ rcvWnd' = rcvWnd \/ rcvWnd' = [rcvWnd EXCEPT ![e] = RcvCap]
        /\ phase' = [phase EXCEPT ![e] = "flights"]
    BY <1>1 DEF Swap, Swapped
  <1>3. rb' \in [End -> Seq(Nat)] /\ standby' \in [End -> Seq(Nat)]
    <2>1. standby[e] \in Seq(Nat) /\ rb[e] \in Seq(Nat)
      BY <1>1
    <2>2. rb' \in [End -> Seq(Nat)]
      BY <2>1, <1>1, <1>2
    <2>3. standby' \in [End -> Seq(Nat)]
      BY <2>1, <1>1, <1>2
    <2> QED BY <2>2, <2>3
  <1>4. rcvWnd' \in [End -> Nat]
    BY <1>1, <1>2, SizeAssumption
  <1>5. rflag' \in [End -> SUBSET {"LESS", "MORE"}]
    <2>1. rflag[e] \cup {"MORE"} \in SUBSET {"LESS", "MORE"}
      BY <1>1
    <2> QED BY <2>1, <1>1, <1>2
  <1>6. phase' \in [End -> {"recv", "deliver", "swap", "flights", "send"}]
    BY <1>1, <1>2
  <1> QED
    BY <1>3, <1>4, <1>5, <1>6 DEF Swap, TypeOK, appVars, sndVars, ackVars

LEMMA CheckFlightsType ==
  ASSUME TypeOK, NEW e \in End, CheckFlights(e)
  PROVE  TypeOK'
  <1> DEFINE kept == Kept(e)
  <1>1. kept \subseteq DatPacks
    BY DEF TypeOK, Kept
  <1>2. net' \in [End -> SUBSET NetPacks]
    BY <1>1, DatIsCtl, InjectType DEF CheckFlights
  <1> QED
    BY <1>1, <1>2 DEF CheckFlights, TypeOK, appVars, sndVars, rcvVars

LEMMA CtlQueueType ==
  ASSUME TypeOK, NEW e \in End, NEW probe \in BOOLEAN
  PROVE  CtlQueue(e, probe) \in Seq(CtlPacks)
  <1>1. Control("WND", dsn[e], {}) \in CtlPacks
    BY DEF Control, CtlPacks, Kinds, NoChunk, TypeOK
  <1>2. ASSUME ctl[e] # <<>>
        PROVE  [ctl[e] EXCEPT ![1] = WithWnd(@)] \in Seq(CtlPacks)
    <2>1. ctl[e] \in Seq(CtlPacks) /\ 1 \in 1..Len(ctl[e])
      BY <1>2 DEF TypeOK
    <2>2. WithWnd(ctl[e][1]) \in CtlPacks
      <3>1. ctl[e][1] \in CtlPacks
        BY <2>1
      <3> QED BY <3>1 DEF WithWnd, CtlPacks
    <2> QED BY <2>1, <2>2
  <1> QED
    BY <1>1, <1>2 DEF CtlQueue, TypeOK

LEMMA PacketisedType ==
  ASSUME TypeOK, NEW e \in End, NEW j \in 0..Len(sb[e])
  PROVE  /\ Packetised(e, j) \in Seq(DatPacks)
         /\ Len(Packetised(e, j)) = Len(sending[e]) + j
  <1> DEFINE new == [i \in 1..j |-> Dat(dsn[e] + i - 1, sb[e][i])]
  <1>1. sb[e] \in Seq(Nat) /\ dsn[e] \in Nat /\ j \in Nat /\ j <= Len(sb[e])
    BY DEF TypeOK
  <1>2. \A i \in 1..j : Dat(dsn[e] + i - 1, sb[e][i]) \in DatPacks
    BY <1>1 DEF Dat, DatPacks
  <1>3. new \in Seq(DatPacks) /\ Len(new) = j
    BY <1>1, <1>2
  <1> QED
    BY <1>3 DEF TypeOK, Packetised

LEMMA CheckSendType ==
  ASSUME TypeOK, NEW e \in End, CheckSend(e)
  PROVE  TypeOK'
  <1>1. PICK probe \in BOOLEAN :
          LET q0 == CtlQueue(e, probe)
          IN \/ \E k \in 0..(Len(q0) - 1) :
                  /\ ctl' = [ctl EXCEPT ![e] = SubSeq(q0, k + 1, Len(q0))]
                  /\ Inject(e, Elements(SubSeq(q0, 1, k)))
                  /\ UNCHANGED <<sndVars, flights, status>>
             \/ \E j \in 0..Len(sb[e]) : \E i \in 0..(Len(sending[e]) + j) :
                  /\ ctl' = [ctl EXCEPT ![e] = <<>>]
                  /\ Inject(e, Elements(q0) \cup {Packetised(e, j)[x] : x \in 1..i})
                  /\ SendData(e, Packetised(e, j), i, j)
    BY DEF CheckSend
  <1> DEFINE q0 == CtlQueue(e, probe)
  <1>2. q0 \in Seq(CtlPacks)
    BY CtlQueueType
  <1>3. /\ phase' \in [End -> {"recv", "deliver", "swap", "flights", "send"}]
        /\ UNCHANGED <<appVars, ackVars, rcvVars, probes>>
    BY DEF CheckSend, TypeOK
  <1>4. ASSUME NEW k \in 0..(Len(q0) - 1),
               ctl' = [ctl EXCEPT ![e] = SubSeq(q0, k + 1, Len(q0))],
               Inject(e, Elements(SubSeq(q0, 1, k))),
               UNCHANGED <<sndVars, flights, status>>
        PROVE  TypeOK'
    <2>1. SubSeq(q0, k + 1, Len(q0)) \in Seq(CtlPacks) /\ SubSeq(q0, 1, k) \in Seq(CtlPacks)
      BY <1>2, <1>4
    <2>2. Elements(SubSeq(q0, 1, k)) \in SUBSET CtlPacks
      BY <2>1 DEF Elements
    <2>3. net' \in [End -> SUBSET NetPacks]
      BY <2>2, <1>4, InjectType
    <2>4. ctl' \in [End -> Seq(CtlPacks)]
      BY <2>1, <1>4 DEF TypeOK
    <2> QED BY <1>3, <1>4, <2>3, <2>4 DEF TypeOK, appVars, sndVars, ackVars, rcvVars
  <1>5. ASSUME NEW j \in 0..Len(sb[e]), NEW i \in 0..(Len(sending[e]) + j),
               ctl' = [ctl EXCEPT ![e] = <<>>],
               Inject(e, Elements(q0) \cup {Packetised(e, j)[x] : x \in 1..i}),
               SendData(e, Packetised(e, j), i, j)
        PROVE  TypeOK'
    <2> DEFINE q == Packetised(e, j)
    <2>1. q \in Seq(DatPacks) /\ Len(q) = Len(sending[e]) + j
      BY PacketisedType
    <2>2. i \in Nat /\ j \in Nat /\ i <= Len(q) /\ j <= Len(sb[e])
      BY <2>1 DEF TypeOK
    <2>3. {q[x] : x \in 1..i} \in SUBSET DatPacks
      BY <2>1, <2>2
    <2>4. Elements(q0) \in SUBSET CtlPacks
      BY <1>2 DEF Elements
    <2>5. net' \in [End -> SUBSET NetPacks]
      BY <2>3, <2>4, <1>5, DatIsCtl, InjectType
    <2>6. ctl' \in [End -> Seq(CtlPacks)]
      BY <1>5 DEF TypeOK
    <2>7. SubSeq(q, i + 1, Len(q)) \in Seq(DatPacks) /\ SubSeq(sb[e], j + 1, Len(sb[e])) \in Seq(Nat)
      <3>1. sb[e] \in Seq(Nat)
        BY DEF TypeOK
      <3> HIDE DEF q
      <3> QED BY <2>1, <2>2, <3>1
    <2>8. /\ sending' \in [End -> Seq(DatPacks)] /\ sb' \in [End -> Seq(Nat)]
          /\ dsn' \in [End -> Nat] /\ next' \in [End -> Nat]
          /\ flights' \in [End -> SUBSET DatPacks]
          /\ status' \in [End -> {"up", "rcverr", "snderr", "assert"}]
      <3>1. /\ sending' = [sending EXCEPT ![e] = SubSeq(q, i + 1, Len(q))]
            /\ sb' = [sb EXCEPT ![e] = SubSeq(@, j + 1, Len(@))]
            /\ dsn' = [dsn EXCEPT ![e] = @ + j]
            /\ next' = [next EXCEPT ![e] = @ + i]
            /\ flights' = [flights EXCEPT ![e] = @ \cup {q[x] : x \in 1..i}]
            /\ status' = status \/ status' = [status EXCEPT ![e] = "assert"]
        BY <1>5 DEF SendData
      <3>2. /\ sending \in [End -> Seq(DatPacks)] /\ sb \in [End -> Seq(Nat)]
            /\ dsn \in [End -> Nat] /\ next \in [End -> Nat]
            /\ flights \in [End -> SUBSET DatPacks]
            /\ status \in [End -> {"up", "rcverr", "snderr", "assert"}]
        BY DEF TypeOK
      <3> HIDE DEF q
      <3>3. flights[e] \cup {q[x] : x \in 1..i} \in SUBSET DatPacks
        BY <2>3, <3>2
      <3>4. flights' \in [End -> SUBSET DatPacks] /\ sending' \in [End -> Seq(DatPacks)]
        BY <3>1, <3>2, <3>3, <2>7
      <3>5. sb' \in [End -> Seq(Nat)] /\ status' \in [End -> {"up", "rcverr", "snderr", "assert"}]
        BY <3>1, <3>2, <2>7
      <3>6. dsn' \in [End -> Nat] /\ next' \in [End -> Nat]
        BY <3>1, <3>2, <2>2
      <3> QED BY <3>4, <3>5, <3>6
    <2> QED BY <1>3, <2>5, <2>6, <2>8 DEF TypeOK, appVars, ackVars, rcvVars
  <1> QED BY <1>1, <1>4, <1>5

LEMMA FaultsType ==
  ASSUME TypeOK, NEW e \in End, SocketError(e) \/ Lose(e)
  PROVE  TypeOK'
  <1>1. CASE SocketError(e)
    <2>1. status' \in [End -> {"up", "rcverr", "snderr", "assert"}]
      BY <1>1 DEF SocketError, TypeOK
    <2> QED BY <1>1, <2>1 DEF SocketError, TypeOK, appVars, sndVars, ackVars, rcvVars
  <1>2. CASE Lose(e)
    <2>1. net' \in [End -> SUBSET NetPacks]
      <3>1. net \in [End -> SUBSET NetPacks]
        BY DEF TypeOK
      <3>2. PICK m \in net[e] : net' = [net EXCEPT ![e] = @ \ {m}]
        BY <1>2 DEF Lose
      <3> QED BY <3>1, <3>2
    <2> QED BY <1>2, <2>1 DEF Lose, TypeOK, appVars, sndVars, ackVars, rcvVars
  <1> QED BY <1>1, <1>2

LEMMA StepType == TypeOK /\ [Step]_vars => TypeOK'
  <1> SUFFICES ASSUME TypeOK, [Step]_vars PROVE TypeOK'
    OBVIOUS
  <1>1. CASE UNCHANGED vars
    BY <1>1 DEF TypeOK, vars, appVars, sndVars, ackVars, rcvVars
  <1>2. CASE Step
    BY <1>2, SendType, RecvType, CheckRecvType, CheckRecvIdleType, DeliverPackType,
       DeliverEndType, SwapType, CheckFlightsType, CheckSendType, FaultsType DEF Step
  <1> QED BY <1>1, <1>2

(* Every state the data path reaches is well typed: in particular check_recv *)
(* never advertises a negative window (rb_standby is never overfilled) and   *)
(* never counts more probes than keepalive_vals.probes.                      *)
THEOREM TypeCorrect == Spec => []TypeOK
  BY InitType, StepType, PTL DEF Spec, Next

-----------------------------------------------------------------------------
(* Nothing that was sent is forgotten.  The invariant that carries the     *)
(* induction adds to Reliable the soundness of every acknowledgement in    *)
(* existence (AckSound) and the shape of the two queues the assertions of  *)
(* check_send and check_recv speak of.                                     *)
Inv == TypeOK /\ AckSound /\ Reliable /\ Consecutive /\ ReceivedAhead

LEMMA InitInv == Init => Inv
  <1> SUFFICES ASSUME Init PROVE Inv
    OBVIOUS
  <1>1. TypeOK
    BY InitType
  <1>2. \A e \in End : FirstSeq(e) \in Nat
    BY DEF FirstSeq
  <1>3. AckSound
    BY <1>2, PeerFacts DEF Init, AckSound
  <1>4. Reliable /\ Consecutive /\ ReceivedAhead
    BY <1>2, PeerFacts DEF Init, Reliable, Consecutive, ReceivedAhead
  <1> QED BY <1>1, <1>3, <1>4 DEF Inv

LEMMA SeqNumbers == TypeOK => \A e \in End : FirstSeq(e)..(next[e] - 1) \subseteq Nat
  <1> SUFFICES ASSUME TypeOK, NEW e \in End PROVE FirstSeq(e)..(next[e] - 1) \subseteq Nat
    OBVIOUS
  <1>1. FirstSeq(e) \in Nat /\ next[e] \in Nat
    BY DEF TypeOK, FirstSeq
  <1> QED BY <1>1

LEMMA SacksInNat ==
  ASSUME TypeOK
  PROVE  \A e \in End : /\ \A m \in net[e] : m.ack \in Nat /\ m.seq \in Nat /\ m.sacks \subseteq Nat
                        /\ \A i \in 1..Len(ctl[e]) : ctl[e][i].sacks \subseteq Nat
  <1> SUFFICES ASSUME NEW e \in End
               PROVE  /\ \A m \in net[e] : m.ack \in Nat /\ m.seq \in Nat /\ m.sacks \subseteq Nat
                      /\ \A i \in 1..Len(ctl[e]) : ctl[e][i].sacks \subseteq Nat
    OBVIOUS
  <1>1. net[e] \subseteq NetPacks
    BY DEF TypeOK
  <1>2. \A i \in 1..Len(ctl[e]) : ctl[e][i] \in CtlPacks
    BY DEF TypeOK
  <1>3. \A m \in net[e] : m.ack \in Nat /\ m.seq \in Nat /\ m.sacks \subseteq Nat
    BY <1>1 DEF NetPacks
  <1> QED BY <1>2, <1>3 DEF CtlPacks

(* The replies to a batch acknowledge nothing but the batch. *)
LEMMA RepliesSacks ==
  ASSUME NEW e, NEW batch, NEW i \in 1..Len(Replies(e, batch))
  PROVE  Replies(e, batch)[i].sacks \subseteq Seqs({b \in batch : InSeqSpace(b)})
  <1> DEFINE acked == Seqs({b \in batch : InSeqSpace(b)})
             K == Control("KEEP_ALIVE_REPLY", dsn[e], {})
             S == Control("SACK", dsn[e], acked)
  <1>1. K.sacks \subseteq acked /\ S.sacks \subseteq acked
    BY DEF Control
  <1>2. \/ Replies(e, batch) = <<>> \o <<>> \/ Replies(e, batch) = <<K>> \o <<>>
        \/ Replies(e, batch) = <<>> \o <<S>> \/ Replies(e, batch) = <<K>> \o <<S>>
    BY DEF Replies
  <1> HIDE DEF K, S, acked
  <1>3. Replies(e, batch)[i] = K \/ Replies(e, batch)[i] = S
    BY <1>2
  <1> QED BY <1>1, <1>3 DEF acked

(* Steps that leave the receiving side and all acknowledgements alone.     *)
LEMMA FrameInv ==
  ASSUME Inv, TypeOK',
         UNCHANGED <<dsn, next, una, sending, flights, ctl, rcvNext, rcvd>>,
         \A e \in End : net'[e] \subseteq net[e]
  PROVE  Inv'
  <1>1. AckSound'
    BY PeerFacts DEF Inv, AckSound, Got
  <1>2. Reliable' /\ Consecutive' /\ ReceivedAhead'
    BY DEF Inv, Reliable, Consecutive, ReceivedAhead, Got
  <1> QED BY <1>1, <1>2 DEF Inv

LEMMA CheckRecvInv ==
  ASSUME Inv, TypeOK', NEW e \in End, NEW batch \in SUBSET net[e], NEW again \in SUBSET batch,
         CheckRecv(e, batch, again)
  PROVE  Inv'
  <1> DEFINE f == Peer(e)
             acked == Seqs({b \in batch : InSeqSpace(b)})
  <1>1. f \in End /\ f # e /\ Peer(f) = e /\ \A x \in End : x = e \/ x = f
    BY PeerFacts DEF End, Peer
  <1>2. TypeOK /\ AckSound /\ Reliable /\ Consecutive /\ ReceivedAhead
    BY DEF Inv
  <1>3. batch \subseteq NetPacks
    BY <1>2 DEF TypeOK
  <1>4. PICK top \in {una[e]} \cup {m.ack : m \in batch} :
          LET sacked == UNION {m.sacks : m \in batch}
          IN /\ una' = [una EXCEPT ![e] = top]
             /\ flights' = [flights EXCEPT ![e] = {p \in @ : p.seq < top \/ p.seq \notin sacked}]
    <2>1. flights \in [End -> SUBSET DatPacks]
      BY <1>2 DEF TypeOK
    <2> QED BY <2>1 DEF CheckRecv, HandleAcks, Unsacked
  <1>5. PICK new \in SUBSET Fresh(e, batch) :
          /\ Seqs(new) = Seqs(Fresh(e, batch))
          /\ \A p, q \in new : p.seq = q.seq => p = q
          /\ rcvd' = [rcvd EXCEPT ![e] = @ \cup new]
    BY DEF CheckRecv, Insert
  <1>6. /\ ctl' = [ctl EXCEPT ![e] = @ \o Replies(e, batch)]
        /\ net' = [net EXCEPT ![e] = (@ \ batch) \cup again]
        /\ UNCHANGED <<dsn, next, sending, rcvNext>>
    BY DEF CheckRecv, sndVars
  <1>7. rcvd'[e] = rcvd[e] \cup new /\ rcvd'[f] = rcvd[f]
    BY <1>1, <1>2, <1>5 DEF TypeOK
  <1>8. \A x \in End : \A s \in Nat : Got(x, s) => Got(x, s)'
    BY <1>1, <1>6, <1>7 DEF Got, Seqs
  <1>9. \A s \in acked : Got(f, s)'
    <2> SUFFICES ASSUME NEW m \in batch, InSeqSpace(m) PROVE Got(f, m.seq)'
      BY DEF Seqs
    <2>1. CASE m.seq < rcvNext[e]
      BY <2>1, <1>1, <1>6 DEF Got
    <2>2. CASE m.seq >= rcvNext[e] /\ m.seq \notin Seqs(rcvd[e])
      <3>1. m.seq \in Seqs(Fresh(e, batch))
        <4>1. [seq |-> m.seq, chunk |-> m.chunk] \in Fresh(e, batch)
          BY <2>2 DEF Fresh
        <4> QED BY <4>1 DEF Seqs
      <3>2. m.seq \in Seqs(new)
        BY <3>1, <1>5
      <3> QED BY <3>2, <1>1, <1>7 DEF Got, Seqs
    <2>3. CASE m.seq \in Seqs(rcvd[e])
      BY <2>3, <1>1, <1>7 DEF Got, Seqs
    <2>4. m.seq \in Nat /\ rcvNext[e] \in Nat
      BY <1>2, <1>3 DEF TypeOK, NetPacks
    <2> QED BY <2>1, <2>2, <2>3, <2>4
  <1>10. \A i \in 1..Len(ctl'[e]) : \A s \in ctl'[e][i].sacks : Got(f, s)'
    <2> DEFINE r == Replies(e, batch)
    <2>1. \A i \in 1..Len(ctl[e]) : \A s \in ctl[e][i].sacks : s \in Nat /\ Got(f, s)
      BY <1>1, <1>2, SacksInNat DEF AckSound
    <2>2. \A i \in 1..Len(r) : r[i].sacks \subseteq acked
      BY RepliesSacks
    <2>3. ctl'[e] = ctl[e] \o r
      BY <1>2, <1>6 DEF TypeOK
    <2>4. r \in Seq({Control("SACK", dsn[e], acked), Control("KEEP_ALIVE_REPLY", dsn[e], {})})
      <3> DEFINE K == Control("KEEP_ALIVE_REPLY", dsn[e], {})
                 S == Control("SACK", dsn[e], acked)
      <3>1. \/ r = <<>> \o <<>> \/ r = <<K>> \o <<>> \/ r = <<>> \o <<S>> \/ r = <<K>> \o <<S>>
        BY DEF Replies
      <3> HIDE DEF K, S, r
      <3>2. r \in Seq({S, K})
        <4>1. <<>> \in Seq({S, K}) /\ <<S>> \in Seq({S, K}) /\ <<K>> \in Seq({S, K})
          OBVIOUS
        <4>2. \A u, v \in Seq({S, K}) : u \o v \in Seq({S, K})
          OBVIOUS
        <4> HIDE DEF r
        <4> QED BY <3>1, <4>1, <4>2
      <3> QED BY <3>2 DEF K, S
    <2>5. ctl[e] \in Seq(CtlPacks)
      BY <1>2 DEF TypeOK
    <2> HIDE DEF r
    <2>6. \A i \in 1..Len(ctl'[e]) :
            \/ i \in 1..Len(ctl[e]) /\ ctl'[e][i] = ctl[e][i]
            \/ i - Len(ctl[e]) \in 1..Len(r) /\ ctl'[e][i] = r[i - Len(ctl[e])]
      BY <2>3, <2>4, <2>5
    <2> QED BY <2>1, <2>2, <2>6, <1>8, <1>9, <1>1
  <1>11. AckSound'
    <2>1. top <= rcvNext[f] /\ top \in Nat
      <3>1. una[e] <= rcvNext[f] /\ una[e] \in Nat
        BY <1>2 DEF AckSound, TypeOK
      <3>2. \A m \in batch : m.ack <= rcvNext[f] /\ m.ack \in Nat
        BY <1>2, SacksInNat DEF AckSound
      <3> QED BY <3>1, <3>2
    <2>2. una'[e] <= rcvNext'[f] /\ una'[f] <= rcvNext'[e]
      BY <2>1, <1>1, <1>2, <1>4, <1>6 DEF AckSound, TypeOK
    <2>3. ASSUME NEW x \in End, NEW m \in net'[x]
          PROVE  m.ack <= rcvNext'[Peer(x)] /\ \A s \in m.sacks : Got(x, s)'
      <3>1. m \in net[x]
        BY <1>2, <1>6 DEF TypeOK
      <3>2. m.sacks \subseteq Nat
        BY <3>1, <1>2, SacksInNat
      <3> QED BY <3>1, <3>2, <1>2, <1>6, <1>8 DEF AckSound
    <2>4. \A i \in 1..Len(ctl'[f]) : \A s \in ctl'[f][i].sacks : Got(e, s)'
      <3>1. ctl'[f] = ctl[f] /\ ctl[f] \in Seq(CtlPacks)
        BY <1>1, <1>2, <1>6 DEF TypeOK
      <3>2. \A i \in 1..Len(ctl[f]) : \A s \in ctl[f][i].sacks : s \in Nat /\ Got(e, s)
        BY <1>1, <1>2, SacksInNat DEF AckSound
      <3> QED BY <3>1, <3>2, <1>8
    <2> QED BY <2>2, <2>3, <2>4, <1>1, <1>10 DEF AckSound
  <1>12. Reliable'
    <2> SUFFICES ASSUME NEW x \in End, NEW s \in FirstSeq(x)..(next[x] - 1)
                 PROVE  (\E p \in flights'[x] : p.seq = s) \/ Got(x, s)'
      BY <1>6 DEF Reliable
    <2>1. s \in Nat
      BY <1>2, SeqNumbers
    <2>2. CASE Got(x, s)
      BY <2>1, <2>2, <1>8
    <2>3. CASE x = f
      BY <2>1, <2>3, <1>1, <1>2, <1>4, <1>8 DEF Reliable, TypeOK
    <2>4. ASSUME x = e, NEW p \in flights[e], p.seq = s
          PROVE  (\E q \in flights'[x] : q.seq = s) \/ Got(x, s)'
      <3>1. CASE \E m \in batch : s \in m.sacks
        <4>1. Got(e, s)
          BY <3>1, <1>2 DEF AckSound
        <4> QED BY <4>1, <2>1, <2>4, <1>8
      <3>2. CASE ~ \E m \in batch : s \in m.sacks
        <4>1. p.seq \notin UNION {m.sacks : m \in batch}
          BY <3>2, <2>4
        <4>2. flights \in [End -> SUBSET DatPacks]
          BY <1>2 DEF TypeOK
        <4>3. p \in flights'[e]
          BY <4>1, <4>2, <2>4, <1>4
        <4> QED BY <4>3, <2>4
      <3> QED BY <3>1, <3>2
    <2> QED BY <2>2, <2>3, <2>4, <1>1, <1>2 DEF Reliable
  <1>13. Consecutive'
    BY <1>2, <1>6 DEF Consecutive
  <1>14. ReceivedAhead'
    <2>1. \A p \in new : p.seq >= rcvNext[e] /\ p.seq \notin Seqs(rcvd[e])
      BY DEF Fresh
    <2> QED BY <2>1, <1>1, <1>2, <1>5, <1>6, <1>7 DEF ReceivedAhead, Seqs
  <1> QED BY <1>11, <1>12, <1>13, <1>14 DEF Inv

LEMMA CheckRecvIdleInv ==
  ASSUME Inv, TypeOK', NEW e \in End, CheckRecvIdle(e)
  PROVE  Inv'
  <1> DEFINE K == Control("KEEP_ALIVE", dsn[e], {})
  <1>1. /\ ctl' = ctl \/ ctl' = [ctl EXCEPT ![e] = Append(@, K)]
        /\ UNCHANGED <<dsn, next, una, sending, flights, rcvNext, rcvd, net>>
    BY DEF CheckRecvIdle, sndVars, ackVars, rcvVars
  <1>2. K.sacks = {}
    BY DEF Control
  <1> HIDE DEF K
  <1>3. ASSUME NEW x \in End, NEW i \in 1..Len(ctl'[x])
        PROVE  (i \in 1..Len(ctl[x]) /\ ctl'[x][i] = ctl[x][i]) \/ ctl'[x][i] = K
    <2>1. ctl \in [End -> Seq(CtlPacks)]
      BY DEF Inv, TypeOK
    <2>2. ctl'[x] = ctl[x] \/ ctl'[x] = Append(ctl[x], K)
      BY <1>1, <2>1
    <2> QED BY <2>1, <2>2
  <1>4. AckSound'
    BY <1>1, <1>2, <1>3, PeerFacts DEF Inv, AckSound, Got
  <1>5. Reliable' /\ Consecutive' /\ ReceivedAhead'
    BY <1>1 DEF Inv, Reliable, Consecutive, ReceivedAhead, Got
  <1> QED BY <1>4, <1>5 DEF Inv

LEMMA DeliverPackInv ==
  ASSUME Inv, TypeOK', NEW e \in End, NEW p \in rcvd[e], DeliverPack(e, p)
  PROVE  Inv'
  <1>1. TypeOK /\ AckSound /\ Reliable /\ Consecutive /\ ReceivedAhead
    BY DEF Inv
  <1>2. /\ rcvNext' = [rcvNext EXCEPT ![e] = @ + 1]
        /\ rcvd' = [rcvd EXCEPT ![e] = @ \ {p}]
        /\ p.seq = rcvNext[e]
        /\ UNCHANGED <<dsn, next, una, sending, flights, ctl, net>>
    BY DEF DeliverPack, InTurn, sndVars, ackVars
  <1>3. rcvNext \in [End -> Nat] /\ rcvd \in [End -> SUBSET [seq : Nat, chunk : Nat]]
    BY <1>1 DEF TypeOK
  <1>4. \A x \in End : rcvNext[x] <= rcvNext'[x]
    BY <1>2, <1>3
  <1>5. \A x \in End : \A s \in Nat : Got(x, s) => Got(x, s)'
    <2> SUFFICES ASSUME NEW x \in End, NEW s \in Nat, Got(x, s) PROVE Got(x, s)'
      OBVIOUS
    <2>1. CASE s < rcvNext[Peer(x)]
      BY <2>1, <1>3, <1>4, <1>2, PeerFacts DEF Got
    <2>2. CASE s \in Seqs(rcvd[Peer(x)]) /\ Peer(x) # e
      BY <2>2, <1>2, <1>3, PeerFacts DEF Got
    <2>3. ASSUME Peer(x) = e, NEW q \in rcvd[e], q.seq = s
          PROVE  Got(x, s)'
      <3>1. CASE q = p
        BY <3>1, <2>3, <1>2, <1>3 DEF Got
      <3>2. CASE q # p
        BY <3>2, <2>3, <1>2, <1>3 DEF Got, Seqs
      <3> QED BY <3>1, <3>2
    <2> QED BY <2>1, <2>2, <2>3 DEF Got, Seqs
  <1>6. AckSound'
    <2>1. \A x \in End : una'[x] <= rcvNext'[Peer(x)]
      <3> SUFFICES ASSUME NEW x \in End PROVE una[x] <= rcvNext'[Peer(x)]
        BY <1>2
      <3>1. una[x] \in Nat /\ rcvNext[Peer(x)] \in Nat /\ rcvNext'[Peer(x)] \in Nat
        BY <1>1, <1>2, <1>3, PeerFacts DEF TypeOK
      <3> QED BY <3>1, <1>1, <1>4, PeerFacts DEF AckSound
    <2>2. ASSUME NEW x \in End, NEW m \in net[x]
          PROVE  m.ack <= rcvNext'[Peer(x)] /\ \A s \in m.sacks : Got(x, s)'
      <3>1. m.ack \in Nat /\ m.sacks \subseteq Nat
        BY <1>1, SacksInNat
      <3>2. rcvNext[Peer(x)] \in Nat /\ rcvNext'[Peer(x)] \in Nat
        BY <1>2, <1>3, PeerFacts
      <3> QED BY <3>1, <3>2, <1>1, <1>4, <1>5, PeerFacts DEF AckSound
    <2>3. \A x \in End : \A i \in 1..Len(ctl[Peer(x)]) : \A s \in ctl[Peer(x)][i].sacks : Got(x, s)'
      BY <1>1, <1>5, SacksInNat, PeerFacts DEF AckSound
    <2> QED BY <2>1, <2>2, <2>3, <1>2 DEF AckSound
  <1>7. Reliable'
    BY <1>1, <1>2, <1>5, SeqNumbers DEF Reliable
  <1>8. Consecutive'
    BY <1>1, <1>2 DEF Consecutive
  <1>9. ReceivedAhead'
    <2> SUFFICES ASSUME NEW x \in End, NEW q \in rcvd'[x]
                 PROVE  q.seq >= rcvNext'[x] /\ \A r \in rcvd'[x] : r.seq = q.seq => r = q
      BY DEF ReceivedAhead
    <2>1. q \in rcvd[x] /\ \A r \in rcvd'[x] : r \in rcvd[x]
      BY <1>2, <1>3
    <2>2. CASE x # e
      BY <2>1, <2>2, <1>1, <1>2, <1>3 DEF ReceivedAhead
    <2>3. CASE x = e
      <3>1. q # p /\ q.seq # rcvNext[e] /\ q.seq \in Nat
        BY <2>1, <2>3, <1>1, <1>2, <1>3 DEF ReceivedAhead
      <3> QED BY <3>1, <2>1, <2>3, <1>1, <1>2, <1>3 DEF ReceivedAhead
    <2> QED BY <2>2, <2>3
  <1> QED BY <1>6, <1>7, <1>8, <1>9 DEF Inv

(* What goes out keeps AckSound: the ack is the current one, and what it    *)
(* selectively acknowledges is there.                                      *)
LEMMA InjectAcks ==
  ASSUME Inv, NEW e \in End, NEW packs \in SUBSET CtlPacks, Inject(e, packs),
         \A p \in packs : \A s \in p.sacks : Got(Peer(e), s),
         UNCHANGED <<rcvNext, rcvd>>
  PROVE  \A x \in End : \A m \in net'[x] :
            m.ack <= rcvNext'[Peer(x)] /\ \A s \in m.sacks : Got(x, s)'
  <1> SUFFICES ASSUME NEW x \in End, NEW m \in net'[x]
               PROVE  m.ack <= rcvNext'[Peer(x)] /\ \A s \in m.sacks : Got(x, s)'
    OBVIOUS
  <1>1. net' = [net EXCEPT ![Peer(e)] = @ \cup {SendPack(e, p) : p \in packs}]
    BY DEF Inject
  <1>2. net \in [End -> SUBSET NetPacks] /\ rcvNext \in [End -> Nat]
    BY DEF Inv, TypeOK
  <1>3. CASE m \in net[x]
    BY <1>3 DEF Inv, AckSound, Got
  <1>4. ASSUME x = Peer(e), NEW p \in packs, m = SendPack(e, p)
        PROVE  m.ack <= rcvNext'[Peer(x)] /\ \A s \in m.sacks : Got(x, s)'
    <2>1. m.ack = rcvNext[e] /\ m.sacks = p.sacks /\ Peer(x) = e
      BY <1>4, PeerFacts DEF SendPack
    <2> QED BY <2>1, <1>2, <1>4 DEF Got
  <1> QED BY <1>1, <1>2, <1>3, <1>4

LEMMA CheckFlightsInv ==
  ASSUME Inv, TypeOK', NEW e \in End, CheckFlights(e)
  PROVE  Inv'
  <1> DEFINE kept == Kept(e)
  <1>1. TypeOK /\ AckSound /\ Reliable /\ Consecutive /\ ReceivedAhead
    BY DEF Inv
  <1>2. /\ flights' = [flights EXCEPT ![e] = kept]
        /\ UNCHANGED <<dsn, next, una, sending, ctl, rcvNext, rcvd>>
    BY DEF CheckFlights, sndVars, rcvVars
  <1>3. PICK due \in SUBSET kept : Inject(e, due)
    BY DEF CheckFlights
  <1>4. flights \in [End -> SUBSET DatPacks] /\ una \in [End -> Nat] /\ rcvNext \in [End -> Nat]
    BY <1>1 DEF TypeOK
  <1>5. due \subseteq DatPacks
    BY <1>4 DEF Kept
  <1>6. \A p \in due : \A s \in p.sacks : Got(Peer(e), s)
    BY <1>5 DEF DatPacks
  <1>7. AckSound'
    <2>1. \A x \in End : \A m \in net'[x] :
            m.ack <= rcvNext'[Peer(x)] /\ \A s \in m.sacks : Got(x, s)'
      BY <1>2, <1>3, <1>5, <1>6, DatIsCtl, InjectAcks
    <2> QED BY <2>1, <1>1, <1>2 DEF AckSound, Got
  <1>8. Reliable'
    <2> SUFFICES ASSUME NEW x \in End, NEW s \in FirstSeq(x)..(next[x] - 1)
                 PROVE  (\E p \in flights'[x] : p.seq = s) \/ Got(x, s)'
      BY <1>2 DEF Reliable
    <2>1. CASE Got(x, s)
      BY <2>1, <1>2 DEF Got
    <2>2. CASE x # e
      BY <2>2, <1>1, <1>2, <1>4 DEF Reliable, Got
    <2>3. ASSUME x = e, NEW p \in flights[e], p.seq = s
          PROVE  (\E q \in flights'[x] : q.seq = s) \/ Got(x, s)'
      <3>1. CASE p \in kept
        BY <3>1, <2>3, <1>2, <1>4
      <3>2. CASE p \notin kept
        <4>1. s \in Nat
          BY <1>1, SeqNumbers
        <4>2. s < una[e]
          BY <4>1, <3>2, <2>3, <1>4 DEF Kept
        <4>3. una[e] <= rcvNext[Peer(e)] /\ rcvNext[Peer(e)] \in Nat
          BY <1>1, <1>4, PeerFacts DEF AckSound
        <4>4. s < rcvNext[Peer(e)]
          BY <4>1, <4>2, <4>3, <1>4
        <4> QED BY <4>4, <2>3, <1>2 DEF Got
      <3> QED BY <3>1, <3>2
    <2> QED BY <2>1, <2>2, <2>3, <1>1 DEF Reliable
  <1>9. Consecutive' /\ ReceivedAhead'
    BY <1>1, <1>2 DEF Consecutive, ReceivedAhead
  <1> QED BY <1>7, <1>8, <1>9 DEF Inv

(* Putting chunks into packs keeps the queue consecutive. *)
LEMMA PacketisedConsecutive ==
  ASSUME TypeOK, Consecutive, NEW e \in End, NEW j \in 0..Len(sb[e])
  PROVE  \A i \in 1..Len(Packetised(e, j)) : Packetised(e, j)[i].seq = next[e] + i - 1
  <1> DEFINE new == [i \in 1..j |-> Dat(dsn[e] + i - 1, sb[e][i])]
  <1>1. /\ dsn[e] \in Nat /\ next[e] \in Nat /\ j \in Nat /\ sending[e] \in Seq(DatPacks)
        /\ dsn[e] = next[e] + Len(sending[e])
        /\ \A i \in 1..Len(sending[e]) : sending[e][i].seq = next[e] + i - 1
    <2>1. dsn[e] \in Nat /\ next[e] \in Nat /\ sending[e] \in Seq(DatPacks) /\ sb[e] \in Seq(Nat)
      BY DEF TypeOK
    <2>2. j \in Nat
      BY <2>1
    <2>3. /\ dsn[e] = next[e] + Len(sending[e])
          /\ \A i \in 1..Len(sending[e]) : sending[e][i].seq = next[e] + i - 1
      BY DEF Consecutive
    <2> QED BY <2>1, <2>2, <2>3
  <1>2. \A i \in 1..j : new[i].seq = dsn[e] + i - 1
    BY DEF Dat
  <1>3. Len(new) = j /\ new \in Seq(DatPacks)
    <2>1. sb[e] \in Seq(Nat) /\ dsn[e] \in Nat /\ j \in Nat /\ j <= Len(sb[e])
      BY DEF TypeOK
    <2>2. \A i \in 1..j : Dat(dsn[e] + i - 1, sb[e][i]) \in DatPacks
      BY <2>1 DEF Dat, DatPacks
    <2> QED BY <1>1, <2>2
  <1>4. Packetised(e, j) = sending[e] \o new
    BY DEF Packetised
  <1> HIDE DEF new
  <1>5. \A i \in 1..Len(Packetised(e, j)) :
          \/ i \in 1..Len(sending[e]) /\ Packetised(e, j)[i] = sending[e][i]
          \/ i - Len(sending[e]) \in 1..j /\ Packetised(e, j)[i] = new[i - Len(sending[e])]
    BY <1>1, <1>3, <1>4
  <1>6. SUFFICES ASSUME NEW i \in 1..Len(Packetised(e, j))
                 PROVE  Packetised(e, j)[i].seq = next[e] + i - 1
    OBVIOUS
  <1>7. CASE i \in 1..Len(sending[e]) /\ Packetised(e, j)[i] = sending[e][i]
    BY <1>1, <1>7
  <1>8. CASE i - Len(sending[e]) \in 1..j /\ Packetised(e, j)[i] = new[i - Len(sending[e])]
    <2>1. new[i - Len(sending[e])].seq = dsn[e] + (i - Len(sending[e])) - 1
      BY <1>2, <1>8
    <2>2. i \in Int /\ Len(sending[e]) \in Nat
      BY <1>1
    <2>3. dsn[e] + (i - Len(sending[e])) - 1 = next[e] + i - 1
      BY <1>1, <2>2
    <2> QED BY <1>8, <2>1, <2>3
  <1> QED BY <1>5, <1>7, <1>8

(* The control packs of a pass acknowledge what is there. *)
LEMMA CtlQueueSacks ==
  ASSUME Inv, NEW e \in End, NEW probe \in BOOLEAN,
         NEW i \in 1..Len(CtlQueue(e, probe))
  PROVE  \A s \in CtlQueue(e, probe)[i].sacks : Got(Peer(e), s)
  <1>1. \A x \in 1..Len(ctl[e]) : \A s \in ctl[e][x].sacks : Got(Peer(e), s)
    BY PeerFacts DEF Inv, AckSound
  <1>2. ctl[e] \in Seq(CtlPacks)
    BY DEF Inv, TypeOK
  <1>3. CASE ~probe
    BY <1>1, <1>3 DEF CtlQueue
  <1>4. CASE probe /\ ctl[e] = <<>>
    <2> DEFINE W == Control("WND", dsn[e], {})
    <2>1. W.sacks = {} /\ CtlQueue(e, probe) = <<W>>
      BY <1>4 DEF CtlQueue, Control
    <2> HIDE DEF W
    <2>2. CtlQueue(e, probe)[i] = W
      BY <2>1
    <2> QED BY <2>1, <2>2
  <1>5. CASE probe /\ ctl[e] # <<>>
    <2>1. CtlQueue(e, probe) = [ctl[e] EXCEPT ![1] = WithWnd(@)]
      BY <1>5 DEF CtlQueue
    <2>2. WithWnd(ctl[e][1]).sacks = ctl[e][1].sacks
      BY DEF WithWnd
    <2>3. i \in 1..Len(ctl[e]) /\ 1 \in 1..Len(ctl[e])
      BY <2>1, <1>2, <1>5
    <2>4. CtlQueue(e, probe)[i].sacks = ctl[e][i].sacks
      BY <2>1, <2>2, <2>3, <1>2
    <2> QED BY <2>3, <2>4, <1>1
  <1> QED BY <1>3, <1>4, <1>5

LEMMA CheckSendInv ==
  ASSUME Inv, TypeOK', NEW e \in End, CheckSend(e)
  PROVE  Inv'
  <1>1. PICK probe \in BOOLEAN :
          LET q0 == CtlQueue(e, probe)
          IN \/ \E k \in 0..(Len(q0) - 1) :
                  /\ ctl' = [ctl EXCEPT ![e] = SubSeq(q0, k + 1, Len(q0))]
                  /\ Inject(e, Elements(SubSeq(q0, 1, k)))
                  /\ UNCHANGED <<sndVars, flights, status>>
             \/ \E j \in 0..Len(sb[e]) : \E i \in 0..(Len(sending[e]) + j) :
                  /\ ctl' = [ctl EXCEPT ![e] = <<>>]
                  /\ Inject(e, Elements(q0) \cup {Packetised(e, j)[x] : x \in 1..i})
                  /\ SendData(e, Packetised(e, j), i, j)
    BY DEF CheckSend
  <1> DEFINE q0 == CtlQueue(e, probe)
  <1>2. TypeOK /\ AckSound /\ Reliable /\ Consecutive /\ ReceivedAhead
    BY DEF Inv
  <1>3. q0 \in Seq(CtlPacks)
    BY <1>2, CtlQueueType
  <1>4. UNCHANGED <<una, rcvNext, rcvd>>
    BY DEF CheckSend, ackVars, rcvVars
  <1>5. \A i \in 1..Len(q0) : \A s \in q0[i].sacks : Got(Peer(e), s)
    BY CtlQueueSacks
  <1>6. ReceivedAhead'
    BY <1>2, <1>4 DEF ReceivedAhead
  <1>7. ctl \in [End -> Seq(CtlPacks)]
    BY <1>2 DEF TypeOK
  <1> HIDE DEF q0
  <1>8. ASSUME NEW k \in 0..(Len(q0) - 1),
               ctl' = [ctl EXCEPT ![e] = SubSeq(q0, k + 1, Len(q0))],
               Inject(e, Elements(SubSeq(q0, 1, k))),
               UNCHANGED <<sndVars, flights, status>>
        PROVE  Inv'
    <2>1. \A x \in 1..k : x \in 1..Len(q0) /\ SubSeq(q0, 1, k)[x] = q0[x]
      BY <1>3
    <2>2. Len(SubSeq(q0, 1, k)) = k
      BY <1>3
    <2>3. /\ Elements(SubSeq(q0, 1, k)) \in SUBSET CtlPacks
          /\ \A p \in Elements(SubSeq(q0, 1, k)) : \A s \in p.sacks : Got(Peer(e), s)
      BY <2>1, <2>2, <1>3, <1>5 DEF Elements
    <2>4. \A x \in End : \A m \in net'[x] :
            m.ack <= rcvNext'[Peer(x)] /\ \A s \in m.sacks : Got(x, s)'
      BY <2>3, <1>4, <1>8, InjectAcks
    <2>5. \A i \in 1..Len(ctl'[e]) : \E x \in 1..Len(q0) : ctl'[e][i] = q0[x]
      <3>1. ctl'[e] = SubSeq(q0, k + 1, Len(q0))
        BY <1>7, <1>8
      <3>2. Len(ctl'[e]) = Len(q0) - k
        BY <3>1, <1>3
      <3>3. \A i \in 1..Len(ctl'[e]) : k + i \in 1..Len(q0) /\ ctl'[e][i] = q0[k + i]
        BY <3>1, <3>2, <1>3
      <3> QED BY <3>3
    <2>6. \A x \in End : x # e => ctl'[x] = ctl[x]
      BY <1>7, <1>8
    <2>7. ASSUME NEW x \in End, NEW i \in 1..Len(ctl'[Peer(x)]), NEW s \in ctl'[Peer(x)][i].sacks
          PROVE  Got(x, s)'
      <3>1. CASE Peer(x) = e
        BY <3>1, <2>5, <2>7, <1>4, <1>5, PeerFacts DEF Got
      <3>2. CASE Peer(x) # e
        BY <3>2, <2>6, <2>7, <1>2, <1>4, PeerFacts DEF AckSound, Got
      <3> QED BY <3>1, <3>2
    <2>8. AckSound'
      BY <2>4, <2>7, <1>2, <1>4 DEF AckSound
    <2>9. Reliable' /\ Consecutive'
      BY <1>2, <1>4, <1>8 DEF Reliable, Consecutive, Got, sndVars
    <2> QED BY <2>8, <2>9, <1>6 DEF Inv
  <1>9. ASSUME NEW j \in 0..Len(sb[e]), NEW i \in 0..(Len(sending[e]) + j),
               ctl' = [ctl EXCEPT ![e] = <<>>],
               Inject(e, Elements(q0) \cup {Packetised(e, j)[x] : x \in 1..i}),
               SendData(e, Packetised(e, j), i, j)
        PROVE  Inv'
    <2> DEFINE q == Packetised(e, j)
    <2>1. q \in Seq(DatPacks) /\ Len(q) = Len(sending[e]) + j
      BY <1>2, PacketisedType
    <2>2. \A x \in 1..Len(q) : q[x].seq = next[e] + x - 1
      BY <1>2, PacketisedConsecutive
    <2>3. /\ sending' = [sending EXCEPT ![e] = SubSeq(q, i + 1, Len(q))]
          /\ dsn' = [dsn EXCEPT ![e] = @ + j]
          /\ next' = [next EXCEPT ![e] = @ + i]
          /\ flights' = [flights EXCEPT ![e] = @ \cup {q[x] : x \in 1..i}]
      BY <1>9 DEF SendData
    <2>4. /\ sending \in [End -> Seq(DatPacks)] /\ dsn \in [End -> Nat] /\ next \in [End -> Nat]
          /\ flights \in [End -> SUBSET DatPacks] /\ sb[e] \in Seq(Nat)
      BY <1>2 DEF TypeOK
    <2> HIDE DEF q
    <2>5. i \in Nat /\ j \in Nat /\ i <= Len(q)
      BY <2>1, <2>4
    <2>6. AckSound'
      <3>1. /\ Elements(q0) \in SUBSET CtlPacks
            /\ \A p \in Elements(q0) : \A s \in p.sacks : Got(Peer(e), s)
        BY <1>3, <1>5 DEF Elements
      <3>2. \A x \in 1..i : q[x] \in DatPacks
        BY <2>1, <2>5
      <3>3. \A x \in 1..i : q[x] \in CtlPacks /\ q[x].sacks = {}
        BY <3>2, DatIsCtl DEF DatPacks
      <3>4. \A x \in End : \A m \in net'[x] :
              m.ack <= rcvNext'[Peer(x)] /\ \A s \in m.sacks : Got(x, s)'
        BY <3>1, <3>3, <1>4, <1>9, InjectAcks DEF q
      <3>5. \A x \in End : ctl'[x] = ctl[x] \/ ctl'[x] = <<>>
        BY <1>7, <1>9
      <3>6. \A x \in End : \A y \in 1..Len(ctl'[Peer(x)]) :
              \A s \in ctl'[Peer(x)][y].sacks : Got(x, s)'
        BY <3>5, <1>2, <1>4, PeerFacts DEF AckSound, Got
      <3> QED BY <3>4, <3>6, <1>2, <1>4 DEF AckSound
    <2>7. Reliable'
      <3> SUFFICES ASSUME NEW x \in End, NEW s \in FirstSeq(x)..(next'[x] - 1)
                   PROVE  (\E p \in flights'[x] : p.seq = s) \/ Got(x, s)'
        BY DEF Reliable
      <3>1. CASE s \in FirstSeq(x)..(next[x] - 1)
        <4>1. flights[x] \subseteq flights'[x]
          BY <2>3, <2>4
        <4> QED BY <3>1, <4>1, <1>2, <1>4 DEF Reliable, Got
      <3>2. CASE s \notin FirstSeq(x)..(next[x] - 1)
        <4>1. FirstSeq(x) \in Nat /\ next[x] \in Nat
          BY <2>4 DEF FirstSeq
        <4>2. x = e
          BY <3>2, <2>3, <2>4
        <4>3. next'[e] = next[e] + i
          BY <2>3, <2>4
        <4>4. s \in Int /\ next[e] <= s /\ s <= next[e] + i - 1
          BY <3>2, <4>1, <4>2, <4>3, <2>5
        <4>5. s - next[e] + 1 \in 1..i
          BY <4>1, <4>2, <4>4, <2>5
        <4>6. q[s - next[e] + 1] \in flights'[e]
          BY <4>5, <2>3, <2>4
        <4>7. q[s - next[e] + 1].seq = s
          <5> DEFINE x0 == s - next[e] + 1
          <5>1. x0 \in 1..Len(q) /\ next[e] + x0 - 1 = s
            BY <4>1, <4>2, <4>4, <4>5, <2>1, <2>5
          <5> HIDE DEF x0
          <5>2. q[x0].seq = next[e] + x0 - 1
            BY <5>1, <2>2
          <5> QED BY <5>1, <5>2 DEF x0
        <4> QED BY <4>2, <4>6, <4>7
      <3> QED BY <3>1, <3>2
    <2>8. Consecutive'
      <3> SUFFICES ASSUME NEW x \in End
                   PROVE  /\ dsn'[x] = next'[x] + Len(sending'[x])
                          /\ \A y \in 1..Len(sending'[x]) : sending'[x][y].seq = next'[x] + y - 1
        BY DEF Consecutive
      <3>1. CASE x # e
        BY <3>1, <2>3, <2>4, <1>2 DEF Consecutive
      <3>2. CASE x = e
        <4>1. sending'[e] = SubSeq(q, i + 1, Len(q)) /\ dsn'[e] = dsn[e] + j /\ next'[e] = next[e] + i
          BY <2>3, <2>4
        <4>2. Len(sending'[e]) = Len(q) - i
          BY <4>1, <2>1, <2>5
        <4>3. dsn[e] = next[e] + Len(sending[e]) /\ Len(sending[e]) \in Nat /\ dsn[e] \in Nat
              /\ next[e] \in Nat
          BY <1>2, <2>4 DEF Consecutive
        <4>4. \A y \in 1..Len(sending'[e]) : i + y \in 1..Len(q) /\ sending'[e][y] = q[i + y]
          BY <4>1, <4>2, <2>1, <2>5
        <4>5. \A y \in 1..Len(sending'[e]) : sending'[e][y].seq = next[e] + (i + y) - 1
          BY <4>4, <2>2
        <4>6. dsn'[e] = next'[e] + Len(sending'[e])
          <5>1. dsn'[e] = next[e] + Len(sending[e]) + j
            BY <4>1, <4>3
          <5>2. next'[e] + Len(sending'[e]) = (next[e] + i) + ((Len(sending[e]) + j) - i)
            BY <4>1, <4>2, <2>1
          <5>3. next[e] \in Nat /\ Len(sending[e]) \in Nat /\ i \in Nat /\ j \in Nat
            BY <4>3, <2>5
          <5>4. next[e] + Len(sending[e]) + j = (next[e] + i) + ((Len(sending[e]) + j) - i)
            BY <5>3
          <5> QED BY <5>1, <5>2, <5>4
        <4>7. \A y \in 1..Len(sending'[e]) : sending'[e][y].seq = next'[e] + y - 1
          <5>1. \A y \in 1..Len(sending'[e]) : next[e] + (i + y) - 1 = (next[e] + i) + y - 1
            BY <4>3, <2>5
          <5> QED BY <5>1, <4>1, <4>5
        <4> QED BY <3>2, <4>6, <4>7
      <3> QED BY <3>1, <3>2
    <2> QED BY <2>6, <2>7, <2>8, <1>6 DEF Inv
  <1> QED BY <1>1, <1>8, <1>9 DEF q0

LEMMA StepInv == Inv /\ [Step]_vars => Inv'
  <1> SUFFICES ASSUME Inv, [Step]_vars PROVE Inv'
    OBVIOUS
  <1>1. TypeOK'
    BY StepType DEF Inv
  <1>2. net \in [End -> SUBSET NetPacks]
    BY DEF Inv, TypeOK
  <1>3. CASE UNCHANGED vars
    BY <1>1, <1>3, FrameInv DEF vars, sndVars, ackVars, rcvVars
  <1>4. ASSUME NEW e \in End, NEW n \in 1..MaxCall, Send(e, n) \/ Recv(e, n)
        PROVE  Inv'
    BY <1>1, <1>4, FrameInv DEF Send, Recv, sndVars, ackVars, rcvVars
  <1>5. ASSUME NEW e \in End, DeliverEnd(e) \/ Swap(e) \/ SocketError(e)
        PROVE  Inv'
    BY <1>1, <1>5, FrameInv DEF DeliverEnd, Swap, SocketError, sndVars, ackVars, rcvVars
  <1>6. ASSUME NEW e \in End, Lose(e)
        PROVE  Inv'
    BY <1>1, <1>2, <1>6, FrameInv DEF Lose, sndVars, ackVars, rcvVars
  <1> QED
    BY <1>1, <1>3, <1>4, <1>5, <1>6, CheckRecvInv, CheckRecvIdleInv, DeliverPackInv,
       CheckFlightsInv, CheckSendInv DEF Step

LEMMA Invariance == Spec => []Inv
  BY InitInv, StepInv, PTL DEF Spec, Next

(* However UDP loses, repeats and reorders packs and acknowledgements, and  *)
(* wherever a pass of the ticker is interrupted, check_recv and             *)
(* check_flights never retire a pack that the peer does not have.           *)
THEOREM NothingForgotten == Spec => []Reliable
  BY Invariance, PTL DEF Inv

(* Every acknowledgement in the system is true: cumulative or selective,    *)
(* queued, in transit or applied.                                           *)
THEOREM AcknowledgementsSound == Spec => []AckSound
  BY Invariance, PTL DEF Inv

(* The assertion seq == snd_info.next of check_send never fails.            *)
THEOREM SendingConsecutive == Spec => []Consecutive
  BY Invariance, PTL DEF Inv

(* The assertion seq >= rcv_info.next of check_recv never fails, and        *)
(* rcv_received never holds a number twice.                                 *)
THEOREM NothingReceivedTwice == Spec => []ReceivedAhead
  BY Invariance, PTL DEF Inv

-----------------------------------------------------------------------------
(***************************************************************************)
(* The data path delivers each stream whole and in order.                  *)
(*                                                                         *)
(* It does not in every environment: a WND pack carries the number of the  *)
(* next DAT pack and is filed in its place (wcp.cpp:308), so an end that   *)
(* writes and whose own window closes loses bytes.  WindowsStayOpen says   *)
(* that this does not happen: an end writes nothing, or what its peer may  *)
(* write never fills the window.  A stream that is written in one          *)
(* direction only, of any length, is the most important case.              *)
(***************************************************************************)

Silent(e) == env.write[e] = 0

(* The pack p carries the chunk that its number, one e has given out,       *)
(* stands for.                                                              *)
CarriesBelow(e, p, d) == /\ FirstSeq(e) <= p.seq /\ p.seq < d
                         /\ p.chunk = p.seq - FirstSeq(e) + 1
Carries(e, p) == CarriesBelow(e, p, dsn[e])

(* What e has written and not yet put into packs follows on dsn. *)
Written ==
    \A e \in End :
        /\ wrote[e] <= env.write[e]
        /\ wrote[e] = dsn[e] - FirstSeq(e) + Len(sb[e])
        /\ \A i \in 1..Len(sb[e]) : sb[e][i] = dsn[e] - FirstSeq(e) + i

(* Every pack with data, wherever it is, carries the chunk of its number. *)
Labelled ==
    \A e \in End :
        /\ \A i \in 1..Len(sending[e]) : Carries(e, sending[e][i])
        /\ \A p \in flights[e] : Carries(e, p)
        /\ \A m \in net[Peer(e)] : IF m.kind = "DAT" THEN Carries(e, m) ELSE m.chunk = NoChunk
        /\ \A i \in 1..Len(ctl[e]) : ctl[e][i].kind # "DAT" /\ ctl[e][i].chunk = NoChunk
        /\ \A p \in rcvd[Peer(e)] : Carries(e, p) \/ (p.chunk = NoChunk /\ Silent(e))

(* An end that writes sends no WND packs, which would take the number of a  *)
(* DAT pack.                                                                *)
NoWindowPacks ==
    \A e \in End : ~Silent(e) =>
        /\ rflag[e] = {}
        /\ \A i \in 1..Len(ctl[e]) : ctl[e][i].kind # "WND"
        /\ \A m \in net[Peer(e)] : m.kind # "WND"

Count(e) == Len(read[e]) + Len(rb[e]) + Len(standby[e])

(* The three parts of what was delivered follow on each other, and          *)
(* rcv_info.next counts them.                                               *)
Placed ==
    \A e \in End :
        /\ \A i \in 1..Len(read[e]) : read[e][i] = i
        /\ \A i \in 1..Len(rb[e]) : rb[e][i] = Len(read[e]) + i
        /\ \A i \in 1..Len(standby[e]) : standby[e][i] = Len(read[e]) + Len(rb[e]) + i
        /\ Count(e) <= dsn[Peer(e)] - FirstSeq(Peer(e))
        /\ ~Silent(Peer(e)) => Count(e) = rcvNext[e] - FirstSeq(Peer(e))

StreamInv == env \in Environments /\ Written /\ Labelled /\ NoWindowPacks /\ Placed

-----------------------------------------------------------------------------
LEMMA FirstSeqType == \A e \in End : FirstSeq(e) \in Nat
  BY DEF FirstSeq

LEMMA WriteType == StreamInv => \A e \in End : env.write[e] \in Nat
  BY BoundAssumption DEF StreamInv

LEMMA TimesMonotone == \A k, m, n \in Nat : m <= n => k * m <= k * n
  <1> SUFFICES ASSUME NEW k \in Nat, NEW m \in Nat, NEW n \in Nat, m <= n
               PROVE  k * m <= k * n
    OBVIOUS
  <1>1. PICK d \in Nat : n = m + d
    <2>1. n - m \in Nat /\ n = m + (n - m)
      OBVIOUS
    <2> QED BY <2>1
  <1>2. k * n = k * m + k * d /\ k * d \in Nat /\ k * m \in Nat
    BY <1>1
  <1> QED BY <1>2

LEMMA SumFacts ==
  \A a, b, c \in Nat : a + b + c \in Nat /\ c <= a + b + c /\ a + b <= a + b + c
  OBVIOUS

LEMMA ConcatFacts ==
  ASSUME NEW s \in Seq(Nat), NEW t \in Seq(Nat)
  PROVE  /\ s \o t \in Seq(Nat) /\ Len(s \o t) = Len(s) + Len(t)
         /\ \A i \in 1..Len(s) : (s \o t)[i] = s[i]
         /\ \A i \in 1..Len(t) : (s \o t)[Len(s) + i] = t[i]
  OBVIOUS

(* The window of an end that writes stays larger than a pack. *)
LEMMA WindowOpen ==
  ASSUME WindowsStayOpen, StreamInv, NEW e \in End, ~Silent(e),
         NEW n \in Nat, n <= env.write[Peer(e)]
  PROVE  RcvCap - MDU * n > MTU
  <1>1. env.write[Peer(e)] \in Nat /\ MDU \in Nat /\ RcvCap \in Nat /\ MTU \in Nat
    BY WriteType, PeerFacts, SizeAssumption DEF MTU
  <1>2. RcvCap - MDU * env.write[Peer(e)] > MTU
    BY DEF WindowsStayOpen, StaysOpen, StreamInv, Silent
  <1>3. MDU * n <= MDU * env.write[Peer(e)]
    BY <1>1, TimesMonotone
  <1>4. MDU * n \in Nat /\ MDU * env.write[Peer(e)] \in Nat
    BY <1>1
  <1> QED BY <1>1, <1>2, <1>3, <1>4

(* What was delivered at e was written at its peer. *)
LEMMA CountBound ==
  ASSUME TypeOK, StreamInv, NEW e \in End
  PROVE  /\ Count(e) \in Nat /\ Len(standby[e]) \in Nat /\ Len(rb[e]) \in Nat /\ Len(read[e]) \in Nat
         /\ Len(standby[e]) <= Count(e)
         /\ Len(read[e]) + Len(rb[e]) <= Count(e)
         /\ Count(e) <= wrote[Peer(e)]
         /\ Count(e) <= env.write[Peer(e)]
         /\ dsn[Peer(e)] - FirstSeq(Peer(e)) <= env.write[Peer(e)]
  <1>1. Len(standby[e]) \in Nat /\ Len(rb[e]) \in Nat /\ Len(read[e]) \in Nat
    BY DEF TypeOK
  <1>2. Count(e) \in Nat /\ Len(standby[e]) <= Count(e) /\ Len(read[e]) + Len(rb[e]) <= Count(e)
    BY <1>1, SumFacts DEF Count
  <1> DEFINE f == Peer(e)
  <1>3. f \in End
    BY PeerFacts
  <1>4. /\ dsn[f] \in Nat /\ wrote[f] \in Nat /\ FirstSeq(f) \in Nat /\ Len(sb[f]) \in Nat
        /\ env.write[f] \in Nat
    BY <1>3, FirstSeqType, WriteType DEF TypeOK
  <1>5. /\ Count(e) <= dsn[f] - FirstSeq(f)
        /\ wrote[f] = dsn[f] - FirstSeq(f) + Len(sb[f])
        /\ wrote[f] <= env.write[f]
    BY <1>3 DEF StreamInv, Placed, Written
  <1> HIDE DEF f
  <1>6. Count(e) <= wrote[f] /\ Count(e) <= env.write[f] /\ dsn[f] - FirstSeq(f) <= env.write[f]
    BY <1>2, <1>4, <1>5
  <1> QED BY <1>1, <1>2, <1>6 DEF f

(* An end that may write nothing has given out no number. *)
LEMMA SilentGivesNothing ==
  ASSUME TypeOK, StreamInv, NEW e \in End, Silent(e)
  PROVE  dsn[e] <= FirstSeq(e)
  <1>1. /\ dsn[e] \in Nat /\ wrote[e] \in Nat /\ FirstSeq(e) \in Nat /\ Len(sb[e]) \in Nat
    BY FirstSeqType DEF TypeOK
  <1>2. wrote[e] = dsn[e] - FirstSeq(e) + Len(sb[e]) /\ wrote[e] <= 0
    BY DEF StreamInv, Written, Silent
  <1> QED BY <1>1, <1>2

-----------------------------------------------------------------------------
(* What is left alone keeps its part of the invariant.                     *)

LEMMA WrittenFrame ==
  ASSUME Written, UNCHANGED <<env, wrote, dsn, sb>> PROVE Written'
  BY DEF Written

LEMMA LabelledFrame ==
  ASSUME Labelled, UNCHANGED <<env, dsn, sending, flights, net, ctl, rcvd>> PROVE Labelled'
  BY DEF Labelled, Carries, CarriesBelow, Silent

LEMMA NoWindowPacksFrame ==
  ASSUME NoWindowPacks, UNCHANGED <<env, rflag, ctl, net>> PROVE NoWindowPacks'
  BY DEF NoWindowPacks, Silent

LEMMA PlacedFrame ==
  ASSUME Placed, UNCHANGED <<env, read, rb, standby, dsn, rcvNext>> PROVE Placed'
  BY DEF Placed, Count, Silent

LEMMA InitStream == Init => StreamInv
  <1> SUFFICES ASSUME Init PROVE StreamInv
    OBVIOUS
  <1>1. env \in Environments
    BY DEF Init
  <1>2. \A e \in End : env.write[e] \in Nat /\ FirstSeq(e) \in Nat
    BY <1>1, BoundAssumption, FirstSeqType
  <1>3. Written
    BY <1>2 DEF Init, Written
  <1>4. Labelled
    BY PeerFacts DEF Init, Labelled
  <1>5. NoWindowPacks
    BY PeerFacts DEF Init, NoWindowPacks
  <1>6. Placed
    <2> SUFFICES ASSUME NEW e \in End
                 PROVE  /\ read[e] = <<>> /\ rb[e] = <<>> /\ standby[e] = <<>>
                        /\ Count(e) = 0 /\ 0 <= dsn[Peer(e)] - FirstSeq(Peer(e))
                        /\ 0 = rcvNext[e] - FirstSeq(Peer(e))
      <3>1. Len(<<>>) = 0 /\ 1..0 = {}
        OBVIOUS
      <3> QED BY <3>1 DEF Placed
    <2>1. read[e] = <<>> /\ rb[e] = <<>> /\ standby[e] = <<>>
      BY DEF Init
    <2>2. dsn[Peer(e)] = FirstSeq(Peer(e)) /\ rcvNext[e] = FirstSeq(Peer(e))
      BY PeerFacts DEF Init
    <2> QED BY <2>1, <2>2, <1>2, PeerFacts DEF Count
  <1> QED BY <1>1, <1>3, <1>4, <1>5, <1>6 DEF StreamInv

-----------------------------------------------------------------------------
(* The application's calls.                                                *)

LEMMA SendStream ==
  ASSUME TypeOK, StreamInv, UNCHANGED env, NEW e \in End, NEW n \in 1..MaxCall, Send(e, n)
  PROVE  StreamInv'
  <1> DEFINE left == SndCap - Len(sb[e])
             take == IF left > n THEN n ELSE left
             new == [i \in 1..take |-> wrote[e] + i]
  <1>1. n \in Nat \ {0} /\ left \in Int
    BY SizeAssumption, BoundAssumption DEF TypeOK
  <1>2. take \in Nat
    BY <1>1 DEF Send
  <1>3. /\ sb' = [sb EXCEPT ![e] = @ \o new]
        /\ wrote' = [wrote EXCEPT ![e] = @ + take]
        /\ wrote[e] + take <= env.write[e]
        /\ wrote \in [End -> Nat] /\ sb \in [End -> Seq(Nat)] /\ dsn[e] \in Nat /\ FirstSeq(e) \in Nat
    BY FirstSeqType DEF Send, TypeOK
  <1> HIDE DEF take
  <1>4. new \in Seq(Nat) /\ Len(new) = take /\ \A i \in 1..take : new[i] = wrote[e] + i
    <2>1. wrote[e] \in Nat
      BY <1>3
    <2>2. new \in Seq(Nat)
      BY <1>2, <2>1
    <2>3. Len(new) = take
      BY <1>2
    <2> QED BY <2>2, <2>3
  <1> HIDE DEF new
  <1>5. UNCHANGED <<env, read, rb, standby, dsn, rcvNext, rflag, ctl, net, sending, flights, rcvd>>
    BY DEF Send, rcvVars
  <1>6. Written'
    <2> SUFFICES ASSUME NEW x \in End
                 PROVE  /\ wrote'[x] <= env.write[x]
                        /\ wrote'[x] = dsn[x] - FirstSeq(x) + Len(sb'[x])
                        /\ \A i \in 1..Len(sb'[x]) : sb'[x][i] = dsn[x] - FirstSeq(x) + i
      BY <1>5 DEF Written
    <2>1. CASE x # e
      BY <2>1, <1>3 DEF StreamInv, Written
    <2>2. CASE x = e
      <3>1. /\ wrote[e] = dsn[e] - FirstSeq(e) + Len(sb[e])
            /\ \A i \in 1..Len(sb[e]) : sb[e][i] = dsn[e] - FirstSeq(e) + i
        BY DEF StreamInv, Written
      <3>2. sb'[e] = sb[e] \o new /\ wrote'[e] = wrote[e] + take
        BY <1>3
      <3>3. Len(sb'[e]) = Len(sb[e]) + take /\ Len(sb[e]) \in Nat /\ wrote[e] \in Nat
        <4>1. sb[e] \in Seq(Nat) /\ wrote[e] \in Nat
          BY <1>3
        <4>2. Len(sb[e] \o new) = Len(sb[e]) + Len(new)
          BY <4>1, <1>4, ConcatFacts
        <4>3. Len(sb[e]) \in Nat
          BY <4>1
        <4> QED BY <4>1, <4>2, <4>3, <3>2, <1>4
      <3>4. wrote'[e] = dsn[e] - FirstSeq(e) + Len(sb'[e])
        BY <3>1, <3>2, <3>3, <1>2, <1>3
      <3>5. ASSUME NEW i \in 1..Len(sb'[e]) PROVE sb'[e][i] = dsn[e] - FirstSeq(e) + i
        <4>1. CASE i \in 1..Len(sb[e])
          BY <4>1, <3>1, <3>2, <1>3, <1>4
        <4>2. CASE i \notin 1..Len(sb[e])
          <5>1. i - Len(sb[e]) \in 1..take
            BY <4>2, <3>3, <1>2
          <5>2. sb'[e][i] = new[i - Len(sb[e])]
            BY <3>2, <4>2, <5>1, <1>3, <1>4
          <5>3. sb'[e][i] = wrote[e] + (i - Len(sb[e]))
            BY <5>1, <5>2, <1>4
          <5> QED BY <5>3, <3>1, <3>3, <1>3
        <4> QED BY <4>1, <4>2
      <3> QED BY <2>2, <3>2, <3>4, <3>5, <1>3
    <2> QED BY <2>1, <2>2
  <1> QED
    BY <1>5, <1>6, LabelledFrame, NoWindowPacksFrame, PlacedFrame DEF StreamInv

LEMMA RecvStream ==
  ASSUME TypeOK, StreamInv, UNCHANGED env, NEW e \in End, NEW n \in 1..MaxCall, Recv(e, n)
  PROVE  StreamInv'
  <1> DEFINE take == IF Len(rb[e]) > n THEN n ELSE Len(rb[e])
             out == SubSeq(rb[e], 1, take)
             kept == SubSeq(rb[e], take + 1, Len(rb[e]))
  <1>1. take \in Nat /\ take <= Len(rb[e]) /\ rb[e] \in Seq(Nat)
    BY BoundAssumption DEF TypeOK
  <1>2. /\ read' = [read EXCEPT ![e] = @ \o out]
        /\ rb' = [rb EXCEPT ![e] = kept]
        /\ read \in [End -> Seq(Nat)] /\ rb \in [End -> Seq(Nat)] /\ standby \in [End -> Seq(Nat)]
    BY DEF TypeOK, Recv
  <1> HIDE DEF take
  <1>3. /\ out \in Seq(Nat) /\ Len(out) = take
        /\ \A i \in 1..take : i \in 1..Len(rb[e]) /\ out[i] = rb[e][i]
    BY <1>1
  <1>4. /\ kept \in Seq(Nat) /\ Len(kept) = Len(rb[e]) - take
        /\ \A i \in 1..Len(kept) : take + i \in 1..Len(rb[e]) /\ kept[i] = rb[e][take + i]
    BY <1>1
  <1> HIDE DEF out, kept
  <1>5. UNCHANGED <<env, wrote, sb, standby, dsn, rcvNext, rflag, ctl, net, sending, flights, rcvd>>
    BY DEF Recv, sndVars
  <1>6. Placed'
    <2>1. ASSUME NEW x \in End, x # e
          PROVE  read'[x] = read[x] /\ rb'[x] = rb[x]
      BY <2>1, <1>2
    <2>2. read'[e] = read[e] \o out /\ rb'[e] = kept
      BY <1>2
    <2> DEFINE a == Len(read[e])
               b == Len(rb[e])
               c == Len(standby[e])
    <2>3. a \in Nat /\ b \in Nat /\ c \in Nat
      BY <1>2
    <2>4. Len(read'[e]) = a + take /\ Len(rb'[e]) = b - take
      <3>1. read[e] \in Seq(Nat)
        BY <1>2
      <3> QED BY <3>1, <2>2, <1>3, <1>4, ConcatFacts
    <2>5. /\ \A i \in 1..a : read[e][i] = i
          /\ \A i \in 1..b : rb[e][i] = a + i
          /\ \A i \in 1..c : standby[e][i] = a + b + i
          /\ Count(e) = a + b + c
      BY DEF StreamInv, Placed, Count
    <2>6. ASSUME NEW i \in 1..Len(read'[e]) PROVE read'[e][i] = i
      <3>1. CASE i \in 1..a
        BY <3>1, <2>2, <2>5, <1>2, <1>3
      <3>2. CASE i \notin 1..a
        <4>1. i - a \in 1..take
          BY <3>2, <2>3, <2>4, <1>1
        <4>2. read'[e][i] = out[i - a]
          BY <3>2, <4>1, <2>2, <1>2, <1>3
        <4>3. out[i - a] = a + (i - a)
          BY <4>1, <1>3, <2>5
        <4> QED BY <4>2, <4>3, <2>3
      <3> QED BY <3>1, <3>2
    <2>7. ASSUME NEW i \in 1..Len(rb'[e]) PROVE rb'[e][i] = Len(read'[e]) + i
      <3>1. rb'[e][i] = a + (take + i)
        BY <2>2, <2>5, <1>4
      <3> HIDE DEF a, b
      <3>2. i \in Nat /\ a + (take + i) = a + take + i
        BY <2>3, <1>1
      <3> QED BY <3>1, <3>2, <2>4
    <2>8. Len(read'[e]) + Len(rb'[e]) = a + b
      <3> HIDE DEF a, b
      <3>1. (a + take) + (b - take) = a + b
        BY <2>3, <1>1
      <3> QED BY <3>1, <2>4
    <2>9. Count(e)' = Count(e)
      BY <2>5, <2>8, <1>5 DEF Count
    <2> HIDE DEF a, b, c
    <2>10. \A i \in 1..Len(standby'[e]) : standby'[e][i] = Len(read'[e]) + Len(rb'[e]) + i
      BY <2>5, <2>8, <1>5 DEF c
    <2>11. \A x \in End : Count(x)' = Count(x)
      BY <2>1, <2>9, <1>5 DEF Count
    <2>12. ASSUME NEW x \in End
           PROVE  /\ \A i \in 1..Len(read'[x]) : read'[x][i] = i
                  /\ \A i \in 1..Len(rb'[x]) : rb'[x][i] = Len(read'[x]) + i
                  /\ \A i \in 1..Len(standby'[x]) : standby'[x][i] = Len(read'[x]) + Len(rb'[x]) + i
      <3>1. CASE x = e
        BY <3>1, <2>6, <2>7, <2>10
      <3>2. CASE x # e
        <4>1. read'[x] = read[x] /\ rb'[x] = rb[x] /\ standby'[x] = standby[x]
          BY <3>2, <2>1, <1>5
        <4> QED BY <4>1 DEF StreamInv, Placed
      <3> QED BY <3>1, <3>2
    <2>13. ASSUME NEW x \in End
           PROVE  /\ Count(x)' <= dsn'[Peer(x)] - FirstSeq(Peer(x))'
                  /\ ~Silent(Peer(x))' => Count(x)' = rcvNext'[x] - FirstSeq(Peer(x))'
      <3>1. Count(x)' = Count(x) /\ dsn' = dsn /\ rcvNext' = rcvNext /\ env' = env
        BY <2>11, <1>5
      <3>2. FirstSeq(Peer(x))' = FirstSeq(Peer(x)) /\ Silent(Peer(x))' = Silent(Peer(x))
        BY <3>1 DEF FirstSeq, Silent, Peer
      <3>3. /\ Count(x) <= dsn[Peer(x)] - FirstSeq(Peer(x))
            /\ ~Silent(Peer(x)) => Count(x) = rcvNext[x] - FirstSeq(Peer(x))
        BY DEF StreamInv, Placed
      <3> QED BY <3>1, <3>2, <3>3
    <2> QED BY <2>12, <2>13 DEF Placed
  <1> QED
    BY <1>5, <1>6, WrittenFrame, LabelledFrame, NoWindowPacksFrame DEF StreamInv

-----------------------------------------------------------------------------
(* check_recv.                                                             *)

(* The replies are control packs, and none of them is a WND pack. *)
LEMMA RepliesKinds ==
  ASSUME NEW e \in End, NEW batch, NEW i \in 1..Len(Replies(e, batch))
  PROVE  /\ Replies(e, batch)[i].kind \notin {"DAT", "WND"}
         /\ Replies(e, batch)[i].chunk = NoChunk
  <1> DEFINE acked == Seqs({b \in batch : InSeqSpace(b)})
             R == Control("KEEP_ALIVE_REPLY", dsn[e], {})
             S == Control("SACK", dsn[e], acked)
  <1>1. /\ R.kind = "KEEP_ALIVE_REPLY" /\ S.kind = "SACK"
        /\ R.chunk = NoChunk /\ S.chunk = NoChunk
    BY DEF Control
  <1> HIDE DEF acked, R, S
  <1>2. \/ Replies(e, batch) = <<>> \o <<>> \/ Replies(e, batch) = <<R>> \o <<>>
        \/ Replies(e, batch) = <<>> \o <<S>> \/ Replies(e, batch) = <<R>> \o <<S>>
    BY DEF Replies, acked, R, S
  <1>3. Replies(e, batch)[i] \in {R, S}
    BY <1>2
  <1> QED BY <1>1, <1>3

(* What a queue of control packs keeps when more are appended. *)
LEMMA AppendedCtl ==
  ASSUME TypeOK, StreamInv, UNCHANGED env, NEW e \in End, NEW new \in Seq(CtlPacks),
         ctl' = [ctl EXCEPT ![e] = @ \o new],
         \A i \in 1..Len(new) : new[i].kind \notin {"DAT", "WND"} /\ new[i].chunk = NoChunk
  PROVE  \A x \in End : \A i \in 1..Len(ctl'[x]) :
           /\ ctl'[x][i].kind # "DAT" /\ ctl'[x][i].chunk = NoChunk
           /\ ~Silent(x) => ctl'[x][i].kind # "WND"
  <1> SUFFICES ASSUME NEW x \in End, NEW i \in 1..Len(ctl'[x])
               PROVE  /\ ctl'[x][i].kind # "DAT" /\ ctl'[x][i].chunk = NoChunk
                      /\ ~Silent(x) => ctl'[x][i].kind # "WND"
    OBVIOUS
  <1>1. ctl \in [End -> Seq(CtlPacks)]
    BY DEF TypeOK
  <1>2. \A j \in 1..Len(ctl[x]) : /\ ctl[x][j].kind # "DAT" /\ ctl[x][j].chunk = NoChunk
                                  /\ ~Silent(x) => ctl[x][j].kind # "WND"
    BY DEF StreamInv, Labelled, NoWindowPacks
  <1>3. CASE x # e
    BY <1>1, <1>2, <1>3
  <1>4. CASE x = e
    <2>1. ctl'[e] = ctl[e] \o new /\ ctl[e] \in Seq(CtlPacks)
      BY <1>1
    <2>2. \/ i \in 1..Len(ctl[e]) /\ ctl'[e][i] = ctl[e][i]
          \/ i - Len(ctl[e]) \in 1..Len(new) /\ ctl'[e][i] = new[i - Len(ctl[e])]
      BY <2>1, <1>4
    <2> QED BY <1>2, <1>4, <2>2
  <1> QED BY <1>3, <1>4

LEMMA CheckRecvStream ==
  ASSUME TypeOK, StreamInv, UNCHANGED env, NEW e \in End, NEW batch \in SUBSET net[e],
         NEW again \in SUBSET batch, CheckRecv(e, batch, again)
  PROVE  StreamInv'
  <1> DEFINE f == Peer(e)
  <1>0. f \in End /\ Peer(f) = e /\ f # e
    BY PeerFacts
  <1>1. UNCHANGED <<env, wrote, read, sb, dsn, sending, rcvNext, rb, standby, rflag>>
    BY DEF CheckRecv, appVars, sndVars
  <1>2. Written' /\ Placed'
    BY <1>1, WrittenFrame, PlacedFrame DEF StreamInv
  <1>3. Written /\ Labelled /\ NoWindowPacks
    BY DEF StreamInv
  <1>4. /\ net \in [End -> SUBSET NetPacks] /\ flights \in [End -> SUBSET DatPacks]
        /\ rcvd \in [End -> SUBSET [seq : Nat, chunk : Nat]]
    BY DEF TypeOK
  <1>5. \A x \in End : net'[x] \subseteq net[x]
    <2>1. net' = [net EXCEPT ![e] = (@ \ batch) \cup again]
      BY DEF CheckRecv
    <2> QED BY <2>1, <1>4
  <1>6. \A x \in End : flights'[x] \subseteq flights[x]
    <2>1. PICK top : \E sacked : flights' = [flights EXCEPT ![e] = Unsacked(e, top, sacked)]
      BY DEF CheckRecv, HandleAcks
    <2> QED BY <2>1, <1>4 DEF Unsacked
  <1>7. \A x \in End : \A i \in 1..Len(ctl'[x]) :
           /\ ctl'[x][i].kind # "DAT" /\ ctl'[x][i].chunk = NoChunk
           /\ ~Silent(x) => ctl'[x][i].kind # "WND"
    <2>1. batch \subseteq NetPacks
      BY <1>4
    <2>2. Seqs({b \in batch : InSeqSpace(b)}) \in SUBSET Nat
      BY <2>1 DEF Seqs, NetPacks
    <2>3. \A S \in SUBSET Nat : /\ Control("SACK", dsn[e], S) \in CtlPacks
                                /\ Control("KEEP_ALIVE_REPLY", dsn[e], S) \in CtlPacks
      BY DEF Control, CtlPacks, Kinds, NoChunk, TypeOK
    <2>4. Replies(e, batch) \in Seq(CtlPacks)
      BY <2>2, <2>3 DEF Replies
    <2>5. ctl' = [ctl EXCEPT ![e] = @ \o Replies(e, batch)]
      BY DEF CheckRecv
    <2> QED BY <2>4, <2>5, RepliesKinds, AppendedCtl
  <1>8. ASSUME NEW x \in End, NEW p \in rcvd'[Peer(x)]
        PROVE  Carries(x, p) \/ (p.chunk = NoChunk /\ Silent(x))
    <2>1. PICK new \in SUBSET Fresh(e, batch) : rcvd' = [rcvd EXCEPT ![e] = @ \cup new]
      BY DEF CheckRecv, Insert
    <2>2. CASE p \in rcvd[Peer(x)]
      BY <2>2, <1>3 DEF Labelled
    <2>3. CASE p \notin rcvd[Peer(x)]
      <3>1. Peer(x) = e /\ p \in Fresh(e, batch)
        BY <2>1, <2>3, <1>4, <1>8, PeerFacts
      <3>2. PICK m \in batch : InSeqSpace(m) /\ p = [seq |-> m.seq, chunk |-> m.chunk]
        BY <3>1 DEF Fresh
      <3>3. m \in net[Peer(x)] /\ p.seq = m.seq /\ p.chunk = m.chunk
        BY <3>1, <3>2
      <3>4. CASE m.kind = "DAT"
        BY <3>3, <3>4, <1>3 DEF Labelled, Carries, CarriesBelow
      <3>5. CASE m.kind = "WND"
        BY <3>3, <3>5, <1>3 DEF Labelled, NoWindowPacks
      <3> QED BY <3>2, <3>4, <3>5 DEF InSeqSpace
    <2> QED BY <2>2, <2>3
  <1>9. Labelled'
    BY <1>1, <1>3, <1>5, <1>6, <1>7, <1>8, PeerFacts DEF Labelled, Carries, CarriesBelow, Silent
  <1>10. NoWindowPacks'
    BY <1>1, <1>3, <1>5, <1>7, PeerFacts DEF NoWindowPacks, Silent
  <1> QED BY <1>1, <1>2, <1>9, <1>10 DEF StreamInv

LEMMA CheckRecvIdleStream ==
  ASSUME TypeOK, StreamInv, UNCHANGED env, NEW e \in End, CheckRecvIdle(e)
  PROVE  StreamInv'
  <1> DEFINE K == Control("KEEP_ALIVE", dsn[e], {})
  <1>1. UNCHANGED <<env, wrote, read, sb, dsn, sending, flights, rcvNext, rcvd, rb, standby, rflag, net>>
    BY DEF CheckRecvIdle, appVars, sndVars, rcvVars
  <1>2. Written' /\ Placed'
    BY <1>1, WrittenFrame, PlacedFrame DEF StreamInv
  <1>3. Labelled /\ NoWindowPacks
    BY DEF StreamInv
  <1>4. CASE ctl' = ctl
    BY <1>1, <1>2, <1>3, <1>4, LabelledFrame, NoWindowPacksFrame DEF StreamInv
  <1>5. CASE ctl' = [ctl EXCEPT ![e] = Append(@, K)]
    <2>1. K \in CtlPacks /\ K.kind = "KEEP_ALIVE" /\ K.chunk = NoChunk
      BY DEF Control, CtlPacks, Kinds, NoChunk, TypeOK
    <2> HIDE DEF K
    <2>2. <<K>> \in Seq(CtlPacks) /\ \A i \in 1..Len(<<K>>) : <<K>>[i] = K
      BY <2>1
    <2>3. ctl[e] \in Seq(CtlPacks)
      BY DEF TypeOK
    <2>4. Append(ctl[e], K) = ctl[e] \o <<K>>
      BY <2>1, <2>2, <2>3
    <2>5. ctl' = [ctl EXCEPT ![e] = @ \o <<K>>]
      BY <2>4, <1>5
    <2>6. \A i \in 1..Len(<<K>>) : <<K>>[i].kind \notin {"DAT", "WND"} /\ <<K>>[i].chunk = NoChunk
      BY <2>1, <2>2
    <2>7. \A x \in End : \A i \in 1..Len(ctl'[x]) :
           /\ ctl'[x][i].kind # "DAT" /\ ctl'[x][i].chunk = NoChunk
           /\ ~Silent(x) => ctl'[x][i].kind # "WND"
      BY <2>2, <2>5, <2>6, AppendedCtl
    <2>8. Labelled' /\ NoWindowPacks'
      BY <1>1, <1>3, <2>7 DEF Labelled, NoWindowPacks, Carries, CarriesBelow, Silent
    <2> QED BY <1>1, <1>2, <2>8 DEF StreamInv
  <1>6. ctl' = ctl \/ ctl' = [ctl EXCEPT ![e] = Append(@, K)]
    BY DEF CheckRecvIdle
  <1> QED BY <1>4, <1>5, <1>6

(* A pack without data says that its sender writes nothing. *)
LEMMA InTurnPack ==
  ASSUME TypeOK, StreamInv, NEW e \in End, NEW p \in rcvd[e], InTurn(e, p)
  PROVE  \/ p.chunk = NoChunk /\ Silent(Peer(e))
         \/ /\ p.chunk # NoChunk /\ ~Silent(Peer(e))
            /\ p.chunk = Count(e) + 1
            /\ Count(e) + 1 <= dsn[Peer(e)] - FirstSeq(Peer(e))
            /\ Count(e) = rcvNext[e] - FirstSeq(Peer(e))
  <1> DEFINE f == Peer(e)
  <1>1. f \in End /\ Peer(f) = e
    BY PeerFacts
  <1>2. p.seq \in Nat /\ dsn[f] \in Nat /\ FirstSeq(f) \in Nat /\ rcvNext[e] \in Nat /\ Count(e) \in Nat
    <2>1. p.seq \in Nat /\ rcvNext[e] \in Nat
      BY DEF TypeOK
    <2>2. dsn[f] \in Nat /\ FirstSeq(f) \in Nat
      BY <1>1, FirstSeqType DEF TypeOK
    <2>3. Count(e) \in Nat
      BY CountBound
    <2> QED BY <2>1, <2>2, <2>3
  <1>3. p.seq = rcvNext[e]
    BY DEF InTurn
  <1>4. Carries(f, p) \/ (p.chunk = NoChunk /\ Silent(f))
    BY <1>1 DEF StreamInv, Labelled
  <1>5. CASE Carries(f, p)
    <2>1. /\ FirstSeq(f) <= p.seq /\ p.seq < dsn[f]
          /\ p.chunk = p.seq - FirstSeq(f) + 1
      BY <1>5 DEF Carries, CarriesBelow
    <2>2. ~Silent(f)
      BY <1>1, <1>2, <2>1, SilentGivesNothing
    <2>3. Count(e) = rcvNext[e] - FirstSeq(f)
      BY <2>2 DEF StreamInv, Placed
    <2> HIDE DEF f
    <2>4. p.chunk # 0 /\ p.chunk = Count(e) + 1 /\ Count(e) + 1 <= dsn[f] - FirstSeq(f)
      BY <1>2, <1>3, <2>1, <2>3
    <2> QED BY <2>2, <2>3, <2>4 DEF NoChunk, f
  <1> QED BY <1>4, <1>5

LEMMA DeliverPackStream ==
  ASSUME WindowsStayOpen, TypeOK, StreamInv, UNCHANGED env, NEW e \in End, NEW p \in rcvd[e],
         DeliverPack(e, p)
  PROVE  StreamInv'
  <1> DEFINE f == Peer(e)
  <1>0. f \in End /\ Peer(f) = e /\ f # e
    BY PeerFacts
  <1>1. UNCHANGED <<env, wrote, read, sb, dsn, sending, flights, rb, net, ctl>>
    BY DEF DeliverPack, appVars, sndVars
  <1>2. /\ rcvNext' = [rcvNext EXCEPT ![e] = @ + 1]
        /\ rcvd' = [rcvd EXCEPT ![e] = @ \ {p}]
        /\ InTurn(e, p)
    BY DEF DeliverPack
  <1>3. /\ rcvNext \in [End -> Nat] /\ rcvd \in [End -> SUBSET [seq : Nat, chunk : Nat]]
        /\ standby \in [End -> Seq(Nat)] /\ rflag \in [End -> SUBSET {"LESS", "MORE"}]
    BY DEF TypeOK
  <1>4. Written'
    BY <1>1, WrittenFrame DEF StreamInv
  <1>5. Labelled'
    <2>1. \A x \in End : rcvd'[x] \subseteq rcvd[x]
      BY <1>2, <1>3
    <2> QED BY <2>1, <1>1, PeerFacts DEF StreamInv, Labelled, Carries, CarriesBelow, Silent
  <1>6. CASE p.chunk = NoChunk /\ Silent(f)
    <2>1. UNCHANGED <<standby, rflag>>
      BY <1>6 DEF DeliverPack
    <2>2. NoWindowPacks'
      BY <2>1, <1>1, NoWindowPacksFrame DEF StreamInv
    <2>3. \A x \in End : x # e => rcvNext'[x] = rcvNext[x]
      BY <1>2, <1>3
    <2>4. Placed'
      BY <2>1, <2>3, <1>1, <1>6 DEF StreamInv, Placed, Count, Silent
    <2> QED BY <1>1, <1>4, <1>5, <2>2, <2>4 DEF StreamInv
  <1>7. CASE /\ p.chunk # NoChunk /\ ~Silent(f)
             /\ p.chunk = Count(e) + 1
             /\ Count(e) + 1 <= dsn[f] - FirstSeq(f)
             /\ Count(e) = rcvNext[e] - FirstSeq(f)
    <2> DEFINE a == Len(read[e])
               b == Len(rb[e])
               c == Len(standby[e])
    <2>1. a \in Nat /\ b \in Nat /\ c \in Nat /\ Count(e) = a + b + c /\ Count(e) \in Nat /\ c <= Count(e)
      BY CountBound DEF Count
    <2>2. /\ standby' = [standby EXCEPT ![e] = Append(@, p.chunk)]
          /\ rflag' = [rflag EXCEPT ![e] = IF Left(e) - MDU <= MTU THEN @ \cup {"LESS"} ELSE {}]
      BY <1>7 DEF DeliverPack
    <2>3. standby'[e] = Append(standby[e], p.chunk) /\ standby[e] \in Seq(Nat) /\ p.chunk \in Nat
      BY <2>2, <1>3
    <2>4. /\ Len(standby'[e]) = c + 1
          /\ \A i \in 1..c : standby'[e][i] = standby[e][i]
          /\ standby'[e][c + 1] = p.chunk
      BY <2>3
    <2>5. \A x \in End : x # e => standby'[x] = standby[x] /\ rcvNext'[x] = rcvNext[x]
                                  /\ rflag'[x] = rflag[x]
      BY <2>2, <1>2, <1>3
    <2>6. Count(e)' = Count(e) + 1
      <3>1. Count(e)' = a + b + (c + 1)
        BY <2>4, <1>1 DEF Count
      <3> HIDE DEF a, b, c
      <3>2. a + b + (c + 1) = a + b + c + 1
        BY <2>1
      <3> QED BY <2>1, <3>1, <3>2
    <2>7. rcvNext'[e] = rcvNext[e] + 1
      BY <1>2, <1>3
    <2>8. \A i \in 1..Len(standby'[e]) : standby'[e][i] = a + b + i
      <3> SUFFICES ASSUME NEW i \in 1..Len(standby'[e]) PROVE standby'[e][i] = a + b + i
        OBVIOUS
      <3>1. CASE i \in 1..c
        BY <3>1, <2>4 DEF StreamInv, Placed
      <3>2. CASE i \notin 1..c
        <4>1. i = c + 1
          BY <3>2, <2>1, <2>4
        <4>2. a + b + c + 1 = a + b + (c + 1)
          <5> HIDE DEF a, b, c
          <5> QED BY <2>1
        <4> QED BY <4>1, <4>2, <2>1, <2>4, <1>7
      <3> QED BY <3>1, <3>2
    <2>9. ASSUME NEW x \in End
          PROVE  /\ Count(x)' <= dsn[Peer(x)] - FirstSeq(Peer(x))
                 /\ ~Silent(Peer(x)) => Count(x)' = rcvNext'[x] - FirstSeq(Peer(x))
      <3>1. CASE x = e
        <4>1. rcvNext[e] \in Nat /\ FirstSeq(f) \in Nat
          BY <1>0, <1>3, FirstSeqType
        <4>2. Count(e) + 1 = rcvNext[e] + 1 - FirstSeq(f)
          BY <4>1, <1>7, <2>1
        <4>3. Count(e)' <= dsn[f] - FirstSeq(f)
          BY <2>6, <1>7
        <4>4. Count(e)' = rcvNext'[e] - FirstSeq(f)
          <5>1. rcvNext'[e] - FirstSeq(f) = rcvNext[e] + 1 - FirstSeq(f)
            BY <2>7, <4>1
          <5> QED BY <5>1, <4>2, <2>6
        <4> QED BY <3>1, <4>3, <4>4
      <3>2. CASE x # e
        BY <3>2, <2>5, <1>1 DEF StreamInv, Placed, Count
      <3> QED BY <3>1, <3>2
    <2>10. Placed'
      <3> SUFFICES ASSUME NEW x \in End
                   PROVE  \A i \in 1..Len(standby'[x]) :
                            standby'[x][i] = Len(read[x]) + Len(rb[x]) + i
        BY <2>9, <1>1 DEF StreamInv, Placed, Silent
      <3>1. CASE x = e
        BY <3>1, <2>8
      <3>2. CASE x # e
        BY <3>2, <2>5 DEF StreamInv, Placed
      <3> QED BY <3>1, <3>2
    <2>11. ~Silent(e) => rflag'[e] = {}
      <3> SUFFICES ASSUME ~Silent(e) PROVE ~(Left(e) - MDU <= MTU)
        BY <2>2, <1>3
      <3>1. dsn[f] - FirstSeq(f) <= env.write[f] /\ env.write[f] \in Nat
            /\ dsn[f] \in Nat /\ FirstSeq(f) \in Nat
        BY <1>0, CountBound, WriteType, FirstSeqType DEF TypeOK
      <3>2. c + 1 \in Nat /\ c + 1 <= env.write[f]
        <4>1. Count(e) + 1 <= dsn[f] - FirstSeq(f)
          BY <1>7
        <4> HIDE DEF c, f
        <4>2. c \in Nat /\ Count(e) \in Nat /\ c <= Count(e)
          BY <2>1
        <4> QED BY <3>1, <4>1, <4>2
      <3>3. RcvCap - MDU * (c + 1) > MTU
        <4> HIDE DEF c
        <4> QED BY <3>2, WindowOpen
      <3>4. Left(e) - MDU = RcvCap - MDU * (c + 1)
        <4>1. Left(e) = RcvCap - MDU * c
          BY DEF Left
        <4> HIDE DEF c
        <4>2. MDU * (c + 1) = MDU * c + MDU /\ MDU * c \in Nat
          BY <2>1, SizeAssumption
        <4> QED BY <4>1, <4>2, SizeAssumption
      <3>5. MTU \in Nat /\ Left(e) - MDU \in Int
        BY SizeAssumption, LeftType DEF MTU
      <3> HIDE DEF c
      <3> QED BY <3>3, <3>4, <3>5
    <2>12. NoWindowPacks'
      BY <2>5, <2>11, <1>1 DEF StreamInv, NoWindowPacks, Silent
    <2> QED BY <1>1, <1>4, <1>5, <2>10, <2>12 DEF StreamInv
  <1> QED BY <1>2, <1>6, <1>7, InTurnPack

LEMMA DeliverEndStream ==
  ASSUME WindowsStayOpen, TypeOK, StreamInv, UNCHANGED env, NEW e \in End, DeliverEnd(e)
  PROVE  StreamInv'
  <1>1. UNCHANGED <<env, wrote, read, sb, dsn, sending, flights, rb, standby, rcvNext, rcvd, net, ctl>>
    BY DEF DeliverEnd, appVars, sndVars
  <1>2. Written' /\ Labelled' /\ Placed'
    BY <1>1, WrittenFrame, LabelledFrame, PlacedFrame DEF StreamInv
  <1>3. ASSUME ~Silent(e), Left(e) < MDU PROVE FALSE
    <2> DEFINE c == Len(standby[e])
    <2>1. c \in Nat /\ c <= env.write[Peer(e)]
      <3>1. Count(e) \in Nat /\ c \in Nat /\ c <= Count(e) /\ Count(e) <= env.write[Peer(e)]
        BY CountBound
      <3>2. env.write[Peer(e)] \in Nat
        BY WriteType, PeerFacts
      <3> HIDE DEF c
      <3> QED BY <3>1, <3>2
    <2>2. Left(e) = RcvCap - MDU * c
      BY DEF Left
    <2> HIDE DEF c
    <2>3. RcvCap - MDU * c > MTU
      BY <1>3, <2>1, WindowOpen
    <2>4. Left(e) \in Int /\ MTU = MDU + HeaderLen
      BY LeftType DEF MTU
    <2> QED BY <1>3, <2>2, <2>3, <2>4, SizeAssumption
  <1>4. rflag' = rflag \/ (Left(e) < MDU /\ rflag' = [rflag EXCEPT ![e] = @ \cup {"LESS"}])
    BY DEF DeliverEnd
  <1>5. NoWindowPacks'
    <2>1. rflag \in [End -> SUBSET {"LESS", "MORE"}]
      BY DEF TypeOK
    <2>2. \A x \in End : ~Silent(x) => rflag'[x] = rflag[x]
      BY <1>3, <1>4, <2>1
    <2> QED BY <2>2, <1>1 DEF StreamInv, NoWindowPacks, Silent
  <1> QED BY <1>1, <1>2, <1>5 DEF StreamInv

LEMMA SwapStream ==
  ASSUME TypeOK, StreamInv, UNCHANGED env, NEW e \in End, Swap(e)
  PROVE  StreamInv'
  <1>1. UNCHANGED <<env, wrote, read, sb, dsn, sending, flights, rcvNext, rcvd, net, ctl>>
    BY DEF Swap, appVars, sndVars
  <1>2. Written' /\ Labelled'
    BY <1>1, WrittenFrame, LabelledFrame DEF StreamInv
  <1>3. CASE ~MaySwap(e)
    <2>1. UNCHANGED <<rb, standby, rflag>>
      BY <1>3 DEF Swap
    <2> QED BY <2>1, <1>1, <1>2, NoWindowPacksFrame, PlacedFrame DEF StreamInv
  <1>4. CASE MaySwap(e)
    <2>1. /\ rb' = [rb EXCEPT ![e] = standby[e]]
          /\ standby' = [standby EXCEPT ![e] = rb[e]]
          /\ rflag' = [rflag EXCEPT ![e] = Swapped(e)]
          /\ rb[e] = <<>>
      BY <1>4 DEF Swap, MaySwap
    <2>2. /\ rb \in [End -> Seq(Nat)] /\ standby \in [End -> Seq(Nat)]
          /\ rflag \in [End -> SUBSET {"LESS", "MORE"}]
      BY DEF TypeOK
    <2>3. /\ rb'[e] = standby[e] /\ standby'[e] = <<>>
          /\ \A x \in End : x # e => rb'[x] = rb[x] /\ standby'[x] = standby[x] /\ rflag'[x] = rflag[x]
      BY <2>1, <2>2
    <2>4. NoWindowPacks'
      <3>1. ~Silent(e) => rflag'[e] = {}
        <4>1. ~Silent(e) => rflag[e] = {}
          BY DEF StreamInv, NoWindowPacks
        <4>2. rflag'[e] = Swapped(e)
          BY <2>1, <2>2
        <4> QED BY <4>1, <4>2 DEF Swapped
      <3> QED BY <3>1, <2>3, <1>1 DEF StreamInv, NoWindowPacks, Silent
    <2>5. Placed'
      <3> DEFINE a == Len(read[e])
                 c == Len(standby[e])
      <3>1. a \in Nat /\ c \in Nat /\ Len(rb[e]) = 0 /\ Len(standby'[e]) = 0 /\ Len(rb'[e]) = c
        BY <2>1, <2>3, CountBound
      <3>2. Count(e) = a + 0 + c /\ Count(e)' = a + c + 0
        BY <3>1, <1>1 DEF Count
      <3>3. \A i \in 1..c : standby[e][i] = a + 0 + i
        BY <3>1 DEF StreamInv, Placed
      <3>4. \A i \in 1..Len(rb'[e]) : rb'[e][i] = a + i
        <4>1. \A i \in 1..Len(rb'[e]) : rb'[e][i] = a + 0 + i
          BY <3>1, <3>3, <2>3
        <4>2. a + 0 = a
          <5> HIDE DEF a
          <5> QED BY <3>1
        <4> QED BY <4>1, <4>2
      <3>5. Count(e)' = Count(e)
        <4> HIDE DEF a, c
        <4> QED BY <3>1, <3>2
      <3>6. \A x \in End : Count(x)' = Count(x)
        BY <3>5, <2>3, <1>1 DEF Count
      <3>7. \A i \in 1..Len(standby'[e]) : FALSE
        BY <3>1
      <3> QED BY <3>4, <3>6, <3>7, <2>3, <1>1 DEF StreamInv, Placed, Silent
    <2> QED BY <1>1, <1>2, <2>4, <2>5 DEF StreamInv
  <1> QED BY <1>3, <1>4

-----------------------------------------------------------------------------
(* What leaves for the peer.                                               *)

LEMMA InjectOnly ==
  ASSUME TypeOK, NEW e \in End, NEW packs, Inject(e, packs)
  PROVE  \A x \in End : \A m \in net'[x] :
           \/ m \in net[x]
           \/ x = Peer(e) /\ \E p \in packs : m.kind = p.kind /\ m.seq = p.seq /\ m.chunk = p.chunk
  <1> SUFFICES ASSUME NEW x \in End, NEW m \in net'[x], m \notin net[x]
               PROVE  x = Peer(e) /\ \E p \in packs :
                        m.kind = p.kind /\ m.seq = p.seq /\ m.chunk = p.chunk
    OBVIOUS
  <1>1. net \in [End -> SUBSET NetPacks]
    BY DEF TypeOK
  <1>2. x = Peer(e) /\ m \in {SendPack(e, p) : p \in packs}
    BY <1>1, PeerFacts DEF Inject
  <1>3. PICK p \in packs : m = SendPack(e, p)
    BY <1>2
  <1> QED BY <1>2, <1>3 DEF SendPack

LEMMA CheckFlightsStream ==
  ASSUME TypeOK, StreamInv, UNCHANGED env, NEW e \in End, CheckFlights(e)
  PROVE  StreamInv'
  <1>1. UNCHANGED <<env, wrote, read, sb, dsn, sending, rcvNext, rcvd, rb, standby, rflag, ctl>>
    BY DEF CheckFlights, appVars, sndVars, rcvVars
  <1>2. Written' /\ Placed'
    BY <1>1, WrittenFrame, PlacedFrame DEF StreamInv
  <1>3. Labelled /\ NoWindowPacks
    BY DEF StreamInv
  <1>4. flights \in [End -> SUBSET DatPacks]
    BY DEF TypeOK
  <1>5. PICK due \in SUBSET Kept(e) : Inject(e, due)
    BY DEF CheckFlights
  <1>6. due \subseteq flights[e] /\ \A p \in due : p.kind = "DAT" /\ Carries(e, p)
    <2>1. Kept(e) \subseteq flights[e]
      BY DEF Kept
    <2>2. \A p \in flights[e] : p \in DatPacks /\ Carries(e, p)
      BY <1>3, <1>4 DEF Labelled
    <2>3. \A p \in DatPacks : p.kind = "DAT"
      BY DEF DatPacks
    <2> QED BY <2>1, <2>2, <2>3
  <1>7. \A x \in End : flights'[x] \subseteq flights[x]
    <2>1. flights' = [flights EXCEPT ![e] = Kept(e)]
      BY DEF CheckFlights
    <2> QED BY <2>1, <1>4 DEF Kept
  <1>8. ASSUME NEW x \in End, NEW m \in net'[Peer(x)]
        PROVE  /\ IF m.kind = "DAT" THEN Carries(x, m) ELSE m.chunk = NoChunk
               /\ ~Silent(x) => m.kind # "WND"
    <2>1. CASE m \in net[Peer(x)]
      BY <2>1, <1>3 DEF Labelled, NoWindowPacks
    <2>2. CASE m \notin net[Peer(x)]
      <3>1. Peer(x) = Peer(e) /\ \E p \in due : m.kind = p.kind /\ m.seq = p.seq /\ m.chunk = p.chunk
        BY <2>2, <1>5, <1>8, InjectOnly, PeerFacts
      <3>2. x = e
        BY <3>1, PeerFacts
      <3>3. m.kind = "DAT" /\ Carries(e, m)
        BY <3>1, <1>6 DEF Carries, CarriesBelow
      <3> QED BY <3>2, <3>3
    <2> QED BY <2>1, <2>2
  <1>9. Labelled' /\ NoWindowPacks'
    BY <1>1, <1>3, <1>7, <1>8 DEF Labelled, NoWindowPacks, Carries, CarriesBelow, Silent
  <1> QED BY <1>1, <1>2, <1>9 DEF StreamInv

(* The control packs of a pass. *)
LEMMA CtlQueueKinds ==
  ASSUME TypeOK, StreamInv, NEW e \in End,
         NEW probe \in (IF "MORE" \in rflag[e] THEN BOOLEAN ELSE {FALSE}),
         NEW i \in 1..Len(CtlQueue(e, probe))
  PROVE  /\ CtlQueue(e, probe)[i].kind # "DAT" /\ CtlQueue(e, probe)[i].chunk = NoChunk
         /\ ~Silent(e) => CtlQueue(e, probe)[i].kind # "WND"
  <1>1. ctl[e] \in Seq(CtlPacks)
    BY DEF TypeOK
  <1>2. \A j \in 1..Len(ctl[e]) : /\ ctl[e][j].kind # "DAT" /\ ctl[e][j].chunk = NoChunk
                                  /\ ~Silent(e) => ctl[e][j].kind # "WND"
    BY DEF StreamInv, Labelled, NoWindowPacks
  <1>3. probe => Silent(e)
    BY DEF StreamInv, NoWindowPacks
  <1>4. CASE ~probe
    BY <1>2, <1>4 DEF CtlQueue
  <1>5. CASE probe /\ ctl[e] = <<>>
    <2> DEFINE W == Control("WND", dsn[e], {})
    <2>1. W.kind = "WND" /\ W.chunk = NoChunk /\ CtlQueue(e, probe) = <<W>>
      BY <1>5 DEF CtlQueue, Control
    <2> HIDE DEF W
    <2>2. CtlQueue(e, probe)[i] = W
      BY <2>1
    <2> QED BY <2>1, <2>2, <1>3, <1>5
  <1>6. CASE probe /\ ctl[e] # <<>>
    <2>1. CtlQueue(e, probe) = [ctl[e] EXCEPT ![1] = WithWnd(@)]
      BY <1>6 DEF CtlQueue
    <2>2. WithWnd(ctl[e][1]).kind = ctl[e][1].kind /\ WithWnd(ctl[e][1]).chunk = ctl[e][1].chunk
      BY DEF WithWnd
    <2>3. i \in 1..Len(ctl[e]) /\ 1 \in 1..Len(ctl[e])
      BY <2>1, <1>1, <1>6
    <2>4. /\ CtlQueue(e, probe)[i].kind = ctl[e][i].kind
          /\ CtlQueue(e, probe)[i].chunk = ctl[e][i].chunk
      BY <2>1, <2>2, <2>3, <1>1
    <2> QED BY <2>3, <2>4, <1>2
  <1> QED BY <1>4, <1>5, <1>6

(* The packs made of the next j chunks of sb carry the chunks of their      *)
(* numbers.                                                                 *)
LEMMA PacketisedCarries ==
  ASSUME TypeOK, StreamInv, NEW e \in End, NEW j \in 0..Len(sb[e]),
         NEW x \in 1..Len(Packetised(e, j))
  PROVE  /\ Packetised(e, j)[x].kind = "DAT"
         /\ FirstSeq(e) <= Packetised(e, j)[x].seq
         /\ Packetised(e, j)[x].seq < dsn[e] + j
         /\ Packetised(e, j)[x].chunk = Packetised(e, j)[x].seq - FirstSeq(e) + 1
  <1> DEFINE new == [i \in 1..j |-> Dat(dsn[e] + i - 1, sb[e][i])]
             a == Len(sending[e])
  <1>1. /\ sending[e] \in Seq(DatPacks) /\ sb[e] \in Seq(Nat) /\ dsn[e] \in Nat
        /\ FirstSeq(e) \in Nat
    BY FirstSeqType DEF TypeOK
  <1>2. j \in Nat /\ j <= Len(sb[e]) /\ a \in Nat
    BY <1>1
  <1>3. new \in Seq(DatPacks) /\ Len(new) = j
    <2>1. ASSUME NEW i \in 1..j PROVE Dat(dsn[e] + i - 1, sb[e][i]) \in DatPacks
      <3>1. i \in 1..Len(sb[e]) /\ dsn[e] + i - 1 \in Nat
        BY <1>1, <1>2
      <3>2. sb[e][i] \in Nat
        BY <1>1, <3>1, SMTT(30)
      <3> QED BY <3>1, <3>2 DEF Dat, DatPacks
    <2> QED BY <2>1, <1>2
  <1>4. /\ \A i \in 1..a : Carries(e, sending[e][i])
        /\ \A i \in 1..Len(sb[e]) : sb[e][i] = dsn[e] - FirstSeq(e) + i
        /\ FirstSeq(e) <= dsn[e]
    <2>1. /\ \A i \in 1..a : Carries(e, sending[e][i])
          /\ \A i \in 1..Len(sb[e]) : sb[e][i] = dsn[e] - FirstSeq(e) + i
      BY DEF StreamInv, Labelled, Written
    <2>2. Peer(e) \in End /\ Peer(Peer(e)) = e
      BY PeerFacts
    <2>3. Count(Peer(e)) <= dsn[e] - FirstSeq(e) /\ Count(Peer(e)) \in Nat
      BY <2>2, CountBound DEF StreamInv, Placed
    <2> QED BY <2>1, <2>3, <1>1
  <1>5. \A i \in 1..j : new[i].kind = "DAT" /\ new[i].seq = dsn[e] + i - 1 /\ new[i].chunk = sb[e][i]
    BY DEF Dat
  <1>6. Packetised(e, j) = sending[e] \o new
    BY DEF Packetised
  <1> HIDE DEF new
  <1>7. \/ x \in 1..a /\ Packetised(e, j)[x] = sending[e][x]
        \/ x - a \in 1..j /\ Packetised(e, j)[x] = new[x - a]
    BY <1>1, <1>3, <1>6
  <1>8. CASE x \in 1..a /\ Packetised(e, j)[x] = sending[e][x]
    <2>1. sending[e][x] \in DatPacks /\ Carries(e, sending[e][x])
      BY <1>1, <1>4, <1>8
    <2>2. sending[e][x].kind = "DAT" /\ sending[e][x].seq \in Nat
      BY <2>1 DEF DatPacks
    <2>3. /\ FirstSeq(e) <= sending[e][x].seq /\ sending[e][x].seq < dsn[e]
          /\ sending[e][x].chunk = sending[e][x].seq - FirstSeq(e) + 1
      BY <2>1 DEF Carries, CarriesBelow
    <2>4. sending[e][x].seq < dsn[e] + j
      BY <2>2, <2>3, <1>1, <1>2
    <2> QED BY <1>8, <2>2, <2>3, <2>4
  <1>9. CASE x - a \in 1..j /\ Packetised(e, j)[x] = new[x - a]
    <2> DEFINE y == x - a
    <2>1. y \in 1..j /\ y \in 1..Len(sb[e])
      BY <1>9, <1>1, <1>2
    <2> HIDE DEF y
    <2>2. new[y].kind = "DAT" /\ new[y].seq = dsn[e] + y - 1 /\ new[y].chunk = dsn[e] - FirstSeq(e) + y
      BY <2>1, <1>4, <1>5
    <2>3. /\ FirstSeq(e) <= dsn[e] + y - 1 /\ dsn[e] + y - 1 < dsn[e] + j
          /\ dsn[e] - FirstSeq(e) + y = (dsn[e] + y - 1) - FirstSeq(e) + 1
      BY <2>1, <1>1, <1>2, <1>4
    <2>4. Packetised(e, j)[x] = new[y]
      BY <1>9 DEF y
    <2> QED BY <2>2, <2>3, <2>4
  <1> QED BY <1>7, <1>8, <1>9

LEMMA CheckSendStream ==
  ASSUME TypeOK, StreamInv, UNCHANGED env, NEW e \in End, CheckSend(e)
  PROVE  StreamInv'
  <1>1. PICK probe \in (IF "MORE" \in rflag[e] THEN BOOLEAN ELSE {FALSE}) :
          LET q0 == CtlQueue(e, probe)
          IN \/ \E k \in 0..(Len(q0) - 1) :
                  /\ ctl' = [ctl EXCEPT ![e] = SubSeq(q0, k + 1, Len(q0))]
                  /\ Inject(e, Elements(SubSeq(q0, 1, k)))
                  /\ UNCHANGED <<sndVars, flights, status>>
             \/ \E j \in 0..Len(sb[e]) : \E i \in 0..(Len(sending[e]) + j) :
                  /\ ctl' = [ctl EXCEPT ![e] = <<>>]
                  /\ Inject(e, Elements(q0) \cup {Packetised(e, j)[x] : x \in 1..i})
                  /\ SendData(e, Packetised(e, j), i, j)
    BY DEF CheckSend
  <1> DEFINE q0 == CtlQueue(e, probe)
  <1>2. probe \in BOOLEAN
    OBVIOUS
  <1>3. q0 \in Seq(CtlPacks)
    BY <1>2, CtlQueueType
  <1>4. \A x \in 1..Len(q0) : /\ q0[x].kind # "DAT" /\ q0[x].chunk = NoChunk
                              /\ ~Silent(e) => q0[x].kind # "WND"
    BY CtlQueueKinds
  <1>5. UNCHANGED <<env, wrote, read, rcvNext, rcvd, rb, standby, rflag>>
    BY DEF CheckSend, appVars, rcvVars
  <1>6. /\ ctl \in [End -> Seq(CtlPacks)] /\ sb \in [End -> Seq(Nat)] /\ dsn \in [End -> Nat]
        /\ sending \in [End -> Seq(DatPacks)] /\ flights \in [End -> SUBSET DatPacks]
    BY DEF TypeOK
  <1>7. Written /\ Labelled /\ NoWindowPacks /\ Placed
    BY DEF StreamInv
  <1> HIDE DEF q0
  <1>8. ASSUME NEW k \in 0..(Len(q0) - 1),
               ctl' = [ctl EXCEPT ![e] = SubSeq(q0, k + 1, Len(q0))],
               Inject(e, Elements(SubSeq(q0, 1, k))),
               UNCHANGED <<sndVars, flights, status>>
        PROVE  StreamInv'
    <2>1. UNCHANGED <<sb, dsn, sending, flights>>
      BY <1>8 DEF sndVars
    <2>2. Written' /\ Placed'
      BY <2>1, <1>5, <1>7, WrittenFrame, PlacedFrame
    <2>3. \A x \in 1..k : x \in 1..Len(q0) /\ SubSeq(q0, 1, k)[x] = q0[x]
      BY <1>3
    <2>4. Len(SubSeq(q0, 1, k)) = k
      BY <1>3
    <2>5. \A p \in Elements(SubSeq(q0, 1, k)) : \E x \in 1..Len(q0) : p = q0[x]
      BY <2>3, <2>4 DEF Elements
    <2>6. ASSUME NEW x \in End, NEW m \in net'[Peer(x)]
          PROVE  /\ IF m.kind = "DAT" THEN Carries(x, m) ELSE m.chunk = NoChunk
                 /\ ~Silent(x) => m.kind # "WND"
      <3>1. CASE m \in net[Peer(x)]
        BY <3>1, <1>7 DEF Labelled, NoWindowPacks
      <3>2. CASE m \notin net[Peer(x)]
        <4>1. /\ Peer(x) = Peer(e)
              /\ \E p \in Elements(SubSeq(q0, 1, k)) :
                   m.kind = p.kind /\ m.seq = p.seq /\ m.chunk = p.chunk
          BY <3>2, <1>8, <2>6, InjectOnly, PeerFacts
        <4>2. x = e
          BY <4>1, PeerFacts
        <4> QED BY <4>1, <4>2, <2>5, <1>4
      <3> QED BY <3>1, <3>2
    <2>7. ASSUME NEW x \in End, NEW i \in 1..Len(ctl'[x])
          PROVE  /\ ctl'[x][i].kind # "DAT" /\ ctl'[x][i].chunk = NoChunk
                 /\ ~Silent(x) => ctl'[x][i].kind # "WND"
      <3>1. CASE x # e
        BY <3>1, <2>7, <1>6, <1>7, <1>8 DEF Labelled, NoWindowPacks
      <3>2. CASE x = e
        <4>1. ctl'[e] = SubSeq(q0, k + 1, Len(q0))
          BY <1>6, <1>8
        <4>2. Len(ctl'[e]) = Len(q0) - k
          BY <4>1, <1>3
        <4>3. k + i \in 1..Len(q0) /\ ctl'[e][i] = q0[k + i]
          BY <3>2, <2>7, <4>1, <4>2, <1>3
        <4> QED BY <3>2, <4>3, <1>4
      <3> QED BY <3>1, <3>2
    <2>8. Labelled' /\ NoWindowPacks'
      BY <2>1, <2>6, <2>7, <1>5, <1>7 DEF Labelled, NoWindowPacks, Carries, CarriesBelow, Silent
    <2> QED BY <2>2, <2>8, <1>5 DEF StreamInv
  <1>9. ASSUME NEW j \in 0..Len(sb[e]), NEW i \in 0..(Len(sending[e]) + j),
               ctl' = [ctl EXCEPT ![e] = <<>>],
               Inject(e, Elements(q0) \cup {Packetised(e, j)[x] : x \in 1..i}),
               SendData(e, Packetised(e, j), i, j)
        PROVE  StreamInv'
    <2> DEFINE q == Packetised(e, j)
    <2>1. q \in Seq(DatPacks) /\ Len(q) = Len(sending[e]) + j
      BY PacketisedType
    <2>2. /\ sending' = [sending EXCEPT ![e] = SubSeq(q, i + 1, Len(q))]
          /\ sb' = [sb EXCEPT ![e] = SubSeq(@, j + 1, Len(@))]
          /\ dsn' = [dsn EXCEPT ![e] = @ + j]
          /\ flights' = [flights EXCEPT ![e] = @ \cup {q[x] : x \in 1..i}]
      BY <1>9 DEF SendData
    <2>3. \A x \in 1..Len(q) : /\ q[x].kind = "DAT" /\ FirstSeq(e) <= q[x].seq /\ q[x].seq < dsn[e] + j
                               /\ q[x].chunk = q[x].seq - FirstSeq(e) + 1
      BY PacketisedCarries
    <2>4. Inject(e, Elements(q0) \cup {q[x] : x \in 1..i})
      BY <1>9
    <2> HIDE DEF q
    <2>5. sb[e] \in Seq(Nat) /\ dsn[e] \in Nat /\ FirstSeq(e) \in Nat /\ sending[e] \in Seq(DatPacks)
      BY <1>6, FirstSeqType
    <2>6. i \in Nat /\ j \in Nat /\ i <= Len(q) /\ j <= Len(sb[e])
      BY <2>1, <2>5
    <2>7. dsn'[e] = dsn[e] + j /\ \A x \in End : x # e => dsn'[x] = dsn[x]
      BY <2>2, <1>6
    <2>8. \A x \in 1..Len(q) : CarriesBelow(e, q[x], dsn'[e])
      BY <2>3, <2>7 DEF Carries, CarriesBelow
    <2>9. ASSUME NEW x \in End, NEW p, p.seq \in Nat, Carries(x, p) PROVE CarriesBelow(x, p, dsn'[x])
      <3>1. dsn[x] \in Nat /\ dsn'[x] >= dsn[x] /\ dsn'[x] \in Nat
        <4>1. dsn[x] \in Nat
          BY <1>6
        <4>2. CASE x # e
          BY <4>1, <4>2, <2>7
        <4>3. CASE x = e
          BY <4>1, <4>3, <2>6, <2>7
        <4> QED BY <4>1, <4>2, <4>3
      <3>2. p.seq < dsn'[x]
        BY <3>1, <2>9 DEF Carries, CarriesBelow
      <3> QED BY <2>9, <3>2 DEF Carries, CarriesBelow
    <2>10. Written'
      <3>1. /\ wrote[e] = dsn[e] - FirstSeq(e) + Len(sb[e])
            /\ \A y \in 1..Len(sb[e]) : sb[e][y] = dsn[e] - FirstSeq(e) + y
        BY <1>7 DEF Written
      <3>2. sb'[e] = SubSeq(sb[e], j + 1, Len(sb[e])) /\ \A x \in End : x # e => sb'[x] = sb[x]
        BY <2>2, <1>6
      <3>3. /\ Len(sb'[e]) = Len(sb[e]) - j /\ Len(sb[e]) \in Nat
            /\ \A y \in 1..Len(sb'[e]) : j + y \in 1..Len(sb[e]) /\ sb'[e][y] = sb[e][j + y]
        BY <3>2, <2>5, <2>6
      <3>4. wrote[e] = dsn'[e] - FirstSeq(e) + Len(sb'[e])
        BY <3>1, <3>3, <2>5, <2>6, <2>7
      <3>5. ASSUME NEW y \in 1..Len(sb'[e]) PROVE sb'[e][y] = dsn'[e] - FirstSeq(e) + y
        <4>1. sb'[e][y] = dsn[e] - FirstSeq(e) + (j + y)
          BY <3>1, <3>3
        <4>2. y \in Nat
          BY <3>3
        <4> QED BY <4>1, <4>2, <2>5, <2>6, <2>7
      <3> QED BY <3>2, <3>4, <3>5, <2>7, <1>5, <1>7 DEF Written
    <2>11. Placed'
      <3>1. \A x \in End : Count(x)' = Count(x)
        BY <1>5 DEF Count
      <3>2. ASSUME NEW x \in End PROVE Count(x) <= dsn'[Peer(x)] - FirstSeq(Peer(x))
        <4>1. /\ Count(x) \in Nat /\ dsn[Peer(x)] \in Nat /\ FirstSeq(Peer(x)) \in Nat
              /\ Count(x) <= dsn[Peer(x)] - FirstSeq(Peer(x))
          BY <1>6, <1>7, CountBound, PeerFacts, FirstSeqType DEF Placed
        <4>2. dsn'[Peer(x)] \in Nat /\ dsn'[Peer(x)] >= dsn[Peer(x)]
          BY <4>1, <2>5, <2>6, <2>7, PeerFacts, SMTT(30)
        <4> QED BY <4>1, <4>2
      <3> QED BY <3>1, <3>2, <1>5, <1>7 DEF Placed, Silent
    <2>12. ASSUME NEW x \in End, NEW y \in 1..Len(sending'[x]) PROVE CarriesBelow(x, sending'[x][y], dsn'[x])
      <3>1. CASE x # e
        <4>1. sending'[x] = sending[x] /\ sending[x] \in Seq(DatPacks)
          BY <3>1, <2>2, <1>6
        <4>2. sending[x][y].seq \in Nat /\ Carries(x, sending[x][y])
          <5>1. sending[x][y] \in DatPacks
            BY <4>1, <2>12
          <5> QED BY <5>1, <4>1, <2>12, <1>7 DEF Labelled, DatPacks
        <4> QED BY <4>1, <4>2, <2>9, <3>1, <2>7 DEF Carries, CarriesBelow
      <3>2. CASE x = e
        <4>1. sending'[e] = SubSeq(q, i + 1, Len(q))
          BY <2>2, <1>6
        <4>2. i + y \in 1..Len(q) /\ sending'[e][y] = q[i + y]
          BY <4>1, <3>2, <2>1, <2>6, <2>12
        <4>3. CarriesBelow(e, q[i + y], dsn'[e])
          BY <4>2, <2>8
        <4> QED BY <4>2, <4>3, <3>2 DEF Carries, CarriesBelow
      <3> QED BY <3>1, <3>2
    <2>13. ASSUME NEW x \in End, NEW p \in flights'[x] PROVE CarriesBelow(x, p, dsn'[x])
      <3>1. CASE p \in flights[x]
        <4>1. p.seq \in Nat /\ Carries(x, p)
          <5>1. p \in DatPacks
            BY <3>1, <1>6
          <5> QED BY <5>1, <3>1, <1>7 DEF Labelled, DatPacks
        <4> QED BY <4>1, <2>9
      <3>2. CASE p \notin flights[x]
        <4>1. x = e /\ \E y \in 1..i : p = q[y]
          BY <3>2, <2>2, <2>13, <1>6
        <4> QED BY <4>1, <2>6, <2>8
      <3> QED BY <3>1, <3>2
    <2>14. ASSUME NEW x \in End, NEW m \in net'[Peer(x)]
           PROVE  /\ IF m.kind = "DAT" THEN CarriesBelow(x, m, dsn'[x]) ELSE m.chunk = NoChunk
                  /\ ~Silent(x) => m.kind # "WND"
      <3>1. CASE m \in net[Peer(x)]
        <4>1. m.seq \in Nat
          <5>1. Peer(x) \in End
            BY PeerFacts
          <5>2. m \in NetPacks
            BY <5>1, <3>1 DEF TypeOK
          <5> QED BY <5>2 DEF NetPacks
        <4>2. /\ IF m.kind = "DAT" THEN Carries(x, m) ELSE m.chunk = NoChunk
              /\ ~Silent(x) => m.kind # "WND"
          BY <3>1, <1>7 DEF Labelled, NoWindowPacks
        <4> QED BY <4>1, <4>2, <2>9
      <3>2. CASE m \notin net[Peer(x)]
        <4>1. /\ Peer(x) = Peer(e)
              /\ \E p \in Elements(q0) \cup {q[y] : y \in 1..i} :
                   m.kind = p.kind /\ m.seq = p.seq /\ m.chunk = p.chunk
          BY <3>2, <2>4, <2>14, InjectOnly, PeerFacts
        <4>2. x = e
          BY <4>1, PeerFacts
        <4>3. PICK p \in Elements(q0) \cup {q[y] : y \in 1..i} :
                m.kind = p.kind /\ m.seq = p.seq /\ m.chunk = p.chunk
          BY <4>1
        <4>4. CASE p \in Elements(q0)
          BY <4>2, <4>3, <4>4, <1>4 DEF Elements
        <4>5. ASSUME NEW y \in 1..i, p = q[y]
              PROVE  m.kind = "DAT" /\ CarriesBelow(e, m, dsn'[e])
          <5>1. y \in 1..Len(q)
            BY <2>1, <2>6
          <5>2. p.kind = "DAT" /\ CarriesBelow(e, q[y], dsn'[e])
            BY <5>1, <4>5, <2>3, <2>8
          <5> QED BY <5>2, <4>3, <4>5 DEF Carries, CarriesBelow
        <4> QED BY <4>2, <4>3, <4>4, <4>5
      <3> QED BY <3>1, <3>2
    <2>15. ASSUME NEW x \in End, NEW y \in 1..Len(ctl'[x])
           PROVE  /\ ctl'[x][y].kind # "DAT" /\ ctl'[x][y].chunk = NoChunk
                  /\ ~Silent(x) => ctl'[x][y].kind # "WND"
      <3>1. x # e /\ ctl'[x] = ctl[x]
        BY <2>15, <1>6, <1>9
      <3> QED BY <3>1, <2>15, <1>7 DEF Labelled, NoWindowPacks
    <2>16. ASSUME NEW x \in End, NEW p \in rcvd'[Peer(x)]
           PROVE  CarriesBelow(x, p, dsn'[x]) \/ (p.chunk = NoChunk /\ Silent(x))
      <3>1. p \in rcvd[Peer(x)] /\ p.seq \in Nat
        <4>1. p \in rcvd[Peer(x)] /\ Peer(x) \in End
          BY <2>16, <1>5, PeerFacts
        <4>2. rcvd[Peer(x)] \subseteq [seq : Nat, chunk : Nat]
          BY <4>1 DEF TypeOK
        <4> QED BY <4>1, <4>2
      <3>2. Carries(x, p) \/ (p.chunk = NoChunk /\ Silent(x))
        BY <3>1, <1>7 DEF Labelled
      <3> QED BY <3>1, <3>2, <2>9
    <2>17. Silent(e)' = Silent(e) /\ \A x \in End : Silent(x)' = Silent(x)
      BY <1>5 DEF Silent
    <2>18. Labelled'
      BY <2>12, <2>13, <2>14, <2>15, <2>16, <2>17 DEF Labelled, Carries
    <2>19. NoWindowPacks'
      BY <2>14, <2>15, <2>17, <1>5, <1>7 DEF NoWindowPacks
    <2> QED BY <2>10, <2>11, <2>18, <2>19, <1>5 DEF StreamInv
  <1> QED BY <1>1, <1>8, <1>9 DEF q0

-----------------------------------------------------------------------------
LEMMA FaultsStream ==
  ASSUME TypeOK, StreamInv, UNCHANGED env, NEW e \in End, SocketError(e) \/ Lose(e)
  PROVE  StreamInv'
  <1>1. UNCHANGED <<env, wrote, read, sb, dsn, sending, flights, rcvNext, rcvd, rb, standby, rflag, ctl>>
    BY DEF SocketError, Lose, appVars, sndVars, rcvVars
  <1>2. \A x \in End : net'[x] \subseteq net[x]
    <2>1. net \in [End -> SUBSET NetPacks]
      BY DEF TypeOK
    <2> QED BY <2>1 DEF SocketError, Lose
  <1>3. Written' /\ Placed'
    BY <1>1, WrittenFrame, PlacedFrame DEF StreamInv
  <1>4. Labelled'
    BY <1>1, <1>2, PeerFacts DEF StreamInv, Labelled, Carries, Silent
  <1>5. NoWindowPacks'
    BY <1>1, <1>2, PeerFacts DEF StreamInv, NoWindowPacks, Silent
  <1> QED BY <1>1, <1>3, <1>4, <1>5 DEF StreamInv

LEMMA StepStream ==
  ASSUME WindowsStayOpen, TypeOK, StreamInv, [Step /\ UNCHANGED env]_vars
  PROVE  StreamInv'
  <1>1. CASE UNCHANGED vars
    <2>1. UNCHANGED <<env, wrote, read, sb, dsn, sending, flights, rcvNext, rcvd, rb, standby, rflag, ctl, net>>
      BY <1>1 DEF vars, appVars, sndVars, rcvVars
    <2> QED BY <2>1, WrittenFrame, LabelledFrame, NoWindowPacksFrame, PlacedFrame DEF StreamInv
  <1>2. CASE Step /\ UNCHANGED env
    BY <1>2, SendStream, RecvStream, CheckRecvStream, CheckRecvIdleStream, DeliverPackStream,
       DeliverEndStream, SwapStream, CheckFlightsStream, CheckSendStream, FaultsStream DEF Step
  <1> QED BY <1>1, <1>2

(* NoGap speaks of the concatenation of the three parts. *)
LEMMA StreamNoGap == TypeOK /\ StreamInv => NoGap
  <1> SUFFICES ASSUME TypeOK, StreamInv, NEW e \in End, NEW i \in 1..Len(Delivered(e))
               PROVE  Delivered(e)[i] = i
    BY DEF NoGap
  <1> DEFINE s == read[e]
             t == rb[e]
             u == standby[e]
             a == Len(s)
             b == Len(t)
             c == Len(u)
  <1>1. s \in Seq(Nat) /\ t \in Seq(Nat) /\ u \in Seq(Nat)
    BY DEF TypeOK
  <1>2. /\ \A k \in 1..a : s[k] = k
        /\ \A k \in 1..b : t[k] = a + k
        /\ \A k \in 1..c : u[k] = a + b + k
    BY DEF StreamInv, Placed
  <1>3. Delivered(e) = (s \o t) \o u
    BY DEF Delivered
  <1>4. a \in Nat /\ b \in Nat /\ c \in Nat
    BY <1>1
  <1> HIDE DEF s, t, u
  <1>5. /\ s \o t \in Seq(Nat) /\ Len(s \o t) = a + b
        /\ \A k \in 1..a : (s \o t)[k] = s[k]
        /\ \A k \in 1..b : (s \o t)[a + k] = t[k]
    BY <1>1, ConcatFacts
  <1>6. /\ Len((s \o t) \o u) = (a + b) + c
        /\ \A k \in 1..Len(s \o t) : ((s \o t) \o u)[k] = (s \o t)[k]
        /\ \A k \in 1..c : ((s \o t) \o u)[Len(s \o t) + k] = u[k]
    BY <1>1, <1>5, ConcatFacts
  <1> DEFINE st == s \o t
  <1> HIDE DEF a, b, c, st
  <1>7. i \in 1..((a + b) + c)
    BY <1>3, <1>6
  <1>8. CASE i \in 1..a
    <2>1. i \in 1..(a + b)
      BY <1>8, <1>4
    <2>2. Delivered(e)[i] = s[i]
      BY <2>1, <1>3, <1>5, <1>6, <1>8
    <2> QED BY <2>2, <1>2, <1>8
  <1>9. CASE i \in (a + 1)..(a + b)
    <2>1. i \in 1..(a + b) /\ i - a \in 1..b /\ a + (i - a) = i
      BY <1>9, <1>4
    <2>2. (s \o t)[a + (i - a)] = t[i - a] /\ t[i - a] = a + (i - a)
      BY <2>1, <1>2, <1>5
    <2>3. Delivered(e)[i] = (s \o t)[i]
      BY <2>1, <1>3, <1>5, <1>6
    <2> QED BY <2>1, <2>2, <2>3
  <1>10. CASE i \in (a + b + 1)..((a + b) + c)
    <2>1. i - (a + b) \in 1..c /\ (a + b) + (i - (a + b)) = i
      BY <1>10, <1>4
    <2>2. ((s \o t) \o u)[(a + b) + (i - (a + b))] = u[i - (a + b)]
          /\ u[i - (a + b)] = a + b + (i - (a + b))
      BY <2>1, <1>2, <1>5, <1>6
    <2> QED BY <2>1, <2>2, <1>3
  <1>11. i \in 1..a \/ i \in (a + 1)..(a + b) \/ i \in (a + b + 1)..((a + b) + c)
    BY <1>4, <1>7
  <1> QED BY <1>8, <1>9, <1>10, <1>11

(* The stream's invariant holds with or without calm. *)
LEMMA StreamInvariance ==
  ASSUME WindowsStayOpen
  PROVE  Init /\ [][Step /\ UNCHANGED env]_vars => [](Inv /\ StreamInv)
  <1>1. Inv /\ StreamInv /\ [Step /\ UNCHANGED env]_vars => (Inv /\ StreamInv)'
    BY StepInv, StepStream DEF Inv
  <1>2. Init => Inv /\ StreamInv
    BY InitInv, InitStream
  <1> QED BY <1>1, <1>2, PTL

(* However UDP loses, repeats and reorders packs, and wherever the pass of  *)
(* the ticker is interrupted by a call of send or recv, check_recv hands    *)
(* the application exactly the chunks its peer wrote, from the first,       *)
(* without a gap: wherever no end that writes has its own window closed.    *)
THEOREM NoGapHolds ==
  ASSUME WindowsStayOpen PROVE Spec => []NoGap
  <1>1. Next => Step /\ UNCHANGED env
    BY DEF Next
  <1>2. [Next]_vars => [Step /\ UNCHANGED env]_vars
    BY <1>1
  <1>3. Inv /\ StreamInv => NoGap
    BY StreamNoGap DEF Inv
  <1> QED BY <1>2, <1>3, StreamInvariance, PTL DEF Spec

-----------------------------------------------------------------------------
(* The refinement of WcpStream.                                            *)

LEMMA StepOfLive == [LNext]_lvars => [Step /\ UNCHANGED env]_vars
  <1> SUFFICES ASSUME [LNext]_lvars PROVE [Step /\ UNCHANGED env]_vars
    OBVIOUS
  <1>1. CASE UNCHANGED lvars \/ CalmDown
    BY <1>1 DEF lvars, CalmDown
  <1>2. CASE Rough
    BY <1>2 DEF Rough, Next
  <1>3. ASSUME NEW e \in End, Calls(e) PROVE Step /\ UNCHANGED env
    BY <1>3 DEF Calls, Step
  <1>4. ASSUME NEW e \in End, Pass(e) PROVE Step /\ UNCHANGED env
    <2>1. net[e] \in SUBSET net[e] /\ {} \in SUBSET net[e]
      OBVIOUS
    <2>2. UNCHANGED env
      BY <1>4 DEF Pass
    <2>3. CASE CheckRecv(e, net[e], {})
      BY <2>1, <2>2, <2>3 DEF Step
    <2>4. CASE ~CheckRecv(e, net[e], {})
      BY <1>4, <2>2, <2>4 DEF Pass, Step
    <2> QED BY <2>3, <2>4
  <1> QED BY <1>1, <1>2, <1>3, <1>4 DEF LNext

LEMMA StreamWrite ==
  ASSUME TypeOK, StreamInv, NEW e \in End, NEW n \in 1..MaxCall, Send(e, n)
  PROVE  Stream!Write(e)
  <1> DEFINE left == SndCap - Len(sb[e])
             take == IF left > n THEN n ELSE left
  <1>1. n \in Nat \ {0} /\ left \in Int /\ MaxCall \in Nat /\ n <= MaxCall
    BY SizeAssumption, BoundAssumption DEF TypeOK
  <1>2. take \in 1..MaxCall
    BY <1>1 DEF Send
  <1>3. wrote' = [wrote EXCEPT ![e] = @ + take] /\ UNCHANGED read
    BY DEF Send
  <1> QED BY <1>2, <1>3 DEF Stream!Write

LEMMA StreamRead ==
  ASSUME TypeOK, StreamInv, NEW e \in End, NEW n \in 1..MaxCall, Recv(e, n)
  PROVE  Stream!Read(e)
  <1> DEFINE take == IF Len(rb[e]) > n THEN n ELSE Len(rb[e])
             out == SubSeq(rb[e], 1, take)
             told == [i \in 1..take |-> Len(read[e]) + i]
  <1>1. rb[e] \in Seq(Nat) /\ rb[e] # <<>> /\ Len(read[e]) \in Nat
    BY DEF TypeOK, Recv
  <1>2. Len(rb[e]) \in Nat \ {0} /\ n \in Nat \ {0} /\ MaxCall \in Nat /\ n <= MaxCall
    BY <1>1, BoundAssumption
  <1>3. take \in 1..MaxCall /\ take <= Len(rb[e])
    BY <1>2
  <1>4. read' = [read EXCEPT ![e] = @ \o out] /\ UNCHANGED wrote
    BY DEF Recv
  <1> HIDE DEF take
  <1>5. out = told
    <2>1. out \in Seq(Nat) /\ Len(out) = take /\ \A i \in 1..take : out[i] = rb[e][i]
      BY <1>1, <1>3
    <2>2. \A i \in 1..Len(rb[e]) : rb[e][i] = Len(read[e]) + i
      BY DEF StreamInv, Placed
    <2>3. \A i \in 1..take : out[i] = Len(read[e]) + i
      BY <2>1, <2>2, <1>2, <1>3
    <2>4. out = [i \in 1..take |-> out[i]]
      BY <2>1
    <2> HIDE DEF out
    <2> QED BY <2>3, <2>4
  <1>6. Len(read[e]) + take <= wrote[Stream!Other(e)]
    <2>1. Stream!Other(e) = Peer(e)
      BY DEF Stream!Other, Peer
    <2>2. Len(read[e]) + Len(rb[e]) <= Count(e) /\ Count(e) <= wrote[Peer(e)] /\ Count(e) \in Nat
      BY CountBound
    <2>3. wrote[Peer(e)] \in Nat
      BY PeerFacts DEF TypeOK
    <2> DEFINE a == Len(read[e])
               b == Len(rb[e])
    <2>4. a \in Nat /\ b \in Nat /\ take \in Nat /\ take <= b /\ a + b <= Count(e)
      <3>1. a \in Nat /\ b \in Nat
        BY <1>1, <1>2
      <3>2. take \in Nat /\ take <= b
        BY <1>3
      <3>3. a + b <= Count(e)
        BY <2>2
      <3> QED BY <3>1, <3>2, <3>3
    <2> HIDE DEF a, b
    <2>5. a + take <= wrote[Peer(e)]
      BY <2>2, <2>3, <2>4
    <2> QED BY <2>1, <2>5 DEF a
  <1>7. read' = [read EXCEPT ![e] = @ \o told]
    BY <1>4, <1>5
  <1> QED BY <1>3, <1>4, <1>6, <1>7 DEF Stream!Read

LEMMA StreamStep ==
  ASSUME TypeOK, StreamInv, [Step /\ UNCHANGED env]_vars
  PROVE  [Stream!SNext]_(Stream!svars)
  <1>1. CASE UNCHANGED vars
    BY <1>1 DEF vars, appVars, Stream!svars
  <1>2. ASSUME NEW e \in End, NEW n \in 1..MaxCall, Send(e, n) \/ Recv(e, n)
        PROVE  Stream!SNext
    <2>1. e \in Stream!Ends
      BY DEF Stream!Ends, End
    <2> QED BY <1>2, <2>1, StreamWrite, StreamRead DEF Stream!SNext
  <1>3. ASSUME NEW e \in End,
               \/ \E batch \in SUBSET net[e] : \E again \in SUBSET batch : CheckRecv(e, batch, again)
               \/ CheckRecvIdle(e) \/ (\E p \in rcvd[e] : DeliverPack(e, p)) \/ DeliverEnd(e)
               \/ Swap(e) \/ CheckFlights(e) \/ CheckSend(e) \/ SocketError(e) \/ Lose(e)
        PROVE  UNCHANGED Stream!svars
    BY <1>3 DEF CheckRecv, CheckRecvIdle, DeliverPack, DeliverEnd, Swap, CheckFlights, CheckSend,
                SocketError, Lose, appVars, Stream!svars
  <1> QED BY <1>1, <1>2, <1>3 DEF Step

LEMMA StreamInit == Init => Stream!SInit
  BY DEF Init, Stream!SInit, Stream!Ends, End

(* The data path implements the stream WCP promises the applications: with  *)
(* wrote and read mapped to themselves, send is a Write, recv is a Read of  *)
(* the oldest chunks that have not been read, and every other step of the   *)
(* tickers and of the network is a stutter.                                 *)
THEOREM StreamImplemented ==
  ASSUME WindowsStayOpen PROVE LSpec => ImplementsStream
  <1>1. LSpec => Init /\ [][Step /\ UNCHANGED env]_vars
    BY StepOfLive, PTL DEF LSpec, LInit
  <1>2. Inv /\ StreamInv /\ [Step /\ UNCHANGED env]_vars => [Stream!SNext]_(Stream!svars)
    BY StreamStep DEF Inv
  <1> QED BY <1>1, <1>2, StreamInvariance, StreamInit, PTL DEF ImplementsStream, Stream!SSpec
=============================================================================
