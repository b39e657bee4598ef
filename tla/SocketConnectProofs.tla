------------------------ MODULE SocketConnectProofs ------------------------
(***************************************************************************)
(* Proofs about how a connection comes about: what the caller of connect   *)
(* is told is what happened (OutcomeSoundHolds), for every environment,    *)
(* any number of frames, tasks and connections.                            *)
(*                                                                         *)
(* The inductive invariant has three parts.  Typed says what the variables *)
(* hold.  StreamsInv says which frames may be on their way to an end: none *)
(* reaches the connecting end before the accepted one has seen its HELLO,  *)
(* and only the accepted one gets a HELLO.  CallerInv says where the call  *)
(* is: untouched, waiting for the connect event (Waits), or later (Later), *)
(* and which tasks, watches and answers go with that.                      *)
(***************************************************************************)
EXTENDS SocketConnect, SequenceTheorems, WellFoundedInduction, TLAPS

Frames == [type : FrameTypes, n : Nat]
States == {"NONE", "OPENED", "CONNECTING", "CONNECTED", "CLOSED"}
Flags == SUBSET {"WATCH", "SHUT"}
Whos == {"none", "handshake", "hserr", "read", "rderr"}
Fns == {"none", "connected", "handshake", "read"}
Dhs == {"IDLE", "HANDSHAKE", "DATA_TRANSFER"}
OpSet == [op : {"watch", "unwatch"}, dir : {"R", "W"}, fn : Fns, inf : BOOLEAN]
Sockets == [st : States, rf : Flags, wf : Flags, dh : Dhs, parse : {"LEN", "CONTENT"}, rb : Seq(Parts)]
Nets == [tr : Seq(Parts), kin : Seq(Parts), rst : {"no", "pending", "taken"}]
Lss == [st : {"NONE", "LISTEN", "CLOSED"}, listed : BOOLEAN, watch : BOOLEAN, posted : Nat]
Typed ==
  /\ env \in Envs
  /\ ls \in Lss /\ ls.posted <= env.posted
  /\ so \in [Ends -> Sockets]
  /\ ctx \in [Ends -> [r : Fns, inf : BOOLEAN, w : Fns]]
  /\ ops \in [Ends -> Seq(OpSet)]
  /\ tasks \in [Ends -> [Kinds -> Nat]]
  /\ rd \in [Ends -> [who : Whos, always : BOOLEAN, new : Seq(Frames)]]
  /\ net \in [Ends -> Nets]
  /\ told \in [ok : Nat, err : Nat, acc : Nat]
  /\ sent \in [Ends -> Nat]
  /\ call \in {"idle", "begun", "blocking", "failed"}
  /\ conn \in {"none", "syn", "up", "refused"}

(* The frames that may be on their way to e, dhS being the state of the     *)
(* accepted end; TCP moves whole frames unless they are split.              *)
Types(e, dhS) == IF e = "S" THEN {"HELLO", "OK", "DATA", "LONG"}
                 ELSE IF env.tlp = "dh" /\ dhS = "IDLE" THEN {} ELSE {"RESP", "OK", "DATA", "LONG"}
To(e, dhS) == [f : [type : Types(e, dhS), n : Nat], part : 1..3]
Whole(q) == \E k \in 0..Len(q) : Len(q) = 3 * k
Buffered(s, dhS) == \A e \in Ends : s[e].rb \in Seq(To(e, dhS))
Carried(n, dhS) ==
  /\ n \in [Ends -> Nets]
  /\ \A e \in Ends : /\ n[e].kin \in Seq(To(e, dhS)) /\ n[e].tr \in Seq(To(e, dhS))
                     /\ ~env.split => Whole(n[e].tr)
StreamsInv ==
  /\ Buffered(so, so["S"].dh) /\ Carried(net, so["S"].dh)
  /\ env.tlp = "dh" /\ so["C"].dh = "DATA_TRANSFER" => so["S"].dh # "IDLE"

(* The caller, in environment v: cl is its call, cn the connection, s its   *)
(* socket, k its tasks, o its operations at the observer, c its entry       *)
(* there, w who reads, ok and err what was told.                            *)
Untouched(k, o, c, w, ok, err) ==
  /\ \A x \in Kinds : k[x] = 0
  /\ o = <<>> /\ c = NoCtx /\ w = "none" /\ ok = 0 /\ err = 0

(* The watch of the connect is queued, active, or it has become a task. *)
Waits(s, k, o, c, w, ok, err) ==
  /\ s.dh = "IDLE"
  /\ \A x \in Kinds \ {"connected", "cerr"} : k[x] = 0
  /\ w = "none" /\ ok = 0 /\ err = 0 /\ c.r = "none" /\ c.inf = FALSE
  /\ \/ o = <<ConnectWatch>> /\ c.w = "none" /\ k["connected"] = 0 /\ k["cerr"] = 0
     \/ o = <<>> /\ c.w = "connected" /\ k["connected"] = 0 /\ k["cerr"] = 0
     \/ o = <<>> /\ c.w = "none" /\ k["connected"] = 0 /\ k["cerr"] = 1
     \/ o = <<>> /\ c.w = "none" /\ k["connected"] = 1 /\ k["cerr"] = 0

(* Afterwards: a handshake that began may be watched or read for, reading   *)
(* begins once success was told; while no answer goes astray (Strict) there *)
(* is one answer, told or to be told.                                       *)
Strict(v) == v.poll = "select" \/ v.tlp = "hlen"
Shook(v, s) == v.tlp = "hlen" \/ s.dh = "DATA_TRANSFER"
Shaking(v, s) == v.tlp = "dh" /\ s.dh = "HANDSHAKE"
Shakes(v, s) == v.tlp = "dh" /\ s.dh # "IDLE"
LaterOps(v, s, ok) ==
  {o \in OpSet : \/ o.op = "unwatch"
                 \/ o.dir = "R" /\ o.fn = "handshake" /\ o.inf /\ Shakes(v, s)
                 \/ o.dir = "R" /\ o.fn = "read" /\ ok > 0}
LaterWatch(v, s, c, w, ok) ==
  /\ c.w = "none" /\ (c.r = "none" => ~c.inf)
  /\ c.r \in {"none", "handshake", "read"}
  /\ c.r = "handshake" => c.inf /\ Shakes(v, s)
  /\ c.r = "read" => ok > 0
  /\ w \in {"read", "rderr"} => ok > 0
  /\ w \in {"handshake", "hserr"} => Shaking(v, s)
LaterTasks(v, s, k, ok) ==
  /\ k["connected"] = 0
  /\ ok = 0 => k["read"] = 0 /\ k["rderr"] = 0 /\ k["error"] = 0
  /\ ~Shakes(v, s) => k["handshake"] = 0 /\ k["hserr"] = 0
  /\ Strict(v) => k["cerr"] = 0
  /\ k["success"] > 0 => v.once
  /\ k["added"] > 0 \/ ok > 0 => v.once \/ Shook(v, s)
  /\ Shaking(v, s) => k["success"] = 0 /\ k["added"] = 0 /\ ok = 0
LaterAnswers(v, s, k, ok, err) ==
  /\ err > 0 => s.st = "CLOSED"
  /\ Strict(v) => k["success"] + k["added"] + ok + err <= 1
  /\ Shaking(v, s) /\ s.st = "CONNECTED" /\ Strict(v) => err = 0
LaterSelect(v, s, k, w) ==
  v.poll = "select" => /\ k["hserr"] = 0 /\ w # "hserr" /\ k["handshake"] <= 1
                       /\ w = "handshake" => k["handshake"] = 0
                       /\ Shaking(v, s) /\ s.st = "CLOSED" => k["handshake"] = 0 /\ w # "handshake"
Later(v, s, k, o, c, w, ok, err) ==
  /\ s.st \in {"CONNECTED", "CLOSED"}
  /\ o \in Seq(LaterOps(v, s, ok))
  /\ LaterWatch(v, s, c, w, ok) /\ LaterTasks(v, s, k, ok)
  /\ LaterAnswers(v, s, k, ok, err) /\ LaterSelect(v, s, k, w)

(* There is a connection behind a handshake, a success and the tasks to it. *)
Linked(cn, s, k, ok) ==
  s.dh # "IDLE" \/ k["connected"] > 0 \/ k["success"] > 0 \/ k["added"] > 0 \/ ok > 0 => cn = "up"
Caller(v, cl, cn, s, k, o, c, w, ok, err) ==
  /\ cl = "begun" => IF s.st = "CONNECTING" THEN Waits(s, k, o, c, w, ok, err) ELSE Later(v, s, k, o, c, w, ok, err)
  /\ cl # "begun" => Untouched(k, o, c, w, ok, err)
  /\ cl = "failed" => s.st = "CLOSED"
  /\ cl = "idle" => s.dh = "IDLE"
  /\ cl = "blocking" => Shaking(v, s)
  /\ Linked(cn, s, k, ok)
CallerInv == Caller(env, call, conn, so["C"], tasks["C"], ops["C"], ctx["C"], rd["C"].who, told.ok, told.err)
IInv == Typed /\ StreamsInv /\ CallerInv

-----------------------------------------------------------------------------
(* A set of naturals has a least element: the induction of these proofs.    *)
LEMMA LeastNatural ==
  ASSUME NEW T \in SUBSET Nat, T # {}
  PROVE  \E x \in T : \A y \in T : x <= y
  <1>1. PICK R : R = OpToRel(<, Nat)
    OBVIOUS
  <1>2. IsWellFoundedOn(R, Nat)
    BY <1>1, NatLessThanWellFounded
  <1>3. PICK x \in T : \A y \in T : ~(<<y, x>> \in R)
    BY <1>2, WFMin
  <1>4. \A y \in T : y < x => <<y, x>> \in R
    BY <1>1 DEF OpToRel
  <1>5. x \in Nat /\ \A y \in T : y \in Nat
    OBVIOUS
  <1>6. \A y \in T : ~(y < x)
    BY <1>3, <1>4
  <1>7. \A y \in T : x <= y
    BY <1>5, <1>6
  <1> QED BY <1>7

-----------------------------------------------------------------------------
(* Frames in a buffer.                                                      *)
LEMMA FunIsSeq ==
  ASSUME NEW Z, NEW n \in Nat, NEW g \in [1..n -> Z] PROVE g \in Seq(Z)
  <1>1. [1..n -> Z] \in {[1..m -> Z] : m \in Nat}
    OBVIOUS
  <1>2. Seq(Z) = UNION {[1..m -> Z] : m \in Nat}
    BY SeqDef
  <1> QED BY <1>1, <1>2

LEMMA SeqIn ==
  ASSUME NEW Y, NEW Z, NEW q \in Seq(Y), \A i \in 1..Len(q) : q[i] \in Z
  PROVE  q \in Seq(Z)
  <1>1. Len(q) \in Nat /\ q \in [1..Len(q) -> Y]
    BY LenProperties
  <1>2. q \in [1..Len(q) -> Z]
    BY <1>1
  <1> QED BY <1>1, <1>2, FunIsSeq

LEMMA Thirds == ASSUME NEW m \in Nat PROVE m \div 3 \in Nat /\ 3 * (m \div 3) <= m
  OBVIOUS

LEMMA MinIn ==
  ASSUME NEW I \in SUBSET Nat, I # {} PROVE Min(I) \in I
  <1>1. \E x \in I : \A y \in I : x =< y
    BY LeastNatural
  <1>2. Min(I) = CHOOSE x \in I : \A y \in I : x =< y
    BY DEF Min
  <1> QED BY <1>1, <1>2, Zenon

LEMMA SoundFacts ==
  ASSUME NEW q, Len(q) \in Nat PROVE SelectInSeq(q, TooLong) \in 0..Len(q)
  <1> DEFINE I == {i \in 1..Len(q) : TooLong(q[i])}
  <1>1. SelectInSeq(q, TooLong) = IF I # {} THEN Min(I) ELSE 0
    BY Zenon DEF SelectInSeq
  <1>2. I \in SUBSET Nat /\ \A i \in I : i \in 0..Len(q)
    OBVIOUS
  <1> HIDE DEF I
  <1>3. I # {} => Min(I) \in I
    BY <1>2, MinIn
  <1>4. 0 \in 0..Len(q)
    OBVIOUS
  <1> QED BY <1>1, <1>2, <1>3, <1>4, Zenon

(* What is left behind the frames that were taken, without its first part. *)
LEMMA RestFacts ==
  ASSUME NEW X, NEW h, NEW q \in Seq(X \cup {h}), \A i \in 2..Len(q) : q[i] \in X,
         NEW m \in Nat, m <= Len(q), SubSeq(q, m + 1, Len(q)) # <<>>
  PROVE  Tail(SubSeq(q, m + 1, Len(q))) \in Seq(X)
  <1> DEFINE rest == SubSeq(q, m + 1, Len(q))
  <1>1. Len(q) \in Nat /\ Len(q) \in Int /\ m + 1 \in Int
    OBVIOUS
  <1>2. \A i \in (m + 1)..Len(q) : q[i] \in X \cup {h}
    <2>1. \A i \in (m + 1)..Len(q) : i \in 1..Len(q)
      BY <1>1
    <2> QED BY <2>1, ElementOfSeq
  <1>3. /\ rest \in Seq(X \cup {h})
        /\ Len(rest) = IF m + 1 <= Len(q) THEN Len(q) - (m + 1) + 1 ELSE 0
        /\ \A i \in 1..(Len(q) - (m + 1) + 1) : rest[i] = q[m + 1 + i - 1]
    BY <1>1, <1>2, SubSeqProperties
  <1>4. rest # <<>>
    OBVIOUS
  <1> HIDE DEF rest
  <1>5. /\ Tail(rest) \in Seq(X \cup {h}) /\ Len(Tail(rest)) = Len(rest) - 1
        /\ \A i \in 1..Len(Tail(rest)) : Tail(rest)[i] = rest[i + 1]
    BY <1>3, <1>4, HeadTailProperties
  <1>6. ASSUME NEW i \in 1..Len(Tail(rest)) PROVE Tail(rest)[i] \in X
    <2>1. Len(rest) \in Nat /\ Len(rest) <= Len(q) - m
      BY <1>1, <1>3
    <2>2. i + 1 \in 1..(Len(q) - (m + 1) + 1) /\ m + 1 + (i + 1) - 1 \in 2..Len(q)
      BY <1>1, <1>5, <2>1
    <2> QED BY <1>3, <1>5, <2>2
  <1>7. Tail(rest) \in Seq(X)
    BY <1>5, <1>6, SeqIn
  <1> QED BY <1>7 DEF rest

LEMMA WithHead ==
  ASSUME NEW X, NEW rb \in Seq(X), NEW h
  PROVE  /\ <<h>> \o rb \in Seq(X \cup {h})
         /\ \A i \in 2..Len(<<h>> \o rb) : (<<h>> \o rb)[i] \in X
  <1>1. <<h>> \in Seq(X \cup {h}) /\ rb \in Seq(X \cup {h}) /\ Len(<<h>>) = 1
    OBVIOUS
  <1> DEFINE s == <<h>>
             q == s \o rb
  <1>2. s \in Seq(X \cup {h}) /\ Len(s) = 1
    BY <1>1
  <1> HIDE DEF s
  <1>3. /\ q \in Seq(X \cup {h}) /\ Len(q) = Len(s) + Len(rb)
        /\ \A i \in 1..Len(s) + Len(rb) : q[i] = IF i <= Len(s) THEN s[i] ELSE rb[i - Len(s)]
    BY <1>1, <1>2, ConcatProperties
  <1> HIDE DEF q
  <1>4. ASSUME NEW i \in 2..Len(q) PROVE q[i] \in X
    <2>1. i - 1 \in 1..Len(rb) /\ i \in 1..(1 + Len(rb)) /\ ~(i <= 1)
      BY <1>2, <1>3
    <2>2. q[i] = rb[i - 1]
      BY <1>2, <1>3, <2>1
    <2> QED BY <2>1, <2>2
  <1>5. q = <<h>> \o rb
    BY DEF q, s
  <1> QED BY <1>3, <1>4, <1>5

(* decode_packets of hlen_packet takes frames from the front of the buffer. *)
LEMMA HlenFacts ==
  ASSUME NEW X, NEW rb \in Seq(X), NEW parse, NEW size \in Nat
  PROVE  /\ Hlen(parse, rb, size).rb \in Seq(X)
         /\ Hlen(parse, rb, size).packs \in Seq({x.f : x \in X})
         /\ Hlen(parse, rb, size).parse \in {"LEN", "CONTENT"}
         /\ Hlen(parse, rb, size).ec \in {"BROKEN", "TLP_AGAIN", "OK"}
  <1> DEFINE head   == [f |-> Frame("HEAD", 0), part |-> 1]
             whole  == IF parse = "LEN" THEN rb ELSE <<head>> \o rb
             sound  == SelectInSeq(whole, TooLong)
             most   == IF sound = 0 THEN Len(whole) ELSE sound - 1
             ready  == most \div 3
             n      == IF ready < size THEN ready ELSE size
             rest   == SubSeq(whole, 3 * n + 1, Len(whole))
             broken == sound = 3 * n + 1
  <1>1. /\ Hlen(parse, rb, size).packs = [i \in 1..n |-> whole[3 * i].f]
        /\ Hlen(parse, rb, size).rb = (IF rest = <<>> THEN rest ELSE Tail(rest))
        /\ Hlen(parse, rb, size).parse = (IF rest = <<>> \/ broken THEN "LEN" ELSE "CONTENT")
        /\ Hlen(parse, rb, size).ec = (IF broken THEN "BROKEN" ELSE IF ready > size THEN "TLP_AGAIN" ELSE "OK")
    BY DEF Hlen
  <1>2. whole \in Seq(X \cup {head}) /\ \A i \in 2..Len(whole) : whole[i] \in X
    <2> HIDE DEF head
    <2>1. rb \in Seq(X \cup {head}) /\ \A i \in 2..Len(rb) : rb[i] \in X
      OBVIOUS
    <2>2. <<head>> \o rb \in Seq(X \cup {head}) /\ \A i \in 2..Len(<<head>> \o rb) : (<<head>> \o rb)[i] \in X
      BY WithHead
    <2> QED BY <2>1, <2>2
  <1> HIDE DEF whole, head
  <1>3. Len(whole) \in Nat /\ sound \in 0..Len(whole)
    BY <1>2, SoundFacts
  <1> HIDE DEF sound
  <1>4. most \in Nat /\ most <= Len(whole)
    BY <1>3
  <1> HIDE DEF most
  <1>5. ready \in Nat /\ 3 * ready <= Len(whole)
    BY <1>3, <1>4, Thirds
  <1> HIDE DEF ready
  <1>6. n \in Nat /\ 3 * n <= Len(whole) /\ 3 * n \in Nat
    BY <1>3, <1>5
  <1> HIDE DEF n
  <1>7. [i \in 1..n |-> whole[3 * i].f] \in Seq({x.f : x \in X})
    <2>1. \A i \in 1..n : 3 * i \in 2..Len(whole)
      BY <1>3, <1>6
    <2>2. \A i \in 1..n : whole[3 * i].f \in {x.f : x \in X}
      BY <1>2, <2>1
    <2>3. [i \in 1..n |-> whole[3 * i].f] \in [1..n -> {x.f : x \in X}]
      BY <2>2
    <2> QED BY <1>6, <2>3, FunIsSeq
  <1>8. rest # <<>> => Tail(rest) \in Seq(X)
    BY <1>2, <1>6, RestFacts
  <1> HIDE DEF rest, broken
  <1>9. rest = <<>> => rest \in Seq(X)
    OBVIOUS
  <1> QED BY <1>1, <1>7, <1>8, <1>9

(* What decode_packets of dh_symmetric_encrypt does with the frames of X.   *)
Moves(X, old, d) ==
  \/ d.dh = old
  \/ d.dh = "HANDSHAKE" /\ \E x \in X : x.f.type = "HELLO"
  \/ d.dh = "DATA_TRANSFER" /\ \E x \in X : x.f.type = "OK"
Replies(X, d) ==
  \/ d.out = <<>>
  \/ d.out = <<Frame("RESP", 0), Frame("OK", 0)>> /\ d.dh = "HANDSHAKE" /\ \E x \in X : x.f.type = "HELLO"
  \/ d.out = <<Frame("OK", 0)>> /\ \E x \in X : x.f.type = "RESP"

LEMMA PacketArriveFacts ==
  ASSUME NEW X, NEW x \in X, NEW dh
  PROVE  /\ Moves(X, dh, PacketArrive(x.f, dh)) /\ Replies(X, PacketArrive(x.f, dh))
         /\ PacketArrive(x.f, dh).ec = "DONE" => PacketArrive(x.f, dh).dh = "DATA_TRANSFER"
  <1>1. CASE x.f.type = "HELLO"
    BY <1>1 DEF PacketArrive, Moves, Replies
  <1>2. CASE x.f.type = "RESP"
    BY <1>2 DEF PacketArrive, Moves, Replies
  <1>3. CASE x.f.type = "OK"
    BY <1>3 DEF PacketArrive, Moves, Replies
  <1>4. CASE x.f.type \notin {"HELLO", "RESP", "OK"}
    BY <1>4 DEF PacketArrive, Moves, Replies
  <1> QED BY <1>1, <1>2, <1>3, <1>4

FramesOf(X) == {x.f : x \in X}

LEMMA DecodeFacts ==
  ASSUME NEW s, NEW X, NEW rb \in Seq(X), NEW size \in Nat, NEW d \in Decode(s, rb, size)
  PROVE  /\ d.rb \in Seq(X) /\ d.parse \in {"LEN", "CONTENT"}
         /\ d.packs \in Seq(FramesOf(X))
         /\ Moves(X, s.dh, d) /\ Replies(X, d)
         /\ HandshakeDone(s) => d.dh = s.dh
         /\ d.ec = "DONE" => d.dh = "DATA_TRANSFER"
  <1> DEFINE n == IF HandshakeDone(s) THEN size ELSE 1
             h == Hlen(s.parse, rb, n)
             p == PacketArrive(h.packs[1], s.dh)
  <1>1. /\ h.rb \in Seq(X) /\ h.packs \in Seq(FramesOf(X))
        /\ h.parse \in {"LEN", "CONTENT"} /\ h.ec \in {"BROKEN", "TLP_AGAIN", "OK"}
    <2>1. n \in Nat
      OBVIOUS
    <2> HIDE DEF n
    <2> QED BY <2>1, HlenFacts DEF FramesOf
  <1>2. d = IF HandshakeDone(s) \/ h.packs = <<>>
            THEN [packs |-> h.packs, rb |-> h.rb, parse |-> h.parse, dh |-> s.dh, out |-> <<>>, ec |-> h.ec]
            ELSE [packs |-> <<>>, rb |-> h.rb, parse |-> h.parse, dh |-> p.dh, out |-> p.out, ec |-> p.ec]
    BY DEF Decode
  <1> HIDE DEF h
  <1>3. CASE HandshakeDone(s) \/ h.packs = <<>>
    <2>1. /\ d.packs = h.packs /\ d.rb = h.rb /\ d.parse = h.parse /\ d.dh = s.dh /\ d.out = <<>>
          /\ d.ec = h.ec
      BY <1>2, <1>3
    <2> QED BY <1>1, <2>1 DEF Moves, Replies
  <1>4. CASE ~(HandshakeDone(s) \/ h.packs = <<>>)
    <2>1. /\ d.packs = <<>> /\ d.rb = h.rb /\ d.parse = h.parse /\ d.dh = p.dh /\ d.out = p.out
          /\ d.ec = p.ec
      BY <1>2, <1>4
    <2>2. PICK x \in X : h.packs[1] = x.f
      <3>1. 1 \in 1..Len(h.packs)
        BY <1>1, <1>4
      <3>2. h.packs[1] \in FramesOf(X)
        BY <1>1, <3>1, ElementOfSeq
      <3> QED BY <3>2 DEF FramesOf
    <2>3. /\ Moves(X, s.dh, p) /\ Replies(X, p)
          /\ p.ec = "DONE" => p.dh = "DATA_TRANSFER"
      BY <2>2, PacketArriveFacts
    <2> HIDE DEF p
    <2> QED BY <1>1, <1>4, <2>1, <2>3 DEF Moves, Replies
  <1> QED BY <1>3, <1>4

-----------------------------------------------------------------------------
(* The frames on their way.                                                 *)
LEMMA TypesFacts ==
  ASSUME NEW e \in Ends, NEW d
  PROVE  /\ Types(e, d) \subseteq FrameTypes
         /\ To(e, d) \subseteq Parts
         /\ \A x \in To(e, d) : x.f \in Frames /\ x.f.type \in Types(e, d)
  <1>1. Types(e, d) \subseteq FrameTypes
    BY DEF Types, FrameTypes
  <1> QED BY <1>1 DEF To, Parts, Frames

(* The more the accepted end knows, the more may be on its way. *)
LEMMA ToGrows ==
  ASSUME NEW e \in Ends, NEW d1, NEW d2, d2 = d1 \/ d2 # "IDLE"
  PROVE  To(e, d1) \subseteq To(e, d2) /\ Seq(To(e, d1)) \subseteq Seq(To(e, d2))
  <1>1. Types(e, d1) \subseteq Types(e, d2)
    BY DEF Types
  <1>2. To(e, d1) \subseteq To(e, d2)
    BY <1>1 DEF To
  <1> QED BY <1>2, SeqMonotonic

LEMMA CarriedGrows ==
  ASSUME NEW n, NEW d1, NEW d2, d2 = d1 \/ d2 # "IDLE", Carried(n, d1)
  PROVE  Carried(n, d2)
  BY ToGrows DEF Carried

LEMMA BufferedGrows ==
  ASSUME NEW s, NEW d1, NEW d2, d2 = d1 \/ d2 # "IDLE", Buffered(s, d1)
  PROVE  Buffered(s, d2)
  BY ToGrows DEF Buffered

LEMMA OtherFacts == \A e \in Ends : Other(e) \in Ends /\ Other(e) # e /\ Other(Other(e)) = e
  BY DEF Ends, Other

LEMMA EncodeFacts ==
  ASSUME NEW e \in Ends, NEW d, NEW a \in [type : Types(e, d), n : Nat]
  PROVE  Encode(a) \in Seq(To(e, d)) /\ Len(Encode(a)) = 3
  <1>1. [f |-> a, part |-> 1] \in To(e, d) /\ [f |-> a, part |-> 2] \in To(e, d) /\ [f |-> a, part |-> 3] \in To(e, d)
    BY DEF To
  <1> QED BY <1>1 DEF Encode

(* FlattenSeq of one and of two sequences. *)
LEMMA FlattenOne ==
  ASSUME NEW X, NEW a \in Seq(X) PROVE FlattenSeq(<<a>>) = a
  <1> DEFINE q == <<a>>
             Is(g) == g = [i \in 1..Len(q) |-> IF i = 1 THEN q[i] ELSE g[i - 1] \o q[i]]
             g0 == [i \in 1..1 |-> a]
             f == CHOOSE g : Is(g)
  <1>1. Len(q) = 1 /\ q[1] = a /\ q # <<>>
    OBVIOUS
  <1> HIDE DEF q
  <1>2. Is(g0)
    BY <1>1
  <1>3. Is(f)
    BY <1>2
  <1>4. FlattenSeq(q) = f[Len(q)]
    BY <1>1 DEF FlattenSeq
  <1> HIDE DEF f
  <1>5. f[1] = a
    BY <1>1, <1>3
  <1> QED BY <1>1, <1>4, <1>5 DEF q

LEMMA FlattenTwo ==
  ASSUME NEW X, NEW a \in Seq(X), NEW b \in Seq(X) PROVE FlattenSeq(<<a, b>>) = a \o b
  <1> DEFINE q == <<a, b>>
             Is(g) == g = [i \in 1..Len(q) |-> IF i = 1 THEN q[i] ELSE g[i - 1] \o q[i]]
             g0 == [i \in 1..2 |-> IF i = 1 THEN a ELSE a \o b]
             f == CHOOSE g : Is(g)
  <1>1. Len(q) = 2 /\ q[1] = a /\ q[2] = b
    OBVIOUS
  <1> HIDE DEF q
  <1>2. Is(g0)
    <2>1. g0[1] = a /\ 1..2 = {1, 2} /\ 2 - 1 = 1
      OBVIOUS
    <2> QED BY <1>1, <2>1
  <1>3. Is(f)
    BY <1>2
  <1>4. FlattenSeq(q) = f[Len(q)]
    BY <1>1 DEF FlattenSeq
  <1> HIDE DEF f
  <1>5. f[1] = a /\ f[2] = f[1] \o b
    <2>1. 1 \in 1..Len(q) /\ 2 \in 1..Len(q) /\ 2 - 1 = 1 /\ 2 # 1
      BY <1>1
    <2>2. f[1] = IF 1 = 1 THEN q[1] ELSE f[1 - 1] \o q[1]
      BY <1>3, <2>1
    <2>3. f[2] = IF 2 = 1 THEN q[2] ELSE f[2 - 1] \o q[2]
      BY <1>3, <2>1
    <2> QED BY <1>1, <2>1, <2>2, <2>3
  <1> QED BY <1>1, <1>4, <1>5 DEF q

(* What is sent at once: nothing, one frame or two. *)
Batch(fs, F) == fs = <<>> \/ (\E a \in F : fs = <<a>>) \/ (\E a, b \in F : fs = <<a, b>>)

LEMMA EncodeAllFacts ==
  ASSUME NEW e \in Ends, NEW d, NEW fs, Batch(fs, [type : Types(e, d), n : Nat]), fs # <<>>
  PROVE  EncodeAll(fs) \in Seq(To(e, d)) /\ Len(EncodeAll(fs)) \in {3, 6}
  <1> DEFINE F == [type : Types(e, d), n : Nat]
  <1>1. ASSUME NEW a \in F, fs = <<a>> PROVE EncodeAll(fs) \in Seq(To(e, d)) /\ Len(EncodeAll(fs)) \in {3, 6}
    <2>1. [i \in 1..Len(fs) |-> Encode(fs[i])] = <<Encode(a)>>
      BY <1>1
    <2>2. Encode(a) \in Seq(To(e, d)) /\ Len(Encode(a)) = 3
      BY EncodeFacts
    <2>3. EncodeAll(fs) = Encode(a)
      BY <2>1, <2>2, FlattenOne DEF EncodeAll
    <2> QED BY <2>2, <2>3
  <1>2. ASSUME NEW a \in F, NEW b \in F, fs = <<a, b>>
        PROVE  EncodeAll(fs) \in Seq(To(e, d)) /\ Len(EncodeAll(fs)) \in {3, 6}
    <2>1. [i \in 1..Len(fs) |-> Encode(fs[i])] = <<Encode(a), Encode(b)>>
      BY <1>2
    <2>2. Encode(a) \in Seq(To(e, d)) /\ Len(Encode(a)) = 3 /\ Encode(b) \in Seq(To(e, d)) /\ Len(Encode(b)) = 3
      BY EncodeFacts
    <2>3. EncodeAll(fs) = Encode(a) \o Encode(b)
      BY <2>1, <2>2, FlattenTwo DEF EncodeAll
    <2> DEFINE x == Encode(a)
               y == Encode(b)
    <2>4. x \in Seq(To(e, d)) /\ Len(x) = 3 /\ y \in Seq(To(e, d)) /\ Len(y) = 3 /\ EncodeAll(fs) = x \o y
      BY <2>2, <2>3
    <2> HIDE DEF x, y
    <2>5. x \o y \in Seq(To(e, d)) /\ Len(x \o y) = Len(x) + Len(y)
      BY <2>4, ConcatProperties
    <2> QED BY <2>4, <2>5
  <1> QED BY <1>1, <1>2 DEF Batch

LEMMA WholeAppend ==
  ASSUME NEW X, NEW p \in Seq(X), NEW q \in Seq(X), Whole(p), Len(q) \in {3, 6}
  PROVE  Whole(p \o q)
  <1>1. PICK k \in 0..Len(p) : Len(p) = 3 * k
    BY DEF Whole
  <1>2. Len(p \o q) = Len(p) + Len(q) /\ Len(p) \in Nat
    OBVIOUS
  <1>3. CASE Len(q) = 3
    <2>1. k + 1 \in 0..Len(p \o q) /\ Len(p \o q) = 3 * (k + 1)
      BY <1>1, <1>2, <1>3
    <2> QED BY <2>1 DEF Whole
  <1>4. CASE Len(q) = 6
    <2>1. k + 2 \in 0..Len(p \o q) /\ Len(p \o q) = 3 * (k + 2)
      BY <1>1, <1>2, <1>4
    <2> QED BY <2>1 DEF Whole
  <1> QED BY <1>3, <1>4

LEMMA ErrorTakenFacts ==
  ASSUME NEW n, NEW d, Carried(n, d), NEW e \in Ends PROVE Carried(ErrorTaken(n, e), d)
  <1> DEFINE m == ErrorTaken(n, e)
  <1>1. m \in [Ends -> Nets] /\ \A x \in Ends : m[x].kin = n[x].kin /\ m[x].tr = n[x].tr
    BY DEF ErrorTaken, Carried, Nets
  <1> HIDE DEF m
  <1>2. Carried(m, d)
    BY <1>1 DEF Carried
  <1> QED BY <1>2 DEF m

(* What is sent reaches the way to the other end, or is a reset. *)
LEMMA Appended ==
  ASSUME NEW n, NEW d, Carried(n, d), NEW o \in Ends, NEW q \in Seq(To(o, d)), Len(q) \in {3, 6}
  PROVE  Carried([n EXCEPT ![o].tr = @ \o q], d)
  <1> DEFINE m == [n EXCEPT ![o].tr = @ \o q]
  <1>1. n[o].tr \in Seq(To(o, d)) /\ n \in [Ends -> Nets]
    BY DEF Carried
  <1>2. n[o].tr \o q \in Seq(To(o, d)) /\ n[o].tr \o q \in Seq(Parts)
    <2>1. n[o].tr \o q \in Seq(To(o, d))
      BY <1>1, ConcatProperties
    <2> QED BY <2>1, TypesFacts, SeqMonotonic
  <1>3. ~env.split => Whole(n[o].tr \o q)
    BY <1>1, WholeAppend DEF Carried
  <1>4. /\ m \in [Ends -> Nets]
        /\ \A x \in Ends : m[x].kin = n[x].kin /\ m[x].tr = IF x = o THEN n[o].tr \o q ELSE n[x].tr
    BY <1>1, <1>2 DEF Nets
  <1> HIDE DEF m
  <1>5. Carried(m, d)
    BY <1>2, <1>3, <1>4 DEF Carried
  <1> QED BY <1>5 DEF m

LEMMA DeliveredFacts ==
  ASSUME NEW n, NEW d, Carried(n, d), NEW e \in Ends, NEW fs,
         Batch(fs, [type : Types(Other(e), d), n : Nat])
  PROVE  Carried(Delivered(n, e, fs), d)
  <1> DEFINE o == Other(e)
  <1>1. o \in Ends /\ n \in [Ends -> Nets]
    BY OtherFacts DEF Carried
  <1>2. CASE fs = <<>>
    BY <1>2 DEF Delivered
  <1>3. CASE fs # <<>> /\ n[e].rst # "no"
    <2>1. Delivered(n, e, fs) = ErrorTaken(n, e)
      BY <1>3 DEF Delivered
    <2> QED BY <2>1, ErrorTakenFacts
  <1>4. CASE fs # <<>> /\ n[e].rst = "no" /\ Open(o)
    <2> DEFINE q == EncodeAll(fs)
               m == [n EXCEPT ![o].tr = @ \o q]
    <2>1. Delivered(n, e, fs) = m
      BY <1>4 DEF Delivered
    <2>2. q \in Seq(To(o, d)) /\ Len(q) \in {3, 6}
      BY <1>1, <1>4, EncodeAllFacts
    <2> HIDE DEF q, o
    <2>3. Carried(m, d)
      BY <1>1, <2>2, Appended
    <2> HIDE DEF m
    <2> QED BY <2>1, <2>3
  <1>5. CASE fs # <<>> /\ n[e].rst = "no" /\ ~Open(o)
    <2> DEFINE m == [n EXCEPT ![e].rst = "pending"]
    <2>1. Delivered(n, e, fs) = m
      BY <1>5 DEF Delivered
    <2>2. m \in [Ends -> Nets] /\ \A x \in Ends : m[x].kin = n[x].kin /\ m[x].tr = n[x].tr
      BY <1>1 DEF Nets
    <2> HIDE DEF m
    <2>3. Carried(m, d)
      BY <2>2 DEF Carried
    <2> QED BY <2>1, <2>3
  <1> QED BY <1>2, <1>3, <1>4, <1>5

-----------------------------------------------------------------------------
(* _receive_packets on end e.                                               *)
LEMMA PumpFacts ==
  ASSUME Typed, StreamsInv, NEW e \in Ends, NEW pec
  PROVE  /\ Carried(ErrorTaken(net, e), so["S"].dh)
         /\ Carried([net EXCEPT ![e].kin = <<>>], so["S"].dh)
         /\ so[e].rb \o net[e].kin \in Seq(To(e, so["S"].dh)) /\ so[e].rb \in Seq(To(e, so["S"].dh))
  <1> DEFINE d == so["S"].dh
             m == [net EXCEPT ![e].kin = <<>>]
  <1>1. Carried(net, d) /\ net \in [Ends -> Nets]
    BY DEF StreamsInv, Carried
  <1>2. so[e].rb \in Seq(To(e, d)) /\ net[e].kin \in Seq(To(e, d))
    BY DEF StreamsInv, Carried, Buffered
  <1> HIDE DEF d
  <1>3. /\ m \in [Ends -> Nets] /\ \A x \in Ends : m[x].tr = net[x].tr
        /\ \A x \in Ends : m[x].kin = IF x = e THEN <<>> ELSE net[x].kin
    <2>1. <<>> \in Seq(Parts)
      OBVIOUS
    <2> QED BY <1>1, <2>1 DEF Nets
  <1> HIDE DEF m
  <1>4. Carried(m, d)
    <2>1. \A x \in Ends : <<>> \in Seq(To(x, d))
      OBVIOUS
    <2> QED BY <1>1, <1>3, <2>1 DEF Carried
  <1>5. so[e].rb \o net[e].kin \in Seq(To(e, d))
    BY <1>2, ConcatProperties
  <1>6. Carried(ErrorTaken(net, e), d)
    BY <1>1, ErrorTakenFacts
  <1> QED BY <1>2, <1>4, <1>5, <1>6 DEF d, m

(* The state of the accepted end when the round leaves e in state dh. *)
DhS(e, dh) == IF e = "S" THEN dh ELSE so["S"].dh

(* What a round of decoding makes of the handshake. *)
Handshook(e, dh) ==
  /\ dh \in Dhs
  /\ dh = so[e].dh \/ dh = "DATA_TRANSFER" \/ (e = "S" /\ dh = "HANDSHAKE")
  /\ HandshakeDone(so[e]) => dh = so[e].dh
  /\ e = "C" /\ dh = "DATA_TRANSFER" /\ env.tlp = "dh" => so["S"].dh # "IDLE"
Received(e, r) ==
  /\ r.s \in Sockets /\ r.s.st = so[e].st /\ r.s.rf = so[e].rf /\ r.s.wf = so[e].wf
  /\ Handshook(e, r.s.dh)
  /\ r.s.rb \in Seq(To(e, so["S"].dh))
  /\ Carried(r.net, DhS(e, r.s.dh))
  /\ r.packs \in Seq(Frames)
  /\ r.ec = "DONE" => r.s.dh = "DATA_TRANSFER"

LEMMA ReceiveFacts ==
  ASSUME Typed, StreamsInv, NEW e \in Ends, NEW size \in Nat, NEW always, NEW r \in Receive(e, size, always)
  PROVE  Received(e, r)
  <1> DEFINE s   == so[e]
             dS  == so["S"].dh
             pec == Pumped(e, always)
             rb  == IF pec = "OK" THEN s.rb \o net[e].kin ELSE s.rb
             n   == CASE pec = "ERR" -> ErrorTaken(net, e)
                      [] pec = "OK" -> [net EXCEPT ![e].kin = <<>>]
                      [] OTHER -> net
             X   == To(e, dS)
  <1>1. s \in Sockets /\ s.dh \in Dhs /\ dS \in Dhs
    BY DEF Typed, Sockets, Ends
  <1>2. rb \in Seq(X) /\ s.rb \in Seq(X) /\ Carried(n, dS)
    <2>1. Carried(net, dS)
      BY DEF StreamsInv
    <2> HIDE DEF pec
    <2>2. rb \in Seq(X) /\ s.rb \in Seq(X)
      BY PumpFacts
    <2>3. n \in {ErrorTaken(net, e), [net EXCEPT ![e].kin = <<>>], net}
      BY Zenon
    <2> HIDE DEF n
    <2> QED BY <2>1, <2>2, <2>3, PumpFacts
  <1>3. /\ Handshook(e, s.dh) /\ DhS(e, s.dh) = dS /\ pec # "DONE"
    <2>1. pec # "DONE"
      BY DEF Pumped, RecvEc
    <2>2. DhS(e, s.dh) = dS
      BY DEF DhS, Ends
    <2>3. Handshook(e, s.dh)
      BY <1>1 DEF Handshook, StreamsInv
    <2> QED BY <2>1, <2>2, <2>3
  <1>4. CASE pec \notin {"OK", "BLOCK", "SKIPPED"} \/ rb = <<>>
    <2>1. r = [s |-> s, net |-> n, packs |-> <<>>, ec |-> pec]
      BY <1>4 DEF Receive
    <2> HIDE DEF s, n, pec, rb, X, dS
    <2>2. r.s = s /\ r.net = n /\ r.packs = <<>> /\ r.ec = pec
      BY <2>1
    <2> QED BY <1>1, <1>2, <1>3, <2>2 DEF Received, X, dS, s
  <1>5. CASE ~(pec \notin {"OK", "BLOCK", "SKIPPED"} \/ rb = <<>>)
    <2> DEFINE Outcome(d) ==
                 [s     |-> [s EXCEPT !.rb = d.rb, !.parse = d.parse, !.dh = d.dh],
                  net   |-> IF Fatal(d.ec) THEN n ELSE Delivered(n, e, d.out),
                  packs |-> d.packs,
                  ec    |-> IF Fatal(d.ec) THEN d.ec
                            ELSE IF Len(d.packs) = size /\ d.rb # <<>> THEN "TLP_AGAIN"
                            ELSE IF pec \in {"OK", "SKIPPED"} /\ Nonblocking(e) THEN "PUMP_AGAIN"
                            ELSE IF d.out # <<>> /\ SendEc(e) # "OK" THEN SendEc(e) ELSE d.ec]
    <2>0. r \in {Outcome(d) : d \in Decode(s, rb, size)}
      BY <1>5, Zenon DEF Receive
    <2> HIDE DEF s, n, pec, rb, X, dS
    <2>d. PICK d \in Decode(s, rb, size) : r = Outcome(d)
      BY <2>0, Zenon
    <2>1. /\ r.s = [s EXCEPT !.rb = d.rb, !.parse = d.parse, !.dh = d.dh]
          /\ r.net = (IF Fatal(d.ec) THEN n ELSE Delivered(n, e, d.out))
          /\ r.packs = d.packs
          /\ r.ec = (IF Fatal(d.ec) THEN d.ec
                     ELSE IF Len(d.packs) = size /\ d.rb # <<>> THEN "TLP_AGAIN"
                     ELSE IF pec \in {"OK", "SKIPPED"} /\ Nonblocking(e) THEN "PUMP_AGAIN"
                     ELSE IF d.out # <<>> /\ SendEc(e) # "OK" THEN SendEc(e) ELSE d.ec)
      BY <2>d
    <2> HIDE DEF Outcome
    <2>2. /\ d.rb \in Seq(X) /\ d.parse \in {"LEN", "CONTENT"}
          /\ d.packs \in Seq(FramesOf(X))
          /\ Moves(X, s.dh, d) /\ Replies(X, d)
          /\ HandshakeDone(s) => d.dh = s.dh
          /\ d.ec = "DONE" => d.dh = "DATA_TRANSFER"
      BY <1>2, <2>d, DecodeFacts
    <2>3. \A x \in X : x.f \in Frames /\ x.f.type \in Types(e, dS)
      BY TypesFacts DEF X, dS
    <2>4. r.packs \in Seq(Frames)
      <3>1. FramesOf(X) \subseteq Frames
        BY <2>3 DEF FramesOf
      <3> QED BY <2>1, <2>2, <3>1, SeqMonotonic
    <2>5. Handshook(e, d.dh)
      <3>1. CASE d.dh = s.dh
        BY <1>3, <3>1 DEF s
      <3>2. CASE d.dh # s.dh /\ d.dh = "HANDSHAKE" /\ "HELLO" \in Types(e, dS)
        <4>1. e = "S"
          BY <3>2 DEF Types
        <4> QED BY <2>2, <3>2, <4>1 DEF Handshook, Dhs, s
      <3>3. CASE d.dh # s.dh /\ d.dh = "DATA_TRANSFER" /\ "OK" \in Types(e, dS)
        <4>1. e = "C" /\ env.tlp = "dh" => dS # "IDLE"
          BY <3>3 DEF Types
        <4> QED BY <2>2, <3>3, <4>1 DEF Handshook, Dhs, s, dS
      <3> QED BY <2>2, <2>3, <3>1, <3>2, <3>3 DEF Moves
    <2>6. DhS(e, d.dh) = dS \/ DhS(e, d.dh) # "IDLE"
      BY <2>5 DEF DhS, Handshook, Ends, s, dS
    <2>7. Carried(n, DhS(e, d.dh))
      BY <1>2, <2>6, CarriedGrows
    <2>8. Batch(d.out, [type : Types(Other(e), DhS(e, d.dh)), n : Nat])
      <3> DEFINE F == [type : Types(Other(e), DhS(e, d.dh)), n : Nat]
      <3>1. CASE d.out = <<>>
        BY <3>1 DEF Batch
      <3>2. CASE d.out = <<Frame("RESP", 0), Frame("OK", 0)>> /\ d.dh = "HANDSHAKE" /\ "HELLO" \in Types(e, dS)
        <4>1. e = "S" /\ Other(e) = "C" /\ DhS(e, d.dh) = "HANDSHAKE"
          BY <3>2 DEF Types, Ends, Other, DhS
        <4>2. Frame("RESP", 0) \in F /\ Frame("OK", 0) \in F
          BY <4>1 DEF Types, Frame
        <4> HIDE DEF F
        <4> QED BY <3>2, <4>2 DEF Batch, F
      <3>3. CASE d.out = <<Frame("OK", 0)>> /\ "RESP" \in Types(e, dS)
        <4>1. Other(e) = "S"
          BY <3>3 DEF Types, Ends, Other
        <4>2. Frame("OK", 0) \in F
          BY <4>1 DEF Types, Frame
        <4> HIDE DEF F
        <4> QED BY <3>3, <4>2 DEF Batch, F
      <3> QED BY <2>2, <2>3, <3>1, <3>2, <3>3 DEF Replies
    <2>9. Carried(r.net, DhS(e, d.dh))
      <3> DEFINE dd == DhS(e, d.dh)
      <3>1. Carried(n, dd) /\ Batch(d.out, [type : Types(Other(e), dd), n : Nat])
        BY <2>7, <2>8
      <3> HIDE DEF dd
      <3>2. Carried(Delivered(n, e, d.out), dd)
        BY <3>1, DeliveredFacts
      <3> QED BY <2>1, <3>1, <3>2 DEF dd
    <2>10. d.rb \in Seq(Parts)
      BY <2>2, TypesFacts, SeqMonotonic DEF X, dS
    <2>11. /\ r.s \in Sockets /\ r.s.st = s.st /\ r.s.rf = s.rf /\ r.s.wf = s.wf
           /\ r.s.dh = d.dh /\ r.s.rb = d.rb
      BY <1>1, <2>1, <2>2, <2>5, <2>10 DEF Sockets, Handshook
    <2>12. r.ec = "DONE" => d.dh = "DATA_TRANSFER"
      BY <2>1, <2>2 DEF SendEc
    <2> QED BY <2>2, <2>4, <2>5, <2>9, <2>11, <2>12 DEF Received, X, s, dS
  <1> QED BY <1>4, <1>5

-----------------------------------------------------------------------------
(* Types and streams, step by step.                                         *)
LEMMA StreamsSame ==
  ASSUME StreamsInv, env' = env, Carried(net', so["S"].dh),
         \A e \in Ends : so'[e].rb = so[e].rb /\ so'[e].dh = so[e].dh
  PROVE  StreamsInv'
  <1>1. so'["S"].dh = so["S"].dh /\ so'["C"].dh = so["C"].dh
    BY DEF Ends
  <1>2. Buffered(so', so'["S"].dh)
    BY <1>1 DEF StreamsInv, Buffered
  <1>3. Buffered(so, so["S"].dh)' /\ Carried(net, so["S"].dh)'
    BY <1>1, <1>2 DEF Buffered, Carried, To, Types, Whole, Nets, Parts
  <1> QED BY <1>1, <1>3 DEF StreamsInv

LEMMA CarriedNow == StreamsInv => Carried(net, so["S"].dh)
  BY DEF StreamsInv

LEMMA StreamsReceived ==
  ASSUME Typed, StreamsInv, NEW e \in Ends, NEW r, Received(e, r), env' = env, net' = r.net,
         \A x \in Ends : x # e => so'[x] = so[x],
         \/ so'[e].rb = r.s.rb /\ so'[e].dh = r.s.dh
         \/ e = "C" /\ so'[e].rb = so[e].rb /\ so'[e].dh = so[e].dh
  PROVE  StreamsInv'
  <1> DEFINE d == so["S"].dh
             dd == so'["S"].dh
  <1>1. CASE e = "C"
    <2>1. dd = d /\ Carried(net', d)
      BY <1>1 DEF Ends, Received, DhS
    <2>2. Buffered(so', d)
      BY <1>1 DEF Buffered, StreamsInv, Received, Ends
    <2>3. env.tlp = "dh" /\ so'["C"].dh = "DATA_TRANSFER" => dd # "IDLE"
      BY <1>1, <2>1 DEF StreamsInv, Received, Handshook
    <2> HIDE DEF d
    <2> QED BY <2>1, <2>2, <2>3 DEF StreamsInv, Buffered, Carried, To, Types, Whole, Nets, Parts
  <1>2. CASE e = "S"
    <2>1. dd = r.s.dh /\ Carried(net', dd) /\ so'["C"] = so["C"]
      BY <1>2 DEF Ends, Received, DhS
    <2>2. dd = d \/ dd # "IDLE"
      BY <1>2, <2>1 DEF Received, Handshook
    <2>3. Buffered(so', d)
      BY <1>2 DEF Buffered, StreamsInv, Received, Ends
    <2>4. Buffered(so', dd)
      BY <2>2, <2>3, BufferedGrows
    <2>5. env.tlp = "dh" /\ so'["C"].dh = "DATA_TRANSFER" => dd # "IDLE"
      BY <2>1, <2>2 DEF StreamsInv
    <2> QED BY <2>1, <2>4, <2>5 DEF StreamsInv, Buffered, Carried, To, Types, Whole, Nets, Parts
  <1> QED BY <1>1, <1>2 DEF Ends

(* The variables that an action of the listener, the network or the poller  *)
(* leaves alone.                                                            *)
LEMMA QuietTyped ==
  ASSUME Typed, StreamsInv, StartListen \/ AcceptPosted \/ StopProxy \/ OtherClient
  PROVE  Typed' /\ StreamsInv'
  <1>1. UNCHANGED <<env, so, ctx, ops, tasks, rd, call, told, conn, net, sent>>
    BY DEF StartListen, AcceptPosted, StopProxy, OtherClient
  <1>2. StreamsInv'
    BY <1>1, CarriedNow, StreamsSame
  <1>3. ls' \in Lss /\ ls'.posted <= env.posted
    <2>1. CASE AcceptPosted
      <3> DEFINE p == ls.posted
                 q == env.posted
                 m == IF env.poll = "select" THEN 1 ELSE env.posted
      <3>1. q \in Nat \ {0} /\ p \in Nat
        BY EnvsAssumption DEF Typed, Lss
      <3>2. p < m /\ ls' = [ls EXCEPT !.posted = p + 1] /\ ls \in Lss
        BY <2>1 DEF AcceptPosted, Typed
      <3>3. m = 1 \/ m = q
        OBVIOUS
      <3> HIDE DEF p, q, m
      <3>4. p + 1 <= q /\ p + 1 \in Nat
        BY <3>1, <3>2, <3>3
      <3>5. ls' \in Lss /\ ls'.posted = p + 1
        BY <3>2, <3>4 DEF Lss
      <3> QED BY <3>4, <3>5 DEF q
    <2>2. CASE StartListen
      BY <2>2 DEF StartListen, Typed, Lss
    <2>3. CASE StopProxy \/ OtherClient
      BY <2>3 DEF StopProxy, OtherClient, Typed
    <2> QED BY <2>1, <2>2, <2>3
  <1> QED BY <1>1, <1>2, <1>3 DEF Typed

(* The error of a connection that is reset. *)
LEMMA ResetFacts ==
  ASSUME NEW n, NEW d, Carried(n, d), NEW m, m \in [Ends -> Nets],
         \A e \in Ends : m[e].kin = n[e].kin /\ (m[e].tr = n[e].tr \/ m[e].tr = <<>>)
  PROVE  Carried(m, d)
  <1>1. \A e \in Ends : <<>> \in Seq(To(e, d))
    OBVIOUS
  <1>2. Whole(<<>>)
    BY DEF Whole
  <1> QED BY <1>1, <1>2 DEF Carried

LEMMA ResetsTyped ==
  ASSUME Typed, StreamsInv, StopListen \/ AcceptFails \/ Answered \/ Reset
  PROVE  Typed' /\ StreamsInv'
  <1>1. UNCHANGED <<env, so, ctx, ops, tasks, rd, call, told, sent>> /\ net \in [Ends -> Nets]
    BY DEF StopListen, AcceptFails, Answered, Reset, Typed
  <1>2. /\ net' \in [Ends -> Nets]
        /\ \A e \in Ends : net'[e].kin = net[e].kin /\ (net'[e].tr = net[e].tr \/ net'[e].tr = <<>>)
    <2>1. <<>> \in Seq(Parts)
      OBVIOUS
    <2>2. ResetBacklog \in [Ends -> Nets] /\ \A e \in Ends : ResetBacklog[e].kin = net[e].kin /\ ResetBacklog[e].tr = net[e].tr
      BY <1>1 DEF ResetBacklog, Nets, Ends
    <2>3. CASE StopListen \/ AcceptFails
      <3>1. net' = net \/ net' = ResetBacklog
        BY <2>3 DEF StopListen, AcceptFails
      <3> QED BY <1>1, <2>2, <3>1
    <2>4. CASE Answered
      <3>1. CASE net' = net
        BY <1>1, <3>1
      <3>2. CASE net' = [net EXCEPT !["C"].rst = "pending"]
        BY <1>1, <3>2 DEF Nets
      <3> QED BY <2>4, <3>1, <3>2 DEF Answered
    <2>5. CASE Reset
      BY <1>1, <2>1, <2>5 DEF Reset, Nets, Ends
    <2> QED BY <2>3, <2>4, <2>5
  <1>3. Carried(net', so["S"].dh)
    BY <1>2, CarriedNow, ResetFacts
  <1>4. StreamsInv'
    BY <1>1, <1>3, StreamsSame
  <1>5. ls' \in Lss /\ ls'.posted <= env.posted
    <2>1. CASE AcceptFails
      <3> DEFINE p == ls.posted
                 q == env.posted
      <3>1. q \in Nat \ {0} /\ p \in Nat /\ p <= q /\ ls \in Lss
        BY EnvsAssumption DEF Typed, Lss
      <3>2. p > 0 /\ ls' = [ls EXCEPT !.posted = p - 1, !.st = "CLOSED", !.watch = FALSE]
        BY <2>1 DEF AcceptFails
      <3> HIDE DEF p, q
      <3>3. p - 1 <= q /\ p - 1 \in Nat
        BY <3>1, <3>2
      <3>4. ls' \in Lss /\ ls'.posted = p - 1
        BY <3>1, <3>2, <3>3 DEF Lss
      <3> QED BY <3>3, <3>4 DEF q
    <2>2. CASE StopListen
      BY <2>2 DEF StopListen, Typed, Lss
    <2>3. CASE Answered \/ Reset
      BY <2>3 DEF Answered, Reset, Typed
    <2> QED BY <2>1, <2>2, <2>3
  <1>6. conn' \in {"none", "syn", "up", "refused"}
    BY DEF StopListen, AcceptFails, Answered, Reset, Typed
  <1> QED BY <1>1, <1>2, <1>4, <1>5, <1>6 DEF Typed

LEMMA SendPacketTyped ==
  ASSUME Typed, StreamsInv, NEW e \in Ends, SendPacket(e)
  PROVE  Typed' /\ StreamsInv'
  <1> DEFINE f == env.data[e][sent[e] + 1]
             d == so["S"].dh
             n == sent[e]
             q == env.data[e]
  <1>1. /\ UNCHANGED <<env, ls, so, ctx, ops, tasks, rd, call, told, conn>>
        /\ net' = Delivered(net, e, <<f>>) /\ sent' = [sent EXCEPT ![e] = n + 1]
        /\ n < Len(q) /\ HandshakeDone(so[e])
    BY DEF SendPacket
  <1>2. n \in Nat /\ sent \in [Ends -> Nat] /\ q \in Seq([type : {"DATA", "LONG"}, n : Nat])
    BY EnvsAssumption DEF Typed, Ends
  <1>3. sent' \in [Ends -> Nat]
    BY <1>1, <1>2
  <1>4. f \in [type : {"DATA", "LONG"}, n : Nat]
    <2> HIDE DEF n, q
    <2>1. n + 1 \in 1..Len(q)
      BY <1>1, <1>2
    <2>2. q[n + 1] \in [type : {"DATA", "LONG"}, n : Nat]
      BY <1>2, <2>1, ElementOfSeq
    <2> QED BY <2>2 DEF n, q
  <1> HIDE DEF f
  <1>5. {"DATA", "LONG"} \subseteq Types(Other(e), d)
    BY <1>1 DEF Types, Ends, Other, HandshakeDone
  <1>6. Batch(<<f>>, [type : Types(Other(e), d), n : Nat])
    <2>1. f \in [type : Types(Other(e), d), n : Nat]
      BY <1>4, <1>5
    <2> QED BY <2>1 DEF Batch
  <1>7. Carried(net', d)
    <2>1. Carried(net, d)
      BY CarriedNow
    <2> HIDE DEF d
    <2> QED BY <1>1, <1>6, <2>1, DeliveredFacts
  <1>8. StreamsInv'
    BY <1>1, <1>7, StreamsSame
  <1> QED BY <1>1, <1>3, <1>7, <1>8 DEF Typed, Carried

LEMMA ArrivalTyped ==
  ASSUME Typed, StreamsInv, NEW e \in Ends, Arrival(e)
  PROVE  Typed' /\ StreamsInv'
  <1> DEFINE d == so["S"].dh
             p == net[e].tr
             g == Segment
             a == SubSeq(p, 1, g)
             b == SubSeq(p, g + 1, Len(p))
  <1>1. /\ UNCHANGED <<env, ls, so, ctx, ops, tasks, rd, call, told, conn, sent>>
        /\ net' = [net EXCEPT ![e].kin = @ \o a, ![e].tr = b] /\ p # <<>>
    BY DEF Arrival
  <1>2. /\ net \in [Ends -> Nets] /\ p \in Seq(To(e, d)) /\ net[e].kin \in Seq(To(e, d))
        /\ ~env.split => Whole(p)
    BY DEF StreamsInv, Carried
  <1>3. g \in 1..Len(p) /\ (~env.split => g = 3)
    <2>1. Len(p) \in Nat \ {0}
      BY <1>1, <1>2, EmptySeq
    <2>2. CASE env.split
      BY <2>1, <2>2 DEF Segment
    <2>3. CASE ~env.split
      <3>1. PICK k \in 0..Len(p) : Len(p) = 3 * k
        BY <1>2, <2>3 DEF Whole
      <3> HIDE DEF p
      <3>2. 3 \in 1..Len(p)
        BY <2>1, <3>1
      <3> QED BY <2>3, <3>2 DEF Segment
    <2> QED BY <2>2, <2>3
  <1> HIDE DEF g, p, d
  <1>4. a \in Seq(To(e, d)) /\ b \in Seq(To(e, d)) /\ Len(b) = Len(p) - g
    <2>1. Len(p) \in Nat /\ g \in Int /\ g + 1 \in Int /\ Len(p) \in Int /\ 1 \in Int
      BY <1>2, <1>3
    <2>2. (\A i \in 1..g : p[i] \in To(e, d)) /\ \A i \in (g + 1)..Len(p) : p[i] \in To(e, d)
      <3>1. (\A i \in 1..g : i \in 1..Len(p)) /\ \A i \in (g + 1)..Len(p) : i \in 1..Len(p)
        BY <1>3, <2>1
      <3> QED BY <1>2, <3>1, ElementOfSeq
    <2>3. a \in Seq(To(e, d))
      BY <2>1, <2>2, SubSeqProperties
    <2>4. b \in Seq(To(e, d)) /\ Len(b) = IF g + 1 <= Len(p) THEN Len(p) - (g + 1) + 1 ELSE 0
      BY <2>1, <2>2, SubSeqProperties
    <2> HIDE DEF b
    <2> QED BY <1>3, <2>1, <2>3, <2>4
  <1> HIDE DEF a, b
  <1>5. net[e].kin \o a \in Seq(To(e, d)) /\ net[e].kin \o a \in Seq(Parts) /\ b \in Seq(Parts)
    <2>1. net[e].kin \o a \in Seq(To(e, d))
      BY <1>2, <1>4, ConcatProperties
    <2> QED BY <1>4, <2>1, TypesFacts, SeqMonotonic
  <1>6. ~env.split => Whole(b)
    <2> SUFFICES ASSUME ~env.split PROVE Whole(b)
      OBVIOUS
    <2>1. PICK k \in 0..Len(p) : Len(p) = 3 * k
      BY <1>2 DEF Whole
    <2>2. g = 3 /\ Len(p) \in Nat /\ 3 <= Len(p)
      BY <1>2, <1>3
    <2>3. k - 1 \in 0..Len(b) /\ Len(b) = 3 * (k - 1)
      BY <1>4, <2>1, <2>2
    <2> QED BY <2>3 DEF Whole
  <1>7. /\ net' \in [Ends -> Nets]
        /\ \A x \in Ends : /\ net'[x].kin = IF x = e THEN net[e].kin \o a ELSE net[x].kin
                           /\ net'[x].tr = IF x = e THEN b ELSE net[x].tr
    BY <1>1, <1>2, <1>5 DEF Nets
  <1>8. Carried(net', d)
    <2>1. Carried(net, d)
      BY CarriedNow DEF d
    <2> QED BY <1>4, <1>5, <1>6, <1>7, <2>1 DEF Carried
  <1>9. StreamsInv'
    BY <1>1, <1>8, StreamsSame DEF d
  <1> QED BY <1>1, <1>7, <1>9 DEF Typed

LEMMA ClosedFacts ==
  ASSUME NEW s \in Sockets
  PROVE  /\ ClosedSocket(s) \in Sockets /\ ClosedSocket(s).st = "CLOSED"
         /\ ClosedSocket(s).rb = s.rb /\ ClosedSocket(s).dh = s.dh
  BY DEF ClosedSocket, Sockets, States, Flags

(* The tasks of an end, and its operations at the observer. *)
TaskSet == [Ends -> [Kinds -> Nat]]
Up(ts, e, k) == [ts EXCEPT ![e][k] = @ + 1]
Down(ts, e, k) == [ts EXCEPT ![e][k] = @ - 1]
LEMMA TaskUp ==
  ASSUME NEW ts \in TaskSet, NEW e \in Ends, NEW k \in Kinds
  PROVE  /\ Up(ts, e, k) \in TaskSet /\ \A x \in Ends : x # e => Up(ts, e, k)[x] = ts[x]
         /\ \A x \in Kinds : Up(ts, e, k)[e][x] = IF x = k THEN ts[e][x] + 1 ELSE ts[e][x]
  <1> DEFINE u == Up(ts, e, k)
  <1>1. ts[e] \in [Kinds -> Nat] /\ ts[e][k] + 1 \in Nat
    BY DEF TaskSet
  <1>2. u = [ts EXCEPT ![e] = [ts[e] EXCEPT ![k] = ts[e][k] + 1]]
    BY DEF Up
  <1> QED BY <1>1, <1>2 DEF TaskSet

LEMMA TaskDown ==
  ASSUME NEW ts \in TaskSet, NEW e \in Ends, NEW k \in Kinds, ts[e][k] > 0
  PROVE  /\ Down(ts, e, k) \in TaskSet /\ \A x \in Ends : x # e => Down(ts, e, k)[x] = ts[x]
         /\ \A x \in Kinds : Down(ts, e, k)[e][x] = IF x = k THEN ts[e][x] - 1 ELSE ts[e][x]
  <1> DEFINE u == Down(ts, e, k)
  <1>0. ts[e] \in [Kinds -> Nat] /\ ts[e][k] \in Nat
    BY DEF TaskSet
  <1>1. ts[e][k] - 1 \in Nat
    BY <1>0
  <1>2. u = [ts EXCEPT ![e] = [ts[e] EXCEPT ![k] = ts[e][k] - 1]]
    BY DEF Down
  <1> QED BY <1>0, <1>1, <1>2 DEF TaskSet

LEMMA Single == ASSUME NEW Z, NEW z \in Z PROVE <<z>> \in Seq(Z)
  OBVIOUS

LEMMA OpsUp ==
  ASSUME NEW os \in [Ends -> Seq(OpSet)], NEW e \in Ends, NEW q \in Seq(OpSet), NEW u, u = [os EXCEPT ![e] = @ \o q]
  PROVE  u \in [Ends -> Seq(OpSet)] /\ u[e] = os[e] \o q /\ \A x \in Ends : x # e => u[x] = os[x]
  <1>1. os[e] \o q \in Seq(OpSet)
    BY ConcatProperties
  <1> QED BY <1>1

TwoOps(os, e, a, b) == [os EXCEPT ![e] = (@ \o a) \o b]
LEMMA OpsTwo ==
  ASSUME NEW os \in [Ends -> Seq(OpSet)], NEW e \in Ends, NEW a \in Seq(OpSet), NEW b \in Seq(OpSet)
  PROVE  /\ TwoOps(os, e, a, b) \in [Ends -> Seq(OpSet)] /\ TwoOps(os, e, a, b)[e] = os[e] \o (a \o b)
         /\ \A x \in Ends : x # e => TwoOps(os, e, a, b)[x] = os[x]
  <1> DEFINE u == TwoOps(os, e, a, b)
  <1>1. (os[e] \o a) \o b = os[e] \o (a \o b)
    BY ConcatAssociative
  <1>2. a \o b \in Seq(OpSet) /\ os[e] \o (a \o b) \in Seq(OpSet)
    BY ConcatProperties
  <1> DEFINE q == os[e] \o (a \o b)
  <1>3. u = [os EXCEPT ![e] = q]
    BY <1>1 DEF TwoOps
  <1>4. q \in Seq(OpSet)
    BY <1>2
  <1> HIDE DEF q
  <1>5. u \in [Ends -> Seq(OpSet)] /\ u[e] = q /\ \A x \in Ends : x # e => u[x] = os[x]
    BY <1>3, <1>4
  <1> QED BY <1>5 DEF q

LEMMA EndFacts ==
  ASSUME NEW s
  PROVE  /\ EndRead(s) \in {<<>>, <<UnwatchOp("R")>>} /\ EndWrite(s) \in {<<>>, <<UnwatchOp("W")>>}
         /\ UnwatchOp("R") \in OpSet /\ UnwatchOp("W") \in OpSet
         /\ EndRead(s) \in Seq(OpSet) /\ EndWrite(s) \in Seq(OpSet)
         /\ EndRead(s) \o EndWrite(s) \in Seq(OpSet)
  <1>1. UnwatchOp("R") \in OpSet /\ UnwatchOp("W") \in OpSet
    BY DEF UnwatchOp, OpSet, Fns
  <1>2. EndRead(s) \in {<<>>, <<UnwatchOp("R")>>} /\ EndWrite(s) \in {<<>>, <<UnwatchOp("W")>>}
    BY DEF EndRead, EndWrite
  <1>3. EndRead(s) \in Seq(OpSet) /\ EndWrite(s) \in Seq(OpSet)
    <2>1. <<UnwatchOp("R")>> \in Seq(OpSet) /\ <<UnwatchOp("W")>> \in Seq(OpSet) /\ <<>> \in Seq(OpSet)
      BY <1>1
    <2> QED BY <1>2, <2>1, Zenon
  <1>4. EndRead(s) \o EndWrite(s) \in Seq(OpSet)
    BY <1>3, ConcatProperties
  <1> QED BY <1>1, <1>2, <1>3, <1>4

LEMMA HandleAcceptTyped ==
  ASSUME Typed, StreamsInv, NEW ok \in BOOLEAN, HandleAccept(ok)
  PROVE  Typed' /\ StreamsInv' /\ so'["C"] = so["C"] /\ tasks'["C"] = tasks["C"]
  <1>1. UNCHANGED <<env, ctx, ops, rd, call, told, conn, net, sent>>
    BY DEF HandleAccept
  <1>2. /\ so' \in [Ends -> Sockets] /\ so'["C"] = so["C"]
        /\ \A e \in Ends : so'[e].rb = so[e].rb /\ so'[e].dh = so[e].dh
    <2>1. so' \in {so, Accepted, [so EXCEPT !["S"] = ClosedSocket(so["S"])]} /\ so \in [Ends -> Sockets]
      BY DEF HandleAccept, Typed
    <2>2. CASE so' = Accepted
      BY <2>1, <2>2, ZenonT(30) DEF Accepted, Ends, Sockets, States, Flags
    <2>3. CASE so' = [so EXCEPT !["S"] = ClosedSocket(so["S"])]
      <3>1. so["S"] \in Sockets
        BY <2>1 DEF Ends
      <3> QED BY <2>1, <2>3, <3>1, ClosedFacts DEF Ends
    <2> QED BY <2>1, <2>2, <2>3
  <1>3. tasks' \in [Ends -> [Kinds -> Nat]] /\ tasks'["C"] = tasks["C"]
    <2>1. tasks' = tasks \/ tasks' = Scheduled("S", "added")
      BY DEF HandleAccept
    <2>2. tasks \in TaskSet /\ "S" \in Ends /\ "C" \in Ends /\ "added" \in Kinds
      BY DEF Typed, TaskSet, Ends, Kinds
    <2>3. CASE tasks' = Scheduled("S", "added")
      <3>0. tasks' = Up(tasks, "S", "added")
        BY <2>3 DEF Scheduled, Up
      <3>1. tasks' \in TaskSet /\ \A x \in Ends : x # "S" => tasks'[x] = tasks[x]
        BY <2>2, <3>0, TaskUp
      <3> QED BY <2>2, <3>1 DEF TaskSet
    <2> QED BY <2>1, <2>2, <2>3 DEF TaskSet
  <1>4. StreamsInv'
    BY <1>1, <1>2, CarriedNow, StreamsSame
  <1>5. ls' \in Lss /\ ls'.posted <= env.posted
    <2> DEFINE p == ls.posted
               q == env.posted
    <2>1. q \in Nat \ {0} /\ p \in Nat /\ p <= q /\ ls \in Lss
      BY EnvsAssumption DEF Typed, Lss
    <2>2. p > 0 /\ (ls' = [ls EXCEPT !.posted = p] \/ ls' = [ls EXCEPT !.posted = p - 1])
      BY DEF HandleAccept
    <2> HIDE DEF p, q
    <2>3. p - 1 <= q /\ p - 1 \in Nat
      BY <2>1, <2>2
    <2>4. ls' \in Lss /\ ls'.posted \in {p, p - 1}
      BY <2>1, <2>2, <2>3 DEF Lss
    <2> QED BY <2>1, <2>3, <2>4 DEF q
  <1> QED BY <1>1, <1>2, <1>3, <1>4, <1>5 DEF Typed

(* A socket that is watched for reading, or no longer. *)
LEMMA WatchedFacts ==
  ASSUME NEW s \in Sockets
  PROVE  /\ Watched(s) \in Sockets /\ Watched(s).st = s.st /\ Watched(s).rb = s.rb /\ Watched(s).dh = s.dh
         /\ Unwatched(s) \in Sockets /\ Unwatched(s).st = s.st /\ Unwatched(s).rb = s.rb /\ Unwatched(s).dh = s.dh
  BY DEF Watched, Unwatched, Sockets, Flags

BeginsRead(e, s, ts, b) ==
  /\ b.s \in Sockets /\ b.s.st = s.st /\ b.s.rb = s.rb /\ b.s.dh = s.dh
  /\ b.ops \in {<<>>, <<WatchOp("read", FALSE)>>} /\ b.ops \in Seq(OpSet)
  /\ b.tasks \in TaskSet /\ \A x \in Ends : x # e => b.tasks[x] = ts[x]
  /\ \A x \in Kinds : b.tasks[e][x] = ts[e][x] \/ (x \in {"read", "error"} /\ b.tasks[e][x] = ts[e][x] + 1)
LEMMA BeginReadFacts ==
  ASSUME NEW e \in Ends, NEW s \in Sockets, NEW ts \in TaskSet, NEW post \in BOOLEAN
  PROVE  BeginsRead(e, s, ts, BeginRead(e, s, ts, post))
  <1> DEFINE b == BeginRead(e, s, ts, post)
  <1>0. WatchOp("read", FALSE) \in OpSet
    BY DEF WatchOp, OpSet, Fns
  <1>1. CASE "SHUT" \in s.rf
    <2> DEFINE u == Up(ts, e, "error")
    <2>1. b = [s |-> s, ops |-> <<>>, tasks |-> u] /\ "error" \in Kinds
      BY <1>1 DEF BeginRead, Kinds, Up
    <2>2. /\ u \in TaskSet /\ \A x \in Ends : x # e => u[x] = ts[x]
          /\ \A x \in Kinds : u[e][x] = IF x = "error" THEN ts[e][x] + 1 ELSE ts[e][x]
      BY <2>1, TaskUp
    <2> HIDE DEF u
    <2> HIDE DEF b
    <2>3. b.s = s /\ b.ops = <<>> /\ b.tasks = u
      BY <2>1
    <2>4. BeginsRead(e, s, ts, b)
      BY <2>2, <2>3 DEF BeginsRead
    <2> QED BY <2>4 DEF b
  <1>2. CASE "SHUT" \notin s.rf /\ "WATCH" \in s.rf
    BY <1>2 DEF BeginRead, BeginsRead
  <1>3. CASE "SHUT" \notin s.rf /\ "WATCH" \notin s.rf
    <2> DEFINE u == [ts EXCEPT ![e]["read"] = IF post THEN @ + 1 ELSE @]
    <2>1. b = [s |-> Watched(s), ops |-> <<WatchOp("read", FALSE)>>, tasks |-> u] /\ "read" \in Kinds
      BY <1>3 DEF BeginRead, Kinds
    <2>2. /\ u \in TaskSet /\ \A x \in Ends : x # e => u[x] = ts[x]
          /\ \A x \in Kinds : u[e][x] = IF x = "read" /\ post THEN ts[e][x] + 1 ELSE ts[e][x]
      <3>1. CASE post
        <4>1. u = Up(ts, e, "read")
          BY <3>1 DEF Up
        <4> HIDE DEF u
        <4> QED BY <2>1, <3>1, <4>1, TaskUp
      <3>2. CASE ~post
        <4>1. u = ts
          BY <2>1, <3>2 DEF TaskSet
        <4> QED BY <3>2, <4>1
      <3> QED BY <3>1, <3>2
    <2> HIDE DEF u
    <2> DEFINE w == Watched(s)
               q == <<WatchOp("read", FALSE)>>
    <2>a. q \in Seq(OpSet)
      BY <1>0, Single
    <2>b. w \in Sockets /\ w.st = s.st /\ w.rb = s.rb /\ w.dh = s.dh
      BY WatchedFacts
    <2>c. b = [s |-> w, ops |-> q, tasks |-> u]
      BY <2>1
    <2> HIDE DEF w, q, b
    <2>3. b.s = w /\ b.ops = q /\ b.tasks = u
      BY <2>c
    <2>4. b.ops \in {<<>>, <<WatchOp("read", FALSE)>>}
      BY <2>3 DEF q
    <2>5. \A x \in Kinds : b.tasks[e][x] = ts[e][x] \/ (x \in {"read", "error"} /\ b.tasks[e][x] = ts[e][x] + 1)
      BY <2>2, <2>3
    <2>6. BeginsRead(e, s, ts, b)
      BY <2>2, <2>3, <2>4, <2>5, <2>a, <2>b DEF BeginsRead
    <2> QED BY <2>6 DEF b
  <1> QED BY <1>1, <1>2, <1>3

LEMMA NowTyped ==
  ASSUME Typed, NEW e \in Ends
  PROVE  /\ so \in [Ends -> Sockets] /\ so[e] \in Sockets /\ tasks \in TaskSet /\ ops \in [Ends -> Seq(OpSet)]
         /\ net \in [Ends -> Nets] /\ rd \in [Ends -> [who : Whos, always : BOOLEAN, new : Seq(Frames)]]
         /\ \A k \in Kinds : tasks[e][k] \in Nat
  BY DEF Typed, TaskSet

LEMMA ToldFacts ==
  ASSUME NEW t \in [ok : Nat, err : Nat, acc : Nat]
  PROVE  /\ [t EXCEPT !.ok = @ + 1] \in [ok : Nat, err : Nat, acc : Nat]
         /\ [t EXCEPT !.ok = @ + 1].ok = t.ok + 1 /\ [t EXCEPT !.ok = @ + 1].err = t.err
         /\ [t EXCEPT !.acc = @ + 1] \in [ok : Nat, err : Nat, acc : Nat]
         /\ [t EXCEPT !.acc = @ + 1].ok = t.ok /\ [t EXCEPT !.acc = @ + 1].err = t.err
         /\ [t EXCEPT !.err = @ + 1] \in [ok : Nat, err : Nat, acc : Nat]
         /\ [t EXCEPT !.err = @ + 1].ok = t.ok /\ [t EXCEPT !.err = @ + 1].err = t.err + 1
  <1> DEFINE a == t.ok + 1
             b == t.err + 1
             c == t.acc + 1
  <1>1. a \in Nat /\ b \in Nat /\ c \in Nat
    OBVIOUS
  <1>2. /\ [t EXCEPT !.ok = @ + 1] = [t EXCEPT !.ok = a]
        /\ [t EXCEPT !.err = @ + 1] = [t EXCEPT !.err = b]
        /\ [t EXCEPT !.acc = @ + 1] = [t EXCEPT !.acc = c]
    OBVIOUS
  <1>3. /\ [t EXCEPT !.ok = a] \in [ok : Nat, err : Nat, acc : Nat]
        /\ [t EXCEPT !.ok = a].ok = a /\ [t EXCEPT !.ok = a].err = t.err
        /\ [t EXCEPT !.acc = c] \in [ok : Nat, err : Nat, acc : Nat]
        /\ [t EXCEPT !.acc = c].ok = t.ok /\ [t EXCEPT !.acc = c].err = t.err
        /\ [t EXCEPT !.err = b] \in [ok : Nat, err : Nat, acc : Nat]
        /\ [t EXCEPT !.err = b].ok = t.ok /\ [t EXCEPT !.err = b].err = b
    <2> HIDE DEF a, b, c
    <2> QED BY <1>1
  <1> QED BY <1>2, <1>3

LEMMA HoldingFacts ==
  /\ Idle \in [who : Whos, always : BOOLEAN, new : Seq(Frames)]
  /\ \A k \in Whos : Holding(k) \in [who : Whos, always : BOOLEAN, new : Seq(Frames)] /\ Holding(k).who = k
  /\ Idle.who = "none"
  <1>1. <<>> \in Seq(Frames)
    OBVIOUS
  <1> QED BY <1>1 DEF Idle, Holding, Whos

(* A step of end e that takes and leaves tasks, operations and flags, and   *)
(* neither frames nor keys.                                                 *)
LEMMA LocalTyped ==
  ASSUME Typed, StreamsInv, NEW e \in Ends, env' = env, ls' = ls, conn' = conn, sent' = sent, net' = net,
         call' \in {"idle", "begun", "blocking", "failed"},
         NEW s \in Sockets, s.rb = so[e].rb, s.dh = so[e].dh, so' = [so EXCEPT ![e] = s],
         tasks' \in TaskSet, ops' \in [Ends -> Seq(OpSet)], told' \in [ok : Nat, err : Nat, acc : Nat],
         rd' \in [Ends -> [who : Whos, always : BOOLEAN, new : Seq(Frames)]],
         ctx' \in [Ends -> [r : Fns, inf : BOOLEAN, w : Fns]]
  PROVE  Typed' /\ StreamsInv' /\ so'[e] = s /\ \A x \in Ends : x # e => so'[x] = so[x]
  <1>1. so' \in [Ends -> Sockets] /\ so'[e] = s /\ \A x \in Ends : x # e => so'[x] = so[x]
    BY NowTyped
  <1>2. \A x \in Ends : so'[x].rb = so[x].rb /\ so'[x].dh = so[x].dh
    BY <1>1
  <1>3. StreamsInv'
    BY <1>2, CarriedNow, StreamsSame
  <1>4. Typed'
    BY <1>1 DEF Typed, TaskSet
  <1> QED BY <1>1, <1>3, <1>4

(* A step of the reading on end e. *)
OthersSame(e) ==
  \A x \in Ends : x # e => so'[x] = so[x] /\ ops'[x] = ops[x] /\ tasks'[x] = tasks[x] /\ ctx'[x] = ctx[x] /\ rd'[x] = rd[x]
EndOps == {o \in OpSet : o.op = "unwatch"}
ReadOps == {o \in OpSet : o.op = "unwatch" \/ (o.dir = "R" /\ o.fn = "read")}
ReadStep(e) ==
  /\ OthersSame(e) /\ UNCHANGED <<env, call, conn>> /\ told'.err = told.err /\ ctx'[e] = ctx[e]
  /\ so'[e].st \in {so[e].st, "CLOSED"} /\ Handshook(e, so'[e].dh)
  /\ \E q \in Seq(ReadOps) : ops'[e] = ops[e] \o q
  /\ \A x \in Kinds \ {"added", "read", "rderr", "error"} : tasks'[e][x] = tasks[e][x]
  /\ rd'[e].who \in {rd[e].who, "none", "read", "rderr"}

LEMMA ReadOpsFacts ==
  ASSUME NEW s
  PROVE  /\ <<>> \in Seq(ReadOps) /\ <<WatchOp("read", FALSE)>> \in Seq(ReadOps)
         /\ EndRead(s) \in Seq(ReadOps) /\ EndWrite(s) \in Seq(ReadOps)
         /\ EndRead(s) \o EndWrite(s) \in Seq(ReadOps)
         /\ Seq(ReadOps) \subseteq Seq(OpSet)
         /\ EndRead(s) \in Seq(EndOps) /\ EndWrite(s) \in Seq(EndOps) /\ EndRead(s) \o EndWrite(s) \in Seq(EndOps)
  <1>0. UnwatchOp("R") \in OpSet /\ UnwatchOp("W") \in OpSet /\ WatchOp("read", FALSE) \in OpSet
    BY DEF UnwatchOp, WatchOp, OpSet, Fns
  <1>1. UnwatchOp("R") \in ReadOps /\ UnwatchOp("W") \in ReadOps /\ WatchOp("read", FALSE) \in ReadOps
    BY <1>0 DEF UnwatchOp, WatchOp, ReadOps
  <1>2. <<UnwatchOp("R")>> \in Seq(ReadOps) /\ <<UnwatchOp("W")>> \in Seq(ReadOps) /\ <<WatchOp("read", FALSE)>> \in Seq(ReadOps)
    BY <1>1, Single
  <1>3. <<>> \in Seq(ReadOps)
    OBVIOUS
  <1>4. EndRead(s) \in Seq(ReadOps) /\ EndWrite(s) \in Seq(ReadOps)
    BY <1>2, <1>3, EndFacts, Zenon
  <1>5. EndRead(s) \o EndWrite(s) \in Seq(ReadOps)
    BY <1>4, ConcatProperties
  <1>6. ReadOps \subseteq OpSet
    BY DEF ReadOps
  <1>7. UnwatchOp("R") \in EndOps /\ UnwatchOp("W") \in EndOps
    BY <1>0 DEF UnwatchOp, EndOps
  <1>8. <<UnwatchOp("R")>> \in Seq(EndOps) /\ <<UnwatchOp("W")>> \in Seq(EndOps) /\ <<>> \in Seq(EndOps)
    BY <1>7, Single
  <1>9. EndRead(s) \in Seq(EndOps) /\ EndWrite(s) \in Seq(EndOps)
    BY <1>8, EndFacts, Zenon
  <1>10. EndRead(s) \o EndWrite(s) \in Seq(EndOps)
    BY <1>9, ConcatProperties
  <1> QED BY <1>2, <1>3, <1>4, <1>5, <1>6, <1>9, <1>10, SeqMonotonic

LEMMA SameDh == ASSUME Typed, StreamsInv, NEW e \in Ends PROVE Handshook(e, so[e].dh)
  <1>1. so[e].dh \in Dhs
    BY NowTyped DEF Sockets
  <1> QED BY <1>1 DEF Handshook, StreamsInv

LEMMA PeerAddedTyped ==
  ASSUME Typed, StreamsInv, NEW e \in Ends, PeerAdded(e)
  PROVE  /\ Typed' /\ StreamsInv' /\ ReadStep(e)
         /\ tasks[e]["added"] > 0 /\ tasks'[e]["added"] = tasks[e]["added"] - 1
         /\ told'.ok = IF e = "C" THEN told.ok + 1 ELSE told.ok
  <1> DEFINE ts == Down(tasks, e, "added")
             b  == BeginRead(e, so[e], ts, Posts(e))
  <1>1. /\ so' = [so EXCEPT ![e] = b.s] /\ ops' = [ops EXCEPT ![e] = @ \o b.ops] /\ tasks' = b.tasks
        /\ told' = (IF e = "C" THEN [told EXCEPT !.ok = @ + 1] ELSE [told EXCEPT !.acc = @ + 1])
        /\ UNCHANGED <<env, ls, ctx, rd, call, conn, net, sent>> /\ tasks[e]["added"] > 0
    BY DEF PeerAdded, Taken, Down
  <1>2. "added" \in Kinds /\ Posts(e) \in BOOLEAN
    BY DEF Kinds, Posts
  <1>3. /\ ts \in TaskSet /\ \A x \in Ends : x # e => ts[x] = tasks[x]
        /\ \A x \in Kinds : ts[e][x] = IF x = "added" THEN tasks[e][x] - 1 ELSE tasks[e][x]
    BY <1>1, <1>2, NowTyped, TaskDown
  <1> HIDE DEF ts
  <1>4. /\ b.s \in Sockets /\ b.s.st = so[e].st /\ b.s.rb = so[e].rb /\ b.s.dh = so[e].dh
        /\ b.ops \in {<<>>, <<WatchOp("read", FALSE)>>} /\ b.ops \in Seq(OpSet)
        /\ b.tasks \in TaskSet /\ \A x \in Ends : x # e => b.tasks[x] = ts[x]
        /\ \A x \in Kinds : b.tasks[e][x] = ts[e][x] \/ (x \in {"read", "error"} /\ b.tasks[e][x] = ts[e][x] + 1)
    <2>1. BeginsRead(e, so[e], ts, b)
      BY <1>2, <1>3, NowTyped, BeginReadFacts
    <2> QED BY <2>1 DEF BeginsRead
  <1> HIDE DEF b
  <1>5. ops' \in [Ends -> Seq(OpSet)] /\ ops'[e] = ops[e] \o b.ops /\ \A x \in Ends : x # e => ops'[x] = ops[x]
    BY <1>1, <1>4, NowTyped, OpsUp
  <1>6. /\ told' \in [ok : Nat, err : Nat, acc : Nat]
        /\ IF e = "C" THEN told'.ok = told.ok + 1 /\ told'.err = told.err ELSE told'.ok = told.ok /\ told'.err = told.err
    BY <1>1, ToldFacts DEF Typed
  <1>7. Typed' /\ StreamsInv' /\ so'[e] = b.s /\ \A x \in Ends : x # e => so'[x] = so[x]
    <2>1. /\ ctx' \in [Ends -> [r : Fns, inf : BOOLEAN, w : Fns]] /\ call' \in {"idle", "begun", "blocking", "failed"}
          /\ rd' \in [Ends -> [who : Whos, always : BOOLEAN, new : Seq(Frames)]]
      BY <1>1 DEF Typed
    <2> QED BY <1>1, <1>4, <1>5, <1>6, <2>1, LocalTyped
  <1>8. tasks'[e]["added"] = tasks[e]["added"] - 1
    BY <1>1, <1>2, <1>3, <1>4
  <1>9. \A x \in Kinds \ {"added", "read", "rderr", "error"} : tasks'[e][x] = tasks[e][x]
    BY <1>1, <1>3, <1>4
  <1>10. \E q \in Seq(ReadOps) : ops'[e] = ops[e] \o q
    BY <1>4, <1>5, ReadOpsFacts
  <1>11. so'[e].st \in {so[e].st, "CLOSED"} /\ Handshook(e, so'[e].dh)
    BY <1>4, <1>7, SameDh
  <1>12. OthersSame(e) /\ ctx'[e] = ctx[e] /\ rd'[e].who = rd[e].who
    BY <1>1, <1>3, <1>4, <1>5, <1>7 DEF OthersSame
  <1>13. told'.err = told.err /\ told'.ok = IF e = "C" THEN told.ok + 1 ELSE told.ok
    BY <1>6
  <1> QED BY <1>1, <1>7, <1>8, <1>9, <1>10, <1>11, <1>12, <1>13 DEF ReadStep

LEMMA TakenFacts ==
  ASSUME Typed, NEW e \in Ends, NEW k \in Kinds, tasks[e][k] > 0
  PROVE  /\ Taken(e, k) \in TaskSet /\ \A x \in Ends : x # e => Taken(e, k)[x] = tasks[x]
         /\ \A x \in Kinds : Taken(e, k)[e][x] = IF x = k THEN tasks[e][x] - 1 ELSE tasks[e][x]
  <1>1. Taken(e, k) = Down(tasks, e, k)
    BY DEF Taken, Down
  <1> QED BY <1>1, NowTyped, TaskDown

LEMMA ScheduledFacts ==
  ASSUME Typed, NEW e \in Ends, NEW k \in Kinds
  PROVE  /\ Scheduled(e, k) \in TaskSet /\ \A x \in Ends : x # e => Scheduled(e, k)[x] = tasks[x]
         /\ \A x \in Kinds : Scheduled(e, k)[e][x] = IF x = k THEN tasks[e][x] + 1 ELSE tasks[e][x]
  <1>1. Scheduled(e, k) = Up(tasks, e, k)
    BY DEF Scheduled, Up
  <1> QED BY <1>1, NowTyped, TaskUp

LEMMA ReadBeginsTyped ==
  ASSUME Typed, StreamsInv, NEW e \in Ends, NEW k \in {"read", "rderr"}, ReadBegins(e, k)
  PROVE  /\ Typed' /\ StreamsInv' /\ ReadStep(e)
         /\ tasks[e][k] > 0 /\ tasks'[e]["added"] = tasks[e]["added"] /\ told' = told
  <1>1. /\ so' = [so EXCEPT ![e] = Unwatched(so[e])] /\ ops' = [ops EXCEPT ![e] = @ \o EndRead(so[e])]
        /\ tasks' = Taken(e, k) /\ rd' = [rd EXCEPT ![e] = Holding(k)] /\ tasks[e][k] > 0
        /\ UNCHANGED <<env, ls, ctx, call, told, conn, net, sent>>
    BY DEF ReadBegins
  <1>2. k \in Kinds /\ k \in Whos /\ "added" \in Kinds /\ k # "added"
    BY DEF Kinds, Whos
  <1>3. /\ tasks' \in TaskSet /\ \A x \in Ends : x # e => tasks'[x] = tasks[x]
        /\ \A x \in Kinds : x # k => tasks'[e][x] = tasks[e][x]
    BY <1>1, <1>2, TakenFacts
  <1>4. ops' \in [Ends -> Seq(OpSet)] /\ ops'[e] = ops[e] \o EndRead(so[e]) /\ \A x \in Ends : x # e => ops'[x] = ops[x]
    BY <1>1, NowTyped, EndFacts, OpsUp
  <1>5. /\ rd' \in [Ends -> [who : Whos, always : BOOLEAN, new : Seq(Frames)]] /\ rd'[e].who = k
        /\ \A x \in Ends : x # e => rd'[x] = rd[x]
    BY <1>1, <1>2, NowTyped, HoldingFacts
  <1> DEFINE s == Unwatched(so[e])
  <1>6. s \in Sockets /\ s.st = so[e].st /\ s.rb = so[e].rb /\ s.dh = so[e].dh
    BY NowTyped, WatchedFacts
  <1>7. /\ ctx' \in [Ends -> [r : Fns, inf : BOOLEAN, w : Fns]] /\ call' \in {"idle", "begun", "blocking", "failed"}
        /\ told' \in [ok : Nat, err : Nat, acc : Nat] /\ env' = env /\ ls' = ls /\ conn' = conn /\ sent' = sent /\ net' = net
        /\ so' = [so EXCEPT ![e] = s]
    BY <1>1 DEF Typed
  <1> HIDE DEF s
  <1>8. Typed' /\ StreamsInv' /\ so'[e] = s /\ \A x \in Ends : x # e => so'[x] = so[x]
    BY <1>3, <1>4, <1>5, <1>6, <1>7, LocalTyped
  <1>9. \E q \in Seq(ReadOps) : ops'[e] = ops[e] \o q
    BY <1>4, ReadOpsFacts
  <1>10. so'[e].st \in {so[e].st, "CLOSED"} /\ Handshook(e, so'[e].dh)
    BY <1>6, <1>8, SameDh
  <1>11. OthersSame(e) /\ ctx'[e] = ctx[e]
    BY <1>1, <1>3, <1>4, <1>5, <1>8 DEF OthersSame
  <1>12. \A x \in Kinds \ {"added", "read", "rderr", "error"} : tasks'[e][x] = tasks[e][x]
    BY <1>3
  <1> QED BY <1>1, <1>2, <1>3, <1>5, <1>8, <1>9, <1>10, <1>11, <1>12 DEF ReadStep

LEMMA ClosesTyped ==
  ASSUME Typed, StreamsInv, NEW e \in Ends, AsyncError(e) \/ UserCloses(e)
  PROVE  /\ Typed' /\ StreamsInv' /\ ReadStep(e)
         /\ tasks[e]["error"] > 0 \/ Known(e)
         /\ tasks'[e]["added"] = tasks[e]["added"] /\ told' = told
  <1> DEFINE s == ClosedSocket(so[e])
             q == EndRead(so[e]) \o EndWrite(so[e])
  <1>1. /\ so' = [so EXCEPT ![e] = s] /\ ops' = [ops EXCEPT ![e] = (@ \o EndRead(so[e])) \o EndWrite(so[e])]
        /\ UNCHANGED <<env, ls, ctx, rd, call, told, conn, net, sent>>
    BY DEF AsyncError, UserCloses, Closes
  <1>2. (tasks' = tasks /\ Known(e)) \/ (tasks' = Taken(e, "error") /\ tasks[e]["error"] > 0)
    BY DEF AsyncError, UserCloses
  <1>3. "error" \in Kinds /\ "added" \in Kinds
    BY DEF Kinds
  <1>4. /\ tasks' \in TaskSet /\ \A x \in Ends : x # e => tasks'[x] = tasks[x]
        /\ \A x \in Kinds : x # "error" => tasks'[e][x] = tasks[e][x]
    <2>1. CASE tasks' = tasks
      BY <2>1, NowTyped
    <2>2. CASE tasks' = Taken(e, "error") /\ tasks[e]["error"] > 0
      BY <1>3, <2>2, TakenFacts
    <2> QED BY <1>2, <2>1, <2>2
  <1>5. ops' = [ops EXCEPT ![e] = @ \o q]
    <2>1. ops[e] \in Seq(OpSet) /\ EndRead(so[e]) \in Seq(OpSet) /\ EndWrite(so[e]) \in Seq(OpSet)
      BY NowTyped, EndFacts
    <2>2. (ops[e] \o EndRead(so[e])) \o EndWrite(so[e]) = ops[e] \o q
      <3> DEFINE o == ops[e]
                 a == EndRead(so[e])
                 b == EndWrite(so[e])
      <3>1. o \in Seq(OpSet) /\ a \in Seq(OpSet) /\ b \in Seq(OpSet)
        BY <2>1
      <3> HIDE DEF o, a, b, q
      <3>2. (o \o a) \o b = o \o (a \o b)
        BY <3>1, ConcatAssociative, SMTT(30)
      <3> QED BY <3>2 DEF o, a, b, q
    <2> HIDE DEF q
    <2> QED BY <1>1, <2>2
  <1>6. q \in Seq(ReadOps) /\ q \in Seq(OpSet)
    BY ReadOpsFacts
  <1>7. s \in Sockets /\ s.st = "CLOSED" /\ s.rb = so[e].rb /\ s.dh = so[e].dh
    BY NowTyped, ClosedFacts
  <1> HIDE DEF s, q
  <1>8. ops' \in [Ends -> Seq(OpSet)] /\ ops'[e] = ops[e] \o q /\ \A x \in Ends : x # e => ops'[x] = ops[x]
    BY <1>5, <1>6, NowTyped, OpsUp
  <1>9. /\ ctx' \in [Ends -> [r : Fns, inf : BOOLEAN, w : Fns]] /\ call' \in {"idle", "begun", "blocking", "failed"}
        /\ told' \in [ok : Nat, err : Nat, acc : Nat] /\ env' = env /\ ls' = ls /\ conn' = conn /\ sent' = sent /\ net' = net
        /\ rd' \in [Ends -> [who : Whos, always : BOOLEAN, new : Seq(Frames)]]
    BY <1>1 DEF Typed
  <1>10. Typed' /\ StreamsInv' /\ so'[e] = s /\ \A x \in Ends : x # e => so'[x] = so[x]
    BY <1>1, <1>4, <1>7, <1>8, <1>9, LocalTyped
  <1>11. so'[e].st \in {so[e].st, "CLOSED"} /\ Handshook(e, so'[e].dh)
    BY <1>7, <1>10, SameDh
  <1>12. OthersSame(e) /\ ctx'[e] = ctx[e] /\ rd'[e] = rd[e]
    BY <1>1, <1>4, <1>8, <1>10 DEF OthersSame
  <1>13. \A x \in Kinds \ {"added", "read", "rderr", "error"} : tasks'[e][x] = tasks[e][x]
    BY <1>4
  <1> QED BY <1>1, <1>2, <1>3, <1>4, <1>6, <1>8, <1>10, <1>11, <1>12, <1>13 DEF ReadStep

(* A step of end e that receives. *)
LEMMA ReceivingTyped ==
  ASSUME Typed, StreamsInv, NEW e \in Ends, env' = env, ls' = ls, conn' = conn, sent' = sent,
         call' \in {"idle", "begun", "blocking", "failed"},
         NEW r, Received(e, r), net' = r.net,
         NEW s \in Sockets, so' = [so EXCEPT ![e] = s],
         \/ s.rb = r.s.rb /\ s.dh = r.s.dh
         \/ e = "C" /\ s.rb = so[e].rb /\ s.dh = so[e].dh,
         tasks' \in TaskSet, ops' \in [Ends -> Seq(OpSet)], told' \in [ok : Nat, err : Nat, acc : Nat],
         rd' \in [Ends -> [who : Whos, always : BOOLEAN, new : Seq(Frames)]],
         ctx' \in [Ends -> [r : Fns, inf : BOOLEAN, w : Fns]]
  PROVE  Typed' /\ StreamsInv' /\ so'[e] = s /\ \A x \in Ends : x # e => so'[x] = so[x]
  <1>1. so' \in [Ends -> Sockets] /\ so'[e] = s /\ \A x \in Ends : x # e => so'[x] = so[x]
    BY NowTyped
  <1>2. StreamsInv'
    <2>1. \/ so'[e].rb = r.s.rb /\ so'[e].dh = r.s.dh
          \/ e = "C" /\ so'[e].rb = so[e].rb /\ so'[e].dh = so[e].dh
      BY <1>1
    <2> QED BY <1>1, <2>1, StreamsReceived
  <1>3. net' \in [Ends -> Nets]
    BY DEF Received, Carried
  <1>4. Typed'
    BY <1>1, <1>3 DEF Typed, TaskSet
  <1> QED BY <1>1, <1>2, <1>4

LEMMA ReadRoundTyped ==
  ASSUME Typed, StreamsInv, NEW e \in Ends, ReadRound(e)
  PROVE  /\ Typed' /\ StreamsInv' /\ ReadStep(e)
         /\ rd[e].who \in {"read", "rderr"} /\ tasks'[e]["added"] = tasks[e]["added"] /\ told' = told
  <1>1. PICK r \in Receive(e, Arrives, rd[e].always) :
          LET new  == rd[e].new \o r.packs
              ts   == IF rd[e].who = "rderr" THEN Scheduled(e, "error") ELSE tasks
              b    == BeginRead(e, r.s, ts, FALSE)
              end  == CASE r.ec \in {"OK", "BLOCK", "DONE", "HANDSHAKING", "RD_SHUT"} -> b.s
                        [] r.ec = "GRACE" -> [b.s EXCEPT !.rf = {"SHUT"}]
                        [] OTHER -> ClosedSocket(b.s)
          IN /\ net' = r.net
             /\ IF TryAgain(r.ec)
                THEN /\ so' = [so EXCEPT ![e] = r.s]
                     /\ rd' = [rd EXCEPT ![e] = [@ EXCEPT !.always = (r.ec = "PUMP_AGAIN"), !.new = new]]
                     /\ UNCHANGED <<ops, tasks, got>>
                ELSE /\ so' = [so EXCEPT ![e] = end]
                     /\ rd' = [rd EXCEPT ![e] = Idle]
                     /\ ops' = [ops EXCEPT ![e] = @ \o b.ops \o
                                                  (IF end = b.s THEN <<>> ELSE EndRead(b.s))]
                     /\ tasks' = b.tasks
                     /\ got' = [got EXCEPT ![e] = @ \o new]
             /\ UNCHANGED <<env, ls, backlog, ctx, proxy, call, told, conn, sent, used>>
    BY Zenon DEF ReadRound
  <1>2. Received(e, r) /\ rd[e].who \in {"read", "rderr"}
    <2>1. Arrives \in Nat
      BY SizesAssumption
    <2> QED BY <2>1, ReceiveFacts DEF ReadRound
  <1> DEFINE ts == IF rd[e].who = "rderr" THEN Scheduled(e, "error") ELSE tasks
             b  == BeginRead(e, r.s, ts, FALSE)
             new == rd[e].new \o r.packs
             end == CASE r.ec \in {"OK", "BLOCK", "DONE", "HANDSHAKING", "RD_SHUT"} -> b.s
                      [] r.ec = "GRACE" -> [b.s EXCEPT !.rf = {"SHUT"}]
                      [] OTHER -> ClosedSocket(b.s)
             q == IF end = b.s THEN <<>> ELSE EndRead(b.s)
  <1>3. /\ net' = r.net /\ UNCHANGED <<env, ls, ctx, call, told, conn, sent>>
    BY <1>1
  <1>4. /\ r.s \in Sockets /\ r.s.st = so[e].st /\ Handshook(e, r.s.dh) /\ r.packs \in Seq(Frames)
    BY <1>2 DEF Received
  <1>5. /\ ctx' \in [Ends -> [r : Fns, inf : BOOLEAN, w : Fns]] /\ call' \in {"idle", "begun", "blocking", "failed"}
        /\ told' \in [ok : Nat, err : Nat, acc : Nat]
    BY <1>3 DEF Typed
  <1>6. CASE TryAgain(r.ec)
    <2>1. /\ so' = [so EXCEPT ![e] = r.s] /\ UNCHANGED <<ops, tasks>>
          /\ rd' = [rd EXCEPT ![e] = [@ EXCEPT !.always = (r.ec = "PUMP_AGAIN"), !.new = new]]
      BY <1>1, <1>6
    <2>2. new \in Seq(Frames)
      <3>1. rd[e].new \in Seq(Frames)
        BY NowTyped
      <3> QED BY <1>4, <3>1, ConcatProperties
    <2> HIDE DEF new
    <2>3. /\ rd' \in [Ends -> [who : Whos, always : BOOLEAN, new : Seq(Frames)]]
          /\ rd'[e].who = rd[e].who /\ \A x \in Ends : x # e => rd'[x] = rd[x]
      <3> DEFINE h == [rd[e] EXCEPT !.always = (r.ec = "PUMP_AGAIN"), !.new = new]
      <3>1. rd \in [Ends -> [who : Whos, always : BOOLEAN, new : Seq(Frames)]]
        BY DEF Typed
      <3>2. rd' = [rd EXCEPT ![e] = h]
        BY <2>1
      <3>3. h \in [who : Whos, always : BOOLEAN, new : Seq(Frames)] /\ h.who = rd[e].who
        BY <2>2, <3>1
      <3> HIDE DEF h
      <3> QED BY <3>1, <3>2, <3>3
    <2>4. tasks' \in TaskSet /\ ops' \in [Ends -> Seq(OpSet)] /\ ops[e] \in Seq(OpSet)
      BY <2>1, NowTyped
    <2>5. Typed' /\ StreamsInv' /\ so'[e] = r.s /\ \A x \in Ends : x # e => so'[x] = so[x]
      BY <1>2, <1>3, <1>4, <1>5, <2>1, <2>3, <2>4, ReceivingTyped
    <2>6. \E x \in Seq(ReadOps) : ops'[e] = ops[e] \o x
      <3>1. ops[e] \o <<>> = ops[e]
        BY <2>4, ConcatSimplifications
      <3> QED BY <2>1, <3>1, ReadOpsFacts
    <2>7. OthersSame(e)
      BY <1>3, <2>1, <2>3, <2>5 DEF OthersSame
    <2> QED BY <1>2, <1>3, <1>4, <2>1, <2>3, <2>5, <2>6, <2>7 DEF ReadStep
  <1>7. CASE ~TryAgain(r.ec)
    <2>1. /\ so' = [so EXCEPT ![e] = end] /\ rd' = [rd EXCEPT ![e] = Idle]
          /\ ops' = [ops EXCEPT ![e] = (@ \o b.ops) \o q] /\ tasks' = b.tasks
      BY <1>1, <1>7
    <2>2. "error" \in Kinds /\ "added" \in Kinds
      BY DEF Kinds
    <2>3. /\ ts \in TaskSet /\ \A x \in Ends : x # e => ts[x] = tasks[x]
          /\ \A x \in Kinds : x # "error" => ts[e][x] = tasks[e][x]
      BY <2>2, NowTyped, ScheduledFacts
    <2> HIDE DEF ts
    <2>4. BeginsRead(e, r.s, ts, b)
      BY <1>4, <2>3, BeginReadFacts
    <2> HIDE DEF b
    <2>5. /\ b.s \in Sockets /\ b.s.st = r.s.st /\ b.s.rb = r.s.rb /\ b.s.dh = r.s.dh
          /\ b.ops \in {<<>>, <<WatchOp("read", FALSE)>>} /\ b.ops \in Seq(OpSet)
          /\ b.tasks \in TaskSet /\ \A x \in Ends : x # e => b.tasks[x] = ts[x]
          /\ \A x \in Kinds : x \notin {"read", "error"} => b.tasks[e][x] = ts[e][x]
      BY <2>4 DEF BeginsRead
    <2>6. end \in Sockets /\ end.st \in {so[e].st, "CLOSED"} /\ end.rb = r.s.rb /\ end.dh = r.s.dh
      <3>1. end \in {b.s, [b.s EXCEPT !.rf = {"SHUT"}], ClosedSocket(b.s)}
        BY Zenon
      <3> HIDE DEF end
      <3>2. CASE end = [b.s EXCEPT !.rf = {"SHUT"}]
        BY <1>4, <2>5, <3>2 DEF Sockets, Flags
      <3>3. CASE end = ClosedSocket(b.s)
        BY <2>5, <3>3, ClosedFacts
      <3> QED BY <1>4, <2>5, <3>1, <3>2, <3>3
    <2>7. q \in Seq(ReadOps) /\ q \in Seq(OpSet)
      <3>1. q \in {<<>>, EndRead(b.s)}
        BY Zenon
      <3> HIDE DEF q
      <3> QED BY <3>1, ReadOpsFacts
    <2> HIDE DEF end, q
    <2>8. /\ ops' \in [Ends -> Seq(OpSet)] /\ ops'[e] = ops[e] \o (b.ops \o q)
          /\ \A x \in Ends : x # e => ops'[x] = ops[x]
      <3>1. ops' = TwoOps(ops, e, b.ops, q)
        BY <2>1 DEF TwoOps
      <3> QED BY <2>5, <2>7, <3>1, NowTyped, OpsTwo, ZenonT(30)
    <2>9. \E x \in Seq(ReadOps) : ops'[e] = ops[e] \o x
      <3>1. b.ops \in Seq(ReadOps)
        BY <2>5, ReadOpsFacts, Zenon
      <3>2. b.ops \o q \in Seq(ReadOps)
        BY <2>7, <3>1, ConcatProperties
      <3> QED BY <2>8, <3>2
    <2>10. /\ rd' \in [Ends -> [who : Whos, always : BOOLEAN, new : Seq(Frames)]]
           /\ rd'[e].who = "none" /\ \A x \in Ends : x # e => rd'[x] = rd[x]
      BY <2>1, NowTyped, HoldingFacts
    <2>11. Typed' /\ StreamsInv' /\ so'[e] = end /\ \A x \in Ends : x # e => so'[x] = so[x]
      BY <1>2, <1>3, <1>5, <2>1, <2>5, <2>6, <2>8, <2>10, ReceivingTyped, ZenonT(30)
    <2>12. OthersSame(e)
      BY <1>3, <2>1, <2>3, <2>5, <2>8, <2>10, <2>11 DEF OthersSame
    <2>13. \A x \in Kinds \ {"read", "error"} : tasks'[e][x] = tasks[e][x]
      BY <2>1, <2>3, <2>5
    <2>14. tasks'[e]["added"] = tasks[e]["added"]
      BY <2>2, <2>13
    <2>15. so'[e].st \in {so[e].st, "CLOSED"} /\ Handshook(e, so'[e].dh)
      BY <1>4, <2>6, <2>11
    <2> QED BY <1>2, <1>3, <2>9, <2>10, <2>11, <2>12, <2>13, <2>14, <2>15 DEF ReadStep
  <1> QED BY <1>6, <1>7

(* The observer, on end e. *)
LEMMA ProcessOpTyped ==
  ASSUME Typed, StreamsInv, NEW e \in Ends, ProcessOp(e)
  PROVE  /\ Typed' /\ StreamsInv' /\ OthersSame(e) /\ so' = so /\ rd' = rd /\ ops[e] # <<>>
         /\ ops'[e] = Tail(ops[e])
         /\ \/ /\ Head(ops[e]).op = "watch" /\ env.poll = "epoll" /\ so[e].st = "CLOSED"
               /\ ctx'[e] = ctx[e]
               /\ \A x \in Kinds : tasks'[e][x] = IF x = ErrorOf(Head(ops[e]).fn) THEN tasks[e][x] + 1 ELSE tasks[e][x]
            \/ tasks' = tasks /\ ctx'[e] = Applied(ctx[e], Head(ops[e]))
  <1> DEFINE o == Head(ops[e])
  <1>1. /\ ops[e] # <<>> /\ ops' = [ops EXCEPT ![e] = Tail(@)]
        /\ \/ /\ o.op = "watch" /\ env.poll = "epoll" /\ so[e].st = "CLOSED"
              /\ tasks' = Scheduled(e, ErrorOf(o.fn)) /\ ctx' = ctx
           \/ tasks' = tasks /\ ctx' = [ctx EXCEPT ![e] = Applied(@, o)]
        /\ UNCHANGED <<env, ls, so, rd, call, told, conn, net, sent>>
    BY DEF ProcessOp
  <1>2. ops[e] \in Seq(OpSet)
    BY NowTyped
  <1>3. o \in OpSet /\ Tail(ops[e]) \in Seq(OpSet)
    BY <1>1, <1>2, HeadTailProperties
  <1> HIDE DEF o
  <1>4. ops' \in [Ends -> Seq(OpSet)] /\ ops'[e] = Tail(ops[e]) /\ \A x \in Ends : x # e => ops'[x] = ops[x]
    BY <1>1, <1>3, NowTyped
  <1>5. ErrorOf(o.fn) \in Kinds
    BY DEF ErrorOf, Kinds
  <1>6. StreamsInv'
    BY <1>1, CarriedNow, StreamsSame
  <1>7. ctx \in [Ends -> [r : Fns, inf : BOOLEAN, w : Fns]] /\ ctx[e] \in [r : Fns, inf : BOOLEAN, w : Fns]
    BY DEF Typed
  <1>8. CASE /\ o.op = "watch" /\ env.poll = "epoll" /\ so[e].st = "CLOSED"
             /\ tasks' = Scheduled(e, ErrorOf(o.fn)) /\ ctx' = ctx
    <2>1. /\ tasks' \in TaskSet /\ \A x \in Ends : x # e => tasks'[x] = tasks[x]
          /\ \A x \in Kinds : tasks'[e][x] = IF x = ErrorOf(o.fn) THEN tasks[e][x] + 1 ELSE tasks[e][x]
      BY <1>5, <1>8, ScheduledFacts
    <2>2. Typed'
      BY <1>1, <1>4, <1>8, <2>1 DEF Typed, TaskSet
    <2>3. OthersSame(e)
      BY <1>1, <1>4, <1>8, <2>1 DEF OthersSame
    <2> QED BY <1>1, <1>4, <1>6, <1>8, <2>1, <2>2, <2>3 DEF o
  <1>9. CASE tasks' = tasks /\ ctx' = [ctx EXCEPT ![e] = Applied(@, o)]
    <2> DEFINE a == Applied(ctx[e], o)
    <2>1. a \in [r : Fns, inf : BOOLEAN, w : Fns]
      BY <1>3, <1>7 DEF Applied, OpSet, Fns
    <2> HIDE DEF a
    <2>2. ctx' = [ctx EXCEPT ![e] = a]
      BY <1>9 DEF a
    <2>3. /\ ctx' \in [Ends -> [r : Fns, inf : BOOLEAN, w : Fns]] /\ ctx'[e] = a
          /\ \A x \in Ends : x # e => ctx'[x] = ctx[x]
      BY <1>7, <2>1, <2>2
    <2>4. Typed'
      BY <1>1, <1>4, <1>9, <2>3 DEF Typed
    <2>5. OthersSame(e)
      BY <1>1, <1>4, <1>9, <2>3 DEF OthersSame
    <2> QED BY <1>1, <1>4, <1>6, <1>9, <2>3, <2>4, <2>5 DEF a, o
  <1> QED BY <1>1, <1>8, <1>9

LEMMA EventTyped ==
  ASSUME Typed, StreamsInv, NEW e \in Ends, NEW k \in Kinds,
         tasks' = Scheduled(e, k), NEW c \in [r : Fns, inf : BOOLEAN, w : Fns], ctx' = [ctx EXCEPT ![e] = c],
         net' = net \/ net' = ErrorTaken(net, e), UNCHANGED <<env, ls, so, ops, rd, call, told, conn, sent>>
  PROVE  /\ Typed' /\ StreamsInv' /\ OthersSame(e) /\ ctx'[e] = c
         /\ \A x \in Kinds : tasks'[e][x] = IF x = k THEN tasks[e][x] + 1 ELSE tasks[e][x]
  <1>1. /\ tasks' \in TaskSet /\ \A x \in Ends : x # e => tasks'[x] = tasks[x]
        /\ \A x \in Kinds : tasks'[e][x] = IF x = k THEN tasks[e][x] + 1 ELSE tasks[e][x]
    BY ScheduledFacts
  <1>2. /\ ctx' \in [Ends -> [r : Fns, inf : BOOLEAN, w : Fns]] /\ ctx'[e] = c
        /\ \A x \in Ends : x # e => ctx'[x] = ctx[x]
    BY DEF Typed
  <1>3. Carried(net', so["S"].dh)
    BY CarriedNow, ErrorTakenFacts
  <1>4. StreamsInv'
    BY <1>3, StreamsSame
  <1>5. Typed'
    BY <1>1, <1>2, <1>3 DEF Typed, TaskSet, Carried
  <1>6. OthersSame(e)
    BY <1>1, <1>2 DEF OthersSame
  <1> QED BY <1>1, <1>2, <1>4, <1>5, <1>6

LEMMA ErrorEventTyped ==
  ASSUME Typed, StreamsInv, NEW e \in Ends, ErrorEvent(e)
  PROVE  /\ Typed' /\ StreamsInv' /\ OthersSame(e) /\ ctx'[e] = NoCtx /\ UNCHANGED <<env, so, ops, rd, call, told, conn>>
         /\ env.poll = "epoll" /\ ctx[e] # NoCtx
         /\ \E k \in Kinds :
              /\ k = IF ctx[e].r = "handshake" THEN "hserr" ELSE IF ctx[e].r = "read" THEN "rderr" ELSE "cerr"
              /\ \A x \in Kinds : tasks'[e][x] = IF x = k THEN tasks[e][x] + 1 ELSE tasks[e][x]
  <1> DEFINE k == IF ctx[e].r = "handshake" THEN "hserr" ELSE IF ctx[e].r = "read" THEN "rderr" ELSE "cerr"
  <1>1. k \in Kinds
    BY DEF Kinds
  <1>2. /\ tasks' = Scheduled(e, k) /\ ctx' = [ctx EXCEPT ![e] = NoCtx] /\ net' = ErrorTaken(net, e)
        /\ UNCHANGED <<env, ls, so, ops, rd, call, told, conn, sent>> /\ env.poll = "epoll" /\ ctx[e] # NoCtx
    BY DEF ErrorEvent
  <1>3. NoCtx \in [r : Fns, inf : BOOLEAN, w : Fns]
    BY DEF NoCtx, Fns
  <1> HIDE DEF k
  <1>4. /\ Typed' /\ StreamsInv' /\ OthersSame(e) /\ ctx'[e] = NoCtx
        /\ \A x \in Kinds : tasks'[e][x] = IF x = k THEN tasks[e][x] + 1 ELSE tasks[e][x]
    BY <1>1, <1>2, <1>3, EventTyped, ZenonT(30)
  <1> QED BY <1>1, <1>2, <1>4 DEF k

LEMMA ReadEventTyped ==
  ASSUME Typed, StreamsInv, NEW e \in Ends, ReadEvent(e)
  PROVE  /\ Typed' /\ StreamsInv' /\ OthersSame(e) /\ UNCHANGED <<env, so, ops, rd, call, told, conn>>
         /\ ctx[e].r # "none" /\ so[e].st # "CLOSED"
         /\ ctx[e].inf /\ env.poll = "select" => tasks[e][ctx[e].r] = 0 /\ rd[e].who # ctx[e].r
         /\ ctx'[e] = IF ctx[e].inf THEN ctx[e] ELSE [ctx[e] EXCEPT !.r = "none"]
         /\ ctx[e].r \in Kinds
         /\ \A x \in Kinds : tasks'[e][x] = IF x = ctx[e].r THEN tasks[e][x] + 1 ELSE tasks[e][x]
  <1> DEFINE k == ctx[e].r
             c == IF ctx[e].inf THEN ctx[e] ELSE [ctx[e] EXCEPT !.r = "none"]
  <1>0. ctx \in [Ends -> [r : Fns, inf : BOOLEAN, w : Fns]] /\ ctx[e] \in [r : Fns, inf : BOOLEAN, w : Fns]
    BY DEF Typed
  <1>1. /\ tasks' = Scheduled(e, k) /\ net' = net /\ k # "none" /\ so[e].st # "CLOSED"
        /\ ctx[e].inf /\ env.poll = "select" => tasks[e][k] = 0 /\ rd[e].who # k
        /\ ctx' = (IF ctx[e].inf THEN ctx ELSE [ctx EXCEPT ![e].r = "none"])
        /\ UNCHANGED <<env, ls, so, ops, rd, call, told, conn, sent>>
    BY DEF ReadEvent
  <1>2. k \in Kinds
    BY <1>0, <1>1 DEF Fns, Kinds
  <1>3. c \in [r : Fns, inf : BOOLEAN, w : Fns] /\ ctx' = [ctx EXCEPT ![e] = c]
    BY <1>0, <1>1 DEF Fns
  <1> HIDE DEF k, c
  <1>4. /\ Typed' /\ StreamsInv' /\ OthersSame(e) /\ ctx'[e] = c
        /\ \A x \in Kinds : tasks'[e][x] = IF x = k THEN tasks[e][x] + 1 ELSE tasks[e][x]
    <2>1. /\ tasks' = Scheduled(e, k) /\ (net' = net \/ net' = ErrorTaken(net, e))
          /\ UNCHANGED <<env, ls, so, ops, rd, call, told, conn, sent>>
      BY <1>1
    <2>2. c \in [r : Fns, inf : BOOLEAN, w : Fns] /\ ctx' = [ctx EXCEPT ![e] = c]
      BY <1>3
    <2> QED BY <1>2, <2>1, <2>2, EventTyped
  <1> QED BY <1>1, <1>2, <1>4 DEF k, c

(* The connecting end: a step that leaves what it received alone. *)
LEMMA CTyped ==
  ASSUME Typed, StreamsInv, env' = env, ls' = ls, sent' = sent,
         conn' \in {"none", "syn", "up", "refused"}, call' \in {"idle", "begun", "blocking", "failed"},
         Carried(net', so["S"].dh),
         NEW s \in Sockets, s.rb = so["C"].rb, s.dh = so["C"].dh \/ s.dh # "DATA_TRANSFER", so' = [so EXCEPT !["C"] = s],
         tasks' \in TaskSet, ops' \in [Ends -> Seq(OpSet)], told' \in [ok : Nat, err : Nat, acc : Nat],
         rd' \in [Ends -> [who : Whos, always : BOOLEAN, new : Seq(Frames)]],
         ctx' \in [Ends -> [r : Fns, inf : BOOLEAN, w : Fns]]
  PROVE  Typed' /\ StreamsInv' /\ so'["C"] = s
  <1>1. so' \in [Ends -> Sockets] /\ so'["C"] = s /\ so'["S"] = so["S"]
    BY NowTyped DEF Ends
  <1>2. \A e \in Ends : so'[e].rb = so[e].rb
    BY <1>1 DEF Ends
  <1>3. Buffered(so', so'["S"].dh)
    BY <1>1, <1>2 DEF StreamsInv, Buffered
  <1>4. Buffered(so, so["S"].dh)' /\ Carried(net, so["S"].dh)'
    BY <1>1, <1>3 DEF Buffered, Carried, To, Types, Whole, Nets, Parts
  <1>5. StreamsInv'
    BY <1>1, <1>4 DEF StreamsInv
  <1>6. net' \in [Ends -> Nets]
    BY DEF Carried
  <1>7. Typed'
    BY <1>1, <1>6 DEF Typed, TaskSet
  <1> QED BY <1>1, <1>5, <1>7

LEMMA OpenedFacts ==
  ASSUME Typed
  PROVE  /\ Opened["C"] \in Sockets /\ Opened["C"].rb = so["C"].rb /\ Opened["C"].dh = so["C"].dh
         /\ Opened = [so EXCEPT !["C"] = Opened["C"]] /\ "C" \in Ends
  <1>1. so["C"] \in Sockets /\ so \in [Ends -> Sockets] /\ "C" \in Ends
    BY NowTyped DEF Ends
  <1>2. Opened["C"] = [so["C"] EXCEPT !.st = "OPENED", !.rf = {}, !.wf = {}]
    BY <1>1 DEF Opened
  <1>3. Opened = [so EXCEPT !["C"] = Opened["C"]]
    BY <1>1, <1>2 DEF Opened
  <1> QED BY <1>1, <1>2, <1>3 DEF Sockets, States, Flags

LEMMA AsyncConnectTyped ==
  ASSUME Typed, StreamsInv, NEW rt \in {"OK", "CONNECTING", "ERR"}, AsyncConnect(rt)
  PROVE  /\ Typed' /\ StreamsInv' /\ UNCHANGED <<env, ctx, rd, told>> /\ call = "idle"
         /\ call' = (IF rt = "ERR" THEN "failed" ELSE "begun") /\ (rt = "OK" => conn' = "up" /\ env.once)
         /\ so'["C"].st = (IF rt = "OK" THEN "CONNECTED" ELSE IF rt = "CONNECTING" THEN "CONNECTING" ELSE "CLOSED")
         /\ so'["C"].dh = so["C"].dh
         /\ ops'["C"] = IF rt = "CONNECTING" THEN Append(ops["C"], ConnectWatch) ELSE ops["C"]
         /\ \A x \in Kinds : tasks'["C"][x] = IF rt = "OK" /\ x = "success" THEN tasks["C"][x] + 1 ELSE tasks["C"][x]
  <1>1. /\ UNCHANGED <<env, ls, ctx, rd, told, net, sent>> /\ call = "idle" /\ (rt = "OK" => env.once)
        /\ call' = (IF rt = "ERR" THEN "failed" ELSE "begun")
        /\ conn' = (CASE rt = "OK" -> "up" [] rt = "CONNECTING" -> "syn" [] OTHER -> conn)
        /\ so' = [so EXCEPT !["C"] = ConnectedBy(rt)]
        /\ ops' = (IF rt = "CONNECTING" THEN [ops EXCEPT !["C"] = Append(@, ConnectWatch)] ELSE ops)
        /\ tasks' = IF rt = "OK" THEN Scheduled("C", "success") ELSE tasks
    BY DEF AsyncConnect
  <1> DEFINE s == ConnectedBy(rt)
  <1>0. so["C"] \in Sockets /\ so \in [Ends -> Sockets] /\ "C" \in Ends /\ tasks \in TaskSet /\ ops \in [Ends -> Seq(OpSet)]
    BY NowTyped DEF Ends
  <1>2. /\ s \in Sockets /\ s.rb = so["C"].rb /\ s.dh = so["C"].dh
        /\ s.st = (IF rt = "OK" THEN "CONNECTED" ELSE IF rt = "CONNECTING" THEN "CONNECTING" ELSE "CLOSED")
    <2>1. CASE rt = "OK"
      BY <2>1, OpenedFacts DEF ConnectedBy, Sockets, States
    <2>2. CASE rt = "CONNECTING"
      BY <2>2, OpenedFacts DEF ConnectedBy, Sockets, States, Flags
    <2>3. CASE rt = "ERR"
      <3>1. s = ClosedSocket(so["C"])
        BY <2>3 DEF ConnectedBy
      <3> QED BY <1>0, <2>3, <3>1, ClosedFacts
    <2> QED BY <2>1, <2>2, <2>3
  <1>3. conn' \in {"none", "syn", "up", "refused"} /\ (rt = "OK" => conn' = "up")
    BY <1>1 DEF Typed
  <1>4. ops' \in [Ends -> Seq(OpSet)] /\ ops'["C"] = IF rt = "CONNECTING" THEN Append(ops["C"], ConnectWatch) ELSE ops["C"]
    <2>1. ConnectWatch \in OpSet
      BY DEF ConnectWatch, OpSet, Fns
    <2>2. Append(ops["C"], ConnectWatch) \in Seq(OpSet)
      BY <1>0, <2>1
    <2> HIDE DEF s
    <2> QED BY <1>0, <1>1, <2>2
  <1>5. /\ tasks' \in TaskSet
        /\ \A x \in Kinds : tasks'["C"][x] = IF rt = "OK" /\ x = "success" THEN tasks["C"][x] + 1 ELSE tasks["C"][x]
    <2>1. "success" \in Kinds
      BY DEF Kinds
    <2> HIDE DEF s
    <2> QED BY <1>0, <1>1, <2>1, ScheduledFacts
  <1> HIDE DEF s
  <1>6. /\ ctx' \in [Ends -> [r : Fns, inf : BOOLEAN, w : Fns]] /\ call' \in {"idle", "begun", "blocking", "failed"}
        /\ told' \in [ok : Nat, err : Nat, acc : Nat] /\ env' = env /\ ls' = ls /\ sent' = sent /\ net' = net
        /\ rd' \in [Ends -> [who : Whos, always : BOOLEAN, new : Seq(Frames)]]
        /\ so' = [so EXCEPT !["C"] = s]
    BY <1>1 DEF Typed, s
  <1>7. Carried(net', so["S"].dh)
    BY <1>1, CarriedNow
  <1>8. Typed' /\ StreamsInv' /\ so'["C"] = s
    BY <1>2, <1>3, <1>4, <1>5, <1>6, <1>7, CTyped
  <1> QED BY <1>1, <1>2, <1>3, <1>4, <1>5, <1>8

(* The two ways a connect ends: a peer is added, or an error is told. *)
Adds(s, ts) ==
  \/ /\ so' = [so EXCEPT !["C"] = s] /\ told' = told
     /\ \A x \in Kinds : tasks'["C"][x] = IF x = "added" THEN ts["C"][x] + 1 ELSE ts["C"][x]
  \/ /\ so' = [so EXCEPT !["C"] = ClosedSocket(s)] /\ told' = [told EXCEPT !.err = @ + 1]
     /\ tasks' = ts
LEMMA AddPeerFacts ==
  ASSUME Typed, NEW s, NEW os \in Seq(OpSet), NEW ts \in TaskSet, AddPeer(s, os, ts)
  PROVE  /\ Adds(s, ts) /\ tasks' \in TaskSet /\ told' \in [ok : Nat, err : Nat, acc : Nat]
         /\ ops' \in [Ends -> Seq(OpSet)] /\ ops'["C"] = ops["C"] \o os
  <1>1. "C" \in Ends /\ "added" \in Kinds /\ ops \in [Ends -> Seq(OpSet)]
    BY NowTyped DEF Ends, Kinds
  <1>2. ops' = [ops EXCEPT !["C"] = @ \o os]
    BY DEF AddPeer
  <1>3. ops' \in [Ends -> Seq(OpSet)] /\ ops'["C"] = ops["C"] \o os
    BY <1>1, <1>2, OpsUp
  <1>4. told' = told \/ told' = [told EXCEPT !.err = @ + 1]
    BY DEF AddPeer
  <1>5. told' \in [ok : Nat, err : Nat, acc : Nat]
    BY <1>4, ToldFacts DEF Typed
  <1>6. CASE proxy
    <2>1. so' = [so EXCEPT !["C"] = s] /\ tasks' = Up(ts, "C", "added") /\ told' = told
      BY <1>6 DEF AddPeer, Up
    <2> QED BY <1>1, <1>3, <1>5, <2>1, TaskUp DEF Adds
  <1>7. CASE ~proxy
    BY <1>3, <1>5, <1>7 DEF AddPeer, Adds
  <1> QED BY <1>6, <1>7

LEMMA FailFacts ==
  ASSUME Typed, NEW s, Fail(s)
  PROVE  /\ so' = [so EXCEPT !["C"] = ClosedSocket(s)] /\ told' = [told EXCEPT !.err = @ + 1]
         /\ told' \in [ok : Nat, err : Nat, acc : Nat]
         /\ ops' \in [Ends -> Seq(OpSet)] /\ \E q \in Seq(EndOps) : ops'["C"] = ops["C"] \o q
  <1> DEFINE q == EndRead(s) \o EndWrite(s)
  <1>1. "C" \in Ends /\ ops \in [Ends -> Seq(OpSet)]
    BY NowTyped DEF Ends
  <1>2. /\ so' = [so EXCEPT !["C"] = ClosedSocket(s)] /\ told' = [told EXCEPT !.err = @ + 1]
        /\ ops' = [ops EXCEPT !["C"] = @ \o q]
    BY DEF Fail, ConnectFails
  <1>3. q \in Seq(EndOps) /\ q \in Seq(OpSet)
    BY ReadOpsFacts, EndFacts
  <1> HIDE DEF q
  <1>4. ops' \in [Ends -> Seq(OpSet)] /\ ops'["C"] = ops["C"] \o q
    BY <1>1, <1>2, <1>3, OpsUp
  <1>5. told' \in [ok : Nat, err : Nat, acc : Nat]
    BY <1>2, ToldFacts DEF Typed
  <1> QED BY <1>2, <1>3, <1>4, <1>5

(* A peer was added for a socket of state st and with keys dh, or an error  *)
(* was told, when the tasks k were left.                                    *)
Added(st, dh, k) ==
  /\ so'["C"].dh = dh /\ told'.ok = told.ok
  /\ \A x \in Kinds \ {"added"} : tasks'["C"][x] = k[x]
  /\ \/ so'["C"].st = st /\ tasks'["C"]["added"] = k["added"] + 1 /\ told'.err = told.err
     \/ so'["C"].st = "CLOSED" /\ tasks'["C"]["added"] = k["added"] /\ told'.err = told.err + 1
LEMMA AddsFacts ==
  ASSUME Typed, NEW s \in Sockets, NEW ts \in TaskSet, Adds(s, ts)
  PROVE  /\ Added(s.st, s.dh, ts["C"])
         /\ \E z \in Sockets : so' = [so EXCEPT !["C"] = z] /\ z.rb = s.rb /\ z.dh = s.dh
  <1>1. "C" \in Ends /\ "added" \in Kinds /\ so \in [Ends -> Sockets] /\ told \in [ok : Nat, err : Nat, acc : Nat]
    BY NowTyped DEF Ends, Kinds, Typed
  <1>2. CASE /\ so' = [so EXCEPT !["C"] = s] /\ told' = told
             /\ \A x \in Kinds : tasks'["C"][x] = IF x = "added" THEN ts["C"][x] + 1 ELSE ts["C"][x]
    <2>1. so'["C"] = s
      BY <1>1, <1>2
    <2> QED BY <1>1, <1>2, <2>1 DEF Added
  <1>3. CASE so' = [so EXCEPT !["C"] = ClosedSocket(s)] /\ told' = [told EXCEPT !.err = @ + 1] /\ tasks' = ts
    <2> DEFINE z == ClosedSocket(s)
    <2>1. z \in Sockets /\ z.st = "CLOSED" /\ z.rb = s.rb /\ z.dh = s.dh
      BY ClosedFacts
    <2> HIDE DEF z
    <2>2. so' = [so EXCEPT !["C"] = z] /\ so'["C"] = z
      BY <1>1, <1>3 DEF z
    <2>3. told'.ok = told.ok /\ told'.err = told.err + 1
      BY <1>1, <1>3, ToldFacts
    <2> QED BY <1>3, <2>1, <2>2, <2>3 DEF Added
  <1> QED BY <1>2, <1>3 DEF Adds

LEMMA ConnectedAtOnceTyped ==
  ASSUME Typed, StreamsInv, ConnectedAtOnce
  PROVE  /\ Typed' /\ StreamsInv' /\ UNCHANGED <<env, ctx, rd, call, conn>>
         /\ tasks["C"]["success"] > 0 /\ ops'["C"] = ops["C"] \o <<>>
         /\ Added(so["C"].st, so["C"].dh, Taken("C", "success")["C"])
  <1>1. /\ tasks["C"]["success"] > 0 /\ AddPeer(so["C"], <<>>, Taken("C", "success"))
        /\ UNCHANGED <<env, ls, ctx, rd, call, conn, net, sent>>
    BY DEF ConnectedAtOnce
  <1>2. "C" \in Ends /\ "success" \in Kinds /\ so["C"] \in Sockets /\ <<>> \in Seq(OpSet)
    BY NowTyped DEF Ends, Kinds
  <1>3. Taken("C", "success") \in TaskSet
    BY <1>1, <1>2, TakenFacts
  <1>4. /\ Adds(so["C"], Taken("C", "success")) /\ tasks' \in TaskSet /\ told' \in [ok : Nat, err : Nat, acc : Nat]
        /\ ops' \in [Ends -> Seq(OpSet)] /\ ops'["C"] = ops["C"] \o <<>>
    BY <1>1, <1>2, <1>3, AddPeerFacts
  <1>5. /\ Added(so["C"].st, so["C"].dh, Taken("C", "success")["C"])
        /\ \E z \in Sockets : so' = [so EXCEPT !["C"] = z] /\ z.rb = so["C"].rb /\ z.dh = so["C"].dh
    BY <1>2, <1>3, <1>4, AddsFacts
  <1>6. PICK z \in Sockets : so' = [so EXCEPT !["C"] = z] /\ z.rb = so["C"].rb /\ z.dh = so["C"].dh
    BY <1>5
  <1>7. /\ ctx' \in [Ends -> [r : Fns, inf : BOOLEAN, w : Fns]] /\ call' \in {"idle", "begun", "blocking", "failed"}
        /\ env' = env /\ ls' = ls /\ sent' = sent /\ net' = net /\ conn' \in {"none", "syn", "up", "refused"}
        /\ rd' \in [Ends -> [who : Whos, always : BOOLEAN, new : Seq(Frames)]]
    BY <1>1 DEF Typed
  <1>8. Carried(net', so["S"].dh)
    BY <1>1, CarriedNow
  <1>9. Typed' /\ StreamsInv'
    BY <1>4, <1>6, <1>7, <1>8, CTyped
  <1> QED BY <1>1, <1>4, <1>5, <1>9

(* An error was told, of a socket whose keys were in state dh. *)
Failed(dh, k) ==
  /\ so'["C"].st = "CLOSED" /\ so'["C"].dh = dh /\ told'.ok = told.ok /\ told'.err = told.err + 1
  /\ \A x \in Kinds : tasks'["C"][x] = k[x]
  /\ \E q \in Seq(EndOps) : ops'["C"] = ops["C"] \o q
LEMMA FailedFacts ==
  ASSUME Typed, NEW s \in Sockets, Fail(s)
  PROVE  /\ Failed(s.dh, tasks'["C"]) /\ told' \in [ok : Nat, err : Nat, acc : Nat] /\ ops' \in [Ends -> Seq(OpSet)]
         /\ \E z \in Sockets : so' = [so EXCEPT !["C"] = z] /\ z.rb = s.rb /\ z.dh = s.dh
  <1>1. "C" \in Ends /\ so \in [Ends -> Sockets] /\ told \in [ok : Nat, err : Nat, acc : Nat]
    BY NowTyped DEF Ends, Typed
  <1> DEFINE z == ClosedSocket(s)
  <1>2. z \in Sockets /\ z.st = "CLOSED" /\ z.rb = s.rb /\ z.dh = s.dh
    BY ClosedFacts
  <1>3. so' = [so EXCEPT !["C"] = z] /\ told' = [told EXCEPT !.err = @ + 1]
    BY FailFacts
  <1> HIDE DEF z
  <1>4. so'["C"] = z
    BY <1>1, <1>3
  <1>5. told'.ok = told.ok /\ told'.err = told.err + 1
    BY <1>1, <1>3, ToldFacts
  <1>6. /\ told' \in [ok : Nat, err : Nat, acc : Nat] /\ ops' \in [Ends -> Seq(OpSet)]
        /\ \E q \in Seq(EndOps) : ops'["C"] = ops["C"] \o q
    BY FailFacts
  <1> QED BY <1>2, <1>3, <1>4, <1>5, <1>6 DEF Failed

LEMMA AsyncConnectErrorTyped ==
  ASSUME Typed, StreamsInv, AsyncConnectError
  PROVE  /\ Typed' /\ StreamsInv' /\ UNCHANGED <<env, ctx, rd, call, conn>>
         /\ tasks["C"]["cerr"] > 0 /\ Failed(so["C"].dh, Taken("C", "cerr")["C"])
  <1>1. /\ tasks["C"]["cerr"] > 0 /\ Fail(so["C"]) /\ tasks' = Taken("C", "cerr")
        /\ UNCHANGED <<env, ls, ctx, rd, call, conn, net, sent>>
    BY DEF AsyncConnectError
  <1>2. "C" \in Ends /\ "cerr" \in Kinds /\ so["C"] \in Sockets
    BY NowTyped DEF Ends, Kinds
  <1>3. tasks' \in TaskSet
    BY <1>1, <1>2, TakenFacts
  <1>4. /\ Failed(so["C"].dh, tasks'["C"]) /\ told' \in [ok : Nat, err : Nat, acc : Nat] /\ ops' \in [Ends -> Seq(OpSet)]
        /\ \E z \in Sockets : so' = [so EXCEPT !["C"] = z] /\ z.rb = so["C"].rb /\ z.dh = so["C"].dh
    BY <1>1, <1>2, FailedFacts
  <1>5. PICK z \in Sockets : so' = [so EXCEPT !["C"] = z] /\ z.rb = so["C"].rb /\ z.dh = so["C"].dh
    BY <1>4
  <1>6. /\ ctx' \in [Ends -> [r : Fns, inf : BOOLEAN, w : Fns]] /\ call' \in {"idle", "begun", "blocking", "failed"}
        /\ env' = env /\ ls' = ls /\ sent' = sent /\ net' = net /\ conn' \in {"none", "syn", "up", "refused"}
        /\ rd' \in [Ends -> [who : Whos, always : BOOLEAN, new : Seq(Frames)]]
    BY <1>1 DEF Typed
  <1>7. Carried(net', so["S"].dh)
    BY <1>1, CarriedNow
  <1>8. Typed' /\ StreamsInv'
    BY <1>3, <1>4, <1>5, <1>6, <1>7, CTyped
  <1>9. Failed(so["C"].dh, Taken("C", "cerr")["C"])
    BY <1>1, <1>4
  <1> QED BY <1>1, <1>8, <1>9

LEMMA HelloFacts ==
  ASSUME Typed, StreamsInv
  PROVE  Carried(HelloSent, so["S"].dh) /\ Carried([net EXCEPT !["S"].tr = @ \o Encode(Hello)], so["S"].dh)
  <1> DEFINE d == so["S"].dh
             q == Encode(Hello)
  <1>1. Carried(net, d)
    BY CarriedNow
  <1> HIDE DEF d
  <1>2. Hello \in [type : Types("S", d), n : Nat] /\ Other("C") = "S" /\ "S" \in Ends /\ "C" \in Ends
    BY DEF Hello, Frame, Types, Other, Ends
  <1>3. Batch(<<Hello>>, [type : Types(Other("C"), d), n : Nat])
    BY <1>2 DEF Batch
  <1>4. q \in Seq(To("S", d)) /\ Len(q) = 3
    BY <1>2, EncodeFacts
  <1>5. Carried(HelloSent, d)
    BY <1>1, <1>2, <1>3, DeliveredFacts DEF HelloSent
  <1> HIDE DEF q
  <1>6. Carried([net EXCEPT !["S"].tr = @ \o q], d)
    BY <1>1, <1>2, <1>4, Appended
  <1> QED BY <1>5, <1>6 DEF d, q

LEMMA AsyncConnectedTyped ==
  ASSUME Typed, StreamsInv, AsyncConnected
  PROVE  /\ Typed' /\ StreamsInv' /\ UNCHANGED <<env, ctx, rd, call, conn>> /\ tasks["C"]["connected"] > 0
         /\ \/ /\ env.tlp = "hlen" /\ Added("CONNECTED", so["C"].dh, Taken("C", "connected")["C"])
               /\ ops'["C"] = ops["C"] \o EndWrite(so["C"])
            \/ /\ env.tlp # "hlen" /\ so'["C"].st = "CONNECTED" /\ so'["C"].dh = "HANDSHAKE"
               /\ tasks'["C"] = Taken("C", "connected")["C"] /\ told' = told
               /\ ops'["C"] = ops["C"] \o (EndWrite(so["C"]) \o <<WatchOp("handshake", TRUE)>>)
            \/ env.tlp # "hlen" /\ Failed("HANDSHAKE", Taken("C", "connected")["C"])
  <1> DEFINE s == HandledConnected(so["C"])
             ts == Taken("C", "connected")
  <1>1. /\ tasks["C"]["connected"] > 0 /\ UNCHANGED <<env, ls, ctx, rd, call, conn, sent>>
        /\ IF env.tlp = "hlen" THEN AddPeer(s, EndWrite(so["C"]), ts) /\ UNCHANGED net
           ELSE /\ tasks' = ts /\ net' = HelloSent
                /\ IF SendEc("C") = "OK"
                   THEN /\ so' = [so EXCEPT !["C"] = [Watched(s) EXCEPT !.dh = "HANDSHAKE"]]
                        /\ ops' = [ops EXCEPT !["C"] = @ \o EndWrite(so["C"]) \o <<WatchOp("handshake", TRUE)>>]
                        /\ UNCHANGED told
                   ELSE Fail([so["C"] EXCEPT !.dh = "HANDSHAKE"])
    BY DEF AsyncConnected
  <1>2. "C" \in Ends /\ "connected" \in Kinds /\ so["C"] \in Sockets /\ so \in [Ends -> Sockets] /\ ops \in [Ends -> Seq(OpSet)]
    BY NowTyped DEF Ends, Kinds
  <1>3. ts \in TaskSet
    BY <1>1, <1>2, TakenFacts
  <1>4. s \in Sockets /\ s.st = "CONNECTED" /\ s.rb = so["C"].rb /\ s.dh = so["C"].dh
    BY <1>2 DEF HandledConnected, Sockets, States, Flags
  <1>5. /\ ctx' \in [Ends -> [r : Fns, inf : BOOLEAN, w : Fns]] /\ call' \in {"idle", "begun", "blocking", "failed"}
        /\ env' = env /\ ls' = ls /\ sent' = sent /\ conn' \in {"none", "syn", "up", "refused"}
        /\ rd' \in [Ends -> [who : Whos, always : BOOLEAN, new : Seq(Frames)]]
    BY <1>1 DEF Typed
  <1>6. EndWrite(so["C"]) \in Seq(OpSet)
    BY EndFacts
  <1>7. CASE env.tlp = "hlen"
    <2>1. AddPeer(s, EndWrite(so["C"]), ts) /\ net' = net
      BY <1>1, <1>7
    <2> HIDE DEF s, ts
    <2>2. /\ Adds(s, ts) /\ tasks' \in TaskSet /\ told' \in [ok : Nat, err : Nat, acc : Nat]
          /\ ops' \in [Ends -> Seq(OpSet)] /\ ops'["C"] = ops["C"] \o EndWrite(so["C"])
      BY <1>3, <1>6, <2>1, AddPeerFacts
    <2>3. /\ Added(s.st, s.dh, ts["C"])
          /\ \E z \in Sockets : so' = [so EXCEPT !["C"] = z] /\ z.rb = s.rb /\ z.dh = s.dh
      BY <1>3, <1>4, <2>2, AddsFacts
    <2>4. PICK z \in Sockets : so' = [so EXCEPT !["C"] = z] /\ z.rb = so["C"].rb /\ z.dh = so["C"].dh
      BY <1>4, <2>3
    <2>5. Carried(net', so["S"].dh)
      BY <2>1, CarriedNow
    <2>6. Typed' /\ StreamsInv'
      BY <1>5, <2>2, <2>4, <2>5, CTyped
    <2>7. Added("CONNECTED", so["C"].dh, ts["C"])
      BY <1>4, <2>3
    <2> QED BY <1>1, <1>7, <2>2, <2>6, <2>7 DEF ts
  <1>8. CASE env.tlp # "hlen" /\ SendEc("C") = "OK"
    <2> DEFINE z == [Watched(s) EXCEPT !.dh = "HANDSHAKE"]
               w == <<WatchOp("handshake", TRUE)>>
    <2>1. /\ tasks' = ts /\ net' = HelloSent /\ so' = [so EXCEPT !["C"] = z] /\ told' = told
          /\ ops' = [ops EXCEPT !["C"] = (@ \o EndWrite(so["C"])) \o w]
      BY <1>1, <1>8
    <2>2. z \in Sockets /\ z.st = "CONNECTED" /\ z.rb = so["C"].rb /\ z.dh = "HANDSHAKE"
      <3>1. Watched(s) \in Sockets /\ Watched(s).st = "CONNECTED" /\ Watched(s).rb = so["C"].rb
        BY <1>4, WatchedFacts
      <3> QED BY <3>1 DEF Sockets, Dhs
    <2>3. w \in Seq(OpSet)
      <3>1. WatchOp("handshake", TRUE) \in OpSet
        BY DEF WatchOp, OpSet, Fns
      <3> QED BY <3>1, Single
    <2> HIDE DEF z, w, s, ts
    <2>4. ops' \in [Ends -> Seq(OpSet)] /\ ops'["C"] = ops["C"] \o (EndWrite(so["C"]) \o w)
      <3>1. ops' = TwoOps(ops, "C", EndWrite(so["C"]), w)
        BY <2>1 DEF TwoOps
      <3> QED BY <1>2, <1>6, <2>3, <3>1, OpsTwo, ZenonT(30)
    <2>5. Carried(net', so["S"].dh)
      BY <2>1, HelloFacts
    <2>6. told' \in [ok : Nat, err : Nat, acc : Nat] /\ tasks' \in TaskSet
      BY <1>3, <2>1 DEF Typed
    <2>7. Typed' /\ StreamsInv' /\ so'["C"] = z
      BY <1>5, <2>1, <2>2, <2>4, <2>5, <2>6, CTyped
    <2> QED BY <1>1, <1>8, <2>1, <2>2, <2>4, <2>7 DEF w, ts
  <1>9. CASE env.tlp # "hlen" /\ SendEc("C") # "OK"
    <2> DEFINE y == [so["C"] EXCEPT !.dh = "HANDSHAKE"]
    <2>0. y \in Sockets /\ y.rb = so["C"].rb /\ y.dh = "HANDSHAKE"
      BY <1>2 DEF Sockets, Dhs
    <2>1. Fail(y) /\ tasks' = ts /\ net' = HelloSent
      BY <1>1, <1>9
    <2> HIDE DEF s, ts, y
    <2>2. /\ Failed(y.dh, tasks'["C"]) /\ told' \in [ok : Nat, err : Nat, acc : Nat] /\ ops' \in [Ends -> Seq(OpSet)]
          /\ \E z \in Sockets : so' = [so EXCEPT !["C"] = z] /\ z.rb = y.rb /\ z.dh = y.dh
      BY <2>0, <2>1, FailedFacts
    <2>3. PICK z \in Sockets : so' = [so EXCEPT !["C"] = z] /\ z.rb = so["C"].rb /\ z.dh = "HANDSHAKE"
      BY <2>0, <2>2
    <2>4. Carried(net', so["S"].dh)
      BY <2>1, HelloFacts
    <2>5. Typed' /\ StreamsInv'
      BY <1>3, <1>5, <2>1, <2>2, <2>3, <2>4, CTyped
    <2>6. Failed("HANDSHAKE", ts["C"])
      BY <2>0, <2>1, <2>2
    <2> QED BY <1>1, <1>9, <2>5, <2>6 DEF ts
  <1> QED BY <1>7, <1>8, <1>9

LEMMA AfterFacts ==
  ASSUME Typed, NEW k
  PROVE  /\ Afterwards(k) \in TaskSet /\ \A x \in Kinds : x # "cerr" => Afterwards(k)["C"][x] = tasks["C"][x]
         /\ k # "hserr" => Afterwards(k)["C"]["cerr"] = tasks["C"]["cerr"]
  <1>1. "C" \in Ends /\ "cerr" \in Kinds
    BY DEF Ends, Kinds
  <1> QED BY <1>1, NowTyped, ScheduledFacts DEF Afterwards

LEMMA HandshakeBeginsTyped ==
  ASSUME Typed, StreamsInv, NEW k \in {"handshake", "hserr"}, HandshakeBegins(k)
  PROVE  /\ Typed' /\ StreamsInv' /\ UNCHANGED <<env, so, ctx, ops, call, told, conn>>
         /\ tasks["C"][k] > 0 /\ rd["C"].who = "none"
         /\ \A x \in Kinds \ {k, "cerr"} : tasks'["C"][x] = tasks["C"][x]
         /\ tasks'["C"][k] = tasks["C"][k] - 1
         /\ tasks'["C"]["cerr"] = tasks["C"]["cerr"] \/ k = "hserr"
         /\ rd'["C"].who = IF HandshakeDone(so["C"]) THEN "none" ELSE k
  <1>1. /\ UNCHANGED <<env, ls, so, ctx, ops, call, told, conn, net, sent>> /\ tasks["C"][k] > 0 /\ rd["C"].who = "none"
        /\ IF HandshakeDone(so["C"])
           THEN tasks' = [Afterwards(k) EXCEPT !["C"][k] = @ - 1] /\ UNCHANGED rd
           ELSE tasks' = Taken("C", k) /\ rd' = [rd EXCEPT !["C"] = Holding(k)]
    BY DEF HandshakeBegins, ReadFree
  <1>2. "C" \in Ends /\ k \in Kinds /\ "cerr" \in Kinds /\ k # "cerr" /\ k \in Whos
    BY DEF Ends, Kinds, Whos
  <1>3. StreamsInv'
    BY <1>1, CarriedNow, StreamsSame
  <1>4. /\ rd' \in [Ends -> [who : Whos, always : BOOLEAN, new : Seq(Frames)]]
        /\ rd'["C"].who = IF HandshakeDone(so["C"]) THEN "none" ELSE k
    <2>1. rd \in [Ends -> [who : Whos, always : BOOLEAN, new : Seq(Frames)]]
      BY DEF Typed
    <2>2. Holding(k) \in [who : Whos, always : BOOLEAN, new : Seq(Frames)] /\ Holding(k).who = k
      BY <1>2, HoldingFacts
    <2>3. CASE HandshakeDone(so["C"])
      BY <1>1, <2>1, <2>3
    <2>4. CASE ~HandshakeDone(so["C"])
      <3>1. rd' = [rd EXCEPT !["C"] = Holding(k)]
        BY <1>1, <2>4
      <3> QED BY <1>2, <2>1, <2>2, <2>4, <3>1
    <2> QED BY <2>3, <2>4
  <1> DEFINE a == Afterwards(k)
  <1>5. /\ a \in TaskSet /\ \A x \in Kinds : x # "cerr" => a["C"][x] = tasks["C"][x]
        /\ k # "hserr" => a["C"]["cerr"] = tasks["C"]["cerr"]
    BY AfterFacts
  <1> HIDE DEF a
  <1>6. /\ tasks' \in TaskSet /\ \A x \in Kinds \ {k, "cerr"} : tasks'["C"][x] = tasks["C"][x]
        /\ tasks'["C"][k] = tasks["C"][k] - 1
        /\ tasks'["C"]["cerr"] = tasks["C"]["cerr"] \/ k = "hserr"
    <2>1. CASE HandshakeDone(so["C"])
      <3>1. tasks' = Down(a, "C", k)
        BY <1>1, <2>1 DEF Down, a
      <3>2. a["C"][k] > 0
        BY <1>1, <1>2, <1>5
      <3> QED BY <1>2, <1>5, <3>1, <3>2, TaskDown
    <2>2. CASE ~HandshakeDone(so["C"])
      BY <1>1, <1>2, <2>2, TakenFacts
    <2> QED BY <2>1, <2>2
  <1>7. Typed'
    BY <1>1, <1>4, <1>6 DEF Typed, TaskSet
  <1> QED BY <1>1, <1>3, <1>4, <1>6, <1>7

LEMMA WriteEventTyped ==
  ASSUME Typed, StreamsInv, WriteEvent
  PROVE  /\ Typed' /\ StreamsInv' /\ UNCHANGED <<env, so, ops, rd, call, told, conn>>
         /\ ctx["C"].w = "connected" /\ ctx'["C"] = [ctx["C"] EXCEPT !.w = "none"]
         /\ \E k \in {"connected", "cerr"} :
              /\ k = "connected" => conn = "up"
              /\ \A x \in Kinds : tasks'["C"][x] = IF x = k THEN tasks["C"][x] + 1 ELSE tasks["C"][x]
  <1> DEFINE k == IF conn = "up" THEN "connected" ELSE "cerr"
             c == [ctx["C"] EXCEPT !.w = "none"]
  <1>1. /\ tasks' = Scheduled("C", k) /\ net' = net /\ ctx["C"].w = "connected" /\ ctx' = [ctx EXCEPT !["C"].w = "none"]
        /\ UNCHANGED <<env, ls, so, ops, rd, call, told, conn, sent>>
    BY DEF WriteEvent
  <1>2. k \in Kinds /\ k \in {"connected", "cerr"} /\ (k = "connected" => conn = "up") /\ "C" \in Ends
    BY DEF Kinds, Ends
  <1>3. c \in [r : Fns, inf : BOOLEAN, w : Fns] /\ ctx' = [ctx EXCEPT !["C"] = c]
    BY <1>1, <1>2 DEF Fns, Typed
  <1> HIDE DEF k, c
  <1>4. /\ Typed' /\ StreamsInv' /\ ctx'["C"] = c
        /\ \A x \in Kinds : tasks'["C"][x] = IF x = k THEN tasks["C"][x] + 1 ELSE tasks["C"][x]
    <2>1. /\ tasks' = Scheduled("C", k) /\ (net' = net \/ net' = ErrorTaken(net, "C"))
          /\ UNCHANGED <<env, ls, so, ops, rd, call, told, conn, sent>>
      BY <1>1
    <2> QED BY <1>2, <1>3, <2>1, EventTyped, ZenonT(30)
  <1> QED BY <1>1, <1>2, <1>4 DEF c

(* The keys the connecting end may have after a round of its handshake. *)
HandshakeRoundPost(d, a) ==
  \/ /\ so'["C"].st = so["C"].st /\ so'["C"].dh = d /\ env.tlp = "dh" /\ d = "HANDSHAKE"
     /\ tasks' = tasks /\ ops' = ops /\ told' = told /\ rd'["C"].who = rd["C"].who
  \/ /\ rd'["C"].who = "none" /\ Added(so["C"].st, d, a) /\ (env.tlp = "hlen" \/ d = "DATA_TRANSFER")
     /\ \E q \in Seq(EndOps) : ops'["C"] = ops["C"] \o q
  \/ /\ rd'["C"].who = "none" /\ so'["C"].st = so["C"].st /\ so'["C"].dh = d
     /\ tasks'["C"] = a /\ ops' = ops /\ told' = told
  \/ rd'["C"].who = "none" /\ Failed(so["C"].dh, a)
LEMMA HandshakeRoundTyped ==
  ASSUME Typed, StreamsInv, HandshakeRound
  PROVE  /\ Typed' /\ StreamsInv' /\ UNCHANGED <<env, ctx, call, conn>> /\ rd["C"].who \in {"handshake", "hserr"}
         /\ \E d : Handshook("C", d) /\ HandshakeRoundPost(d, Afterwards(rd["C"].who)["C"])
  <1>1. PICK r \in Receive("C", 0, rd["C"].always) :
          LET again == TryAgain(r.ec) /\ Handshaking(r.s)
              done  == HandshakeDone(r.s) /\ r.ec \in {"OK", "BLOCK", "TLP_AGAIN", "PUMP_AGAIN"}
          IN /\ net' = r.net
             /\ rd' = [rd EXCEPT !["C"] = IF again THEN [@ EXCEPT !.always = (r.ec = "PUMP_AGAIN")] ELSE Idle]
             /\ IF again THEN so' = [so EXCEPT !["C"] = r.s] /\ UNCHANGED <<tasks, ops, told>>
                ELSE HandshakeEnds(r.s, IF done THEN "DONE" ELSE r.ec, rd["C"].who)
             /\ UNCHANGED <<env, ls, backlog, ctx, proxy, call, conn, sent, got, used>>
    BY Zenon DEF HandshakeRound
  <1>2. rd["C"].who \in {"handshake", "hserr"} /\ "C" \in Ends /\ 0 \in Nat
    BY DEF HandshakeRound, Ends
  <1>3. Received("C", r)
    BY <1>2, ReceiveFacts
  <1> DEFINE again == TryAgain(r.ec) /\ Handshaking(r.s)
             done  == HandshakeDone(r.s) /\ r.ec \in {"OK", "BLOCK", "TLP_AGAIN", "PUMP_AGAIN"}
             ec    == IF done THEN "DONE" ELSE r.ec
             kind  == rd["C"].who
             ts    == Afterwards(kind)
  <1>4. /\ net' = r.net /\ UNCHANGED <<env, ls, ctx, call, conn, sent>>
    BY <1>1
  <1>5. /\ r.s \in Sockets /\ r.s.st = so["C"].st /\ Handshook("C", r.s.dh)
        /\ r.ec = "DONE" => r.s.dh = "DATA_TRANSFER"
    BY <1>3 DEF Received
  <1>6. ts \in TaskSet
    BY AfterFacts
  <1>7. /\ ctx' \in [Ends -> [r : Fns, inf : BOOLEAN, w : Fns]] /\ call' \in {"idle", "begun", "blocking", "failed"}
        /\ env' = env /\ ls' = ls /\ sent' = sent /\ conn' = conn
    BY <1>4 DEF Typed
  <1>8. /\ rd \in [Ends -> [who : Whos, always : BOOLEAN, new : Seq(Frames)]] /\ tasks \in TaskSet
        /\ ops \in [Ends -> Seq(OpSet)] /\ told \in [ok : Nat, err : Nat, acc : Nat]
    BY DEF Typed, TaskSet
  <1>9. CASE again
    <2>1. /\ rd' = [rd EXCEPT !["C"] = [@ EXCEPT !.always = (r.ec = "PUMP_AGAIN")]]
          /\ so' = [so EXCEPT !["C"] = r.s] /\ UNCHANGED <<tasks, ops, told>> /\ Handshaking(r.s)
      BY <1>1, <1>9
    <2>2. rd' \in [Ends -> [who : Whos, always : BOOLEAN, new : Seq(Frames)]] /\ rd'["C"].who = rd["C"].who
      BY <1>2, <1>8, <2>1, ZenonT(30)
    <2>3. Typed' /\ StreamsInv' /\ so'["C"].st = so["C"].st /\ so'["C"].dh = r.s.dh
      <3>1. tasks' \in TaskSet /\ ops' \in [Ends -> Seq(OpSet)] /\ told' \in [ok : Nat, err : Nat, acc : Nat]
        BY <1>8, <2>1
      <3>2. PICK z \in Sockets : z.st = so["C"].st /\ so' = [so EXCEPT !["C"] = z] /\ z.rb = r.s.rb /\ z.dh = r.s.dh
        BY <1>5, <2>1
      <3>3. Typed' /\ StreamsInv'
        BY <1>2, <1>3, <1>4, <1>7, <2>2, <3>1, <3>2, ReceivingTyped
      <3>4. so'["C"] = z
        BY <1>2, <3>2, NowTyped
      <3> QED BY <3>2, <3>3, <3>4
    <2>4. HandshakeRoundPost(r.s.dh, ts["C"])
      BY <1>5, <2>1, <2>2, <2>3 DEF HandshakeRoundPost, Handshaking
    <2> QED BY <1>2, <1>4, <1>5, <2>3, <2>4
  <1>10. CASE ~again
    <2>1. rd' = [rd EXCEPT !["C"] = Idle] /\ HandshakeEnds(r.s, ec, kind)
      BY <1>1, <1>10
    <2> HIDE DEF again
    <2>2. rd' \in [Ends -> [who : Whos, always : BOOLEAN, new : Seq(Frames)]] /\ rd'["C"].who = "none"
      BY <1>2, <1>8, <2>1, HoldingFacts
    <2>3. CASE ec = "DONE" /\ AddPeer(Unwatched(r.s), EndRead(r.s), ts)
      <3> DEFINE s == Unwatched(r.s)
                 q == EndRead(r.s)
      <3>1. env.tlp = "hlen" \/ r.s.dh = "DATA_TRANSFER"
        BY <1>5, <2>3 DEF HandshakeDone
      <3>2. s \in Sockets /\ s.st = so["C"].st /\ s.rb = r.s.rb /\ s.dh = r.s.dh
        BY <1>5, WatchedFacts
      <3>3. q \in Seq(EndOps) /\ q \in Seq(OpSet)
        BY ReadOpsFacts, EndFacts
      <3>4. AddPeer(s, q, ts)
        BY <2>3
      <3> HIDE DEF s, q, ts, kind, ec, done
      <3>5. /\ Adds(s, ts) /\ tasks' \in TaskSet /\ told' \in [ok : Nat, err : Nat, acc : Nat]
            /\ ops' \in [Ends -> Seq(OpSet)] /\ ops'["C"] = ops["C"] \o q
        BY <1>6, <3>3, <3>4, AddPeerFacts
      <3>6. /\ Added(s.st, s.dh, ts["C"])
            /\ \E z \in Sockets : so' = [so EXCEPT !["C"] = z] /\ z.rb = s.rb /\ z.dh = s.dh
        BY <1>6, <3>2, <3>5, AddsFacts
      <3>7. PICK z \in Sockets : so' = [so EXCEPT !["C"] = z] /\ z.rb = r.s.rb /\ z.dh = r.s.dh
        BY <3>2, <3>6
      <3>8. Typed' /\ StreamsInv'
        BY <1>2, <1>3, <1>4, <1>7, <2>2, <3>5, <3>7, ReceivingTyped
      <3>9. HandshakeRoundPost(r.s.dh, ts["C"])
        BY <2>2, <3>1, <3>2, <3>3, <3>5, <3>6 DEF HandshakeRoundPost
      <3> QED BY <1>2, <1>4, <1>5, <3>8, <3>9 DEF ts, kind
    <2>4. CASE so' = [so EXCEPT !["C"] = r.s] /\ tasks' = ts /\ UNCHANGED <<ops, told>>
      <3> HIDE DEF ts
      <3>1. tasks' \in TaskSet /\ ops' \in [Ends -> Seq(OpSet)] /\ told' \in [ok : Nat, err : Nat, acc : Nat]
        BY <1>6, <1>8, <2>4
      <3>2. Typed' /\ StreamsInv' /\ so'["C"].st = so["C"].st /\ so'["C"].dh = r.s.dh
        <4>1. PICK z \in Sockets : z.st = so["C"].st /\ so' = [so EXCEPT !["C"] = z] /\ z.rb = r.s.rb /\ z.dh = r.s.dh
          BY <1>5, <2>4
        <4>2. Typed' /\ StreamsInv'
          BY <1>2, <1>3, <1>4, <1>7, <2>2, <3>1, <4>1, ReceivingTyped
        <4>3. so'["C"] = z
          BY <1>2, <4>1, NowTyped
        <4> QED BY <4>1, <4>2, <4>3
      <3>3. HandshakeRoundPost(r.s.dh, ts["C"])
        BY <1>5, <2>2, <2>4, <3>2 DEF HandshakeRoundPost
      <3> QED BY <1>2, <1>4, <1>5, <3>2, <3>3 DEF ts
    <2>5. CASE Fail(so["C"]) /\ tasks' = ts
      <3> HIDE DEF ts
      <3>1. /\ Failed(so["C"].dh, tasks'["C"]) /\ told' \in [ok : Nat, err : Nat, acc : Nat] /\ ops' \in [Ends -> Seq(OpSet)]
            /\ \E z \in Sockets : so' = [so EXCEPT !["C"] = z] /\ z.rb = so["C"].rb /\ z.dh = so["C"].dh
        BY <1>2, <2>5, NowTyped, FailedFacts
      <3>2. PICK z \in Sockets : so' = [so EXCEPT !["C"] = z] /\ z.rb = so["C"].rb /\ z.dh = so["C"].dh
        BY <3>1
      <3>3. tasks' \in TaskSet
        BY <1>6, <2>5
      <3>4. Typed' /\ StreamsInv'
        BY <1>2, <1>3, <1>4, <1>7, <2>2, <3>1, <3>2, <3>3, ReceivingTyped
      <3>5. HandshakeRoundPost(r.s.dh, ts["C"])
        BY <2>2, <2>5, <3>1 DEF HandshakeRoundPost
      <3> QED BY <1>2, <1>4, <1>5, <3>4, <3>5 DEF ts
    <2> QED BY <2>1, <2>3, <2>4, <2>5 DEF HandshakeEnds
  <1> QED BY <1>9, <1>10

LEMMA ConnectTyped ==
  ASSUME Typed, StreamsInv, NEW ok \in BOOLEAN, Connect(ok)
  PROVE  /\ Typed' /\ StreamsInv' /\ UNCHANGED <<env, ctx, ops, tasks, rd, told>> /\ call = "idle"
         /\ \/ call' = "blocking" /\ conn' = "up" /\ env.tlp = "dh" /\ so'["C"].dh = "HANDSHAKE"
            \/ call' = "failed" /\ so'["C"].st = "CLOSED" /\ so'["C"].dh = so["C"].dh
  <1>0. "C" \in Ends /\ so["C"] \in Sockets /\ so \in [Ends -> Sockets]
    BY NowTyped DEF Ends
  <1>1. /\ UNCHANGED <<env, ls, ctx, ops, tasks, rd, told, sent>> /\ call = "idle" /\ conn' \in {"none", "syn", "up", "refused"}
    BY DEF Connect
  <1>2. /\ ctx' \in [Ends -> [r : Fns, inf : BOOLEAN, w : Fns]] /\ tasks' \in TaskSet /\ ops' \in [Ends -> Seq(OpSet)]
        /\ env' = env /\ ls' = ls /\ sent' = sent /\ told' \in [ok : Nat, err : Nat, acc : Nat]
        /\ rd' \in [Ends -> [who : Whos, always : BOOLEAN, new : Seq(Frames)]]
    BY <1>1 DEF Typed, TaskSet
  <1>3. CASE ok /\ env.tlp = "dh"
    <2> DEFINE s == [Opened["C"] EXCEPT !.st = "CONNECTED", !.dh = "HANDSHAKE"]
    <2>1. /\ call' = "blocking" /\ conn' = "up" /\ so' = [Opened EXCEPT !["C"].st = "CONNECTED", !["C"].dh = "HANDSHAKE"]
          /\ net' = [net EXCEPT !["S"].tr = @ \o Encode(Hello)]
      BY <1>3 DEF Connect
    <2>2. s \in Sockets /\ s.rb = so["C"].rb /\ s.dh = "HANDSHAKE"
      BY OpenedFacts DEF Sockets, States, Dhs
    <2>3. so' = [so EXCEPT !["C"] = s]
      <3> DEFINE o == Opened["C"]
      <3>1. Opened = [so EXCEPT !["C"] = o] /\ o \in Sockets
        BY OpenedFacts
      <3> HIDE DEF o
      <3>2. so' = [[so EXCEPT !["C"] = o] EXCEPT !["C"].st = "CONNECTED", !["C"].dh = "HANDSHAKE"]
        BY <2>1, <3>1
      <3>3. so' = [so EXCEPT !["C"] = [o EXCEPT !.st = "CONNECTED", !.dh = "HANDSHAKE"]]
        BY <1>0, <3>1, <3>2 DEF Sockets
      <3> QED BY <3>3 DEF o
    <2> HIDE DEF s
    <2>4. Carried(net', so["S"].dh)
      BY <2>1, HelloFacts
    <2>5. Typed' /\ StreamsInv' /\ so'["C"] = s
      BY <1>1, <1>2, <2>1, <2>2, <2>3, <2>4, CTyped
    <2> QED BY <1>1, <1>3, <2>1, <2>2, <2>5
  <1>4. CASE ~(ok /\ env.tlp = "dh")
    <2> DEFINE s == ClosedSocket(so["C"])
    <2>1. call' = "failed" /\ so' = [so EXCEPT !["C"] = s] /\ net' = net
      BY <1>4 DEF Connect
    <2>2. s \in Sockets /\ s.rb = so["C"].rb /\ s.dh = so["C"].dh /\ s.st = "CLOSED"
      BY <1>0, ClosedFacts
    <2> HIDE DEF s
    <2>3. Carried(net', so["S"].dh)
      BY <2>1, CarriedNow
    <2>4. Typed' /\ StreamsInv' /\ so'["C"] = s
      BY <1>1, <1>2, <2>1, <2>2, <2>3, CTyped
    <2> QED BY <1>1, <2>1, <2>2, <2>4
  <1> QED BY <1>3, <1>4

LEMMA BlockingRoundTyped ==
  ASSUME Typed, StreamsInv, BlockingRound
  PROVE  /\ Typed' /\ StreamsInv' /\ UNCHANGED <<env, ctx, ops, tasks, rd, told, conn>> /\ call = "blocking"
         /\ \/ call' = "blocking" /\ env.tlp = "dh" /\ so'["C"].dh = "HANDSHAKE"
            \/ call' = "failed" /\ so'["C"].st = "CLOSED"
  <1>0. "C" \in Ends /\ so["C"] \in Sockets /\ so \in [Ends -> Sockets] /\ 0 \in Nat
    BY NowTyped DEF Ends
  <1>1. PICK r \in Receive("C", 0, FALSE) :
          LET over == ~Handshaking(r.s) \/ r.ec \notin {"OK", "BLOCK", "HANDSHAKING", "TLP_AGAIN", "PUMP_AGAIN"}
          IN /\ net' = r.net
             /\ so' = [so EXCEPT !["C"] = IF over THEN ClosedSocket(r.s) ELSE r.s]
             /\ call' = IF over THEN "failed" ELSE call
             /\ UNCHANGED <<env, ls, backlog, ctx, ops, tasks, rd, proxy, told, conn, sent, got, used>>
    BY Zenon DEF BlockingRound
  <1>2. call = "blocking"
    BY DEF BlockingRound
  <1>3. Received("C", r)
    BY <1>0, ReceiveFacts
  <1>4. r.s \in Sockets
    BY <1>3 DEF Received
  <1>5. PICK s \in Sockets : /\ so' = [so EXCEPT !["C"] = s] /\ s.rb = r.s.rb /\ s.dh = r.s.dh
                            /\ \/ call' = "blocking" /\ Handshaking(r.s)
                               \/ call' = "failed" /\ s.st = "CLOSED"
    BY <1>1, <1>2, <1>4, ClosedFacts
  <1>6. /\ ctx' \in [Ends -> [r : Fns, inf : BOOLEAN, w : Fns]] /\ tasks' \in TaskSet /\ ops' \in [Ends -> Seq(OpSet)]
        /\ env' = env /\ ls' = ls /\ sent' = sent /\ conn' = conn /\ told' \in [ok : Nat, err : Nat, acc : Nat]
        /\ rd' \in [Ends -> [who : Whos, always : BOOLEAN, new : Seq(Frames)]]
        /\ net' = r.net /\ call' \in {"idle", "begun", "blocking", "failed"}
    BY <1>1, <1>2 DEF Typed, TaskSet
  <1>7. Typed' /\ StreamsInv' /\ so'["C"] = s
    BY <1>0, <1>3, <1>5, <1>6, ReceivingTyped
  <1>8. UNCHANGED <<env, ctx, ops, tasks, rd, told, conn>>
    BY <1>1
  <1>9. \/ call' = "blocking" /\ env.tlp = "dh" /\ so'["C"].dh = "HANDSHAKE"
        \/ call' = "failed" /\ so'["C"].st = "CLOSED"
    BY <1>5, <1>7 DEF Handshaking
  <1> QED BY <1>2, <1>7, <1>8, <1>9

-----------------------------------------------------------------------------
(* Where the call is.                                                       *)
LEMMA InLater ==
  ASSUME NEW v, NEW cl, NEW cn, NEW s, NEW k, NEW o, NEW c, NEW w, NEW ok, NEW err,
         Caller(v, cl, cn, s, k, o, c, w, ok, err),
         (\E x \in Kinds \ {"connected", "cerr"} : k[x] # 0) \/ w # "none" \/ ok # 0 \/ c.r # "none"
  PROVE  cl = "begun" /\ Later(v, s, k, o, c, w, ok, err)
  <1>1. ~Untouched(k, o, c, w, ok, err)
    BY DEF Untouched, NoCtx
  <1>2. ~Waits(s, k, o, c, w, ok, err)
    BY DEF Waits
  <1> QED BY <1>1, <1>2 DEF Caller

LEMMA FromLater ==
  ASSUME NEW v, NEW cn, NEW s, NEW k, NEW o, NEW c, NEW w, NEW ok, NEW err,
         Later(v, s, k, o, c, w, ok, err), Linked(cn, s, k, ok)
  PROVE  Caller(v, "begun", cn, s, k, o, c, w, ok, err)
  <1>1. s.st # "CONNECTING"
    BY DEF Later
  <1> QED BY <1>1 DEF Caller

LEMMA CallerConn ==
  ASSUME NEW v, NEW cl, NEW cn, NEW cn2, NEW s, NEW k, NEW o, NEW c, NEW w, NEW ok, NEW err,
         Caller(v, cl, cn, s, k, o, c, w, ok, err), cn2 = cn \/ cn # "up"
  PROVE  Caller(v, cl, cn2, s, k, o, c, w, ok, err)
  BY DEF Caller, Linked

LEMMA CallerSame ==
  ASSUME CallerInv, UNCHANGED <<env, call>>, conn' = conn \/ conn # "up", so'["C"] = so["C"], tasks'["C"] = tasks["C"],
         ops'["C"] = ops["C"], ctx'["C"] = ctx["C"], rd'["C"] = rd["C"], told'.ok = told.ok, told'.err = told.err
  PROVE  CallerInv'
  <1>1. Caller(env, call, conn', so["C"], tasks["C"], ops["C"], ctx["C"], rd["C"].who, told.ok, told.err)
    BY CallerConn DEF CallerInv
  <1>2. Caller(env', call', conn', so'["C"], tasks'["C"], ops'["C"], ctx'["C"], rd'["C"].who, told'.ok, told'.err)
    BY <1>1
  <1> QED BY <1>2 DEF CallerInv

(* The operations of a later caller stay later ones. *)
LEMMA LaterOpsGrow ==
  ASSUME NEW v, NEW s, NEW z, NEW ok \in Nat, NEW n \in Nat, ok <= n, Shakes(v, s) => Shakes(v, z),
         NEW o \in Seq(LaterOps(v, s, ok)), NEW q, q \in Seq(EndOps) \/ (n > 0 /\ q \in Seq(ReadOps))
  PROVE  o \o q \in Seq(LaterOps(v, z, n)) /\ o \in Seq(LaterOps(v, z, n))
  <1>1. LaterOps(v, s, ok) \subseteq LaterOps(v, z, n) /\ EndOps \subseteq LaterOps(v, z, n)
    BY DEF LaterOps, EndOps
  <1>2. n > 0 => ReadOps \subseteq LaterOps(v, z, n)
    BY DEF LaterOps, ReadOps
  <1>3. o \in Seq(LaterOps(v, z, n))
    BY <1>1, SeqMonotonic
  <1>4. q \in Seq(LaterOps(v, z, n))
    BY <1>1, <1>2, SeqMonotonic
  <1> QED BY <1>3, <1>4, ConcatProperties

LEMMA KindsFacts ==
  ASSUME NEW k \in [Kinds -> Nat]
  PROVE  /\ k["connected"] \in Nat /\ k["cerr"] \in Nat /\ k["success"] \in Nat /\ k["handshake"] \in Nat /\ k["hserr"] \in Nat
         /\ k["added"] \in Nat /\ k["read"] \in Nat /\ k["rderr"] \in Nat /\ k["error"] \in Nat
  BY DEF Kinds

(* Reading, once success was told. *)
LEMMA ReadsLater ==
  ASSUME NEW v, NEW s, NEW z, NEW k \in [Kinds -> Nat], NEW j \in [Kinds -> Nat], NEW o, NEW q \in Seq(ReadOps), NEW c,
         NEW w, NEW y, NEW ok \in Nat, NEW n \in Nat, NEW err \in Nat,
         Later(v, s, k, o, c, w, ok, err),
         z.st \in {s.st, "CLOSED"}, z.dh = s.dh \/ (z.dh = "DATA_TRANSFER" /\ ~Shook(v, s)),
         \A x \in Kinds \ {"added", "read", "rderr", "error"} : j[x] = k[x],
         j["added"] + n = k["added"] + ok, ok <= n, n > 0,
         y \in {w, "none", "read", "rderr"}
  PROVE  Later(v, z, j, o \o q, c, y, n, err)
  <1>1. k["added"] > 0 \/ ok > 0
    BY KindsFacts
  <1>2. ~Shaking(v, s) /\ (v.once \/ Shook(v, s))
    BY <1>1, KindsFacts DEF Later, LaterTasks
  <1>3. ~Shaking(v, z) /\ (v.once \/ Shook(v, z)) /\ (Shakes(v, s) => Shakes(v, z))
    BY <1>2 DEF Shaking, Shook, Shakes
  <1>4. /\ j["connected"] = k["connected"] /\ j["cerr"] = k["cerr"] /\ j["success"] = k["success"]
        /\ j["handshake"] = k["handshake"] /\ j["hserr"] = k["hserr"]
    BY DEF Kinds
  <1>5. o \o q \in Seq(LaterOps(v, z, n))
    BY <1>3, LaterOpsGrow DEF Later
  <1>6. z.st \in {"CONNECTED", "CLOSED"} /\ (err > 0 => z.st = "CLOSED")
    BY DEF Later, LaterAnswers
  <1>7. LaterWatch(v, z, c, y, n)
    BY <1>2, <1>3 DEF Later, LaterWatch
  <1>8. LaterTasks(v, z, j, n)
    BY <1>3, <1>4 DEF Later, LaterTasks
  <1>9. LaterAnswers(v, z, j, n, err)
    <2> DEFINE a == j["added"]
               b == k["added"]
               u == k["success"]
    <2>1. a \in Nat /\ b \in Nat /\ u \in Nat /\ a + n = b + ok
      BY KindsFacts
    <2>2. Strict(v) => u + b + ok + err <= 1
      BY DEF Later, LaterAnswers
    <2> HIDE DEF a, b, u
    <2>3. Strict(v) => u + a + n + err <= 1
      BY <2>1, <2>2
    <2> QED BY <1>3, <1>4, <1>6, <2>3 DEF LaterAnswers, a, u
  <1>10. LaterSelect(v, z, j, y)
    BY <1>2, <1>3, <1>4 DEF Later, LaterSelect, LaterWatch
  <1> QED BY <1>5, <1>6, <1>7, <1>8, <1>9, <1>10 DEF Later

LEMMA ReadStepCaller ==
  ASSUME Typed, Typed', CallerInv, ReadStep("C"), told'.ok > 0, told.ok <= told'.ok,
         tasks'["C"]["added"] + told'.ok = tasks["C"]["added"] + told.ok
  PROVE  CallerInv'
  <1> DEFINE s == so["C"]
             z == so'["C"]
             k == tasks["C"]
             j == tasks'["C"]
             o == ops["C"]
             c == ctx["C"]
             w == rd["C"].who
             y == rd'["C"].who
             ok == told.ok
             n == told'.ok
             err == told.err
  <1>1. k \in [Kinds -> Nat] /\ j \in [Kinds -> Nat] /\ ok \in Nat /\ n \in Nat /\ err \in Nat
    BY DEF Typed, Ends
  <1>2. Caller(env, call, conn, s, k, o, c, w, ok, err)
    BY DEF CallerInv
  <1>3. /\ UNCHANGED <<env, call, conn>> /\ told'.err = err /\ ctx'["C"] = c
        /\ z.st \in {s.st, "CLOSED"} /\ Handshook("C", z.dh)
        /\ \A x \in Kinds \ {"added", "read", "rderr", "error"} : j[x] = k[x]
        /\ y \in {w, "none", "read", "rderr"}
    BY DEF ReadStep
  <1>4. PICK q \in Seq(ReadOps) : ops'["C"] = o \o q
    BY DEF ReadStep
  <1>5. z.dh = s.dh \/ (z.dh = "DATA_TRANSFER" /\ ~Shook(env, s))
    BY <1>3 DEF Handshook, HandshakeDone, Shook
  <1>6. j["added"] + n = k["added"] + ok /\ ok <= n /\ n > 0
    OBVIOUS
  <1> HIDE DEF s, z, k, j, o, c, w, y, ok, n, err
  <1>7. ok # 0 \/ k["added"] # 0
    BY <1>1, <1>6, KindsFacts
  <1>8. call = "begun" /\ Later(env, s, k, o, c, w, ok, err)
    <2>1. "added" \in Kinds \ {"connected", "cerr"}
      BY DEF Kinds
    <2> QED BY <1>2, <1>7, <2>1, InLater
  <1>9. Later(env, z, j, o \o q, c, y, n, err)
    BY <1>1, <1>3, <1>5, <1>6, <1>8, ReadsLater
  <1>10. Linked(conn, z, j, n)
    <2>1. conn = "up"
      BY <1>1, <1>2, <1>7, KindsFacts DEF Caller, Linked
    <2> QED BY <2>1 DEF Linked
  <1>11. Caller(env, "begun", conn, z, j, o \o q, c, y, n, err)
    BY <1>9, <1>10, FromLater
  <1>12. Caller(env', call', conn', z, j, ops'["C"], ctx'["C"], y, n, told'.err)
    BY <1>3, <1>4, <1>8, <1>11
  <1> QED BY <1>12 DEF CallerInv, z, j, y, n

LEMMA ReadingCaller ==
  ASSUME Typed, StreamsInv, CallerInv, Reading("C") \/ UserCloses("C")
  PROVE  CallerInv'
  <1>0. "C" \in Ends /\ tasks["C"] \in [Kinds -> Nat] /\ told.ok \in Nat
    BY DEF Typed, Ends
  <1>1. CASE PeerAdded("C")
    <2>1. /\ Typed' /\ ReadStep("C") /\ tasks["C"]["added"] > 0
          /\ tasks'["C"]["added"] = tasks["C"]["added"] - 1 /\ told'.ok = told.ok + 1
      BY <1>0, <1>1, PeerAddedTyped
    <2> DEFINE a == tasks["C"]["added"]
               b == told.ok
               x == tasks'["C"]["added"]
               y == told'.ok
    <2>2. a \in Nat /\ b \in Nat /\ x = a - 1 /\ y = b + 1
      BY <1>0, <2>1, KindsFacts
    <2> HIDE DEF a, b, x, y
    <2>3. y > 0 /\ b <= y /\ x + y = a + b
      BY <2>2
    <2> QED BY <2>1, <2>3, ReadStepCaller DEF a, b, x, y
  <1>2. ASSUME Typed', ReadStep("C"), told.ok > 0, tasks'["C"]["added"] = tasks["C"]["added"], told' = told PROVE CallerInv'
    BY <1>0, <1>2, ReadStepCaller
  <1> DEFINE k == tasks["C"]
  <1>3. k["read"] # 0 \/ k["rderr"] # 0 \/ k["error"] # 0 \/ rd["C"].who \in {"read", "rderr"} => told.ok > 0
    <2>1. ASSUME k["read"] # 0 \/ k["rderr"] # 0 \/ k["error"] # 0 \/ rd["C"].who \in {"read", "rderr"} PROVE told.ok > 0
      <3>1. (\E x \in Kinds \ {"connected", "cerr"} : k[x] # 0) \/ rd["C"].who # "none"
        BY <2>1 DEF Kinds
      <3>2. Later(env, so["C"], k, ops["C"], ctx["C"], rd["C"].who, told.ok, told.err)
        BY <3>1, InLater DEF CallerInv
      <3>3. LaterTasks(env, so["C"], k, told.ok) /\ LaterWatch(env, so["C"], ctx["C"], rd["C"].who, told.ok)
        BY <3>2 DEF Later
      <3> QED BY <1>0, <2>1, <3>3 DEF LaterTasks, LaterWatch
    <2> QED BY <2>1
  <1>4. ASSUME NEW x \in {"read", "rderr"}, ReadBegins("C", x) PROVE CallerInv'
    <2>1. Typed' /\ ReadStep("C") /\ tasks["C"][x] > 0 /\ tasks'["C"]["added"] = tasks["C"]["added"] /\ told' = told
      BY <1>0, <1>4, ReadBeginsTyped
    <2>2. told.ok > 0
      BY <1>0, <1>3, <2>1, KindsFacts
    <2> QED BY <1>2, <2>1, <2>2
  <1>5. CASE ReadRound("C")
    <2>1. /\ Typed' /\ ReadStep("C") /\ rd["C"].who \in {"read", "rderr"}
          /\ tasks'["C"]["added"] = tasks["C"]["added"] /\ told' = told
      BY <1>0, <1>5, ReadRoundTyped
    <2> QED BY <1>2, <1>3, <2>1
  <1>6. CASE AsyncError("C") \/ UserCloses("C")
    <2>1. /\ Typed' /\ ReadStep("C") /\ (tasks["C"]["error"] > 0 \/ Known("C"))
          /\ tasks'["C"]["added"] = tasks["C"]["added"] /\ told' = told
      BY <1>0, <1>6, ClosesTyped
    <2>2. told.ok > 0
      BY <1>0, <1>3, <2>1, KindsFacts DEF Known
    <2> QED BY <1>2, <2>1, <2>2
  <1> QED BY <1>1, <1>4, <1>5, <1>6 DEF Reading

(* The observer takes an operation of the caller. *)
Ctxs == [r : Fns, inf : BOOLEAN, w : Fns]
LEMMA OpWaits ==
  ASSUME NEW v, NEW cn, NEW s, NEW k \in [Kinds -> Nat], NEW j \in [Kinds -> Nat], NEW o, NEW c \in Ctxs, NEW d,
         NEW w, NEW ok, NEW err,
         s.st = "CONNECTING", Waits(s, k, o, c, w, ok, err), Linked(cn, s, k, ok), o # <<>>,
         s.st = "CLOSED" \/ (j = k /\ d = Applied(c, Head(o)))
  PROVE  Caller(v, "begun", cn, s, j, Tail(o), d, w, ok, err)
  <1>1. /\ o = <<ConnectWatch>> /\ c.w = "none" /\ k["connected"] = 0 /\ k["cerr"] = 0
        /\ s.dh = "IDLE" /\ w = "none" /\ ok = 0 /\ err = 0 /\ c.r = "none" /\ c.inf = FALSE
        /\ \A x \in Kinds \ {"connected", "cerr"} : k[x] = 0
    BY DEF Waits
  <1>2. Head(o) = ConnectWatch /\ Tail(o) = <<>>
    BY <1>1
  <1>3. j = k /\ d = [c EXCEPT !.w = "connected"]
    BY <1>2 DEF Applied, ConnectWatch
  <1>4. d.w = "connected" /\ d.r = "none" /\ d.inf = FALSE
    BY <1>1, <1>3 DEF Ctxs
  <1>5. Waits(s, j, Tail(o), d, w, ok, err)
    BY <1>1, <1>2, <1>3, <1>4 DEF Waits
  <1> QED BY <1>3, <1>5 DEF Caller

LEMMA OpLater ==
  ASSUME NEW v, NEW s, NEW k \in [Kinds -> Nat], NEW j \in [Kinds -> Nat], NEW o, NEW c \in Ctxs, NEW d,
         NEW w, NEW ok \in Nat, NEW err,
         Later(v, s, k, o, c, w, ok, err), o # <<>>,
         \/ /\ Head(o).op = "watch" /\ v.poll = "epoll" /\ d = c
            /\ \A x \in Kinds : j[x] = IF x = ErrorOf(Head(o).fn) THEN k[x] + 1 ELSE k[x]
         \/ j = k /\ d = Applied(c, Head(o))
  PROVE  Later(v, s, j, Tail(o), d, w, ok, err)
  <1> DEFINE h == Head(o)
  <1>1. o \in Seq(LaterOps(v, s, ok))
    BY DEF Later
  <1>2. h \in LaterOps(v, s, ok) /\ Tail(o) \in Seq(LaterOps(v, s, ok))
    BY <1>1, HeadTailProperties
  <1>3. /\ h \in OpSet
        /\ \/ h.op = "unwatch"
           \/ h.dir = "R" /\ h.fn = "handshake" /\ h.inf /\ Shakes(v, s)
           \/ h.dir = "R" /\ h.fn = "read" /\ ok > 0
    BY <1>2 DEF LaterOps
  <1>4. CASE /\ h.op = "watch" /\ v.poll = "epoll" /\ d = c
             /\ \A x \in Kinds : j[x] = IF x = ErrorOf(h.fn) THEN k[x] + 1 ELSE k[x]
    <2> HIDE DEF h
    <2>1. CASE h.fn = "handshake" /\ Shakes(v, s)
      <3>1. ~Strict(v)
        BY <1>4, <2>1 DEF Strict, Shakes
      <3>2. /\ j["connected"] = k["connected"] /\ j["added"] = k["added"] /\ j["success"] = k["success"]
            /\ j["handshake"] = k["handshake"] /\ j["hserr"] = k["hserr"] /\ j["read"] = k["read"]
            /\ j["rderr"] = k["rderr"] /\ j["error"] = k["error"]
        BY <1>4, <2>1 DEF ErrorOf, Kinds
      <3>3. LaterTasks(v, s, j, ok) /\ LaterAnswers(v, s, j, ok, err) /\ LaterSelect(v, s, j, w)
        BY <3>1, <3>2 DEF Later, LaterTasks, LaterAnswers, LaterSelect
      <3> QED BY <1>2, <1>4, <3>3 DEF Later
    <2>2. CASE h.fn = "read" /\ ok > 0
      <3>2. /\ j["connected"] = k["connected"] /\ j["added"] = k["added"] /\ j["success"] = k["success"]
            /\ j["handshake"] = k["handshake"] /\ j["hserr"] = k["hserr"] /\ j["read"] = k["read"]
            /\ j["rderr"] = k["rderr"] /\ j["cerr"] = k["cerr"]
        BY <1>4, <2>2 DEF ErrorOf, Kinds
      <3>3. LaterTasks(v, s, j, ok) /\ LaterAnswers(v, s, j, ok, err) /\ LaterSelect(v, s, j, w)
        BY <2>2, <3>2 DEF Later, LaterTasks, LaterAnswers, LaterSelect
      <3> QED BY <1>2, <1>4, <3>3 DEF Later
    <2> QED BY <1>3, <1>4, <2>1, <2>2
  <1>5. CASE j = k /\ d = Applied(c, h)
    <2> HIDE DEF h
    <2>1. LaterWatch(v, s, c, w, ok)
      BY DEF Later
    <2>2. d = [c EXCEPT !.r = "none", !.inf = FALSE] \/ d = [c EXCEPT !.w = "none"]
          \/ (d = [c EXCEPT !.r = h.fn, !.inf = h.inf] /\ ((h.fn = "handshake" /\ h.inf /\ Shakes(v, s)) \/ (h.fn = "read" /\ ok > 0)))
      BY <1>3, <1>5 DEF Applied
    <2>3. LaterWatch(v, s, d, w, ok)
      <3>1. CASE d = [c EXCEPT !.r = "none", !.inf = FALSE]
        <4>1. d.r = "none" /\ d.inf = FALSE /\ d.w = c.w
          BY <3>1 DEF Ctxs
        <4> QED BY <2>1, <4>1 DEF LaterWatch
      <3>2. CASE d = [c EXCEPT !.w = "none"]
        <4>1. d.r = c.r /\ d.inf = c.inf /\ d.w = "none"
          BY <3>2 DEF Ctxs
        <4> QED BY <2>1, <4>1 DEF LaterWatch
      <3>3. CASE d = [c EXCEPT !.r = h.fn, !.inf = h.inf] /\ ((h.fn = "handshake" /\ h.inf /\ Shakes(v, s)) \/ (h.fn = "read" /\ ok > 0))
        <4>1. d.r = h.fn /\ d.inf = h.inf /\ d.w = c.w
          BY <3>3 DEF Ctxs
        <4> QED BY <2>1, <3>3, <4>1 DEF LaterWatch
      <3> QED BY <2>2, <3>1, <3>2, <3>3
    <2> QED BY <1>2, <1>5, <2>3 DEF Later
  <1> QED BY <1>4, <1>5

LEMMA ProcessOpCaller ==
  ASSUME Typed, StreamsInv, CallerInv, ProcessOp("C")
  PROVE  CallerInv'
  <1> DEFINE s == so["C"]
             k == tasks["C"]
             j == tasks'["C"]
             o == ops["C"]
             c == ctx["C"]
             d == ctx'["C"]
             w == rd["C"].who
             ok == told.ok
             err == told.err
  <1>0. "C" \in Ends
    BY DEF Ends
  <1>1. /\ Typed' /\ so' = so /\ rd' = rd /\ o # <<>> /\ ops'["C"] = Tail(o)
        /\ \/ /\ Head(o).op = "watch" /\ env.poll = "epoll" /\ s.st = "CLOSED" /\ d = c
              /\ \A x \in Kinds : j[x] = IF x = ErrorOf(Head(o).fn) THEN k[x] + 1 ELSE k[x]
           \/ j = k /\ d = Applied(c, Head(o))
    BY <1>0, ProcessOpTyped
  <1>2. UNCHANGED <<env, call, conn, told>>
    BY DEF ProcessOp
  <1>3. k \in [Kinds -> Nat] /\ j \in [Kinds -> Nat] /\ ok \in Nat /\ err \in Nat /\ c \in Ctxs
    BY <1>0, <1>1 DEF Typed, Ctxs
  <1>4. Caller(env, call, conn, s, k, o, c, w, ok, err)
    BY DEF CallerInv
  <1>5. so'["C"] = s /\ rd'["C"].who = w /\ told'.ok = ok /\ told'.err = err
    BY <1>1, <1>2
  <1> HIDE DEF s, k, j, o, c, d, w, ok, err
  <1>6. call = "begun" /\ Linked(conn, s, k, ok)
    BY <1>1, <1>4 DEF Caller, Untouched
  <1>7. CASE s.st = "CONNECTING"
    <2>1. Waits(s, k, o, c, w, ok, err)
      BY <1>4, <1>6, <1>7 DEF Caller
    <2>2. Caller(env, "begun", conn, s, j, Tail(o), d, w, ok, err)
      BY <1>1, <1>3, <1>6, <1>7, <2>1, OpWaits
    <2> QED BY <1>1, <1>2, <1>5, <1>6, <2>2 DEF CallerInv, j, d
  <1>8. CASE s.st # "CONNECTING"
    <2>1. Later(env, s, k, o, c, w, ok, err)
      BY <1>4, <1>6, <1>8 DEF Caller
    <2>2. Later(env, s, j, Tail(o), d, w, ok, err)
      BY <1>1, <1>3, <2>1, OpLater
    <2>3. /\ j["connected"] = k["connected"] /\ j["success"] = k["success"] /\ j["added"] = k["added"]
      BY <1>1 DEF Kinds, ErrorOf
    <2>4. Linked(conn, s, j, ok)
      BY <1>6, <2>3 DEF Linked
    <2>5. Caller(env, "begun", conn, s, j, Tail(o), d, w, ok, err)
      BY <2>2, <2>4, FromLater
    <2> QED BY <1>1, <1>2, <1>5, <1>6, <2>5 DEF CallerInv, j, d
  <1> QED BY <1>7, <1>8

(* An event posts one more task of kind e. *)
LEMMA MoreLater ==
  ASSUME NEW v, NEW s, NEW k \in [Kinds -> Nat], NEW j \in [Kinds -> Nat], NEW o, NEW c, NEW d,
         NEW w, NEW ok \in Nat, NEW err, NEW e \in {"handshake", "hserr", "read", "rderr"},
         Later(v, s, k, o, c, w, ok, err),
         \A x \in Kinds : j[x] = IF x = e THEN k[x] + 1 ELSE k[x],
         d = c \/ (d.r = "none" /\ d.inf = FALSE /\ d.w = "none"),
         e \in {"handshake", "hserr"} => Shakes(v, s), e \in {"read", "rderr"} => ok > 0,
         v.poll = "select" => e # "hserr" /\ (e = "handshake" => k[e] = 0 /\ w # e /\ s.st # "CLOSED")
  PROVE  Later(v, s, j, o, d, w, ok, err)
  <1>1. /\ j["connected"] = k["connected"] /\ j["added"] = k["added"] /\ j["success"] = k["success"]
        /\ j["error"] = k["error"] /\ j["cerr"] = k["cerr"]
        /\ e # "handshake" => j["handshake"] = k["handshake"]
        /\ e # "hserr" => j["hserr"] = k["hserr"]
        /\ e # "read" => j["read"] = k["read"]
        /\ e # "rderr" => j["rderr"] = k["rderr"]
    BY DEF Kinds
  <1>2. e = "handshake" /\ k["handshake"] = 0 => j["handshake"] = 1
    BY DEF Kinds
  <1>3. LaterTasks(v, s, j, ok)
    BY <1>1 DEF Later, LaterTasks
  <1>4. LaterAnswers(v, s, j, ok, err)
    BY <1>1 DEF Later, LaterAnswers
  <1>5. LaterSelect(v, s, j, w)
    BY <1>1, <1>2 DEF Later, LaterSelect
  <1>6. LaterWatch(v, s, d, w, ok)
    BY DEF Later, LaterWatch
  <1> QED BY <1>3, <1>4, <1>5, <1>6 DEF Later

LEMMA MoreCaller ==
  ASSUME Typed, Typed', CallerInv, UNCHANGED <<env, so, ops, rd, call, told, conn>>,
         NEW e \in {"handshake", "hserr", "read", "rderr"}, ctx["C"].r # "none",
         \A x \in Kinds : tasks'["C"][x] = IF x = e THEN tasks["C"][x] + 1 ELSE tasks["C"][x],
         ctx'["C"] = ctx["C"] \/ (ctx'["C"].r = "none" /\ ctx'["C"].inf = FALSE /\ ctx'["C"].w = "none"),
         e \in {"handshake", "hserr"} => Shakes(env, so["C"]), e \in {"read", "rderr"} => told.ok > 0,
         env.poll = "select" => e # "hserr" /\ (e = "handshake" => tasks["C"][e] = 0 /\ rd["C"].who # e /\ so["C"].st # "CLOSED")
  PROVE  CallerInv'
  <1> DEFINE s == so["C"]
             k == tasks["C"]
             j == tasks'["C"]
             o == ops["C"]
             c == ctx["C"]
             d == ctx'["C"]
             w == rd["C"].who
             ok == told.ok
             err == told.err
  <1>1. k \in [Kinds -> Nat] /\ j \in [Kinds -> Nat] /\ ok \in Nat /\ err \in Nat
    BY DEF Typed, Ends
  <1>2. Caller(env, call, conn, s, k, o, c, w, ok, err)
    BY DEF CallerInv
  <1>3. so'["C"] = s /\ ops'["C"] = o /\ rd'["C"].who = w /\ told'.ok = ok /\ told'.err = err
    OBVIOUS
  <1>4. /\ \A x \in Kinds : j[x] = IF x = e THEN k[x] + 1 ELSE k[x]
        /\ d = c \/ (d.r = "none" /\ d.inf = FALSE /\ d.w = "none")
        /\ e \in {"handshake", "hserr"} => Shakes(env, s)
        /\ e \in {"read", "rderr"} => ok > 0
        /\ env.poll = "select" => e # "hserr" /\ (e = "handshake" => k[e] = 0 /\ w # e /\ s.st # "CLOSED")
        /\ c.r # "none"
    OBVIOUS
  <1> HIDE DEF s, k, j, o, c, d, w, ok, err
  <1>5. call = "begun" /\ Later(env, s, k, o, c, w, ok, err)
    BY <1>2, <1>4, InLater
  <1>6. Later(env, s, j, o, d, w, ok, err)
    BY <1>1, <1>4, <1>5, MoreLater
  <1>7. /\ j["connected"] = k["connected"] /\ j["success"] = k["success"] /\ j["added"] = k["added"]
    BY <1>4 DEF Kinds
  <1>8. Linked(conn, s, j, ok)
    BY <1>2, <1>7 DEF Caller, Linked
  <1>9. Caller(env, "begun", conn, s, j, o, d, w, ok, err)
    BY <1>6, <1>8, FromLater
  <1> QED BY <1>3, <1>5, <1>9 DEF CallerInv, j, d

LEMMA LaterNow ==
  ASSUME CallerInv, ctx["C"].r # "none"
  PROVE  /\ ctx["C"].r \in {"handshake", "read"} /\ ctx["C"].w = "none"
         /\ ctx["C"].r = "handshake" => ctx["C"].inf /\ Shakes(env, so["C"])
         /\ ctx["C"].r = "read" => told.ok > 0
  <1>1. Later(env, so["C"], tasks["C"], ops["C"], ctx["C"], rd["C"].who, told.ok, told.err)
    BY InLater DEF CallerInv
  <1> QED BY <1>1 DEF Later, LaterWatch

LEMMA ReadEventCaller ==
  ASSUME Typed, StreamsInv, CallerInv, ReadEvent("C")
  PROVE  CallerInv'
  <1>0. "C" \in Ends /\ ctx["C"] \in Ctxs
    BY DEF Ends, Typed, Ctxs
  <1> DEFINE e == ctx["C"].r
  <1>1. /\ Typed' /\ UNCHANGED <<env, so, ops, rd, call, told, conn>>
        /\ e # "none" /\ so["C"].st # "CLOSED"
        /\ ctx["C"].inf /\ env.poll = "select" => tasks["C"][e] = 0 /\ rd["C"].who # e
        /\ ctx'["C"] = (IF ctx["C"].inf THEN ctx["C"] ELSE [ctx["C"] EXCEPT !.r = "none"])
        /\ \A x \in Kinds : tasks'["C"][x] = IF x = e THEN tasks["C"][x] + 1 ELSE tasks["C"][x]
    BY <1>0, ReadEventTyped
  <1>2. /\ e \in {"handshake", "read"} /\ ctx["C"].w = "none"
        /\ e = "handshake" => ctx["C"].inf /\ Shakes(env, so["C"])
        /\ e = "read" => told.ok > 0
    BY <1>1, LaterNow
  <1>3. ctx'["C"] = ctx["C"] \/ (ctx'["C"].r = "none" /\ ctx'["C"].inf = FALSE /\ ctx'["C"].w = "none")
    <2>1. CASE ctx["C"].inf
      BY <1>1, <2>1
    <2>2. CASE ~ctx["C"].inf
      <3>1. ctx'["C"] = [ctx["C"] EXCEPT !.r = "none"] /\ ctx["C"].inf = FALSE
        BY <1>0, <1>1, <2>2 DEF Ctxs
      <3> QED BY <1>0, <1>2, <3>1 DEF Ctxs
    <2> QED BY <2>1, <2>2
  <1> HIDE DEF e
  <1> QED BY <1>1, <1>2, <1>3, MoreCaller, ZenonT(30) DEF e

(* The connect event, or its error. *)
OneMore(k, j, e) == \A x \in Kinds : j[x] = IF x = e THEN k[x] + 1 ELSE k[x]
Unwatching(d) == d.r = "none" /\ d.inf = FALSE /\ d.w = "none"
LEMMA WaitsOver ==
  ASSUME NEW v, NEW cn, NEW s, NEW k \in [Kinds -> Nat], NEW j \in [Kinds -> Nat], NEW o, NEW c, NEW d,
         NEW w, NEW ok, NEW err, NEW e \in {"connected", "cerr"},
         s.st = "CONNECTING", Waits(s, k, o, c, w, ok, err), c.w # "none", Linked(cn, s, k, ok),
         OneMore(k, j, e), e = "connected" => cn = "up", Unwatching(d)
  PROVE  Caller(v, "begun", cn, s, j, o, d, w, ok, err)
  <1>1. /\ o = <<>> /\ c.w = "connected" /\ k["connected"] = 0 /\ k["cerr"] = 0
        /\ s.dh = "IDLE" /\ w = "none" /\ ok = 0 /\ err = 0
        /\ \A x \in Kinds \ {"connected", "cerr"} : k[x] = 0
    BY DEF Waits
  <1>2. /\ j["connected"] = (IF e = "connected" THEN 1 ELSE 0) /\ j["cerr"] = (IF e = "cerr" THEN 1 ELSE 0)
        /\ \A x \in Kinds \ {"connected", "cerr"} : j[x] = 0
    <2>1. "connected" \in Kinds /\ "cerr" \in Kinds
      BY DEF Kinds
    <2> QED BY <1>1, <2>1 DEF OneMore
  <1>3. Waits(s, j, o, d, w, ok, err)
    BY <1>1, <1>2 DEF Waits, Unwatching
  <1>4. Linked(cn, s, j, ok)
    BY <1>1, <1>2 DEF Linked, Kinds
  <1> QED BY <1>3, <1>4 DEF Caller

LEMMA ConnectEventCaller ==
  ASSUME Typed, Typed', CallerInv, UNCHANGED <<env, so, ops, rd, call, told, conn>>,
         NEW e \in {"connected", "cerr"}, ctx["C"].w # "none" \/ (ctx["C"].r = "none" /\ ctx["C"].inf),
         \A x \in Kinds : tasks'["C"][x] = IF x = e THEN tasks["C"][x] + 1 ELSE tasks["C"][x],
         e = "connected" => conn = "up",
         ctx'["C"] = NoCtx \/ ctx'["C"] = [ctx["C"] EXCEPT !.w = "none"]
  PROVE  CallerInv'
  <1> DEFINE s == so["C"]
             k == tasks["C"]
             j == tasks'["C"]
             o == ops["C"]
             c == ctx["C"]
             d == ctx'["C"]
             w == rd["C"].who
             ok == told.ok
             err == told.err
  <1>1. k \in [Kinds -> Nat] /\ j \in [Kinds -> Nat] /\ ok \in Nat /\ err \in Nat /\ c \in Ctxs
    BY DEF Typed, Ends, Ctxs
  <1>2. Caller(env, call, conn, s, k, o, c, w, ok, err)
    BY DEF CallerInv
  <1>3. so'["C"] = s /\ ops'["C"] = o /\ rd'["C"].who = w /\ told'.ok = ok /\ told'.err = err
    OBVIOUS
  <1>4. /\ \A x \in Kinds : j[x] = IF x = e THEN k[x] + 1 ELSE k[x]
        /\ c.w # "none" \/ (c.r = "none" /\ c.inf)
        /\ d = NoCtx \/ d = [c EXCEPT !.w = "none"]
    OBVIOUS
  <1> HIDE DEF s, k, j, o, c, d, w, ok, err
  <1>5. call = "begun" /\ s.st = "CONNECTING" /\ Waits(s, k, o, c, w, ok, err) /\ Linked(conn, s, k, ok)
    <2>1. ~Untouched(k, o, c, w, ok, err)
      BY <1>4 DEF Untouched, NoCtx
    <2>2. ~Later(env, s, k, o, c, w, ok, err)
      BY <1>4 DEF Later, LaterWatch
    <2> QED BY <1>2, <2>1, <2>2 DEF Caller
  <1>6. c.r = "none" /\ c.inf = FALSE /\ c.w # "none"
    BY <1>4, <1>5 DEF Waits
  <1>7. d.r = "none" /\ d.inf = FALSE /\ d.w = "none"
    BY <1>1, <1>4, <1>6 DEF NoCtx, Ctxs
  <1>8. Caller(env, "begun", conn, s, j, o, d, w, ok, err)
    <2>1. OneMore(k, j, e) /\ (e = "connected" => conn = "up") /\ Unwatching(d)
      BY <1>4, <1>7 DEF OneMore, Unwatching
    <2>2. c.w # "none" /\ s.st = "CONNECTING" /\ Waits(s, k, o, c, w, ok, err) /\ Linked(conn, s, k, ok)
      BY <1>5, <1>6
    <2>3. k \in [Kinds -> Nat] /\ j \in [Kinds -> Nat]
      BY <1>1
    <2> QED BY <2>1, <2>2, <2>3, WaitsOver
  <1> QED BY <1>3, <1>5, <1>8 DEF CallerInv, j, d

LEMMA WriteEventCaller ==
  ASSUME Typed, StreamsInv, CallerInv, WriteEvent
  PROVE  CallerInv'
  <1>1. /\ Typed' /\ UNCHANGED <<env, so, ops, rd, call, told, conn>>
        /\ ctx["C"].w = "connected" /\ ctx'["C"] = [ctx["C"] EXCEPT !.w = "none"]
        /\ \E k \in {"connected", "cerr"} :
             /\ k = "connected" => conn = "up"
             /\ \A x \in Kinds : tasks'["C"][x] = IF x = k THEN tasks["C"][x] + 1 ELSE tasks["C"][x]
    BY WriteEventTyped
  <1>2. PICK k \in {"connected", "cerr"} :
             /\ k = "connected" => conn = "up"
             /\ \A x \in Kinds : tasks'["C"][x] = IF x = k THEN tasks["C"][x] + 1 ELSE tasks["C"][x]
    BY <1>1
  <1> QED BY <1>1, <1>2, ConnectEventCaller

LEMMA ErrorEventCaller ==
  ASSUME Typed, StreamsInv, CallerInv, ErrorEvent("C")
  PROVE  CallerInv'
  <1>0. "C" \in Ends /\ ctx["C"] \in Ctxs
    BY DEF Ends, Typed, Ctxs
  <1>1. /\ Typed' /\ ctx'["C"] = NoCtx /\ UNCHANGED <<env, so, ops, rd, call, told, conn>>
        /\ env.poll = "epoll" /\ ctx["C"] # NoCtx
        /\ \E k \in Kinds :
             /\ k = IF ctx["C"].r = "handshake" THEN "hserr" ELSE IF ctx["C"].r = "read" THEN "rderr" ELSE "cerr"
             /\ \A x \in Kinds : tasks'["C"][x] = IF x = k THEN tasks["C"][x] + 1 ELSE tasks["C"][x]
    BY <1>0, ErrorEventTyped
  <1>2. PICK k \in Kinds :
             /\ k = IF ctx["C"].r = "handshake" THEN "hserr" ELSE IF ctx["C"].r = "read" THEN "rderr" ELSE "cerr"
             /\ \A x \in Kinds : tasks'["C"][x] = IF x = k THEN tasks["C"][x] + 1 ELSE tasks["C"][x]
    BY <1>1
  <1>3. NoCtx.r = "none" /\ NoCtx.inf = FALSE /\ NoCtx.w = "none"
    BY DEF NoCtx
  <1>4. CASE ctx["C"].r # "none"
    <2>1. /\ ctx["C"].r \in {"handshake", "read"}
          /\ ctx["C"].r = "handshake" => Shakes(env, so["C"])
          /\ ctx["C"].r = "read" => told.ok > 0
      BY <1>4, LaterNow
    <2>2. /\ k \in {"handshake", "hserr", "read", "rderr"} /\ env.poll # "select"
          /\ k \in {"handshake", "hserr"} => Shakes(env, so["C"])
          /\ k \in {"read", "rderr"} => told.ok > 0
      BY <1>1, <1>2, <2>1
    <2> QED BY <1>1, <1>2, <1>3, <1>4, <2>2, MoreCaller
  <1>5. CASE ctx["C"].r = "none"
    <2>1. k = "cerr"
      BY <1>2, <1>5
    <2>2. ctx["C"].w # "none" \/ ctx["C"].inf
      BY <1>0, <1>1, <1>5 DEF NoCtx, Ctxs
    <2> QED BY <1>1, <1>2, <1>5, <2>1, <2>2, ConnectEventCaller
  <1> QED BY <1>4, <1>5

(* The connect event has been taken: an answer, or the handshake. *)
Fresh(v, z, j, err) ==
  /\ z.st \in {"CONNECTED", "CLOSED"} /\ \A x \in Kinds \ {"added", "success"} : j[x] = 0
  /\ j["success"] + j["added"] + err <= 1
  /\ j["success"] > 0 => v.once
  /\ j["added"] > 0 => Shook(v, z)
  /\ err > 0 => z.st = "CLOSED"
  /\ Shaking(v, z) => j["success"] = 0 /\ j["added"] = 0 /\ (z.st = "CONNECTED" => err = 0)
LEMMA FreshLater ==
  ASSUME NEW v, NEW z, NEW j \in [Kinds -> Nat], NEW q \in Seq(LaterOps(v, z, 0)), NEW d, NEW err \in Nat,
         Unwatching(d), Fresh(v, z, j, err)
  PROVE  Later(v, z, j, q, d, "none", 0, err)
  <1>1. /\ j["connected"] = 0 /\ j["cerr"] = 0 /\ j["handshake"] = 0 /\ j["hserr"] = 0
        /\ j["read"] = 0 /\ j["rderr"] = 0 /\ j["error"] = 0
    BY DEF Fresh, Kinds
  <1>2. LaterTasks(v, z, j, 0)
    BY <1>1 DEF Fresh, LaterTasks
  <1>3. LaterAnswers(v, z, j, 0, err)
    <2> DEFINE a == j["success"]
               b == j["added"]
    <2>1. a \in Nat /\ b \in Nat /\ a + b + err <= 1
      BY KindsFacts DEF Fresh
    <2> HIDE DEF a, b
    <2>2. a + b + 0 + err <= 1
      BY <2>1
    <2> QED BY <2>2 DEF LaterAnswers, a, b, Fresh
  <1>4. LaterSelect(v, z, j, "none")
    BY <1>1 DEF LaterSelect
  <1>5. LaterWatch(v, z, d, "none", 0)
    BY DEF LaterWatch, Unwatching
  <1> QED BY <1>2, <1>3, <1>4, <1>5 DEF Later, Fresh

LEMMA EndOpsLater ==
  ASSUME NEW v, NEW z, NEW n PROVE Seq(EndOps) \subseteq Seq(LaterOps(v, z, n)) /\ <<>> \in Seq(LaterOps(v, z, n))
  <1>1. EndOps \subseteq LaterOps(v, z, n)
    BY DEF EndOps, LaterOps
  <1> QED BY <1>1, SeqMonotonic

LEMMA EmptyFirst == ASSUME NEW X, NEW q \in Seq(X) PROVE <<>> \o q = q /\ q \o <<>> = q
  BY ConcatProperties

LEMMA AsyncConnectCaller ==
  ASSUME Typed, StreamsInv, CallerInv, NEW rt \in {"OK", "CONNECTING", "ERR"}, AsyncConnect(rt)
  PROVE  CallerInv'
  <1> DEFINE s == so["C"]
             z == so'["C"]
             k == tasks["C"]
             j == tasks'["C"]
             o == ops["C"]
             c == ctx["C"]
             w == rd["C"].who
             ok == told.ok
             err == told.err
  <1>1. /\ Typed' /\ UNCHANGED <<env, ctx, rd, told>> /\ call = "idle"
        /\ call' = (IF rt = "ERR" THEN "failed" ELSE "begun") /\ (rt = "OK" => conn' = "up" /\ env.once)
        /\ z.st = (IF rt = "OK" THEN "CONNECTED" ELSE IF rt = "CONNECTING" THEN "CONNECTING" ELSE "CLOSED")
        /\ z.dh = s.dh
        /\ ops'["C"] = (IF rt = "CONNECTING" THEN Append(o, ConnectWatch) ELSE o)
        /\ \A x \in Kinds : j[x] = IF rt = "OK" /\ x = "success" THEN k[x] + 1 ELSE k[x]
    BY AsyncConnectTyped
  <1>2. j \in [Kinds -> Nat]
    BY <1>1 DEF Typed, Ends
  <1>3. Untouched(k, o, c, w, ok, err) /\ s.dh = "IDLE"
    BY <1>1 DEF CallerInv, Caller
  <1>4. ctx'["C"] = c /\ rd'["C"].who = w /\ told'.ok = ok /\ told'.err = err
    BY <1>1
  <1> HIDE DEF s, z, k, j, o, c, w, ok, err
  <1>5. /\ \A x \in Kinds : k[x] = 0
        /\ o = <<>> /\ c = NoCtx /\ w = "none" /\ ok = 0 /\ err = 0
    BY <1>3 DEF Untouched
  <1>6. Unwatching(c)
    BY <1>5 DEF Unwatching, NoCtx
  <1>7. CASE rt = "OK"
    <2>1. j["success"] = 1 /\ j["added"] = 0 /\ \A x \in Kinds \ {"added", "success"} : j[x] = 0
      <3>1. "success" \in Kinds /\ "added" \in Kinds
        BY DEF Kinds
      <3> QED BY <1>1, <1>5, <1>7, <3>1
    <2>2. Fresh(env, z, j, 0)
      BY <1>1, <1>3, <1>7, <2>1 DEF Fresh, Shaking
    <2>3. Later(env, z, j, <<>>, c, "none", 0, 0)
      BY <1>2, <1>6, <2>2, FreshLater, EndOpsLater
    <2>4. Caller(env, "begun", conn', z, j, <<>>, c, "none", 0, 0)
      BY <1>1, <1>7, <2>3, FromLater DEF Linked
    <2>5. Caller(env', call', conn', z, j, ops'["C"], ctx'["C"], rd'["C"].who, told'.ok, told'.err)
      BY <1>1, <1>4, <1>5, <1>7, <2>4
    <2> QED BY <2>5 DEF CallerInv, z, j
  <1>8. CASE rt # "OK"
    <2>1. \A x \in Kinds : j[x] = 0
      BY <1>1, <1>5, <1>8
    <2>2. Linked(conn', z, j, 0)
      BY <1>1, <1>3, <2>1 DEF Linked, Kinds
    <2>3. CASE rt = "CONNECTING"
      <3>1. Append(o, ConnectWatch) = <<ConnectWatch>>
        BY <1>5
      <3>2. j["connected"] = 0 /\ j["cerr"] = 0
        BY <2>1 DEF Kinds
      <3>3. Waits(z, j, <<ConnectWatch>>, c, "none", 0, 0)
        BY <1>1, <1>3, <1>6, <2>1, <3>2 DEF Waits, Unwatching
      <3>4. Caller(env, "begun", conn', z, j, <<ConnectWatch>>, c, "none", 0, 0)
        BY <1>1, <2>2, <2>3, <3>3 DEF Caller
      <3>5. Caller(env', call', conn', z, j, ops'["C"], ctx'["C"], rd'["C"].who, told'.ok, told'.err)
        BY <1>1, <1>4, <1>5, <2>3, <3>1, <3>4
      <3> QED BY <3>5 DEF CallerInv, z, j
    <2>4. CASE rt = "ERR"
      <3>1. Untouched(j, o, c, w, ok, err)
        BY <1>5, <2>1 DEF Untouched
      <3>2. Caller(env, "failed", conn', z, j, o, c, w, ok, err)
        BY <1>1, <1>5, <2>2, <2>4, <3>1 DEF Caller
      <3>3. Caller(env', call', conn', z, j, ops'["C"], ctx'["C"], rd'["C"].who, told'.ok, told'.err)
        BY <1>1, <1>4, <2>4, <3>2
      <3> QED BY <3>3 DEF CallerInv, z, j
    <2> QED BY <1>8, <2>3, <2>4
  <1> QED BY <1>7, <1>8

LEMMA BlockingCaller ==
  ASSUME Typed, StreamsInv, CallerInv, (\E ok \in BOOLEAN : Connect(ok)) \/ BlockingRound
  PROVE  CallerInv'
  <1> DEFINE s == so["C"]
             z == so'["C"]
             k == tasks["C"]
             o == ops["C"]
             c == ctx["C"]
             w == rd["C"].who
             ok == told.ok
             err == told.err
  <1>1. /\ UNCHANGED <<env, ctx, ops, tasks, rd, told>>
        /\ \/ /\ call = "idle"
              /\ \/ call' = "blocking" /\ conn' = "up" /\ env.tlp = "dh" /\ z.dh = "HANDSHAKE"
                 \/ call' = "failed" /\ z.st = "CLOSED" /\ z.dh = s.dh
           \/ /\ call = "blocking" /\ conn' = conn
              /\ \/ call' = "blocking" /\ env.tlp = "dh" /\ z.dh = "HANDSHAKE"
                 \/ call' = "failed" /\ z.st = "CLOSED"
    BY ConnectTyped, BlockingRoundTyped
  <1>2. Caller(env, call, conn, s, k, o, c, w, ok, err)
    BY DEF CallerInv
  <1>3. /\ tasks'["C"] = k /\ ops'["C"] = o /\ ctx'["C"] = c /\ rd'["C"].who = w /\ told'.ok = ok /\ told'.err = err
    BY <1>1
  <1> HIDE DEF s, z, k, o, c, w, ok, err
  <1>4. /\ Untouched(k, o, c, w, ok, err) /\ (call = "idle" => s.dh = "IDLE") /\ (call = "blocking" => Shaking(env, s))
        /\ Linked(conn, s, k, ok)
    BY <1>1, <1>2 DEF Caller
  <1>5. k["connected"] = 0 /\ k["success"] = 0 /\ k["added"] = 0 /\ ok = 0
    BY <1>4 DEF Untouched, Kinds
  <1>6. Linked(conn', z, k, ok)
    BY <1>1, <1>4, <1>5 DEF Linked, Shaking
  <1>7. Caller(env, call', conn', z, k, o, c, w, ok, err)
    BY <1>1, <1>4, <1>6 DEF Caller, Shaking
  <1>8. Caller(env', call', conn', z, tasks'["C"], ops'["C"], ctx'["C"], rd'["C"].who, told'.ok, told'.err)
    BY <1>1, <1>3, <1>7
  <1> QED BY <1>8 DEF CallerInv, z

(* A connect that returned at once is answered. *)
LEMMA AnswerLater ==
  ASSUME NEW v, NEW s, NEW z, NEW k \in [Kinds -> Nat], NEW j \in [Kinds -> Nat], NEW o, NEW q \in Seq(EndOps), NEW c,
         NEW w, NEW ok \in Nat, NEW err \in Nat, NEW n \in Nat, Later(v, s, k, o, c, w, ok, err), z.dh = s.dh,
         k["success"] > 0, j["success"] = k["success"] - 1,
         \A x \in Kinds \ {"added", "success"} : j[x] = k[x],
         \/ z.st = s.st /\ j["added"] = k["added"] + 1 /\ n = err
         \/ z.st = "CLOSED" /\ j["added"] = k["added"] /\ n = err + 1
  PROVE  Later(v, z, j, o \o q, c, w, ok, n)
  <1>1. v.once /\ ~Shaking(v, s)
    BY KindsFacts DEF Later, LaterTasks
  <1>2. /\ Shakes(v, s) <=> Shakes(v, z)
        /\ Shaking(v, s) <=> Shaking(v, z)
    BY DEF Shakes, Shaking
  <1>3. /\ j["connected"] = k["connected"] /\ j["cerr"] = k["cerr"] /\ j["error"] = k["error"]
        /\ j["handshake"] = k["handshake"] /\ j["hserr"] = k["hserr"] /\ j["read"] = k["read"] /\ j["rderr"] = k["rderr"]
    BY DEF Kinds
  <1>4. o \o q \in Seq(LaterOps(v, z, ok))
    BY <1>2, LaterOpsGrow DEF Later
  <1>5. z.st \in {"CONNECTED", "CLOSED"}
    BY DEF Later
  <1>6. LaterWatch(v, z, c, w, ok)
    BY <1>2 DEF Later, LaterWatch
  <1>7. LaterTasks(v, z, j, ok)
    BY <1>1, <1>2, <1>3 DEF Later, LaterTasks
  <1>8. LaterAnswers(v, z, j, ok, n)
    <2> DEFINE a == j["added"]
               b == k["added"]
               u == k["success"]
               t == j["success"]
    <2>1. a \in Nat /\ b \in Nat /\ u \in Nat /\ t \in Nat /\ t = u - 1 /\ ((a = b + 1 /\ n = err) \/ (a = b /\ n = err + 1))
      BY KindsFacts
    <2>2. Strict(v) => u + b + ok + err <= 1
      BY DEF Later, LaterAnswers
    <2>3. n > 0 => z.st = "CLOSED"
      BY DEF Later, LaterAnswers
    <2> HIDE DEF a, b, u, t
    <2>4. Strict(v) => t + a + ok + n <= 1
      BY <2>1, <2>2, SMTT(30)
    <2> QED BY <1>1, <1>2, <2>3, <2>4 DEF LaterAnswers, a, t
  <1>9. LaterSelect(v, z, j, w)
    BY <1>1, <1>2, <1>3 DEF Later, LaterSelect
  <1> QED BY <1>4, <1>5, <1>6, <1>7, <1>8, <1>9 DEF Later

LEMMA ConnectedAtOnceCaller ==
  ASSUME Typed, StreamsInv, CallerInv, ConnectedAtOnce
  PROVE  CallerInv'
  <1> DEFINE s == so["C"]
             z == so'["C"]
             k == tasks["C"]
             j == tasks'["C"]
             o == ops["C"]
             c == ctx["C"]
             w == rd["C"].who
             ok == told.ok
             err == told.err
             n == told'.err
             t == Taken("C", "success")["C"]
  <1>1. /\ Typed' /\ UNCHANGED <<env, ctx, rd, call, conn>>
        /\ k["success"] > 0 /\ ops'["C"] = o \o <<>> /\ Added(s.st, s.dh, t)
    BY ConnectedAtOnceTyped
  <1>2. k \in [Kinds -> Nat] /\ j \in [Kinds -> Nat] /\ ok \in Nat /\ err \in Nat /\ n \in Nat
    BY <1>1 DEF Typed, Ends
  <1>3. \A x \in Kinds : t[x] = IF x = "success" THEN k[x] - 1 ELSE k[x]
    <2>1. "C" \in Ends /\ "success" \in Kinds
      BY DEF Ends, Kinds
    <2> QED BY <1>1, <2>1, TakenFacts
  <1>4. Caller(env, call, conn, s, k, o, c, w, ok, err)
    BY DEF CallerInv
  <1>5. ctx'["C"] = c /\ rd'["C"].who = w
    BY <1>1
  <1>6. /\ z.dh = s.dh /\ told'.ok = ok /\ \A x \in Kinds \ {"added"} : j[x] = t[x]
        /\ \/ z.st = s.st /\ j["added"] = t["added"] + 1 /\ n = err
           \/ z.st = "CLOSED" /\ j["added"] = t["added"] /\ n = err + 1
    BY <1>1 DEF Added
  <1> HIDE DEF s, z, k, j, o, c, w, ok, err, n, t
  <1>7. "success" \in Kinds \ {"connected", "cerr", "added"} /\ "added" \in Kinds
    BY DEF Kinds
  <1>8. call = "begun" /\ Later(env, s, k, o, c, w, ok, err) /\ conn = "up"
    <2>1. k["success"] # 0
      BY <1>1
    <2>2. call = "begun" /\ Later(env, s, k, o, c, w, ok, err)
      BY <1>4, <1>7, <2>1, InLater
    <2>3. conn = "up"
      BY <1>1, <1>4 DEF Caller, Linked
    <2> QED BY <2>2, <2>3
  <1>9. /\ j["success"] = k["success"] - 1 /\ \A x \in Kinds \ {"added", "success"} : j[x] = k[x]
        /\ \/ z.st = s.st /\ j["added"] = k["added"] + 1 /\ n = err
           \/ z.st = "CLOSED" /\ j["added"] = k["added"] /\ n = err + 1
    BY <1>3, <1>6, <1>7
  <1>10. <<>> \in Seq(EndOps)
    OBVIOUS
  <1>11. Later(env, z, j, o \o <<>>, c, w, ok, n)
    BY <1>1, <1>2, <1>6, <1>8, <1>9, <1>10, AnswerLater
  <1>12. Caller(env, "begun", conn, z, j, o \o <<>>, c, w, ok, n)
    BY <1>8, <1>11, FromLater DEF Linked
  <1>13. Caller(env', call', conn', z, j, ops'["C"], ctx'["C"], rd'["C"].who, told'.ok, n)
    BY <1>1, <1>5, <1>6, <1>8, <1>12
  <1> QED BY <1>13 DEF CallerInv, z, j, n

(* The connect event is taken by async_connected. *)
LEMMA ConnectedWaits ==
  ASSUME NEW v, NEW cl, NEW cn, NEW s, NEW k \in [Kinds -> Nat], NEW o, NEW c, NEW w, NEW ok, NEW err,
         Caller(v, cl, cn, s, k, o, c, w, ok, err), k["connected"] > 0
  PROVE  /\ cl = "begun" /\ cn = "up" /\ s.dh = "IDLE" /\ o = <<>> /\ Unwatching(c) /\ w = "none" /\ ok = 0 /\ err = 0
         /\ k["connected"] = 1 /\ \A x \in Kinds \ {"connected"} : k[x] = 0
  <1>1. "connected" \in Kinds
    BY DEF Kinds
  <1>2. k["connected"] \in Nat /\ k["connected"] # 0
    BY KindsFacts
  <1>3. ~Untouched(k, o, c, w, ok, err)
    BY <1>1, <1>2 DEF Untouched
  <1>4. ~Later(v, s, k, o, c, w, ok, err)
    BY <1>2 DEF Later, LaterTasks
  <1>5. cl = "begun" /\ Waits(s, k, o, c, w, ok, err) /\ cn = "up"
    BY <1>3, <1>4 DEF Caller, Linked
  <1> QED BY <1>2, <1>5 DEF Waits, Unwatching

LEMMA HandshakeOpsLater ==
  ASSUME NEW v, NEW z, NEW n, NEW q \in Seq(EndOps), Shakes(v, z)
  PROVE  q \o <<WatchOp("handshake", TRUE)>> \in Seq(LaterOps(v, z, n))
  <1> DEFINE h == WatchOp("handshake", TRUE)
  <1>1. h \in LaterOps(v, z, n)
    BY DEF WatchOp, LaterOps, OpSet, Fns
  <1> HIDE DEF h
  <1>2. <<h>> \in Seq(LaterOps(v, z, n)) /\ q \in Seq(LaterOps(v, z, n))
    BY <1>1, Single, EndOpsLater
  <1>3. q \o <<h>> \in Seq(LaterOps(v, z, n))
    BY <1>2, ConcatProperties
  <1> QED BY <1>3 DEF h

LEMMA AsyncConnectedCaller ==
  ASSUME Typed, StreamsInv, CallerInv, AsyncConnected
  PROVE  CallerInv'
  <1> DEFINE s == so["C"]
             z == so'["C"]
             k == tasks["C"]
             j == tasks'["C"]
             o == ops["C"]
             p == ops'["C"]
             c == ctx["C"]
             w == rd["C"].who
             ok == told.ok
             err == told.err
             m == told'.ok
             n == told'.err
             t == Taken("C", "connected")["C"]
             q == EndWrite(s)
             h == <<WatchOp("handshake", TRUE)>>
  <1>1. /\ Typed' /\ UNCHANGED <<env, ctx, rd, call, conn>> /\ k["connected"] > 0
        /\ \/ env.tlp = "hlen" /\ Added("CONNECTED", s.dh, t) /\ p = o \o q
           \/ /\ env.tlp # "hlen" /\ z.st = "CONNECTED" /\ z.dh = "HANDSHAKE"
              /\ j = t /\ told' = told /\ p = o \o (q \o h)
           \/ env.tlp # "hlen" /\ Failed("HANDSHAKE", t)
    BY AsyncConnectedTyped
  <1>2. k \in [Kinds -> Nat] /\ j \in [Kinds -> Nat] /\ ok \in Nat /\ err \in Nat /\ n \in Nat /\ env \in Envs
    BY <1>1 DEF Typed, Ends
  <1>3. \A x \in Kinds : t[x] = IF x = "connected" THEN k[x] - 1 ELSE k[x]
    <2>1. "C" \in Ends /\ "connected" \in Kinds
      BY DEF Ends, Kinds
    <2> QED BY <1>1, <2>1, TakenFacts
  <1>4. Caller(env, call, conn, s, k, o, c, w, ok, err)
    BY DEF CallerInv
  <1>5. ctx'["C"] = c /\ rd'["C"].who = w
    BY <1>1
  <1>6. env.tlp # "hlen" => env.tlp = "dh"
    BY <1>2, EnvsAssumption
  <1>7. q \in Seq(EndOps)
    BY ReadOpsFacts
  <1>8. /\ Added("CONNECTED", s.dh, t) =>
             /\ z.dh = s.dh /\ m = ok /\ \A x \in Kinds \ {"added"} : j[x] = t[x]
             /\ \/ z.st = "CONNECTED" /\ j["added"] = t["added"] + 1 /\ n = err
                \/ z.st = "CLOSED" /\ j["added"] = t["added"] /\ n = err + 1
        /\ Failed("HANDSHAKE", t) => /\ z.st = "CLOSED" /\ z.dh = "HANDSHAKE" /\ m = ok /\ n = err + 1
                                     /\ \A x \in Kinds : j[x] = t[x]
                                     /\ \E e \in Seq(EndOps) : p = o \o e
        /\ told' = told => m = ok /\ n = err
    BY DEF Added, Failed
  <1> HIDE DEF s, z, k, j, o, p, c, w, ok, err, m, n, t, q
  <1>9. /\ call = "begun" /\ conn = "up" /\ s.dh = "IDLE" /\ o = <<>> /\ Unwatching(c) /\ w = "none" /\ ok = 0 /\ err = 0
        /\ k["connected"] = 1 /\ \A x \in Kinds \ {"connected"} : k[x] = 0
    BY <1>1, <1>2, <1>4, ConnectedWaits
  <1>10. \A x \in Kinds : t[x] = 0
    BY <1>3, <1>9
  <1>11. "added" \in Kinds /\ "success" \in Kinds
    BY DEF Kinds
  <1>12. Fresh(env, z, j, n) /\ p \in Seq(LaterOps(env, z, 0)) /\ m = 0
    <2>1. CASE env.tlp = "hlen" /\ Added("CONNECTED", s.dh, t) /\ p = o \o q
      <3>1. /\ m = 0 /\ \A x \in Kinds \ {"added"} : j[x] = 0
            /\ \/ z.st = "CONNECTED" /\ j["added"] = 1 /\ n = 0
               \/ z.st = "CLOSED" /\ j["added"] = 0 /\ n = 1
        BY <1>8, <1>9, <1>10, <1>11, <2>1
      <3>2. j["success"] = 0 /\ \A x \in Kinds \ {"added", "success"} : j[x] = 0
        BY <1>11, <3>1
      <3>3. Fresh(env, z, j, n)
        BY <2>1, <3>1, <3>2 DEF Fresh, Shook, Shaking
      <3>4. p = q
        BY <1>7, <1>9, <2>1, EmptyFirst
      <3> QED BY <1>7, <3>1, <3>3, <3>4, EndOpsLater
    <2>2. CASE /\ env.tlp # "hlen" /\ z.st = "CONNECTED" /\ z.dh = "HANDSHAKE"
               /\ j = t /\ told' = told /\ p = o \o (q \o h)
      <3>1. j["success"] = 0 /\ j["added"] = 0 /\ n = 0 /\ m = 0 /\ \A x \in Kinds \ {"added", "success"} : j[x] = 0
        BY <1>8, <1>9, <1>10, <1>11, <2>2
      <3>2. Fresh(env, z, j, n)
        BY <2>2, <3>1 DEF Fresh
      <3>3. q \o h \in Seq(LaterOps(env, z, 0))
        BY <1>6, <1>7, <2>2, HandshakeOpsLater DEF Shakes
      <3> HIDE DEF h
      <3>4. p = q \o h
        BY <1>9, <2>2, <3>3, EmptyFirst
      <3> QED BY <3>1, <3>2, <3>3, <3>4
    <2>3. CASE env.tlp # "hlen" /\ Failed("HANDSHAKE", t)
      <3>1. /\ z.st = "CLOSED" /\ n = 1 /\ m = 0 /\ z.dh = "HANDSHAKE"
            /\ j["success"] = 0 /\ j["added"] = 0 /\ \A x \in Kinds \ {"added", "success"} : j[x] = 0
        BY <1>8, <1>9, <1>10, <1>11, <2>3
      <3>2. Fresh(env, z, j, n)
        BY <3>1 DEF Fresh, Shaking
      <3>3. PICK e \in Seq(EndOps) : p = o \o e
        BY <1>8, <2>3
      <3>4. p = e
        BY <1>9, <3>3, EmptyFirst
      <3> QED BY <3>1, <3>2, <3>3, <3>4, EndOpsLater
    <2> QED BY <1>1, <2>1, <2>2, <2>3
  <1>13. Later(env, z, j, p, c, "none", 0, n)
    BY <1>2, <1>9, <1>12, FreshLater
  <1>14. Caller(env, "begun", conn, z, j, p, c, "none", 0, n)
    BY <1>9, <1>13, FromLater DEF Linked
  <1>15. Caller(env', call', conn', z, j, p, ctx'["C"], rd'["C"].who, m, n)
    BY <1>1, <1>5, <1>9, <1>12, <1>14
  <1> QED BY <1>15 DEF CallerInv, z, j, p, m, n

(* async_connect_error: the connect failed, or an answer that goes astray. *)
LEMMA ErrorLater ==
  ASSUME NEW v, NEW s, NEW z, NEW k \in [Kinds -> Nat], NEW j \in [Kinds -> Nat], NEW o, NEW q \in Seq(EndOps), NEW c,
         NEW w, NEW ok \in Nat, NEW err \in Nat, NEW n \in Nat, Later(v, s, k, o, c, w, ok, err), z.dh = s.dh,
         z.st = "CLOSED", k["cerr"] > 0, \A x \in Kinds \ {"cerr"} : j[x] = k[x]
  PROVE  Later(v, z, j, o \o q, c, w, ok, n)
  <1>1. ~Strict(v) /\ v.poll # "select"
    BY KindsFacts DEF Later, LaterTasks, Strict
  <1>2. /\ Shakes(v, s) <=> Shakes(v, z)
        /\ Shaking(v, s) <=> Shaking(v, z)
        /\ Shook(v, s) <=> Shook(v, z)
    BY DEF Shakes, Shaking, Shook
  <1>3. /\ j["connected"] = k["connected"] /\ j["error"] = k["error"] /\ j["success"] = k["success"] /\ j["added"] = k["added"]
        /\ j["handshake"] = k["handshake"] /\ j["hserr"] = k["hserr"] /\ j["read"] = k["read"] /\ j["rderr"] = k["rderr"]
    BY DEF Kinds
  <1>4. o \o q \in Seq(LaterOps(v, z, ok))
    BY <1>2, LaterOpsGrow DEF Later
  <1>5. LaterWatch(v, z, c, w, ok)
    BY <1>2 DEF Later, LaterWatch
  <1>6. LaterTasks(v, z, j, ok)
    BY <1>1, <1>2, <1>3 DEF Later, LaterTasks
  <1>7. LaterAnswers(v, z, j, ok, n)
    BY <1>1 DEF LaterAnswers
  <1>8. LaterSelect(v, z, j, w)
    BY <1>1 DEF LaterSelect
  <1> QED BY <1>4, <1>5, <1>6, <1>7, <1>8 DEF Later

LEMMA AsyncConnectErrorCaller ==
  ASSUME Typed, StreamsInv, CallerInv, AsyncConnectError
  PROVE  CallerInv'
  <1> DEFINE s == so["C"]
             z == so'["C"]
             k == tasks["C"]
             j == tasks'["C"]
             o == ops["C"]
             p == ops'["C"]
             c == ctx["C"]
             w == rd["C"].who
             ok == told.ok
             err == told.err
             m == told'.ok
             n == told'.err
             t == Taken("C", "cerr")["C"]
  <1>1. Typed' /\ UNCHANGED <<env, ctx, rd, call, conn>> /\ k["cerr"] > 0 /\ Failed(s.dh, t)
    BY AsyncConnectErrorTyped
  <1>2. k \in [Kinds -> Nat] /\ j \in [Kinds -> Nat] /\ ok \in Nat /\ err \in Nat /\ n \in Nat
    BY <1>1 DEF Typed, Ends
  <1>3. \A x \in Kinds : t[x] = IF x = "cerr" THEN k[x] - 1 ELSE k[x]
    <2>1. "C" \in Ends /\ "cerr" \in Kinds
      BY DEF Ends, Kinds
    <2> QED BY <1>1, <2>1, TakenFacts
  <1>4. Caller(env, call, conn, s, k, o, c, w, ok, err)
    BY DEF CallerInv
  <1>5. ctx'["C"] = c /\ rd'["C"].who = w
    BY <1>1
  <1>6. /\ z.st = "CLOSED" /\ z.dh = s.dh /\ m = ok /\ n = err + 1
        /\ \A x \in Kinds : j[x] = t[x]
        /\ \E e \in Seq(EndOps) : p = o \o e
    BY <1>1 DEF Failed
  <1>7. PICK q \in Seq(EndOps) : p = o \o q
    BY <1>6
  <1> HIDE DEF s, z, k, j, o, p, c, w, ok, err, m, n, t
  <1>8. call = "begun" /\ (Waits(s, k, o, c, w, ok, err) \/ Later(env, s, k, o, c, w, ok, err)) /\ Linked(conn, s, k, ok)
    <2>1. "cerr" \in Kinds /\ k["cerr"] # 0
      BY <1>1 DEF Kinds
    <2>2. ~Untouched(k, o, c, w, ok, err)
      BY <2>1 DEF Untouched
    <2> QED BY <1>4, <2>2 DEF Caller
  <1>9. \A x \in Kinds \ {"cerr"} : j[x] = k[x]
    BY <1>3, <1>6
  <1>10. Linked(conn, z, j, ok)
    <2>1. j["connected"] = k["connected"] /\ j["success"] = k["success"] /\ j["added"] = k["added"]
      BY <1>9 DEF Kinds
    <2> QED BY <1>6, <1>8, <2>1 DEF Linked
  <1>11. Later(env, z, j, p, c, w, ok, n)
    <2>1. CASE Later(env, s, k, o, c, w, ok, err)
      BY <1>1, <1>2, <1>6, <1>7, <1>9, <2>1, ErrorLater
    <2>2. CASE Waits(s, k, o, c, w, ok, err)
      <3>1. /\ o = <<>> /\ Unwatching(c) /\ w = "none" /\ ok = 0 /\ err = 0 /\ k["cerr"] = 1 /\ s.dh = "IDLE"
            /\ k["connected"] = 0 /\ \A x \in Kinds \ {"connected", "cerr"} : k[x] = 0
        BY <1>1, <2>2 DEF Waits, Unwatching
      <3>2. "added" \in Kinds /\ "success" \in Kinds /\ "cerr" \in Kinds /\ "connected" \in Kinds
        BY DEF Kinds
      <3>3. n = 1 /\ j["success"] = 0 /\ j["added"] = 0 /\ \A x \in Kinds \ {"added", "success"} : j[x] = 0
        BY <1>3, <1>6, <3>1, <3>2
      <3>4. Fresh(env, z, j, n)
        BY <1>6, <3>1, <3>3 DEF Fresh, Shaking
      <3>5. p = q
        BY <1>7, <3>1, EmptyFirst
      <3>6. p \in Seq(LaterOps(env, z, 0))
        BY <3>5, EndOpsLater
      <3> QED BY <1>2, <3>1, <3>4, <3>6, FreshLater
    <2> QED BY <1>8, <2>1, <2>2
  <1>12. Caller(env, "begun", conn, z, j, p, c, w, ok, n)
    BY <1>10, <1>11, FromLater
  <1>13. Caller(env', call', conn', z, j, p, ctx'["C"], rd'["C"].who, m, n)
    BY <1>1, <1>5, <1>6, <1>8, <1>12
  <1> QED BY <1>13 DEF CallerInv, z, j, p, m, n

(* A task of the handshake begins to read. *)
LEMMA BeginsLater ==
  ASSUME NEW v, NEW s, NEW k \in [Kinds -> Nat], NEW j \in [Kinds -> Nat], NEW o, NEW c, NEW y,
         NEW ok \in Nat, NEW err \in Nat, NEW e \in {"handshake", "hserr"},
         Later(v, s, k, o, c, "none", ok, err), k[e] > 0, j[e] = k[e] - 1, s.dh \in Dhs,
         \A x \in Kinds \ {e, "cerr"} : j[x] = k[x], j["cerr"] = k["cerr"] \/ e = "hserr",
         y = IF Shook(v, s) THEN "none" ELSE e
  PROVE  Later(v, s, j, o, c, y, ok, err)
  <1>1. Shakes(v, s)
    BY KindsFacts DEF Later, LaterTasks
  <1>2. Shook(v, s) \/ Shaking(v, s)
    BY <1>1 DEF Shakes, Shook, Shaking, Dhs
  <1>3. v.poll = "select" => e = "handshake" /\ k["handshake"] = 1 /\ (Shaking(v, s) => s.st # "CLOSED")
    BY KindsFacts DEF Later, LaterSelect
  <1>4. Strict(v) => e = "handshake"
    BY <1>1, <1>3 DEF Strict, Shakes
  <1>5. /\ j["connected"] = k["connected"] /\ j["error"] = k["error"] /\ j["success"] = k["success"] /\ j["added"] = k["added"]
        /\ e = "handshake" => j["hserr"] = k["hserr"] /\ j["handshake"] = k["handshake"] - 1
        /\ j["read"] = k["read"] /\ j["rderr"] = k["rderr"]
    BY DEF Kinds
  <1>6. LaterWatch(v, s, c, y, ok)
    BY <1>2 DEF Later, LaterWatch
  <1>7. LaterTasks(v, s, j, ok)
    <2>1. Strict(v) => j["cerr"] = 0
      BY <1>4 DEF Later, LaterTasks
    <2> QED BY <1>1, <1>5, <2>1 DEF Later, LaterTasks
  <1>8. LaterAnswers(v, s, j, ok, err)
    BY <1>5 DEF Later, LaterAnswers
  <1>9. LaterSelect(v, s, j, y)
    <2>1. ASSUME v.poll = "select" PROVE j["hserr"] = 0 /\ j["handshake"] = 0 /\ y # "hserr"
      BY <1>3, <1>5, <2>1 DEF Later, LaterSelect
    <2> QED BY <1>2, <1>3, <2>1 DEF LaterSelect, Shook, Shaking
  <1> QED BY <1>6, <1>7, <1>8, <1>9 DEF Later

LEMMA HandshakeBeginsCaller ==
  ASSUME Typed, StreamsInv, CallerInv, NEW e \in {"handshake", "hserr"}, HandshakeBegins(e)
  PROVE  CallerInv'
  <1> DEFINE s == so["C"]
             k == tasks["C"]
             j == tasks'["C"]
             o == ops["C"]
             c == ctx["C"]
             w == rd["C"].who
             y == rd'["C"].who
             ok == told.ok
             err == told.err
  <1>1. /\ Typed' /\ UNCHANGED <<env, so, ctx, ops, call, told, conn>>
        /\ k[e] > 0 /\ w = "none"
        /\ \A x \in Kinds \ {e, "cerr"} : j[x] = k[x]
        /\ j[e] = k[e] - 1 /\ (j["cerr"] = k["cerr"] \/ e = "hserr")
        /\ y = IF HandshakeDone(s) THEN "none" ELSE e
    BY HandshakeBeginsTyped
  <1>2. k \in [Kinds -> Nat] /\ j \in [Kinds -> Nat] /\ ok \in Nat /\ err \in Nat /\ s.dh \in Dhs
    BY <1>1 DEF Typed, Ends, Sockets
  <1>3. Caller(env, call, conn, s, k, o, c, w, ok, err)
    BY DEF CallerInv
  <1>4. so'["C"] = s /\ ctx'["C"] = c /\ ops'["C"] = o /\ told'.ok = ok /\ told'.err = err
    BY <1>1
  <1>5. HandshakeDone(s) <=> Shook(env, s)
    BY DEF HandshakeDone, Shook
  <1> HIDE DEF s, k, j, o, c, w, y, ok, err
  <1>6. call = "begun" /\ Later(env, s, k, o, c, w, ok, err)
    <2>1. e \in Kinds \ {"connected", "cerr"} /\ k[e] # 0
      BY <1>1 DEF Kinds
    <2> QED BY <1>3, <2>1, InLater
  <1>7. Later(env, s, j, o, c, y, ok, err)
    <2>1. Later(env, s, k, o, c, "none", ok, err) /\ y = IF Shook(env, s) THEN "none" ELSE e
      BY <1>1, <1>5, <1>6
    <2> QED BY <1>1, <1>2, <2>1, BeginsLater
  <1>8. Linked(conn, s, j, ok)
    <2>1. j["connected"] = k["connected"] /\ j["success"] = k["success"] /\ j["added"] = k["added"]
      BY <1>1 DEF Kinds
    <2> QED BY <1>3, <2>1 DEF Caller, Linked
  <1>9. Caller(env, "begun", conn, s, j, o, c, y, ok, err)
    BY <1>7, <1>8, FromLater
  <1>10. Caller(env', call', conn', so'["C"], j, ops'["C"], ctx'["C"], y, told'.ok, told'.err)
    BY <1>1, <1>4, <1>6, <1>9
  <1> QED BY <1>10 DEF CallerInv, j, y

(* A round of the handshake: s and the tasks k become z and j.  The round   *)
(* goes on or ends without an answer, ends with a peer, or fails.           *)
RoundGoesOn(s, z, k, j, err, n) ==
  z.st = s.st /\ z.dh \in {"HANDSHAKE", "DATA_TRANSFER"} /\ j["added"] = k["added"] /\ n = err
RoundAdds(s, z, k, j, err, n) ==
  /\ z.dh = "DATA_TRANSFER"
  /\ \/ z.st = s.st /\ j["added"] = k["added"] + 1 /\ n = err
     \/ z.st = "CLOSED" /\ j["added"] = k["added"] /\ n = err + 1
RoundFails(s, z, k, j, err, n) ==
  z.st = "CLOSED" /\ z.dh = s.dh /\ j["added"] = k["added"] /\ n = err + 1
Rounds(w, y, s, z, k, j, err, n) ==
  /\ \A x \in Kinds \ {"added", "cerr"} : j[x] = k[x]
  /\ j["cerr"] = k["cerr"] \/ w = "hserr"
  /\ y \in {w, "none"} /\ (y = w => z.dh = "HANDSHAKE" /\ z.st = s.st)
  /\ RoundGoesOn(s, z, k, j, err, n) \/ RoundAdds(s, z, k, j, err, n) \/ RoundFails(s, z, k, j, err, n)
LEMMA RoundLater ==
  ASSUME NEW v, NEW s, NEW z, NEW k \in [Kinds -> Nat], NEW j \in [Kinds -> Nat], NEW o, NEW q \in Seq(EndOps), NEW c,
         NEW w \in {"handshake", "hserr"}, NEW y, NEW ok \in Nat, NEW err \in Nat, NEW n \in Nat,
         Later(v, s, k, o, c, w, ok, err), Rounds(w, y, s, z, k, j, err, n)
  PROVE  Later(v, z, j, o \o q, c, y, ok, n) /\ Later(v, z, j, o, c, y, ok, n)
  <1>0. /\ \A x \in Kinds \ {"added", "cerr"} : j[x] = k[x]
        /\ j["cerr"] = k["cerr"] \/ w = "hserr"
        /\ y \in {w, "none"} /\ (y = w => z.dh = "HANDSHAKE" /\ z.st = s.st)
        /\ RoundGoesOn(s, z, k, j, err, n) \/ RoundAdds(s, z, k, j, err, n) \/ RoundFails(s, z, k, j, err, n)
    BY DEF Rounds
  <1>1. Shaking(v, s) /\ k["success"] = 0 /\ k["added"] = 0 /\ ok = 0
    BY DEF Later, LaterWatch, LaterTasks
  <1>2. Shakes(v, z) /\ v.tlp = "dh" /\ (Shaking(v, z) \/ Shook(v, z)) /\ ~(Shaking(v, z) /\ Shook(v, z)) /\ (y = w => Shaking(v, z))
    BY <1>0, <1>1 DEF Shakes, Shaking, Shook, RoundGoesOn, RoundAdds, RoundFails
  <1>3. v.poll = "select" => w = "handshake" /\ k["handshake"] = 0 /\ k["hserr"] = 0 /\ s.st = "CONNECTED"
    BY <1>1 DEF Later, LaterSelect
  <1>4. Strict(v) => w = "handshake" /\ s.st = "CONNECTED" /\ err = 0 /\ k["cerr"] = 0
    <2>1. Strict(v) => v.poll = "select"
      BY <1>2 DEF Strict
    <2> QED BY <1>1, <1>3, <2>1 DEF Later, LaterAnswers, LaterTasks
  <1>5. /\ j["connected"] = k["connected"] /\ j["error"] = k["error"] /\ j["success"] = 0
        /\ j["handshake"] = k["handshake"] /\ j["hserr"] = k["hserr"] /\ j["read"] = k["read"] /\ j["rderr"] = k["rderr"]
    BY <1>0, <1>1 DEF Kinds
  <1>6. o \o q \in Seq(LaterOps(v, z, ok)) /\ o \in Seq(LaterOps(v, z, ok))
    BY <1>2, LaterOpsGrow DEF Later
  <1>7. z.st \in {"CONNECTED", "CLOSED"} /\ (n > 0 => z.st = "CLOSED")
    BY <1>0 DEF Later, LaterAnswers, RoundGoesOn, RoundAdds, RoundFails
  <1>8. LaterWatch(v, z, c, y, ok)
    BY <1>0, <1>2 DEF Later, LaterWatch
  <1>9. j["added"] \in {0, 1} /\ (j["added"] = 1 => z.dh = "DATA_TRANSFER")
    BY <1>0, <1>1 DEF RoundGoesOn, RoundAdds, RoundFails
  <1>10. LaterTasks(v, z, j, ok)
    <2>1. Strict(v) => j["cerr"] = 0
      BY <1>0, <1>4
    <2>2. j["added"] > 0 => Shook(v, z) /\ ~Shaking(v, z)
      BY <1>9 DEF Shook, Shaking
    <2>3. Shaking(v, z) => j["added"] = 0
      BY <1>9 DEF Shaking
    <2> QED BY <1>1, <1>2, <1>5, <2>1, <2>2, <2>3 DEF Later, LaterTasks
  <1>11. LaterAnswers(v, z, j, ok, n)
    <2>1. ASSUME Strict(v) PROVE (j["added"] = 0 /\ n \in {0, 1}) \/ (j["added"] = 1 /\ n = 0)
      BY <1>0, <1>1, <1>4, <2>1 DEF RoundGoesOn, RoundAdds, RoundFails
    <2>2. Strict(v) => j["success"] + j["added"] + ok + n <= 1
      BY <1>1, <1>5, <2>1
    <2>3. Shaking(v, z) /\ z.st = "CONNECTED" /\ Strict(v) => n = 0
      BY <1>7, <2>1
    <2> QED BY <1>7, <2>2, <2>3 DEF LaterAnswers
  <1>12. LaterSelect(v, z, j, y)
    BY <1>0, <1>3, <1>5 DEF LaterSelect
  <1> QED BY <1>6, <1>7, <1>8, <1>10, <1>11, <1>12 DEF Later

LEMMA HandshakeRoundCaller ==
  ASSUME Typed, StreamsInv, CallerInv, HandshakeRound
  PROVE  CallerInv'
  <1> DEFINE s == so["C"]
             z == so'["C"]
             k == tasks["C"]
             j == tasks'["C"]
             o == ops["C"]
             p == ops'["C"]
             c == ctx["C"]
             w == rd["C"].who
             y == rd'["C"].who
             ok == told.ok
             err == told.err
             m == told'.ok
             n == told'.err
             a == Afterwards(w)["C"]
  <1>1. /\ Typed' /\ UNCHANGED <<env, ctx, call, conn>> /\ w \in {"handshake", "hserr"}
        /\ \E d : Handshook("C", d) /\ HandshakeRoundPost(d, a)
    BY HandshakeRoundTyped
  <1>2. /\ k \in [Kinds -> Nat] /\ j \in [Kinds -> Nat] /\ ok \in Nat /\ err \in Nat /\ n \in Nat
        /\ s.dh \in Dhs
    BY <1>1 DEF Typed, Ends, Sockets
  <1>3. Caller(env, call, conn, s, k, o, c, w, ok, err)
    BY DEF CallerInv
  <1>4. (\A x \in Kinds : x # "cerr" => a[x] = k[x]) /\ (w # "hserr" => a["cerr"] = k["cerr"])
    BY AfterFacts
  <1>5. PICK d : Handshook("C", d) /\ HandshakeRoundPost(d, a)
    BY <1>1
  <1>6. d = s.dh \/ d = "DATA_TRANSFER"
    BY <1>5 DEF Handshook
  <1>7. ctx'["C"] = c
    BY <1>1
  <1>8. \/ z.st = s.st /\ z.dh = d /\ d = "HANDSHAKE" /\ j = k /\ p = o /\ m = ok /\ n = err /\ y = w
        \/ /\ y = "none" /\ (env.tlp = "hlen" \/ d = "DATA_TRANSFER") /\ \E q \in Seq(EndOps) : p = o \o q
           /\ z.dh = d /\ m = ok /\ \A x \in Kinds \ {"added"} : j[x] = a[x]
           /\ \/ z.st = s.st /\ j["added"] = a["added"] + 1 /\ n = err
              \/ z.st = "CLOSED" /\ j["added"] = a["added"] /\ n = err + 1
        \/ y = "none" /\ z.st = s.st /\ z.dh = d /\ j = a /\ p = o /\ m = ok /\ n = err
        \/ /\ y = "none" /\ z.st = "CLOSED" /\ z.dh = s.dh /\ m = ok /\ n = err + 1
           /\ \A x \in Kinds : j[x] = a[x]
           /\ \E q \in Seq(EndOps) : p = o \o q
    <2>1. HandshakeRoundPost(d, a)
      BY <1>5
    <2> HIDE DEF a
    <2> QED BY <2>1 DEF HandshakeRoundPost, Added, Failed
  <1> HIDE DEF s, z, k, j, o, p, c, w, y, ok, err, m, n, a
  <1>9. call = "begun" /\ Later(env, s, k, o, c, w, ok, err)
    <2>1. w # "none"
      BY <1>1
    <2> QED BY <1>3, <2>1, InLater
  <1>10. Shaking(env, s) /\ conn = "up"
    <2>1. Shaking(env, s)
      BY <1>1, <1>9 DEF Later, LaterWatch
    <2> QED BY <1>3, <2>1 DEF Caller, Linked, Shaking
  <1>11. d \in {"HANDSHAKE", "DATA_TRANSFER"} /\ env.tlp # "hlen"
    BY <1>6, <1>10 DEF Shaking
  <1>12. /\ \A x \in Kinds \ {"added", "cerr"} : j[x] = k[x]
         /\ j["cerr"] = k["cerr"] \/ w = "hserr"
         /\ a["added"] = k["added"]
    <2>1. "cerr" \in Kinds /\ "added" \in Kinds
      BY DEF Kinds
    <2> QED BY <1>1, <1>4, <1>8, <2>1
  <1>13. RoundGoesOn(s, z, k, j, err, n) \/ RoundAdds(s, z, k, j, err, n) \/ RoundFails(s, z, k, j, err, n)
    <2>1. "added" \in Kinds
      BY DEF Kinds
    <2> QED BY <1>8, <1>11, <1>12, <2>1 DEF RoundGoesOn, RoundAdds, RoundFails
  <1>14. /\ y \in {w, "none"} /\ (y = w => z.dh = "HANDSHAKE" /\ z.st = s.st) /\ m = ok
         /\ p = o \/ \E q \in Seq(EndOps) : p = o \o q
    BY <1>1, <1>8
  <1>15. Later(env, z, j, p, c, y, ok, n)
    <2>0. Rounds(w, y, s, z, k, j, err, n)
      BY <1>12, <1>13, <1>14 DEF Rounds
    <2>1. \A q \in Seq(EndOps) : Later(env, z, j, o \o q, c, y, ok, n) /\ Later(env, z, j, o, c, y, ok, n)
      BY <1>1, <1>2, <1>9, <2>0, RoundLater
    <2>2. <<>> \in Seq(EndOps)
      OBVIOUS
    <2> QED BY <1>14, <2>1, <2>2
  <1>16. Caller(env, "begun", conn, z, j, p, c, y, ok, n)
    BY <1>10, <1>15, FromLater DEF Linked
  <1>17. Caller(env', call', conn', z, j, p, ctx'["C"], y, m, n)
    BY <1>1, <1>7, <1>9, <1>14, <1>16
  <1> QED BY <1>17 DEF CallerInv, z, j, p, y, m, n

(* What the listener, the network and the accepted end do is nothing to the *)
(* caller.                                                                  *)
LEMMA ElsewhereCaller ==
  ASSUME Typed, StreamsInv, CallerInv,
         \/ StartListen \/ AcceptPosted \/ StopProxy \/ OtherClient \/ StopListen \/ AcceptFails \/ Answered \/ Reset
         \/ (\E ok \in BOOLEAN : HandleAccept(ok)) \/ (\E e \in Ends : SendPacket(e) \/ Arrival(e))
  PROVE  CallerInv'
  <1>1. ASSUME UNCHANGED <<env, so, ctx, ops, tasks, rd, call, told>>, conn' = conn \/ conn # "up" PROVE CallerInv'
    BY <1>1, CallerSame
  <1>2. CASE StartListen \/ AcceptPosted \/ StopProxy \/ OtherClient
    <2>1. UNCHANGED <<env, so, ctx, ops, tasks, rd, call, told, conn>>
      BY <1>2 DEF StartListen, AcceptPosted, StopProxy, OtherClient
    <2> QED BY <1>1, <2>1
  <1>3. CASE StopListen \/ AcceptFails \/ Answered \/ Reset
    <2>1. UNCHANGED <<env, so, ctx, ops, tasks, rd, call, told>>
      BY <1>3, Zenon DEF StopListen, AcceptFails, Answered, Reset
    <2>2. conn' = conn \/ conn # "up"
      <3>1. CASE Answered
        BY <3>1 DEF Answered
      <3>2. CASE StopListen \/ AcceptFails \/ Reset
        BY <3>2, Zenon DEF StopListen, AcceptFails, Reset
      <3> QED BY <1>3, <3>1, <3>2
    <2> QED BY <1>1, <2>1, <2>2
  <1>4. ASSUME NEW ok \in BOOLEAN, HandleAccept(ok) PROVE CallerInv'
    <2>1. so'["C"] = so["C"] /\ tasks'["C"] = tasks["C"]
      BY <1>4, HandleAcceptTyped
    <2>2. UNCHANGED <<env, ctx, ops, rd, call, told, conn>>
      BY <1>4 DEF HandleAccept
    <2> QED BY <2>1, <2>2, CallerSame
  <1>5. ASSUME NEW e \in Ends, SendPacket(e) \/ Arrival(e) PROVE CallerInv'
    <2>1. UNCHANGED <<env, so, ctx, ops, tasks, rd, call, told, conn>>
      BY <1>5 DEF SendPacket, Arrival
    <2> QED BY <1>1, <2>1
  <1> QED BY <1>2, <1>3, <1>4, <1>5

LEMMA OtherEndCaller ==
  ASSUME Typed, StreamsInv, CallerInv, Reading("S") \/ UserCloses("S") \/ Observing("S")
  PROVE  CallerInv'
  <1>0. "C" \in Ends /\ "S" \in Ends /\ "C" # "S"
    BY DEF Ends
  <1>1. ASSUME OthersSame("S"), UNCHANGED <<env, call, conn>>, told'.ok = told.ok, told'.err = told.err PROVE CallerInv'
    <2>1. so'["C"] = so["C"] /\ ops'["C"] = ops["C"] /\ tasks'["C"] = tasks["C"] /\ ctx'["C"] = ctx["C"] /\ rd'["C"] = rd["C"]
      BY <1>0, <1>1 DEF OthersSame
    <2> QED BY <1>1, <2>1, CallerSame
  <1>2. ASSUME ReadStep("S"), told'.ok = told.ok PROVE CallerInv'
    BY <1>1, <1>2 DEF ReadStep
  <1>3. CASE PeerAdded("S")
    <2>1. ReadStep("S") /\ told'.ok = told.ok
      BY <1>0, <1>3, PeerAddedTyped
    <2> QED BY <1>2, <2>1
  <1>4. ASSUME NEW k \in {"read", "rderr"}, ReadBegins("S", k) PROVE CallerInv'
    <2>1. ReadStep("S") /\ told' = told
      BY <1>0, <1>4, ReadBeginsTyped
    <2> QED BY <1>2, <2>1
  <1>5. CASE ReadRound("S")
    <2>1. ReadStep("S") /\ told' = told
      BY <1>0, <1>5, ReadRoundTyped
    <2> QED BY <1>2, <2>1
  <1>6. CASE AsyncError("S") \/ UserCloses("S")
    <2>1. ReadStep("S") /\ told' = told
      BY <1>0, <1>6, ClosesTyped
    <2> QED BY <1>2, <2>1
  <1>7. CASE ProcessOp("S")
    <2>1. OthersSame("S")
      BY <1>0, <1>7, ProcessOpTyped
    <2>2. UNCHANGED <<env, call, conn, told>>
      BY <1>7 DEF ProcessOp
    <2> QED BY <1>1, <2>1, <2>2
  <1>8. CASE ErrorEvent("S")
    <2>1. OthersSame("S") /\ UNCHANGED <<env, call, conn, told>>
      BY <1>0, <1>8, ErrorEventTyped
    <2> QED BY <1>1, <2>1
  <1>9. CASE ReadEvent("S")
    <2>1. OthersSame("S") /\ UNCHANGED <<env, call, conn, told>>
      BY <1>0, <1>9, ReadEventTyped
    <2> QED BY <1>1, <2>1
  <1> QED BY <1>3, <1>4, <1>5, <1>6, <1>7, <1>8, <1>9 DEF Reading, Observing

-----------------------------------------------------------------------------
LEMMA InitInv == Init => IInv
  <1> SUFFICES ASSUME Init PROVE IInv
    OBVIOUS
  <1>1. <<>> \in Seq(Frames) /\ <<>> \in Seq(Parts) /\ <<>> \in Seq(OpSet)
    OBVIOUS
  <1>2. NewSocket \in Sockets /\ NewSocket.rb = <<>> /\ NewSocket.dh = "IDLE"
    BY <1>1 DEF NewSocket, Sockets, States, Flags, Dhs
  <1>3. NoCtx \in [r : Fns, inf : BOOLEAN, w : Fns]
    BY DEF NoCtx, Fns
  <1>4. Idle \in [who : Whos, always : BOOLEAN, new : Seq(Frames)] /\ Idle.who = "none"
    BY <1>1 DEF Idle, Whos
  <1>5. ls \in Lss /\ ls.posted <= env.posted
    BY EnvsAssumption DEF Init, Lss
  <1> DEFINE n0 == [tr |-> <<>>, kin |-> <<>>, rst |-> "no"]
  <1>6. n0 \in Nets /\ n0.tr = <<>> /\ n0.kin = <<>>
    BY <1>1 DEF Nets
  <1> HIDE DEF n0
  <1>7. net = [e \in Ends |-> n0]
    BY DEF Init, n0
  <1>8. tasks \in [Ends -> [Kinds -> Nat]] /\ \A x \in Kinds : tasks["C"][x] = 0
    BY DEF Init, Ends
  <1>9. Typed
    <2>1. so \in [Ends -> Sockets]
      BY <1>2 DEF Init
    <2>2. ctx \in [Ends -> [r : Fns, inf : BOOLEAN, w : Fns]]
      BY <1>3 DEF Init
    <2>3. ops \in [Ends -> Seq(OpSet)] /\ sent \in [Ends -> Nat]
      BY <1>1 DEF Init
    <2>4. rd \in [Ends -> [who : Whos, always : BOOLEAN, new : Seq(Frames)]]
      BY <1>4 DEF Init
    <2>5. net \in [Ends -> Nets]
      BY <1>6, <1>7
    <2>6. told \in [ok : Nat, err : Nat, acc : Nat] /\ call = "idle" /\ conn = "none" /\ env \in Envs
      BY DEF Init
    <2> QED BY <1>5, <1>8, <2>1, <2>2, <2>3, <2>4, <2>5, <2>6 DEF Typed
  <1>10. StreamsInv
    <2>1. \A X : <<>> \in Seq(X)
      OBVIOUS
    <2>2. Whole(<<>>)
      BY DEF Whole
    <2>3. so = [e \in Ends |-> NewSocket] /\ "C" \in Ends
      BY DEF Init, Ends
    <2>4. Buffered(so, so["S"].dh)
      BY <1>2, <2>1, <2>3 DEF Buffered
    <2>5. Carried(net, so["S"].dh)
      BY <1>6, <1>7, <2>1, <2>2 DEF Carried
    <2>6. so["C"].dh # "DATA_TRANSFER"
      BY <1>2, <2>3
    <2> QED BY <2>4, <2>5, <2>6 DEF StreamsInv
  <1>11. CallerInv
    <2>1. so["C"].dh = "IDLE" /\ ctx["C"] = NoCtx /\ ops["C"] = <<>> /\ rd["C"].who = "none"
      BY <1>2, <1>4 DEF Init, Ends
    <2>2. call = "idle" /\ told.ok = 0 /\ told.err = 0
      BY DEF Init
    <2>3. Untouched(tasks["C"], ops["C"], ctx["C"], rd["C"].who, told.ok, told.err)
      BY <1>8, <2>1, <2>2 DEF Untouched
    <2>4. Linked(conn, so["C"], tasks["C"], told.ok)
      BY <1>8, <2>1, <2>2 DEF Linked, Kinds
    <2> QED BY <2>1, <2>2, <2>3, <2>4 DEF CallerInv, Caller
  <1> QED BY <1>9, <1>10, <1>11 DEF IInv

LEMMA StuttersInv == IInv /\ UNCHANGED vars => IInv'
  BY DEF vars, IInv, Typed, StreamsInv, Buffered, Carried, To, Types, CallerInv

LEMMA StepTyped ==
  ASSUME Typed, StreamsInv, Next
  PROVE  Typed' /\ StreamsInv'
  <1>1. CASE Users
    <2>1. CASE StartListen \/ StopListen \/ StopProxy
      BY <2>1, QuietTyped, ResetsTyped
    <2>2. CASE \E rt \in {"OK", "CONNECTING", "ERR"} : AsyncConnect(rt)
      BY <2>2, AsyncConnectTyped
    <2>3. CASE \E ok \in BOOLEAN : Connect(ok)
      BY <2>3, ConnectTyped
    <2>4. CASE \E e \in Ends : SendPacket(e) \/ UserCloses(e)
      BY <2>4, SendPacketTyped, ClosesTyped
    <2> QED BY <1>1, <2>1, <2>2, <2>3, <2>4 DEF Users
  <1>2. CASE Accepting \/ HandleAccept(FALSE)
    <2>1. CASE AcceptPosted \/ AcceptFails
      BY <2>1, QuietTyped, ResetsTyped
    <2>2. CASE \E ok \in BOOLEAN : HandleAccept(ok)
      BY <2>2, HandleAcceptTyped
    <2> QED BY <1>2, <2>1, <2>2 DEF Accepting
  <1>3. CASE Connecting
    <2>1. CASE ConnectedAtOnce
      BY <2>1, ConnectedAtOnceTyped
    <2>2. CASE AsyncConnected
      BY <2>2, AsyncConnectedTyped
    <2>3. CASE AsyncConnectError
      BY <2>3, AsyncConnectErrorTyped
    <2>4. CASE \E k \in {"handshake", "hserr"} : HandshakeBegins(k)
      BY <2>4, HandshakeBeginsTyped
    <2>5. CASE HandshakeRound
      BY <2>5, HandshakeRoundTyped
    <2>6. CASE BlockingRound
      BY <2>6, BlockingRoundTyped
    <2> QED BY <1>3, <2>1, <2>2, <2>3, <2>4, <2>5, <2>6 DEF Connecting
  <1>4. CASE WriteEvent
    BY <1>4, WriteEventTyped
  <1>5. CASE Network
    <2>1. CASE Answered \/ OtherClient \/ Reset
      BY <2>1, QuietTyped, ResetsTyped
    <2>2. CASE \E e \in Ends : Arrival(e)
      BY <2>2, ArrivalTyped
    <2> QED BY <1>5, <2>1, <2>2 DEF Network
  <1>6. ASSUME NEW e \in Ends, Reading(e) PROVE Typed' /\ StreamsInv'
    <2>1. CASE PeerAdded(e)
      BY <2>1, PeerAddedTyped
    <2>2. CASE \E k \in {"read", "rderr"} : ReadBegins(e, k)
      BY <2>2, ReadBeginsTyped
    <2>3. CASE ReadRound(e)
      BY <2>3, ReadRoundTyped
    <2>4. CASE AsyncError(e)
      BY <2>4, ClosesTyped
    <2> QED BY <1>6, <2>1, <2>2, <2>3, <2>4 DEF Reading
  <1>7. ASSUME NEW e \in Ends, Observing(e) PROVE Typed' /\ StreamsInv'
    <2>1. CASE ProcessOp(e)
      BY <2>1, ProcessOpTyped
    <2>2. CASE ErrorEvent(e)
      BY <2>2, ErrorEventTyped
    <2>3. CASE ReadEvent(e)
      BY <2>3, ReadEventTyped
    <2> QED BY <1>7, <2>1, <2>2, <2>3 DEF Observing
  <1> QED BY <1>1, <1>2, <1>3, <1>4, <1>5, <1>6, <1>7 DEF Next

LEMMA StepCaller ==
  ASSUME Typed, StreamsInv, CallerInv, Next
  PROVE  CallerInv'
  <1>0. \A e \in Ends : e = "C" \/ e = "S"
    BY DEF Ends
  <1>1. CASE Users
    <2>1. CASE StartListen \/ StopListen \/ StopProxy \/ \E e \in Ends : SendPacket(e)
      BY <2>1, ElsewhereCaller
    <2>2. CASE \E rt \in {"OK", "CONNECTING", "ERR"} : AsyncConnect(rt)
      BY <2>2, AsyncConnectCaller
    <2>3. CASE \E ok \in BOOLEAN : Connect(ok)
      BY <2>3, BlockingCaller
    <2>4. CASE \E e \in Ends : UserCloses(e)
      BY <1>0, <2>4, ReadingCaller, OtherEndCaller
    <2> QED BY <1>1, <2>1, <2>2, <2>3, <2>4 DEF Users
  <1>2. CASE Accepting \/ HandleAccept(FALSE)
    BY <1>2, ElsewhereCaller DEF Accepting
  <1>3. CASE Connecting
    BY <1>3, ConnectedAtOnceCaller, AsyncConnectedCaller, AsyncConnectErrorCaller, HandshakeBeginsCaller,
       HandshakeRoundCaller, BlockingCaller DEF Connecting
  <1>4. CASE WriteEvent
    BY <1>4, WriteEventCaller
  <1>5. CASE Network
    BY <1>5, ElsewhereCaller DEF Network
  <1>6. ASSUME NEW e \in Ends, Reading(e) PROVE CallerInv'
    BY <1>0, <1>6, ReadingCaller, OtherEndCaller
  <1>7. ASSUME NEW e \in Ends, Observing(e) PROVE CallerInv'
    <2>1. CASE e = "S"
      BY <1>7, <2>1, OtherEndCaller
    <2>2. CASE e = "C"
      BY <1>7, <2>2, ProcessOpCaller, ErrorEventCaller, ReadEventCaller DEF Observing
    <2> QED BY <1>0, <2>1, <2>2
  <1> QED BY <1>1, <1>2, <1>3, <1>4, <1>5, <1>6, <1>7 DEF Next

(* The invariant says what OutcomeSound says. *)
LEMMA TypeOKNow == Typed => TypeOK
  <1> SUFFICES ASSUME Typed PROVE TypeOK
    OBVIOUS
  <1>1. ls.st \in {"NONE", "LISTEN", "CLOSED"} /\ ls.posted \in 0..env.posted
    <2>1. ls \in Lss /\ ls.posted <= env.posted /\ env.posted \in Nat
      BY EnvsAssumption DEF Typed
    <2> DEFINE m == env.posted
               i == ls.posted
    <2>2. i \in Nat /\ i <= m /\ m \in Nat /\ ls.st \in {"NONE", "LISTEN", "CLOSED"}
      BY <2>1 DEF Lss
    <2> HIDE DEF i, m
    <2>3. i \in 0..m
      BY <2>2
    <2> QED BY <2>2, <2>3 DEF i, m
  <1>2. ASSUME NEW e \in Ends
        PROVE  /\ so[e].st \in {"NONE", "OPENED", "CONNECTING", "CONNECTED", "CLOSED"}
               /\ so[e].rf \cup so[e].wf \subseteq {"WATCH", "SHUT"}
               /\ so[e].dh \in {"IDLE", "HANDSHAKE", "DATA_TRANSFER"}
               /\ so[e].rb \in Seq(Parts) /\ so[e].parse \in {"LEN", "CONTENT"}
               /\ rd[e].who \in {"none", "handshake", "hserr", "read", "rderr"}
               /\ net[e].tr \in Seq(Parts) /\ net[e].kin \in Seq(Parts)
               /\ net[e].rst \in {"no", "pending", "taken"}
               /\ \A k \in Kinds : tasks[e][k] \in Nat
    <2>1. so[e] \in Sockets /\ net[e] \in Nets /\ rd[e] \in [who : Whos, always : BOOLEAN, new : Seq(Frames)]
      BY <1>2 DEF Typed
    <2>2. /\ so[e].st \in {"NONE", "OPENED", "CONNECTING", "CONNECTED", "CLOSED"}
          /\ so[e].rf \cup so[e].wf \subseteq {"WATCH", "SHUT"}
          /\ so[e].dh \in {"IDLE", "HANDSHAKE", "DATA_TRANSFER"}
          /\ so[e].rb \in Seq(Parts) /\ so[e].parse \in {"LEN", "CONTENT"}
      BY <2>1 DEF Sockets, States, Flags, Dhs
    <2>3. /\ rd[e].who \in {"none", "handshake", "hserr", "read", "rderr"}
          /\ net[e].tr \in Seq(Parts) /\ net[e].kin \in Seq(Parts)
          /\ net[e].rst \in {"no", "pending", "taken"}
      BY <2>1 DEF Nets, Whos
    <2>4. \A k \in Kinds : tasks[e][k] \in Nat
      BY <1>2 DEF Typed
    <2> QED BY <2>2, <2>3, <2>4
  <1>3. call \in {"idle", "begun", "blocking", "failed"} /\ conn \in {"none", "syn", "up", "refused"}
    BY DEF Typed
  <1> QED BY <1>1, <1>2, <1>3 DEF TypeOK

LEMMA OutcomeNow == IInv => OutcomeSound
  <1> SUFFICES ASSUME IInv PROVE OutcomeSound
    OBVIOUS
  <1> DEFINE s == so["C"]
             k == tasks["C"]
             o == ops["C"]
             c == ctx["C"]
             w == rd["C"].who
             ok == told.ok
             err == told.err
             a == tasks["C"]["added"]
  <1>1. Typed /\ StreamsInv /\ Caller(env, call, conn, s, k, o, c, w, ok, err)
    BY DEF IInv, CallerInv
  <1>2. k \in [Kinds -> Nat] /\ ok \in Nat /\ err \in Nat /\ a \in Nat /\ a = k["added"]
    BY <1>1, KindsFacts DEF Typed, Ends
  <1>3. Strict(env) => env.poll = "select" \/ env.tlp = "hlen"
    BY DEF Strict
  <1> DEFINE f == IF call = "failed" THEN 1 ELSE 0
             sum == ok + err + a + f
  <1>4. sum = Answers
    BY DEF Answers
  <1>5. Shook(env, s) => HandshakeDone(s)
    BY DEF Shook, HandshakeDone
  <1>6. env.tlp = "dh" /\ s.dh = "DATA_TRANSFER" => so["S"].dh # "IDLE"
    BY <1>1 DEF StreamsInv
  <1> HIDE DEF s, k, o, c, w, ok, err, a
  <1>7. CASE Later(env, s, k, o, c, w, ok, err) /\ call = "begun"
    <2>1. f = 0
      BY <1>7
    <2>2. (env.poll = "select" \/ env.tlp = "hlen") => ok + err + a <= 1
      <3> DEFINE u == k["success"]
      <3>1. u \in Nat /\ (Strict(env) => u + a + ok + err <= 1)
        BY <1>2, <1>7, KindsFacts DEF Later, LaterAnswers
      <3> HIDE DEF u
      <3>2. Strict(env) => ok + err + a <= 1
        BY <1>2, <3>1
      <3> QED BY <3>2 DEF Strict
    <2>3. (env.poll = "select" \/ env.tlp = "hlen") => sum <= 1
      BY <1>2, <2>1, <2>2
    <2>4. ok > 0 => conn = "up" /\ (env.once \/ Shook(env, s))
      BY <1>1, <1>7 DEF Caller, Linked, Later, LaterTasks
    <2>5. err > 0 \/ call = "failed" => s.st = "CLOSED"
      BY <1>7 DEF Later, LaterAnswers
    <2>6. ToldOnce
      BY <1>4, <2>3 DEF ToldOnce
    <2>7. ok > 0 => /\ conn = "up"
                    /\ ~env.once => HandshakeDone(s)
                    /\ (~env.once /\ env.tlp = "dh") => so["S"].dh # "IDLE"
      BY <1>5, <1>6, <2>4 DEF Shook
    <2> QED BY <1>1, <2>5, <2>6, <2>7, TypeOKNow DEF OutcomeSound, SuccessIsReal, FailedIsClosed, s, ok, err
  <1>8. CASE ~(Later(env, s, k, o, c, w, ok, err) /\ call = "begun")
    <2>1. ok = 0 /\ err = 0 /\ a = 0
      <3>1. "added" \in Kinds \ {"connected", "cerr"}
        BY DEF Kinds
      <3> QED BY <1>1, <1>2, <1>8, <3>1 DEF Caller, Untouched, Waits
    <2>2. call = "failed" => s.st = "CLOSED"
      BY <1>1 DEF Caller
    <2>3. sum <= 1
      BY <2>1
    <2>4. ToldOnce
      BY <1>4, <2>3 DEF ToldOnce
    <2> QED BY <1>1, <2>1, <2>2, <2>4, TypeOKNow DEF OutcomeSound, SuccessIsReal, FailedIsClosed, s, ok, err
  <1> QED BY <1>7, <1>8

-----------------------------------------------------------------------------
(* async_connect, connect, the handshake, the accepting node, the observer   *)
(* and the network keep the invariant: the connecting socket is untouched,   *)
(* waits for its connect event, or is past it, with the tasks, watches and   *)
(* answers that go with that.                                                *)
THEOREM CallIsTracked == Spec => []IInv
  <1>1. Init => IInv
    BY InitInv
  <1>2. IInv /\ [Next]_vars => IInv'
    <2> SUFFICES ASSUME IInv, [Next]_vars PROVE IInv'
      OBVIOUS
    <2>1. CASE Next
      <3>1. Typed /\ StreamsInv /\ CallerInv
        BY DEF IInv
      <3> QED BY <2>1, <3>1, StepTyped, StepCaller DEF IInv
    <2>2. CASE UNCHANGED vars
      BY <2>2, StuttersInv
    <2> QED BY <2>1, <2>2
  <1> QED BY <1>1, <1>2, PTL DEF Spec

(* What the caller of connect or async_connect is told is what happened, in  *)
(* every environment, with any number of other clients, frames and tasks:    *)
(* one answer (unless epoll posts several for a handshake), success only for *)
(* a connection that is up and, when the handshake was not skipped, whose    *)
(* keys both ends agreed on, and after a failure a closed socket.            *)
THEOREM OutcomeSoundHolds == Spec => []OutcomeSound
  BY CallIsTracked, OutcomeNow, PTL
============================================================================
