--------------------------- MODULE SocketIOProofs ---------------------------
(***************************************************************************)
(* Proofs that bytes, packets and events of a data socket keep their       *)
(* order, whichever of its threads carry them, that a blocked writer is    *)
(* never forgotten, and that the socket's flags, the queue of operations   *)
(* and the observer agree on what is watched: for buffers, runners, calls  *)
(* and queues of any number.                                               *)
(***************************************************************************)
EXTENDS SocketIO, WellFoundedInduction, TLAPS

-----------------------------------------------------------------------------
(* The types of what the proofs speak of.  A thread's calls are a chain: a  *)
(* shutdown or a close, followed by closes.                                 *)
Flags == {"SHUT", "WATCH"}
Closes == {cs \in Seq(Calls) : \A i \in 1..Len(cs) : cs[i].op = "close"}
Chains == {cs \in Seq(Calls) : \A i \in 2..Len(cs) : cs[i].op = "close"}
Sockets == [st : {"CONNECTED", "CLOSED"}, rf : SUBSET Flags, wf : SUBSET Flags, sb : Seq(Nat),
            wt : BOOLEAN]
Kernels == [kout : Seq(Nat), drained : Nat, kin : Seq(Nat), eof : BOOLEAN,
            rst : {"no", "pending", "taken"}]
Entries == [evs : Seq(Events), check : BOOLEAN, ec : {"OK", "ERR"}]
Holders == [op : {"close", "shutdown"}, flag : SUBSET Dirs, ec : {"OK", "ERR"},
            by : {"thread", "ordered"}, rest : Closes, step : {"flush", "rd", "wr"},
            tries : Nat, sflag : SUBSET {"R"}]

Typed ==
  /\ sk \in Sockets
  /\ net \in Kernels
  /\ tasks \in [TaskKinds -> Nat]
  /\ readers \in Seq(Chains)
  /\ rq \in [q : Seq(Nat), then : Chains]
  /\ standby \in Seq(Nat)
  /\ calls \subseteq Chains /\ <<>> \notin calls
  /\ held = Nobody \/ held \in Holders
  /\ oev \in Seq(Entries)
  /\ heard \subseteq Ends
  /\ got \in Nat
  /\ used \in [out : Nat, in : Nat, calls : Nat]

(* The bytes: what has left, what the kernel holds and what m_sb holds      *)
(* follow on each other.                                                    *)
Bytes ==
  /\ Len(net.kout) <= KCap
  /\ \A i \in 1..Len(net.kout) : net.kout[i] = net.drained + i
  /\ \A i \in 1..Len(sk.sb) : sk.sb[i] = net.drained + Len(net.kout) + i
  /\ used.out = net.drained + Len(net.kout) + Len(sk.sb)

Rising(s) == \A i, j \in 1..Len(s) : i < j => s[i] < s[j]
Ahead(s, t) == \A i \in 1..Len(s) : \A j \in 1..Len(t) : s[i] < t[j]
Within(s, n) == \A i \in 1..Len(s) : s[i] <= n
Beyond(s, n) == \A i \in 1..Len(s) : n < s[i]

(* The packets: the queue that is being told, the standby queue and the     *)
(* kernel's follow on each other.                                           *)
Packets ==
  /\ Rising(rq.q) /\ Rising(standby) /\ Rising(net.kin)
  /\ Ahead(rq.q, standby) /\ Ahead(rq.q, net.kin) /\ Ahead(standby, net.kin)
  /\ Within(rq.q, used.in) /\ Within(standby, used.in) /\ Within(net.kin, used.in)
  /\ got <= used.in
  /\ rq.q = <<>> => rq.then = <<>>

(* A socket that is being closed is closed in the end; until then nothing   *)
(* was overtaken and no writer was forgotten.                               *)
Doomed == Closing \/ sk.st = "CLOSED"
InTime == Doomed \/ (Beyond(rq.q, got) /\ Beyond(standby, got) /\ Beyond(net.kin, got))

(* The events: an end that was told, or waits to be told, has happened, and *)
(* the one that shut a direction down has not told it yet.                  *)
Occurs(ev) == ev \in heard \/ \E k \in 1..Len(oev) : \E i \in 1..Len(oev[k].evs) : oev[k].evs[i] = ev
Holding == held # Nobody
Happened ==
  /\ Occurs("RD_SHUTDOWN") => "SHUT" \in sk.rf
  /\ Occurs("WR_SHUTDOWN") => "SHUT" \in sk.wf
  /\ Occurs("CLOSE") => sk.st = "CLOSED"
  /\ sk.st = "CLOSED" => "SHUT" \in sk.rf /\ "SHUT" \in sk.wf
  /\ Holding => /\ held.step # "wr" => held.sflag = {}
                /\ held.sflag # {} => /\ "SHUT" \in sk.rf /\ ~Occurs("RD_SHUTDOWN")
                                      /\ sk.st # "CLOSED"
                /\ held.op = "close" => sk.st # "CLOSED"
                /\ held.op = "close" /\ held.step = "wr" => "SHUT" \in sk.rf

OrderInv == Typed /\ Bytes /\ Packets /\ InTime /\ BlockedIsWatched /\ Happened /\ EventsInOrder

-----------------------------------------------------------------------------
(* The helpers of the model.                                               *)

HasClose(cs) == \E i \in 1..Len(cs) : cs[i].op = "close"

LEMMA FlagFacts ==
  ASSUME NEW f \in SUBSET Flags
  PROVE  /\ BeginFlag(f) \in SUBSET Flags /\ EndFlag(f) \in SUBSET Flags
         /\ EndFlag(f) \cup {"SHUT"} \in SUBSET Flags
         /\ "SHUT" \in BeginFlag(f) <=> "SHUT" \in f
         /\ "SHUT" \in EndFlag(f) <=> "SHUT" \in f
         /\ "SHUT" \notin f => "WATCH" \in BeginFlag(f)
         /\ "WATCH" \in f => "WATCH" \in BeginFlag(f)
  BY DEF Flags, BeginFlag, EndFlag

LEMMA CallFacts ==
  /\ \A ec \in {"OK", "ERR"} : CloseCall(ec) \in Calls /\ CloseCall(ec).op = "close"
  /\ \A flag \in SUBSET Dirs : ShutdownCall(flag) \in Calls
  BY DEF CloseCall, ShutdownCall, Calls, Dirs

LEMMA OneCall == \A c \in Calls : <<c>> \in Chains /\ <<c>> # <<>> /\ <<>> \in Chains
  <1> SUFFICES ASSUME NEW c \in Calls PROVE <<c>> \in Chains /\ <<c>> # <<>> /\ <<>> \in Chains
    OBVIOUS
  <1>1. <<c>> \in Seq(Calls) /\ Len(<<c>>) = 1 /\ <<c>> # <<>>
    OBVIOUS
  <1>2. <<>> \in Seq(Calls) /\ Len(<<>>) = 0
    OBVIOUS
  <1>3. 2..1 = {} /\ 2..0 = {}
    OBVIOUS
  <1> QED BY <1>1, <1>2, <1>3 DEF Chains

LEMMA EmptyChain == <<>> \in Chains
  BY CallFacts, OneCall

LEMMA ClosingChain ==
  <<CloseCall("ERR")>> \in Chains /\ <<CloseCall("ERR")>> # <<>> /\ HasClose(<<CloseCall("ERR")>>)
  <1> DEFINE c == CloseCall("ERR")
  <1>1. c \in Calls /\ c.op = "close"
    BY CallFacts
  <1> HIDE DEF c
  <1>2. Len(<<c>>) = 1 /\ <<c>>[1] = c
    OBVIOUS
  <1>3. <<c>> \in Chains /\ <<c>> # <<>> /\ HasClose(<<c>>)
    BY <1>1, <1>2, OneCall DEF HasClose
  <1> QED BY <1>3 DEF c

(* What is left of a chain are closes. *)
LEMMA TailOfChain ==
  ASSUME NEW cs \in Chains, cs # <<>>
  PROVE  /\ Head(cs) \in Calls /\ Tail(cs) \in Closes
         /\ HasClose(cs) => Head(cs).op = "close" \/ Tail(cs) # <<>>
  <1>1. cs \in Seq(Calls) /\ \A i \in 2..Len(cs) : cs[i].op = "close"
    BY DEF Chains
  <1>2. Len(cs) \in Nat \ {0} /\ Head(cs) = cs[1] /\ Head(cs) \in Calls
    BY <1>1
  <1>3. /\ Tail(cs) \in Seq(Calls) /\ Len(Tail(cs)) = Len(cs) - 1
        /\ \A i \in 1..Len(Tail(cs)) : Tail(cs)[i] = cs[i + 1]
    BY <1>1
  <1>4. \A i \in 1..Len(Tail(cs)) : i + 1 \in 2..Len(cs)
    BY <1>2, <1>3
  <1>5. \A i \in 1..Len(Tail(cs)) : Tail(cs)[i].op = "close"
    BY <1>1, <1>3, <1>4
  <1>6. Tail(cs) \in Closes
    BY <1>3, <1>5 DEF Closes
  <1>8. HasClose(cs) => Head(cs).op = "close" \/ Tail(cs) # <<>>
    <2> SUFFICES ASSUME NEW i \in 1..Len(cs), cs[i].op = "close", cs[1].op # "close"
                 PROVE  Tail(cs) # <<>>
      BY <1>2 DEF HasClose
    <2>1. i # 1
      OBVIOUS
    <2>2. Len(Tail(cs)) # 0
      BY <2>1, <1>2, <1>3
    <2> QED BY <2>2, <1>3
  <1> QED BY <1>2, <1>6, <1>8

LEMMA ClosesFacts ==
  ASSUME NEW cs \in Closes
  PROVE  cs \in Chains /\ (cs # <<>> => HasClose(cs))
  <1>1. cs \in Seq(Calls) /\ \A i \in 1..Len(cs) : cs[i].op = "close"
    BY DEF Closes
  <1>2. \A i \in 2..Len(cs) : i \in 1..Len(cs)
    BY <1>1
  <1>3. cs # <<>> => 1 \in 1..Len(cs)
    BY <1>1
  <1> QED BY <1>1, <1>2, <1>3 DEF Chains, HasClose

(* What a read goes on with is a chain. *)
LEMMA AfterReadChain ==
  ASSUME NEW ec, NEW rest \in {<<>>, <<CloseCall("ERR")>>}
  PROVE  /\ AfterRead(ec) \o rest \in Chains
         /\ rest # <<>> => AfterRead(ec) \o rest # <<>> /\ HasClose(AfterRead(ec) \o rest)
  <1> DEFINE c == CloseCall("ERR")
             s == ShutdownCall({"R"})
  <1>1. c \in Calls /\ c.op = "close" /\ s \in Calls
    BY CallFacts DEF Dirs
  <1>2. AfterRead(ec) \in {<<>>, <<s>>, <<c>>} /\ rest \in {<<>>, <<c>>}
    BY DEF AfterRead
  <1> HIDE DEF c, s
  <1> DEFINE a == AfterRead(ec)
  <1>3. a \in Seq(Calls) /\ Len(a) \in {0, 1}
    <2>1. <<>> \in Seq(Calls) /\ <<s>> \in Seq(Calls) /\ <<c>> \in Seq(Calls)
      BY <1>1
    <2>2. Len(<<>>) = 0 /\ Len(<<s>>) = 1 /\ Len(<<c>>) = 1
      OBVIOUS
    <2> QED BY <2>1, <2>2, <1>2
  <1>4. /\ rest \in Seq(Calls) /\ Len(rest) \in {0, 1}
        /\ \A i \in 1..Len(rest) : rest[i].op = "close"
        /\ rest # <<>> => Len(rest) = 1
    <2>1. CASE rest = <<>>
      BY <2>1
    <2>2. CASE rest = <<c>>
      <3>1. rest \in Seq(Calls) /\ Len(rest) = 1 /\ rest[1] = c
        BY <2>2, <1>1
      <3> QED BY <3>1, <1>1
    <2> QED BY <2>1, <2>2, <1>2
  <1> HIDE DEF a
  <1>5. /\ a \o rest \in Seq(Calls) /\ Len(a \o rest) = Len(a) + Len(rest)
        /\ \A i \in 1..Len(rest) : (a \o rest)[Len(a) + i] = rest[i]
    BY <1>3, <1>4
  <1>6. \A i \in 2..Len(a \o rest) : (a \o rest)[i].op = "close"
    <2> SUFFICES ASSUME NEW i \in 2..Len(a \o rest) PROVE (a \o rest)[i].op = "close"
      OBVIOUS
    <2>1. Len(a) = 1 /\ i = 2 /\ 1 \in 1..Len(rest)
      <3> DEFINE n == Len(a)
                 m == Len(rest)
      <3>1. n \in {0, 1} /\ m \in {0, 1} /\ i \in 2..(n + m)
        BY <1>3, <1>4, <1>5
      <3> HIDE DEF n, m
      <3>2. n = 1 /\ i = 2 /\ m = 1
        BY <3>1
      <3> QED BY <3>2 DEF n, m
    <2>2. (a \o rest)[Len(a) + 1] = rest[1] /\ Len(a) + 1 = i
      BY <2>1, <1>5
    <2> QED BY <2>1, <2>2, <1>4
  <1>7. ASSUME rest # <<>> PROVE a \o rest # <<>> /\ HasClose(a \o rest)
    <2>1. 1 \in 1..Len(rest) /\ Len(a) + 1 \in 1..Len(a \o rest)
      BY <1>3, <1>4, <1>5, <1>7
    <2>2. (a \o rest)[Len(a) + 1].op = "close"
      BY <2>1, <1>4, <1>5
    <2>3. HasClose(a \o rest)
      BY <2>1, <2>2 DEF HasClose
    <2>4. a \o rest # <<>>
      BY <2>1
    <2> QED BY <2>3, <2>4
  <1> QED BY <1>5, <1>6, <1>7 DEF Chains, a

LEMMA WithCallsFacts ==
  ASSUME Typed, NEW cs \in Chains
  PROVE  /\ WithCalls(cs) \subseteq Chains /\ <<>> \notin WithCalls(cs)
         /\ calls \subseteq WithCalls(cs)
         /\ cs # <<>> => cs \in WithCalls(cs)
  BY DEF Typed, WithCalls

LEMMA WithErrorsFacts ==
  ASSUME NEW C \in SUBSET Chains, <<>> \notin C, NEW e \in {<<>>, <<CloseCall("ERR")>>}
  PROVE  /\ WithErrors(C, e) \subseteq Chains /\ <<>> \notin WithErrors(C, e)
         /\ C \subseteq WithErrors(C, e)
  BY ClosingChain DEF WithErrors

LEMMA ErrorFacts ==
  /\ \A f : BeginError(f) \in {<<>>, <<CloseCall("ERR")>>}
  /\ WatchError \in {<<>>, <<CloseCall("ERR")>>}
  BY DEF BeginError, WatchError

LEMMA HeldFacts ==
  ASSUME Typed
  PROVE  /\ held.op = "none" <=> held = Nobody
         /\ held.op = "none" <=> ~Holding
         /\ held.step \in {"flush", "rd", "wr"} => held \in Holders
         /\ held.op \in {"close", "shutdown"} => held \in Holders
         /\ held \in Holders => Holding /\ held.op \in {"close", "shutdown"}
  BY DEF Typed, Holders, Nobody, Holding

LEMMA NobodyFacts == Nobody.op = "none" /\ Nobody.rest = <<>> /\ Nobody.step = "none"
  BY DEF Nobody

-----------------------------------------------------------------------------
(* A socket that is about to be closed stays so until it is closed.        *)

LEMMA ClosingParts ==
  Closing <=> \/ tasks["re"] + tasks["drain"] > 0
              \/ \E cs \in calls : HasClose(cs)
              \/ held.op = "close"
              \/ held.op = "shutdown" /\ held.rest # <<>>
              \/ \E i \in 1..Len(readers) : HasClose(readers[i])
              \/ HasClose(rq.then)
  BY DEF Closing, HasClose

LEMMA DoomedStays ==
  ASSUME Typed, Typed', Doomed,
         tasks'["re"] >= tasks["re"], tasks'["drain"] >= tasks["drain"],
         calls \subseteq calls',
         held'.op = held.op, held'.rest = held.rest,
         \A i \in 1..Len(readers) : \E j \in 1..Len(readers') : readers'[j] = readers[i],
         HasClose(rq.then) => HasClose(rq'.then) \/ \E cs \in calls' : HasClose(cs),
         sk'.st = sk.st
  PROVE  Doomed'
  <1>1. CASE sk.st = "CLOSED"
    BY <1>1 DEF Doomed
  <1>2. CASE tasks["re"] + tasks["drain"] > 0
    <2>1. /\ tasks["re"] \in Nat /\ tasks["drain"] \in Nat
          /\ tasks'["re"] \in Nat /\ tasks'["drain"] \in Nat
      BY DEF Typed, TaskKinds
    <2>2. tasks'["re"] + tasks'["drain"] > 0
      BY <1>2, <2>1
    <2> QED BY <2>2 DEF Doomed, Closing
  <1>3. CASE \E cs \in calls : HasClose(cs)
    BY <1>3 DEF Doomed, Closing, HasClose
  <1>4. CASE held.op = "close" \/ (held.op = "shutdown" /\ held.rest # <<>>)
    BY <1>4 DEF Doomed, Closing
  <1>5. CASE \E i \in 1..Len(readers) : HasClose(readers[i])
    <2>1. \E j \in 1..Len(readers') : HasClose(readers'[j])
      BY <1>5
    <2> QED BY <2>1 DEF Doomed, Closing, HasClose
  <1>6. CASE HasClose(rq.then)
    <2>1. HasClose(rq'.then) \/ \E cs \in calls' : HasClose(cs)
      BY <1>6
    <2> QED BY <2>1 DEF Doomed, Closing, HasClose
  <1> QED BY <1>1, <1>2, <1>3, <1>4, <1>5, <1>6, ClosingParts DEF Doomed

(* A close in calls dooms the socket. *)
LEMMA CallDooms ==
  ASSUME NEW cs \in calls', HasClose(cs) PROVE Doomed'
  BY DEF HasClose, Doomed, Closing

-----------------------------------------------------------------------------
LEMMA InitOrder == Init => OrderInv
  <1> SUFFICES ASSUME Init PROVE OrderInv
    OBVIOUS
  <1>1. limit.posted \in Nat
    BY SizesAssumption DEF Init
  <1>2. Typed
    <2>1. sk \in Sockets
      BY DEF Init, Sockets, Flags
    <2>2. net \in Kernels
      BY DEF Init, Kernels
    <2>3. tasks \in [TaskKinds -> Nat]
      BY <1>1 DEF Init
    <2>4. readers \in Seq(Chains) /\ rq \in [q : Seq(Nat), then : Chains] /\ standby \in Seq(Nat)
      BY EmptyChain DEF Init
    <2>5. calls \subseteq Chains /\ <<>> \notin calls /\ held = Nobody
      BY DEF Init
    <2>6. oev \in Seq(Entries) /\ heard \subseteq Ends /\ got \in Nat
      BY DEF Init
    <2>7. used \in [out : Nat, in : Nat, calls : Nat]
      <3>1. \A n \in Nat : [out |-> n, in |-> n, calls |-> n] \in [out : Nat, in : Nat, calls : Nat]
        OBVIOUS
      <3> QED BY <3>1 DEF Init
    <2> QED BY <2>1, <2>2, <2>3, <2>4, <2>5, <2>6, <2>7 DEF Typed
  <1>3. /\ net.kout = <<>> /\ sk.sb = <<>> /\ net.kin = <<>> /\ rq.q = <<>> /\ rq.then = <<>>
        /\ standby = <<>> /\ oev = <<>> /\ heard = {} /\ held = Nobody
        /\ got = 0 /\ net.drained = 0 /\ used.in = 0 /\ used.out = 0 /\ sk.st = "CONNECTED"
    BY DEF Init
  <1>4. Len(<<>>) = 0 /\ 1..0 = {} /\ 0 + 0 + 0 = 0
    OBVIOUS
  <1>5. Bytes
    BY <1>3, <1>4, SizesAssumption DEF Bytes
  <1>6. Packets /\ InTime
    BY <1>3, <1>4 DEF Packets, InTime, Rising, Ahead, Within, Beyond
  <1>7. BlockedIsWatched
    BY <1>3 DEF BlockedIsWatched
  <1>8. Happened /\ EventsInOrder
    BY <1>3, <1>4 DEF Happened, EventsInOrder, Occurs, Holding
  <1> QED BY <1>2, <1>5, <1>6, <1>7, <1>8 DEF OrderInv

-----------------------------------------------------------------------------
(* What is left alone keeps its part of the invariant.                     *)

LEMMA BytesFrame ==
  ASSUME Bytes, net'.kout = net.kout, net'.drained = net.drained, sk'.sb = sk.sb,
         used'.out = used.out
  PROVE  Bytes'
  BY DEF Bytes

LEMMA PacketsFrame ==
  ASSUME Packets, net'.kin = net.kin, used'.in = used.in, UNCHANGED <<rq, standby, got>>
  PROVE  Packets'
  BY DEF Packets, Rising, Ahead, Within

LEMMA InTimeFrame ==
  ASSUME InTime, Doomed => Doomed', net'.kin = net.kin, UNCHANGED <<rq, standby, got>>
  PROVE  InTime'
  BY DEF InTime, Beyond

LEMMA BlockedFrame ==
  ASSUME BlockedIsWatched, Doomed => Doomed', Happened', sk'.sb = sk.sb, sk'.wt = sk.wt,
         "SHUT" \in sk.wf => "SHUT" \in sk'.wf,
         "WATCH" \in sk.wf => "WATCH" \in sk'.wf \/ "SHUT" \in sk'.wf
  PROVE  BlockedIsWatched'
  BY DEF BlockedIsWatched, Doomed, Happened

LEMMA HappenedFrame ==
  ASSUME Happened, UNCHANGED <<held, oev, heard>>, sk'.st = sk.st,
         "SHUT" \in sk.rf => "SHUT" \in sk'.rf, "SHUT" \in sk.wf => "SHUT" \in sk'.wf
  PROVE  Happened'
  BY DEF Happened, Occurs, Holding

LEMMA EventsFrame ==
  ASSUME EventsInOrder, UNCHANGED <<oev, heard>> PROVE EventsInOrder'
  BY DEF EventsInOrder, Forbidden

-----------------------------------------------------------------------------
(* Bytes that the kernel takes.                                            *)

LEMMA ConcatIndex ==
  ASSUME NEW S, NEW s \in Seq(S), NEW t \in Seq(S)
  PROVE  /\ s \o t \in Seq(S) /\ Len(s \o t) = Len(s) + Len(t)
         /\ \A i \in 1..Len(s) : (s \o t)[i] = s[i]
         /\ \A i \in 1..Len(t) : (s \o t)[Len(s) + i] = t[i]
  OBVIOUS

LEMMA TakenFacts ==
  ASSUME Typed, Bytes, NEW bs \in Seq(Nat)
  PROVE  /\ Taken(bs) \in Nat /\ Taken(bs) <= Len(bs)
         /\ Len(net.kout) + Taken(bs) <= KCap
         /\ SendEc(bs) = "OK" => Taken(bs) = Len(bs)
         /\ SendEc(bs) \in {"OK", "BLOCK", "ERR"}
  <1> DEFINE n == Len(bs)
             k == Len(net.kout)
  <1>1. n \in Nat /\ k \in Nat /\ k <= KCap /\ KCap \in Nat
    <2>1. net.kout \in Seq(Nat)
      BY DEF Typed, Kernels
    <2> QED BY <2>1, SizesAssumption DEF Bytes
  <1>2. Taken(bs) = IF net.rst # "no" THEN 0 ELSE IF n < KCap - k THEN n ELSE KCap - k
    BY DEF Taken, Room
  <1> HIDE DEF n, k
  <1>3. Taken(bs) \in Nat /\ Taken(bs) <= n /\ k + Taken(bs) <= KCap
    BY <1>1, <1>2
  <1>4. SendEc(bs) = IF net.rst # "no" THEN "ERR" ELSE IF Taken(bs) < n THEN "BLOCK" ELSE "OK"
    BY DEF SendEc, n
  <1>5. SendEc(bs) = "OK" => Taken(bs) = n
    BY <1>1, <1>3, <1>4
  <1>6. SendEc(bs) \in {"OK", "BLOCK", "ERR"}
    BY <1>4
  <1> QED BY <1>3, <1>5, <1>6 DEF n, k

(* The bytes bs follow on those the kernel holds: so do what it takes and   *)
(* what remains.                                                            *)
LEMMA SentBytes ==
  ASSUME Typed, Bytes, NEW bs \in Seq(Nat),
         \A i \in 1..Len(bs) : bs[i] = net.drained + Len(net.kout) + i
  PROVE  /\ NetSent(bs) \in Kernels
         /\ NetSent(bs).drained = net.drained /\ NetSent(bs).kin = net.kin
         /\ Unsent(bs) \in Seq(Nat)
         /\ Len(NetSent(bs).kout) <= KCap
         /\ \A i \in 1..Len(NetSent(bs).kout) : NetSent(bs).kout[i] = net.drained + i
         /\ \A i \in 1..Len(Unsent(bs)) : Unsent(bs)[i] = net.drained + Len(NetSent(bs).kout) + i
         /\ Len(NetSent(bs).kout) + Len(Unsent(bs)) = Len(net.kout) + Len(bs)
         /\ Taken(bs) = Len(bs) => Unsent(bs) = <<>>
         /\ Taken(bs) = 0 => Unsent(bs) = bs
  <1> DEFINE t == Taken(bs)
             out == SubSeq(bs, 1, t)
             left == SubSeq(bs, t + 1, Len(bs))
             n == Len(bs)
             k == Len(net.kout)
             d == net.drained
  <1>1. t \in Nat /\ t <= n /\ k + t <= KCap
    BY TakenFacts
  <1>2. net.kout \in Seq(Nat) /\ d \in Nat /\ n \in Nat /\ k \in Nat /\ net \in Kernels
    BY DEF Typed, Kernels
  <1>3. Unsent(bs) = left
    BY DEF Unsent
  <1>4. /\ NetSent(bs).kout = net.kout \o out
        /\ NetSent(bs).drained = d /\ NetSent(bs).kin = net.kin
    BY <1>2 DEF NetSent, Kernels
  <1>a. \A i \in 1..k : net.kout[i] = d + i
    BY DEF Bytes
  <1> HIDE DEF t
  <1>5. /\ out \in Seq(Nat) /\ Len(out) = t
        /\ \A i \in 1..t : i \in 1..n /\ out[i] = bs[i]
    BY <1>1
  <1>6. /\ left \in Seq(Nat) /\ Len(left) = n - t
        /\ \A i \in 1..Len(left) : t + i \in 1..n /\ left[i] = bs[t + i]
    BY <1>1
  <1>7. net.kout \o out \in Seq(Nat) /\ Len(net.kout \o out) = k + t
    BY <1>2, <1>5
  <1>8. NetSent(bs) \in Kernels
    <2>1. NetSent(bs) = [net EXCEPT !.kout = @ \o out, !.rst = IF @ = "pending" THEN "taken" ELSE @]
      BY DEF NetSent, t
    <2> QED BY <2>1, <1>2, <1>7 DEF Kernels
  <1>9. ASSUME NEW i \in 1..(k + t) PROVE (net.kout \o out)[i] = d + i
    <2>1. CASE i \in 1..k
      BY <2>1, <1>2, <1>5, <1>a
    <2>2. CASE i \notin 1..k
      <3>1. i - k \in 1..t /\ i - k \in 1..n
        BY <2>2, <1>1, <1>2
      <3>2. (net.kout \o out)[i] = out[i - k]
        <4>1. (net.kout \o out)[k + (i - k)] = out[i - k]
          <5>1. net.kout \in Seq(Nat) /\ out \in Seq(Nat) /\ i - k \in 1..Len(out)
            BY <3>1, <1>2, <1>5
          <5> HIDE DEF out
          <5> QED BY <5>1, ConcatIndex
        <4>2. k + (i - k) = i
          BY <1>2
        <4> QED BY <4>1, <4>2
      <3>3. out[i - k] = d + k + (i - k)
        BY <3>1, <1>5
      <3> HIDE DEF k, d
      <3>4. d + k + (i - k) = d + i
        BY <1>2
      <3> QED BY <3>2, <3>3, <3>4
    <2> QED BY <2>1, <2>2
  <1>10. ASSUME NEW i \in 1..Len(left) PROVE left[i] = d + (k + t) + i
    <2>1. left[i] = d + k + (t + i)
      BY <1>6
    <2>2. i \in Nat
      BY <1>6
    <2> HIDE DEF k, d, left
    <2>3. d + k + (t + i) = d + (k + t) + i
      BY <1>1, <1>2, <2>2
    <2> QED BY <2>1, <2>3
  <1>11. (k + t) + (n - t) = k + n
    <2> HIDE DEF k, n
    <2> QED BY <1>1, <1>2
  <1>12. t = n => left = <<>>
    BY <1>6
  <1>13. t = 0 => left = bs
    <2> SUFFICES ASSUME t = 0 PROVE SubSeq(bs, 1, Len(bs)) = bs
      OBVIOUS
    <2> QED OBVIOUS
  <1> HIDE DEF out, left
  <1>14. Len(NetSent(bs).kout) = k + t
    BY <1>4, <1>7
  <1>15. /\ \A i \in 1..Len(NetSent(bs).kout) : NetSent(bs).kout[i] = d + i
         /\ Len(NetSent(bs).kout) <= KCap
    BY <1>1, <1>4, <1>9, <1>14
  <1>16. \A i \in 1..Len(Unsent(bs)) : Unsent(bs)[i] = d + Len(NetSent(bs).kout) + i
    BY <1>3, <1>10, <1>14
  <1>17. Len(NetSent(bs).kout) + Len(Unsent(bs)) = k + n
    BY <1>3, <1>6, <1>11, <1>14
  <1>18. (Taken(bs) = Len(bs) => Unsent(bs) = <<>>) /\ (Taken(bs) = 0 => Unsent(bs) = bs)
    BY <1>3, <1>12, <1>13 DEF t
  <1> QED BY <1>3, <1>4, <1>6, <1>8, <1>15, <1>16, <1>17, <1>18

(* m_sb is sent, in part. *)
LEMMA SbFollows ==
  ASSUME Typed, Bytes
  PROVE  sk.sb \in Seq(Nat) /\ \A i \in 1..Len(sk.sb) : sk.sb[i] = net.drained + Len(net.kout) + i
  BY DEF Typed, Bytes, Sockets

LEMMA SumAgain ==
  \A a, b, c, d, e \in Nat : b + c = d + e => a + b + c = a + d + e
  OBVIOUS

LEMMA BufferSent ==
  ASSUME Typed, Bytes, net' = NetSent(sk.sb), sk'.sb = Unsent(sk.sb), used'.out = used.out
  PROVE  Bytes'
  <1> DEFINE bs == sk.sb
  <1>1. /\ bs \in Seq(Nat)
        /\ \A i \in 1..Len(bs) : bs[i] = net.drained + Len(net.kout) + i
    BY SbFollows
  <1> HIDE DEF bs
  <1>2. /\ NetSent(bs) \in Kernels /\ Unsent(bs) \in Seq(Nat)
        /\ NetSent(bs).drained = net.drained
        /\ Len(NetSent(bs).kout) <= KCap
        /\ \A i \in 1..Len(NetSent(bs).kout) : NetSent(bs).kout[i] = net.drained + i
        /\ \A i \in 1..Len(Unsent(bs)) : Unsent(bs)[i] = net.drained + Len(NetSent(bs).kout) + i
        /\ Len(NetSent(bs).kout) + Len(Unsent(bs)) = Len(net.kout) + Len(bs)
    BY <1>1, SentBytes
  <1>3. used.out = net.drained + Len(net.kout) + Len(bs)
    BY DEF Bytes, bs
  <1>4. /\ net.drained \in Nat /\ Len(net.kout) \in Nat /\ Len(bs) \in Nat
        /\ Len(NetSent(bs).kout) \in Nat /\ Len(Unsent(bs)) \in Nat
    BY <1>1, <1>2 DEF Typed, Kernels
  <1>5. used.out = net.drained + Len(NetSent(bs).kout) + Len(Unsent(bs))
    <2> DEFINE a == net.drained
               b == Len(NetSent(bs).kout)
               c == Len(Unsent(bs))
               d == Len(net.kout)
               e == Len(bs)
    <2>1. a \in Nat /\ b \in Nat /\ c \in Nat /\ d \in Nat /\ e \in Nat
      BY <1>4
    <2>2. b + c = d + e /\ used.out = a + d + e
      BY <1>2, <1>3
    <2> HIDE DEF a, b, c, d, e
    <2>3. used.out = a + b + c
      BY <2>1, <2>2, SumAgain
    <2> QED BY <2>3 DEF a, b, c
  <1>6. net' = NetSent(bs) /\ sk'.sb = Unsent(bs)
    BY DEF bs
  <1> QED BY <1>2, <1>5, <1>6 DEF Bytes

-----------------------------------------------------------------------------
(* Events that are queued and told.                                        *)

LEMMA ForbiddenOne ==
  ASSUME NEW S, NEW x \in Forbidden(S) PROVE \E ev \in S : x \in Forbidden({ev})
  BY DEF Forbidden

LEMMA ForbiddenBy ==
  /\ Forbidden({"RD_SHUTDOWN"}) = {"RD_SHUTDOWN"}
  /\ Forbidden({"WR_SHUTDOWN"}) = {"WR_SHUTDOWN", "WR_BLOCK", "WR_UNBLOCK"}
  /\ \A x : x \notin Forbidden({})
  BY DEF Forbidden

(* A task may be queued that tells nothing the ends before it forbid. *)
LEMMA EventsAppended ==
  ASSUME Typed, EventsInOrder, NEW e \in Entries, oev' = Append(oev, e), heard' = heard,
         \A i \in 1..Len(e.evs) : \A ev \in Ends : Occurs(ev) => e.evs[i] \notin Forbidden({ev}),
         \A i, j \in 1..Len(e.evs) : i < j => e.evs[j] \notin Forbidden({e.evs[i]} \cap Ends)
  PROVE  /\ EventsInOrder'
         /\ \A ev : Occurs(ev)' => Occurs(ev) \/ \E i \in 1..Len(e.evs) : e.evs[i] = ev
  <1> DEFINE n == Len(oev)
  <1>1. /\ oev \in Seq(Entries) /\ n \in Nat /\ heard \subseteq Ends
        /\ Len(oev') = n + 1 /\ oev'[n + 1] = e
        /\ \A k \in 1..n : oev'[k] = oev[k]
    BY DEF Typed
  <1>2. \A k \in 1..(n + 1) : k \in 1..n \/ k = n + 1
    BY <1>1
  <1>3. \A ev : Occurs(ev)' => Occurs(ev) \/ \E i \in 1..Len(e.evs) : e.evs[i] = ev
    <2> SUFFICES ASSUME NEW ev, Occurs(ev)', ev \notin heard
                 PROVE  Occurs(ev) \/ \E i \in 1..Len(e.evs) : e.evs[i] = ev
      BY DEF Occurs
    <2>1. PICK k \in 1..(n + 1) : \E i \in 1..Len(oev'[k].evs) : oev'[k].evs[i] = ev
      BY <1>1 DEF Occurs
    <2>2. CASE k \in 1..n
      BY <2>1, <2>2, <1>1 DEF Occurs
    <2>3. CASE k = n + 1
      BY <2>1, <2>3, <1>1
    <2> QED BY <2>2, <2>3, <1>2
  <1>4. ASSUME NEW k \in 1..(n + 1), NEW i \in 1..Len(oev'[k].evs)
        PROVE  oev'[k].evs[i] \notin Forbidden(heard)
    <2>1. CASE k \in 1..n
      BY <2>1, <1>1 DEF EventsInOrder
    <2>2. CASE k = n + 1
      <3> SUFFICES ASSUME e.evs[i] \in Forbidden(heard) PROVE FALSE
        BY <2>2, <1>1
      <3>1. PICK ev \in heard : e.evs[i] \in Forbidden({ev})
        BY ForbiddenOne
      <3>2. Occurs(ev) /\ ev \in Ends /\ i \in 1..Len(e.evs)
        BY <3>1, <2>2, <1>1 DEF Occurs
      <3> QED BY <3>1, <3>2
    <2> QED BY <2>1, <2>2, <1>2
  <1>5. ASSUME NEW k \in 1..(n + 1), NEW i \in 1..Len(oev'[k].evs),
               NEW l \in 1..(n + 1), NEW j \in 1..Len(oev'[l].evs),
               l > k \/ (l = k /\ j > i)
        PROVE  oev'[l].evs[j] \notin Forbidden({oev'[k].evs[i]} \cap Ends)
    <2>1. CASE l \in 1..n
      <3>1. k \in 1..n
        BY <2>1, <1>1, <1>5
      <3> QED BY <3>1, <2>1, <1>1, <1>5 DEF EventsInOrder
    <2>2. CASE l = n + 1 /\ k \in 1..n
      <3> SUFFICES ASSUME e.evs[j] \in Forbidden({oev[k].evs[i]} \cap Ends) PROVE FALSE
        BY <2>2, <1>1
      <3>1. PICK ev \in {oev[k].evs[i]} \cap Ends : e.evs[j] \in Forbidden({ev})
        BY ForbiddenOne
      <3>2. Occurs(ev) /\ ev \in Ends /\ j \in 1..Len(e.evs)
        BY <3>1, <2>2, <1>1 DEF Occurs
      <3> QED BY <3>1, <3>2
    <2>3. CASE l = n + 1 /\ k = n + 1
      <3>1. i \in 1..Len(e.evs) /\ j \in 1..Len(e.evs) /\ i < j
        BY <2>3, <1>1, <1>5
      <3> QED BY <3>1, <2>3, <1>1
    <2> QED BY <2>1, <2>2, <2>3, <1>2
  <1>6. EventsInOrder'
    <2> HIDE DEF n
    <2>1. Len(oev') = n + 1 /\ heard' = heard
      BY <1>1
    <2> QED BY <2>1, <1>4, <1>5, ZenonT(30) DEF EventsInOrder
  <1> QED BY <1>3, <1>6

(* The first task is told: what it tells has been told, and the others may  *)
(* still be told.                                                           *)
LEMMA EventsTold ==
  ASSUME Typed, EventsInOrder, oev # <<>>, oev' = Tail(oev),
         heard' = heard \cup (Range(Head(oev).evs) \cap Ends)
  PROVE  /\ EventsInOrder' /\ oev' \in Seq(Entries) /\ heard' \subseteq Ends
         /\ \A ev : Occurs(ev)' => Occurs(ev)
  <1> DEFINE n == Len(oev)
             t == Head(oev)
  <1>1. /\ oev \in Seq(Entries) /\ n \in Nat \ {0} /\ heard \subseteq Ends
        /\ t = oev[1] /\ 1 \in 1..n /\ t \in Entries
        /\ Len(oev') = n - 1 /\ oev' \in Seq(Entries)
        /\ \A k \in 1..(n - 1) : oev'[k] = oev[k + 1]
    BY DEF Typed
  <1>2. \A k \in 1..(n - 1) : k + 1 \in 1..n /\ k + 1 > 1
    BY <1>1
  <1>3. \A ev \in Range(t.evs) : \E i \in 1..Len(oev[1].evs) : oev[1].evs[i] = ev
    BY <1>1 DEF Range, Entries
  <1>4. ASSUME NEW ev, Occurs(ev)' PROVE Occurs(ev)
    <2>1. CASE ev \in heard'
      BY <2>1, <1>1, <1>3 DEF Occurs
    <2>2. CASE ev \notin heard'
      <3>1. PICK k \in 1..(n - 1) : \E i \in 1..Len(oev'[k].evs) : oev'[k].evs[i] = ev
        BY <1>1, <1>4, <2>2 DEF Occurs
      <3>2. k + 1 \in 1..n /\ \E i \in 1..Len(oev[k + 1].evs) : oev[k + 1].evs[i] = ev
        BY <1>1, <1>2, <3>1
      <3> QED BY <3>2 DEF Occurs
    <2> QED BY <2>1, <2>2
  <1>5. ASSUME NEW k \in 1..(n - 1), NEW i \in 1..Len(oev'[k].evs)
        PROVE  oev'[k].evs[i] \notin Forbidden(heard')
    <2> DEFINE x == oev[k + 1].evs[i]
    <2>1. oev'[k] = oev[k + 1] /\ k + 1 \in 1..n /\ k + 1 > 1 /\ i \in 1..Len(oev[k + 1].evs)
      BY <1>1, <1>2
    <2> SUFFICES ASSUME x \in Forbidden(heard') PROVE FALSE
      BY <2>1
    <2>2. PICK ev \in heard' : x \in Forbidden({ev})
      BY ForbiddenOne
    <2>3. CASE ev \in heard
      <3>1. x \in Forbidden(heard)
        BY <2>2, <2>3 DEF Forbidden
      <3> QED BY <3>1, <2>1 DEF EventsInOrder
    <2>4. CASE ev \notin heard
      <3>1. PICK j \in 1..Len(oev[1].evs) : oev[1].evs[j] = ev
        BY <2>4, <1>3
      <3>2. ev \in Ends /\ {oev[1].evs[j]} \cap Ends = {ev}
        BY <2>4, <3>1
      <3>3. x \notin Forbidden({oev[1].evs[j]} \cap Ends)
        BY <1>1, <2>1, <3>1 DEF EventsInOrder
      <3> QED BY <2>2, <3>2, <3>3
    <2> QED BY <2>3, <2>4
  <1>6. ASSUME NEW k \in 1..(n - 1), NEW i \in 1..Len(oev'[k].evs),
               NEW l \in 1..(n - 1), NEW j \in 1..Len(oev'[l].evs),
               l > k \/ (l = k /\ j > i)
        PROVE  oev'[l].evs[j] \notin Forbidden({oev'[k].evs[i]} \cap Ends)
    <2>1. oev'[k] = oev[k + 1] /\ k + 1 \in 1..n /\ oev'[l] = oev[l + 1] /\ l + 1 \in 1..n
      BY <1>1, <1>2
    <2>2. l + 1 > k + 1 \/ (l + 1 = k + 1 /\ j > i)
      BY <1>6
    <2> QED BY <2>1, <2>2 DEF EventsInOrder
  <1>7. EventsInOrder'
    <2> HIDE DEF n, t
    <2>1. Len(oev') = n - 1
      BY <1>1
    <2> QED BY <2>1, <1>5, <1>6, ZenonT(30) DEF EventsInOrder
  <1> QED BY <1>1, <1>4, <1>7

-----------------------------------------------------------------------------
(* The users, the remote side, the observer and the ordered tasks.         *)

(* What a step may do that only adds calls or tasks. *)
LEMMA OnlyScheduled ==
  ASSUME OrderInv, UNCHANGED <<sk, readers, rq, standby, held, oev, heard, got>>,
         calls \subseteq calls', calls' \subseteq Chains, <<>> \notin calls',
         tasks' \in [TaskKinds -> Nat], \A k \in TaskKinds : tasks'[k] >= tasks[k],
         net' \in Kernels, net'.kout = net.kout, net'.drained = net.drained,
         net'.kin = net.kin \/ net'.kin = <<>>,
         used' \in [out : Nat, in : Nat, calls : Nat], used'.out = used.out, used'.in = used.in
  PROVE  OrderInv' /\ (Doomed => Doomed')
  <1>1. Typed /\ Bytes /\ Packets /\ InTime /\ BlockedIsWatched /\ Happened /\ EventsInOrder
    BY DEF OrderInv
  <1>2. Typed'
    BY <1>1 DEF Typed
  <1>3. Doomed => Doomed'
    <2>1. tasks'["re"] >= tasks["re"] /\ tasks'["drain"] >= tasks["drain"]
      BY DEF TaskKinds
    <2> QED BY <1>1, <1>2, <2>1, DoomedStays
  <1>4. Bytes' /\ EventsInOrder'
    BY <1>1, BytesFrame, EventsFrame
  <1>5. Happened'
    BY <1>1, HappenedFrame
  <1>6. BlockedIsWatched'
    BY <1>1, <1>3, <1>5, BlockedFrame
  <1>7. Packets' /\ InTime'
    <2>1. CASE net'.kin = net.kin
      BY <1>1, <1>3, <2>1, PacketsFrame, InTimeFrame
    <2>2. CASE net'.kin = <<>>
      <3>1. Len(net'.kin) = 0 /\ 1..0 = {}
        BY <2>2
      <3>2. Packets'
        BY <1>1, <3>1 DEF Packets, Rising, Ahead, Within
      <3>3. InTime'
        BY <1>1, <1>3, <3>1 DEF InTime, Beyond
      <3> QED BY <3>2, <3>3
    <2> QED BY <2>1, <2>2
  <1> QED BY <1>2, <1>4, <1>5, <1>6, <1>7, <1>3 DEF OrderInv

LEMMA TypedFacts ==
  ASSUME OrderInv
  PROVE  /\ Typed /\ net \in Kernels /\ used \in [out : Nat, in : Nat, calls : Nat]
         /\ calls \subseteq Chains /\ <<>> \notin calls
         /\ tasks \in [TaskKinds -> Nat]
         /\ \A k \in TaskKinds : tasks[k] \in Nat /\ tasks[k] >= tasks[k]
  BY DEF OrderInv, Typed

LEMMA UserCallKeeps ==
  ASSUME OrderInv, NEW c \in Calls, UserCall(c) PROVE OrderInv' /\ (Doomed => Doomed')
  <1> USE DEF UserCall
  <1>1. calls \subseteq calls' /\ calls' \subseteq Chains /\ <<>> \notin calls'
    BY TypedFacts, OneCall
  <1>2. used' \in [out : Nat, in : Nat, calls : Nat] /\ used'.out = used.out /\ used'.in = used.in
    BY TypedFacts
  <1> QED BY <1>1, <1>2, TypedFacts, OnlyScheduled

LEMMA SendFailsKeeps ==
  ASSUME OrderInv, SendFails PROVE OrderInv' /\ (Doomed => Doomed')
  <1> USE DEF SendFails
  <1>1. Taken(<<>>) = 0
    BY DEF Taken
  <1>2. SubSeq(<<>>, 1, 0) = <<>>
    OBVIOUS
  <1>3. net.kout \in Seq(Nat) /\ net.kout \o <<>> = net.kout
    <2>1. \A s \in Seq(Nat) : s \o <<>> = s
      OBVIOUS
    <2>2. net \in Kernels
      BY TypedFacts
    <2>3. net.kout \in Seq(Nat)
      BY <2>2 DEF Kernels
    <2> QED BY <2>1, <2>3
  <1>4. net' = [net EXCEPT !.kout = net.kout, !.rst = "taken"]
    BY <1>1, <1>2, <1>3 DEF NetSent
  <1>5. net' \in Kernels /\ net'.kout = net.kout /\ net'.drained = net.drained /\ net'.kin = net.kin
    BY <1>4, TypedFacts DEF Kernels
  <1> QED BY <1>5, TypedFacts, OnlyScheduled

LEMMA RemoteEndsKeeps ==
  ASSUME OrderInv, RemoteEnds PROVE OrderInv' /\ (Doomed => Doomed')
  <1> USE DEF RemoteEnds
  <1>1. /\ net' \in Kernels /\ net'.kout = net.kout /\ net'.drained = net.drained
        /\ net'.kin = net.kin \/ net'.kin = <<>>
    <2>1. net \in Kernels
      BY TypedFacts
    <2>2. CASE net' = [net EXCEPT !.eof = TRUE]
      BY <2>1, <2>2 DEF Kernels
    <2>3. CASE net' = [net EXCEPT !.rst = "pending", !.kin = <<>>]
      <3>1. <<>> \in Seq(Nat)
        OBVIOUS
      <3> QED BY <2>1, <2>3, <3>1 DEF Kernels
    <2> QED BY <2>2, <2>3
  <1> QED BY <1>1, TypedFacts, OnlyScheduled

LEMMA UpdateKeeps ==
  ASSUME OrderInv, Update PROVE OrderInv' /\ (Doomed => Doomed')
  <1>1. PICK S : tasks' = [k \in TaskKinds |-> tasks[k] + (IF \E d \in S : k = TaskOf(d) THEN 1 ELSE 0)]
    BY DEF Update
  <1>2. tasks' \in [TaskKinds -> Nat] /\ \A k \in TaskKinds : tasks'[k] >= tasks[k]
    <2>1. \A k \in TaskKinds : (IF \E d \in S : k = TaskOf(d) THEN 1 ELSE 0) \in {0, 1}
      OBVIOUS
    <2>2. \A m \in Nat : \A b \in {0, 1} : m + b \in Nat /\ m + b >= m
      OBVIOUS
    <2> QED BY <1>1, <2>1, <2>2, TypedFacts
  <1>3. calls' = WithErrors(calls, WatchError) /\ net' = net
    BY DEF Update
  <1>4. calls \subseteq calls' /\ calls' \subseteq Chains /\ <<>> \notin calls'
    BY <1>3, TypedFacts, ErrorFacts, WithErrorsFacts
  <1>5. UNCHANGED <<sk, readers, rq, standby, held, oev, heard, got, used>>
    BY DEF Update, Ticked
  <1> QED BY <1>2, <1>3, <1>4, <1>5, TypedFacts, OnlyScheduled

LEMMA UpdateErrorKeeps ==
  ASSUME OrderInv, UpdateError PROVE OrderInv' /\ (Doomed => Doomed')
  <1>1. net' = [net EXCEPT !.rst = "taken"]
    BY DEF UpdateError
  <1>2. net' \in Kernels /\ net'.kout = net.kout /\ net'.drained = net.drained /\ net'.kin = net.kin
    BY <1>1, TypedFacts DEF Kernels
  <1>3. UNCHANGED <<sk, readers, rq, standby, held, oev, heard, got, used>>
    BY DEF UpdateError, Ticked
  <1>4. CASE tasks' = Scheduled(tasks, "re", 1) /\ calls' = calls
    <2>1. tasks' \in [TaskKinds -> Nat] /\ \A k \in TaskKinds : tasks'[k] >= tasks[k]
      BY <1>4, TypedFacts DEF Scheduled, TaskKinds
    <2> QED BY <1>2, <1>3, <1>4, <2>1, TypedFacts, OnlyScheduled
  <1>5. CASE tasks' = tasks /\ calls' = WithErrors(calls, <<CloseCall("ERR")>>)
    <2>1. calls \subseteq calls' /\ calls' \subseteq Chains /\ <<>> \notin calls'
      BY <1>5, TypedFacts, WithErrorsFacts
    <2> QED BY <1>2, <1>3, <1>5, <2>1, TypedFacts, OnlyScheduled
  <1> QED BY <1>4, <1>5 DEF UpdateError

LEMMA RemoteDrainsKeeps ==
  ASSUME OrderInv, RemoteDrains PROVE OrderInv' /\ (Doomed => Doomed')
  <1> USE DEF RemoteDrains
  <1>1. Typed /\ Bytes /\ Packets /\ InTime /\ BlockedIsWatched /\ Happened /\ EventsInOrder
    BY DEF OrderInv
  <1> DEFINE d == net.drained
             k == Len(net.kout)
  <1>2. /\ net.kout \in Seq(Nat) /\ d \in Nat /\ k \in Nat \ {0} /\ net \in Kernels
        /\ Head(net.kout) = net.kout[1] /\ 1 \in 1..k
    BY <1>1 DEF Typed, Kernels
  <1>3. /\ net'.kout = Tail(net.kout) /\ net'.drained = d + 1 /\ net'.kin = net.kin
        /\ net' \in Kernels
    <2>1. net.kout[1] = d + 1
      BY <1>1, <1>2 DEF Bytes
    <2>2. net' = [net EXCEPT !.kout = Tail(net.kout), !.drained = d + 1]
      BY <1>2, <2>1
    <2>3. Tail(net.kout) \in Seq(Nat) /\ d + 1 \in Nat
      BY <1>2
    <2> HIDE DEF d
    <2> QED BY <1>2, <2>2, <2>3 DEF Kernels
  <1>4. /\ Len(net'.kout) = k - 1
        /\ \A i \in 1..(k - 1) : i + 1 \in 1..k /\ net'.kout[i] = net.kout[i + 1]
    BY <1>2, <1>3
  <1>5. Bytes'
    <2>1. \A i \in 1..k : net.kout[i] = d + i
      BY <1>1 DEF Bytes
    <2>2. k <= KCap /\ used.out = d + k + Len(sk.sb) /\ Len(sk.sb) \in Nat /\ KCap \in Nat
      BY <1>1, SizesAssumption DEF Bytes, Typed, Sockets
    <2>3. \A i \in 1..Len(sk.sb) : sk.sb[i] = d + k + i
      BY <1>1 DEF Bytes
    <2> DEFINE m == Len(sk.sb)
    <2> HIDE DEF d, k, m
    <2>4. \A i \in 1..(k - 1) : net'.kout[i] = (d + 1) + i
      <3>1. \A i \in 1..(k - 1) : d + (i + 1) = (d + 1) + i
        BY <1>2
      <3> QED BY <1>4, <2>1, <3>1
    <2>5. k - 1 <= KCap /\ used.out = (d + 1) + (k - 1) + m
      BY <1>2, <2>2 DEF m
    <2>6. \A i \in 1..m : sk.sb[i] = (d + 1) + (k - 1) + i
      <3>1. \A i \in 1..m : d + k + i = (d + 1) + (k - 1) + i
        BY <1>2, <2>2 DEF m
      <3> QED BY <2>3, <3>1 DEF m
    <2> QED BY <1>3, <1>4, <2>4, <2>5, <2>6 DEF Bytes, m
  <1>6. Typed'
    BY <1>1, <1>3 DEF Typed
  <1>7. Doomed => Doomed'
    BY DEF Doomed, Closing
  <1>8. Packets' /\ InTime' /\ EventsInOrder' /\ Happened'
    BY <1>1, <1>3, <1>7, PacketsFrame, InTimeFrame, EventsFrame, HappenedFrame
  <1>9. BlockedIsWatched'
    BY <1>1, <1>7, <1>8, BlockedFrame
  <1> QED BY <1>5, <1>6, <1>8, <1>9, <1>7 DEF OrderInv

(* A packet that arrives is behind all others. *)
LEMMA RemoteSendsKeeps ==
  ASSUME OrderInv, RemoteSends PROVE OrderInv' /\ (Doomed => Doomed')
  <1> USE DEF RemoteSends
  <1>1. Typed /\ Bytes /\ Packets /\ InTime /\ BlockedIsWatched /\ Happened /\ EventsInOrder
    BY DEF OrderInv
  <1> DEFINE n == used.in
             s == net.kin
             m == Len(s)
  <1>2. /\ s \in Seq(Nat) /\ m \in Nat /\ n \in Nat /\ net \in Kernels
        /\ rq.q \in Seq(Nat) /\ standby \in Seq(Nat) /\ got \in Nat
    BY <1>1 DEF Typed, Kernels
  <1>3. net'.kin = Append(s, n + 1) /\ net'.kout = net.kout /\ net'.drained = net.drained
    BY <1>2 DEF Kernels
  <1>4. used' \in [out : Nat, in : Nat, calls : Nat] /\ used'.in = n + 1 /\ used'.out = used.out
    BY <1>1 DEF Typed
  <1>5. Append(s, n + 1) \in Seq(Nat)
    BY <1>2
  <1>6. Typed'
    <2>1. net' \in Kernels
      BY <1>2, <1>5 DEF Kernels
    <2> QED BY <1>1, <1>4, <2>1 DEF Typed
  <1>7. Doomed => Doomed'
    BY DEF Doomed, Closing
  <1>8. /\ Len(net'.kin) = m + 1 /\ net'.kin[m + 1] = n + 1
        /\ \A i \in 1..m : net'.kin[i] = s[i]
        /\ \A i \in 1..(m + 1) : i \in 1..m \/ i = m + 1
    BY <1>2, <1>3
  <1>9. Packets'
    <2>1. /\ Rising(rq.q) /\ Rising(standby) /\ Rising(s)
          /\ Ahead(rq.q, standby) /\ Ahead(rq.q, s) /\ Ahead(standby, s)
          /\ Within(rq.q, n) /\ Within(standby, n) /\ Within(s, n)
          /\ got <= n
          /\ rq.q = <<>> => rq.then = <<>>
      BY <1>1 DEF Packets
    <2>2. \A x \in Nat : x <= n => x < n + 1 /\ x <= n + 1
      BY <1>2
    <2> HIDE DEF n
    <2>a. /\ \A i \in 1..Len(rq.q) : rq.q[i] \in Nat
          /\ \A i \in 1..Len(standby) : standby[i] \in Nat
          /\ \A i \in 1..m : s[i] \in Nat
      BY <1>2, SMTT(30)
    <2>3. Within(rq.q, n + 1) /\ Within(standby, n + 1) /\ got <= n + 1
      BY <1>2, <2>1, <2>2, <2>a DEF Within
    <2>4. Within(net'.kin, n + 1)
      <3> SUFFICES ASSUME NEW i \in 1..(m + 1) PROVE net'.kin[i] <= n + 1
        BY <1>8 DEF Within
      <3>1. CASE i \in 1..m
        BY <3>1, <1>8, <2>1, <2>2, <2>a DEF Within
      <3>2. CASE i = m + 1
        BY <3>2, <1>8, <1>2
      <3> QED BY <3>1, <3>2, <1>8
    <2>5. Rising(net'.kin)
      <3> SUFFICES ASSUME NEW i \in 1..(m + 1), NEW j \in 1..(m + 1), i < j
                   PROVE  net'.kin[i] < net'.kin[j]
        BY <1>8 DEF Rising
      <3>1. i \in 1..m
        BY <1>2
      <3>2. CASE j \in 1..m
        BY <3>1, <3>2, <1>8, <2>1 DEF Rising
      <3>3. CASE j = m + 1
        BY <3>1, <3>3, <1>8, <2>1, <2>2, <2>a DEF Within
      <3> QED BY <3>2, <3>3, <1>8
    <2>6. Ahead(rq.q, net'.kin)
      <3> SUFFICES ASSUME NEW i \in 1..Len(rq.q), NEW j \in 1..(m + 1) PROVE rq.q[i] < net'.kin[j]
        BY <1>8 DEF Ahead
      <3>1. CASE j \in 1..m
        BY <3>1, <1>8, <2>1 DEF Ahead
      <3>2. CASE j = m + 1
        BY <3>2, <1>8, <2>1, <2>2, <2>a DEF Within
      <3> QED BY <3>1, <3>2, <1>8
    <2>7. Ahead(standby, net'.kin)
      <3> SUFFICES ASSUME NEW i \in 1..Len(standby), NEW j \in 1..(m + 1)
                   PROVE  standby[i] < net'.kin[j]
        BY <1>8 DEF Ahead
      <3>1. CASE j \in 1..m
        BY <3>1, <1>8, <2>1 DEF Ahead
      <3>2. CASE j = m + 1
        BY <3>2, <1>8, <2>1, <2>2, <2>a DEF Within
      <3> QED BY <3>1, <3>2, <1>8
    <2>8. UNCHANGED <<rq, standby, got>> /\ used'.in = n + 1
      BY <1>4 DEF n
    <2> QED BY <2>1, <2>3, <2>4, <2>5, <2>6, <2>7, <2>8 DEF Packets, Rising, Ahead, Within
  <1>10. InTime'
    <2>1. CASE Doomed
      BY <2>1, <1>7 DEF InTime
    <2>2. CASE ~Doomed
      <3>1. Beyond(rq.q, got) /\ Beyond(standby, got) /\ Beyond(s, got)
        BY <1>1, <2>2 DEF InTime
      <3>2. got < n + 1
        BY <1>1, <1>2 DEF Packets
      <3>3. \A i \in 1..(m + 1) : got < net'.kin[i]
        BY <1>8, <3>1, <3>2 DEF Beyond
      <3>4. Beyond(net'.kin, got)
        BY <1>8, <3>3 DEF Beyond
      <3> QED BY <3>1, <3>4 DEF InTime, Beyond
    <2> QED BY <2>1, <2>2
  <1>11. Bytes' /\ EventsInOrder' /\ Happened'
    BY <1>1, <1>3, <1>4, BytesFrame, EventsFrame, HappenedFrame
  <1>12. BlockedIsWatched'
    BY <1>1, <1>7, <1>11, BlockedFrame
  <1> QED BY <1>6, <1>9, <1>10, <1>11, <1>12, <1>7 DEF OrderInv

LEMMA TellOrderedKeeps ==
  ASSUME OrderInv, TellOrdered PROVE OrderInv' /\ (Doomed => Doomed')
  <1> USE DEF TellOrdered
  <1>1. Typed /\ Bytes /\ Packets /\ InTime /\ BlockedIsWatched /\ Happened /\ EventsInOrder
    BY DEF OrderInv
  <1>2. /\ EventsInOrder' /\ oev' \in Seq(Entries) /\ heard' \subseteq Ends
        /\ \A ev : Occurs(ev)' => Occurs(ev)
    BY <1>1, EventsTold
  <1>3. calls \subseteq calls' /\ calls' \subseteq Chains /\ <<>> \notin calls'
    <2>1. Head(oev).ec \in {"OK", "ERR"}
      <3>1. Head(oev) \in Entries
        BY <1>1 DEF Typed
      <3> QED BY <3>1 DEF Entries
    <2> DEFINE c == [CloseCall(Head(oev).ec) EXCEPT !.by = "ordered"]
    <2>2. c \in Calls
      BY <2>1 DEF CloseCall, Calls, Dirs
    <2>3. calls' = calls \/ calls' = calls \cup {<<c>>}
      OBVIOUS
    <2> HIDE DEF c
    <2> QED BY <1>1, <2>2, <2>3, OneCall DEF Typed
  <1>4. Typed'
    BY <1>1, <1>2, <1>3 DEF Typed
  <1>5. Doomed => Doomed'
    BY <1>3 DEF Doomed, Closing
  <1>6. Happened'
    BY <1>1, <1>2 DEF Happened, Holding
  <1>7. Bytes' /\ Packets' /\ InTime'
    BY <1>1, <1>5, BytesFrame, PacketsFrame, InTimeFrame
  <1>8. BlockedIsWatched'
    BY <1>1, <1>5, <1>6, BlockedFrame
  <1> QED BY <1>2, <1>4, <1>6, <1>7, <1>8, <1>5 DEF OrderInv

-----------------------------------------------------------------------------
(* close and shutdown.                                                     *)

LEMMA AcquireKeeps ==
  ASSUME OrderInv, NEW cs \in calls, Acquire(cs) PROVE OrderInv' /\ (Doomed => Doomed')
  <1> USE DEF Acquire
  <1>1. Typed /\ Bytes /\ Packets /\ InTime /\ BlockedIsWatched /\ Happened /\ EventsInOrder
    BY DEF OrderInv
  <1>2. /\ Head(cs) \in Calls /\ Tail(cs) \in Closes
        /\ HasClose(cs) => Head(cs).op = "close" \/ Tail(cs) # <<>>
    BY <1>1, TailOfChain DEF Typed
  <1>3. /\ held'.op = Head(cs).op /\ held'.rest = Tail(cs) /\ held'.step \in {"flush", "rd"}
        /\ held'.sflag = {} /\ held' \in Holders
        /\ held'.op \in {"close", "shutdown"}
    BY <1>2 DEF Holders, Calls
  <1>4. Typed'
    BY <1>1, <1>3 DEF Typed
  <1>5. Doomed => Doomed'
    <2>1. CASE HasClose(cs)
      BY <2>1, <1>2, <1>3 DEF Doomed, Closing
    <2>2. CASE ~HasClose(cs)
      <3>1. \A c \in calls : HasClose(c) => c \in calls'
        BY <2>2
      <3>2. held.op = "none"
        OBVIOUS
      <3> QED BY <3>1, <3>2, ClosingParts DEF Doomed, Closing, HasClose
    <2> QED BY <2>1, <2>2
  <1>6. Happened'
    <2>1. \A ev : Occurs(ev)' <=> Occurs(ev)
      BY DEF Occurs
    <2>2. sk' = sk /\ (held'.op = "close" => sk.st # "CLOSED")
      BY <1>3
    <2> QED BY <1>1, <1>3, <2>1, <2>2 DEF Happened, Holding
  <1>7. Bytes' /\ Packets' /\ InTime' /\ EventsInOrder'
    BY <1>1, <1>5, BytesFrame, PacketsFrame, InTimeFrame, EventsFrame
  <1>8. BlockedIsWatched'
    BY <1>1, <1>5, <1>6, BlockedFrame
  <1> QED BY <1>4, <1>6, <1>7, <1>8, <1>5 DEF OrderInv

LEMMA AlreadyClosedKeeps ==
  ASSUME OrderInv, NEW cs \in calls, AlreadyClosed(cs) PROVE OrderInv' /\ (Doomed => Doomed')
  <1> USE DEF AlreadyClosed
  <1>1. Typed /\ Bytes /\ Packets /\ InTime /\ BlockedIsWatched /\ Happened /\ EventsInOrder
    BY DEF OrderInv
  <1>2. Tail(cs) \in Chains
    BY <1>1, TailOfChain, ClosesFacts DEF Typed
  <1>3. Typed'
    <2>1. calls' \subseteq Chains /\ <<>> \notin calls'
      BY <1>1, <1>2, WithCallsFacts
    <2> QED BY <1>1, <2>1 DEF Typed
  <1>4. Doomed'
    BY DEF Doomed
  <1>5. Happened' /\ Bytes' /\ Packets' /\ InTime' /\ EventsInOrder'
    BY <1>1, <1>4, HappenedFrame, BytesFrame, PacketsFrame, InTimeFrame, EventsFrame
  <1>6. BlockedIsWatched'
    BY <1>1, <1>4, <1>5, BlockedFrame
  <1> QED BY <1>3, <1>5, <1>6, <1>4 DEF OrderInv

LEMMA FlushKeeps ==
  ASSUME OrderInv, Flush PROVE OrderInv' /\ (Doomed => Doomed')
  <1>1. Typed /\ Bytes /\ Packets /\ InTime /\ BlockedIsWatched /\ Happened /\ EventsInOrder
    BY DEF OrderInv
  <1>2. held \in Holders /\ held.step = "flush" /\ Holding
    BY <1>1, HeldFacts DEF Flush
  <1>3. held' = [held EXCEPT !.step = "rd"] \/ held' = [held EXCEPT !.tries = 1]
    BY DEF Flush
  <1>4. /\ held' \in Holders /\ held'.op = held.op /\ held'.rest = held.rest
        /\ held'.step # "wr" /\ held'.sflag = held.sflag
    BY <1>2, <1>3 DEF Holders
  <1>5. UNCHANGED <<tasks, readers, rq, standby, calls, oev, heard, got, used>>
    BY DEF Flush
  <1>6. \/ sk.sb = <<>> /\ UNCHANGED <<net, sk>>
        \/ /\ sk.sb # <<>> /\ net' = NetSent(sk.sb)
           /\ sk' = [sk EXCEPT !.sb = Unsent(sk.sb), !.wt = @ /\ Unsent(sk.sb) # <<>>]
    BY DEF Flush
  <1>7. sk \in Sockets /\ net \in Kernels
    BY <1>1 DEF Typed
  <1>8. /\ sk' \in Sockets /\ net' \in Kernels /\ net'.kin = net.kin /\ Bytes'
        /\ sk'.st = sk.st /\ sk'.rf = sk.rf /\ sk'.wf = sk.wf
        /\ sk'.sb # <<>> => sk.sb # <<>> /\ sk'.wt = sk.wt
    <2>1. CASE sk.sb = <<>> /\ UNCHANGED <<net, sk>>
      BY <2>1, <1>1, <1>5, <1>7, BytesFrame
    <2>2. CASE /\ sk.sb # <<>> /\ net' = NetSent(sk.sb)
               /\ sk' = [sk EXCEPT !.sb = Unsent(sk.sb), !.wt = @ /\ Unsent(sk.sb) # <<>>]
      <3>1. /\ NetSent(sk.sb) \in Kernels /\ NetSent(sk.sb).kin = net.kin
            /\ Unsent(sk.sb) \in Seq(Nat)
        BY <1>1, SbFollows, SentBytes
      <3> DEFINE left == Unsent(sk.sb)
      <3>2. sk' = [sk EXCEPT !.sb = left, !.wt = @ /\ left # <<>>]
        BY <2>2
      <3> HIDE DEF left
      <3>3. left \in Seq(Nat)
        BY <3>1 DEF left
      <3>4. (sk.wt /\ left # <<>>) \in BOOLEAN
        BY <1>7 DEF Sockets
      <3>5. sk' \in Sockets
        BY <3>2, <3>3, <3>4, <1>7 DEF Sockets
      <3>6. /\ sk'.sb = left /\ sk'.st = sk.st /\ sk'.rf = sk.rf /\ sk'.wf = sk.wf
            /\ sk'.wt = (sk.wt /\ left # <<>>)
        BY <3>2, <1>7 DEF Sockets
      <3>7. Bytes'
        BY <2>2, <3>6, <1>1, <1>5, BufferSent DEF left
      <3>8. left # <<>> => sk'.wt = sk.wt
        <4>1. sk.wt \in BOOLEAN
          BY <1>7 DEF Sockets
        <4> QED BY <4>1, <3>6
      <3> QED BY <2>2, <3>1, <3>5, <3>6, <3>7, <3>8
    <2> QED BY <1>6, <2>1, <2>2
  <1>9. Typed'
    BY <1>1, <1>4, <1>5, <1>8 DEF Typed
  <1>10. Doomed => Doomed'
    BY <1>4, <1>5, <1>8 DEF Doomed, Closing
  <1>11. Happened'
    <2>1. \A ev : Occurs(ev)' <=> Occurs(ev)
      BY <1>5 DEF Occurs
    <2> QED BY <1>1, <1>2, <1>4, <1>8, <2>1 DEF Happened, Holding
  <1>12. Packets' /\ InTime' /\ EventsInOrder'
    BY <1>1, <1>5, <1>8, <1>10, PacketsFrame, InTimeFrame, EventsFrame
  <1>13. BlockedIsWatched'
    BY <1>1, <1>8, <1>10, <1>11 DEF BlockedIsWatched, Doomed, Happened
  <1> QED BY <1>8, <1>9, <1>11, <1>12, <1>13, <1>10 DEF OrderInv

(* The direction that is shut down for the first time has told nothing yet. *)
LEMMA ShutReadKeeps ==
  ASSUME OrderInv, ShutRead PROVE OrderInv' /\ (Doomed => Doomed')
  <1> DEFINE first == "R" \in held.flag /\ "SHUT" \notin sk.rf
             f == IF first THEN {"R"} ELSE {}
  <1>1. Typed /\ Bytes /\ Packets /\ InTime /\ BlockedIsWatched /\ Happened /\ EventsInOrder
    BY DEF OrderInv
  <1>2. held \in Holders /\ held.step = "rd" /\ Holding /\ sk \in Sockets
    BY <1>1, HeldFacts DEF ShutRead, Typed
  <1>3. held' = [held EXCEPT !.step = "wr", !.sflag = f]
    BY DEF ShutRead
  <1>4. UNCHANGED <<tasks, readers, rq, standby, calls, oev, heard, got, net, used>>
    BY DEF ShutRead
  <1>5. IF first \/ held.op = "close"
        THEN sk' = [sk EXCEPT !.rf = EndFlag(@) \cup {"SHUT"}]
        ELSE sk' = sk
    BY DEF ShutRead
  <1>6. first => "SHUT" \notin sk.rf
    OBVIOUS
  <1>7. f \in SUBSET {"R"} /\ (f # {} => first)
    OBVIOUS
  <1> HIDE DEF first, f
  <1>8. /\ held' \in Holders /\ held'.op = held.op /\ held'.rest = held.rest
        /\ held'.step = "wr" /\ held'.sflag = f
    BY <1>2, <1>3, <1>7 DEF Holders
  <1>9. /\ sk' \in Sockets /\ sk'.st = sk.st /\ sk'.wf = sk.wf /\ sk'.sb = sk.sb /\ sk'.wt = sk.wt
        /\ "SHUT" \in sk.rf => "SHUT" \in sk'.rf
        /\ first \/ held.op = "close" => "SHUT" \in sk'.rf
    <2>1. CASE first \/ held.op = "close"
      <3>1. sk.rf \in SUBSET Flags
        BY <1>2 DEF Sockets
      <3>2. EndFlag(sk.rf) \cup {"SHUT"} \in SUBSET Flags
        BY <3>1, FlagFacts
      <3>3. sk' = [sk EXCEPT !.rf = EndFlag(sk.rf) \cup {"SHUT"}]
        BY <2>1, <1>5
      <3> QED BY <3>2, <3>3, <1>2 DEF Sockets
    <2>2. CASE ~(first \/ held.op = "close")
      BY <2>2, <1>2, <1>5
    <2> QED BY <2>1, <2>2
  <1>10. Typed'
    BY <1>1, <1>4, <1>8, <1>9 DEF Typed
  <1>11. Doomed => Doomed'
    BY <1>4, <1>8, <1>9 DEF Doomed, Closing
  <1>12. Happened'
    <2>1. \A ev : Occurs(ev)' <=> Occurs(ev)
      BY <1>4 DEF Occurs
    <2>2. first => ~Occurs("RD_SHUTDOWN") /\ sk.st # "CLOSED"
      BY <1>1, <1>6 DEF Happened
    <2>3. /\ Occurs("RD_SHUTDOWN")' => "SHUT" \in sk'.rf
          /\ Occurs("WR_SHUTDOWN")' => "SHUT" \in sk'.wf
          /\ Occurs("CLOSE")' => sk'.st = "CLOSED"
          /\ sk'.st = "CLOSED" => "SHUT" \in sk'.rf /\ "SHUT" \in sk'.wf
      BY <1>1, <1>9, <2>1 DEF Happened
    <2>4. held'.sflag # {} => "SHUT" \in sk'.rf /\ ~Occurs("RD_SHUTDOWN")' /\ sk'.st # "CLOSED"
      BY <1>7, <1>8, <1>9, <2>1, <2>2
    <2>5. held'.op = "close" => sk'.st # "CLOSED" /\ "SHUT" \in sk'.rf
      BY <1>1, <1>2, <1>8, <1>9 DEF Happened
    <2> QED BY <1>8, <2>3, <2>4, <2>5 DEF Happened
  <1>13. Bytes' /\ Packets' /\ InTime' /\ EventsInOrder'
    BY <1>1, <1>4, <1>9, <1>11, BytesFrame, PacketsFrame, InTimeFrame, EventsFrame
  <1>14. BlockedIsWatched'
    BY <1>1, <1>9, <1>11, <1>12, BlockedFrame
  <1> QED BY <1>10, <1>12, <1>13, <1>14, <1>11 DEF OrderInv

(* The events of an end: read first, then write, then the close. *)
LEMMA EndEvents ==
  ASSUME NEW S \in SUBSET Dirs
  PROVE  /\ ShutEvents(S) \in Seq(Ends) /\ CloseEvents(S) \in Seq(Ends)
         /\ \A i \in 1..Len(ShutEvents(S)) :
              \/ ShutEvents(S)[i] = "RD_SHUTDOWN" /\ "R" \in S
              \/ ShutEvents(S)[i] = "WR_SHUTDOWN" /\ "W" \in S
         /\ \A i \in 1..Len(CloseEvents(S)) :
              \/ CloseEvents(S)[i] = "RD_SHUTDOWN" /\ "R" \in S
              \/ CloseEvents(S)[i] = "WR_SHUTDOWN" /\ "W" \in S
              \/ CloseEvents(S)[i] = "CLOSE"
         /\ \A i, j \in 1..Len(ShutEvents(S)) : i < j =>
              ShutEvents(S)[i] = "RD_SHUTDOWN" /\ ShutEvents(S)[j] = "WR_SHUTDOWN"
         /\ \A i, j \in 1..Len(CloseEvents(S)) : i < j =>
              \/ CloseEvents(S)[i] = "RD_SHUTDOWN" /\ CloseEvents(S)[j] = "WR_SHUTDOWN"
              \/ CloseEvents(S)[i] \in {"RD_SHUTDOWN", "WR_SHUTDOWN"} /\ CloseEvents(S)[j] = "CLOSE"
  <1> DEFINE a == IF "R" \in S THEN <<"RD_SHUTDOWN">> ELSE <<>>
             b == IF "W" \in S THEN <<"WR_SHUTDOWN">> ELSE <<>>
             s == ShutEvents(S)
             c == CloseEvents(S)
  <1>1. /\ a \in Seq(Ends) /\ Len(a) = (IF "R" \in S THEN 1 ELSE 0)
        /\ "R" \in S => a[1] = "RD_SHUTDOWN"
    <2>1. <<"RD_SHUTDOWN">> \in Seq(Ends) /\ Len(<<"RD_SHUTDOWN">>) = 1 /\ <<"RD_SHUTDOWN">>[1] = "RD_SHUTDOWN"
      BY DEF Ends
    <2>2. <<>> \in Seq(Ends) /\ Len(<<>>) = 0
      OBVIOUS
    <2> QED BY <2>1, <2>2
  <1>2. /\ b \in Seq(Ends) /\ Len(b) = (IF "W" \in S THEN 1 ELSE 0)
        /\ "W" \in S => b[1] = "WR_SHUTDOWN"
    <2>1. <<"WR_SHUTDOWN">> \in Seq(Ends) /\ Len(<<"WR_SHUTDOWN">>) = 1 /\ <<"WR_SHUTDOWN">>[1] = "WR_SHUTDOWN"
      BY DEF Ends
    <2>2. <<>> \in Seq(Ends) /\ Len(<<>>) = 0
      OBVIOUS
    <2> QED BY <2>1, <2>2
  <1>3. s = a \o b
    BY DEF ShutEvents
  <1> HIDE DEF a, b, s
  <1>4. /\ s \in Seq(Ends)
        /\ Len(s) = (IF "R" \in S THEN 1 ELSE 0) + (IF "W" \in S THEN 1 ELSE 0)
        /\ "R" \in S => s[1] = "RD_SHUTDOWN"
        /\ "R" \in S /\ "W" \in S => s[2] = "WR_SHUTDOWN"
        /\ "R" \notin S /\ "W" \in S => s[1] = "WR_SHUTDOWN"
    BY <1>1, <1>2, <1>3
  <1>5. c = Append(s, "CLOSE")
    BY DEF CloseEvents, s
  <1> HIDE DEF c
  <1>6. /\ c \in Seq(Ends) /\ Len(c) = Len(s) + 1 /\ c[Len(s) + 1] = "CLOSE"
        /\ \A i \in 1..Len(s) : c[i] = s[i]
    BY <1>4, <1>5 DEF Ends
  <1>7. Len(s) \in Nat /\ \A i \in 1..(Len(s) + 1) : i \in 1..Len(s) \/ i = Len(s) + 1
    BY <1>4
  <1>8. \A i \in 1..Len(s) : \/ s[i] = "RD_SHUTDOWN" /\ "R" \in S
                             \/ s[i] = "WR_SHUTDOWN" /\ "W" \in S
    BY <1>4
  <1>9. \A i, j \in 1..Len(s) : i < j => s[i] = "RD_SHUTDOWN" /\ s[j] = "WR_SHUTDOWN"
    BY <1>4
  <1>10. \A i \in 1..Len(c) : \/ c[i] = "RD_SHUTDOWN" /\ "R" \in S
                              \/ c[i] = "WR_SHUTDOWN" /\ "W" \in S
                              \/ c[i] = "CLOSE"
    BY <1>6, <1>7, <1>8
  <1>11. ASSUME NEW i \in 1..Len(c), NEW j \in 1..Len(c), i < j
         PROVE  \/ c[i] = "RD_SHUTDOWN" /\ c[j] = "WR_SHUTDOWN"
                \/ c[i] \in {"RD_SHUTDOWN", "WR_SHUTDOWN"} /\ c[j] = "CLOSE"
    <2>1. i \in 1..Len(s)
      BY <1>6, <1>7, <1>11
    <2>2. CASE j \in 1..Len(s)
      BY <2>1, <2>2, <1>6, <1>9, <1>11
    <2>3. CASE j = Len(s) + 1
      BY <2>1, <2>3, <1>6, <1>8
    <2> QED BY <2>2, <2>3, <1>6, <1>7
  <1> QED BY <1>4, <1>6, <1>8, <1>9, <1>10, <1>11 DEF s, c

LEMMA ToldEntry ==
  ASSUME Typed, NEW evs \in Seq(Events), NEW check \in BOOLEAN, NEW ec \in {"OK", "ERR"}
  PROVE  /\ Told(evs, check, ec) \in Entries /\ Told(evs, check, ec).evs = evs
         /\ Append(oev, Told(evs, check, ec)) \in Seq(Entries)
  BY DEF Told, Entries, Typed

LEMMA EndsAreEvents == \A s \in Seq(Ends) : s \in Seq(Events)
  <1>1. Ends \subseteq Events
    BY DEF Ends, Events
  <1> QED BY <1>1

LEMMA EndedFacts ==
  ASSUME OrderInv, held \in Holders, held.step = "wr"
  PROVE  /\ Ended \in SUBSET Dirs
         /\ "R" \in Ended => "SHUT" \in sk.rf /\ ~Occurs("RD_SHUTDOWN")
         /\ "W" \in Ended => "SHUT" \notin sk.wf /\ ~Occurs("WR_SHUTDOWN")
         /\ Ended # {} => ~Occurs("CLOSE") /\ sk.st # "CLOSED"
  <1>1. Happened /\ held \in Holders /\ Holding
    BY HeldFacts DEF OrderInv
  <1>2. /\ held.sflag \in SUBSET {"R"}
        /\ held.sflag # {} => "SHUT" \in sk.rf /\ ~Occurs("RD_SHUTDOWN") /\ sk.st # "CLOSED"
    BY <1>1 DEF Happened, Holders
  <1>3. Ended \in SUBSET Dirs /\ ("R" \in Ended => held.sflag # {})
    BY <1>2 DEF Ended, Dirs
  <1>4. "W" \in Ended => "SHUT" \notin sk.wf
    BY <1>2 DEF Ended
  <1>5. "SHUT" \notin sk.wf => ~Occurs("WR_SHUTDOWN") /\ sk.st # "CLOSED"
    BY <1>1 DEF Happened
  <1>6. sk.st # "CLOSED" => ~Occurs("CLOSE")
    BY <1>1 DEF Happened
  <1>7. Ended # {} => "R" \in Ended \/ "W" \in Ended
    BY <1>3 DEF Dirs
  <1> QED BY <1>2, <1>3, <1>4, <1>5, <1>6, <1>7

(* The holder returns and its thread goes on. *)
LEMMA HolderReturns ==
  ASSUME Typed, held \in Holders, Returns(held.rest, held.by)
  PROVE  /\ held' = Nobody /\ calls \subseteq calls' /\ calls' \subseteq Chains /\ <<>> \notin calls'
         /\ held.rest # <<>> => \E cs \in calls' : HasClose(cs)
  <1>1. held.rest \in Closes
    BY DEF Holders
  <1>2. held.rest \in Chains /\ (held.rest # <<>> => HasClose(held.rest))
    BY <1>1, ClosesFacts
  <1> QED BY <1>2, WithCallsFacts DEF Returns

LEMMA CloseTellsKeeps ==
  ASSUME OrderInv, CloseTells PROVE OrderInv' /\ (Doomed => Doomed')
  <1>1. Typed /\ Bytes /\ Packets /\ InTime /\ BlockedIsWatched /\ Happened /\ EventsInOrder
    BY DEF OrderInv
  <1>2. held \in Holders /\ held.step = "wr" /\ held.op = "close" /\ Holding /\ sk \in Sockets
    BY <1>1, HeldFacts DEF CloseTells, Typed
  <1>3. sk.st # "CLOSED" /\ "SHUT" \in sk.rf /\ ~Occurs("CLOSE")
    BY <1>1, <1>2 DEF Happened
  <1>4. UNCHANGED <<tasks, readers, rq, standby, heard, got, net, used>>
    BY DEF CloseTells
  <1> DEFINE S == Ended
             e == Told(CloseEvents(S), FALSE, held.ec)
  <1>5. /\ S \in SUBSET Dirs
        /\ "R" \in S => ~Occurs("RD_SHUTDOWN")
        /\ "W" \in S => ~Occurs("WR_SHUTDOWN")
    BY <1>2, EndedFacts
  <1>6. oev' = Append(oev, e)
    BY DEF CloseTells
  <1>7. CloseEvents(S) \in Seq(Events)
    BY <1>5, EndEvents, EndsAreEvents
  <1>8. e \in Entries /\ e.evs = CloseEvents(S) /\ oev' \in Seq(Entries)
    <2>1. held.ec \in {"OK", "ERR"}
      BY <1>2 DEF Holders
    <2> QED BY <1>1, <1>6, <1>7, <2>1, ToldEntry
  <1>9. /\ sk' \in Sockets /\ sk'.st = "CLOSED" /\ sk'.rf = sk.rf /\ sk'.sb = sk.sb
        /\ "SHUT" \in sk'.wf
    <2>1. EndFlag(sk.wf) \cup {"SHUT"} \in SUBSET Flags
      BY <1>2, FlagFacts DEF Sockets
    <2>2. sk' = [sk EXCEPT !.st = "CLOSED", !.wf = EndFlag(sk.wf) \cup {"SHUT"}]
      BY DEF CloseTells
    <2> QED BY <2>1, <2>2, <1>2 DEF Sockets
  <1>10. held' = Nobody /\ calls' \subseteq Chains /\ <<>> \notin calls'
    BY <1>1, <1>2, HolderReturns DEF CloseTells
  <1> HIDE DEF S, e
  <1>11. EventsInOrder' /\ \A ev : Occurs(ev)' => Occurs(ev) \/ \E i \in 1..Len(e.evs) : e.evs[i] = ev
    <2>1. ASSUME NEW i \in 1..Len(e.evs), NEW ev \in Ends, Occurs(ev)
          PROVE  e.evs[i] \notin Forbidden({ev})
      <3>1. ev = "RD_SHUTDOWN" \/ ev = "WR_SHUTDOWN"
        BY <1>3, <2>1 DEF Ends
      <3>2. \/ e.evs[i] = "RD_SHUTDOWN" /\ "R" \in S
            \/ e.evs[i] = "WR_SHUTDOWN" /\ "W" \in S
            \/ e.evs[i] = "CLOSE"
        BY <1>5, <1>8, EndEvents
      <3> QED BY <3>1, <3>2, <2>1, <1>5, ForbiddenBy
    <2>2. ASSUME NEW i \in 1..Len(e.evs), NEW j \in 1..Len(e.evs), i < j
          PROVE  e.evs[j] \notin Forbidden({e.evs[i]} \cap Ends)
      <3>1. \/ e.evs[i] = "RD_SHUTDOWN" /\ e.evs[j] = "WR_SHUTDOWN"
            \/ e.evs[i] \in {"RD_SHUTDOWN", "WR_SHUTDOWN"} /\ e.evs[j] = "CLOSE"
        BY <1>5, <1>8, <2>2, EndEvents
      <3>2. {e.evs[i]} \cap Ends = {e.evs[i]}
        BY <3>1 DEF Ends
      <3> QED BY <3>1, <3>2, ForbiddenBy
    <2>3. heard' = heard
      BY <1>4
    <2> QED BY <1>1, <1>6, <1>8, <2>1, <2>2, <2>3, EventsAppended
  <1>12. Typed'
    BY <1>1, <1>4, <1>8, <1>9, <1>10 DEF Typed
  <1>13. Doomed'
    BY <1>9 DEF Doomed
  <1>14. Happened'
    BY <1>3, <1>9, <1>10 DEF Happened, Holding
  <1>15. Bytes' /\ Packets' /\ InTime'
    BY <1>1, <1>4, <1>9, <1>13, BytesFrame, PacketsFrame, InTimeFrame
  <1>16. BlockedIsWatched'
    BY <1>9 DEF BlockedIsWatched
  <1> QED BY <1>11, <1>12, <1>14, <1>15, <1>16, <1>13 DEF OrderInv

LEMMA ShutdownTellsKeeps ==
  ASSUME OrderInv, ShutdownTells PROVE OrderInv' /\ (Doomed => Doomed')
  <1>1. Typed /\ Bytes /\ Packets /\ InTime /\ BlockedIsWatched /\ Happened /\ EventsInOrder
    BY DEF OrderInv
  <1>2. held \in Holders /\ held.step = "wr" /\ held.op = "shutdown" /\ Holding /\ sk \in Sockets
    BY <1>1, HeldFacts DEF ShutdownTells, Typed
  <1>3. UNCHANGED <<tasks, readers, rq, standby, heard, got, net, used>>
    BY DEF ShutdownTells
  <1> DEFINE S == Ended
             e == Told(ShutEvents(S), TRUE, held.ec)
  <1>4. /\ S \in SUBSET Dirs
        /\ "R" \in S => "SHUT" \in sk.rf /\ ~Occurs("RD_SHUTDOWN")
        /\ "W" \in S => "SHUT" \notin sk.wf /\ ~Occurs("WR_SHUTDOWN")
        /\ S # {} => ~Occurs("CLOSE") /\ sk.st # "CLOSED"
    BY <1>2, EndedFacts
  <1>5. oev' = IF S = {} THEN oev ELSE Append(oev, e)
    BY DEF ShutdownTells
  <1>6. ShutEvents(S) \in Seq(Events)
    BY <1>4, EndEvents, EndsAreEvents
  <1>7. e \in Entries /\ e.evs = ShutEvents(S) /\ Append(oev, e) \in Seq(Entries)
    <2>1. held.ec \in {"OK", "ERR"}
      BY <1>2 DEF Holders
    <2> QED BY <1>1, <1>6, <2>1, ToldEntry
  <1>8. IF "W" \in S THEN sk' = [sk EXCEPT !.wf = EndFlag(@) \cup {"SHUT"}] ELSE sk' = sk
    BY DEF ShutdownTells
  <1>9. /\ held' = Nobody /\ calls \subseteq calls' /\ calls' \subseteq Chains /\ <<>> \notin calls'
        /\ held.rest # <<>> => \E cs \in calls' : HasClose(cs)
    BY <1>1, <1>2, HolderReturns DEF ShutdownTells
  <1> HIDE DEF S, e
  <1>10. /\ sk' \in Sockets /\ sk'.st = sk.st /\ sk'.rf = sk.rf /\ sk'.sb = sk.sb /\ sk'.wt = sk.wt
         /\ "SHUT" \in sk.wf => "SHUT" \in sk'.wf
         /\ "WATCH" \in sk.wf => "WATCH" \in sk'.wf \/ "SHUT" \in sk'.wf
         /\ "W" \in S => "SHUT" \in sk'.wf
    <2>1. CASE "W" \in S
      <3>1. EndFlag(sk.wf) \cup {"SHUT"} \in SUBSET Flags
        BY <1>2, FlagFacts DEF Sockets
      <3>2. sk' = [sk EXCEPT !.wf = EndFlag(sk.wf) \cup {"SHUT"}]
        BY <1>8, <2>1
      <3> QED BY <3>1, <3>2, <1>2 DEF Sockets
    <2>2. CASE "W" \notin S
      BY <2>2, <1>2, <1>8
    <2> QED BY <2>1, <2>2
  <1>11. /\ EventsInOrder'
         /\ \A ev : Occurs(ev)' => \/ Occurs(ev)
                                   \/ ev = "RD_SHUTDOWN" /\ "R" \in S
                                   \/ ev = "WR_SHUTDOWN" /\ "W" \in S
    <2>1. CASE S = {}
      <3>1. UNCHANGED <<oev, heard>>
        BY <2>1, <1>3, <1>5
      <3> QED BY <3>1, <1>1, EventsFrame DEF Occurs
    <2>2. CASE S # {}
      <3>1. ASSUME NEW i \in 1..Len(e.evs)
            PROVE  \/ e.evs[i] = "RD_SHUTDOWN" /\ "R" \in S
                   \/ e.evs[i] = "WR_SHUTDOWN" /\ "W" \in S
        BY <1>4, <1>7, EndEvents
      <3>2. ASSUME NEW i \in 1..Len(e.evs), NEW ev \in Ends, Occurs(ev)
            PROVE  e.evs[i] \notin Forbidden({ev})
        <4>1. ev = "RD_SHUTDOWN" \/ ev = "WR_SHUTDOWN"
          BY <1>4, <2>2, <3>2 DEF Ends
        <4> QED BY <4>1, <3>1, <3>2, <1>4, ForbiddenBy
      <3>3. ASSUME NEW i \in 1..Len(e.evs), NEW j \in 1..Len(e.evs), i < j
            PROVE  e.evs[j] \notin Forbidden({e.evs[i]} \cap Ends)
        <4>1. e.evs[i] = "RD_SHUTDOWN" /\ e.evs[j] = "WR_SHUTDOWN"
          BY <1>4, <1>7, <3>3, EndEvents
        <4>2. {e.evs[i]} \cap Ends = {e.evs[i]}
          BY <4>1 DEF Ends
        <4> QED BY <4>1, <4>2, ForbiddenBy
      <3>4. oev' = Append(oev, e) /\ heard' = heard
        BY <1>3, <1>5, <2>2
      <3>5. /\ EventsInOrder'
            /\ \A ev : Occurs(ev)' => Occurs(ev) \/ \E i \in 1..Len(e.evs) : e.evs[i] = ev
        BY <1>1, <1>7, <3>2, <3>3, <3>4, EventsAppended
      <3> QED BY <3>1, <3>5
    <2> QED BY <2>1, <2>2
  <1>12. Typed'
    <2>1. oev' \in Seq(Entries)
      BY <1>1, <1>5, <1>7 DEF Typed
    <2> QED BY <1>1, <1>3, <1>9, <1>10, <2>1 DEF Typed
  <1>13. Doomed => Doomed'
    <2>1. CASE held.rest # <<>>
      BY <2>1, <1>9, CallDooms
    <2>2. CASE held.rest = <<>>
      BY <2>2, <1>2, <1>3, <1>9, <1>10 DEF Doomed, Closing
    <2> QED BY <2>1, <2>2
  <1>14. Happened'
    <2>1. /\ Occurs("RD_SHUTDOWN")' => "SHUT" \in sk'.rf
          /\ Occurs("WR_SHUTDOWN")' => "SHUT" \in sk'.wf
          /\ Occurs("CLOSE")' => sk'.st = "CLOSED"
      BY <1>1, <1>4, <1>10, <1>11 DEF Happened
    <2>2. sk'.st = "CLOSED" => "SHUT" \in sk'.rf /\ "SHUT" \in sk'.wf
      BY <1>1, <1>10 DEF Happened
    <2> QED BY <2>1, <2>2, <1>9 DEF Happened, Holding
  <1>15. Bytes' /\ Packets' /\ InTime'
    BY <1>1, <1>3, <1>10, <1>13, BytesFrame, PacketsFrame, InTimeFrame
  <1>16. BlockedIsWatched'
    BY <1>1, <1>10, <1>13, <1>14, BlockedFrame
  <1> QED BY <1>11, <1>12, <1>14, <1>15, <1>16, <1>13 DEF OrderInv

-----------------------------------------------------------------------------
(* Writing.                                                                *)

LEMMA WriteEvent ==
  ASSUME OrderInv, "SHUT" \notin sk.wf, NEW x \in {"WR_BLOCK", "WR_UNBLOCK"},
         oev' = Append(oev, Told(<<x>>, FALSE, "OK")), heard' = heard
  PROVE  /\ EventsInOrder' /\ oev' \in Seq(Entries)
         /\ \A ev \in Ends : Occurs(ev)' => Occurs(ev)
  <1> DEFINE e == Told(<<x>>, FALSE, "OK")
  <1>1. Typed /\ EventsInOrder /\ Happened
    BY DEF OrderInv
  <1>2. <<x>> \in Seq(Events) /\ Len(<<x>>) = 1 /\ <<x>>[1] = x
    BY DEF Events
  <1>3. e \in Entries /\ e.evs = <<x>> /\ oev' \in Seq(Entries)
    BY <1>1, <1>2, ToldEntry
  <1>4. ~Occurs("WR_SHUTDOWN") /\ ~Occurs("CLOSE")
    BY <1>1 DEF Happened
  <1>5. oev' = Append(oev, e)
    OBVIOUS
  <1> HIDE DEF e
  <1>6. ASSUME NEW i \in 1..Len(e.evs), NEW ev \in Ends, Occurs(ev)
        PROVE  e.evs[i] \notin Forbidden({ev})
    <2>1. ev = "RD_SHUTDOWN"
      BY <1>4, <1>6 DEF Ends
    <2>2. e.evs[i] = x
      BY <1>2, <1>3
    <2> QED BY <2>1, <2>2, ForbiddenBy
  <1>7. \A i, j \in 1..Len(e.evs) : i < j => FALSE
    BY <1>2, <1>3
  <1>8. EventsInOrder' /\ \A ev : Occurs(ev)' => Occurs(ev) \/ \E i \in 1..Len(e.evs) : e.evs[i] = ev
    BY <1>1, <1>3, <1>5, <1>6, <1>7, EventsAppended
  <1>9. x \notin Ends
    BY DEF Ends
  <1>10. \A i \in 1..Len(e.evs) : e.evs[i] = x
    BY <1>2, <1>3
  <1>11. \A ev \in Ends : Occurs(ev)' => Occurs(ev)
    <2> SUFFICES ASSUME NEW ev \in Ends, Occurs(ev)' PROVE Occurs(ev)
      OBVIOUS
    <2>1. Occurs(ev) \/ \E i \in 1..Len(e.evs) : e.evs[i] = ev
      BY <1>8
    <2> QED BY <2>1, <1>9, <1>10
  <1> QED BY <1>3, <1>8, <1>11

LEMMA FreshFacts ==
  ASSUME Typed, NEW n \in 1..2
  PROVE  /\ n \in Nat /\ Fresh(n) \in Seq(Nat) /\ Len(Fresh(n)) = n
         /\ \A i \in 1..n : Fresh(n)[i] = used.out + i
  <1>1. n \in Nat /\ used.out \in Nat
    BY DEF Typed
  <1> DEFINE u == used.out
  <1> HIDE DEF u
  <1>2. \A i \in 1..n : u + i \in Nat
    BY <1>1 DEF u
  <1>3. Fresh(n) = [i \in 1..n |-> u + i]
    BY DEF Fresh, u
  <1> QED BY <1>1, <1>2, <1>3 DEF u

LEMMA SendAppendKeeps ==
  ASSUME OrderInv, NEW n \in 1..2, Send(n), SendAppend(n) PROVE OrderInv' /\ (Doomed => Doomed')
  <1>1. Typed /\ Bytes /\ Packets /\ InTime /\ BlockedIsWatched /\ Happened /\ EventsInOrder
    BY DEF OrderInv
  <1>2. UNCHANGED <<readers, rq, standby, calls, held, heard, got, net, tasks, oev>>
    BY DEF Send, SendAppend
  <1>3. used' = [used EXCEPT !.out = @ + n] /\ sk' = [sk EXCEPT !.sb = @ \o Fresh(n)] /\ sk.sb # <<>>
    BY DEF Send, SendAppend
  <1>4. /\ n \in Nat /\ Fresh(n) \in Seq(Nat) /\ Len(Fresh(n)) = n
        /\ \A i \in 1..n : Fresh(n)[i] = used.out + i
    BY <1>1, FreshFacts
  <1>5. sk \in Sockets /\ sk.sb \in Seq(Nat) /\ used \in [out : Nat, in : Nat, calls : Nat]
    BY <1>1 DEF Typed, Sockets
  <1> DEFINE s == sk.sb
             f == Fresh(n)
             m == Len(s)
             k == Len(net.kout)
             d == net.drained
             u == used.out
  <1>6. /\ sk'.sb = s \o f /\ sk'.st = sk.st /\ sk'.rf = sk.rf /\ sk'.wf = sk.wf /\ sk'.wt = sk.wt
        /\ sk' \in Sockets
    <2>1. s \o f \in Seq(Nat)
      BY <1>4, <1>5
    <2> HIDE DEF f
    <2>2. sk' = [sk EXCEPT !.sb = s \o f]
      BY <1>3 DEF f
    <2> QED BY <1>5, <2>1, <2>2 DEF Sockets
  <1>7. used'.out = u + n /\ used'.in = used.in /\ used' \in [out : Nat, in : Nat, calls : Nat]
    BY <1>3, <1>4, <1>5, SMTT(30)
  <1>8. m \in Nat /\ k \in Nat /\ d \in Nat /\ u \in Nat
    BY <1>1, <1>5 DEF Typed, Kernels
  <1>9. /\ Len(s \o f) = m + n
        /\ \A i \in 1..m : (s \o f)[i] = s[i]
        /\ \A i \in (m + 1)..(m + n) : (s \o f)[i] = f[i - m]
    BY <1>4, <1>5
  <1>10. /\ u = d + k + m
         /\ \A i \in 1..m : s[i] = d + k + i
         /\ \A i \in 1..n : f[i] = u + i
    BY <1>1, <1>4 DEF Bytes
  <1>11. Bytes'
    <2>1. ASSUME NEW i \in 1..(m + n) PROVE (s \o f)[i] = d + k + i
      <3> HIDE DEF m, k, d, u, f, s
      <3>1. CASE i \in 1..m
        BY <3>1, <1>9, <1>10
      <3>2. CASE i \notin 1..m
        <4>1. i \in (m + 1)..(m + n) /\ i - m \in 1..n
          BY <3>2, <1>4, <1>8
        <4>2. (s \o f)[i] = u + (i - m)
          BY <4>1, <1>9, <1>10
        <4>3. u + (i - m) = d + k + i
          BY <1>8, <1>10
        <4> QED BY <4>2, <4>3
      <3> QED BY <3>1, <3>2
    <2>2. u + n = d + k + (m + n)
      <3> HIDE DEF m, k, d, u, f, s
      <3> QED BY <1>4, <1>8, <1>10
    <2>3. net' = net /\ Len(sk'.sb) = m + n
      BY <1>2, <1>6, <1>9
    <2>4. \A i \in 1..Len(sk'.sb) : sk'.sb[i] = d + k + i
      BY <2>1, <2>3, <1>6
    <2>5. used'.out = d + k + Len(sk'.sb)
      BY <1>7, <2>2, <2>3
    <2> QED BY <1>1, <2>3, <2>4, <2>5 DEF Bytes
  <1>12. Typed'
    BY <1>1, <1>2, <1>6, <1>7 DEF Typed
  <1>13. Doomed => Doomed'
    BY <1>2, <1>6 DEF Doomed, Closing
  <1>14. Packets' /\ InTime' /\ EventsInOrder' /\ Happened'
    BY <1>1, <1>2, <1>6, <1>7, <1>13, PacketsFrame, InTimeFrame, EventsFrame, HappenedFrame
  <1>15. BlockedIsWatched'
    BY <1>1, <1>3, <1>6, <1>13, <1>14 DEF BlockedIsWatched, Doomed, Happened
  <1> QED BY <1>11, <1>12, <1>14, <1>15, <1>13 DEF OrderInv

LEMMA SendDirectKeeps ==
  ASSUME OrderInv, NEW n \in 1..2, Send(n), SendDirect(n) PROVE OrderInv' /\ (Doomed => Doomed')
  <1>1. Typed /\ Bytes /\ Packets /\ InTime /\ BlockedIsWatched /\ Happened /\ EventsInOrder
    BY DEF OrderInv
  <1>2. UNCHANGED <<readers, rq, standby, calls, held, heard, got, tasks>> /\ "SHUT" \notin sk.wf
    BY DEF Send, SendDirect
  <1> DEFINE f == Fresh(n)
             k == Len(net.kout)
             d == net.drained
             u == used.out
  <1>3. used' = [used EXCEPT !.out = @ + n] /\ sk.sb = <<>> /\ net' = NetSent(f)
    BY DEF Send, SendDirect
  <1>4. /\ n \in Nat /\ f \in Seq(Nat) /\ Len(f) = n
        /\ \A i \in 1..n : f[i] = u + i
    BY <1>1, FreshFacts
  <1>5. sk \in Sockets /\ used \in [out : Nat, in : Nat, calls : Nat] /\ net \in Kernels
    BY <1>1 DEF Typed
  <1>6. k \in Nat /\ d \in Nat /\ u \in Nat
    BY <1>5 DEF Kernels
  <1>7. u = d + k
    <2>1. u = d + k + Len(sk.sb) /\ Len(sk.sb) = 0
      BY <1>1, <1>3 DEF Bytes
    <2> HIDE DEF u, d, k
    <2> QED BY <1>6, <2>1
  <1>8. used'.out = u + n /\ used'.in = used.in /\ used' \in [out : Nat, in : Nat, calls : Nat]
    BY <1>3, <1>4, <1>5
  <1>9. /\ SendEc(f) # "ERR"
        /\ SendEc(f) # "BLOCK" => UNCHANGED <<sk, oev>>
        /\ SendEc(f) = "BLOCK" =>
             /\ sk' = [sk EXCEPT !.sb = Unsent(f), !.wt = TRUE, !.wf = BeginFlag(@)]
             /\ oev' = Append(oev, Told(<<"WR_BLOCK">>, FALSE, "OK"))
    BY DEF SendDirect
  <1> HIDE DEF f
  <1>10. \A i \in 1..Len(f) : f[i] = net.drained + Len(net.kout) + i
    BY <1>4, <1>7
  <1>11. /\ net' \in Kernels /\ net'.drained = d /\ net'.kin = net.kin
         /\ Unsent(f) \in Seq(Nat)
         /\ Len(net'.kout) <= KCap
         /\ \A i \in 1..Len(net'.kout) : net'.kout[i] = d + i
         /\ \A i \in 1..Len(Unsent(f)) : Unsent(f)[i] = d + Len(net'.kout) + i
         /\ Len(net'.kout) + Len(Unsent(f)) = k + n
         /\ Taken(f) = n => Unsent(f) = <<>>
    BY <1>1, <1>3, <1>4, <1>10, SentBytes
  <1>12. SendEc(f) # "BLOCK" => Unsent(f) = <<>>
    BY <1>1, <1>4, <1>9, <1>11, TakenFacts
  <1>13. /\ sk' \in Sockets /\ sk'.sb = Unsent(f) /\ sk'.st = sk.st /\ sk'.rf = sk.rf
         /\ "SHUT" \notin sk'.wf
         /\ sk'.sb # <<>> => sk'.wt /\ "WATCH" \in sk'.wf
    <2>1. CASE SendEc(f) # "BLOCK"
      BY <2>1, <1>2, <1>3, <1>5, <1>9, <1>12
    <2>2. CASE SendEc(f) = "BLOCK"
      <3>1. sk.wf \in SUBSET Flags
        BY <1>5 DEF Sockets
      <3>2. /\ BeginFlag(sk.wf) \in SUBSET Flags /\ "SHUT" \notin BeginFlag(sk.wf)
            /\ "WATCH" \in BeginFlag(sk.wf)
        BY <1>2, <3>1, FlagFacts
      <3> DEFINE left == Unsent(f)
      <3>3. left \in Seq(Nat) /\ sk' = [sk EXCEPT !.sb = left, !.wt = TRUE, !.wf = BeginFlag(sk.wf)]
        BY <2>2, <1>9, <1>11
      <3> HIDE DEF left
      <3>4. sk' \in Sockets /\ sk'.sb = left /\ sk'.st = sk.st /\ sk'.rf = sk.rf
        BY <3>2, <3>3, <1>5 DEF Sockets
      <3>5. sk'.wf = BeginFlag(sk.wf) /\ sk'.wt = TRUE
        BY <3>3, <1>5 DEF Sockets
      <3> QED BY <3>2, <3>4, <3>5 DEF left
    <2> QED BY <2>1, <2>2
  <1>14. Bytes'
    <2> DEFINE a == Len(net'.kout)
               b == Len(Unsent(f))
    <2>1. a \in Nat /\ b \in Nat /\ a + b = k + n
      BY <1>11 DEF Kernels
    <2> HIDE DEF a, b, k, d, u
    <2>2. u + n = d + a + b
      BY <1>4, <1>6, <1>7, <2>1
    <2>3. used'.out = net'.drained + Len(net'.kout) + Len(sk'.sb)
      BY <1>8, <1>11, <1>13, <2>2 DEF a, b
    <2> QED BY <1>11, <1>13, <2>3 DEF Bytes
  <1>15. EventsInOrder' /\ oev' \in Seq(Entries) /\ \A ev \in Ends : Occurs(ev)' => Occurs(ev)
    <2>1. CASE SendEc(f) # "BLOCK"
      <3>1. UNCHANGED <<oev, heard>>
        BY <2>1, <1>2, <1>9
      <3> QED BY <3>1, <1>1, EventsFrame DEF Typed, Occurs
    <2>2. CASE SendEc(f) = "BLOCK"
      BY <2>2, <1>2, <1>9, WriteEvent
    <2> QED BY <2>1, <2>2
  <1>16. Typed'
    BY <1>1, <1>2, <1>8, <1>11, <1>13, <1>15 DEF Typed
  <1>17. Doomed => Doomed'
    BY <1>2, <1>13 DEF Doomed, Closing
  <1>18. Happened'
    <2>1. "RD_SHUTDOWN" \in Ends /\ "WR_SHUTDOWN" \in Ends /\ "CLOSE" \in Ends
      BY DEF Ends
    <2> QED BY <2>1, <1>1, <1>2, <1>13, <1>15 DEF Happened, Holding
  <1>19. Packets' /\ InTime'
    BY <1>1, <1>2, <1>8, <1>11, <1>17, PacketsFrame, InTimeFrame
  <1>20. BlockedIsWatched'
    BY <1>13 DEF BlockedIsWatched
  <1> QED BY <1>14, <1>15, <1>16, <1>18, <1>19, <1>20, <1>17 DEF OrderInv

LEMMA WriteTaskKeeps ==
  ASSUME OrderInv, NEW expired \in BOOLEAN, WriteTask(expired)
  PROVE  OrderInv' /\ (Doomed => Doomed')
  <1>1. Typed /\ Bytes /\ Packets /\ InTime /\ BlockedIsWatched /\ Happened /\ EventsInOrder
    BY DEF OrderInv
  <1>2. UNCHANGED <<readers, rq, standby, calls, held, heard, got, used>>
    BY DEF WriteTask
  <1> DEFINE s == sk.sb
             wf == EndFlag(sk.wf)
             ec == IF s = <<>> THEN "OK" ELSE IF "SHUT" \in sk.wf THEN "SHUT" ELSE SendEc(s)
             over == ec = "BLOCK" /\ Taken(s) = 0 /\ expired
             again == ec = "BLOCK" /\ ~over
             fail == ec = "ERR" \/ over
  <1>3. /\ tasks["write"] > 0
        /\ net' = IF ec \in {"OK", "BLOCK", "ERR"} /\ s # <<>> THEN NetSent(s) ELSE net
        /\ sk' = [sk EXCEPT !.sb = IF ec \in {"OK", "BLOCK"} THEN Unsent(s) ELSE s,
                            !.wt = IF ec = "OK" /\ s # <<>> THEN FALSE ELSE sk.wt,
                            !.wf = IF again THEN BeginFlag(wf) ELSE wf]
        /\ oev' = IF ec = "OK" /\ s # <<>>
                  THEN Append(oev, Told(<<"WR_UNBLOCK">>, FALSE, "OK")) ELSE oev
        /\ tasks' = Scheduled(Scheduled(tasks, "write", 0 - 1), "drain", IF fail THEN 1 ELSE 0)
    BY DEF WriteTask
  <1>4. /\ sk \in Sockets /\ net \in Kernels /\ s \in Seq(Nat) /\ sk.wf \in SUBSET Flags
        /\ tasks \in [TaskKinds -> Nat] /\ sk.wt \in BOOLEAN
    BY <1>1 DEF Typed, Sockets
  <1>5. /\ wf \in SUBSET Flags /\ BeginFlag(wf) \in SUBSET Flags
        /\ "SHUT" \in wf <=> "SHUT" \in sk.wf
        /\ "SHUT" \in BeginFlag(wf) <=> "SHUT" \in sk.wf
        /\ "SHUT" \notin sk.wf => "WATCH" \in BeginFlag(wf)
    BY <1>4, FlagFacts
  <1>6. /\ NetSent(s) \in Kernels /\ NetSent(s).kin = net.kin /\ Unsent(s) \in Seq(Nat)
        /\ Taken(s) = Len(s) => Unsent(s) = <<>>
        /\ Taken(s) = 0 => Unsent(s) = s
        /\ Taken(s) \in Nat /\ Taken(s) <= Len(s)
        /\ SendEc(s) = "OK" => Taken(s) = Len(s)
        /\ SendEc(s) \in {"OK", "BLOCK", "ERR"}
    BY <1>1, SbFollows, SentBytes, TakenFacts
  <1>7. SendEc(s) = "ERR" => Taken(s) = 0
    BY DEF SendEc, Taken
  <1>8. /\ s = <<>> => ec = "OK" /\ Unsent(s) = s
        /\ s # <<>> /\ "SHUT" \in sk.wf => ec = "SHUT"
        /\ s # <<>> /\ "SHUT" \notin sk.wf => ec = SendEc(s)
    <2>1. s = <<>> => Len(s) = 0
      OBVIOUS
    <2>2. s = <<>> => Taken(s) = 0
      BY <1>6, <2>1
    <2>3. s = <<>> => ec = "OK"
      OBVIOUS
    <2> QED BY <1>6, <2>2, <2>3
  <1>9. over => ec = "BLOCK"
    OBVIOUS
  <1>a. again <=> ec = "BLOCK" /\ ~over
    OBVIOUS
  <1>b. fail <=> ec = "ERR" \/ over
    OBVIOUS
  <1> HIDE DEF s, wf, ec, over, again, fail
  <1>10. /\ sk' \in Sockets /\ sk'.st = sk.st /\ sk'.rf = sk.rf
         /\ sk'.sb = (IF ec \in {"OK", "BLOCK"} THEN Unsent(s) ELSE s)
         /\ sk'.wt = (IF ec = "OK" /\ s # <<>> THEN FALSE ELSE sk.wt)
         /\ sk'.wf = (IF again THEN BeginFlag(wf) ELSE wf)
    <2>1. (IF ec \in {"OK", "BLOCK"} THEN Unsent(s) ELSE s) \in Seq(Nat)
      BY <1>4, <1>6
    <2>2. (IF again THEN BeginFlag(wf) ELSE wf) \in SUBSET Flags
      BY <1>5
    <2>3. (IF ec = "OK" /\ s # <<>> THEN FALSE ELSE sk.wt) \in BOOLEAN
      BY <1>4
    <2> QED BY <1>3, <1>4, <2>1, <2>2, <2>3 DEF Sockets
  <1>11. (sk'.sb = s /\ net' = net) \/ (sk'.sb = Unsent(s) /\ net' = NetSent(s))
    <2>1. CASE s = <<>>
      BY <2>1, <1>3, <1>8, <1>10
    <2>2. CASE s # <<>> /\ "SHUT" \in sk.wf
      BY <2>2, <1>3, <1>8, <1>10
    <2>3. CASE s # <<>> /\ "SHUT" \notin sk.wf
      BY <2>3, <1>3, <1>6, <1>7, <1>8, <1>10
    <2> QED BY <2>1, <2>2, <2>3
  <1>12. Bytes' /\ net' \in Kernels /\ net'.kin = net.kin
    <2>1. CASE sk'.sb = s /\ net' = net
      BY <2>1, <1>1, <1>2, <1>4, BytesFrame DEF s
    <2>2. CASE sk'.sb = Unsent(s) /\ net' = NetSent(s)
      BY <2>2, <1>1, <1>2, <1>6, BufferSent DEF s
    <2> QED BY <1>11, <2>1, <2>2
  <1>13. /\ tasks' \in [TaskKinds -> Nat] /\ tasks'["re"] = tasks["re"]
         /\ tasks'["drain"] >= tasks["drain"]
         /\ fail => tasks'["drain"] > 0
    <2> DEFINE t == Scheduled(tasks, "write", 0 - 1)
               b == IF fail THEN 1 ELSE 0
    <2>1. t = [tasks EXCEPT !["write"] = tasks["write"] + (0 - 1)] /\ tasks["write"] + (0 - 1) \in Nat
      BY <1>3, <1>4 DEF Scheduled, TaskKinds
    <2>2. /\ t \in [TaskKinds -> Nat] /\ t["re"] = tasks["re"] /\ t["drain"] = tasks["drain"]
          /\ t["drain"] \in Nat /\ t["re"] \in Nat
      BY <2>1, <1>4 DEF TaskKinds
    <2>3. b \in {0, 1} /\ (fail => b = 1)
      OBVIOUS
    <2>4. tasks' = Scheduled(t, "drain", b)
      BY <1>3
    <2> HIDE DEF t, b
    <2>5. tasks' = [t EXCEPT !["drain"] = t["drain"] + b] /\ t["drain"] + b \in Nat
      BY <2>2, <2>3, <2>4 DEF Scheduled
    <2>6. /\ tasks' \in [TaskKinds -> Nat] /\ tasks'["re"] = t["re"]
          /\ tasks'["drain"] = t["drain"] + b
      BY <2>2, <2>5 DEF TaskKinds
    <2> QED BY <2>2, <2>3, <2>6
  <1>14. EventsInOrder' /\ oev' \in Seq(Entries) /\ \A ev \in Ends : Occurs(ev)' => Occurs(ev)
    <2>1. CASE ~(ec = "OK" /\ s # <<>>)
      <3>1. UNCHANGED <<oev, heard>>
        BY <2>1, <1>2, <1>3
      <3> QED BY <3>1, <1>1, EventsFrame DEF Typed, Occurs
    <2>2. CASE ec = "OK" /\ s # <<>>
      <3>1. "SHUT" \notin sk.wf
        BY <2>2, <1>8
      <3> QED BY <2>2, <3>1, <1>2, <1>3, WriteEvent
    <2> QED BY <2>1, <2>2
  <1>15. Typed'
    BY <1>1, <1>2, <1>10, <1>12, <1>13, <1>14 DEF Typed
  <1>16. Doomed => Doomed'
    <2>1. tasks["re"] \in Nat /\ tasks["re"] >= tasks["re"]
      BY <1>4 DEF TaskKinds
    <2>2. held'.op = held.op /\ held'.rest = held.rest /\ calls \subseteq calls'
      BY <1>2
    <2>3. \A i \in 1..Len(readers) : \E j \in 1..Len(readers') : readers'[j] = readers[i]
      BY <1>2
    <2>4. HasClose(rq.then) => HasClose(rq'.then)
      BY <1>2
    <2> QED BY <1>1, <1>10, <1>13, <1>15, <2>1, <2>2, <2>3, <2>4, DoomedStays
  <1>17. sk'.wf \in SUBSET Flags /\ ("SHUT" \in sk'.wf <=> "SHUT" \in sk.wf)
    BY <1>5, <1>10
  <1>18. Happened'
    <2>1. "RD_SHUTDOWN" \in Ends /\ "WR_SHUTDOWN" \in Ends /\ "CLOSE" \in Ends
      BY DEF Ends
    <2> QED BY <2>1, <1>1, <1>2, <1>10, <1>14, <1>17 DEF Happened, Holding
  <1>19. Packets' /\ InTime'
    BY <1>1, <1>2, <1>12, <1>16, PacketsFrame, InTimeFrame
  <1>20. BlockedIsWatched'
    <2> SUFFICES ASSUME sk'.sb # <<>>, "SHUT" \notin sk'.wf
                 PROVE  sk'.wt /\ ("WATCH" \in sk'.wf \/ Closing')
      BY DEF BlockedIsWatched
    <2>1. s # <<>> /\ "SHUT" \notin sk.wf /\ ec = SendEc(s)
      BY <1>8, <1>10, <1>17
    <2>2. ec = "BLOCK" \/ ec = "ERR"
      BY <2>1, <1>6, <1>10
    <2>3. sk.wt
      BY <1>1, <2>1 DEF BlockedIsWatched, s
    <2>4. sk'.wt
      BY <2>2, <2>3, <1>10
    <2>5. CASE again
      BY <2>1, <2>4, <2>5, <1>5, <1>10
    <2>6. CASE ~again
      <3>1. tasks'["drain"] > 0
        BY <2>2, <2>6, <1>a, <1>b, <1>13
      <3>2. tasks'["re"] + tasks'["drain"] > 0
        <4>1. tasks'["re"] \in Nat /\ tasks'["drain"] \in Nat
          BY <1>13 DEF TaskKinds
        <4> QED BY <3>1, <4>1
      <3> QED BY <2>4, <3>2 DEF Closing
    <2> QED BY <2>5, <2>6
  <1> QED BY <1>12, <1>14, <1>15, <1>18, <1>19, <1>20, <1>16 DEF OrderInv

-----------------------------------------------------------------------------
(* Reading.                                                                *)

LEMMA Joined ==
  ASSUME NEW s \in Seq(Nat), NEW t \in Seq(Nat)
  PROVE  /\ s \o t \in Seq(Nat) /\ s \o <<>> = s
         /\ \A i \in 1..Len(s \o t) :
              \/ i \in 1..Len(s) /\ (s \o t)[i] = s[i]
              \/ i - Len(s) \in 1..Len(t) /\ (s \o t)[i] = t[i - Len(s)]
  OBVIOUS

LEMMA JoinedRising ==
  ASSUME NEW s \in Seq(Nat), NEW t \in Seq(Nat), Rising(s), Rising(t), Ahead(s, t)
  PROVE  Rising(s \o t)
  <1> DEFINE u == s \o t
             n == Len(s)
  <1>1. n \in Nat /\ Len(t) \in Nat /\ Len(u) = n + Len(t)
    OBVIOUS
  <1>2. \A i \in 1..Len(u) : \/ i \in 1..n /\ u[i] = s[i]
                             \/ i - n \in 1..Len(t) /\ u[i] = t[i - n]
    BY Joined
  <1> SUFFICES ASSUME NEW i \in 1..Len(u), NEW j \in 1..Len(u), i < j PROVE u[i] < u[j]
    BY DEF Rising
  <1> HIDE DEF u, n
  <1>3. CASE i \in 1..n /\ u[i] = s[i] /\ j \in 1..n /\ u[j] = s[j]
    BY <1>3 DEF Rising, n
  <1>4. CASE i \in 1..n /\ u[i] = s[i] /\ j - n \in 1..Len(t) /\ u[j] = t[j - n]
    BY <1>4 DEF Ahead, n
  <1>5. CASE i - n \in 1..Len(t) /\ u[i] = t[i - n] /\ j - n \in 1..Len(t) /\ u[j] = t[j - n]
    <2>1. i - n < j - n
      BY <1>1
    <2> QED BY <1>5, <2>1 DEF Rising
  <1>6. CASE i - n \in 1..Len(t) /\ j \in 1..n
    BY <1>6, <1>1
  <1> QED BY <1>2, <1>3, <1>4, <1>5, <1>6

LEMMA JoinedBounds ==
  ASSUME NEW s \in Seq(Nat), NEW t \in Seq(Nat), NEW r \in Seq(Nat), NEW n
  PROVE  /\ Ahead(r, s) /\ Ahead(r, t) => Ahead(r, s \o t)
         /\ Within(s, n) /\ Within(t, n) => Within(s \o t, n)
         /\ Beyond(s, n) /\ Beyond(t, n) => Beyond(s \o t, n)
  <1>1. \A i \in 1..Len(s \o t) : \/ i \in 1..Len(s) /\ (s \o t)[i] = s[i]
                                  \/ i - Len(s) \in 1..Len(t) /\ (s \o t)[i] = t[i - Len(s)]
    BY Joined
  <1> QED BY <1>1 DEF Ahead, Within, Beyond

LEMMA NoneFacts ==
  ASSUME NEW n, NEW s
  PROVE Rising(<<>>) /\ Ahead(s, <<>>) /\ Ahead(<<>>, s) /\ Within(<<>>, n) /\ Beyond(<<>>, n)
  <1>1. Len(<<>>) = 0 /\ 1..0 = {}
    OBVIOUS
  <1> QED BY <1>1 DEF Rising, Ahead, Within, Beyond

LEMMA NetReadFacts ==
  ASSUME Typed
  PROVE  /\ NetRead \in Kernels /\ NetRead.kin = <<>> /\ NetRead.kout = net.kout
         /\ NetRead.drained = net.drained
  <1>1. net \in Kernels /\ <<>> \in Seq(Nat)
    BY DEF Typed
  <1> QED BY <1>1 DEF NetRead, Kernels

(* The section under L_READ: what the kernel held is behind what waited. *)
LEMMA ReadSectionKeeps ==
  ASSUME OrderInv, NEW rest \in {<<>>, <<CloseCall("ERR")>>}, ReadSection(rest),
         UNCHANGED <<rq, held, oev, heard, got, used>>, tasks' \in [TaskKinds -> Nat],
         rest = <<>> => tasks'["re"] >= tasks["re"] /\ tasks'["drain"] >= tasks["drain"]
  PROVE  OrderInv' /\ (Doomed => Doomed')
  <1>1. Typed /\ Bytes /\ Packets /\ InTime /\ BlockedIsWatched /\ Happened /\ EventsInOrder
    BY DEF OrderInv
  <1> DEFINE shut == "SHUT" \in sk.rf
             new  == IF shut THEN <<>> ELSE net.kin
             ec   == IF shut THEN "BLOCK" ELSE RecvEc
             rf   == EndFlag(sk.rf)
             todo == AfterRead(ec) \o rest
  <1>2. /\ net' = IF shut THEN net ELSE NetRead
        /\ standby' = standby \o new
        /\ \/ /\ new = <<>> /\ sk' = [sk EXCEPT !.rf = BeginFlag(rf)]
              /\ calls' = WithErrors(WithCalls(todo), BeginError(rf)) /\ readers' = readers
           \/ /\ new # <<>> /\ sk' = [sk EXCEPT !.rf = rf]
              /\ readers' = Append(readers, todo) /\ calls' = calls
    BY DEF ReadSection, Queued
  <1>3. /\ sk \in Sockets /\ net \in Kernels /\ sk.rf \in SUBSET Flags /\ net.kin \in Seq(Nat)
        /\ standby \in Seq(Nat) /\ rq.q \in Seq(Nat) /\ readers \in Seq(Chains)
    BY <1>1 DEF Typed, Sockets, Kernels
  <1>4. todo \in Chains /\ (rest # <<>> => todo # <<>> /\ HasClose(todo))
    BY AfterReadChain
  <1>5. /\ rf \in SUBSET Flags /\ BeginFlag(rf) \in SUBSET Flags
        /\ "SHUT" \in rf <=> "SHUT" \in sk.rf
        /\ "SHUT" \in BeginFlag(rf) <=> "SHUT" \in sk.rf
    BY <1>3, FlagFacts
  <1>6. (net' = net /\ standby' = standby) \/ (net' = NetRead /\ standby' = standby \o net.kin)
    <2>1. CASE shut
      <3>1. standby \o <<>> = standby
        BY <1>3, Joined
      <3> QED BY <2>1, <3>1, <1>2
    <2>2. CASE ~shut
      BY <2>2, <1>2
    <2> QED BY <2>1, <2>2
  <1> HIDE DEF shut, new, ec, rf, todo
  <1>7. /\ sk' \in Sockets /\ sk'.st = sk.st /\ sk'.wf = sk.wf /\ sk'.sb = sk.sb /\ sk'.wt = sk.wt
        /\ "SHUT" \in sk'.rf <=> "SHUT" \in sk.rf
    <2>1. \E f \in {rf, BeginFlag(rf)} : sk' = [sk EXCEPT !.rf = f]
      BY <1>2
    <2>2. PICK f \in SUBSET Flags : sk' = [sk EXCEPT !.rf = f] /\ ("SHUT" \in f <=> "SHUT" \in sk.rf)
      BY <2>1, <1>5
    <2> QED BY <2>2, <1>3 DEF Sockets
  <1>8. /\ net' \in Kernels /\ net'.kout = net.kout /\ net'.drained = net.drained
        /\ standby' \in Seq(Nat)
    BY <1>1, <1>3, <1>6, NetReadFacts, Joined
  <1>9. /\ calls \subseteq calls' /\ calls' \subseteq Chains /\ <<>> \notin calls'
        /\ readers' \in Seq(Chains)
        /\ \A i \in 1..Len(readers) : \E j \in 1..Len(readers') : readers'[j] = readers[i]
        /\ rest # <<>> => \/ \E cs \in calls' : HasClose(cs)
                          \/ \E i \in 1..Len(readers') : HasClose(readers'[i])
    <2>1. CASE calls' = WithErrors(WithCalls(todo), BeginError(rf)) /\ readers' = readers
      <3>1. /\ WithCalls(todo) \subseteq Chains /\ <<>> \notin WithCalls(todo)
            /\ calls \subseteq WithCalls(todo)
            /\ todo # <<>> => todo \in WithCalls(todo)
        BY <1>1, <1>4, WithCallsFacts
      <3>2. calls' \subseteq Chains /\ <<>> \notin calls' /\ WithCalls(todo) \subseteq calls'
        BY <2>1, <3>1, ErrorFacts, WithErrorsFacts
      <3> QED BY <2>1, <3>1, <3>2, <1>3, <1>4
    <2>2. CASE readers' = Append(readers, todo) /\ calls' = calls
      <3>1. /\ readers' \in Seq(Chains) /\ Len(readers') = Len(readers) + 1
            /\ readers'[Len(readers) + 1] = todo
            /\ \A i \in 1..Len(readers) : i \in 1..Len(readers') /\ readers'[i] = readers[i]
            /\ Len(readers) + 1 \in 1..Len(readers')
        BY <2>2, <1>3, <1>4
      <3>2. calls' = calls /\ calls \subseteq Chains /\ <<>> \notin calls
        BY <2>2, <1>1 DEF Typed
      <3> QED BY <3>1, <3>2, <1>4
    <2> QED BY <1>2, <2>1, <2>2
  <1>10. Typed'
    BY <1>1, <1>7, <1>8, <1>9 DEF Typed
  <1>11. Doomed => Doomed'
    <2>1. CASE rest = <<>>
      <3>1. held'.op = held.op /\ held'.rest = held.rest /\ rq' = rq
        OBVIOUS
      <3>2. HasClose(rq.then) => HasClose(rq'.then)
        BY <3>1
      <3> QED BY <2>1, <3>1, <3>2, <1>1, <1>7, <1>9, <1>10, DoomedStays
    <2>2. CASE rest # <<>>
      BY <2>2, <1>9 DEF Doomed, Closing, HasClose
    <2> QED BY <2>1, <2>2
  <1>12. Packets' /\ InTime'
    <2>1. CASE net' = net /\ standby' = standby
      BY <2>1, <1>1, <1>11, PacketsFrame, InTimeFrame
    <2>2. CASE net' = NetRead /\ standby' = standby \o net.kin
      <3> DEFINE s == standby
                 t == net.kin
                 q == rq.q
                 n == used.in
      <3>1. /\ Rising(q) /\ Rising(s) /\ Rising(t)
            /\ Ahead(q, s) /\ Ahead(q, t) /\ Ahead(s, t)
            /\ Within(q, n) /\ Within(s, n) /\ Within(t, n)
            /\ got <= n
            /\ rq.q = <<>> => rq.then = <<>>
        BY <1>1 DEF Packets
      <3>2. s \in Seq(Nat) /\ t \in Seq(Nat) /\ q \in Seq(Nat)
        BY <1>3
      <3>3. net'.kin = <<>> /\ standby' = s \o t /\ rq' = rq /\ used' = used /\ got' = got
        BY <2>2, <1>1, NetReadFacts
      <3> HIDE DEF s, t, n
      <3>4. Rising(s \o t) /\ Ahead(q, s \o t) /\ Within(s \o t, n)
        BY <3>1, <3>2, JoinedRising, JoinedBounds
      <3>5. /\ Rising(<<>>) /\ Ahead(q, <<>>) /\ Ahead(s \o t, <<>>) /\ Within(<<>>, n)
            /\ Beyond(<<>>, got)
        BY NoneFacts
      <3>6. Packets'
        <4> DEFINE w == s \o t
        <4>1. Rising(w) /\ Ahead(q, w) /\ Within(w, n) /\ Ahead(w, <<>>) /\ standby' = w
          BY <3>3, <3>4, <3>5
        <4> HIDE DEF w
        <4> QED BY <3>1, <3>3, <3>5, <4>1 DEF Packets, n, Rising, Ahead, Within
      <3>7. InTime'
        <4>1. CASE Doomed
          BY <4>1, <1>11 DEF InTime
        <4>2. CASE ~Doomed
          <5>1. Beyond(q, got) /\ Beyond(s, got) /\ Beyond(t, got)
            BY <4>2, <1>1 DEF InTime, s, t
          <5>2. Beyond(s \o t, got)
            BY <3>2, <5>1, JoinedBounds
          <5>3. Beyond(rq'.q, got') /\ Beyond(standby', got') /\ Beyond(net'.kin, got')
            BY <3>3, <3>5, <5>1, <5>2
          <5> QED BY <5>3 DEF InTime, Beyond
        <4> QED BY <4>1, <4>2
      <3> QED BY <3>6, <3>7
    <2> QED BY <1>6, <2>1, <2>2
  <1>13. Bytes' /\ EventsInOrder' /\ Happened'
    BY <1>1, <1>7, <1>8, BytesFrame, EventsFrame, HappenedFrame
  <1>14. BlockedIsWatched'
    BY <1>1, <1>7, <1>11, <1>13, BlockedFrame
  <1> QED BY <1>10, <1>12, <1>13, <1>14, <1>11 DEF OrderInv

LEMMA ReadTaskKeeps ==
  ASSUME OrderInv, ReadTask PROVE OrderInv' /\ (Doomed => Doomed')
  <1>1. /\ ReadSection(<<>>) /\ UNCHANGED <<rq, held, oev, heard, got, used>>
        /\ tasks' = Scheduled(tasks, "read", 0 - 1) /\ tasks["read"] > 0
    BY DEF ReadTask
  <1>2. /\ tasks' \in [TaskKinds -> Nat]
        /\ tasks'["re"] >= tasks["re"] /\ tasks'["drain"] >= tasks["drain"]
    BY <1>1, TypedFacts DEF Scheduled, TaskKinds
  <1> QED BY <1>1, <1>2, ReadSectionKeeps

LEMMA ErrorEventTaskKeeps ==
  ASSUME OrderInv, ErrorEventTask PROVE OrderInv' /\ (Doomed => Doomed')
  <1>1. /\ ReadSection(<<CloseCall("ERR")>>) /\ UNCHANGED <<rq, held, oev, heard, got, used>>
        /\ tasks' = Scheduled(tasks, "re", 0 - 1) /\ tasks["re"] > 0
    BY DEF ErrorEventTask
  <1>2. tasks' \in [TaskKinds -> Nat]
    BY <1>1, TypedFacts DEF Scheduled, TaskKinds
  <1>3. <<CloseCall("ERR")>> # <<>>
    BY ClosingChain
  <1> QED BY <1>1, <1>2, <1>3, ReadSectionKeeps

LEMMA SeqIsFunction ==
  ASSUME NEW S, NEW s \in Seq(S) PROVE s = [i \in 1..Len(s) |-> s[i]]
  OBVIOUS

LEMMA RemovedOne ==
  ASSUME NEW S, NEW s \in Seq(S), NEW i \in 1..Len(s)
  PROVE  /\ RemoveAt(s, i) \in Seq(S)
         /\ \A j \in 1..Len(s) : j # i =>
              \E k \in 1..Len(RemoveAt(s, i)) : RemoveAt(s, i)[k] = s[j]
  <1> DEFINE a == SubSeq(s, 1, i - 1)
             b == SubSeq(s, i + 1, Len(s))
             n == Len(s)
             r == RemoveAt(s, i)
  <1>1. n \in Nat /\ i \in 1..n /\ r = a \o b
    BY DEF RemoveAt
  <1>2. a \in Seq(S) /\ Len(a) = i - 1 /\ \A k \in 1..(i - 1) : a[k] = s[k]
    BY <1>1
  <1>3. b \in Seq(S) /\ Len(b) = n - i /\ \A k \in 1..(n - i) : b[k] = s[i + k]
    BY <1>1
  <1> HIDE DEF a, b, r
  <1>4. /\ r \in Seq(S) /\ Len(r) = Len(a) + Len(b)
        /\ \A k \in 1..Len(a) : r[k] = a[k]
        /\ \A k \in 1..Len(b) : r[Len(a) + k] = b[k]
    <2>1. a \in Seq(S) /\ b \in Seq(S)
      BY <1>2, <1>3
    <2>2. /\ a \o b \in Seq(S) /\ Len(a \o b) = Len(a) + Len(b)
          /\ \A k \in 1..Len(a) : (a \o b)[k] = a[k]
          /\ \A k \in 1..Len(b) : (a \o b)[Len(a) + k] = b[k]
      BY <2>1, ConcatIndex
    <2>3. r = a \o b
      BY <1>1
    <2> QED BY <2>2, <2>3
  <1> HIDE DEF n
  <1>5. Len(r) = n - 1
    BY <1>1, <1>2, <1>3, <1>4
  <1>6. ASSUME NEW j \in 1..n, j # i PROVE \E k \in 1..Len(r) : r[k] = s[j]
    <2>1. CASE j < i
      <3>1. j \in 1..(i - 1) /\ j \in 1..Len(r)
        BY <2>1, <1>1, <1>5
      <3>2. r[j] = s[j]
        BY <3>1, <1>2, <1>4
      <3> QED BY <3>1, <3>2
    <2>2. CASE j > i
      <3> DEFINE k == j - i
      <3>1. k \in 1..(n - i) /\ i + k = j /\ (i - 1) + k \in 1..Len(r)
        BY <2>2, <1>1, <1>5
      <3> HIDE DEF k
      <3>2. r[(i - 1) + k] = s[j]
        BY <3>1, <1>2, <1>3, <1>4
      <3> QED BY <3>1, <3>2
    <2> QED BY <2>1, <2>2, <1>1, <1>6
  <1> QED BY <1>4, <1>6 DEF r, n

LEMMA SwapQueuesKeeps ==
  ASSUME OrderInv, NEW i \in 1..Len(readers), SwapQueues(i) PROVE OrderInv' /\ (Doomed => Doomed')
  <1>1. Typed /\ Bytes /\ Packets /\ InTime /\ BlockedIsWatched /\ Happened /\ EventsInOrder
    BY DEF OrderInv
  <1>2. /\ rq.q = <<>> /\ rq' = [q |-> standby, then |-> IF standby = <<>> THEN <<>> ELSE readers[i]]
        /\ standby' = <<>> /\ readers' = RemoveAt(readers, i)
        /\ calls' = IF standby = <<>> THEN WithCalls(readers[i]) ELSE calls
        /\ UNCHANGED <<sk, tasks, held, oev, heard, got, net, used>>
    BY DEF SwapQueues
  <1>3. /\ readers \in Seq(Chains) /\ readers[i] \in Chains /\ standby \in Seq(Nat)
        /\ calls \subseteq Chains /\ <<>> \notin calls
    BY <1>1 DEF Typed
  <1>4. /\ readers' \in Seq(Chains)
        /\ \A j \in 1..Len(readers) : j # i => \E k \in 1..Len(readers') : readers'[k] = readers[j]
    BY <1>2, <1>3, RemovedOne
  <1>5. rq'.q = standby /\ rq'.then = (IF standby = <<>> THEN <<>> ELSE readers[i])
    BY <1>2
  <1>6. calls \subseteq calls' /\ calls' \subseteq Chains /\ <<>> \notin calls'
    BY <1>1, <1>2, <1>3, WithCallsFacts
  <1>7. HasClose(readers[i]) => HasClose(rq'.then) \/ \E cs \in calls' : HasClose(cs)
    <2>1. CASE standby # <<>>
      BY <2>1, <1>5
    <2>2. CASE standby = <<>>
      <3>1. HasClose(readers[i]) => readers[i] # <<>>
        <4>1. 1..Len(<<>>) = {}
          OBVIOUS
        <4> QED BY <4>1 DEF HasClose
      <3> QED BY <2>2, <3>1, <1>1, <1>2, <1>3, WithCallsFacts
    <2> QED BY <2>1, <2>2
  <1>8. Typed'
    <2>1. rq' \in [q : Seq(Nat), then : Chains]
      <3>1. (IF standby = <<>> THEN <<>> ELSE readers[i]) \in Chains
        BY <1>3, EmptyChain
      <3> QED BY <3>1, <1>2, <1>3
    <2>2. standby' \in Seq(Nat)
      BY <1>2
    <2> QED BY <1>1, <1>2, <1>4, <1>6, <2>1, <2>2 DEF Typed
  <1>9. Doomed => Doomed'
    <2>1. CASE HasClose(readers[i])
      BY <2>1, <1>7 DEF Doomed, Closing, HasClose
    <2>2. CASE ~HasClose(readers[i])
      <3>1. ASSUME NEW j \in 1..Len(readers), HasClose(readers[j])
            PROVE  \E k \in 1..Len(readers') : HasClose(readers'[k])
        BY <2>2, <3>1, <1>4
      <3>2. ~HasClose(rq.then)
        <4>1. rq.then = <<>> /\ 1..Len(<<>>) = {}
          BY <1>1, <1>2 DEF Packets
        <4> QED BY <4>1 DEF HasClose
      <3> QED BY <3>1, <3>2, <1>2, <1>6, ClosingParts DEF Doomed, Closing, HasClose
    <2> QED BY <2>1, <2>2
  <1>10. Packets' /\ InTime'
    <2>1. /\ Rising(standby) /\ Rising(net.kin) /\ Ahead(standby, net.kin)
          /\ Within(standby, used.in) /\ Within(net.kin, used.in) /\ got <= used.in
      BY <1>1 DEF Packets
    <2>2. /\ Rising(<<>>) /\ Ahead(standby, <<>>) /\ Ahead(<<>>, net.kin) /\ Within(<<>>, used.in)
          /\ Beyond(<<>>, got)
      BY NoneFacts
    <2>3. rq'.q = <<>> => rq'.then = <<>>
      BY <1>5
    <2>4. Packets'
      BY <1>2, <1>5, <2>1, <2>2, <2>3 DEF Packets, Rising, Ahead, Within
    <2>5. InTime'
      <3>1. CASE Doomed
        BY <3>1, <1>9 DEF InTime
      <3>2. CASE ~Doomed
        <4>1. Beyond(standby, got) /\ Beyond(net.kin, got)
          BY <3>2, <1>1 DEF InTime
        <4>2. Beyond(rq'.q, got') /\ Beyond(standby', got') /\ Beyond(net'.kin, got')
          BY <1>2, <1>5, <2>2, <4>1
        <4> QED BY <4>2 DEF InTime, Beyond
      <3> QED BY <3>1, <3>2
    <2> QED BY <2>4, <2>5
  <1>11. Bytes' /\ EventsInOrder' /\ Happened'
    BY <1>1, <1>2, BytesFrame, EventsFrame, HappenedFrame
  <1>12. BlockedIsWatched'
    BY <1>1, <1>2, <1>9, <1>11, BlockedFrame
  <1> QED BY <1>8, <1>10, <1>11, <1>12, <1>9 DEF OrderInv

(* The first packet is told: all others are behind it. *)
LEMMA TriggerPacketKeeps ==
  ASSUME OrderInv, TriggerPacket PROVE OrderInv' /\ (Doomed => Doomed')
  <1>1. Typed /\ Bytes /\ Packets /\ InTime /\ BlockedIsWatched /\ Happened /\ EventsInOrder
    BY DEF OrderInv
  <1> DEFINE q == rq.q
             n == Len(q)
             last == n = 1
  <1>2. /\ q # <<>> /\ got' = Head(q)
        /\ rq' = [q |-> Tail(q), then |-> IF last THEN <<>> ELSE rq.then]
        /\ sk' = [sk EXCEPT !.rf = BeginFlag(@)]
        /\ calls' = WithErrors(IF last THEN WithCalls(rq.then) ELSE calls, BeginError(sk.rf))
        /\ UNCHANGED <<tasks, readers, standby, held, oev, heard, net, used>>
    BY DEF TriggerPacket
  <1>3. /\ q \in Seq(Nat) /\ rq.then \in Chains /\ sk \in Sockets /\ sk.rf \in SUBSET Flags
        /\ n \in Nat \ {0} /\ calls \subseteq Chains /\ <<>> \notin calls
    BY <1>1, <1>2 DEF Typed, Sockets
  <1>4. /\ Head(q) = q[1] /\ Head(q) \in Nat /\ 1 \in 1..n
        /\ Tail(q) \in Seq(Nat) /\ Len(Tail(q)) = n - 1
        /\ \A i \in 1..(n - 1) : i + 1 \in 1..n /\ 1 < i + 1 /\ Tail(q)[i] = q[i + 1]
    BY <1>2, <1>3
  <1>5. /\ sk' \in Sockets /\ sk'.st = sk.st /\ sk'.wf = sk.wf /\ sk'.sb = sk.sb /\ sk'.wt = sk.wt
        /\ "SHUT" \in sk.rf => "SHUT" \in sk'.rf
    <2>1. BeginFlag(sk.rf) \in SUBSET Flags /\ ("SHUT" \in sk.rf => "SHUT" \in BeginFlag(sk.rf))
      BY <1>3, FlagFacts
    <2> QED BY <2>1, <1>2, <1>3 DEF Sockets
  <1>6. /\ calls \subseteq calls' /\ calls' \subseteq Chains /\ <<>> \notin calls'
        /\ last /\ rq.then # <<>> => rq.then \in calls'
    <2> DEFINE C == IF last THEN WithCalls(rq.then) ELSE calls
    <2>1. /\ C \subseteq Chains /\ <<>> \notin C /\ calls \subseteq C
          /\ last /\ rq.then # <<>> => rq.then \in C
      BY <1>1, <1>3, WithCallsFacts
    <2>2. calls' = WithErrors(C, BeginError(sk.rf))
      BY <1>2
    <2> HIDE DEF C
    <2>3. calls' \subseteq Chains /\ <<>> \notin calls' /\ C \subseteq calls'
      BY <2>1, <2>2, ErrorFacts, WithErrorsFacts
    <2> QED BY <2>1, <2>3
  <1>7. rq'.q = Tail(q) /\ rq'.then = (IF last THEN <<>> ELSE rq.then)
    BY <1>2
  <1>8. Typed'
    <2>1. (IF last THEN <<>> ELSE rq.then) \in Chains
      BY <1>3, EmptyChain
    <2>2. rq' \in [q : Seq(Nat), then : Chains]
      BY <2>1, <1>2, <1>4
    <2> QED BY <1>1, <1>2, <1>4, <1>5, <1>6, <2>2 DEF Typed
  <1>9. Doomed => Doomed'
    <2>1. HasClose(rq.then) => HasClose(rq'.then) \/ \E cs \in calls' : HasClose(cs)
      <3>1. HasClose(rq.then) => rq.then # <<>>
        <4>1. 1..Len(<<>>) = {}
          OBVIOUS
        <4> QED BY <4>1 DEF HasClose
      <3> QED BY <3>1, <1>6, <1>7
    <2>2. /\ tasks["re"] \in Nat /\ tasks["drain"] \in Nat
          /\ tasks'["re"] >= tasks["re"] /\ tasks'["drain"] >= tasks["drain"]
      BY <1>1, <1>2, SMTT(30) DEF Typed, TaskKinds
    <2>3. \A i \in 1..Len(readers) : \E j \in 1..Len(readers') : readers'[j] = readers[i]
      BY <1>2
    <2>4. held'.op = held.op /\ held'.rest = held.rest
      BY <1>2
    <2> QED BY <2>1, <2>2, <2>3, <2>4, <1>1, <1>5, <1>6, <1>8, DoomedStays
  <1>10. Packets' /\ InTime'
    <2>1. /\ Rising(q) /\ Rising(standby) /\ Rising(net.kin)
          /\ Ahead(q, standby) /\ Ahead(q, net.kin) /\ Ahead(standby, net.kin)
          /\ Within(q, used.in) /\ Within(standby, used.in) /\ Within(net.kin, used.in)
      BY <1>1 DEF Packets
    <2> DEFINE t == Tail(q)
    <2>2. Len(t) = n - 1 /\ \A i \in 1..(n - 1) : i + 1 \in 1..n /\ 1 < i + 1 /\ t[i] = q[i + 1]
      BY <1>4
    <2> HIDE DEF t, q
    <2>3. Rising(t)
      <3> SUFFICES ASSUME NEW i \in 1..(n - 1), NEW j \in 1..(n - 1), i < j PROVE t[i] < t[j]
        BY <2>2 DEF Rising
      <3>1. i + 1 < j + 1
        BY <1>3
      <3> QED BY <2>1, <2>2, <3>1 DEF Rising
    <2>4. Ahead(t, standby) /\ Ahead(t, net.kin) /\ Within(t, used.in)
      BY <2>1, <2>2 DEF Ahead, Within
    <2>5. Head(q) <= used.in
      BY <1>4, <2>1 DEF Within
    <2>6. Beyond(t, Head(q)) /\ Beyond(standby, Head(q)) /\ Beyond(net.kin, Head(q))
      <3>1. Beyond(t, Head(q))
        BY <1>4, <2>1, <2>2 DEF Rising, Beyond
      <3>2. Beyond(standby, Head(q)) /\ Beyond(net.kin, Head(q))
        BY <1>4, <2>1 DEF Ahead, Beyond
      <3> QED BY <3>1, <3>2
    <2>7. rq'.q = <<>> => rq'.then = <<>>
      <3>1. t = <<>> => n = 1
        <4>1. t = <<>> => Len(t) = 0
          OBVIOUS
        <4> QED BY <4>1, <2>2, <1>3
      <3> QED BY <3>1, <1>7 DEF t
    <2>8. /\ rq'.q = t /\ standby' = standby /\ net' = net /\ used' = used /\ got' = Head(q)
      BY <1>2, <1>7 DEF t
    <2>9. Packets'
      BY <2>1, <2>3, <2>4, <2>5, <2>7, <2>8 DEF Packets, Rising, Ahead, Within
    <2>10. InTime'
      BY <2>6, <2>8 DEF InTime, Beyond
    <2> QED BY <2>9, <2>10
  <1>11. Bytes' /\ EventsInOrder' /\ Happened'
    BY <1>1, <1>2, <1>5, BytesFrame, EventsFrame, HappenedFrame
  <1>12. BlockedIsWatched'
    BY <1>1, <1>5, <1>9, <1>11, BlockedFrame
  <1> QED BY <1>8, <1>10, <1>11, <1>12, <1>9 DEF OrderInv

LEMMA WriteFailedKeeps ==
  ASSUME OrderInv, WriteFailed PROVE OrderInv' /\ (Doomed => Doomed')
  <1>1. Typed /\ Bytes /\ Packets /\ InTime /\ BlockedIsWatched /\ Happened /\ EventsInOrder
    BY DEF OrderInv
  <1> DEFINE shut == "SHUT" \in sk.rf
             new == IF shut THEN <<>> ELSE net.kin
             f == IF new # <<>> THEN BeginFlag(sk.rf) ELSE sk.rf
  <1>2. /\ tasks["drain"] > 0 /\ tasks' = Scheduled(tasks, "drain", 0 - 1)
        /\ net' = IF shut THEN net ELSE NetRead
        /\ got' = IF new = <<>> THEN got ELSE Last(new)
        /\ sk' = [sk EXCEPT !.rf = f]
        /\ calls' = calls \cup {<<CloseCall("ERR")>>}
        /\ UNCHANGED <<readers, rq, standby, held, oev, heard, used>>
    BY DEF WriteFailed
  <1>3. /\ sk \in Sockets /\ sk.rf \in SUBSET Flags /\ net \in Kernels /\ net.kin \in Seq(Nat)
        /\ tasks \in [TaskKinds -> Nat] /\ calls \subseteq Chains /\ <<>> \notin calls
        /\ got \in Nat
    BY <1>1 DEF Typed, Sockets, Kernels
  <1>4. f \in SUBSET Flags /\ ("SHUT" \in sk.rf => "SHUT" \in f)
    BY <1>3, FlagFacts
  <1>5. new = <<>> \/ (new = net.kin /\ new # <<>>)
    OBVIOUS
  <1>6. got' \in Nat /\ got' <= used.in
    <2>1. got <= used.in /\ Within(net.kin, used.in)
      BY <1>1 DEF Packets
    <2>2. CASE new = <<>>
      BY <2>1, <2>2, <1>2, <1>3
    <2>3. CASE new = net.kin /\ new # <<>>
      <3>1. Len(new) \in 1..Len(new) /\ new[Len(new)] \in Nat /\ Last(new) = new[Len(new)]
        BY <2>3, <1>3 DEF Last
      <3>2. new[Len(new)] <= used.in
        BY <2>1, <2>3, <3>1 DEF Within
      <3> QED BY <2>3, <3>1, <3>2, <1>2
    <2> QED BY <1>5, <2>2, <2>3
  <1> HIDE DEF new, f
  <1>7. /\ sk' \in Sockets /\ sk'.st = sk.st /\ sk'.wf = sk.wf /\ sk'.sb = sk.sb /\ sk'.wt = sk.wt
        /\ "SHUT" \in sk.rf => "SHUT" \in sk'.rf
    BY <1>2, <1>3, <1>4 DEF Sockets
  <1>8. /\ net' \in Kernels /\ net'.kout = net.kout /\ net'.drained = net.drained
        /\ net'.kin = net.kin \/ net'.kin = <<>>
    BY <1>1, <1>2, <1>3, NetReadFacts
  <1>9. Typed'
    <2>1. tasks' \in [TaskKinds -> Nat]
      BY <1>2, <1>3 DEF Scheduled, TaskKinds
    <2>2. calls' \subseteq Chains /\ <<>> \notin calls'
      BY <1>2, <1>3, ClosingChain
    <2> QED BY <1>1, <1>2, <1>6, <1>7, <1>8, <2>1, <2>2 DEF Typed
  <1>10. Doomed'
    BY <1>2, ClosingChain, CallDooms
  <1>11. Packets' /\ InTime'
    <2>1. /\ Rising(rq.q) /\ Rising(standby) /\ Rising(net.kin)
          /\ Ahead(rq.q, standby) /\ Ahead(rq.q, net.kin) /\ Ahead(standby, net.kin)
          /\ Within(rq.q, used.in) /\ Within(standby, used.in) /\ Within(net.kin, used.in)
          /\ rq.q = <<>> => rq.then = <<>>
      BY <1>1 DEF Packets
    <2>2. /\ Rising(<<>>) /\ Ahead(rq.q, <<>>) /\ Ahead(standby, <<>>) /\ Within(<<>>, used.in)
      BY NoneFacts
    <2>3. /\ Rising(net'.kin) /\ Ahead(rq.q, net'.kin) /\ Ahead(standby, net'.kin)
          /\ Within(net'.kin, used.in)
      BY <1>8, <2>1, <2>2
    <2>4. Packets'
      BY <1>2, <1>6, <2>1, <2>3 DEF Packets, Rising, Ahead, Within
    <2> QED BY <1>10, <2>4 DEF InTime
  <1>12. Bytes' /\ EventsInOrder' /\ Happened'
    BY <1>1, <1>2, <1>7, <1>8, BytesFrame, EventsFrame, HappenedFrame
  <1>13. BlockedIsWatched'
    BY <1>1, <1>7, <1>10, <1>12, BlockedFrame
  <1> QED BY <1>9, <1>11, <1>12, <1>13, <1>10 DEF OrderInv

-----------------------------------------------------------------------------
LEMMA StepOrder == OrderInv /\ [Next]_vars => OrderInv' /\ (Doomed => Doomed')
  <1> SUFFICES ASSUME OrderInv, [Next]_vars PROVE OrderInv' /\ (Doomed => Doomed')
    OBVIOUS
  <1>1. CASE Runners
    BY <1>1, ReadTaskKeeps, ErrorEventTaskKeeps, SwapQueuesKeeps, TriggerPacketKeeps, WriteTaskKeeps,
       WriteFailedKeeps DEF Runners
  <1>2. CASE Locked
    BY <1>2, AcquireKeeps, AlreadyClosedKeeps, FlushKeeps, ShutReadKeeps, CloseTellsKeeps,
       ShutdownTellsKeeps DEF Locked
  <1>3. CASE Users
    <2>1. CASE \E n \in 1..2 : Send(n)
      <3>1. PICK n \in 1..2 : Send(n)
        BY <2>1
      <3>2. SendAppend(n) \/ SendDirect(n)
        BY <3>1 DEF Send
      <3> QED BY <3>1, <3>2, SendAppendKeeps, SendDirectKeeps
    <2>2. CASE SendFails
      BY <2>2, SendFailsKeeps
    <2>3. CASE UserCall(CloseCall("OK"))
      BY <2>3, CallFacts, UserCallKeeps
    <2>4. CASE \E flag \in (SUBSET Dirs) \ {{}} : UserCall(ShutdownCall(flag))
      BY <2>4, CallFacts, UserCallKeeps
    <2> QED BY <1>3, <2>1, <2>2, <2>3, <2>4 DEF Users
  <1>4. CASE Observer
    BY <1>4, UpdateKeeps, UpdateErrorKeeps DEF Observer
  <1>5. CASE TellOrdered \/ RemoteSends \/ RemoteDrains \/ RemoteEnds
    BY <1>5, TellOrderedKeeps, RemoteSendsKeeps, RemoteDrainsKeeps, RemoteEndsKeeps
  <1>6. CASE UNCHANGED vars
    <2>1. /\ UNCHANGED <<sk, readers, rq, standby, held, oev, heard, got>>
          /\ UNCHANGED <<calls, tasks, net, used>>
      BY <1>6 DEF vars
    <2> QED BY <2>1, TypedFacts, OnlyScheduled
  <1> QED BY <1>1, <1>2, <1>3, <1>4, <1>5, <1>6 DEF Next

-----------------------------------------------------------------------------
(* What is told to the user, from the invariant.                           *)

LEMMA BytesFollow == ASSUME OrderInv PROVE BytesInOrder
  <1> DEFINE s == net.kout
             t == sk.sb
             a == Len(s)
             b == Len(t)
             d == net.drained
             u == used.out
  <1>1. s \in Seq(Nat) /\ t \in Seq(Nat) /\ a \in Nat /\ b \in Nat /\ d \in Nat
    BY DEF OrderInv, Typed, Kernels, Sockets
  <1>2. /\ \A i \in 1..a : s[i] = d + i
        /\ \A i \in 1..b : t[i] = d + a + i
        /\ u = d + a + b
    BY DEF OrderInv, Bytes
  <1>3. /\ s \o t \in Seq(Nat) /\ Len(s \o t) = a + b
        /\ \A i \in 1..a : (s \o t)[i] = s[i]
        /\ \A i \in 1..b : (s \o t)[a + i] = t[i]
    <2> HIDE DEF s, t
    <2> QED BY <1>1, ConcatIndex
  <1> HIDE DEF s, t, a, b, d, u
  <1>4. u - d = a + b
    BY <1>1, <1>2
  <1>5. \A i \in 1..(a + b) : (s \o t)[i] = d + i
    <2> SUFFICES ASSUME NEW i \in 1..(a + b) PROVE (s \o t)[i] = d + i
      OBVIOUS
    <2>1. CASE i \in 1..a
      BY <2>1, <1>2, <1>3
    <2>2. CASE i \notin 1..a
      <3>1. i - a \in 1..b /\ a + (i - a) = i
        BY <2>2, <1>1
      <3>2. (s \o t)[i] = d + a + (i - a)
        BY <3>1, <1>2, <1>3
      <3>3. d + a + (i - a) = d + i
        BY <1>1
      <3> QED BY <3>2, <3>3
    <2> QED BY <2>1, <2>2
  <1>6. s \o t = [i \in 1..(u - d) |-> d + i]
    <2> DEFINE w == s \o t
    <2> HIDE DEF w
    <2>1. w \in Seq(Nat) /\ Len(w) = a + b
      BY <1>3 DEF w
    <2>2. w = [i \in 1..(a + b) |-> w[i]]
      BY <2>1, SeqIsFunction
    <2>3. \A i \in 1..(a + b) : w[i] = d + i
      BY <1>5 DEF w
    <2>4. w = [i \in 1..(a + b) |-> d + i]
      BY <2>2, <2>3
    <2> QED BY <2>4, <1>4 DEF w
  <1> QED BY <1>6 DEF BytesInOrder, s, t, u, d

LEMMA PacketsFollow == ASSUME OrderInv PROVE PacketsInOrder
  <1>1. Typed /\ InTime
    BY DEF OrderInv
  <1>2. rq.q \in Seq(Nat) /\ standby \in Seq(Nat) /\ net.kin \in Seq(Nat)
    BY <1>1 DEF Typed, Kernels
  <1>3. CASE Doomed
    BY <1>3 DEF Doomed, PacketsInOrder
  <1>4. CASE ~Doomed
    <2>1. Beyond(rq.q, got) /\ Beyond(standby, got) /\ Beyond(net.kin, got)
      BY <1>1, <1>4 DEF InTime
    <2> DEFINE s == rq.q \o standby \o net.kin
    <2>2. s \in Seq(Nat) /\ Beyond(s, got)
      <3>1. rq.q \o standby \in Seq(Nat) /\ Beyond(rq.q \o standby, got)
        BY <1>2, <2>1, Joined, JoinedBounds
      <3> DEFINE w == rq.q \o standby
      <3> HIDE DEF w
      <3>2. w \in Seq(Nat) /\ Beyond(w, got)
        BY <3>1 DEF w
      <3>3. w \o net.kin \in Seq(Nat) /\ Beyond(w \o net.kin, got)
        BY <1>2, <2>1, <3>2, Joined, JoinedBounds
      <3> QED BY <3>3 DEF w
    <2> HIDE DEF s
    <2>3. \A i \in 1..Len(s) : got < s[i] /\ s[i] \in Nat
      BY <2>2 DEF Beyond
    <2>4. got \in Nat
      BY <1>1 DEF Typed
    <2>5. \A p \in Range(s) : \E i \in 1..Len(s) : p = s[i]
      BY <2>2 DEF Range
    <2>6. \A p \in Range(s) : p > got
      BY <2>3, <2>4, <2>5
    <2> QED BY <2>6 DEF PacketsInOrder, s
  <1> QED BY <1>3, <1>4

-----------------------------------------------------------------------------
(* The invariant behind them: bytes and packets follow on each other from  *)
(* queue to queue, the socket is closed whenever something was overtaken,  *)
(* and an end that was told, or waits to be told, has happened.            *)
THEOREM OrderInductive == Spec => []OrderInv
  <1>1. Init => OrderInv
    BY InitOrder
  <1>2. OrderInv /\ [Next]_vars => OrderInv'
    BY StepOrder
  <1> QED BY <1>1, <1>2, PTL DEF Spec

(* What the user sent leaves in order, what arrived is told in order, and  *)
(* no listener hears anything after the end of its direction or after      *)
(* E_CLOSE: with any number of bytes, packets, runners that read at the    *)
(* same time, and calls to close and shutdown.                             *)
THEOREM OrderKeptHolds == Spec => []OrderKept
  <1>1. OrderInv => OrderKept
    BY BytesFollow, PacketsFollow DEF OrderKept, OrderInv
  <1> QED BY <1>1, OrderInductive, PTL

(* While bytes wait in m_sb of an open write side the write timer runs,    *)
(* and the socket is marked to be watched for writing or is being closed.  *)
THEOREM BlockedWriterWatched == Spec => []BlockedIsWatched
  <1>1. OrderInv => BlockedIsWatched
    BY DEF OrderInv
  <1> QED BY <1>1, OrderInductive, PTL

-----------------------------------------------------------------------------
(* The watches.  A queue q of operations on an observer that watches c:     *)
(* which directions are to be watched after its first n operations.         *)

OpSet == [op : {"watch", "unwatch"}, dir : Dirs]
QuietIn(q, m, n, d) == \A k \in m..n : q[k].dir # d
WatchingIn(q, c, n, d) == \/ \E j \in 1..n : q[j] = Op("watch", d) /\ QuietIn(q, j + 1, n, d)
                          \/ d \in c /\ QuietIn(q, 1, n, d)
NoneTwice(q, c) == \A i \in 1..Len(q) : q[i].op = "watch" => ~WatchingIn(q, c, i - 1, q[i].dir)

(* What the flag of a direction says of the queue.                          *)
Marked(q, c, f, d) == /\ WatchingIn(q, c, Len(q), d) => "WATCH" \in f
                      /\ "SHUT" \in f => "WATCH" \notin f
(* A direction marked WATCH is watched, or its task is scheduled.           *)
Kept(q, c, f, d, n) ==
  "WATCH" \in f => WatchingIn(q, c, Len(q), d) \/ (QuietIn(q, 1, Len(q), d) /\ n > 0)

LEMMA WatchingHere ==
  /\ \A n, d : Watching(n, d) <=> WatchingIn(ops, ctx, n, d)
  /\ \A m, n, d : Quiet(m, n, d) <=> QuietIn(ops, m, n, d)
  /\ NoDoubleWatch <=> NoneTwice(ops, ctx)
  BY DEF Watching, WatchingIn, Quiet, QuietIn, NoDoubleWatch, NoneTwice

LEMMA OpFacts ==
  \A o \in {"watch", "unwatch"}, d \in Dirs :
    Op(o, d) \in OpSet /\ Op(o, d).op = o /\ Op(o, d).dir = d
  BY DEF Op, OpSet

LEMMA OpIs == \A e \in OpSet : e = Op(e.op, e.dir)
  BY DEF Op, OpSet

(* One operation further. *)
LEMMA WatchingNext ==
  ASSUME NEW q \in Seq(OpSet), NEW c, NEW n \in 1..Len(q), NEW d \in Dirs
  PROVE  /\ q[n].dir = d => /\ WatchingIn(q, c, n, d) <=> q[n].op = "watch"
                            /\ ~QuietIn(q, 1, n, d)
         /\ q[n].dir # d => /\ WatchingIn(q, c, n, d) <=> WatchingIn(q, c, n - 1, d)
                            /\ QuietIn(q, 1, n, d) <=> QuietIn(q, 1, n - 1, d)
  <1>1. n \in Nat \ {0} /\ Len(q) \in Nat /\ q[n] \in OpSet
    OBVIOUS
  <1>2. q[n].dir = d => ~QuietIn(q, 1, n, d)
    <2>1. n \in 1..n
      BY <1>1
    <2> QED BY <2>1 DEF QuietIn
  <1>3. ASSUME q[n].dir = d, q[n].op = "watch" PROVE WatchingIn(q, c, n, d)
    <2>1. q[n] = Op("watch", d) /\ n \in 1..n
      BY <1>1, <1>3, OpIs
    <2>2. (n + 1)..n = {}
      BY <1>1
    <2> QED BY <2>1, <2>2 DEF WatchingIn, QuietIn
  <1>4. ASSUME q[n].dir = d, WatchingIn(q, c, n, d) PROVE q[n].op = "watch"
    <2>1. PICK j \in 1..n : q[j] = Op("watch", d) /\ QuietIn(q, j + 1, n, d)
      BY <1>2, <1>4 DEF WatchingIn
    <2>2. j # n => n \in (j + 1)..n
      BY <1>1
    <2>3. j = n
      BY <2>1, <2>2, <1>4 DEF QuietIn
    <2> QED BY <2>1, <2>3, OpFacts
  <1>5. ASSUME q[n].dir # d
        PROVE  \A m \in 1..n : QuietIn(q, m, n, d) <=> QuietIn(q, m, n - 1, d)
    <2> TAKE m \in 1..n
    <2>1. \A k \in m..n : k = n \/ k \in m..(n - 1)
      BY <1>1
    <2>2. \A k \in m..(n - 1) : k \in m..n
      BY <1>1
    <2> QED BY <2>1, <2>2, <1>5 DEF QuietIn
  <1>6. ASSUME q[n].dir # d PROVE WatchingIn(q, c, n, d) <=> WatchingIn(q, c, n - 1, d)
    <2>1. \A j \in 1..n : q[j] = Op("watch", d) => j \in 1..(n - 1)
      <3> TAKE j \in 1..n
      <3> HAVE q[j] = Op("watch", d)
      <3>1. j # n
        BY <1>6, OpFacts
      <3> QED BY <3>1, <1>1
    <2>2. \A j \in 1..(n - 1) : j \in 1..n /\ j + 1 \in 1..n
      BY <1>1
    <2>3. 1 \in 1..n
      BY <1>1
    <2>4. \A m \in 1..n : QuietIn(q, m, n, d) <=> QuietIn(q, m, n - 1, d)
      BY <1>5, <1>6
    <2>5. \A j \in 1..n : q[j] = Op("watch", d) =>
             (QuietIn(q, j + 1, n, d) <=> QuietIn(q, j + 1, n - 1, d))
      BY <2>1, <2>2, <2>4
    <2> QED BY <2>1, <2>2, <2>3, <2>4, <2>5 DEF WatchingIn
  <1>7. ASSUME q[n].dir # d PROVE QuietIn(q, 1, n, d) <=> QuietIn(q, 1, n - 1, d)
    <2>1. 1 \in 1..n
      BY <1>1
    <2> QED BY <2>1, <1>5, <1>7
  <1> QED BY <1>2, <1>3, <1>4, <1>6, <1>7

(* An operation is pushed. *)
LEMMA Pushed ==
  ASSUME NEW q \in Seq(OpSet), NEW c, NEW e \in OpSet
  PROVE  LET r == q \o <<e>> IN
         /\ r \in Seq(OpSet) /\ Len(r) = Len(q) + 1 /\ r[Len(r)] = e
         /\ \A i \in 1..Len(q) : r[i] = q[i]
         /\ \A n \in 0..Len(q), d \in Dirs :
              /\ WatchingIn(r, c, n, d) <=> WatchingIn(q, c, n, d)
              /\ QuietIn(r, 1, n, d) <=> QuietIn(q, 1, n, d)
         /\ \A d \in Dirs :
              /\ d = e.dir => /\ WatchingIn(r, c, Len(r), d) <=> e.op = "watch"
              /\ d # e.dir => /\ WatchingIn(r, c, Len(r), d) <=> WatchingIn(q, c, Len(q), d)
                              /\ QuietIn(r, 1, Len(r), d) <=> QuietIn(q, 1, Len(q), d)
  <1> DEFINE r == q \o <<e>>
             m == Len(q)
  <1>1. /\ m \in Nat /\ r \in Seq(OpSet) /\ Len(r) = m + 1 /\ r[m + 1] = e
        /\ \A i \in 1..m : r[i] = q[i]
    OBVIOUS
  <1> HIDE DEF r, m
  <1>2. ASSUME NEW n \in 0..m, NEW k \in Nat \ {0}, NEW d
        PROVE  QuietIn(r, k, n, d) <=> QuietIn(q, k, n, d)
    <2>1. \A i \in k..n : i \in 1..m
      BY <1>1
    <2> QED BY <2>1, <1>1 DEF QuietIn
  <1>3. ASSUME NEW n \in 0..m, NEW d PROVE WatchingIn(r, c, n, d) <=> WatchingIn(q, c, n, d)
    <2>1. \A j \in 1..n : j \in 1..m /\ j + 1 \in Nat \ {0}
      BY <1>1
    <2>2. 1 \in Nat \ {0}
      OBVIOUS
    <2> QED BY <2>1, <2>2, <1>1, <1>2 DEF WatchingIn
  <1>4. m + 1 \in 1..Len(r) /\ (m + 1) - 1 = m /\ m \in 0..m /\ 1 \in Nat \ {0}
    BY <1>1
  <1>5. ASSUME NEW d \in Dirs
        PROVE  /\ d = e.dir => (WatchingIn(r, c, Len(r), d) <=> e.op = "watch")
               /\ d # e.dir => /\ WatchingIn(r, c, Len(r), d) <=> WatchingIn(q, c, m, d)
                               /\ QuietIn(r, 1, Len(r), d) <=> QuietIn(q, 1, m, d)
    <2>1. /\ r[m + 1].dir = d => (WatchingIn(r, c, m + 1, d) <=> r[m + 1].op = "watch")
          /\ r[m + 1].dir # d => /\ WatchingIn(r, c, m + 1, d) <=> WatchingIn(r, c, (m + 1) - 1, d)
                                 /\ QuietIn(r, 1, m + 1, d) <=> QuietIn(r, 1, (m + 1) - 1, d)
      BY <1>1, <1>4, WatchingNext
    <2>2. WatchingIn(r, c, m, d) <=> WatchingIn(q, c, m, d)
      BY <1>3, <1>4
    <2>3. QuietIn(r, 1, m, d) <=> QuietIn(q, 1, m, d)
      BY <1>2, <1>4
    <2> QED BY <2>1, <2>2, <2>3, <1>1, <1>4
  <1>6. \A n \in 0..m, d \in Dirs :
              /\ WatchingIn(r, c, n, d) <=> WatchingIn(q, c, n, d)
              /\ QuietIn(r, 1, n, d) <=> QuietIn(q, 1, n, d)
    BY <1>2, <1>3, <1>4
  <1>7. r[Len(r)] = e
    BY <1>1
  <1> QED BY <1>1, <1>5, <1>6, <1>7 DEF r, m

LEMMA PushedTwice ==
  ASSUME NEW q \in Seq(OpSet), NEW c, NEW e \in OpSet, NoneTwice(q, c),
         e.op = "watch" => ~WatchingIn(q, c, Len(q), e.dir)
  PROVE  NoneTwice(q \o <<e>>, c)
  <1> DEFINE r == q \o <<e>>
             m == Len(q)
  <1>1. /\ r \in Seq(OpSet) /\ Len(r) = m + 1 /\ r[m + 1] = e
        /\ \A i \in 1..m : r[i] = q[i]
        /\ \A n \in 0..m, d \in Dirs : WatchingIn(r, c, n, d) <=> WatchingIn(q, c, n, d)
    BY Pushed
  <1>2. m \in Nat /\ q \in Seq(OpSet)
    OBVIOUS
  <1> HIDE DEF r, m
  <1>3. SUFFICES ASSUME NEW i \in 1..(m + 1), r[i].op = "watch"
                 PROVE  ~WatchingIn(r, c, i - 1, r[i].dir)
    BY <1>1 DEF NoneTwice, r
  <1>4. r[i] \in OpSet /\ r[i].dir \in Dirs
    <2>1. i \in 1..Len(r)
      BY <1>1
    <2>2. r[i] \in OpSet
      BY <2>1, <1>1
    <2> QED BY <2>2 DEF OpSet
  <1>5. i - 1 \in 0..m
    BY <1>2
  <1>6. WatchingIn(r, c, i - 1, r[i].dir) <=> WatchingIn(q, c, i - 1, r[i].dir)
    BY <1>1, <1>4, <1>5
  <1>7. CASE i \in 1..m
    BY <1>1, <1>3, <1>6, <1>7 DEF NoneTwice, m
  <1>8. CASE i = m + 1
    <2>1. i - 1 = m
      BY <1>2, <1>8
    <2> QED BY <2>1, <1>1, <1>3, <1>6, <1>8 DEF m
  <1> QED BY <1>2, <1>7, <1>8

(* The other direction sees nothing of a push. *)
Same(q, r, c, d) == /\ WatchingIn(r, c, Len(r), d) <=> WatchingIn(q, c, Len(q), d)
                    /\ QuietIn(r, 1, Len(r), d) <=> QuietIn(q, 1, Len(q), d)

LEMMA SameFacts ==
  ASSUME NEW q, NEW r, NEW c, NEW d, Same(q, r, c, d)
  PROVE  /\ \A f : Marked(q, c, f, d) => Marked(r, c, f, d)
         /\ \A f, n : Kept(q, c, f, d, n) => Kept(r, c, f, d, n)
  BY DEF Same, Marked, Kept

LEMMA EmptyPush == \A q \in Seq(OpSet) : q \o <<>> = q
  OBVIOUS

LEMMA EndStep ==
  ASSUME NEW q \in Seq(OpSet), NEW c, NEW f \in SUBSET Flags, NEW d \in Dirs,
         NoneTwice(q, c), Marked(q, c, f, d)
  PROVE  LET r == q \o EndOps(f, d) IN
         /\ r \in Seq(OpSet) /\ NoneTwice(r, c)
         /\ Marked(r, c, EndFlag(f), d) /\ Marked(r, c, EndFlag(f) \cup {"SHUT"}, d)
         /\ "WATCH" \notin EndFlag(f)
         /\ \A e \in Dirs : e # d => Same(q, r, c, e)
  <1> DEFINE r == q \o EndOps(f, d)
  <1>1. "WATCH" \notin EndFlag(f) /\ "WATCH" \notin EndFlag(f) \cup {"SHUT"}
    BY DEF EndFlag
  <1>2. CASE "WATCH" \in f
    <2> DEFINE e == Op("unwatch", d)
    <2>1. e \in OpSet /\ e.op = "unwatch" /\ e.dir = d /\ e.op # "watch"
      BY OpFacts
    <2>2. r = q \o <<e>>
      BY <1>2 DEF EndOps
    <2> HIDE DEF e, r
    <2>3. /\ r \in Seq(OpSet) /\ ~WatchingIn(r, c, Len(r), d)
          /\ \A b \in Dirs : b # d => Same(q, r, c, b)
      BY <2>1, <2>2, Pushed DEF Same
    <2>4. NoneTwice(r, c)
      BY <2>1, <2>2, PushedTwice
    <2>5. r \in Seq(OpSet) /\ NoneTwice(r, c)
          /\ Marked(r, c, EndFlag(f), d) /\ Marked(r, c, EndFlag(f) \cup {"SHUT"}, d)
      BY <2>3, <2>4, <1>1 DEF Marked
    <2> QED BY <2>3, <2>5, <1>1 DEF r
  <1>3. CASE "WATCH" \notin f
    <2>1. r = q
      BY <1>3, EmptyPush DEF EndOps
    <2>2. Marked(q, c, EndFlag(f), d) /\ Marked(q, c, EndFlag(f) \cup {"SHUT"}, d)
      BY <1>1, <1>3 DEF Marked
    <2>3. \A b \in Dirs : Same(q, q, c, b)
      BY DEF Same
    <2> QED BY <2>1, <2>2, <2>3, <1>1
  <1> QED BY <1>2, <1>3

LEMMA BeginStep ==
  ASSUME NEW q \in Seq(OpSet), NEW c, NEW f \in SUBSET Flags, NEW d \in Dirs,
         NoneTwice(q, c), Marked(q, c, f, d)
  PROVE  LET r == q \o BeginOps(f, d) IN
         /\ r \in Seq(OpSet) /\ NoneTwice(r, c)
         /\ Marked(r, c, BeginFlag(f), d)
         /\ \A n : Kept(q, c, f, d, n) => Kept(r, c, BeginFlag(f), d, n)
         /\ \A e \in Dirs : e # d => Same(q, r, c, e)
  <1> DEFINE r == q \o BeginOps(f, d)
  <1>1. CASE "SHUT" \in f \/ "WATCH" \in f
    <2>1. r = q /\ BeginFlag(f) = f
      BY <1>1, EmptyPush DEF BeginOps, BeginFlag
    <2>2. \A b \in Dirs : Same(q, q, c, b)
      BY DEF Same
    <2> QED BY <2>1, <2>2
  <1>2. CASE "SHUT" \notin f /\ "WATCH" \notin f
    <2> DEFINE e == Op("watch", d)
    <2>1. e \in OpSet /\ e.op = "watch" /\ e.dir = d
      BY OpFacts
    <2>2. r = q \o <<e>> /\ "WATCH" \in BeginFlag(f) /\ "SHUT" \notin BeginFlag(f)
      BY <1>2 DEF BeginOps, BeginFlag
    <2> HIDE DEF e, r
    <2>3. /\ r \in Seq(OpSet) /\ WatchingIn(r, c, Len(r), d)
          /\ \A b \in Dirs : b # d => Same(q, r, c, b)
      BY <2>1, <2>2, Pushed DEF Same
    <2>4. ~WatchingIn(q, c, Len(q), d)
      BY <1>2 DEF Marked
    <2>5. NoneTwice(r, c)
      BY <2>1, <2>2, <2>4, PushedTwice
    <2>6. Marked(r, c, BeginFlag(f), d) /\ \A n : Kept(r, c, BeginFlag(f), d, n)
      BY <2>2, <2>3 DEF Marked, Kept
    <2> QED BY <2>3, <2>5, <2>6 DEF r
  <1> QED BY <1>1, <1>2

(* What a section does with the flag f of a direction and the queue q: it   *)
(* ends the watch, begins it again, or begins it.                           *)
Finishes(q, f, d, r, g) ==
  \/ r = q \o EndOps(f, d) /\ g \in {EndFlag(f), EndFlag(f) \cup {"SHUT"}}
  \/ r = q \o EndOps(f, d) \o BeginOps(EndFlag(f), d) /\ g = BeginFlag(EndFlag(f))
Begins(q, f, d, r, g) == r = q \o BeginOps(f, d) /\ g = BeginFlag(f)

LEMMA EndsKeep ==
  ASSUME NEW q \in Seq(OpSet), NEW c, NEW f \in SUBSET Flags, NEW d \in Dirs,
         NoneTwice(q, c), Marked(q, c, f, d), NEW r, NEW g, Finishes(q, f, d, r, g)
  PROVE  /\ r \in Seq(OpSet) /\ NoneTwice(r, c) /\ Marked(r, c, g, d)
         /\ \A n : Kept(r, c, g, d, n)
         /\ \A e \in Dirs : e # d => Same(q, r, c, e)
  <1> DEFINE s == q \o EndOps(f, d)
             h == EndFlag(f)
  <1>1. /\ s \in Seq(OpSet) /\ NoneTwice(s, c)
        /\ Marked(s, c, h, d) /\ Marked(s, c, h \cup {"SHUT"}, d)
        /\ "WATCH" \notin h /\ "WATCH" \notin h \cup {"SHUT"}
        /\ \A e \in Dirs : e # d => Same(q, s, c, e)
    BY EndStep
  <1>2. h \in SUBSET Flags
    BY FlagFacts
  <1>3. \A n : Kept(s, c, h, d, n) /\ Kept(s, c, h \cup {"SHUT"}, d, n)
    BY <1>1 DEF Kept
  <1>4. \/ r = s /\ g \in {h, h \cup {"SHUT"}}
        \/ r = s \o BeginOps(h, d) /\ g = BeginFlag(h)
    BY DEF Finishes
  <1> HIDE DEF s, h
  <1>5. CASE r = s /\ g \in {h, h \cup {"SHUT"}}
    BY <1>1, <1>3, <1>5
  <1>6. CASE r = s \o BeginOps(h, d) /\ g = BeginFlag(h)
    <2>1. /\ r \in Seq(OpSet) /\ NoneTwice(r, c) /\ Marked(r, c, g, d)
          /\ \A n : Kept(s, c, h, d, n) => Kept(r, c, g, d, n)
          /\ \A e \in Dirs : e # d => Same(s, r, c, e)
      BY <1>1, <1>2, <1>6, BeginStep
    <2>2. \A e \in Dirs : e # d => Same(q, r, c, e)
      BY <1>1, <2>1 DEF Same
    <2> QED BY <2>1, <2>2, <1>3
  <1> QED BY <1>4, <1>5, <1>6

-----------------------------------------------------------------------------
(* What is watched: the queue, the contexts and the flags of both           *)
(* directions fit together.                                                 *)
Watched ==
  /\ ops \in Seq(OpSet)
  /\ ctx \subseteq Dirs /\ mask \subseteq ctx /\ (poll # "epoll" => mask = {})
  /\ NoneTwice(ops, ctx)
  /\ Marked(ops, ctx, sk.rf, "R") /\ Marked(ops, ctx, sk.wf, "W")
  /\ Kept(ops, ctx, sk.rf, "R", tasks["read"]) \/ Doomed
  /\ Kept(ops, ctx, sk.wf, "W", tasks["write"]) \/ Doomed

LEMMA KeptMore ==
  ASSUME NEW q, NEW c, NEW f, NEW d, NEW n, NEW m, n > 0 => m > 0, Kept(q, c, f, d, n)
  PROVE  Kept(q, c, f, d, m)
  BY DEF Kept

LEMMA WatchedFrame ==
  ASSUME Watched, UNCHANGED <<poll, ops, ctx>>, mask' \in {mask, {}},
         sk'.rf = sk.rf, sk'.wf = sk.wf,
         tasks["read"] > 0 => tasks'["read"] > 0, tasks["write"] > 0 => tasks'["write"] > 0,
         Doomed => Doomed'
  PROVE  Watched'
  BY KeptMore DEF Watched

(* One direction changes. *)
LEMMA ReadSide ==
  ASSUME Typed, Watched, UNCHANGED <<poll, ctx, mask>>, sk'.wf = sk.wf,
         tasks["write"] > 0 => tasks'["write"] > 0, Doomed => Doomed',
         \/ Finishes(ops, sk.rf, "R", ops', sk'.rf)
         \/ /\ Begins(ops, sk.rf, "R", ops', sk'.rf)
            /\ tasks["read"] > 0 => tasks'["read"] > 0
  PROVE  Watched'
  <1>1. /\ ops \in Seq(OpSet) /\ NoneTwice(ops, ctx)
        /\ Marked(ops, ctx, sk.rf, "R") /\ Marked(ops, ctx, sk.wf, "W")
        /\ Kept(ops, ctx, sk.rf, "R", tasks["read"]) \/ Doomed
        /\ Kept(ops, ctx, sk.wf, "W", tasks["write"]) \/ Doomed
    BY DEF Watched
  <1>2. sk.rf \in SUBSET Flags /\ "R" \in Dirs /\ "W" \in Dirs
    BY DEF Typed, Sockets, Dirs
  <1>3. /\ ops' \in Seq(OpSet) /\ NoneTwice(ops', ctx) /\ Marked(ops', ctx, sk'.rf, "R")
        /\ Kept(ops', ctx, sk'.rf, "R", tasks'["read"]) \/ Doomed'
        /\ Same(ops, ops', ctx, "W")
    <2>1. CASE Finishes(ops, sk.rf, "R", ops', sk'.rf)
      BY <1>1, <1>2, <2>1, EndsKeep
    <2>2. CASE Begins(ops, sk.rf, "R", ops', sk'.rf) /\ (tasks["read"] > 0 => tasks'["read"] > 0)
      <3>1. /\ ops' \in Seq(OpSet) /\ NoneTwice(ops', ctx) /\ Marked(ops', ctx, sk'.rf, "R")
            /\ Same(ops, ops', ctx, "W")
            /\ \A n : Kept(ops, ctx, sk.rf, "R", n) => Kept(ops', ctx, sk'.rf, "R", n)
        BY <1>1, <1>2, <2>2, BeginStep DEF Begins
      <3> QED BY <3>1, <1>1, <2>2, KeptMore
    <2> QED BY <2>1, <2>2
  <1>4. /\ Marked(ops', ctx, sk'.wf, "W")
        /\ Kept(ops', ctx, sk'.wf, "W", tasks'["write"]) \/ Doomed'
    BY <1>1, <1>3, SameFacts, KeptMore
  <1> QED BY <1>3, <1>4 DEF Watched

LEMMA WriteSide ==
  ASSUME Typed, Watched, UNCHANGED <<poll, ctx>>, mask' \in {mask, {}}, sk'.rf = sk.rf,
         tasks["read"] > 0 => tasks'["read"] > 0, Doomed => Doomed',
         \/ Finishes(ops, sk.wf, "W", ops', sk'.wf)
         \/ /\ Begins(ops, sk.wf, "W", ops', sk'.wf)
            /\ tasks["write"] > 0 => tasks'["write"] > 0
  PROVE  Watched'
  <1>1. /\ ops \in Seq(OpSet) /\ NoneTwice(ops, ctx)
        /\ Marked(ops, ctx, sk.rf, "R") /\ Marked(ops, ctx, sk.wf, "W")
        /\ Kept(ops, ctx, sk.rf, "R", tasks["read"]) \/ Doomed
        /\ Kept(ops, ctx, sk.wf, "W", tasks["write"]) \/ Doomed
    BY DEF Watched
  <1>2. sk.wf \in SUBSET Flags /\ "R" \in Dirs /\ "W" \in Dirs
    BY DEF Typed, Sockets, Dirs
  <1>3. /\ ops' \in Seq(OpSet) /\ NoneTwice(ops', ctx) /\ Marked(ops', ctx, sk'.wf, "W")
        /\ Kept(ops', ctx, sk'.wf, "W", tasks'["write"]) \/ Doomed'
        /\ Same(ops, ops', ctx, "R")
    <2>1. CASE Finishes(ops, sk.wf, "W", ops', sk'.wf)
      BY <1>1, <1>2, <2>1, EndsKeep
    <2>2. CASE Begins(ops, sk.wf, "W", ops', sk'.wf) /\ (tasks["write"] > 0 => tasks'["write"] > 0)
      <3>1. /\ ops' \in Seq(OpSet) /\ NoneTwice(ops', ctx) /\ Marked(ops', ctx, sk'.wf, "W")
            /\ Same(ops, ops', ctx, "R")
            /\ \A n : Kept(ops, ctx, sk.wf, "W", n) => Kept(ops', ctx, sk'.wf, "W", n)
        BY <1>1, <1>2, <2>2, BeginStep DEF Begins
      <3> QED BY <3>1, <1>1, <2>2, KeptMore
    <2> QED BY <2>1, <2>2
  <1>4. /\ Marked(ops', ctx, sk'.rf, "R")
        /\ Kept(ops', ctx, sk'.rf, "R", tasks'["read"]) \/ Doomed'
    BY <1>1, <1>3, SameFacts, KeptMore
  <1> QED BY <1>3, <1>4 DEF Watched

-----------------------------------------------------------------------------
(* The observer processes the queue.                                       *)

(* A set of naturals has a least element: the induction of these proofs.    *)
LEMMA LeastNatural ==
  ASSUME NEW T \in SUBSET Nat, T # {}
  PROVE  \E x \in T : \A y \in T : x <= y
  <1>1. PICK R : R = OpToRel(<, Nat)
    OBVIOUS
  <1>2. IsWellFoundedOn(R, Nat)
    BY <1>1, NatLessThanWellFounded
  <1>3. PICK x \in T : \A y \in T : ~(<<y, x>> \in R)
    BY <1>2, WFMin
  <1>4. \A y \in T : y < x => <<y, x>> \in R
    BY <1>1 DEF OpToRel
  <1>5. x \in Nat /\ \A y \in T : y \in Nat
    OBVIOUS
  <1>6. \A y \in T : ~(y < x)
    BY <1>3, <1>4
  <1>7. \A y \in T : x <= y
    BY <1>5, <1>6
  <1> QED BY <1>7

(* What holds of 0 and goes from n to n + 1 holds up to N. *)
LEMMA UpTo ==
  ASSUME NEW N \in Nat, NEW H \in SUBSET Nat, 0 \in H,
         \A n \in Nat : n < N /\ n \in H => n + 1 \in H
  PROVE  \A n \in 0..N : n \in H
  <1> SUFFICES ASSUME NEW m \in 0..N, m \notin H PROVE FALSE
    OBVIOUS
  <1> DEFINE T == {n \in 0..N : n \notin H}
  <1>1. T \in SUBSET Nat /\ T # {}
    OBVIOUS
  <1> HIDE DEF T
  <1>2. PICK x \in T : \A y \in T : x <= y
    BY <1>1, LeastNatural
  <1>3. x \in 0..N /\ x \notin H /\ x # 0
    BY <1>2 DEF T
  <1>4. x - 1 \in Nat /\ x - 1 < N /\ x - 1 \in 0..N /\ (x - 1) + 1 = x /\ ~(x <= x - 1)
    BY <1>3
  <1>5. x - 1 \in H
    BY <1>2, <1>4 DEF T
  <1> QED BY <1>3, <1>4, <1>5

Observing == [ctx : SUBSET Dirs, mask : SUBSET Dirs]
(* epoll fails on a closed descriptor. *)
Works == ~(poll = "epoll" /\ sk.st = "CLOSED")
Sound(o) == /\ o \in Observing /\ o.mask \subseteq o.ctx
            /\ poll # "epoll" => o.mask = {}

LEMMA UnwatchFacts ==
  ASSUME poll \in PollTypes, NEW o, Sound(o), NEW d \in Dirs
  PROVE  /\ Sound(Unwatch(o, d)) /\ Unwatch(o, d).ctx \subseteq o.ctx \ {d}
         /\ Works => Unwatch(o, d).ctx = o.ctx \ {d}
  <1>1. CASE poll = "epoll"
    BY <1>1 DEF Unwatch, EpollUnwatch, CtxUnwatch, Sound, Observing, Works
  <1>2. CASE poll = "select"
    BY <1>2 DEF Unwatch, SelectUnwatch, CtxUnwatch, Sound, Observing, Works
  <1>3. CASE poll = "wpoll"
    BY <1>3 DEF Unwatch, WpollUnwatch, CtxUnwatch, Sound, Observing, Works
  <1> QED BY <1>1, <1>2, <1>3 DEF PollTypes

LEMMA WatchFacts ==
  ASSUME poll \in PollTypes, NEW o, Sound(o), NEW d \in Dirs
  PROVE  /\ Sound(Watch(o, d)) /\ Watch(o, d).ctx \subseteq o.ctx \cup {d}
         /\ Works => Watch(o, d).ctx = o.ctx \cup {d}
  <1>1. CASE poll = "epoll"
    BY <1>1 DEF Watch, EpollWatch, CtxWatch, Sound, Observing, Works
  <1>2. CASE poll = "select"
    BY <1>2 DEF Watch, SelectWatch, CtxWatch, Sound, Observing, Works
  <1>3. CASE poll = "wpoll"
    BY <1>3 DEF Watch, WpollWatch, CtxWatch, Sound, Observing, Works
  <1> QED BY <1>1, <1>2, <1>3 DEF PollTypes

(* The recursion of Processed, as far as n. *)
Steps(f, n) == f = [i \in 0..n |-> IF i = 0 THEN Observed ELSE ApplyOp(f[i - 1], ops[i])]

LEMMA StepsExist ==
  ASSUME ops \in Seq(OpSet) PROVE \E f : Steps(f, Len(ops))
  <1> DEFINE H == {n \in Nat : \E f : Steps(f, n)}
  <1>1. H \in SUBSET Nat
    OBVIOUS
  <1>2. 0 \in H
    <2> DEFINE f == [i \in 0..0 |-> Observed]
    <2>1. f = [i \in 0..0 |-> IF i = 0 THEN Observed ELSE ApplyOp(f[i - 1], ops[i])]
      OBVIOUS
    <2>2. Steps(f, 0)
      BY <2>1 DEF Steps
    <2> QED BY <2>2
  <1>3. ASSUME NEW n \in Nat, n \in H PROVE n + 1 \in H
    <2>1. PICK f : Steps(f, n)
      BY <1>3
    <2> DEFINE g == [i \in 0..(n + 1) |-> IF i = n + 1 THEN ApplyOp(f[n], ops[n + 1]) ELSE f[i]]
    <2>2. ASSUME NEW i \in 0..(n + 1)
          PROVE  g[i] = IF i = 0 THEN Observed ELSE ApplyOp(g[i - 1], ops[i])
      <3>1. CASE i = n + 1
        <4>1. g[i] = ApplyOp(f[n], ops[n + 1]) /\ i # 0 /\ i - 1 = n
          BY <3>1
        <4>2. g[n] = f[n]
          OBVIOUS
        <4> QED BY <4>1, <4>2, <3>1
      <3>2. CASE i # n + 1
        <4>1. i \in 0..n /\ g[i] = f[i]
          BY <3>2
        <4>2. f[i] = IF i = 0 THEN Observed ELSE ApplyOp(f[i - 1], ops[i])
          BY <2>1, <4>1 DEF Steps
        <4>3. i # 0 => g[i - 1] = f[i - 1]
          BY <4>1
        <4> QED BY <4>1, <4>2, <4>3
      <3> QED BY <3>1, <3>2
    <2>3. Steps(g, n + 1)
      BY <2>2 DEF Steps
    <2> HIDE DEF g
    <2> QED BY <2>3
  <1> HIDE DEF H
  <1>4. \A n \in 0..Len(ops) : n \in H
    BY <1>1, <1>2, <1>3, UpTo
  <1>5. Len(ops) \in 0..Len(ops)
    OBVIOUS
  <1> QED BY <1>4, <1>5 DEF H

LEMMA ProcessedSteps ==
  ASSUME ops \in Seq(OpSet)
  PROVE  \E f : Steps(f, Len(ops)) /\ Processed = f[Len(ops)]
  <1> DEFINE f == CHOOSE f : f = [i \in 0..Len(ops) |->
                                   IF i = 0 THEN Observed ELSE ApplyOp(f[i - 1], ops[i])]
  <1>1. Steps(f, Len(ops))
    BY StepsExist DEF Steps
  <1>2. Processed = f[Len(ops)]
    BY DEF Processed
  <1> QED BY <1>1, <1>2

(* The context after the queue is what the queue says, unless epoll has     *)
(* lost the descriptor.                                                     *)
LEMMA ProcessedFacts ==
  ASSUME poll \in PollTypes, Watched
  PROVE  /\ Sound(Processed)
         /\ \A d \in Dirs : /\ d \in Processed.ctx => WatchingIn(ops, ctx, Len(ops), d)
                            /\ Works /\ WatchingIn(ops, ctx, Len(ops), d) => d \in Processed.ctx
  <1>1. ops \in Seq(OpSet) /\ Len(ops) \in Nat
    BY DEF Watched
  <1>2. PICK f : Steps(f, Len(ops)) /\ Processed = f[Len(ops)]
    BY <1>1, ProcessedSteps
  <1> DEFINE Good(n) ==
               /\ Sound(f[n])
               /\ \A d \in Dirs : /\ d \in f[n].ctx => WatchingIn(ops, ctx, n, d)
                                  /\ Works /\ WatchingIn(ops, ctx, n, d) => d \in f[n].ctx
             H == {n \in Nat : Good(n)}
  <1>3. f[0] = Observed /\ \A n \in Nat : n < Len(ops) => f[n + 1] = ApplyOp(f[n], ops[n + 1])
    <2>1. f[0] = Observed
      BY <1>1, <1>2 DEF Steps
    <2>2. ASSUME NEW n \in Nat, n < Len(ops) PROVE f[n + 1] = ApplyOp(f[n], ops[n + 1])
      <3>1. n + 1 \in 0..Len(ops) /\ n + 1 # 0 /\ (n + 1) - 1 = n
        BY <1>1, <2>2
      <3> QED BY <3>1, <1>2 DEF Steps
    <2> QED BY <2>1, <2>2
  <1>4. Good(0)
    <2>1. Observed.ctx = ctx /\ Observed.mask = mask /\ Observed = [ctx |-> ctx, mask |-> mask]
      BY DEF Observed
    <2>2. Sound(Observed)
      BY <2>1 DEF Sound, Watched, Observing
    <2>3. 1..0 = {}
      OBVIOUS
    <2>4. \A d : WatchingIn(ops, ctx, 0, d) <=> d \in ctx
      BY <2>3 DEF WatchingIn, QuietIn
    <2> QED BY <2>1, <2>2, <2>4, <1>3
  <1>5. ASSUME NEW n \in Nat, n < Len(ops), Good(n) PROVE Good(n + 1)
    <2> DEFINE o == f[n]
               e == ops[n + 1]
               p == f[n + 1]
    <2>1. n + 1 \in 1..Len(ops) /\ (n + 1) - 1 = n
      BY <1>1, <1>5
    <2>2. e \in OpSet /\ e.dir \in Dirs /\ e.op \in {"watch", "unwatch"}
      <3>1. e \in OpSet
        BY <2>1, <1>1
      <3> QED BY <3>1 DEF OpSet
    <2>3. p = ApplyOp(o, e) /\ Sound(o)
      BY <1>3, <1>5
    <2>4. \A d \in Dirs :
            /\ e.dir = d => (WatchingIn(ops, ctx, n + 1, d) <=> e.op = "watch")
            /\ e.dir # d => (WatchingIn(ops, ctx, n + 1, d) <=> WatchingIn(ops, ctx, n, d))
      BY <2>1, <1>1, WatchingNext
    <2>5. \A d \in Dirs : /\ d \in o.ctx => WatchingIn(ops, ctx, n, d)
                          /\ Works /\ WatchingIn(ops, ctx, n, d) => d \in o.ctx
      BY <1>5
    <2> HIDE DEF o, e, p
    <2>6. /\ Sound(p)
          /\ \A d \in Dirs : /\ d \in p.ctx => WatchingIn(ops, ctx, n + 1, d)
                             /\ Works /\ WatchingIn(ops, ctx, n + 1, d) => d \in p.ctx
      <3>1. CASE e.op = "watch"
        <4>1. p = Watch(o, e.dir)
          BY <2>3, <3>1 DEF ApplyOp
        <4>2. /\ Sound(p) /\ p.ctx \subseteq o.ctx \cup {e.dir}
              /\ Works => p.ctx = o.ctx \cup {e.dir}
          <5>1. \A d \in Dirs : /\ Sound(Watch(o, d)) /\ Watch(o, d).ctx \subseteq o.ctx \cup {d}
                                /\ Works => Watch(o, d).ctx = o.ctx \cup {d}
            BY <2>3, WatchFacts
          <5> QED BY <4>1, <5>1, <2>2
        <4> QED BY <4>2, <2>2, <2>4, <2>5, <3>1
      <3>2. CASE e.op = "unwatch"
        <4>1. p = Unwatch(o, e.dir)
          BY <2>3, <3>2 DEF ApplyOp
        <4>2. /\ Sound(p) /\ p.ctx \subseteq o.ctx \ {e.dir}
              /\ Works => p.ctx = o.ctx \ {e.dir}
          <5>1. \A d \in Dirs : /\ Sound(Unwatch(o, d)) /\ Unwatch(o, d).ctx \subseteq o.ctx \ {d}
                                /\ Works => Unwatch(o, d).ctx = o.ctx \ {d}
            BY <2>3, UnwatchFacts
          <5> QED BY <4>1, <5>1, <2>2
        <4> QED BY <4>2, <2>2, <2>4, <2>5, <3>2
      <3> QED BY <2>2, <3>1, <3>2
    <2> QED BY <2>6 DEF p
  <1> HIDE DEF Good
  <1>6. H \in SUBSET Nat /\ 0 \in H /\ \A n \in Nat : n < Len(ops) /\ n \in H => n + 1 \in H
    BY <1>4, <1>5
  <1> HIDE DEF H
  <1>7. Len(ops) \in 0..Len(ops) /\ \A n \in 0..Len(ops) : n \in H
    BY <1>1, <1>6, UpTo, SMTT(30)
  <1>8. Good(Len(ops))
    BY <1>7 DEF H
  <1> QED BY <1>2, <1>8 DEF Good

LEMMA EmptyQueue ==
  /\ Len(<<>>) = 0 /\ <<>> \in Seq(OpSet)
  /\ \A c : NoneTwice(<<>>, c)
  /\ \A c, d : WatchingIn(<<>>, c, 0, d) <=> d \in c
  /\ \A d : QuietIn(<<>>, 1, 0, d)
  <1>1. Len(<<>>) = 0 /\ 1..0 = {} /\ <<>> \in Seq(OpSet)
    OBVIOUS
  <1> QED BY <1>1 DEF NoneTwice, WatchingIn, QuietIn

(* The observer has processed the queue, and an event takes away a          *)
(* direction only when its task is scheduled.                               *)
LEMMA Emptied ==
  ASSUME poll \in PollTypes, Watched, UNCHANGED <<poll, sk>>, ops' = <<>>,
         NEW o, Sound(o), ctx' = o.ctx, mask' = o.mask, o.ctx \subseteq Processed.ctx,
         Doomed => Doomed', Happened,
         tasks["read"] > 0 => tasks'["read"] > 0, tasks["write"] > 0 => tasks'["write"] > 0,
         Works /\ "R" \in Processed.ctx => "R" \in o.ctx \/ tasks'["read"] > 0 \/ Doomed',
         Works /\ "W" \in Processed.ctx => "W" \in o.ctx \/ tasks'["write"] > 0 \/ Doomed'
  PROVE  Watched'
  <1>1. /\ Sound(Processed) /\ "R" \in Dirs /\ "W" \in Dirs
        /\ \A d \in Dirs : /\ d \in Processed.ctx => WatchingIn(ops, ctx, Len(ops), d)
                           /\ Works /\ WatchingIn(ops, ctx, Len(ops), d) => d \in Processed.ctx
    BY ProcessedFacts DEF Dirs
  <1>2. ~Works => Doomed
    BY DEF Works, Doomed
  <1>3. Len(ops') = 0
    BY EmptyQueue
  <1>4. /\ Marked(ops, ctx, sk.rf, "R") /\ Marked(ops, ctx, sk.wf, "W")
        /\ Kept(ops, ctx, sk.rf, "R", tasks["read"]) \/ Doomed
        /\ Kept(ops, ctx, sk.wf, "W", tasks["write"]) \/ Doomed
    BY DEF Watched
  <1>5. \A d \in Dirs : d \in ctx' => WatchingIn(ops, ctx, Len(ops), d)
    BY <1>1
  <1>6. Marked(ops', ctx', sk.rf, "R") /\ Marked(ops', ctx', sk.wf, "W")
    BY <1>1, <1>3, <1>4, <1>5, EmptyQueue DEF Marked
  <1>7. Kept(ops', ctx', sk.rf, "R", tasks'["read"]) \/ Doomed'
    BY <1>1, <1>2, <1>3, <1>4, EmptyQueue DEF Kept
  <1>8. Kept(ops', ctx', sk.wf, "W", tasks'["write"]) \/ Doomed'
    BY <1>1, <1>2, <1>3, <1>4, EmptyQueue DEF Kept
  <1>9. ctx' \subseteq Dirs /\ mask' \subseteq ctx' /\ (poll' # "epoll" => mask' = {})
    BY DEF Sound, Observing
  <1> QED BY <1>6, <1>7, <1>8, <1>9, EmptyQueue DEF Watched

LEMMA UpdateWatched ==
  ASSUME OrderInv, poll \in PollTypes, Watched, Update, Doomed => Doomed'
  PROVE  Watched'
  <1> DEFINE o == Processed
             evs == Ready(o)
             p == OneShot(o, evs)
             a == IF "R" \in evs THEN Unwatch(o, "R") ELSE o
  <1>1. /\ ops' = <<>> /\ ctx' = p.ctx /\ mask' = p.mask /\ UNCHANGED <<poll, sk>>
        /\ tasks' = [k \in TaskKinds |-> tasks[k] + (IF \E d \in evs : k = TaskOf(d) THEN 1 ELSE 0)]
    BY DEF Update, Ticked
  <1>2. Sound(o) /\ "R" \in Dirs /\ "W" \in Dirs
    BY ProcessedFacts DEF Dirs
  <1>3. p = IF "W" \in evs THEN Unwatch(a, "W") ELSE a
    BY DEF OneShot
  <1>4. /\ "R" \in evs => tasks'["read"] = tasks["read"] + 1
        /\ "W" \in evs => tasks'["write"] = tasks["write"] + 1
        /\ tasks'["read"] \in {tasks["read"], tasks["read"] + 1}
        /\ tasks'["write"] \in {tasks["write"], tasks["write"] + 1}
        /\ tasks["read"] \in Nat /\ tasks["write"] \in Nat
    <2>1. tasks["read"] \in Nat /\ tasks["write"] \in Nat /\ "read" \in TaskKinds /\ "write" \in TaskKinds
      BY TypedFacts DEF TaskKinds
    <2>2. TaskOf("R") = "read" /\ TaskOf("W") = "write"
      BY DEF TaskOf
    <2> HIDE DEF evs
    <2> QED BY <2>1, <2>2, <1>1
  <1> HIDE DEF o, evs, p, a
  <1>5. Sound(a) /\ a.ctx \subseteq o.ctx /\ (Works => \A d \in o.ctx : d \in a.ctx \/ (d = "R" /\ "R" \in evs))
    BY <1>2, UnwatchFacts DEF a
  <1>6. Sound(p) /\ p.ctx \subseteq a.ctx /\ (Works => \A d \in a.ctx : d \in p.ctx \/ (d = "W" /\ "W" \in evs))
    BY <1>2, <1>3, <1>5, UnwatchFacts
  <1>7. /\ tasks["read"] > 0 => tasks'["read"] > 0
        /\ tasks["write"] > 0 => tasks'["write"] > 0
        /\ "R" \in evs => tasks'["read"] > 0
        /\ "W" \in evs => tasks'["write"] > 0
    BY <1>4
  <1>8. /\ Works /\ "R" \in o.ctx => "R" \in p.ctx \/ tasks'["read"] > 0 \/ Doomed'
        /\ Works /\ "W" \in o.ctx => "W" \in p.ctx \/ tasks'["write"] > 0 \/ Doomed'
        /\ p.ctx \subseteq o.ctx
    BY <1>5, <1>6, <1>7
  <1>9. Happened
    BY DEF OrderInv
  <1> QED BY <1>1, <1>6, <1>7, <1>8, <1>9, Emptied DEF o

LEMMA UpdateErrorWatched ==
  ASSUME OrderInv, poll \in PollTypes, Watched, UpdateError, Doomed => Doomed'
  PROVE  Watched'
  <1> DEFINE o == Processed
             a == Unwatch(o, "W")
             p == Unwatch(a, "R")
  <1>1. /\ ops' = <<>> /\ ctx' = p.ctx /\ mask' = p.mask /\ UNCHANGED <<poll, sk>>
        /\ \/ tasks' = Scheduled(tasks, "re", 1)
           \/ calls' = WithErrors(calls, <<CloseCall("ERR")>>) /\ tasks' = tasks
    BY DEF UpdateError, Ticked
  <1>2. Sound(o) /\ "R" \in Dirs /\ "W" \in Dirs
    BY ProcessedFacts DEF Dirs
  <1> HIDE DEF o
  <1>3. Sound(a) /\ a.ctx \subseteq o.ctx
    BY <1>2, UnwatchFacts
  <1> HIDE DEF a
  <1>4. Sound(p) /\ p.ctx \subseteq a.ctx
    BY <1>2, <1>3, UnwatchFacts
  <1> HIDE DEF p
  <1>5. Doomed' /\ (tasks["read"] > 0 => tasks'["read"] > 0) /\ (tasks["write"] > 0 => tasks'["write"] > 0)
    <2>1. CASE tasks' = Scheduled(tasks, "re", 1)
      <3>1. /\ tasks'["re"] = tasks["re"] + 1 /\ tasks'["drain"] = tasks["drain"]
            /\ tasks["re"] \in Nat /\ tasks["drain"] \in Nat
            /\ tasks'["read"] = tasks["read"] /\ tasks'["write"] = tasks["write"]
        BY <2>1, TypedFacts DEF Scheduled, TaskKinds
      <3>2. tasks'["re"] + tasks'["drain"] > 0
        BY <3>1
      <3> QED BY <3>1, <3>2 DEF Doomed, Closing
    <2>2. CASE calls' = WithErrors(calls, <<CloseCall("ERR")>>) /\ tasks' = tasks
      <3>1. <<CloseCall("ERR")>> \in calls'
        BY <2>2, ClosingChain DEF WithErrors
      <3>2. Doomed'
        BY <3>1, ClosingChain, CallDooms
      <3> QED BY <2>2, <3>2
    <2> QED BY <1>1, <2>1, <2>2
  <1>6. Happened /\ p.ctx \subseteq o.ctx
    BY <1>3, <1>4 DEF OrderInv
  <1> QED BY <1>1, <1>4, <1>5, <1>6, Emptied DEF o

-----------------------------------------------------------------------------
(* The other steps.                                                        *)

LEMMA TaskFacts ==
  ASSUME OrderInv
  PROVE  /\ sk \in Sockets /\ Typed
         /\ \A k, l \in TaskKinds : \A n \in {0 - 1, 0, 1} :
              Scheduled(tasks, k, n)[l] = IF l = k THEN tasks[l] + n ELSE tasks[l]
         /\ {"read", "write", "re", "drain"} = TaskKinds
         /\ \A l \in TaskKinds : tasks[l] \in Nat
  BY DEF OrderInv, Typed, Scheduled, TaskKinds

LEMMA SendWatched ==
  ASSUME OrderInv, Watched, NEW n \in 1..2, Send(n), Doomed => Doomed'
  PROVE  Watched'
  <1>1. sk \in Sockets /\ Typed
    BY TaskFacts
  <1>2. UNCHANGED <<poll, ctx, mask, tasks>>
    BY DEF Send, SendAppend, SendDirect
  <1>3. CASE SendAppend(n)
    <2>1. sk'.rf = sk.rf /\ sk'.wf = sk.wf /\ ops' = ops
      BY <1>1, <1>3 DEF SendAppend, Sockets
    <2> QED BY <1>2, <2>1, WatchedFrame
  <1>4. CASE SendDirect(n)
    <2> DEFINE blocked == SendEc(Fresh(n)) = "BLOCK"
    <2>1. CASE ~blocked
      <3>1. sk' = sk /\ ops' = ops
        BY <1>4, <2>1 DEF SendDirect
      <3> QED BY <1>2, <3>1, WatchedFrame
    <2>2. CASE blocked
      <3>1. sk' = [sk EXCEPT !.sb = Unsent(Fresh(n)), !.wt = TRUE, !.wf = BeginFlag(@)]
        BY <1>4, <2>2 DEF SendDirect
      <3>2. sk'.rf = sk.rf /\ sk'.wf = BeginFlag(sk.wf)
        BY <1>1, <3>1 DEF Sockets
      <3>3. ops' = ops \o BeginOps(sk.wf, "W")
        BY <1>4, <2>2 DEF SendDirect
      <3>4. Begins(ops, sk.wf, "W", ops', sk'.wf)
        BY <3>2, <3>3 DEF Begins
      <3> QED BY <1>1, <1>2, <3>2, <3>4, WriteSide
    <2> QED BY <2>1, <2>2
  <1> QED BY <1>3, <1>4 DEF Send

LEMMA ReadSectionWatched ==
  ASSUME OrderInv, Watched, NEW rest, ReadSection(rest), UNCHANGED <<poll, ctx, mask>>,
         tasks["write"] > 0 => tasks'["write"] > 0, Doomed => Doomed'
  PROVE  Watched'
  <1>1. sk \in Sockets /\ Typed
    BY TaskFacts
  <1> DEFINE h == EndFlag(sk.rf)
  <1>2. \/ sk' = [sk EXCEPT !.rf = BeginFlag(h)] /\ ops' = ops \o EndOps(sk.rf, "R") \o BeginOps(h, "R")
        \/ sk' = [sk EXCEPT !.rf = h] /\ ops' = ops \o EndOps(sk.rf, "R")
    BY DEF ReadSection
  <1>3. /\ sk'.wf = sk.wf
        /\ \/ sk'.rf = BeginFlag(h) /\ ops' = ops \o EndOps(sk.rf, "R") \o BeginOps(h, "R")
           \/ sk'.rf = h /\ ops' = ops \o EndOps(sk.rf, "R")
    BY <1>1, <1>2 DEF Sockets
  <1>4. Finishes(ops, sk.rf, "R", ops', sk'.rf)
    BY <1>3 DEF Finishes
  <1> QED BY <1>1, <1>3, <1>4, ReadSide

LEMMA TriggerPacketWatched ==
  ASSUME OrderInv, Watched, TriggerPacket, Doomed => Doomed' PROVE Watched'
  <1>1. sk \in Sockets /\ Typed
    BY TaskFacts
  <1>2. /\ sk' = [sk EXCEPT !.rf = BeginFlag(@)] /\ ops' = ops \o BeginOps(sk.rf, "R")
        /\ UNCHANGED <<poll, ctx, mask, tasks>>
    BY DEF TriggerPacket
  <1>3. sk'.wf = sk.wf /\ sk'.rf = BeginFlag(sk.rf)
    BY <1>1, <1>2 DEF Sockets
  <1>4. Begins(ops, sk.rf, "R", ops', sk'.rf)
    BY <1>2, <1>3 DEF Begins
  <1> QED BY <1>1, <1>2, <1>3, <1>4, ReadSide

LEMMA WriteTaskWatched ==
  ASSUME OrderInv, Watched, NEW expired \in BOOLEAN, WriteTask(expired), Doomed => Doomed'
  PROVE  Watched'
  <1>1. sk \in Sockets /\ Typed
    BY TaskFacts
  <1> DEFINE h == EndFlag(sk.wf)
  <1>2. PICK sb \in {Unsent(sk.sb), sk.sb}, wt \in {FALSE, sk.wt}, again \in BOOLEAN, fail \in BOOLEAN :
          /\ sk' = [sk EXCEPT !.sb = sb, !.wt = wt, !.wf = IF again THEN BeginFlag(h) ELSE h]
          /\ ops' = ops \o EndOps(sk.wf, "W") \o (IF again THEN BeginOps(h, "W") ELSE <<>>)
          /\ tasks' = Scheduled(Scheduled(tasks, "write", 0 - 1), "drain", IF fail THEN 1 ELSE 0)
          /\ UNCHANGED <<poll, ctx, mask>>
    BY DEF WriteTask
  <1>3. sk'.rf = sk.rf /\ sk'.wf = IF again THEN BeginFlag(h) ELSE h
    BY <1>1, <1>2 DEF Sockets
  <1>4. tasks'["read"] = tasks["read"]
    BY <1>1, <1>2 DEF Scheduled, Typed, TaskKinds
  <1>6. Finishes(ops, sk.wf, "W", ops', sk'.wf)
    <2>1. \A q, r \in Seq(OpSet) : q \o r \o <<>> = q \o r
      OBVIOUS
    <2>2. EndOps(sk.wf, "W") \in Seq(OpSet) /\ ops \in Seq(OpSet)
      <3>1. <<>> \in Seq(OpSet) /\ <<Op("unwatch", "W")>> \in Seq(OpSet)
        BY OpFacts DEF Dirs
      <3> QED BY <3>1 DEF EndOps, Watched
    <2> QED BY <1>2, <1>3, <2>1, <2>2 DEF Finishes
  <1> QED BY <1>1, <1>2, <1>3, <1>4, <1>6, WriteSide

LEMMA WriteFailedWatched ==
  ASSUME OrderInv, Watched, WriteFailed, Doomed => Doomed' PROVE Watched'
  <1>1. sk \in Sockets /\ Typed
    BY TaskFacts
  <1>2. PICK new : 
          /\ sk' = [sk EXCEPT !.rf = IF new # <<>> THEN BeginFlag(sk.rf) ELSE sk.rf]
          /\ ops' = IF new # <<>> THEN ops \o BeginOps(sk.rf, "R") ELSE ops
          /\ tasks' = Scheduled(tasks, "drain", 0 - 1)
          /\ UNCHANGED <<poll, ctx, mask>>
    BY DEF WriteFailed
  <1>3. tasks'["read"] = tasks["read"] /\ tasks'["write"] = tasks["write"]
    BY <1>1, <1>2 DEF Scheduled, Typed, TaskKinds
  <1>4. sk'.wf = sk.wf /\ sk'.rf = IF new # <<>> THEN BeginFlag(sk.rf) ELSE sk.rf
    BY <1>1, <1>2 DEF Sockets
  <1>5. CASE new # <<>>
    <2>1. Begins(ops, sk.rf, "R", ops', sk'.rf)
      BY <1>2, <1>4, <1>5 DEF Begins
    <2> QED BY <1>1, <1>2, <1>3, <1>4, <2>1, ReadSide
  <1>6. CASE new = <<>>
    <2>1. sk'.rf = sk.rf /\ ops' = ops
      BY <1>2, <1>4, <1>6
    <2> QED BY <1>2, <1>3, <1>4, <2>1, WatchedFrame
  <1> QED BY <1>5, <1>6

LEMMA ShutReadWatched ==
  ASSUME OrderInv, Watched, ShutRead, Doomed => Doomed' PROVE Watched'
  <1>1. sk \in Sockets /\ Typed
    BY TaskFacts
  <1>2. UNCHANGED <<poll, ctx, mask, tasks>>
    BY DEF ShutRead
  <1>3. CASE sk' = [sk EXCEPT !.rf = EndFlag(@) \cup {"SHUT"}] /\ ops' = ops \o EndOps(sk.rf, "R")
    <2>1. sk'.wf = sk.wf /\ sk'.rf = EndFlag(sk.rf) \cup {"SHUT"}
      BY <1>1, <1>3 DEF Sockets
    <2>2. Finishes(ops, sk.rf, "R", ops', sk'.rf)
      BY <1>3, <2>1 DEF Finishes
    <2> QED BY <1>1, <1>2, <2>1, <2>2, ReadSide
  <1>4. CASE UNCHANGED <<sk, ops>>
    BY <1>2, <1>4, WatchedFrame
  <1> QED BY <1>3, <1>4 DEF ShutRead

LEMMA ShutWriteWatched ==
  ASSUME OrderInv, Watched, Doomed => Doomed', UNCHANGED <<poll, ctx, tasks>>, mask' \in {mask, {}},
         NEW st, sk' = [sk EXCEPT !.st = st, !.wf = EndFlag(@) \cup {"SHUT"}],
         ops' = ops \o EndOps(sk.wf, "W")
  PROVE  Watched'
  <1>1. sk \in Sockets /\ Typed
    BY TaskFacts
  <1>2. sk'.rf = sk.rf /\ sk'.wf = EndFlag(sk.wf) \cup {"SHUT"}
    BY <1>1 DEF Sockets
  <1>3. Finishes(ops, sk.wf, "W", ops', sk'.wf)
    BY <1>2 DEF Finishes
  <1> QED BY <1>1, <1>2, <1>3, WriteSide

LEMMA TellsWatched ==
  ASSUME OrderInv, Watched, CloseTells \/ ShutdownTells, Doomed => Doomed' PROVE Watched'
  <1>1. sk \in Sockets /\ Typed
    BY TaskFacts
  <1>2. CASE CloseTells
    BY <1>2, ShutWriteWatched DEF CloseTells
  <1>3. CASE ShutdownTells
    <2>1. UNCHANGED <<poll, ctx, mask, tasks>>
      BY <1>3 DEF ShutdownTells
    <2>2. CASE sk' = [sk EXCEPT !.wf = EndFlag(@) \cup {"SHUT"}] /\ ops' = ops \o EndOps(sk.wf, "W")
      <3>1. sk' = [sk EXCEPT !.st = sk.st, !.wf = EndFlag(@) \cup {"SHUT"}]
        BY <1>1, <2>2 DEF Sockets
      <3> QED BY <2>1, <2>2, <3>1, ShutWriteWatched
    <2>3. CASE UNCHANGED <<sk, ops>>
      BY <2>1, <2>3, WatchedFrame
    <2> QED BY <1>3, <2>2, <2>3 DEF ShutdownTells
  <1> QED BY <1>2, <1>3

LEMMA FlushWatched ==
  ASSUME OrderInv, Watched, Flush, Doomed => Doomed' PROVE Watched'
  <1>1. sk \in Sockets /\ Typed
    BY TaskFacts
  <1>2. UNCHANGED <<poll, ops, ctx, mask, tasks>>
    BY DEF Flush
  <1>3. sk'.rf = sk.rf /\ sk'.wf = sk.wf
    BY <1>1 DEF Flush, Sockets
  <1> QED BY <1>2, <1>3, WatchedFrame

LEMMA WatchedStep ==
  ASSUME OrderInv, poll \in PollTypes, Watched, [Next]_vars, Doomed => Doomed'
  PROVE  Watched'
  <1>1. ASSUME UNCHANGED <<poll, ops, ctx, mask, sk, tasks>> PROVE Watched'
    BY <1>1, WatchedFrame
  <1>2. CASE Runners
    <2>1. CASE ReadTask
      <3>1. tasks'["write"] = tasks["write"]
        BY <2>1, TaskFacts DEF ReadTask
      <3> QED BY <2>1, <3>1, ReadSectionWatched DEF ReadTask
    <2>2. CASE ErrorEventTask
      <3>1. tasks'["write"] = tasks["write"]
        BY <2>2, TaskFacts DEF ErrorEventTask
      <3> QED BY <2>2, <3>1, ReadSectionWatched DEF ErrorEventTask
    <2>3. CASE \E i \in 1..Len(readers) : SwapQueues(i)
      BY <2>3, <1>1 DEF SwapQueues
    <2> QED BY <1>2, <2>1, <2>2, <2>3, TriggerPacketWatched, WriteTaskWatched, WriteFailedWatched
            DEF Runners
  <1>3. CASE Locked
    <2>1. CASE \E cs \in calls : Acquire(cs) \/ AlreadyClosed(cs)
      BY <2>1, <1>1 DEF Acquire, AlreadyClosed
    <2> QED BY <1>3, <2>1, FlushWatched, ShutReadWatched, TellsWatched DEF Locked
  <1>4. CASE Users
    <2>1. CASE SendFails
      BY <2>1, <1>1 DEF SendFails
    <2>2. \A c : UserCall(c) => UNCHANGED <<poll, ops, ctx, mask, sk, tasks>>
      BY DEF UserCall
    <2> QED BY <1>1, <1>4, <2>1, <2>2, SendWatched DEF Users
  <1>5. CASE Observer
    BY <1>5, UpdateWatched, UpdateErrorWatched DEF Observer
  <1>6. CASE TellOrdered \/ RemoteSends \/ RemoteDrains \/ RemoteEnds
    BY <1>6, <1>1 DEF TellOrdered, RemoteSends, RemoteDrains, RemoteEnds
  <1>7. CASE UNCHANGED vars
    BY <1>7, <1>1 DEF vars
  <1> QED BY <1>2, <1>3, <1>4, <1>5, <1>6, <1>7 DEF Next

-----------------------------------------------------------------------------
(* The bounds: what was sent and what has arrived, the capacity of m_sb and *)
(* the numbers of the packets.                                              *)
Numbered == Beyond(rq.q, 0) /\ Beyond(standby, 0) /\ Beyond(net.kin, 0)
Bounded ==
  /\ poll \in PollTypes /\ limit \in Limits /\ telling \in BOOLEAN
  /\ used.out <= limit.out /\ used.in <= limit.in
  /\ Len(sk.sb) <= SbCap
  /\ Numbered

LEMMA LimitFacts ==
  ASSUME limit \in Limits PROVE limit.out \in Nat /\ limit.in \in Nat
  BY SizesAssumption

LEMMA BoundedFrame ==
  ASSUME Bounded, UNCHANGED <<poll, limit>>, telling' \in BOOLEAN,
         used'.out = used.out, used'.in = used.in, Len(sk'.sb) <= SbCap, Numbered'
  PROVE  Bounded'
  BY DEF Bounded

LEMMA BeyondJoined ==
  ASSUME NEW s \in Seq(Nat), NEW t \in Seq(Nat), Beyond(s, 0), Beyond(t, 0)
  PROVE  Beyond(s \o t, 0) /\ Beyond(<<>>, 0)
  <1>1. /\ Len(s \o t) = Len(s) + Len(t) /\ Len(s) \in Nat /\ Len(t) \in Nat
        /\ \A i \in 1..Len(s) : (s \o t)[i] = s[i]
        /\ \A i \in 1..Len(t) : (s \o t)[Len(s) + i] = t[i]
    BY ConcatIndex
  <1>2. ASSUME NEW i \in 1..(Len(s) + Len(t)) PROVE 0 < (s \o t)[i]
    <2>1. CASE i \in 1..Len(s)
      BY <2>1, <1>1 DEF Beyond
    <2>2. CASE i \notin 1..Len(s)
      <3>1. i - Len(s) \in 1..Len(t) /\ Len(s) + (i - Len(s)) = i
        BY <2>2, <1>1
      <3> QED BY <3>1, <1>1 DEF Beyond
    <2> QED BY <2>1, <2>2
  <1>3. Len(<<>>) = 0 /\ 1..0 = {}
    OBVIOUS
  <1> QED BY <1>1, <1>2, <1>3 DEF Beyond

LEMMA BeyondTail ==
  ASSUME NEW s \in Seq(Nat), s # <<>>, Beyond(s, 0) PROVE Beyond(Tail(s), 0)
  <1>1. Len(s) \in Nat \ {0} /\ Len(Tail(s)) = Len(s) - 1
        /\ \A i \in 1..(Len(s) - 1) : Tail(s)[i] = s[i + 1]
    OBVIOUS
  <1>2. \A i \in 1..(Len(s) - 1) : i + 1 \in 1..Len(s)
    BY <1>1
  <1> QED BY <1>1, <1>2 DEF Beyond

LEMMA UnsentShorter ==
  ASSUME OrderInv, NEW bs \in Seq(Nat)
  PROVE  Unsent(bs) \in Seq(Nat) /\ Len(Unsent(bs)) <= Len(bs) /\ Len(Unsent(bs)) \in Nat
  <1>1. Taken(bs) \in Nat /\ Taken(bs) <= Len(bs)
    BY TakenFacts DEF OrderInv
  <1> QED BY <1>1 DEF Unsent

LEMMA QueueTypes ==
  ASSUME OrderInv
  PROVE  /\ rq.q \in Seq(Nat) /\ standby \in Seq(Nat) /\ net.kin \in Seq(Nat) /\ sk.sb \in Seq(Nat)
         /\ Len(sk.sb) \in Nat /\ sk \in Sockets /\ net \in Kernels
         /\ used \in [out : Nat, in : Nat, calls : Nat] /\ used.out \in Nat /\ used.in \in Nat
         /\ rq \in [q : Seq(Nat), then : Chains] /\ SbCap \in Nat
  BY SizesAssumption DEF OrderInv, Typed, Sockets, Kernels

LEMMA SendBounded ==
  ASSUME OrderInv, Bounded, NEW n \in 1..2, Send(n) PROVE Bounded'
  <1>1. /\ used' = [used EXCEPT !.out = @ + n] /\ used.out + n <= limit.out /\ n <= SbCap
        /\ UNCHANGED <<poll, limit, rq, standby, telling>>
    BY DEF Send
  <1>2. used'.out <= limit'.out /\ used'.in <= limit'.in
    BY <1>1, QueueTypes DEF Bounded
  <1>3. Fresh(n) \in Seq(Nat) /\ Len(Fresh(n)) = n
    BY QueueTypes DEF Fresh
  <1>4. Len(sk'.sb) <= SbCap
    <2>1. CASE SendAppend(n)
      <3>1. sk'.sb = sk.sb \o Fresh(n) /\ SbCap - Len(sk.sb) > n
        BY <2>1, QueueTypes DEF SendAppend, Sockets
      <3>2. Len(sk'.sb) = Len(sk.sb) + n
        BY <3>1, <1>3, QueueTypes
      <3> QED BY <3>1, <3>2, QueueTypes
    <2>2. CASE SendDirect(n)
      <3>1. sk'.sb = Unsent(Fresh(n)) \/ sk' = sk
        BY <2>2, QueueTypes DEF SendDirect, Sockets
      <3>2. Len(Unsent(Fresh(n))) <= SbCap
        BY <1>1, <1>3, UnsentShorter, QueueTypes
      <3> QED BY <3>1, <3>2 DEF Bounded
    <2> QED BY <2>1, <2>2 DEF Send
  <1>5. net'.kin = net.kin
    BY QueueTypes DEF Send, SendAppend, SendDirect, NetSent, Kernels
  <1>6. Numbered'
    BY <1>1, <1>5 DEF Bounded, Numbered, Beyond
  <1> QED BY <1>1, <1>2, <1>4, <1>6 DEF Bounded

LEMMA ReadSectionBounded ==
  ASSUME OrderInv, Bounded, NEW rest, ReadSection(rest), UNCHANGED <<poll, limit, rq, used, telling>>
  PROVE  Bounded'
  <1>1. sk'.sb = sk.sb
    BY QueueTypes DEF ReadSection, Sockets
  <1>2. PICK new \in {<<>>, net.kin} : standby' = standby \o new
    BY DEF ReadSection, Queued
  <1>3. net'.kin = net.kin \/ net'.kin = <<>>
    BY QueueTypes DEF ReadSection, NetRead, Kernels
  <1>4. Beyond(rq.q, 0) /\ Beyond(standby, 0) /\ Beyond(net.kin, 0) /\ Beyond(<<>>, 0)
    BY QueueTypes, BeyondJoined DEF Bounded, Numbered
  <1>5. new \in Seq(Nat) /\ Beyond(new, 0)
    <2>1. <<>> \in Seq(Nat)
      OBVIOUS
    <2> QED BY <1>2, <1>4, <2>1, QueueTypes
  <1>6. Beyond(standby', 0)
    BY <1>2, <1>4, <1>5, QueueTypes, BeyondJoined
  <1>7. Beyond(rq'.q, 0) /\ Beyond(net'.kin, 0)
    BY <1>3, <1>4
  <1>8. Numbered'
    BY <1>6, <1>7 DEF Numbered
  <1> QED BY <1>1, <1>8, BoundedFrame DEF Bounded

LEMMA BoundedStep ==
  ASSUME OrderInv, Bounded, [Next]_vars PROVE Bounded'
  <1>1. ASSUME UNCHANGED <<poll, limit, used, rq, standby>>, sk'.sb = sk.sb, net'.kin = net.kin,
               telling' \in BOOLEAN
        PROVE  Bounded'
    BY <1>1 DEF Bounded, Numbered, Beyond
  <1>2. telling \in BOOLEAN /\ Beyond(<<>>, 0)
        /\ Beyond(rq.q, 0) /\ Beyond(standby, 0) /\ Beyond(net.kin, 0)
    BY QueueTypes, BeyondJoined DEF Bounded, Numbered
  <1>3. CASE Runners
    <2>1. CASE ReadTask \/ ErrorEventTask
      BY <2>1, ReadSectionBounded DEF ReadTask, ErrorEventTask
    <2>2. CASE \E i \in 1..Len(readers) : SwapQueues(i)
      <3>1. /\ UNCHANGED <<poll, limit, used, sk, net, telling>>
            /\ rq'.q = standby /\ standby' = <<>>
        BY <2>2 DEF SwapQueues
      <3>2. Numbered'
        BY <3>1, <1>2 DEF Numbered
      <3> QED BY <3>1, <3>2, <1>2, BoundedFrame DEF Bounded
    <2>3. CASE TriggerPacket
      <3>1. /\ UNCHANGED <<poll, limit, used, net, telling, standby>> /\ rq.q # <<>>
            /\ rq'.q = Tail(rq.q) /\ sk'.sb = sk.sb
        BY <2>3, QueueTypes DEF TriggerPacket, Sockets
      <3>2. Numbered'
        BY <3>1, <1>2, BeyondTail, QueueTypes DEF Numbered
      <3> QED BY <3>1, <3>2, <1>2, BoundedFrame DEF Bounded
    <2>4. CASE \E e \in BOOLEAN : WriteTask(e)
      <3>1. /\ UNCHANGED <<poll, limit, used, telling, rq, standby>>
            /\ sk'.sb \in {Unsent(sk.sb), sk.sb} /\ net'.kin = net.kin
        BY <2>4, QueueTypes DEF WriteTask, NetSent, Sockets, Kernels
      <3>2. Len(sk'.sb) <= SbCap
        BY <3>1, UnsentShorter, QueueTypes DEF Bounded
      <3>3. Numbered'
        BY <3>1, <1>2 DEF Numbered
      <3> QED BY <3>1, <3>2, <3>3, <1>2, BoundedFrame
    <2>5. CASE WriteFailed
      <3>1. /\ UNCHANGED <<poll, limit, used, telling, rq, standby>>
            /\ sk'.sb = sk.sb /\ net'.kin \in {net.kin, <<>>}
        BY <2>5, QueueTypes DEF WriteFailed, NetRead, Sockets, Kernels
      <3>2. Numbered'
        BY <3>1, <1>2 DEF Numbered
      <3> QED BY <3>1, <3>2, <1>2, BoundedFrame DEF Bounded
    <2> QED BY <1>3, <2>1, <2>2, <2>3, <2>4, <2>5 DEF Runners
  <1>4. CASE Locked
    <2>1. CASE \E cs \in calls : Acquire(cs) \/ AlreadyClosed(cs)
      BY <2>1, <1>1, <1>2 DEF Acquire, AlreadyClosed
    <2>2. CASE Flush
      <3>1. /\ UNCHANGED <<poll, limit, used, telling, rq, standby>>
            /\ sk'.sb \in {Unsent(sk.sb), sk.sb} /\ net'.kin = net.kin
        BY <2>2, QueueTypes DEF Flush, NetSent, Sockets, Kernels
      <3>2. Len(sk'.sb) <= SbCap
        BY <3>1, UnsentShorter, QueueTypes DEF Bounded
      <3>3. Numbered'
        BY <3>1, <1>2 DEF Numbered
      <3> QED BY <3>1, <3>2, <3>3, <1>2, BoundedFrame
    <2>3. CASE ShutRead
      <3>1. UNCHANGED <<poll, limit, used, telling, rq, standby, net>> /\ sk'.sb = sk.sb
        BY <2>3, QueueTypes DEF ShutRead, Sockets
      <3> QED BY <3>1, <1>1, <1>2
    <2>4. CASE CloseTells \/ ShutdownTells
      <3>1. /\ UNCHANGED <<poll, limit, used, rq, standby, net>> /\ sk'.sb = sk.sb
            /\ telling' \in {FALSE, telling}
        BY <2>4, QueueTypes DEF CloseTells, ShutdownTells, Returns, Sockets
      <3> QED BY <3>1, <1>1, <1>2
    <2> QED BY <1>4, <2>1, <2>2, <2>3, <2>4 DEF Locked
  <1>5. CASE Users
    <2>1. CASE SendFails
      <3>1. UNCHANGED <<poll, limit, used, telling, rq, standby, sk>> /\ net'.kin = net.kin
        BY <2>1, QueueTypes DEF SendFails, NetSent, Kernels
      <3> QED BY <3>1, <1>1, <1>2
    <2>2. ASSUME NEW c, UserCall(c) PROVE Bounded'
      <3>1. /\ UNCHANGED <<poll, limit, telling, rq, standby, sk, net>>
            /\ used'.out = used.out /\ used'.in = used.in
        BY <2>2, QueueTypes DEF UserCall
      <3>2. Numbered'
        BY <3>1, <1>2 DEF Numbered
      <3> QED BY <3>1, <3>2, <1>2, BoundedFrame DEF Bounded
    <2> QED BY <1>5, <2>1, <2>2, SendBounded DEF Users
  <1>6. CASE Observer
    <2>1. /\ UNCHANGED <<poll, limit, telling, rq, standby, sk, used>> /\ net'.kin = net.kin
      BY <1>6, QueueTypes DEF Observer, Update, UpdateError, Ticked, Kernels
    <2> QED BY <2>1, <1>1, <1>2
  <1>7. CASE TellOrdered
    <2>1. /\ UNCHANGED <<poll, limit, rq, standby, sk, used, net>>
          /\ telling' = (Head(oev).check /\ "SHUT" \in sk.rf /\ "SHUT" \in sk.wf)
      BY <1>7 DEF TellOrdered
    <2>2. telling' \in BOOLEAN
      BY <2>1
    <2> QED BY <2>1, <2>2, <1>1
  <1>8. CASE RemoteSends
    <2>1. /\ UNCHANGED <<poll, limit, rq, standby, sk, telling>>
          /\ net'.kin = Append(net.kin, used.in + 1) /\ used'.in = used.in + 1 /\ used'.out = used.out
          /\ used.in < limit.in
      BY <1>8, QueueTypes DEF RemoteSends, Kernels
    <2>2. used'.in <= limit.in
      BY <2>1, QueueTypes, LimitFacts DEF Bounded
    <2>3. <<used.in + 1>> \in Seq(Nat) /\ Beyond(<<used.in + 1>>, 0)
          /\ net'.kin = net.kin \o <<used.in + 1>>
      <3> DEFINE u == used.in + 1
      <3>1. u \in Nat /\ 0 < u /\ net.kin \in Seq(Nat) /\ net'.kin = Append(net.kin, u)
        BY <2>1, QueueTypes
      <3> HIDE DEF u
      <3>2. <<u>> \in Seq(Nat) /\ Len(<<u>>) = 1 /\ <<u>>[1] = u /\ net'.kin = net.kin \o <<u>>
        <4>1. \A s \in Seq(Nat), x \in Nat : Append(s, x) = s \o <<x>>
          OBVIOUS
        <4>2. <<u>> \in Seq(Nat) /\ Len(<<u>>) = 1 /\ <<u>>[1] = u
          BY <3>1
        <4> QED BY <3>1, <4>1, <4>2
      <3>3. Beyond(<<u>>, 0)
        BY <3>1, <3>2 DEF Beyond
      <3> QED BY <3>2, <3>3 DEF u
    <2>4. Beyond(net'.kin, 0)
      BY <2>3, <1>2, BeyondJoined, QueueTypes
    <2> QED BY <2>1, <2>2, <2>4 DEF Bounded, Numbered
  <1>9. CASE RemoteDrains \/ RemoteEnds
    <2>1. /\ UNCHANGED <<poll, limit, rq, standby, sk, used, telling>>
          /\ net'.kin \in {net.kin, <<>>}
      BY <1>9, QueueTypes DEF RemoteDrains, RemoteEnds, Kernels
    <2>2. Numbered'
      BY <2>1, <1>2 DEF Numbered
    <2> QED BY <2>1, <2>2, <1>2, BoundedFrame DEF Bounded
  <1>10. CASE UNCHANGED vars
    BY <1>10, <1>1, <1>2 DEF vars
  <1> QED BY <1>3, <1>4, <1>5, <1>6, <1>7, <1>8, <1>9, <1>10 DEF Next

-----------------------------------------------------------------------------
(* Everything together.                                                    *)
WatchInv == OrderInv /\ Bounded /\ Watched

LEMMA InitWatch == Init => WatchInv
  <1> SUFFICES ASSUME Init PROVE WatchInv
    OBVIOUS
  <1>1. OrderInv
    BY InitOrder
  <1>2. Bounded
    <2>1. poll \in PollTypes /\ limit \in Limits /\ telling \in BOOLEAN
      BY SizesAssumption DEF Init
    <2>2. used.out = 0 /\ used.in = 0 /\ sk.sb = <<>> /\ rq.q = <<>> /\ standby = <<>> /\ net.kin = <<>>
      BY DEF Init
    <2>3. Len(<<>>) = 0 /\ 1..0 = {} /\ SbCap \in Nat
      BY SizesAssumption
    <2>4. Numbered
      BY <2>2, <2>3 DEF Numbered, Beyond
    <2>5. limit.out \in Nat /\ limit.in \in Nat
      BY <2>1, LimitFacts
    <2>6. used.out <= limit.out /\ used.in <= limit.in /\ Len(sk.sb) <= SbCap
      BY <2>2, <2>3, <2>5
    <2> QED BY <2>1, <2>4, <2>6 DEF Bounded
  <1>3. Watched
    <2> DEFINE e == Op("watch", "R")
    <2>1. e \in OpSet /\ e.op = "watch" /\ e.dir = "R" /\ "R" \in Dirs /\ "W" \in Dirs
      BY OpFacts DEF Dirs
    <2>2. ops = <<>> \o <<e>> /\ ctx = {} /\ mask = {} /\ sk.rf = {"WATCH"} /\ sk.wf = {}
      <3>1. <<>> \o <<e>> = <<e>>
        OBVIOUS
      <3> QED BY <3>1 DEF Init
    <2> HIDE DEF e
    <2>3. /\ ops \in Seq(OpSet) /\ WatchingIn(ops, ctx, Len(ops), "R")
          /\ ~WatchingIn(ops, ctx, Len(ops), "W")
      <3> DEFINE q == <<>>
      <3>1. q \in Seq(OpSet) /\ Len(q) = 0 /\ ~WatchingIn(q, {}, 0, "W")
        BY EmptyQueue
      <3> HIDE DEF q
      <3>2. LET r == q \o <<e>> IN
            /\ r \in Seq(OpSet) /\ WatchingIn(r, {}, Len(r), "R")
            /\ WatchingIn(r, {}, Len(r), "W") <=> WatchingIn(q, {}, Len(q), "W")
        BY <3>1, <2>1, Pushed
      <3> QED BY <2>2, <3>1, <3>2 DEF q
    <2>4. NoneTwice(ops, ctx)
      BY <2>1, <2>2, EmptyQueue, PushedTwice
    <2>5. /\ Marked(ops, ctx, sk.rf, "R") /\ Marked(ops, ctx, sk.wf, "W")
          /\ Kept(ops, ctx, sk.rf, "R", tasks["read"])
          /\ Kept(ops, ctx, sk.wf, "W", tasks["write"])
      BY <2>2, <2>3 DEF Marked, Kept
    <2> QED BY <2>2, <2>3, <2>4, <2>5 DEF Watched
  <1> QED BY <1>1, <1>2, <1>3 DEF WatchInv

LEMMA StepWatch == WatchInv /\ [Next]_vars => WatchInv'
  <1> SUFFICES ASSUME WatchInv, [Next]_vars PROVE WatchInv'
    OBVIOUS
  <1>1. OrderInv /\ Bounded /\ Watched /\ poll \in PollTypes
    BY DEF WatchInv, Bounded
  <1>2. OrderInv' /\ (Doomed => Doomed')
    BY <1>1, StepOrder
  <1>3. Bounded'
    BY <1>1, BoundedStep
  <1>4. Watched'
    BY <1>1, <1>2, WatchedStep
  <1> QED BY <1>2, <1>3, <1>4 DEF WatchInv

LEMMA NumberedSeq ==
  ASSUME NEW s \in Seq(Nat), NEW m \in Nat, NEW n \in Nat, Beyond(s, 0), Within(s, m), m <= n
  PROVE  s \in Seq(1..n)
  <1>1. \A i \in 1..Len(s) : s[i] \in Nat /\ s[i] \in 1..n
    BY DEF Beyond, Within
  <1> QED BY <1>1, SMTT(30)

LEMMA TypesFollow == ASSUME WatchInv PROVE TypeOK
  <1>1. Typed /\ Bytes /\ Packets /\ Bounded /\ Watched /\ OrderInv
    BY DEF WatchInv, OrderInv
  <1>2. limit.out \in Nat /\ limit.in \in Nat /\ used.out <= limit.out /\ used.in <= limit.in
    BY <1>1, LimitFacts DEF Bounded
  <1>3. sk.sb \in Seq(1..limit.out)
    <2> DEFINE a == net.drained + Len(net.kout)
    <2>1. /\ sk.sb \in Seq(Nat) /\ a \in Nat /\ Len(sk.sb) \in Nat
          /\ \A i \in 1..Len(sk.sb) : sk.sb[i] = a + i
          /\ used.out = a + Len(sk.sb)
      BY <1>1, QueueTypes DEF Bytes, Kernels
    <2> HIDE DEF a
    <2>2. \A i \in 1..Len(sk.sb) : 0 < a + i /\ a + i <= a + Len(sk.sb)
      BY <2>1
    <2>3. Beyond(sk.sb, 0) /\ Within(sk.sb, used.out)
      BY <2>1, <2>2 DEF Beyond, Within
    <2> QED BY <2>1, <2>3, <1>1, <1>2, NumberedSeq, QueueTypes
  <1>4. rq.q \in Seq(1..limit.in) /\ standby \in Seq(1..limit.in)
    BY <1>1, <1>2, NumberedSeq, QueueTypes DEF Packets, Bounded, Numbered
  <1>5. got \in 0..limit.in
    BY <1>1, <1>2, QueueTypes DEF Packets, Typed
  <1>6. Chains \subseteq Seq(Calls)
    BY DEF Chains
  <1>7. readers \in Seq(Seq(Calls)) /\ calls \subseteq Seq(Calls)
    <2>1. readers \in Seq(Chains) /\ calls \subseteq Chains
      BY <1>1 DEF Typed
    <2>2. \A i \in 1..Len(readers) : readers[i] \in Seq(Calls)
      BY <2>1, <1>6
    <2> QED BY <2>1, <2>2, <1>6
  <1>8. /\ sk.st \in {"CONNECTED", "CLOSED"} /\ sk.wt \in BOOLEAN
        /\ sk.rf \subseteq {"SHUT", "WATCH"} /\ sk.wf \subseteq {"SHUT", "WATCH"}
    BY <1>1 DEF Typed, Sockets, Flags
  <1>9. /\ ops \in Seq([op : {"watch", "unwatch"}, dir : Dirs]) /\ ctx \subseteq Dirs /\ mask \subseteq ctx
    BY <1>1 DEF Watched, OpSet
  <1>10. /\ poll \in PollTypes /\ Len(sk.sb) <= SbCap /\ telling \in BOOLEAN
         /\ tasks \in [TaskKinds -> Nat] /\ heard \subseteq Ends
    BY <1>1 DEF Bounded, Typed
  <1> QED BY <1>3, <1>4, <1>5, <1>7, <1>8, <1>9, <1>10 DEF TypeOK

LEMMA WatchesFollow == ASSUME WatchInv PROVE WatchesAgree
  <1>1. OrderInv /\ Watched /\ Happened /\ BlockedIsWatched
    BY DEF WatchInv, OrderInv
  <1>2. /\ Marked(ops, ctx, sk.rf, "R") /\ Marked(ops, ctx, sk.wf, "W")
        /\ Kept(ops, ctx, sk.rf, "R", tasks["read"]) \/ Doomed
        /\ Kept(ops, ctx, sk.wf, "W", tasks["write"]) \/ Doomed
        /\ NoneTwice(ops, ctx)
    BY <1>1 DEF Watched
  <1>3. "WATCH" \in sk.rf \/ "WATCH" \in sk.wf => (Doomed => Closing)
    BY <1>1, <1>2 DEF Marked, Doomed, Happened
  <1>4. Awaited(sk.rf, "R", "read")
    BY <1>2, <1>3, WatchingHere DEF Awaited, Kept
  <1>5. Awaited(sk.wf, "W", "write")
    BY <1>2, <1>3, WatchingHere DEF Awaited, Kept
  <1>6. NoDoubleWatch
    BY <1>2, WatchingHere
  <1> QED BY <1>1, <1>4, <1>5, <1>6, TypesFollow DEF WatchesAgree, WatchIsKept

(* The flags of the socket, the queue of operations, the observer's         *)
(* contexts and the scheduled tasks, which the users, the runners and the   *)
(* observer change under different locks, never part: a direction marked    *)
(* WATCH is watched or its task is on its way, no direction is watched      *)
(* twice, a blocked writer is not forgotten, and m_sb never overflows.      *)
THEOREM WatchesAgreeHolds == Spec => []WatchesAgree
  <1>1. Init => WatchInv
    BY InitWatch
  <1>2. WatchInv /\ [Next]_vars => WatchInv'
    BY StepWatch
  <1>3. WatchInv => WatchesAgree
    BY WatchesFollow
  <1> QED BY <1>1, <1>2, <1>3, PTL DEF Spec
=============================================================================
