-------------------------- MODULE MuxStreamProofs --------------------------
(***************************************************************************)
(* Proofs about the stream multiplexer: the windows hold (WindowHolds), a  *)
(* stream is a byte pipe (PipeImplemented), and T_CLOSED is the last that  *)
(* a listener hears (NoDataAfterClosedHolds).                              *)
(*                                                                         *)
(* First come facts about sequences and FlattenSeq, by induction from the  *)
(* least counterexample; then WindowInv, whose heart is a sum: wb_wnd of   *)
(* the writer, the bytes under way, those the reader has not read and the  *)
(* credit it owes or has sent back are one window; then PipeInv, which     *)
(* says what the packets under way may be, and the steps of the pipe.      *)
(***************************************************************************)
EXTENDS MuxStream, SequenceTheorems, WellFoundedInduction, TLAPS

-----------------------------------------------------------------------------
(* A set of naturals has a least element: the induction of these proofs.    *)
LEMMA LeastNatural ==
  ASSUME NEW T \in SUBSET Nat, T # {}
  PROVE  \E x \in T : \A y \in T : x <= y
  <1>1. PICK R : R = OpToRel(<, Nat)
    OBVIOUS
  <1>2. IsWellFoundedOn(R, Nat)
    BY <1>1, NatLessThanWellFounded
  <1>3. PICK x \in T : \A y \in T : ~(<<y, x>> \in R)
    BY <1>2, WFMin
  <1>4. \A y \in T : y < x => <<y, x>> \in R
    BY <1>1 DEF OpToRel
  <1>5. x \in Nat /\ \A y \in T : y \in Nat
    OBVIOUS
  <1>6. \A y \in T : ~(y < x)
    BY <1>3, <1>4
  <1>7. \A y \in T : x <= y
    BY <1>5, <1>6
  <1> QED BY <1>7

(* What holds of 0 and goes from n to n + 1 holds up to N. *)
LEMMA UpTo ==
  ASSUME NEW N \in Nat, NEW H \in SUBSET Nat, 0 \in H,
         \A n \in Nat : n < N /\ n \in H => n + 1 \in H
  PROVE  \A n \in 0..N : n \in H
  <1> SUFFICES ASSUME NEW m \in 0..N, m \notin H PROVE FALSE
    OBVIOUS
  <1> DEFINE T == {n \in 0..N : n \notin H}
  <1>1. T \in SUBSET Nat /\ T # {}
    OBVIOUS
  <1> HIDE DEF T
  <1>2. PICK x \in T : \A y \in T : x <= y
    BY <1>1, LeastNatural
  <1>3. x \in 0..N /\ x \notin H /\ x # 0
    BY <1>2 DEF T
  <1>4. x - 1 \in Nat /\ x - 1 < N /\ x - 1 \in 0..N /\ (x - 1) + 1 = x /\ ~(x <= x - 1)
    BY <1>3
  <1>5. x - 1 \in H
    BY <1>2, <1>4 DEF T
  <1> QED BY <1>3, <1>4, <1>5

LEMMA ConcatFacts ==
  ASSUME NEW s \in Seq(Nat), NEW t \in Seq(Nat)
  PROVE  /\ s \o t \in Seq(Nat) /\ Len(s \o t) = Len(s) + Len(t)
         /\ \A i \in 1..Len(s) : (s \o t)[i] = s[i]
         /\ \A i \in 1..Len(t) : (s \o t)[Len(s) + i] = t[i]
  OBVIOUS

LEMMA ConcatEmpty ==
  ASSUME NEW s \in Seq(Nat) PROVE s \o <<>> = s /\ <<>> \o s = s /\ <<>> \in Seq(Nat)
  BY ConcatEmptySeq

LEMMA ConcatAssoc ==
  ASSUME NEW s \in Seq(Nat), NEW t \in Seq(Nat), NEW u \in Seq(Nat)
  PROVE  (s \o t) \o u = s \o (t \o u)
  <1> DEFINE x == s \o t
             y == t \o u
             v == x \o u
             w == s \o y
  <1>1. /\ x \in Seq(Nat) /\ Len(x) = Len(s) + Len(t)
        /\ \A i \in 1..Len(s) : x[i] = s[i]
        /\ \A i \in 1..Len(t) : x[Len(s) + i] = t[i]
    BY ConcatFacts
  <1>2. /\ y \in Seq(Nat) /\ Len(y) = Len(t) + Len(u)
        /\ \A i \in 1..Len(t) : y[i] = t[i]
        /\ \A i \in 1..Len(u) : y[Len(t) + i] = u[i]
    BY ConcatFacts
  <1> HIDE DEF x, y
  <1>3. /\ v \in Seq(Nat) /\ Len(v) = Len(x) + Len(u)
        /\ \A i \in 1..Len(x) : v[i] = x[i]
        /\ \A i \in 1..Len(u) : v[Len(x) + i] = u[i]
    BY <1>1, ConcatFacts
  <1>4. /\ w \in Seq(Nat) /\ Len(w) = Len(s) + Len(y)
        /\ \A i \in 1..Len(s) : w[i] = s[i]
        /\ \A i \in 1..Len(y) : w[Len(s) + i] = y[i]
    BY <1>2, ConcatFacts
  <1> HIDE DEF v, w
  <1>5. Len(s) \in Nat /\ Len(t) \in Nat /\ Len(u) \in Nat
    OBVIOUS
  <1>6. Len(v) = Len(w) /\ Len(v) = Len(s) + Len(t) + Len(u)
    BY <1>1, <1>2, <1>3, <1>4, <1>5
  <1>7. ASSUME NEW i \in 1..Len(v) PROVE v[i] = w[i]
    <2>1. CASE i <= Len(s)
      <3>1. i \in 1..Len(s) /\ i \in 1..Len(x)
        BY <2>1, <1>1, <1>5
      <3> QED BY <3>1, <1>1, <1>3, <1>4
    <2>2. CASE Len(s) < i /\ i <= Len(s) + Len(t)
      <3>1. PICK j \in 1..Len(t) : i = Len(s) + j
        <4>1. i - Len(s) \in 1..Len(t) /\ i = Len(s) + (i - Len(s))
          BY <2>2, <1>5
        <4> QED BY <4>1
      <3>2. i \in 1..Len(x) /\ j \in 1..Len(y)
        BY <3>1, <1>1, <1>2, <1>5
      <3>3. v[i] = t[j]
        BY <3>1, <3>2, <1>1, <1>3
      <3>4. w[i] = t[j]
        BY <3>1, <3>2, <1>2, <1>4
      <3> QED BY <3>3, <3>4
    <2>3. CASE Len(s) + Len(t) < i
      <3>1. PICK j \in 1..Len(u) : i = Len(s) + Len(t) + j
        <4> DEFINE j == i - (Len(s) + Len(t))
        <4>1. j \in 1..Len(u) /\ i = Len(s) + Len(t) + j
          BY <2>3, <1>5, <1>6
        <4> QED BY <4>1
      <3>2. i = Len(x) + j /\ Len(t) + j \in 1..Len(y) /\ i = Len(s) + (Len(t) + j)
        BY <3>1, <1>1, <1>2, <1>5
      <3>3. v[i] = u[j]
        BY <3>1, <3>2, <1>3
      <3>4. w[i] = u[j]
        BY <3>1, <3>2, <1>2, <1>4
      <3> QED BY <3>3, <3>4
    <2> QED BY <2>1, <2>2, <2>3, <1>5, <1>6
  <1>8. v = w
    BY <1>3, <1>4, <1>6, <1>7, SeqEqual
  <1> QED BY <1>8 DEF v, w, x, y

-----------------------------------------------------------------------------
(* FlattenSeq, from left to right.                                         *)
Runs(g, s, n) == g[0] = <<>> /\ \A i \in 1..n : g[i] = g[i - 1] \o s[i]

LEMMA RunsExist ==
  ASSUME NEW s \in Seq(Seq(Nat))
  PROVE  \E g : Runs(g, s, Len(s)) /\ \A i \in 0..Len(s) : g[i] \in Seq(Nat)
  <1> DEFINE Good(g, n) == Runs(g, s, n) /\ \A i \in 0..n : g[i] \in Seq(Nat)
             H == {n \in Nat : \E g : Good(g, n)}
  <1>1. H \in SUBSET Nat /\ Len(s) \in Nat
    OBVIOUS
  <1>2. 0 \in H
    <2> DEFINE g == [i \in {0} |-> <<>>]
    <2>1. Good(g, 0)
      BY ConcatEmpty DEF Runs
    <2> HIDE DEF g, Good
    <2> QED BY <2>1
  <1>3. ASSUME NEW n \in Nat, n < Len(s), n \in H PROVE n + 1 \in H
    <2>1. PICK f : Good(f, n)
      BY <1>3
    <2> DEFINE g == [i \in 0..(n + 1) |-> IF i = n + 1 THEN f[n] \o s[n + 1] ELSE f[i]]
    <2>2. s[n + 1] \in Seq(Nat) /\ f[n] \in Seq(Nat)
      <3>1. n + 1 \in 1..Len(s) /\ n \in 0..n
        BY <1>3
      <3> QED BY <2>1, <3>1
    <2>3. f[n] \o s[n + 1] \in Seq(Nat)
      BY <2>2, ConcatFacts
    <2>4. \A i \in 0..n : g[i] = f[i]
      OBVIOUS
    <2>5. g[n + 1] = f[n] \o s[n + 1]
      <3>1. n + 1 \in 0..(n + 1)
        OBVIOUS
      <3> QED BY <3>1
    <2> HIDE DEF g
    <2>6. \A i \in 0..(n + 1) : g[i] \in Seq(Nat)
      <3>1. \A i \in 0..(n + 1) : i \in 0..n \/ i = n + 1
        OBVIOUS
      <3> QED BY <2>1, <2>3, <2>4, <2>5, <3>1
    <2>7. g[0] = <<>>
      BY <2>1, <2>4 DEF Runs
    <2>8. ASSUME NEW i \in 1..(n + 1) PROVE g[i] = g[i - 1] \o s[i]
      <3>1. CASE i = n + 1
        <4>1. i - 1 = n /\ n \in 0..n
          BY <3>1
        <4> QED BY <3>1, <4>1, <2>4, <2>5
      <3>2. CASE i # n + 1
        <4>1. i \in 1..n /\ i \in 0..n /\ i - 1 \in 0..n
          BY <3>2
        <4>2. f[i] = f[i - 1] \o s[i]
          BY <4>1, <2>1 DEF Runs
        <4> QED BY <4>1, <4>2, <2>4
      <3> QED BY <3>1, <3>2
    <2>9. Good(g, n + 1)
      BY <2>6, <2>7, <2>8 DEF Runs
    <2> HIDE DEF Good
    <2> QED BY <2>9
  <1> HIDE DEF H
  <1>4. \A n \in 0..Len(s) : n \in H
    BY <1>1, <1>2, <1>3, UpTo
  <1>5. Len(s) \in 0..Len(s)
    BY <1>1
  <1> QED BY <1>4, <1>5 DEF H

LEMMA RunsAgree ==
  ASSUME NEW s, NEW n \in Nat, NEW f, NEW g, Runs(f, s, n), Runs(g, s, n)
  PROVE  f[n] = g[n]
  <1> DEFINE H == {m \in Nat : f[m] = g[m]}
  <1>1. H \in SUBSET Nat /\ 0 \in H
    BY DEF Runs
  <1>2. ASSUME NEW m \in Nat, m < n, m \in H PROVE m + 1 \in H
    <2>1. m + 1 \in 1..n /\ (m + 1) - 1 = m
      BY <1>2
    <2>2. f[m + 1] = f[m] \o s[m + 1] /\ g[m + 1] = g[m] \o s[m + 1]
      BY <2>1 DEF Runs
    <2>3. f[m] = g[m] /\ m + 1 \in Nat
      BY <1>2
    <2>4. f[m + 1] = g[m + 1]
      BY <2>2, <2>3
    <2> QED BY <2>3, <2>4
  <1> HIDE DEF H
  <1>3. n \in H
    BY <1>1, <1>2, UpTo
  <1> QED BY <1>3 DEF H

LEMMA FlattenIs ==
  ASSUME NEW s \in Seq(Seq(Nat)), NEW g, Runs(g, s, Len(s))
  PROVE  FlattenSeq(s) = g[Len(s)]
  <1>1. CASE Len(s) = 0
    <2>1. s = <<>>
      BY <1>1
    <2> QED BY <1>1, <2>1 DEF FlattenSeq, Runs
  <1>2. CASE Len(s) # 0
    <2> DEFINE Is(f) == f = [i \in 1..Len(s) |-> IF i = 1 THEN s[i] ELSE f[i - 1] \o s[i]]
    <2>1. \E f : Is(f)
      <3>1. PICK h : Runs(h, s, Len(s)) /\ \A i \in 0..Len(s) : h[i] \in Seq(Nat)
        BY RunsExist
      <3> DEFINE f == [i \in 1..Len(s) |-> h[i]]
      <3>2. ASSUME NEW i \in 1..Len(s)
            PROVE  f[i] = IF i = 1 THEN s[i] ELSE f[i - 1] \o s[i]
        <4>1. CASE i = 1
          <5>1. 1 \in 1..Len(s) /\ 1 - 1 = 0
            BY <4>1
          <5>2. h[1] = h[1 - 1] \o s[1] /\ h[0] = <<>>
            BY <3>1, <5>1 DEF Runs
          <5>3. s[1] \in Seq(Nat)
            BY <5>1
          <5>4. <<>> \o s[1] = s[1]
            BY <5>3, ConcatEmpty
          <5>5. h[1] = s[1]
            BY <5>1, <5>2, <5>4
          <5> QED BY <4>1, <5>5
        <4>2. CASE i # 1
          <5>1. i - 1 \in 1..Len(s)
            BY <4>2
          <5>2. h[i] = h[i - 1] \o s[i]
            BY <3>1 DEF Runs
          <5>3. f[i] = h[i] /\ f[i - 1] = h[i - 1]
            BY <5>1
          <5> QED BY <4>2, <5>2, <5>3
        <4> QED BY <4>1, <4>2
      <3>3. f = [i \in 1..Len(s) |-> f[i]]
        OBVIOUS
      <3> HIDE DEF f
      <3>4. Is(f)
        BY <3>2, <3>3
      <3> HIDE DEF Is
      <3> QED BY <3>4
    <2> DEFINE f == CHOOSE f : Is(f)
    <2>2. Is(f)
      BY <2>1
    <2>3. FlattenSeq(s) = f[Len(s)]
      BY <1>2 DEF FlattenSeq
    <2> DEFINE h == [i \in 0..Len(s) |-> IF i = 0 THEN <<>> ELSE f[i]]
    <2>4. Len(s) \in 1..Len(s) /\ Len(s) \in Nat
      BY <1>2
    <2> HIDE DEF f
    <2>5. Runs(h, s, Len(s))
      <3>1. h[0] = <<>>
        BY <2>4
      <3>2. ASSUME NEW i \in 1..Len(s) PROVE h[i] = h[i - 1] \o s[i]
        <4>1. h[i] = f[i]
          OBVIOUS
        <4>2. f[i] = IF i = 1 THEN s[i] ELSE f[i - 1] \o s[i]
          BY <2>2
        <4>3. CASE i = 1
          <5>1. s[1] \in Seq(Nat)
            BY <4>3
          <5>2. <<>> \o s[1] = s[1]
            BY <5>1, ConcatEmpty
          <5>3. i - 1 = 0
            BY <4>3
          <5> QED BY <4>1, <4>2, <4>3, <5>2, <5>3, <3>1
        <4>4. CASE i # 1
          <5>1. h[i - 1] = f[i - 1]
            BY <4>4
          <5> QED BY <4>1, <4>2, <4>4, <5>1
        <4> QED BY <4>3, <4>4
      <3> HIDE DEF h
      <3> QED BY <3>1, <3>2 DEF Runs
    <2>6. h[Len(s)] = f[Len(s)]
      BY <2>4
    <2> HIDE DEF h, Is
    <2>7. h[Len(s)] = g[Len(s)]
      BY <2>4, <2>5, RunsAgree
    <2> QED BY <2>3, <2>6, <2>7
  <1> QED BY <1>1, <1>2

LEMMA FlattenType ==
  ASSUME NEW s \in Seq(Seq(Nat)) PROVE FlattenSeq(s) \in Seq(Nat)
  <1>1. PICK g : Runs(g, s, Len(s)) /\ \A i \in 0..Len(s) : g[i] \in Seq(Nat)
    BY RunsExist
  <1>2. Len(s) \in 0..Len(s)
    OBVIOUS
  <1> QED BY <1>1, <1>2, FlattenIs

LEMMA FlattenAppend ==
  ASSUME NEW s \in Seq(Seq(Nat)), NEW x \in Seq(Nat)
  PROVE  FlattenSeq(Append(s, x)) = FlattenSeq(s) \o x
  <1>1. PICK g : Runs(g, s, Len(s)) /\ \A i \in 0..Len(s) : g[i] \in Seq(Nat)
    BY RunsExist
  <1> DEFINE t == Append(s, x)
             n == Len(s)
             h == [i \in 0..(n + 1) |-> IF i = n + 1 THEN g[n] \o x ELSE g[i]]
  <1>2. /\ t \in Seq(Seq(Nat)) /\ Len(t) = n + 1 /\ n \in Nat
        /\ t[n + 1] = x /\ \A i \in 1..n : t[i] = s[i]
    OBVIOUS
  <1>3. h[n + 1] = g[n] \o x /\ \A i \in 0..n : h[i] = g[i]
    BY <1>2
  <1> HIDE DEF t, h, n
  <1>4. Runs(h, t, Len(t))
    <2>1. h[0] = <<>>
      BY <1>1, <1>2, <1>3 DEF Runs
    <2>2. ASSUME NEW i \in 1..Len(t) PROVE h[i] = h[i - 1] \o t[i]
      <3>1. CASE i = n + 1
        <4>1. i - 1 = n /\ n \in 0..n
          BY <3>1, <1>2
        <4> QED BY <3>1, <4>1, <1>2, <1>3
      <3>2. CASE i # n + 1
        <4>1. i \in 1..n /\ i \in 0..n /\ i - 1 \in 0..n
          BY <3>2, <1>2
        <4>2. g[i] = g[i - 1] \o s[i]
          BY <4>1, <1>1 DEF Runs, n
        <4> QED BY <4>1, <4>2, <1>2, <1>3
      <3> QED BY <3>1, <3>2
    <2> QED BY <2>1, <2>2 DEF Runs
  <1>5. FlattenSeq(t) = h[n + 1]
    BY <1>2, <1>4, FlattenIs
  <1>6. FlattenSeq(s) = g[n]
    BY <1>1, FlattenIs DEF n
  <1> QED BY <1>3, <1>5, <1>6 DEF t

LEMMA FlattenTail ==
  ASSUME NEW s \in Seq(Seq(Nat)), s # <<>>
  PROVE  FlattenSeq(s) = Head(s) \o FlattenSeq(Tail(s))
  <1> DEFINE t == Tail(s)
             n == Len(s)
  <1>1. /\ t \in Seq(Seq(Nat)) /\ n \in Nat /\ n >= 1 /\ Len(t) = n - 1
        /\ Head(s) = s[1] /\ s[1] \in Seq(Nat)
        /\ \A i \in 1..(n - 1) : t[i] = s[i + 1]
    OBVIOUS
  <1> HIDE DEF t
  <1>2. PICK g : Runs(g, t, Len(t)) /\ \A i \in 0..Len(t) : g[i] \in Seq(Nat)
    BY <1>1, RunsExist
  <1> DEFINE h == [i \in 0..n |-> IF i = 0 THEN <<>> ELSE s[1] \o g[i - 1]]
  <1>3. h[0] = <<>> /\ \A i \in 1..n : h[i] = s[1] \o g[i - 1]
    <2>1. 0 \in 0..n /\ \A i \in 1..n : i \in 0..n /\ i # 0
      BY <1>1
    <2> QED BY <2>1
  <1>4. \A i \in 1..n : s[i] \in Seq(Nat)
    OBVIOUS
  <1> HIDE DEF h, n
  <1>5. ASSUME NEW i \in 1..n PROVE h[i] = h[i - 1] \o s[i]
    <2>1. CASE i = 1
      <3>1. g[0] = <<>> /\ 1 - 1 = 0 /\ 1 \in 1..n
        BY <1>1, <1>2 DEF Runs
      <3>2. h[1] = s[1] \o <<>> /\ h[1 - 1] = <<>>
        BY <1>3, <3>1
      <3>3. s[1] \o <<>> = s[1] /\ <<>> \o s[1] = s[1]
        BY <1>1, ConcatEmpty
      <3> QED BY <2>1, <3>2, <3>3
    <2>2. CASE i # 1
      <3>1. /\ i - 1 \in 1..Len(t) /\ i - 1 \in 1..n /\ (i - 1) + 1 = i
            /\ (i - 1) - 1 \in 0..Len(t) /\ i - 1 \in 1..(n - 1)
        BY <2>2, <1>1
      <3> DEFINE x == g[(i - 1) - 1]
      <3>2. g[i - 1] = x \o t[i - 1] /\ t[i - 1] = s[i] /\ x \in Seq(Nat)
        BY <3>1, <1>1, <1>2 DEF Runs
      <3>3. h[i] = s[1] \o (x \o s[i]) /\ h[i - 1] = s[1] \o x
        BY <3>1, <3>2, <1>3
      <3> HIDE DEF x
      <3>4. (s[1] \o x) \o s[i] = s[1] \o (x \o s[i])
        BY <1>1, <1>4, <3>2, ConcatAssoc
      <3> QED BY <3>3, <3>4
    <2> QED BY <2>1, <2>2
  <1>6. Runs(h, s, n)
    BY <1>3, <1>5 DEF Runs
  <1>7. FlattenSeq(s) = h[n]
    BY <1>6, FlattenIs DEF n
  <1>8. FlattenSeq(t) = g[n - 1]
    BY <1>1, <1>2, FlattenIs
  <1>9. h[n] = s[1] \o g[n - 1]
    <2>1. n \in 1..n
      BY <1>1
    <2> QED BY <2>1, <1>3
  <1> QED BY <1>1, <1>7, <1>8, <1>9 DEF t

-----------------------------------------------------------------------------
(* The packets, and what is counted of them: their bytes, the credit that   *)
(* a window update gives back, and the SYN.                                 *)
Msgs == [type : {"DATA"}, data : Seq(Nat)] \cup [type : {"UWND"}, n : Nat]
        \cup [type : {"SYN", "FIN", "RST"}]
Held == Msgs \cup {NoMsg}
Kinds == {"data", "credit", "syn"}
Load(k, m) ==
    IF k = "data" /\ m.type = "DATA" THEN m.data
    ELSE IF k = "credit" /\ m.type = "UWND" THEN [i \in 1..m.n |-> i]
    ELSE IF k = "syn" /\ m.type = "SYN" THEN <<1>> ELSE <<>>
Loads(k, c) == [i \in 1..Len(c) |-> Load(k, c[i])]
Flow(k, c) == FlattenSeq(Loads(k, c))

LEMMA MsgFacts ==
  ASSUME NEW m \in Held
  PROVE  /\ m.type \in {"DATA", "UWND", "SYN", "FIN", "RST", "none"}
         /\ m.type = "DATA" => m.data \in Seq(Nat)
         /\ m.type = "UWND" => m.n \in Nat
         /\ m.type # "none" => m \in Msgs
         /\ m \in Msgs => m.type # "none"
  BY DEF Held, Msgs, NoMsg

LEMMA MsgMade ==
  /\ \A d \in Seq(Nat) : [type |-> "DATA", data |-> d] \in Msgs
  /\ \A n \in Nat : [type |-> "UWND", n |-> n] \in Msgs
  /\ [type |-> "SYN"] \in Msgs /\ [type |-> "FIN"] \in Msgs /\ [type |-> "RST"] \in Msgs
  BY DEF Msgs

LEMMA CreditLength ==
  ASSUME NEW n \in Nat PROVE [i \in 1..n |-> i] \in Seq(Nat) /\ Len([i \in 1..n |-> i]) = n
  OBVIOUS

LEMMA LoadFacts ==
  ASSUME NEW m \in Held, NEW k \in Kinds
  PROVE  /\ Load(k, m) \in Seq(Nat) /\ Len(Load(k, m)) \in Nat
         /\ m.type = "DATA" => Load("data", m) = m.data
         /\ m.type # "DATA" => Load("data", m) = <<>>
         /\ m.type = "UWND" => Len(Load("credit", m)) = m.n
         /\ m.type # "UWND" => Load("credit", m) = <<>>
         /\ m.type = "SYN" => Len(Load("syn", m)) = 1
         /\ m.type # "SYN" => Load("syn", m) = <<>>
         /\ Bytes(m) = Load("data", m)
  <1>1. /\ m.type = "DATA" => m.data \in Seq(Nat)
        /\ m.type = "UWND" => m.n \in Nat
    BY MsgFacts
  <1>2. m.type = "UWND" => [i \in 1..m.n |-> i] \in Seq(Nat) /\ Len([i \in 1..m.n |-> i]) = m.n
    BY <1>1, CreditLength
  <1>3. <<1>> \in Seq(Nat) /\ Len(<<1>>) = 1 /\ <<>> \in Seq(Nat)
    OBVIOUS
  <1>4. Load(k, m) \in Seq(Nat)
    BY <1>1, <1>2, <1>3 DEF Load, Kinds
  <1>5. Len(Load(k, m)) \in Nat
    BY <1>4
  <1>6. /\ m.type = "DATA" => Load("data", m) = m.data
        /\ m.type # "DATA" => Load("data", m) = <<>>
        /\ m.type # "UWND" => Load("credit", m) = <<>>
        /\ m.type # "SYN" => Load("syn", m) = <<>>
    BY DEF Load
  <1>7. m.type = "UWND" => Len(Load("credit", m)) = m.n
    BY <1>2 DEF Load
  <1>8. m.type = "SYN" => Len(Load("syn", m)) = 1
    BY <1>3 DEF Load
  <1>9. Bytes(m) = Load("data", m)
    BY DEF Load, Bytes
  <1> QED BY <1>4, <1>5, <1>6, <1>7, <1>8, <1>9

(* FIN and RST carry nothing. *)
LEMMA LoadNone ==
  ASSUME NEW m, m.type \in {"FIN", "RST", "none"}, NEW k \in Kinds
  PROVE  Load(k, m) = <<>>
  BY DEF Load, Kinds

LEMMA LoadsType ==
  ASSUME NEW k \in Kinds, NEW c \in Seq(Msgs)
  PROVE  /\ Loads(k, c) \in Seq(Seq(Nat)) /\ Len(Loads(k, c)) = Len(c)
         /\ \A i \in 1..Len(c) : Loads(k, c)[i] = Load(k, c[i])
  <1>1. \A i \in 1..Len(c) : Load(k, c[i]) \in Seq(Nat)
    <2> SUFFICES ASSUME NEW i \in 1..Len(c) PROVE Load(k, c[i]) \in Seq(Nat)
      OBVIOUS
    <2>1. c[i] \in Held
      BY DEF Held
    <2> QED BY <2>1, LoadFacts
  <1>2. Len(c) \in Nat
    OBVIOUS
  <1> QED BY <1>1, <1>2 DEF Loads

LEMMA FlowType ==
  ASSUME NEW k \in Kinds, NEW c \in Seq(Msgs)
  PROVE  Flow(k, c) \in Seq(Nat) /\ Len(Flow(k, c)) \in Nat
  <1>1. Flow(k, c) \in Seq(Nat)
    BY LoadsType, FlattenType DEF Flow
  <1> QED BY <1>1

LEMMA FlowEmpty == \A k : Flow(k, <<>>) = <<>>
  <1>1. \A k : Loads(k, <<>>) = <<>>
    BY DEF Loads
  <1>2. FlattenSeq(<<>>) = <<>>
    BY DEF FlattenSeq
  <1> QED BY <1>1, <1>2 DEF Flow

LEMMA FlowAppend ==
  ASSUME NEW k \in Kinds, NEW c \in Seq(Msgs), NEW m \in Msgs
  PROVE  Flow(k, Append(c, m)) = Flow(k, c) \o Load(k, m)
  <1>1. /\ Loads(k, c) \in Seq(Seq(Nat)) /\ Len(Loads(k, c)) = Len(c)
        /\ \A i \in 1..Len(c) : Loads(k, c)[i] = Load(k, c[i])
    BY LoadsType
  <1>2. Load(k, m) \in Seq(Nat)
    BY LoadFacts DEF Held
  <1>3. /\ Append(c, m) \in Seq(Msgs) /\ Len(Append(c, m)) = Len(c) + 1 /\ Len(c) \in Nat
        /\ Append(c, m)[Len(c) + 1] = m /\ \A i \in 1..Len(c) : Append(c, m)[i] = c[i]
    OBVIOUS
  <1> DEFINE s == Loads(k, Append(c, m))
             t == Append(Loads(k, c), Load(k, m))
  <1>4. /\ s \in Seq(Seq(Nat)) /\ Len(s) = Len(c) + 1
        /\ \A i \in 1..(Len(c) + 1) : s[i] = Load(k, Append(c, m)[i])
    BY <1>3, LoadsType
  <1>5. /\ t \in Seq(Seq(Nat)) /\ Len(t) = Len(c) + 1 /\ t[Len(c) + 1] = Load(k, m)
        /\ \A i \in 1..Len(c) : t[i] = Loads(k, c)[i]
    BY <1>1, <1>2
  <1> HIDE DEF s, t
  <1>6. \A i \in 1..Len(s) : s[i] = t[i]
    <2> SUFFICES ASSUME NEW i \in 1..(Len(c) + 1) PROVE s[i] = t[i]
      BY <1>4
    <2>1. CASE i = Len(c) + 1
      BY <2>1, <1>3, <1>4, <1>5
    <2>2. CASE i # Len(c) + 1
      <3>1. i \in 1..Len(c)
        BY <2>2, <1>3
      <3> QED BY <3>1, <1>1, <1>3, <1>4, <1>5
    <2> QED BY <2>1, <2>2
  <1>7. s = t
    BY <1>4, <1>5, <1>6, SeqEqual
  <1>8. FlattenSeq(t) = FlattenSeq(Loads(k, c)) \o Load(k, m)
    BY <1>1, <1>2, FlattenAppend DEF t
  <1> QED BY <1>7, <1>8 DEF Flow, s

LEMMA FlowTail ==
  ASSUME NEW k \in Kinds, NEW c \in Seq(Msgs), c # <<>>
  PROVE  Flow(k, c) = Load(k, Head(c)) \o Flow(k, Tail(c))
  <1> DEFINE s == Loads(k, c)
             u == Loads(k, Tail(c))
  <1>1. s \in Seq(Seq(Nat)) /\ Len(s) = Len(c) /\ \A i \in 1..Len(c) : s[i] = Load(k, c[i])
    BY LoadsType
  <1>2. /\ Tail(c) \in Seq(Msgs) /\ Len(c) \in Nat /\ Len(c) >= 1 /\ Len(Tail(c)) = Len(c) - 1
        /\ Head(c) = c[1] /\ \A i \in 1..(Len(c) - 1) : Tail(c)[i] = c[i + 1]
    OBVIOUS
  <1>3. /\ u \in Seq(Seq(Nat)) /\ Len(u) = Len(c) - 1
        /\ \A i \in 1..(Len(c) - 1) : u[i] = Load(k, Tail(c)[i])
    BY <1>2, LoadsType
  <1> HIDE DEF s, u
  <1>4. /\ s # <<>> /\ Head(s) = s[1] /\ Tail(s) \in Seq(Seq(Nat)) /\ Len(Tail(s)) = Len(c) - 1
        /\ \A i \in 1..(Len(c) - 1) : Tail(s)[i] = s[i + 1]
    BY <1>1, <1>2
  <1>5. \A i \in 1..Len(u) : u[i] = Tail(s)[i]
    <2> SUFFICES ASSUME NEW i \in 1..(Len(c) - 1) PROVE u[i] = Tail(s)[i]
      BY <1>3
    <2>1. i + 1 \in 1..Len(c)
      BY <1>2
    <2> QED BY <2>1, <1>1, <1>2, <1>3, <1>4
  <1>6. u = Tail(s)
    BY <1>3, <1>4, <1>5, SeqEqual
  <1>7. FlattenSeq(s) = Head(s) \o FlattenSeq(Tail(s))
    BY <1>1, <1>4, FlattenTail
  <1>8. Head(s) = Load(k, Head(c))
    <2>1. 1 \in 1..Len(c)
      BY <1>2
    <2> QED BY <2>1, <1>1, <1>2, <1>4
  <1> QED BY <1>6, <1>7, <1>8 DEF Flow, s, u

(* The RSTs that waited in m_outps carry nothing. *)
Rsts(n) == [i \in 1..n |-> [type |-> "RST"]]

LEMMA ConcatMsgs ==
  ASSUME NEW c \in Seq(Msgs), NEW d \in Seq(Msgs)
  PROVE  c \o d \in Seq(Msgs) /\ Len(c \o d) = Len(c) + Len(d)
  OBVIOUS

LEMMA RstsType ==
  ASSUME NEW n \in Nat PROVE Rsts(n) \in Seq(Msgs) /\ Len(Rsts(n)) = n
  BY MsgMade DEF Rsts

LEMMA FlowRsts ==
  ASSUME NEW k \in Kinds, NEW c \in Seq(Msgs), NEW n \in Nat
  PROVE  Flow(k, c \o Rsts(n)) = Flow(k, c)
  <1> DEFINE H == {m \in Nat : Flow(k, c \o Rsts(m)) = Flow(k, c)}
  <1>1. H \in SUBSET Nat
    OBVIOUS
  <1>2. 0 \in H
    <2>1. Rsts(0) = <<>>
      BY DEF Rsts
    <2>2. c \o Rsts(0) = c
      BY <2>1, ConcatEmptySeq
    <2> QED BY <2>2
  <1>3. ASSUME NEW m \in Nat, m \in H PROVE m + 1 \in H
    <2> DEFINE r == [type |-> "RST"]
    <2>1. Rsts(m) \in Seq(Msgs) /\ Len(Rsts(m)) = m /\ Rsts(m + 1) \in Seq(Msgs) /\ Len(Rsts(m + 1)) = m + 1
      BY RstsType
    <2>2. r \in Msgs
      BY MsgMade
    <2>3. Rsts(m + 1) = Append(Rsts(m), r)
      <3>1. /\ Append(Rsts(m), r) \in Seq(Msgs) /\ Len(Append(Rsts(m), r)) = m + 1
            /\ \A i \in 1..m : Append(Rsts(m), r)[i] = Rsts(m)[i]
            /\ Append(Rsts(m), r)[m + 1] = r
        BY <2>1, <2>2
      <3>2. \A i \in 1..m : Rsts(m)[i] = r
        BY DEF Rsts
      <3>3. \A i \in 1..(m + 1) : Rsts(m + 1)[i] = r
        BY DEF Rsts
      <3>4. \A i \in 1..(m + 1) : i \in 1..m \/ i = m + 1
        OBVIOUS
      <3>5. \A i \in 1..Len(Rsts(m + 1)) : Rsts(m + 1)[i] = Append(Rsts(m), r)[i]
        BY <2>1, <3>1, <3>2, <3>3, <3>4
      <3> QED BY <2>1, <3>1, <3>5, SeqEqual
    <2>4. c \o Rsts(m) \in Seq(Msgs) /\ Append(c \o Rsts(m), r) = c \o Append(Rsts(m), r)
      <3> HIDE DEF r
      <3> QED BY <2>1, <2>2
    <2>5. Flow(k, Append(c \o Rsts(m), r)) = Flow(k, c \o Rsts(m)) \o Load(k, r)
      BY <2>2, <2>4, FlowAppend
    <2>6. Load(k, r) = <<>>
      BY LoadNone
    <2>7. Flow(k, c \o Rsts(m)) = Flow(k, c) /\ Flow(k, c) \in Seq(Nat)
      BY <1>3, FlowType
    <2>8. Flow(k, c) \o <<>> = Flow(k, c)
      BY <2>7, ConcatEmpty
    <2> HIDE DEF r
    <2>9. c \o Rsts(m + 1) = Append(c \o Rsts(m), r)
      BY <2>3, <2>4, Zenon
    <2>10. Flow(k, c \o Rsts(m + 1)) = Flow(k, c)
      BY <2>5, <2>6, <2>7, <2>8, <2>9, Zenon
    <2> QED BY <2>10
  <1> HIDE DEF H
  <1>4. \A m \in 0..n : m \in H
    BY <1>1, <1>2, <1>3, UpTo
  <1>5. n \in 0..n
    OBVIOUS
  <1> QED BY <1>4, <1>5 DEF H

-----------------------------------------------------------------------------
(* The inductive invariant.                                                *)
Streams == [st : {"CLOSED", "ESTABLISHED", "RECYCLE"}, flag : SUBSET Flags, rb : Seq(Nat),
            incre : Nat, wb : Seq(Nat), cap : 1..Wnd, wnd : 0..Wnd, blocked : BOOLEAN]
Steps == {Idle, "wnd", "chk", "fin", "det", "resize", "syn", "data"}
Tickers == [pc : Steps, seen : SUBSET Flags]
Tasks == [pc : {Idle, "lookup", "apply", "drain"}, msg : Held]

Around ==
    /\ mux \in [Ends -> {"ATTACHED", "CLOSED"}]
    /\ conn \in [Ends -> BOOLEAN] /\ inmap \in [Ends -> BOOLEAN]
    /\ closing \in [Ends -> BOOLEAN] /\ told \in [Ends -> BOOLEAN]
    /\ outps \in [Ends -> Nat] /\ chan \in [Ends -> Seq(Msgs)]
    /\ tick \in [Ends -> Tickers] /\ task \in [Ends -> Tasks]
    /\ sent \in Nat /\ got \in Seq(Nat) /\ writing \in Nat /\ ends \in Nat /\ due \in Nat
Typed == Around /\ str \in [Ends -> Streams]

(* The bounds of the channel and of the behaviour. *)
Limits ==
    /\ \A e \in Ends : Len(chan[e]) <= ChanCap
    /\ sent + writing <= MaxBytes /\ writing <= MaxCall /\ ends <= MaxEnds /\ due <= sent

(* At one end: s is the stream, im says that the map has it, k is the       *)
(* ticker and t the event task.  A stream that the application has got is   *)
(* never made again.                                                        *)
Has(s) == s.st # "CLOSED" \/ s.flag # {}
Tasked(t, s) ==
    /\ t.pc = "apply" => Has(s) /\ t.msg.type # "SYN"
    /\ t.pc \in {Idle, "drain"} => t.msg = NoMsg
    /\ t.pc \in {"lookup", "apply"} => t.msg \in Msgs
Local(s, im, k, t) ==
    /\ Has(s) \/ s = NewStream
    /\ im => Has(s)
    /\ k.pc # Idle => im
    /\ Tasked(t, s)
    /\ Len(s.wb) <= s.cap /\ Len(s.rb) <= Wnd

(* The end that opens the stream: PLAN_SYN is there until the SYN is sent,  *)
(* which comes after BUFFER_DETERMINED, so that one of them is always set;  *)
(* the flags that the ticker writes back lose no SYN.                       *)
Opener(s, k) ==
    /\ s.rb = <<>>
    /\ Has(s) => {"PLAN_SYN", "BUFFER_DETERMINED"} \cap s.flag # {}
    /\ k.pc = "resize" => ("PLAN_SYN" \in k.seen <=> "PLAN_SYN" \in s.flag)
    /\ k.pc \in {"syn", "data"} => "BUFFER_DETERMINED" \in s.flag

(* The other end writes nothing: its ticker goes no further than the FIN. *)
Reader(s, k) == s.wb = <<>> /\ k.pc \in {Idle, "wnd", "chk", "fin"}

(* What is on its way to e: in the channel and in the hands of the task. *)
Toward(k, e) == Len(Flow(k, chan[e])) + Len(Load(k, task[e].msg))

Plans(s) == ~Has(s) \/ "PLAN_SYN" \in s.flag
One(b) == IF b THEN 1 ELSE 0
Single(p, t, h) == p + t + h <= 1

(* No byte and no SYN goes to A; the SYN of the stream is planned, on its   *)
(* way, or has made the stream, once.                                       *)
OneSyn ==
    /\ Toward("data", A) = 0 /\ Toward("syn", A) = 0
    /\ Single(One(Plans(str[A])), Toward("syn", B), One(Has(str[B])))

(* The sizes that are counted: the window of the writer, what it has not    *)
(* sent, what the reader has to read, what it is to give back, what it has  *)
(* read.                                                                    *)
Window == str[A].wnd
Unsent == Len(str[A].wb)
Waiting == Len(str[B].rb)
Owed == str[B].incre
Taken == Len(got)

(* The window of the writer, what is under way, what the reader holds and   *)
(* what it gives back make up no more than one window.                      *)
Fits(v, d, w, o, c) == v + d + w + o + c <= Wnd
Balance ==
    "READ_SHUTDOWN" \notin str[B].flag =>
      Fits(Window, Toward("data", B), Waiting, Owed, Toward("credit", A))

(* No byte is made on the way. *)
Within(g, w, d, u, n) == g + w + d + u <= n
Counted == Within(Taken, Waiting, Toward("data", B), Unsent, sent)

Locals ==
    /\ \A e \in Ends : Local(str[e], inmap[e], tick[e], task[e])
    /\ Opener(str[A], tick[A]) /\ Reader(str[B], tick[B])
    /\ writing > 0 => Has(str[A])

WindowInv == Typed /\ Limits /\ Locals /\ OneSyn /\ Balance /\ Counted

LEMMA EndsFacts ==
  /\ A \in Ends /\ B \in Ends /\ A # B /\ Other(A) = B /\ Other(B) = A
  /\ \A e \in Ends : Other(e) \in Ends /\ Other(e) # e /\ (e = A \/ e = B)
  BY MuxAssumption DEF Ends, Other

LEMMA ConstFacts == Wnd \in Nat /\ Wnd >= 1 /\ TrySize \in Nat /\ TrySize >= 1
                    /\ ChanCap \in Nat /\ ChanCap >= 1 /\ MaxCall \in Nat /\ MaxBytes \in Nat /\ MaxEnds \in Nat
  BY MuxAssumption

LEMMA TowardType ==
  ASSUME Typed
  PROVE  \A k \in Kinds, e \in Ends :
           /\ Flow(k, chan[e]) \in Seq(Nat) /\ Len(Flow(k, chan[e])) \in Nat
           /\ Load(k, task[e].msg) \in Seq(Nat) /\ Len(Load(k, task[e].msg)) \in Nat
           /\ Toward(k, e) \in Nat
  <1> SUFFICES ASSUME NEW k \in Kinds, NEW e \in Ends
               PROVE  /\ Flow(k, chan[e]) \in Seq(Nat) /\ Len(Flow(k, chan[e])) \in Nat
                      /\ Load(k, task[e].msg) \in Seq(Nat) /\ Len(Load(k, task[e].msg)) \in Nat
                      /\ Toward(k, e) \in Nat
    OBVIOUS
  <1>1. chan[e] \in Seq(Msgs) /\ task[e].msg \in Held
    BY DEF Typed, Around, Tasks
  <1>2. /\ Flow(k, chan[e]) \in Seq(Nat) /\ Len(Flow(k, chan[e])) \in Nat
        /\ Load(k, task[e].msg) \in Seq(Nat) /\ Len(Load(k, task[e].msg)) \in Nat
    BY <1>1, FlowType, LoadFacts
  <1> QED BY <1>2 DEF Toward

Sized ==
    /\ Window \in Nat /\ Unsent \in Nat /\ Waiting \in Nat /\ Owed \in Nat
    /\ Taken \in Nat /\ sent \in Nat
    /\ Toward("data", A) \in Nat /\ Toward("data", B) \in Nat
    /\ Toward("credit", A) \in Nat /\ Toward("syn", A) \in Nat /\ Toward("syn", B) \in Nat

LEMMA SizesType == Typed => Sized
  <1> SUFFICES ASSUME Typed PROVE Sized
    OBVIOUS
  <1>1. str[A] \in Streams /\ str[B] \in Streams
    BY EndsFacts DEF Typed, Around
  <1>2. Window \in Nat /\ Owed \in Nat
    BY <1>1, ConstFacts DEF Streams, Window, Owed
  <1>3. Unsent \in Nat /\ Waiting \in Nat
    <2>1. str[A].wb \in Seq(Nat) /\ str[B].rb \in Seq(Nat)
      BY <1>1 DEF Streams
    <2> QED BY <2>1, LenProperties DEF Unsent, Waiting
  <1>4. Taken \in Nat /\ sent \in Nat
    BY LenProperties DEF Typed, Around, Taken
  <1> QED BY <1>2, <1>3, <1>4, EndsFacts, TowardType DEF Kinds, Sized

(* The arithmetic of the sums. *)
LEMMA FitsFacts ==
  ASSUME NEW v \in Nat, NEW d \in Nat, NEW w \in Nat, NEW o \in Nat, NEW c \in Nat,
         Fits(v, d, w, o, c)
  PROVE  /\ w + d <= Wnd
         /\ \A d1, c1 \in Nat : d1 <= d /\ c1 <= c => Fits(v, d1, w, o, c1)
         /\ \A w1, o1, n \in Nat : w = w1 + n /\ o1 = o + n => Fits(v, d, w1, o1, c)
         /\ \A o1, c1 \in Nat : o1 = 0 /\ c1 = c + o => Fits(v, d, w, o1, c1)
         /\ \A v1, d1, n \in Nat : v = v1 + n /\ d1 = d + n => Fits(v1, d1, w, o, c)
         /\ \A d1, w1, n \in Nat : d = d1 + n /\ w1 = w + n => Fits(v, d1, w1, o, c)
         /\ \A c1, v1, n \in Nat : c = c1 + n /\ v1 <= v + n => Fits(v1, d, w, o, c1)
  BY ConstFacts DEF Fits

LEMMA WithinFacts ==
  ASSUME NEW g \in Nat, NEW w \in Nat, NEW d \in Nat, NEW u \in Nat, NEW n \in Nat,
         Within(g, w, d, u, n)
  PROVE  /\ g <= n
         /\ \A d1, u1 \in Nat : d1 <= d /\ u1 <= u => Within(g, w, d1, u1, n)
         /\ \A u1, n1, m \in Nat : u1 = u + m /\ n1 = n + m => Within(g, w, d, u1, n1)
         /\ \A d1, u1, m \in Nat : u = u1 + m /\ d1 = d + m => Within(g, w, d1, u1, n)
         /\ \A d1, w1, m \in Nat : d = d1 + m /\ w1 = w + m => Within(g, w1, d1, u, n)
  BY DEF Within

LEMMA WithinRead ==
  ASSUME NEW g \in Nat, NEW w \in Nat, NEW d \in Nat, NEW u \in Nat, NEW n \in Nat,
         Within(g, w, d, u, n)
  PROVE  \A g1, w1, m \in Nat : w = w1 + m /\ g1 = g + m => Within(g1, w1, d, u, n)
  BY DEF Within

LEMMA SingleFacts ==
  ASSUME NEW p \in {0, 1}, NEW t \in Nat, NEW h \in {0, 1}, Single(p, t, h)
  PROVE  /\ \A t1 \in Nat : t1 <= t => Single(p, t1, h)
         /\ p = 1 => t = 0 /\ h = 0
         /\ p = 1 => Single(0, 1, 0) /\ Single(0, 0, 0)
         /\ t >= 1 => t = 1 /\ p = 0 /\ h = 0 /\ Single(0, 0, 1)
  BY DEF Single

LEMMA OneType == \A b : One(b) \in {0, 1} /\ (b => One(b) = 1) /\ (~b => One(b) = 0)
  BY DEF One

(* The invariant gives the window property. *)
LEMMA WindowInvSound == WindowInv => WindowSound
  <1> SUFFICES ASSUME WindowInv PROVE WindowSound
    OBVIOUS
  <1> USE DEF WindowInv
  <1>1. /\ \A e \in Ends : /\ str[e] \in Streams /\ chan[e] \in Seq(Msgs) /\ tick[e] \in Tickers
                           /\ task[e] \in Tasks /\ outps[e] \in Nat
        /\ sent \in Nat /\ got \in Seq(Nat) /\ Len(got) \in Nat
    BY DEF Typed, Around
  <1>2. \A e \in Ends : /\ Len(str[e].rb) \in Nat /\ Len(str[e].wb) \in Nat
                        /\ str[e].cap \in 1..Wnd /\ str[e].wnd \in 0..Wnd
                        /\ Len(str[e].rb) <= Wnd /\ Len(str[e].wb) <= str[e].cap
                        /\ str[e].incre \in Nat /\ str[e].flag \subseteq Flags
                        /\ str[e].st \in {"CLOSED", "ESTABLISHED", "RECYCLE"}
    BY <1>1 DEF Streams, Locals, Local, Tasked
  <1>3. \A k \in Kinds, e \in Ends : Toward(k, e) \in Nat
    BY TowardType
  <1>4. Len(got) <= sent
    <2>1. Taken <= sent
      BY SizesType, WithinFacts DEF Counted, Sized
    <2> QED BY <2>1 DEF Taken
  <1>5. TypeOK
    <2>1. \A e \in Ends : Len(chan[e]) \in 0..ChanCap
      BY <1>1, ConstFacts DEF Limits
    <2>2. \A e \in Ends : /\ task[e].pc \in {Idle, "lookup", "apply", "drain"}
                          /\ tick[e].pc \in {Idle, "wnd", "chk", "fin", "det", "resize", "syn", "data"}
      BY <1>1 DEF Tasks, Tickers, Steps
    <2>3. \A e \in Ends : {Len(str[e].rb), Len(str[e].wb), str[e].wnd} \subseteq 0..Wnd
      BY <1>2, ConstFacts
    <2>4. /\ sent \in 0..MaxBytes /\ Len(got) \in 0..sent /\ writing \in 0..MaxCall
          /\ ends \in 0..MaxEnds /\ due \in 0..sent
      BY <1>1, <1>4, ConstFacts DEF Limits, Typed, Around
    <2> QED BY <1>1, <1>2, <2>1, <2>2, <2>3, <2>4 DEF TypeOK, Typed, Around
  <1>6. \A e \in Ends : /\ Bytes(task[e].msg) = Load("data", task[e].msg)
                        /\ InFlight(e) = Flow("data", chan[e])
    <2> SUFFICES ASSUME NEW e \in Ends
                 PROVE  /\ Bytes(task[e].msg) = Load("data", task[e].msg)
                        /\ InFlight(e) = Flow("data", chan[e])
      OBVIOUS
    <2>1. task[e].msg \in Held
      BY <1>1 DEF Tasks
    <2>2. Bytes(task[e].msg) = Load("data", task[e].msg)
      BY <2>1, LoadFacts DEF Kinds
    <2>3. \A i \in 1..Len(chan[e]) : Bytes(chan[e][i]) = Load("data", chan[e][i])
      BY DEF Bytes, Load
    <2> QED BY <2>2, <2>3 DEF InFlight, Flow, Loads
  <1>7. DataFits
    <2> SUFFICES ASSUME NEW e \in Ends, "READ_SHUTDOWN" \notin str[e].flag
                 PROVE  Len(str[e].rb) + Len(Bytes(task[e].msg)) + Len(InFlight(e)) <= Wnd
      BY DEF DataFits
    <2>1. Len(Load("data", task[e].msg)) \in Nat /\ Len(Flow("data", chan[e])) \in Nat
      BY TowardType DEF Kinds
    <2>2. Len(Bytes(task[e].msg)) \in Nat /\ Len(InFlight(e)) \in Nat
          /\ Toward("data", e) = Len(InFlight(e)) + Len(Bytes(task[e].msg))
      BY <1>6, <2>1, Zenon DEF Toward
    <2>3. CASE e = A
      <3>1. Toward("data", A) = 0
        BY DEF OneSyn
      <3>2. Len(str[e].rb) <= Wnd /\ Len(str[e].rb) \in Nat
        BY <1>2
      <3>3. Len(Bytes(task[e].msg)) = 0 /\ Len(InFlight(e)) = 0
        BY <2>1, <2>2, <2>3, <3>1
      <3> QED BY <3>2, <3>3
    <2>4. CASE e = B
      <3>1. Fits(Window, Toward("data", B), Waiting, Owed, Toward("credit", A))
        BY <2>4 DEF Balance
      <3>2. Waiting + Toward("data", B) <= Wnd
        BY <3>1, SizesType, FitsFacts DEF Sized
      <3>3. Len(str[e].rb) = Waiting
        BY <2>4 DEF Waiting
      <3>4. Waiting + Len(Bytes(task[e].msg)) + Len(InFlight(e)) <= Wnd
        BY <2>1, <2>2, <2>4, <3>2, SizesType, ConstFacts, SMTT(30) DEF Sized
      <3> QED BY <3>3, <3>4
    <2> QED BY <2>3, <2>4, EndsFacts
  <1> QED BY <1>5, <1>7 DEF WindowSound

LEMMA NewStreamFacts ==
  /\ NewStream \in Streams /\ NewStream.st = "CLOSED" /\ NewStream.flag = {} /\ NewStream.rb = <<>>
  /\ NewStream.incre = 0 /\ NewStream.wb = <<>> /\ NewStream.cap = Wnd /\ NewStream.wnd = Wnd
  BY ConstFacts DEF NewStream, Streams

LEMMA WindowInit == MuxInit => WindowInv
  <1> SUFFICES ASSUME MuxInit PROVE WindowInv
    OBVIOUS
  <1> USE DEF MuxInit
  <1>1. /\ \A e \in Ends : /\ str[e] = NewStream /\ chan[e] = <<>> /\ ~inmap[e]
                           /\ tick[e] = [pc |-> Idle, seen |-> {}] /\ task[e] = [pc |-> Idle, msg |-> NoMsg]
    OBVIOUS
  <1>2. [pc |-> Idle, seen |-> {}] \in Tickers /\ [pc |-> Idle, msg |-> NoMsg] \in Tasks
    BY DEF Tickers, Tasks, Steps, Held
  <1>3. <<>> \in Seq(Msgs) /\ <<>> \in Seq(Nat) /\ Len(<<>>) = 0
    OBVIOUS
  <1>4. Typed
    BY <1>2, <1>3, NewStreamFacts DEF Typed, Around
  <1>5. Limits
    BY <1>3, ConstFacts DEF Limits
  <1>6. Locals
    <2>1. \A e \in Ends : Local(str[e], inmap[e], tick[e], task[e])
      <3>1. Len(NewStream.wb) <= NewStream.cap /\ Len(NewStream.rb) <= Wnd
        BY <1>3, NewStreamFacts, ConstFacts
      <3>2. ASSUME NEW e \in Ends PROVE Local(str[e], inmap[e], tick[e], task[e])
        <4>1. tick[e].pc = Idle /\ task[e].pc = Idle /\ task[e].msg = NoMsg
          BY <1>1
        <4> QED BY <1>1, <3>1, <4>1 DEF Local, Tasked, Idle
      <3> QED BY <3>2
    <2>2. Opener(NewStream, [pc |-> Idle, seen |-> {}]) /\ Reader(NewStream, [pc |-> Idle, seen |-> {}])
      BY NewStreamFacts DEF Opener, Reader, Has, Idle
    <2>3. writing = 0 /\ ~(0 > 0)
      OBVIOUS
    <2>4. Opener(str[A], tick[A]) /\ Reader(str[B], tick[B])
      BY <1>1, <2>2, EndsFacts
    <2> QED BY <2>1, <2>3, <2>4 DEF Locals
  <1>7. \A k \in Kinds, e \in Ends : Toward(k, e) = 0
    <2> SUFFICES ASSUME NEW k \in Kinds, NEW e \in Ends PROVE Toward(k, e) = 0
      OBVIOUS
    <2>1. Flow(k, chan[e]) = <<>>
      BY <1>1, FlowEmpty
    <2>2. task[e].msg.type = "none"
      BY <1>1 DEF NoMsg
    <2>3. Load(k, task[e].msg) = <<>>
      BY <2>2, LoadNone
    <2> QED BY <1>3, <2>1, <2>3 DEF Toward
  <1>8. Toward("data", A) = 0 /\ Toward("syn", A) = 0 /\ Toward("syn", B) = 0 /\ Toward("data", B) = 0
        /\ Toward("credit", A) = 0
    BY <1>7, EndsFacts DEF Kinds
  <1>9. str[A] = NewStream /\ str[B] = NewStream
    BY <1>1, EndsFacts
  <1>10. OneSyn
    <2>1. ~Has(str[B])
      BY <1>9, NewStreamFacts DEF Has
    <2> QED BY <1>8, <2>1 DEF OneSyn, One, Single
  <1>11. Balance /\ Counted
    BY <1>3, <1>8, <1>9, NewStreamFacts, ConstFacts
    DEF Balance, Counted, Window, Waiting, Owed, Unsent, Taken, Fits, Within
  <1> QED BY <1>4, <1>5, <1>6, <1>10, <1>11 DEF WindowInv
-----------------------------------------------------------------------------
(* Steps that take nothing from the windows and add nothing to the flows.   *)
Calm ==
    /\ Typed' /\ Limits' /\ Locals'
    /\ sent' = sent /\ got' = got
    /\ Window' = Window /\ Unsent' <= Unsent /\ Waiting' = Waiting
    /\ Plans(str'[A]) = Plans(str[A]) /\ Has(str'[B]) = Has(str[B])
    /\ \/ "READ_SHUTDOWN" \in str'[B].flag
       \/ "READ_SHUTDOWN" \notin str[B].flag /\ Owed' = Owed
    /\ \A k \in Kinds, e \in Ends : Toward(k, e)' <= Toward(k, e)

LEMMA CalmKeeps ==
  ASSUME WindowInv, Calm PROVE WindowInv'
  <1>1. Typed /\ Typed'
    BY DEF WindowInv, Calm
  <1>2. Sized /\ Sized'
    BY <1>1, SizesType, PTL
  <1>3. /\ Toward("data", A)' <= Toward("data", A) /\ Toward("data", B)' <= Toward("data", B)
        /\ Toward("credit", A)' <= Toward("credit", A) /\ Toward("syn", A)' <= Toward("syn", A)
        /\ Toward("syn", B)' <= Toward("syn", B)
    BY EndsFacts DEF Calm, Kinds
  <1>5. OneSyn'
    <2>1. Toward("data", A) = 0 /\ Toward("syn", A) = 0
      BY DEF WindowInv, OneSyn
    <2>2. Toward("data", A)' = 0 /\ Toward("syn", A)' = 0
      BY <1>2, <1>3, <2>1 DEF Sized
    <2>3. Single(One(Plans(str[A])), Toward("syn", B), One(Has(str[B])))
      BY DEF WindowInv, OneSyn
    <2>4. One(Plans(str'[A])) = One(Plans(str[A])) /\ One(Has(str'[B])) = One(Has(str[B]))
      BY DEF Calm
    <2>5. One(Plans(str[A])) \in {0, 1} /\ One(Has(str[B])) \in {0, 1}
      BY OneType
    <2>6. Single(One(Plans(str[A])), Toward("syn", B)', One(Has(str[B])))
      BY <2>3, <2>5, <1>2, <1>3, SingleFacts DEF Sized
    <2> QED BY <2>2, <2>4, <2>6 DEF OneSyn
  <1>6. Balance'
    <2> SUFFICES ASSUME "READ_SHUTDOWN" \notin str'[B].flag
                 PROVE  Fits(Window', Toward("data", B)', Waiting', Owed', Toward("credit", A)')
      BY DEF Balance
    <2>1. "READ_SHUTDOWN" \notin str[B].flag /\ Owed' = Owed /\ Window' = Window /\ Waiting' = Waiting
      BY DEF Calm
    <2>2. Fits(Window, Toward("data", B), Waiting, Owed, Toward("credit", A))
      BY <2>1 DEF WindowInv, Balance
    <2>3. Fits(Window, Toward("data", B)', Waiting, Owed, Toward("credit", A)')
      BY <2>2, <1>2, <1>3, FitsFacts, ZenonT(30) DEF Sized
    <2> QED BY <2>1, <2>3
  <1>7. Counted'
    <2>1. Within(Taken, Waiting, Toward("data", B), Unsent, sent)
      BY DEF WindowInv, Counted
    <2>2. Unsent' <= Unsent /\ Waiting' = Waiting /\ sent' = sent /\ Taken' = Taken
      BY DEF Calm, Taken
    <2>3. \A d, u \in Nat : d <= Toward("data", B) /\ u <= Unsent =>
                             Within(Taken, Waiting, d, u, sent)
      BY <2>1, <1>2, WithinFacts DEF Sized
    <2>4. Within(Taken, Waiting, Toward("data", B)', Unsent', sent)
      BY <2>2, <2>3, <1>2, <1>3 DEF Sized
    <2> QED BY <2>2, <2>4 DEF Counted
  <1> QED BY <1>5, <1>6, <1>7 DEF WindowInv, Calm

SameFlow == \A k \in Kinds, e \in Ends : Flow(k, chan'[e]) = Flow(k, chan[e])

LEMMA SendFlow ==
  ASSUME Typed, NEW e \in Ends, NEW m \in Msgs, SendTo(e, m)
  PROVE  /\ chan' \in [Ends -> Seq(Msgs)]
         /\ chan'[e] = chan[e] /\ Len(chan'[Other(e)]) = Len(chan[Other(e)]) + 1
         /\ \A k \in Kinds : /\ Flow(k, chan'[e]) = Flow(k, chan[e])
                             /\ Flow(k, chan'[Other(e)]) = Flow(k, chan[Other(e)]) \o Load(k, m)
  <1> DEFINE f == Other(e)
  <1>1. f \in Ends /\ f # e
    BY EndsFacts
  <1>2. chan[f] \in Seq(Msgs) /\ chan \in [Ends -> Seq(Msgs)]
    BY <1>1 DEF Typed, Around
  <1>3. chan' = [chan EXCEPT ![f] = Append(chan[f], m)]
    BY DEF SendTo
  <1> HIDE DEF f
  <1>4. chan'[f] = Append(chan[f], m) /\ chan'[e] = chan[e]
    BY <1>1, <1>2, <1>3
  <1>5. Append(chan[f], m) \in Seq(Msgs) /\ Len(Append(chan[f], m)) = Len(chan[f]) + 1
    BY <1>2
  <1>6. chan' \in [Ends -> Seq(Msgs)]
    BY <1>1, <1>2, <1>3, <1>5
  <1>7. \A k \in Kinds : Flow(k, Append(chan[f], m)) = Flow(k, chan[f]) \o Load(k, m)
    BY <1>2, FlowAppend
  <1> QED BY <1>4, <1>5, <1>6, <1>7 DEF f

(* A packet without a load. *)
LEMMA SendNone ==
  ASSUME Typed, NEW e \in Ends, NEW m \in Msgs, m.type \in {"FIN", "RST"}, SendTo(e, m)
  PROVE  SameFlow
  <1> SUFFICES ASSUME NEW k \in Kinds, NEW f \in Ends PROVE Flow(k, chan'[f]) = Flow(k, chan[f])
    BY DEF SameFlow
  <1>1. /\ Flow(k, chan'[e]) = Flow(k, chan[e])
        /\ Flow(k, chan'[Other(e)]) = Flow(k, chan[Other(e)]) \o Load(k, m)
    BY SendFlow
  <1>2. Load(k, m) = <<>>
    BY LoadNone
  <1>3. Flow(k, chan[Other(e)]) \in Seq(Nat)
    BY EndsFacts, TowardType
  <1>4. Flow(k, chan[Other(e)]) \o <<>> = Flow(k, chan[Other(e)])
    BY <1>3, ConcatEmpty
  <1>5. f = e \/ f = Other(e)
    BY EndsFacts DEF Other
  <1> QED BY <1>1, <1>2, <1>4, <1>5

(* The flows stay, and a task keeps its packet or lets it go. *)
LEMMA FewerLoads ==
  ASSUME Typed, SameFlow, \A e \in Ends : task'[e].msg \in {task[e].msg, NoMsg}
  PROVE  \A k \in Kinds, e \in Ends : Toward(k, e)' <= Toward(k, e)
  <1> SUFFICES ASSUME NEW k \in Kinds, NEW e \in Ends PROVE Toward(k, e)' <= Toward(k, e)
    OBVIOUS
  <1> DEFINE a == Len(Flow(k, chan[e]))
             b == Len(Load(k, task[e].msg))
             c == Len(Load(k, task'[e].msg))
  <1>1. a \in Nat /\ b \in Nat /\ Toward(k, e) = a + b
    BY TowardType DEF Toward
  <1>2. Flow(k, chan'[e]) = Flow(k, chan[e])
    BY DEF SameFlow
  <1>3. Toward(k, e)' = a + c
    BY <1>2 DEF Toward
  <1>4. c = b \/ c = 0
    <2>1. CASE task'[e].msg = task[e].msg
      BY <2>1
    <2>2. CASE task'[e].msg = NoMsg
      <3>1. Load(k, NoMsg) = <<>>
        BY LoadNone DEF NoMsg
      <3> QED BY <2>2, <3>1
    <2> QED BY <2>1, <2>2
  <1> HIDE DEF a, b, c
  <1> QED BY <1>1, <1>3, <1>4

(* What closing and the flags of the ticker do to a stream. *)
Tame(s, t) ==
    /\ t \in Streams /\ t.wnd = s.wnd /\ t.wb = s.wb /\ t.rb = s.rb /\ t.cap = s.cap
    /\ Has(t) /\ s.flag \ {"PLAN_FIN"} \subseteq t.flag
    /\ "PLAN_SYN" \in t.flag => "PLAN_SYN" \in s.flag
    /\ "READ_SHUTDOWN" \in t.flag \/ t.incre = s.incre

LEMMA TameFacts ==
  ASSUME NEW s \in Streams, Has(s)
  PROVE  /\ Tame(s, s)
         /\ Tame(s, ForceClose(s))
         /\ Tame(s, CloseReadOf(s)) /\ Tame(s, CloseWriteOf(s)) /\ Tame(s, CloseOf(s))
         /\ Tame(s, [s EXCEPT !.st = "RECYCLE"])
         /\ BothShut \subseteq s.flag => Tame(s, [s EXCEPT !.st = "CLOSED"])
         /\ Tame(s, [s EXCEPT !.flag = (@ \ {"PLAN_FIN"}) \cup {"WRITE_SHUTDOWN"}])
  <1>1. /\ s.st \in {"CLOSED", "ESTABLISHED", "RECYCLE"} /\ s.flag \in SUBSET Flags /\ s.rb \in Seq(Nat)
        /\ s.incre \in Nat /\ Len(s.rb) \in Nat
    BY LenProperties DEF Streams
  <1> USE DEF Tame, Has, Streams, Flags
  <1>2. Tame(s, s) /\ Tame(s, [s EXCEPT !.st = "RECYCLE"])
    OBVIOUS
  <1>3. Tame(s, ForceClose(s))
    BY DEF ForceClose, BothShut
  <1>4. Tame(s, CloseReadOf(s))
    <2>1. CASE "READ_SHUTDOWN_CALLED" \in s.flag
      BY <2>1, <1>2 DEF CloseReadOf
    <2>2. CASE "READ_SHUTDOWN_CALLED" \notin s.flag
      <3> DEFINE n == s.incre + Len(s.rb)
      <3>1. n \in Nat
        BY <1>1
      <3>2. CloseReadOf(s) = [s EXCEPT !.flag = @ \cup {"READ_SHUTDOWN_CALLED", "READ_SHUTDOWN"},
                                       !.incre = n]
        BY <2>2 DEF CloseReadOf
      <3> HIDE DEF n
      <3> DEFINE t == CloseReadOf(s)
      <3>3. /\ t \in Streams /\ t.wnd = s.wnd /\ t.wb = s.wb /\ t.rb = s.rb /\ t.cap = s.cap
            /\ t.flag = s.flag \cup {"READ_SHUTDOWN_CALLED", "READ_SHUTDOWN"}
        BY <3>1, <3>2, ZenonT(30)
      <3> HIDE DEF t
      <3>4. Tame(s, t)
        BY <3>3
      <3> QED BY <3>4 DEF t
    <2> QED BY <2>1, <2>2
  <1>5. Tame(s, CloseWriteOf(s))
    BY DEF CloseWriteOf
  <1>6. Tame(s, CloseOf(s))
    <2> DEFINE r == CloseReadOf(s)
    <2>1. Tame(s, r)
      BY <1>4
    <2> HIDE DEF r
    <2>2. Tame(r, CloseWriteOf(r))
      BY <2>1 DEF CloseWriteOf
    <2>3. CloseOf(s) = CloseWriteOf(r)
      BY DEF CloseOf, r
    <2>4. Tame(s, CloseWriteOf(r))
      BY <2>1, <2>2
    <2> QED BY <2>3, <2>4
  <1>7. BothShut \subseteq s.flag => Tame(s, [s EXCEPT !.st = "CLOSED"])
    BY DEF BothShut
  <1>8. Tame(s, [s EXCEPT !.flag = (@ \ {"PLAN_FIN"}) \cup {"WRITE_SHUTDOWN"}])
    OBVIOUS
  <1> QED BY <1>2, <1>3, <1>4, <1>5, <1>6, <1>7, <1>8

LEMMA TameTwice ==
  ASSUME NEW s \in Streams, NEW t, NEW u, Tame(s, t), Tame(t, u) PROVE Tame(s, u)
  BY DEF Tame, Streams

(* What the ticker may be at, when the stream is s. *)
Ticks(e, s, k) ==
    /\ e = A => /\ k.pc = "resize" => ("PLAN_SYN" \in k.seen <=> "PLAN_SYN" \in s.flag)
                /\ k.pc \in {"syn", "data"} => "BUFFER_DETERMINED" \in s.flag
    /\ e = B => k.pc \in {Idle, "wnd", "chk", "fin"}

LEMMA TicksNow ==
  ASSUME Locals PROVE \A e \in Ends : Ticks(e, str[e], tick[e])
  BY EndsFacts DEF Locals, Opener, Reader, Ticks

LEMMA TameStream ==
  ASSUME WindowInv, NEW e \in Ends, NEW t, str' = [str EXCEPT ![e] = t],
         t = str[e] \/ (Has(str[e]) /\ Tame(str[e], t)),
         \A f \in Ends : f # e => tick'[f] = tick[f] /\ task'[f] = task[f] /\ inmap'[f] = inmap[f],
         inmap'[e] => inmap[e],
         tick'[e].pc # Idle => inmap'[e],
         Ticks(e, str[e], tick'[e]),
         Tasked(task'[e], str[e]),
         writing' > 0 => Has(str[A])
  PROVE  /\ Locals' /\ str' \in [Ends -> Streams]
         /\ Window' = Window /\ Unsent' <= Unsent /\ Waiting' = Waiting
         /\ Plans(str'[A]) = Plans(str[A]) /\ Has(str'[B]) = Has(str[B])
         /\ \/ "READ_SHUTDOWN" \in str'[B].flag
            \/ "READ_SHUTDOWN" \notin str[B].flag /\ Owed' = Owed
  <1>1. str \in [Ends -> Streams] /\ str[e] \in Streams
    BY DEF WindowInv, Typed, Around
  <1>2. t \in Streams
    BY <1>1 DEF Tame
  <1>3. str' \in [Ends -> Streams] /\ str'[e] = t /\ \A f \in Ends : f # e => str'[f] = str[f]
    BY <1>1, <1>2
  <1>4. /\ Has(t) = Has(str[e]) /\ t.wb = str[e].wb /\ t.rb = str[e].rb /\ t.cap = str[e].cap
        /\ t.wnd = str[e].wnd
        /\ "PLAN_SYN" \in t.flag <=> "PLAN_SYN" \in str[e].flag
        /\ "BUFFER_DETERMINED" \in str[e].flag => "BUFFER_DETERMINED" \in t.flag
        /\ "READ_SHUTDOWN" \in str[e].flag => "READ_SHUTDOWN" \in t.flag
        /\ "READ_SHUTDOWN" \in t.flag \/ t.incre = str[e].incre
        /\ ~Has(t) => t = str[e]
    BY DEF Tame, Has
  <1>5. \A f \in Ends : Local(str[f], inmap[f], tick[f], task[f])
    BY DEF WindowInv, Locals
  <1>6. Local(str'[e], inmap'[e], tick'[e], task'[e])
    BY <1>3, <1>4, <1>5 DEF Local, Tasked
  <1>7. \A f \in Ends : Local(str'[f], inmap'[f], tick'[f], task'[f])
    BY <1>3, <1>5, <1>6
  <1>8. Opener(str[A], tick[A]) /\ Reader(str[B], tick[B])
    BY DEF WindowInv, Locals
  <1>9. Opener(str'[A], tick'[A])
    <2>1. CASE e = A
      BY <2>1, <1>3, <1>4, <1>8 DEF Opener, Ticks
    <2>2. CASE e # A
      BY <2>2, <1>3, <1>8, EndsFacts
    <2> QED BY <2>1, <2>2
  <1>10. Reader(str'[B], tick'[B])
    <2>1. CASE e = B
      BY <2>1, <1>3, <1>4, <1>8 DEF Reader, Ticks
    <2>2. CASE e # B
      BY <2>2, <1>3, <1>8, EndsFacts
    <2> QED BY <2>1, <2>2
  <1>11. Locals'
    <2>1. Has(str'[A]) = Has(str[A])
      BY <1>3, <1>4, EndsFacts
    <2> QED BY <1>7, <1>9, <1>10, <2>1 DEF Locals
  <1>12. Window' = Window /\ Unsent' = Unsent /\ Waiting' = Waiting
    <2>1. \A f \in Ends : /\ str'[f].wnd = str[f].wnd /\ str'[f].wb = str[f].wb
                          /\ str'[f].rb = str[f].rb
      BY <1>3, <1>4
    <2> QED BY <2>1, EndsFacts DEF Window, Unsent, Waiting
  <1>13. Unsent \in Nat
    BY SizesType DEF WindowInv, Sized
  <1>14. Unsent' <= Unsent
    BY <1>12, <1>13
  <1>15. \A f \in Ends : /\ Plans(str'[f]) = Plans(str[f]) /\ Has(str'[f]) = Has(str[f])
                         /\ \/ "READ_SHUTDOWN" \in str'[f].flag
                            \/ "READ_SHUTDOWN" \notin str[f].flag /\ str'[f].incre = str[f].incre
    <2> SUFFICES ASSUME NEW f \in Ends
                 PROVE  /\ Plans(str'[f]) = Plans(str[f]) /\ Has(str'[f]) = Has(str[f])
                        /\ \/ "READ_SHUTDOWN" \in str'[f].flag
                           \/ "READ_SHUTDOWN" \notin str[f].flag /\ str'[f].incre = str[f].incre
      OBVIOUS
    <2>1. CASE f = e
      BY <2>1, <1>3, <1>4 DEF Plans
    <2>2. CASE f # e
      BY <2>2, <1>3
    <2> QED BY <2>1, <2>2
  <1> QED BY <1>3, <1>11, <1>12, <1>14, <1>15, EndsFacts DEF Owed
LEMMA TameKeeps ==
  ASSUME WindowInv, NEW e \in Ends, NEW t, str' = [str EXCEPT ![e] = t],
         t = str[e] \/ (Has(str[e]) /\ Tame(str[e], t)),
         \A f \in Ends : f # e => tick'[f] = tick[f] /\ task'[f] = task[f] /\ inmap'[f] = inmap[f],
         inmap'[e] => inmap[e],
         tick'[e].pc # Idle => inmap'[e],
         Ticks(e, str[e], tick'[e]),
         Tasked(task'[e], str[e]),
         writing' > 0 => Has(str[A]),
         Around', Limits', sent' = sent, got' = got,
         \A k \in Kinds, f \in Ends : Toward(k, f)' <= Toward(k, f)
  PROVE  WindowInv'
  <1>1. /\ Locals' /\ str' \in [Ends -> Streams]
        /\ Window' = Window /\ Unsent' <= Unsent /\ Waiting' = Waiting
        /\ Plans(str'[A]) = Plans(str[A]) /\ Has(str'[B]) = Has(str[B])
        /\ \/ "READ_SHUTDOWN" \in str'[B].flag
           \/ "READ_SHUTDOWN" \notin str[B].flag /\ Owed' = Owed
    BY TameStream
  <1>2. Typed'
    BY <1>1 DEF Typed
  <1>3. Calm
    BY <1>1, <1>2 DEF Calm
  <1> QED BY <1>3, CalmKeeps

(* What holds at an end. *)
LEMMA Here ==
  ASSUME WindowInv, NEW e \in Ends
  PROVE  /\ str[e] \in Streams /\ tick[e] \in Tickers /\ task[e] \in Tasks /\ chan[e] \in Seq(Msgs)
         /\ tick[e].pc \in Steps /\ task[e].msg \in Held
         /\ Local(str[e], inmap[e], tick[e], task[e]) /\ Ticks(e, str[e], tick[e])
         /\ Tasked(task[e], str[e])
         /\ (inmap[e] => Has(str[e])) /\ (tick[e].pc # Idle => inmap[e])
         /\ (task[e].pc = "apply" => Has(str[e]))
         /\ (task[e].pc \in {Idle, "drain"} => task[e].msg = NoMsg)
         /\ str = [str EXCEPT ![e] = str[e]]
  <1>1. /\ str[e] \in Streams /\ tick[e] \in Tickers /\ task[e] \in Tasks /\ chan[e] \in Seq(Msgs)
        /\ str = [str EXCEPT ![e] = str[e]]
    BY DEF WindowInv, Typed, Around
  <1>2. tick[e].pc \in Steps /\ task[e].msg \in Held
    BY <1>1 DEF Tickers, Tasks
  <1>3. Local(str[e], inmap[e], tick[e], task[e]) /\ Ticks(e, str[e], tick[e])
    BY TicksNow DEF WindowInv, Locals
  <1>4. Tasked(task[e], str[e]) /\ (inmap[e] => Has(str[e])) /\ (tick[e].pc # Idle => inmap[e])
    BY <1>3 DEF Local, Tasked
  <1> QED BY <1>1, <1>2, <1>3, <1>4 DEF Tasked

(* Nothing moves. *)
LEMMA NothingMoves ==
  ASSUME WindowInv, chan' = chan, task' = task
  PROVE  /\ \A k \in Kinds, f \in Ends : Toward(k, f)' <= Toward(k, f)
         /\ \A f \in Ends : Len(chan'[f]) <= ChanCap
  <1>1. SameFlow
    BY DEF SameFlow
  <1>2. Typed
    BY DEF WindowInv
  <1>3. \A f \in Ends : task'[f].msg \in {task[f].msg, NoMsg}
    OBVIOUS
  <1> QED BY <1>1, <1>2, <1>3, FewerLoads DEF WindowInv, Limits

(* A step of the ticker. *)
LEMMA GotoStep ==
  ASSUME WindowInv, NEW e \in Ends, NEW pc \in Steps, Goto(e, pc)
  PROVE  /\ tick' \in [Ends -> Tickers] /\ tick'[e].pc = pc /\ tick'[e].seen = tick[e].seen
         /\ \A f \in Ends : f # e => tick'[f] = tick[f]
  <1>1. tick \in [Ends -> Tickers] /\ tick[e] \in Tickers
    BY DEF WindowInv, Typed, Around
  <1>2. tick' = [tick EXCEPT ![e] = [tick[e] EXCEPT !.pc = pc]]
    BY DEF Goto
  <1>3. /\ [tick[e] EXCEPT !.pc = pc] \in Tickers /\ [tick[e] EXCEPT !.pc = pc].pc = pc
        /\ [tick[e] EXCEPT !.pc = pc].seen = tick[e].seen
    BY <1>1 DEF Tickers
  <1> QED BY <1>1, <1>2, <1>3

LEMMA TicksIdle == \A e, s, k : k.pc = Idle => Ticks(e, s, k)
  BY DEF Ticks, Idle

LEMMA OpenKeeps ==
  ASSUME WindowInv, Open PROVE WindowInv'
  <1> DEFINE t == [NewStream EXCEPT !.st = "ESTABLISHED", !.flag = {"PLAN_SYN"}]
  <1>1. /\ A \in Ends /\ B \in Ends /\ A # B
        /\ str \in [Ends -> Streams] /\ inmap \in [Ends -> BOOLEAN]
    BY EndsFacts DEF WindowInv, Typed, Around
  <1>2. ~Has(str[A]) /\ tick[A].pc = Idle
    BY DEF Open, HasStream, Has, MutexFree
  <1>3. str[A] = NewStream
    BY <1>1, <1>2, Here DEF Local, Tasked
  <1>4. str' = [str EXCEPT ![A] = t] /\ inmap' = [inmap EXCEPT ![A] = TRUE]
    BY DEF Open
  <1>5. /\ t \in Streams /\ Has(t) /\ t.flag = {"PLAN_SYN"} /\ t.rb = <<>> /\ t.wb = <<>> /\ t.wnd = Wnd
        /\ t.cap = Wnd
    BY NewStreamFacts DEF Streams, Has, Flags
  <1> HIDE DEF t
  <1>6. /\ str' \in [Ends -> Streams] /\ str'[A] = t /\ str'[B] = str[B]
        /\ inmap' \in [Ends -> BOOLEAN] /\ inmap'[B] = inmap[B]
    BY <1>1, <1>4, <1>5
  <1>7. Typed' /\ chan' = chan /\ task' = task /\ tick' = tick /\ sent' = sent /\ got' = got
        /\ writing' = writing
    BY <1>6 DEF Open, WindowInv, Typed, Around
  <1>8. Limits'
    BY DEF Open, WindowInv, Limits
  <1>9. Locals'
    <2>1. Local(str[A], inmap[A], tick[A], task[A]) /\ Local(str[B], inmap[B], tick[B], task[B])
      BY <1>1, Here
    <2>2. Len(<<>>) <= Wnd
      BY ConstFacts
    <2>3. Local(t, inmap'[A], tick[A], task[A])
      BY <1>2, <1>5, <2>1, <2>2 DEF Local, Tasked
    <2>4. Opener(t, tick[A])
      BY <1>2, <1>5 DEF Opener, Idle
    <2>5. Reader(str[B], tick[B])
      BY DEF WindowInv, Locals
    <2> QED BY <1>5, <1>6, <1>7, <2>1, <2>3, <2>4, <2>5, EndsFacts DEF Locals
  <1>10. Window' = Window /\ Unsent' = Unsent /\ Waiting' = Waiting /\ Owed' = Owed
    BY <1>3, <1>5, <1>6, NewStreamFacts DEF Window, Unsent, Waiting, Owed
  <1>11. Unsent' <= Unsent
    BY <1>10, SizesType DEF WindowInv, Sized
  <1>12. Plans(str'[A]) = Plans(str[A])
    BY <1>2, <1>5, <1>6 DEF Plans
  <1>13. "READ_SHUTDOWN" \in str'[B].flag \/ "READ_SHUTDOWN" \notin str[B].flag
    BY <1>6
  <1>14. Calm
    BY <1>6, <1>7, <1>8, <1>9, <1>10, <1>11, <1>12, <1>13, NothingMoves DEF Calm
  <1> QED BY <1>14, CalmKeeps

LEMMA WriteBeginKeeps ==
  ASSUME WindowInv, WriteBegin PROVE WindowInv'
  <1>1. PICK n \in 1..Least(MaxCall, MaxBytes - sent - ends) : writing' = n
    BY DEF WriteBegin
  <1>2. sent \in Nat /\ ends \in Nat
    BY DEF WindowInv, Typed, Around
  <1>3. n \in Nat /\ n <= MaxCall /\ sent + n <= MaxBytes
    BY <1>1, <1>2, ConstFacts DEF Least
  <1>4. /\ str' = str /\ tick' = tick /\ task' = task /\ inmap' = inmap /\ chan' = chan
        /\ sent' = sent /\ got' = got /\ Has(str[A])
    BY DEF WriteBegin, HasStream, Has
  <1>5. Around'
    BY <1>1, <1>3 DEF WriteBegin, WindowInv, Typed, Around
  <1>6. Limits'
    BY <1>1, <1>3 DEF WriteBegin, WindowInv, Limits
  <1>7. A \in Ends
    BY EndsFacts
  <1> QED BY <1>4, <1>5, <1>6, <1>7, Here, NothingMoves, TameKeeps

LEMMA CloseKeeps ==
  ASSUME WindowInv, NEW e \in Ends, Close(e) PROVE WindowInv'
  <1>1. PICK t \in {CloseReadOf(str[e]), CloseWriteOf(str[e]), CloseOf(str[e])} :
          str' = [str EXCEPT ![e] = t]
    BY DEF Close
  <1>2. Has(str[e])
    BY DEF Close, HasStream, Has
  <1>3. Tame(str[e], t)
    BY <1>1, <1>2, Here, TameFacts
  <1>4. /\ tick' = tick /\ task' = task /\ inmap' = inmap /\ chan' = chan
        /\ sent' = sent /\ got' = got /\ writing' = writing
    BY DEF Close
  <1>5. due' \in {sent, due} /\ ends' = ends + 1 /\ ends < MaxEnds
    BY DEF Close, CloseWriteCalled, Ending
  <1>6. Around'
    BY <1>5 DEF Close, WindowInv, Typed, Around
  <1>7. Limits'
    BY <1>5, ConstFacts DEF Close, WindowInv, Limits, Typed, Around
  <1>8. writing' > 0 => Has(str[A])
    BY <1>4 DEF WindowInv, Locals
  <1> QED BY <1>1, <1>2, <1>3, <1>4, <1>6, <1>7, <1>8, Here, NothingMoves, TameKeeps

LEMMA PeerCloseKeeps ==
  ASSUME WindowInv, NEW e \in Ends, PeerClose(e) PROVE WindowInv'
  <1> DEFINE t == IF inmap[e] THEN CloseOf(str[e]) ELSE str[e]
  <1>1. str' = [str EXCEPT ![e] = t]
    BY DEF PeerClose
  <1>2. t = str[e] \/ (Has(str[e]) /\ Tame(str[e], t))
    BY Here, TameFacts
  <1>3. /\ tick' = tick /\ task' = task /\ inmap' = inmap /\ chan' = chan
        /\ sent' = sent /\ got' = got /\ writing' = writing
    BY DEF PeerClose
  <1>4. due' \in {sent, due} /\ ends' = ends + 1 /\ ends < MaxEnds
    BY DEF PeerClose, CloseWriteCalled, Ending
  <1>5. Around'
    BY <1>4 DEF PeerClose, WindowInv, Typed, Around
  <1>6. Limits'
    BY <1>4, ConstFacts DEF PeerClose, WindowInv, Limits, Typed, Around
  <1>7. writing' > 0 => Has(str[A])
    BY <1>3 DEF WindowInv, Locals
  <1> HIDE DEF t
  <1> QED BY <1>1, <1>2, <1>3, <1>5, <1>6, <1>7, Here, NothingMoves, TameKeeps

(* A channel that is emptied. *)
LEMMA Emptied ==
  ASSUME WindowInv, NEW e \in Ends, chan'[e] = <<>>, task' = task
  PROVE  \A k \in Kinds : Toward(k, e)' <= Toward(k, e)
  <1> SUFFICES ASSUME NEW k \in Kinds PROVE Toward(k, e)' <= Toward(k, e)
    OBVIOUS
  <1> DEFINE a == Len(Flow(k, chan[e]))
             b == Len(Load(k, task[e].msg))
  <1>1. a \in Nat /\ b \in Nat /\ Toward(k, e) = a + b
    BY TowardType DEF WindowInv, Toward
  <1>2. Flow(k, chan'[e]) = <<>>
    BY FlowEmpty
  <1>3. Toward(k, e)' = 0 + b
    BY <1>2 DEF Toward
  <1> HIDE DEF a, b
  <1> QED BY <1>1, <1>3

LEMMA Kept ==
  ASSUME WindowInv, NEW e \in Ends, chan'[e] = chan[e], task' = task
  PROVE  \A k \in Kinds : Toward(k, e)' <= Toward(k, e)
  <1> SUFFICES ASSUME NEW k \in Kinds PROVE Toward(k, e)' <= Toward(k, e)
    OBVIOUS
  <1>1. Toward(k, e)' = Toward(k, e)
    BY DEF Toward
  <1>2. Toward(k, e) \in Nat
    BY TowardType DEF WindowInv
  <1> QED BY <1>1, <1>2

LEMMA PeerCloseEndsKeeps ==
  ASSUME WindowInv, NEW e \in Ends, PeerCloseEnds(e) PROVE WindowInv'
  <1>1. /\ str' = str /\ tick' = tick /\ task' = task /\ inmap' = inmap
        /\ sent' = sent /\ got' = got /\ writing' = writing
    BY DEF PeerCloseEnds
  <1>2. chan' \in [Ends -> Seq(Msgs)] /\ chan'[e] = <<>> /\ \A f \in Ends : f # e => chan'[f] = chan[f]
    BY DEF PeerCloseEnds, WindowInv, Typed, Around
  <1>3. Around'
    BY <1>2 DEF PeerCloseEnds, WindowInv, Typed, Around
  <1>4. Len(<<>>) <= ChanCap
    BY ConstFacts
  <1>5. Limits'
    BY <1>2, <1>4 DEF PeerCloseEnds, WindowInv, Limits
  <1>6. \A k \in Kinds, f \in Ends : Toward(k, f)' <= Toward(k, f)
    BY <1>1, <1>2, Emptied, Kept
  <1>7. writing' > 0 => Has(str[A])
    BY <1>1 DEF WindowInv, Locals
  <1> QED BY <1>1, <1>3, <1>5, <1>6, <1>7, Here, TameKeeps

LEMMA DisconnectKeeps ==
  ASSUME WindowInv, Disconnect PROVE WindowInv'
  <1>1. /\ str' = str /\ tick' = tick /\ task' = task /\ inmap' = inmap
        /\ sent' = sent /\ got' = got /\ writing' = writing
    BY DEF Disconnect
  <1>2. chan' \in [Ends -> Seq(Msgs)] /\ \A f \in Ends : chan'[f] = <<>>
    BY DEF Disconnect
  <1>3. ends' = ends + 1 /\ ends < MaxEnds
    BY DEF Disconnect, Ending
  <1>4. Around'
    BY <1>2, <1>3 DEF Disconnect, WindowInv, Typed, Around
  <1>5. Len(<<>>) <= ChanCap
    BY ConstFacts
  <1>6. Limits'
    BY <1>2, <1>3, <1>5, ConstFacts DEF Disconnect, WindowInv, Limits, Typed, Around
  <1>7. \A k \in Kinds, f \in Ends : Toward(k, f)' <= Toward(k, f)
    BY <1>1, <1>2, Emptied
  <1>8. writing' > 0 => Has(str[A])
    BY <1>1 DEF WindowInv, Locals
  <1>9. A \in Ends
    BY EndsFacts
  <1> QED BY <1>1, <1>4, <1>6, <1>7, <1>8, <1>9, Here, TameKeeps

LEMMA RemoteClosedKeeps ==
  ASSUME WindowInv, NEW e \in Ends, RemoteClosed(e) PROVE WindowInv'
  <1>1. /\ str' = str /\ tick' = tick /\ task' = task /\ inmap' = inmap /\ chan' = chan
        /\ sent' = sent /\ got' = got /\ writing' = writing
    BY DEF RemoteClosed
  <1>2. Around'
    BY DEF RemoteClosed, WindowInv, Typed, Around
  <1>3. Limits'
    BY DEF RemoteClosed, WindowInv, Limits
  <1>4. writing' > 0 => Has(str[A])
    BY <1>1 DEF WindowInv, Locals
  <1> QED BY <1>1, <1>2, <1>3, <1>4, Here, NothingMoves, TameKeeps
-----------------------------------------------------------------------------
(* The ticker.                                                             *)

(* A step of the ticker that sends nothing with a load, and leaves the      *)
(* event task alone. *)
LEMMA TickKeeps ==
  ASSUME WindowInv, NEW e \in Ends, NEW t, NEW pc \in Steps,
         str' = [str EXCEPT ![e] = t], t = str[e] \/ Tame(str[e], t),
         tick[e].pc # Idle, Goto(e, pc), pc = Idle \/ Ticks(e, str[e], tick'[e]),
         SameFlow, chan' \in [Ends -> Seq(Msgs)], \A f \in Ends : Len(chan'[f]) <= ChanCap,
         UNCHANGED <<mux, conn, inmap, outps, task, closing, told, sent, got, writing, ends, due>>
  PROVE  WindowInv'
  <1>1. /\ tick' \in [Ends -> Tickers] /\ tick'[e].pc = pc
        /\ \A f \in Ends : f # e => tick'[f] = tick[f]
    BY GotoStep
  <1>2. inmap[e] /\ Has(str[e])
    BY Here
  <1>3. Around'
    BY <1>1 DEF WindowInv, Typed, Around
  <1>4. Limits'
    BY DEF WindowInv, Limits
  <1>5. \A k \in Kinds, f \in Ends : Toward(k, f)' <= Toward(k, f)
    <2>1. \A f \in Ends : task'[f].msg \in {task[f].msg, NoMsg}
      OBVIOUS
    <2> QED BY <2>1, FewerLoads DEF WindowInv
  <1>6. writing' > 0 => Has(str[A])
    BY DEF WindowInv, Locals
  <1>7. Ticks(e, str[e], tick'[e])
    BY <1>1, TicksIdle
  <1>8. /\ Tasked(task'[e], str[e])
    BY Here
  <1> QED BY <1>1, <1>2, <1>3, <1>4, <1>5, <1>6, <1>7, <1>8, TameKeeps

LEMMA NoSend ==
  ASSUME WindowInv, chan' = chan
  PROVE  SameFlow /\ chan' \in [Ends -> Seq(Msgs)] /\ \A f \in Ends : Len(chan'[f]) <= ChanCap
  BY DEF SameFlow, WindowInv, Typed, Around, Limits

(* A packet that the socket takes. *)
LEMMA Sent ==
  ASSUME WindowInv, NEW e \in Ends, NEW m \in Msgs, Result(e) = "OK", SendTo(e, m)
  PROVE  /\ chan' \in [Ends -> Seq(Msgs)] /\ \A f \in Ends : Len(chan'[f]) <= ChanCap
         /\ m.type \in {"FIN", "RST"} => SameFlow
  <1>1. /\ chan' \in [Ends -> Seq(Msgs)] /\ chan'[e] = chan[e]
        /\ Len(chan'[Other(e)]) = Len(chan[Other(e)]) + 1
    BY SendFlow DEF WindowInv
  <1>2. Len(chan[Other(e)]) < ChanCap
    BY DEF Result, Sendable
  <1>3. chan[Other(e)] \in Seq(Msgs) /\ Len(chan[e]) <= ChanCap
    BY EndsFacts DEF WindowInv, Typed, Around, Limits
  <1>4. Len(chan'[Other(e)]) <= ChanCap
    BY <1>1, <1>2, <1>3, ConstFacts
  <1>5. \A f \in Ends : f = e \/ f = Other(e)
    BY EndsFacts DEF Other
  <1>6. m.type \in {"FIN", "RST"} => SameFlow
    BY SendNone DEF WindowInv
  <1> QED BY <1>1, <1>3, <1>4, <1>5, <1>6

LEMMA SendFailedKeeps ==
  ASSUME WindowInv, NEW e \in Ends, tick[e].pc # Idle, SendFailed(e),
         UNCHANGED <<mux, conn, inmap, outps, task, closing, told, sent, got, writing, ends, due>>
  PROVE  WindowInv'
  <1> DEFINE t == IF Result(e) = "error" THEN ForceClose(str[e]) ELSE str[e]
  <1>1. str' = [str EXCEPT ![e] = t]
    BY Here DEF SendFailed
  <1>2. Has(str[e])
    BY Here
  <1>3. t = str[e] \/ Tame(str[e], t)
    BY <1>2, Here, TameFacts
  <1>4. Goto(e, Idle) /\ chan' = chan
    BY DEF SendFailed
  <1>5. Idle \in Steps
    BY DEF Steps
  <1> HIDE DEF t
  <1> QED BY <1>1, <1>3, <1>4, <1>5, NoSend, TickKeeps

(* RST, taken or kept in m_outps. *)
LEMMA RstSent ==
  ASSUME WindowInv, NEW e \in Ends, SendRst(e)
  PROVE  /\ chan' \in [Ends -> Seq(Msgs)] /\ \A f \in Ends : Len(chan'[f]) <= ChanCap
         /\ outps' \in [Ends -> Nat] /\ SameFlow
  <1>1. [type |-> "RST"] \in Msgs
    BY MsgMade
  <1>2. outps \in [Ends -> Nat]
    BY DEF WindowInv, Typed, Around
  <1>3. CASE Result(e) = "OK"
    <2>1. SendTo(e, [type |-> "RST"]) /\ outps' = outps
      BY <1>3 DEF SendRst
    <2> QED BY <1>1, <1>2, <1>3, <2>1, Sent
  <1>4. CASE Result(e) = "SEND_BLOCK"
    <2>1. outps' = [outps EXCEPT ![e] = outps[e] + 1] /\ chan' = chan
      BY <1>4 DEF SendRst
    <2>2. outps[e] + 1 \in Nat
      BY <1>2
    <2>3. outps' \in [Ends -> Nat]
      BY <1>2, <2>1, <2>2
    <2> QED BY <2>1, <2>3, NoSend
  <1>5. CASE Result(e) = "error"
    <2>1. outps' = outps /\ chan' = chan
      BY <1>5 DEF SendRst
    <2> QED BY <1>2, <2>1, NoSend
  <1> QED BY <1>3, <1>4, <1>5 DEF Result

LEMMA TickCheckKeeps ==
  ASSUME WindowInv, NEW e \in Ends, TickCheck(e) PROVE WindowInv'
  <1>1. /\ tick[e].pc = "chk" /\ tick[e].pc # Idle /\ chan' = chan
        /\ UNCHANGED <<mux, conn, inmap, outps, task, closing, told, sent, got, writing, ends, due>>
    BY DEF TickCheck, At, Idle
  <1>2. Has(str[e]) /\ str[e] \in Streams /\ str = [str EXCEPT ![e] = str[e]]
    BY <1>1, Here
  <1>3. CASE BothShut \subseteq str[e].flag /\ str[e].incre = 0
    <2> DEFINE t == [str[e] EXCEPT !.st = "CLOSED"]
    <2>1. str' = [str EXCEPT ![e] = t] /\ Goto(e, Idle)
      BY <1>3 DEF TickCheck
    <2>2. Tame(str[e], t)
      BY <1>2, <1>3, TameFacts
    <2>3. Idle \in Steps
      BY DEF Steps
    <2> HIDE DEF t
    <2> QED BY <1>1, <2>1, <2>2, <2>3, NoSend, TickKeeps
  <1>4. CASE ~(BothShut \subseteq str[e].flag /\ str[e].incre = 0)
    <2> DEFINE pc == IF "WRITE_SHUTDOWN" \in str[e].flag THEN Idle
                     ELSE IF str[e].wb = <<>> THEN "fin" ELSE "det"
    <2>1. str' = str /\ Goto(e, pc)
      BY <1>4 DEF TickCheck
    <2>2. pc \in Steps
      BY DEF Steps
    <2>3. e = B => pc \in {Idle, "fin"}
      <3>1. e = B => str[e].wb = <<>>
        BY DEF WindowInv, Locals, Reader
      <3> QED BY <3>1
    <2>4. pc \notin {"resize", "syn", "data"}
      BY DEF Idle
    <2> HIDE DEF pc
    <2>5. tick'[e].pc = pc
      BY <2>1, <2>2, GotoStep
    <2>6. Ticks(e, str[e], tick'[e])
      BY <2>3, <2>4, <2>5 DEF Ticks
    <2> QED BY <1>1, <1>2, <2>1, <2>2, <2>6, NoSend, TickKeeps
  <1> QED BY <1>3, <1>4

LEMMA TickFinKeeps ==
  ASSUME WindowInv, NEW e \in Ends, TickFin(e) PROVE WindowInv'
  <1>1. /\ tick[e].pc # Idle
        /\ UNCHANGED <<mux, conn, inmap, outps, task, closing, told, sent, got, writing, ends, due>>
    BY DEF TickFin, At, Idle
  <1>2. Has(str[e]) /\ str[e] \in Streams /\ str = [str EXCEPT ![e] = str[e]] /\ Idle \in Steps
    BY <1>1, Here DEF Steps
  <1>3. CASE "PLAN_FIN" \notin str[e].flag
    <2>1. Goto(e, Idle) /\ str' = str /\ chan' = chan
      BY <1>3 DEF TickFin
    <2> QED BY <1>1, <1>2, <2>1, NoSend, TickKeeps
  <1>4. CASE "PLAN_FIN" \in str[e].flag /\ Result(e) = "OK"
    <2> DEFINE t == [str[e] EXCEPT !.flag = (@ \ {"PLAN_FIN"}) \cup {"WRITE_SHUTDOWN"}]
               m == [type |-> "FIN"]
    <2>1. SendTo(e, m) /\ str' = [str EXCEPT ![e] = t] /\ Goto(e, Idle)
      BY <1>4 DEF TickFin, SendFailed
    <2>2. Tame(str[e], t)
      BY <1>2, TameFacts
    <2>3. m \in Msgs /\ m.type \in {"FIN", "RST"}
      BY MsgMade
    <2> HIDE DEF t, m
    <2>4. /\ chan' \in [Ends -> Seq(Msgs)] /\ \A f \in Ends : Len(chan'[f]) <= ChanCap
          /\ SameFlow
      BY <1>4, <2>1, <2>3, Sent
    <2> QED BY <1>1, <1>2, <2>1, <2>2, <2>4, TickKeeps
  <1>5. CASE SendFailed(e)
    BY <1>1, <1>5, SendFailedKeeps
  <1> QED BY <1>3, <1>4, <1>5 DEF TickFin

LEMMA TickDetermineKeeps ==
  ASSUME WindowInv, NEW e \in Ends, TickDetermine(e) PROVE WindowInv'
  <1> DEFINE u == IF "BUFFER_DETERMINED" \in str[e].flag THEN [tick[e] EXCEPT !.pc = "syn"]
                  ELSE [pc |-> "resize", seen |-> str[e].flag]
  <1>1. /\ tick' = [tick EXCEPT ![e] = u] /\ tick[e].pc = "det" /\ str' = str /\ chan' = chan
        /\ UNCHANGED <<mux, conn, inmap, outps, task, closing, told, sent, got, writing, ends, due>>
    BY DEF TickDetermine, At
  <1>2. tick \in [Ends -> Tickers] /\ tick[e] \in Tickers /\ str[e] \in Streams
    BY Here DEF WindowInv, Typed, Around
  <1>3. /\ u \in Tickers /\ u.pc \in {"syn", "resize"}
        /\ u.pc = "syn" => "BUFFER_DETERMINED" \in str[e].flag
        /\ u.pc = "resize" => u.seen = str[e].flag
    BY <1>2 DEF Tickers, Steps, Streams
  <1> HIDE DEF u
  <1>4. tick' \in [Ends -> Tickers] /\ tick'[e] = u /\ \A f \in Ends : f # e => tick'[f] = tick[f]
    BY <1>1, <1>2, <1>3
  <1>5. inmap[e] /\ e # B
    <2>1. tick[e].pc # Idle
      BY <1>1 DEF Idle
    <2>2. e = B => tick[e].pc # "det"
      BY DEF WindowInv, Locals, Reader, Idle
    <2> QED BY <1>1, <2>1, <2>2, Here
  <1>6. Ticks(e, str[e], tick'[e])
    BY <1>3, <1>4, <1>5 DEF Ticks
  <1>7. Around' /\ Limits'
    BY <1>1, <1>4 DEF WindowInv, Typed, Around, Limits
  <1>8. writing' > 0 => Has(str[A])
    BY <1>1 DEF WindowInv, Locals
  <1> QED BY <1>1, <1>4, <1>5, <1>6, <1>7, <1>8, Here, NothingMoves, TameKeeps
LEMMA TickBeginKeeps ==
  ASSUME WindowInv, NEW e \in Ends, TickBegin(e) PROVE WindowInv'
  <1> DEFINE f == Other(e)
             room == IF conn[e] THEN ChanCap - Len(chan[f]) ELSE outps[e]
             n == Least(outps[e], room)
             s == IF conn[e] THEN str[e] ELSE ForceClose(str[e])
  <1>1. f \in Ends /\ f # e /\ \A g \in Ends : g = e \/ g = f
    BY EndsFacts DEF Other
  <1>2. /\ outps \in [Ends -> Nat] /\ outps[e] \in Nat /\ chan \in [Ends -> Seq(Msgs)]
        /\ chan[f] \in Seq(Msgs) /\ Len(chan[f]) \in Nat /\ Len(chan[f]) <= ChanCap
        /\ tick \in [Ends -> Tickers] /\ inmap \in [Ends -> BOOLEAN] /\ told \in [Ends -> BOOLEAN]
    BY <1>1 DEF WindowInv, Typed, Around, Limits
  <1>3. /\ n \in Nat /\ outps[e] - n \in Nat
        /\ conn[e] => Len(chan[f]) + n <= ChanCap
    BY <1>2, ConstFacts DEF Least
  <1>4. /\ tick[e].pc = Idle /\ outps' = [outps EXCEPT ![e] = outps[e] - n]
        /\ chan' = IF conn[e] THEN [chan EXCEPT ![f] = chan[f] \o Rsts(n)] ELSE chan
        /\ UNCHANGED <<mux, conn, task, closing, sent, got, writing, ends, due>>
    BY DEF TickBegin, MutexFree, Rsts
  <1>5. \/ UNCHANGED <<inmap, str, tick, told>>
        \/ inmap[e] /\ Goto(e, "wnd") /\ UNCHANGED <<inmap, str, told>>
        \/ /\ inmap[e] /\ tick' = tick /\ BothShut \subseteq s.flag
           /\ str' = [str EXCEPT ![e] = [s EXCEPT !.st = "RECYCLE"]]
           /\ inmap' = [inmap EXCEPT ![e] = FALSE] /\ told' = [told EXCEPT ![e] = TRUE]
        \/ inmap[e] /\ tick' = tick /\ str' = [str EXCEPT ![e] = s] /\ UNCHANGED <<inmap, told>>
    BY DEF TickBegin
  <1>6. inmap[e] => Has(str[e]) /\ Tame(str[e], s) /\ Tame(str[e], [s EXCEPT !.st = "RECYCLE"])
    <2> SUFFICES ASSUME inmap[e]
                 PROVE  Has(str[e]) /\ Tame(str[e], s) /\ Tame(str[e], [s EXCEPT !.st = "RECYCLE"])
      OBVIOUS
    <2>1. Has(str[e]) /\ str[e] \in Streams
      BY Here
    <2>2. Tame(str[e], s)
      BY <2>1, TameFacts
    <2>3. s \in Streams /\ Has(s)
      BY <2>2 DEF Tame
    <2> HIDE DEF s
    <2>4. Tame(s, [s EXCEPT !.st = "RECYCLE"])
      BY <2>3, TameFacts
    <2> QED BY <2>1, <2>2, <2>4, TameTwice
  <1> HIDE DEF n, s, room
  <1>7. /\ chan' \in [Ends -> Seq(Msgs)] /\ SameFlow
        /\ \A g \in Ends : Len(chan'[g]) <= ChanCap
    <2>1. CASE conn[e]
      <3>1. chan' = [chan EXCEPT ![f] = chan[f] \o Rsts(n)]
        BY <1>4, <2>1
      <3>2. Rsts(n) \in Seq(Msgs) /\ Len(Rsts(n)) = n
        BY <1>3, RstsType
      <3>3. chan[f] \o Rsts(n) \in Seq(Msgs) /\ Len(chan[f] \o Rsts(n)) = Len(chan[f]) + n
        BY <1>2, <3>2, ConcatMsgs
      <3>4. /\ chan' \in [Ends -> Seq(Msgs)] /\ chan'[f] = chan[f] \o Rsts(n)
            /\ chan'[e] = chan[e]
        BY <1>1, <1>2, <3>1, <3>3
      <3>5. \A k \in Kinds : Flow(k, chan[f] \o Rsts(n)) = Flow(k, chan[f])
        BY <1>2, <1>3, FlowRsts
      <3>6. SameFlow
        BY <1>1, <3>4, <3>5 DEF SameFlow
      <3>7. Len(chan'[f]) <= ChanCap /\ Len(chan'[e]) <= ChanCap
        BY <1>3, <2>1, <3>3, <3>4 DEF WindowInv, Limits
      <3> QED BY <1>1, <3>4, <3>6, <3>7
    <2>2. CASE ~conn[e]
      BY <1>4, <2>2, NoSend
    <2> QED BY <2>1, <2>2
  <1>8. outps' \in [Ends -> Nat]
    BY <1>2, <1>3, <1>4
  <1>9. Limits'
    BY <1>4, <1>7 DEF WindowInv, Limits
  <1>10. \A k \in Kinds, g \in Ends : Toward(k, g)' <= Toward(k, g)
    <2>1. \A g \in Ends : task'[g].msg \in {task[g].msg, NoMsg}
      BY <1>4
    <2> QED BY <1>7, <2>1, FewerLoads DEF WindowInv
  <1>11. writing' > 0 => Has(str[A])
    BY <1>4 DEF WindowInv, Locals
  <1>12. /\ Tasked(task'[e], str[e])
    BY <1>4, Here
  <1>13. Ticks(e, str[e], tick[e]) /\ str = [str EXCEPT ![e] = str[e]] /\ "wnd" \in Steps
    BY Here DEF Steps
  <1>14. CASE UNCHANGED <<inmap, str, tick, told>>
    <2>1. Around'
      BY <1>4, <1>7, <1>8, <1>14 DEF WindowInv, Typed, Around
    <2> QED BY <2>1, <1>4, <1>9, <1>10, <1>11, <1>12, <1>13, <1>14, TameKeeps
  <1>15. CASE inmap[e] /\ Goto(e, "wnd") /\ UNCHANGED <<inmap, str, told>>
    <2>1. /\ tick' \in [Ends -> Tickers] /\ tick'[e].pc = "wnd"
          /\ \A g \in Ends : g # e => tick'[g] = tick[g]
      BY <1>13, <1>15, GotoStep
    <2>2. Ticks(e, str[e], tick'[e])
      BY <2>1 DEF Ticks
    <2>3. Around'
      BY <1>4, <1>7, <1>8, <1>15, <2>1 DEF WindowInv, Typed, Around
    <2> QED BY <2>1, <2>2, <2>3, <1>4, <1>9, <1>10, <1>11, <1>12, <1>13, <1>15, TameKeeps
  <1>16. CASE /\ inmap[e] /\ tick' = tick
              /\ str' = [str EXCEPT ![e] = [s EXCEPT !.st = "RECYCLE"]]
              /\ inmap' = [inmap EXCEPT ![e] = FALSE] /\ told' = [told EXCEPT ![e] = TRUE]
    <2>1. /\ inmap' \in [Ends -> BOOLEAN] /\ told' \in [Ends -> BOOLEAN]
          /\ \A g \in Ends : g # e => inmap'[g] = inmap[g]
      BY <1>2, <1>16
    <2>2. Around'
      BY <1>4, <1>7, <1>8, <1>16, <2>1 DEF WindowInv, Typed, Around
    <2> DEFINE t == [s EXCEPT !.st = "RECYCLE"]
    <2>3. Has(str[e]) /\ Tame(str[e], t) /\ str' = [str EXCEPT ![e] = t]
      BY <1>6, <1>16
    <2> HIDE DEF t
    <2> QED BY <2>1, <2>2, <2>3, <1>4, <1>9, <1>10, <1>11, <1>12, <1>13, <1>16, TameKeeps
  <1>17. CASE inmap[e] /\ tick' = tick /\ str' = [str EXCEPT ![e] = s] /\ UNCHANGED <<inmap, told>>
    <2>1. Around'
      BY <1>4, <1>7, <1>8, <1>17 DEF WindowInv, Typed, Around
    <2> QED BY <2>1, <1>4, <1>6, <1>9, <1>10, <1>11, <1>12, <1>13, <1>17, TameKeeps
  <1> QED BY <1>5, <1>14, <1>15, <1>16, <1>17

(* Steps that change the buffers and the windows of a stream, and leave its *)
(* flags alone. *)
LEMMA FieldStep ==
  ASSUME WindowInv, NEW e \in Ends, NEW t \in Streams, str' = [str EXCEPT ![e] = t],
         Has(str[e]), t.flag = str[e].flag, t.st = str[e].st,
         Len(t.wb) <= t.cap, Len(t.rb) <= Wnd, e = A => t.rb = <<>>, e = B => t.wb = <<>>,
         \A f \in Ends : f # e => tick'[f] = tick[f] /\ task'[f] = task[f],
         inmap' = inmap, tick'[e].pc # Idle => inmap[e], Ticks(e, str[e], tick'[e]),
         Tasked(task'[e], str[e]),
         writing' > 0 => Has(str[A]), Around'
  PROVE  /\ Locals' /\ Typed' /\ str'[e] = t /\ \A f \in Ends : f # e => str'[f] = str[f]
         /\ Plans(str'[A]) = Plans(str[A]) /\ Has(str'[B]) = Has(str[B])
         /\ str'[B].flag = str[B].flag
  <1>1. str \in [Ends -> Streams]
    BY DEF WindowInv, Typed
  <1>2. str' \in [Ends -> Streams] /\ str'[e] = t /\ \A f \in Ends : f # e => str'[f] = str[f]
    BY <1>1
  <1>3. \A f \in Ends : /\ str'[f].flag = str[f].flag /\ str'[f].st = str[f].st
                        /\ Has(str'[f]) = Has(str[f]) /\ Plans(str'[f]) = Plans(str[f])
    BY <1>2 DEF Has, Plans
  <1>4. \A f \in Ends : Local(str[f], inmap[f], tick[f], task[f])
    BY DEF WindowInv, Locals
  <1>5. Local(str'[e], inmap'[e], tick'[e], task'[e])
    BY <1>2, <1>3, <1>4 DEF Local, Tasked
  <1>6. \A f \in Ends : Local(str'[f], inmap'[f], tick'[f], task'[f])
    BY <1>2, <1>4, <1>5
  <1>7. Opener(str[A], tick[A]) /\ Reader(str[B], tick[B])
    BY DEF WindowInv, Locals
  <1>8. Opener(str'[A], tick'[A])
    <2>1. CASE e = A
      BY <2>1, <1>2, <1>3, <1>7 DEF Opener, Ticks
    <2>2. CASE e # A
      BY <2>2, <1>2, <1>7, EndsFacts
    <2> QED BY <2>1, <2>2
  <1>9. Reader(str'[B], tick'[B])
    <2>1. CASE e = B
      BY <2>1, <1>2, <1>7 DEF Reader, Ticks
    <2>2. CASE e # B
      BY <2>2, <1>2, <1>7, EndsFacts
    <2> QED BY <2>1, <2>2
  <1>10. Locals'
    BY <1>3, <1>6, <1>8, <1>9, EndsFacts DEF Locals
  <1> QED BY <1>2, <1>3, <1>10, EndsFacts DEF Typed

LEMMA OneSynKept ==
  ASSUME WindowInv, Typed', Plans(str'[A]) = Plans(str[A]), Has(str'[B]) = Has(str[B]),
         Toward("data", A)' <= Toward("data", A), Toward("syn", A)' <= Toward("syn", A),
         Toward("syn", B)' <= Toward("syn", B)
  PROVE  OneSyn'
  <1>1. Sized /\ Sized'
    BY SizesType, PTL DEF WindowInv
  <1>2. Toward("data", A) = 0 /\ Toward("syn", A) = 0
    BY DEF WindowInv, OneSyn
  <1>3. Toward("data", A)' = 0 /\ Toward("syn", A)' = 0
    BY <1>1, <1>2 DEF Sized
  <1>4. Single(One(Plans(str[A])), Toward("syn", B), One(Has(str[B])))
    BY DEF WindowInv, OneSyn
  <1>5. One(Plans(str[A])) \in {0, 1} /\ One(Has(str[B])) \in {0, 1}
    BY OneType
  <1>6. Single(One(Plans(str[A])), Toward("syn", B)', One(Has(str[B])))
    BY <1>1, <1>4, <1>5, SingleFacts DEF Sized
  <1> QED BY <1>3, <1>6 DEF OneSyn

LEMMA SendCount ==
  ASSUME WindowInv, NEW e \in Ends, NEW m \in Msgs, SendTo(e, m), task' = task, NEW k \in Kinds
  PROVE  /\ Toward(k, e)' = Toward(k, e)
         /\ Toward(k, Other(e))' = Toward(k, Other(e)) + Len(Load(k, m))
         /\ Len(Load(k, m)) \in Nat /\ Toward(k, e) \in Nat /\ Toward(k, Other(e)) \in Nat
  <1>1. /\ Flow(k, chan'[e]) = Flow(k, chan[e])
        /\ Flow(k, chan'[Other(e)]) = Flow(k, chan[Other(e)]) \o Load(k, m)
    BY SendFlow DEF WindowInv
  <1>2. /\ Flow(k, chan[Other(e)]) \in Seq(Nat) /\ Len(Load(k, task[Other(e)].msg)) \in Nat
        /\ Toward(k, e) \in Nat /\ Toward(k, Other(e)) \in Nat
    BY TowardType, EndsFacts DEF WindowInv
  <1>3. Load(k, m) \in Seq(Nat)
    BY LoadFacts DEF Held
  <1> DEFINE a == Len(Flow(k, chan[Other(e)]))
             b == Len(Load(k, task[Other(e)].msg))
             c == Len(Load(k, m))
  <1>4. a \in Nat /\ b \in Nat /\ c \in Nat /\ Len(Flow(k, chan'[Other(e)])) = a + c
    BY <1>1, <1>2, <1>3, ConcatFacts
  <1>5. Toward(k, Other(e)) = a + b /\ Toward(k, Other(e))' = (a + c) + b
    BY <1>4 DEF Toward
  <1>6. Toward(k, e)' = Toward(k, e)
    BY <1>1 DEF Toward
  <1> HIDE DEF a, b
  <1>7. Toward(k, Other(e))' = Toward(k, Other(e)) + c
    BY <1>4, <1>5
  <1> QED BY <1>2, <1>4, <1>6, <1>7
LEMMA TickWndKeeps ==
  ASSUME WindowInv, NEW e \in Ends, TickWnd(e) PROVE WindowInv'
  <1>1. /\ tick[e].pc = "wnd" /\ tick[e].pc # Idle
        /\ UNCHANGED <<mux, conn, inmap, outps, task, closing, told, sent, got, writing, ends, due>>
    BY DEF TickWnd, At, Idle
  <1>2. /\ Has(str[e]) /\ str[e] \in Streams /\ str = [str EXCEPT ![e] = str[e]] /\ "chk" \in Steps
        /\ inmap[e] /\ str[e].incre \in Nat
    BY <1>1, Here DEF Steps, Streams
  <1>3. Goto(e, "chk") => Ticks(e, str[e], tick'[e])
    BY <1>2, GotoStep DEF Ticks
  <1>4. CASE str[e].incre = 0 /\ Goto(e, "chk") /\ UNCHANGED <<str, chan>>
    BY <1>1, <1>2, <1>3, <1>4, NoSend, TickKeeps
  <1>5. CASE SendFailed(e)
    BY <1>1, <1>5, SendFailedKeeps
  <1>6. CASE /\ str[e].incre > 0 /\ Result(e) = "OK"
             /\ SendTo(e, [type |-> "UWND", n |-> str[e].incre])
             /\ str' = [str EXCEPT ![e].incre = 0] /\ Goto(e, "chk")
    <2> DEFINE t == [str[e] EXCEPT !.incre = 0]
               m == [type |-> "UWND", n |-> str[e].incre]
    <2>1. /\ t \in Streams /\ t.flag = str[e].flag /\ t.st = str[e].st /\ t.wb = str[e].wb
          /\ t.rb = str[e].rb /\ t.cap = str[e].cap /\ t.wnd = str[e].wnd /\ t.incre = 0
      BY <1>2 DEF Streams
    <2>2. m \in Msgs /\ m.type = "UWND" /\ m.n = str[e].incre
      BY <1>2, MsgMade
    <2>3. str' = [str EXCEPT ![e] = t] /\ SendTo(e, m)
      BY <1>6
    <2> HIDE DEF t, m
    <2>4. /\ tick' \in [Ends -> Tickers] /\ \A f \in Ends : f # e => tick'[f] = tick[f]
      BY <1>2, <1>6, GotoStep
    <2>5. chan' \in [Ends -> Seq(Msgs)] /\ \A f \in Ends : Len(chan'[f]) <= ChanCap
      BY <1>6, <2>2, <2>3, Sent
    <2>6. Around' /\ Limits'
      BY <1>1, <2>4, <2>5 DEF WindowInv, Typed, Around, Limits
    <2>7. /\ Len(t.wb) <= t.cap /\ Len(t.rb) <= Wnd /\ (e = A => t.rb = <<>>) /\ (e = B => t.wb = <<>>)
      BY <2>1, Here DEF Local, Tasked, WindowInv, Locals, Opener, Reader
    <2>8. /\ Tasked(task'[e], str[e])
          /\ writing' > 0 => Has(str[A])
          /\ inmap' = inmap /\ (tick'[e].pc # Idle => inmap[e]) /\ Ticks(e, str[e], tick'[e])
          /\ \A f \in Ends : f # e => tick'[f] = tick[f] /\ task'[f] = task[f]
      BY <1>1, <1>2, <1>3, <1>6, <2>4, Here DEF WindowInv, Locals
    <2>9. /\ Locals' /\ Typed' /\ str'[e] = t /\ \A f \in Ends : f # e => str'[f] = str[f]
          /\ Plans(str'[A]) = Plans(str[A]) /\ Has(str'[B]) = Has(str[B])
          /\ str'[B].flag = str[B].flag
      BY <1>2, <2>1, <2>3, <2>6, <2>7, <2>8, FieldStep
    <2>10. m \in Held
      BY <2>2 DEF Held
    <2>11. Len(Load("data", m)) = 0 /\ Len(Load("syn", m)) = 0 /\ Len(Load("credit", m)) = str[e].incre
      BY <2>2, <2>10, LoadFacts DEF Kinds
    <2>12. \A k \in Kinds : /\ Toward(k, e)' = Toward(k, e)
                            /\ Toward(k, Other(e))' = Toward(k, Other(e)) + Len(Load(k, m))
      BY <1>1, <2>2, <2>3, SendCount
    <2>13. Sized /\ Sized'
      BY <2>9, SizesType, PTL DEF WindowInv
    <2>14. \A f \in Ends : Toward("data", f)' = Toward("data", f) /\ Toward("syn", f)' = Toward("syn", f)
      <3>1. \A f \in Ends : f = e \/ f = Other(e)
        BY EndsFacts DEF Other
      <3>2. \A f \in Ends : Toward("data", f) \in Nat /\ Toward("syn", f) \in Nat
        BY TowardType DEF WindowInv, Kinds
      <3>3. /\ Toward("data", Other(e))' = Toward("data", Other(e))
            /\ Toward("syn", Other(e))' = Toward("syn", Other(e))
        BY <2>11, <2>12, <3>2, EndsFacts DEF Kinds
      <3> QED BY <2>12, <3>1, <3>3 DEF Kinds
    <2>15. OneSyn'
      BY <2>9, <2>13, <2>14, EndsFacts, OneSynKept DEF Sized
    <2>16. Window' = Window /\ Unsent' = Unsent /\ Waiting' = Waiting
      <3>1. \A f \in Ends : str'[f].wnd = str[f].wnd /\ str'[f].wb = str[f].wb /\ str'[f].rb = str[f].rb
        BY <2>1, <2>9
      <3> QED BY <3>1, EndsFacts DEF Window, Unsent, Waiting
    <2>17. Counted'
      <3>1. Counted
        BY DEF WindowInv
      <3> QED BY <1>1, <3>1, <2>14, <2>16, EndsFacts DEF Counted, Taken
    <2>18. Balance'
      <3> SUFFICES ASSUME "READ_SHUTDOWN" \notin str[B].flag
                   PROVE  Fits(Window, Toward("data", B), Waiting, Owed', Toward("credit", A)')
        BY <2>9, <2>14, <2>16, EndsFacts DEF Balance
      <3>1. Fits(Window, Toward("data", B), Waiting, Owed, Toward("credit", A))
        BY DEF WindowInv, Balance
      <3>2. CASE e = A
        <4>1. Owed' = Owed /\ Toward("credit", A)' = Toward("credit", A)
          BY <3>2, <2>9, <2>12, EndsFacts DEF Owed, Kinds
        <4> QED BY <3>1, <4>1
      <3>3. CASE e = B
        <4>1. Owed' = 0 /\ Toward("credit", A)' = Toward("credit", A) + Owed
          BY <3>3, <2>1, <2>9, <2>11, <2>12, EndsFacts DEF Owed, Kinds
        <4> QED BY <3>1, <4>1, <2>13, FitsFacts, ZenonT(30) DEF Sized
      <3> QED BY <3>2, <3>3, EndsFacts
    <2> QED BY <2>6, <2>9, <2>15, <2>17, <2>18 DEF WindowInv
  <1> QED BY <1>4, <1>5, <1>6 DEF TickWnd

(* Only A writes. *)
LEMMA WriterTicks ==
  ASSUME WindowInv, NEW e \in Ends, tick[e].pc \in {"det", "resize", "syn", "data"}
  PROVE  e = A /\ tick[e].pc # Idle /\ inmap[e] /\ Has(str[e]) /\ str[e] \in Streams
  <1>1. tick[e].pc # Idle
    BY DEF Idle
  <1>2. e # B
    BY DEF WindowInv, Locals, Reader, Idle
  <1> QED BY <1>1, <1>2, Here, EndsFacts

LEMMA TickResizeKeeps ==
  ASSUME WindowInv, NEW e \in Ends, TickResize(e) PROVE WindowInv'
  <1>1. /\ tick[e].pc = "resize" /\ chan' = chan
        /\ UNCHANGED <<mux, conn, inmap, outps, task, closing, told, sent, got, writing, ends, due>>
    BY DEF TickResize, At
  <1>2. e = A /\ tick[e].pc # Idle /\ inmap[e] /\ Has(str[e]) /\ str[e] \in Streams
    BY <1>1, WriterTicks
  <1> DEFINE s == str[A]
             size == Least(TrySize, s.cap)
             u == [pc |-> "syn", seen |-> {}]
             b == SubSeq(s.wb, 1, Least(size, Len(s.wb)))
             fl == tick[A].seen \cup {"BUFFER_DETERMINED"}
             t == [s EXCEPT !.flag = fl, !.cap = size, !.wb = b]
  <1>3. /\ str' = [str EXCEPT ![A] = t] /\ tick' = [tick EXCEPT ![A] = u]
    BY <1>2 DEF TickResize
  <1>4. /\ size \in 1..Wnd /\ size <= s.cap /\ s.wb \in Seq(Nat) /\ Len(s.wb) \in Nat
    BY <1>2, ConstFacts, LenProperties DEF Streams, Least
  <1>5. /\ b \in Seq(Nat) /\ Len(b) = Least(size, Len(s.wb)) /\ Len(b) <= size /\ Len(b) <= Len(s.wb)
    <2> DEFINE n == Least(size, Len(s.wb))
    <2>1. n \in 0..Len(s.wb) /\ n <= size
      BY <1>4 DEF Least
    <2> HIDE DEF n
    <2>2. SubSeq(s.wb, 1, n) \in Seq(Nat) /\ Len(SubSeq(s.wb, 1, n)) = n
      BY <1>4, <2>1
    <2> QED BY <2>1, <2>2 DEF n
  <1>6. fl \in SUBSET Flags /\ u \in Tickers
    BY <1>2, Here DEF Tickers, Flags, Steps
  <1> HIDE DEF size, b, fl
  <1>7. /\ t \in Streams /\ t.flag = fl /\ t.cap = size /\ t.wb = b /\ t.rb = s.rb /\ t.wnd = s.wnd
    BY <1>2, <1>4, <1>5, <1>6 DEF Streams
  <1>8. /\ Has(t) /\ "BUFFER_DETERMINED" \in t.flag
        /\ "PLAN_SYN" \in t.flag <=> "PLAN_SYN" \in s.flag
    <2>1. "PLAN_SYN" \in tick[A].seen <=> "PLAN_SYN" \in s.flag
      BY <1>1, <1>2 DEF WindowInv, Locals, Opener
    <2> QED BY <1>7, <2>1 DEF Has, fl
  <1> HIDE DEF t
  <1>9. A \in Ends /\ B \in Ends /\ A # B /\ str \in [Ends -> Streams] /\ tick \in [Ends -> Tickers]
    BY EndsFacts DEF WindowInv, Typed, Around
  <1>10. str' \in [Ends -> Streams] /\ str'[A] = t /\ str'[B] = str[B]
    BY <1>3, <1>7, <1>9
  <1>11. tick' \in [Ends -> Tickers] /\ tick'[A] = u /\ tick'[B] = tick[B]
    BY <1>3, <1>6, <1>9
  <1>12. Typed' /\ Limits'
    BY <1>1, <1>10, <1>11 DEF WindowInv, Typed, Around, Limits
  <1>13. Locals'
    <2>1. Local(s, inmap[A], tick[A], task[A]) /\ Local(str[B], inmap[B], tick[B], task[B])
      BY <1>9, Here
    <2>2. Local(t, inmap[A], u, task[A])
      BY <1>2, <1>5, <1>7, <1>8, <2>1 DEF Local, Tasked, Idle
    <2>3. Opener(s, tick[A]) /\ Reader(str[B], tick[B])
      BY DEF WindowInv, Locals
    <2>4. Opener(t, u)
      BY <1>7, <1>8, <2>3 DEF Opener
    <2> QED BY <1>1, <1>8, <1>10, <1>11, <2>1, <2>2, <2>3, <2>4, EndsFacts DEF Locals
  <1>14. Window' = Window /\ Waiting' = Waiting /\ Owed' = Owed /\ Unsent' <= Unsent
    BY <1>5, <1>7, <1>10 DEF Window, Waiting, Owed, Unsent
  <1>15. Plans(str'[A]) = Plans(str[A]) /\ Has(str'[B]) = Has(str[B])
    BY <1>2, <1>8, <1>10 DEF Plans
  <1>16. "READ_SHUTDOWN" \in str'[B].flag \/ "READ_SHUTDOWN" \notin str[B].flag
    BY <1>10
  <1>17. Calm
    BY <1>1, <1>12, <1>13, <1>14, <1>15, <1>16, NothingMoves DEF Calm
  <1> QED BY <1>17, CalmKeeps
LEMMA TickSynKeeps ==
  ASSUME WindowInv, NEW e \in Ends, TickSyn(e) PROVE WindowInv'
  <1>1. /\ tick[e].pc = "syn"
        /\ UNCHANGED <<mux, conn, inmap, outps, task, closing, told, sent, got, writing, ends, due>>
    BY DEF TickSyn, At
  <1>2. e = A /\ tick[e].pc # Idle /\ inmap[e] /\ Has(str[e]) /\ str[e] \in Streams
    BY <1>1, WriterTicks
  <1>3. "BUFFER_DETERMINED" \in str[A].flag /\ "data" \in Steps
    BY <1>1, <1>2 DEF WindowInv, Locals, Opener, Steps
  <1>4. Goto(e, "data") => Ticks(e, str[e], tick'[e])
    BY <1>2, <1>3, GotoStep, EndsFacts DEF Ticks
  <1>5. CASE "PLAN_SYN" \notin str[e].flag /\ Goto(e, "data") /\ UNCHANGED <<str, chan>>
    BY <1>1, <1>2, <1>3, <1>4, <1>5, Here, NoSend, TickKeeps
  <1>6. CASE SendFailed(e)
    BY <1>1, <1>2, <1>6, SendFailedKeeps
  <1>7. CASE /\ "PLAN_SYN" \in str[e].flag /\ Result(e) = "OK"
             /\ SendTo(e, [type |-> "SYN"])
             /\ str' = [str EXCEPT ![e].flag = @ \ {"PLAN_SYN"}]
             /\ Goto(e, "data")
    <2> DEFINE s == str[A]
               t == [s EXCEPT !.flag = s.flag \ {"PLAN_SYN"}]
               m == [type |-> "SYN"]
    <2>1. /\ t \in Streams /\ t.flag = s.flag \ {"PLAN_SYN"} /\ t.wb = s.wb
          /\ t.rb = s.rb /\ t.cap = s.cap /\ t.wnd = s.wnd
      BY <1>2 DEF Streams
    <2>2. m \in Msgs /\ m.type = "SYN"
      BY MsgMade
    <2>3. str' = [str EXCEPT ![A] = t] /\ SendTo(A, m) /\ Result(A) = "OK"
      BY <1>2, <1>7
    <2> HIDE DEF t, m
    <2>4. A \in Ends /\ B \in Ends /\ A # B /\ Other(A) = B /\ str \in [Ends -> Streams]
      BY EndsFacts DEF WindowInv, Typed
    <2>5. str' \in [Ends -> Streams] /\ str'[A] = t /\ str'[B] = str[B]
      BY <2>1, <2>3, <2>4
    <2>6. /\ tick' \in [Ends -> Tickers] /\ tick'[A].pc = "data" /\ tick'[B] = tick[B]
      BY <1>2, <1>3, <1>7, <2>4, GotoStep
    <2>7. chan' \in [Ends -> Seq(Msgs)] /\ \A f \in Ends : Len(chan'[f]) <= ChanCap
      BY <2>2, <2>3, <2>4, Sent
    <2>8. Typed' /\ Limits'
      BY <1>1, <2>5, <2>6, <2>7 DEF WindowInv, Typed, Around, Limits
    <2>9. Has(t) /\ ~Plans(t) /\ Plans(s)
      BY <1>2, <1>3, <1>7, <2>1 DEF Has, Plans
    <2>10. Locals'
      <3>1. Local(s, inmap[A], tick[A], task[A]) /\ Local(str[B], inmap[B], tick[B], task[B])
        BY <2>4, Here
      <3>2. Local(t, inmap[A], tick'[A], task[A])
        BY <1>2, <2>1, <2>9, <3>1 DEF Local, Tasked
      <3>3. Opener(s, tick[A]) /\ Reader(str[B], tick[B])
        BY DEF WindowInv, Locals
      <3>4. Opener(t, tick'[A])
        BY <1>3, <2>1, <2>6, <3>3 DEF Opener
      <3> QED BY <1>1, <2>5, <2>6, <2>9, <3>1, <3>2, <3>3, <3>4, EndsFacts DEF Locals
    <2>11. Sized /\ Sized'
      BY <2>8, SizesType, PTL DEF WindowInv
    <2>12. m \in Held
      BY <2>2 DEF Held
    <2>13. Len(Load("data", m)) = 0 /\ Len(Load("syn", m)) = 1
      BY <2>2, <2>12, LoadFacts DEF Kinds
    <2>14. /\ Toward("data", B)' = Toward("data", B) /\ Toward("syn", B)' = Toward("syn", B) + 1
           /\ Toward("data", A)' = Toward("data", A) /\ Toward("syn", A)' = Toward("syn", A)
           /\ Toward("credit", A)' = Toward("credit", A)
      <3>1. \A k \in Kinds : /\ Toward(k, A)' = Toward(k, A)
                             /\ Toward(k, B)' = Toward(k, B) + Len(Load(k, m))
        BY <1>1, <2>2, <2>3, <2>4, SendCount
      <3>2. /\ Toward("data", B)' = Toward("data", B) + Len(Load("data", m))
            /\ Toward("syn", B)' = Toward("syn", B) + Len(Load("syn", m))
        BY <3>1 DEF Kinds
      <3>3. Toward("data", B)' = Toward("data", B) + 0 /\ Toward("syn", B)' = Toward("syn", B) + 1
        BY <2>13, <3>2
      <3>4. Toward("data", B) \in Nat /\ Toward("data", B) + 0 = Toward("data", B)
        BY <2>11 DEF Sized
      <3> QED BY <3>1, <3>3, <3>4 DEF Kinds
    <2>15. Window' = Window /\ Unsent' = Unsent /\ Waiting' = Waiting /\ Owed' = Owed /\ Taken' = Taken
      BY <1>1, <2>1, <2>5 DEF Window, Unsent, Waiting, Owed, Taken
    <2>16. Balance' /\ Counted'
      <3>1. Balance /\ Counted
        BY DEF WindowInv
      <3> QED BY <1>1, <3>1, <2>5, <2>14, <2>15 DEF Balance, Counted
    <2>17. OneSyn'
      <3>1. /\ Single(One(Plans(s)), Toward("syn", B), One(Has(str[B])))
            /\ Toward("data", A) = 0 /\ Toward("syn", A) = 0
        BY DEF WindowInv, OneSyn
      <3>2. One(Plans(s)) = 1 /\ One(Plans(t)) = 0 /\ One(Has(str[B])) \in {0, 1}
        BY <2>9 DEF One
      <3>3. Single(1, Toward("syn", B), One(Has(str[B])))
        BY <3>1, <3>2
      <3>4. Toward("syn", B) = 0 /\ One(Has(str[B])) = 0 /\ Single(0, 1, 0)
        BY <3>2, <3>3, <2>11, SingleFacts DEF Sized
      <3>5. Single(One(Plans(str'[A])), Toward("syn", B)', One(Has(str'[B])))
        <4>1. Toward("syn", B)' = 1 /\ One(Plans(str'[A])) = 0 /\ One(Has(str'[B])) = 0
          BY <2>5, <2>14, <3>2, <3>4
        <4> QED BY <3>4, <4>1
      <3> QED BY <2>14, <3>1, <3>5 DEF OneSyn
    <2> QED BY <2>8, <2>10, <2>16, <2>17 DEF WindowInv
  <1> QED BY <1>5, <1>6, <1>7 DEF TickSyn

LEMMA SubSeqFacts ==
  ASSUME NEW s \in Seq(Nat), NEW n \in 0..Len(s)
  PROVE  /\ SubSeq(s, 1, n) \in Seq(Nat) /\ Len(SubSeq(s, 1, n)) = n
         /\ SubSeq(s, n + 1, Len(s)) \in Seq(Nat) /\ Len(SubSeq(s, n + 1, Len(s))) = Len(s) - n
         /\ Len(s) \in Nat /\ Len(s) = Len(s) - n + n /\ Len(s) - n \in Nat
  OBVIOUS

LEMMA TickDataKeeps ==
  ASSUME WindowInv, NEW e \in Ends, TickData(e) PROVE WindowInv'
  <1> DEFINE s == str[A]
             n == Flushed(s)
  <1>1. /\ tick[e].pc = "data"
        /\ UNCHANGED <<mux, conn, inmap, outps, task, closing, told, sent, got, writing, ends, due>>
    BY DEF TickData, At
  <1>2. e = A /\ tick[e].pc # Idle /\ inmap[e] /\ Has(str[e]) /\ str[e] \in Streams
    BY <1>1, WriterTicks
  <1>3. Idle \in Steps
    BY DEF Steps
  <1>4. CASE Goto(e, Idle) /\ UNCHANGED <<str, chan>>
    BY <1>1, <1>2, <1>3, <1>4, Here, NoSend, TickKeeps
  <1>5. CASE SendFailed(e)
    BY <1>1, <1>2, <1>5, SendFailedKeeps
  <1>6. CASE /\ n > 0 /\ Result(A) = "OK"
             /\ SendTo(A, [type |-> "DATA", data |-> SubSeq(s.wb, 1, n)])
             /\ str' = [str EXCEPT ![A].wb = SubSeq(@, n + 1, Len(@)),
                                   ![A].wnd = @ - n,
                                   ![A].blocked = FALSE]
             /\ Goto(A, Idle)
    <2>1. s.wb \in Seq(Nat) /\ Len(s.wb) \in Nat /\ s.wnd \in 0..Wnd /\ s.cap \in 1..Wnd
      BY <1>2, LenProperties DEF Streams
    <2>2. n \in 0..Len(s.wb) /\ n \in Nat /\ n <= s.wnd /\ s.wnd - n \in 0..Wnd
      BY <2>1, ConstFacts DEF Flushed, Least
    <2> DEFINE d == SubSeq(s.wb, 1, n)
               b == SubSeq(s.wb, n + 1, Len(s.wb))
               m == [type |-> "DATA", data |-> d]
               t == [s EXCEPT !.wb = b, !.wnd = s.wnd - n, !.blocked = FALSE]
    <2>3. /\ str' = [str EXCEPT ![A] = t] /\ SendTo(A, m)
      BY <1>2, <1>6
    <2>4. d \in Seq(Nat) /\ Len(d) = n /\ b \in Seq(Nat) /\ Len(b) = Len(s.wb) - n
      BY <2>1, <2>2, SubSeqFacts
    <2> HIDE DEF n, d, b
    <2>5. /\ t \in Streams /\ t.flag = s.flag /\ t.st = s.st /\ t.wb = b
          /\ t.rb = s.rb /\ t.cap = s.cap /\ t.wnd = s.wnd - n /\ t.incre = s.incre
      BY <1>2, <2>2, <2>4 DEF Streams
    <2>6. m \in Msgs /\ m.type = "DATA" /\ m.data = d
      BY <2>4, MsgMade
    <2> HIDE DEF t, m
    <2>7. A \in Ends /\ B \in Ends /\ A # B /\ Other(A) = B
      BY EndsFacts
    <2>8. /\ tick' \in [Ends -> Tickers] /\ tick'[A].pc = Idle /\ \A f \in Ends : f # A => tick'[f] = tick[f]
      BY <1>3, <1>6, <2>7, GotoStep
    <2>9. chan' \in [Ends -> Seq(Msgs)] /\ \A f \in Ends : Len(chan'[f]) <= ChanCap
      BY <1>6, <2>3, <2>6, <2>7, Sent
    <2>10. Around' /\ Limits'
      BY <1>1, <2>8, <2>9 DEF WindowInv, Typed, Around, Limits
    <2>11. Len(t.wb) <= t.cap /\ Len(t.rb) <= Wnd /\ t.rb = <<>>
      <3>1. Len(s.wb) <= s.cap /\ Len(s.rb) <= Wnd
        BY <2>7, Here DEF Local, Tasked
      <3>2. s.rb = <<>>
        BY DEF WindowInv, Locals, Opener
      <3>3. Len(b) <= s.cap
        BY <2>1, <2>2, <2>4, <3>1
      <3> QED BY <2>5, <3>1, <3>2, <3>3
    <2>12. /\ Tasked(task'[A], str[A])
           /\ writing' > 0 => Has(str[A])
           /\ inmap' = inmap /\ (tick'[A].pc # Idle => inmap[A]) /\ Ticks(A, str[A], tick'[A])
           /\ \A f \in Ends : f # A => tick'[f] = tick[f] /\ task'[f] = task[f]
      BY <1>1, <2>7, <2>8, Here, TicksIdle DEF WindowInv, Locals
    <2>13. /\ Locals' /\ Typed' /\ str'[A] = t /\ str'[B] = str[B]
           /\ Plans(str'[A]) = Plans(str[A]) /\ Has(str'[B]) = Has(str[B])
      BY <1>2, <2>3, <2>5, <2>7, <2>10, <2>11, <2>12, FieldStep
    <2>14. Sized /\ Sized'
      BY <2>13, SizesType, PTL DEF WindowInv
    <2>15. m \in Held
      BY <2>6 DEF Held
    <2>16. Len(Load("data", m)) = n /\ Len(Load("syn", m)) = 0
      BY <2>4, <2>6, <2>15, LoadFacts DEF Kinds
    <2>17. /\ Toward("data", B)' = Toward("data", B) + n /\ Toward("syn", B)' = Toward("syn", B)
           /\ Toward("data", A)' = Toward("data", A) /\ Toward("syn", A)' = Toward("syn", A)
           /\ Toward("credit", A)' = Toward("credit", A)
      <3>1. \A k \in Kinds : /\ Toward(k, A)' = Toward(k, A)
                             /\ Toward(k, B)' = Toward(k, B) + Len(Load(k, m))
        BY <1>1, <2>3, <2>6, <2>7, SendCount
      <3> QED BY <2>14, <2>16, <3>1 DEF Kinds, Sized
    <2>18. OneSyn'
      BY <2>13, <2>14, <2>17, OneSynKept DEF Sized
    <2>19. Window = Window' + n /\ Unsent = Unsent' + n
      <3> DEFINE x == s.wnd
                 y == Len(s.wb)
      <3>1. Window = x /\ Window' = x - n /\ Unsent = y /\ Unsent' = y - n
        BY <2>4, <2>5, <2>13 DEF Window, Unsent
      <3>2. x \in Int /\ y \in Int /\ n \in Int
        BY <2>1, <2>2
      <3> HIDE DEF x, y
      <3> QED BY <3>1, <3>2
    <2>20. Waiting' = Waiting /\ Owed' = Owed /\ Taken' = Taken
      BY <1>1, <2>13 DEF Waiting, Owed, Taken
    <2>21. Balance'
      <3> SUFFICES ASSUME "READ_SHUTDOWN" \notin str[B].flag
                   PROVE  Fits(Window', Toward("data", B)', Waiting, Owed, Toward("credit", A))
        BY <2>13, <2>17, <2>20 DEF Balance
      <3>1. Fits(Window, Toward("data", B), Waiting, Owed, Toward("credit", A))
        BY DEF WindowInv, Balance
      <3>a. /\ Window \in Nat /\ Toward("data", B) \in Nat /\ Waiting \in Nat /\ Owed \in Nat
            /\ Toward("credit", A) \in Nat
        BY <2>14 DEF Sized
      <3>2. \A v, x, k \in Nat : Window = v + k /\ x = Toward("data", B) + k =>
                                  Fits(v, x, Waiting, Owed, Toward("credit", A))
        BY <3>1, <3>a, FitsFacts, Zenon
      <3> QED BY <3>2, <2>2, <2>14, <2>17, <2>19 DEF Sized
    <2>22. Counted'
      <3>1. Within(Taken, Waiting, Toward("data", B), Unsent, sent)
        BY DEF WindowInv, Counted
      <3>2. \A x, u, k \in Nat : Unsent = u + k /\ x = Toward("data", B) + k =>
                                  Within(Taken, Waiting, x, u, sent)
        BY <3>1, <2>14, WithinFacts DEF Sized
      <3>3. Within(Taken, Waiting, Toward("data", B)', Unsent', sent)
        BY <3>2, <2>2, <2>14, <2>17, <2>19 DEF Sized
      <3> QED BY <1>1, <2>20, <3>3 DEF Counted
    <2> QED BY <2>10, <2>13, <2>18, <2>21, <2>22 DEF WindowInv
  <1> QED BY <1>2, <1>4, <1>5, <1>6 DEF TickData
-----------------------------------------------------------------------------
(* The applications write and read.                                        *)
LEMMA WriteKeeps ==
  ASSUME WindowInv, Write PROVE WindowInv'
  <1> DEFINE s == str[A]
  <1>1. /\ tick' = tick /\ task' = task /\ inmap' = inmap /\ chan' = chan /\ got' = got
        /\ writing > 0 /\ writing' = 0 /\ UNCHANGED <<mux, conn, outps, closing, told, ends, due>>
    BY DEF Write
  <1>2. A \in Ends /\ B \in Ends /\ A # B
    BY EndsFacts
  <1>3. Has(s) /\ s \in Streams /\ writing \in Nat /\ sent \in Nat
    BY <1>1, <1>2, Here DEF WindowInv, Locals, Typed, Around
  <1>4. /\ Tasked(task'[A], str[A])
        /\ writing' > 0 => Has(str[A])
        /\ (tick'[A].pc # Idle => inmap[A]) /\ Ticks(A, str[A], tick'[A])
        /\ \A f \in Ends : f # A => tick'[f] = tick[f] /\ task'[f] = task[f]
    BY <1>1, <1>2, <1>3, Here
  <1>5. CASE s.cap - Len(s.wb) < writing
    <2> DEFINE t == [s EXCEPT !.blocked = TRUE]
    <2>1. str' = [str EXCEPT ![A] = t] /\ sent' = sent
      BY <1>5 DEF Write
    <2>2. Tame(s, t)
      BY <1>3 DEF Tame, Has, Streams
    <2>3. Around' /\ Limits'
      <3>1. sent + writing <= MaxBytes
        BY DEF WindowInv, Limits
      <3>2. sent' + writing' <= MaxBytes /\ writing' <= MaxCall /\ writing' \in Nat
        BY <1>1, <1>3, <2>1, <3>1, ConstFacts
      <3>3. Around'
        BY <1>1, <2>1, <3>2 DEF WindowInv, Typed, Around
      <3>4. Limits'
        BY <1>1, <2>1, <3>2 DEF WindowInv, Limits
      <3> QED BY <3>3, <3>4
    <2> HIDE DEF t
    <2> QED BY <1>1, <1>2, <1>3, <1>4, <2>1, <2>2, <2>3, NothingMoves, TameKeeps
  <1>6. CASE ~(s.cap - Len(s.wb) < writing)
    <2> DEFINE d == [i \in 1..writing |-> sent + i]
               b == s.wb \o d
               t == [s EXCEPT !.wb = b]
    <2>1. str' = [str EXCEPT ![A] = t] /\ sent' = sent + writing
      BY <1>6 DEF Write
    <2>2. s.wb \in Seq(Nat) /\ Len(s.wb) \in Nat /\ s.cap \in Nat
      BY <1>3, LenProperties DEF Streams
    <2>3. d \in Seq(Nat) /\ Len(d) = writing
      BY <1>3
    <2> HIDE DEF d
    <2>4. b \in Seq(Nat) /\ Len(b) = Len(s.wb) + writing
      BY <2>2, <2>3, ConcatFacts
    <2> HIDE DEF b
    <2>5. /\ t \in Streams /\ t.flag = s.flag /\ t.st = s.st /\ t.wb = b
          /\ t.rb = s.rb /\ t.cap = s.cap /\ t.wnd = s.wnd
      BY <1>3, <2>4 DEF Streams
    <2> HIDE DEF t
    <2>6. Around' /\ Limits'
      <3>1. sent + writing <= MaxBytes /\ due <= sent /\ due \in Nat
        BY DEF WindowInv, Limits, Typed, Around
      <3>2. sent' \in Nat /\ sent' + writing' <= MaxBytes /\ due <= sent'
        BY <1>1, <1>3, <2>1, <3>1
      <3>3. writing' <= MaxCall /\ writing' \in Nat
        BY <1>1, ConstFacts
      <3>4. Around'
        BY <1>1, <3>2, <3>3 DEF WindowInv, Typed, Around
      <3>5. Limits'
        BY <1>1, <3>2, <3>3 DEF WindowInv, Limits
      <3> QED BY <3>4, <3>5
    <2>7. Len(t.wb) <= t.cap /\ Len(t.rb) <= Wnd /\ t.rb = <<>>
      <3>1. Len(s.rb) <= Wnd
        BY <1>2, Here DEF Local, Tasked
      <3>2. s.rb = <<>>
        BY DEF WindowInv, Locals, Opener
      <3> DEFINE x == s.cap
                 y == Len(s.wb)
      <3>3. x \in Nat /\ y \in Nat /\ ~(x - y < writing) /\ Len(b) = y + writing
        BY <1>6, <2>2, <2>4
      <3> HIDE DEF x, y
      <3>4. Len(b) <= x
        BY <1>3, <3>3
      <3> QED BY <2>5, <3>1, <3>2, <3>4 DEF x
    <2>8. /\ Locals' /\ Typed' /\ str'[A] = t /\ str'[B] = str[B]
          /\ Plans(str'[A]) = Plans(str[A]) /\ Has(str'[B]) = Has(str[B])
      BY <1>1, <1>2, <1>3, <1>4, <2>1, <2>5, <2>6, <2>7, FieldStep
    <2>9. Sized /\ Sized'
      BY <2>8, SizesType, PTL DEF WindowInv
    <2>10. \A k, f : Toward(k, f)' = Toward(k, f)
      BY <1>1 DEF Toward
    <2>11. OneSyn'
      BY <2>8, <2>9, <2>10, OneSynKept DEF Sized
    <2>12. Window' = Window /\ Waiting' = Waiting /\ Owed' = Owed /\ Taken' = Taken
      BY <1>1, <2>5, <2>8 DEF Window, Waiting, Owed, Taken
    <2>13. Unsent' = Unsent + writing
      BY <2>4, <2>5, <2>8 DEF Unsent
    <2>14. Balance'
      <3>1. Balance
        BY DEF WindowInv
      <3> QED BY <3>1, <2>8, <2>10, <2>12 DEF Balance
    <2>15. Counted'
      <3>1. Within(Taken, Waiting, Toward("data", B), Unsent, sent)
        BY DEF WindowInv, Counted
      <3>2. \A u, n, k \in Nat : u = Unsent + k /\ n = sent + k =>
                                  Within(Taken, Waiting, Toward("data", B), u, n)
        BY <3>1, <2>9, WithinFacts DEF Sized
      <3>3. Within(Taken, Waiting, Toward("data", B), Unsent', sent')
        BY <3>2, <1>3, <2>1, <2>9, <2>13 DEF Sized
      <3> QED BY <2>10, <2>12, <3>3 DEF Counted
    <2> QED BY <2>6, <2>8, <2>11, <2>14, <2>15 DEF WindowInv
  <1> QED BY <1>5, <1>6

LEMMA ReadKeeps ==
  ASSUME WindowInv, Read PROVE WindowInv'
  <1> DEFINE s == str[B]
  <1>1. /\ tick' = tick /\ task' = task /\ inmap' = inmap /\ chan' = chan /\ sent' = sent
        /\ writing' = writing /\ UNCHANGED <<mux, conn, outps, closing, told, ends, due>>
    BY DEF Read
  <1>2. A \in Ends /\ B \in Ends /\ A # B
    BY EndsFacts
  <1>3. PICK n \in 1..Len(s.rb) :
          /\ str' = [str EXCEPT ![B].rb = SubSeq(@, n + 1, Len(@)), ![B].incre = @ + n]
          /\ got' = got \o SubSeq(s.rb, 1, n)
    BY DEF Read
  <1>4. s \in Streams /\ s.rb \in Seq(Nat) /\ Len(s.rb) \in Nat /\ s.incre \in Nat /\ got \in Seq(Nat)
    BY <1>2, Here, LenProperties DEF Streams, WindowInv, Typed, Around
  <1>5. Has(s)
    <2>1. s = NewStream => Len(s.rb) = 0
      BY NewStreamFacts
    <2>2. s # NewStream
      BY <1>3, <1>4, <2>1
    <2> QED BY <1>2, <2>2, Here DEF Local, Tasked
  <1>6. n \in Nat /\ n \in 0..Len(s.rb)
    BY <1>3, <1>4
  <1> DEFINE d == SubSeq(s.rb, 1, n)
             b == SubSeq(s.rb, n + 1, Len(s.rb))
             o == s.incre + n
             t == [s EXCEPT !.rb = b, !.incre = o]
  <1>7. str' = [str EXCEPT ![B] = t] /\ got' = got \o d
    BY <1>3
  <1>8. d \in Seq(Nat) /\ Len(d) = n /\ b \in Seq(Nat) /\ Len(b) = Len(s.rb) - n /\ o \in Nat
    BY <1>4, <1>6, SubSeqFacts, SMTT(30)
  <1> HIDE DEF d, b, o
  <1>9. /\ t \in Streams /\ t.flag = s.flag /\ t.st = s.st /\ t.rb = b
        /\ t.wb = s.wb /\ t.cap = s.cap /\ t.wnd = s.wnd /\ t.incre = o
    BY <1>4, <1>8 DEF Streams
  <1> HIDE DEF t
  <1>10. got' \in Seq(Nat) /\ Taken' = Taken + n
    BY <1>4, <1>7, <1>8, ConcatFacts DEF Taken
  <1>11. Around' /\ Limits'
    BY <1>1, <1>10 DEF WindowInv, Typed, Around, Limits
  <1>12. Len(t.wb) <= t.cap /\ Len(t.rb) <= Wnd /\ t.wb = <<>>
    <2>1. Len(s.rb) <= Wnd /\ Len(s.wb) <= s.cap
      BY <1>2, Here DEF Local, Tasked
    <2>2. s.wb = <<>>
      BY DEF WindowInv, Locals, Reader
    <2>3. Len(b) <= Wnd
      BY <1>4, <1>6, <1>8, <2>1, ConstFacts
    <2> QED BY <1>9, <2>1, <2>2, <2>3
  <1>13. /\ Tasked(task'[B], str[B])
         /\ writing' > 0 => Has(str[A])
         /\ (tick'[B].pc # Idle => inmap[B]) /\ Ticks(B, str[B], tick'[B])
         /\ \A f \in Ends : f # B => tick'[f] = tick[f] /\ task'[f] = task[f]
    BY <1>1, <1>2, Here DEF WindowInv, Locals
  <1>14. /\ Locals' /\ Typed' /\ str'[B] = t /\ str'[A] = str[A]
         /\ Plans(str'[A]) = Plans(str[A]) /\ Has(str'[B]) = Has(str[B])
    BY <1>1, <1>2, <1>5, <1>7, <1>9, <1>11, <1>12, <1>13, FieldStep
  <1>15. Sized /\ Sized'
    BY <1>14, SizesType, PTL DEF WindowInv
  <1>16. \A k, f : Toward(k, f)' = Toward(k, f)
    BY <1>1 DEF Toward
  <1>17. OneSyn'
    BY <1>14, <1>15, <1>16, OneSynKept DEF Sized
  <1>18. Window' = Window /\ Unsent' = Unsent
    BY <1>14 DEF Window, Unsent
  <1>19. Waiting = Waiting' + n /\ Owed' = Owed + n
    <2> DEFINE x == Len(s.rb)
    <2>1. Waiting = x /\ Waiting' = x - n /\ Owed' = Owed + n
      BY <1>8, <1>9, <1>14 DEF Waiting, Owed, o
    <2>2. x \in Int /\ n \in Int
      BY <1>4, <1>6
    <2> HIDE DEF x
    <2> QED BY <2>1, <2>2
  <1>20. Balance'
    <2> SUFFICES ASSUME "READ_SHUTDOWN" \notin str[B].flag
                 PROVE  Fits(Window, Toward("data", B), Waiting', Owed', Toward("credit", A))
      BY <1>9, <1>14, <1>16, <1>18 DEF Balance
    <2>1. Fits(Window, Toward("data", B), Waiting, Owed, Toward("credit", A))
      BY DEF WindowInv, Balance
    <2>2. \A w, p, k \in Nat : Waiting = w + k /\ p = Owed + k =>
                                Fits(Window, Toward("data", B), w, p, Toward("credit", A))
      BY <2>1, <1>15, FitsFacts DEF Sized
    <2> QED BY <2>2, <1>6, <1>15, <1>19 DEF Sized
  <1>21. Counted'
    <2>1. Within(Taken, Waiting, Toward("data", B), Unsent, sent)
      BY DEF WindowInv, Counted
    <2>2. \A g, w, k \in Nat : Waiting = w + k /\ g = Taken + k =>
                                Within(g, w, Toward("data", B), Unsent, sent)
      BY <2>1, <1>15, WithinRead DEF Sized
    <2>3. Within(Taken', Waiting', Toward("data", B), Unsent, sent)
      BY <2>2, <1>6, <1>10, <1>15, <1>19 DEF Sized
    <2> QED BY <1>1, <1>16, <1>18, <2>3 DEF Counted
  <1> QED BY <1>11, <1>14, <1>17, <1>20, <1>21 DEF WindowInv
-----------------------------------------------------------------------------
(* The event task.                                                         *)

(* The step of the task at e, apart from its packet.                        *)
LEMMA TaskKeeps ==
  ASSUME WindowInv, NEW e \in Ends, NEW t, str' = [str EXCEPT ![e] = t],
         t = str[e] \/ (Has(str[e]) /\ Tame(str[e], t)),
         NEW w \in Tasks, task' = [task EXCEPT ![e] = w],
         Tasked(w, str[e]),
         tick' = tick, inmap' = inmap, sent' = sent, got' = got, writing' = writing, ends' = ends, due' = due,
         conn' = conn, closing' = closing, told' = told,
         mux' \in [Ends -> {"ATTACHED", "CLOSED"}], outps' \in [Ends -> Nat],
         chan' \in [Ends -> Seq(Msgs)], \A f \in Ends : Len(chan'[f]) <= ChanCap,
         \A k \in Kinds, f \in Ends : Toward(k, f)' <= Toward(k, f)
  PROVE  WindowInv'
  <1>1. task \in [Ends -> Tasks]
    BY DEF WindowInv, Typed, Around
  <1>2. task' \in [Ends -> Tasks] /\ task'[e] = w /\ \A f \in Ends : f # e => task'[f] = task[f]
    BY <1>1
  <1>3. Around'
    BY <1>2 DEF WindowInv, Typed, Around
  <1>4. Limits'
    BY DEF WindowInv, Limits
  <1>5. writing' > 0 => Has(str[A])
    BY DEF WindowInv, Locals
  <1>6. (tick'[e].pc # Idle => inmap'[e]) /\ Ticks(e, str[e], tick'[e])
    BY Here
  <1> QED BY <1>2, <1>3, <1>4, <1>5, <1>6, TameKeeps

(* The packet leaves the channel, for the task or for nobody. *)
LEMMA ArriveKeeps ==
  ASSUME WindowInv, NEW e \in Ends, Arrive(e) PROVE WindowInv'
  <1> DEFINE c == chan[e]
             m == Head(c)
             w == IF mux[e] = "ATTACHED" THEN [pc |-> "lookup", msg |-> m] ELSE task[e]
  <1>1. /\ task[e].pc = Idle /\ c # <<>> /\ chan' = [chan EXCEPT ![e] = Tail(c)]
        /\ str' = str /\ tick' = tick /\ inmap' = inmap /\ sent' = sent /\ got' = got
        /\ writing' = writing /\ ends' = ends /\ due' = due
        /\ conn' = conn /\ closing' = closing /\ told' = told /\ mux' = mux /\ outps' = outps
    BY DEF Arrive
  <1>2. task \in [Ends -> Tasks] /\ c \in Seq(Msgs) /\ chan \in [Ends -> Seq(Msgs)] /\ task[e] \in Tasks
    BY DEF WindowInv, Typed, Around
  <1>3. m \in Msgs /\ Tail(c) \in Seq(Msgs) /\ Len(Tail(c)) = Len(c) - 1 /\ Len(c) \in Nat
    BY <1>1, <1>2
  <1>4. task' = [task EXCEPT ![e] = w]
    BY <1>2 DEF Arrive
  <1>5. m \in Held /\ task[e].msg = NoMsg
    BY <1>1, <1>3, Here DEF Held
  <1>6. w \in Tasks
    BY <1>2, <1>5 DEF Tasks
  <1>7. Tasked(w, str[e]) /\ w.msg \in {m, NoMsg}
    BY <1>1, <1>3, <1>5 DEF Idle, Tasked
  <1> HIDE DEF w, m, c
  <1>8. /\ chan' \in [Ends -> Seq(Msgs)] /\ chan'[e] = Tail(c)
        /\ \A f \in Ends : f # e => chan'[f] = chan[f]
    BY <1>1, <1>2, <1>3
  <1>9. \A f \in Ends : Len(chan'[f]) <= ChanCap
    <2>1. \A f \in Ends : Len(chan[f]) <= ChanCap
      BY DEF WindowInv, Limits
    <2>2. Len(Tail(c)) <= ChanCap
      BY <1>3, <2>1, ConstFacts DEF c
    <2> QED BY <1>8, <2>1, <2>2
  <1>10. /\ task'[e] = w /\ \A f \in Ends : f # e => task'[f] = task[f]
    BY <1>2, <1>4
  <1>11. ASSUME NEW k \in Kinds, NEW f \in Ends PROVE Toward(k, f)' <= Toward(k, f)
    <2>1. CASE f = e
      <3> DEFINE x == Len(Load(k, m))
                 y == Len(Flow(k, Tail(c)))
      <3>1. Flow(k, c) = Load(k, m) \o Flow(k, Tail(c))
        BY <1>1, <1>2, FlowTail DEF m, c
      <3>2. Load(k, m) \in Seq(Nat) /\ Flow(k, Tail(c)) \in Seq(Nat)
        BY <1>3, <1>5, LoadFacts, FlowType
      <3>3. x \in Nat /\ y \in Nat /\ Len(Flow(k, c)) = x + y
        BY <3>1, <3>2, ConcatFacts, LenProperties
      <3>4. Load(k, NoMsg) = <<>> /\ Len(<<>>) = 0
        BY LoadNone DEF NoMsg
      <3>5. Toward(k, e) = (x + y) + 0
        BY <1>5, <3>3, <3>4 DEF Toward, c
      <3>6. Len(Load(k, w.msg)) \in {x, 0}
        BY <1>7, <3>4
      <3>7. Toward(k, e)' = y + Len(Load(k, w.msg))
        BY <1>8, <1>10 DEF Toward
      <3> HIDE DEF x, y
      <3>8. \A z \in {x, 0} : y + z <= (x + y) + 0
        BY <3>3
      <3> QED BY <2>1, <3>5, <3>6, <3>7, <3>8
    <2>2. CASE f # e
      <3>1. Toward(k, f)' = Toward(k, f)
        BY <2>2, <1>8, <1>10 DEF Toward
      <3>2. Toward(k, f) \in Nat
        BY TowardType DEF WindowInv
      <3> QED BY <3>1, <3>2
    <2> QED BY <2>1, <2>2
  <1>12. /\ str' = [str EXCEPT ![e] = str[e]]
         /\ mux' \in [Ends -> {"ATTACHED", "CLOSED"}] /\ outps' \in [Ends -> Nat]
    BY <1>1, Here DEF WindowInv, Typed, Around
  <1> QED BY <1>1, <1>4, <1>6, <1>7, <1>8, <1>9, <1>11, <1>12, TaskKeeps

LEMMA IdleTask == [pc |-> Idle, msg |-> NoMsg] \in Tasks
  BY DEF Tasks, Held

(* The task is done with its packet. *)
LEMMA DoneKeeps ==
  ASSUME WindowInv, NEW e \in Ends, NEW t, str' = [str EXCEPT ![e] = t],
         t = str[e] \/ (Has(str[e]) /\ Tame(str[e], t)), TaskDone(e),
         tick' = tick, inmap' = inmap, sent' = sent, got' = got, writing' = writing, ends' = ends, due' = due,
         conn' = conn, closing' = closing, told' = told,
         mux' = mux, outps' \in [Ends -> Nat], SameFlow,
         chan' \in [Ends -> Seq(Msgs)], \A f \in Ends : Len(chan'[f]) <= ChanCap
  PROVE  WindowInv'
  <1> DEFINE w == [pc |-> Idle, msg |-> NoMsg]
  <1>1. w \in Tasks /\ task' = [task EXCEPT ![e] = w] /\ Tasked(w, str[e]) /\ w.msg = NoMsg
    BY IdleTask DEF TaskDone, Idle, Tasked
  <1> HIDE DEF w
  <1>2. task \in [Ends -> Tasks] /\ mux' \in [Ends -> {"ATTACHED", "CLOSED"}]
    BY DEF WindowInv, Typed, Around
  <1>3. \A f \in Ends : task'[f].msg \in {task[f].msg, NoMsg}
    BY <1>1, <1>2
  <1>4. \A k \in Kinds, f \in Ends : Toward(k, f)' <= Toward(k, f)
    BY <1>3, FewerLoads DEF WindowInv
  <1> QED BY <1>1, <1>2, <1>4, TaskKeeps

LEMMA DrainedKeeps ==
  ASSUME WindowInv, NEW e \in Ends, Drained(e) PROVE WindowInv'
  <1>1. /\ TaskDone(e) /\ str' = str /\ chan' = chan
        /\ UNCHANGED <<mux, conn, inmap, outps, tick, closing, told, sent, got, writing, ends, due>>
    BY DEF Drained
  <1>2. str' = [str EXCEPT ![e] = str[e]] /\ outps' \in [Ends -> Nat]
    BY <1>1, Here DEF WindowInv, Typed, Around
  <1> QED BY <1>1, <1>2, NoSend, DoneKeeps

LEMMA SocketClosedKeeps ==
  ASSUME WindowInv, NEW e \in Ends, SocketClosed(e) PROVE WindowInv'
  <1> DEFINE t == IF inmap[e] THEN CloseOf(str[e]) ELSE str[e]
             w == [task[e] EXCEPT !.pc = "drain"]
  <1>1. /\ str' = [str EXCEPT ![e] = t] /\ task' = [task EXCEPT ![e] = w] /\ task[e].pc = Idle
        /\ mux' = [mux EXCEPT ![e] = "CLOSED"] /\ chan' = chan
        /\ UNCHANGED <<conn, inmap, outps, tick, closing, told, sent, got, writing, ends, due>>
    BY DEF SocketClosed
  <1>2. t = str[e] \/ (Has(str[e]) /\ Tame(str[e], t))
    BY Here, TameFacts
  <1>3. task[e] \in Tasks /\ task[e].msg = NoMsg
    BY <1>1, Here
  <1>4. w \in Tasks /\ w.msg = NoMsg /\ Tasked(w, str[e])
    BY <1>3 DEF Tasks, Tasked, Idle
  <1> HIDE DEF t, w
  <1>5. /\ mux' \in [Ends -> {"ATTACHED", "CLOSED"}] /\ outps' \in [Ends -> Nat]
        /\ task \in [Ends -> Tasks]
    BY <1>1 DEF WindowInv, Typed, Around
  <1>6. \A f \in Ends : task'[f].msg \in {task[f].msg, NoMsg}
    BY <1>1, <1>4, <1>5
  <1>7. \A k \in Kinds, f \in Ends : Toward(k, f)' <= Toward(k, f)
    BY <1>1, <1>6, NoSend, FewerLoads DEF WindowInv
  <1> QED BY <1>1, <1>2, <1>4, <1>5, <1>7, NoSend, TaskKeeps
(* The packet of the task is taken from what is on its way. *)
LEMMA PacketTaken ==
  ASSUME WindowInv, NEW e \in Ends, TaskDone(e), chan' = chan
  PROVE  /\ task' \in [Ends -> Tasks] /\ task'[e] = [pc |-> Idle, msg |-> NoMsg]
         /\ \A f \in Ends : f # e => task'[f] = task[f]
         /\ \A k \in Kinds : /\ Toward(k, e) = Toward(k, e)' + Len(Load(k, task[e].msg))
                             /\ Toward(k, e)' \in Nat /\ Len(Load(k, task[e].msg)) \in Nat
                             /\ \A f \in Ends : f # e => Toward(k, f)' = Toward(k, f)
  <1>1. task \in [Ends -> Tasks] /\ task' = [task EXCEPT ![e] = [pc |-> Idle, msg |-> NoMsg]]
    BY DEF WindowInv, Typed, Around, TaskDone
  <1>2. /\ task' \in [Ends -> Tasks] /\ task'[e] = [pc |-> Idle, msg |-> NoMsg]
        /\ \A f \in Ends : f # e => task'[f] = task[f]
    BY <1>1, IdleTask
  <1>3. ASSUME NEW k \in Kinds
        PROVE  /\ Toward(k, e) = Toward(k, e)' + Len(Load(k, task[e].msg))
               /\ Toward(k, e)' \in Nat /\ Len(Load(k, task[e].msg)) \in Nat
               /\ \A f \in Ends : f # e => Toward(k, f)' = Toward(k, f)
    <2> DEFINE a == Len(Flow(k, chan[e]))
               b == Len(Load(k, task[e].msg))
    <2>1. a \in Nat /\ b \in Nat /\ Toward(k, e) = a + b
      BY TowardType DEF Toward, WindowInv
    <2>2. Len(Load(k, NoMsg)) = 0
      BY LoadNone DEF NoMsg
    <2>3. Toward(k, e)' = a + 0
      BY <1>2, <2>2 DEF Toward
    <2>4. \A f \in Ends : f # e => Toward(k, f)' = Toward(k, f)
      BY <1>2 DEF Toward
    <2> HIDE DEF a, b
    <2>5. Toward(k, e) = Toward(k, e)' + b /\ Toward(k, e)' \in Nat
      BY <2>1, <2>3
    <2> QED BY <2>1, <2>4, <2>5 DEF b
  <1> QED BY <1>2, <1>3

(* Nobody but B is sent a SYN, and it makes the stream. *)
LEMMA LookupSyn ==
  ASSUME WindowInv, NEW e \in Ends, task[e].pc = "lookup", task[e].msg.type = "SYN", ~inmap[e],
         tick[e].pc = Idle,
         str' = [str EXCEPT ![e] = [NewStream EXCEPT !.st = "ESTABLISHED"]],
         inmap' = [inmap EXCEPT ![e] = TRUE], TaskDone(e),
         UNCHANGED <<outps, chan, mux, conn, tick, closing, told, sent, got, writing, ends, due>>
  PROVE  WindowInv'
  <1> DEFINE t == [NewStream EXCEPT !.st = "ESTABLISHED"]
             h == One(Has(str[B]))
             p == One(Plans(str[A]))
  <1>1. A \in Ends /\ B \in Ends /\ A # B /\ Sized /\ "syn" \in Kinds /\ "data" \in Kinds /\ "credit" \in Kinds
    BY EndsFacts, SizesType DEF WindowInv, Kinds
  <1>2. Len(Load("syn", task[e].msg)) = 1 /\ Len(Load("data", task[e].msg)) = 0
        /\ Len(Load("credit", task[e].msg)) = 0
    <2>1. task[e].msg \in Held /\ Len(<<>>) = 0
      BY Here
    <2> QED BY <2>1, <1>1, LoadFacts
  <1>3. \A k \in Kinds : /\ Toward(k, e) = Toward(k, e)' + Len(Load(k, task[e].msg))
                         /\ Toward(k, e)' \in Nat
                         /\ \A f \in Ends : f # e => Toward(k, f)' = Toward(k, f)
    BY PacketTaken
  <1>4. Toward("syn", e) = Toward("syn", e)' + 1 /\ Toward("syn", e)' \in Nat
    BY <1>1, <1>2, <1>3
  <1>5. e = B
    <2>1. Toward("syn", A) = 0
      BY DEF WindowInv, OneSyn
    <2>2. e # A
      BY <1>4, <2>1
    <2> QED BY <2>2, EndsFacts
  <1>6. Toward("syn", B) >= 1
    BY <1>4, <1>5, <1>1 DEF Sized
  <1>7. /\ Toward("syn", B) = 1 /\ p = 0 /\ h = 0 /\ Single(0, 0, 1)
    <2>1. Single(p, Toward("syn", B), h)
      BY DEF WindowInv, OneSyn
    <2>2. p \in {0, 1} /\ h \in {0, 1}
      BY OneType
    <2> HIDE DEF p, h
    <2> QED BY <1>1, <1>6, <2>1, <2>2, SingleFacts DEF Sized
  <1>8. Toward("syn", B)' = 0 /\ Toward("data", B)' = Toward("data", B)
        /\ Toward("data", A)' = 0 /\ Toward("syn", A)' = 0 /\ Toward("credit", A)' = Toward("credit", A)
    <2>1. Toward("syn", B)' = 0
      BY <1>4, <1>5, <1>7
    <2>2. Toward("data", B)' = Toward("data", B)
      <3>1. Toward("data", B) = Toward("data", B)' + 0 /\ Toward("data", B)' \in Nat
        BY <1>1, <1>2, <1>3, <1>5
      <3> QED BY <3>1
    <2>3. Toward("data", A) = 0 /\ Toward("syn", A) = 0
      BY DEF WindowInv, OneSyn
    <2> QED BY <1>1, <1>3, <1>5, <2>1, <2>2, <2>3
  <1>9. str[B] = NewStream
    <2>1. ~Has(str[B])
      BY <1>7 DEF One
    <2> QED BY <2>1, <1>1, Here DEF Local
  <1>10. /\ t \in Streams /\ Has(t) /\ t.flag = {} /\ t.rb = <<>> /\ t.wb = <<>> /\ t.wnd = Wnd
         /\ t.cap = Wnd /\ t.incre = 0
    BY NewStreamFacts DEF Streams, Has, Flags, NewStream
  <1>11. /\ str \in [Ends -> Streams] /\ inmap \in [Ends -> BOOLEAN]
    BY DEF WindowInv, Typed, Around
  <1> HIDE DEF t, p, h
  <1>12. str' = [str EXCEPT ![B] = t]
    BY <1>5 DEF t
  <1>13. /\ str' \in [Ends -> Streams] /\ str'[B] = t /\ str'[A] = str[A]
         /\ inmap' \in [Ends -> BOOLEAN] /\ inmap'[B] /\ inmap'[A] = inmap[A]
    BY <1>1, <1>5, <1>10, <1>11, <1>12
  <1>14. task' \in [Ends -> Tasks] /\ task'[B] = [pc |-> Idle, msg |-> NoMsg] /\ task'[A] = task[A]
    BY <1>1, <1>5, PacketTaken
  <1>15. Typed' /\ Limits'
    BY <1>13, <1>14 DEF WindowInv, Typed, Around, Limits
  <1>16. Locals'
    <2>1. Local(str[A], inmap[A], tick[A], task[A]) /\ Local(str[B], inmap[B], tick[B], task[B])
      BY <1>1, Here
    <2>2. Len(<<>>) <= Wnd
      BY ConstFacts
    <2>3. Local(t, inmap'[B], tick[B], task'[B])
      BY <1>5, <1>10, <1>13, <1>14, <2>2 DEF Local, Tasked, Idle
    <2>4. Opener(str[A], tick[A]) /\ Reader(str[B], tick[B])
      BY DEF WindowInv, Locals
    <2>5. Reader(t, tick[B])
      BY <1>10, <2>4 DEF Reader
    <2>6. writing > 0 => Has(str[A])
      BY DEF WindowInv, Locals
    <2> QED BY <1>13, <1>14, <2>1, <2>3, <2>4, <2>5, <2>6, EndsFacts DEF Locals
  <1>17. Window' = Window /\ Unsent' = Unsent /\ Waiting' = Waiting /\ Owed' = Owed
    BY <1>9, <1>10, <1>13, NewStreamFacts DEF Window, Unsent, Waiting, Owed
  <1>18. OneSyn'
    <2>1. One(Plans(str'[A])) = 0
      BY <1>7, <1>13 DEF p
    <2>2. One(Has(str'[B])) = 1
      BY <1>10, <1>13 DEF One
    <2> QED BY <1>7, <1>8, <2>1, <2>2 DEF OneSyn
  <1>19. Balance'
    <2>1. "READ_SHUTDOWN" \notin str[B].flag
      BY <1>9, NewStreamFacts
    <2>2. Fits(Window, Toward("data", B), Waiting, Owed, Toward("credit", A))
      BY <2>1 DEF WindowInv, Balance
    <2> QED BY <1>8, <1>17, <2>2 DEF Balance
  <1>20. Counted'
    <2>1. Within(Taken, Waiting, Toward("data", B), Unsent, sent)
      BY DEF WindowInv, Counted
    <2> QED BY <1>8, <1>17, <2>1 DEF Counted, Taken
  <1> QED BY <1>15, <1>16, <1>18, <1>19, <1>20 DEF WindowInv

LEMMA LookupKeeps ==
  ASSUME WindowInv, NEW e \in Ends, Lookup(e) PROVE WindowInv'
  <1> DEFINE m == task[e].msg
  <1>1. /\ task[e].pc = "lookup" /\ tick[e].pc = Idle
        /\ UNCHANGED <<mux, conn, tick, closing, told, sent, got, writing, ends, due>>
    BY DEF Lookup, MutexFree
  <1>2. /\ task[e] \in Tasks /\ task \in [Ends -> Tasks] /\ outps \in [Ends -> Nat]
        /\ str = [str EXCEPT ![e] = str[e]] /\ m \in Msgs
        /\ mux \in [Ends -> {"ATTACHED", "CLOSED"}]
    BY <1>1, Here DEF WindowInv, Typed, Around, Tasked
  <1>3. CASE /\ m.type = "SYN" /\ ~inmap[e]
             /\ str' = [str EXCEPT ![e] = [NewStream EXCEPT !.st = "ESTABLISHED"]]
             /\ inmap' = [inmap EXCEPT ![e] = TRUE]
             /\ TaskDone(e) /\ UNCHANGED <<outps, chan>>
    BY <1>1, <1>3, LookupSyn
  <1>4. CASE SendRst(e) /\ TaskDone(e) /\ UNCHANGED <<str, inmap>>
    BY <1>1, <1>2, <1>4, RstSent, DoneKeeps
  <1>5. CASE TaskDone(e) /\ UNCHANGED <<str, inmap, outps, chan>>
    BY <1>1, <1>2, <1>5, NoSend, DoneKeeps
  <1>6. CASE /\ m.type # "SYN" /\ inmap[e] /\ task' = [task EXCEPT ![e].pc = "apply"]
             /\ UNCHANGED <<str, inmap, outps, chan>>
    <2> DEFINE w == [task[e] EXCEPT !.pc = "apply"]
    <2>1. w \in Tasks /\ w.pc = "apply" /\ w.msg = m
      BY <1>2 DEF Tasks
    <2>2. task' = [task EXCEPT ![e] = w]
      BY <1>6
    <2> HIDE DEF w
    <2>3. Has(str[e])
      BY <1>6, Here
    <2>4. Tasked(w, str[e])
      BY <1>2, <1>6, <2>1, <2>3 DEF Tasked, Idle
    <2>5. \A f \in Ends : task'[f].msg \in {task[f].msg, NoMsg}
      BY <1>2, <2>1, <2>2
    <2>6. \A k \in Kinds, f \in Ends : Toward(k, f)' <= Toward(k, f)
      BY <1>6, <2>5, NoSend, FewerLoads DEF WindowInv
    <2> QED BY <1>1, <1>2, <1>6, <2>1, <2>2, <2>4, <2>6, NoSend, TaskKeeps
  <1> QED BY <1>3, <1>4, <1>5, <1>6 DEF Lookup
(* What the stream of the task at e gets, when the packet changes its       *)
(* buffers or its window only.                                              *)
LEMMA ApplyField ==
  ASSUME WindowInv, NEW e \in Ends, task[e].pc = "apply", TaskDone(e), NEW t \in Streams,
         str' = [str EXCEPT ![e] = t], t.flag = str[e].flag, t.st = str[e].st,
         t.wb = str[e].wb, t.cap = str[e].cap, t.incre = str[e].incre,
         Len(t.rb) <= Wnd, e = A => t.rb = <<>>,
         UNCHANGED <<outps, chan, inmap, mux, conn, tick, closing, told, sent, got, writing, ends, due>>
  PROVE  /\ Locals' /\ Typed' /\ Limits' /\ OneSyn' /\ Sized /\ Sized'
         /\ str'[e] = t /\ \A f \in Ends : f # e => str'[f] = str[f]
         /\ str'[B].flag = str[B].flag
         /\ Unsent' = Unsent /\ Owed' = Owed /\ Taken' = Taken
  <1>1. /\ task' \in [Ends -> Tasks] /\ task'[e] = [pc |-> Idle, msg |-> NoMsg]
        /\ \A f \in Ends : f # e => task'[f] = task[f]
        /\ \A k \in Kinds, f \in Ends : Toward(k, f)' <= Toward(k, f)
    <2>1. /\ task' \in [Ends -> Tasks] /\ task'[e] = [pc |-> Idle, msg |-> NoMsg]
          /\ \A f \in Ends : f # e => task'[f] = task[f]
      BY PacketTaken
    <2>2. \A f \in Ends : task'[f].msg \in {task[f].msg, NoMsg}
      BY <2>1
    <2> QED BY <2>1, <2>2, NoSend, FewerLoads DEF WindowInv
  <1>2. Around' /\ Limits'
    BY <1>1 DEF WindowInv, Typed, Around, Limits
  <1>3. Has(str[e]) /\ Ticks(e, str[e], tick'[e]) /\ (tick'[e].pc # Idle => inmap[e])
    BY Here
  <1>4. Tasked(task'[e], str[e])
    BY <1>1 DEF Tasked, Idle
  <1>5. Len(t.wb) <= t.cap /\ (e = B => t.wb = <<>>) /\ (writing' > 0 => Has(str[A]))
    BY Here DEF Local, WindowInv, Locals, Reader
  <1>6. /\ Locals' /\ Typed' /\ str'[e] = t /\ \A f \in Ends : f # e => str'[f] = str[f]
        /\ Plans(str'[A]) = Plans(str[A]) /\ Has(str'[B]) = Has(str[B])
        /\ str'[B].flag = str[B].flag
    BY <1>1, <1>2, <1>3, <1>4, <1>5, FieldStep
  <1>7. Sized /\ Sized'
    BY <1>6, SizesType, PTL DEF WindowInv
  <1>8. OneSyn'
    BY <1>1, <1>6, EndsFacts, OneSynKept DEF Kinds
  <1>9. Unsent' = Unsent /\ Owed' = Owed /\ Taken' = Taken
    <2>1. \A f \in Ends : str'[f].wb = str[f].wb /\ str'[f].incre = str[f].incre
      BY <1>6
    <2> QED BY <2>1, EndsFacts DEF Unsent, Owed, Taken
  <1> QED BY <1>2, <1>6, <1>7, <1>8, <1>9

(* DATA: B gets what was on its way; A is sent none. *)
LEMMA ApplyData ==
  ASSUME WindowInv, NEW e \in Ends, task[e].pc = "apply", task[e].msg.type = "DATA",
         "READ_SHUTDOWN" \notin str[e].flag, TaskDone(e),
         str' = [str EXCEPT ![e] = [str[e] EXCEPT !.rb = str[e].rb \o task[e].msg.data]],
         UNCHANGED <<outps, chan, inmap, mux, conn, tick, closing, told, sent, got, writing, ends, due>>
  PROVE  WindowInv'
  <1> DEFINE s == str[e]
             d == task[e].msg.data
             n == Len(d)
             r == s.rb \o d
             t == [s EXCEPT !.rb = r]
  <1>1. /\ A \in Ends /\ B \in Ends /\ A # B /\ Sized
        /\ "syn" \in Kinds /\ "data" \in Kinds /\ "credit" \in Kinds
    BY EndsFacts, SizesType DEF WindowInv, Kinds
  <1>2. s \in Streams /\ s.rb \in Seq(Nat) /\ d \in Seq(Nat) /\ n \in Nat
    <2>1. task[e].msg \in Held /\ s \in Streams
      BY Here
    <2>2. d \in Seq(Nat) /\ s.rb \in Seq(Nat)
      BY <2>1, MsgFacts DEF Streams
    <2> QED BY <2>1, <2>2, LenProperties
  <1>3. Load("data", task[e].msg) = d /\ Len(Load("credit", task[e].msg)) = 0
    <2>1. task[e].msg \in Held /\ Len(<<>>) = 0
      BY Here
    <2> QED BY <1>1, <2>1, LoadFacts
  <1>4. /\ Toward("data", e) = Toward("data", e)' + n /\ Toward("data", e)' \in Nat
        /\ Toward("credit", e) = Toward("credit", e)' + 0 /\ Toward("credit", e)' \in Nat
        /\ \A f \in Ends : f # e => /\ Toward("data", f)' = Toward("data", f)
                                    /\ Toward("credit", f)' = Toward("credit", f)
    BY <1>1, <1>3, PacketTaken
  <1>5. r \in Seq(Nat) /\ Len(r) = Len(s.rb) + n
    BY <1>2, ConcatFacts
  <1> HIDE DEF r, d, n
  <1>6. /\ t \in Streams /\ t.flag = s.flag /\ t.st = s.st /\ t.wb = s.wb /\ t.cap = s.cap
        /\ t.incre = s.incre /\ t.wnd = s.wnd /\ t.rb = r
    BY <1>2, <1>5 DEF Streams
  <1>7. str' = [str EXCEPT ![e] = t]
    BY DEF r, d
  <1> HIDE DEF t
  <1>8. e = A => r = <<>> /\ n = 0
    <2> SUFFICES ASSUME e = A PROVE r = <<>> /\ n = 0
      OBVIOUS
    <2>1. Toward("data", A) = 0 /\ str[A].rb = <<>>
      BY DEF WindowInv, OneSyn, Locals, Opener
    <2>2. n = 0
      BY <1>2, <1>4, <2>1
    <2>3. d = <<>>
      BY <1>2, <2>2 DEF n
    <2> QED BY <2>1, <2>2, <2>3 DEF r
  <1>9. e = B => Waiting + n <= Wnd
    <2> SUFFICES ASSUME e = B PROVE Waiting + n <= Wnd
      OBVIOUS
    <2>1. Fits(Window, Toward("data", B), Waiting, Owed, Toward("credit", A))
      BY DEF WindowInv, Balance
    <2>2. Waiting + Toward("data", B) <= Wnd
      BY <1>1, <2>1, FitsFacts DEF Sized
    <2>3. Toward("data", B) = Toward("data", B)' + n /\ Toward("data", B)' \in Nat /\ Waiting \in Nat
      BY <1>1, <1>4 DEF Sized
    <2> QED BY <1>2, <2>2, <2>3, ConstFacts
  <1>10. Len(t.rb) <= Wnd
    <2>1. CASE e = A
      BY <1>6, <1>8, <2>1, ConstFacts
    <2>2. CASE e = B
      <3>1. Len(s.rb) = Waiting
        BY <2>2 DEF Waiting
      <3> QED BY <1>5, <1>6, <1>9, <2>2, <3>1
    <2> QED BY <2>1, <2>2, EndsFacts
  <1>11. /\ Locals' /\ Typed' /\ Limits' /\ OneSyn' /\ Sized'
         /\ str'[e] = t /\ \A f \in Ends : f # e => str'[f] = str[f]
         /\ str'[B].flag = str[B].flag
         /\ Unsent' = Unsent /\ Owed' = Owed /\ Taken' = Taken
    BY <1>6, <1>7, <1>8, <1>10, ApplyField
  <1>12. Window' = Window
    BY <1>1, <1>6, <1>11 DEF Window
  <1>13. CASE e = A
    <2>1. Toward("data", B)' = Toward("data", B) /\ Toward("credit", A)' = Toward("credit", A)
          /\ Waiting' = Waiting
      <3>1. Toward("credit", A) = Toward("credit", A)' + 0 /\ Toward("credit", A)' \in Nat
        BY <1>4, <1>13
      <3>2. Toward("credit", A)' = Toward("credit", A)
        BY <3>1
      <3>3. str'[B] = str[B]
        BY <1>1, <1>11, <1>13
      <3> QED BY <1>1, <1>4, <1>13, <3>2, <3>3 DEF Waiting
    <2>2. Balance' /\ Counted'
      BY <1>11, <1>12, <2>1 DEF WindowInv, Balance, Counted
    <2> QED BY <1>11, <2>2 DEF WindowInv
  <1>14. CASE e = B
    <2>1. /\ Toward("data", B) = Toward("data", B)' + n /\ Toward("credit", A)' = Toward("credit", A)
          /\ Waiting' = Waiting + n
      BY <1>1, <1>4, <1>5, <1>6, <1>11, <1>14 DEF Waiting
    <2>2. Fits(Window, Toward("data", B), Waiting, Owed, Toward("credit", A))
      BY <1>14 DEF WindowInv, Balance
    <2>3. \A d1, w1, k \in Nat : Toward("data", B) = d1 + k /\ w1 = Waiting + k =>
                                  Fits(Window, d1, w1, Owed, Toward("credit", A))
      BY <1>1, <2>2, FitsFacts, ZenonT(30) DEF Sized
    <2>4. Balance'
      BY <1>2, <1>11, <1>12, <2>1, <2>3 DEF Balance, Sized
    <2>5. Within(Taken, Waiting, Toward("data", B), Unsent, sent)
      BY DEF WindowInv, Counted
    <2>6. \A d1, w1, k \in Nat : Toward("data", B) = d1 + k /\ w1 = Waiting + k =>
                                  Within(Taken, w1, d1, Unsent, sent)
      BY <1>1, <2>5, WithinFacts DEF Sized
    <2>7. Counted'
      BY <1>2, <1>11, <2>1, <2>6 DEF Counted, Sized
    <2> QED BY <1>11, <2>4, <2>7 DEF WindowInv
  <1> QED BY <1>13, <1>14, EndsFacts

(* UWND: A gets back what was on its way, up to a whole window. *)
LEMMA ApplyWindow ==
  ASSUME WindowInv, NEW e \in Ends, task[e].pc = "apply", task[e].msg.type = "UWND", TaskDone(e),
         str' = [str EXCEPT ![e] = [str[e] EXCEPT !.wnd = Least(Wnd, str[e].wnd + task[e].msg.n)]],
         UNCHANGED <<outps, chan, inmap, mux, conn, tick, closing, told, sent, got, writing, ends, due>>
  PROVE  WindowInv'
  <1> DEFINE s == str[e]
             n == task[e].msg.n
             x == s.wnd
             v == Least(Wnd, x + n)
             t == [s EXCEPT !.wnd = v]
  <1>1. /\ A \in Ends /\ B \in Ends /\ A # B /\ Sized
        /\ "syn" \in Kinds /\ "data" \in Kinds /\ "credit" \in Kinds
    BY EndsFacts, SizesType DEF WindowInv, Kinds
  <1>2. s \in Streams /\ x \in 0..Wnd /\ x \in Nat /\ n \in Nat /\ task[e].msg \in Held
    <2>1. task[e].msg \in Held /\ s \in Streams
      BY Here
    <2>2. n \in Nat /\ x \in 0..Wnd
      BY <2>1, MsgFacts DEF Streams
    <2> QED BY <2>1, <2>2, ConstFacts
  <1>3. Len(Load("credit", task[e].msg)) = n /\ Len(Load("data", task[e].msg)) = 0
    <2>1. Len(<<>>) = 0
      OBVIOUS
    <2> QED BY <1>1, <1>2, <2>1, LoadFacts
  <1>4. /\ Toward("credit", e) = Toward("credit", e)' + n /\ Toward("credit", e)' \in Nat
        /\ Toward("data", e) = Toward("data", e)' + 0 /\ Toward("data", e)' \in Nat
        /\ \A f \in Ends : f # e => /\ Toward("data", f)' = Toward("data", f)
                                    /\ Toward("credit", f)' = Toward("credit", f)
    BY <1>1, <1>3, PacketTaken
  <1>5. \A f \in Ends : Toward("data", f)' = Toward("data", f)
    <2>1. Toward("data", e)' = Toward("data", e)
      BY <1>4
    <2> QED BY <1>4, <2>1
  <1> HIDE DEF x, n
  <1>6. v \in 0..Wnd /\ v \in Nat /\ v <= x + n
    BY <1>2, ConstFacts DEF Least
  <1> HIDE DEF v
  <1>7. /\ t \in Streams /\ t.flag = s.flag /\ t.st = s.st /\ t.wb = s.wb /\ t.cap = s.cap
        /\ t.incre = s.incre /\ t.wnd = v /\ t.rb = s.rb
    BY <1>2, <1>6 DEF Streams
  <1>8. str' = [str EXCEPT ![e] = t]
    BY DEF v, x, n
  <1> HIDE DEF t
  <1>9. Len(t.rb) <= Wnd /\ (e = A => t.rb = <<>>)
    BY <1>7, Here DEF Local, WindowInv, Locals, Opener
  <1>10. /\ Locals' /\ Typed' /\ Limits' /\ OneSyn' /\ Sized'
         /\ str'[e] = t /\ \A f \in Ends : f # e => str'[f] = str[f]
         /\ str'[B].flag = str[B].flag
         /\ Unsent' = Unsent /\ Owed' = Owed /\ Taken' = Taken
    BY <1>7, <1>8, <1>9, ApplyField
  <1>11. Waiting' = Waiting
    BY <1>1, <1>7, <1>10 DEF Waiting
  <1>12. Counted'
    BY <1>1, <1>5, <1>10, <1>11 DEF WindowInv, Counted
  <1>13. Balance'
    <2> SUFFICES ASSUME "READ_SHUTDOWN" \notin str[B].flag
                 PROVE  Fits(Window', Toward("data", B), Waiting, Owed, Toward("credit", A)')
      BY <1>1, <1>5, <1>10, <1>11 DEF Balance
    <2>1. Fits(Window, Toward("data", B), Waiting, Owed, Toward("credit", A))
      BY DEF WindowInv, Balance
    <2>2. \A c1, v1, k \in Nat : Toward("credit", A) = c1 + k /\ v1 <= Window + k =>
                                  Fits(v1, Toward("data", B), Waiting, Owed, c1)
      BY <1>1, <2>1, FitsFacts, ZenonT(30) DEF Sized
    <2>3. CASE e = A
      <3>1. Window = x /\ Window' = v
        BY <1>7, <1>10, <2>3 DEF Window, x
      <3> QED BY <1>2, <1>4, <1>6, <2>2, <2>3, <3>1
    <2>4. CASE e # A
      <3>1. Window' = Window /\ Toward("credit", A)' = Toward("credit", A)
        BY <1>1, <1>4, <1>10, <2>4 DEF Window
      <3> QED BY <2>1, <3>1
    <2> QED BY <2>3, <2>4
  <1> QED BY <1>10, <1>12, <1>13 DEF WindowInv

LEMMA ApplyKeeps ==
  ASSUME WindowInv, NEW e \in Ends, Apply(e) PROVE WindowInv'
  <1> DEFINE m == task[e].msg
  <1>1. /\ task[e].pc = "apply" /\ TaskDone(e)
        /\ UNCHANGED <<mux, conn, inmap, tick, closing, told, sent, got, writing, ends, due>>
    BY DEF Apply
  <1>2. /\ outps \in [Ends -> Nat] /\ str = [str EXCEPT ![e] = str[e]] /\ m \in Msgs /\ m \in Held
        /\ Has(str[e]) /\ str[e] \in Streams /\ m.type # "SYN"
    BY <1>1, Here DEF WindowInv, Typed, Around, Tasked
  <1>3. m.type \in {"DATA", "UWND", "FIN", "RST"}
    BY <1>2, MsgFacts
  <1>4. CASE Refused(m, str[e])
    <2>1. SendRst(e) /\ str' = str
      BY <1>4 DEF Apply
    <2> QED BY <1>1, <1>2, <2>1, RstSent, DoneKeeps
  <1>5. CASE ~Refused(m, str[e])
    <2>1. str' = [str EXCEPT ![e] = Applied(m, str[e])] /\ UNCHANGED <<outps, chan>>
      BY <1>5 DEF Apply
    <2>2. CASE m.type = "DATA"
      <3>1. "READ_SHUTDOWN" \notin str[e].flag
        BY <1>5, <2>2 DEF Refused
      <3>2. Applied(m, str[e]) = [str[e] EXCEPT !.rb = str[e].rb \o m.data]
        BY <2>2 DEF Applied
      <3> QED BY <1>1, <2>1, <2>2, <3>1, <3>2, ApplyData
    <2>3. CASE m.type = "UWND"
      <3>1. Applied(m, str[e]) = [str[e] EXCEPT !.wnd = Least(Wnd, str[e].wnd + m.n)]
        BY <2>3 DEF Applied
      <3> QED BY <1>1, <2>1, <2>3, <3>1, ApplyWindow
    <2>4. CASE m.type = "RST"
      <3>1. Applied(m, str[e]) = ForceClose(str[e])
        BY <2>4 DEF Applied
      <3>2. Tame(str[e], ForceClose(str[e]))
        BY <1>2, TameFacts
      <3> QED BY <1>1, <1>2, <2>1, <3>1, <3>2, NoSend, DoneKeeps
    <2>5. CASE m.type = "FIN"
      <3>1. Applied(m, str[e]) = str[e]
        BY <2>5 DEF Applied
      <3> QED BY <1>1, <1>2, <2>1, <3>1, NoSend, DoneKeeps
    <2> QED BY <1>3, <2>2, <2>3, <2>4, <2>5
  <1> QED BY <1>4, <1>5

LEMMA NextKeeps ==
  ASSUME WindowInv, [Next]_vars PROVE WindowInv'
  <1>1. CASE UNCHANGED vars
    BY <1>1 DEF vars, WindowInv, Typed, Around, Limits, Locals, OneSyn, Balance, Counted, Toward,
                Window, Unsent, Waiting, Owed, Taken
  <1>2. ASSUME NEW e \in Ends, Tick(e) PROVE WindowInv'
    BY <1>2, TickBeginKeeps, TickWndKeeps, TickCheckKeeps, TickFinKeeps, TickDetermineKeeps,
       TickResizeKeeps, TickSynKeeps, TickDataKeeps DEF Tick
  <1>3. ASSUME NEW e \in Ends, EventTask(e) PROVE WindowInv'
    BY <1>3, ArriveKeeps, LookupKeeps, ApplyKeeps, SocketClosedKeeps, DrainedKeeps DEF EventTask
  <1>4. ASSUME NEW e \in Ends, Close(e) \/ PeerClose(e) \/ PeerCloseEnds(e) \/ RemoteClosed(e)
        PROVE  WindowInv'
    BY <1>4, CloseKeeps, PeerCloseKeeps, PeerCloseEndsKeeps, RemoteClosedKeeps
  <1>5. CASE Open \/ WriteBegin \/ Write \/ Read \/ Disconnect
    BY <1>5, OpenKeeps, WriteBeginKeeps, WriteKeeps, ReadKeeps, DisconnectKeeps
  <1> QED BY <1>1, <1>2, <1>3, <1>4, <1>5 DEF Next

(* The window lets out no byte that the reader has no room for: what is     *)
(* buffered at the reader, what its event task holds and what is under way  *)
(* fit MUX_STREAM_WND_SIZE, so that the assertion of on_event on            *)
(* left_capacity cannot fail, and wb_wnd, both buffers, the channel and the *)
(* other fields stay in their ranges; no byte is read that was not written. *)
(* This whatever the threads of both ends do, and however long a window     *)
(* update is delayed.                                                       *)
THEOREM WindowHolds == Spec => []WindowSound
  <1>1. MuxInit => WindowInv
    BY WindowInit
  <1>2. WindowInv /\ [Next]_vars => WindowInv'
    BY NextKeeps
  <1>3. WindowInv => WindowSound
    BY WindowInvSound
  <1> QED BY <1>1, <1>2, <1>3, PTL DEF Spec

-----------------------------------------------------------------------------
(* The invariant of the refinement.                                        *)

(* A stream whose listener was told T_CLOSED takes no byte any more. *)
Deaf(s, im) == ~im /\ "READ_SHUTDOWN" \in s.flag
ToldInv == \A e \in Ends : told[e] => Deaf(str[e], inmap[e])

(* What A writes can still reach B's reader. *)
Live == Accepting /\ Sending

(* The ticker of A.  Its flush ends in "chk" once the stream is shut for    *)
(* writing; from "det" on it goes on, and only what cuts the stream may     *)
(* stop the sending.                                                        *)
Early == {"wnd", "chk", "fin"}
Late == {"det", "resize", "syn", "data"}
Flushes(s, k) ==
    /\ k.pc \in Early => s.st = "ESTABLISHED" \/ "WRITE_SHUTDOWN" \in s.flag
    /\ k.pc = "data" => "PLAN_SYN" \notin s.flag
    /\ s.incre = 0
Goes == tick[A].pc \in Late /\ Accepting /\ conn[A] =>
          Sending /\ (tick[A].pc = "resize" => "WRITE_SHUTDOWN" \notin tick[A].seen)

(* The packets under way to e. *)
Carried(e) == {chan[e][i] : i \in 1..Len(chan[e])} \cup {task[e].msg}
Proper(m) ==
    /\ m.type # "UWND"
    /\ m.type = "FIN" => ~Live
    /\ m.type = "DATA" => ~Plans(str[A])
Packets ==
    /\ \A m \in Carried(B) : Proper(m)
    /\ \A m \in Carried(A) : m.type = "RST" => ~Live
    /\ outps[B] > 0 => ~Live

(* The data follow the SYN, and the SYN finds the reader. *)
Ordered(c) == \A i, j \in 1..Len(c) : i < j /\ c[j].type = "SYN" => c[i].type # "DATA"
NoSyn(c) == \A i \in 1..Len(c) : c[i].type # "SYN"
Order ==
    /\ Ordered(chan[B])
    /\ task[B].msg.type = "DATA" => NoSyn(chan[B])
    /\ ~Plans(str[A]) /\ Accepting => inmap[B] \/ \E m \in Carried(B) : m.type = "SYN"

PipeInv == ToldInv /\ Flushes(str[A], tick[A]) /\ Goes /\ Packets /\ Order

Elems(c) == {c[i] : i \in 1..Len(c)}

LEMMA AppendElems ==
  ASSUME NEW c \in Seq(Msgs), NEW m \in Msgs
  PROVE  /\ Elems(Append(c, m)) = Elems(c) \cup {m}
         /\ m.type # "SYN" => /\ Ordered(c) => Ordered(Append(c, m))
                              /\ NoSyn(c) => NoSyn(Append(c, m))
         /\ (\A d \in Elems(c) : d.type # "DATA") => Ordered(Append(c, m))
  <1> DEFINE n == Len(c)
             a == Append(c, m)
  <1>1. /\ n \in Nat /\ Len(a) = n + 1 /\ a[n + 1] = m /\ \A i \in 1..n : a[i] = c[i]
    OBVIOUS
  <1> HIDE DEF n, a
  <1>2. /\ \A i \in 1..(n + 1) : i \in 1..n \/ i = n + 1
        /\ \A i \in 1..n : i \in 1..(n + 1) /\ n + 1 \in 1..(n + 1)
        /\ \A i, j \in 1..(n + 1) : i < j => i \in 1..n
    BY <1>1
  <1>3. n + 1 \in 1..(n + 1)
    BY <1>1
  <1>4. Elems(a) = Elems(c) \cup {m}
    BY <1>1, <1>2, <1>3 DEF Elems, n
  <1>5. ASSUME m.type # "SYN", Ordered(c) PROVE Ordered(a)
    <2> SUFFICES ASSUME NEW i \in 1..(n + 1), NEW j \in 1..(n + 1), i < j, a[j].type = "SYN"
                 PROVE  a[i].type # "DATA"
      BY <1>1 DEF Ordered
    <2>1. i \in 1..n /\ j \in 1..n
      BY <1>1, <1>2, <1>5
    <2> QED BY <1>1, <1>5, <2>1 DEF Ordered, n
  <1>6. ASSUME m.type # "SYN", NoSyn(c) PROVE NoSyn(a)
    BY <1>1, <1>2, <1>6 DEF NoSyn, n
  <1>7. ASSUME \A d \in Elems(c) : d.type # "DATA" PROVE Ordered(a)
    <2> SUFFICES ASSUME NEW i \in 1..(n + 1), NEW j \in 1..(n + 1), i < j
                 PROVE  a[i].type # "DATA"
      BY <1>1 DEF Ordered
    <2>1. i \in 1..n
      BY <1>2
    <2>2. c[i] \in Elems(c)
      BY <2>1 DEF Elems, n
    <2> QED BY <1>1, <1>7, <2>1, <2>2
  <1> QED BY <1>4, <1>5, <1>6, <1>7 DEF a

LEMMA RstsElems ==
  ASSUME NEW c \in Seq(Msgs), NEW n \in Nat
  PROVE  /\ Elems(c) \subseteq Elems(c \o Rsts(n))
         /\ \A m \in Elems(c \o Rsts(n)) : m \in Elems(c) \/ m.type = "RST"
         /\ n = 0 => c \o Rsts(n) = c
         /\ Ordered(c) => Ordered(c \o Rsts(n))
         /\ NoSyn(c) => NoSyn(c \o Rsts(n))
  <1> DEFINE k == Len(c)
             a == c \o Rsts(n)
  <1>1. Rsts(n) \in Seq(Msgs) /\ Len(Rsts(n)) = n
    BY RstsType
  <1>2. /\ k \in Nat /\ Len(a) = k + n /\ \A i \in 1..k : a[i] = c[i]
        /\ \A i \in (k + 1)..(k + n) : a[i] = Rsts(n)[i - k]
    BY <1>1
  <1>3. n = 0 => a = c
    <2> SUFFICES ASSUME n = 0 PROVE a = c
      OBVIOUS
    <2>1. Rsts(n) = <<>>
      BY DEF Rsts
    <2> QED BY <2>1, ConcatEmptySeq
  <1> HIDE DEF k, a
  <1>4. \A i \in (k + 1)..(k + n) : a[i].type = "RST"
    <2> SUFFICES ASSUME NEW i \in (k + 1)..(k + n) PROVE a[i].type = "RST"
      OBVIOUS
    <2>1. i - k \in 1..n
      BY <1>2
    <2>2. Rsts(n)[i - k] = [type |-> "RST"]
      BY <2>1 DEF Rsts
    <2> QED BY <1>2, <2>2
  <1>5. /\ \A i \in 1..(k + n) : i \in 1..k \/ i \in (k + 1)..(k + n)
        /\ \A i \in 1..k : i \in 1..(k + n)
        /\ \A i \in 1..(k + n), j \in 1..k : i < j => i \in 1..k
    BY <1>2
  <1>6. Elems(c) \subseteq Elems(a)
    BY <1>2, <1>5 DEF Elems, k
  <1>7. \A m \in Elems(a) : m \in Elems(c) \/ m.type = "RST"
    BY <1>2, <1>4, <1>5 DEF Elems, k
  <1>8. ASSUME Ordered(c) PROVE Ordered(a)
    <2> SUFFICES ASSUME NEW i \in 1..(k + n), NEW j \in 1..(k + n), i < j, a[j].type = "SYN"
                 PROVE  a[i].type # "DATA"
      BY <1>2 DEF Ordered
    <2>1. i \in 1..k /\ j \in 1..k
      BY <1>4, <1>5
    <2> QED BY <1>2, <1>8, <2>1 DEF Ordered, k
  <1>9. ASSUME NoSyn(c) PROVE NoSyn(a)
    BY <1>2, <1>4, <1>5, <1>9 DEF NoSyn, k
  <1> QED BY <1>3, <1>6, <1>7, <1>8, <1>9 DEF a

LEMMA TailElems ==
  ASSUME NEW c \in Seq(Msgs), c # <<>>
  PROVE  /\ Elems(c) = {Head(c)} \cup Elems(Tail(c))
         /\ Ordered(c) => Ordered(Tail(c))
         /\ NoSyn(c) => NoSyn(Tail(c))
         /\ Ordered(c) /\ Head(c).type = "DATA" => NoSyn(Tail(c))
  <1> DEFINE n == Len(Tail(c))
             a == Tail(c)
  <1>1. /\ n \in Nat /\ Len(c) = n + 1 /\ Head(c) = c[1] /\ \A i \in 1..n : a[i] = c[i + 1]
    OBVIOUS
  <1> HIDE DEF a
  <1>2. Len(a) = n
    BY DEF a
  <1> HIDE DEF n
  <1>3. /\ \A i \in 1..n : i + 1 \in 1..(n + 1) /\ 1 < i + 1
        /\ \A i \in 1..(n + 1) : i = 1 \/ (i - 1 \in 1..n /\ (i - 1) + 1 = i)
        /\ 1 \in 1..(n + 1)
        /\ \A i, j \in 1..n : i < j => i + 1 < j + 1
    BY <1>1
  <1>4. Elems(c) = {Head(c)} \cup Elems(a)
    <2>1. \A x \in Elems(a) : x \in Elems(c)
      BY <1>1, <1>2, <1>3 DEF Elems
    <2>2. ASSUME NEW x \in Elems(c) PROVE x = Head(c) \/ x \in Elems(a)
      <3>1. PICK i \in 1..(n + 1) : x = c[i]
        BY <1>1, <2>2 DEF Elems
      <3>2. CASE i = 1
        BY <1>1, <3>1, <3>2
      <3>3. CASE i # 1
        <4>1. i - 1 \in 1..n /\ a[i - 1] = c[(i - 1) + 1] /\ (i - 1) + 1 = i
          BY <1>1, <1>3, <3>3
        <4> QED BY <1>2, <3>1, <4>1 DEF Elems
      <3> QED BY <3>2, <3>3
    <2>3. Head(c) \in Elems(c)
      BY <1>1, <1>3 DEF Elems
    <2> QED BY <2>1, <2>2, <2>3
  <1>5. Ordered(c) => Ordered(a)
    BY <1>1, <1>2, <1>3 DEF Ordered
  <1>6. NoSyn(c) => NoSyn(a)
    BY <1>1, <1>2, <1>3 DEF NoSyn
  <1>7. ASSUME Ordered(c), Head(c).type = "DATA" PROVE NoSyn(a)
    BY <1>1, <1>2, <1>3, <1>7 DEF Ordered, NoSyn
  <1> QED BY <1>4, <1>5, <1>6, <1>7 DEF a

LEMMA CarriedIs == \A e : Carried(e) = Elems(chan[e]) \cup {task[e].msg}
  BY DEF Carried, Elems

LEMMA NoSynElems == \A c : NoSyn(c) <=> \A m \in Elems(c) : m.type # "SYN"
  BY DEF NoSyn, Elems

-----------------------------------------------------------------------------
(* The bytes of the pipe, from the reader back to the writer: those that    *)
(* wait in the buffer, those in the hands of the task, those in the         *)
(* channel, and those that the writer holds.                                *)
Ready == str[B].rb
InHand == IF Applying THEN Bytes(task[B].msg) ELSE <<>>
Coming == IF Accepting THEN InFlight(B) ELSE <<>>
Backlog == IF Accepting /\ Sending THEN str[A].wb ELSE <<>>
Joined(a, b, c, d) == ((a \o b) \o c) \o d
Whole == Joined(Ready, InHand, Coming, Backlog)

LEMMA PrefixIs ==
  ASSUME NEW s \in Seq(Nat), NEW t \in Seq(Nat)
  PROVE  SubSeq(s \o t, 1, Len(s)) = s /\ Len(s) \in 0..Len(s \o t)
  <1> DEFINE n == Len(s)
             u == SubSeq(s \o t, 1, n)
  <1>1. s \o t \in Seq(Nat) /\ Len(s \o t) = n + Len(t) /\ n \in Nat /\ Len(t) \in Nat
        /\ \A i \in 1..n : (s \o t)[i] = s[i]
    BY ConcatFacts
  <1>2. u \in Seq(Nat) /\ Len(u) = n /\ \A i \in 1..n : u[i] = (s \o t)[i]
    BY <1>1
  <1>3. u = s
    <2> HIDE DEF u
    <2>1. \A i \in 1..Len(u) : u[i] = s[i]
      BY <1>1, <1>2
    <2> QED BY <1>2, <2>1, SeqEqual
  <1>4. n \in 0..(n + Len(t))
    BY <1>1
  <1> QED BY <1>1, <1>3, <1>4

LEMMA TakeIs ==
  ASSUME NEW s \in Seq(Nat), NEW t \in Seq(Nat), NEW n \in 1..Len(s)
  PROVE  /\ SubSeq(s \o t, 1, n) = SubSeq(s, 1, n)
         /\ SubSeq(s \o t, n + 1, Len(s \o t)) = SubSeq(s, n + 1, Len(s)) \o t
         /\ n \in 1..Len(s \o t)
  <1> DEFINE k == Len(s)
             l == Len(t)
             w == s \o t
  <1>1. /\ w \in Seq(Nat) /\ Len(w) = k + l /\ k \in Nat /\ l \in Nat /\ n \in Nat /\ n <= k /\ 1 <= n
        /\ \A i \in 1..k : w[i] = s[i]
        /\ \A i \in 1..l : w[k + i] = t[i]
    BY ConcatFacts
  <1> HIDE DEF w, k, l
  <1>2. n \in 1..Len(w)
    BY <1>1
  <1>3. SubSeq(w, 1, n) = SubSeq(s, 1, n)
    <2> DEFINE u == SubSeq(w, 1, n)
               v == SubSeq(s, 1, n)
    <2>1. u \in Seq(Nat) /\ Len(u) = n /\ \A i \in 1..n : u[i] = w[i]
      BY <1>1
    <2>2. v \in Seq(Nat) /\ Len(v) = n /\ \A i \in 1..n : v[i] = s[i]
      BY <1>1 DEF k
    <2> HIDE DEF u, v
    <2>3. \A i \in 1..Len(u) : u[i] = v[i]
      <3>1. \A i \in 1..n : i \in 1..k
        BY <1>1
      <3> QED BY <1>1, <2>1, <2>2, <3>1
    <2>4. u = v
      BY <2>1, <2>2, <2>3, SeqEqual
    <2> QED BY <2>4 DEF u, v
  <1>4. SubSeq(w, n + 1, Len(w)) = SubSeq(s, n + 1, Len(s)) \o t
    <2> DEFINE u == SubSeq(w, n + 1, Len(w))
               v == SubSeq(s, n + 1, k)
    <2>1. u \in Seq(Nat) /\ Len(u) = (k + l) - n /\ \A i \in 1..((k + l) - n) : u[i] = w[n + i]
      BY <1>1
    <2>2. v \in Seq(Nat) /\ Len(v) = k - n /\ \A i \in 1..(k - n) : v[i] = s[n + i]
      BY <1>1 DEF k
    <2> HIDE DEF u, v
    <2>3. /\ v \o t \in Seq(Nat) /\ Len(v \o t) = (k - n) + l
          /\ \A i \in 1..(k - n) : (v \o t)[i] = v[i]
          /\ \A i \in 1..l : (v \o t)[(k - n) + i] = t[i]
      <3>1. /\ v \o t \in Seq(Nat) /\ Len(v \o t) = Len(v) + Len(t)
            /\ \A i \in 1..Len(v) : (v \o t)[i] = v[i]
            /\ \A i \in 1..Len(t) : (v \o t)[Len(v) + i] = t[i]
        BY <2>2, ConcatFacts
      <3>2. Len(v) = k - n /\ Len(t) = l
        BY <2>2 DEF l
      <3> QED BY <3>1, <3>2, Zenon
    <2>4. ASSUME NEW i \in 1..((k + l) - n) PROVE u[i] = (v \o t)[i]
      <3>1. CASE i <= k - n
        <4>1. i \in 1..(k - n) /\ n + i \in 1..k
          BY <1>1, <3>1
        <4> QED BY <1>1, <2>1, <2>2, <2>3, <4>1
      <3>2. CASE i > k - n
        <4> DEFINE j == i - (k - n)
        <4>1. j \in 1..l /\ (k - n) + j = i /\ n + i = k + j
          BY <1>1, <3>2
        <4> HIDE DEF j
        <4>2. w[n + i] = t[j] /\ (v \o t)[i] = t[j]
          BY <1>1, <2>3, <4>1
        <4> QED BY <2>1, <4>2
      <3>3. k \in Nat /\ n \in Nat /\ l \in Nat
        BY <1>1
      <3>4. i <= k - n \/ i > k - n
        BY <3>3
      <3> QED BY <3>1, <3>2, <3>4
    <2>5. Len(u) = Len(v \o t) /\ \A i \in 1..Len(u) : u[i] = (v \o t)[i]
      <3>1. k \in Nat /\ n \in Nat /\ l \in Nat
        BY <1>1
      <3>2. (k + l) - n = (k - n) + l
        BY <3>1
      <3>3. Len(u) = (k + l) - n /\ Len(v \o t) = (k - n) + l
        BY <2>1, <2>3
      <3> QED BY <2>4, <3>2, <3>3, Zenon
    <2>6. u = v \o t
      BY <2>1, <2>3, <2>5, SeqEqual
    <2> QED BY <2>6 DEF u, v, k
  <1> QED BY <1>2, <1>3, <1>4 DEF w

LEMMA JoinedType ==
  ASSUME NEW a \in Seq(Nat), NEW b \in Seq(Nat), NEW c \in Seq(Nat), NEW d \in Seq(Nat)
  PROVE  /\ a \o b \in Seq(Nat) /\ c \o d \in Seq(Nat) /\ b \o (c \o d) \in Seq(Nat)
         /\ (a \o b) \o c \in Seq(Nat) /\ Joined(a, b, c, d) \in Seq(Nat)
  BY ConcatFacts DEF Joined

LEMMA JoinedEmpty ==
  ASSUME NEW a \in Seq(Nat), NEW b \in Seq(Nat), NEW c \in Seq(Nat)
  PROVE  /\ Joined(a, b, c, <<>>) = (a \o b) \o c
         /\ Joined(a, b, <<>>, <<>>) = a \o b
         /\ Joined(a, <<>>, <<>>, <<>>) = a
  <1>1. a \o b \in Seq(Nat) /\ (a \o b) \o c \in Seq(Nat)
    BY ConcatFacts
  <1> QED BY <1>1, ConcatEmpty DEF Joined

(* What is dropped from the end leaves a prefix. *)
Begins(x, w) == \E k \in 0..Len(w) : x = SubSeq(w, 1, k)

LEMMA BeginsConcat ==
  ASSUME NEW s \in Seq(Nat), NEW t \in Seq(Nat) PROVE Begins(s, s \o t)
  BY PrefixIs DEF Begins

LEMMA JoinedCut ==
  ASSUME NEW a \in Seq(Nat), NEW b \in Seq(Nat), NEW c \in Seq(Nat), NEW d \in Seq(Nat)
  PROVE  /\ Begins(Joined(a, b, c, <<>>), Joined(a, b, c, d))
         /\ Begins(Joined(a, b, <<>>, <<>>), Joined(a, b, c, d))
         /\ Begins(Joined(a, <<>>, <<>>, <<>>), Joined(a, b, c, d))
  <1> DEFINE s == a \o b
             r == s \o c
             t == c \o d
             u == b \o t
             w == r \o d
  <1>1. s \in Seq(Nat) /\ t \in Seq(Nat)
    BY ConcatFacts
  <1> HIDE DEF s, t
  <1>2. (a \o b) \o t = a \o (b \o t)
    BY <1>1, ConcatAssoc, SMTT(60)
  <1>3. r \in Seq(Nat) /\ u \in Seq(Nat)
    BY <1>1, ConcatFacts
  <1>4. (s \o c) \o d = s \o (c \o d)
    BY <1>1, ConcatAssoc, ZenonT(60)
  <1>5. Joined(a, b, c, d) = w
    BY DEF Joined, s
  <1>6. Joined(a, b, c, <<>>) = r /\ Joined(a, b, <<>>, <<>>) = s /\ Joined(a, <<>>, <<>>, <<>>) = a
    BY JoinedEmpty, ZenonT(60) DEF s
  <1>7. w = s \o t
    BY <1>4 DEF t
  <1>8. s \o t = a \o u
    BY <1>2 DEF s
  <1> HIDE DEF r, u
  <1>9. Begins(r, r \o d) /\ Begins(s, s \o t) /\ Begins(a, a \o u)
    BY <1>1, <1>3, BeginsConcat
  <1> QED BY <1>5, <1>6, <1>7, <1>8, <1>9

LEMMA InFlightIs ==
  ASSUME Typed
  PROVE  \A e \in Ends : InFlight(e) = Flow("data", chan[e]) /\ InFlight(e) \in Seq(Nat)
                         /\ Bytes(task[e].msg) = Load("data", task[e].msg) /\ Bytes(task[e].msg) \in Seq(Nat)
  <1> SUFFICES ASSUME NEW e \in Ends
               PROVE  InFlight(e) = Flow("data", chan[e]) /\ InFlight(e) \in Seq(Nat)
                      /\ Bytes(task[e].msg) = Load("data", task[e].msg) /\ Bytes(task[e].msg) \in Seq(Nat)
    OBVIOUS
  <1>1. \A i \in 1..Len(chan[e]) : Bytes(chan[e][i]) = Load("data", chan[e][i])
    BY DEF Bytes, Load
  <1>2. InFlight(e) = Flow("data", chan[e])
    BY <1>1 DEF InFlight, Flow, Loads
  <1>3. Bytes(task[e].msg) = Load("data", task[e].msg)
    BY DEF Bytes, Load
  <1> QED BY <1>2, <1>3, TowardType DEF Kinds

Parts ==
    /\ Ready \in Seq(Nat) /\ InHand \in Seq(Nat) /\ Coming \in Seq(Nat) /\ Backlog \in Seq(Nat)
    /\ InFlight(B) \in Seq(Nat) /\ Bytes(task[B].msg) \in Seq(Nat) /\ str[A].wb \in Seq(Nat)
LEMMA PartsType == WindowInv => Parts
  <1> SUFFICES ASSUME WindowInv PROVE Parts
    OBVIOUS
  <1>1. InFlight(B) \in Seq(Nat) /\ Bytes(task[B].msg) \in Seq(Nat)
    BY EndsFacts, InFlightIs DEF WindowInv
  <1>2. str[B].rb \in Seq(Nat) /\ str[A].wb \in Seq(Nat) /\ <<>> \in Seq(Nat)
    BY EndsFacts, Here DEF Streams
  <1> QED BY <1>1, <1>2 DEF Parts, Ready, InHand, Coming, Backlog

(* The steps of the pipe, but for the one time it shrinks. *)
PipeStays == Whole' = Whole /\ (Live' <=> Live) /\ sent' = sent /\ got' = got
PipeCuts == /\ ~Live' /\ sent' = sent /\ got' = got
            /\ \E k \in 0..Len(Whole) : Whole' = SubSeq(Whole, 1, k)
PipePuts ==
    \E n \in 1..MaxCall :
      /\ (Live' <=> Live) /\ got' = got /\ sent' = sent + n
      /\ Live => Whole' = Whole \o [i \in 1..n |-> sent + i]
      /\ ~Live => Whole' = Whole
PipeTakes ==
    \E n \in 1..Len(Whole) :
      /\ (Live' <=> Live) /\ sent' = sent
      /\ got' = got \o SubSeq(Whole, 1, n) /\ Whole' = SubSeq(Whole, n + 1, Len(Whole))
PipeSteps == PipeStays \/ PipeCuts \/ PipePuts \/ PipeTakes

LEMMA Stays ==
  ASSUME Whole' = Whole, Live' <=> Live, sent' = sent, got' = got PROVE PipeSteps
  BY DEF PipeSteps, PipeStays

LEMMA Cuts ==
  ASSUME ~Live', sent' = sent, got' = got, \E k \in 0..Len(Whole) : Whole' = SubSeq(Whole, 1, k)
  PROVE  PipeSteps
  BY DEF PipeSteps, PipeCuts

LEMMA Puts ==
  ASSUME Live' <=> Live, got' = got, NEW n \in 1..MaxCall, sent' = sent + n,
         Live => Whole' = Whole \o [i \in 1..n |-> sent + i], ~Live => Whole' = Whole
  PROVE  PipeSteps
  BY DEF PipeSteps, PipePuts

LEMMA Takes ==
  ASSUME Live' <=> Live, sent' = sent, NEW n \in 1..Len(Whole),
         got' = got \o SubSeq(Whole, 1, n), Whole' = SubSeq(Whole, n + 1, Len(Whole))
  PROVE  PipeSteps
  BY DEF PipeSteps, PipeTakes

(* No byte for a reader that was told. *)
Hearing == Ready' = Ready \/ "READ_SHUTDOWN" \notin str[B].flag \/ Len(Ready') <= Len(Ready)

(* A step that moves no byte, and may cut the stream. *)
LEMMA QuietMaps ==
  ASSUME WindowInv, WindowInv', Ready' = Ready, sent' = sent, got' = got,
         Live' => str'[A].wb = str[A].wb,
         Accepting' => Accepting, Live' => Live,
         Accepting' => InFlight(B)' = InFlight(B),
         InHand' = InHand \/ (InHand' = <<>> /\ ~Accepting')
  PROVE  PipeSteps /\ Hearing
  <1>0. Parts /\ Parts'
    BY PartsType, PTL
  <1>1. /\ Ready \in Seq(Nat) /\ InHand \in Seq(Nat) /\ Coming \in Seq(Nat) /\ Backlog \in Seq(Nat)
    BY <1>0 DEF Parts
  <1>2. CASE Live'
    <2>1. Accepting' /\ Accepting /\ Live /\ Sending /\ Sending'
      BY <1>2 DEF Live
    <2>2. InHand' = InHand
      BY <2>1
    <2>3. Coming' = Coming /\ Backlog' = Backlog
      BY <1>2, <2>1 DEF Coming, Backlog
    <2>4. Whole' = Whole
      BY <2>2, <2>3 DEF Whole
    <2>5. Live' <=> Live
      BY <1>2, <2>1
    <2> QED BY <2>4, <2>5, Stays DEF Hearing
  <1>3. CASE ~Live'
    <2>1. Backlog' = <<>>
      BY <1>3 DEF Backlog, Live
    <2>2. \/ Whole' = Joined(Ready, InHand, Coming, <<>>)
          \/ Whole' = Joined(Ready, InHand, <<>>, <<>>)
          \/ Whole' = Joined(Ready, <<>>, <<>>, <<>>)
      <3>1. CASE Accepting'
        <4>1. Coming' = Coming /\ InHand' = InHand
          BY <3>1 DEF Coming
        <4> QED BY <2>1, <4>1 DEF Whole
      <3>2. CASE ~Accepting'
        <4>1. Coming' = <<>>
          BY <3>2 DEF Coming
        <4> QED BY <2>1, <4>1 DEF Whole
      <3> QED BY <3>1, <3>2
    <2>3. /\ Begins(Joined(Ready, InHand, Coming, <<>>), Whole)
          /\ Begins(Joined(Ready, InHand, <<>>, <<>>), Whole)
          /\ Begins(Joined(Ready, <<>>, <<>>, <<>>), Whole)
      BY <1>1, JoinedCut DEF Whole
    <2>4. \E k \in 0..Len(Whole) : Whole' = SubSeq(Whole, 1, k)
      BY <2>2, <2>3 DEF Begins
    <2> QED BY <1>3, <2>4, Cuts DEF Hearing
  <1> QED BY <1>2, <1>3

-----------------------------------------------------------------------------
(* The steps keep the invariant, and map to steps of the pipe or to none.   *)
Stepped == PipeInv' /\ (TickResize(A) \/ PipeSteps) /\ Hearing

StillA ==
    /\ str'[A].st = str[A].st /\ (Has(str'[A]) <=> Has(str[A]))
    /\ "WRITE_SHUTDOWN" \in str'[A].flag <=> "WRITE_SHUTDOWN" \in str[A].flag
    /\ "PLAN_SYN" \in str'[A].flag <=> "PLAN_SYN" \in str[A].flag
    /\ str'[A].incre = str[A].incre
    /\ tick'[A] = tick[A] /\ (conn'[A] => conn[A])
StillB ==
    /\ mux'[B] = "ATTACHED" => mux[B] = "ATTACHED"
    /\ conn'[B] => conn[B]
    /\ told' = told /\ inmap' = inmap
    /\ \A f \in Ends : "READ_SHUTDOWN" \in str[f].flag => "READ_SHUTDOWN" \in str'[f].flag

LEMMA StillBFacts ==
  ASSUME PipeInv, StillB PROVE ToldInv' /\ (Accepting' => Accepting)
  <1>1. B \in Ends
    BY EndsFacts
  <1>2. ToldInv'
    BY DEF PipeInv, ToldInv, StillB, Deaf
  <1>3. Accepting' => Accepting
    BY <1>1 DEF Accepting, StillB
  <1> QED BY <1>2, <1>3

LEMMA StillAFacts ==
  ASSUME PipeInv, StillA, Accepting' => Accepting
  PROVE  /\ Flushes(str'[A], tick'[A]) /\ Goes' /\ (Sending' => Sending) /\ (Live' => Live)
         /\ Plans(str'[A]) <=> Plans(str[A])
  <1>1. Flushes(str'[A], tick'[A])
    BY DEF PipeInv, Flushes, StillA
  <1>2. Sending <=> (conn[A] /\ "WRITE_SHUTDOWN" \notin str[A].flag /\ (~Has(str[A]) \/ str[A].st = "ESTABLISHED"))
    BY DEF Sending, HasStream, Has
  <1>3. Sending' <=> (conn'[A] /\ "WRITE_SHUTDOWN" \notin str'[A].flag /\ (~Has(str'[A]) \/ str'[A].st = "ESTABLISHED"))
    BY DEF Sending, HasStream, Has
  <1>4. (Sending' => Sending) /\ (conn'[A] /\ Sending => Sending')
    BY <1>2, <1>3 DEF StillA
  <1>5. Goes'
    BY <1>4 DEF Goes, PipeInv, StillA
  <1>6. Live' => Live
    BY <1>4 DEF Live
  <1>7. Plans(str'[A]) <=> Plans(str[A])
    BY DEF Plans, StillA
  <1> QED BY <1>1, <1>4, <1>5, <1>6, <1>7

LEMMA PacketStep ==
  ASSUME PipeInv, Live' => Live, Plans(str'[A]) => Plans(str[A]),
         \A m \in Carried(B)' : m \in Carried(B) \/ Proper(m)',
         \A m \in Carried(A)' : m \in Carried(A) \/ m.type # "RST" \/ ~Live',
         outps'[B] > 0 => outps[B] > 0 \/ ~Live'
  PROVE  Packets'
  <1>1. \A m \in Carried(B) : Proper(m)
    BY DEF PipeInv, Packets
  <1>2. \A m : Proper(m) => Proper(m)'
    BY DEF Proper
  <1>3. \A m \in Carried(B)' : Proper(m)'
    BY <1>1, <1>2
  <1>4. \A m \in Carried(A)' : m.type = "RST" => ~Live'
    BY DEF PipeInv, Packets
  <1>5. outps'[B] > 0 => ~Live'
    BY DEF PipeInv, Packets
  <1> QED BY <1>3, <1>4, <1>5 DEF Packets

LEMMA OrderStep ==
  ASSUME PipeInv, Accepting' => Accepting, Plans(str[A]) => Plans(str'[A]),
         Ordered(chan'[B]), task'[B].msg.type = "DATA" => NoSyn(chan'[B]),
         Accepting' /\ inmap[B] => inmap'[B],
         Accepting' => \A m \in Carried(B) : m.type = "SYN" => m \in Carried(B)' \/ inmap'[B]
  PROVE  Order'
  <1>1. ~Plans(str'[A]) /\ Accepting' => inmap'[B] \/ \E m \in Carried(B)' : m.type = "SYN"
    BY DEF PipeInv, Order
  <1> QED BY <1>1 DEF Order

(* Nothing is sent, nothing arrives. *)
LEMMA NoTraffic ==
  ASSUME PipeInv, chan' = chan, outps' = outps, \A f \in Ends : task'[f].msg = task[f].msg,
         Accepting' => Accepting, Live' => Live, Plans(str'[A]) <=> Plans(str[A]),
         Accepting' /\ inmap[B] => inmap'[B]
  PROVE  Packets' /\ Order'
  <1>1. \A f \in Ends : Carried(f)' = Carried(f)
    BY DEF Carried
  <1>2. A \in Ends /\ B \in Ends
    BY EndsFacts
  <1>3. Packets'
    BY <1>1, <1>2, PacketStep
  <1>4. Ordered(chan[B]) /\ (task[B].msg.type = "DATA" => NoSyn(chan[B]))
    BY DEF PipeInv, Order
  <1>5. Order'
    BY <1>1, <1>2, <1>4, OrderStep
  <1> QED BY <1>3, <1>5

LEMMA HandKept ==
  ASSUME task'[B].msg = task[B].msg, inmap'[B] = inmap[B],
         task'[B].pc = task[B].pc \/ task[B].msg.type # "DATA",
         "READ_SHUTDOWN" \in str[B].flag => "READ_SHUTDOWN" \in str'[B].flag
  PROVE  InHand' = InHand \/ (InHand' = <<>> /\ ~Accepting')
  <1>1. CASE "READ_SHUTDOWN" \in str'[B].flag
    BY <1>1 DEF InHand, Applying, Accepting
  <1>2. CASE "READ_SHUTDOWN" \notin str'[B].flag
    <2>1. CASE task'[B].pc = task[B].pc
      <3>1. Applying' <=> Applying
        BY <1>2, <2>1 DEF Applying
      <3>2. Bytes(task'[B].msg) = Bytes(task[B].msg)
        OBVIOUS
      <3> QED BY <3>1, <3>2 DEF InHand
    <2>2. CASE task[B].msg.type # "DATA"
      BY <2>2 DEF InHand, Bytes
    <2> QED BY <2>1, <2>2
  <1> QED BY <1>1, <1>2

(* Nothing moves, apart from what closes. *)
LEMMA QuietKeeps ==
  ASSUME WindowInv, WindowInv', PipeInv, StillA, StillB,
         chan' = chan, outps' = outps, \A f \in Ends : task'[f].msg = task[f].msg,
         task'[B].pc = task[B].pc \/ task[B].msg.type # "DATA",
         str'[B].rb = str[B].rb, str'[A].wb = str[A].wb, sent' = sent, got' = got
  PROVE  Stepped
  <1>1. ToldInv' /\ (Accepting' => Accepting)
    BY StillBFacts
  <1>2. /\ Flushes(str'[A], tick'[A]) /\ Goes' /\ (Live' => Live)
        /\ Plans(str'[A]) <=> Plans(str[A])
    BY <1>1, StillAFacts
  <1>3. A \in Ends /\ B \in Ends /\ inmap' = inmap
        /\ ("READ_SHUTDOWN" \in str[B].flag => "READ_SHUTDOWN" \in str'[B].flag)
    BY EndsFacts DEF StillB
  <1>4. Packets' /\ Order'
    BY <1>1, <1>2, <1>3, NoTraffic
  <1>5. InHand' = InHand \/ (InHand' = <<>> /\ ~Accepting')
    BY <1>3, HandKept
  <1>6. InFlight(B)' = InFlight(B) /\ Ready' = Ready
    BY DEF InFlight, Ready
  <1>7. PipeSteps /\ Hearing
    BY <1>1, <1>2, <1>5, <1>6, QuietMaps
  <1> QED BY <1>1, <1>2, <1>4, <1>7 DEF Stepped, PipeInv

(* close_read, close_write and close. *)
Closes(s, t) ==
    /\ t.st = s.st /\ s.flag \subseteq t.flag /\ t.rb = s.rb /\ t.wb = s.wb
    /\ "WRITE_SHUTDOWN" \in t.flag => "WRITE_SHUTDOWN" \in s.flag
    /\ "PLAN_SYN" \in t.flag => "PLAN_SYN" \in s.flag
    /\ s.rb = <<>> => t.incre = s.incre

LEMMA ClosesFacts ==
  ASSUME NEW s \in Streams
  PROVE  /\ Closes(s, s) /\ Closes(s, CloseReadOf(s)) /\ Closes(s, CloseWriteOf(s)) /\ Closes(s, CloseOf(s))
  <1>1. Closes(s, s)
    BY DEF Closes
  <1>2. Closes(s, CloseReadOf(s)) /\ CloseReadOf(s) \in Streams
    <2>1. CASE "READ_SHUTDOWN_CALLED" \in s.flag
      BY <2>1, <1>1 DEF CloseReadOf
    <2>2. CASE "READ_SHUTDOWN_CALLED" \notin s.flag
      <3> DEFINE n == s.incre + Len(s.rb)
      <3>1. /\ s.incre \in Nat /\ s.rb \in Seq(Nat) /\ Len(s.rb) \in Nat
        BY LenProperties DEF Streams
      <3>2. n \in Nat /\ (s.rb = <<>> => n = s.incre)
        BY <3>1
      <3> HIDE DEF n
      <3>3. CloseReadOf(s) = [s EXCEPT !.flag = @ \cup {"READ_SHUTDOWN_CALLED", "READ_SHUTDOWN"},
                                       !.incre = n]
        BY <2>2 DEF CloseReadOf, n
      <3> DEFINE t == CloseReadOf(s)
      <3>4. /\ t \in Streams /\ t.st = s.st /\ t.wb = s.wb /\ t.rb = s.rb /\ t.incre = n
            /\ t.flag = s.flag \cup {"READ_SHUTDOWN_CALLED", "READ_SHUTDOWN"}
        BY <3>2, <3>3, ZenonT(30) DEF Streams, Flags
      <3> HIDE DEF t
      <3>5. Closes(s, t)
        BY <3>2, <3>4 DEF Closes
      <3> QED BY <3>4, <3>5 DEF t
    <2> QED BY <2>1, <2>2
  <1>3. \A t \in Streams : Closes(t, CloseWriteOf(t))
    BY DEF Closes, CloseWriteOf, Streams
  <1>4. Closes(s, CloseOf(s))
    <2> DEFINE r == CloseReadOf(s)
    <2>1. Closes(s, r) /\ r \in Streams
      BY <1>2
    <2> HIDE DEF r
    <2>2. Closes(r, CloseWriteOf(r))
      BY <1>3, <2>1
    <2>3. CloseOf(s) = CloseWriteOf(r)
      BY DEF CloseOf, r
    <2>4. Closes(s, CloseWriteOf(r))
      BY <2>1, <2>2 DEF Closes
    <2> QED BY <2>3, <2>4
  <1> QED BY <1>1, <1>2, <1>3, <1>4

LEMMA ClosesKeeps ==
  ASSUME WindowInv, WindowInv', PipeInv, NEW e \in Ends, NEW t, str' = [str EXCEPT ![e] = t],
         Closes(str[e], t), Has(str[e]) \/ t = str[e],
         \A f \in Ends : mux'[f] = "ATTACHED" => mux[f] = "ATTACHED",
         \A f \in Ends : conn'[f] => conn[f],
         told' = told, inmap' = inmap, tick' = tick, chan' = chan, outps' = outps,
         \A f \in Ends : task'[f].msg = task[f].msg,
         task'[B].pc = task[B].pc \/ task[B].msg.type # "DATA", sent' = sent, got' = got
  PROVE  Stepped
  <1>1. A \in Ends /\ B \in Ends /\ str \in [Ends -> Streams]
    BY EndsFacts DEF WindowInv, Typed
  <1>2. \A f \in Ends : Closes(str[f], str'[f]) /\ (Has(str[f]) \/ str'[f] = str[f])
    BY <1>1 DEF Closes
  <1>3. str[A].rb = <<>>
    BY DEF WindowInv, Locals, Opener
  <1>4. StillA
    BY <1>1, <1>2, <1>3 DEF StillA, Closes, Has
  <1>5. StillB
    BY <1>1, <1>2 DEF StillB, Closes
  <1>6. str'[B].rb = str[B].rb /\ str'[A].wb = str[A].wb
    BY <1>1, <1>2 DEF Closes
  <1> QED BY <1>4, <1>5, <1>6, QuietKeeps

LEMMA SameKeeps ==
  ASSUME WindowInv, WindowInv', PipeInv, str' = str,
         \A f \in Ends : mux'[f] = "ATTACHED" => mux[f] = "ATTACHED",
         \A f \in Ends : conn'[f] => conn[f],
         told' = told, inmap' = inmap, tick' = tick, chan' = chan, outps' = outps,
         \A f \in Ends : task'[f].msg = task[f].msg,
         task'[B].pc = task[B].pc \/ task[B].msg.type # "DATA", sent' = sent, got' = got
  PROVE  Stepped
  <1>1. A \in Ends /\ str' = [str EXCEPT ![A] = str[A]] /\ str[A] \in Streams
    BY EndsFacts, Here
  <1> QED BY <1>1, ClosesFacts, ClosesKeeps

LEMMA WriteBeginPipes ==
  ASSUME WindowInv, WindowInv', PipeInv, WriteBegin PROVE Stepped
  BY SameKeeps DEF WriteBegin

LEMMA RemoteClosedPipes ==
  ASSUME WindowInv, WindowInv', PipeInv, NEW e \in Ends, RemoteClosed(e) PROVE Stepped
  <1>1. \A f \in Ends : conn'[f] => conn[f]
    BY DEF RemoteClosed, WindowInv, Typed, Around
  <1> QED BY <1>1, SameKeeps DEF RemoteClosed

LEMMA ClosePipes ==
  ASSUME WindowInv, WindowInv', PipeInv, NEW e \in Ends, Close(e) PROVE Stepped
  <1>1. PICK t \in {CloseReadOf(str[e]), CloseWriteOf(str[e]), CloseOf(str[e])} : str' = [str EXCEPT ![e] = t]
    BY DEF Close
  <1>2. Closes(str[e], t)
    BY <1>1, Here, ClosesFacts
  <1>3. Has(str[e])
    BY DEF Close, HasStream, Has
  <1> QED BY <1>1, <1>2, <1>3, ClosesKeeps DEF Close

LEMMA PeerClosePipes ==
  ASSUME WindowInv, WindowInv', PipeInv, NEW e \in Ends, PeerClose(e) PROVE Stepped
  <1> DEFINE t == IF inmap[e] THEN CloseOf(str[e]) ELSE str[e]
  <1>1. str' = [str EXCEPT ![e] = t]
    BY DEF PeerClose
  <1>2. Closes(str[e], t) /\ (Has(str[e]) \/ t = str[e])
    BY Here, ClosesFacts
  <1>3. \A f \in Ends : mux'[f] = "ATTACHED" => mux[f] = "ATTACHED"
    BY DEF PeerClose, WindowInv, Typed, Around
  <1> HIDE DEF t
  <1> QED BY <1>1, <1>2, <1>3, ClosesKeeps DEF PeerClose

LEMMA SocketClosedPipes ==
  ASSUME WindowInv, WindowInv', PipeInv, NEW e \in Ends, SocketClosed(e) PROVE Stepped
  <1> DEFINE t == IF inmap[e] THEN CloseOf(str[e]) ELSE str[e]
  <1>1. /\ str' = [str EXCEPT ![e] = t] /\ task' = [task EXCEPT ![e].pc = "drain"] /\ task[e].pc = Idle
    BY DEF SocketClosed
  <1>2. Closes(str[e], t) /\ (Has(str[e]) \/ t = str[e])
    BY Here, ClosesFacts
  <1>3. \A f \in Ends : mux'[f] = "ATTACHED" => mux[f] = "ATTACHED"
    BY DEF SocketClosed, WindowInv, Typed, Around
  <1> HIDE DEF t
  <1>4. task \in [Ends -> Tasks] /\ \A f \in Ends : task[f] \in Tasks
    BY DEF WindowInv, Typed, Around
  <1>5. task[e].msg = NoMsg
    BY <1>1, Here
  <1>6. \A f \in Ends : task'[f].msg = task[f].msg /\ (task'[f].pc = task[f].pc \/ f = e)
    BY <1>1, <1>4 DEF Tasks
  <1>7. task'[B].pc = task[B].pc \/ task[B].msg.type # "DATA"
    BY <1>5, <1>6, EndsFacts DEF NoMsg
  <1> QED BY <1>1, <1>2, <1>3, <1>6, <1>7, ClosesKeeps DEF SocketClosed

LEMMA DrainedPipes ==
  ASSUME WindowInv, WindowInv', PipeInv, NEW e \in Ends, Drained(e) PROVE Stepped
  <1>1. TaskDone(e) /\ task[e].pc = "drain" /\ str' = str /\ chan' = chan
    BY DEF Drained
  <1>2. task[e].msg = NoMsg
    BY <1>1, Here
  <1>3. \A f \in Ends : task'[f].msg = task[f].msg /\ (task'[f].pc = task[f].pc \/ f = e)
    BY <1>1, <1>2, PacketTaken
  <1>4. task'[B].pc = task[B].pc \/ task[B].msg.type # "DATA"
    BY <1>2, <1>3, EndsFacts DEF NoMsg
  <1> QED BY <1>1, <1>3, <1>4, SameKeeps DEF Drained

LEMMA StillPipes ==
  ASSUME WindowInv, WindowInv', PipeInv, UNCHANGED vars PROVE Stepped
  BY SameKeeps DEF vars

(* The channels to an end that is not connected are emptied. *)
LEMMA EmptiedKeeps ==
  ASSUME WindowInv, WindowInv', PipeInv,
         \A f \in Ends : chan'[f] = chan[f] \/ (chan'[f] = <<>> /\ ~conn'[f]),
         \A f \in Ends : conn'[f] => conn[f],
         UNCHANGED <<mux, inmap, str, outps, tick, task, told, sent, got>>
  PROVE  Stepped
  <1>1. A \in Ends /\ B \in Ends
    BY EndsFacts
  <1>2. StillA /\ StillB
    BY <1>1 DEF StillA, StillB
  <1>3. ToldInv' /\ (Accepting' => Accepting)
    BY <1>2, StillBFacts
  <1>4. /\ Flushes(str'[A], tick'[A]) /\ Goes' /\ (Live' => Live)
        /\ Plans(str'[A]) <=> Plans(str[A])
    BY <1>2, <1>3, StillAFacts
  <1>5. Elems(<<>>) = {} /\ Ordered(<<>>) /\ NoSyn(<<>>)
    BY DEF Elems, Ordered, NoSyn
  <1>6. \A f \in Ends : Carried(f)' = Elems(chan'[f]) \cup {task[f].msg}
    BY CarriedIs DEF Carried, Elems
  <1>7. \A f \in Ends : Carried(f)' \subseteq Carried(f)
    BY <1>5, <1>6, CarriedIs
  <1>8. Packets'
    BY <1>1, <1>3, <1>4, <1>7, PacketStep
  <1>9. Ordered(chan[B]) /\ (task[B].msg.type = "DATA" => NoSyn(chan[B]))
    BY DEF PipeInv, Order
  <1>10. Accepting' => chan'[B] = chan[B]
    BY <1>1 DEF Accepting
  <1>11. Accepting' => Carried(B)' = Carried(B)
    BY <1>1, <1>6, <1>10, CarriedIs
  <1>12. Order'
    BY <1>1, <1>3, <1>4, <1>5, <1>9, <1>11, OrderStep
  <1>13. InHand' = InHand \/ (InHand' = <<>> /\ ~Accepting')
    BY <1>1, HandKept
  <1>14. (Accepting' => InFlight(B)' = InFlight(B)) /\ Ready' = Ready
    BY <1>10 DEF InFlight, Ready
  <1>15. PipeSteps /\ Hearing
    BY <1>3, <1>4, <1>13, <1>14, QuietMaps
  <1> QED BY <1>3, <1>4, <1>8, <1>12, <1>15 DEF Stepped, PipeInv

LEMMA PeerCloseEndsPipes ==
  ASSUME WindowInv, WindowInv', PipeInv, NEW e \in Ends, PeerCloseEnds(e) PROVE Stepped
  <1>1. conn \in [Ends -> BOOLEAN] /\ chan \in [Ends -> Seq(Msgs)]
    BY DEF WindowInv, Typed, Around
  <1>2. /\ \A f \in Ends : chan'[f] = chan[f] \/ (chan'[f] = <<>> /\ ~conn'[f])
        /\ \A f \in Ends : conn'[f] => conn[f]
    BY <1>1 DEF PeerCloseEnds
  <1> QED BY <1>2, EmptiedKeeps DEF PeerCloseEnds

LEMMA DisconnectPipes ==
  ASSUME WindowInv, WindowInv', PipeInv, Disconnect PROVE Stepped
  <1>1. /\ \A f \in Ends : chan'[f] = chan[f] \/ (chan'[f] = <<>> /\ ~conn'[f])
        /\ \A f \in Ends : conn'[f] => conn[f]
    BY DEF Disconnect
  <1> QED BY <1>1, EmptiedKeeps DEF Disconnect

LEMMA OpenPipes ==
  ASSUME WindowInv, WindowInv', PipeInv, Open PROVE Stepped
  <1> DEFINE t == [NewStream EXCEPT !.st = "ESTABLISHED", !.flag = {"PLAN_SYN"}]
  <1>1. /\ A \in Ends /\ B \in Ends /\ A # B
        /\ str \in [Ends -> Streams] /\ inmap \in [Ends -> BOOLEAN]
    BY EndsFacts DEF WindowInv, Typed, Around
  <1>2. ~Has(str[A]) /\ tick[A].pc = Idle
    BY DEF Open, HasStream, Has, MutexFree
  <1>3. str[A] = NewStream
    BY <1>1, <1>2, Here DEF Local
  <1>4. str' = [str EXCEPT ![A] = t] /\ inmap' = [inmap EXCEPT ![A] = TRUE]
        /\ UNCHANGED <<mux, conn, outps, chan, tick, task, told, sent, got>>
    BY DEF Open
  <1>5. Has(t) /\ t.flag = {"PLAN_SYN"} /\ t.wb = <<>> /\ t.st = "ESTABLISHED" /\ t.incre = 0
    BY NewStreamFacts DEF Has, NewStream
  <1> HIDE DEF t
  <1>6. str'[A] = t /\ str'[B] = str[B] /\ inmap'[B] = inmap[B]
    BY <1>1, <1>4
  <1>7. str[A].wb = <<>> /\ str[A].flag = {}
    BY <1>3 DEF NewStream
  <1>8. Accepting' <=> Accepting
    BY <1>4, <1>6 DEF Accepting
  <1>9. Sending' <=> Sending
    <2>1. Sending <=> conn[A]
      BY <1>2, <1>7 DEF Sending, HasStream, Has
    <2>2. Sending' <=> conn[A]
      BY <1>4, <1>5, <1>6 DEF Sending, HasStream
    <2> QED BY <2>1, <2>2
  <1>10. Live' <=> Live
    BY <1>8, <1>9 DEF Live
  <1>11. ToldInv'
    <2>1. ~told[A]
      BY <1>1, <1>7 DEF PipeInv, ToldInv, Deaf
    <2> QED BY <1>1, <1>4, <1>6, <2>1, EndsFacts DEF PipeInv, ToldInv, Deaf
  <1>12. Flushes(str'[A], tick'[A]) /\ Goes'
    BY <1>2, <1>4, <1>5, <1>6 DEF Flushes, Goes, Early, Late, Idle
  <1>13. Plans(str'[A]) <=> Plans(str[A])
    BY <1>2, <1>5, <1>6 DEF Plans
  <1>14. Packets' /\ Order'
    BY <1>1, <1>4, <1>6, <1>8, <1>10, <1>13, NoTraffic
  <1>15. InHand' = InHand \/ (InHand' = <<>> /\ ~Accepting')
    BY <1>4, <1>6, HandKept
  <1>16. InFlight(B)' = InFlight(B) /\ Ready' = Ready
    BY <1>4, <1>6 DEF InFlight, Ready
  <1>17. PipeSteps /\ Hearing
    BY <1>4, <1>5, <1>6, <1>7, <1>8, <1>10, <1>15, <1>16, QuietMaps
  <1> QED BY <1>11, <1>12, <1>14, <1>17 DEF Stepped, PipeInv

(* For the provers, the operators on sequences under names of their own. *)
Cat(s, t) == s \o t
Took(s, n) == SubSeq(s, 1, n)
Rest(s, n) == SubSeq(s, n + 1, Len(s))
Span(s) == 1..Len(s)

LEMMA JoinedMore ==
  ASSUME NEW a \in Seq(Nat), NEW b \in Seq(Nat), NEW c \in Seq(Nat), NEW d \in Seq(Nat), NEW x \in Seq(Nat)
  PROVE  Joined(a, b, c, Cat(d, x)) = Cat(Joined(a, b, c, d), x)
  <1> DEFINE s == (a \o b) \o c
  <1>1. s \in Seq(Nat)
    BY ConcatFacts
  <1> HIDE DEF s
  <1>2. (s \o d) \o x = s \o (d \o x)
    BY <1>1, ConcatAssoc
  <1> QED BY <1>2 DEF Joined, s, Cat

LEMMA JoinedTake ==
  ASSUME NEW a \in Seq(Nat), NEW b \in Seq(Nat), NEW c \in Seq(Nat), NEW d \in Seq(Nat), NEW n \in 1..Len(a)
  PROVE  /\ n \in Span(Joined(a, b, c, d))
         /\ Took(Joined(a, b, c, d), n) = Took(a, n)
         /\ Rest(Joined(a, b, c, d), n) = Joined(Rest(a, n), b, c, d)
  <1> DEFINE r == SubSeq(a, n + 1, Len(a))
             s == a \o b
             t == s \o c
             s1 == r \o b
             t1 == s1 \o c
             w == t \o d
  <1>0. Joined(a, b, c, d) = w /\ Joined(r, b, c, d) = t1 \o d
    BY DEF Joined
  <1>1. s \in Seq(Nat) /\ t \in Seq(Nat)
    BY ConcatFacts
  <1>2. /\ SubSeq(s, 1, n) = SubSeq(a, 1, n) /\ SubSeq(s, n + 1, Len(s)) = s1
        /\ n \in 1..Len(s)
    BY TakeIs
  <1> HIDE DEF r, s, s1
  <1>3. /\ SubSeq(t, 1, n) = SubSeq(s, 1, n) /\ SubSeq(t, n + 1, Len(t)) = SubSeq(s, n + 1, Len(s)) \o c
        /\ n \in 1..Len(t)
    BY <1>1, <1>2, TakeIs
  <1> HIDE DEF t
  <1>4. /\ SubSeq(w, 1, n) = SubSeq(t, 1, n) /\ SubSeq(w, n + 1, Len(w)) = SubSeq(t, n + 1, Len(t)) \o d
        /\ n \in 1..Len(w)
    BY <1>1, <1>3, TakeIs
  <1>5. SubSeq(t, n + 1, Len(t)) = t1
    BY <1>2, <1>3
  <1> HIDE DEF w, t1
  <1>6. /\ n \in 1..Len(w) /\ SubSeq(w, 1, n) = SubSeq(a, 1, n) /\ SubSeq(w, n + 1, Len(w)) = t1 \o d
    BY <1>2, <1>3, <1>4, <1>5
  <1> QED BY <1>0, <1>6 DEF r, Took, Rest, Span

LEMMA WritePipes ==
  ASSUME WindowInv, WindowInv', PipeInv, Write PROVE Stepped
  <1> DEFINE s == str[A]
             x == [i \in 1..writing |-> sent + i]
  <1>1. /\ writing > 0 /\ UNCHANGED <<mux, conn, inmap, outps, chan, tick, task, closing, told, got>>
    BY DEF Write
  <1>2. /\ A \in Ends /\ B \in Ends /\ A # B /\ str \in [Ends -> Streams] /\ s \in Streams
        /\ s.wb \in Seq(Nat) /\ sent \in Nat /\ writing \in Nat /\ writing <= MaxCall
    BY EndsFacts DEF WindowInv, Typed, Around, Streams, Limits
  <1>3. writing \in 1..MaxCall
    BY <1>1, <1>2, ConstFacts
  <1>4. ASSUME NEW t, str' = [str EXCEPT ![A] = t], t.st = s.st, t.flag = s.flag, t.incre = s.incre
        PROVE  StillA /\ StillB /\ str'[B] = str[B] /\ str'[A] = t
    <2>1. str'[A] = t /\ str'[B] = str[B]
      BY <1>2, <1>4
    <2> QED BY <1>1, <1>2, <1>4, <2>1, EndsFacts DEF StillA, StillB, Has
  <1>5. CASE str' = [str EXCEPT ![A].blocked = TRUE] /\ UNCHANGED sent
    <2> DEFINE t == [s EXCEPT !.blocked = TRUE]
    <2>1. /\ str' = [str EXCEPT ![A] = t] /\ t.st = s.st /\ t.flag = s.flag /\ t.incre = s.incre
          /\ t.wb = s.wb
      BY <1>2, <1>5 DEF Streams
    <2> HIDE DEF t
    <2>2. StillA /\ StillB /\ str'[B] = str[B] /\ str'[A] = t
      BY <1>4, <2>1
    <2> QED BY <1>1, <1>5, <2>1, <2>2, QuietKeeps
  <1>6. CASE str' = [str EXCEPT ![A].wb = @ \o x] /\ sent' = sent + writing
    <2> DEFINE t == [s EXCEPT !.wb = @ \o x]
    <2>1. /\ str' = [str EXCEPT ![A] = t] /\ t.st = s.st /\ t.flag = s.flag /\ t.incre = s.incre
          /\ t.wb = s.wb \o x
      BY <1>2, <1>6 DEF Streams
    <2>2. x \in Seq(Nat)
      BY <1>2
    <2> HIDE DEF t, x
    <2>3. StillA /\ StillB /\ str'[B] = str[B] /\ str'[A] = t
      BY <1>4, <2>1
    <2>4. ToldInv' /\ (Accepting' => Accepting)
      BY <2>3, StillBFacts
    <2>5. /\ Flushes(str'[A], tick'[A]) /\ Goes' /\ (Live' => Live)
          /\ Plans(str'[A]) <=> Plans(str[A])
      BY <2>3, <2>4, StillAFacts
    <2>6. Packets' /\ Order'
      BY <1>1, <2>4, <2>5, NoTraffic
    <2>7. Accepting' <=> Accepting
      BY <1>1, <2>3 DEF Accepting
    <2>8. Live' <=> Live
      <3>1. Sending' <=> Sending
        BY <1>1, <2>1, <2>3 DEF Sending, HasStream
      <3> QED BY <2>7, <3>1 DEF Live
    <2>9. Ready' = Ready /\ InHand' = InHand /\ Coming' = Coming
      BY <1>1, <2>3, <2>7 DEF Ready, InHand, Coming, InFlight, Applying
    <2>10. /\ Ready \in Seq(Nat) /\ InHand \in Seq(Nat) /\ Coming \in Seq(Nat) /\ Backlog \in Seq(Nat)
      BY PartsType DEF Parts
    <2>11. ~Live => Whole' = Whole
      <3> SUFFICES ASSUME ~Live PROVE Whole' = Whole
        OBVIOUS
      <3>1. Backlog = <<>> /\ Backlog' = <<>>
        BY <2>8 DEF Backlog, Live
      <3> QED BY <2>9, <3>1 DEF Whole
    <2>12. Live => Whole' = Whole \o x
      <3> SUFFICES ASSUME Live PROVE Whole' = Whole \o x
        OBVIOUS
      <3>1. Backlog = s.wb /\ Backlog' = s.wb \o x
        BY <2>1, <2>3, <2>8 DEF Backlog, Live
      <3>2. Joined(Ready, InHand, Coming, Cat(Backlog, x)) = Cat(Joined(Ready, InHand, Coming, Backlog), x)
        BY <2>2, <2>10, JoinedMore
      <3>3. Whole' = Joined(Ready, InHand, Coming, Cat(Backlog, x))
        BY <2>9, <3>1 DEF Whole, Cat
      <3> QED BY <3>2, <3>3 DEF Whole, Cat
    <2>13. PipeSteps
      BY <1>1, <1>3, <1>6, <2>8, <2>11, <2>12, Puts DEF x
    <2> QED BY <2>4, <2>5, <2>6, <2>9, <2>13 DEF Stepped, PipeInv, Hearing
  <1> QED BY <1>5, <1>6 DEF Write

LEMMA ReadPipes ==
  ASSUME WindowInv, WindowInv', PipeInv, Read PROVE Stepped
  <1> DEFINE s == str[B]
  <1>1. UNCHANGED <<mux, conn, inmap, outps, chan, tick, task, closing, told, sent>>
    BY DEF Read
  <1>2. /\ A \in Ends /\ B \in Ends /\ A # B /\ str \in [Ends -> Streams] /\ s \in Streams
        /\ s.rb \in Seq(Nat)
    BY EndsFacts DEF WindowInv, Typed, Around, Streams
  <1>3. PICK n \in 1..Len(s.rb) :
          /\ str' = [str EXCEPT ![B].rb = SubSeq(@, n + 1, Len(@)), ![B].incre = @ + n]
          /\ got' = got \o SubSeq(s.rb, 1, n)
    BY DEF Read
  <1> DEFINE b == SubSeq(s.rb, n + 1, Len(s.rb))
             o == s.incre + n
             t == [s EXCEPT !.rb = b, !.incre = o]
  <1>4. str' = [str EXCEPT ![B] = t]
    BY <1>3
  <1> HIDE DEF o, b
  <1>5. t.flag = s.flag /\ t.st = s.st /\ t.rb = b
    BY <1>2 DEF Streams
  <1> HIDE DEF t
  <1>6. str'[B] = t /\ str'[A] = str[A]
    BY <1>2, <1>4
  <1>7. StillA /\ StillB
    BY <1>1, <1>2, <1>5, <1>6, EndsFacts DEF StillA, StillB
  <1>8. ToldInv' /\ (Accepting' => Accepting)
    BY <1>7, StillBFacts
  <1>9. /\ Flushes(str'[A], tick'[A]) /\ Goes' /\ (Live' => Live)
        /\ Plans(str'[A]) <=> Plans(str[A])
    BY <1>7, <1>8, StillAFacts
  <1>10. Packets' /\ Order'
    BY <1>1, <1>8, <1>9, NoTraffic
  <1>11. (Accepting' <=> Accepting) /\ (Applying' <=> Applying) /\ (Sending' <=> Sending)
    BY <1>1, <1>5, <1>6 DEF Accepting, Applying, Sending, HasStream
  <1>12. InHand' = InHand /\ Coming' = Coming /\ Backlog' = Backlog
    BY <1>1, <1>6, <1>11 DEF InHand, Coming, InFlight, Backlog
  <1>13. /\ Ready \in Seq(Nat) /\ InHand \in Seq(Nat) /\ Coming \in Seq(Nat) /\ Backlog \in Seq(Nat)
    BY PartsType DEF Parts
  <1>14. n \in 1..Len(Ready) /\ Ready = s.rb
    BY <1>3 DEF Ready
  <1>15. /\ n \in 1..Len(Whole) /\ SubSeq(Whole, 1, n) = SubSeq(Ready, 1, n)
         /\ SubSeq(Whole, n + 1, Len(Whole)) = Joined(SubSeq(Ready, n + 1, Len(Ready)), InHand, Coming, Backlog)
    <2>1. /\ n \in Span(Whole) /\ Took(Whole, n) = Took(Ready, n)
          /\ Rest(Whole, n) = Joined(Rest(Ready, n), InHand, Coming, Backlog)
      BY <1>13, <1>14, JoinedTake DEF Whole
    <2> QED BY <2>1 DEF Span, Took, Rest
  <1>16. Ready' = SubSeq(Ready, n + 1, Len(Ready))
    BY <1>5, <1>6 DEF Ready, b
  <1>17. Whole' = SubSeq(Whole, n + 1, Len(Whole))
    BY <1>12, <1>15, <1>16 DEF Whole
  <1>18. got' = got \o SubSeq(Whole, 1, n)
    BY <1>3, <1>14, <1>15
  <1>19. Live' <=> Live
    BY <1>11 DEF Live
  <1>20. PipeSteps
    BY <1>1, <1>15, <1>17, <1>18, <1>19, Takes
  <1>21. Len(Ready') <= Len(Ready)
    <2>1. n \in 0..Len(Ready) /\ Len(Ready) \in Nat
      BY <1>13, <1>14
    <2>2. Len(SubSeq(Ready, n + 1, Len(Ready))) = Len(Ready) - n
      BY <1>13, <2>1, SubSeqFacts
    <2> QED BY <1>16, <2>1, <2>2
  <1> QED BY <1>8, <1>9, <1>10, <1>20, <1>21 DEF Stepped, PipeInv, Hearing

(* The ticker of B: it moves no byte of the pipe, and sends no RST. *)
LEMMA ReaderKeeps ==
  ASSUME WindowInv, WindowInv', PipeInv, NEW t, str' = [str EXCEPT ![B] = t], t.rb = str[B].rb,
         "READ_SHUTDOWN" \in str[B].flag => "READ_SHUTDOWN" \in t.flag,
         tick'[A] = tick[A], UNCHANGED <<mux, conn, inmap, outps, task, told, sent, got>>,
         chan' = chan \/ \E m \in Msgs : m.type # "RST" /\ SendTo(B, m)
  PROVE  Stepped
  <1>1. A \in Ends /\ B \in Ends /\ A # B /\ Other(B) = A /\ str \in [Ends -> Streams] /\ chan \in [Ends -> Seq(Msgs)]
    BY EndsFacts DEF WindowInv, Typed, Around
  <1>2. str'[A] = str[A] /\ str'[B] = t
    BY <1>1
  <1>3. chan'[B] = chan[B] /\ \A m \in Elems(chan'[A]) : m \in Elems(chan[A]) \/ m.type # "RST"
    <2>1. CASE chan' = chan
      BY <2>1
    <2>2. ASSUME NEW m \in Msgs, m.type # "RST", SendTo(B, m)
          PROVE  chan'[B] = chan[B] /\ \A x \in Elems(chan'[A]) : x \in Elems(chan[A]) \/ x.type # "RST"
      <3>1. chan'[A] = Append(chan[A], m) /\ chan'[B] = chan[B] /\ chan[A] \in Seq(Msgs)
        BY <1>1, <2>2 DEF SendTo
      <3>2. Elems(chan'[A]) = Elems(chan[A]) \cup {m}
        BY <3>1, AppendElems
      <3> QED BY <2>2, <3>1, <3>2
    <2> QED BY <2>1, <2>2
  <1>4. StillA /\ StillB
    BY <1>1, <1>2, EndsFacts DEF StillA, StillB
  <1>5. ToldInv' /\ (Accepting' => Accepting)
    BY <1>4, StillBFacts
  <1>6. /\ Flushes(str'[A], tick'[A]) /\ Goes' /\ (Live' => Live)
        /\ Plans(str'[A]) <=> Plans(str[A])
    BY <1>4, <1>5, StillAFacts
  <1>7. \A f \in Ends : Carried(f)' = Elems(chan'[f]) \cup {task[f].msg}
    BY DEF Carried, Elems
  <1>8. Carried(B)' = Carried(B) /\ \A m \in Carried(A)' : m \in Carried(A) \/ m.type # "RST"
    BY <1>1, <1>3, <1>7, CarriedIs
  <1>9. Packets'
    BY <1>1, <1>5, <1>6, <1>8, PacketStep
  <1>10. Ordered(chan[B]) /\ (task[B].msg.type = "DATA" => NoSyn(chan[B]))
    BY DEF PipeInv, Order
  <1>11. Order'
    BY <1>1, <1>3, <1>5, <1>6, <1>8, <1>10, OrderStep
  <1>12. InHand' = InHand \/ (InHand' = <<>> /\ ~Accepting')
    BY <1>1, <1>2, HandKept
  <1>13. InFlight(B)' = InFlight(B) /\ Ready' = Ready
    BY <1>2, <1>3 DEF InFlight, Ready
  <1>14. PipeSteps /\ Hearing
    BY <1>2, <1>5, <1>6, <1>12, <1>13, QuietMaps
  <1> QED BY <1>5, <1>6, <1>9, <1>11, <1>14 DEF Stepped, PipeInv

LEMMA ReaderTicks ==
  ASSUME WindowInv, WindowInv', PipeInv, TickWnd(B) \/ TickCheck(B) \/ TickFin(B) PROVE Stepped
  <1> DEFINE s == str[B]
  <1>1. /\ A \in Ends /\ B \in Ends /\ A # B /\ s \in Streams /\ str = [str EXCEPT ![B] = s]
        /\ s.incre \in Nat /\ tick \in [Ends -> Tickers]
    BY EndsFacts, Here DEF Streams, WindowInv, Typed, Around
  <1>2. \A pc : Goto(B, pc) => tick'[A] = tick[A]
    BY <1>1 DEF Goto
  <1>3. UNCHANGED <<mux, conn, inmap, outps, task, told, sent, got>>
    BY DEF TickWnd, TickCheck, TickFin
  <1>4. ASSUME SendFailed(B) PROVE Stepped
    <2> DEFINE t == IF Result(B) = "error" THEN ForceClose(s) ELSE s
    <2>1. str' = [str EXCEPT ![B] = t] /\ chan' = chan /\ tick'[A] = tick[A]
      BY <1>1, <1>2, <1>4 DEF SendFailed
    <2>2. t.rb = s.rb /\ ("READ_SHUTDOWN" \in s.flag => "READ_SHUTDOWN" \in t.flag)
      BY <1>1 DEF ForceClose, Streams
    <2> HIDE DEF t
    <2> QED BY <1>3, <2>1, <2>2, ReaderKeeps
  <1>5. CASE TickWnd(B)
    <2>1. CASE Goto(B, "chk") /\ UNCHANGED <<str, chan>>
      BY <1>1, <1>2, <1>3, <2>1, ReaderKeeps
    <2>2. CASE /\ SendTo(B, [type |-> "UWND", n |-> s.incre])
               /\ str' = [str EXCEPT ![B].incre = 0] /\ Goto(B, "chk")
      <3> DEFINE t == [s EXCEPT !.incre = 0]
                 m == [type |-> "UWND", n |-> s.incre]
      <3>1. m \in Msgs /\ m.type # "RST" /\ SendTo(B, m)
        BY <1>1, <2>2, MsgMade
      <3>2. str' = [str EXCEPT ![B] = t] /\ t.rb = s.rb /\ t.flag = s.flag
        BY <1>1, <2>2 DEF Streams
      <3> HIDE DEF t, m
      <3> QED BY <1>2, <1>3, <2>2, <3>1, <3>2, ReaderKeeps
    <2> QED BY <1>4, <1>5, <2>1, <2>2 DEF TickWnd
  <1>6. CASE TickCheck(B)
    <2> DEFINE t == [s EXCEPT !.st = "CLOSED"]
    <2>1. \E pc : Goto(B, pc)
      BY <1>6 DEF TickCheck
    <2>2. (str' = str \/ str' = [str EXCEPT ![B] = t]) /\ chan' = chan
      BY <1>6 DEF TickCheck
    <2>3. t.rb = s.rb /\ t.flag = s.flag
      BY <1>1 DEF Streams
    <2> HIDE DEF t
    <2> QED BY <1>1, <1>2, <1>3, <2>1, <2>2, <2>3, ReaderKeeps
  <1>7. CASE TickFin(B)
    <2>1. CASE Goto(B, Idle) /\ UNCHANGED <<str, chan>>
      BY <1>1, <1>2, <1>3, <2>1, ReaderKeeps
    <2>2. CASE /\ SendTo(B, [type |-> "FIN"])
               /\ str' = [str EXCEPT ![B].flag = (@ \ {"PLAN_FIN"}) \cup {"WRITE_SHUTDOWN"}]
               /\ Goto(B, Idle)
      <3> DEFINE t == [s EXCEPT !.flag = (s.flag \ {"PLAN_FIN"}) \cup {"WRITE_SHUTDOWN"}]
                 m == [type |-> "FIN"]
      <3>1. m \in Msgs /\ m.type # "RST" /\ SendTo(B, m)
        BY <2>2, MsgMade
      <3>2. str' = [str EXCEPT ![B] = t] /\ t.rb = s.rb
            /\ ("READ_SHUTDOWN" \in s.flag => "READ_SHUTDOWN" \in t.flag)
        BY <1>1, <2>2 DEF Streams
      <3> HIDE DEF t, m
      <3> QED BY <1>2, <1>3, <2>2, <3>1, <3>2, ReaderKeeps
    <2> QED BY <1>4, <1>7, <2>1, <2>2 DEF TickFin
  <1> QED BY <1>5, <1>6, <1>7

(* The ticker of A. *)
Sends(s) == s.st = "ESTABLISHED" /\ "WRITE_SHUTDOWN" \notin s.flag

(* What the invariant says of a state and of the next. *)
Known ==
    /\ inmap[A] => Has(str[A]) /\ (Sending <=> conn[A] /\ Sends(str[A]))
    /\ InFlight(B) = Flow("data", chan[B])
LEMMA KnownIs == WindowInv => Known
  <1> SUFFICES ASSUME WindowInv PROVE Known
    OBVIOUS
  <1>1. inmap[A] => Has(str[A])
    BY EndsFacts, Here
  <1>2. inmap[A] => (Sending <=> conn[A] /\ Sends(str[A]))
    BY <1>1 DEF Sending, HasStream, Sends, Has
  <1>3. InFlight(B) = Flow("data", chan[B])
    BY EndsFacts, InFlightIs DEF WindowInv
  <1> QED BY <1>1, <1>2, <1>3 DEF Known

(* A packet of A joins the channel. *)
LEMMA WriterSends ==
  ASSUME WindowInv, PipeInv, NEW m \in Msgs, SendTo(A, m), m.type # "UWND",
         m.type = "FIN" => ~Live', m.type = "DATA" => ~Plans(str'[A]),
         Plans(str'[A]) => Plans(str[A]), Plans(str[A]) => Plans(str'[A]) \/ m.type = "SYN",
         m.type = "SYN" => Plans(str[A]),
         UNCHANGED <<task, inmap, outps>>, Accepting' => Accepting, Live' => Live
  PROVE  Packets' /\ Order'
  <1>1. A \in Ends /\ B \in Ends /\ A # B /\ Other(A) = B /\ chan \in [Ends -> Seq(Msgs)]
    BY EndsFacts DEF WindowInv, Typed, Around
  <1>2. chan'[B] = Append(chan[B], m) /\ chan'[A] = chan[A] /\ chan[B] \in Seq(Msgs)
    BY <1>1 DEF SendTo
  <1>3. /\ Elems(Append(chan[B], m)) = Elems(chan[B]) \cup {m}
        /\ m.type # "SYN" => /\ Ordered(chan[B]) => Ordered(Append(chan[B], m))
                             /\ NoSyn(chan[B]) => NoSyn(Append(chan[B], m))
        /\ (\A d \in Elems(chan[B]) : d.type # "DATA") => Ordered(Append(chan[B], m))
    BY <1>2, AppendElems
  <1>4. \A f \in Ends : Carried(f)' = Elems(chan'[f]) \cup {task[f].msg}
    BY DEF Carried, Elems
  <1>5. Carried(B)' = Carried(B) \cup {m} /\ Carried(A)' = Carried(A)
    BY <1>1, <1>2, <1>3, <1>4, CarriedIs
  <1>6. Proper(m)'
    BY DEF Proper
  <1>7. Packets'
    BY <1>5, <1>6, PacketStep
  <1>8. \A d \in Carried(B) : m.type = "SYN" => d.type # "DATA"
    BY DEF PipeInv, Packets, Proper
  <1>9. Ordered(chan[B]) /\ (task[B].msg.type = "DATA" => NoSyn(chan[B]))
    BY DEF PipeInv, Order
  <1>10. Ordered(chan'[B])
    BY <1>2, <1>3, <1>8, <1>9, CarriedIs
  <1>11. task'[B].msg.type = "DATA" => NoSyn(chan'[B])
    <2>1. task[B].msg \in Carried(B)
      BY CarriedIs
    <2> QED BY <1>2, <1>3, <1>8, <1>9, <2>1
  <1>12. ~Plans(str'[A]) /\ Accepting' => inmap'[B] \/ \E d \in Carried(B)' : d.type = "SYN"
    <2>1. CASE m.type = "SYN"
      BY <1>5, <2>1
    <2>2. CASE m.type # "SYN"
      BY <1>5, <2>2 DEF PipeInv, Order
    <2> QED BY <2>1, <2>2
  <1> QED BY <1>7, <1>10, <1>11, <1>12 DEF Order

WriterStep(t) ==
    /\ tick[A].pc # Idle /\ str' = [str EXCEPT ![A] = t]
    /\ UNCHANGED <<mux, conn, inmap, outps, task, told, sent, got>>
    /\ Flushes(t, tick'[A])
    /\ tick'[A].pc \in Late /\ Accepting /\ conn[A] =>
         Sends(t) /\ (tick'[A].pc = "resize" => "WRITE_SHUTDOWN" \notin tick'[A].seen)
    /\ Accepting /\ conn[A] /\ Sends(t) => Sends(str[A])

LEMMA WriterFacts ==
  ASSUME WindowInv, WindowInv', PipeInv, NEW t, WriterStep(t)
  PROVE  /\ str'[A] = t /\ str'[B] = str[B] /\ Has(str[A]) /\ Has(t)
         /\ ToldInv' /\ Flushes(str'[A], tick'[A]) /\ Goes'
         /\ Accepting' <=> Accepting
         /\ Live <=> Accepting /\ conn[A] /\ Sends(str[A])
         /\ Live' <=> Accepting /\ conn[A] /\ Sends(t)
         /\ Live' => Live
         /\ Ready' = Ready /\ InHand' = InHand
  <1>1. A \in Ends /\ B \in Ends /\ A # B /\ str \in [Ends -> Streams]
    BY EndsFacts DEF WindowInv, Typed
  <1>2. str'[A] = t /\ str'[B] = str[B]
    BY <1>1 DEF WriterStep
  <1>3. inmap[A] /\ inmap' = inmap /\ Has(str[A])
    BY <1>1, Here DEF WriterStep
  <1>4. Known /\ Known'
    BY KnownIs, PTL
  <1>5. (Sending <=> conn[A] /\ Sends(str[A])) /\ (Sending' <=> conn[A] /\ Sends(t))
    BY <1>2, <1>3, <1>4 DEF Known, WriterStep
  <1>6. Accepting' <=> Accepting
    BY <1>2 DEF Accepting, WriterStep
  <1>7. Has(t)
    BY <1>2, <1>3, <1>4 DEF Known
  <1>8. ToldInv'
    <2>1. ~told[A]
      BY <1>1, <1>3 DEF PipeInv, ToldInv, Deaf
    <2> QED BY <1>1, <1>2, <1>3, <2>1, EndsFacts DEF PipeInv, ToldInv, WriterStep
  <1>9. Goes'
    BY <1>2, <1>5, <1>6 DEF Goes, WriterStep
  <1>10. /\ Live <=> Accepting /\ conn[A] /\ Sends(str[A])
         /\ Live' <=> Accepting /\ conn[A] /\ Sends(t)
    BY <1>5, <1>6 DEF Live
  <1>11. Ready' = Ready /\ InHand' = InHand
    BY <1>2, <1>3 DEF Ready, InHand, Applying, WriterStep
  <1>12. Flushes(str'[A], tick'[A])
    BY <1>2 DEF WriterStep
  <1>13. Live' => Live
    BY <1>10 DEF WriterStep
  <1> QED BY <1>2, <1>3, <1>6, <1>7, <1>8, <1>9, <1>10, <1>11, <1>12, <1>13

LEMMA WriterKeeps ==
  ASSUME WindowInv, WindowInv', PipeInv, NEW t, WriterStep(t), Packets', Order',
         Flow("data", chan'[B]) = Flow("data", chan[B]), t.wb = str[A].wb
  PROVE  Stepped
  <1>1. /\ str'[A] = t /\ ToldInv' /\ Flushes(str'[A], tick'[A]) /\ Goes'
        /\ Accepting' <=> Accepting
        /\ Live' => Live
        /\ Ready' = Ready /\ InHand' = InHand
    BY WriterFacts
  <1>2. InFlight(B)' = InFlight(B)
    <2>1. Known /\ Known'
      BY KnownIs, PTL
    <2> QED BY <2>1 DEF Known
  <1>3. PipeSteps
    BY <1>1, <1>2, QuietMaps DEF WriterStep
  <1> QED BY <1>1, <1>3 DEF Stepped, PipeInv, Hearing

LEMMA WriterIdles ==
  ASSUME WindowInv, WindowInv', PipeInv, NEW t, WriterStep(t), chan' = chan,
         Plans(t) <=> Plans(str[A]), t.wb = str[A].wb
  PROVE  Stepped
  <1>1. str'[A] = t /\ (Accepting' => Accepting) /\ (Live' => Live)
    BY WriterFacts
  <1>2. task' = task /\ outps' = outps /\ inmap' = inmap
    BY DEF WriterStep
  <1>3. Packets' /\ Order'
    BY <1>1, <1>2, NoTraffic
  <1> QED BY <1>3, WriterKeeps

LEMMA ForceCloseFacts ==
  ASSUME NEW s \in Streams
  PROVE  LET t == ForceClose(s)
         IN  /\ t.wb = s.wb /\ t.rb = s.rb /\ t.incre = s.incre /\ t.st = "CLOSED" /\ ~Sends(t)
             /\ s.flag \subseteq t.flag /\ Has(t) /\ "READ_SHUTDOWN" \in t.flag
             /\ "PLAN_SYN" \in t.flag <=> "PLAN_SYN" \in s.flag
  <1> DEFINE t == ForceClose(s)
  <1>1. /\ t.wb = s.wb /\ t.rb = s.rb /\ t.incre = s.incre /\ t.st = "CLOSED"
        /\ t.flag = s.flag \cup BothShut \cup {"READ_SHUTDOWN_CALLED", "WRITE_SHUTDOWN_CALLED"}
    BY DEF ForceClose, Streams
  <1> HIDE DEF t
  <1>2. /\ ~Sends(t) /\ s.flag \subseteq t.flag /\ Has(t) /\ "READ_SHUTDOWN" \in t.flag
        /\ "PLAN_SYN" \in t.flag <=> "PLAN_SYN" \in s.flag
    BY <1>1 DEF Sends, Has, BothShut
  <1> QED BY <1>1, <1>2 DEF t

(* Where the ticker of A is. *)
LEMMA WriterHere ==
  ASSUME WindowInv, PipeInv, tick[A].pc # Idle
  PROVE  /\ A \in Ends /\ str[A] \in Streams /\ str = [str EXCEPT ![A] = str[A]] /\ Has(str[A])
         /\ tick \in [Ends -> Tickers] /\ tick[A] \in Tickers
         /\ Flushes(str[A], tick[A]) /\ str[A].incre = 0
         /\ tick[A].pc \in Late /\ Accepting /\ conn[A] =>
              Sends(str[A]) /\ (tick[A].pc = "resize" => "WRITE_SHUTDOWN" \notin tick[A].seen)
         /\ \A pc \in Steps : Goto(A, pc) => tick'[A].pc = pc
  <1>1. A \in Ends /\ str[A] \in Streams /\ str = [str EXCEPT ![A] = str[A]] /\ Has(str[A]) /\ inmap[A]
    BY EndsFacts, Here
  <1>2. tick \in [Ends -> Tickers] /\ tick[A] \in Tickers
    BY <1>1 DEF WindowInv, Typed, Around
  <1>3. Flushes(str[A], tick[A]) /\ str[A].incre = 0 /\ Goes
    BY DEF PipeInv, Flushes
  <1>4. Sending <=> conn[A] /\ Sends(str[A])
    BY <1>1, KnownIs DEF Known
  <1>5. \A pc \in Steps : Goto(A, pc) => tick'[A].pc = pc
    BY <1>1, GotoStep
  <1> QED BY <1>1, <1>2, <1>3, <1>4, <1>5 DEF Goes

LEMMA WriterFails ==
  ASSUME WindowInv, WindowInv', PipeInv, tick[A].pc # Idle, SendFailed(A),
         UNCHANGED <<mux, conn, inmap, outps, task, told, sent, got>>
  PROVE  Stepped
  <1> DEFINE s == str[A]
             t == IF Result(A) = "error" THEN ForceClose(s) ELSE s
  <1>1. /\ s \in Streams /\ str = [str EXCEPT ![A] = s] /\ Has(s) /\ s.incre = 0
        /\ Goto(A, Idle) => tick'[A].pc = Idle
    BY WriterHere DEF Steps
  <1>2. str' = [str EXCEPT ![A] = t] /\ chan' = chan /\ tick'[A].pc = Idle
    BY <1>1 DEF SendFailed
  <1>3. /\ t.wb = s.wb /\ t.incre = 0 /\ Has(t) /\ (Sends(t) => Sends(s))
        /\ "PLAN_SYN" \in t.flag <=> "PLAN_SYN" \in s.flag
    BY <1>1, ForceCloseFacts
  <1> HIDE DEF t
  <1>4. Flushes(t, tick'[A]) /\ tick'[A].pc \notin Late
    BY <1>2, <1>3 DEF Flushes, Early, Late, Idle
  <1>5. WriterStep(t)
    BY <1>2, <1>3, <1>4 DEF WriterStep
  <1>6. Plans(t) <=> Plans(s)
    BY <1>1, <1>3 DEF Plans
  <1> QED BY <1>2, <1>3, <1>5, <1>6, WriterIdles

(* Steps of the ticker that leave the stream alone. *)
LEMMA WriterLooks ==
  ASSUME WindowInv, WindowInv', PipeInv, tick[A].pc # Idle, str' = str, chan' = chan,
         UNCHANGED <<mux, conn, inmap, outps, task, told, sent, got>>,
         Flushes(str[A], tick'[A]),
         tick'[A].pc \in Late /\ Accepting /\ conn[A] =>
           Sends(str[A]) /\ (tick'[A].pc = "resize" => "WRITE_SHUTDOWN" \notin tick'[A].seen)
  PROVE  Stepped
  <1>1. str = [str EXCEPT ![A] = str[A]]
    BY WriterHere
  <1>2. WriterStep(str[A])
    BY <1>1 DEF WriterStep
  <1> QED BY <1>2, WriterIdles

LEMMA TickWndPipes ==
  ASSUME WindowInv, WindowInv', PipeInv, TickWnd(A) PROVE Stepped
  <1>1. /\ tick[A].pc = "wnd" /\ tick[A].pc # Idle
        /\ UNCHANGED <<mux, conn, inmap, outps, task, told, sent, got>>
    BY DEF TickWnd, At, Idle
  <1>2. /\ Flushes(str[A], tick[A]) /\ str[A].incre = 0
        /\ Goto(A, "chk") => tick'[A].pc = "chk"
    BY <1>1, WriterHere DEF Steps
  <1>3. str' = str /\ chan' = chan /\ tick'[A].pc = "chk"
    BY <1>2 DEF TickWnd
  <1>4. Flushes(str[A], tick'[A]) /\ tick'[A].pc \notin Late
    BY <1>1, <1>2, <1>3 DEF Flushes, Early, Late
  <1> QED BY <1>1, <1>3, <1>4, WriterLooks

LEMMA TickCheckPipes ==
  ASSUME WindowInv, WindowInv', PipeInv, TickCheck(A) PROVE Stepped
  <1> DEFINE s == str[A]
  <1>1. /\ tick[A].pc = "chk" /\ tick[A].pc # Idle /\ chan' = chan
        /\ UNCHANGED <<mux, conn, inmap, outps, task, told, sent, got>>
    BY DEF TickCheck, At, Idle
  <1>2. /\ Flushes(s, tick[A]) /\ s.incre = 0 /\ s \in Streams /\ Has(s)
        /\ \A pc \in Steps : Goto(A, pc) => tick'[A].pc = pc
    BY <1>1, WriterHere
  <1>3. s.st = "ESTABLISHED" \/ "WRITE_SHUTDOWN" \in s.flag
    BY <1>1, <1>2 DEF Flushes, Early
  <1>4. CASE BothShut \subseteq s.flag
    <2> DEFINE t == [s EXCEPT !.st = "CLOSED"]
    <2>1. str' = [str EXCEPT ![A] = t] /\ tick'[A].pc = Idle
      BY <1>2, <1>4 DEF TickCheck, Steps
    <2>2. t.flag = s.flag /\ t.st = "CLOSED" /\ t.wb = s.wb /\ t.incre = s.incre
      BY <1>2 DEF Streams
    <2> HIDE DEF t
    <2>3. Flushes(t, tick'[A]) /\ tick'[A].pc \notin Late /\ ~Sends(t)
      BY <1>2, <2>1, <2>2 DEF Flushes, Early, Late, Idle, Sends
    <2>4. WriterStep(t)
      BY <1>1, <2>1, <2>3 DEF WriterStep
    <2>5. Plans(t) <=> Plans(s)
      BY <1>2, <1>4, <2>2 DEF Plans, Has, BothShut
    <2> QED BY <1>1, <2>2, <2>4, <2>5, WriterIdles
  <1>5. CASE ~(BothShut \subseteq s.flag)
    <2> DEFINE pc == IF "WRITE_SHUTDOWN" \in s.flag THEN Idle ELSE IF s.wb = <<>> THEN "fin" ELSE "det"
    <2>1. str' = str /\ Goto(A, pc)
      BY <1>2, <1>5 DEF TickCheck
    <2>2. pc \in Steps /\ pc # "resize" /\ pc # "data" /\ (pc \in Late => "WRITE_SHUTDOWN" \notin s.flag)
      BY DEF Steps, Late, Idle
    <2> HIDE DEF pc
    <2>3. tick'[A].pc = pc
      BY <1>2, <2>1, <2>2
    <2>4. Flushes(s, tick'[A])
      BY <1>2, <1>3, <2>2, <2>3 DEF Flushes
    <2>5. tick'[A].pc \in Late => Sends(s)
      BY <1>3, <2>2, <2>3 DEF Sends
    <2> QED BY <1>1, <2>1, <2>2, <2>3, <2>4, <2>5, WriterLooks
  <1> QED BY <1>4, <1>5

(* A packet that carries no byte. *)
LEMMA WriterSignals ==
  ASSUME WindowInv, WindowInv', PipeInv, NEW t, WriterStep(t), NEW m \in Msgs, SendTo(A, m),
         \/ m.type = "FIN" /\ ~Sends(t) /\ (Plans(t) <=> Plans(str[A]))
         \/ m.type = "SYN" /\ Plans(str[A]) /\ ~Plans(t),
         t.wb = str[A].wb
  PROVE  Stepped
  <1>1. /\ str'[A] = t /\ (Accepting' => Accepting) /\ (Live' => Live)
        /\ Live' => Sends(t)
    BY WriterFacts
  <1>2. UNCHANGED <<task, inmap, outps>>
    BY DEF WriterStep
  <1>3. Packets' /\ Order'
    BY <1>1, <1>2, WriterSends
  <1>4. Flow("data", chan'[B]) = Flow("data", chan[B])
    <2>1. Flow("data", chan'[B]) = Flow("data", chan[B]) \o Load("data", m)
      BY EndsFacts, SendFlow DEF WindowInv, Kinds
    <2>2. Load("data", m) = <<>>
      BY DEF Load
    <2>3. Flow("data", chan[B]) \in Seq(Nat)
      BY EndsFacts, TowardType DEF WindowInv, Kinds
    <2> QED BY <2>1, <2>2, <2>3, ConcatEmpty
  <1> QED BY <1>3, <1>4, WriterKeeps

LEMMA TickFinPipes ==
  ASSUME WindowInv, WindowInv', PipeInv, TickFin(A) PROVE Stepped
  <1> DEFINE s == str[A]
  <1>1. /\ tick[A].pc = "fin" /\ tick[A].pc # Idle
        /\ UNCHANGED <<mux, conn, inmap, outps, task, told, sent, got>>
    BY DEF TickFin, At, Idle
  <1>2. /\ s.incre = 0 /\ s \in Streams /\ Has(s)
        /\ Goto(A, Idle) => tick'[A].pc = Idle
    BY <1>1, WriterHere DEF Steps
  <1>3. \A t : t.incre = 0 /\ tick'[A].pc = Idle => Flushes(t, tick'[A]) /\ tick'[A].pc \notin Late
    BY DEF Flushes, Early, Late, Idle
  <1>4. CASE Goto(A, Idle) /\ UNCHANGED <<str, chan>>
    BY <1>1, <1>2, <1>3, <1>4, WriterLooks
  <1>5. CASE /\ SendTo(A, [type |-> "FIN"])
             /\ str' = [str EXCEPT ![A].flag = (@ \ {"PLAN_FIN"}) \cup {"WRITE_SHUTDOWN"}]
             /\ Goto(A, Idle)
    <2> DEFINE t == [s EXCEPT !.flag = (s.flag \ {"PLAN_FIN"}) \cup {"WRITE_SHUTDOWN"}]
               m == [type |-> "FIN"]
    <2>1. m \in Msgs /\ m.type = "FIN" /\ SendTo(A, m)
      BY <1>5, MsgMade
    <2>2. str' = [str EXCEPT ![A] = t] /\ t.wb = s.wb /\ t.incre = s.incre
          /\ t.flag = (s.flag \ {"PLAN_FIN"}) \cup {"WRITE_SHUTDOWN"}
      BY <1>2, <1>5 DEF Streams
    <2> HIDE DEF t, m
    <2>3. ~Sends(t) /\ (Plans(t) <=> Plans(s))
      BY <1>2, <2>2 DEF Sends, Plans, Has
    <2>4. Flushes(t, tick'[A]) /\ tick'[A].pc \notin Late
      BY <1>2, <1>3, <1>5, <2>2
    <2>5. WriterStep(t)
      BY <1>1, <2>2, <2>3, <2>4 DEF WriterStep
    <2> QED BY <2>1, <2>2, <2>3, <2>5, WriterSignals
  <1>6. CASE SendFailed(A)
    BY <1>1, <1>6, WriterFails
  <1> QED BY <1>4, <1>5, <1>6 DEF TickFin

LEMMA TickDeterminePipes ==
  ASSUME WindowInv, WindowInv', PipeInv, TickDetermine(A) PROVE Stepped
  <1> DEFINE s == str[A]
             u == IF "BUFFER_DETERMINED" \in s.flag THEN [tick[A] EXCEPT !.pc = "syn"]
                  ELSE [pc |-> "resize", seen |-> s.flag]
  <1>1. /\ tick[A].pc = "det" /\ tick[A].pc # Idle /\ str' = str /\ chan' = chan
        /\ UNCHANGED <<mux, conn, inmap, outps, task, told, sent, got>>
        /\ tick' = [tick EXCEPT ![A] = u]
    BY DEF TickDetermine, At, Idle
  <1>2. /\ s.incre = 0 /\ s \in Streams /\ tick \in [Ends -> Tickers] /\ tick[A] \in Tickers /\ A \in Ends
        /\ Accepting /\ conn[A] => Sends(s)
    BY <1>1, WriterHere DEF Late
  <1>3. u.pc \in {"syn", "resize"} /\ (u.pc = "resize" => u.seen = s.flag)
    BY <1>2 DEF Tickers
  <1> HIDE DEF u
  <1>4. tick'[A] = u
    BY <1>1, <1>2
  <1>5. Flushes(s, tick'[A])
    BY <1>2, <1>3, <1>4 DEF Flushes, Early
  <1>6. Accepting /\ conn[A] => Sends(s) /\ (u.pc = "resize" => "WRITE_SHUTDOWN" \notin u.seen)
    BY <1>2, <1>3 DEF Sends
  <1> QED BY <1>1, <1>4, <1>5, <1>6, WriterLooks

(* The first flush: nothing but the write buffer of A changes. *)
LEMMA TickResizePipes ==
  ASSUME WindowInv, WindowInv', PipeInv, TickResize(A)
  PROVE  Stepped /\ Ready' = Ready /\ InHand' = InHand /\ Coming' = Coming /\ (Live' <=> Live)
  <1> DEFINE s == str[A]
             size == Least(TrySize, s.cap)
             b == SubSeq(s.wb, 1, Least(size, Len(s.wb)))
             fl == tick[A].seen \cup {"BUFFER_DETERMINED"}
             t == [s EXCEPT !.flag = fl, !.cap = size, !.wb = b]
             u == [pc |-> "syn", seen |-> {}]
  <1>1. /\ tick[A].pc = "resize" /\ tick[A].pc # Idle /\ chan' = chan
        /\ UNCHANGED <<mux, conn, inmap, outps, task, told, sent, got>>
        /\ str' = [str EXCEPT ![A] = t] /\ tick' = [tick EXCEPT ![A] = u]
    BY DEF TickResize, At, Idle
  <1>2. /\ s.incre = 0 /\ s \in Streams /\ Has(s) /\ tick \in [Ends -> Tickers] /\ A \in Ends
        /\ Accepting /\ conn[A] => Sends(s) /\ "WRITE_SHUTDOWN" \notin tick[A].seen
    BY <1>1, WriterHere DEF Late
  <1> HIDE DEF b, size, fl
  <1>4. t.flag = fl /\ t.st = s.st /\ t.incre = s.incre
    BY <1>2 DEF Streams
  <1> HIDE DEF t
  <1>5. tick'[A] = u
    BY <1>1, <1>2
  <1>6. Flushes(t, tick'[A])
    BY <1>2, <1>4, <1>5 DEF Flushes, Early
  <1>7. Accepting /\ conn[A] => Sends(t) /\ Sends(s)
    BY <1>2, <1>4 DEF Sends, fl
  <1>8. WriterStep(t)
    BY <1>1, <1>5, <1>6, <1>7 DEF WriterStep
  <1>9. Plans(t) <=> Plans(s)
    <2>1. "PLAN_SYN" \in tick[A].seen <=> "PLAN_SYN" \in s.flag
      BY <1>1 DEF WindowInv, Locals, Opener
    <2> QED BY <1>2, <1>4, <2>1 DEF Plans, Has, fl
  <1>10. /\ str'[A] = t /\ ToldInv' /\ Flushes(str'[A], tick'[A]) /\ Goes'
         /\ Accepting' <=> Accepting
         /\ Live <=> Accepting /\ conn[A] /\ Sends(s)
         /\ Live' <=> Accepting /\ conn[A] /\ Sends(t)
         /\ Live' => Live
         /\ Ready' = Ready /\ InHand' = InHand
    BY <1>8, WriterFacts
  <1>11. task' = task /\ outps' = outps /\ inmap' = inmap
    BY <1>1
  <1>12. Packets' /\ Order'
    BY <1>1, <1>9, <1>10, <1>11, NoTraffic
  <1>13. Coming' = Coming
    BY <1>1, <1>10 DEF Coming, InFlight
  <1>14. Live' <=> Live
    BY <1>7, <1>10
  <1> QED BY <1>10, <1>12, <1>13, <1>14 DEF Stepped, PipeInv, Hearing

LEMMA TickSynPipes ==
  ASSUME WindowInv, WindowInv', PipeInv, TickSyn(A) PROVE Stepped
  <1> DEFINE s == str[A]
  <1>1. /\ tick[A].pc = "syn" /\ tick[A].pc # Idle
        /\ UNCHANGED <<mux, conn, inmap, outps, task, told, sent, got>>
    BY DEF TickSyn, At, Idle
  <1>2. /\ s.incre = 0 /\ s \in Streams /\ Has(s)
        /\ Goto(A, "data") => tick'[A].pc = "data"
        /\ Accepting /\ conn[A] => Sends(s)
    BY <1>1, WriterHere DEF Steps, Late
  <1>3. "BUFFER_DETERMINED" \in s.flag
    BY <1>1 DEF WindowInv, Locals, Opener
  <1>4. CASE "PLAN_SYN" \notin s.flag /\ Goto(A, "data") /\ UNCHANGED <<str, chan>>
    <2>1. Flushes(s, tick'[A]) /\ tick'[A].pc # "resize"
      BY <1>2, <1>4 DEF Flushes, Early
    <2> QED BY <1>1, <1>2, <1>4, <2>1, WriterLooks
  <1>5. CASE /\ "PLAN_SYN" \in s.flag /\ SendTo(A, [type |-> "SYN"])
             /\ str' = [str EXCEPT ![A].flag = @ \ {"PLAN_SYN"}]
             /\ Goto(A, "data")
    <2> DEFINE t == [s EXCEPT !.flag = s.flag \ {"PLAN_SYN"}]
               m == [type |-> "SYN"]
    <2>1. m \in Msgs /\ m.type = "SYN" /\ SendTo(A, m)
      BY <1>5, MsgMade
    <2>2. str' = [str EXCEPT ![A] = t] /\ t.wb = s.wb /\ t.incre = s.incre /\ t.st = s.st
          /\ t.flag = s.flag \ {"PLAN_SYN"}
      BY <1>2, <1>5 DEF Streams
    <2> HIDE DEF t, m
    <2>3. (Sends(t) <=> Sends(s)) /\ ~Plans(t) /\ Plans(s)
      BY <1>2, <1>3, <1>5, <2>2 DEF Sends, Plans, Has
    <2>4. Flushes(t, tick'[A]) /\ tick'[A].pc # "resize"
      BY <1>2, <1>5, <2>2 DEF Flushes, Early
    <2>5. WriterStep(t)
      BY <1>1, <1>2, <2>2, <2>3, <2>4 DEF WriterStep
    <2> QED BY <2>1, <2>2, <2>3, <2>5, WriterSignals
  <1>6. CASE SendFailed(A)
    BY <1>1, <1>6, WriterFails
  <1> QED BY <1>4, <1>5, <1>6 DEF TickSyn

LEMMA JoinedMoves ==
  ASSUME NEW a \in Seq(Nat), NEW b \in Seq(Nat), NEW c \in Seq(Nat), NEW d \in Seq(Nat), NEW r \in Seq(Nat)
  PROVE  Joined(a, b, Cat(c, d), r) = Joined(a, b, c, Cat(d, r))
  <1> DEFINE s == a \o b
             sc == s \o c
  <1>1. s \in Seq(Nat)
    BY ConcatFacts
  <1> HIDE DEF s
  <1>2. sc \in Seq(Nat)
    BY <1>1, ConcatFacts
  <1>3. (s \o c) \o d = s \o (c \o d)
    BY <1>1, ConcatAssoc
  <1> HIDE DEF sc
  <1>4. (sc \o d) \o r = sc \o (d \o r)
    BY <1>2, ConcatAssoc
  <1>5. Joined(a, b, Cat(c, d), r) = (s \o (c \o d)) \o r
    BY DEF Joined, Cat, s
  <1>6. Joined(a, b, c, Cat(d, r)) = sc \o (d \o r)
    BY DEF Joined, Cat, s, sc
  <1>7. s \o (c \o d) = sc \o d
    BY <1>3 DEF sc
  <1> QED BY <1>4, <1>5, <1>6, <1>7

LEMMA SplitJoins ==
  ASSUME NEW s \in Seq(Nat), NEW n \in 0..Len(s)
  PROVE  SubSeq(s, 1, n) \o SubSeq(s, n + 1, Len(s)) = s
  <1> DEFINE d == SubSeq(s, 1, n)
             r == SubSeq(s, n + 1, Len(s))
             w == d \o r
             k == Len(s) - n
  <1>1. /\ d \in Seq(Nat) /\ Len(d) = n /\ r \in Seq(Nat) /\ Len(r) = k
        /\ \A i \in 1..n : d[i] = s[i]
        /\ \A i \in 1..k : r[i] = s[n + i]
    OBVIOUS
  <1>2. n \in Nat /\ k \in Nat /\ Len(s) = n + k
    OBVIOUS
  <1> HIDE DEF d, r, k
  <1>3. /\ w \in Seq(Nat) /\ Len(w) = n + k
        /\ \A i \in 1..n : w[i] = d[i]
        /\ \A i \in 1..k : w[n + i] = r[i]
    <2>1. /\ w \in Seq(Nat) /\ Len(w) = Len(d) + Len(r)
          /\ \A i \in 1..Len(d) : w[i] = d[i]
          /\ \A i \in 1..Len(r) : w[Len(d) + i] = r[i]
      BY <1>1, ConcatFacts
    <2> HIDE DEF w
    <2>2. Len(d) = n /\ Len(r) = k
      BY <1>1
    <2> QED BY <2>1, <2>2, Zenon
  <1> HIDE DEF w
  <1>4. ASSUME NEW i \in 1..Len(w) PROVE w[i] = s[i]
    <2>1. CASE i <= n
      <3>1. i \in 1..n
        BY <2>1
      <3> QED BY <1>1, <1>3, <3>1
    <2>2. CASE i > n
      <3> DEFINE j == i - n
      <3>1. j \in 1..k /\ n + j = i
        BY <1>2, <1>3, <2>2
      <3> HIDE DEF j
      <3> QED BY <1>1, <1>3, <3>1
    <2> QED BY <1>2, <2>1, <2>2
  <1>5. w = s
    BY <1>2, <1>3, <1>4, SeqEqual
  <1> QED BY <1>5 DEF w, d, r

LEMMA TickDataPipes ==
  ASSUME WindowInv, WindowInv', PipeInv, TickData(A) PROVE Stepped
  <1> DEFINE s == str[A]
             n == Flushed(s)
  <1>1. /\ tick[A].pc = "data" /\ tick[A].pc # Idle
        /\ UNCHANGED <<mux, conn, inmap, outps, task, told, sent, got>>
    BY DEF TickData, At, Idle
  <1>2. /\ s.incre = 0 /\ s \in Streams /\ Has(s) /\ "PLAN_SYN" \notin s.flag
        /\ Goto(A, Idle) => tick'[A].pc = Idle
        /\ Accepting /\ conn[A] => Sends(s)
    BY <1>1, WriterHere DEF Steps, Late, Flushes
  <1>3. \A t : t.incre = 0 /\ tick'[A].pc = Idle => Flushes(t, tick'[A]) /\ tick'[A].pc \notin Late
    BY DEF Flushes, Early, Late, Idle
  <1>4. CASE Goto(A, Idle) /\ UNCHANGED <<str, chan>>
    BY <1>1, <1>2, <1>3, <1>4, WriterLooks
  <1>5. CASE SendFailed(A)
    BY <1>1, <1>5, WriterFails
  <1>6. CASE /\ n > 0 /\ Result(A) = "OK"
             /\ SendTo(A, [type |-> "DATA", data |-> SubSeq(s.wb, 1, n)])
             /\ str' = [str EXCEPT ![A].wb = SubSeq(@, n + 1, Len(@)), ![A].wnd = @ - n,
                                   ![A].blocked = FALSE]
             /\ Goto(A, Idle)
    <2> DEFINE d == SubSeq(s.wb, 1, n)
               r == SubSeq(s.wb, n + 1, Len(s.wb))
               v == s.wnd - n
               t == [s EXCEPT !.wb = r, !.wnd = v, !.blocked = FALSE]
               m == [type |-> "DATA", data |-> d]
    <2>1. s.wb \in Seq(Nat) /\ n \in 0..Len(s.wb)
      <3>1. s.wb \in Seq(Nat) /\ Len(s.wb) \in Nat /\ s.wnd \in Nat
        BY <1>2, LenProperties, ConstFacts DEF Streams
      <3> QED BY <1>6, <3>1, ConstFacts, SMTT(30) DEF Flushed, Least
    <2>2. d \in Seq(Nat) /\ r \in Seq(Nat) /\ d \o r = s.wb
      <3> HIDE DEF n
      <3>1. d \in Seq(Nat) /\ r \in Seq(Nat)
        BY <2>1, SubSeqFacts
      <3>2. d \o r = s.wb
        BY <2>1, SplitJoins
      <3> QED BY <3>1, <3>2
    <2>3. str' = [str EXCEPT ![A] = t] /\ SendTo(A, m) /\ tick'[A].pc = Idle
      BY <1>2, <1>6
    <2> HIDE DEF d, r, v, n
    <2>4. t.wb = r /\ t.incre = s.incre /\ t.st = s.st /\ t.flag = s.flag
      BY <1>2 DEF Streams
    <2>5. m \in Msgs /\ m.type = "DATA" /\ m.data = d
      BY <2>2, MsgMade
    <2> HIDE DEF t, m
    <2>6. (Sends(t) <=> Sends(s)) /\ ~Plans(t) /\ ~Plans(s)
      BY <1>2, <2>4 DEF Sends, Plans, Has
    <2>7. WriterStep(t)
      BY <1>1, <1>2, <1>3, <2>3, <2>4, <2>6 DEF WriterStep
    <2>8. /\ str'[A] = t /\ ToldInv' /\ Flushes(str'[A], tick'[A]) /\ Goes'
          /\ Accepting' <=> Accepting
          /\ Live <=> Accepting /\ conn[A] /\ Sends(s)
          /\ Live' <=> Accepting /\ conn[A] /\ Sends(t)
          /\ Ready' = Ready /\ InHand' = InHand
      BY <2>7, WriterFacts
    <2>9. Live' <=> Live
      BY <2>6, <2>8
    <2>10. Packets' /\ Order'
      BY <1>1, <2>3, <2>5, <2>6, <2>8, <2>9, WriterSends
    <2>11. InFlight(B)' = InFlight(B) \o d
      <3>1. Flow("data", chan'[B]) = Flow("data", chan[B]) \o Load("data", m)
        BY <2>3, <2>5, EndsFacts, SendFlow DEF WindowInv, Kinds
      <3>2. Load("data", m) = d
        BY <2>5 DEF Load
      <3>3. Known /\ Known'
        BY KnownIs, PTL
      <3> QED BY <3>1, <3>2, <3>3 DEF Known
    <2>12. /\ Ready \in Seq(Nat) /\ InHand \in Seq(Nat) /\ Coming \in Seq(Nat)
      BY PartsType DEF Parts
    <2>13. Whole' = Whole
      <3>1. CASE Accepting
        <4>1. Live /\ Live'
          BY <1>2, <1>6, <2>8, <2>9, <3>1 DEF Result, Sendable
        <4>2. Backlog = Cat(d, r) /\ Backlog' = r
          BY <2>2, <2>4, <2>8, <4>1 DEF Backlog, Live, Cat
        <4>3. Coming' = Cat(Coming, d)
          BY <2>8, <2>11, <3>1 DEF Coming, Cat
        <4>4. Joined(Ready, InHand, Cat(Coming, d), r) = Joined(Ready, InHand, Coming, Cat(d, r))
          BY <2>2, <2>12, JoinedMoves
        <4> QED BY <2>8, <4>2, <4>3, <4>4 DEF Whole
      <3>2. CASE ~Accepting
        BY <2>8, <3>2 DEF Whole, Coming, Backlog
      <3> QED BY <3>1, <3>2
    <2>14. PipeSteps
      BY <1>1, <2>9, <2>13, Stays
    <2> QED BY <2>8, <2>10, <2>14 DEF Stepped, PipeInv, Hearing
  <1> QED BY <1>4, <1>5, <1>6 DEF TickData

(* Steps of A that move no byte of the pipe. *)
LEMMA OpenerKeeps ==
  ASSUME WindowInv, WindowInv', PipeInv, NEW t, str' = [str EXCEPT ![A] = t],
         Flushes(t, tick'[A]), Goes', ToldInv', inmap'[B] = inmap[B], told'[B] = told[B], task'[B] = task[B],
         UNCHANGED <<mux, conn, sent, got>>, Sending' => Sending /\ t.wb = str[A].wb,
         Plans(t) <=> Plans(str[A]),
         \A m \in Elems(chan'[B]) : m \in Elems(chan[B]) \/ m.type = "RST",
         Elems(chan[B]) \subseteq Elems(chan'[B]),
         Ordered(chan[B]) => Ordered(chan'[B]), NoSyn(chan[B]) => NoSyn(chan'[B]),
         \A m \in Carried(A)' : m \in Carried(A) \/ m.type # "RST",
         outps'[B] > 0 => outps[B] > 0, Flow("data", chan'[B]) = Flow("data", chan[B])
  PROVE  Stepped
  <1>1. A \in Ends /\ B \in Ends /\ A # B /\ str \in [Ends -> Streams]
    BY EndsFacts DEF WindowInv, Typed
  <1>2. str'[A] = t /\ str'[B] = str[B]
    BY <1>1
  <1>3. Accepting' <=> Accepting
    BY <1>2 DEF Accepting
  <1>4. Live' => Live /\ t.wb = str[A].wb
    BY <1>3 DEF Live
  <1>5. Carried(B)' = Elems(chan'[B]) \cup {task[B].msg}
    BY DEF Carried, Elems
  <1>6. \A m \in Carried(B)' : m \in Carried(B) \/ Proper(m)'
    <2>1. \A m : m.type = "RST" => Proper(m)'
      BY DEF Proper
    <2> QED BY <1>5, <2>1, CarriedIs
  <1>7. Packets'
    BY <1>2, <1>4, <1>6, PacketStep
  <1>8. Carried(B) \subseteq Carried(B)'
    BY <1>5, CarriedIs
  <1>9. Ordered(chan'[B]) /\ (task'[B].msg.type = "DATA" => NoSyn(chan'[B]))
    BY DEF PipeInv, Order
  <1>10. Order'
    BY <1>2, <1>3, <1>8, <1>9, OrderStep
  <1>11. Ready' = Ready /\ InHand' = InHand
    BY <1>2 DEF Ready, InHand, Applying
  <1>12. InFlight(B)' = InFlight(B)
    <2>1. Known /\ Known'
      BY KnownIs, PTL
    <2> QED BY <2>1 DEF Known
  <1>13. PipeSteps /\ Hearing
    BY <1>2, <1>3, <1>4, <1>11, <1>12, QuietMaps
  <1> QED BY <1>2, <1>7, <1>10, <1>13 DEF Stepped, PipeInv

(* Steps of B. *)
LEMMA ReaderInv ==
  ASSUME WindowInv, PipeInv, str'[A] = str[A], tick'[A] = tick[A], conn' = conn, ToldInv',
         Accepting' => Accepting,
         \A m \in Carried(B)' : m \in Carried(B) \/ m.type = "none",
         \A m \in Carried(A)' : m \in Carried(A) \/ m.type # "RST" \/ ~Live,
         outps'[B] > 0 => outps[B] > 0 \/ ~Live,
         Ordered(chan'[B]), task'[B].msg.type = "DATA" => NoSyn(chan'[B]),
         Accepting' /\ inmap[B] => inmap'[B],
         Accepting' => \A m \in Carried(B) : m.type = "SYN" => m \in Carried(B)' \/ inmap'[B]
  PROVE  PipeInv' /\ (Live' => Live) /\ (Sending' <=> Sending)
  <1>1. StillA
    BY DEF StillA
  <1>2. /\ Flushes(str'[A], tick'[A]) /\ Goes' /\ (Live' => Live)
        /\ Plans(str'[A]) <=> Plans(str[A])
    BY <1>1, StillAFacts
  <1>3. \A m : m.type = "none" => Proper(m)'
    BY DEF Proper
  <1>4. Packets'
    BY <1>2, <1>3, PacketStep
  <1>5. Order'
    BY <1>2, OrderStep
  <1>6. Sending' <=> Sending
    BY DEF Sending, HasStream
  <1> QED BY <1>2, <1>4, <1>5, <1>6 DEF PipeInv

(* The waiting RSTs. *)
LEMMA BeginFacts ==
  ASSUME WindowInv, NEW e \in Ends, TickBegin(e)
  PROVE  LET f == Other(e)
             s == IF conn[e] THEN str[e] ELSE ForceClose(str[e])
         IN  /\ tick[e].pc = Idle /\ UNCHANGED <<mux, conn, task, sent, got>>
             /\ \E n \in Nat : chan'[f] = chan[f] \o Rsts(n) /\ (n > 0 => outps[e] > 0)
             /\ chan'[e] = chan[e] /\ \A g \in Ends : outps'[g] > 0 => outps[g] > 0
             /\ \/ UNCHANGED <<inmap, str, tick, told>>
                \/ inmap[e] /\ s.st = "ESTABLISHED" /\ Goto(e, "wnd") /\ UNCHANGED <<inmap, str, told>>
                \/ /\ inmap[e] /\ tick' = tick /\ BothShut \subseteq s.flag
                   /\ str' = [str EXCEPT ![e] = [s EXCEPT !.st = "RECYCLE"]]
                   /\ inmap' = [inmap EXCEPT ![e] = FALSE] /\ told' = [told EXCEPT ![e] = TRUE]
                \/ inmap[e] /\ tick' = tick /\ str' = [str EXCEPT ![e] = s] /\ UNCHANGED <<inmap, told>>
  <1> DEFINE f == Other(e)
             room == IF conn[e] THEN ChanCap - Len(chan[f]) ELSE outps[e]
             n == Least(outps[e], room)
             s == IF conn[e] THEN str[e] ELSE ForceClose(str[e])
  <1>1. f \in Ends /\ f # e /\ \A g \in Ends : g = e \/ g = f
    BY EndsFacts DEF Other
  <1>2. /\ outps \in [Ends -> Nat] /\ outps[e] \in Nat /\ chan \in [Ends -> Seq(Msgs)]
        /\ chan[f] \in Seq(Msgs) /\ Len(chan[f]) \in Nat /\ Len(chan[f]) <= ChanCap
    BY <1>1 DEF WindowInv, Typed, Around, Limits
  <1>3. n \in Nat /\ outps[e] - n \in Nat /\ (n > 0 => outps[e] > 0) /\ (outps[e] - n > 0 => outps[e] > 0)
    BY <1>2, ConstFacts DEF Least
  <1>4. /\ tick[e].pc = Idle /\ outps' = [outps EXCEPT ![e] = outps[e] - n]
        /\ chan' = IF conn[e] THEN [chan EXCEPT ![f] = chan[f] \o Rsts(n)] ELSE chan
        /\ UNCHANGED <<mux, conn, task, sent, got>>
    BY DEF TickBegin, MutexFree, Rsts
  <1>5. \/ UNCHANGED <<inmap, str, tick, told>>
        \/ inmap[e] /\ s.st = "ESTABLISHED" /\ Goto(e, "wnd") /\ UNCHANGED <<inmap, str, told>>
        \/ /\ inmap[e] /\ tick' = tick /\ BothShut \subseteq s.flag
           /\ str' = [str EXCEPT ![e] = [s EXCEPT !.st = "RECYCLE"]]
           /\ inmap' = [inmap EXCEPT ![e] = FALSE] /\ told' = [told EXCEPT ![e] = TRUE]
        \/ inmap[e] /\ tick' = tick /\ str' = [str EXCEPT ![e] = s] /\ UNCHANGED <<inmap, told>>
    BY DEF TickBegin
  <1> HIDE DEF n, room
  <1>6. \E k \in Nat : chan'[f] = chan[f] \o Rsts(k) /\ (k > 0 => outps[e] > 0)
    <2>1. CASE conn[e]
      <3>1. chan'[f] = chan[f] \o Rsts(n)
        BY <1>1, <1>2, <1>4, <2>1
      <3> QED BY <1>3, <3>1
    <2>2. CASE ~conn[e]
      <3>1. 0 \in Nat /\ (0 > 0 => outps[e] > 0) /\ (0 = 0 => chan[f] \o Rsts(0) = chan[f])
        BY <1>2, RstsElems
      <3>2. chan'[f] = chan[f] \o Rsts(0)
        BY <1>4, <2>2, <3>1
      <3> QED BY <3>1, <3>2
    <2> QED BY <2>1, <2>2
  <1>7. chan'[e] = chan[e]
    BY <1>1, <1>2, <1>4
  <1>8. \A g \in Ends : outps'[g] > 0 => outps[g] > 0
    <2> SUFFICES ASSUME NEW g \in Ends PROVE outps'[g] > 0 => outps[g] > 0
      OBVIOUS
    <2>1. CASE g = e
      <3>1. outps'[e] = outps[e] - n
        BY <1>2, <1>4
      <3> QED BY <1>3, <2>1, <3>1
    <2>2. CASE g # e
      <3>1. outps'[g] = outps[g]
        BY <1>2, <1>4, <2>2
      <3> QED BY <3>1
    <2> QED BY <2>1, <2>2
  <1> HIDE DEF s
  <1> QED BY <1>4, <1>5, <1>6, <1>7, <1>8 DEF f, s

LEMMA TickBeginOpener ==
  ASSUME WindowInv, WindowInv', PipeInv, TickBegin(A) PROVE Stepped
  <1> DEFINE s == IF conn[A] THEN str[A] ELSE ForceClose(str[A])
             r == [s EXCEPT !.st = "RECYCLE"]
  <1>1. A \in Ends /\ B \in Ends /\ A # B /\ Other(A) = B /\ chan[B] \in Seq(Msgs)
        /\ str \in [Ends -> Streams] /\ str[A] \in Streams /\ str = [str EXCEPT ![A] = str[A]]
        /\ inmap \in [Ends -> BOOLEAN] /\ told \in [Ends -> BOOLEAN] /\ (inmap[A] => Has(str[A]))
    BY EndsFacts, Here DEF WindowInv, Typed, Around
  <1>2. /\ tick[A].pc = Idle /\ UNCHANGED <<mux, conn, task, sent, got>>
        /\ \E n \in Nat : chan'[B] = chan[B] \o Rsts(n)
        /\ chan'[A] = chan[A] /\ \A g \in Ends : outps'[g] > 0 => outps[g] > 0
        /\ \/ UNCHANGED <<inmap, str, tick, told>>
           \/ inmap[A] /\ s.st = "ESTABLISHED" /\ Goto(A, "wnd") /\ UNCHANGED <<inmap, str, told>>
           \/ /\ inmap[A] /\ tick' = tick /\ BothShut \subseteq s.flag
              /\ str' = [str EXCEPT ![A] = r]
              /\ inmap' = [inmap EXCEPT ![A] = FALSE] /\ told' = [told EXCEPT ![A] = TRUE]
           \/ inmap[A] /\ tick' = tick /\ str' = [str EXCEPT ![A] = s] /\ UNCHANGED <<inmap, told>>
    BY <1>1, BeginFacts
  <1>3. PICK n \in Nat : chan'[B] = chan[B] \o Rsts(n)
    BY <1>2
  <1>4. /\ Elems(chan[B]) \subseteq Elems(chan'[B])
        /\ \A m \in Elems(chan'[B]) : m \in Elems(chan[B]) \/ m.type = "RST"
        /\ Ordered(chan[B]) => Ordered(chan'[B])
        /\ NoSyn(chan[B]) => NoSyn(chan'[B])
    BY <1>1, <1>3, RstsElems
  <1>5. Flow("data", chan'[B]) = Flow("data", chan[B])
    BY <1>1, <1>3, FlowRsts DEF Kinds
  <1>6. \A m \in Carried(A)' : m \in Carried(A)
    BY <1>2 DEF Carried
  <1>7. str[A].incre = 0 /\ Flushes(str[A], tick[A]) /\ ToldInv
    BY DEF PipeInv, Flushes
  <1>8. ASSUME NEW t, str' = [str EXCEPT ![A] = t], t.incre = 0, tick'[A].pc \in {Idle, "wnd"},
               tick'[A].pc = "wnd" => t.st = "ESTABLISHED",
               ToldInv', inmap'[B] = inmap[B], told'[B] = told[B],
               Sending' => Sending /\ t.wb = str[A].wb, Plans(t) <=> Plans(str[A])
        PROVE  Stepped
    <2>1. Flushes(t, tick'[A])
      BY <1>8 DEF Flushes, Early, Idle
    <2>2. Goes'
      BY <1>8 DEF Goes, Late, Idle
    <2> QED BY <1>1, <1>2, <1>4, <1>5, <1>6, <1>8, <2>1, <2>2, OpenerKeeps
  <1>9. /\ s \in Streams /\ s.wb = str[A].wb /\ s.incre = 0 /\ (inmap[A] => (Plans(s) <=> Plans(str[A])))
        /\ (inmap[A] => Has(s)) /\ (~conn[A] => ~Sends(s)) /\ (conn[A] => s = str[A])
        /\ s.st = "ESTABLISHED" => conn[A]
    <2>1. CASE conn[A]
      BY <1>1, <1>7, <2>1
    <2>2. CASE ~conn[A]
      <3>1. ForceClose(str[A]) \in Streams
        BY <1>1, ConstFacts DEF ForceClose, Streams, BothShut, Flags
      <3> QED BY <1>1, <1>7, <2>2, <3>1, ForceCloseFacts DEF Plans
    <2> QED BY <2>1, <2>2
  <1> HIDE DEF s
  <1>10. ASSUME str' = str, inmap' = inmap, told' = told PROVE ToldInv' /\ (Sending' <=> Sending)
    BY <1>2, <1>7, <1>10 DEF ToldInv, Sending, HasStream
  <1>11. CASE UNCHANGED <<inmap, str, tick, told>>
    BY <1>1, <1>2, <1>7, <1>8, <1>10, <1>11 DEF Idle
  <1>12. CASE inmap[A] /\ s.st = "ESTABLISHED" /\ Goto(A, "wnd") /\ UNCHANGED <<inmap, str, told>>
    <2>1. tick'[A].pc = "wnd" /\ str[A].st = "ESTABLISHED"
      BY <1>1, <1>9, <1>12, GotoStep DEF Steps
    <2> QED BY <1>1, <1>7, <1>8, <1>10, <1>12, <2>1
  <1>13. CASE /\ inmap[A] /\ tick' = tick /\ BothShut \subseteq s.flag /\ str' = [str EXCEPT ![A] = r]
              /\ inmap' = [inmap EXCEPT ![A] = FALSE] /\ told' = [told EXCEPT ![A] = TRUE]
    <2>1. r.st = "RECYCLE" /\ r.flag = s.flag /\ r.wb = s.wb /\ r.incre = s.incre
      BY <1>9 DEF Streams
    <2> HIDE DEF r
    <2>2. str'[A] = r /\ str'[B] = str[B] /\ inmap'[B] = inmap[B] /\ told'[B] = told[B] /\ ~inmap'[A]
      BY <1>1, <1>13
    <2>3. ToldInv'
      BY <1>1, <1>7, <1>13, <2>1, <2>2, EndsFacts DEF ToldInv, Deaf, BothShut
    <2>4. ~Sending'
      BY <2>1, <2>2 DEF Sending, HasStream
    <2>5. Plans(r) <=> Plans(s)
      BY <1>9, <1>13, <2>1 DEF Plans, Has
    <2> QED BY <1>2, <1>8, <1>9, <1>13, <2>1, <2>2, <2>3, <2>4, <2>5 DEF Idle
  <1>14. CASE inmap[A] /\ tick' = tick /\ str' = [str EXCEPT ![A] = s] /\ UNCHANGED <<inmap, told>>
    <2>1. str'[A] = s /\ str'[B] = str[B]
      BY <1>1, <1>14
    <2>2. ~told[A]
      BY <1>1, <1>7, <1>14 DEF ToldInv, Deaf
    <2>3. ToldInv'
      BY <1>1, <1>7, <1>14, <2>1, <2>2, EndsFacts DEF ToldInv
    <2>4. Sending' => Sending
      <3>1. CASE conn[A]
        BY <1>2, <1>9, <2>1, <3>1 DEF Sending, HasStream
      <3>2. CASE ~conn[A]
        BY <1>2, <3>2 DEF Sending
      <3> QED BY <3>1, <3>2
    <2> QED BY <1>2, <1>8, <1>9, <1>14, <2>3, <2>4 DEF Idle
  <1> QED BY <1>2, <1>11, <1>12, <1>13, <1>14

LEMMA TickBeginReader ==
  ASSUME WindowInv, WindowInv', PipeInv, TickBegin(B) PROVE Stepped
  <1> DEFINE s == IF conn[B] THEN str[B] ELSE ForceClose(str[B])
             r == [s EXCEPT !.st = "RECYCLE"]
  <1>1. A \in Ends /\ B \in Ends /\ A # B /\ Other(B) = A /\ chan[A] \in Seq(Msgs)
        /\ str \in [Ends -> Streams] /\ str[B] \in Streams /\ str = [str EXCEPT ![B] = str[B]]
        /\ inmap \in [Ends -> BOOLEAN] /\ told \in [Ends -> BOOLEAN]
        /\ tick \in [Ends -> Tickers]
    BY EndsFacts, Here DEF WindowInv, Typed, Around
  <1>2. /\ UNCHANGED <<mux, conn, task, sent, got>>
        /\ \E n \in Nat : chan'[A] = chan[A] \o Rsts(n) /\ (n > 0 => outps[B] > 0)
        /\ chan'[B] = chan[B] /\ \A g \in Ends : outps'[g] > 0 => outps[g] > 0
        /\ \/ UNCHANGED <<inmap, str, tick, told>>
           \/ Goto(B, "wnd") /\ UNCHANGED <<inmap, str, told>>
           \/ /\ tick' = tick /\ BothShut \subseteq s.flag
              /\ str' = [str EXCEPT ![B] = r]
              /\ inmap' = [inmap EXCEPT ![B] = FALSE] /\ told' = [told EXCEPT ![B] = TRUE]
           \/ inmap[B] /\ tick' = tick /\ str' = [str EXCEPT ![B] = s] /\ UNCHANGED <<inmap, told>>
    BY <1>1, BeginFacts
  <1>3. PICK n \in Nat : chan'[A] = chan[A] \o Rsts(n) /\ (n > 0 => outps[B] > 0)
    BY <1>2
  <1>4. \A m \in Carried(A)' : m \in Carried(A) \/ m.type # "RST" \/ ~Live
    <2>1. CASE n = 0
      <3>1. chan'[A] = chan[A]
        BY <1>1, <1>3, <2>1, RstsElems
      <3> QED BY <1>2, <3>1 DEF Carried
    <2>2. CASE n > 0
      BY <1>3, <2>2 DEF PipeInv, Packets
    <2> QED BY <2>1, <2>2
  <1>5. Ordered(chan[B]) /\ (task[B].msg.type = "DATA" => NoSyn(chan[B])) /\ ToldInv
    BY DEF PipeInv, Order
  <1>6. Carried(B)' = Carried(B)
    BY <1>2 DEF Carried
  <1>7. /\ s \in Streams /\ s.rb = str[B].rb /\ str[B].flag \subseteq s.flag
    <2>1. ForceClose(str[B]) \in Streams
      BY <1>1, ConstFacts DEF ForceClose, Streams, BothShut, Flags
    <2> QED BY <1>1, <2>1, ForceCloseFacts
  <1> HIDE DEF s
  <1>8. r.flag = s.flag /\ r.rb = s.rb
    BY <1>7 DEF Streams
  <1> HIDE DEF r
  <1>9. tick'[A] = tick[A]
    BY <1>1, <1>2 DEF Goto
  <1>10. ASSUME NEW t, str' = [str EXCEPT ![B] = t], t.rb = str[B].rb, str[B].flag \subseteq t.flag,
                inmap'[A] = inmap[A], told'[A] = told[A],
                \/ inmap'[B] = inmap[B] /\ told'[B] = told[B]
                \/ "READ_SHUTDOWN" \in t.flag /\ ~inmap'[B]
         PROVE  Stepped
    <2>1. str'[A] = str[A] /\ str'[B] = t
      BY <1>1, <1>10
    <2>2. ToldInv'
      BY <1>1, <1>5, <1>10, <2>1, EndsFacts DEF ToldInv, Deaf
    <2>3. Accepting' => Accepting /\ inmap'[B] = inmap[B]
      BY <1>2, <1>10, <2>1 DEF Accepting
    <2>4. PipeInv' /\ (Live' => Live)
      BY <1>1, <1>2, <1>4, <1>5, <1>6, <1>9, <2>1, <2>2, <2>3, ReaderInv
    <2>5. InHand' = InHand \/ (InHand' = <<>> /\ ~Accepting')
      <3>1. CASE inmap'[B] = inmap[B]
        BY <1>2, <1>10, <2>1, <3>1, HandKept
      <3>2. CASE "READ_SHUTDOWN" \in t.flag
        BY <2>1, <3>2 DEF InHand, Applying, Accepting
      <3> QED BY <1>10, <3>1, <3>2
    <2>6. Ready' = Ready /\ InFlight(B)' = InFlight(B)
      BY <1>2, <1>10, <2>1 DEF Ready, InFlight
    <2>7. PipeSteps /\ Hearing
      BY <1>2, <2>1, <2>3, <2>4, <2>5, <2>6, QuietMaps
    <2> QED BY <2>4, <2>7 DEF Stepped
  <1>11. CASE UNCHANGED <<inmap, str, told>>
    BY <1>1, <1>10, <1>11
  <1>12. CASE /\ BothShut \subseteq s.flag /\ str' = [str EXCEPT ![B] = r]
              /\ inmap' = [inmap EXCEPT ![B] = FALSE] /\ told' = [told EXCEPT ![B] = TRUE]
    <2>1. ~inmap'[B] /\ inmap'[A] = inmap[A] /\ told'[A] = told[A] /\ "READ_SHUTDOWN" \in r.flag
      BY <1>1, <1>8, <1>12 DEF BothShut
    <2> QED BY <1>7, <1>8, <1>10, <1>12, <2>1
  <1>13. CASE str' = [str EXCEPT ![B] = s] /\ UNCHANGED <<inmap, told>>
    BY <1>7, <1>10, <1>13
  <1> QED BY <1>2, <1>11, <1>12, <1>13

(* Where a RST goes. *)
LEMMA RstGoes ==
  ASSUME WindowInv, NEW e \in Ends, SendRst(e)
  PROVE  /\ chan'[e] = chan[e] /\ outps'[Other(e)] = outps[Other(e)]
         /\ chan'[Other(e)] \in {chan[Other(e)], Append(chan[Other(e)], [type |-> "RST"])}
  <1>1. Other(e) \in Ends /\ Other(e) # e /\ chan \in [Ends -> Seq(Msgs)] /\ outps \in [Ends -> Nat]
    BY EndsFacts DEF WindowInv, Typed, Around
  <1>2. CASE Result(e) = "OK"
    BY <1>1, <1>2 DEF SendRst, SendTo
  <1>3. CASE Result(e) = "SEND_BLOCK"
    BY <1>1, <1>3 DEF SendRst
  <1>4. CASE Result(e) = "error"
    BY <1>1, <1>4 DEF SendRst
  <1> QED BY <1>2, <1>3, <1>4 DEF Result

(* The event task of A. *)
Same(s, t) == t.st = s.st /\ t.flag = s.flag /\ t.wb = s.wb /\ t.incre = s.incre
Stopped(s, t) ==
    /\ t.wb = s.wb /\ t.incre = s.incre /\ Has(s) /\ Has(t) /\ ~Sends(t) /\ s.flag \subseteq t.flag
    /\ "WRITE_SHUTDOWN" \in t.flag /\ ("PLAN_SYN" \in t.flag => "PLAN_SYN" \in s.flag)

LEMMA OpenerTask ==
  ASSUME WindowInv, WindowInv', PipeInv, NEW t, str' = [str EXCEPT ![A] = t],
         Same(str[A], t) \/ (Stopped(str[A], t) /\ ~Live),
         UNCHANGED <<mux, conn, inmap, told, tick, sent, got>>, task'[B] = task[B],
         chan'[B] = chan[B] \/ chan'[B] = Append(chan[B], [type |-> "RST"]),
         \A m \in Carried(A)' : m \in Carried(A) \/ m.type = "none", outps'[B] = outps[B]
  PROVE  Stepped
  <1>0. /\ t.wb = str[A].wb /\ t.incre = str[A].incre /\ (Has(t) <=> Has(str[A])) /\ str[A].flag \subseteq t.flag
        /\ "PLAN_SYN" \in t.flag => "PLAN_SYN" \in str[A].flag
        /\ \/ t.st = str[A].st /\ t.flag = str[A].flag
           \/ ~Sends(t) /\ Has(t) /\ "WRITE_SHUTDOWN" \in t.flag /\ ~Live
    BY DEF Same, Stopped, Has
  <1>1. A \in Ends /\ B \in Ends /\ A # B /\ str \in [Ends -> Streams] /\ chan[B] \in Seq(Msgs)
    BY EndsFacts DEF WindowInv, Typed, Around
  <1>2. str'[A] = t /\ str'[B] = str[B]
    BY <1>1
  <1>3. ToldInv /\ Flushes(str[A], tick[A]) /\ Goes
    BY DEF PipeInv
  <1>4. Flushes(t, tick'[A])
    BY <1>0, <1>3 DEF Flushes
  <1>5. Accepting' <=> Accepting
    BY <1>2 DEF Accepting
  <1>6. (Sending' => Sending) /\ (Sending /\ Live => Sending')
    BY <1>0, <1>2 DEF Sending, HasStream, Sends, Has
  <1>7. Goes'
    BY <1>3, <1>5, <1>6 DEF Goes, Live
  <1>8. ToldInv'
    BY <1>0, <1>1, <1>2, <1>3, EndsFacts DEF ToldInv, Deaf
  <1>9. Plans(t) <=> Plans(str[A])
    BY <1>0 DEF Plans
  <1>10. [type |-> "RST"] \in Msgs /\ [type |-> "RST"].type = "RST"
    BY MsgMade
  <1>11. /\ \A m \in Elems(chan'[B]) : m \in Elems(chan[B]) \/ m.type = "RST"
         /\ Elems(chan[B]) \subseteq Elems(chan'[B])
         /\ Ordered(chan[B]) => Ordered(chan'[B])
         /\ NoSyn(chan[B]) => NoSyn(chan'[B])
    <2>1. CASE chan'[B] = chan[B]
      BY <2>1
    <2>2. CASE chan'[B] = Append(chan[B], [type |-> "RST"])
      <3> DEFINE m == [type |-> "RST"]
      <3>1. m \in Msgs /\ m.type = "RST" /\ m.type # "SYN"
        BY <1>10
      <3> HIDE DEF m
      <3>2. /\ Elems(Append(chan[B], m)) = Elems(chan[B]) \cup {m}
            /\ Ordered(chan[B]) => Ordered(Append(chan[B], m))
            /\ NoSyn(chan[B]) => NoSyn(Append(chan[B], m))
        BY <1>1, <3>1, AppendElems
      <3>3. chan'[B] = Append(chan[B], m)
        BY <2>2 DEF m
      <3> QED BY <3>1, <3>2, <3>3
    <2> QED BY <2>1, <2>2
  <1>12. Flow("data", chan'[B]) = Flow("data", chan[B])
    <2>1. CASE chan'[B] = chan[B]
      BY <2>1
    <2>2. CASE chan'[B] = Append(chan[B], [type |-> "RST"])
      <3> DEFINE m == [type |-> "RST"]
      <3>1. m \in Msgs /\ Load("data", m) = <<>> /\ "data" \in Kinds
        BY <1>10 DEF Load, Kinds
      <3> HIDE DEF m
      <3>2. Flow("data", Append(chan[B], m)) = Flow("data", chan[B]) \o Load("data", m)
        BY <1>1, <3>1, FlowAppend
      <3>3. Flow("data", chan[B]) \in Seq(Nat)
        BY <1>1, <3>1, FlowType
      <3>4. Flow("data", chan[B]) \o <<>> = Flow("data", chan[B])
        BY <3>3, ConcatEmpty
      <3> QED BY <2>2, <3>1, <3>2, <3>4 DEF m
    <2> QED BY <2>1, <2>2
  <1>13. \A m \in Carried(A)' : m \in Carried(A) \/ m.type # "RST"
    OBVIOUS
  <1> QED BY <1>0, <1>4, <1>6, <1>7, <1>8, <1>9, <1>11, <1>12, <1>13, OpenerKeeps

(* The packet of the task at e is gone; those in the channel stay. *)
LEMMA TaskCarried ==
  ASSUME WindowInv, NEW e \in Ends, TaskDone(e), chan'[e] = chan[e]
  PROVE  /\ Carried(e)' = Elems(chan[e]) \cup {NoMsg}
         /\ \A m \in Carried(e)' : m \in Carried(e) \/ m.type = "none"
         /\ task'[e] = [pc |-> Idle, msg |-> NoMsg]
         /\ \A f \in Ends : f # e => task'[f] = task[f]
  <1>1. task \in [Ends -> Tasks] /\ task' = [task EXCEPT ![e] = [pc |-> Idle, msg |-> NoMsg]]
    BY DEF WindowInv, Typed, Around, TaskDone
  <1>2. /\ task'[e] = [pc |-> Idle, msg |-> NoMsg] /\ task'[e].msg = NoMsg
        /\ \A f \in Ends : f # e => task'[f] = task[f]
    BY <1>1
  <1>3. Carried(e)' = Elems(chan[e]) \cup {NoMsg}
    BY <1>2 DEF Carried, Elems
  <1> QED BY <1>2, <1>3, CarriedIs DEF NoMsg

LEMMA ArriveCarried ==
  ASSUME WindowInv, NEW e \in Ends, Arrive(e)
  PROVE  LET m == Head(chan[e])
         IN  /\ m \in Msgs /\ chan[e] \in Seq(Msgs) /\ chan[e] # <<>>
             /\ chan'[e] = Tail(chan[e]) /\ \A f \in Ends : f # e => chan'[f] = chan[f]
             /\ \A f \in Ends : f # e => task'[f] = task[f]
             /\ mux[e] = "ATTACHED" => task'[e] = [pc |-> "lookup", msg |-> m]
             /\ mux[e] # "ATTACHED" => task'[e] = task[e]
             /\ task[e].msg = NoMsg
             /\ Carried(e)' \subseteq Carried(e)
             /\ mux[e] = "ATTACHED" => Carried(e)' = Elems(chan[e])
  <1> DEFINE m == Head(chan[e])
  <1>1. /\ chan \in [Ends -> Seq(Msgs)] /\ chan[e] \in Seq(Msgs) /\ task \in [Ends -> Tasks]
        /\ chan[e] # <<>> /\ task[e].pc = Idle /\ chan' = [chan EXCEPT ![e] = Tail(chan[e])]
        /\ task' = IF mux[e] = "ATTACHED" THEN [task EXCEPT ![e] = [pc |-> "lookup", msg |-> m]]
                   ELSE task
    BY DEF WindowInv, Typed, Around, Arrive
  <1>2. m \in Msgs
    BY <1>1
  <1> HIDE DEF m
  <1>3. /\ chan'[e] = Tail(chan[e]) /\ \A f \in Ends : f # e => chan'[f] = chan[f]
        /\ \A f \in Ends : f # e => task'[f] = task[f]
        /\ mux[e] = "ATTACHED" => task'[e] = [pc |-> "lookup", msg |-> m]
        /\ mux[e] # "ATTACHED" => task'[e] = task[e]
    BY <1>1
  <1>4. task[e].msg = NoMsg
    BY <1>1, Here
  <1>5. Elems(chan[e]) = {m} \cup Elems(Tail(chan[e]))
    BY <1>1, TailElems DEF m
  <1>6. Carried(e)' = Elems(Tail(chan[e])) \cup {task'[e].msg}
    BY <1>3 DEF Carried, Elems
  <1>7. mux[e] = "ATTACHED" => Carried(e)' = Elems(chan[e])
    BY <1>3, <1>5, <1>6
  <1>8. mux[e] # "ATTACHED" => Carried(e)' \subseteq Carried(e)
    BY <1>3, <1>5, <1>6, CarriedIs
  <1> QED BY <1>1, <1>2, <1>3, <1>4, <1>7, <1>8, CarriedIs DEF m

LEMMA ArriveOpener ==
  ASSUME WindowInv, WindowInv', PipeInv, Arrive(A) PROVE Stepped
  <1>1. A \in Ends /\ B \in Ends /\ A # B /\ str = [str EXCEPT ![A] = str[A]]
    BY EndsFacts, Here
  <1>2. UNCHANGED <<mux, conn, inmap, str, outps, tick, told, sent, got>>
    BY DEF Arrive
  <1>3. chan'[B] = chan[B] /\ task'[B] = task[B] /\ Carried(A)' \subseteq Carried(A)
    BY <1>1, ArriveCarried
  <1> QED BY <1>1, <1>2, <1>3, OpenerTask DEF Same

(* No SYN comes to A. *)
LEMMA NoSynHere ==
  ASSUME WindowInv PROVE task[A].msg.type # "SYN"
  <1> DEFINE m == task[A].msg
  <1>1. A \in Ends /\ m \in Held
    BY EndsFacts, Here
  <1>2. Toward("syn", A) = 0
    BY DEF WindowInv, OneSyn
  <1>3. Len(Flow("syn", chan[A])) \in Nat /\ Len(Load("syn", m)) \in Nat
    BY <1>1, TowardType DEF WindowInv, Kinds
  <1>4. m.type = "SYN" => Len(Load("syn", m)) = 1
    BY <1>1, LoadFacts DEF Kinds
  <1>5. Len(Load("syn", m)) = 0
    BY <1>2, <1>3 DEF Toward
  <1> QED BY <1>4, <1>5

LEMMA LookupOpener ==
  ASSUME WindowInv, WindowInv', PipeInv, Lookup(A) PROVE Stepped
  <1> DEFINE m == task[A].msg
  <1>1. A \in Ends /\ B \in Ends /\ A # B /\ Other(A) = B /\ str = [str EXCEPT ![A] = str[A]]
        /\ task \in [Ends -> Tasks] /\ m \in Held
    BY EndsFacts, Here DEF WindowInv, Typed, Around
  <1>2. UNCHANGED <<mux, conn, tick, told, sent, got>>
    BY DEF Lookup
  <1>3. m.type # "SYN"
    BY NoSynHere
  <1>4. CASE SendRst(A) /\ TaskDone(A) /\ UNCHANGED <<str, inmap>>
    <2>1. /\ chan'[A] = chan[A] /\ outps'[B] = outps[B]
          /\ chan'[B] \in {chan[B], Append(chan[B], [type |-> "RST"])}
      BY <1>1, <1>4, RstGoes
    <2>2. task'[B] = task[B] /\ \A d \in Carried(A)' : d \in Carried(A) \/ d.type = "none"
      BY <1>1, <1>4, <2>1, TaskCarried
    <2> QED BY <1>1, <1>2, <1>4, <2>1, <2>2, OpenerTask DEF Same
  <1>5. CASE TaskDone(A) /\ UNCHANGED <<str, inmap, outps, chan>>
    <2>1. task'[B] = task[B] /\ \A d \in Carried(A)' : d \in Carried(A) \/ d.type = "none"
      BY <1>1, <1>5, TaskCarried
    <2> QED BY <1>1, <1>2, <1>5, <2>1, OpenerTask DEF Same
  <1>6. CASE task' = [task EXCEPT ![A].pc = "apply"] /\ UNCHANGED <<str, inmap, outps, chan>>
    <2>1. task'[B] = task[B] /\ task'[A].msg = m
      BY <1>1, <1>6 DEF Tasks
    <2>2. \A d \in Carried(A)' : d \in Carried(A)
      BY <1>6, <2>1 DEF Carried
    <2> QED BY <1>1, <1>2, <1>6, <2>1, <2>2, OpenerTask DEF Same
  <1> QED BY <1>3, <1>4, <1>5, <1>6 DEF Lookup

LEMMA ApplyOpener ==
  ASSUME WindowInv, WindowInv', PipeInv, Apply(A) PROVE Stepped
  <1> DEFINE m == task[A].msg
             s == str[A]
  <1>1. A \in Ends /\ B \in Ends /\ A # B /\ Other(A) = B /\ str = [str EXCEPT ![A] = s]
        /\ s \in Streams
    BY EndsFacts, Here
  <1>2. UNCHANGED <<mux, conn, inmap, tick, told, sent, got>> /\ task[A].pc = "apply" /\ TaskDone(A)
    BY DEF Apply
  <1>3. m \in Msgs /\ m.type \in {"DATA", "UWND", "FIN", "RST"} /\ Has(s)
    <2>1. Tasked(task[A], s)
      BY <1>1, Here
    <2>2. m \in Msgs /\ m.type # "SYN" /\ Has(s)
      BY <1>2, <2>1 DEF Tasked
    <2> QED BY <2>2, MsgFacts DEF Held
  <1>4. CASE Refused(m, s)
    <2>1. SendRst(A) /\ str' = str
      BY <1>4 DEF Apply
    <2>2. /\ chan'[A] = chan[A] /\ outps'[B] = outps[B]
          /\ chan'[B] \in {chan[B], Append(chan[B], [type |-> "RST"])}
      BY <1>1, <2>1, RstGoes
    <2>3. task'[B] = task[B] /\ \A d \in Carried(A)' : d \in Carried(A) \/ d.type = "none"
      BY <1>1, <1>2, <2>2, TaskCarried
    <2> QED BY <1>1, <1>2, <2>1, <2>2, <2>3, OpenerTask DEF Same
  <1>5. CASE ~Refused(m, s)
    <2> DEFINE t == Applied(m, s)
    <2>1. str' = [str EXCEPT ![A] = t] /\ UNCHANGED <<outps, chan>>
      BY <1>5 DEF Apply
    <2>2. task'[B] = task[B] /\ \A d \in Carried(A)' : d \in Carried(A) \/ d.type = "none"
      BY <1>1, <1>2, <2>1, TaskCarried
    <2>3. CASE m.type = "RST"
      <3>1. t = ForceClose(s)
        BY <2>3 DEF Applied
      <3>2. /\ t.wb = s.wb /\ t.incre = s.incre /\ ~Sends(t) /\ s.flag \subseteq t.flag /\ Has(t)
            /\ "PLAN_SYN" \in t.flag <=> "PLAN_SYN" \in s.flag
        BY <1>1, <3>1, ForceCloseFacts
      <3>3. "WRITE_SHUTDOWN" \in t.flag
        BY <1>1, <3>1 DEF ForceClose, Streams, BothShut
      <3>4. ~Live
        BY <2>3, CarriedIs DEF PipeInv, Packets
      <3> HIDE DEF t
      <3>5. Stopped(s, t)
        BY <1>3, <3>2, <3>3 DEF Stopped
      <3> QED BY <1>2, <2>1, <2>2, <3>4, <3>5, OpenerTask
    <2>4. CASE m.type # "RST"
      <3>1. /\ t.wb = s.wb /\ t.incre = s.incre /\ t.flag = s.flag /\ t.st = s.st
        <4>1. CASE m.type = "DATA"
          BY <1>1, <4>1 DEF Applied, Streams
        <4>2. CASE m.type = "UWND"
          BY <1>1, <4>2 DEF Applied, Streams
        <4>3. CASE m.type = "FIN"
          BY <1>1, <4>3 DEF Applied
        <4> QED BY <1>3, <2>4, <4>1, <4>2, <4>3
      <3> HIDE DEF t
      <3>2. Same(s, t)
        BY <3>1 DEF Same
      <3> QED BY <1>2, <2>1, <2>2, <3>2, OpenerTask
    <2> QED BY <2>3, <2>4
  <1> QED BY <1>4, <1>5

(* The event task of B, when no byte moves. *)
LEMMA ReaderTask ==
  ASSUME WindowInv, WindowInv', PipeInv, NEW t, str' = [str EXCEPT ![B] = t], t.rb = str[B].rb,
         "READ_SHUTDOWN" \in str[B].flag => "READ_SHUTDOWN" \in t.flag,
         UNCHANGED <<mux, conn, told, tick, sent, got>>, inmap'[A] = inmap[A], inmap[B] => inmap'[B],
         inmap'[B] = inmap[B] \/ ~told[B],
         task'[A] = task[A], chan'[B] = chan[B], task'[B].msg = task[B].msg \/ task'[B].msg = NoMsg,
         ~Live \/ (chan'[A] = chan[A] /\ outps'[B] = outps[B]),
         task[B].msg.type = "SYN" => task'[B].msg = task[B].msg \/ inmap'[B],
         InHand' = InHand \/ (InHand' = <<>> /\ ~Accepting')
  PROVE  Stepped
  <1>1. A \in Ends /\ B \in Ends /\ A # B /\ str \in [Ends -> Streams]
    BY EndsFacts DEF WindowInv, Typed
  <1>2. str'[A] = str[A] /\ str'[B] = t
    BY <1>1
  <1>3. ToldInv /\ Ordered(chan[B]) /\ (task[B].msg.type = "DATA" => NoSyn(chan[B]))
    BY DEF PipeInv, Order
  <1>4. ToldInv'
    BY <1>1, <1>2, <1>3, EndsFacts DEF ToldInv, Deaf
  <1>5. Accepting' => Accepting
    BY <1>2 DEF Accepting
  <1>6. Carried(B)' = Elems(chan[B]) \cup {task'[B].msg}
    BY DEF Carried, Elems
  <1>7. /\ \A m \in Carried(B)' : m \in Carried(B) \/ m.type = "none"
        /\ \A m \in Carried(B) : m.type = "SYN" => m \in Carried(B)' \/ inmap'[B]
    BY <1>6, CarriedIs DEF NoMsg
  <1>8. \A m \in Carried(A)' : m \in Carried(A) \/ m.type # "RST" \/ ~Live
    BY DEF Carried
  <1>9. task'[B].msg.type = "DATA" => NoSyn(chan'[B])
    BY <1>3 DEF NoMsg
  <1>10. tick'[A] = tick[A] /\ (outps'[B] > 0 => outps[B] > 0 \/ ~Live) /\ Ordered(chan'[B])
    BY <1>3
  <1>11. PipeInv' /\ (Live' => Live)
    BY <1>2, <1>4, <1>5, <1>7, <1>8, <1>9, <1>10, ReaderInv
  <1>12. Ready' = Ready /\ InFlight(B)' = InFlight(B)
    BY <1>2 DEF Ready, InFlight
  <1>13. PipeSteps /\ Hearing
    BY <1>2, <1>5, <1>11, <1>12, QuietMaps
  <1> QED BY <1>11, <1>13 DEF Stepped

(* A SYN in the hands of the task: B has no stream yet. *)
LEMMA SynIsFirst ==
  ASSUME WindowInv, task[B].msg.type = "SYN"
  PROVE  ~Has(str[B]) /\ str[B] = NewStream /\ ~inmap[B]
  <1>1. B \in Ends /\ task[B].msg \in Held /\ Local(str[B], inmap[B], tick[B], task[B])
    BY EndsFacts, Here
  <1>2. Len(Load("syn", task[B].msg)) = 1
    BY <1>1, LoadFacts DEF Kinds
  <1>3. Len(Flow("syn", chan[B])) \in Nat
    BY <1>1, TowardType DEF WindowInv, Kinds
  <1> DEFINE a == Len(Flow("syn", chan[B]))
             b == Len(Load("syn", task[B].msg))
  <1>a. Toward("syn", B) = a + b /\ a \in Nat /\ b = 1
    BY <1>2, <1>3 DEF Toward
  <1> HIDE DEF a, b
  <1>4. Toward("syn", B) >= 1 /\ Toward("syn", B) \in Nat
    BY <1>a
  <1>5. Single(One(Plans(str[A])), Toward("syn", B), One(Has(str[B])))
    BY DEF WindowInv, OneSyn
  <1>6. One(Has(str[B])) = 0
    BY <1>4, <1>5, OneType, SingleFacts
  <1>7. ~Has(str[B])
    BY <1>6 DEF One
  <1> QED BY <1>1, <1>7 DEF Local

(* Data that find no stream, or a reader that is done, come too late. *)
LEMMA StrayData ==
  ASSUME WindowInv, PipeInv, NEW m \in Carried(B), m.type = "DATA",
         \A d \in Carried(B) : d.type # "SYN", ~inmap[B]
  PROVE  ~Accepting
  <1>1. ~Plans(str[A])
    BY DEF PipeInv, Packets, Proper
  <1> QED BY <1>1 DEF PipeInv, Order

LEMMA LookupReader ==
  ASSUME WindowInv, WindowInv', PipeInv, Lookup(B) PROVE Stepped
  <1> DEFINE m == task[B].msg
  <1>1. A \in Ends /\ B \in Ends /\ A # B /\ Other(B) = A /\ str = [str EXCEPT ![B] = str[B]]
        /\ task \in [Ends -> Tasks] /\ m \in Held /\ inmap \in [Ends -> BOOLEAN]
    BY EndsFacts, Here DEF WindowInv, Typed, Around
  <1>2. UNCHANGED <<mux, conn, tick, told, sent, got>> /\ task[B].pc = "lookup"
    BY DEF Lookup
  <1>3. m \in Msgs /\ m.type \in {"DATA", "UWND", "SYN", "FIN", "RST"}
    <2>1. Tasked(task[B], str[B])
      BY <1>1, Here
    <2>2. m \in Msgs
      BY <1>2, <2>1 DEF Tasked
    <2> QED BY <2>2, MsgFacts DEF Held
  <1>4. ASSUME TaskDone(B), chan'[B] = chan[B]
        PROVE  task'[A] = task[A] /\ task'[B].msg = NoMsg /\ InHand' = <<>>
    <2>1. task'[A] = task[A] /\ task'[B].msg = NoMsg
      BY <1>1, <1>4, TaskCarried
    <2> QED BY <2>1 DEF InHand, Bytes, NoMsg
  <1>5. ~inmap[B] \/ m.type # "DATA" => InHand = <<>>
    BY <1>2 DEF InHand, Applying, Bytes
  <1>6. CASE /\ m.type = "SYN" /\ ~inmap[B]
             /\ str' = [str EXCEPT ![B] = [NewStream EXCEPT !.st = "ESTABLISHED"]]
             /\ inmap' = [inmap EXCEPT ![B] = TRUE]
             /\ TaskDone(B) /\ UNCHANGED <<outps, chan>>
    <2> DEFINE t == [NewStream EXCEPT !.st = "ESTABLISHED"]
    <2>1. str[B] = NewStream
      BY <1>6, SynIsFirst
    <2>2. t.rb = str[B].rb /\ t.flag = str[B].flag /\ str[B].flag = {}
      BY <2>1 DEF NewStream
    <2> HIDE DEF t
    <2>3. inmap'[A] = inmap[A] /\ inmap'[B]
      BY <1>1, <1>6
    <2>4. ~told[B]
      BY <1>1, <2>2 DEF PipeInv, ToldInv, Deaf
    <2>5. str' = [str EXCEPT ![B] = t]
      BY <1>6 DEF t
    <2> QED BY <1>2, <1>4, <1>5, <1>6, <2>2, <2>3, <2>4, <2>5, ReaderTask
  <1>7. CASE (m.type = "SYN") = inmap[B] /\ m.type # "RST" /\ SendRst(B) /\ TaskDone(B) /\ UNCHANGED <<str, inmap>>
    <2>1. chan'[B] = chan[B]
      BY <1>1, <1>7, RstGoes
    <2>2. m.type # "SYN" /\ ~inmap[B]
      BY <1>1, <1>7, SynIsFirst
    <2>3. ~Live
      <3>1. m \in Carried(B)
        BY CarriedIs
      <3>2. m.type # "UWND" /\ (m.type = "FIN" => ~Live)
        BY <3>1 DEF PipeInv, Packets, Proper
      <3>3. ASSUME m.type = "DATA" PROVE ~Live
        <4>1. NoSyn(chan[B])
          BY <3>3 DEF PipeInv, Order
        <4>2. \A d \in Carried(B) : d.type # "SYN"
          BY <2>2, <4>1, CarriedIs, NoSynElems
        <4>3. ~Accepting
          BY <2>2, <3>1, <3>3, <4>2, StrayData
        <4> QED BY <4>3 DEF Live
      <3> QED BY <1>3, <1>7, <2>2, <3>2, <3>3
    <2> QED BY <1>1, <1>2, <1>4, <1>5, <1>7, <2>1, <2>2, <2>3, ReaderTask
  <1>8. CASE m.type = "RST" /\ TaskDone(B) /\ UNCHANGED <<str, inmap, outps, chan>>
    BY <1>1, <1>2, <1>4, <1>5, <1>8, ReaderTask
  <1>9. CASE inmap[B] /\ task' = [task EXCEPT ![B].pc = "apply"] /\ UNCHANGED <<str, inmap, outps, chan>>
    <2>1. task'[A] = task[A] /\ task'[B].msg = m /\ task'[B].pc = "apply"
      BY <1>1, <1>9 DEF Tasks
    <2>2. Applying' <=> Applying
      BY <1>9, <2>1 DEF Applying
    <2>3. InHand' = InHand
      BY <2>1, <2>2 DEF InHand
    <2> QED BY <1>1, <1>2, <1>9, <2>1, <2>3, ReaderTask
  <1> QED BY <1>6, <1>7, <1>8, <1>9 DEF Lookup

LEMMA JoinedReady ==
  ASSUME NEW a \in Seq(Nat), NEW b \in Seq(Nat), NEW c \in Seq(Nat), NEW d \in Seq(Nat)
  PROVE  Joined(Cat(a, b), <<>>, c, d) = Joined(a, b, c, d)
  <1> DEFINE s == a \o b
  <1>1. s \in Seq(Nat)
    BY ConcatFacts
  <1>2. Joined(Cat(a, b), <<>>, c, d) = ((s \o <<>>) \o c) \o d /\ Joined(a, b, c, d) = (s \o c) \o d
    BY DEF Joined, Cat
  <1> HIDE DEF s
  <1>3. s \o <<>> = s
    BY <1>1, ConcatEmpty
  <1> QED BY <1>2, <1>3

LEMMA JoinedHand ==
  ASSUME NEW a \in Seq(Nat), NEW b \in Seq(Nat), NEW c \in Seq(Nat), NEW d \in Seq(Nat)
  PROVE  Joined(a, <<>>, Cat(b, c), d) = Joined(a, b, c, d)
  <1>1. a \o <<>> = a
    BY ConcatEmpty
  <1>2. (a \o b) \o c = a \o (b \o c)
    BY ConcatAssoc
  <1>3. Joined(a, <<>>, Cat(b, c), d) = ((a \o <<>>) \o (b \o c)) \o d
    BY DEF Joined, Cat
  <1>4. Joined(a, b, c, d) = ((a \o b) \o c) \o d
    BY DEF Joined
  <1> QED BY <1>1, <1>2, <1>3, <1>4

(* The bytes of the task join those that wait. *)
LEMMA ApplyDataPipes ==
  ASSUME WindowInv, WindowInv', PipeInv, task[B].pc = "apply", task[B].msg.type = "DATA",
         "READ_SHUTDOWN" \notin str[B].flag, TaskDone(B),
         str' = [str EXCEPT ![B] = [str[B] EXCEPT !.rb = str[B].rb \o task[B].msg.data]],
         UNCHANGED <<outps, chan, inmap, mux, conn, tick, told, sent, got>>
  PROVE  Stepped
  <1> DEFINE s == str[B]
             d == task[B].msg.data
             x == s.rb \o d
             t == [s EXCEPT !.rb = x]
  <1>1. A \in Ends /\ B \in Ends /\ A # B /\ str \in [Ends -> Streams] /\ s \in Streams
    BY EndsFacts DEF WindowInv, Typed
  <1> HIDE DEF x, d
  <1>2. t.flag = s.flag /\ t.rb = x
    BY <1>1 DEF Streams
  <1>3. str' = [str EXCEPT ![B] = t]
    BY DEF x, d
  <1> HIDE DEF t
  <1>4. str'[A] = str[A] /\ str'[B] = t
    BY <1>1, <1>3
  <1>5. /\ task'[A] = task[A] /\ task'[B].msg = NoMsg
        /\ Carried(B)' = Elems(chan[B]) \cup {NoMsg}
        /\ \A m \in Carried(B)' : m \in Carried(B) \/ m.type = "none"
    BY <1>1, TaskCarried
  <1>6. ToldInv' /\ (Accepting' <=> Accepting)
    BY <1>1, <1>2, <1>4, EndsFacts DEF PipeInv, ToldInv, Deaf, Accepting
  <1>7. \A m \in Carried(B) : m.type = "SYN" => m \in Carried(B)'
    BY <1>5, CarriedIs
  <1>8. Carried(A)' = Carried(A)
    BY <1>5 DEF Carried
  <1>9. Ordered(chan[B]) /\ task'[B].msg.type # "DATA"
    BY <1>5 DEF PipeInv, Order, NoMsg
  <1>10. PipeInv' /\ (Sending' <=> Sending)
    BY <1>4, <1>5, <1>6, <1>7, <1>8, <1>9, ReaderInv
  <1>11. /\ Ready \in Seq(Nat) /\ InHand \in Seq(Nat) /\ Coming \in Seq(Nat) /\ Backlog \in Seq(Nat)
    BY PartsType DEF Parts
  <1>12. InHand = d /\ InHand' = <<>>
    BY <1>5 DEF InHand, Applying, Bytes, NoMsg, d
  <1>13. Ready' = Cat(Ready, InHand)
    BY <1>2, <1>4, <1>12 DEF Ready, Cat, x
  <1>14. Coming' = Coming /\ Backlog' = Backlog
    BY <1>4, <1>6, <1>10 DEF Coming, InFlight, Backlog
  <1>15. Whole' = Whole
    <2>1. Joined(Cat(Ready, InHand), <<>>, Coming, Backlog) = Joined(Ready, InHand, Coming, Backlog)
      BY <1>11, JoinedReady
    <2> QED BY <1>12, <1>13, <1>14, <2>1 DEF Whole
  <1>16. Live' <=> Live
    BY <1>6, <1>10 DEF Live
  <1>17. PipeSteps
    BY <1>15, <1>16, Stays
  <1> QED BY <1>10, <1>17 DEF Stepped, Hearing

LEMMA ApplyReader ==
  ASSUME WindowInv, WindowInv', PipeInv, Apply(B) PROVE Stepped
  <1> DEFINE m == task[B].msg
             s == str[B]
  <1>1. A \in Ends /\ B \in Ends /\ A # B /\ Other(B) = A /\ str = [str EXCEPT ![B] = s]
        /\ s \in Streams
    BY EndsFacts, Here
  <1>2. UNCHANGED <<mux, conn, inmap, tick, told, sent, got>> /\ task[B].pc = "apply" /\ TaskDone(B)
    BY DEF Apply
  <1>3. m.type \in {"DATA", "UWND", "FIN", "RST"}
    <2>1. Tasked(task[B], s)
      BY <1>1, Here
    <2>2. m \in Msgs /\ m.type # "SYN"
      BY <1>2, <2>1 DEF Tasked
    <2> QED BY <2>2, MsgFacts DEF Held
  <1>4. ASSUME chan'[B] = chan[B] PROVE task'[A] = task[A] /\ task'[B].msg = NoMsg /\ InHand' = <<>>
    <2>1. task'[A] = task[A] /\ task'[B].msg = NoMsg
      BY <1>1, <1>2, <1>4, TaskCarried
    <2> QED BY <2>1 DEF InHand, Bytes, NoMsg
  <1>5. CASE Refused(m, s)
    <2>1. SendRst(B) /\ str' = str
      BY <1>5 DEF Apply
    <2>2. chan'[B] = chan[B]
      BY <1>1, <2>1, RstGoes
    <2>3. "READ_SHUTDOWN" \in s.flag /\ m.type = "DATA"
      BY <1>5 DEF Refused
    <2>4. ~Live /\ InHand = <<>>
      BY <2>3 DEF Live, Accepting, InHand, Applying
    <2> QED BY <1>1, <1>2, <1>4, <2>1, <2>2, <2>3, <2>4, ReaderTask
  <1>6. CASE ~Refused(m, s) /\ m.type = "DATA"
    <2>1. str' = [str EXCEPT ![B] = Applied(m, s)] /\ UNCHANGED <<outps, chan>>
      BY <1>6 DEF Apply
    <2>2. "READ_SHUTDOWN" \notin s.flag /\ Applied(m, s) = [s EXCEPT !.rb = s.rb \o m.data]
      BY <1>6 DEF Refused, Applied
    <2> QED BY <1>2, <1>6, <2>1, <2>2, ApplyDataPipes
  <1>7. CASE m.type # "DATA"
    <2> DEFINE t == Applied(m, s)
    <2>1. str' = [str EXCEPT ![B] = t] /\ UNCHANGED <<outps, chan>>
      BY <1>7 DEF Apply, Refused
    <2>2. InHand = <<>>
      BY <1>7 DEF InHand, Bytes
    <2>3. t.rb = s.rb /\ ("READ_SHUTDOWN" \in s.flag => "READ_SHUTDOWN" \in t.flag)
      <3>1. CASE m.type = "UWND"
        BY <1>1, <3>1 DEF Applied, Streams
      <3>2. CASE m.type = "FIN"
        BY <3>2 DEF Applied
      <3>3. CASE m.type = "RST"
        <4>1. t = ForceClose(s)
          BY <3>3 DEF Applied
        <4> QED BY <1>1, <4>1, ForceCloseFacts
      <3> QED BY <1>3, <1>7, <3>1, <3>2, <3>3
    <2> HIDE DEF t
    <2> QED BY <1>2, <1>3, <1>4, <2>1, <2>2, <2>3, ReaderTask
  <1> QED BY <1>5, <1>6, <1>7

LEMMA ArriveReader ==
  ASSUME WindowInv, WindowInv', PipeInv, Arrive(B) PROVE Stepped
  <1> DEFINE m == Head(chan[B])
             r == Tail(chan[B])
  <1>1. A \in Ends /\ B \in Ends /\ A # B
    BY EndsFacts
  <1>2. UNCHANGED <<mux, conn, inmap, str, outps, tick, told, sent, got>> /\ conn[B]
    BY DEF Arrive
  <1>3. /\ m \in Msgs /\ chan[B] \in Seq(Msgs) /\ chan[B] # <<>>
        /\ chan'[B] = r /\ chan'[A] = chan[A] /\ task'[A] = task[A]
        /\ mux[B] = "ATTACHED" => task'[B] = [pc |-> "lookup", msg |-> m]
        /\ mux[B] # "ATTACHED" => task'[B] = task[B]
        /\ task[B].msg = NoMsg
        /\ Carried(B)' \subseteq Carried(B)
        /\ mux[B] = "ATTACHED" => Carried(B)' = Elems(chan[B])
    BY <1>1, ArriveCarried
  <1>4. /\ Elems(chan[B]) = {m} \cup Elems(r)
        /\ Ordered(chan[B]) => Ordered(r)
        /\ Ordered(chan[B]) /\ m.type = "DATA" => NoSyn(r)
    BY <1>3, TailElems
  <1>5. Flow("data", chan[B]) = Load("data", m) \o Flow("data", r)
    BY <1>3, FlowTail DEF Kinds
  <1>6. Load("data", m) = Bytes(m) /\ Bytes(m) \in Seq(Nat)
    BY <1>3, LoadFacts DEF Held, Kinds
  <1> HIDE DEF m, r
  <1>7. ToldInv' /\ (Accepting' <=> Accepting) /\ ToldInv /\ Ordered(chan[B])
    BY <1>2 DEF PipeInv, ToldInv, Accepting, Order
  <1>8. Carried(A)' = Carried(A)
    BY <1>3 DEF Carried
  <1>9. Accepting' => mux[B] = "ATTACHED"
    BY <1>7 DEF Accepting
  <1>10. Accepting' => \A d \in Carried(B) : d.type = "SYN" => d \in Carried(B)'
    BY <1>3, <1>9, CarriedIs DEF NoMsg
  <1>11. Ordered(chan'[B]) /\ (task'[B].msg.type = "DATA" => NoSyn(chan'[B]))
    BY <1>3, <1>4, <1>7 DEF NoMsg
  <1>12. tick'[A] = tick[A] /\ str'[A] = str[A] /\ inmap'[B] = inmap[B] /\ outps'[B] = outps[B]
    BY <1>2
  <1>13. PipeInv' /\ (Sending' <=> Sending)
    BY <1>2, <1>3, <1>7, <1>8, <1>10, <1>11, <1>12, ReaderInv
  <1>14. Ready' = Ready /\ InHand = <<>> /\ Backlog' = Backlog
    BY <1>2, <1>3, <1>7, <1>13 DEF Ready, InHand, Bytes, NoMsg, Backlog
  <1>15. CASE ~Accepting
    <2>1. InHand' = <<>>
      <3>1. CASE mux[B] = "ATTACHED"
        <4>1. "READ_SHUTDOWN" \in str[B].flag
          BY <1>1, <1>2, <1>7, <1>15, <3>1 DEF Accepting, ToldInv, Deaf
        <4> QED BY <1>2, <4>1 DEF InHand, Applying
      <3>2. CASE mux[B] # "ATTACHED"
        BY <1>3, <3>2 DEF InHand, Bytes, NoMsg
      <3> QED BY <3>1, <3>2
    <2>2. Whole' = Whole
      BY <1>7, <1>14, <1>15, <2>1 DEF Whole, Coming, Backlog
    <2>3. PipeSteps
      BY <1>2, <1>7, <1>13, <2>2, Stays DEF Live
    <2> QED BY <1>13, <1>14, <2>3 DEF Stepped, Hearing
  <1>16. CASE Accepting
    <2>1. "READ_SHUTDOWN" \notin str[B].flag /\ mux[B] = "ATTACHED"
      BY <1>16 DEF Accepting
    <2>2. task'[B].msg = m /\ task'[B].pc = "lookup"
      BY <1>3, <2>1
    <2>3. InHand' = Bytes(m)
      <3>1. CASE m.type = "DATA"
        <4>1. NoSyn(r)
          BY <1>4, <1>7, <3>1
        <4>2. \A d \in Carried(B) : d.type # "SYN"
          BY <1>3, <1>4, <3>1, <4>1, CarriedIs, NoSynElems DEF NoMsg
        <4>3. m \in Carried(B)
          BY <1>4, CarriedIs
        <4>4. inmap[B]
          BY <1>16, <3>1, <4>2, <4>3, StrayData
        <4> QED BY <1>2, <2>1, <2>2, <4>4 DEF InHand, Applying
      <3>2. CASE m.type # "DATA"
        BY <2>2, <3>2 DEF InHand, Bytes
      <3> QED BY <3>1, <3>2
    <2>4. Coming = Cat(Bytes(m), Coming')
      <3>1. Known /\ Known'
        BY KnownIs, PTL
      <3> QED BY <1>3, <1>5, <1>6, <1>7, <1>16, <3>1 DEF Known, Coming, Cat
    <2>5. Parts /\ Parts'
      BY PartsType, PTL
    <2>6. Ready \in Seq(Nat) /\ Coming' \in Seq(Nat) /\ Backlog \in Seq(Nat)
      BY <2>5 DEF Parts
    <2>7. Whole' = Whole
      <3>1. Joined(Ready, <<>>, Cat(Bytes(m), Coming'), Backlog) = Joined(Ready, Bytes(m), Coming', Backlog)
        BY <1>6, <2>6, JoinedHand
      <3> QED BY <1>14, <2>3, <2>4, <3>1 DEF Whole
    <2>8. PipeSteps
      BY <1>2, <1>7, <1>13, <2>7, Stays DEF Live
    <2> QED BY <1>13, <1>14, <2>8 DEF Stepped, Hearing
  <1> QED BY <1>15, <1>16

(* One step per action, and per end where the two ends do different things. *)
LEMMA TickPipes ==
  ASSUME WindowInv, WindowInv', PipeInv, NEW e \in Ends, Tick(e) PROVE Stepped
  <1>1. TickDetermine(e) \/ TickResize(e) \/ TickSyn(e) \/ TickData(e) => e = A
    <2> SUFFICES ASSUME TickDetermine(e) \/ TickResize(e) \/ TickSyn(e) \/ TickData(e) PROVE e = A
      OBVIOUS
    <2>1. tick[e].pc \in {"det", "resize", "syn", "data"}
      BY DEF TickDetermine, TickResize, TickSyn, TickData, At
    <2> QED BY <2>1, WriterTicks
  <1>2. CASE e = A
    BY <1>2, TickBeginOpener, TickWndPipes, TickCheckPipes, TickFinPipes, TickDeterminePipes,
       TickResizePipes, TickSynPipes, TickDataPipes DEF Tick
  <1>3. CASE e = B
    <2>1. TickBegin(B) \/ TickWnd(B) \/ TickCheck(B) \/ TickFin(B)
      BY <1>1, <1>3, EndsFacts DEF Tick
    <2> QED BY <2>1, TickBeginReader, ReaderTicks
  <1> QED BY <1>2, <1>3, EndsFacts

LEMMA EventTaskPipes ==
  ASSUME WindowInv, WindowInv', PipeInv, NEW e \in Ends, EventTask(e) PROVE Stepped
  <1>1. CASE SocketClosed(e) \/ Drained(e)
    BY <1>1, SocketClosedPipes, DrainedPipes
  <1>2. CASE Arrive(e) \/ Lookup(e) \/ Apply(e)
    <2>1. CASE e = A
      BY <1>2, <2>1, ArriveOpener, LookupOpener, ApplyOpener
    <2>2. CASE e = B
      BY <1>2, <2>2, ArriveReader, LookupReader, ApplyReader
    <2> QED BY <2>1, <2>2, EndsFacts
  <1> QED BY <1>1, <1>2 DEF EventTask

LEMMA NextPipes ==
  ASSUME WindowInv, WindowInv', PipeInv, [Next]_vars PROVE Stepped
  <1>1. CASE UNCHANGED vars
    BY <1>1, StillPipes
  <1>2. ASSUME NEW e \in Ends, Close(e) \/ PeerClose(e) \/ PeerCloseEnds(e) \/ RemoteClosed(e)
        PROVE  Stepped
    BY <1>2, ClosePipes, PeerClosePipes, PeerCloseEndsPipes, RemoteClosedPipes
  <1>3. CASE Open \/ WriteBegin \/ Write \/ Read \/ Disconnect
    BY <1>3, OpenPipes, WriteBeginPipes, WritePipes, ReadPipes, DisconnectPipes
  <1> QED BY <1>1, <1>2, <1>3, TickPipes, EventTaskPipes DEF Next

-----------------------------------------------------------------------------
(* The one time the pipe shrinks.  Until the first flush of A the SYN is    *)
(* planned, so that B has no stream yet and nobody has read a byte.         *)
Determined == "BUFFER_DETERMINED" \in str[A].flag
FirstFlush ==
    /\ Plans(str[A]) => got = <<>>
    /\ tick[A].pc = "resize" => ~Determined

(* No step but the resize sets BUFFER_DETERMINED, and no step plans a SYN   *)
(* again.                                                                   *)
Marks(s, t) ==
    /\ "BUFFER_DETERMINED" \in t.flag <=> "BUFFER_DETERMINED" \in s.flag
    /\ Plans(t) => Plans(s)

LEMMA MarksFacts ==
  ASSUME NEW s \in Streams, Has(s)
  PROVE  /\ Marks(s, s)
         /\ Marks(s, ForceClose(s))
         /\ Marks(s, [ForceClose(s) EXCEPT !.st = "RECYCLE"])
         /\ Marks(s, CloseReadOf(s)) /\ Marks(s, CloseWriteOf(s)) /\ Marks(s, CloseOf(s))
         /\ Marks(s, [s EXCEPT !.st = "RECYCLE"])
         /\ BothShut \subseteq s.flag => Marks(s, [s EXCEPT !.st = "CLOSED"])
         /\ Marks(s, [s EXCEPT !.flag = (@ \ {"PLAN_FIN"}) \cup {"WRITE_SHUTDOWN"}])
  <1>1. Marks(s, s)
    BY DEF Marks
  <1>2. ForceClose(s) \in Streams /\ Marks(s, ForceClose(s))
        /\ Marks(s, [ForceClose(s) EXCEPT !.st = "RECYCLE"])
    BY DEF Marks, Plans, Has, Streams, ForceClose, BothShut, Flags
  <1>3. Marks(s, [s EXCEPT !.st = "RECYCLE"])
    BY DEF Marks, Plans, Has, Streams
  <1>4. BothShut \subseteq s.flag => Marks(s, [s EXCEPT !.st = "CLOSED"])
    BY DEF Marks, Plans, Has, Streams, BothShut
  <1>5. Marks(s, [s EXCEPT !.flag = (@ \ {"PLAN_FIN"}) \cup {"WRITE_SHUTDOWN"}])
    BY DEF Marks, Plans, Has, Streams
  <1>6. Marks(s, CloseReadOf(s)) /\ CloseReadOf(s) \in Streams /\ Has(CloseReadOf(s))
    <2>1. Tame(s, CloseReadOf(s))
      BY TameFacts
    <2>2. CloseReadOf(s).flag \subseteq s.flag \cup {"READ_SHUTDOWN_CALLED", "READ_SHUTDOWN"}
      BY DEF CloseReadOf, Streams
    <2> QED BY <2>1, <2>2 DEF Marks, Plans, Has, Tame
  <1>7. \A t \in Streams : Has(t) => Marks(t, CloseWriteOf(t))
    BY DEF Marks, Plans, Has, Streams, CloseWriteOf
  <1>8. Marks(s, CloseOf(s))
    <2>1. Marks(CloseReadOf(s), CloseWriteOf(CloseReadOf(s)))
      BY <1>6, <1>7
    <2> QED BY <1>6, <2>1 DEF Marks, CloseOf
  <1> QED BY <1>1, <1>2, <1>3, <1>4, <1>5, <1>6, <1>7, <1>8

LEMMA SameMarks ==
  ASSUME NEW s, NEW t, t.st = s.st, t.flag = s.flag PROVE Marks(s, t)
  BY DEF Marks, Plans, Has

LEMMA MarksApp ==
  ASSUME WindowInv,
         Open \/ WriteBegin \/ Write \/ Read \/ Disconnect \/ UNCHANGED vars
  PROVE  Marks(str[A], str'[A])
  <1>1. A \in Ends /\ B \in Ends /\ A # B /\ str \in [Ends -> Streams] /\ str[A] \in Streams
    BY EndsFacts DEF WindowInv, Typed
  <1>2. CASE Open
    <2>1. ~Has(str[A]) /\ str'[A].flag = {"PLAN_SYN"}
      BY <1>1, <1>2 DEF Open, HasStream, Has, NewStream
    <2> QED BY <2>1 DEF Marks, Plans, Has
  <1>3. CASE WriteBegin \/ Disconnect \/ UNCHANGED vars
    BY <1>3, SameMarks DEF WriteBegin, Disconnect, vars
  <1>4. CASE Write
    <2>1. str'[A].st = str[A].st /\ str'[A].flag = str[A].flag
      BY <1>1, <1>4 DEF Write, Streams
    <2> QED BY <2>1, SameMarks
  <1>5. CASE Read
    <2>1. PICK n : str' = [str EXCEPT ![B].rb = SubSeq(@, n + 1, Len(@)), ![B].incre = @ + n]
      BY <1>5 DEF Read
    <2>2. str'[A] = str[A]
      BY <1>1, <2>1
    <2> QED BY <2>2, SameMarks
  <1> QED BY <1>2, <1>3, <1>4, <1>5

LEMMA MarksElsewhere ==
  ASSUME WindowInv, NEW e \in Ends, e # A,
         \/ Close(e) \/ PeerClose(e) \/ PeerCloseEnds(e) \/ RemoteClosed(e)
         \/ Tick(e) \/ EventTask(e)
  PROVE  Marks(str[A], str'[A]) /\ tick'[A] = tick[A]
  <1>1. A \in Ends /\ str \in [Ends -> Streams] /\ tick \in [Ends -> Tickers]
    BY EndsFacts DEF WindowInv, Typed, Around
  <1>2. CASE Close(e) \/ PeerClose(e) \/ PeerCloseEnds(e) \/ RemoteClosed(e)
    <2>1. Close(e) => str'[A] = str[A] /\ tick' = tick
      BY <1>1 DEF Close
    <2>2. PeerClose(e) => str'[A] = str[A] /\ tick' = tick
      BY <1>1 DEF PeerClose
    <2>3. PeerCloseEnds(e) \/ RemoteClosed(e) => str' = str /\ tick' = tick
      BY DEF PeerCloseEnds, RemoteClosed
    <2> QED BY <1>2, <2>1, <2>2, <2>3, SameMarks
  <1>3. CASE EventTask(e)
    <2>1. str'[A] = str[A] /\ tick'[A] = tick[A]
      BY <1>1, <1>3 DEF EventTask, Arrive, Lookup, Apply, SocketClosed, Drained
    <2> QED BY <2>1, SameMarks
  <1>4. CASE TickBegin(e) \/ TickWnd(e) \/ TickCheck(e) \/ TickFin(e)
    <2>1. str'[A] = str[A] /\ tick'[A] = tick[A]
      BY <1>1, <1>4 DEF TickBegin, TickWnd, TickCheck, TickFin, SendFailed, Goto
    <2> QED BY <2>1, SameMarks
  <1>5. CASE TickDetermine(e) \/ TickResize(e) \/ TickSyn(e) \/ TickData(e)
    <2>1. tick[e].pc \in {"det", "resize", "syn", "data"}
      BY <1>5 DEF TickDetermine, TickResize, TickSyn, TickData, At
    <2> QED BY <2>1, WriterTicks
  <1> QED BY <1>2, <1>3, <1>4, <1>5 DEF Tick

LEMMA MarksHere ==
  ASSUME WindowInv,
         \/ Close(A) \/ PeerClose(A) \/ PeerCloseEnds(A) \/ RemoteClosed(A)
         \/ EventTask(A)
  PROVE  Marks(str[A], str'[A]) /\ tick' = tick
  <1>1. A \in Ends /\ str \in [Ends -> Streams] /\ str[A] \in Streams
    BY EndsFacts DEF WindowInv, Typed
  <1>2. inmap[A] => Has(str[A])
    BY <1>1, Here
  <1>3. CASE Close(A)
    <2>1. Has(str[A]) /\ tick' = tick
      BY <1>3 DEF Close, HasStream, Has
    <2>2. str'[A] \in {CloseReadOf(str[A]), CloseWriteOf(str[A]), CloseOf(str[A])}
      BY <1>1, <1>3 DEF Close
    <2> QED BY <1>1, <2>1, <2>2, MarksFacts
  <1>4. CASE PeerClose(A) \/ SocketClosed(A)
    <2>1. tick' = tick
      BY <1>4 DEF PeerClose, SocketClosed
    <2>2. str'[A] = IF inmap[A] THEN CloseOf(str[A]) ELSE str[A]
      BY <1>1, <1>4 DEF PeerClose, SocketClosed
    <2> QED BY <1>1, <1>2, <2>1, <2>2, MarksFacts, SameMarks
  <1>5. CASE PeerCloseEnds(A) \/ RemoteClosed(A) \/ Arrive(A) \/ Drained(A)
    <2>1. str' = str /\ tick' = tick
      BY <1>5 DEF PeerCloseEnds, RemoteClosed, Arrive, Drained
    <2> QED BY <2>1, SameMarks
  <1>6. CASE Lookup(A)
    <2>1. task[A].msg.type # "SYN"
      BY <1>1, NoSynHere
    <2>2. str' = str /\ tick' = tick
      BY <1>6, <2>1 DEF Lookup
    <2> QED BY <2>2, SameMarks
  <1>7. CASE Apply(A)
    <2> DEFINE m == task[A].msg
    <2>1. tick' = tick /\ task[A].pc = "apply" /\ str'[A] \in {str[A], Applied(m, str[A])}
      BY <1>1, <1>7 DEF Apply
    <2>2. Has(str[A]) /\ m \in Msgs /\ m.type # "SYN"
      BY <1>1, <2>1, Here DEF Tasked
    <2>3. m.type \in {"DATA", "UWND", "RST", "FIN"}
      BY <2>2, MsgFacts DEF Held
    <2>4. CASE m.type = "RST"
      BY <1>1, <2>1, <2>2, <2>4, MarksFacts DEF Applied
    <2>5. CASE m.type # "RST"
      <3>1. Applied(m, str[A]).st = str[A].st /\ Applied(m, str[A]).flag = str[A].flag
        BY <1>1, <2>3, <2>5 DEF Applied, Streams
      <3> QED BY <2>1, <3>1, SameMarks
    <2> QED BY <2>4, <2>5
  <1> QED BY <1>3, <1>4, <1>5, <1>6, <1>7 DEF EventTask

(* The ticker of A. *)
LEMMA MarksTick ==
  ASSUME WindowInv, Tick(A), ~TickResize(A)
  PROVE  Marks(str[A], str'[A]) /\ (tick'[A].pc = "resize" => ~Determined')
  <1> DEFINE s == str[A]
  <1>1. A \in Ends /\ str \in [Ends -> Streams] /\ s \in Streams
        /\ tick \in [Ends -> Tickers] /\ tick[A] \in Tickers
    BY EndsFacts DEF WindowInv, Typed, Around
  <1>2. (inmap[A] => Has(s)) /\ (tick[A].pc # Idle => Has(s))
    BY <1>1, Here
  <1>3. CASE TickBegin(A)
    <2>1. \/ str'[A] = s
          \/ inmap[A] /\ str'[A] \in {s, ForceClose(s), [s EXCEPT !.st = "RECYCLE"],
                                      [ForceClose(s) EXCEPT !.st = "RECYCLE"]}
      BY <1>1, <1>3 DEF TickBegin
    <2>2. tick'[A].pc # "resize"
      BY <1>1, <1>3 DEF TickBegin, MutexFree, Goto, Idle, Tickers
    <2> QED BY <1>1, <1>2, <2>1, <2>2, MarksFacts, SameMarks
  <1>4. CASE SendFailed(A) /\ tick[A].pc # Idle
    <2>1. str'[A] \in {s, ForceClose(s)} /\ tick'[A].pc = Idle
      BY <1>1, <1>4 DEF SendFailed, Goto, Tickers
    <2> QED BY <1>1, <1>2, <1>4, <2>1, MarksFacts DEF Idle
  <1>5. CASE TickWnd(A) /\ ~SendFailed(A)
    <2>1. str'[A].st = s.st /\ str'[A].flag = s.flag /\ tick'[A].pc = "chk"
      BY <1>1, <1>5 DEF TickWnd, Goto, Tickers, Streams
    <2> QED BY <2>1, SameMarks
  <1>6. CASE TickCheck(A)
    <2>1. tick[A].pc # Idle /\ tick'[A].pc # "resize"
      BY <1>1, <1>6 DEF TickCheck, At, Goto, Idle, Tickers
    <2>2. CASE str[A].incre = 0 /\ BothShut \subseteq s.flag
      <3>1. str'[A] = [s EXCEPT !.st = "CLOSED"]
        BY <1>1, <1>6, <2>2 DEF TickCheck
      <3> QED BY <1>1, <1>2, <2>1, <2>2, <3>1, MarksFacts
    <2>3. CASE ~(str[A].incre = 0 /\ BothShut \subseteq s.flag)
      <3>1. str' = str
        BY <1>6, <2>3 DEF TickCheck
      <3> QED BY <2>1, <3>1, SameMarks
    <2> QED BY <2>2, <2>3
  <1>7. CASE TickFin(A) /\ ~SendFailed(A)
    <2>1. tick[A].pc # Idle /\ tick'[A].pc = Idle
      BY <1>1, <1>7 DEF TickFin, At, Goto, Idle, Tickers
    <2>2. str'[A] \in {s, [s EXCEPT !.flag = (@ \ {"PLAN_FIN"}) \cup {"WRITE_SHUTDOWN"}]}
      BY <1>1, <1>7 DEF TickFin
    <2> QED BY <1>1, <1>2, <2>1, <2>2, MarksFacts DEF Idle
  <1>8. CASE TickDetermine(A)
    <2>1. str' = str /\ (tick'[A].pc = "resize" => ~Determined)
      BY <1>1, <1>8 DEF TickDetermine, Determined, Tickers
    <2> QED BY <2>1, SameMarks DEF Determined
  <1>9. CASE TickSyn(A) /\ ~SendFailed(A)
    <2>1. tick[A].pc # Idle /\ tick'[A].pc = "data"
      BY <1>1, <1>9 DEF TickSyn, At, Goto, Idle, Tickers
    <2>2. str'[A] = s \/ ("PLAN_SYN" \in s.flag /\ str'[A].flag = s.flag \ {"PLAN_SYN"})
      BY <1>1, <1>9 DEF TickSyn, Streams
    <2> QED BY <2>1, <2>2, SameMarks DEF Marks, Plans
  <1>10. CASE TickData(A) /\ ~SendFailed(A)
    <2>1. tick[A].pc # Idle /\ tick'[A].pc = Idle
      BY <1>1, <1>10 DEF TickData, At, Goto, Idle, Tickers
    <2>2. str'[A].st = s.st /\ str'[A].flag = s.flag
      BY <1>1, <1>10 DEF TickData, Streams
    <2> QED BY <2>1, <2>2, SameMarks DEF Idle
  <1>11. TickWnd(A) \/ TickFin(A) \/ TickSyn(A) \/ TickData(A) => tick[A].pc # Idle
    BY DEF TickWnd, TickFin, TickSyn, TickData, At, Idle
  <1> QED BY <1>3, <1>4, <1>5, <1>6, <1>7, <1>8, <1>9, <1>10, <1>11 DEF Tick

(* Data behind no SYN there is none. *)
LEMMA NoDataFlow ==
  ASSUME NEW c \in Seq(Msgs), \A i \in 1..Len(c) : c[i].type # "DATA"
  PROVE  Flow("data", c) = <<>>
  <1> DEFINE s == Loads("data", c)
             g == [i \in 0..Len(c) |-> <<>>]
  <1>1. Len(c) \in Nat /\ \A i \in 1..Len(c) : Load("data", c[i]) = <<>>
    BY DEF Load
  <1>2. s = [i \in 1..Len(c) |-> <<>>]
    BY <1>1 DEF Loads
  <1>3. s \in Seq(Seq(Nat)) /\ Len(s) = Len(c) /\ \A i \in 1..Len(s) : s[i] = <<>>
    <2>1. <<>> \in Seq(Nat)
      OBVIOUS
    <2>2. \A i \in 1..Len(c) : <<>> \in Seq(Nat)
      BY <2>1
    <2> HIDE DEF s
    <2> QED BY <1>1, <1>2, <2>2
  <1> HIDE DEF s
  <1>4. g[0] = <<>> /\ \A i \in 0..Len(c) : g[i] = <<>>
    BY <1>1
  <1>5. ASSUME NEW i \in 1..Len(s) PROVE g[i] = g[i - 1] \o s[i]
    <2>1. i \in 0..Len(c) /\ i - 1 \in 0..Len(c)
      BY <1>1, <1>3
    <2>2. g[i] = <<>> /\ g[i - 1] = <<>> /\ s[i] = <<>>
      BY <1>3, <1>4, <2>1
    <2>3. <<>> \o <<>> = <<>>
      OBVIOUS
    <2> QED BY <2>2, <2>3, Zenon
  <1> HIDE DEF g
  <1>6. Runs(g, s, Len(s))
    BY <1>4, <1>5 DEF Runs
  <1>7. FlattenSeq(s) = g[Len(s)]
    BY <1>3, <1>6, FlattenIs
  <1>8. Len(s) \in 0..Len(c)
    BY <1>1, <1>3
  <1> QED BY <1>4, <1>7, <1>8 DEF Flow, s

(* Before the first flush the pipe holds what A has written, and no more. *)
LEMMA Untouched ==
  ASSUME WindowInv, PipeInv, FirstFlush, ~Determined
  PROVE  got = <<>> /\ Ready = <<>> /\ InHand = <<>> /\ Coming = <<>>
  <1>1. A \in Ends /\ B \in Ends /\ chan[B] \in Seq(Msgs) /\ task[B].msg \in Held
    BY EndsFacts, Here
  <1>2. Plans(str[A])
    BY DEF WindowInv, Locals, Opener, Determined, Plans
  <1>3. got = <<>>
    BY <1>2 DEF FirstFlush
  <1>4. ~Has(str[B])
    <2>1. One(Plans(str[A])) = 1 /\ Toward("syn", B) \in Nat
      BY <1>1, <1>2, TowardType DEF One, WindowInv, Kinds
    <2>2. One(Plans(str[A])) + Toward("syn", B) + One(Has(str[B])) <= 1
      BY DEF WindowInv, OneSyn, Single
    <2>3. Has(str[B]) => One(Has(str[B])) = 1
      BY DEF One
    <2> QED BY <2>1, <2>2, <2>3
  <1>5. Ready = <<>>
    <2>1. str[B] = NewStream
      BY <1>1, <1>4, Here DEF Local
    <2> QED BY <2>1 DEF Ready, NewStream
  <1>6. \A m \in Carried(B) : m.type # "DATA"
    BY <1>2 DEF PipeInv, Packets, Proper
  <1>7. InHand = <<>>
    <2>1. task[B].msg.type # "DATA"
      BY <1>6, CarriedIs
    <2> QED BY <2>1 DEF InHand, Bytes
  <1>8. Coming = <<>>
    <2>1. \A i \in 1..Len(chan[B]) : chan[B][i].type # "DATA"
      BY <1>6 DEF Carried
    <2>2. InFlight(B) = Flow("data", chan[B])
      BY <1>1, InFlightIs DEF WindowInv
    <2> QED BY <1>1, <2>1, <2>2, NoDataFlow DEF Coming
  <1> QED BY <1>3, <1>5, <1>7, <1>8

(* The first flush is the one step that shrinks the pipe. *)
Shrinks ==
    /\ got = <<>> /\ ~Determined /\ Determined'
    /\ Whole' = SubSeq(Whole, 1, Least(TrySize, Len(Whole)))
    /\ sent' = sent /\ got' = got /\ (Live' <=> Live)

LEMMA ResizeShrinks ==
  ASSUME WindowInv, WindowInv', PipeInv, FirstFlush, TickResize(A)
  PROVE  Shrinks
  <1> DEFINE w == str[A].wb
             size == Least(TrySize, str[A].cap)
             b == SubSeq(w, 1, Least(size, Len(w)))
  <1>1. A \in Ends /\ str \in [Ends -> Streams] /\ str[A] \in Streams
    BY EndsFacts, Here DEF WindowInv, Typed
  <1>2. ~Determined /\ sent' = sent /\ got' = got
    BY DEF TickResize, At, FirstFlush
  <1>3. str'[A].flag = tick[A].seen \cup {"BUFFER_DETERMINED"} /\ str'[A].wb = b
    BY <1>1 DEF TickResize, Streams
  <1>4. got = <<>> /\ Ready = <<>> /\ InHand = <<>> /\ Coming = <<>>
    BY <1>2, Untouched
  <1>5. Ready' = Ready /\ InHand' = InHand /\ Coming' = Coming /\ (Live' <=> Live)
    BY TickResizePipes
  <1>6. Parts /\ Parts'
    BY PartsType, PTL
  <1>7. Backlog \in Seq(Nat) /\ Backlog' \in Seq(Nat) /\ w \in Seq(Nat)
    BY <1>6 DEF Parts
  <1>8. Whole = Backlog /\ Whole' = Backlog'
    <2>1. \A x \in Seq(Nat) : Joined(<<>>, <<>>, <<>>, x) = x
      BY ConcatEmpty DEF Joined
    <2>2. Whole = Joined(<<>>, <<>>, <<>>, Backlog) /\ Whole' = Joined(<<>>, <<>>, <<>>, Backlog')
      BY <1>4, <1>5 DEF Whole
    <2> QED BY <1>7, <2>1, <2>2
  <1>9. Least(size, Len(w)) = Least(TrySize, Len(w))
    <2>1. str[A].cap \in 1..Wnd /\ Len(w) \in Nat /\ Len(w) <= str[A].cap
      BY <1>1, <1>7, Here DEF Streams, Local
    <2> QED BY <2>1, ConstFacts DEF Least
  <1>10. Backlog' = SubSeq(Backlog, 1, Least(TrySize, Len(Backlog)))
    <2>1. CASE Live
      <3>1. Backlog = w /\ Backlog' = b
        BY <1>3, <1>5, <2>1 DEF Backlog, Live
      <3> QED BY <1>9, <3>1
    <2>2. CASE ~Live
      <3>1. Backlog = <<>> /\ Backlog' = <<>>
        BY <1>5, <2>2 DEF Backlog, Live
      <3>2. Least(TrySize, Len(Backlog)) = 0
        BY <3>1, ConstFacts DEF Least
      <3> QED BY <3>1, <3>2
    <2> QED BY <2>1, <2>2
  <1> QED BY <1>2, <1>3, <1>4, <1>5, <1>8, <1>10 DEF Shrinks, Determined

(* A byte is read when B has the stream, so that no SYN is planned. *)
LEMMA ReadAfterSyn ==
  ASSUME WindowInv, Read PROVE ~Plans(str[A])
  <1>1. A \in Ends /\ B \in Ends /\ str[B] \in Streams
    BY EndsFacts, Here
  <1>2. PICK n : n \in 1..Len(str[B].rb)
    BY DEF Read
  <1>3. str[B] # NewStream
    <2>1. str[B] = NewStream => Len(str[B].rb) = 0
      BY NewStreamFacts
    <2> QED BY <1>2, <2>1
  <1>4. Has(str[B])
    BY <1>1, <1>3, Here DEF Local
  <1>5. One(Has(str[B])) = 1 /\ Toward("syn", B) \in Nat
    BY <1>1, <1>4, TowardType DEF One, WindowInv, Kinds
  <1>6. One(Plans(str[A])) + Toward("syn", B) + One(Has(str[B])) <= 1
    BY DEF WindowInv, OneSyn, Single
  <1>7. Plans(str[A]) => One(Plans(str[A])) = 1
    BY DEF One
  <1> QED BY <1>5, <1>6, <1>7

LEMMA GotKept ==
  ASSUME [Next]_vars PROVE Read \/ got' = got
  <1>1. CASE UNCHANGED vars
    BY <1>1 DEF vars
  <1>2. CASE Open \/ WriteBegin \/ Write \/ Disconnect
    BY <1>2 DEF Open, WriteBegin, Write, Disconnect
  <1>3. ASSUME NEW e \in Ends, Close(e) \/ PeerClose(e) \/ PeerCloseEnds(e) \/ RemoteClosed(e)
        PROVE  got' = got
    BY <1>3 DEF Close, PeerClose, PeerCloseEnds, RemoteClosed
  <1>4. ASSUME NEW e \in Ends, Tick(e) PROVE got' = got
    <2>1. TickBegin(e) \/ TickWnd(e) \/ TickCheck(e) \/ TickFin(e) => got' = got
      BY DEF TickBegin, TickWnd, TickCheck, TickFin
    <2>2. TickDetermine(e) \/ TickResize(e) \/ TickSyn(e) \/ TickData(e) => got' = got
      BY DEF TickDetermine, TickResize, TickSyn, TickData
    <2> QED BY <1>4, <2>1, <2>2 DEF Tick
  <1>5. ASSUME NEW e \in Ends, EventTask(e) PROVE got' = got
    BY <1>5 DEF EventTask, Arrive, Lookup, Apply, SocketClosed, Drained
  <1> QED BY <1>1, <1>2, <1>3, <1>4, <1>5 DEF Next

(* The first flush comes once, before any byte is read. *)
LEMMA FirstFlushKept ==
  ASSUME WindowInv, FirstFlush, [Next]_vars
  PROVE  FirstFlush' /\ (TickResize(A) \/ (Determined' <=> Determined))
  <1>1. CASE TickResize(A)
    <2>1. /\ A \in Ends /\ str \in [Ends -> Streams] /\ str[A] \in Streams
          /\ tick \in [Ends -> Tickers] /\ tick[A].pc = "resize" /\ tick[A].pc # Idle
      BY <1>1, EndsFacts, Here DEF WindowInv, Typed, Around, TickResize, At, Idle
    <2>2. str'[A].flag = tick[A].seen \cup {"BUFFER_DETERMINED"} /\ tick'[A].pc = "syn" /\ got' = got
      BY <1>1, <2>1 DEF TickResize, Streams
    <2>3. "PLAN_SYN" \in tick[A].seen <=> "PLAN_SYN" \in str[A].flag
      BY <2>1 DEF WindowInv, Locals, Opener
    <2>4. Plans(str'[A]) => Plans(str[A])
      BY <2>2, <2>3 DEF Plans, Has
    <2> QED BY <1>1, <2>2, <2>4 DEF FirstFlush
  <1>2. CASE ~TickResize(A)
    <2>1. Marks(str[A], str'[A]) /\ (tick'[A] = tick[A] \/ (tick'[A].pc = "resize" => ~Determined'))
      <3>1. CASE Open \/ WriteBegin \/ Write \/ Read \/ Disconnect \/ UNCHANGED vars
        <4>1. tick' = tick
          BY <3>1 DEF Open, WriteBegin, Write, Read, Disconnect, vars
        <4> QED BY <3>1, <4>1, MarksApp
      <3>2. ASSUME NEW e \in Ends, e # A,
                   \/ Close(e) \/ PeerClose(e) \/ PeerCloseEnds(e) \/ RemoteClosed(e)
                   \/ Tick(e) \/ EventTask(e)
            PROVE  Marks(str[A], str'[A]) /\ tick'[A] = tick[A]
        BY <3>2, MarksElsewhere
      <3>3. CASE \/ Close(A) \/ PeerClose(A) \/ PeerCloseEnds(A) \/ RemoteClosed(A) \/ EventTask(A)
        BY <3>3, MarksHere
      <3>4. CASE Tick(A)
        BY <1>2, <3>4, MarksTick
      <3> QED BY <3>1, <3>2, <3>3, <3>4 DEF Next
    <2>2. Determined' <=> Determined
      BY <2>1 DEF Marks, Determined
    <2>3. tick'[A].pc = "resize" => ~Determined'
      BY <2>1, <2>2 DEF FirstFlush
    <2>4. Plans(str'[A]) => got' = <<>>
      BY <2>1, ReadAfterSyn, GotKept DEF FirstFlush, Marks
    <2> QED BY <2>2, <2>3, <2>4 DEF FirstFlush
  <1> QED BY <1>1, <1>2

(* The steps in terms of MuxPipe. *)
LEMMA StepsMap ==
  ASSUME PipeSteps, Determined' <=> Determined
  PROVE  [Pipe!Put \/ Pipe!Take \/ Pipe!Cut \/ Pipe!Shrink]_(Pipe!pvars)
  <1>0. ("BUFFER_DETERMINED" \in str'[A].flag) = ("BUFFER_DETERMINED" \in str[A].flag)
    BY DEF Determined
  <1>1. CASE PipeStays
    <2>1. (~(Accepting /\ Sending))' = ~(Accepting /\ Sending)
      BY <1>1 DEF PipeStays, Live
    <2>2. UNCHANGED Pipe!pvars
      BY <1>0, <1>1, <2>1, Zenon DEF PipeStays, Pipe!pvars, Whole, Joined,
         Ready, InHand, Coming, Backlog, Live
    <2> QED BY <2>2
  <1>2. CASE PipeCuts
    <2>1. Pipe!Cut
      BY <1>0, <1>2, ZenonT(30) DEF PipeCuts, Pipe!Cut, Whole, Joined,
         Ready, InHand, Coming, Backlog, Live
    <2> QED BY <2>1
  <1>3. CASE PipePuts
    <2>1. Pipe!Put
      BY <1>0, <1>3, ZenonT(30) DEF PipePuts, Pipe!Put, Whole, Joined,
         Ready, InHand, Coming, Backlog, Live
    <2> QED BY <2>1
  <1>4. CASE PipeTakes
    <2>1. Pipe!Take
      BY <1>0, <1>4, ZenonT(30) DEF PipeTakes, Pipe!Take, Whole, Joined,
         Ready, InHand, Coming, Backlog, Live
    <2> QED BY <2>1
  <1> QED BY <1>1, <1>2, <1>3, <1>4 DEF PipeSteps

LEMMA ShrinkMaps ==
  ASSUME Shrinks PROVE Pipe!Shrink
  <1>1. ("BUFFER_DETERMINED" \in str[A].flag) = FALSE /\ ("BUFFER_DETERMINED" \in str'[A].flag) = TRUE
    BY DEF Shrinks, Determined
  <1>2. (~(Accepting /\ Sending))' = ~(Accepting /\ Sending)
    BY DEF Shrinks, Live
  <1> QED BY <1>1, <1>2, ZenonT(30) DEF Shrinks, Pipe!Shrink, Whole, Joined, Ready, InHand, Coming, Backlog, Least

LEMMA PipeStart == MuxInit => PipeInv /\ FirstFlush /\ Pipe!PInit
  <1> SUFFICES ASSUME MuxInit PROVE PipeInv /\ FirstFlush /\ Pipe!PInit
    OBVIOUS
  <1>1. /\ \A e \in Ends : /\ str[e] = NewStream /\ chan[e] = <<>> /\ ~told[e] /\ outps[e] = 0
                           /\ tick[e].pc = Idle /\ task[e].pc = Idle /\ task[e].msg = NoMsg
                           /\ conn[e] /\ mux[e] = "ATTACHED"
    BY DEF MuxInit
  <1>2. A \in Ends /\ B \in Ends
    BY EndsFacts
  <1>3. /\ NewStream.flag = {} /\ NewStream.st = "CLOSED" /\ NewStream.rb = <<>>
        /\ NewStream.wb = <<>> /\ NewStream.incre = 0
    BY DEF NewStream
  <1>4. ~HasStream(A) /\ ~Has(str[A])
    BY <1>1, <1>2, <1>3 DEF HasStream, Has
  <1>5. Carried(A) = {NoMsg} /\ Carried(B) = {NoMsg} /\ NoMsg.type = "none"
    BY <1>1, <1>2 DEF Carried, NoMsg
  <1>6. ToldInv
    BY <1>1 DEF ToldInv
  <1>7. Flushes(str[A], tick[A]) /\ Goes
    BY <1>1, <1>2, <1>3 DEF Flushes, Goes, Early, Late, Idle
  <1>8. Packets
    BY <1>1, <1>2, <1>5 DEF Packets, Proper
  <1>9. Plans(str[A])
    BY <1>1, <1>2, <1>3, <1>4 DEF Plans
  <1>10. Order
    BY <1>1, <1>2, <1>5, <1>9 DEF Order, Ordered, NoSyn
  <1>11. Accepting /\ Sending
    BY <1>1, <1>2, <1>3, <1>4 DEF Accepting, Sending
  <1>12. /\ InFlight(B) = <<>> /\ Bytes(task[B].msg) = <<>> /\ WindowInv
    BY <1>1, <1>2, <1>5, InFlightIs, FlowEmpty, WindowInit DEF Bytes, WindowInv, Kinds
  <1>13. Ready = <<>> /\ InHand = <<>> /\ Coming = <<>> /\ Backlog = <<>>
    BY <1>1, <1>2, <1>3, <1>12 DEF Ready, InHand, Coming, Backlog
  <1>14. Whole = <<>>
    BY <1>13, ConcatEmpty DEF Whole, Joined
  <1>15. ~Determined /\ FirstFlush
    BY <1>1, <1>2, <1>3 DEF Determined, FirstFlush, MuxInit, Idle
  <1>16. Pipe!PInit
    BY <1>11, <1>14, <1>15 DEF Pipe!PInit, MuxInit, Whole, Joined, Ready, InHand, Coming, Backlog, Determined
  <1> QED BY <1>6, <1>7, <1>8, <1>10, <1>15, <1>16 DEF PipeInv

(* What the applications of a stream see is a byte pipe.  The bytes that    *)
(* stream::read returns at B are bytes that stream::write took at A, in     *)
(* order and none twice; what a close, a RST or the loss of the connection  *)
(* takes away is taken from the end.  Bytes go missing in one place only:   *)
(* the first _flush, which comes before anything is sent, resizes the write *)
(* buffer to snd_size - 1024 and keeps of it what fits (nothing is lost     *)
(* where the socket's buffer holds the window: BT_LARGE and above).  This   *)
(* for any number of bytes and calls, any window, any send buffer, any room *)
(* in the connection, and all interleavings of the applications, the        *)
(* tickers that flush and the event tasks that look a stream up and apply a *)
(* packet to it after the mutex is released.                                *)
THEOREM PipeImplemented == Spec => ImplementsPipe
  <1>1. MuxInit => WindowInv /\ PipeInv /\ FirstFlush /\ Pipe!PInit
    BY WindowInit, PipeStart
  <1>2. WindowInv /\ [Next]_vars => WindowInv'
    BY NextKeeps
  <1>3. WindowInv /\ WindowInv' /\ PipeInv /\ [Next]_vars => PipeInv'
    BY NextPipes DEF Stepped
  <1>4. WindowInv /\ FirstFlush /\ [Next]_vars => FirstFlush'
    BY FirstFlushKept
  <1>5. WindowInv /\ WindowInv' /\ PipeInv /\ FirstFlush /\ [Next]_vars
          => [Pipe!Put \/ Pipe!Take \/ Pipe!Cut \/ Pipe!Shrink]_(Pipe!pvars)
    <2> SUFFICES ASSUME WindowInv, WindowInv', PipeInv, FirstFlush, [Next]_vars
                 PROVE  [Pipe!Put \/ Pipe!Take \/ Pipe!Cut \/ Pipe!Shrink]_(Pipe!pvars)
      OBVIOUS
    <2>1. CASE TickResize(A)
      BY <2>1, ResizeShrinks, ShrinkMaps
    <2>2. CASE ~TickResize(A)
      <3>1. PipeSteps /\ (Determined' <=> Determined)
        BY <2>2, NextPipes, FirstFlushKept DEF Stepped
      <3> QED BY <3>1, StepsMap
    <2> QED BY <2>1, <2>2
  <1> QED BY <1>1, <1>2, <1>3, <1>4, <1>5, PTL DEF Spec, ImplementsPipe, Pipe!PSpec

(* After T_CLOSED the receive buffer of a stream never grows: a DATA that   *)
(* the event task looked up before the ticker recycled the stream is        *)
(* refused under rb_mutex, since whoever closes a stream sets READ_SHUTDOWN *)
(* before the ticker takes it out of the map and tells the listener.        *)
THEOREM NoDataAfterClosedHolds == Spec => NoDataAfterClosed
  <1> DEFINE Silent == \A e \in Ends : Len(str'[e].rb) > Len(str[e].rb) => ~told[e]
  <1>1. MuxInit => WindowInv /\ PipeInv
    BY WindowInit, PipeStart
  <1>2. WindowInv /\ [Next]_vars => WindowInv'
    BY NextKeeps
  <1>3. WindowInv /\ WindowInv' /\ PipeInv /\ [Next]_vars => PipeInv'
    BY NextPipes DEF Stepped
  <1>4. WindowInv /\ WindowInv' /\ PipeInv /\ [Next]_vars => [Silent]_vars
    <2> SUFFICES ASSUME WindowInv, WindowInv', PipeInv, [Next]_vars, NEW e \in Ends,
                        Len(str'[e].rb) > Len(str[e].rb), told[e]
                 PROVE  FALSE
      OBVIOUS
    <2>1. CASE e = A
      <3>1. str[A].rb = <<>> /\ str'[A].rb = <<>>
        BY DEF WindowInv, Locals, Opener
      <3> QED BY <2>1, <3>1
    <2>2. CASE e = B
      <3>1. Hearing /\ "READ_SHUTDOWN" \in str[B].flag
        BY <2>2, NextPipes DEF Stepped, PipeInv, ToldInv, Deaf
      <3>2. Len(str'[B].rb) <= Len(str[B].rb)
        <4>1. str[B].rb \in Seq(Nat) /\ Len(str[B].rb) \in Nat
          BY EndsFacts, Here DEF Streams
        <4> QED BY <3>1, <4>1 DEF Hearing, Ready
      <3>3. Len(str[B].rb) \in Nat /\ Len(str'[B].rb) \in Nat
        <4>1. Parts /\ Parts'
          BY PartsType, PTL
        <4>2. Ready \in Seq(Nat) /\ Ready' \in Seq(Nat)
          BY <4>1 DEF Parts
        <4>3. Ready = str[B].rb /\ Ready' = str'[B].rb
          BY DEF Ready
        <4>4. \A s \in Seq(Nat) : Len(s) \in Nat
          OBVIOUS
        <4> QED BY <4>2, <4>3, <4>4, Zenon
      <3> QED BY <2>2, <3>2, <3>3
    <2> QED BY <2>1, <2>2, EndsFacts
  <1> QED BY <1>1, <1>2, <1>3, <1>4, PTL DEF Spec, NoDataAfterClosed
=============================================================================
