------------------------- MODULE SharedMutexProofs -------------------------
(***************************************************************************)
(* Proofs that the shared mutex excludes, for every finite set of threads, *)
(* every choice of operations and interrupted waits included.              *)
(***************************************************************************)
EXTENDS SharedMutex, FiniteSetTheorems, TLAPS

(* The readers and the upgradable holder: those that shared_count counts.  *)
Sharers == Holding({"shared", "upgrade"})
Upgraders == Holding({"upgrade", "unlock_upgrade_and_lock"})

(* state_data and what the threads hold say the same.  Neither Exclusion   *)
(* nor AssertionsHold is inductive: that a reader may be counted down       *)
(* without reaching the share of another needs the exact count.             *)
Agrees ==
  /\ shared_count = Cardinality(Sharers)
  /\ exclusive <=> Holding({"exclusive"}) # {}
  /\ exclusive => Sharers = {}
  /\ \A s, t \in Holding({"exclusive"}) : s = t
  /\ \A t \in Threads : pc[t] = "upgrade" => upgrade = "S_UP_SET"
  /\ \A t \in Threads : pc[t] = "unlock_upgrade_and_lock" => upgrade = "S_UP_UPING"
  /\ \A s, t \in Upgraders : s = t

Inv == TypeOK /\ Agrees

-----------------------------------------------------------------------------
LEMMA SubsetsFinite ==
  ASSUME NEW how
  PROVE  /\ IsFiniteSet(Holding(how))
         /\ Cardinality(Holding(how)) \in Nat
         /\ Cardinality(Holding(how)) <= Cardinality(Threads)
         /\ (Cardinality(Holding(how)) = 0) <=> (Holding(how) = {})
  <1>1. Holding(how) \subseteq Threads
    BY DEF Holding
  <1>2. IsFiniteSet(Holding(how))
    BY <1>1, ThreadsAssumption, FS_Subset
  <1> QED
    BY <1>1, <1>2, ThreadsAssumption, FS_Subset, FS_CardinalityType, FS_EmptySet

(* A thread that starts to share adds one to the count. *)
LEMMA ShareTaken ==
  ASSUME TypeOK, NEW t \in Threads, NEW to, Goes(t, to),
         pc[t] \notin {"shared", "upgrade"}, to \in {"shared", "upgrade"}
  PROVE  Sharers' = Sharers \cup {t} /\ Cardinality(Sharers') = Cardinality(Sharers) + 1
  <1>1. Sharers' = Sharers \cup {t} /\ t \notin Sharers
    BY DEF TypeOK, Goes, Sharers, Holding
  <1>2. IsFiniteSet(Sharers)
    BY SubsetsFinite DEF Sharers
  <1> QED
    BY <1>1, <1>2, FS_AddElement

(* One that ceases to share takes one from it. *)
LEMMA ShareGiven ==
  ASSUME TypeOK, NEW t \in Threads, NEW to, Goes(t, to),
         pc[t] \in {"shared", "upgrade"}, to \notin {"shared", "upgrade"}
  PROVE  /\ Sharers' = Sharers \ {t}
         /\ Cardinality(Sharers') = Cardinality(Sharers) - 1
         /\ Cardinality(Sharers) > 0
  <1>1. Sharers' = Sharers \ {t} /\ t \in Sharers
    BY DEF TypeOK, Goes, Sharers, Holding
  <1>2. IsFiniteSet(Sharers) /\ Cardinality(Sharers) \in Nat /\ Cardinality(Sharers) # 0
    BY <1>1, SubsetsFinite DEF Sharers
  <1> QED
    BY <1>1, <1>2, FS_RemoveElement

(* The others leave the sharers as they are. *)
LEMMA ShareKept ==
  ASSUME TypeOK, NEW t \in Threads, NEW to, Goes(t, to),
         pc[t] \notin {"shared", "upgrade"}, to \notin {"shared", "upgrade"}
  PROVE  Sharers' = Sharers
  BY DEF TypeOK, Goes, Sharers, Holding

LEMMA InitInv == Init => Inv
  <1> SUFFICES ASSUME Init PROVE Inv
    OBVIOUS
  <1>1. Sharers = {} /\ Upgraders = {} /\ Holding({"exclusive"}) = {}
    BY DEF Init, Sharers, Upgraders, Holding
  <1>2. Cardinality({}) = 0 /\ Cardinality(Threads) \in Nat
    BY FS_EmptySet, ThreadsAssumption, FS_CardinalityType
  <1>3. env.calls \in Nat
    BY EnvironmentsAssumption DEF Init
  <1>4. TypeOK
    <2>1. shared_count \in 0..Cardinality(Threads)
      BY <1>2 DEF Init
    <2>2. pc \in [Threads -> InCall \cup {"idle", "shared", "exclusive", "upgrade"}]
      BY DEF Init
    <2>3. calls \in [Threads -> Nat]
      BY <1>3 DEF Init
    <2> QED
      BY <2>1, <2>2, <2>3 DEF Init, TypeOK
  <1>5. Agrees
    BY <1>1, <1>2 DEF Init, Agrees
  <1> QED
    BY <1>4, <1>5 DEF Inv

-----------------------------------------------------------------------------
(* What is left of TypeOK when a step has kept the count exact. *)
LEMMA TypeStep ==
  ASSUME TypeOK, NEW t \in Threads,
         NEW to \in InCall \cup {"idle", "shared", "exclusive", "upgrade"}, Goes(t, to),
         asleep' \subseteq asleep \cup {t}, t \in asleep' => to \in InCall,
         shared_count' = Cardinality(Sharers'),
         upgrade' \in {"S_UP_NOSET", "S_UP_SET", "S_UP_UPING"}, exclusive' \in BOOLEAN,
         calls' \in [Threads -> Nat]
  PROVE  TypeOK'
  <1>1. Sharers' \subseteq Threads
    BY DEF Sharers, Holding
  <1>2. Cardinality(Sharers') \in Nat /\ Cardinality(Sharers') <= Cardinality(Threads)
    BY <1>1, ThreadsAssumption, FS_Subset, FS_CardinalityType
  <1>3. shared_count' \in 0..Cardinality(Threads)
    BY <1>2, ThreadsAssumption, FS_CardinalityType
  <1>4. asleep' \subseteq Holding(InCall)'
    BY DEF TypeOK, Goes, Holding
  <1>5. pc' \in [Threads -> InCall \cup {"idle", "shared", "exclusive", "upgrade"}]
    BY DEF TypeOK, Goes
  <1> QED
    BY <1>3, <1>4, <1>5 DEF TypeOK, Goes

LEMMA BeginsType ==
  ASSUME TypeOK, NEW t \in Threads, NEW from, NEW op, Begins(t, from, op)
  PROVE  calls' \in [Threads -> Nat]
  BY DEF TypeOK, Begins

(* Notifications only wake. *)
LEMMA NotifiesWakes ==
  /\ NotifyWaiters => asleep' \subseteq asleep
  /\ NotifyShared => asleep' \subseteq asleep
  /\ NotifyUpgrade => asleep' \subseteq asleep
  BY DEF NotifyWaiters, NotifyShared, NotifyUpgrade

(* A thread that is not in a call is awake. *)
LEMMA Awake ==
  ASSUME TypeOK, NEW t \in Threads, pc[t] \notin InCall
  PROVE  t \notin asleep
  BY DEF TypeOK, Holding

(* A thread takes its place among the waiting. *)
LEMMA WaitsInv ==
  ASSUME Inv, NEW t \in Threads, NEW op \in InCall \ {"unlock_upgrade_and_lock"}, Waits(t, op),
         pc[t] = "idle" \/ pc[t] = op, UNCHANGED state,
         calls' \in [Threads -> Nat]
  PROVE  Inv'
  <1>1. pc[t] \notin {"shared", "upgrade"} /\ op \notin {"shared", "upgrade"}
    BY DEF InCall
  <1>2. Sharers' = Sharers
    BY <1>1, ShareKept DEF Inv, Waits
  <1>3. Holding({"exclusive"})' = Holding({"exclusive"}) /\ Upgraders' = Upgraders
    BY DEF Inv, TypeOK, Waits, Goes, InCall, Holding, Upgraders
  <1>4. Agrees'
    BY <1>2, <1>3 DEF Inv, TypeOK, Agrees, Waits, Goes, state, InCall
  <1>5. TypeOK'
    BY <1>4, TypeStep DEF Inv, Agrees, TypeOK, Waits, state
  <1> QED
    BY <1>4, <1>5 DEF Inv

(* A thread gets a share. *)
LEMMA SharedInv ==
  ASSUME Inv, NEW t \in Threads, CanLockShared, Goes(t, "shared"),
         pc[t] \in {"idle", "lock_shared"}, t \notin asleep,
         shared_count' = shared_count + 1, UNCHANGED <<upgrade, exclusive, asleep>>,
         calls' \in [Threads -> Nat]
  PROVE  Inv'
  <1>1. Sharers' = Sharers \cup {t} /\ Cardinality(Sharers') = Cardinality(Sharers) + 1
    BY ShareTaken DEF Inv
  <1>2. Holding({"exclusive"})' = Holding({"exclusive"}) /\ Upgraders' = Upgraders
    BY DEF Inv, TypeOK, Goes, Holding, Upgraders
  <1>3. Agrees'
    BY <1>1, <1>2 DEF Inv, TypeOK, Agrees, Goes, CanLockShared
  <1>4. TypeOK'
    BY <1>3, TypeStep DEF Inv, Agrees, TypeOK
  <1> QED
    BY <1>3, <1>4 DEF Inv

(* A thread becomes the writer: it waited, or it held the only share. *)
LEMMA ExclusiveInv ==
  ASSUME Inv, NEW t \in Threads, Goes(t, "exclusive"), ~exclusive,
         t \notin asleep, Sharers' = {}, shared_count' = Cardinality(Sharers'),
         exclusive' = TRUE, UNCHANGED asleep,
         \/ upgrade' = upgrade /\ pc[t] \notin {"upgrade", "unlock_upgrade_and_lock"}
         \/ upgrade' = "S_UP_NOSET" /\ pc[t] \in {"upgrade", "unlock_upgrade_and_lock"},
         calls' \in [Threads -> Nat]
  PROVE  Inv'
  <1>1. Holding({"exclusive"}) = {} /\ Holding({"exclusive"})' = {t}
    BY DEF Inv, TypeOK, Agrees, Goes, Holding
  <1>2. Upgraders' \subseteq Upgraders
    BY DEF Inv, TypeOK, Goes, Holding, Upgraders
  <1>3. \A s \in Threads : s # t => pc'[s] = pc[s]
    BY DEF Inv, TypeOK, Goes
  <1>4. \A s \in Threads : pc'[s] = "unlock_upgrade_and_lock" => upgrade' = "S_UP_UPING"
    BY <1>3 DEF Inv, TypeOK, Agrees, Goes, Holding, Upgraders
  <1>5. \A s \in Threads : pc'[s] # "upgrade"
    BY DEF Sharers, Holding
  <1>6. Agrees'
    BY <1>1, <1>2, <1>4, <1>5 DEF Inv, Agrees
  <1>7. TypeOK'
    BY <1>6, TypeStep DEF Inv, Agrees, TypeOK
  <1> QED
    BY <1>6, <1>7 DEF Inv

(* A reader gives its share back, for good or to wait for the lock. *)
LEMMA ShareGivenInv ==
  ASSUME Inv, NEW t \in Threads, NEW to \in {"idle", "unlock_shared_and_lock"}, Goes(t, to),
         pc[t] = "shared", shared_count' = shared_count - 1, UNCHANGED <<upgrade, exclusive>>,
         asleep' \subseteq asleep \cup {t}, t \in asleep' => to \in InCall,
         calls' \in [Threads -> Nat]
  PROVE  Inv'
  <1>1. /\ Sharers' = Sharers \ {t}
        /\ Cardinality(Sharers') = Cardinality(Sharers) - 1
    BY ShareGiven DEF Inv
  <1>2. Holding({"exclusive"})' = Holding({"exclusive"}) /\ Upgraders' = Upgraders
    BY DEF Inv, TypeOK, Goes, Holding, Upgraders
  <1>3. Agrees'
    BY <1>1, <1>2 DEF Inv, TypeOK, Agrees, Goes
  <1>4. TypeOK'
    BY <1>3, TypeStep DEF Inv, Agrees, TypeOK, InCall
  <1> QED
    BY <1>3, <1>4 DEF Inv

(* Steps that move no thread. *)
LEMMA SameInv ==
  ASSUME Inv, UNCHANGED <<state, pc, env>>, asleep' \subseteq asleep, calls' \in [Threads -> Nat]
  PROVE  Inv'
  <1>1. /\ Sharers' = Sharers /\ Upgraders' = Upgraders
        /\ Holding({"exclusive"})' = Holding({"exclusive"})
        /\ Holding(InCall)' = Holding(InCall)
    BY DEF Sharers, Upgraders, Holding
  <1>2. Agrees'
    BY <1>1 DEF Inv, Agrees, state
  <1>3. TypeOK'
    BY <1>1 DEF Inv, TypeOK, state
  <1> QED
    BY <1>2, <1>3 DEF Inv

-----------------------------------------------------------------------------
(* One lemma per operation. *)
LEMMA LockSharedInv ==
  ASSUME Inv, NEW t \in Threads, LockShared(t) PROVE Inv'
  <1>1. calls' \in [Threads -> Nat]
    BY BeginsType DEF Inv, TypeOK, LockShared, Retries
  <1>2. pc[t] \in {"idle", "lock_shared"} /\ t \notin asleep
    BY Awake DEF Inv, LockShared, Begins, Retries, InCall
  <1>3. CASE CanLockShared
    BY <1>1, <1>2, <1>3, SharedInv DEF LockShared
  <1>4. CASE ~CanLockShared
    BY <1>1, <1>2, <1>4, WaitsInv DEF LockShared, InCall
  <1> QED
    BY <1>3, <1>4

LEMMA TryLockSharedInv ==
  ASSUME Inv, NEW t \in Threads, TryLockShared(t) PROVE Inv'
  <1>1. calls' \in [Threads -> Nat]
    BY BeginsType DEF Inv, TryLockShared
  <1>2. pc[t] = "idle" /\ t \notin asleep
    BY Awake DEF Inv, TryLockShared, Begins, InCall
  <1>3. CASE CanLockShared
    BY <1>1, <1>2, <1>3, SharedInv DEF TryLockShared
  <1>4. CASE ~CanLockShared
    BY <1>1, <1>4, SameInv DEF TryLockShared
  <1> QED
    BY <1>3, <1>4

LEMMA UnlockSharedInv ==
  ASSUME Inv, NEW t \in Threads, UnlockShared(t) PROVE Inv'
  <1>1. t \notin asleep
    BY Awake DEF Inv, UnlockShared, InCall
  <1>2. asleep' \subseteq asleep
    BY NotifiesWakes DEF UnlockShared
  <1>3. calls' \in [Threads -> Nat]
    BY DEF Inv, TypeOK, UnlockShared
  <1> QED
    BY <1>1, <1>2, <1>3, ShareGivenInv DEF UnlockShared

(* The readers are gone when the count is zero. *)
LEMMA NoSharers ==
  ASSUME Inv, shared_count = 0 PROVE Sharers = {}
  BY SubsetsFinite DEF Inv, Agrees, Sharers

LEMMA LockInv ==
  ASSUME Inv, NEW t \in Threads, Lock(t) PROVE Inv'
  <1>1. calls' \in [Threads -> Nat]
    BY BeginsType DEF Inv, TypeOK, Lock, Retries
  <1>2. pc[t] \in {"idle", "lock"} /\ t \notin asleep
    BY Awake DEF Inv, Lock, Begins, Retries, InCall
  <1>3. CASE CanLock(shared_count)
    <2>1. Goes(t, "exclusive") /\ ~exclusive /\ exclusive' = TRUE
          /\ UNCHANGED <<shared_count, upgrade, asleep>>
      BY <1>3 DEF Lock, CanLock
    <2>2. Sharers' = Sharers /\ Sharers = {}
      BY <1>2, <1>3, <2>1, ShareKept, NoSharers DEF Inv, CanLock
    <2> QED
      BY <1>1, <1>2, <2>1, <2>2, ExclusiveInv DEF Inv, Agrees
  <1>4. CASE ~CanLock(shared_count)
    BY <1>1, <1>2, <1>4, WaitsInv DEF Lock, InCall
  <1> QED
    BY <1>3, <1>4

LEMMA TryLockInv ==
  ASSUME Inv, NEW t \in Threads, TryLock(t) PROVE Inv'
  <1>1. calls' \in [Threads -> Nat]
    BY BeginsType DEF Inv, TryLock
  <1>2. pc[t] = "idle" /\ t \notin asleep
    BY Awake DEF Inv, TryLock, Begins, InCall
  <1>3. CASE CanLock(shared_count)
    <2>1. Goes(t, "exclusive") /\ ~exclusive /\ exclusive' = TRUE
          /\ UNCHANGED <<shared_count, upgrade, asleep>>
      BY <1>3 DEF TryLock, CanLock
    <2>2. Sharers' = Sharers /\ Sharers = {}
      BY <1>2, <1>3, <2>1, ShareKept, NoSharers DEF Inv, CanLock
    <2> QED
      BY <1>1, <1>2, <2>1, <2>2, ExclusiveInv DEF Inv, Agrees
  <1>4. CASE ~CanLock(shared_count)
    BY <1>1, <1>4, SameInv DEF TryLock
  <1> QED
    BY <1>3, <1>4

LEMMA UnlockInv ==
  ASSUME Inv, NEW t \in Threads, Unlock(t) PROVE Inv'
  <1>1. asleep' \subseteq asleep /\ t \notin asleep /\ Goes(t, "idle")
    BY NotifiesWakes, Awake DEF Inv, Unlock, InCall
  <1>2. Sharers' = Sharers
    BY <1>1, ShareKept DEF Inv, Unlock
  <1>3. Holding({"exclusive"}) = {t} /\ Holding({"exclusive"})' = {}
    BY <1>1 DEF Inv, TypeOK, Agrees, Goes, Holding, Unlock
  <1>4. Upgraders' = Upgraders
    BY <1>1 DEF Inv, TypeOK, Goes, Holding, Upgraders, Unlock
  <1>5. \A s \in Threads : pc'[s] = "idle" \/ pc'[s] = pc[s]
    BY <1>1 DEF Inv, TypeOK, Goes
  <1>6. Agrees'
    BY <1>2, <1>3, <1>4, <1>5 DEF Inv, Agrees, Unlock
  <1>7. TypeOK'
    BY <1>1, <1>6, TypeStep DEF Inv, Agrees, TypeOK, Unlock
  <1> QED
    BY <1>6, <1>7 DEF Inv

LEMMA UnlockSharedAndLockInv ==
  ASSUME Inv, NEW t \in Threads, UnlockSharedAndLock(t) PROVE Inv'
  <1>1. calls' \in [Threads -> Nat]
    BY BeginsType DEF Inv, TypeOK, UnlockSharedAndLock, Retries
  <1>2. pc[t] \in {"shared", "unlock_shared_and_lock"} /\ t \notin asleep
    BY Awake DEF Inv, UnlockSharedAndLock, Begins, Retries, InCall
  <1>3. CASE CanLock(shared_count')
    <2>1. Goes(t, "exclusive") /\ ~exclusive /\ exclusive' = TRUE /\ UNCHANGED <<upgrade, asleep>>
      BY <1>3 DEF UnlockSharedAndLock, CanLock
    <2>2. shared_count' = Cardinality(Sharers')
      BY <1>2, <2>1, ShareGiven, ShareKept DEF UnlockSharedAndLock, Begins, Retries, Inv, Agrees
    <2>3. Sharers' \subseteq Threads
      BY DEF Sharers, Holding
    <2>4. Sharers' = {}
      BY <1>3, <2>2, <2>3, ThreadsAssumption, FS_Subset, FS_EmptySet DEF CanLock
    <2> QED
      BY <1>1, <1>2, <2>1, <2>2, <2>4, ExclusiveInv
  <1>4. CASE ~CanLock(shared_count')
    <2>1. /\ Goes(t, "unlock_shared_and_lock")
          /\ asleep' = asleep \cup {t}
          /\ UNCHANGED <<upgrade, exclusive>>
      BY <1>4 DEF UnlockSharedAndLock, Waits
    <2>2. CASE pc[t] = "shared"
      BY <1>1, <2>1, <2>2, ShareGivenInv DEF UnlockSharedAndLock, Begins, Retries, InCall
    <2>3. CASE pc[t] = "unlock_shared_and_lock"
      BY <1>1, <1>4, <2>3, WaitsInv DEF UnlockSharedAndLock, Begins, Retries, InCall, state
    <2> QED
      BY <1>2, <2>2, <2>3
  <1> QED
    BY <1>3, <1>4

LEMMA UnlockAndLockSharedInv ==
  ASSUME Inv, NEW t \in Threads, UnlockAndLockShared(t) PROVE Inv'
  <1>1. calls' \in [Threads -> Nat] /\ pc[t] = "exclusive" /\ t \notin asleep /\ Goes(t, "shared")
    BY BeginsType, Awake DEF Inv, UnlockAndLockShared, Begins, InCall
  <1>2. Cardinality(Sharers') = Cardinality(Sharers) + 1
    BY <1>1, ShareTaken DEF Inv
  <1>3. Holding({"exclusive"}) = {t} /\ Holding({"exclusive"})' = {}
    BY <1>1 DEF Inv, TypeOK, Agrees, Goes, Holding
  <1>4. Upgraders' = Upgraders
    BY <1>1 DEF Inv, TypeOK, Goes, Holding, Upgraders
  <1>5. \A s \in Threads : pc'[s] = "shared" \/ pc'[s] = pc[s]
    BY <1>1 DEF Inv, TypeOK, Goes
  <1>6. Agrees'
    BY <1>2, <1>3, <1>4, <1>5 DEF Inv, Agrees, UnlockAndLockShared
  <1>7. TypeOK'
    BY <1>1, <1>6, TypeStep DEF Inv, Agrees, TypeOK, UnlockAndLockShared
  <1> QED
    BY <1>6, <1>7 DEF Inv

LEMMA LockUpgradeInv ==
  ASSUME Inv, NEW t \in Threads, LockUpgrade(t) PROVE Inv'
  <1>1. calls' \in [Threads -> Nat]
    BY BeginsType DEF Inv, TypeOK, LockUpgrade, Retries
  <1>2. pc[t] \in {"idle", "lock_upgrade"} /\ t \notin asleep
    BY Awake DEF Inv, LockUpgrade, Begins, Retries, InCall
  <1>3. CASE CanLockUpgrade
    <2>1. /\ Goes(t, "upgrade") /\ shared_count' = shared_count + 1
          /\ upgrade' = "S_UP_SET" /\ UNCHANGED <<exclusive, asleep>>
      BY <1>3 DEF LockUpgrade
    <2>2. Cardinality(Sharers') = Cardinality(Sharers) + 1
      BY <1>2, <2>1, ShareTaken DEF Inv
    <2>3. Holding({"exclusive"})' = Holding({"exclusive"})
      BY <1>2, <2>1 DEF Inv, TypeOK, Goes, Holding
    <2>4. Upgraders = {}
      BY <1>3 DEF Inv, Agrees, CanLockUpgrade, Upgraders, Holding
    <2>5. Upgraders' = {t} /\ pc'[t] = "upgrade"
      BY <2>1, <2>4 DEF Inv, TypeOK, Goes, Holding, Upgraders
    <2>6. \A s \in Threads : pc'[s] # "unlock_upgrade_and_lock"
      BY <2>5 DEF Upgraders, Holding
    <2>7. Agrees'
      BY <1>3, <2>1, <2>2, <2>3, <2>5, <2>6 DEF Inv, Agrees, CanLockUpgrade
    <2>8. TypeOK'
      BY <1>1, <1>2, <2>1, <2>7, TypeStep DEF Inv, Agrees, TypeOK
    <2> QED
      BY <2>7, <2>8 DEF Inv
  <1>4. CASE ~CanLockUpgrade
    BY <1>1, <1>2, <1>4, WaitsInv DEF LockUpgrade, InCall
  <1> QED
    BY <1>3, <1>4

LEMMA UnlockUpgradeInv ==
  ASSUME Inv, NEW t \in Threads, UnlockUpgrade(t) PROVE Inv'
  <1>1. asleep' \subseteq asleep /\ t \notin asleep /\ Goes(t, "idle") /\ pc[t] = "upgrade"
    BY NotifiesWakes, Awake DEF Inv, UnlockUpgrade, InCall
  <1>2. Sharers' = Sharers \ {t} /\ Cardinality(Sharers') = Cardinality(Sharers) - 1
    BY <1>1, ShareGiven DEF Inv
  <1>3. Holding({"exclusive"})' = Holding({"exclusive"})
    BY <1>1 DEF Inv, TypeOK, Goes, Holding
  <1>4. Upgraders = {t}
    BY <1>1 DEF Inv, Agrees, Upgraders, Holding
  <1>5. Upgraders' = {}
    BY <1>1, <1>4 DEF Inv, TypeOK, Goes, Upgraders, Holding
  <1>6. \A s \in Threads : pc'[s] \notin {"upgrade", "unlock_upgrade_and_lock"}
    BY <1>5 DEF Upgraders, Holding
  <1>7. Agrees'
    BY <1>2, <1>3, <1>5, <1>6 DEF Inv, Agrees, UnlockUpgrade
  <1>8. TypeOK'
    BY <1>1, <1>7, TypeStep DEF Inv, Agrees, TypeOK, UnlockUpgrade
  <1> QED
    BY <1>7, <1>8 DEF Inv

LEMMA UnlockUpgradeAndLockInv ==
  ASSUME Inv, NEW t \in Threads, UnlockUpgradeAndLock(t) PROVE Inv'
  <1>1. calls' \in [Threads -> Nat]
    BY BeginsType DEF Inv, TypeOK, UnlockUpgradeAndLock, Retries
  <1>2. pc[t] \in {"upgrade", "unlock_upgrade_and_lock"} /\ t \notin asleep
    BY Awake DEF Inv, UnlockUpgradeAndLock, Begins, Retries, InCall
  <1>3. CASE CanLock(shared_count')
    <2>1. /\ Goes(t, "exclusive") /\ ~exclusive /\ exclusive' = TRUE
          /\ upgrade' = "S_UP_NOSET" /\ UNCHANGED asleep
      BY <1>3 DEF UnlockUpgradeAndLock, CanLock
    <2>2. shared_count' = Cardinality(Sharers')
      BY <1>2, <2>1, ShareGiven, ShareKept DEF UnlockUpgradeAndLock, Begins, Retries, Inv, Agrees
    <2>3. Sharers' \subseteq Threads
      BY DEF Sharers, Holding
    <2>4. Sharers' = {}
      BY <1>3, <2>2, <2>3, ThreadsAssumption, FS_Subset, FS_EmptySet DEF CanLock
    <2> QED
      BY <1>1, <1>2, <2>1, <2>2, <2>4, ExclusiveInv
  <1>4. CASE ~CanLock(shared_count')
    <2>1. /\ Goes(t, "unlock_upgrade_and_lock") /\ asleep' = asleep \cup {t}
          /\ upgrade' = "S_UP_UPING" /\ UNCHANGED exclusive
      BY <1>4 DEF UnlockUpgradeAndLock, Waits
    <2>2. shared_count' = Cardinality(Sharers') /\ Sharers' \subseteq Sharers
      BY <1>2, <2>1, ShareGiven, ShareKept DEF UnlockUpgradeAndLock, Begins, Retries, Inv, Agrees
    <2>3. Holding({"exclusive"})' = Holding({"exclusive"})
      BY <1>2, <2>1 DEF Inv, TypeOK, Goes, Holding
    <2>4. Upgraders = {t} /\ Upgraders' = Upgraders
      BY <1>2, <2>1 DEF Inv, TypeOK, Agrees, Goes, Upgraders, Holding
    <2>5. pc'[t] = "unlock_upgrade_and_lock"
      BY <2>1 DEF Inv, TypeOK, Goes
    <2>6. \A s \in Threads : pc'[s] # "upgrade"
      BY <2>4, <2>5 DEF Upgraders, Holding
    <2>7. Agrees'
      BY <2>1, <2>2, <2>3, <2>4, <2>6 DEF Inv, Agrees
    <2>8. TypeOK'
      BY <1>1, <2>1, <2>7, TypeStep DEF Inv, Agrees, TypeOK, InCall
    <2> QED
      BY <2>7, <2>8 DEF Inv
  <1> QED
    BY <1>3, <1>4

LEMMA WakeInv ==
  ASSUME Inv, NEW t \in Threads, Wake(t) PROVE Inv'
  <1>1. asleep' \subseteq asleep /\ calls' \in [Threads -> Nat]
    BY DEF Inv, TypeOK, Wake
  <1> QED
    BY <1>1, SameInv DEF Wake

(* An interrupted thread leaves with nothing: it had given back what it     *)
(* held when it began to wait.                                              *)
LEMMA InterruptInv ==
  ASSUME Inv, NEW t \in Threads, Interrupt(t) PROVE Inv'
  <1>1. /\ asleep' = asleep \ {t} /\ Goes(t, "idle") /\ calls' \in [Threads -> Nat]
        /\ pc[t] \notin {"shared", "upgrade", "exclusive"}
    BY DEF Inv, TypeOK, Interrupt, InCall
  <1>2. Sharers' = Sharers
    BY <1>1, ShareKept DEF Inv
  <1>3. Holding({"exclusive"})' = Holding({"exclusive"})
    BY <1>1 DEF Inv, TypeOK, Goes, Holding
  <1>4. Upgraders' \subseteq Upgraders
    BY <1>1 DEF Inv, TypeOK, Goes, Holding, Upgraders
  <1>5. \A s \in Threads : pc'[s] = "idle" \/ pc'[s] = pc[s]
    BY <1>1 DEF Inv, TypeOK, Goes
  <1>6. Agrees'
    BY <1>2, <1>3, <1>4, <1>5 DEF Inv, Agrees, Interrupt, state
  <1>7. TypeOK'
    BY <1>1, <1>6, TypeStep DEF Inv, Agrees, TypeOK, Interrupt, state
  <1> QED
    BY <1>6, <1>7 DEF Inv

-----------------------------------------------------------------------------
LEMMA NextInv == Inv /\ [Next]_vars => Inv'
  <1> SUFFICES ASSUME Inv, [Next]_vars PROVE Inv'
    OBVIOUS
  <1>1. ASSUME NEW t \in Threads, Takes(t) PROVE Inv'
    BY <1>1, LockSharedInv, TryLockSharedInv, LockInv, TryLockInv, LockUpgradeInv,
       UnlockSharedAndLockInv, UnlockAndLockSharedInv, UnlockUpgradeAndLockInv DEF Takes
  <1>2. ASSUME NEW t \in Threads, Releases(t) PROVE Inv'
    BY <1>2, UnlockSharedInv, UnlockInv, UnlockUpgradeInv DEF Releases
  <1>3. CASE UNCHANGED vars
    <2>1. UNCHANGED <<state, pc, env>> /\ asleep' \subseteq asleep /\ calls' \in [Threads -> Nat]
      BY <1>3 DEF Inv, TypeOK, vars, state
    <2> QED
      BY <2>1, SameInv
  <1> QED
    BY <1>1, <1>2, <1>3, WakeInv, InterruptInv DEF Next

(* What state_data says and what the threads hold never disagree. *)
LEMMA AlwaysInv == Spec => []Inv
  BY InitInv, NextInv, PTL DEF Spec

-----------------------------------------------------------------------------
(* Who set upgrade is still there: an upgradable holder, an upgrade that    *)
(* waits, or one that was interrupted.                                      *)
UpgradeOwned ==
  /\ upgrade = "S_UP_SET" => \E t \in Threads : pc[t] = "upgrade"
  /\ upgrade = "S_UP_UPING" =>
       env.interrupts \/ \E t \in Threads : pc[t] = "unlock_upgrade_and_lock"

(* A step of a thread that has no part in an upgrade. *)
LEMMA NotUpgrading ==
  ASSUME Inv, UpgradeOwned, NEW t \in Threads, NEW to, Goes(t, to) \/ UNCHANGED <<pc, env>>,
         pc[t] \notin {"upgrade", "unlock_upgrade_and_lock"}, UNCHANGED upgrade
  PROVE  UpgradeOwned'
  <1>1. \A s \in Threads : pc[s] \in {"upgrade", "unlock_upgrade_and_lock"} => pc'[s] = pc[s]
    BY DEF Inv, TypeOK, Goes
  <1>2. UNCHANGED env
    BY DEF Goes
  <1> QED
    BY <1>1, <1>2 DEF UpgradeOwned

LEMMA UpgradeOwnedNext == Inv /\ UpgradeOwned /\ [Next]_vars => UpgradeOwned'
  <1> SUFFICES ASSUME Inv, UpgradeOwned, [Next]_vars PROVE UpgradeOwned'
    OBVIOUS
  <1>1. ASSUME NEW t \in Threads,
               LockShared(t) \/ TryLockShared(t) \/ Lock(t) \/ TryLock(t) \/ UnlockSharedAndLock(t)
                 \/ UnlockAndLockShared(t) \/ UnlockShared(t) \/ Unlock(t)
        PROVE  UpgradeOwned'
    <2>1. /\ pc[t] \notin {"upgrade", "unlock_upgrade_and_lock"}
          /\ UNCHANGED upgrade
      BY <1>1 DEF LockShared, TryLockShared, Lock, TryLock, UnlockSharedAndLock, UnlockAndLockShared,
         UnlockShared, Unlock, Begins, Retries, state
    <2>2. (\E to : Goes(t, to)) \/ UNCHANGED <<pc, env>>
      BY <1>1 DEF LockShared, TryLockShared, Lock, TryLock, UnlockSharedAndLock, UnlockAndLockShared,
         UnlockShared, Unlock, Waits
    <2> QED
      BY <2>1, <2>2, NotUpgrading
  <1>2. ASSUME NEW t \in Threads, LockUpgrade(t) PROVE UpgradeOwned'
    <2>1. CASE CanLockUpgrade
      <3>1. upgrade' = "S_UP_SET" /\ Goes(t, "upgrade")
        BY <1>2, <2>1 DEF LockUpgrade
      <3>2. pc'[t] = "upgrade"
        BY <3>1 DEF Inv, TypeOK, Goes
      <3> QED
        BY <3>1, <3>2 DEF UpgradeOwned
    <2>2. CASE ~CanLockUpgrade
      <3>1. UNCHANGED upgrade /\ Goes(t, "lock_upgrade") /\ pc[t] \in {"idle", "lock_upgrade"}
        BY <1>2, <2>2 DEF LockUpgrade, Waits, state, Begins, Retries
      <3> QED
        BY <3>1, NotUpgrading
    <2> QED
      BY <2>1, <2>2
  <1>3. ASSUME NEW t \in Threads, UnlockUpgradeAndLock(t) PROVE UpgradeOwned'
    <2>1. CASE CanLock(shared_count')
      BY <1>3, <2>1 DEF UnlockUpgradeAndLock, UpgradeOwned
    <2>2. CASE ~CanLock(shared_count')
      <3>1. upgrade' = "S_UP_UPING" /\ Goes(t, "unlock_upgrade_and_lock")
        BY <1>3, <2>2 DEF UnlockUpgradeAndLock, Waits
      <3>2. pc'[t] = "unlock_upgrade_and_lock"
        BY <3>1 DEF Inv, TypeOK, Goes
      <3> QED
        BY <3>1, <3>2 DEF UpgradeOwned
    <2> QED
      BY <2>1, <2>2
  <1>4. ASSUME NEW t \in Threads, UnlockUpgrade(t) PROVE UpgradeOwned'
    BY <1>4 DEF UnlockUpgrade, UpgradeOwned
  <1>5. ASSUME NEW t \in Threads, Wake(t) PROVE UpgradeOwned'
    BY <1>5 DEF Wake, state, UpgradeOwned
  <1>6. ASSUME NEW t \in Threads, Interrupt(t) PROVE UpgradeOwned'
    <2>1. UNCHANGED <<upgrade, env>> /\ env.interrupts /\ Goes(t, "idle") /\ pc[t] # "upgrade"
      BY <1>6 DEF Interrupt, state, Goes, InCall
    <2>2. \A s \in Threads : pc[s] = "upgrade" => pc'[s] = "upgrade"
      BY <2>1 DEF Inv, TypeOK, Goes
    <2> QED
      BY <2>1, <2>2 DEF UpgradeOwned
  <1>7. CASE UNCHANGED vars
    BY <1>7 DEF vars, UpgradeOwned
  <1> QED
    BY <1>1, <1>2, <1>3, <1>4, <1>5, <1>6, <1>7 DEF Next, Takes, Releases

LEMMA AlwaysOwned == Spec => []UpgradeOwned
  <1>1. Init => UpgradeOwned
    BY DEF Init, UpgradeOwned
  <1> QED
    BY <1>1, AlwaysInv, UpgradeOwnedNext, PTL DEF Spec

-----------------------------------------------------------------------------

(* The count never leaves 0..number of threads and no thread sleeps outside *)
(* a call, for every finite set of threads and any choice of operations.    *)
THEOREM MutexTypeCorrect == Spec => []TypeOK
  <1>1. Inv => TypeOK
    BY DEF Inv
  <1> QED
    BY <1>1, AlwaysInv, PTL

(* A writer is alone, and there is never more than one upgradable holder,   *)
(* whichever of lock, try_lock and the two conversions led there and        *)
(* however many waits were interrupted.                                     *)
THEOREM WriterAlone == Spec => []Exclusion
  <1>1. Inv => Exclusion
    <2> SUFFICES ASSUME Inv PROVE Exclusion
      OBVIOUS
    <2>1. ASSUME NEW s \in Threads, NEW t \in Threads, pc[s] = "exclusive", s # t
          PROVE  pc[t] \notin {"shared", "exclusive", "upgrade"}
      BY <2>1 DEF Inv, Agrees, Sharers, Holding
    <2> QED
      BY <2>1 DEF Inv, Agrees, Exclusion, Upgraders
  <1> QED
    BY <1>1, AlwaysInv, PTL

(* No release and no conversion meets its assertions with somebody else's   *)
(* share, and can_lock_shared of unlock_and_lock_shared fails only beside   *)
(* an upgrade that waits or was interrupted.                                *)
THEOREM ReleasesSound == Spec => []AssertionsHold
  <1>1. Inv /\ UpgradeOwned => AssertionsHold
    <2> SUFFICES ASSUME Inv, UpgradeOwned PROVE AssertionsHold
      OBVIOUS
    <2>1. shared_count \in Nat /\ (shared_count = 0 <=> Sharers = {})
      BY SubsetsFinite DEF Inv, Agrees, Sharers
    <2>2. ASSUME NEW t \in Threads PROVE pc[t] \in {"shared", "upgrade"} => t \in Sharers
      BY DEF Sharers, Holding
    <2>3. ASSUME NEW t \in Threads PROVE pc[t] = "exclusive" => Holding({"exclusive"}) # {}
      BY DEF Holding
    <2>4. upgrade = "S_UP_SET" => Sharers # {}
      BY <2>2 DEF UpgradeOwned
    <2>5. upgrade = "S_UP_UPING" => env.interrupts \/ Holding({"unlock_upgrade_and_lock"}) # {}
      BY DEF UpgradeOwned, Holding
    <2>6. ASSUME NEW t \in Threads, pc[t] = "exclusive"
          PROVE  /\ shared_count = 0 /\ exclusive
                 /\ \/ upgrade = "S_UP_NOSET"
                    \/ Holding({"unlock_upgrade_and_lock"}) # {}
                    \/ env.interrupts
      <3>1. shared_count = 0 /\ exclusive /\ Sharers = {}
        BY <2>1, <2>3, <2>6 DEF Inv, Agrees
      <3> QED
        BY <2>4, <2>5, <3>1 DEF Inv, TypeOK
    <2>7. ASSUME NEW t \in Threads
          PROVE  /\ pc[t] = "shared" => shared_count > 0 /\ ~exclusive
                 /\ pc[t] = "upgrade" => shared_count > 0 /\ ~exclusive /\ upgrade = "S_UP_SET"
                 /\ pc[t] = "unlock_upgrade_and_lock" => upgrade = "S_UP_UPING"
      BY <2>1, <2>2 DEF Inv, Agrees
    <2> QED
      BY <2>6, <2>7 DEF AssertionsHold
  <1> QED
    BY <1>1, AlwaysInv, AlwaysOwned, PTL

=============================================================================
