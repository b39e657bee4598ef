---------------------------- MODULE SharedMutex ----------------------------
(***************************************************************************)
(* wawo::thread::shared_mutex: the lock of many readers or one writer that *)
(* guards the socket of every peer, with its upgradable form and its three *)
(* conversions.  Every operation runs under m_state_mutex from its first   *)
(* line to its return or to its wait on a condition, and a condition's     *)
(* wait releases that mutex only once a notification can reach it, so each *)
(* of these stretches is one step.  What interleaves is which thread comes *)
(* next: a thread that was notified competes for the mutex with everybody  *)
(* else and tests its condition again.                                     *)
(***************************************************************************)
EXTENDS Naturals, FiniteSets

CONSTANTS Threads,        \* the threads that use one shared_mutex
          Environments    \* what they may do: ops, calls, interrupts

ASSUME ThreadsAssumption == IsFiniteSet(Threads)

(* The operations that take the lock or convert it; the four releases are  *)
(* always open to the thread that holds the lock in that form.             *)
Ops == {"lock_shared", "try_lock_shared", "lock", "try_lock", "lock_upgrade",
        "unlock_shared_and_lock", "unlock_and_lock_shared", "unlock_upgrade_and_lock"}

(* The calls that may wait on a condition. *)
InCall == {"lock_shared", "lock", "lock_upgrade", "unlock_shared_and_lock",
           "unlock_upgrade_and_lock"}

ASSUME EnvironmentsAssumption ==
  \A e \in Environments : /\ e.ops \subseteq Ops
                          /\ e.calls \in Nat
                          /\ e.interrupts \in BOOLEAN

VARIABLES
  shared_count,  \* state_data::shared_count
  upgrade,       \* state_data::upgrade
  exclusive,     \* state_data::exclusive
  pc,            \* what each thread holds, or the call it is in
  asleep,        \* the threads that wait on a condition and were not notified
  calls,         \* how many more calls of Ops each thread makes (a bound)
  env            \* the environment chosen at the start

state == <<shared_count, upgrade, exclusive>>
vars == <<shared_count, upgrade, exclusive, pc, asleep, calls, env>>

Init ==
  /\ shared_count = 0
  /\ upgrade = "S_UP_NOSET"
  /\ exclusive = FALSE
  /\ pc = [t \in Threads |-> "idle"]
  /\ asleep = {}
  /\ env \in Environments
  /\ calls = [t \in Threads |-> env.calls]

-----------------------------------------------------------------------------
(* The conditions of state_data. *)
CanLockEager(count) == count = 0
CanLock(count) == count = 0 /\ ~exclusive
CanLockShared == ~exclusive /\ upgrade = "S_UP_NOSET"
CanLockUpgrade == ~exclusive /\ upgrade = "S_UP_NOSET"

-----------------------------------------------------------------------------
(* The three conditions: which of them a thread waits on follows from its  *)
(* call.                                                                   *)
OnShared == {t \in asleep : pc[t] \in {"lock_shared", "lock_upgrade"}}
OnExclusive == {t \in asleep : pc[t] \in {"lock", "unlock_shared_and_lock"}}
OnUpgrade == {t \in asleep : pc[t] = "unlock_upgrade_and_lock"}

(* What notify_one may wake: one of the waiting, or nobody if there is none. *)
One(waiting) == IF waiting = {} THEN {{}} ELSE {{t} : t \in waiting}

NotifyWaiters == \E woken \in One(OnExclusive) : asleep' = asleep \ (woken \cup OnShared)
NotifyShared == asleep' = asleep \ OnShared
NotifyUpgrade == \E woken \in One(OnUpgrade) : asleep' = asleep \ woken

(* A thread that may go on: it starts the call, or it is in the call's loop *)
(* and awake.                                                               *)
Begins(t, from, op) ==
  /\ pc[t] = from
  /\ op \in env.ops
  /\ calls[t] > 0
  /\ calls' = [calls EXCEPT ![t] = @ - 1]

Retries(t, op) == pc[t] = op /\ t \notin asleep /\ UNCHANGED calls

Goes(t, to) == pc' = [pc EXCEPT ![t] = to] /\ UNCHANGED env
Waits(t, op) == Goes(t, op) /\ asleep' = asleep \cup {t}

-----------------------------------------------------------------------------
LockShared(t) ==
  /\ Begins(t, "idle", "lock_shared") \/ Retries(t, "lock_shared")
  /\ \/ /\ CanLockShared
        /\ shared_count' = shared_count + 1
        /\ Goes(t, "shared")
        /\ UNCHANGED <<upgrade, exclusive, asleep>>
     \/ ~CanLockShared /\ Waits(t, "lock_shared") /\ UNCHANGED state

TryLockShared(t) ==
  /\ Begins(t, "idle", "try_lock_shared")
  /\ \/ /\ CanLockShared
        /\ shared_count' = shared_count + 1
        /\ Goes(t, "shared")
        /\ UNCHANGED <<upgrade, exclusive>>
     \/ ~CanLockShared /\ UNCHANGED <<state, pc, env>>
  /\ UNCHANGED asleep

UnlockSharedSilent(t) ==
  /\ pc[t] = "shared"
  /\ shared_count' = shared_count - 1
  /\ Goes(t, "idle")
  /\ UNCHANGED <<upgrade, exclusive, asleep, calls>>

(* The last reader wakes the writers and the readers, or the upgrading      *)
(* thread; the test for the latter is for S_UP_SET.                         *)
NotifiesUpgrade == upgrade = "S_UP_SET"

UnlockShared(t) ==
  /\ pc[t] = "shared"
  /\ shared_count' = shared_count - 1
  /\ IF shared_count' > 0 THEN UNCHANGED asleep
     ELSE IF NotifiesUpgrade THEN NotifyUpgrade ELSE NotifyWaiters
  /\ Goes(t, "idle")
  /\ UNCHANGED <<upgrade, exclusive, calls>>

-----------------------------------------------------------------------------
Lock(t) ==
  /\ Begins(t, "idle", "lock") \/ Retries(t, "lock")
  /\ \/ /\ CanLock(shared_count)
        /\ exclusive' = TRUE
        /\ Goes(t, "exclusive")
        /\ UNCHANGED <<shared_count, upgrade, asleep>>
     \/ ~CanLock(shared_count) /\ Waits(t, "lock") /\ UNCHANGED state

TryLock(t) ==
  /\ Begins(t, "idle", "try_lock")
  /\ \/ /\ CanLock(shared_count)
        /\ exclusive' = TRUE
        /\ Goes(t, "exclusive")
        /\ UNCHANGED <<shared_count, upgrade>>
     \/ ~CanLock(shared_count) /\ UNCHANGED <<state, pc, env>>
  /\ UNCHANGED asleep

Unlock(t) ==
  /\ pc[t] = "exclusive"
  /\ exclusive' = FALSE
  /\ NotifyWaiters
  /\ Goes(t, "idle")
  /\ UNCHANGED <<shared_count, upgrade, calls>>

(* From shared to exclusive: the share is given back first, and the loop is *)
(* the one of lock.                                                         *)
UnlockSharedAndLock(t) ==
  /\ \/ /\ Begins(t, "shared", "unlock_shared_and_lock")
        /\ shared_count' = shared_count - 1
     \/ /\ Retries(t, "unlock_shared_and_lock")
        /\ UNCHANGED shared_count
  /\ \/ /\ CanLock(shared_count')
        /\ exclusive' = TRUE
        /\ Goes(t, "exclusive")
        /\ UNCHANGED asleep
     \/ ~CanLock(shared_count') /\ Waits(t, "unlock_shared_and_lock") /\ UNCHANGED exclusive
  /\ UNCHANGED upgrade

UnlockAndLockSharedBoth(t) ==
  /\ Begins(t, "exclusive", "unlock_and_lock_shared")
  /\ shared_count' = shared_count + 1
  /\ Goes(t, "shared")
  /\ UNCHANGED <<upgrade, exclusive, asleep>>

(* From exclusive to shared.  The code asserts can_lock_shared between the  *)
(* two: a build with assertions ends there when it fails, the other build   *)
(* takes the share all the same, and so does this step.                     *)
UnlockAndLockShared(t) ==
  /\ Begins(t, "exclusive", "unlock_and_lock_shared")
  /\ exclusive' = FALSE
  /\ shared_count' = shared_count + 1
  /\ Goes(t, "shared")
  /\ UNCHANGED <<upgrade, asleep>>

-----------------------------------------------------------------------------
LockUpgrade(t) ==
  /\ Begins(t, "idle", "lock_upgrade") \/ Retries(t, "lock_upgrade")
  /\ \/ /\ CanLockUpgrade
        /\ shared_count' = shared_count + 1
        /\ upgrade' = "S_UP_SET"
        /\ Goes(t, "upgrade")
        /\ UNCHANGED <<exclusive, asleep>>
     \/ ~CanLockUpgrade /\ Waits(t, "lock_upgrade") /\ UNCHANGED state

UnlockUpgradeCounted(t) ==
  /\ pc[t] = "upgrade"
  /\ upgrade' = "S_UP_NOSET"
  /\ NotifyShared
  /\ Goes(t, "idle")
  /\ UNCHANGED <<shared_count, exclusive, calls>>

UnlockUpgrade(t) ==
  /\ pc[t] = "upgrade"
  /\ upgrade' = "S_UP_NOSET"
  /\ shared_count' = shared_count - 1
  /\ \/ shared_count' > 0 /\ NotifyShared
     \/ shared_count' = 0 /\ NotifyWaiters
  /\ Goes(t, "idle")
  /\ UNCHANGED <<exclusive, calls>>

(* From upgradable to exclusive: unlock_upgrade_and_up gives the share back *)
(* and leaves S_UP_UPING behind, lock_upgrade_up_done removes it.           *)
UnlockUpgradeAndLock(t) ==
  /\ \/ /\ Begins(t, "upgrade", "unlock_upgrade_and_lock")
        /\ shared_count' = shared_count - 1
     \/ /\ Retries(t, "unlock_upgrade_and_lock")
        /\ UNCHANGED shared_count
  /\ \/ /\ CanLock(shared_count')
        /\ exclusive' = TRUE
        /\ upgrade' = "S_UP_NOSET"
        /\ Goes(t, "exclusive")
        /\ UNCHANGED asleep
     \/ /\ ~CanLock(shared_count')
        /\ upgrade' = "S_UP_UPING"
        /\ Waits(t, "unlock_upgrade_and_lock")
        /\ UNCHANGED exclusive

-----------------------------------------------------------------------------
(* A condition may wake without a notification; std::condition_variable     *)
(* promises nothing else.                                                   *)
Wake(t) ==
  /\ t \in asleep
  /\ asleep' = asleep \ {t}
  /\ UNCHANGED <<state, pc, calls, env>>

(* thread::interrupt: the wait ends with an exception, which leaves the     *)
(* call as it stands; a share that a conversion gave back stays given back, *)
(* and S_UP_UPING stays.                                                    *)
Interrupt(t) ==
  /\ env.interrupts
  /\ pc[t] \in InCall
  /\ asleep' = asleep \ {t}
  /\ Goes(t, "idle")
  /\ UNCHANGED <<state, calls>>

-----------------------------------------------------------------------------
Takes(t) ==
  \/ LockShared(t) \/ TryLockShared(t) \/ Lock(t) \/ TryLock(t) \/ LockUpgrade(t)
  \/ UnlockSharedAndLock(t) \/ UnlockAndLockShared(t) \/ UnlockUpgradeAndLock(t)

Releases(t) == UnlockShared(t) \/ Unlock(t) \/ UnlockUpgrade(t)

Next == \E t \in Threads : Takes(t) \/ Releases(t) \/ Wake(t) \/ Interrupt(t)

(* A thread that is awake inside a call gets m_state_mutex at last, and a   *)
(* holder releases at last: the guards of mutex_basic.hpp do so when their  *)
(* block ends.                                                              *)
Continues(t) == pc[t] \in InCall /\ Takes(t)
Fairness == \A t \in Threads : WF_vars(Continues(t)) /\ WF_vars(Releases(t))

Spec == Init /\ [][Next]_vars
FairSpec == Spec /\ Fairness

-----------------------------------------------------------------------------
Holding(how) == {t \in Threads : pc[t] \in how}

TypeOK ==
  /\ shared_count \in 0..Cardinality(Threads)
  /\ upgrade \in {"S_UP_NOSET", "S_UP_SET", "S_UP_UPING"}
  /\ exclusive \in BOOLEAN
  /\ pc \in [Threads -> InCall \cup {"idle", "shared", "exclusive", "upgrade"}]
  /\ asleep \subseteq Holding(InCall)
  /\ calls \in [Threads -> Nat]
  /\ env \in Environments

(* A writer is alone: nobody reads and nobody else writes, whichever way    *)
(* each of them came to hold the lock; and of the threads that hold the     *)
(* upgradable form or are turning it into the exclusive one there is never  *)
(* more than one, so that two upgrades cannot wait for each other.          *)
Exclusion ==
  /\ \A s, t \in Threads : pc[s] = "exclusive" /\ s # t => pc[t] \notin {"shared", "exclusive", "upgrade"}
  /\ \A s, t \in Holding({"upgrade", "unlock_upgrade_and_lock"}) : s = t

(* The assertions of the releases and conversions: what a thread holds is   *)
(* what state_data says, so that no release takes away what is another's,   *)
(* and S_UP_UPING is there when the upgrade ends.  The one that may fail is *)
(* can_lock_shared in unlock_and_lock_shared, line 179: it fails only while *)
(* another thread waits in its upgrade, which lock may overtake, or after   *)
(* an upgrade was interrupted, which leaves S_UP_UPING behind.              *)
AssertionsHold ==
  \A t \in Threads :
    /\ pc[t] = "shared" => shared_count > 0 /\ ~exclusive
    /\ pc[t] = "exclusive" =>
         /\ shared_count = 0 /\ exclusive
         /\ \/ upgrade = "S_UP_NOSET"
            \/ Holding({"unlock_upgrade_and_lock"}) # {}
            \/ env.interrupts
    /\ pc[t] = "upgrade" => shared_count > 0 /\ ~exclusive /\ upgrade = "S_UP_SET"
    /\ pc[t] = "unlock_upgrade_and_lock" => upgrade = "S_UP_UPING"

(* A thread is undisturbed when nobody is interrupted, and when upgradable  *)
(* locks are converted only among themselves.                               *)
Undisturbed ==
  /\ ~env.interrupts
  /\ "unlock_upgrade_and_lock" \in env.ops =>
       env.ops \subseteq {"lock_upgrade", "unlock_upgrade_and_lock"}

(* No wake-up is lost: a thread that waits in lock, lock_shared,            *)
(* lock_upgrade or in a conversion comes out of it, whichever waiter each   *)
(* notify_one picks and whoever overtakes the notified thread.              *)
EveryCallReturns ==
  \A t \in Threads : (Undisturbed /\ pc[t] \in InCall) ~> (pc[t] \notin InCall)

(* The comment of unlock_shared's branch, "notify upgrade thread": a thread *)
(* that upgrades gets the lock once the readers have left.  The code does   *)
(* not keep it: UpgradeEnvironments of MCSharedMutex violate it.            *)
UpgradeEnds ==
  \A t \in Threads : (pc[t] = "unlock_upgrade_and_lock") ~> (pc[t] = "exclusive")

=============================================================================
