--------------------------- MODULE MCSharedMutex ---------------------------
EXTENDS SharedMutex

Env(ops, calls_, interrupts) == [ops |-> ops, calls |-> calls_, interrupts |-> interrupts]

(* Everything but the upgrade, the upgrade among upgradable locks only, and *)
(* everything at once with interrupted threads.                             *)
AllEnvironments ==
  {Env(Ops \ {"unlock_upgrade_and_lock"}, 3, FALSE),
   Env({"lock_upgrade", "unlock_upgrade_and_lock"}, 3, FALSE),
   Env(Ops, 3, TRUE)}

(* Readers beside a thread that upgrades. *)
UpgradeEnvironments ==
  {Env({"lock_shared", "lock_upgrade", "unlock_upgrade_and_lock"}, 3, FALSE)}
=============================================================================
