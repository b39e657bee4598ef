-------------------------- MODULE MCTaskScheduler --------------------------
(***************************************************************************)
(* Small applications for TaskScheduler.                                   *)
(***************************************************************************)
EXTENDS TaskScheduler

App(prio, tag, spawns, runners, seqs, n, stops, spurious) ==
    [prio |-> prio, tag |-> tag, runners |-> runners, seqs |-> seqs,
     starts |-> n, stops |-> stops, spurious |-> spurious,
     spawns |-> [t \in AllTasks |-> {s \in AllTasks : <<t, s>> \in spawns}]]

(* Three plain tasks, one of them of high priority, on two runners; three  *)
(* sequencial tasks with two tags on two sequencial runners; tasks of both *)
(* kinds that schedule tasks, with spurious wake-ups and no stop; and a    *)
(* scheduler that is started again after a stop.                           *)
PassEnvironments ==
    { App([t \in {1, 2, 3} |-> IF t = 3 THEN 0 ELSE 1], <<>>, {}, 2, 1, 1, TRUE, FALSE),
      App(<<>>, [t \in {1, 2, 3} |-> t % 2], {}, 1, 2, 1, TRUE, FALSE),
      App([t \in {1, 2, 3} |-> 1], [t \in {4, 5, 6} |-> t], {<<1, 2>>, <<1, 5>>, <<4, 3>>, <<4, 6>>}, 2, 2, 1, FALSE, TRUE),
      App([t \in {1, 2} |-> 1], [t \in {4} |-> 0], {}, 1, 1, 2, TRUE, FALSE) }

(* The hypothesis of AssertionsHoldWhenQuiet (TaskSchedulerProofs). *)
ASSUME QuietAssumption == Quiet

(* Two runners, nothing to run, and a stop. *)
IdleEnvironments == {App(<<>>, <<>>, {}, 2, 1, 1, TRUE, FALSE)}
=============================================================================
