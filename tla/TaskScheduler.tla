--------------------------- MODULE TaskScheduler ---------------------------
(***************************************************************************)
(* The task scheduler (src/include/wawo/task, src/src/task): a pool of     *)
(* runners that take tasks from one priority queue, a pool of sequencial   *)
(* runners that each run the tasks of some tags in order, and the thread   *)
(* that starts and stops the scheduler.                                    *)
(*                                                                         *)
(* Grain.  What a thread does between taking a mutex and releasing it is   *)
(* one step, except where it reads or writes a field that other threads    *)
(* access without the mutex: runner::m_state and m_wait_flag, which stop   *)
(* and __block_until_no_new_task read and write unlocked, and the two      *)
(* vectors of a sequencial runner, which its stop reads unlocked.  Each    *)
(* such access is a step.  A condition variable may wake spuriously.       *)
(*                                                                         *)
(* A WAWO_ASSERT that fails ends the process: "failed".  Tasks that throw  *)
(* end it too (the runners rethrow) and are left out.                      *)
(***************************************************************************)
EXTENDS Integers, Sequences, FiniteSets, SequencesExt

CONSTANTS
    None,        \* no task; the mutex is free
    AllTasks,    \* the tasks of all environments
    MaxRunners,  \* bound: the runners of a pool
    MaxSeqs,     \* bound: its sequencial runners
    Environments \* what a run looks at: records with the fields below

(***************************************************************************)
(* An environment is an application: "prio", the priorities of its plain   *)
(* tasks (P_HIGH = 0, P_NORMAL = 1); "tag", the tags of its sequencial     *)
(* ones; "spawns", the tasks each task schedules when it runs; "runners"   *)
(* and "seqs", the values it gives set_concurrency and                     *)
(* set_seq_concurrency; "starts" and "stops", how often it calls start,    *)
(* and whether it calls stop; "spurious", whether condition variables wake *)
(* for no reason.                                                          *)
(***************************************************************************)
ASSUME SizesAssumption ==
    /\ MaxRunners \in Nat /\ MaxSeqs \in Nat
    /\ None \notin AllTasks \cup 1..MaxRunners
    /\ \A app \in Environments :
         LET tasks == DOMAIN app.prio \cup DOMAIN app.tag IN
         /\ app.runners \in 1..MaxRunners /\ app.seqs \in 1..MaxSeqs    \* scheduler.cpp:80
         /\ tasks \subseteq AllTasks
         /\ \A t \in DOMAIN app.prio : app.prio[t] \in {0, 1}            \* runner.hpp:18
         /\ \A t \in DOMAIN app.tag : app.tag[t] \in Nat                 \* task.hpp:82, u32_t
         /\ \A t \in tasks : app.spawns[t] \subseteq tasks

VARIABLES
    env,
    m_state,     \* of the scheduler
    holder,      \* the runner that keeps m_mutex between two steps, or None
    queue,       \* m_tasks_assigning
    wait_count,  \* m_tasks_runner_wait_count
    runner,      \* the runner_pool: what each runner's thread does and its fields
    sequencial,  \* the sequencial_runner_pool, likewise
    main,        \* the thread that calls start and stop
    starts,
    posted,      \* history: the tasks scheduled,
    assigned,    \*   the sequencial ones among them, in order,
    begun,       \*   the tasks whose run() was called,
    done,        \*   the tasks whose run() returned
    failed       \* an assertion failed

vars == <<env, m_state, holder, queue, wait_count, runner, sequencial, main,
          starts, posted, assigned, begun, done, failed>>

Plain == DOMAIN env.prio
Sequencial == DOMAIN env.tag
Tasks == Plain \cup Sequencial
Spawned == UNION {env.spawns[t] : t \in Tasks}
Runners == 1..env.runners
Seqs == 1..env.seqs

(* An idle runner, and a sequencial one, as start leaves them. *)
NewRunner == [at |-> "run", state |-> "IDLE", flag |-> 0, task |-> None, thread |-> "RUNNING"]
NewSequencial == [at |-> "run", state |-> "RUN", flag |-> 0, standby |-> <<>>,
                  assigning |-> <<>>, i |-> 0, thread |-> "RUNNING"]

(* runner_pool::init, sequencial_runner_pool::init *)
NewRunners == [r \in Runners |-> NewRunner]
NewSequencials == [q \in Seqs |-> NewSequencial]

NoQueue == <<<<>>, <<>>>>    \* one queue per priority, P_HIGH first

Init ==
    /\ env \in Environments
    /\ m_state = "IDLE" /\ holder = None
    /\ queue = NoQueue /\ wait_count = 0
    /\ runner = <<>> /\ sequencial = <<>>
    /\ main = [at |-> "out", run |-> 0, i |-> 0]
    /\ starts = 0 /\ failed = FALSE
    /\ posted = {} /\ assigned = <<>> /\ begun = {} /\ done = {}

-----------------------------------------------------------------------------
(* Scheduling. *)

Empty == queue = NoQueue

(* What notify_one may leave of the threads in f that wait. *)
NotifyOne(f) ==
    LET asleep == {r \in DOMAIN f : f[r].at = "asleep"} IN
    IF asleep = {} THEN {f} ELSE {[f EXCEPT ![r].at = "woken"] : r \in asleep}

NotifyAll(f) == [r \in DOMAIN f |-> IF f[r].at = "asleep" THEN [f[r] EXCEPT !.at = "woken"] ELSE f[r]]

NotifiesFirst == wait_count > 0 /\ Empty
Notifies == wait_count > 0

(* scheduler::schedule of a plain task. *)
Push(t) ==
    /\ holder = None
    /\ queue' = [queue EXCEPT ![env.prio[t] + 1] = Append(@, t)]
    /\ runner' \in (IF Notifies THEN NotifyOne(runner) ELSE {runner})
    /\ failed' = (m_state # "RUN")
    /\ UNCHANGED <<sequencial, assigned>>

RunnerOfIdle(t) ==
    IF \E q \in Seqs : sequencial[q].state = "WAITING"
    THEN CHOOSE q \in Seqs : sequencial[q].state = "WAITING"
    ELSE (env.tag[t] % env.seqs) + 1
RunnerOf(t) == (env.tag[t] % env.seqs) + 1

WakesLoaded(q) == sequencial[q].state = "WAITING" /\ sequencial[q].standby # <<>>
Wakes(q) == sequencial[q].state = "WAITING"

(* sequencial_runner_pool::assign_task, sequencial_runner::assign_task. *)
Assign(t) ==
    LET q == RunnerOf(t)
        f == [sequencial EXCEPT ![q].standby = Append(@, t)]
    IN  /\ failed' = (m_state # "RUN" \/ sequencial[q].state \notin {"RUN", "WAITING"})
        /\ sequencial' =
             IF Wakes(q) /\ sequencial[q].at = "asleep"
             THEN [f EXCEPT ![q].at = "woken"] ELSE f
        /\ assigned' = Append(assigned, t)
        /\ UNCHANGED <<queue, runner>>

Post(t) ==
    /\ posted' = posted \cup {t}
    /\ IF t \in Plain THEN Push(t) ELSE Assign(t)

(* A thread of the application schedules a task. *)
Schedule(t) ==
    /\ main.at = "app"
    /\ t \notin Spawned \cup posted
    /\ Post(t)
    /\ UNCHANGED <<m_state, holder, wait_count, main, starts, begun, done>>

(* The running task t schedules another. *)
Spawn(t) ==
    \E s \in env.spawns[t] \ posted :
        Post(s) /\ UNCHANGED <<m_state, holder, wait_count, main, starts, begun, done>>

Returned(t) == env.spawns[t] \subseteq posted

-----------------------------------------------------------------------------
(* runner::run *)

rest == <<m_state, sequencial, main, starts, posted, assigned, failed>>

(* priority_task_queue::front_and_pop: the queue it takes from. *)
Highest == IF queue[1] # <<>> THEN 1 ELSE 2

(* m_tasks_runner_wait_count when r has m_mutex. *)
CountTaken(r) == IF runner[r].at = "woken" THEN wait_count - 1 ELSE wait_count

(* From taking m_mutex (again, after a wait) to the outcome of             *)
(* front_and_pop; only when there is no task is the mutex kept.            *)
Take(r) ==
    /\ runner[r].at \in {"run", "woken"} /\ holder = None
    /\ wait_count' = CountTaken(r)
    /\ \/ /\ runner[r].state = "ENDING"
          /\ runner' = [runner EXCEPT ![r].at = "loop"]
          /\ UNCHANGED <<queue, holder>>
       \/ /\ runner[r].state # "ENDING" /\ ~Empty
          /\ runner' = [runner EXCEPT ![r].at = "popped", ![r].task = Head(queue[Highest])]
          /\ queue' = [queue EXCEPT ![Highest] = Tail(@)]
          /\ UNCHANGED holder
       \/ /\ runner[r].state # "ENDING" /\ Empty
          /\ runner' = [runner EXCEPT ![r].at = "none"]
          /\ holder' = r
          /\ UNCHANGED queue
    /\ UNCHANGED <<rest, begun, done>>

Wait(r) ==
    /\ runner[r].at = "none"
    /\ runner' = [runner EXCEPT ![r].at = "asleep", ![r].state = "WAITING"]
    /\ wait_count' = wait_count + 1
    /\ holder' = None
    /\ UNCHANGED <<rest, queue, begun, done>>

Wake(r) ==
    /\ env.spurious /\ runner[r].at = "asleep"
    /\ runner' = [runner EXCEPT ![r].at = "woken"]
    /\ UNCHANGED <<rest, queue, holder, wait_count, begun, done>>

SetRunning(r) ==
    /\ runner[r].at = "popped"
    /\ runner' = [runner EXCEPT ![r].at = "running", ![r].state = "RUNNING"]
    /\ UNCHANGED <<rest, queue, holder, wait_count, begun, done>>

BeginTask(r) ==
    /\ runner[r].at = "running"
    /\ runner' = [runner EXCEPT ![r].at = "task", ![r].flag = 0]
    /\ begun' = begun \cup {runner[r].task}
    /\ UNCHANGED <<rest, queue, holder, wait_count, done>>

SpawnTask(r) == runner[r].at = "task" /\ Spawn(runner[r].task)

EndTask(r) ==
    /\ runner[r].at = "task" /\ Returned(runner[r].task)
    /\ runner' = [runner EXCEPT ![r].at = "run", ![r].task = None]
    /\ done' = done \cup {runner[r].task}
    /\ UNCHANGED <<rest, queue, holder, wait_count, begun>>

(* thread_run_object_abstract::operator(), __on_stop__ *)
Loop(r) ==
    /\ runner[r].at = "loop"
    /\ runner' = [runner EXCEPT ![r].at = IF runner[r].thread = "RUNNING" THEN "run" ELSE "ended"]
    /\ UNCHANGED <<rest, queue, holder, wait_count, begun, done>>

Runner(r) == Take(r) \/ Wait(r) \/ SetRunning(r) \/ BeginTask(r) \/ SpawnTask(r) \/ EndTask(r) \/ Loop(r)

-----------------------------------------------------------------------------
(* sequencial_runner::run *)

others == <<m_state, holder, queue, wait_count, runner, main, starts, posted, assigned>>

(* From taking the runner's mutex (again, after a wait) to leaving it: to  *)
(* wait, to run what was standby, or to leave run().                       *)
TakeBatch(q) ==
    LET s == sequencial[q] IN
    /\ s.at \in {"run", "woken"}
    /\ failed' = (s.assigning # <<>>)
    /\ sequencial' = [sequencial EXCEPT ![q] =
         CASE s.state = "EXIT" -> [s EXCEPT !.at = "loop"]
           [] s.state # "EXIT" /\ s.standby = <<>> -> [s EXCEPT !.at = "asleep", !.state = "WAITING"]
           [] OTHER -> [s EXCEPT !.at = "batch", !.state = "RUN", !.flag = 0, !.i = 0,
                                 !.assigning = s.standby, !.standby = s.assigning]]
    /\ UNCHANGED <<others, begun, done>>

WakeSequencial(q) ==
    /\ env.spurious /\ sequencial[q].at = "asleep"
    /\ sequencial' = [sequencial EXCEPT ![q].at = "woken"]
    /\ UNCHANGED <<others, begun, done, failed>>

BeginSequencial(q) ==
    LET s == sequencial[q] IN
    /\ s.at = "batch" /\ s.state = "RUN" /\ s.i < Len(s.assigning)
    /\ sequencial' = [sequencial EXCEPT ![q].at = "task", ![q].i = @ + 1]
    /\ begun' = begun \cup {s.assigning[s.i + 1]}
    /\ UNCHANGED <<others, done, failed>>

SpawnSequencial(q) ==
    /\ sequencial[q].at = "task"
    /\ Spawn(sequencial[q].assigning[sequencial[q].i])

EndSequencial(q) ==
    LET s == sequencial[q] IN
    /\ s.at = "task" /\ Returned(s.assigning[s.i])
    /\ sequencial' = [sequencial EXCEPT ![q].at = "batch"]
    /\ done' = done \cup {s.assigning[s.i]}
    /\ UNCHANGED <<others, begun, failed>>

EndBatch(q) ==
    LET s == sequencial[q] IN
    /\ s.at = "batch" /\ (s.state # "RUN" \/ s.i = Len(s.assigning))
    /\ failed' = (s.i # Len(s.assigning))
    /\ sequencial' = [sequencial EXCEPT ![q].at = "loop", ![q].assigning = <<>>]
    /\ UNCHANGED <<others, begun, done>>

(* thread_run_object_abstract::operator(), then sequencial_runner::on_stop *)
LoopSequencial(q) ==
    LET s == sequencial[q] IN
    /\ s.at = "loop"
    /\ \/ /\ s.thread = "RUNNING"
          /\ sequencial' = [sequencial EXCEPT ![q].at = "run"]
          /\ UNCHANGED failed
       \/ /\ s.thread # "RUNNING"
          /\ failed' = (s.state # "EXIT" \/ s.standby # <<>> \/ s.assigning # <<>>)
          /\ sequencial' = [sequencial EXCEPT ![q].at = "ended"]
    /\ UNCHANGED <<others, begun, done>>

SequencialRunner(q) ==
    TakeBatch(q) \/ BeginSequencial(q) \/ SpawnSequencial(q) \/ EndSequencial(q) \/ EndBatch(q) \/ LoopSequencial(q)

-----------------------------------------------------------------------------
(* start and stop *)

pools == <<holder, queue, wait_count, runner, sequencial>>
hist == <<starts, posted, assigned, begun, done>>
At(pc) == main' = [main EXCEPT !.at = pc]
AtIndex(pc, i) == main' = [main EXCEPT !.at = pc, !.i = i]

(* scheduler::start: __on_start keeps m_mutex until all threads run. *)
Start ==
    /\ main.at = "out" /\ starts < env.starts
    /\ starts' = starts + 1
    /\ m_state' = "RUN" /\ queue' = NoQueue /\ wait_count' = 0
    /\ runner' = NewRunners
    /\ sequencial' = NewSequencials
    /\ At("app")
    /\ UNCHANGED <<holder, posted, assigned, begun, done, failed>>

Stop ==
    /\ main.at = "app" /\ env.stops /\ holder = None
    /\ main' = [main EXCEPT !.at = "queue", !.run = 0]
    /\ UNCHANGED <<m_state, pools, hist, failed>>

(* __block_until_no_new_task tests the queue and then every runner, twice, *)
(* and begins again when a test fails; self_flag and runner_flag, which    *)
(* advance together, are one counter of rounds.  The first round reads     *)
(* m_state and then sets m_wait_flag, the second reads m_wait_flag and     *)
(* then m_state.                                                           *)
Again == main' = [main EXCEPT !.at = "queue", !.run = 0]

FirstTest == IF main.run = 0 THEN "state" ELSE "flag"

TestQueue ==
    /\ main.at = "queue"
    /\ IF Empty THEN AtIndex(FirstTest, 1) ELSE Again
    /\ UNCHANGED <<m_state, pools, hist, failed>>

(* The runner, or the sequencial runner, that comes i-th in the tests. *)
Tested(i) == IF i \in Runners THEN runner[i] ELSE sequencial[i - env.runners]
LastTest == env.runners + env.seqs

(* After the last test of a round: the other round, or the end. *)
Passed ==
    CASE main.i < LastTest -> AtIndex(FirstTest, main.i + 1)
      [] main.i = LastTest /\ main.run = 0 -> main' = [main EXCEPT !.at = "queue", !.run = 1]
      [] OTHER -> At("exit")

TestState ==
    /\ main.at = "state"
    /\ IF Tested(main.i).state # "WAITING" THEN Again
       ELSE IF main.run = 0 THEN At("flag") ELSE Passed
    /\ UNCHANGED <<m_state, pools, hist, failed>>

TestFlag ==
    /\ main.at = "flag"
    /\ \/ /\ main.run = 0 /\ Passed
          /\ IF main.i \in Runners
             THEN runner' = [runner EXCEPT ![main.i].flag = 1] /\ UNCHANGED sequencial
             ELSE sequencial' = [sequencial EXCEPT ![main.i - env.runners].flag = 1] /\ UNCHANGED runner
       \/ /\ main.run = 1
          /\ IF Tested(main.i).flag = 1 THEN At("state") ELSE Again
          /\ UNCHANGED <<runner, sequencial>>
    /\ UNCHANGED <<m_state, holder, queue, wait_count, hist, failed>>

(* The end of stop, and the assertions of __on_stop. *)
Exit ==
    /\ main.at = "exit" /\ holder = None
    /\ m_state' = "EXIT"
    /\ runner' \in NotifyOne(runner)
    /\ At("onstop")
    /\ UNCHANGED <<holder, queue, wait_count, sequencial, hist, failed>>

OnStop ==
    /\ main.at = "onstop"
    /\ failed' = ~Empty
    /\ AtIndex("stop", env.runners)
    /\ UNCHANGED <<m_state, pools, hist>>

(***************************************************************************)
(* runner_pool::deinit drops the runners from the last to the first;       *)
(* dropping one calls its destructor, that is runner::stop, which waits    *)
(* for WAITING, writes ENDING, notifies all and joins the thread.          *)
(* (interrupt_thread has no effect on a thread in no_interrupt_wait.)      *)
(***************************************************************************)
FindWaiting ==
    /\ main.at = "stop" /\ main.i > 0 /\ runner[main.i].state = "WAITING"
    /\ At("ending")
    /\ UNCHANGED <<m_state, pools, hist, failed>>

SetEnding ==
    /\ main.at = "ending"
    /\ runner' = [runner EXCEPT ![main.i].state = "ENDING"]
    /\ At("notify")
    /\ UNCHANGED <<m_state, holder, queue, wait_count, sequencial, hist, failed>>

NotifyEnding ==
    /\ main.at = "notify" /\ holder = None
    /\ runner' = [NotifyAll(runner) EXCEPT ![main.i].thread = "STOP"]
    /\ At("join")
    /\ UNCHANGED <<m_state, holder, queue, wait_count, sequencial, hist, failed>>

Join ==
    /\ main.at = "join" /\ runner[main.i].at = "ended"
    /\ AtIndex("stop", main.i - 1)
    /\ UNCHANGED <<m_state, pools, hist, failed>>

(***************************************************************************)
(* sequencial_runner_pool::deinit: sequencial_runner::stop, which waits    *)
(* until it finds the two vectors empty, and joins.                        *)
(***************************************************************************)
PoolEnded ==
    /\ main.at = "stop" /\ main.i = 0
    /\ AtIndex("standby", env.seqs)
    /\ UNCHANGED <<m_state, pools, hist, failed>>

StandbyEmpty ==
    /\ main.at = "standby" /\ main.i > 0 /\ sequencial[main.i].standby = <<>>
    /\ At("assigning")
    /\ UNCHANGED <<m_state, pools, hist, failed>>

AssigningUnseen ==
    /\ main.at = "assigning"
    /\ At("endseq")
    /\ UNCHANGED <<m_state, pools, hist, failed>>
AssigningEmpty ==
    /\ main.at = "assigning"
    /\ At(IF sequencial[main.i].assigning = <<>> THEN "endseq" ELSE "standby")
    /\ UNCHANGED <<m_state, pools, hist, failed>>

ExitSequencial ==
    LET s == sequencial[main.i] IN
    /\ main.at = "endseq"
    /\ sequencial' = [sequencial EXCEPT ![main.i] =
         [s EXCEPT !.state = "EXIT", !.thread = "STOP",
                   !.at = IF s.at = "asleep" THEN "woken" ELSE s.at]]
    /\ At("joinseq")
    /\ UNCHANGED <<m_state, holder, queue, wait_count, runner, hist, failed>>

JoinSequencial ==
    /\ main.at = "joinseq" /\ sequencial[main.i].at = "ended"
    /\ AtIndex("standby", main.i - 1)
    /\ UNCHANGED <<m_state, pools, hist, failed>>

(* The pools and the queue are deleted: stop returns. *)
Stopped ==
    /\ main.at = "standby" /\ main.i = 0
    /\ At("out")
    /\ runner' = <<>> /\ sequencial' = <<>>
    /\ UNCHANGED <<m_state, holder, queue, wait_count, hist, failed>>

Main ==
    \/ TestQueue \/ TestState \/ TestFlag \/ Exit \/ OnStop
    \/ FindWaiting \/ SetEnding \/ NotifyEnding \/ Join
    \/ PoolEnded \/ StandbyEmpty \/ AssigningEmpty \/ ExitSequencial \/ JoinSequencial \/ Stopped

Step ==
    \/ Start \/ Stop \/ Main
    \/ \E t \in Tasks : Schedule(t)
    \/ \E r \in DOMAIN runner : Runner(r) \/ Wake(r)
    \/ \E q \in DOMAIN sequencial : SequencialRunner(q) \/ WakeSequencial(q)

(* The process takes a step, unless an assertion has ended it. *)
Live(A) == ~failed /\ A /\ UNCHANGED env

Next == ~failed /\ Step /\ UNCHANGED env

(***************************************************************************)
(* Every thread goes on, and no runner is kept from a mutex for ever while *)
(* others take it.  Nothing obliges the application to call anything, nor  *)
(* a condition variable to wake spuriously.                                *)
(***************************************************************************)
Fairness ==
    /\ WF_vars(Live(Main))
    /\ \A r \in 1..MaxRunners : SF_vars(Live(r \in DOMAIN runner /\ Runner(r)))
    /\ \A q \in 1..MaxSeqs : SF_vars(Live(q \in DOMAIN sequencial /\ SequencialRunner(q)))

Spec == Init /\ [][Next]_vars /\ Fairness

-----------------------------------------------------------------------------
(* The state of the runners, the queue and the stopping thread. *)
TypeOK ==
    /\ m_state \in {"IDLE", "RUN", "EXIT"}
    /\ holder \in {None} \cup DOMAIN runner
    /\ wait_count \in 0..env.runners
    /\ \A p \in {1, 2} : \A t \in Range(queue[p]) : env.prio[t] = p - 1
    /\ \A r \in DOMAIN runner : runner[r].task # None => runner[r].task \in Plain
    /\ main.run \in 0..1
    /\ failed \in BOOLEAN

Asleep == {r \in DOMAIN runner : runner[r].at = "asleep"}
Ready == {r \in DOMAIN runner : runner[r].at \in {"run", "woken"}}

(* No wake-up is lost (runner::run, scheduler::schedule): a runner sleeps  *)
(* only when the runners already on their way to the queue are at least as *)
(* many as the tasks in it.                                                *)
NoLostWakeUp ==
    m_state = "RUN" /\ Asleep # {} =>
        Len(queue[1]) + Len(queue[2]) <= Cardinality(Ready)

(* Tasks with one tag run in the order in which they were scheduled, one   *)
(* at a time (sequencial_runner): one begins only when those scheduled     *)
(* before it have ended.                                                   *)
InOrder ==
    \A i, j \in 1..Len(assigned) :
        /\ i < j /\ env.tag[assigned[i]] = env.tag[assigned[j]]
        /\ assigned[j] \in begun
        => assigned[i] \in done

(* An application that calls stop has no tasks that schedule others. *)
Quiet == \A app \in Environments :
             app.stops => \A t \in DOMAIN app.prio \cup DOMAIN app.tag : app.spawns[t] = {}

(* No assertion of the scheduler or its runners fails: stop finds the      *)
(* queue empty (scheduler::__on_stop), a batch ends with its last task,    *)
(* and a sequencial runner ends with both vectors empty.  It holds for     *)
(* applications that do not call stop while their tasks schedule others.   *)
AssertionsHold == ~failed

(* Every task that was scheduled is run to its end, also when stop is      *)
(* called: __block_until_no_new_task and sequencial_runner::stop wait for  *)
(* what is still queued.                                                   *)
EveryTaskRuns == []<>(posted \subseteq done)

(* A runner "will run until you call stop"                                 *)
(* (thread_run_object_abstract.hpp:8): a call of scheduler::stop, which    *)
(* stops and joins every runner, returns.  The code does not keep it:      *)
(* IdleEnvironments of MCTaskScheduler violate it.                         *)
StopEnds == main.at = "queue" ~> main.at = "out"

(* The scheduler's fields keep their types, and the count of waiting        *)
(* runners, the queue and the runners' states never agree on sleep while a  *)
(* task is left (scheduler.hpp:66-80, runner.cpp:48-77).                    *)
WakeUpsSound == TypeOK /\ NoLostWakeUp
=============================================================================
