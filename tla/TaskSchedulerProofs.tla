------------------------ MODULE TaskSchedulerProofs ------------------------
(***************************************************************************)
(* Proofs about the task scheduler, for any number of runners, sequencial  *)
(* runners and tasks: no wake-up is lost, tasks with one tag run in order, *)
(* and no assertion fails in an application whose tasks schedule nothing   *)
(* while stop is under way.                                                *)
(***************************************************************************)
EXTENDS TaskScheduler, FiniteSetTheorems, TLAPS

RunnerRecords ==
    [at : {"run", "woken", "loop", "popped", "none", "asleep", "running", "task", "ended"},
     state : {"IDLE", "WAITING", "RUNNING", "ENDING"}, flag : 0..1,
     task : AllTasks \cup {None}, thread : {"RUNNING", "STOP"}]

TaskSeqs == Seq(AllTasks)
SequencialRecords ==
    [at : {"run", "woken", "loop", "batch", "asleep", "task", "ended"},
     state : {"RUN", "WAITING", "EXIT"}, flag : 0..1,
     standby : TaskSeqs, assigning : TaskSeqs, i : Nat, thread : {"RUNNING", "STOP"}]

(* Where the thread that calls start and stop may be. *)
Serving == {"app", "queue", "state", "flag", "exit"}    \* m_state is RUN
StoppingRunners == {"stop", "ending", "notify", "join"}
StoppingSequencials == {"standby", "assigning", "endseq", "joinseq"}
Places == {"out", "onstop"} \cup Serving \cup StoppingRunners \cup StoppingSequencials

MainRecords == [at : Places, run : 0..1, i : Nat]

(* The pools exist while the application is between start and the end of   *)
(* stop, and the index of the stopping thread is one of theirs.            *)
Shape ==
    /\ env \in Environments
    /\ main \in MainRecords
    /\ m_state \in {"IDLE", "RUN", "EXIT"} /\ (m_state = "RUN" <=> main.at \in Serving)
    /\ failed \in BOOLEAN
    /\ IF main.at = "out"
       THEN runner = <<>> /\ sequencial = <<>>
       ELSE runner \in [Runners -> RunnerRecords] /\ sequencial \in [Seqs -> SequencialRecords]
    /\ main.at \in {"state", "flag"} => main.i \in 1..LastTest
    /\ main.at \in StoppingRunners => main.i \in 0..env.runners
    /\ main.at \in StoppingRunners \ {"stop"} => main.i > 0
    /\ main.at \in StoppingSequencials => main.i \in 0..env.seqs
    /\ main.at \in StoppingSequencials \ {"standby"} => main.i > 0

(* m_tasks_assigning holds plain tasks, each in the queue of its priority. *)
Queued ==
    /\ queue \in [{1, 2} -> Seq(Plain)]
    /\ \A p \in {1, 2} : \A k \in 1..Len(queue[p]) : env.prio[queue[p][k]] = p - 1

(* The runners that m_tasks_runner_wait_count counts. *)
Waiting == {r \in DOMAIN runner : runner[r].at \in {"asleep", "woken"}}
Counted == wait_count = Cardinality(Waiting)

(* A runner that found no task keeps m_mutex until it sleeps. *)
Held ==
    /\ holder \in {None} \cup DOMAIN runner
    /\ \A r \in DOMAIN runner : runner[r].at = "none" <=> holder = r
    /\ holder # None => Empty

(* What a runner has popped is a plain task. *)
Carried ==
    \A r \in DOMAIN runner :
        /\ runner[r].task \in Plain \cup {None}
        /\ runner[r].at \in {"popped", "running", "task"} => runner[r].task \in Plain

(* stop ends the runners one after the other, after the scheduler left RUN. *)
EndedInTurn ==
    /\ m_state = "RUN" => \A r \in DOMAIN runner : runner[r].state # "ENDING"
    /\ main.at \in StoppingRunners => \A r \in Runners : r > main.i => runner[r].at = "ended"
    /\ main.at \in StoppingSequencials => \A r \in Runners : runner[r].at = "ended"

Waking == Queued /\ Counted /\ Held /\ Carried /\ EndedInTurn /\ NoLostWakeUp

(* A sequencial task is assigned once. *)
Numbered ==
    /\ assigned \in Seq(Sequencial)
    /\ \A m, n \in 1..Len(assigned) : assigned[m] = assigned[n] => m = n
    /\ \A n \in 1..Len(assigned) : assigned[n] \in posted /\ assigned[n] \notin Plain
    /\ \A t \in begun : t \in Plain \/ \E n \in 1..Len(assigned) : t = assigned[n]

Has(v, t) == \E k \in 1..Len(v) : v[k] = t

(* In the history h, a comes before b; the vectors a and s hold tasks of h *)
(* in the order of h, those of a before those of s.                        *)
Ahead(h, a, b) == \A m, n \in 1..Len(h) : h[m] = a /\ h[n] = b => m < n
Ordered(h, a, s) ==
    /\ \A k \in 1..Len(a) : Has(h, a[k])
    /\ \A k \in 1..Len(s) : Has(h, s[k])
    /\ \A k, l \in 1..Len(a) : k < l => Ahead(h, a[k], a[l])
    /\ \A k, l \in 1..Len(s) : k < l => Ahead(h, s[k], s[l])
    /\ \A k \in 1..Len(a), l \in 1..Len(s) : Ahead(h, a[k], s[l])

(* The two vectors of a sequencial runner hold its own tasks, in the order *)
(* in which they were assigned.                                            *)
Vectors ==
    \A q \in DOMAIN sequencial :
        LET s == sequencial[q] IN
        /\ Ordered(assigned, s.assigning, s.standby)
        /\ \A t \in AllTasks : Has(s.assigning, t) \/ Has(s.standby, t) => RunnerOf(t) = q

(* The runner s still has t to run; s runs t. *)
Pending(s, t) ==
    \/ \E k \in 1..Len(s.assigning) : k > s.i /\ s.assigning[k] = t
    \/ Has(s.standby, t)
Runs(s, t) == s.at = "task" /\ s.assigning[s.i] = t

(* No assigned task is lost: it has run, it runs, or its runner has it.    *)
Accounted ==
    \A n \in 1..Len(assigned) :
        LET t == assigned[n]
            q == RunnerOf(t)
        IN  /\ t \notin begun => q \in DOMAIN sequencial /\ Pending(sequencial[q], t)
            /\ t \in begun /\ t \notin done => q \in DOMAIN sequencial /\ Runs(sequencial[q], t)

(* A sequencial runner in its loop, and how it ends. *)
Lives ==
    /\ \A q \in DOMAIN sequencial :
         LET s == sequencial[q] IN
         /\ s.at = "batch" => s.i \in 0..Len(s.assigning)
         /\ s.at = "task" => s.i \in 1..Len(s.assigning)
         /\ s.thread = "STOP" <=> s.state = "EXIT"
         /\ s.state = "EXIT" => m_state # "RUN"
         /\ s.at = "ended" => s.state = "EXIT" /\ s.standby = <<>> /\ s.assigning = <<>>
    /\ main.at \in StoppingSequencials => \A q \in Seqs : q > main.i => sequencial[q].at = "ended"

(* Order is kept as long as no assertion has ended the process. *)
Ordering == Numbered /\ InOrder /\ (~failed => Vectors /\ Accounted /\ Lives)

Inv == Shape /\ Waking /\ Ordering

(* A runner's batch is there while it runs it, and no longer; a runner that *)
(* was told to exit has no task left.                                       *)
Batched(s) ==
    /\ s.at \in {"batch", "task"} => s.state = "RUN" /\ s.assigning # <<>>
    /\ s.at \notin {"batch", "task"} => s.assigning = <<>>
    /\ s.state = "EXIT" => s.standby = <<>> /\ s.assigning = <<>>

(* What stop has seen empty stays empty. *)
Drained ==
    /\ ~failed
    /\ main.at \notin {"out", "app"} => env.stops
    /\ main.at \notin {"out", "app", "queue"} => Empty
    /\ \A q \in DOMAIN sequencial : Batched(sequencial[q])
    /\ main.at \in {"assigning", "endseq"} => sequencial[main.i].standby = <<>>
    /\ main.at = "endseq" => sequencial[main.i].assigning = <<>>

-----------------------------------------------------------------------------
(* What the assumptions say of the environment that was chosen. *)
LEMMA EnvFacts ==
    ASSUME env \in Environments
    PROVE  /\ env.runners \in Nat /\ env.runners > 0 /\ env.seqs \in Nat /\ env.seqs > 0
           /\ Plain \subseteq AllTasks /\ Sequencial \subseteq AllTasks
           /\ None \notin AllTasks /\ None \notin Runners
           /\ \A t \in Plain : env.prio[t] \in {0, 1}
           /\ \A t \in Tasks : env.spawns[t] \subseteq Tasks
  <1>1. /\ env.runners \in 1..MaxRunners /\ env.seqs \in 1..MaxSeqs
        /\ MaxRunners \in Nat /\ MaxSeqs \in Nat
    BY SizesAssumption
  <1>2. env.runners \in Nat /\ env.runners > 0 /\ env.seqs \in Nat /\ env.seqs > 0
    BY <1>1
  <1>3. Runners \subseteq 1..MaxRunners
    BY <1>1 DEF Runners
  <1> QED
    BY <1>2, <1>3, SizesAssumption DEF Plain, Sequencial, Tasks

LEMMA RunnerOfInPool ==
    ASSUME env \in Environments, NEW t \in Sequencial
    PROVE  RunnerOf(t) \in Seqs
  <1>1. env.tag[t] \in Nat /\ env.seqs \in Nat /\ env.seqs > 0
    BY EnvFacts, SizesAssumption DEF Sequencial
  <1>2. env.tag[t] % env.seqs \in 0..(env.seqs - 1)
    BY <1>1
  <1> QED
    BY <1>1, <1>2 DEF RunnerOf, Seqs

(* The two pools exist whenever one of their runners does. *)
LEMMA PoolsExist ==
    ASSUME Shape, main.at # "out" \/ DOMAIN runner # {} \/ DOMAIN sequencial # {}
    PROVE  /\ main.at # "out"
           /\ runner \in [Runners -> RunnerRecords] /\ sequencial \in [Seqs -> SequencialRecords]
           /\ DOMAIN runner = Runners /\ DOMAIN sequencial = Seqs
  BY DEF Shape

(* The queue is empty when both of its parts are. *)
LEMMA EmptyQueue ==
    ASSUME Queued
    PROVE  /\ queue[1] \in Seq(Plain) /\ queue[2] \in Seq(Plain)
           /\ Empty <=> queue[1] = <<>> /\ queue[2] = <<>>
  <1>1. queue[1] \in Seq(Plain) /\ queue[2] \in Seq(Plain)
    BY DEF Queued
  <1>2. Empty => queue[1] = <<>> /\ queue[2] = <<>>
    BY DEF Empty, NoQueue
  <1>3. ASSUME queue[1] = <<>>, queue[2] = <<>> PROVE Empty
    <2>1. DOMAIN queue = 1..2 /\ DOMAIN NoQueue = 1..2
      BY DEF Queued, NoQueue
    <2>2. NoQueue[1] = <<>> /\ NoQueue[2] = <<>>
      BY DEF NoQueue
    <2>3. NoQueue = [p \in 1..2 |-> NoQueue[p]]
      BY <2>1 DEF NoQueue
    <2>4. queue = [p \in 1..2 |-> queue[p]]
      BY <2>1 DEF Queued
    <2>5. \A p \in 1..2 : queue[p] = NoQueue[p]
      BY <1>3, <2>2
    <2> QED
      BY <2>3, <2>4, <2>5 DEF Empty
  <1> QED
    BY <1>1, <1>2, <1>3

LEMMA NoQueueQueued ==
    ASSUME queue = NoQueue PROVE Queued
  <1>1. queue[1] = <<>> /\ queue[2] = <<>> /\ DOMAIN queue = {1, 2}
    BY DEF NoQueue
  <1>2. queue \in [{1, 2} -> Seq(Plain)]
    <2>1. queue = [p \in 1..2 |-> queue[p]]
      BY DEF NoQueue
    <2>2. 1..2 = {1, 2} /\ <<>> \in Seq(Plain)
      OBVIOUS
    <2>3. \A p \in 1..2 : queue[p] \in Seq(Plain)
      BY <1>1, <2>2
    <2> QED
      BY <2>1, <2>2, <2>3
  <1>3. \A p \in {1, 2} : 1..Len(queue[p]) = {}
    BY <1>1
  <1> QED
    BY <1>2, <1>3 DEF Queued

(* The task at the head of the queue is a plain one. *)
LEMMA HeadPlain ==
    ASSUME Queued, ~Empty
    PROVE  /\ Highest \in {1, 2} /\ queue[Highest] \in Seq(Plain) /\ queue[Highest] # <<>>
           /\ Head(queue[Highest]) \in Plain
  <1>1. Highest \in {1, 2} /\ queue[Highest] # <<>>
    BY EmptyQueue DEF Highest
  <1>2. queue[Highest] \in Seq(Plain)
    BY <1>1 DEF Queued
  <1> QED
    BY <1>1, <1>2

-----------------------------------------------------------------------------
(* The shape of the state is kept. *)

LEMMA ShapeInit == Init => Shape
  <1> SUFFICES ASSUME Init PROVE Shape
    OBVIOUS
  <1>1. main.at = "out" /\ main \in MainRecords
    BY DEF Init, Places, MainRecords
  <1>2. m_state = "IDLE" /\ failed = FALSE /\ runner = <<>> /\ sequencial = <<>> /\ env \in Environments
    BY DEF Init
  <1> QED
    BY <1>1, <1>2 DEF Shape, Serving, StoppingRunners, StoppingSequencials

(* A step that moves runners, and not the stopping thread. *)
LEMMA ShapeRunners ==
    ASSUME Shape, UNCHANGED <<env, m_state, main>>, failed' \in BOOLEAN, main.at # "out",
           runner' \in [Runners -> RunnerRecords], sequencial' \in [Seqs -> SequencialRecords]
    PROVE  Shape'
  BY DEF Shape, LastTest, Runners, Seqs

(* Threads that are notified change nothing but their place. *)
LEMMA NotifyOneEffect ==
    ASSUME NEW f, NEW g \in NotifyOne(f)
    PROVE  \/ g = f /\ \A r \in DOMAIN f : f[r].at # "asleep"
           \/ \E r \in DOMAIN f : f[r].at = "asleep" /\ g = [f EXCEPT ![r].at = "woken"]
  BY DEF NotifyOne

LEMMA NotifiedType ==
    ASSUME NEW f \in [Runners -> RunnerRecords]
    PROVE  /\ NotifyOne(f) \subseteq [Runners -> RunnerRecords]
           /\ NotifyAll(f) \in [Runners -> RunnerRecords]
  <1>1. ASSUME NEW g \in NotifyOne(f) PROVE g \in [Runners -> RunnerRecords]
    BY NotifyOneEffect DEF RunnerRecords
  <1>2. NotifyAll(f) \in [Runners -> RunnerRecords]
    <2>1. \A r \in Runners : [f[r] EXCEPT !.at = "woken"] \in RunnerRecords
      BY DEF RunnerRecords
    <2> QED
      BY <2>1 DEF NotifyAll
  <1> QED
    BY <1>1, <1>2

(* What scheduling a task does to the pools. *)
LEMMA ShapePost ==
    ASSUME Shape, Queued, NEW t \in Tasks, Post(t), main.at # "out",
           UNCHANGED <<env, m_state, main>>
    PROVE  Shape'
  <1>1. /\ runner \in [Runners -> RunnerRecords] /\ sequencial \in [Seqs -> SequencialRecords]
        /\ env \in Environments
    BY DEF Shape
  <1>2. CASE t \in Plain
    <2>1. Push(t)
      BY <1>2 DEF Post
    <2>2. runner' \in [Runners -> RunnerRecords]
      BY <1>1, <2>1, NotifiedType DEF Push
    <2>3. sequencial' = sequencial /\ failed' \in BOOLEAN
      BY <2>1 DEF Push
    <2> QED
      BY <1>1, <2>2, <2>3, ShapeRunners
  <1>3. CASE t \notin Plain
    <2>1. Assign(t) /\ t \in Sequencial /\ t \in AllTasks
      BY <1>1, <1>3, EnvFacts DEF Post, Tasks
    <2>2. RunnerOf(t) \in Seqs
      BY <1>1, <2>1, RunnerOfInPool
    <2> DEFINE q == RunnerOf(t)
               f == [sequencial EXCEPT ![q].standby = Append(@, t)]
    <2>3. f \in [Seqs -> SequencialRecords]
      <3>1. sequencial[q] \in SequencialRecords
        BY <1>1, <2>2
      <3>2. Append(sequencial[q].standby, t) \in TaskSeqs
        BY <3>1, <2>1 DEF SequencialRecords, TaskSeqs
      <3>3. [sequencial[q] EXCEPT !.standby = Append(sequencial[q].standby, t)] \in SequencialRecords
        BY <3>1, <3>2 DEF SequencialRecords
      <3> HIDE DEF q
      <3> QED
        BY <1>1, <3>3
    <2>4. [f EXCEPT ![q].at = "woken"] \in [Seqs -> SequencialRecords]
      <3> HIDE DEF f, q
      <3> QED
        BY <2>3 DEF SequencialRecords
    <2>5. sequencial' \in {f, [f EXCEPT ![q].at = "woken"]}
      BY <2>1 DEF Assign
    <2>6. sequencial' \in [Seqs -> SequencialRecords]
      BY <2>3, <2>4, <2>5
    <2>7. runner' = runner /\ failed' \in BOOLEAN
      BY <2>1 DEF Assign
    <2> QED
      BY <1>1, <2>6, <2>7, ShapeRunners
  <1> QED
    BY <1>2, <1>3

LEMMA ShapeRunner ==
    ASSUME Shape, Queued, Carried, NEW r \in DOMAIN runner, Runner(r) \/ Wake(r), UNCHANGED env
    PROVE  Shape'
  <1>1. /\ runner \in [Runners -> RunnerRecords] /\ sequencial \in [Seqs -> SequencialRecords]
        /\ env \in Environments /\ main.at # "out" /\ r \in Runners /\ failed \in BOOLEAN
        /\ DOMAIN runner = Runners
    BY PoolsExist DEF Shape
  <1>2. CASE SpawnTask(r)
    <2>1. PICK s \in env.spawns[runner[r].task] : Post(s) /\ UNCHANGED <<m_state, main>>
      BY <1>2 DEF SpawnTask, Spawn
    <2>2. s \in Tasks
      BY <1>1, <1>2, EnvFacts DEF SpawnTask, Carried, Tasks
    <2> QED
      BY <1>1, <2>1, <2>2, ShapePost
  <1>3. CASE ~SpawnTask(r)
    <2>1. runner' \in [Runners -> RunnerRecords]
      <3>1. runner[r] \in RunnerRecords
        BY <1>1
      <3>2. CASE Take(r)
        <4>1. ~Empty => Head(queue[Highest]) \in AllTasks
          BY <1>1, HeadPlain, EnvFacts
        <4> QED
          BY <1>1, <3>1, <3>2, <4>1 DEF Take, RunnerRecords
      <3>3. CASE Wait(r) \/ SetRunning(r) \/ BeginTask(r)
        BY <1>1, <3>1, <3>3 DEF Wait, SetRunning, BeginTask, RunnerRecords
      <3>4. CASE EndTask(r) \/ Loop(r) \/ Wake(r)
        BY <1>1, <3>1, <3>4 DEF EndTask, Loop, Wake, RunnerRecords
      <3> QED
        BY <1>3, <3>2, <3>3, <3>4 DEF Runner
    <2>2. UNCHANGED <<m_state, sequencial, main, failed>>
      BY <1>3 DEF Runner, Take, Wait, SetRunning, BeginTask, EndTask, Loop, Wake, rest
    <2> QED
      BY <1>1, <2>1, <2>2, ShapeRunners
  <1> QED
    BY <1>2, <1>3

LEMMA BatchType ==
    ASSUME NEW s \in SequencialRecords, NEW f \in 0..1, NEW k \in Nat,
           NEW a \in TaskSeqs, NEW b \in TaskSeqs
    PROVE  [s EXCEPT !.at = "batch", !.state = "RUN", !.flag = f, !.i = k,
                     !.assigning = a, !.standby = b] \in SequencialRecords
  BY DEF SequencialRecords

LEMMA ShapeSequencial ==
    ASSUME Shape, Queued, Numbered, Vectors, Lives, NEW q \in DOMAIN sequencial,
           SequencialRunner(q) \/ WakeSequencial(q), UNCHANGED env
    PROVE  Shape'
  <1>1. /\ runner \in [Runners -> RunnerRecords] /\ sequencial \in [Seqs -> SequencialRecords]
        /\ env \in Environments /\ main.at # "out" /\ q \in Seqs /\ failed \in BOOLEAN
        /\ DOMAIN sequencial = Seqs
    BY PoolsExist DEF Shape
  <1>2. CASE SpawnSequencial(q)
    <2> DEFINE t == sequencial[q].assigning[sequencial[q].i]
    <2>1. PICK s \in env.spawns[t] : Post(s) /\ UNCHANGED <<m_state, main>>
      BY <1>2 DEF SpawnSequencial, Spawn
    <2>2. t \in Sequencial
      BY <1>1, <1>2 DEF SpawnSequencial, Lives, Vectors, Ordered, Has, Numbered
    <2>3. s \in Tasks
      BY <1>1, <2>1, <2>2, EnvFacts DEF Tasks
    <2> QED
      BY <1>1, <2>1, <2>3, ShapePost
  <1>3. CASE ~SpawnSequencial(q)
    <2>1. sequencial' \in [Seqs -> SequencialRecords]
      <3>1. sequencial[q] \in SequencialRecords
        BY <1>1
      <3> DEFINE s == sequencial[q]
      <3>2. CASE TakeBatch(q)
        <4>1. /\ [s EXCEPT !.at = "loop"] \in SequencialRecords
              /\ [s EXCEPT !.at = "asleep", !.state = "WAITING"] \in SequencialRecords
          BY <3>1 DEF SequencialRecords
        <4>0. s.standby \in TaskSeqs /\ s.assigning \in TaskSeqs /\ 0 \in 0..1 /\ 0 \in Nat
          BY <3>1 DEF SequencialRecords
        <4>2. [s EXCEPT !.at = "batch", !.state = "RUN", !.flag = 0, !.i = 0,
                        !.assigning = s.standby, !.standby = s.assigning] \in SequencialRecords
          BY <3>1, <4>0, BatchType
        <4>3. PICK x \in SequencialRecords : sequencial' = [sequencial EXCEPT ![q] = x]
          BY <3>2, <4>1, <4>2 DEF TakeBatch
        <4> QED
          BY <1>1, <4>3
      <3>3. CASE WakeSequencial(q) \/ EndSequencial(q)
        BY <1>1, <3>1, <3>3 DEF WakeSequencial, EndSequencial, SequencialRecords
      <3>4. CASE BeginSequencial(q)
        BY <1>1, <3>1, <3>4 DEF BeginSequencial, SequencialRecords
      <3>5. CASE EndBatch(q)
        <4>1. <<>> \in TaskSeqs
          BY DEF TaskSeqs
        <4> QED
          BY <1>1, <3>1, <3>5, <4>1 DEF EndBatch, SequencialRecords
      <3>6. CASE LoopSequencial(q)
        BY <1>1, <3>1, <3>6 DEF LoopSequencial, SequencialRecords
      <3> QED
        BY <1>3, <3>2, <3>3, <3>4, <3>5, <3>6 DEF SequencialRunner
    <2>2. UNCHANGED <<m_state, runner, main>>
      BY <1>3 DEF SequencialRunner, TakeBatch, WakeSequencial, BeginSequencial, EndSequencial,
                  EndBatch, LoopSequencial, others
    <2>3. failed' \in BOOLEAN
      BY <1>1, <1>3 DEF SequencialRunner, TakeBatch, WakeSequencial, BeginSequencial, EndSequencial,
                        EndBatch, LoopSequencial
    <2> QED
      BY <1>1, <2>1, <2>2, <2>3, ShapeRunners
  <1> QED
    BY <1>2, <1>3

(* start and stop *)
LEMMA AtMoves ==
    ASSUME main \in MainRecords, NEW pc \in Places, At(pc)
    PROVE  main' \in MainRecords /\ main'.at = pc /\ main'.i = main.i /\ main'.run = main.run
  BY DEF At, MainRecords

LEMMA AtIndexMoves ==
    ASSUME main \in MainRecords, NEW pc \in Places, NEW k \in Nat, AtIndex(pc, k)
    PROVE  main' \in MainRecords /\ main'.at = pc /\ main'.i = k /\ main'.run = main.run
  BY DEF AtIndex, MainRecords

LEMMA RoundMoves ==
    ASSUME main \in MainRecords, NEW k \in 0..1, main' = [main EXCEPT !.at = "queue", !.run = k]
    PROVE  main' \in MainRecords /\ main'.at = "queue" /\ main'.i = main.i /\ main'.run = k
  BY DEF MainRecords, Places, Serving

LEMMA ShapeStart ==
    ASSUME Shape, Start, UNCHANGED env
    PROVE  Shape'
  <1>1. env \in Environments /\ main \in MainRecords /\ failed \in BOOLEAN
    BY DEF Shape
  <1>2. main' \in MainRecords /\ main'.at = "app"
    BY <1>1, AtMoves DEF Start, Places, Serving
  <1>3. NewRunners \in [Runners -> RunnerRecords]
    BY DEF NewRunners, NewRunner, RunnerRecords
  <1>4. NewSequencials \in [Seqs -> SequencialRecords]
    <2>1. <<>> \in TaskSeqs
      BY DEF TaskSeqs
    <2>2. NewSequencial \in SequencialRecords
      BY <2>1 DEF NewSequencial, SequencialRecords
    <2> QED
      BY <2>2 DEF NewSequencials
  <1>5. /\ runner' = NewRunners /\ sequencial' = NewSequencials /\ m_state' = "RUN" /\ failed' = failed
        /\ Runners' = Runners /\ Seqs' = Seqs
    BY DEF Start, Runners, Seqs
  <1> QED
    BY <1>1, <1>2, <1>3, <1>4, <1>5 DEF Shape, Serving, StoppingRunners, StoppingSequencials

LEMMA ShapeStopping ==
    ASSUME Shape, Stop \/ TestQueue \/ TestState \/ TestFlag, UNCHANGED env
    PROVE  Shape'
  <1>1. /\ env \in Environments /\ main \in MainRecords /\ failed \in BOOLEAN
        /\ main.at \in {"app", "queue", "state", "flag"}
        /\ runner \in [Runners -> RunnerRecords] /\ sequencial \in [Seqs -> SequencialRecords]
        /\ main.at \in {"state", "flag"} => main.i \in 1..LastTest
    BY DEF Shape, Stop, TestQueue, TestState, TestFlag
  <1>2. env.runners \in Nat /\ env.runners > 0 /\ env.seqs \in Nat /\ env.seqs > 0
    BY <1>1, EnvFacts
  <1>3. LastTest \in Nat /\ LastTest > 0
    BY <1>2 DEF LastTest
  <1>4. ASSUME Passed, main.at \in {"state", "flag"}
        PROVE  /\ main' \in MainRecords
               /\ main'.at \in {"state", "flag", "queue", "exit"}
               /\ main'.at \in {"state", "flag"} => main'.i \in 1..LastTest
    <2>1. FirstTest \in Places /\ FirstTest \in {"state", "flag"} /\ "exit" \in Places /\ 1 \in 0..1
      BY DEF FirstTest, Places, Serving
    <2>2. CASE main.i < LastTest
      <3>1. main.i + 1 \in Nat /\ main.i + 1 \in 1..LastTest
        BY <1>1, <1>3, <1>4, <2>2
      <3>2. AtIndex(FirstTest, main.i + 1)
        BY <1>1, <1>3, <1>4, <2>2 DEF Passed
      <3> QED
        BY <1>1, <2>1, <3>1, <3>2, AtIndexMoves
    <2>3. CASE main.i = LastTest /\ main.run = 0
      <3>1. main' = [main EXCEPT !.at = "queue", !.run = 1]
        BY <1>3, <1>4, <2>3 DEF Passed
      <3> QED
        BY <1>1, <2>1, <3>1, RoundMoves
    <2>4. CASE ~(main.i < LastTest) /\ ~(main.i = LastTest /\ main.run = 0)
      <3>1. At("exit")
        BY <1>4, <2>4 DEF Passed
      <3> QED
        BY <1>1, <2>1, <3>1, AtMoves
    <2> QED
      BY <2>2, <2>3, <2>4
  <1>5. Again => main' \in MainRecords /\ main'.at = "queue"
    <2>1. 0 \in 0..1
      OBVIOUS
    <2> QED
      BY <1>1, <2>1, RoundMoves DEF Again
  <1>6. /\ main' \in MainRecords
        /\ main'.at \in {"state", "flag", "queue", "exit"}
        /\ main'.at \in {"state", "flag"} => main'.i \in 1..LastTest
    <2>1. CASE Stop
      BY <1>5, <2>1 DEF Stop, Again
    <2>2. CASE TestQueue
      <3>1. FirstTest \in Places /\ FirstTest \in {"state", "flag"} /\ 1 \in Nat /\ 1 \in 1..LastTest
        BY <1>3 DEF FirstTest, Places, Serving
      <3> QED
        BY <1>1, <1>5, <2>2, <3>1, AtIndexMoves DEF TestQueue
    <2>3. CASE TestState
      BY <1>1, <1>4, <1>5, <2>3, AtMoves DEF TestState, Places, Serving
    <2>4. CASE TestFlag
      BY <1>1, <1>4, <1>5, <2>4, AtMoves DEF TestFlag, Places, Serving
    <2> QED
      BY <2>1, <2>2, <2>3, <2>4
  <1>7. runner' \in [Runners -> RunnerRecords] /\ sequencial' \in [Seqs -> SequencialRecords]
    <2>1. CASE TestFlag
      <3>1. CASE main.i \in Runners
        BY <1>1, <2>1, <3>1 DEF TestFlag, RunnerRecords
      <3>2. CASE main.i \notin Runners
        <4>1. main.i - env.runners \in Seqs
          BY <1>1, <1>2, <2>1, <3>2 DEF TestFlag, LastTest, Seqs, Runners
        <4> QED
          BY <1>1, <2>1, <3>2, <4>1 DEF TestFlag, SequencialRecords
      <3> QED
        BY <3>1, <3>2
    <2>2. CASE ~TestFlag
      BY <1>1, <2>2 DEF Stop, TestQueue, TestState, pools
    <2> QED
      BY <2>1, <2>2
  <1>8. UNCHANGED <<m_state, failed>>
    BY DEF Stop, TestQueue, TestState, TestFlag
  <1>9. Runners' = Runners /\ Seqs' = Seqs /\ LastTest' = LastTest
    BY DEF Runners, Seqs, LastTest
  <1> QED
    BY <1>1, <1>6, <1>7, <1>8, <1>9 DEF Shape, Serving, StoppingRunners, StoppingSequencials

LEMMA ShapeExit ==
    ASSUME Shape, Exit \/ OnStop, UNCHANGED env
    PROVE  Shape'
  <1>1. /\ env \in Environments /\ main \in MainRecords
        /\ failed \in BOOLEAN /\ main.at \in {"exit", "onstop"} /\ m_state \in {"IDLE", "RUN", "EXIT"}
        /\ runner \in [Runners -> RunnerRecords] /\ sequencial \in [Seqs -> SequencialRecords]
    BY DEF Shape, Exit, OnStop
  <1>2. env.runners \in Nat
    BY <1>1, EnvFacts
  <1>3. /\ main' \in MainRecords /\ main'.at \in {"onstop", "stop"}
        /\ main'.at = "stop" => main'.i \in 0..env.runners
    <2>1. "onstop" \in Places /\ "stop" \in Places /\ env.runners \in 0..env.runners
      BY <1>2 DEF Places, StoppingRunners
    <2> QED
      BY <1>1, <1>2, <2>1, AtMoves, AtIndexMoves DEF Exit, OnStop
  <1>4. runner' \in [Runners -> RunnerRecords] /\ sequencial' = sequencial
    BY <1>1, NotifiedType DEF Exit, OnStop, pools
  <1>5. m_state' \in {"IDLE", "EXIT"} /\ failed' \in BOOLEAN
    BY <1>1 DEF Exit, OnStop, Shape, Serving
  <1>6. Runners' = Runners /\ Seqs' = Seqs
    BY DEF Runners, Seqs
  <1> QED
    BY <1>1, <1>3, <1>4, <1>5, <1>6 DEF Shape, Serving, StoppingRunners, StoppingSequencials

LEMMA ShapeEnding ==
    ASSUME Shape, FindWaiting \/ SetEnding \/ NotifyEnding \/ Join \/ PoolEnded, UNCHANGED env
    PROVE  Shape'
  <1>1. /\ env \in Environments /\ main \in MainRecords
        /\ failed \in BOOLEAN /\ main.at \in StoppingRunners
        /\ m_state \in {"IDLE", "EXIT"} /\ main.i \in 0..env.runners
        /\ main.at # "stop" => main.i > 0
        /\ runner \in [Runners -> RunnerRecords] /\ sequencial \in [Seqs -> SequencialRecords]
    BY DEF Shape, FindWaiting, SetEnding, NotifyEnding, Join, PoolEnded, StoppingRunners, Serving
  <1>2. env.runners \in Nat /\ env.seqs \in Nat
    BY <1>1, EnvFacts
  <1>3. /\ main' \in MainRecords
        /\ \/ main'.at = "standby" /\ main'.i = env.seqs
           \/ main'.at = "stop" /\ main'.i \in 0..env.runners
           \/ main'.at \in {"ending", "notify", "join"} /\ main'.i \in 0..env.runners /\ main'.i > 0
    <2>1. CASE FindWaiting \/ SetEnding \/ NotifyEnding
      BY <1>1, <2>1, AtMoves DEF FindWaiting, SetEnding, NotifyEnding, Places, StoppingRunners
    <2>2. CASE Join \/ PoolEnded
      <3>1. "stop" \in Places /\ "standby" \in Places
        BY DEF Places, StoppingRunners, StoppingSequencials
      <3>2. Join => main.i - 1 \in Nat /\ main.i - 1 \in 0..env.runners
        BY <1>1, <1>2 DEF Join
      <3> QED
        BY <1>1, <1>2, <2>2, <3>1, <3>2, AtIndexMoves DEF Join, PoolEnded
    <2> QED
      BY <2>1, <2>2
  <1>4. runner' \in [Runners -> RunnerRecords] /\ sequencial' = sequencial
    <2>1. CASE SetEnding
      BY <1>1, <2>1 DEF SetEnding, RunnerRecords
    <2>2. CASE NotifyEnding
      <3>1. NotifyAll(runner) \in [Runners -> RunnerRecords]
        BY <1>1, NotifiedType
      <3> QED
        BY <3>1, <2>2 DEF NotifyEnding, RunnerRecords
    <2>3. CASE FindWaiting \/ Join \/ PoolEnded
      BY <1>1, <2>3 DEF FindWaiting, Join, PoolEnded, pools
    <2> QED
      BY <2>1, <2>2, <2>3
  <1>5. UNCHANGED <<m_state, failed>>
    BY DEF FindWaiting, SetEnding, NotifyEnding, Join, PoolEnded
  <1>6. Runners' = Runners /\ Seqs' = Seqs
    BY DEF Runners, Seqs
  <1> QED
    BY <1>1, <1>2, <1>3, <1>4, <1>5, <1>6 DEF Shape, Serving, StoppingRunners, StoppingSequencials

LEMMA ShapeEndingSequencial ==
    ASSUME Shape, StandbyEmpty \/ AssigningEmpty \/ ExitSequencial \/ JoinSequencial, UNCHANGED env
    PROVE  Shape'
  <1>1. /\ env \in Environments /\ main \in MainRecords
        /\ failed \in BOOLEAN /\ main.at \in StoppingSequencials
        /\ m_state \in {"IDLE", "EXIT"} /\ main.i \in 0..env.seqs
        /\ main.at # "standby" => main.i > 0
        /\ runner \in [Runners -> RunnerRecords] /\ sequencial \in [Seqs -> SequencialRecords]
    BY DEF Shape, StandbyEmpty, AssigningEmpty, ExitSequencial, JoinSequencial, StoppingSequencials, Serving
  <1>2. env.seqs \in Nat
    BY <1>1, EnvFacts
  <1>3. /\ main' \in MainRecords
        /\ \/ main'.at = "standby" /\ main'.i \in 0..env.seqs
           \/ main'.at \in {"assigning", "endseq", "joinseq"} /\ main'.i \in 0..env.seqs /\ main'.i > 0
    <2>1. {"standby", "assigning", "endseq", "joinseq"} \subseteq Places
      BY DEF Places, StoppingSequencials
    <2>2. CASE StandbyEmpty \/ AssigningEmpty \/ ExitSequencial
      BY <1>1, <2>1, <2>2, AtMoves DEF StandbyEmpty, AssigningEmpty, ExitSequencial
    <2>3. CASE JoinSequencial
      <3>1. main.i - 1 \in Nat /\ main.i - 1 \in 0..env.seqs
        BY <1>1, <1>2, <2>3 DEF JoinSequencial
      <3> QED
        BY <1>1, <2>1, <2>3, <3>1, AtIndexMoves DEF JoinSequencial
    <2> QED
      BY <2>2, <2>3
  <1>4. runner' = runner /\ sequencial' \in [Seqs -> SequencialRecords]
    <2>1. CASE ExitSequencial
      <3> DEFINE s == sequencial[main.i]
                 a == IF s.at = "asleep" THEN "woken" ELSE s.at
                 x == [s EXCEPT !.state = "EXIT", !.thread = "STOP", !.at = a]
      <3>1. main.i \in Seqs /\ s \in SequencialRecords
        BY <1>1, <1>2, <2>1 DEF ExitSequencial, Seqs
      <3>2. x \in SequencialRecords
        BY <3>1 DEF SequencialRecords
      <3>3. sequencial' = [sequencial EXCEPT ![main.i] = x]
        BY <2>1, <3>1 DEF ExitSequencial
      <3> QED
        BY <1>1, <2>1, <3>2, <3>3 DEF ExitSequencial
    <2>2. CASE ~ExitSequencial
      BY <1>1, <2>2 DEF StandbyEmpty, AssigningEmpty, JoinSequencial, pools
    <2> QED
      BY <2>1, <2>2
  <1>5. UNCHANGED <<m_state, failed>>
    BY DEF StandbyEmpty, AssigningEmpty, ExitSequencial, JoinSequencial
  <1>6. Runners' = Runners /\ Seqs' = Seqs
    BY DEF Runners, Seqs
  <1> QED
    BY <1>1, <1>3, <1>4, <1>5, <1>6 DEF Shape, Serving, StoppingRunners, StoppingSequencials

LEMMA ShapeStopped ==
    ASSUME Shape, Stopped, UNCHANGED env
    PROVE  Shape'
  <1>1. main' \in MainRecords /\ main'.at = "out"
    BY AtMoves DEF Shape, Stopped, Places
  <1> QED
    BY <1>1 DEF Shape, Stopped, Serving, StoppingRunners, StoppingSequencials

-----------------------------------------------------------------------------
(* Sets of runners, and the places that make them up. *)

LEMMA CountMoves ==
    ASSUME NEW S, NEW x, IsFiniteSet(S)
    PROVE  /\ Cardinality(S) \in Nat
           /\ Cardinality(S \cup {x}) = IF x \in S THEN Cardinality(S) ELSE Cardinality(S) + 1
           /\ Cardinality(S \ {x}) = IF x \in S THEN Cardinality(S) - 1 ELSE Cardinality(S)
           /\ x \in S => Cardinality(S) > 0
  <1>1. Cardinality(S) \in Nat
    BY FS_CardinalityType
  <1>2. Cardinality(S \cup {x}) = IF x \in S THEN Cardinality(S) ELSE Cardinality(S) + 1
    BY FS_AddElement
  <1>3. Cardinality(S \ {x}) = IF x \in S THEN Cardinality(S) - 1 ELSE Cardinality(S)
    BY FS_RemoveElement
  <1>4. x \in S => Cardinality(S) > 0
    <2>1. Cardinality(S \ {x}) \in Nat
      BY FS_RemoveElement, FS_CardinalityType
    <2> QED
      BY <1>1, <1>3, <2>1
  <1> QED
    BY <1>1, <1>2, <1>3, <1>4

LEMMA FiniteRunners ==
    ASSUME Shape
    PROVE  /\ IsFiniteSet(Waiting) /\ IsFiniteSet(Ready)
           /\ Cardinality(Waiting) \in Nat /\ Cardinality(Ready) \in Nat
           /\ Cardinality(Waiting) <= env.runners
           /\ Cardinality(Waiting) = 0 => Asleep = {}
  <1>1. env.runners \in Nat
    BY EnvFacts DEF Shape
  <1>2. IsFiniteSet(Runners) /\ Cardinality(Runners) = env.runners
    BY <1>1, FS_Interval DEF Runners
  <1>3. Waiting \subseteq Runners /\ Ready \subseteq Runners
    BY DEF Shape, Waiting, Ready
  <1>4. IsFiniteSet(Waiting) /\ IsFiniteSet(Ready) /\ Cardinality(Waiting) <= env.runners
    BY <1>2, <1>3, FS_Subset
  <1>5. Cardinality(Waiting) = 0 => Waiting = {}
    BY <1>4, FS_EmptySet
  <1>6. Asleep \subseteq Waiting
    BY DEF Asleep, Waiting
  <1> QED
    BY <1>4, <1>5, <1>6, FS_CardinalityType

(* One runner changes its place. *)
OneMoves(r, a) ==
    /\ DOMAIN runner' = DOMAIN runner /\ runner'[r].at = a
    /\ \A x \in DOMAIN runner : x # r => runner'[x] = runner[x]

LEMMA PlacesMove ==
    ASSUME NEW r \in DOMAIN runner, NEW a, OneMoves(r, a)
    PROVE  /\ Waiting' = IF a \in {"asleep", "woken"} THEN Waiting \cup {r} ELSE Waiting \ {r}
           /\ Ready' = IF a \in {"run", "woken"} THEN Ready \cup {r} ELSE Ready \ {r}
           /\ Asleep' = IF a = "asleep" THEN Asleep \cup {r} ELSE Asleep \ {r}
  BY DEF OneMoves, Waiting, Ready, Asleep

(* A runner takes m_mutex, and what it finds. *)
LEMMA TakeMoves ==
    ASSUME Shape, Queued, NEW r \in DOMAIN runner, Take(r)
    PROVE  \/ /\ runner[r].state = "ENDING" /\ OneMoves(r, "loop")
              /\ runner'[r].task = runner[r].task /\ runner'[r].state = runner[r].state
              /\ UNCHANGED <<queue, holder>>
           \/ /\ ~Empty /\ OneMoves(r, "popped") /\ UNCHANGED holder
              /\ runner'[r].task \in Plain /\ runner'[r].state = runner[r].state
              /\ queue' = [queue EXCEPT ![Highest] = Tail(@)]
           \/ /\ Empty /\ OneMoves(r, "none") /\ holder' = r
              /\ runner'[r].task = runner[r].task /\ runner'[r].state = runner[r].state
              /\ UNCHANGED queue
  <1>1. runner \in [Runners -> RunnerRecords] /\ r \in Runners
    BY PoolsExist
  <1>2. runner[r] \in RunnerRecords
    BY <1>1
  <1>3. CASE runner[r].state = "ENDING"
    <2>1. runner' = [runner EXCEPT ![r].at = "loop"] /\ UNCHANGED <<queue, holder>>
      BY <1>3 DEF Take
    <2> QED
      BY <1>1, <1>2, <1>3, <2>1 DEF OneMoves, RunnerRecords
  <1>4. CASE runner[r].state # "ENDING" /\ ~Empty
    <2>1. /\ runner' = [runner EXCEPT ![r].at = "popped", ![r].task = Head(queue[Highest])]
          /\ queue' = [queue EXCEPT ![Highest] = Tail(@)] /\ UNCHANGED holder
      BY <1>4 DEF Take
    <2>2. Head(queue[Highest]) \in Plain
      BY <1>4, HeadPlain
    <2>3. OneMoves(r, "popped")
      BY <1>1, <1>2, <2>1 DEF OneMoves, RunnerRecords
    <2>4. runner'[r].task = Head(queue[Highest]) /\ runner'[r].state = runner[r].state
      BY <1>1, <1>2, <2>1 DEF RunnerRecords
    <2> QED
      BY <1>4, <2>1, <2>2, <2>3, <2>4
  <1>5. CASE runner[r].state # "ENDING" /\ Empty
    <2>1. runner' = [runner EXCEPT ![r].at = "none"] /\ holder' = r /\ UNCHANGED queue
      BY <1>5 DEF Take
    <2> QED
      BY <1>1, <1>2, <1>5, <2>1 DEF OneMoves, RunnerRecords
  <1> QED
    BY <1>3, <1>4, <1>5

(* The tasks in the queue. *)
Length(p) == Len(queue[p])
Load == Length(1) + Length(2)

LEMMA LoadType == Queued => Load \in Nat /\ Length(1) \in Nat /\ Length(2) \in Nat
  <1> SUFFICES ASSUME Queued PROVE Load \in Nat /\ Length(1) \in Nat /\ Length(2) \in Nat
    OBVIOUS
  <1>1. Length(1) \in Nat /\ Length(2) \in Nat
    BY EmptyQueue DEF Length
  <1> QED
    BY <1>1 DEF Load

LEMMA LoadTypeNext == Queued' => Load' \in Nat
  <1> SUFFICES ASSUME Queued' PROVE Load' \in Nat
    OBVIOUS
  <1>1. queue'[1] \in Seq(Plain') /\ queue'[2] \in Seq(Plain')
    BY DEF Queued
  <1>2. Length(1)' \in Nat /\ Length(2)' \in Nat
    BY <1>1 DEF Length
  <1> QED
    BY <1>2 DEF Load

(* A step that adds no more tasks than it readies runners. *)
LEMMA AwakeKept ==
    ASSUME NoLostWakeUp, UNCHANGED m_state, Asleep' # {} => Asleep # {},
           Load \in Nat, Load' \in Nat, Cardinality(Ready) \in Nat, Cardinality(Ready') \in Nat,
           Load' + Cardinality(Ready) <= Load + Cardinality(Ready')
    PROVE  NoLostWakeUp'
  <1>1. NoLostWakeUp <=> (m_state = "RUN" /\ Asleep # {} => Load <= Cardinality(Ready))
    BY DEF NoLostWakeUp, Load, Length
  <1>2. NoLostWakeUp' <=> (m_state' = "RUN" /\ Asleep' # {} => Load' <= Cardinality(Ready'))
    BY DEF NoLostWakeUp, Load, Length
  <1> QED
    BY <1>1, <1>2

LEMMA AwakeEmpty ==
    ASSUME Load' = 0, Cardinality(Ready') \in Nat PROVE NoLostWakeUp'
  <1>1. NoLostWakeUp' <=> (m_state' = "RUN" /\ Asleep' # {} => Load' <= Cardinality(Ready'))
    BY DEF NoLostWakeUp, Load, Length
  <1> QED
    BY <1>1

LEMMA LoadEmpty == Queued /\ Empty => Load = 0
  <1> SUFFICES ASSUME Queued, Empty PROVE Load = 0
    OBVIOUS
  <1>1. queue[1] = <<>> /\ queue[2] = <<>>
    BY EmptyQueue
  <1>2. Length(1) = 0 /\ Length(2) = 0
    BY <1>1 DEF Length
  <1> QED
    BY <1>2 DEF Load

(* The queue after front_and_pop. *)
LEMMA QueuePopped ==
    ASSUME Queued, ~Empty, queue' = [queue EXCEPT ![Highest] = Tail(@)], UNCHANGED env
    PROVE  /\ Queued'
           /\ Load' = Load - 1
  <1> DEFINE h == Highest
             u == queue[h]
  <1>1. h \in {1, 2} /\ u \in Seq(Plain) /\ u # <<>>
    BY HeadPlain
  <1>2. Tail(u) \in Seq(Plain) /\ Len(u) \in Nat /\ Len(u) > 0 /\ Len(Tail(u)) = Len(u) - 1
    BY <1>1
  <1>3. queue' = [queue EXCEPT ![h] = Tail(u)] /\ Plain' = Plain
    BY DEF Plain
  <1>a. u = queue[h]
    OBVIOUS
  <1> HIDE DEF h, u
  <1>4. queue' \in [{1, 2} -> Seq(Plain)]
    BY <1>1, <1>2, <1>3 DEF Queued
  <1>5. ASSUME NEW p \in {1, 2}, NEW k \in 1..Len(queue'[p])
        PROVE  env.prio[queue'[p][k]] = p - 1
    <2>1. CASE p = h
      <3>1. queue'[p] = Tail(u)
        BY <1>3, <2>1, <1>1 DEF Queued
      <3>2. k + 1 \in 1..Len(u) /\ Tail(u)[k] = u[k + 1]
        BY <1>1, <1>2, <1>5, <3>1
      <3> QED
        BY <1>a, <2>1, <3>1, <3>2 DEF Queued
    <2>2. CASE p # h
      BY <1>3, <1>5, <2>2 DEF Queued
    <2> QED
      BY <2>1, <2>2
  <1>6. Queued'
    BY <1>3, <1>4, <1>5 DEF Queued
  <1>7. Load' = Load - 1
    <2>1. Length(1) \in Nat /\ Length(2) \in Nat
      BY LoadType
    <2>2. CASE h = 1
      <3>1. queue'[1] = Tail(u) /\ queue'[2] = queue[2] /\ queue[1] = u
        BY <1>3, <1>a, <2>2 DEF Queued
      <3>2. Length(1)' = Length(1) - 1 /\ Length(2)' = Length(2)
        BY <1>2, <3>1 DEF Length
      <3> QED
        BY <2>1, <3>2 DEF Load
    <2>3. CASE h = 2
      <3>1. queue'[2] = Tail(u) /\ queue'[1] = queue[1] /\ queue[2] = u
        BY <1>3, <1>a, <2>3 DEF Queued
      <3>2. Length(2)' = Length(2) - 1 /\ Length(1)' = Length(1)
        BY <1>2, <3>1 DEF Length
      <3> QED
        BY <2>1, <3>2 DEF Load
    <2> QED
      BY <1>1, <2>2, <2>3
  <1> QED
    BY <1>6, <1>7

(* The conjuncts that only look at one runner at a time. *)
LEMMA MovesKept ==
    ASSUME Shape, Carried, EndedInTurn, UNCHANGED <<env, m_state, main>>,
           NEW r \in DOMAIN runner, NEW a, OneMoves(r, a), runner[r].at # "ended",
           runner'[r].task \in Plain \cup {None},
           a \in {"popped", "running", "task"} => runner'[r].task \in Plain,
           m_state = "RUN" => runner'[r].state # "ENDING"
    PROVE  Carried' /\ EndedInTurn'
  <1>1. Plain' = Plain /\ Runners' = Runners /\ DOMAIN runner' = DOMAIN runner /\ DOMAIN runner = Runners
    BY PoolsExist DEF OneMoves, Plain, Runners
  <1>2. Carried'
    BY <1>1 DEF Carried, OneMoves
  <1>3. EndedInTurn'
    BY <1>1 DEF EndedInTurn, OneMoves
  <1> QED
    BY <1>2, <1>3

LEMMA WakingTake ==
    ASSUME Shape, Waking, NEW r \in DOMAIN runner, Take(r), UNCHANGED env
    PROVE  Waking'
  <1>1. /\ runner \in [Runners -> RunnerRecords] /\ r \in Runners /\ env \in Environments
        /\ DOMAIN runner = Runners
    BY PoolsExist DEF Shape
  <1>2. /\ runner[r].at \in {"run", "woken"} /\ holder = None
        /\ wait_count' = CountTaken(r) /\ UNCHANGED <<m_state, main>>
    BY DEF Take, rest
  <1>3. Queued /\ Counted /\ Held /\ Carried /\ EndedInTurn /\ NoLostWakeUp
    BY DEF Waking
  <1>4. PICK a \in {"loop", "popped", "none"} : OneMoves(r, a)
    BY <1>3, TakeMoves
  <1>5. Waiting' = Waiting \ {r} /\ Ready' = Ready \ {r} /\ Asleep' = Asleep \ {r}
    BY <1>4, PlacesMove
  <1>6. Carried' /\ EndedInTurn'
    <2>1. /\ runner[r].task \in Plain \cup {None} /\ runner[r].at # "ended"
          /\ m_state = "RUN" => runner[r].state # "ENDING"
      BY <1>2, <1>3 DEF Carried, EndedInTurn
    <2>2. OneMoves(r, "loop") \/ OneMoves(r, "none") => runner'[r].at \notin {"popped", "running", "task"}
      BY DEF OneMoves
    <2>3. runner'[r].state = runner[r].state /\ runner'[r].task \in Plain \cup {None}
      BY <1>3, <2>1, TakeMoves
    <2>4. a = "popped" => runner'[r].task \in Plain
      BY <1>3, <1>4, <2>2, TakeMoves DEF OneMoves
    <2> QED
      BY <1>2, <1>3, <1>4, <2>1, <2>3, <2>4, MovesKept
  <1>7. Counted'
    <2>1. runner[r].at = "woken" <=> r \in Waiting
      BY <1>1, <1>2 DEF Waiting
    <2>2. IsFiniteSet(Waiting)
      BY FiniteRunners
    <2> QED
      BY <1>2, <1>3, <1>5, <2>1, <2>2, CountMoves DEF Counted, CountTaken
  <1>8. r \in Ready
    BY <1>1, <1>2 DEF Ready
  <1>9. /\ Cardinality(Ready) \in Nat /\ Cardinality(Ready') \in Nat
        /\ Cardinality(Ready') = Cardinality(Ready) - 1
    <2>1. IsFiniteSet(Ready) /\ Cardinality(Ready) \in Nat
      BY FiniteRunners
    <2>2. Cardinality(Ready') = Cardinality(Ready) - 1 /\ Cardinality(Ready) > 0
      BY <1>5, <1>8, <2>1, CountMoves
    <2> QED
      BY <2>1, <2>2
  <1>10. CASE OneMoves(r, "loop") /\ runner[r].state = "ENDING" /\ UNCHANGED <<queue, holder>>
    <2>1. Queued' /\ (Empty <=> Empty')
      BY <1>3, <1>10 DEF Queued, Plain, Empty
    <2>2. Held'
      BY <1>2, <1>3, <1>10, <2>1 DEF Held, OneMoves
    <2>3. m_state' # "RUN"
      BY <1>1, <1>2, <1>3, <1>10 DEF EndedInTurn
    <2> QED
      BY <1>6, <1>7, <2>1, <2>2, <2>3 DEF Waking, NoLostWakeUp
  <1>11. CASE /\ ~Empty /\ OneMoves(r, "popped") /\ UNCHANGED holder
              /\ queue' = [queue EXCEPT ![Highest] = Tail(@)]
    <2>1. Queued' /\ Load' = Load - 1
      BY <1>3, <1>11, QueuePopped
    <2>2. Held'
      BY <1>1, <1>2, <1>3, <1>11 DEF Held, OneMoves
    <2>3. Load \in Nat /\ Load' \in Nat
      BY <1>3, <2>1, LoadType, LoadTypeNext
    <2>4. NoLostWakeUp'
      <3>1. Load' + Cardinality(Ready) <= Load + Cardinality(Ready')
        BY <1>9, <2>1, <2>3
      <3> QED
        BY <1>2, <1>3, <1>5, <1>9, <2>3, <3>1, AwakeKept
    <2> QED
      BY <1>6, <1>7, <2>1, <2>2, <2>4 DEF Waking
  <1>12. CASE Empty /\ OneMoves(r, "none") /\ holder' = r /\ UNCHANGED queue
    <2>1. Queued' /\ Empty'
      BY <1>3, <1>12 DEF Queued, Plain, Empty
    <2>2. Held'
      BY <1>1, <1>2, <1>3, <1>12, <2>1, EnvFacts DEF Held, OneMoves
    <2>3. Load' = 0
      BY <1>3, <1>12, LoadEmpty DEF Load, Length
    <2>5. NoLostWakeUp'
      BY <1>9, <2>3, AwakeEmpty
    <2> QED
      BY <1>6, <1>7, <2>1, <2>2, <2>5 DEF Waking
  <1> QED
    BY <1>3, <1>10, <1>11, <1>12, TakeMoves

(* A runner without a task sleeps; one that sleeps wakes. *)
LEMMA WakingWait ==
    ASSUME Shape, Waking, NEW r \in DOMAIN runner, Wait(r) \/ Wake(r), UNCHANGED env
    PROVE  Waking'
  <1>1. /\ runner \in [Runners -> RunnerRecords] /\ r \in Runners /\ env \in Environments
        /\ DOMAIN runner = Runners /\ runner[r] \in RunnerRecords
    BY PoolsExist DEF Shape
  <1>2. UNCHANGED <<m_state, main, queue>>
    BY DEF Wait, Wake, rest
  <1>3. Queued /\ Counted /\ Held /\ Carried /\ EndedInTurn /\ NoLostWakeUp
    BY DEF Waking
  <1>4. Queued' /\ (Empty <=> Empty')
    BY <1>2, <1>3 DEF Queued, Plain, Empty
  <1>5. IsFiniteSet(Waiting) /\ IsFiniteSet(Ready) /\ Cardinality(Ready) \in Nat /\ Cardinality(Waiting) \in Nat
    BY FiniteRunners
  <1>6. Load \in Nat /\ Load' = Load
    BY <1>2, <1>3, LoadType DEF Load, Length
  <1>7. runner[r].task \in Plain \cup {None} /\ (m_state = "RUN" => runner[r].state # "ENDING")
    BY <1>1, <1>3 DEF Carried, EndedInTurn
  <1>8. CASE Wait(r)
    <2>1. /\ runner[r].at = "none" /\ OneMoves(r, "asleep") /\ wait_count' = wait_count + 1
          /\ runner'[r].task = runner[r].task /\ runner'[r].state = "WAITING" /\ holder' = None
      BY <1>1, <1>8 DEF Wait, OneMoves, RunnerRecords
    <2>2. holder = r /\ Empty
      BY <1>1, <1>3, <2>1, EnvFacts DEF Held
    <2>3. Held'
      BY <1>1, <1>3, <2>1, <2>2, EnvFacts DEF Held, OneMoves
    <2>4. Waiting' = Waiting \cup {r} /\ r \notin Waiting /\ Ready' = Ready \ {r} /\ r \notin Ready
      BY <2>1, PlacesMove DEF Waiting, Ready
    <2>5. Counted'
      BY <1>3, <1>5, <2>1, <2>4, CountMoves DEF Counted
    <2>6. NoLostWakeUp'
      <3>1. Load' = 0
        BY <1>3, <1>6, <2>2, LoadEmpty
      <3>2. Cardinality(Ready') = Cardinality(Ready)
        BY <1>5, <2>4, CountMoves
      <3> QED
        BY <1>5, <3>1, <3>2, AwakeEmpty
    <2>7. Carried' /\ EndedInTurn'
      BY <1>2, <1>3, <1>7, <2>1, MovesKept
    <2> QED
      BY <1>4, <2>3, <2>5, <2>6, <2>7 DEF Waking
  <1>9. CASE Wake(r)
    <2>1. /\ runner[r].at = "asleep" /\ OneMoves(r, "woken") /\ UNCHANGED <<wait_count, holder>>
          /\ runner'[r].task = runner[r].task /\ runner'[r].state = runner[r].state
      BY <1>1, <1>9 DEF Wake, OneMoves, RunnerRecords
    <2>2. Held'
      BY <1>1, <1>3, <1>4, <2>1 DEF Held, OneMoves
    <2>3. /\ Waiting' = Waiting /\ Ready' = Ready \cup {r} /\ r \notin Ready
          /\ Asleep' \subseteq Asleep
      BY <2>1, PlacesMove DEF Waiting, Ready
    <2>4. Counted'
      BY <1>3, <2>1, <2>3 DEF Counted
    <2>5. NoLostWakeUp'
      <3>1. Cardinality(Ready') = Cardinality(Ready) + 1
        BY <1>5, <2>3, CountMoves
      <3>2. /\ Cardinality(Ready') \in Nat
            /\ Load' + Cardinality(Ready) <= Load + Cardinality(Ready')
        BY <1>5, <1>6, <3>1
      <3> QED
        BY <1>2, <1>3, <1>5, <1>6, <2>3, <3>2, AwakeKept
    <2>6. Carried' /\ EndedInTurn'
      BY <1>2, <1>3, <1>7, <2>1, MovesKept
    <2> QED
      BY <1>4, <2>2, <2>4, <2>5, <2>6 DEF Waking
  <1> QED
    BY <1>8, <1>9

(* A runner in its loop or with its task. *)
LEMMA WakingRuns ==
    ASSUME Shape, Waking, NEW r \in DOMAIN runner, UNCHANGED env,
           SetRunning(r) \/ BeginTask(r) \/ EndTask(r) \/ Loop(r)
    PROVE  Waking'
  <1>1. /\ runner \in [Runners -> RunnerRecords] /\ r \in Runners /\ env \in Environments
        /\ DOMAIN runner = Runners /\ runner[r] \in RunnerRecords
    BY PoolsExist DEF Shape
  <1>2. UNCHANGED <<m_state, main, queue, wait_count, holder>>
    BY DEF SetRunning, BeginTask, EndTask, Loop, rest
  <1>3. Queued /\ Counted /\ Held /\ Carried /\ EndedInTurn /\ NoLostWakeUp
    BY DEF Waking
  <1>4. Queued' /\ (Empty <=> Empty')
    BY <1>2, <1>3 DEF Queued, Plain, Empty
  <1>5. IsFiniteSet(Waiting) /\ IsFiniteSet(Ready) /\ Cardinality(Ready) \in Nat
    BY FiniteRunners
  <1>6. Load \in Nat /\ Load' = Load
    BY <1>2, <1>3, LoadType DEF Load, Length
  <1>7. /\ runner[r].task \in Plain \cup {None} /\ (m_state = "RUN" => runner[r].state # "ENDING")
        /\ runner[r].at \in {"popped", "running", "task"} => runner[r].task \in Plain
    BY <1>1, <1>3 DEF Carried, EndedInTurn
  <1>8. PICK a \in {"running", "task", "run", "ended"} :
          /\ OneMoves(r, a)
          /\ runner[r].at \in {"popped", "running", "task", "loop"}
          /\ runner'[r].state \in {runner[r].state, "RUNNING"}
          /\ runner'[r].task \in {runner[r].task, None}
          /\ a \in {"running", "task"} => /\ runner'[r].task = runner[r].task
                                         /\ runner[r].at \in {"popped", "running"}
    <2>1. CASE SetRunning(r)
      BY <1>1, <2>1 DEF SetRunning, OneMoves, RunnerRecords
    <2>2. CASE BeginTask(r)
      BY <1>1, <2>2 DEF BeginTask, OneMoves, RunnerRecords
    <2>3. CASE EndTask(r)
      BY <1>1, <2>3 DEF EndTask, OneMoves, RunnerRecords
    <2>4. CASE Loop(r)
      BY <1>1, <2>4 DEF Loop, OneMoves, RunnerRecords
    <2> QED
      BY <2>1, <2>2, <2>3, <2>4
  <1>9. Held'
    BY <1>1, <1>2, <1>3, <1>4, <1>8 DEF Held, OneMoves
  <1>10. /\ Waiting' = Waiting /\ Asleep' = Asleep
         /\ Ready' = Ready \/ Ready' = Ready \cup {r}
    BY <1>8, PlacesMove DEF Waiting, Ready, Asleep
  <1>11. Counted'
    BY <1>2, <1>3, <1>10 DEF Counted
  <1>12. NoLostWakeUp'
    <2>1. Cardinality(Ready') = Cardinality(Ready) \/ Cardinality(Ready') = Cardinality(Ready) + 1
      <3>1. Cardinality(Ready \cup {r}) \in {Cardinality(Ready), Cardinality(Ready) + 1}
        BY <1>5, CountMoves
      <3> QED
        BY <1>10, <3>1
    <2>2. /\ Cardinality(Ready') \in Nat
          /\ Load' + Cardinality(Ready) <= Load + Cardinality(Ready')
      BY <1>5, <1>6, <2>1
    <2> QED
      BY <1>2, <1>3, <1>5, <1>6, <1>10, <2>2, AwakeKept
  <1>13. Carried' /\ EndedInTurn'
    BY <1>2, <1>3, <1>7, <1>8, MovesKept
  <1> QED
    BY <1>4, <1>9, <1>11, <1>12, <1>13 DEF Waking

(* A task is put into the queue. *)
LEMMA QueuePushed ==
    ASSUME env \in Environments, Queued, NEW t \in Plain,
           queue' = [queue EXCEPT ![env.prio[t] + 1] = Append(@, t)], UNCHANGED env
    PROVE  Queued' /\ Load' = Load + 1
  <1> DEFINE h == env.prio[t] + 1
             u == queue[h]
  <1>1. h \in {1, 2} /\ u \in Seq(Plain) /\ env.prio[t] = h - 1
    <2>1. env.prio[t] \in {0, 1}
      BY EnvFacts
    <2>2. h \in {1, 2} /\ env.prio[t] = h - 1
      BY <2>1
    <2> QED
      BY <2>2 DEF Queued
  <1>2. /\ Append(u, t) \in Seq(Plain) /\ Len(u) \in Nat /\ Len(Append(u, t)) = Len(u) + 1
        /\ \A k \in 1..Len(u) : Append(u, t)[k] = u[k]
        /\ Append(u, t)[Len(u) + 1] = t
    BY <1>1
  <1>3. queue' = [queue EXCEPT ![h] = Append(u, t)] /\ Plain' = Plain /\ u = queue[h]
    BY DEF Plain
  <1> HIDE DEF h, u
  <1>4. queue' \in [{1, 2} -> Seq(Plain)]
    BY <1>1, <1>2, <1>3 DEF Queued
  <1>5. ASSUME NEW p \in {1, 2}, NEW k \in 1..Len(queue'[p])
        PROVE  env.prio[queue'[p][k]] = p - 1
    <2>1. CASE p = h
      <3>1. queue'[p] = Append(u, t)
        BY <1>1, <1>3, <2>1 DEF Queued
      <3>2. k \in 1..Len(u) \/ k = Len(u) + 1
        BY <1>2, <1>5, <3>1
      <3>3. CASE k \in 1..Len(u)
        BY <1>2, <1>3, <2>1, <3>1, <3>3 DEF Queued
      <3>4. CASE k = Len(u) + 1
        BY <1>1, <1>2, <2>1, <3>1, <3>4
      <3> QED
        BY <3>2, <3>3, <3>4
    <2>2. CASE p # h
      BY <1>3, <1>5, <2>2 DEF Queued
    <2> QED
      BY <2>1, <2>2
  <1>6. Queued'
    BY <1>3, <1>4, <1>5 DEF Queued
  <1>7. Load' = Load + 1
    <2>1. Length(1) \in Nat /\ Length(2) \in Nat
      BY LoadType
    <2>2. CASE h = 1
      <3>1. queue'[1] = Append(u, t) /\ queue'[2] = queue[2] /\ queue[1] = u
        BY <1>3, <2>2 DEF Queued
      <3>2. Length(1)' = Length(1) + 1 /\ Length(2)' = Length(2)
        BY <1>2, <3>1 DEF Length
      <3> QED
        BY <2>1, <3>2 DEF Load
    <2>3. CASE h = 2
      <3>1. queue'[2] = Append(u, t) /\ queue'[1] = queue[1] /\ queue[2] = u
        BY <1>3, <2>3 DEF Queued
      <3>2. Length(2)' = Length(2) + 1 /\ Length(1)' = Length(1)
        BY <1>2, <3>1 DEF Length
      <3> QED
        BY <2>1, <3>2 DEF Load
    <2> QED
      BY <1>1, <2>2, <2>3
  <1> QED
    BY <1>6, <1>7

(* A runner that is notified: the counted runners stay, one more is ready. *)
LEMMA Notified ==
    ASSUME Shape, main.at # "out", Carried, Held, NEW r \in Runners, runner[r].at = "asleep",
           runner' = [runner EXCEPT ![r].at = "woken"], UNCHANGED <<env, holder>>
    PROVE  /\ OneMoves(r, "woken") /\ Waiting' = Waiting /\ Ready' = Ready \cup {r} /\ r \notin Ready
           /\ runner'[r].task = runner[r].task /\ runner'[r].state = runner[r].state
           /\ \A x \in DOMAIN runner' : runner'[x].at = "none" <=> holder' = x
           /\ holder' \in {None} \cup DOMAIN runner'
  <1>1. runner \in [Runners -> RunnerRecords] /\ DOMAIN runner = Runners /\ runner[r] \in RunnerRecords
    BY PoolsExist
  <1>2. /\ OneMoves(r, "woken")
        /\ runner'[r].task = runner[r].task /\ runner'[r].state = runner[r].state
    BY <1>1 DEF OneMoves, RunnerRecords
  <1>3. Waiting' = Waiting /\ Ready' = Ready \cup {r} /\ r \notin Ready
    BY <1>1, <1>2, PlacesMove DEF Waiting, Ready
  <1>4. \A x \in DOMAIN runner' : runner'[x].at = "none" <=> holder' = x
    BY <1>1, <1>2 DEF Held, OneMoves
  <1> QED
    BY <1>1, <1>2, <1>3, <1>4 DEF Held, OneMoves

LEMMA WakingPush ==
    ASSUME Shape, main.at # "out", Waking, NEW t \in Plain, Push(t),
           UNCHANGED <<env, m_state, main, wait_count, holder>>
    PROVE  Waking'
  <1>1. Queued /\ Counted /\ Held /\ Carried /\ EndedInTurn /\ NoLostWakeUp
    BY DEF Waking
  <1>2. holder = None /\ holder' = None /\ env \in Environments
    BY DEF Push, Shape
  <1>3. Queued' /\ Load' = Load + 1
    BY <1>1, <1>2, QueuePushed DEF Push
  <1>4. Load \in Nat /\ Load' \in Nat
    BY <1>1, <1>3, LoadType, LoadTypeNext
  <1>5. /\ IsFiniteSet(Waiting) /\ IsFiniteSet(Ready) /\ Cardinality(Ready) \in Nat
        /\ Cardinality(Waiting) \in Nat
        /\ Cardinality(Waiting) = 0 => Asleep = {}
    BY FiniteRunners
  <1>6. DOMAIN runner = Runners
    BY PoolsExist
  <1>7. CASE \E r \in DOMAIN runner : runner[r].at = "asleep" /\ runner' = [runner EXCEPT ![r].at = "woken"]
    <2>1. PICK r \in DOMAIN runner : runner[r].at = "asleep" /\ runner' = [runner EXCEPT ![r].at = "woken"]
      BY <1>7
    <2>2. /\ OneMoves(r, "woken") /\ Waiting' = Waiting /\ Ready' = Ready \cup {r} /\ r \notin Ready
          /\ runner'[r].task = runner[r].task /\ runner'[r].state = runner[r].state
          /\ \A x \in DOMAIN runner' : runner'[x].at = "none" <=> holder' = x
          /\ holder' \in {None} \cup DOMAIN runner'
      BY <1>1, <1>6, <2>1, Notified
    <2>3. Held'
      BY <1>2, <2>2 DEF Held
    <2>4. Counted'
      BY <1>1, <2>2 DEF Counted
    <2>5. Cardinality(Ready') = Cardinality(Ready) + 1
      BY <1>5, <2>2, CountMoves
    <2>6. Cardinality(Ready') \in Nat /\ Load' + Cardinality(Ready) <= Load + Cardinality(Ready')
      BY <1>3, <1>4, <1>5, <2>5
    <2>7. Asleep # {}
      BY <2>1 DEF Asleep
    <2>8. NoLostWakeUp'
      BY <1>1, <1>4, <1>5, <2>6, <2>7, AwakeKept
    <2>9. Carried' /\ EndedInTurn'
      BY <1>1, <2>1, <2>2, MovesKept DEF Carried, EndedInTurn
    <2> QED
      BY <1>3, <2>3, <2>4, <2>8, <2>9 DEF Waking
  <1>8. CASE runner' = runner /\ Asleep = {}
    <2>1. Waiting' = Waiting /\ Asleep' = {}
      BY <1>8 DEF Waiting, Asleep
    <2>2. Counted' /\ NoLostWakeUp'
      BY <1>1, <2>1 DEF Counted, NoLostWakeUp
    <2>3. Held' /\ Carried' /\ EndedInTurn'
      BY <1>1, <1>2, <1>8 DEF Held, Carried, EndedInTurn, Plain, Runners
    <2> QED
      BY <1>3, <2>2, <2>3 DEF Waking
  <1>9. CASE Notifies
    <2>1. runner' \in NotifyOne(runner)
      BY <1>9 DEF Push
    <2>2. \/ runner' = runner /\ \A r \in DOMAIN runner : runner[r].at # "asleep"
          \/ \E r \in DOMAIN runner : runner[r].at = "asleep" /\ runner' = [runner EXCEPT ![r].at = "woken"]
      BY <2>1, NotifyOneEffect
    <2> QED
      BY <1>7, <1>8, <2>2 DEF Asleep
  <1>10. CASE ~Notifies
    <2>1. wait_count = Cardinality(Waiting) /\ wait_count \in Nat
      BY <1>1, <1>5 DEF Counted
    <2>2. wait_count = 0
      BY <1>10, <2>1 DEF Notifies
    <2>3. Asleep = {} /\ runner' = runner
      BY <1>5, <1>10, <2>1, <2>2 DEF Push
    <2> QED
      BY <1>8, <2>3
  <1> QED
    BY <1>9, <1>10

(* A step after which the runners are where they were and as they were, but *)
(* perhaps for their flags.                                                 *)
LEMMA WakingKept ==
    ASSUME Shape, Waking, UNCHANGED <<env, m_state, queue, wait_count, holder>>,
           DOMAIN runner' = DOMAIN runner,
           \A r \in DOMAIN runner : /\ runner'[r].at = runner[r].at
                                    /\ runner'[r].task = runner[r].task
                                    /\ runner'[r].state = runner[r].state,
           main'.at \in StoppingRunners => \A r \in Runners : r > main'.i => runner[r].at = "ended",
           main'.at \in StoppingSequencials => \A r \in Runners : runner[r].at = "ended",
           main.at # "out", main'.at # "out"
    PROVE  Waking'
  <1>1. Queued /\ Counted /\ Held /\ Carried /\ EndedInTurn /\ NoLostWakeUp
    BY DEF Waking
  <1>2. Queued' /\ Empty' = Empty /\ Plain' = Plain /\ Runners' = Runners /\ DOMAIN runner = Runners
    BY <1>1, PoolsExist DEF Queued, Empty, Plain, Runners
  <1>3. Waiting' = Waiting /\ Asleep' = Asleep /\ Ready' = Ready
    BY DEF Waiting, Asleep, Ready
  <1>4. Counted' /\ NoLostWakeUp'
    BY <1>1, <1>3 DEF Counted, NoLostWakeUp
  <1>5. Held' /\ Carried'
    BY <1>1, <1>2 DEF Held, Carried
  <1>6. EndedInTurn'
    BY <1>1, <1>2 DEF EndedInTurn
  <1> QED
    BY <1>2, <1>4, <1>5, <1>6 DEF Waking

-----------------------------------------------------------------------------
(* start and stop, and the runners they wake and end. *)

LEMMA WakingStart ==
    ASSUME Shape, Waking, Start, UNCHANGED env
    PROVE  Waking'
  <1>1. env \in Environments /\ runner = <<>> /\ holder' = None
    <2>1. env \in Environments /\ runner = <<>> /\ DOMAIN runner = {}
      BY DEF Shape, Start
    <2> QED
      BY <2>1 DEF Waking, Held, Start
  <1>2. /\ queue' = NoQueue /\ wait_count' = 0 /\ runner' = [r \in Runners |-> NewRunner]
        /\ main'.at = "app" /\ Runners' = Runners
    <2>1. "app" \in Places
      BY DEF Places, Serving
    <2> QED
      BY <2>1, AtMoves DEF Start, NewRunners, Runners, Shape
  <1>3. Queued' /\ Empty'
    <2>1. queue'[1] = <<>> /\ queue'[2] = <<>> /\ <<>> \in Seq(Plain') /\ 1..2 = {1, 2}
      BY <1>2 DEF NoQueue
    <2>2. queue' = [p \in 1..2 |-> queue'[p]]
      BY <1>2 DEF NoQueue
    <2>3. queue' \in [{1, 2} -> Seq(Plain')]
      BY <2>1, <2>2
    <2>4. \A p \in {1, 2} : 1..Len(queue'[p]) = {}
      BY <2>1
    <2> QED
      BY <1>2, <2>3, <2>4 DEF Queued, Empty
  <1>4. \A r \in Runners : /\ runner'[r].at = "run" /\ runner'[r].state = "IDLE"
                           /\ runner'[r].task = None
    BY <1>2 DEF NewRunner
  <1>5. DOMAIN runner' = Runners
    BY <1>2
  <1>6. Waiting' = {} /\ Asleep' = {}
    BY <1>4, <1>5 DEF Waiting, Asleep
  <1>7. Counted' /\ NoLostWakeUp'
    BY <1>2, <1>6, FS_EmptySet DEF Counted, NoLostWakeUp
  <1>8. Held' /\ Carried' /\ EndedInTurn'
    BY <1>1, <1>2, <1>4, <1>5, EnvFacts
       DEF Held, Carried, EndedInTurn, StoppingRunners, StoppingSequencials
  <1> QED
    BY <1>3, <1>7, <1>8 DEF Waking

LEMMA WakingStopping ==
    ASSUME Shape, Shape', Waking, Stop \/ TestQueue \/ TestState \/ TestFlag, UNCHANGED env
    PROVE  Waking'
  <1>1. main.at \in Serving /\ m_state = "RUN" /\ UNCHANGED <<m_state, queue, wait_count, holder>>
    BY DEF Shape, Serving, Stop, TestQueue, TestState, TestFlag, pools
  <1>2. main'.at \in Serving /\ main.at # "out" /\ main'.at # "out"
    BY <1>1 DEF Shape, Serving
  <1>3. main'.at \notin StoppingRunners /\ main'.at \notin StoppingSequencials
    BY <1>2 DEF Serving, StoppingRunners, StoppingSequencials
  <1>4. /\ DOMAIN runner' = DOMAIN runner
        /\ \A r \in DOMAIN runner : /\ runner'[r].at = runner[r].at
                                    /\ runner'[r].task = runner[r].task
                                    /\ runner'[r].state = runner[r].state
    <2>1. CASE UNCHANGED runner
      BY <2>1
    <2>2. CASE runner' = [runner EXCEPT ![main.i].flag = 1]
      <3>1. runner \in [Runners -> RunnerRecords]
        BY <1>2, PoolsExist
      <3> QED
        BY <2>2, <3>1 DEF RunnerRecords
    <2> QED
      BY <2>1, <2>2 DEF Stop, TestQueue, TestState, TestFlag, pools
  <1> QED
    BY <1>1, <1>2, <1>3, <1>4, WakingKept

LEMMA WakingExit ==
    ASSUME Shape, Waking, Exit, UNCHANGED env
    PROVE  Waking'
  <1>1. Queued /\ Counted /\ Held /\ Carried /\ EndedInTurn
    BY DEF Waking
  <1>2. /\ main.at # "out" /\ DOMAIN runner = Runners /\ env \in Environments
        /\ UNCHANGED <<queue, wait_count, holder>> /\ m_state' = "EXIT"
    BY PoolsExist DEF Exit, Shape
  <1>3. main'.at = "onstop" /\ main'.at \notin StoppingRunners /\ main'.at \notin StoppingSequencials
    BY AtMoves DEF Exit, Shape, Places, StoppingRunners, StoppingSequencials
  <1>4. Queued' /\ Empty' = Empty /\ Plain' = Plain
    BY <1>1, <1>2 DEF Queued, Empty, Plain
  <1>5. EndedInTurn' /\ NoLostWakeUp'
    BY <1>2, <1>3 DEF EndedInTurn, NoLostWakeUp
  <1>6. CASE runner' = runner
    <2>1. Counted' /\ Held' /\ Carried'
      BY <1>1, <1>2, <1>4, <1>6 DEF Counted, Waiting, Held, Carried
    <2> QED
      BY <1>4, <1>5, <2>1 DEF Waking
  <1>7. CASE \E r \in DOMAIN runner : runner[r].at = "asleep" /\ runner' = [runner EXCEPT ![r].at = "woken"]
    <2>1. PICK r \in DOMAIN runner : runner[r].at = "asleep" /\ runner' = [runner EXCEPT ![r].at = "woken"]
      BY <1>7
    <2>2. /\ OneMoves(r, "woken") /\ Waiting' = Waiting /\ runner'[r].task = runner[r].task
          /\ \A x \in DOMAIN runner' : runner'[x].at = "none" <=> holder' = x
          /\ holder' \in {None} \cup DOMAIN runner'
      BY <1>1, <1>2, <2>1, Notified
    <2>3. Counted' /\ Held'
      BY <1>1, <1>2, <1>4, <2>2 DEF Counted, Held
    <2>4. Carried'
      BY <1>1, <1>4, <2>1, <2>2 DEF Carried, OneMoves
    <2> QED
      BY <1>4, <1>5, <2>3, <2>4 DEF Waking
  <1> QED
    BY <1>6, <1>7, NotifyOneEffect DEF Exit

LEMMA WakingEnding ==
    ASSUME Shape, Shape', Waking, UNCHANGED env,
           OnStop \/ FindWaiting \/ SetEnding \/ NotifyEnding \/ Join \/ PoolEnded
    PROVE  Waking'
  <1>1. Queued /\ Counted /\ Held /\ Carried /\ EndedInTurn
    BY DEF Waking
  <1>2. /\ main.at \in {"onstop"} \cup StoppingRunners /\ main.at # "out" /\ env \in Environments
        /\ UNCHANGED <<m_state, queue, wait_count, holder>> /\ main \in MainRecords
    BY DEF OnStop, FindWaiting, SetEnding, NotifyEnding, Join, PoolEnded, pools, Shape, StoppingRunners
  <1>3. /\ m_state # "RUN" /\ runner \in [Runners -> RunnerRecords] /\ DOMAIN runner = Runners
        /\ env.runners \in Nat
    BY <1>2, PoolsExist, EnvFacts DEF Shape, Serving, StoppingRunners
  <1>4. \A r \in Runners : r \in Nat /\ r <= env.runners /\ r > 0
    BY <1>3 DEF Runners
  <1>5. /\ DOMAIN runner' = Runners
        /\ \A r \in Runners : /\ runner'[r].task = runner[r].task
                              /\ \/ runner'[r].at = runner[r].at
                                 \/ runner[r].at = "asleep" /\ runner'[r].at = "woken"
    <2>1. CASE SetEnding
      BY <1>3, <2>1 DEF SetEnding, RunnerRecords
    <2>2. CASE NotifyEnding
      <3>1. /\ DOMAIN NotifyAll(runner) = Runners
            /\ \A r \in Runners : /\ NotifyAll(runner)[r] \in RunnerRecords
                                  /\ NotifyAll(runner)[r].task = runner[r].task
                                  /\ \/ NotifyAll(runner)[r].at = runner[r].at
                                     \/ runner[r].at = "asleep" /\ NotifyAll(runner)[r].at = "woken"
        BY <1>3 DEF NotifyAll, RunnerRecords
      <3>2. runner' = [NotifyAll(runner) EXCEPT ![main.i].thread = "STOP"]
        BY <2>2 DEF NotifyEnding
      <3> QED
        BY <3>1, <3>2 DEF RunnerRecords
    <2>3. CASE UNCHANGED runner
      BY <1>3, <2>3
    <2> QED
      BY <2>1, <2>2, <2>3 DEF OnStop, FindWaiting, Join, PoolEnded, pools
  <1>6. Queued' /\ Empty' = Empty /\ Plain' = Plain /\ Runners' = Runners
    BY <1>1, <1>2 DEF Queued, Empty, Plain, Runners
  <1>7. Waiting' = Waiting
    BY <1>3, <1>5 DEF Waiting
  <1>8. Counted' /\ Held' /\ Carried' /\ NoLostWakeUp'
    <2>1. Counted'
      BY <1>1, <1>2, <1>7 DEF Counted
    <2>2. Held'
      BY <1>1, <1>2, <1>3, <1>5, <1>6 DEF Held
    <2>3. Carried'
      BY <1>1, <1>3, <1>5, <1>6 DEF Carried
    <2> QED
      BY <1>2, <1>3, <2>1, <2>2, <2>3 DEF NoLostWakeUp
  <1>9. /\ main'.at \in StoppingRunners => \A r \in Runners : r > main'.i => runner'[r].at = "ended"
        /\ main'.at \in StoppingSequencials => \A r \in Runners : runner'[r].at = "ended"
    <2>1. {"stop", "ending", "notify", "join", "standby"} \subseteq Places
      BY DEF Places, StoppingRunners, StoppingSequencials
    <2>2. \A r \in Runners : runner[r].at = "ended" => runner'[r].at = "ended"
      BY <1>5
    <2>3. CASE OnStop
      <3>1. main'.at = "stop" /\ main'.i = env.runners
        BY <1>2, <1>3, <2>1, <2>3, AtIndexMoves DEF OnStop
      <3> QED
        BY <1>3, <1>4, <3>1 DEF StoppingSequencials
    <2>4. CASE FindWaiting \/ SetEnding \/ NotifyEnding
      <3>1. main'.at \in {"ending", "notify", "join"} /\ main'.i = main.i /\ main.at \in StoppingRunners
        BY <1>2, <2>1, <2>4, AtMoves DEF FindWaiting, SetEnding, NotifyEnding, StoppingRunners
      <3> QED
        BY <1>1, <2>2, <3>1 DEF EndedInTurn, StoppingSequencials
    <2>5. CASE Join
      <3>1. main.at = "join" /\ main.i \in Nat /\ main.i > 0 /\ runner[main.i].at = "ended"
        BY <2>5, <1>3 DEF Join, Shape, StoppingRunners
      <3>2. main.i - 1 \in Nat
        BY <3>1
      <3>3. main'.at = "stop" /\ main'.i = main.i - 1
        BY <1>2, <2>1, <2>5, <3>2, AtIndexMoves DEF Join
      <3>4. \A r \in Runners : r > main'.i => r = main.i \/ r > main.i
        BY <1>4, <3>1, <3>3
      <3> QED
        BY <1>1, <2>2, <3>1, <3>3, <3>4 DEF EndedInTurn, StoppingRunners, StoppingSequencials
    <2>6. CASE PoolEnded
      <3>1. main.at = "stop" /\ main.i = 0 /\ env.seqs \in Nat
        BY <1>2, <2>6, EnvFacts DEF PoolEnded
      <3>2. main'.at = "standby"
        BY <1>2, <2>1, <2>6, <3>1, AtIndexMoves DEF PoolEnded
      <3>3. \A r \in Runners : runner[r].at = "ended"
        BY <1>1, <1>4, <3>1 DEF EndedInTurn, StoppingRunners
      <3> QED
        BY <2>2, <3>2, <3>3 DEF StoppingRunners
    <2> QED
      BY <2>3, <2>4, <2>5, <2>6
  <1>10. EndedInTurn'
    BY <1>2, <1>3, <1>6, <1>9 DEF EndedInTurn
  <1> QED
    BY <1>6, <1>8, <1>10 DEF Waking

LEMMA WakingEndingSequencial ==
    ASSUME Shape, Shape', Waking, UNCHANGED env,
           StandbyEmpty \/ AssigningEmpty \/ ExitSequencial \/ JoinSequencial
    PROVE  Waking'
  <1>1. /\ main.at \in StoppingSequencials /\ UNCHANGED <<m_state, queue, wait_count, holder, runner>>
        /\ main.at # "out" /\ main \in MainRecords /\ env \in Environments
    BY DEF StandbyEmpty, AssigningEmpty, ExitSequencial, JoinSequencial, pools, StoppingSequencials, Shape
  <1>2. main'.at \in StoppingSequencials
    <2>1. {"standby", "assigning", "endseq", "joinseq"} \subseteq Places
      BY DEF Places, StoppingSequencials
    <2>2. main.at = "joinseq" => main.i - 1 \in Nat
      BY EnvFacts, <1>1 DEF Shape, StoppingSequencials
    <2> QED
      BY <1>1, <2>1, <2>2, AtMoves, AtIndexMoves
         DEF StandbyEmpty, AssigningEmpty, ExitSequencial, JoinSequencial, StoppingSequencials
  <1>3. main'.at # "out" /\ main'.at \notin StoppingRunners
    BY <1>2 DEF StoppingRunners, StoppingSequencials
  <1>4. \A r \in Runners : runner[r].at = "ended"
    BY <1>1 DEF Waking, EndedInTurn
  <1> QED
    BY <1>1, <1>3, <1>4, WakingKept

LEMMA WakingStopped ==
    ASSUME Shape, Waking, Stopped, UNCHANGED env
    PROVE  Waking'
  <1>1. Queued /\ Counted /\ Held /\ Carried /\ EndedInTurn
    BY DEF Waking
  <1>2. /\ main.at = "standby" /\ runner' = <<>> /\ UNCHANGED <<m_state, queue, wait_count, holder>>
        /\ m_state # "RUN" /\ DOMAIN runner = Runners /\ DOMAIN runner' = {}
    BY PoolsExist DEF Stopped, Shape, Serving
  <1>3. main'.at = "out"
    BY AtMoves DEF Stopped, Shape, Places
  <1>4. \A r \in Runners : runner[r].at = "ended"
    BY <1>1, <1>2 DEF EndedInTurn, StoppingSequencials
  <1>5. Waiting = {} /\ Waiting' = {}
    BY <1>2, <1>4 DEF Waiting
  <1>6. holder = None
    BY <1>1, <1>2, <1>4 DEF Held
  <1>7. Queued' /\ Counted'
    BY <1>1, <1>2, <1>5 DEF Queued, Plain, Counted
  <1>8. Held' /\ Carried'
    BY <1>2, <1>6 DEF Held, Carried
  <1>9. EndedInTurn' /\ NoLostWakeUp'
    BY <1>2, <1>3 DEF EndedInTurn, NoLostWakeUp, StoppingRunners, StoppingSequencials
  <1> QED
    BY <1>7, <1>8, <1>9 DEF Waking

-----------------------------------------------------------------------------
(* The order of the sequencial tasks. *)

(* Nothing is assigned, and no assigned task begins or ends. *)
HistoryStep ==
    /\ UNCHANGED <<env, assigned>> /\ posted \subseteq posted'
    /\ \A n \in 1..Len(assigned) : /\ assigned[n] \in begun' <=> assigned[n] \in begun
                                   /\ assigned[n] \in done' <=> assigned[n] \in done
    /\ \A t \in begun' : t \in begun \/ t \in Plain

LEMMA HistoryKept ==
    ASSUME Numbered, InOrder, HistoryStep
    PROVE  Numbered' /\ InOrder'
  <1>1. Plain' = Plain /\ Sequencial' = Sequencial /\ assigned' = assigned
    BY DEF HistoryStep, Plain, Sequencial
  <1>2. Numbered'
    BY <1>1 DEF Numbered, HistoryStep
  <1>3. InOrder'
    BY <1>1 DEF InOrder, HistoryStep
  <1> QED
    BY <1>2, <1>3

(* The vectors are as they were, and every runner at its task stays there. *)
VectorStep ==
    /\ DOMAIN sequencial' = DOMAIN sequencial
    /\ \A q \in DOMAIN sequencial :
         /\ sequencial'[q].assigning = sequencial[q].assigning
         /\ sequencial'[q].standby = sequencial[q].standby
         /\ sequencial'[q].i = sequencial[q].i
         /\ sequencial[q].at = "task" => sequencial'[q].at = "task"

LEMMA VectorsKept ==
    ASSUME Vectors, Accounted, HistoryStep, VectorStep
    PROVE  Vectors' /\ Accounted'
  <1>1. assigned' = assigned /\ \A t : RunnerOf(t)' = RunnerOf(t)
    BY DEF HistoryStep, RunnerOf
  <1>2. Vectors'
    BY <1>1 DEF Vectors, VectorStep
  <1>3. \A t : \A q \in DOMAIN sequencial :
          /\ Pending(sequencial[q], t) => Pending(sequencial'[q], t)
          /\ Runs(sequencial[q], t) => Runs(sequencial'[q], t)
    BY DEF VectorStep, Pending, Runs
  <1>4. Accounted'
    BY <1>1, <1>3 DEF Accounted, HistoryStep, VectorStep
  <1> QED
    BY <1>2, <1>4

(* A step of another thread that leaves the sequencial runners alone. *)
LEMMA OrderingKept ==
    ASSUME Ordering, ~failed, HistoryStep, UNCHANGED sequencial, ~failed' => Lives'
    PROVE  Ordering'
  <1>1. VectorStep
    BY DEF VectorStep
  <1> QED
    BY <1>1, HistoryKept, VectorsKept DEF Ordering

(* A plain task is scheduled, runs or ends. *)
LEMMA LivesKept ==
    ASSUME Lives, UNCHANGED <<env, sequencial, m_state, main>> PROVE Lives'
  BY DEF Lives, Seqs

LEMMA OrderingPush ==
    ASSUME Ordering, ~failed, NEW t, Push(t), posted' = posted \cup {t},
           UNCHANGED <<env, m_state, main, begun, done>>
    PROVE  Ordering'
  <1>1. HistoryStep /\ UNCHANGED sequencial
    BY DEF HistoryStep, Push
  <1>2. Lives'
    BY <1>1, LivesKept DEF Ordering
  <1> QED
    BY <1>1, <1>2, OrderingKept

LEMMA OrderingRunner ==
    ASSUME Shape, Carried, Ordering, ~failed, NEW r \in DOMAIN runner, UNCHANGED env,
           \/ Take(r) \/ Wait(r) \/ Wake(r) \/ SetRunning(r) \/ BeginTask(r) \/ EndTask(r) \/ Loop(r)
    PROVE  Ordering'
  <1>1. /\ UNCHANGED <<sequencial, m_state, main, posted, assigned>>
        /\ begun' = begun \/ (begun' = begun \cup {runner[r].task} /\ runner[r].at = "running")
        /\ done' = done \/ (done' = done \cup {runner[r].task} /\ runner[r].at = "task")
    BY DEF Take, Wait, Wake, SetRunning, BeginTask, EndTask, Loop, rest
  <1>2. runner[r].at \in {"running", "task"} => runner[r].task \in Plain
    BY DEF Carried
  <1>3. \A n \in 1..Len(assigned) : assigned[n] \notin Plain
    BY DEF Ordering, Numbered
  <1>4. HistoryStep
    BY <1>1, <1>2, <1>3 DEF HistoryStep
  <1>5. Lives'
    BY <1>1, LivesKept DEF Ordering
  <1> QED
    BY <1>1, <1>4, <1>5, OrderingKept

-----------------------------------------------------------------------------
(* A sequencial task is assigned. *)
Appended(t) ==
    /\ Len(assigned') = Len(assigned) + 1 /\ assigned'[Len(assigned) + 1] = t
    /\ \A n \in 1..Len(assigned) : assigned'[n] = assigned[n] /\ assigned[n] # t

LEMMA AppendAssigned ==
    ASSUME Numbered, NEW t \in Sequencial, t \notin posted, assigned' = Append(assigned, t)
    PROVE  Appended(t) /\ Len(assigned) \in Nat
  <1>1. assigned \in Seq(Sequencial)
    BY DEF Numbered
  <1>2. \A n \in 1..Len(assigned) : assigned[n] # t
    BY DEF Numbered
  <1>3. /\ Len(Append(assigned, t)) = Len(assigned) + 1 /\ Len(assigned) \in Nat
        /\ Append(assigned, t)[Len(assigned) + 1] = t
        /\ \A n \in 1..Len(assigned) : Append(assigned, t)[n] = assigned[n]
    BY <1>1
  <1> QED
    BY <1>2, <1>3 DEF Appended

LEMMA NumberedAssign ==
    ASSUME Numbered, InOrder, NEW t \in Sequencial, t \notin posted, t \notin Plain,
           assigned' = Append(assigned, t), posted' = posted \cup {t},
           UNCHANGED <<env, begun, done>>
    PROVE  Numbered' /\ InOrder'
  <1>1. Appended(t) /\ Len(assigned) \in Nat
    BY AppendAssigned
  <1> DEFINE N == Len(assigned)
  <1>2. \A n \in 1..Len(assigned') : n \in 1..N \/ n = N + 1
    BY <1>1 DEF Appended
  <1>3. 1..N \subseteq 1..Len(assigned') /\ N + 1 \in 1..Len(assigned')
    BY <1>1 DEF Appended
  <1>4. assigned'[N + 1] = t /\ \A n \in 1..N : assigned'[n] = assigned[n] /\ assigned[n] # t
    BY <1>1 DEF Appended
  <1>5. Plain' = Plain /\ Sequencial' = Sequencial
    BY DEF Plain, Sequencial
  <1>6. t \notin begun
    BY DEF Numbered
  <1>7. Numbered'
    <2>1. assigned' \in Seq(Sequencial)
      BY DEF Numbered
    <2>2. \A m, n \in 1..Len(assigned') : assigned'[m] = assigned'[n] => m = n
      BY <1>2, <1>4 DEF Numbered
    <2>3. \A n \in 1..Len(assigned') : assigned'[n] \in posted' /\ assigned'[n] \notin Plain
      BY <1>2, <1>4 DEF Numbered
    <2>4. \A s \in begun : s \in Plain \/ \E n \in 1..Len(assigned') : s = assigned'[n]
      BY <1>3, <1>4 DEF Numbered
    <2> QED
      BY <1>5, <2>1, <2>2, <2>3, <2>4 DEF Numbered
  <1>8. InOrder'
    <2> SUFFICES ASSUME NEW i \in 1..Len(assigned'), NEW j \in 1..Len(assigned'), i < j,
                        env.tag[assigned'[i]] = env.tag[assigned'[j]], assigned'[j] \in begun
                 PROVE  assigned'[i] \in done
      BY DEF InOrder
    <2>1. j \in 1..N
      BY <1>2, <1>4, <1>6
    <2>2. i \in 1..N
      BY <1>1, <1>2, <2>1
    <2> QED
      BY <1>4, <2>1, <2>2 DEF InOrder
  <1> QED
    BY <1>7, <1>8

(* The order of what is already assigned does not change; the new task     *)
(* comes last.                                                             *)
LEMMA OrderedAppend ==
    ASSUME NEW S, NEW h \in Seq(S), NEW t \in S, \A n \in 1..Len(h) : h[n] # t,
           NEW a, NEW s \in Seq(S), Ordered(h, a, s)
    PROVE  Ordered(Append(h, t), a, s) /\ Ordered(Append(h, t), a, Append(s, t))
  <1> DEFINE g == Append(h, t)
             v == Append(s, t)
  <1>1. /\ Len(h) \in Nat /\ Len(g) = Len(h) + 1 /\ g[Len(h) + 1] = t
        /\ \A n \in 1..Len(h) : g[n] = h[n]
    OBVIOUS
  <1>2. /\ Len(s) \in Nat /\ Len(v) = Len(s) + 1 /\ v[Len(s) + 1] = t
        /\ \A k \in 1..Len(s) : v[k] = s[k]
    OBVIOUS
  <1> HIDE DEF g, v
  <1>3. \A n \in 1..Len(g) : n \in 1..Len(h) \/ n = Len(h) + 1
    BY <1>1
  <1>4. \A k \in 1..Len(v) : (k \in 1..Len(s) /\ v[k] = s[k]) \/ (k = Len(s) + 1 /\ v[k] = t)
    BY <1>2
  <1>5. ASSUME NEW x, Has(h, x) PROVE Has(g, x) /\ x # t
    <2>1. PICK n \in 1..Len(h) : h[n] = x
      BY <1>5 DEF Has
    <2>2. n \in 1..Len(g)
      BY <1>1
    <2> QED
      BY <1>1, <2>1, <2>2 DEF Has
  <1>6. Has(g, t)
    <2>1. Len(h) + 1 \in 1..Len(g)
      BY <1>1
    <2> QED
      BY <1>1, <2>1 DEF Has
  <1>7. ASSUME NEW x, NEW y, x # t, y # t, Ahead(h, x, y) PROVE Ahead(g, x, y)
    BY <1>1, <1>3, <1>7 DEF Ahead
  <1>8. ASSUME NEW x, x # t PROVE Ahead(g, x, t)
    <2> SUFFICES ASSUME NEW m \in 1..Len(g), NEW n \in 1..Len(g), g[m] = x, g[n] = t
                 PROVE  m < n
      BY DEF Ahead
    <2>1. m \in 1..Len(h) /\ n = Len(h) + 1
      BY <1>1, <1>3, <1>8
    <2> QED
      BY <1>1, <2>1
  <1>9. /\ \A k \in 1..Len(a) : Has(h, a[k])
        /\ \A k \in 1..Len(s) : Has(h, s[k])
        /\ \A k, l \in 1..Len(a) : k < l => Ahead(h, a[k], a[l])
        /\ \A k, l \in 1..Len(s) : k < l => Ahead(h, s[k], s[l])
        /\ \A k \in 1..Len(a), l \in 1..Len(s) : Ahead(h, a[k], s[l])
    BY DEF Ordered
  <1>10. /\ \A k \in 1..Len(a) : Has(g, a[k]) /\ a[k] # t
         /\ \A k \in 1..Len(s) : Has(g, s[k]) /\ s[k] # t
    BY <1>5, <1>9
  <1>11. /\ \A k, l \in 1..Len(a) : k < l => Ahead(g, a[k], a[l])
         /\ \A k, l \in 1..Len(s) : k < l => Ahead(g, s[k], s[l])
         /\ \A k \in 1..Len(a), l \in 1..Len(s) : Ahead(g, a[k], s[l])
    BY <1>7, <1>9, <1>10
  <1>12. Ordered(g, a, s)
    BY <1>10, <1>11 DEF Ordered
  <1>13. \A k \in 1..Len(v) : Has(g, v[k])
    BY <1>4, <1>6, <1>10
  <1>14. \A k, l \in 1..Len(v) : k < l => Ahead(g, v[k], v[l])
    <2> SUFFICES ASSUME NEW k \in 1..Len(v), NEW l \in 1..Len(v), k < l PROVE Ahead(g, v[k], v[l])
      OBVIOUS
    <2>1. k \in 1..Len(s) /\ v[k] = s[k]
      BY <1>2, <1>4
    <2> QED
      BY <1>4, <1>8, <1>10, <1>11, <2>1
  <1>15. \A k \in 1..Len(a), l \in 1..Len(v) : Ahead(g, a[k], v[l])
    BY <1>4, <1>8, <1>10, <1>11
  <1>16. Ordered(g, a, v)
    BY <1>10, <1>11, <1>13, <1>14, <1>15 DEF Ordered
  <1> QED
    BY <1>12, <1>16 DEF g, v

(* What sequencial_runner::assign_task leaves. *)
LEMMA AssignEffect ==
    ASSUME Shape, main.at # "out", NEW t \in Sequencial, Assign(t)
    PROVE  LET q == RunnerOf(t) IN
           /\ q \in Seqs /\ DOMAIN sequencial = Seqs /\ DOMAIN sequencial' = Seqs
           /\ \A x \in Seqs : x # q => sequencial'[x] = sequencial[x]
           /\ sequencial'[q].standby = Append(sequencial[q].standby, t)
           /\ sequencial'[q].assigning = sequencial[q].assigning
           /\ sequencial'[q].i = sequencial[q].i
           /\ sequencial'[q].state = sequencial[q].state /\ sequencial'[q].thread = sequencial[q].thread
           /\ \/ sequencial'[q].at = sequencial[q].at
              \/ sequencial[q].at = "asleep" /\ sequencial'[q].at = "woken"
  <1> DEFINE q == RunnerOf(t)
             f == [sequencial EXCEPT ![q].standby = Append(@, t)]
  <1>1. q \in Seqs /\ sequencial \in [Seqs -> SequencialRecords]
    BY RunnerOfInPool, PoolsExist DEF Shape
  <1>2. \/ sequencial' = f
        \/ sequencial[q].at = "asleep" /\ sequencial' = [f EXCEPT ![q].at = "woken"]
    BY DEF Assign
  <1> HIDE DEF q
  <1>3. /\ DOMAIN f = Seqs /\ \A x \in Seqs : x # q => f[x] = sequencial[x]
        /\ f[q] = [sequencial[q] EXCEPT !.standby = Append(sequencial[q].standby, t)]
    BY <1>1
  <1>4. sequencial[q] \in SequencialRecords
    BY <1>1
  <1>5. /\ f[q].standby = Append(sequencial[q].standby, t) /\ f[q].assigning = sequencial[q].assigning
        /\ f[q].i = sequencial[q].i /\ f[q].state = sequencial[q].state
        /\ f[q].thread = sequencial[q].thread /\ f[q].at = sequencial[q].at
        /\ DOMAIN f[q] = {"at", "state", "flag", "standby", "assigning", "i", "thread"}
    BY <1>3, <1>4 DEF SequencialRecords
  <1> HIDE DEF f
  <1>6. CASE sequencial' = f
    BY <1>1, <1>3, <1>5, <1>6 DEF q
  <1>7. CASE sequencial[q].at = "asleep" /\ sequencial' = [f EXCEPT ![q].at = "woken"]
    <2>1. DOMAIN sequencial' = Seqs /\ \A x \in Seqs : x # q => sequencial'[x] = sequencial[x]
      BY <1>3, <1>7
    <2>2. sequencial'[q] = [f[q] EXCEPT !.at = "woken"]
      BY <1>1, <1>3, <1>7
    <2>3. /\ sequencial'[q].standby = f[q].standby /\ sequencial'[q].assigning = f[q].assigning
          /\ sequencial'[q].i = f[q].i /\ sequencial'[q].state = f[q].state
          /\ sequencial'[q].thread = f[q].thread /\ sequencial'[q].at = "woken"
      BY <1>5, <2>2
    <2> QED
      BY <1>1, <1>5, <1>7, <2>1, <2>3 DEF q
  <1> QED
    BY <1>2, <1>6, <1>7

LEMMA OrderingAssign ==
    ASSUME Shape, main.at # "out", Ordering, ~failed, NEW t \in Sequencial, t \notin posted,
           t \notin Plain, Assign(t), posted' = posted \cup {t},
           UNCHANGED <<env, m_state, main, begun, done>>
    PROVE  Ordering'
  <1>1. assigned' = Append(assigned, t) /\ Numbered /\ InOrder /\ Vectors /\ Accounted /\ Lives
    BY DEF Assign, Ordering
  <1>2. Numbered' /\ InOrder'
    BY <1>1, NumberedAssign
  <1>3. Appended(t) /\ Len(assigned) \in Nat
    BY <1>1, AppendAssigned
  <1>4. \A x : RunnerOf(x)' = RunnerOf(x)
    BY DEF RunnerOf
  <1>5. PICK q \in Seqs :
          /\ q = RunnerOf(t) /\ DOMAIN sequencial = Seqs /\ DOMAIN sequencial' = Seqs
          /\ \A x \in Seqs : x # q => sequencial'[x] = sequencial[x]
          /\ sequencial'[q].standby = Append(sequencial[q].standby, t)
          /\ sequencial'[q].assigning = sequencial[q].assigning
          /\ sequencial'[q].i = sequencial[q].i
          /\ sequencial'[q].state = sequencial[q].state /\ sequencial'[q].thread = sequencial[q].thread
          /\ \/ sequencial'[q].at = sequencial[q].at
             \/ sequencial[q].at = "asleep" /\ sequencial'[q].at = "woken"
    BY AssignEffect
  <1>6. /\ \A x \in Seqs : sequencial[x].standby \in Seq(AllTasks)
        /\ assigned \in Seq(AllTasks) /\ t \in AllTasks
    <2>1. \A x \in Seqs : sequencial[x].standby \in Seq(AllTasks)
      BY PoolsExist DEF SequencialRecords, TaskSeqs
    <2>2. Sequencial \subseteq AllTasks
      BY EnvFacts DEF Shape
    <2> QED
      BY <1>1, <2>1, <2>2 DEF Numbered
  <1> DEFINE s == sequencial[q].standby
  <1>7. /\ Len(s) \in Nat /\ Len(Append(s, t)) = Len(s) + 1 /\ Append(s, t)[Len(s) + 1] = t
        /\ \A k \in 1..Len(s) : Append(s, t)[k] = s[k]
    BY <1>6
  <1>8. \A y : Has(Append(s, t), y) <=> Has(s, y) \/ y = t
    <2> DEFINE v == Append(s, t)
    <2>1. /\ \A k \in 1..Len(v) : (k \in 1..Len(s) /\ v[k] = s[k]) \/ v[k] = t
          /\ \A k \in 1..Len(s) : k \in 1..Len(v) /\ v[k] = s[k]
          /\ Len(s) + 1 \in 1..Len(v) /\ v[Len(s) + 1] = t
      BY <1>7
    <2> HIDE DEF v, s
    <2>2. \A y : Has(v, y) <=> Has(s, y) \/ y = t
      BY <2>1 DEF Has
    <2> QED
      BY <2>2 DEF v
  <1>9. Vectors'
    <2>1. \A n \in 1..Len(assigned) : assigned[n] # t
      BY <1>3 DEF Appended
    <2>2. ASSUME NEW x \in Seqs
          PROVE  Ordered(assigned', sequencial'[x].assigning, sequencial'[x].standby)
      <3>1. Ordered(assigned, sequencial[x].assigning, sequencial[x].standby)
        BY <1>1, <1>5, <2>2 DEF Vectors
      <3>2. CASE x = q
        BY <1>1, <1>5, <1>6, <2>1, <3>1, <3>2, OrderedAppend
      <3>3. CASE x # q
        BY <1>1, <1>5, <1>6, <2>1, <3>1, <3>3, OrderedAppend
      <3> QED
        BY <3>2, <3>3
    <2>3. ASSUME NEW x \in Seqs, NEW y \in AllTasks,
                 Has(sequencial'[x].assigning, y) \/ Has(sequencial'[x].standby, y)
          PROVE  RunnerOf(y) = x
      <3>1. CASE x = q
        BY <1>1, <1>5, <1>8, <2>3, <3>1 DEF Vectors
      <3>2. CASE x # q
        BY <1>1, <1>5, <2>3, <3>2 DEF Vectors
      <3> QED
        BY <3>1, <3>2
    <2> QED
      BY <1>4, <1>5, <2>2, <2>3 DEF Vectors
  <1>10. Accounted'
    <2>1. \A y : \A x \in Seqs :
            /\ Pending(sequencial[x], y) => Pending(sequencial'[x], y)
            /\ Runs(sequencial[x], y) => Runs(sequencial'[x], y)
      BY <1>5, <1>8 DEF Pending, Runs
    <2>2. Pending(sequencial'[q], t)
      BY <1>5, <1>8 DEF Pending
    <2>3. \A n \in 1..Len(assigned') : n \in 1..Len(assigned) \/ n = Len(assigned) + 1
      BY <1>3 DEF Appended
    <2>4. t \notin begun
      BY <1>1 DEF Numbered
    <2>5. ASSUME NEW n \in 1..Len(assigned'), NEW y, y = assigned'[n]
          PROVE  /\ y \notin begun => RunnerOf(y) \in Seqs /\ Pending(sequencial'[RunnerOf(y)], y)
                 /\ y \in begun /\ y \notin done =>
                      RunnerOf(y) \in Seqs /\ Runs(sequencial'[RunnerOf(y)], y)
      <3>1. CASE n \in 1..Len(assigned)
        <4>1. y = assigned[n]
          BY <1>3, <2>5, <3>1 DEF Appended
        <4> QED
          BY <1>1, <1>5, <2>1, <3>1, <4>1 DEF Accounted
      <3>2. CASE n = Len(assigned) + 1
        <4>1. y = t
          BY <1>3, <2>5, <3>2 DEF Appended
        <4> QED
          BY <1>5, <2>2, <2>4, <4>1
      <3> QED
        BY <2>3, <2>5, <3>1, <3>2
    <2> QED
      BY <1>4, <1>5, <2>5 DEF Accounted
  <1>11. ~failed' => Lives'
    <2>1. ~failed' => sequencial[q].state # "EXIT"
      BY <1>5 DEF Assign
    <2>2. Seqs' = Seqs
      BY DEF Seqs
    <2>3. sequencial[q].at = "ended" => sequencial[q].state = "EXIT"
      BY <1>1, <1>5 DEF Lives
    <2> QED
      BY <1>1, <1>5, <2>1, <2>2, <2>3 DEF Lives
  <1> QED
    BY <1>2, <1>9, <1>10, <1>11 DEF Ordering

-----------------------------------------------------------------------------
(* The steps of a sequencial runner. *)

(* Only q moves. *)
OneTurns(q) ==
    /\ DOMAIN sequencial' = DOMAIN sequencial
    /\ \A x \in DOMAIN sequencial : x # q => sequencial'[x] = sequencial[x]

(* q's vectors stay as they are, or what is standby becomes the batch, or  *)
(* the batch is dropped when it was run.                                   *)
LEMMA VectorsTurn ==
    ASSUME Vectors, UNCHANGED <<env, assigned>>, NEW q \in DOMAIN sequencial, OneTurns(q),
           \/ /\ sequencial'[q].assigning = sequencial[q].assigning
              /\ sequencial'[q].standby = sequencial[q].standby
           \/ /\ sequencial[q].assigning = <<>> /\ sequencial'[q].standby = <<>>
              /\ sequencial'[q].assigning = sequencial[q].standby
           \/ /\ sequencial'[q].assigning = <<>>
              /\ sequencial'[q].standby = sequencial[q].standby
    PROVE  Vectors'
  <1> DEFINE a == sequencial[q].assigning
             s == sequencial[q].standby
             b == sequencial'[q].assigning
             v == sequencial'[q].standby
  <1>1. Ordered(assigned, a, s) /\ \A t \in AllTasks : Has(a, t) \/ Has(s, t) => RunnerOf(t) = q
    BY DEF Vectors
  <1>2. 1..Len(<<>>) = {}
    OBVIOUS
  <1>3. \/ b = a /\ v = s
        \/ a = <<>> /\ v = <<>> /\ b = s
        \/ b = <<>> /\ v = s
    OBVIOUS
  <1>4. \A t : RunnerOf(t)' = RunnerOf(t)
    BY DEF RunnerOf
  <1>5. Ordered(assigned, b, v) /\ \A t \in AllTasks : Has(b, t) \/ Has(v, t) => RunnerOf(t) = q
    <2> HIDE DEF a, s, b, v
    <2>1. CASE b = a /\ v = s
      BY <1>1, <2>1
    <2>2. CASE a = <<>> /\ v = <<>> /\ b = s
      BY <1>1, <1>2, <2>2 DEF Ordered, Has
    <2>3. CASE b = <<>> /\ v = s
      BY <1>1, <1>2, <2>3 DEF Ordered, Has
    <2> QED
      BY <1>3, <2>1, <2>2, <2>3
  <1> QED
    BY <1>4, <1>5 DEF Vectors, OneTurns

(* The effect of each step. *)
LEMMA TurnEffects ==
    ASSUME Shape, NEW q \in DOMAIN sequencial
    PROVE  LET s == sequencial[q]
               t == sequencial'[q]
           IN  /\ TakeBatch(q) => /\ OneTurns(q) /\ s.at \in {"run", "woken"} /\ t.thread = s.thread
                                  /\ \/ s.state = "EXIT" /\ t = [s EXCEPT !.at = "loop"]
                                     \/ /\ s.state # "EXIT" /\ s.standby = <<>>
                                        /\ t = [s EXCEPT !.at = "asleep", !.state = "WAITING"]
                                     \/ /\ s.state # "EXIT" /\ s.standby # <<>>
                                        /\ t.at = "batch" /\ t.state = "RUN" /\ t.i = 0
                                        /\ t.assigning = s.standby /\ t.standby = s.assigning
               /\ WakeSequencial(q) => OneTurns(q) /\ s.at = "asleep" /\ t = [s EXCEPT !.at = "woken"]
               /\ BeginSequencial(q) => OneTurns(q) /\ t = [s EXCEPT !.at = "task", !.i = s.i + 1]
               /\ EndSequencial(q) => OneTurns(q) /\ t = [s EXCEPT !.at = "batch"]
               /\ EndBatch(q) => OneTurns(q) /\ t = [s EXCEPT !.at = "loop", !.assigning = <<>>]
               /\ LoopSequencial(q) =>
                    /\ OneTurns(q)
                    /\ \/ s.thread = "RUNNING" /\ t = [s EXCEPT !.at = "run"]
                       \/ s.thread # "RUNNING" /\ t = [s EXCEPT !.at = "ended"]
  <1>1. sequencial \in [Seqs -> SequencialRecords] /\ q \in Seqs /\ DOMAIN sequencial = Seqs
    BY PoolsExist
  <1> DEFINE s == sequencial[q]
             t == sequencial'[q]
  <1>2. s \in SequencialRecords
    BY <1>1
  <1>3. ASSUME TakeBatch(q)
        PROVE  /\ OneTurns(q) /\ s.at \in {"run", "woken"} /\ t.thread = s.thread
               /\ \/ s.state = "EXIT" /\ t = [s EXCEPT !.at = "loop"]
                  \/ /\ s.state # "EXIT" /\ s.standby = <<>>
                     /\ t = [s EXCEPT !.at = "asleep", !.state = "WAITING"]
                  \/ /\ s.state # "EXIT" /\ s.standby # <<>>
                     /\ t.at = "batch" /\ t.state = "RUN" /\ t.i = 0
                     /\ t.assigning = s.standby /\ t.standby = s.assigning
    <2>1. s.at \in {"run", "woken"}
      BY <1>3 DEF TakeBatch
    <2>2. CASE s.state = "EXIT"
      <3>1. sequencial' = [sequencial EXCEPT ![q] = [s EXCEPT !.at = "loop"]]
        BY <1>3, <2>2 DEF TakeBatch
      <3>2. OneTurns(q) /\ t = [s EXCEPT !.at = "loop"]
        BY <1>1, <3>1 DEF OneTurns
      <3> QED
        BY <1>2, <2>1, <2>2, <3>2 DEF SequencialRecords
    <2>3. CASE s.state # "EXIT" /\ s.standby = <<>>
      <3>1. sequencial' = [sequencial EXCEPT ![q] = [s EXCEPT !.at = "asleep", !.state = "WAITING"]]
        BY <1>3, <2>3 DEF TakeBatch
      <3>2. OneTurns(q) /\ t = [s EXCEPT !.at = "asleep", !.state = "WAITING"]
        BY <1>1, <3>1 DEF OneTurns
      <3> QED
        BY <1>2, <2>1, <2>3, <3>2 DEF SequencialRecords
    <2>4. CASE s.state # "EXIT" /\ s.standby # <<>>
      <3> DEFINE x == [s EXCEPT !.at = "batch", !.state = "RUN", !.flag = 0, !.i = 0,
                                !.assigning = s.standby, !.standby = s.assigning]
      <3>1. sequencial' = [sequencial EXCEPT ![q] = x]
        BY <1>3, <2>4 DEF TakeBatch
      <3>2. OneTurns(q) /\ t = x
        BY <1>1, <3>1 DEF OneTurns
      <3>3. /\ x.at = "batch" /\ x.state = "RUN" /\ x.i = 0 /\ x.thread = s.thread
            /\ x.assigning = s.standby /\ x.standby = s.assigning
        BY <1>2 DEF SequencialRecords
      <3> QED
        BY <2>1, <2>4, <3>2, <3>3
    <2> QED
      BY <2>2, <2>3, <2>4
  <1>4. WakeSequencial(q) => OneTurns(q) /\ s.at = "asleep" /\ t = [s EXCEPT !.at = "woken"]
    BY <1>1 DEF WakeSequencial, OneTurns
  <1>5. BeginSequencial(q) => OneTurns(q) /\ t = [s EXCEPT !.at = "task", !.i = s.i + 1]
    BY <1>1 DEF BeginSequencial, OneTurns
  <1>6. EndSequencial(q) => OneTurns(q) /\ t = [s EXCEPT !.at = "batch"]
    BY <1>1 DEF EndSequencial, OneTurns
  <1>7. EndBatch(q) => OneTurns(q) /\ t = [s EXCEPT !.at = "loop", !.assigning = <<>>]
    BY <1>1 DEF EndBatch, OneTurns
  <1>8. LoopSequencial(q) =>
          /\ OneTurns(q)
          /\ \/ s.thread = "RUNNING" /\ t = [s EXCEPT !.at = "run"]
             \/ s.thread # "RUNNING" /\ t = [s EXCEPT !.at = "ended"]
    BY <1>1 DEF LoopSequencial, OneTurns
  <1> QED
    BY <1>3, <1>4, <1>5, <1>6, <1>7, <1>8

(* The tasks of the other runners are untouched, those of q accounted for. *)
LEMMA AccountedTurn ==
    ASSUME Accounted, UNCHANGED <<env, assigned>>, NEW q \in DOMAIN sequencial, OneTurns(q),
           \A n \in 1..Len(assigned) :
             RunnerOf(assigned[n]) # q => /\ assigned[n] \in begun' <=> assigned[n] \in begun
                                          /\ assigned[n] \in done' <=> assigned[n] \in done,
           \A n \in 1..Len(assigned) :
             RunnerOf(assigned[n]) = q =>
               /\ assigned[n] \notin begun' => Pending(sequencial'[q], assigned[n])
               /\ assigned[n] \in begun' /\ assigned[n] \notin done' => Runs(sequencial'[q], assigned[n])
    PROVE  Accounted'
  <1>1. \A t : RunnerOf(t)' = RunnerOf(t)
    BY DEF RunnerOf
  <1>2. ASSUME NEW n \in 1..Len(assigned), NEW t, t = assigned[n]
        PROVE  /\ t \notin begun' => RunnerOf(t) \in DOMAIN sequencial' /\ Pending(sequencial'[RunnerOf(t)], t)
               /\ t \in begun' /\ t \notin done' =>
                    RunnerOf(t) \in DOMAIN sequencial' /\ Runs(sequencial'[RunnerOf(t)], t)
    <2>1. CASE RunnerOf(t) = q
      BY <1>2, <2>1 DEF OneTurns
    <2>2. CASE RunnerOf(t) # q
      BY <1>2, <2>2 DEF Accounted, OneTurns
    <2> QED
      BY <2>1, <2>2
  <1> QED
    BY <1>1, <1>2 DEF Accounted

(* The runner q goes on in its loop, and ends as a runner may. *)
LEMMA LivesTurn ==
    ASSUME Shape, Lives, UNCHANGED <<env, m_state, main>>, NEW q \in DOMAIN sequencial, OneTurns(q),
           sequencial[q].at # "ended",
           LET s == sequencial'[q] IN
             /\ s.at = "batch" => s.i \in 0..Len(s.assigning)
             /\ s.at = "task" => s.i \in 1..Len(s.assigning)
             /\ s.thread = "STOP" <=> s.state = "EXIT"
             /\ s.state = "EXIT" => m_state # "RUN"
             /\ s.at = "ended" => s.state = "EXIT" /\ s.standby = <<>> /\ s.assigning = <<>>
    PROVE  Lives'
  <1>1. Seqs' = Seqs /\ DOMAIN sequencial = Seqs
    BY PoolsExist DEF Seqs
  <1>2. \A x \in DOMAIN sequencial : x # q => sequencial'[x] = sequencial[x]
    BY DEF OneTurns
  <1>3. main.at \in StoppingSequencials => \A x \in Seqs : x > main.i => sequencial'[x].at = "ended"
    BY <1>1, <1>2 DEF Lives
  <1> QED
    BY <1>1, <1>2, <1>3 DEF Lives, OneTurns

LEMMA OrderingWake ==
    ASSUME Shape, Ordering, ~failed, NEW q \in DOMAIN sequencial, UNCHANGED env,
           WakeSequencial(q) \/ LoopSequencial(q)
    PROVE  Ordering'
  <1> DEFINE s == sequencial[q]
             t == sequencial'[q]
  <1>1. /\ OneTurns(q)
        /\ \/ s.at = "asleep" /\ t = [s EXCEPT !.at = "woken"]
           \/ s.at = "loop" /\ s.thread = "RUNNING" /\ t = [s EXCEPT !.at = "run"]
           \/ /\ s.at = "loop" /\ s.thread # "RUNNING" /\ t = [s EXCEPT !.at = "ended"]
              /\ ~failed' => s.state = "EXIT" /\ s.standby = <<>> /\ s.assigning = <<>>
    BY TurnEffects DEF LoopSequencial
  <1>2. s \in SequencialRecords
    BY PoolsExist
  <1>3. /\ t.assigning = s.assigning /\ t.standby = s.standby /\ t.i = s.i
        /\ t.thread = s.thread /\ t.state = s.state
        /\ s.at \in {"asleep", "loop"} /\ t.at \in {"woken", "run", "ended"}
        /\ t.at = "ended" /\ ~failed' => s.state = "EXIT" /\ s.standby = <<>> /\ s.assigning = <<>>
    BY <1>1, <1>2 DEF SequencialRecords
  <1>4. HistoryStep /\ UNCHANGED <<m_state, main>>
    BY DEF HistoryStep, WakeSequencial, LoopSequencial, others
  <1>5. VectorStep
    BY <1>1, <1>3 DEF VectorStep, OneTurns
  <1>6. Numbered' /\ InOrder' /\ Vectors' /\ Accounted'
    BY <1>4, <1>5, HistoryKept, VectorsKept DEF Ordering
  <1>7. ~failed' => Lives'
    <2> SUFFICES ASSUME ~failed' PROVE Lives'
      OBVIOUS
    <2>1. Lives
      BY DEF Ordering
    <2>2. /\ s.thread = "STOP" <=> s.state = "EXIT"
          /\ s.state = "EXIT" => m_state # "RUN"
      BY <2>1 DEF Lives
    <2> QED
      BY <1>1, <1>3, <1>4, <2>1, <2>2, LivesTurn
  <1> QED
    BY <1>6, <1>7 DEF Ordering

LEMMA OrderingTakeBatch ==
    ASSUME Shape, Ordering, ~failed, NEW q \in DOMAIN sequencial, UNCHANGED env, TakeBatch(q)
    PROVE  Ordering'
  <1> DEFINE s == sequencial[q]
             t == sequencial'[q]
  <1>1. /\ OneTurns(q) /\ s.at \in {"run", "woken"} /\ t.thread = s.thread
        /\ \/ s.state = "EXIT" /\ t = [s EXCEPT !.at = "loop"]
           \/ /\ s.state # "EXIT" /\ s.standby = <<>>
              /\ t = [s EXCEPT !.at = "asleep", !.state = "WAITING"]
           \/ /\ s.state # "EXIT" /\ s.standby # <<>>
              /\ t.at = "batch" /\ t.state = "RUN" /\ t.i = 0
              /\ t.assigning = s.standby /\ t.standby = s.assigning
    BY TurnEffects
  <1>2. s \in SequencialRecords
    BY PoolsExist
  <1>3. HistoryStep /\ UNCHANGED <<m_state, main, begun, done>>
    BY DEF HistoryStep, TakeBatch, others
  <1>4. Numbered' /\ InOrder'
    BY <1>3, HistoryKept DEF Ordering
  <1>5. ASSUME ~failed' PROVE Vectors' /\ Accounted' /\ Lives'
    <2>1. s.assigning = <<>> /\ Vectors /\ Accounted /\ Lives
      BY <1>5 DEF TakeBatch, Ordering
    <2>2. /\ s.thread = "STOP" <=> s.state = "EXIT"
          /\ s.state = "EXIT" => m_state # "RUN"
      BY <2>1 DEF Lives
    <2>3. CASE t = [s EXCEPT !.at = "loop"] \/ t = [s EXCEPT !.at = "asleep", !.state = "WAITING"]
      <3>1. /\ t.assigning = s.assigning /\ t.standby = s.standby /\ t.i = s.i
            /\ t.thread = s.thread /\ t.at \in {"loop", "asleep"}
            /\ t.state = "EXIT" <=> s.state = "EXIT"
        BY <1>1, <1>2, <2>3 DEF SequencialRecords
      <3>2. VectorStep
        BY <1>1, <3>1 DEF VectorStep, OneTurns
      <3>3. Vectors' /\ Accounted'
        BY <1>3, <2>1, <3>2, VectorsKept
      <3>4. Lives'
        BY <1>1, <1>3, <2>1, <2>2, <3>1, LivesTurn
      <3> QED
        BY <3>3, <3>4
    <2>4. CASE /\ s.state # "EXIT" /\ s.standby # <<>>
               /\ t.at = "batch" /\ t.state = "RUN" /\ t.i = 0
               /\ t.assigning = s.standby /\ t.standby = s.assigning
      <3>1. Vectors'
        BY <1>1, <1>3, <2>1, <2>4, VectorsTurn DEF HistoryStep
      <3>2. 1..Len(<<>>) = {} /\ \A k \in 1..Len(s.standby) : k > 0
        OBVIOUS
      <3>3. \A x : ~Runs(s, x) /\ (Pending(s, x) => Pending(t, x))
        BY <1>1, <2>1, <2>4, <3>2 DEF Runs, Pending, Has
      <3>4. ASSUME NEW n \in 1..Len(assigned), NEW x, x = assigned[n], RunnerOf(x) = q
            PROVE  /\ x \notin begun' => Pending(t, x)
                   /\ x \in begun' /\ x \notin done' => Runs(t, x)
        BY <1>3, <2>1, <3>3, <3>4 DEF Accounted
      <3>5. Accounted'
        <4>1. \A n \in 1..Len(assigned) :
                RunnerOf(assigned[n]) = q =>
                  /\ assigned[n] \notin begun' => Pending(t, assigned[n])
                  /\ assigned[n] \in begun' /\ assigned[n] \notin done' => Runs(t, assigned[n])
          BY <3>4
        <4> QED
          BY <1>1, <1>3, <2>1, <4>1, AccountedTurn DEF HistoryStep
      <3>6. t.i \in 0..Len(t.assigning)
        BY <1>2, <2>4 DEF SequencialRecords, TaskSeqs
      <3>7. Lives'
        BY <1>1, <1>3, <2>1, <2>2, <2>4, <3>6, LivesTurn
      <3> QED
        BY <3>1, <3>5, <3>7
    <2> QED
      BY <1>1, <2>3, <2>4
  <1> QED
    BY <1>4, <1>5 DEF Ordering

(* A batch runs its tasks in the order of the vector, one at a time: the    *)
(* task that begins comes before all that its runner still has.             *)
LEMMA OrderingBegin ==
    ASSUME Shape, Ordering, ~failed, NEW q \in DOMAIN sequencial, UNCHANGED env, BeginSequencial(q)
    PROVE  Ordering'
  <1> DEFINE s == sequencial[q]
             t == sequencial'[q]
             b == s.assigning[s.i + 1]
  <1>1. /\ s.at = "batch" /\ s.i < Len(s.assigning) /\ begun' = begun \cup {b}
        /\ UNCHANGED <<m_state, main, posted, assigned, done, failed>>
    BY DEF BeginSequencial, others
  <1>2. OneTurns(q) /\ t = [s EXCEPT !.at = "task", !.i = s.i + 1]
    BY TurnEffects
  <1>3. s \in SequencialRecords
    BY PoolsExist
  <1>4. /\ t.assigning = s.assigning /\ t.standby = s.standby /\ t.i = s.i + 1 /\ t.at = "task"
        /\ t.thread = s.thread /\ t.state = s.state
    BY <1>2, <1>3 DEF SequencialRecords
  <1>5. Numbered /\ InOrder /\ Vectors /\ Accounted /\ Lives
    BY DEF Ordering
  <1>6. s.i \in Nat /\ Len(s.assigning) \in Nat /\ s.i + 1 \in 1..Len(s.assigning)
    BY <1>1, <1>3 DEF SequencialRecords, TaskSeqs
  <1>7. Ordered(assigned, s.assigning, s.standby)
    BY <1>5 DEF Vectors
  <1>8. PICK m \in 1..Len(assigned) : assigned[m] = b
    BY <1>6, <1>7 DEF Ordered, Has
  <1>9. RunnerOf(b) = q
    <2>1. b \in AllTasks /\ Has(s.assigning, b)
      BY <1>3, <1>6 DEF SequencialRecords, TaskSeqs, Has
    <2> QED
      BY <1>5, <2>1 DEF Vectors
  <1>10. ASSUME NEW n \in 1..Len(assigned), RunnerOf(assigned[n]) = q
         PROVE  /\ assigned[n] \in begun => assigned[n] \in done
                /\ assigned[n] \notin begun => Pending(s, assigned[n])
    BY <1>1, <1>5, <1>10 DEF Accounted, Runs
  <1>11. ASSUME NEW n \in 1..Len(assigned), Pending(s, assigned[n])
         PROVE  n = m \/ m < n
    <2>1. CASE Has(s.standby, assigned[n])
      BY <1>6, <1>7, <1>8, <2>1 DEF Ordered, Has, Ahead
    <2>2. CASE \E k \in 1..Len(s.assigning) : k > s.i /\ s.assigning[k] = assigned[n]
      <3>1. PICK k \in 1..Len(s.assigning) : k > s.i /\ s.assigning[k] = assigned[n]
        BY <2>2
      <3>2. k = s.i + 1 \/ s.i + 1 < k
        BY <1>6, <3>1
      <3>3. CASE k = s.i + 1
        BY <1>5, <1>8, <3>1, <3>3 DEF Numbered
      <3>4. CASE s.i + 1 < k
        <4>1. Ahead(assigned, b, assigned[n])
          BY <1>6, <1>7, <3>1, <3>4 DEF Ordered
        <4> QED
          BY <1>8, <4>1 DEF Ahead
      <3> QED
        BY <3>2, <3>3, <3>4
    <2> QED
      BY <1>11, <2>1, <2>2 DEF Pending
  <1>12. Numbered'
    <2>1. Plain' = Plain /\ Sequencial' = Sequencial
      BY DEF Plain, Sequencial
    <2> QED
      BY <1>1, <1>5, <1>8, <2>1 DEF Numbered
  <1>13. InOrder'
    <2> SUFFICES ASSUME NEW i \in 1..Len(assigned), NEW j \in 1..Len(assigned), i < j,
                        env.tag[assigned[i]] = env.tag[assigned[j]], assigned[j] \in begun'
                 PROVE  assigned[i] \in done
      BY <1>1 DEF InOrder
    <2>1. CASE assigned[j] \in begun
      BY <1>5, <2>1 DEF InOrder
    <2>2. CASE assigned[j] = b
      <3>1. j = m
        BY <1>5, <1>8, <2>2 DEF Numbered
      <3>2. RunnerOf(assigned[i]) = q
        BY <1>9, <2>2 DEF RunnerOf
      <3>3. ~(i = m \/ m < i)
        BY <3>1
      <3> QED
        BY <1>10, <1>11, <3>2, <3>3
    <2> QED
      BY <1>1, <2>1, <2>2
  <1>14. Vectors'
    BY <1>1, <1>2, <1>4, <1>5, VectorsTurn
  <1>15. Accounted'
    <2>1. \A n \in 1..Len(assigned) :
            RunnerOf(assigned[n]) # q => (assigned[n] \in begun' <=> assigned[n] \in begun)
      BY <1>1, <1>9
    <2>2. \A n \in 1..Len(assigned) :
            RunnerOf(assigned[n]) = q =>
              /\ assigned[n] \notin begun' => Pending(t, assigned[n])
              /\ assigned[n] \in begun' /\ assigned[n] \notin done' => Runs(t, assigned[n])
      <3> SUFFICES ASSUME NEW n \in 1..Len(assigned), RunnerOf(assigned[n]) = q
                   PROVE  /\ assigned[n] \notin begun' => Pending(t, assigned[n])
                          /\ assigned[n] \in begun' /\ assigned[n] \notin done' => Runs(t, assigned[n])
        OBVIOUS
      <3>1. CASE assigned[n] = b
        BY <1>1, <1>4, <3>1 DEF Runs
      <3>2. CASE assigned[n] # b
        <4>1. assigned[n] \in begun' <=> assigned[n] \in begun
          BY <1>1, <3>2
        <4>2. ASSUME Pending(s, assigned[n]) PROVE Pending(t, assigned[n])
          <5>1. CASE Has(s.standby, assigned[n])
            BY <1>4, <5>1 DEF Pending
          <5>2. CASE \E k \in 1..Len(s.assigning) : k > s.i /\ s.assigning[k] = assigned[n]
            <6>1. PICK k \in 1..Len(s.assigning) : k > s.i /\ s.assigning[k] = assigned[n]
              BY <5>2
            <6>2. k > s.i + 1
              BY <1>6, <3>2, <6>1
            <6> QED
              BY <1>4, <6>1, <6>2 DEF Pending
          <5> QED
            BY <4>2, <5>1, <5>2 DEF Pending
        <4> QED
          BY <1>1, <1>10, <4>1, <4>2
      <3> QED
        BY <3>1, <3>2
    <2> QED
      BY <1>1, <1>2, <1>5, <2>1, <2>2, AccountedTurn
  <1>16. Lives'
    <2>1. /\ s.thread = "STOP" <=> s.state = "EXIT"
          /\ s.state = "EXIT" => m_state # "RUN"
      BY <1>5 DEF Lives
    <2> QED
      BY <1>1, <1>2, <1>4, <1>5, <1>6, <2>1, LivesTurn
  <1> QED
    BY <1>12, <1>13, <1>14, <1>15, <1>16 DEF Ordering

LEMMA OrderingEnd ==
    ASSUME Shape, Ordering, ~failed, NEW q \in DOMAIN sequencial, UNCHANGED env, EndSequencial(q)
    PROVE  Ordering'
  <1> DEFINE s == sequencial[q]
             t == sequencial'[q]
             e == s.assigning[s.i]
  <1>1. /\ s.at = "task" /\ done' = done \cup {e}
        /\ UNCHANGED <<m_state, main, posted, assigned, begun, failed>>
    BY DEF EndSequencial, others
  <1>2. OneTurns(q) /\ t = [s EXCEPT !.at = "batch"]
    BY TurnEffects
  <1>3. s \in SequencialRecords
    BY PoolsExist
  <1>4. /\ t.assigning = s.assigning /\ t.standby = s.standby /\ t.i = s.i /\ t.at = "batch"
        /\ t.thread = s.thread /\ t.state = s.state
    BY <1>2, <1>3 DEF SequencialRecords
  <1>5. Numbered /\ InOrder /\ Vectors /\ Accounted /\ Lives
    BY DEF Ordering
  <1>6. s.i \in 1..Len(s.assigning) /\ Len(s.assigning) \in Nat
    BY <1>1, <1>3, <1>5 DEF Lives, SequencialRecords, TaskSeqs
  <1>7. RunnerOf(e) = q
    <2>1. e \in AllTasks /\ Has(s.assigning, e)
      BY <1>3, <1>6 DEF SequencialRecords, TaskSeqs, Has
    <2> QED
      BY <1>5, <2>1 DEF Vectors
  <1>8. Numbered' /\ InOrder'
    <2>1. Plain' = Plain /\ Sequencial' = Sequencial
      BY DEF Plain, Sequencial
    <2> QED
      BY <1>1, <1>5, <2>1 DEF Numbered, InOrder
  <1>9. Vectors'
    BY <1>1, <1>2, <1>4, <1>5, VectorsTurn
  <1>10. Accounted'
    <2>1. \A n \in 1..Len(assigned) :
            RunnerOf(assigned[n]) # q => (assigned[n] \in done' <=> assigned[n] \in done)
      BY <1>1, <1>7
    <2>2. \A x : Pending(s, x) => Pending(t, x)
      BY <1>4 DEF Pending
    <2>3. \A x : Runs(s, x) => x = e
      BY DEF Runs
    <2>4. \A n \in 1..Len(assigned) :
            RunnerOf(assigned[n]) = q =>
              /\ assigned[n] \notin begun' => Pending(t, assigned[n])
              /\ assigned[n] \in begun' /\ assigned[n] \notin done' => Runs(t, assigned[n])
      BY <1>1, <1>5, <2>2, <2>3 DEF Accounted
    <2> QED
      BY <1>1, <1>2, <1>5, <2>1, <2>4, AccountedTurn
  <1>11. Lives'
    <2>1. /\ s.thread = "STOP" <=> s.state = "EXIT"
          /\ s.state = "EXIT" => m_state # "RUN"
      BY <1>5 DEF Lives
    <2>2. t.i \in 0..Len(t.assigning)
      BY <1>4, <1>6
    <2> QED
      BY <1>1, <1>2, <1>4, <1>5, <2>1, <2>2, LivesTurn
  <1> QED
    BY <1>8, <1>9, <1>10, <1>11 DEF Ordering

LEMMA OrderingEndBatch ==
    ASSUME Shape, Ordering, ~failed, NEW q \in DOMAIN sequencial, UNCHANGED env, EndBatch(q)
    PROVE  Ordering'
  <1> DEFINE s == sequencial[q]
             t == sequencial'[q]
  <1>1. /\ s.at = "batch" /\ (~failed' => s.i = Len(s.assigning))
        /\ UNCHANGED <<m_state, main, posted, assigned, begun, done>>
    BY DEF EndBatch, others
  <1>2. OneTurns(q) /\ t = [s EXCEPT !.at = "loop", !.assigning = <<>>]
    BY TurnEffects
  <1>3. s \in SequencialRecords
    BY PoolsExist
  <1>4. /\ t.assigning = <<>> /\ t.standby = s.standby /\ t.i = s.i /\ t.at = "loop"
        /\ t.thread = s.thread /\ t.state = s.state
    BY <1>2, <1>3 DEF SequencialRecords
  <1>5. Numbered /\ InOrder /\ Vectors /\ Accounted /\ Lives
    BY DEF Ordering
  <1>6. Numbered' /\ InOrder'
    <2>1. HistoryStep
      BY <1>1 DEF HistoryStep
    <2> QED
      BY <1>5, <2>1, HistoryKept
  <1>7. ASSUME ~failed' PROVE Vectors' /\ Accounted' /\ Lives'
    <2>1. s.i = Len(s.assigning) /\ Len(s.assigning) \in Nat
      BY <1>1, <1>3, <1>7 DEF SequencialRecords, TaskSeqs
    <2>2. Vectors'
      BY <1>1, <1>2, <1>4, <1>5, VectorsTurn
    <2>3. \A k \in 1..Len(s.assigning) : ~(k > s.i)
      BY <2>1
    <2>4. \A x : ~Runs(s, x) /\ (Pending(s, x) => Pending(t, x))
      BY <1>1, <1>4, <2>3 DEF Runs, Pending
    <2>5. \A n \in 1..Len(assigned) :
            RunnerOf(assigned[n]) = q =>
              /\ assigned[n] \notin begun' => Pending(t, assigned[n])
              /\ assigned[n] \in begun' /\ assigned[n] \notin done' => Runs(t, assigned[n])
      BY <1>1, <1>5, <2>4 DEF Accounted
    <2>6. Accounted'
      BY <1>1, <1>2, <1>5, <2>5, AccountedTurn
    <2>7. /\ s.thread = "STOP" <=> s.state = "EXIT"
          /\ s.state = "EXIT" => m_state # "RUN"
      BY <1>5 DEF Lives
    <2>8. Lives'
      BY <1>1, <1>2, <1>4, <1>5, <2>7, LivesTurn
    <2> QED
      BY <2>2, <2>6, <2>8
  <1> QED
    BY <1>6, <1>7 DEF Ordering

-----------------------------------------------------------------------------
(* start and stop, and the sequencial runners. *)

(* Stop moves on; the sequencial runners are as they were. *)
LEMMA OrderingMain ==
    ASSUME Ordering, ~failed, UNCHANGED <<env, sequencial, posted, assigned, begun, done>>,
           m_state' = "RUN" => m_state = "RUN",
           main'.at \in StoppingSequencials =>
             \A q \in Seqs : q > main'.i => sequencial[q].at = "ended"
    PROVE  Ordering'
  <1>1. HistoryStep
    BY DEF HistoryStep
  <1>2. Seqs' = Seqs
    BY DEF Seqs
  <1>3. Lives'
    BY <1>2 DEF Lives, Ordering
  <1> QED
    BY <1>1, <1>3, OrderingKept

LEMMA OrderingStart ==
    ASSUME Shape, Ordering, ~failed, Start, UNCHANGED env
    PROVE  Ordering'
  <1>1. /\ sequencial' = [q \in Seqs |-> NewSequencial] /\ main'.at = "app" /\ Seqs' = Seqs
        /\ UNCHANGED <<posted, assigned, begun, done>>
    <2>1. "app" \in Places
      BY DEF Places, Serving
    <2> QED
      BY <2>1, AtMoves DEF Start, NewSequencials, Seqs, Shape
  <1>2. DOMAIN sequencial = {}
    <2>1. sequencial = <<>>
      BY DEF Shape, Start
    <2> QED
      BY <2>1
  <1>3. Numbered' /\ InOrder'
    <2>1. HistoryStep
      BY <1>1 DEF HistoryStep
    <2> QED
      BY <2>1, HistoryKept DEF Ordering
  <1>4. \A q \in Seqs :
          /\ sequencial'[q].at = "run" /\ sequencial'[q].state = "RUN" /\ sequencial'[q].thread = "RUNNING"
          /\ sequencial'[q].standby = <<>> /\ sequencial'[q].assigning = <<>>
    BY <1>1 DEF NewSequencial
  <1>5. DOMAIN sequencial' = Seqs /\ 1..Len(<<>>) = {}
    BY <1>1
  <1>6. Vectors'
    BY <1>4, <1>5 DEF Vectors, Ordered, Has
  <1>7. Accounted'
    <2>1. \A n \in 1..Len(assigned) : assigned[n] \in begun /\ assigned[n] \in done
      BY <1>2 DEF Ordering, Accounted
    <2> QED
      BY <1>1, <2>1 DEF Accounted
  <1>8. Lives'
    BY <1>1, <1>4, <1>5 DEF Lives, StoppingSequencials
  <1> QED
    BY <1>3, <1>6, <1>7, <1>8 DEF Ordering

LEMMA OrderingStopping ==
    ASSUME Shape, Shape', Ordering, ~failed, Stop \/ TestQueue \/ TestState \/ TestFlag, UNCHANGED env
    PROVE  Ordering'
  <1>1. /\ main.at \in Serving /\ m_state = "RUN" /\ main.at # "out"
        /\ UNCHANGED <<m_state, posted, assigned, begun, done>>
    BY DEF Shape, Serving, Stop, TestQueue, TestState, TestFlag, hist
  <1>2. main'.at \in Serving
    BY <1>1 DEF Shape
  <1>3. main'.at \notin StoppingSequencials
    BY <1>2 DEF Serving, StoppingSequencials
  <1>4. CASE UNCHANGED sequencial
    BY <1>1, <1>3, <1>4, OrderingMain
  <1>5. CASE sequencial' = [sequencial EXCEPT ![main.i - env.runners].flag = 1]
    <2>1. sequencial \in [Seqs -> SequencialRecords] /\ DOMAIN sequencial = Seqs
      BY <1>1, PoolsExist
    <2>2. /\ DOMAIN sequencial' = Seqs
          /\ \A q \in Seqs : /\ sequencial'[q].assigning = sequencial[q].assigning
                             /\ sequencial'[q].standby = sequencial[q].standby
                             /\ sequencial'[q].i = sequencial[q].i
                             /\ sequencial'[q].at = sequencial[q].at
                             /\ sequencial'[q].state = sequencial[q].state
                             /\ sequencial'[q].thread = sequencial[q].thread
      BY <1>5, <2>1 DEF SequencialRecords
    <2>3. VectorStep
      BY <2>1, <2>2 DEF VectorStep
    <2>4. HistoryStep
      BY <1>1 DEF HistoryStep
    <2>5. Lives'
      BY <1>1, <1>3, <2>1, <2>2 DEF Lives, Ordering
    <2> QED
      BY <2>3, <2>4, <2>5, HistoryKept, VectorsKept DEF Ordering
  <1> QED
    BY <1>4, <1>5 DEF Stop, TestQueue, TestState, TestFlag, pools

LEMMA OrderingEnding ==
    ASSUME Shape, Ordering, ~failed, UNCHANGED env,
           Exit \/ OnStop \/ FindWaiting \/ SetEnding \/ NotifyEnding \/ Join \/ PoolEnded
    PROVE  Ordering'
  <1>1. /\ UNCHANGED <<sequencial, posted, assigned, begun, done>> /\ m_state' \in {m_state, "EXIT"}
        /\ main \in MainRecords /\ env \in Environments
    BY DEF Exit, OnStop, FindWaiting, SetEnding, NotifyEnding, Join, PoolEnded, pools, hist, Shape
  <1>2. env.runners \in Nat /\ env.seqs \in Nat
    BY <1>1, EnvFacts
  <1>3. {"onstop", "stop", "ending", "notify", "join", "standby"} \subseteq Places
    BY DEF Places, StoppingRunners, StoppingSequencials
  <1>4. Join => main.i - 1 \in Nat
    BY <1>1 DEF Join, Shape, StoppingRunners
  <1>5. \/ main'.at \notin StoppingSequencials
        \/ main'.at = "standby" /\ main'.i = env.seqs
    <2>1. CASE Exit \/ FindWaiting \/ SetEnding \/ NotifyEnding
      BY <1>1, <1>3, <2>1, AtMoves DEF Exit, FindWaiting, SetEnding, NotifyEnding, StoppingSequencials
    <2>2. CASE OnStop \/ Join \/ PoolEnded
      BY <1>1, <1>2, <1>3, <1>4, <2>2, AtIndexMoves DEF OnStop, Join, PoolEnded, StoppingSequencials
    <2> QED
      BY <2>1, <2>2
  <1>6. \A q \in Seqs : ~(q > env.seqs)
    BY <1>2 DEF Seqs
  <1> QED
    BY <1>1, <1>5, <1>6, OrderingMain

LEMMA OrderingEndingSequencial ==
    ASSUME Shape, Shape', Ordering, ~failed, UNCHANGED env,
           StandbyEmpty \/ AssigningEmpty \/ ExitSequencial \/ JoinSequencial
    PROVE  Ordering'
  <1>1. /\ main.at \in StoppingSequencials /\ UNCHANGED <<m_state, posted, assigned, begun, done, failed>>
        /\ main.at # "out" /\ main \in MainRecords /\ env \in Environments /\ main.i \in 0..env.seqs
        /\ main.at # "standby" => main.i > 0
        /\ m_state # "RUN"
    BY DEF StandbyEmpty, AssigningEmpty, ExitSequencial, JoinSequencial, hist, StoppingSequencials, Shape, Serving
  <1>2. env.seqs \in Nat /\ \A q \in Seqs : q \in Nat /\ q <= env.seqs /\ q > 0
    BY <1>1, EnvFacts DEF Seqs
  <1>3. {"standby", "assigning", "endseq", "joinseq"} \subseteq Places
    BY DEF Places, StoppingSequencials
  <1>4. Lives /\ \A q \in Seqs : q > main.i => sequencial[q].at = "ended"
    BY <1>1 DEF Ordering, Lives
  <1>5. CASE StandbyEmpty \/ AssigningEmpty
    <2>1. main'.i = main.i /\ UNCHANGED sequencial
      BY <1>1, <1>3, <1>5, AtMoves DEF StandbyEmpty, AssigningEmpty, pools
    <2> QED
      BY <1>1, <1>4, <2>1, OrderingMain
  <1>6. CASE JoinSequencial
    <2>1. main.at = "joinseq" /\ sequencial[main.i].at = "ended" /\ UNCHANGED sequencial
      BY <1>6 DEF JoinSequencial, pools
    <2>2. main.i - 1 \in Nat
      BY <1>1, <2>1
    <2>3. main'.i = main.i - 1
      BY <1>1, <1>3, <1>6, <2>2, AtIndexMoves DEF JoinSequencial
    <2>4. \A q \in Seqs : q > main'.i => q = main.i \/ q > main.i
      BY <1>1, <1>2, <2>3
    <2> QED
      BY <1>1, <1>4, <2>1, <2>4, OrderingMain
  <1>7. CASE ExitSequencial
    <2> DEFINE k == main.i
               s == sequencial[k]
               t == sequencial'[k]
    <2>1. /\ main.at = "endseq" /\ main'.i = k /\ main'.at = "joinseq"
      BY <1>1, <1>3, <1>7, AtMoves DEF ExitSequencial
    <2>2. k \in Seqs /\ sequencial \in [Seqs -> SequencialRecords] /\ DOMAIN sequencial = Seqs /\ Seqs' = Seqs
      BY <1>1, <1>2, <2>1, PoolsExist DEF Seqs
    <2>3. s \in SequencialRecords
      BY <2>2
    <2>4. sequencial' = [sequencial EXCEPT ![k] =
            [s EXCEPT !.state = "EXIT", !.thread = "STOP",
                      !.at = IF s.at = "asleep" THEN "woken" ELSE s.at]]
      BY <1>7 DEF ExitSequencial
    <2>5. OneTurns(k) /\ t = [s EXCEPT !.state = "EXIT", !.thread = "STOP",
                                       !.at = IF s.at = "asleep" THEN "woken" ELSE s.at]
      BY <2>2, <2>4 DEF OneTurns
    <2>6. /\ t.assigning = s.assigning /\ t.standby = s.standby /\ t.i = s.i
          /\ t.state = "EXIT" /\ t.thread = "STOP"
          /\ t.at = IF s.at = "asleep" THEN "woken" ELSE s.at
      BY <2>3, <2>5 DEF SequencialRecords
    <2> HIDE DEF k
    <2>7. VectorStep
      BY <2>2, <2>5, <2>6 DEF VectorStep, OneTurns
    <2>8. HistoryStep
      BY <1>1 DEF HistoryStep
    <2>9. /\ t.at = "batch" => t.i \in 0..Len(t.assigning)
          /\ t.at = "task" => t.i \in 1..Len(t.assigning)
          /\ t.at = "ended" => t.standby = <<>> /\ t.assigning = <<>>
      BY <1>4, <2>2, <2>6 DEF Lives
    <2>10. \A q \in Seqs : q > k => sequencial'[q].at = "ended"
      <3>1. \A q \in Seqs : q > k => q # k /\ sequencial[q].at = "ended"
        BY <1>2, <1>4, <2>2 DEF k
      <3> QED
        BY <2>2, <2>5, <3>1 DEF OneTurns
    <2>11. ASSUME NEW q \in Seqs
           PROVE  LET x == sequencial'[q] IN
                  /\ x.at = "batch" => x.i \in 0..Len(x.assigning)
                  /\ x.at = "task" => x.i \in 1..Len(x.assigning)
                  /\ x.thread = "STOP" <=> x.state = "EXIT"
                  /\ x.state = "EXIT" => m_state # "RUN"
                  /\ x.at = "ended" => x.state = "EXIT" /\ x.standby = <<>> /\ x.assigning = <<>>
      <3>1. CASE q = k
        BY <1>1, <2>6, <2>9, <3>1
      <3>2. CASE q # k
        BY <1>4, <2>2, <2>5, <3>2 DEF Lives, OneTurns
      <3> QED
        BY <3>1, <3>2
    <2>12. Lives'
      BY <1>1, <2>1, <2>2, <2>5, <2>10, <2>11 DEF Lives, OneTurns
    <2> QED
      BY <2>7, <2>8, <2>12, HistoryKept, VectorsKept DEF Ordering
  <1> QED
    BY <1>5, <1>6, <1>7

LEMMA OrderingStopped ==
    ASSUME Shape, Ordering, ~failed, Stopped, UNCHANGED env
    PROVE  Ordering'
  <1>1. /\ main.at = "standby" /\ main.i = 0 /\ sequencial' = <<>>
        /\ UNCHANGED <<posted, assigned, begun, done>> /\ main'.at = "out"
    BY AtMoves DEF Stopped, hist, Shape, Places
  <1>2. DOMAIN sequencial = Seqs /\ DOMAIN sequencial' = {}
    BY <1>1, PoolsExist
  <1>3. \A q \in Seqs : q > 0
    BY EnvFacts DEF Seqs, Shape
  <1>4. \A q \in Seqs : /\ sequencial[q].at = "ended"
                        /\ sequencial[q].standby = <<>> /\ sequencial[q].assigning = <<>>
    BY <1>1, <1>2, <1>3 DEF Ordering, Lives, StoppingSequencials
  <1>5. 1..Len(<<>>) = {}
    OBVIOUS
  <1>6. \A t : \A q \in Seqs : ~Pending(sequencial[q], t) /\ ~Runs(sequencial[q], t)
    BY <1>4, <1>5 DEF Pending, Runs, Has
  <1>7. \A n \in 1..Len(assigned) : assigned[n] \in begun /\ assigned[n] \in done
    BY <1>2, <1>6 DEF Ordering, Accounted
  <1>8. Numbered' /\ InOrder'
    <2>1. HistoryStep
      BY <1>1 DEF HistoryStep
    <2> QED
      BY <2>1, HistoryKept DEF Ordering
  <1>9. Accounted'
    BY <1>1, <1>7 DEF Accounted
  <1>10. Vectors' /\ Lives'
    BY <1>1, <1>2 DEF Vectors, Lives, StoppingSequencials
  <1> QED
    BY <1>8, <1>9, <1>10 DEF Ordering

-----------------------------------------------------------------------------
(* Every step keeps the invariant. *)

LEMMA InvInit == Init => Inv
  <1> SUFFICES ASSUME Init PROVE Inv
    OBVIOUS
  <1>1. /\ runner = <<>> /\ sequencial = <<>> /\ queue = NoQueue /\ wait_count = 0 /\ holder = None
        /\ main.at = "out" /\ m_state = "IDLE" /\ assigned = <<>> /\ posted = {} /\ begun = {} /\ done = {}
    BY DEF Init
  <1>2. DOMAIN runner = {} /\ DOMAIN sequencial = {} /\ 1..Len(assigned) = {} /\ assigned \in Seq(Sequencial)
    BY <1>1
  <1>3. Waking
    <2>1. Queued
      BY <1>1, NoQueueQueued
    <2>2. Waiting = {}
      BY <1>2 DEF Waiting
    <2>3. Counted
      BY <1>1, <2>2, FS_EmptySet DEF Counted
    <2>4. Held /\ Carried
      BY <1>1, <1>2 DEF Held, Carried
    <2>5. EndedInTurn /\ NoLostWakeUp
      BY <1>1 DEF EndedInTurn, NoLostWakeUp, StoppingRunners, StoppingSequencials
    <2> QED
      BY <2>1, <2>3, <2>4, <2>5 DEF Waking
  <1>4. Ordering
    <2>1. Numbered /\ InOrder
      BY <1>1, <1>2 DEF Numbered, InOrder
    <2>2. Vectors /\ Accounted /\ Lives
      BY <1>1, <1>2 DEF Vectors, Accounted, Lives, StoppingSequencials
    <2> QED
      BY <2>1, <2>2 DEF Ordering
  <1> QED
    BY <1>3, <1>4, ShapeInit DEF Inv

(* Scheduling a task, from the application or from a running task. *)
LEMMA InvPost ==
    ASSUME Inv, ~failed, main.at # "out", NEW t \in Tasks, t \notin posted, Post(t),
           UNCHANGED <<env, m_state, holder, wait_count, main, begun, done>>
    PROVE  Inv'
  <1>1. Shape /\ Waking /\ Ordering /\ Queued
    BY DEF Inv, Waking
  <1>2. Shape'
    BY <1>1, ShapePost
  <1>3. posted' = posted \cup {t}
    BY DEF Post
  <1>4. CASE t \in Plain
    <2>1. Push(t)
      BY <1>4 DEF Post
    <2> QED
      BY <1>1, <1>2, <1>3, <1>4, <2>1, WakingPush, OrderingPush DEF Inv
  <1>5. CASE t \notin Plain
    <2>1. Assign(t) /\ t \in Sequencial
      BY <1>5 DEF Post, Tasks
    <2>2. UNCHANGED <<queue, runner>>
      BY <2>1 DEF Assign
    <2>3. Runners' = Runners
      BY DEF Runners
    <2>4. Waking'
      BY <1>1, <2>2, WakingKept DEF Waking, EndedInTurn
    <2> QED
      BY <1>1, <1>2, <1>3, <1>5, <2>1, <2>4, OrderingAssign DEF Inv
  <1> QED
    BY <1>4, <1>5

LEMMA InvSpawn ==
    ASSUME Inv, ~failed, main.at # "out", NEW t \in Tasks, Spawn(t), UNCHANGED env
    PROVE  Inv'
  <1>1. PICK s \in env.spawns[t] \ posted :
          Post(s) /\ UNCHANGED <<m_state, holder, wait_count, main, starts, begun, done>>
    BY DEF Spawn
  <1>2. s \in Tasks
    BY EnvFacts DEF Inv, Shape
  <1> QED
    BY <1>1, <1>2, InvPost

LEMMA InvRunner ==
    ASSUME Inv, ~failed, NEW r \in DOMAIN runner, Runner(r) \/ Wake(r), UNCHANGED env
    PROVE  Inv'
  <1>1. Shape /\ Waking /\ Ordering /\ Queued /\ Carried /\ main.at # "out"
    BY PoolsExist DEF Inv, Waking
  <1>2. CASE SpawnTask(r)
    <2>1. runner[r].task \in Tasks /\ Spawn(runner[r].task)
      BY <1>1, <1>2 DEF SpawnTask, Carried, Tasks
    <2> QED
      BY <1>1, <2>1, InvSpawn
  <1>3. CASE ~SpawnTask(r)
    <2>1. Shape'
      BY <1>1, ShapeRunner
    <2>2. Waking'
      BY <1>1, <1>3, WakingTake, WakingWait, WakingRuns DEF Runner
    <2>3. Ordering'
      BY <1>1, <1>3, OrderingRunner DEF Runner
    <2> QED
      BY <2>1, <2>2, <2>3 DEF Inv
  <1> QED
    BY <1>2, <1>3

LEMMA InvSequencial ==
    ASSUME Inv, ~failed, NEW q \in DOMAIN sequencial, SequencialRunner(q) \/ WakeSequencial(q),
           UNCHANGED env
    PROVE  Inv'
  <1>1. /\ Shape /\ Waking /\ Ordering /\ Queued /\ Numbered /\ Vectors /\ Lives /\ main.at # "out"
    BY PoolsExist DEF Inv, Waking, Ordering
  <1>2. CASE SpawnSequencial(q)
    <2> DEFINE t == sequencial[q].assigning[sequencial[q].i]
    <2>1. t \in Sequencial
      BY <1>1, <1>2 DEF SpawnSequencial, Lives, Vectors, Ordered, Has, Numbered
    <2>2. Spawn(t) /\ t \in Tasks
      BY <1>2, <2>1 DEF SpawnSequencial, Tasks
    <2> QED
      BY <1>1, <2>2, InvSpawn
  <1>3. CASE ~SpawnSequencial(q)
    <2>1. Shape'
      BY <1>1, ShapeSequencial
    <2>2. UNCHANGED <<m_state, holder, queue, wait_count, runner, main>>
      BY <1>3 DEF SequencialRunner, TakeBatch, WakeSequencial, BeginSequencial, EndSequencial,
                  EndBatch, LoopSequencial, others
    <2>3. Waking'
      BY <1>1, <2>2, WakingKept DEF Waking, EndedInTurn
    <2>4. Ordering'
      BY <1>1, <1>3, OrderingTakeBatch, OrderingWake, OrderingBegin, OrderingEnd, OrderingEndBatch
         DEF SequencialRunner
    <2> QED
      BY <2>1, <2>3, <2>4 DEF Inv
  <1> QED
    BY <1>2, <1>3

LEMMA InvMain ==
    ASSUME Inv, ~failed, Start \/ Stop \/ Main, UNCHANGED env
    PROVE  Inv'
  <1>1. Shape /\ Waking /\ Ordering
    BY DEF Inv
  <1>2. CASE Start
    BY <1>1, <1>2, ShapeStart, WakingStart, OrderingStart DEF Inv
  <1>3. CASE Stop \/ TestQueue \/ TestState \/ TestFlag
    <2>1. Shape'
      BY <1>1, <1>3, ShapeStopping
    <2> QED
      BY <1>1, <1>3, <2>1, WakingStopping, OrderingStopping DEF Inv
  <1>4. CASE Exit
    BY <1>1, <1>4, ShapeExit, WakingExit, OrderingEnding DEF Inv
  <1>5. CASE OnStop \/ FindWaiting \/ SetEnding \/ NotifyEnding \/ Join \/ PoolEnded
    <2>1. Shape'
      BY <1>1, <1>5, ShapeExit, ShapeEnding
    <2> QED
      BY <1>1, <1>5, <2>1, WakingEnding, OrderingEnding DEF Inv
  <1>6. CASE StandbyEmpty \/ AssigningEmpty \/ ExitSequencial \/ JoinSequencial
    <2>1. Shape'
      BY <1>1, <1>6, ShapeEndingSequencial
    <2> QED
      BY <1>1, <1>6, <2>1, WakingEndingSequencial, OrderingEndingSequencial DEF Inv
  <1>7. CASE Stopped
    BY <1>1, <1>7, ShapeStopped, WakingStopped, OrderingStopped DEF Inv
  <1> QED
    BY <1>2, <1>3, <1>4, <1>5, <1>6, <1>7 DEF Main

LEMMA InvNext == Inv /\ [Next]_vars => Inv'
  <1> SUFFICES ASSUME Inv, [Next]_vars PROVE Inv'
    OBVIOUS
  <1>1. CASE UNCHANGED vars
    BY <1>1 DEF vars, Inv, Shape, MainRecords, Runners, Seqs, LastTest, Waking, Queued, Plain, Counted,
                Waiting, Held, Empty, Carried, EndedInTurn, NoLostWakeUp, Asleep, Ready, Ordering,
                Numbered, Sequencial, InOrder, Vectors, RunnerOf, Accounted, Lives
  <1>2. CASE Next
    <2>1. ~failed /\ Step /\ UNCHANGED env
      BY <1>2 DEF Next
    <2>2. CASE Start \/ Stop \/ Main
      BY <2>1, <2>2, InvMain
    <2>3. CASE \E t \in Tasks : Schedule(t)
      <3>1. PICK t \in Tasks : Schedule(t)
        BY <2>3
      <3>2. /\ main.at # "out" /\ t \notin posted /\ Post(t)
            /\ UNCHANGED <<m_state, holder, wait_count, main, begun, done>>
        BY <3>1 DEF Schedule
      <3> QED
        BY <2>1, <3>2, InvPost
    <2>4. CASE \E r \in DOMAIN runner : Runner(r) \/ Wake(r)
      BY <2>1, <2>4, InvRunner
    <2>5. CASE \E q \in DOMAIN sequencial : SequencialRunner(q) \/ WakeSequencial(q)
      BY <2>1, <2>5, InvSequencial
    <2> QED
      BY <2>1, <2>2, <2>3, <2>4, <2>5 DEF Step
  <1> QED
    BY <1>1, <1>2

(* The pools, the queue and the histories agree, for any application and   *)
(* whatever order its threads and the runners take their steps in.         *)
THEOREM SchedulerInductive == Spec => []Inv
  <1>1. Init => Inv
    BY InvInit
  <1>2. Inv /\ [Next]_vars => Inv'
    BY InvNext
  <1> QED
    BY <1>1, <1>2, PTL DEF Spec

(* A runner sleeps only when the runners on their way to the queue are at  *)
(* least as many as the tasks in it, and the fields of the scheduler and   *)
(* its runners keep their types (runner::run, scheduler::schedule).        *)
THEOREM WakeUpsSoundHolds == Spec => []WakeUpsSound
  <1>1. ASSUME Inv PROVE WakeUpsSound
    <2>1. Shape /\ Waking /\ Queued /\ Counted /\ Held /\ Carried /\ NoLostWakeUp
      BY <1>1 DEF Inv, Waking
    <2>2. wait_count \in 0..env.runners
      BY <2>1, FiniteRunners, EnvFacts DEF Counted, Shape
    <2>3. \A p \in {1, 2} : \A t \in Range(queue[p]) : env.prio[t] = p - 1
      <3> SUFFICES ASSUME NEW p \in {1, 2}, NEW t \in Range(queue[p]) PROVE env.prio[t] = p - 1
        OBVIOUS
      <3>1. PICK k \in DOMAIN queue[p] : t = queue[p][k]
        BY DEF Range
      <3>2. DOMAIN queue[p] = 1..Len(queue[p])
        BY <2>1 DEF Queued
      <3> QED
        BY <2>1, <3>1, <3>2 DEF Queued
    <2>4. \A r \in DOMAIN runner : runner[r].task # None => runner[r].task \in Plain
      BY <2>1 DEF Carried
    <2>5. m_state \in {"IDLE", "RUN", "EXIT"} /\ main.run \in 0..1 /\ failed \in BOOLEAN
      BY <2>1 DEF Shape, MainRecords
    <2>6. TypeOK
      BY <2>1, <2>2, <2>3, <2>4, <2>5 DEF TypeOK, Held
    <2> QED
      BY <2>1, <2>6 DEF WakeUpsSound
  <1> QED
    BY <1>1, SchedulerInductive, PTL

(* A sequencial task begins only when those with its tag that were         *)
(* scheduled before it have ended (sequencial_runner::run).                *)
THEOREM InOrderHolds == Spec => []InOrder
  <1>1. Inv => InOrder
    BY DEF Inv, Ordering
  <1> QED
    BY <1>1, SchedulerInductive, PTL

-----------------------------------------------------------------------------
(* The assertions, in applications whose tasks schedule nothing when stop  *)
(* is used.                                                                *)

LEMMA DrainedInit == Init => Drained
  <1> SUFFICES ASSUME Init PROVE Drained
    OBVIOUS
  <1>1. main.at = "out" /\ failed = FALSE /\ sequencial = <<>> /\ DOMAIN sequencial = {}
    BY DEF Init
  <1> QED
    BY <1>1 DEF Drained

LEMMA DrainedPost ==
    ASSUME Inv, Drained, main.at = "app", NEW t \in Tasks, Post(t), UNCHANGED <<env, m_state, main>>
    PROVE  Drained'
  <1>1. m_state = "RUN" /\ Shape /\ Lives
    BY DEF Inv, Shape, Ordering, Drained, Serving
  <1>2. CASE t \in Plain
    <2>1. sequencial' = sequencial /\ ~failed'
      BY <1>1, <1>2 DEF Post, Push
    <2> QED
      BY <2>1 DEF Drained
  <1>3. CASE t \notin Plain
    <2>1. Assign(t) /\ t \in Sequencial
      BY <1>3 DEF Post, Tasks
    <2>2. PICK q \in Seqs :
            /\ q = RunnerOf(t) /\ DOMAIN sequencial = Seqs /\ DOMAIN sequencial' = Seqs
            /\ \A x \in Seqs : x # q => sequencial'[x] = sequencial[x]
            /\ sequencial'[q].assigning = sequencial[q].assigning
            /\ sequencial'[q].state = sequencial[q].state
            /\ \/ sequencial'[q].at = sequencial[q].at
               \/ sequencial[q].at = "asleep" /\ sequencial'[q].at = "woken"
      BY <1>1, <2>1, AssignEffect
    <2>3. sequencial[q] \in SequencialRecords
      BY <1>1, <2>2, PoolsExist
    <2>4. sequencial[q].state # "EXIT"
      BY <1>1, <2>2 DEF Lives
    <2>5. ~failed'
      BY <1>1, <2>1, <2>2, <2>3, <2>4 DEF Assign, SequencialRecords
    <2>6. \A x \in Seqs : Batched(sequencial'[x])
      BY <2>2, <2>4 DEF Drained, Batched
    <2> QED
      BY <2>2, <2>5, <2>6 DEF Drained
  <1> QED
    BY <1>2, <1>3

(* With no stop to come, the scheduler is running while a task spawns. *)
LEMMA DrainedSpawn ==
    ASSUME Quiet, Inv, Drained, main.at # "out", NEW t \in Tasks, Spawn(t), UNCHANGED env
    PROVE  Drained'
  <1>1. PICK s \in env.spawns[t] \ posted :
          Post(s) /\ UNCHANGED <<m_state, holder, wait_count, main, starts, begun, done>>
    BY DEF Spawn
  <1>2. env \in Environments
    BY DEF Inv, Shape
  <1>3. s \in Tasks
    BY <1>2, EnvFacts
  <1>4. ~env.stops
    BY <1>1, <1>2 DEF Quiet, Tasks, Plain, Sequencial
  <1>5. main.at = "app"
    BY <1>4 DEF Drained
  <1> QED
    BY <1>1, <1>3, <1>5, DrainedPost

LEMMA DrainedRunner ==
    ASSUME Quiet, Inv, Drained, NEW r \in DOMAIN runner, Runner(r) \/ Wake(r), UNCHANGED env
    PROVE  Drained'
  <1>1. Shape /\ Carried /\ main.at # "out"
    BY PoolsExist DEF Inv, Waking
  <1>2. CASE SpawnTask(r)
    <2>1. runner[r].task \in Tasks /\ Spawn(runner[r].task)
      BY <1>1, <1>2 DEF SpawnTask, Carried, Tasks
    <2> QED
      BY <1>1, <2>1, DrainedSpawn
  <1>3. CASE ~SpawnTask(r)
    <2>1. UNCHANGED <<sequencial, main, failed>>
      BY <1>3 DEF Runner, Take, Wait, Wake, SetRunning, BeginTask, EndTask, Loop, rest
    <2>2. Empty => UNCHANGED queue
      BY <1>3 DEF Runner, Take, Wait, Wake, SetRunning, BeginTask, EndTask, Loop
    <2>3. Empty => Empty'
      BY <2>2 DEF Empty
    <2> QED
      BY <2>1, <2>3 DEF Drained
  <1> QED
    BY <1>2, <1>3

LEMMA DrainedSequencial ==
    ASSUME Quiet, Inv, Drained, NEW q \in DOMAIN sequencial, UNCHANGED env,
           SequencialRunner(q) \/ WakeSequencial(q)
    PROVE  Drained'
  <1> DEFINE s == sequencial[q]
             t == sequencial'[q]
  <1>1. /\ Shape /\ Numbered /\ Vectors /\ Lives /\ main.at # "out" /\ s \in SequencialRecords
        /\ Batched(s) /\ DOMAIN sequencial = Seqs
    BY PoolsExist DEF Inv, Ordering, Drained
  <1>2. CASE SpawnSequencial(q)
    <2> DEFINE u == s.assigning[s.i]
    <2>1. u \in Sequencial
      BY <1>1, <1>2 DEF SpawnSequencial, Lives, Vectors, Ordered, Has, Numbered
    <2>2. Spawn(u) /\ u \in Tasks
      BY <1>2, <2>1 DEF SpawnSequencial, Tasks
    <2> QED
      BY <1>1, <2>2, DrainedSpawn
  <1>3. CASE ~SpawnSequencial(q)
    <2>1. UNCHANGED <<queue, main>>
      BY <1>3 DEF SequencialRunner, TakeBatch, WakeSequencial, BeginSequencial, EndSequencial,
                  EndBatch, LoopSequencial, others
    <2>2. /\ OneTurns(q) /\ ~failed' /\ Batched(t)
          /\ s.standby = <<>> => t.standby = <<>>
          /\ s.standby = <<>> /\ s.assigning = <<>> => t.assigning = <<>>
      <3>1. CASE TakeBatch(q)
        <4>1. s.assigning = <<>>
          BY <1>1, <3>1 DEF TakeBatch, Batched
        <4>2. ~failed'
          BY <3>1, <4>1 DEF TakeBatch
        <4>3. /\ OneTurns(q) /\ s.at \in {"run", "woken"}
              /\ \/ s.state = "EXIT" /\ t = [s EXCEPT !.at = "loop"]
                 \/ /\ s.state # "EXIT" /\ s.standby = <<>>
                    /\ t = [s EXCEPT !.at = "asleep", !.state = "WAITING"]
                 \/ /\ s.state # "EXIT" /\ s.standby # <<>>
                    /\ t.at = "batch" /\ t.state = "RUN"
                    /\ t.assigning = s.standby /\ t.standby = s.assigning
          BY <1>1, <3>1, TurnEffects
        <4> QED
          BY <1>1, <4>1, <4>2, <4>3 DEF Batched, SequencialRecords
      <3>2. CASE WakeSequencial(q)
        BY <1>1, <3>2, TurnEffects DEF WakeSequencial, Batched, SequencialRecords, Drained
      <3>3. CASE BeginSequencial(q)
        BY <1>1, <3>3, TurnEffects DEF BeginSequencial, Batched, SequencialRecords, Drained
      <3>4. CASE EndSequencial(q)
        BY <1>1, <3>4, TurnEffects DEF EndSequencial, Batched, SequencialRecords, Drained
      <3>5. CASE EndBatch(q)
        BY <1>1, <3>5, TurnEffects DEF EndBatch, Batched, SequencialRecords
      <3>6. CASE LoopSequencial(q)
        <4>1. s.thread # "RUNNING" => s.state = "EXIT"
          BY <1>1 DEF Lives, SequencialRecords
        <4>2. ~failed'
          BY <1>1, <3>6, <4>1 DEF LoopSequencial, Batched, Drained
        <4> QED
          BY <1>1, <3>6, <4>2, TurnEffects DEF LoopSequencial, Batched, SequencialRecords
      <3> QED
        BY <1>3, <3>1, <3>2, <3>3, <3>4, <3>5, <3>6 DEF SequencialRunner
    <2>3. \A x \in DOMAIN sequencial' : Batched(sequencial'[x])
      BY <2>2 DEF OneTurns, Drained
    <2>4. main.at \in {"assigning", "endseq"} => main.i \in DOMAIN sequencial
      BY <1>1, EnvFacts DEF Shape, StoppingSequencials, Seqs
    <2>5. /\ main.at \in {"assigning", "endseq"} => sequencial'[main.i].standby = <<>>
          /\ main.at = "endseq" => sequencial'[main.i].assigning = <<>>
      BY <2>2, <2>4 DEF OneTurns, Drained
    <2>6. Empty' = Empty
      BY <2>1 DEF Empty
    <2> QED
      BY <2>1, <2>2, <2>3, <2>5, <2>6 DEF Drained
  <1> QED
    BY <1>2, <1>3

(* The stopping thread moves on, with what it has seen empty still empty. *)
LEMMA DrainedKept ==
    ASSUME Drained, ~failed', UNCHANGED <<env, queue, sequencial>>,
           main.at \notin {"out", "app"}, main.at = "queue" => main'.at = "queue" \/ Empty,
           main'.at \notin {"assigning", "endseq"}
    PROVE  Drained'
  BY DEF Drained, Empty

LEMMA DrainedStopping ==
    ASSUME Inv, Inv', Drained, Stop \/ TestQueue \/ TestState \/ TestFlag, UNCHANGED env
    PROVE  Drained'
  <1>1. /\ Shape /\ Shape' /\ m_state = "RUN" /\ main.at \in Serving /\ main.at # "out"
        /\ main \in MainRecords /\ UNCHANGED <<m_state, queue, failed>>
    BY DEF Inv, Shape, Serving, Stop, TestQueue, TestState, TestFlag, pools
  <1>2. main'.at \in Serving
    BY <1>1 DEF Shape
  <1>3. main'.at \notin {"assigning", "endseq", "out"}
    BY <1>2 DEF Serving
  <1>4. Empty' = Empty
    BY <1>1 DEF Empty
  <1>5. CASE Stop
    <2>1. 0 \in 0..1
      OBVIOUS
    <2>2. main'.at = "queue" /\ env.stops /\ UNCHANGED sequencial
      BY <1>1, <1>5, <2>1, RoundMoves DEF Stop, pools
    <2> QED
      BY <1>1, <2>2 DEF Drained
  <1>6. CASE TestQueue
    <2>1. 0 \in 0..1
      OBVIOUS
    <2>2. main.at = "queue" /\ UNCHANGED sequencial /\ (main'.at = "queue" \/ Empty)
      BY <1>1, <1>6, <2>1, RoundMoves DEF TestQueue, Again, pools
    <2> QED
      BY <1>1, <1>3, <2>2, DrainedKept DEF Drained
  <1>7. CASE TestState \/ TestFlag
    <2>1. main.at \in {"state", "flag"} /\ Empty /\ env.stops /\ ~failed
      BY <1>7 DEF TestState, TestFlag, Drained
    <2>2. CASE UNCHANGED sequencial
      BY <1>1, <1>3, <2>1, <2>2, DrainedKept
    <2>3. CASE sequencial' = [sequencial EXCEPT ![main.i - env.runners].flag = 1]
      <3>1. sequencial \in [Seqs -> SequencialRecords]
        BY <1>1, PoolsExist
      <3>2. /\ DOMAIN sequencial' = DOMAIN sequencial
            /\ \A q \in DOMAIN sequencial : /\ sequencial'[q].assigning = sequencial[q].assigning
                                            /\ sequencial'[q].standby = sequencial[q].standby
                                            /\ sequencial'[q].at = sequencial[q].at
                                            /\ sequencial'[q].state = sequencial[q].state
        BY <2>3, <3>1 DEF SequencialRecords
      <3>3. \A q \in DOMAIN sequencial' : Batched(sequencial'[q])
        BY <3>2 DEF Drained, Batched
      <3> QED
        BY <1>1, <1>3, <1>4, <2>1, <3>3 DEF Drained
    <2> QED
      BY <1>7, <2>2, <2>3 DEF TestState, TestFlag, pools
  <1> QED
    BY <1>5, <1>6, <1>7

LEMMA DrainedEnding ==
    ASSUME Inv, Drained, UNCHANGED env,
           Exit \/ OnStop \/ FindWaiting \/ SetEnding \/ NotifyEnding \/ Join \/ PoolEnded
    PROVE  Drained'
  <1>1. /\ main.at \in {"exit", "onstop"} \cup StoppingRunners /\ main \in MainRecords /\ env \in Environments
        /\ UNCHANGED <<sequencial, queue>>
    BY DEF Exit, OnStop, FindWaiting, SetEnding, NotifyEnding, Join, PoolEnded, pools, Inv, Shape,
           StoppingRunners
  <1>2. main.at \notin {"out", "app", "queue"}
    BY <1>1 DEF StoppingRunners
  <1>3. ~failed'
    BY <1>2 DEF Drained, Exit, OnStop, FindWaiting, SetEnding, NotifyEnding, Join, PoolEnded
  <1>4. /\ {"onstop", "stop", "ending", "notify", "join", "standby"} \subseteq Places
        /\ env.runners \in Nat /\ env.seqs \in Nat
    BY <1>1, EnvFacts DEF Places, StoppingRunners, StoppingSequencials
  <1>5. Join => main.i - 1 \in Nat
    BY <1>1 DEF Join, Inv, Shape, StoppingRunners
  <1>6. main'.at \in {"onstop", "stop", "ending", "notify", "join", "standby"}
    <2>1. CASE Exit \/ FindWaiting \/ SetEnding \/ NotifyEnding
      BY <1>1, <1>4, <2>1, AtMoves DEF Exit, FindWaiting, SetEnding, NotifyEnding
    <2>2. CASE OnStop \/ Join \/ PoolEnded
      BY <1>1, <1>4, <1>5, <2>2, AtIndexMoves DEF OnStop, Join, PoolEnded
    <2> QED
      BY <2>1, <2>2
  <1> QED
    BY <1>1, <1>2, <1>3, <1>6, DrainedKept

LEMMA DrainedEndingSequencial ==
    ASSUME Inv, Drained, UNCHANGED env,
           StandbyEmpty \/ AssigningEmpty \/ ExitSequencial \/ JoinSequencial
    PROVE  Drained'
  <1>1. /\ Shape /\ main.at \in StoppingSequencials /\ main \in MainRecords /\ env \in Environments
        /\ UNCHANGED <<queue, failed>> /\ main.i \in 0..env.seqs /\ (main.at # "standby" => main.i > 0)
    BY DEF StandbyEmpty, AssigningEmpty, ExitSequencial, JoinSequencial, pools, Inv, Shape,
           StoppingSequencials
  <1>2. main.at \notin {"out", "app", "queue"} /\ Empty /\ Empty' /\ env.stops /\ ~failed
    <2>1. main.at \notin {"out", "app", "queue"}
      BY <1>1 DEF StoppingSequencials
    <2> QED
      BY <1>1, <2>1 DEF Drained, Empty
  <1>3. {"standby", "assigning", "endseq", "joinseq"} \subseteq Places
    BY DEF Places, StoppingSequencials
  <1>4. CASE StandbyEmpty
    <2>1. main'.at = "assigning" /\ main'.i = main.i /\ UNCHANGED sequencial
          /\ sequencial[main.i].standby = <<>>
      BY <1>1, <1>3, <1>4, AtMoves DEF StandbyEmpty, pools
    <2> QED
      BY <1>1, <1>2, <2>1 DEF Drained
  <1>5. CASE AssigningEmpty
    <2>1. /\ main.at = "assigning" /\ main'.i = main.i /\ UNCHANGED sequencial
          /\ \/ main'.at = "endseq" /\ sequencial[main.i].assigning = <<>>
             \/ main'.at = "standby"
      BY <1>1, <1>3, <1>5, AtMoves DEF AssigningEmpty, pools
    <2> QED
      BY <1>1, <1>2, <2>1 DEF Drained
  <1>6. CASE JoinSequencial
    <2>1. main.i - 1 \in Nat /\ UNCHANGED sequencial
      BY <1>1, <1>6 DEF JoinSequencial, pools
    <2>2. main'.at = "standby"
      BY <1>1, <1>3, <1>6, <2>1, AtIndexMoves DEF JoinSequencial
    <2> QED
      BY <1>1, <1>2, <2>1, <2>2, DrainedKept
  <1>7. CASE ExitSequencial
    <2> DEFINE k == main.i
               s == sequencial[k]
               t == sequencial'[k]
    <2>1. main.at = "endseq" /\ main'.at = "joinseq"
      BY <1>1, <1>3, <1>7, AtMoves DEF ExitSequencial
    <2>2. k \in Seqs /\ sequencial \in [Seqs -> SequencialRecords] /\ DOMAIN sequencial = Seqs
      BY <1>1, <1>2, <2>1, PoolsExist, EnvFacts DEF Seqs
    <2>3. s \in SequencialRecords /\ s.standby = <<>> /\ s.assigning = <<>> /\ Batched(s)
      BY <2>1, <2>2 DEF Drained
    <2>4. OneTurns(k) /\ t = [s EXCEPT !.state = "EXIT", !.thread = "STOP",
                                       !.at = IF s.at = "asleep" THEN "woken" ELSE s.at]
      BY <1>7, <2>2 DEF ExitSequencial, OneTurns
    <2>5. Batched(t)
      BY <2>3, <2>4 DEF Batched, SequencialRecords
    <2>6. \A q \in DOMAIN sequencial' : Batched(sequencial'[q])
      BY <2>2, <2>4, <2>5 DEF Drained, OneTurns
    <2> QED
      BY <1>1, <1>2, <2>1, <2>6 DEF Drained
  <1> QED
    BY <1>4, <1>5, <1>6, <1>7

LEMMA DrainedEnds ==
    ASSUME Inv, Drained, Start \/ Stopped, UNCHANGED env
    PROVE  Drained'
  <1>1. Shape /\ main \in MainRecords /\ ~failed
    BY DEF Inv, Shape, Drained
  <1>2. "app" \in Places /\ "out" \in Places
    BY DEF Places, Serving
  <1>3. main'.at \in {"out", "app"} /\ ~failed'
    BY <1>1, <1>2, AtMoves DEF Start, Stopped
  <1>4. \A q \in DOMAIN sequencial' : Batched(sequencial'[q])
    <2>1. CASE Start
      <3>1. sequencial' = [q \in Seqs |-> NewSequencial] /\ Batched(NewSequencial)
        BY <2>1 DEF Start, NewSequencials, NewSequencial, Batched
      <3> QED
        BY <3>1
    <2>2. CASE Stopped
      <3>1. sequencial' = <<>> /\ DOMAIN sequencial' = {}
        BY <2>2 DEF Stopped
      <3> QED
        BY <3>1
    <2> QED
      BY <2>1, <2>2
  <1> QED
    BY <1>3, <1>4 DEF Drained

LEMMA DrainedNext ==
    ASSUME Quiet, Inv, Inv', Drained, [Next]_vars PROVE Drained'
  <1>1. CASE UNCHANGED vars
    BY <1>1 DEF vars, Drained, Empty, Batched
  <1>2. CASE Next
    <2>1. Step /\ UNCHANGED env
      BY <1>2 DEF Next
    <2>2. CASE Start \/ Stop \/ Main
      BY <2>1, <2>2, DrainedEnds, DrainedStopping, DrainedEnding, DrainedEndingSequencial DEF Main
    <2>3. CASE \E t \in Tasks : Schedule(t)
      BY <2>1, <2>3, DrainedPost DEF Schedule
    <2>4. CASE \E r \in DOMAIN runner : Runner(r) \/ Wake(r)
      BY <2>1, <2>4, DrainedRunner
    <2>5. CASE \E q \in DOMAIN sequencial : SequencialRunner(q) \/ WakeSequencial(q)
      BY <2>1, <2>5, DrainedSequencial
    <2> QED
      BY <2>1, <2>2, <2>3, <2>4, <2>5 DEF Step
  <1> QED
    BY <1>1, <1>2

(* No assertion of the scheduler or its runners fails, in any application  *)
(* that does not call stop while its tasks schedule others: stop finds     *)
(* empty what scheduler::__on_stop and sequencial_runner::on_stop assert   *)
(* empty, and a batch is run to its last task.                             *)
THEOREM AssertionsHoldWhenQuiet ==
    ASSUME Quiet PROVE Spec => []AssertionsHold
  <1>1. Init => Drained
    BY DrainedInit
  <1>2. Inv /\ Inv' /\ Drained /\ [Next]_vars => Drained'
    BY DrainedNext
  <1>3. Drained => AssertionsHold
    BY DEF Drained, AssertionsHold
  <1> QED
    BY <1>1, <1>2, <1>3, SchedulerInductive, PTL DEF Spec
=============================================================================
