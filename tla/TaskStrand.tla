----------------------------- MODULE TaskStrand -----------------------------
(***************************************************************************)
(* task_strand (srsRAN/include/srsran/support/executors/strand_executor.h):*)
(* tasks pushed by any number of threads run one at a time on a shared     *)
(* executor.  There is no lock: the call that raises job_count from zero   *)
(* holds the strand and dispatches one job that drains the queue; if the   *)
(* executor refuses the job, the same call discards what is queued.        *)
(*                                                                         *)
(* A step is one access to the queue, to job_count or to the executor.  A  *)
(* task run inline by execute(), or one that calls execute() itself, only  *)
(* takes some of the interleavings of a separate worker and producer.      *)
(* Pop with an empty queue (the timeout of strand_queue::pop) is no action *)
(* because PopFindsTask shows that it never happens.                       *)
(***************************************************************************)
EXTENDS Naturals, Sequences, FiniteSets

CONSTANTS
  Producers,     \* threads that call execute() or defer()
  Workers,       \* threads of the wrapped executor
  QueueSize,     \* capacity of the queue of the strand
  MaxTasks       \* bound: calls per producer

ASSUME StrandAssumption ==
  /\ IsFiniteSet(Producers)
  /\ IsFiniteSet(Workers)
  /\ Producers \cap Workers = {}
  /\ QueueSize \in Nat \ {0}
  /\ MaxTasks \in Nat

VARIABLES
  queue,      \* the queue of the strand
  job_count,
  pc,         \* where each thread is
  calls,      \* calls each producer has made; the latest is its current task
  queue_size, \* the local of run_enqueued_tasks, handle_failed_task_dispatch
  run_count,  \* the other local of these two loops
  jobs,       \* jobs dispatched to the wrapped executor and not yet started
  accepted,   \* tasks whose call returned true
  ran,        \* tasks that were run
  discarded   \* tasks popped by handle_failed_task_dispatch

vars == <<queue, job_count, pc, calls, queue_size, run_count, jobs, accepted,
          ran, discarded>>

Threads == Producers \cup Workers
Tasks == Producers \X (1..MaxTasks)
Current(p) == <<p, calls[p]>>

TypeOK ==
  /\ queue \in Seq(Tasks)
  /\ Len(queue) <= QueueSize
  /\ job_count \in Nat
  /\ pc \in [Threads -> {"idle", "pushed", "acquired", "load", "loop"}]
  /\ \A w \in Workers : pc[w] \in {"idle", "load", "loop"}
  /\ calls \in [Producers -> 0..MaxTasks]
  /\ \A p \in Producers : pc[p] # "idle" => calls[p] > 0
  /\ queue_size \in [Threads -> Nat]
  /\ run_count \in [Threads -> Nat]
  /\ jobs \in Nat
  /\ accepted \subseteq Tasks
  /\ ran \subseteq Tasks
  /\ discarded \subseteq Tasks

Init ==
  /\ queue = << >>
  /\ job_count = 0
  /\ pc = [x \in Threads |-> "idle"]
  /\ calls = [p \in Producers |-> 0]
  /\ queue_size = [x \in Threads |-> 0]
  /\ run_count = [x \in Threads |-> 0]
  /\ jobs = 0
  /\ accepted = {}
  /\ ran = {}
  /\ discarded = {}

Goto(x, label) == pc' = [pc EXCEPT ![x] = label]

-----------------------------------------------------------------------------
(* execute() and defer().                                                  *)

(* Mutant of Push: the capacity of the queue is ignored.                   *)
PushUnchecked(p) ==
  /\ pc[p] = "idle"
  /\ calls[p] < MaxTasks
  /\ calls' = [calls EXCEPT ![p] = @ + 1]
  /\ queue' = Append(queue, <<p, calls[p] + 1>>)
  /\ Goto(p, "pushed")
  /\ UNCHANGED <<job_count, queue_size, run_count, jobs, accepted, ran, discarded>>

Push(p) ==
  /\ pc[p] = "idle"
  /\ calls[p] < MaxTasks
  /\ Len(queue) < QueueSize
  /\ calls' = [calls EXCEPT ![p] = @ + 1]
  /\ queue' = Append(queue, <<p, calls[p] + 1>>)
  /\ Goto(p, "pushed")
  /\ UNCHANGED <<job_count, queue_size, run_count, jobs, accepted, ran, discarded>>

(* Mutant of PushFails: a task that was not enqueued is counted.           *)
PushFailsCounted(p) ==
  /\ pc[p] = "idle"
  /\ calls[p] < MaxTasks
  /\ Len(queue) = QueueSize
  /\ calls' = [calls EXCEPT ![p] = @ + 1]
  /\ Goto(p, "pushed")
  /\ UNCHANGED <<queue, job_count, queue_size, run_count, jobs, accepted, ran, discarded>>

(* The queue is full: the call returns false.                              *)
PushFails(p) ==
  /\ pc[p] = "idle"
  /\ calls[p] < MaxTasks
  /\ Len(queue) = QueueSize
  /\ calls' = [calls EXCEPT ![p] = @ + 1]
  /\ UNCHANGED <<queue, job_count, pc, queue_size, run_count, jobs, accepted, ran,
                 discarded>>

(* Mutant of Acquire: the strand is acquired whatever job_count was.       *)
AcquireAlways(p) ==
  /\ pc[p] = "pushed"
  /\ job_count' = job_count + 1
  /\ Goto(p, "acquired")
  /\ UNCHANGED <<queue, calls, queue_size, run_count, jobs, accepted, ran, discarded>>

(* handle_enqueued_task: fetch_add on job_count.                           *)
Acquire(p) ==
  /\ pc[p] = "pushed"
  /\ job_count = 0
  /\ job_count' = 1
  /\ Goto(p, "acquired")
  /\ UNCHANGED <<queue, calls, queue_size, run_count, jobs, accepted, ran, discarded>>

JoinHolder(p) ==
  /\ pc[p] = "pushed"
  /\ job_count > 0
  /\ job_count' = job_count + 1
  /\ accepted' = accepted \cup {Current(p)}
  /\ Goto(p, "idle")
  /\ UNCHANGED <<queue, calls, queue_size, run_count, jobs, ran, discarded>>

Dispatch(p) ==
  /\ pc[p] = "acquired"
  /\ jobs' = jobs + 1
  /\ accepted' = accepted \cup {Current(p)}
  /\ Goto(p, "idle")
  /\ UNCHANGED <<queue, job_count, calls, queue_size, run_count, ran, discarded>>

(* The wrapped executor refuses the job: handle_failed_task_dispatch.      *)
DispatchFails(p) ==
  /\ pc[p] = "acquired"
  /\ Goto(p, "load")
  /\ UNCHANGED <<queue, job_count, calls, queue_size, run_count, jobs, accepted, ran,
                 discarded>>

-----------------------------------------------------------------------------
(* The wrapped executor starts run_enqueued_tasks.                         *)
StartJob(w) ==
  /\ pc[w] = "idle"
  /\ jobs > 0
  /\ jobs' = jobs - 1
  /\ Goto(w, "load")
  /\ UNCHANGED <<queue, job_count, calls, queue_size, run_count, accepted, ran, discarded>>

(* The loops of run_enqueued_tasks (a worker) and of                       *)
(* handle_failed_task_dispatch (a producer).                               *)
LoadCount(x) ==
  /\ pc[x] = "load"
  /\ queue_size' = [queue_size EXCEPT ![x] = job_count]
  /\ run_count' = [run_count EXCEPT ![x] = 0]
  /\ Goto(x, "loop")
  /\ UNCHANGED <<queue, job_count, calls, jobs, accepted, ran, discarded>>

(* Mutant of Pop: the task stays in the queue.                             *)
PopKeeps(x) ==
  /\ pc[x] = "loop"
  /\ run_count[x] # queue_size[x]
  /\ queue # << >>
  /\ run_count' = [run_count EXCEPT ![x] = @ + 1]
  /\ IF x \in Workers
     THEN ran' = ran \cup {Head(queue)} /\ UNCHANGED discarded
     ELSE discarded' = discarded \cup {Head(queue)} /\ UNCHANGED ran
  /\ UNCHANGED <<queue, job_count, pc, calls, queue_size, jobs, accepted>>

Pop(x) ==
  /\ pc[x] = "loop"
  /\ run_count[x] # queue_size[x]
  /\ queue # << >>
  /\ queue' = Tail(queue)
  /\ run_count' = [run_count EXCEPT ![x] = @ + 1]
  /\ IF x \in Workers
     THEN ran' = ran \cup {Head(queue)} /\ UNCHANGED discarded
     ELSE discarded' = discarded \cup {Head(queue)} /\ UNCHANGED ran
  /\ UNCHANGED <<job_count, pc, calls, queue_size, jobs, accepted>>

(* Mutant of Subtract: the loop ends although jobs were added meanwhile.   *)
SubtractOnce(x) ==
  /\ pc[x] = "loop"
  /\ run_count[x] = queue_size[x]
  /\ job_count' = job_count - run_count[x]
  /\ Goto(x, "idle")
  /\ UNCHANGED <<queue, calls, queue_size, run_count, jobs, accepted, ran, discarded>>

(* fetch_sub: the strand is released when no job was added meanwhile.      *)
Subtract(x) ==
  /\ pc[x] = "loop"
  /\ run_count[x] = queue_size[x]
  /\ job_count' = job_count - run_count[x]
  /\ queue_size' = [queue_size EXCEPT ![x] = job_count - run_count[x]]
  /\ run_count' = [run_count EXCEPT ![x] = 0]
  /\ Goto(x, IF job_count = run_count[x] THEN "idle" ELSE "loop")
  /\ UNCHANGED <<queue, calls, jobs, accepted, ran, discarded>>

-----------------------------------------------------------------------------
Call(p) == Acquire(p) \/ JoinHolder(p) \/ Dispatch(p) \/ DispatchFails(p)
Drain(x) == LoadCount(x) \/ Pop(x) \/ Subtract(x)

Next ==
  \/ \E p \in Producers : Push(p) \/ PushFails(p) \/ Call(p)
  \/ \E w \in Workers : StartJob(w)
  \/ \E x \in Threads : Drain(x)

(* Threads that are inside a call, a job or a loop go on, and the wrapped  *)
(* executor starts the jobs it accepted.                                   *)
Fairness ==
  /\ \A p \in Producers : WF_vars(Call(p))
  /\ \A x \in Threads : WF_vars(Drain(x))
  /\ WF_vars(\E w \in Workers : StartJob(w))

Spec == Init /\ [][Next]_vars /\ Fairness

-----------------------------------------------------------------------------
(* Properties.                                                             *)

(* "strict serialization requirements": no two threads drain the queue at  *)
(* the same time, hence no two tasks of the strand run concurrently.       *)
Draining(x) == pc[x] \in {"load", "loop"}
MutualExclusion == \A x, y \in Threads : Draining(x) /\ Draining(y) => x = y

(* No wakeup is lost between the last fetch_sub of a job and the fetch_add *)
(* of a concurrent call: while tasks are counted, a job is dispatched or a *)
(* thread is in charge of the strand.                                      *)
Holding(x) == pc[x] \in {"acquired", "load", "loop"}
CountedIsServed == job_count > 0 => jobs > 0 \/ \E x \in Threads : Holding(x)

(* "we have the guarantee that at least one task is stored in the queue":  *)
(* the loop never waits for a task that is not there.                      *)
PopFindsTask ==
  \A x \in Threads : pc[x] = "loop" /\ run_count[x] # queue_size[x] => queue # << >>

(* A task is run at most once, never both run and discarded, and every     *)
(* task the strand still owes is in the queue.                             *)
InQueue(t) == \E i \in DOMAIN queue : queue[i] = t
EachTaskOnce ==
  /\ ran \cap discarded = {}
  /\ \A t \in accepted : InQueue(t) \/ t \in ran \/ t \in discarded
  /\ \A i \in DOMAIN queue : queue[i] \notin ran \cup discarded

(* Every accepted task leaves the queue: it is run, or discarded when the  *)
(* wrapped executor refused the job.                                       *)
AcceptedLeaves ==
  \A t \in Tasks : t \in accepted ~> t \in ran \cup discarded

=============================================================================
