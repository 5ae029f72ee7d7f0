-------------------------- MODULE TaskStrandProofs --------------------------
(***************************************************************************)
(* Proofs about TaskStrand, for any number of producers, workers and tasks *)
(* and any queue size.                                                     *)
(***************************************************************************)
EXTENDS TaskStrand, FiniteSetTheorems, TLAPS

(* The calls between the push of a task and the increment of job_count.    *)
Pushed == {p \in Producers : pc[p] = "pushed"}

(* At most one job or thread holds the strand, exactly when tasks are      *)
(* counted.                                                                *)
LockInv ==
  /\ jobs \in {0, 1}
  /\ \A x, y \in Threads : Holding(x) /\ Holding(y) => x = y
  /\ jobs = 1 => \A x \in Threads : ~Holding(x)
  /\ job_count = 0 <=> jobs = 0 /\ \A x \in Threads : ~Holding(x)
  /\ \A x \in Threads : pc[x] = "loop" =>
        run_count[x] <= queue_size[x] /\ queue_size[x] <= job_count

(* The queue holds the tasks that are counted and were not popped in the   *)
(* current loop, and those whose call is about to count them.              *)
CountInv ==
  /\ (\A x \in Threads : pc[x] # "loop") => Len(queue) = job_count + Cardinality(Pushed)
  /\ \A x \in Threads : pc[x] = "loop" =>
        Len(queue) + run_count[x] = job_count + Cardinality(Pushed)

IInv == TypeOK /\ LockInv /\ CountInv

(* Only finitely many calls are between push and increment.                *)
LEMMA PushedIsFinite == IsFiniteSet(Pushed) /\ Cardinality(Pushed) \in Nat
<1>1. IsFiniteSet(Pushed)
  BY StrandAssumption, FS_Subset DEF Pushed
<1>2. QED
  BY <1>1, FS_CardinalityType

(* A push adds its call to them.                                           *)
LEMMA PushedAdds ==
  ASSUME TypeOK, NEW p \in Producers, pc[p] # "pushed", Goto(p, "pushed")
  PROVE  Cardinality(Pushed') = Cardinality(Pushed) + 1
<1>1. Pushed' = Pushed \cup {p} /\ p \notin Pushed
  BY DEF Goto, Pushed, TypeOK, Threads
<1>2. QED
  BY <1>1, PushedIsFinite, FS_AddElement

(* The increment of job_count takes its call out.                          *)
LEMMA PushedRemoves ==
  ASSUME TypeOK, NEW p \in Producers, pc[p] = "pushed", NEW l, l # "pushed", Goto(p, l)
  PROVE  Cardinality(Pushed') = Cardinality(Pushed) - 1
<1>1. Pushed' = Pushed \ {p} /\ p \in Pushed
  BY DEF Goto, Pushed, TypeOK, Threads
<1>2. QED
  BY <1>1, PushedIsFinite, FS_RemoveElement

(* No other step changes them.                                             *)
LEMMA PushedStays ==
  ASSUME TypeOK, NEW x \in Threads, pc[x] # "pushed", NEW l, l # "pushed", Goto(x, l)
  PROVE  Cardinality(Pushed') = Cardinality(Pushed)
<1>1. Pushed' = Pushed
  BY DEF Goto, Pushed, TypeOK, Threads
<1>2. QED
  BY <1>1

-----------------------------------------------------------------------------
(* The initial state satisfies the invariant.                              *)
LEMMA InitIInv == Init => IInv
<1> SUFFICES ASSUME Init PROVE IInv
  OBVIOUS
<1>1. Pushed = {} /\ Cardinality(Pushed) = 0
  BY FS_EmptySet DEF Init, Pushed, Threads
<1>2. TypeOK
  BY StrandAssumption DEF Init, TypeOK, Threads
<1>3. LockInv
  BY DEF Init, LockInv, Holding
<1>4. CountInv
  BY <1>1 DEF Init, CountInv
<1>5. QED
  BY <1>2, <1>3, <1>4 DEF IInv

(* Every step preserves the types.                                         *)
LEMMA StepTypeOK == IInv /\ [Next]_vars => TypeOK'
<1> SUFFICES ASSUME IInv, [Next]_vars PROVE TypeOK'
  OBVIOUS
<1> USE StrandAssumption DEF IInv, TypeOK, Goto, Threads
<1>1. ASSUME NEW p \in Producers, Push(p) PROVE TypeOK'
  <2>1. <<p, calls[p] + 1>> \in Tasks
    BY <1>1 DEF Push, Tasks
  <2>2. queue' \in Seq(Tasks) /\ Len(queue') <= QueueSize
    BY <1>1, <2>1 DEF Push
  <2>3. QED
    BY <1>1, <2>2 DEF Push
<1>2. ASSUME NEW p \in Producers, PushFails(p) PROVE TypeOK'
  BY <1>2 DEF PushFails
<1>3. ASSUME NEW p \in Producers, Acquire(p) PROVE TypeOK'
  BY <1>3 DEF Acquire
<1>4. ASSUME NEW p \in Producers, pc[p] # "idle" PROVE Current(p) \in Tasks
  BY <1>4 DEF Current, Tasks
<1>5. ASSUME NEW p \in Producers, JoinHolder(p) PROVE TypeOK'
  BY <1>4, <1>5 DEF JoinHolder
<1>6. ASSUME NEW p \in Producers, Dispatch(p) PROVE TypeOK'
  BY <1>4, <1>6 DEF Dispatch
<1>7. ASSUME NEW p \in Producers, DispatchFails(p) PROVE TypeOK'
  BY <1>7 DEF DispatchFails
<1>8. ASSUME NEW w \in Workers, StartJob(w) PROVE TypeOK'
  BY <1>8 DEF StartJob
<1>9. ASSUME NEW x \in Threads, LoadCount(x) PROVE TypeOK'
  BY <1>9 DEF LoadCount
<1>10. ASSUME NEW x \in Threads, Pop(x) PROVE TypeOK'
  <2>1. /\ Head(queue) \in Tasks
        /\ queue' \in Seq(Tasks) /\ Len(queue') <= QueueSize
    BY <1>10 DEF Pop
  <2>2. ran' \subseteq Tasks /\ discarded' \subseteq Tasks
    BY <1>10, <2>1 DEF Pop
  <2>3. QED
    BY <1>10, <2>1, <2>2 DEF Pop
<1>11. ASSUME NEW x \in Threads, Subtract(x) PROVE TypeOK'
  <2>1. job_count - run_count[x] \in Nat
    BY <1>11 DEF Subtract, LockInv
  <2>2. QED
    BY <1>11, <2>1 DEF Subtract
<1>12. CASE UNCHANGED vars
  BY <1>12 DEF vars
<1>13. QED
  BY <1>1, <1>2, <1>3, <1>5, <1>6, <1>7, <1>8, <1>9, <1>10, <1>11, <1>12
     DEF Next, Call, Drain

(* Every step preserves the ownership of the strand.                       *)
LEMMA StepLockInv == IInv /\ [Next]_vars => LockInv'
<1> SUFFICES ASSUME IInv, [Next]_vars PROVE LockInv'
  OBVIOUS
<1> USE DEF IInv, TypeOK, LockInv, Goto, Holding, Threads
<1>1. ASSUME NEW p \in Producers, Push(p) PROVE LockInv'
  BY <1>1 DEF Push
<1>2. ASSUME NEW p \in Producers, PushFails(p) PROVE LockInv'
  BY <1>2 DEF PushFails
<1>3. ASSUME NEW p \in Producers, Acquire(p) PROVE LockInv'
  BY <1>3 DEF Acquire
<1>5. ASSUME NEW p \in Producers, JoinHolder(p) PROVE LockInv'
  BY <1>5 DEF JoinHolder
<1>6. ASSUME NEW p \in Producers, Dispatch(p) PROVE LockInv'
  BY <1>6 DEF Dispatch
<1>7. ASSUME NEW p \in Producers, DispatchFails(p) PROVE LockInv'
  BY <1>7 DEF DispatchFails
<1>8. ASSUME NEW w \in Workers, StartJob(w) PROVE LockInv'
  BY <1>8 DEF StartJob
<1>9. ASSUME NEW x \in Threads, LoadCount(x) PROVE LockInv'
  BY <1>9 DEF LoadCount
<1>10. ASSUME NEW x \in Threads, Pop(x) PROVE LockInv'
  BY <1>10 DEF Pop
<1>11. ASSUME NEW x \in Threads, Subtract(x) PROVE LockInv'
  BY <1>11 DEF Subtract
<1>12. CASE UNCHANGED vars
  BY <1>12 DEF vars
<1>13. QED
  BY <1>1, <1>2, <1>3, <1>5, <1>6, <1>7, <1>8, <1>9, <1>10, <1>11, <1>12
     DEF Next, Call, Drain

(* Every step preserves the balance between queue and counter.             *)
LEMMA StepCountInv == IInv /\ [Next]_vars => CountInv'
<1> SUFFICES ASSUME IInv, [Next]_vars PROVE CountInv'
  OBVIOUS
<1> DEFINE n == Cardinality(Pushed)
<1>a. n \in Nat /\ Len(queue) \in Nat
  BY PushedIsFinite DEF IInv, TypeOK
<1>b. TypeOK
  BY DEF IInv
<1> USE DEF CountInv
<1>1. ASSUME NEW p \in Producers, Push(p) PROVE CountInv'
  <2>1. Cardinality(Pushed') = n + 1
    BY <1>1, <1>b, PushedAdds DEF Push
  <2>2. Len(queue') = Len(queue) + 1
    BY <1>1 DEF Push, IInv, TypeOK
  <2>3. /\ \A y \in Threads : pc'[y] = "loop" <=> pc[y] = "loop"
        /\ UNCHANGED <<job_count, run_count>>
    BY <1>1 DEF Push, Goto, IInv, TypeOK, Threads
  <2>4. job_count \in Nat /\ run_count \in [Threads -> Nat]
    BY DEF IInv, TypeOK
  <2>5. CountInv
    BY DEF IInv
  <2>6. ASSUME \A y \in Threads : pc'[y] # "loop"
        PROVE  Len(queue') = job_count' + Cardinality(Pushed')
    <3>1. Len(queue) = job_count + n
      BY <2>3, <2>5, <2>6
    <3>2. QED
      BY <3>1, <1>a, <2>1, <2>2, <2>3, <2>4
  <2>7. ASSUME NEW y \in Threads, pc'[y] = "loop"
        PROVE  Len(queue') + run_count'[y] = job_count' + Cardinality(Pushed')
    <3>1. Len(queue) + run_count[y] = job_count + n
      BY <2>3, <2>5, <2>7
    <3>2. run_count[y] \in Nat /\ run_count'[y] = run_count[y]
      BY <2>3, <2>4
    <3>3. QED
      BY <3>1, <3>2, <1>a, <2>1, <2>2, <2>3, <2>4
  <2>8. QED
    BY <2>6, <2>7
<1>2. ASSUME NEW p \in Producers, PushFails(p) PROVE CountInv'
  BY <1>2 DEF PushFails, IInv, Pushed
<1>3. ASSUME NEW p \in Producers, Acquire(p) PROVE CountInv'
  <2>1. Cardinality(Pushed') = n - 1
    BY <1>3, <1>b, PushedRemoves DEF Acquire
  <2>2. QED
    BY <1>3, <1>a, <2>1 DEF Acquire, Goto, IInv, TypeOK, Threads
<1>4. ASSUME NEW p \in Producers, JoinHolder(p) PROVE CountInv'
  <2>1. Cardinality(Pushed') = n - 1
    BY <1>4, <1>b, PushedRemoves DEF JoinHolder
  <2>2. QED
    BY <1>4, <1>a, <2>1 DEF JoinHolder, Goto, IInv, TypeOK, Threads
<1>5. ASSUME NEW p \in Producers, Dispatch(p) \/ DispatchFails(p) PROVE CountInv'
  <2>1. Cardinality(Pushed') = n
    BY <1>5, <1>b, PushedStays DEF Dispatch, DispatchFails, Threads
  <2>2. QED
    BY <1>5, <2>1 DEF Dispatch, DispatchFails, Goto, IInv, TypeOK, Threads
<1>6. ASSUME NEW w \in Workers, StartJob(w) PROVE CountInv'
  <2>1. Cardinality(Pushed') = n
    BY <1>6, <1>b, PushedStays DEF StartJob, Threads
  <2>2. QED
    BY <1>6, <2>1 DEF StartJob, Goto, IInv, TypeOK, Threads
<1>7. ASSUME NEW x \in Threads, LoadCount(x) PROVE CountInv'
  <2>1. Cardinality(Pushed') = n
    BY <1>7, <1>b, PushedStays DEF LoadCount
  <2>2. \A y \in Threads : pc[y] # "loop"
    BY <1>7 DEF LoadCount, IInv, LockInv, Holding
  <2>3. QED
    BY <1>7, <1>a, <2>1, <2>2 DEF LoadCount, Goto, IInv, TypeOK
<1>8. ASSUME NEW x \in Threads, Pop(x) PROVE CountInv'
  <2>1. Pushed' = Pushed
    BY <1>8 DEF Pop, Pushed
  <2>2. Len(queue') = Len(queue) - 1
    BY <1>8 DEF Pop, IInv, TypeOK
  <2>3. \A y \in Threads : pc[y] = "loop" => y = x
    BY <1>8 DEF Pop, IInv, LockInv, Holding
  <2>4. /\ pc[x] = "loop" /\ UNCHANGED <<job_count, pc>>
        /\ run_count'[x] = run_count[x] + 1
        /\ job_count \in Nat /\ run_count[x] \in Nat
    BY <1>8 DEF Pop, IInv, TypeOK
  <2>5. Len(queue) + run_count[x] = job_count + n
    BY <2>4 DEF IInv
  <2>6. Len(queue') + run_count'[x] = job_count' + Cardinality(Pushed')
    BY <1>a, <2>1, <2>2, <2>4, <2>5
  <2>7. QED
    BY <2>3, <2>4, <2>6
<1>9. ASSUME NEW x \in Threads, Subtract(x) PROVE CountInv'
  <2>1. Cardinality(Pushed') = n
    BY <1>9, <1>b, PushedStays DEF Subtract
  <2>2. \A y \in Threads : pc[y] = "loop" => y = x
    BY <1>9 DEF Subtract, IInv, LockInv, Holding
  <2>3. /\ pc[x] = "loop"
        /\ job_count' = job_count - run_count[x]
        /\ run_count'[x] = 0
        /\ pc' = [pc EXCEPT ![x] = IF job_count = run_count[x] THEN "idle" ELSE "loop"]
        /\ queue' = queue
        /\ job_count \in Nat /\ run_count[x] \in Nat
        /\ pc \in [Threads -> {"idle", "pushed", "acquired", "load", "loop"}]
    BY <1>9 DEF Subtract, Goto, IInv, TypeOK
  <2>4. Len(queue) + run_count[x] = job_count + n
    BY <2>3 DEF IInv
  <2>5. Len(queue') = job_count' + Cardinality(Pushed')
    BY <1>a, <2>1, <2>3, <2>4
  <2>6. \A y \in Threads : pc'[y] = "loop" => y = x
    BY <2>2, <2>3
  <2>7. Len(queue') \in Nat
    BY <1>a, <2>3
  <2>8. QED
    BY <2>3, <2>5, <2>6, <2>7
<1>10. CASE UNCHANGED vars
  BY <1>10 DEF vars, IInv, Pushed
<1>11. QED
  BY <1>1, <1>2, <1>3, <1>4, <1>5, <1>6, <1>7, <1>8, <1>9, <1>10 DEF Next, Call, Drain

(* The invariant holds in every reachable state.                           *)
LEMMA SpecIInv == Spec => []IInv
<1>1. IInv /\ [Next]_vars => IInv'
  BY StepTypeOK, StepLockInv, StepCountInv DEF IInv
<1>2. QED
  BY <1>1, InitIInv, PTL DEF Spec

-----------------------------------------------------------------------------
(* The strand is type correct; in particular fetch_sub never takes more    *)
(* from job_count than it holds and the queue stays within its capacity.   *)
THEOREM TypeCorrect == Spec => []TypeOK
<1>1. IInv => TypeOK
  BY DEF IInv
<1>2. QED
  BY <1>1, SpecIInv, PTL

(* Tasks of a strand never run concurrently, however many threads call it  *)
(* and however many workers the wrapped executor has, and also not while   *)
(* a call whose dispatch failed discards the queue.                        *)
THEOREM MutualExclusionHolds == Spec => []MutualExclusion
<1>1. IInv => MutualExclusion
  BY DEF IInv, LockInv, MutualExclusion, Draining, Holding
<1>2. QED
  BY <1>1, SpecIInv, PTL

(* A counted task always has somebody in charge of it: no wakeup is lost.  *)
THEOREM CountedIsServedHolds == Spec => []CountedIsServed
<1>1. IInv => CountedIsServed
  BY DEF IInv, LockInv, CountedIsServed, TypeOK
<1>2. QED
  BY <1>1, SpecIInv, PTL

(* The drain loops always find the task they were promised.                *)
THEOREM PopFindsTaskHolds == Spec => []PopFindsTask
<1>1. IInv => PopFindsTask
  <2> SUFFICES ASSUME IInv, NEW x \in Threads, pc[x] = "loop",
                      run_count[x] # queue_size[x]
               PROVE  queue # << >>
    BY DEF PopFindsTask
  <2>1. /\ run_count[x] <= queue_size[x] /\ queue_size[x] <= job_count
        /\ Len(queue) + run_count[x] = job_count + Cardinality(Pushed)
        /\ run_count[x] \in Nat /\ queue_size[x] \in Nat /\ job_count \in Nat
        /\ Len(queue) \in Nat
    BY DEF IInv, LockInv, CountInv, TypeOK
  <2>2. Len(queue) > 0
    BY <2>1, PushedIsFinite
  <2>3. QED
    BY <2>2
<1>2. QED
  BY <1>1, SpecIInv, PTL
-----------------------------------------------------------------------------
(* A call that has pushed its task and not returned has it in the queue,   *)
(* unless a thread that drains the queue was faster.                       *)
Owed(t) == InQueue(t) \/ t \in ran \/ t \in discarded

(* The tasks in the queue are distinct, no task exists whose call was not  *)
(* made, and a task that was pushed is in one place.                       *)
OnceInv ==
  /\ \A i, j \in DOMAIN queue : queue[i] = queue[j] => i = j
  /\ \A t \in Tasks : Owed(t) => t[2] <= calls[t[1]]
  /\ \A p \in Producers : pc[p] \in {"pushed", "acquired"} => Owed(Current(p))
  /\ EachTaskOnce

(* What an append to the queue and the removal of its head do to it.       *)
LEMMA QueueAppended ==
  ASSUME queue \in Seq(Tasks), NEW u \in Tasks, queue' = Append(queue, u)
  PROVE  /\ DOMAIN queue' = DOMAIN queue \cup {Len(queue) + 1}
         /\ Len(queue) + 1 \notin DOMAIN queue
         /\ \A i \in DOMAIN queue : queue'[i] = queue[i]
         /\ queue'[Len(queue) + 1] = u
  OBVIOUS

LEMMA QueueShortened ==
  ASSUME queue \in Seq(Tasks), queue # << >>, queue' = Tail(queue)
  PROVE  /\ Head(queue) = queue[1] /\ Head(queue) \in Tasks
         /\ 1 \in DOMAIN queue
         /\ \A i \in DOMAIN queue' : i + 1 \in DOMAIN queue /\ i + 1 # 1
                                     /\ queue'[i] = queue[i + 1] /\ i \in Int
         /\ \A i \in DOMAIN queue : i # 1 =>
              i \in Int /\ i - 1 \in DOMAIN queue' /\ queue'[i - 1] = queue[i]
  OBVIOUS

(* A task of a call that was not made is nowhere.                          *)
LEMMA NewTaskIsNowhere ==
  ASSUME TypeOK, OnceInv, NEW p \in Producers, calls[p] < MaxTasks
  PROVE  /\ <<p, calls[p] + 1>> \in Tasks
         /\ ~Owed(<<p, calls[p] + 1>>)
<1> DEFINE u == <<p, calls[p] + 1>>
<1>1. u \in Tasks /\ u[1] = p /\ u[2] = calls[p] + 1 /\ calls[p] \in Nat
  BY StrandAssumption DEF TypeOK, Tasks
<1>2. ~(u[2] <= calls[u[1]])
  BY <1>1
<1>3. QED
  BY <1>1, <1>2 DEF OnceInv

(* Steps that move no task preserve OnceInv.                               *)
LEMMA NothingMoves ==
  ASSUME TypeOK, OnceInv, UNCHANGED <<queue, ran, discarded>>,
         accepted' \subseteq accepted \cup {t \in Tasks : Owed(t)},
         \A t \in Tasks : Owed(t) => t[2] <= calls'[t[1]],
         \A p \in Producers : pc'[p] \in {"pushed", "acquired"} => Owed(Current(p)')
  PROVE  OnceInv'
<1>1. \A t : Owed(t)' <=> Owed(t)
  BY DEF Owed, InQueue
<1>2. EachTaskOnce'
  BY DEF OnceInv, EachTaskOnce, Owed, InQueue
<1>3. QED
  BY <1>1, <1>2 DEF OnceInv

(* Every step preserves OnceInv.                                           *)
LEMMA StepOnceInv == IInv /\ OnceInv /\ [Next]_vars => OnceInv'
<1> SUFFICES ASSUME IInv, OnceInv, [Next]_vars PROVE OnceInv'
  OBVIOUS
<1>a. TypeOK
  BY DEF IInv
<1>b. /\ pc \in [Threads -> {"idle", "pushed", "acquired", "load", "loop"}]
      /\ calls \in [Producers -> 0..MaxTasks] /\ queue \in Seq(Tasks)
      /\ Producers \subseteq Threads
  BY <1>a DEF TypeOK, Threads
<1>c. \A t \in Tasks : t[1] \in Producers /\ t[2] \in Nat
  BY DEF Tasks
<1>1. ASSUME NEW p \in Producers, Push(p) PROVE OnceInv'
  <2> DEFINE u == <<p, calls[p] + 1>>
             n == Len(queue) + 1
  <2>1. u \in Tasks /\ ~Owed(u)
    BY <1>1, <1>a, NewTaskIsNowhere DEF Push
  <2>2. /\ queue' = Append(queue, u) /\ UNCHANGED <<accepted, ran, discarded>>
        /\ calls' = [calls EXCEPT ![p] = @ + 1]
        /\ pc' = [pc EXCEPT ![p] = "pushed"]
    BY <1>1 DEF Push, Goto
  <2> HIDE DEF u, n
  <2>3. /\ DOMAIN queue' = DOMAIN queue \cup {n} /\ n \notin DOMAIN queue
        /\ \A i \in DOMAIN queue : queue'[i] = queue[i]
        /\ queue'[n] = u
    BY <2>1, <2>2, <1>b, QueueAppended DEF n
  <2>4. \A t : Owed(t)' <=> Owed(t) \/ t = u
    BY <2>2, <2>3 DEF Owed, InQueue
  <2>5. \A i, j \in DOMAIN queue' : queue'[i] = queue'[j] => i = j
    BY <2>1, <2>3 DEF OnceInv, Owed, InQueue
  <2>6. /\ \A q \in Producers : calls[q] \in Nat /\ calls[q] <= calls'[q]
        /\ calls'[p] = calls[p] + 1
        /\ \A q \in Producers : q # p => calls'[q] = calls[q]
    BY <2>2, <1>b
  <2>7. \A t \in Tasks : Owed(t) => t[2] <= calls'[t[1]]
    BY <2>6, <1>c DEF OnceInv
  <2>8. u[2] <= calls'[u[1]]
    BY <2>6 DEF u
  <2>9. \A t \in Tasks : Owed(t)' => t[2] <= calls'[t[1]]
    BY <2>4, <2>7, <2>8
  <2>10. ASSUME NEW q \in Producers, pc'[q] \in {"pushed", "acquired"}
         PROVE  Owed(Current(q))'
    <3>1. CASE q = p
      BY <3>1, <2>4, <2>6 DEF Current, u
    <3>2. CASE q # p
      <4>1. Current(q)' = Current(q)
        BY <3>2, <2>6 DEF Current
      <4>2. Owed(Current(q))
        BY <3>2, <2>2, <2>10, <1>b DEF OnceInv
      <4>3. QED
        BY <4>1, <4>2, <2>2, <2>3 DEF Owed, InQueue
    <3>3. QED
      BY <3>1, <3>2
  <2>11. EachTaskOnce'
    <3>1. EachTaskOnce
      BY DEF OnceInv
    <3>2. \A i \in DOMAIN queue' : queue'[i] \notin ran \cup discarded
      BY <3>1, <2>1, <2>3 DEF EachTaskOnce, Owed
    <3>3. \A t : InQueue(t) => InQueue(t)'
      BY <2>3 DEF InQueue
    <3>4. QED
      BY <3>1, <3>2, <3>3, <2>2 DEF EachTaskOnce
  <2>12. QED
    BY <2>5, <2>9, <2>10, <2>11 DEF OnceInv
<1>2. ASSUME NEW p \in Producers, PushFails(p) PROVE OnceInv'
  <2>1. /\ UNCHANGED <<queue, pc, accepted, ran, discarded>> /\ pc[p] = "idle"
        /\ calls' = [calls EXCEPT ![p] = @ + 1]
    BY <1>2 DEF PushFails
  <2>2. /\ \A q \in Producers : /\ calls[q] \in Nat /\ calls'[q] \in Nat
                                /\ calls[q] <= calls'[q]
        /\ \A q \in Producers : q # p => calls'[q] = calls[q]
    BY <2>1, <1>b
  <2>3. ASSUME NEW t \in Tasks, Owed(t) PROVE t[2] <= calls'[t[1]]
    <3>1. t[2] <= calls[t[1]] /\ t[1] \in Producers /\ t[2] \in Nat
      BY <2>3, <1>c DEF OnceInv
    <3>2. calls[t[1]] \in Nat /\ calls'[t[1]] \in Nat /\ calls[t[1]] <= calls'[t[1]]
      BY <3>1, <2>2
    <3>3. QED
      BY <3>1, <3>2
  <2>4. \A q \in Producers : pc'[q] \in {"pushed", "acquired"} => Owed(Current(q)')
    BY <2>1, <2>2 DEF OnceInv, Current
  <2>5. QED
    BY <1>a, <2>1, <2>3, <2>4, NothingMoves
<1>3. ASSUME NEW p \in Producers,
             Acquire(p) \/ JoinHolder(p) \/ Dispatch(p) \/ DispatchFails(p)
      PROVE  OnceInv'
  <2>1. /\ UNCHANGED <<queue, calls, ran, discarded>>
        /\ pc[p] \in {"pushed", "acquired"}
        /\ accepted' = accepted \/ accepted' = accepted \cup {Current(p)}
        /\ \A q \in Producers : pc'[q] \in {"pushed", "acquired"} =>
              pc[q] \in {"pushed", "acquired"}
    BY <1>3, <1>b DEF Acquire, JoinHolder, Dispatch, DispatchFails, Goto
  <2>2. Current(p) \in Tasks
    BY <2>1, <1>a DEF Current, Tasks, TypeOK
  <2>3. Owed(Current(p))
    BY <2>1 DEF OnceInv
  <2>4. \A q \in Producers : pc'[q] \in {"pushed", "acquired"} => Owed(Current(q)')
    BY <2>1 DEF OnceInv, Current
  <2>5. \A t \in Tasks : Owed(t) => t[2] <= calls'[t[1]]
    BY <2>1 DEF OnceInv
  <2>6. accepted' \subseteq accepted \cup {t \in Tasks : Owed(t)}
    BY <2>1, <2>2, <2>3
  <2>7. QED
    BY <1>a, <2>1, <2>4, <2>5, <2>6, NothingMoves
<1>4. ASSUME NEW x \in Threads, StartJob(x) \/ LoadCount(x) \/ Subtract(x)
      PROVE  OnceInv'
  <2>1. /\ UNCHANGED <<queue, calls, accepted, ran, discarded>>
        /\ \A q \in Producers : pc'[q] \in {"pushed", "acquired"} => pc'[q] = pc[q]
    BY <1>4, <1>b DEF StartJob, LoadCount, Subtract, Goto
  <2>2. \A q \in Producers : pc'[q] \in {"pushed", "acquired"} => Owed(Current(q)')
    BY <2>1 DEF OnceInv, Current
  <2>3. \A t \in Tasks : Owed(t) => t[2] <= calls'[t[1]]
    BY <2>1 DEF OnceInv
  <2>4. QED
    BY <1>a, <2>1, <2>2, <2>3, NothingMoves
<1>5. ASSUME NEW x \in Threads, Pop(x) PROVE OnceInv'
  <2> DEFINE u == Head(queue)
  <2>1. /\ queue # << >> /\ queue' = Tail(queue)
        /\ UNCHANGED <<pc, calls, accepted>>
        /\ \/ ran' = ran \cup {u} /\ UNCHANGED discarded
           \/ discarded' = discarded \cup {u} /\ UNCHANGED ran
    BY <1>5 DEF Pop
  <2>2. /\ u = queue[1] /\ u \in Tasks /\ 1 \in DOMAIN queue
        /\ \A i \in DOMAIN queue' : i + 1 \in DOMAIN queue /\ i + 1 # 1
                                    /\ queue'[i] = queue[i + 1] /\ i \in Int
        /\ \A i \in DOMAIN queue : i # 1 =>
             i \in Int /\ i - 1 \in DOMAIN queue' /\ queue'[i - 1] = queue[i]
    BY <2>1, <1>b, QueueShortened
  <2> HIDE DEF u
  <2>3. \A i, j \in DOMAIN queue : queue[i] = queue[j] => i = j
    BY DEF OnceInv
  <2>4. \A i, j \in DOMAIN queue' : queue'[i] = queue'[j] => i = j
    <3> SUFFICES ASSUME NEW i \in DOMAIN queue', NEW j \in DOMAIN queue',
                        queue'[i] = queue'[j]
                 PROVE  i = j
      OBVIOUS
    <3>1. i + 1 = j + 1 /\ i \in Int /\ j \in Int
      BY <2>2, <2>3
    <3>2. QED
      BY <3>1
  <2>5. \A t : InQueue(t)' <=> InQueue(t) /\ t # u
    <3>1. ASSUME NEW t, InQueue(t)' PROVE InQueue(t) /\ t # u
      BY <3>1, <2>2, <2>3 DEF InQueue
    <3>2. ASSUME NEW t, InQueue(t), t # u PROVE InQueue(t)'
      BY <3>2, <2>2 DEF InQueue
    <3>3. QED
      BY <3>1, <3>2
  <2>6. InQueue(u)
    BY <2>2 DEF InQueue
  <2>7. \A t : Owed(t)' <=> Owed(t)
    BY <2>1, <2>5, <2>6 DEF Owed
  <2>8. u \notin ran \cup discarded
    BY <2>2 DEF OnceInv, EachTaskOnce
  <2>9. EachTaskOnce'
    <3>1. EachTaskOnce
      BY DEF OnceInv
    <3>2. ran' \cap discarded' = {}
      BY <3>1, <2>1, <2>8 DEF EachTaskOnce
    <3>3. \A t : InQueue(t) => t \notin ran \cup discarded
      BY <3>1 DEF EachTaskOnce, InQueue
    <3>4. \A t : InQueue(t)' => t \notin ran' \cup discarded'
      BY <3>3, <2>1, <2>5
    <3>5. \A i \in DOMAIN queue' : queue'[i] \notin ran' \cup discarded'
      BY <3>4 DEF InQueue
    <3>6. \A t \in accepted : Owed(t)
      BY <3>1 DEF EachTaskOnce, Owed
    <3>7. \A t \in accepted' : InQueue(t)' \/ t \in ran' \/ t \in discarded'
      BY <3>6, <2>1, <2>7 DEF Owed
    <3>8. QED
      BY <3>2, <3>5, <3>7 DEF EachTaskOnce
  <2>10. \A t \in Tasks : Owed(t)' => t[2] <= calls'[t[1]]
    BY <2>1, <2>7 DEF OnceInv
  <2>11. \A q \in Producers : pc'[q] \in {"pushed", "acquired"} => Owed(Current(q))'
    <3> SUFFICES ASSUME NEW q \in Producers, pc'[q] \in {"pushed", "acquired"}
                 PROVE  Owed(Current(q))'
      OBVIOUS
    <3>1. Owed(Current(q)) /\ Current(q)' = Current(q)
      BY <2>1 DEF OnceInv, Current
    <3>2. QED
      BY <3>1, <2>1, <2>5, <2>6 DEF Owed
  <2>12. QED
    BY <2>4, <2>9, <2>10, <2>11 DEF OnceInv
<1>6. CASE UNCHANGED vars
  BY <1>6 DEF vars, OnceInv, EachTaskOnce, Owed, InQueue, Current
<1>7. QED
  BY <1>1, <1>2, <1>3, <1>4, <1>5, <1>6 DEF Next, Call, Drain, Threads

(* A task is run at most once and never run as well as discarded, and no   *)
(* task whose call returned true disappears from the queue unrun.          *)
THEOREM EachTaskOnceHolds == Spec => []EachTaskOnce
<1>1. Init => OnceInv
  BY DEF Init, OnceInv, EachTaskOnce, Owed, InQueue, Tasks, Threads
<1>2. OnceInv => EachTaskOnce
  BY DEF OnceInv
<1>3. QED
  BY <1>1, <1>2, SpecIInv, StepOnceInv, PTL DEF Spec
=============================================================================
