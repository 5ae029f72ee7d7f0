---------------------------- MODULE TimersProofs ----------------------------
(***************************************************************************)
(* Proofs about Timers, for any set of timers, any durations up to half    *)
(* the range of the clock, any size of the wheel and any capacity of the   *)
(* executors.  The commands on their way to the back-end, in the batch of  *)
(* tick() and behind it in the shared list, are one queue; the invariant   *)
(* says how the ids in it order what the front-end, the queue, the         *)
(* back-end and the expiries know of a timer.                              *)
(***************************************************************************)
EXTENDS Timers, SequenceTheorems, FiniteSetTheorems, TLAPS

(* The commands on their way to the back-end, in the order in which it     *)
(* processes them.                                                         *)
Queue == batch \o pending
Commands == {Queue[i] : i \in DOMAIN Queue}

(* The commands of a timer are processed in the order of their ids.        *)
QueueInv ==
  \A i, j \in DOMAIN Queue :
    i < j /\ Queue[i].timer = Queue[j].timer => Queue[i].id < Queue[j].id

(* Where tick() is.                                                        *)
PhaseInv ==
  /\ batch # << >> => tick_pc = "cmds"
  /\ todo # {} => tick_pc = "expire"
  /\ \A t \in todo : be_state[t] = "running"

(* Between the back-end and the front-end of a timer the ids ascend: the   *)
(* back-end has adopted those of the commands it processed, the command    *)
(* that its owner is about to push has the latest one.                     *)
IdInv ==
  /\ \A t \in Timers : be_id[t] <= fe_id[t]
  /\ \A t \in Timers : op[t] # NoOp =>
        /\ op[t].timer = t /\ op[t].action # "create"
        /\ op[t].id = fe_id[t] /\ be_id[t] < fe_id[t]
  /\ \A c \in Commands :
        /\ c.id <= fe_id[c.timer]
        /\ op[c.timer] # NoOp => c.id < fe_id[c.timer]
        /\ c.action # "create" => be_id[c.timer] < c.id

(* A timer that the back-end does not know is unused, or the command that  *)
(* creates it is on its way, and is the first one about it.                *)
CreateInv ==
  /\ \A t \in Timers \ known : owned[t] \/ fe_id[t] > 0 =>
        \E c \in Commands : c.timer = t /\ c.action = "create"
  /\ \A c \in Commands : c.action = "create" =>
        /\ c.id = 0 /\ c.timer \notin known
        /\ owned[c.timer] \/ fe_id[c.timer] > 0

(* Nobody owns a timer that is being destroyed, and the command that does  *)
(* it is the last one about it.                                            *)
DestroyInv ==
  /\ \A t \in Timers : op[t].action = "destroy" => ~owned[t] /\ t \notin free
  /\ \A c \in Commands : c.action = "destroy" =>
        ~owned[c.timer] /\ c.timer \notin free /\ c.id = fe_id[c.timer]

(* A run that is current for the back-end, or will be, is current for the  *)
(* owner.                                                                  *)
RunInv ==
  /\ \A t \in Timers : fe_state[t] = "running" => owned[t]
  /\ \A t \in Timers : op[t].action = "start" => fe_state[t] = "running"
  /\ \A c \in Commands :
        c.action = "start" /\ c.id = fe_id[c.timer] => fe_state[c.timer] = "running"
  /\ \A t \in Timers :
        be_state[t] = "running" /\ be_id[t] = fe_id[t] => fe_state[t] = "running"

(* A run has at most one expiry, dispatched or postponed, and only once    *)
(* the back-end has stopped counting; while its id is the latest one the   *)
(* owner sees the timer running.                                           *)
ExpiryOk(e) ==
  /\ e.id <= be_id[e.timer]
  /\ e.id = be_id[e.timer] => be_state[e.timer] # "running"
  /\ e.id = fe_id[e.timer] => fe_state[e.timer] = "running"

ExpiryInv ==
  /\ \A e \in expiries : ExpiryOk(e)
  /\ \A i \in DOMAIN failed : ExpiryOk(failed[i]) /\ failed[i] \notin expiries
  /\ \A i, j \in DOMAIN failed : i # j => failed[i] # failed[j]

(* The executor of a timer is set while anybody may need it.               *)
ExecInv ==
  /\ \A t \in Timers :
        owned[t] \/ op[t] # NoOp \/ be_state[t] = "running" => has_exec[t]
  /\ \A c \in Commands : has_exec[c.timer]

(* A timer in the pool is at rest.                                         *)
FreeInv ==
  \A t \in free :
    /\ ~owned[t] /\ ~has_exec[t] /\ op[t] = NoOp /\ t \in known
    /\ fe_state[t] = "stopped" /\ be_state[t] # "running"
    /\ \A c \in Commands : c.timer # t

(* No duration is longer than half the range of the clock; timeout is the  *)
(* end of the run modulo that range, and a run that has no ticks left is   *)
(* in the bucket that tick() is visiting.                                  *)
MaxDuration == (TimeMod - 1) \div 2

DurationInv ==
  /\ \A t \in Timers : duration[t] <= MaxDuration
  /\ \A t \in Timers : op[t] # NoOp => op[t].dur <= MaxDuration
  /\ \A c \in Commands : c.dur <= MaxDuration

TimeInv ==
  /\ cur_time < TimeMod
  /\ \A t \in Timers :
        /\ be_state[t] = "expired" => left[t] = 0
        /\ be_state[t] = "running" =>
             /\ timeout[t] = (cur_time + left[t]) % TimeMod
             /\ left[t] <= TimeMod /\ (tick_pc = "expire" => left[t] < TimeMod)
             /\ left[t] > 0 \/ t \in todo

(* NoLostTimeout without the place of the start command.                   *)
TimeoutInv ==
  \A t \in Timers : fe_state[t] = "running" =>
    \/ op[t] = Cmd(t, fe_id[t], "start", duration[t])
    \/ \E c \in Commands : c.timer = t /\ c.id = fe_id[t] /\ c.action = "start"
    \/ /\ be_id[t] = fe_id[t]
       /\ \/ be_state[t] = "running"
          \/ Expiry(t, fe_id[t]) \in expiries
          \/ \E i \in DOMAIN failed : failed[i] = Expiry(t, fe_id[t])

IInv ==
  /\ TypeOK /\ QueueInv /\ PhaseInv /\ IdInv /\ CreateInv /\ DestroyInv /\ RunInv
  /\ ExpiryInv /\ ExecInv /\ FreeInv /\ DurationInv /\ TimeInv /\ TimeoutInv

-----------------------------------------------------------------------------
(* Arithmetic of the clock.                                                *)

(* The end of a run stays the same when a tick passes.                     *)
LEMMA TickKeepsEnd ==
  ASSUME NEW m \in Nat \ {0}, NEW now \in 0..(m - 1), NEW n \in 1..m
  PROVE  (now + n) % m = (((now + 1) % m) + (n - 1)) % m
<1> DEFINE next == (now + 1) % m
<1>1. now \in Nat /\ n \in Nat /\ now + n \in Nat /\ now + n < 2 * m /\ now + 1 \in Nat /\ now + 1 < 2 * m
  OBVIOUS
<1>2. now + n < m => (now + n) % m = now + n
  BY <1>1
<1>3. now + n >= m => (now + n) % m = now + n - m
  BY <1>1
<1>4. next = IF now + 1 < m THEN now + 1 ELSE 0
  BY <1>1
<1>5. next + (n - 1) \in Nat /\ next + (n - 1) < 2 * m
  BY <1>1, <1>4
<1> DEFINE sum == next + (n - 1)
<1> HIDE DEF next, sum
<1>6. sum \in Nat /\ sum < 2 * m /\ sum = next + (n - 1)
  BY <1>5 DEF sum
<1>7. sum < m => sum % m = sum
  BY <1>6
<1>8. sum >= m => sum % m = sum - m
  BY <1>6
<1>9. (now + n) % m = sum % m
  BY <1>1, <1>2, <1>3, <1>4, <1>6, <1>7, <1>8
<1>10. QED
  BY <1>9 DEF next, sum

(* The clock shows the end of a run only when there are no ticks left.     *)
LEMMA EndIsNow ==
  ASSUME NEW m \in Nat \ {0}, NEW now \in 0..(m - 1), NEW n \in 0..(m - 1)
  PROVE  (now + n) % m = now <=> n = 0
<1>1. now \in Nat /\ n \in Nat /\ now + n \in Nat /\ now + n < 2 * m
  OBVIOUS
<1>2. now + n < m => (now + n) % m = now + n
  BY <1>1
<1>3. now + n >= m => (now + n) % m = now + n - m
  BY <1>1
<1>4. QED
  BY <1>1, <1>2, <1>3

-----------------------------------------------------------------------------
(* The queue of commands.                                                  *)

(* The fields of a command, of no command and of an expiry.                *)
LEMMA Fields ==
  /\ \A t, id, a, d :
       LET c == Cmd(t, id, a, d)
       IN  c.timer = t /\ c.id = id /\ c.action = a /\ c.dur = d
  /\ NoOp.action = "none"
  /\ \A t, id : Expiry(t, id).timer = t /\ Expiry(t, id).id = id
  BY DEF Cmd, NoOp, Expiry

(* It holds commands.                                                      *)
LEMMA CommandsType ==
  ASSUME TypeOK
  PROVE  /\ Queue \in Seq(Cmds) /\ Commands \subseteq Cmds
         /\ \A c \in Cmds : c.timer \in Timers /\ c.id \in Nat /\ c.dur \in Nat
<1>1. Queue \in Seq(Cmds)
  BY DEF TypeOK, Queue
<1>2. Commands \subseteq Cmds
  BY <1>1 DEF Commands
<1>3. QED
  BY <1>1, <1>2 DEF Cmds

(* A step that touches neither list leaves it alone.                       *)
LEMMA QueueStays ==
  ASSUME UNCHANGED <<batch, pending>>
  PROVE  Queue' = Queue /\ Commands' = Commands
  BY DEF Queue, Commands

(* So does the beginning of tick(), which moves one list to the other.     *)
LEMMA QueueBegins ==
  ASSUME IInv, TickBegin
  PROVE  Queue' = Queue /\ Commands' = Commands
<1>1. batch = << >> /\ batch' = pending /\ pending' = << >>
  BY DEF IInv, PhaseInv, TickBegin
<1>2. Queue' = Queue
  BY <1>1 DEF IInv, Queue, TypeOK
<1>3. QED
  BY <1>2 DEF Commands

(* A push adds a command, which is the last one of its timer if its id is  *)
(* the highest.                                                            *)
LEMMA QueueGrows ==
  ASSUME TypeOK, QueueInv, NEW c \in Cmds,
         pending' = Append(pending, c), batch' = batch,
         \A d \in Commands : d.timer = c.timer => d.id < c.id
  PROVE  Commands' = Commands \cup {c} /\ QueueInv'
<1>1. Queue \in Seq(Cmds) /\ Len(Queue) \in Nat
  BY CommandsType
<1>2. Queue' = Append(Queue, c)
  BY DEF Queue, TypeOK
<1>3. /\ DOMAIN Queue = 1..Len(Queue) /\ DOMAIN Queue' = 1..(Len(Queue) + 1)
      /\ \A i \in 1..Len(Queue) : Queue'[i] = Queue[i]
      /\ Queue'[Len(Queue) + 1] = c
  BY <1>1, <1>2
<1>4. Commands' = Commands \cup {c}
  BY <1>1, <1>3 DEF Commands
<1>5. ASSUME NEW i \in DOMAIN Queue', NEW j \in DOMAIN Queue', i < j,
             Queue'[i].timer = Queue'[j].timer
      PROVE  Queue'[i].id < Queue'[j].id
  <2>1. i \in 1..Len(Queue) /\ Queue'[i] = Queue[i]
    BY <1>1, <1>3, <1>5
  <2>2. CASE j = Len(Queue) + 1
    BY <1>3, <1>5, <2>1, <2>2 DEF Commands
  <2>3. CASE j \in 1..Len(Queue)
    BY <1>3, <1>5, <2>1, <2>3 DEF QueueInv
  <2>4. QED
    BY <1>1, <1>3, <2>2, <2>3
<1>6. QED
  BY <1>4, <1>5 DEF QueueInv

(* tick() takes the first command, after which come only later ones of the *)
(* same timer.                                                             *)
LEMMA QueueShrinks ==
  ASSUME TypeOK, QueueInv, TickCommand
  PROVE  /\ Head(batch) \in Commands /\ Commands' = Commands \ {Head(batch)}
         /\ \A d \in Commands' : d.timer = Head(batch).timer => Head(batch).id < d.id
         /\ QueueInv'
<1> DEFINE c == Head(batch)
<1>1. batch # << >> /\ batch' = Tail(batch) /\ pending' = pending
  BY DEF TickCommand
<1>2. Queue' = Tail(Queue) /\ Queue # << >> /\ Head(Queue) = c
  BY <1>1 DEF TypeOK, Queue
<1>3. Queue \in Seq(Cmds) /\ Len(Queue) \in Nat
  BY CommandsType
<1>4. /\ Len(Queue) > 0
      /\ DOMAIN Queue = 1..Len(Queue) /\ DOMAIN Queue' = 1..(Len(Queue) - 1)
      /\ \A i \in 1..(Len(Queue) - 1) : Queue'[i] = Queue[i + 1]
      /\ Queue[1] = c
  BY <1>2, <1>3
<1>5. \A i \in 1..(Len(Queue) - 1) : i + 1 \in 1..Len(Queue) /\ 1 < i + 1
  BY <1>3, <1>4
<1>6. ASSUME NEW d \in Commands'
      PROVE  d \in Commands /\ (d.timer = c.timer => c.id < d.id)
  <2>1. PICK i \in 1..(Len(Queue) - 1) : d = Queue'[i]
    BY <1>4 DEF Commands
  <2>2. d = Queue[i + 1] /\ i + 1 \in DOMAIN Queue /\ 1 < i + 1 /\ 1 \in DOMAIN Queue
    BY <1>3, <1>4, <1>5, <2>1
  <2>3. QED
    BY <1>4, <2>2 DEF Commands, QueueInv
<1>7. \A i \in 1..Len(Queue) : i = 1 \/ i - 1 \in 1..(Len(Queue) - 1)
  BY <1>3, <1>4
<1>8. \A d \in Commands : d = c \/ d \in Commands'
  <2> SUFFICES ASSUME NEW i \in 1..Len(Queue), i # 1 PROVE Queue[i] \in Commands'
    BY <1>4 DEF Commands
  <2>1. i - 1 \in 1..(Len(Queue) - 1) /\ Queue'[i - 1] = Queue[i]
    BY <1>3, <1>4, <1>7
  <2>2. QED
    BY <1>4, <2>1 DEF Commands
<1>9. c \in Commands /\ c.id \in Nat
  BY <1>3, <1>4, CommandsType DEF Commands
<1>10. c \notin Commands'
  BY <1>6, <1>9
<1>11. QueueInv'
  <2> SUFFICES ASSUME NEW i \in 1..(Len(Queue) - 1), NEW j \in 1..(Len(Queue) - 1),
                      i < j, Queue'[i].timer = Queue'[j].timer
               PROVE  Queue'[i].id < Queue'[j].id
    BY <1>4 DEF QueueInv
  <2>1. i + 1 < j + 1
    BY <1>3
  <2>2. QED
    BY <1>4, <1>5, <2>1 DEF QueueInv
<1>12. QED
  BY <1>6, <1>8, <1>9, <1>10, <1>11

(* A timer that is about to be created is unused: there is no command      *)
(* about it, and the one that creates it becomes the first.                *)
LEMMA NewIsUnused ==
  ASSUME IInv, NEW t \in Timers, CreateNew(t)
  PROVE  /\ op[t] = NoOp /\ \A c \in Commands : c.timer # t
         /\ fe_id[t] = 0 /\ t \notin known /\ t \notin free
         /\ Commands' = Commands \cup {Cmd(t, 0, "create", 0)} /\ QueueInv'
         /\ owned'[t] /\ has_exec'[t]
         /\ \A s \in Timers \ {t} : owned'[s] = owned[s] /\ has_exec'[s] = has_exec[s]
         /\ UNCHANGED <<fe_id, fe_state, duration, op, known, be_id, be_state, timeout,
                        free, cur_time, batch, failed, todo, tick_pc, expiries, left>>
<1>1. t \notin known /\ ~owned[t] /\ fe_id[t] = 0
  BY DEF CreateNew
<1>2. be_id[t] \in Nat /\ TypeOK /\ QueueInv /\ IdInv /\ CreateInv
  BY DEF IInv, TypeOK
<1>3. op[t] = NoOp
  BY <1>1, <1>2 DEF IdInv
<1>4. ASSUME NEW c \in Commands, c.timer = t PROVE FALSE
  <2>1. c.action # "create" /\ c.id \in Nat
    BY <1>1, <1>2, <1>4, CommandsType DEF CreateInv
  <2>2. QED
    BY <1>1, <1>2, <1>4, <2>1 DEF IdInv
<1>5. Cmd(t, 0, "create", 0) \in Cmds /\ Cmd(t, 0, "create", 0).timer = t
  BY DEF Cmd, Cmds
<1>6. pending' = Append(pending, Cmd(t, 0, "create", 0)) /\ batch' = batch
  BY DEF CreateNew, backend
<1>7. Commands' = Commands \cup {Cmd(t, 0, "create", 0)} /\ QueueInv'
  BY <1>2, <1>4, <1>5, <1>6, QueueGrows
<1>8. /\ owned'[t] /\ has_exec'[t]
      /\ \A s \in Timers \ {t} : owned'[s] = owned[s] /\ has_exec'[s] = has_exec[s]
  BY <1>2 DEF CreateNew, TypeOK
<1>9. /\ t \notin free
      /\ UNCHANGED <<fe_id, fe_state, duration, op, known, be_id, be_state, timeout,
                     free, cur_time, batch, failed, todo, tick_pc, expiries, left>>
  BY DEF CreateNew, backend
<1>10. QED
  BY <1>1, <1>3, <1>4, <1>7, <1>8, <1>9

(* The command an owner pushes becomes the last one about its timer.       *)
LEMMA PushedIsLast ==
  ASSUME IInv, NEW t \in Timers, PushCommand(t)
  PROVE  /\ op[t] \in Cmds /\ op[t] # NoOp
         /\ op[t].action # "create" /\ op[t].timer = t /\ op[t].id = fe_id[t]
         /\ fe_id[t] > 0 /\ Commands' = Commands \cup {op[t]} /\ QueueInv'
         /\ op'[t] = NoOp /\ \A s \in Timers \ {t} : op'[s] = op[s]
         /\ UNCHANGED <<owned, has_exec, fe_id, fe_state, duration, known, be_id,
                        be_state, timeout, free, cur_time, batch, failed, todo,
                        tick_pc, expiries, left>>
<1>1. /\ op[t] # NoOp /\ pending' = Append(pending, op[t]) /\ batch' = batch
  BY DEF PushCommand, backend
<1>2. TypeOK /\ QueueInv /\ IdInv
  BY DEF IInv
<1>3. op[t] \in Cmds
  BY <1>1, <1>2 DEF TypeOK
<1>4. op[t].timer = t /\ op[t].id = fe_id[t] /\ op[t].action # "create"
  BY <1>1, <1>2 DEF IdInv
<1>5. \A c \in Commands : c.timer = t => c.id < op[t].id
  BY <1>1, <1>2, <1>4 DEF IdInv
<1>6. Commands' = Commands \cup {op[t]} /\ QueueInv'
  BY <1>1, <1>2, <1>3, <1>4, <1>5, QueueGrows
<1>7. op'[t] = NoOp /\ \A s \in Timers \ {t} : op'[s] = op[s]
  BY <1>2 DEF PushCommand, TypeOK
<1>8. UNCHANGED <<owned, has_exec, fe_id, fe_state, duration, known, be_id, be_state,
                  timeout, free, cur_time, batch, failed, todo, tick_pc, expiries, left>>
  BY DEF PushCommand, backend
<1>9. fe_id[t] > 0
  BY <1>1, <1>2 DEF IdInv, TypeOK
<1>10. QED
  BY <1>1, <1>3, <1>4, <1>6, <1>7, <1>8, <1>9

(* The first command is about a timer that the back-end knows, unless it   *)
(* creates it.                                                             *)
LEMMA FirstIsKnown ==
  ASSUME IInv, batch # << >>
  PROVE  Head(batch).action = "create" \/ Head(batch).timer \in known
<1> DEFINE c == Head(batch)
<1> SUFFICES ASSUME c.action # "create", c.timer \notin known PROVE FALSE
  OBVIOUS
<1>1. TypeOK /\ QueueInv /\ IdInv /\ CreateInv
  BY DEF IInv
<1>2. Queue \in Seq(Cmds) /\ 1 \in DOMAIN Queue /\ Queue[1] = c
  BY <1>1, CommandsType DEF TypeOK, Queue
<1>3. c \in Commands /\ c.timer \in Timers /\ c.id \in Nat
  BY <1>1, <1>2, CommandsType DEF Commands
<1>4. fe_id[c.timer] > 0
  <2>1. be_id[c.timer] \in Nat /\ fe_id[c.timer] \in Nat
    BY <1>1, <1>3 DEF TypeOK
  <2>2. be_id[c.timer] < c.id /\ c.id <= fe_id[c.timer]
    BY <1>1, <1>3 DEF IdInv
  <2>3. QED
    BY <1>3, <2>1, <2>2
<1>5. PICK d \in Commands : d.timer = c.timer /\ d.action = "create"
  BY <1>1, <1>3, <1>4 DEF CreateInv
<1>6. PICK i \in DOMAIN Queue : Queue[i] = d
  BY DEF Commands
<1>7. 1 < i
  BY <1>2, <1>5, <1>6
<1>8. c.id < d.id /\ d.id = 0
  BY <1>1, <1>2, <1>5, <1>6, <1>7 DEF QueueInv, CreateInv
<1>9. QED
  BY <1>3, <1>8

(* The command tick() processes is the first one about its timer; a        *)
(* destroy command is also the last one, and the timer is known unless     *)
(* this command creates it.                                                *)
LEMMA TakenIsFirst ==
  ASSUME IInv, TickCommand
  PROVE  LET c == Head(batch)
         IN  /\ c \in Commands /\ Commands' = Commands \ {c} /\ QueueInv'
             /\ c.timer \in Timers /\ c.id \in Nat /\ c.dur \in Nat
             /\ \A d \in Commands' : d.timer = c.timer =>
                  c.id < d.id /\ d.action # "create" /\ c.action # "destroy"
             /\ c.action = "create" \/ c.timer \in known
             /\ c.action = "destroy" =>
                  ~owned[c.timer] /\ op[c.timer] = NoOp /\ c.id = fe_id[c.timer]
<1> DEFINE c == Head(batch)
<1>1. TypeOK /\ QueueInv /\ IdInv /\ CreateInv /\ DestroyInv
  BY DEF IInv
<1>2. /\ c \in Commands /\ Commands' = Commands \ {c} /\ QueueInv'
      /\ \A d \in Commands' : d.timer = c.timer => c.id < d.id
  BY <1>1, QueueShrinks
<1>3. c.timer \in Timers /\ c.id \in Nat /\ c.dur \in Nat
  BY <1>1, <1>2, CommandsType
<1>4. ASSUME NEW d \in Commands', d.timer = c.timer
      PROVE  c.id < d.id /\ d.action # "create" /\ c.action # "destroy"
  <2>1. d \in Commands /\ d.id \in Nat /\ c.id < d.id
    BY <1>1, <1>2, <1>4, CommandsType
  <2>2. d.action # "create"
    BY <1>1, <1>3, <2>1 DEF CreateInv
  <2>3. c.action # "destroy"
    <3>1. d.id <= fe_id[c.timer] /\ fe_id[c.timer] \in Nat
      BY <1>1, <1>3, <1>4, <2>1 DEF IdInv, TypeOK
    <3>2. QED
      BY <1>1, <1>2, <1>3, <2>1, <3>1 DEF DestroyInv
  <2>4. QED
    BY <2>1, <2>2, <2>3
<1>5. c.action = "create" \/ c.timer \in known
  BY FirstIsKnown DEF TickCommand
<1>6. ASSUME c.action = "destroy"
      PROVE  ~owned[c.timer] /\ op[c.timer] = NoOp /\ c.id = fe_id[c.timer]
  <2>1. ~owned[c.timer] /\ c.id = fe_id[c.timer]
    BY <1>1, <1>2, <1>6 DEF DestroyInv
  <2>2. op[c.timer] = NoOp
    BY <1>1, <1>2, <1>3, <2>1 DEF IdInv
  <2>3. QED
    BY <2>1, <2>2
<1>7. QED
  BY <1>2, <1>3, <1>4, <1>5, <1>6

(* What set, run, stop and destroy have in common: the owner of a timer    *)
(* with no operation in progress gives it a new id and perhaps a command   *)
(* with that id to push.                                                   *)
Issues(t) ==
  \/ \E d \in Durations : SetTimer(t, d)
  \/ RunTimer(t) \/ StopTimer(t) \/ DestroyTimer(t)

LEMMA IssuedIsLatest ==
  ASSUME IInv, NEW t \in Timers, Issues(t)
  PROVE  /\ owned[t] /\ op[t] = NoOp
         /\ fe_id[t] \in Nat /\ fe_id'[t] = fe_id[t] + 1
         /\ \A s \in Timers \ {t} :
              /\ fe_id'[s] = fe_id[s] /\ op'[s] = op[s] /\ owned'[s] = owned[s]
              /\ fe_state'[s] = fe_state[s] /\ duration'[s] = duration[s]
         /\ op'[t] # NoOp =>
              /\ op'[t] \in Cmds /\ op'[t].timer = t /\ op'[t].id = fe_id[t] + 1
              /\ op'[t].action # "create"
         /\ Queue' = Queue /\ Commands' = Commands
         /\ UNCHANGED <<has_exec, backend, pending, expiries, left>>
<1>1. owned[t] /\ op[t] = NoOp
  BY DEF Issues, SetTimer, RunTimer, StopTimer, DestroyTimer, Idle
<1>2. TypeOK
  BY DEF IInv
<1>3. fe_id' = [fe_id EXCEPT ![t] = fe_id[t] + 1]
  BY DEF Issues, SetTimer, RunTimer, StopTimer, DestroyTimer, Bump
<1>4. fe_id[t] \in Nat /\ duration[t] \in Nat
  BY <1>2 DEF TypeOK
<1>5. \/ op' = op
      \/ \E a \in {"start", "stop", "destroy"}, d \in Nat :
           op' = [op EXCEPT ![t] = Cmd(t, fe_id[t] + 1, a, d)]
  <2>1. Durations \subseteq Nat
    BY TimersAssumption
  <2>2. QED
    BY <1>4, <2>1 DEF Issues, SetTimer, RunTimer, StopTimer, DestroyTimer
<1>6. \A a \in {"start", "stop", "destroy"}, d \in Nat :
         Cmd(t, fe_id[t] + 1, a, d) \in Cmds
  BY <1>4 DEF Cmd, Cmds
<1>7. op'[t] # NoOp => /\ op'[t] \in Cmds /\ op'[t].timer = t
                       /\ op'[t].id = fe_id[t] + 1 /\ op'[t].action # "create"
  BY <1>1, <1>2, <1>5, <1>6, Fields DEF TypeOK
<1>8. \A s \in Timers \ {t} :
         /\ fe_id'[s] = fe_id[s] /\ op'[s] = op[s] /\ owned'[s] = owned[s]
         /\ fe_state'[s] = fe_state[s] /\ duration'[s] = duration[s]
  <2>1. \A s \in Timers \ {t} : fe_id'[s] = fe_id[s] /\ op'[s] = op[s]
    BY <1>2, <1>3, <1>5 DEF TypeOK
  <2>2. \A s \in Timers \ {t} : owned'[s] = owned[s] /\ fe_state'[s] = fe_state[s]
    BY <1>2 DEF TypeOK, Issues, SetTimer, RunTimer, StopTimer, DestroyTimer
  <2>3. \A s \in Timers \ {t} : duration'[s] = duration[s]
    BY <1>2 DEF TypeOK, Issues, SetTimer, RunTimer, StopTimer, DestroyTimer
  <2>4. QED
    BY <2>1, <2>2, <2>3
<1>9. UNCHANGED <<has_exec, backend, pending, expiries, left>>
  BY DEF Issues, SetTimer, RunTimer, StopTimer, DestroyTimer
<1>10. Queue' = Queue /\ Commands' = Commands
  BY <1>9, QueueStays DEF backend
<1>11. fe_id'[t] = fe_id[t] + 1
  BY <1>2, <1>3 DEF TypeOK
<1>12. QED
  BY <1>1, <1>4, <1>7, <1>8, <1>9, <1>10, <1>11

-----------------------------------------------------------------------------
(* Every step preserves each part of the invariant.                        *)

(* Commands are processed and buckets visited only inside tick().          *)
LEMMA StepPhaseInv == IInv /\ [Next]_vars => PhaseInv'
<1> SUFFICES ASSUME IInv, [Next]_vars PROVE PhaseInv'
  OBVIOUS
<1> USE DEF PhaseInv, frontend, backend
<1>i. TypeOK /\ PhaseInv
  BY DEF IInv
<1>t. be_state \in [Timers -> States] /\ todo \subseteq Timers
  BY <1>i DEF TypeOK
<1>1. ASSUME NEW t \in Timers, CreateFromPool(t) PROVE PhaseInv'
  BY <1>1, <1>i, <1>t, QueueStays DEF CreateFromPool
<1>2. ASSUME NEW t \in Timers, CreateNew(t) PROVE PhaseInv'
  BY <1>2, <1>i, <1>t, NewIsUnused, Fields
<1>3. ASSUME NEW t \in Timers, Issues(t) PROVE PhaseInv'
  BY <1>3, <1>i, <1>t, IssuedIsLatest
<1>4. ASSUME NEW t \in Timers, PushCommand(t) PROVE PhaseInv'
  BY <1>4, <1>i, <1>t, PushedIsLast
<1>5. ASSUME NEW e \in expiries, RunExpiry(e) PROVE PhaseInv'
  BY <1>5, <1>i, <1>t, QueueStays DEF RunExpiry
<1>6. ASSUME TickBegin PROVE PhaseInv'
  BY <1>6, <1>i, <1>t, QueueBegins DEF TickBegin
<1>7. ASSUME TickCommand, ProcessCreate(Head(batch)) PROVE PhaseInv'
  BY <1>7, <1>i, <1>t, TakenIsFirst DEF TickCommand, ProcessCreate
<1>8. ASSUME TickCommand, ProcessStart(Head(batch)) PROVE PhaseInv'
  BY <1>8, <1>i, <1>t, TakenIsFirst DEF TickCommand, ProcessStart
<1>9. ASSUME TickCommand, ProcessStop(Head(batch)) PROVE PhaseInv'
  BY <1>9, <1>i, <1>t, TakenIsFirst DEF TickCommand, ProcessStop
<1>10. ASSUME TickCommand, ProcessDestroy(Head(batch)) PROVE PhaseInv'
  BY <1>10, <1>i, <1>t, TakenIsFirst DEF TickCommand, ProcessDestroy
<1>11. ASSUME TickCommandsDone PROVE PhaseInv'
  BY <1>11, <1>i, <1>t, QueueStays DEF TickCommandsDone
<1>12. ASSUME TickPostponed PROVE PhaseInv'
  BY <1>12, <1>i, <1>t, QueueStays DEF TickPostponed
<1>13. ASSUME TickAdvance PROVE PhaseInv'
  BY <1>13, <1>i, <1>t, QueueStays DEF TickAdvance
<1>14. ASSUME NEW t \in Timers, TickSkip(t) PROVE PhaseInv'
  BY <1>14, <1>i, <1>t, QueueStays DEF TickSkip
<1>15. ASSUME NEW t \in Timers, TickExpire(t) PROVE PhaseInv'
  BY <1>15, <1>i, <1>t, QueueStays DEF TickExpire
<1>16. ASSUME TickEnd PROVE PhaseInv'
  BY <1>16, <1>i, <1>t, QueueStays DEF TickEnd
<1>17. CASE UNCHANGED vars
  BY <1>17, <1>i, <1>t, QueueStays DEF vars
<1>18. QED
  BY <1>1, <1>2, <1>3, <1>4, <1>5, <1>6, <1>7, <1>8, <1>9, <1>10, <1>11,
     <1>12, <1>13, <1>14, <1>15, <1>16, <1>17 DEF Next, Owner, Issues, Tick,
     TickCommand

(* Ids ascend from the back-end to the front-end.                          *)
LEMMA StepIdInv == IInv /\ [Next]_vars => IdInv'
<1> SUFFICES ASSUME IInv, [Next]_vars PROVE IdInv'
  OBVIOUS
<1> USE DEF IdInv, frontend, backend
<1>i. TypeOK /\ IdInv
  BY DEF IInv
<1>t. fe_id \in [Timers -> Nat] /\ be_id \in [Timers -> Nat] /\ DOMAIN op = Timers
  BY <1>i DEF TypeOK
<1>c. \A d \in Commands : d.timer \in Timers /\ d.id \in Nat
  BY <1>i, CommandsType
<1>1. ASSUME NEW t \in Timers, CreateFromPool(t) PROVE IdInv'
  BY <1>1, <1>i, <1>t, <1>c, QueueStays DEF CreateFromPool
<1>2. ASSUME NEW t \in Timers, CreateNew(t) PROVE IdInv'
  BY <1>2, <1>i, <1>t, <1>c, NewIsUnused, Fields
<1>3. ASSUME NEW t \in Timers, Issues(t) PROVE IdInv'
  BY <1>3, <1>i, <1>t, <1>c, IssuedIsLatest
<1>4. ASSUME NEW t \in Timers, PushCommand(t) PROVE IdInv'
  BY <1>4, <1>i, <1>t, <1>c, PushedIsLast
<1>5. ASSUME NEW e \in expiries, RunExpiry(e) PROVE IdInv'
  BY <1>5, <1>i, <1>t, <1>c, QueueStays DEF RunExpiry
<1>6. ASSUME TickBegin PROVE IdInv'
  BY <1>6, <1>i, <1>t, <1>c, QueueBegins DEF TickBegin
<1>7. ASSUME TickCommand, ProcessCreate(Head(batch)) PROVE IdInv'
  BY <1>7, <1>i, <1>t, <1>c, TakenIsFirst DEF TickCommand, ProcessCreate
<1>8. ASSUME TickCommand, ProcessStart(Head(batch)) PROVE IdInv'
  BY <1>8, <1>i, <1>t, <1>c, TakenIsFirst DEF TickCommand, ProcessStart
<1>9. ASSUME TickCommand, ProcessStop(Head(batch)) PROVE IdInv'
  BY <1>9, <1>i, <1>t, <1>c, TakenIsFirst DEF TickCommand, ProcessStop
<1>10. ASSUME TickCommand, ProcessDestroy(Head(batch)) PROVE IdInv'
  BY <1>10, <1>i, <1>t, <1>c, TakenIsFirst DEF TickCommand, ProcessDestroy
<1>11. ASSUME TickCommandsDone PROVE IdInv'
  BY <1>11, <1>i, <1>t, <1>c, QueueStays DEF TickCommandsDone
<1>12. ASSUME TickPostponed PROVE IdInv'
  BY <1>12, <1>i, <1>t, <1>c, QueueStays DEF TickPostponed
<1>13. ASSUME TickAdvance PROVE IdInv'
  BY <1>13, <1>i, <1>t, <1>c, QueueStays DEF TickAdvance
<1>14. ASSUME NEW t \in Timers, TickSkip(t) PROVE IdInv'
  BY <1>14, <1>i, <1>t, <1>c, QueueStays DEF TickSkip
<1>15. ASSUME NEW t \in Timers, TickExpire(t) PROVE IdInv'
  BY <1>15, <1>i, <1>t, <1>c, QueueStays DEF TickExpire
<1>16. ASSUME TickEnd PROVE IdInv'
  BY <1>16, <1>i, <1>t, <1>c, QueueStays DEF TickEnd
<1>17. CASE UNCHANGED vars
  BY <1>17, <1>i, <1>t, <1>c, QueueStays DEF vars
<1>18. QED
  BY <1>1, <1>2, <1>3, <1>4, <1>5, <1>6, <1>7, <1>8, <1>9, <1>10, <1>11,
     <1>12, <1>13, <1>14, <1>15, <1>16, <1>17 DEF Next, Owner, Issues, Tick,
     TickCommand

(* The creation of a timer comes before everything else about it.          *)
LEMMA StepCreateInv == IInv /\ [Next]_vars => CreateInv'
<1> SUFFICES ASSUME IInv, [Next]_vars PROVE CreateInv'
  OBVIOUS
<1> USE DEF CreateInv, frontend, backend
<1>i. TypeOK /\ CreateInv /\ FreeInv
  BY DEF IInv
<1>t. fe_id \in [Timers -> Nat] /\ be_id \in [Timers -> Nat]
  BY <1>i DEF TypeOK
<1>c. \A d \in Commands : d.timer \in Timers /\ d.id \in Nat
  BY <1>i, CommandsType
<1>1. ASSUME NEW t \in Timers, CreateFromPool(t) PROVE CreateInv'
  BY <1>1, <1>i, <1>t, <1>c, QueueStays DEF CreateFromPool, FreeInv
<1>2. ASSUME NEW t \in Timers, CreateNew(t) PROVE CreateInv'
  BY <1>2, <1>i, <1>t, <1>c, NewIsUnused, Fields
<1>3. ASSUME NEW t \in Timers, Issues(t) PROVE CreateInv'
  BY <1>3, <1>i, <1>t, <1>c, IssuedIsLatest
<1>4. ASSUME NEW t \in Timers, PushCommand(t) PROVE CreateInv'
  BY <1>4, <1>i, <1>t, <1>c, PushedIsLast DEF IdInv
<1>5. ASSUME NEW e \in expiries, RunExpiry(e) PROVE CreateInv'
  BY <1>5, <1>i, <1>t, <1>c, QueueStays DEF RunExpiry
<1>6. ASSUME TickBegin PROVE CreateInv'
  BY <1>6, <1>i, <1>t, <1>c, QueueBegins DEF TickBegin
<1>7. ASSUME TickCommand, ProcessCreate(Head(batch)) PROVE CreateInv'
  BY <1>7, <1>i, <1>t, <1>c, TakenIsFirst DEF TickCommand, ProcessCreate
<1>8. ASSUME TickCommand, ProcessStart(Head(batch)) PROVE CreateInv'
  BY <1>8, <1>i, <1>t, <1>c, TakenIsFirst DEF TickCommand, ProcessStart
<1>9. ASSUME TickCommand, ProcessStop(Head(batch)) PROVE CreateInv'
  BY <1>9, <1>i, <1>t, <1>c, TakenIsFirst DEF TickCommand, ProcessStop
<1>10. ASSUME TickCommand, ProcessDestroy(Head(batch)) PROVE CreateInv'
  BY <1>10, <1>i, <1>t, <1>c, TakenIsFirst DEF TickCommand, ProcessDestroy
<1>11. ASSUME TickCommandsDone PROVE CreateInv'
  BY <1>11, <1>i, <1>t, <1>c, QueueStays DEF TickCommandsDone
<1>12. ASSUME TickPostponed PROVE CreateInv'
  BY <1>12, <1>i, <1>t, <1>c, QueueStays DEF TickPostponed
<1>13. ASSUME TickAdvance PROVE CreateInv'
  BY <1>13, <1>i, <1>t, <1>c, QueueStays DEF TickAdvance
<1>14. ASSUME NEW t \in Timers, TickSkip(t) PROVE CreateInv'
  BY <1>14, <1>i, <1>t, <1>c, QueueStays DEF TickSkip
<1>15. ASSUME NEW t \in Timers, TickExpire(t) PROVE CreateInv'
  BY <1>15, <1>i, <1>t, <1>c, QueueStays DEF TickExpire
<1>16. ASSUME TickEnd PROVE CreateInv'
  BY <1>16, <1>i, <1>t, <1>c, QueueStays DEF TickEnd
<1>17. CASE UNCHANGED vars
  BY <1>17, <1>i, <1>t, <1>c, QueueStays DEF vars
<1>18. QED
  BY <1>1, <1>2, <1>3, <1>4, <1>5, <1>6, <1>7, <1>8, <1>9, <1>10, <1>11,
     <1>12, <1>13, <1>14, <1>15, <1>16, <1>17 DEF Next, Owner, Issues, Tick,
     TickCommand

(* Its destruction comes after everything else.                            *)
LEMMA StepDestroyInv == IInv /\ [Next]_vars => DestroyInv'
<1> SUFFICES ASSUME IInv, [Next]_vars PROVE DestroyInv'
  OBVIOUS
<1> USE DEF DestroyInv, frontend, backend
<1>i. TypeOK /\ DestroyInv /\ FreeInv
  BY DEF IInv
<1>t. fe_id \in [Timers -> Nat] /\ be_id \in [Timers -> Nat] /\ DOMAIN op = Timers
  BY <1>i DEF TypeOK
<1>c. \A d \in Commands : d.timer \in Timers /\ d.id \in Nat
  BY <1>i, CommandsType
<1>1. ASSUME NEW t \in Timers, CreateFromPool(t) PROVE DestroyInv'
  BY <1>1, <1>i, <1>t, <1>c, QueueStays DEF CreateFromPool
<1>2. ASSUME NEW t \in Timers, CreateNew(t) PROVE DestroyInv'
  BY <1>2, <1>i, <1>t, <1>c, NewIsUnused, Fields
<1>3. ASSUME NEW t \in Timers, Issues(t) PROVE DestroyInv'
  <2>1. t \notin free
    BY <1>3, <1>i, IssuedIsLatest DEF FreeInv
  <2>2. op'[t].action = "destroy" => ~owned'[t]
    BY <1>3, <1>i, IssuedIsLatest, Fields
       DEF Issues, SetTimer, RunTimer, StopTimer, DestroyTimer, TypeOK
  <2>3. QED
    BY <1>3, <1>i, <1>t, <1>c, <2>1, <2>2, IssuedIsLatest
<1>4. ASSUME NEW t \in Timers, PushCommand(t) PROVE DestroyInv'
  BY <1>4, <1>i, <1>t, <1>c, PushedIsLast, Fields
<1>5. ASSUME NEW e \in expiries, RunExpiry(e) PROVE DestroyInv'
  BY <1>5, <1>i, <1>t, <1>c, QueueStays DEF RunExpiry
<1>6. ASSUME TickBegin PROVE DestroyInv'
  BY <1>6, <1>i, <1>t, <1>c, QueueBegins DEF TickBegin
<1>7. ASSUME TickCommand, ProcessCreate(Head(batch)) PROVE DestroyInv'
  BY <1>7, <1>i, <1>t, <1>c, TakenIsFirst DEF TickCommand, ProcessCreate
<1>8. ASSUME TickCommand, ProcessStart(Head(batch)) PROVE DestroyInv'
  BY <1>8, <1>i, <1>t, <1>c, TakenIsFirst DEF TickCommand, ProcessStart
<1>9. ASSUME TickCommand, ProcessStop(Head(batch)) PROVE DestroyInv'
  BY <1>9, <1>i, <1>t, <1>c, TakenIsFirst DEF TickCommand, ProcessStop
<1>10. ASSUME TickCommand, ProcessDestroy(Head(batch)) PROVE DestroyInv'
  BY <1>10, <1>i, <1>t, <1>c, TakenIsFirst, Fields DEF TickCommand, ProcessDestroy
<1>11. ASSUME TickCommandsDone PROVE DestroyInv'
  BY <1>11, <1>i, <1>t, <1>c, QueueStays DEF TickCommandsDone
<1>12. ASSUME TickPostponed PROVE DestroyInv'
  BY <1>12, <1>i, <1>t, <1>c, QueueStays DEF TickPostponed
<1>13. ASSUME TickAdvance PROVE DestroyInv'
  BY <1>13, <1>i, <1>t, <1>c, QueueStays DEF TickAdvance
<1>14. ASSUME NEW t \in Timers, TickSkip(t) PROVE DestroyInv'
  BY <1>14, <1>i, <1>t, <1>c, QueueStays DEF TickSkip
<1>15. ASSUME NEW t \in Timers, TickExpire(t) PROVE DestroyInv'
  BY <1>15, <1>i, <1>t, <1>c, QueueStays DEF TickExpire
<1>16. ASSUME TickEnd PROVE DestroyInv'
  BY <1>16, <1>i, <1>t, <1>c, QueueStays DEF TickEnd
<1>17. CASE UNCHANGED vars
  BY <1>17, <1>i, <1>t, <1>c, QueueStays DEF vars
<1>18. QED
  BY <1>1, <1>2, <1>3, <1>4, <1>5, <1>6, <1>7, <1>8, <1>9, <1>10, <1>11,
     <1>12, <1>13, <1>14, <1>15, <1>16, <1>17 DEF Next, Owner, Issues, Tick,
     TickCommand

(* Runs that are current for the back-end are current for the owner.       *)
LEMMA StepRunInv == IInv /\ [Next]_vars => RunInv'
<1> SUFFICES ASSUME IInv, [Next]_vars PROVE RunInv'
  OBVIOUS
<1> USE DEF RunInv, frontend, backend
<1>i. TypeOK /\ IdInv /\ RunInv /\ ExpiryInv
  BY DEF IInv
<1>t. fe_id \in [Timers -> Nat] /\ be_id \in [Timers -> Nat] /\ DOMAIN op = Timers
      /\ owned \in [Timers -> BOOLEAN]
      /\ fe_state \in [Timers -> States] /\ be_state \in [Timers -> States]
  BY <1>i DEF TypeOK
<1>c. \A d \in Commands : d.timer \in Timers /\ d.id \in Nat
  BY <1>i, CommandsType
<1>1. ASSUME NEW t \in Timers, CreateFromPool(t) PROVE RunInv'
  BY <1>1, <1>i, <1>t, <1>c, QueueStays DEF CreateFromPool
<1>2. ASSUME NEW t \in Timers, CreateNew(t) PROVE RunInv'
  BY <1>2, <1>i, <1>t, <1>c, NewIsUnused, Fields
<1>3. ASSUME NEW t \in Timers, Issues(t) PROVE RunInv'
  <2>1. op'[t].action = "start" => fe_state'[t] = "running"
    BY <1>3, <1>i, IssuedIsLatest, Fields
       DEF Issues, SetTimer, RunTimer, StopTimer, DestroyTimer, TypeOK
  <2>2. fe_state'[t] = "running" => owned'[t]
    BY <1>3, <1>i, IssuedIsLatest
       DEF Issues, SetTimer, RunTimer, StopTimer, DestroyTimer, TypeOK
  <2>3. QED
    BY <1>3, <1>i, <1>t, <1>c, <2>1, <2>2, IssuedIsLatest DEF IdInv
<1>4. ASSUME NEW t \in Timers, PushCommand(t) PROVE RunInv'
  BY <1>4, <1>i, <1>t, <1>c, PushedIsLast, Fields
<1>5. ASSUME NEW e \in expiries, RunExpiry(e) PROVE RunInv'
  <2>1. e.timer \in Timers /\ e.id \in Nat /\ ExpiryOk(e)
    BY <1>i DEF TypeOK, Expiries, ExpiryInv
  <2>2. CASE fe_id[e.timer] # e.id
    BY <1>5, <1>i, <1>t, <1>c, <2>2, QueueStays DEF RunExpiry
  <2>3. CASE fe_id[e.timer] = e.id
    <3>1. be_id[e.timer] = fe_id[e.timer] /\ be_state[e.timer] # "running"
      BY <1>i, <1>t, <2>1, <2>3 DEF ExpiryOk, IdInv
    <3>2. op[e.timer] = NoOp
      BY <1>i, <1>t, <2>1, <3>1 DEF IdInv
    <3>3. \A d \in Commands : d.timer = e.timer => d.action # "start"
      BY <1>i, <1>t, <1>c, <2>1, <3>1 DEF IdInv
    <3>4. QED
      BY <1>5, <1>i, <1>t, <1>c, <2>1, <3>1, <3>2, <3>3, QueueStays, Fields DEF RunExpiry
  <2>4. QED
    BY <2>2, <2>3
<1>6. ASSUME TickBegin PROVE RunInv'
  BY <1>6, <1>i, <1>t, <1>c, QueueBegins DEF TickBegin
<1>7. ASSUME TickCommand, ProcessCreate(Head(batch)) PROVE RunInv'
  BY <1>7, <1>i, <1>t, <1>c, TakenIsFirst DEF TickCommand, ProcessCreate
<1>8. ASSUME TickCommand, ProcessStart(Head(batch)) PROVE RunInv'
  BY <1>8, <1>i, <1>t, <1>c, TakenIsFirst DEF TickCommand, ProcessStart
<1>9. ASSUME TickCommand, ProcessStop(Head(batch)) PROVE RunInv'
  BY <1>9, <1>i, <1>t, <1>c, TakenIsFirst DEF TickCommand, ProcessStop, StoppedBackend
<1>10. ASSUME TickCommand, ProcessDestroy(Head(batch)) PROVE RunInv'
  BY <1>10, <1>i, <1>t, <1>c, TakenIsFirst DEF TickCommand, ProcessDestroy
<1>11. ASSUME TickCommandsDone PROVE RunInv'
  BY <1>11, <1>i, <1>t, <1>c, QueueStays DEF TickCommandsDone
<1>12. ASSUME TickPostponed PROVE RunInv'
  BY <1>12, <1>i, <1>t, <1>c, QueueStays DEF TickPostponed
<1>13. ASSUME TickAdvance PROVE RunInv'
  BY <1>13, <1>i, <1>t, <1>c, QueueStays DEF TickAdvance
<1>14. ASSUME NEW t \in Timers, TickSkip(t) PROVE RunInv'
  BY <1>14, <1>i, <1>t, <1>c, QueueStays DEF TickSkip
<1>15. ASSUME NEW t \in Timers, TickExpire(t) PROVE RunInv'
  BY <1>15, <1>i, <1>t, <1>c, QueueStays DEF TickExpire
<1>16. ASSUME TickEnd PROVE RunInv'
  BY <1>16, <1>i, <1>t, <1>c, QueueStays DEF TickEnd
<1>17. CASE UNCHANGED vars
  BY <1>17, <1>i, <1>t, <1>c, QueueStays DEF vars
<1>18. QED
  BY <1>1, <1>2, <1>3, <1>4, <1>5, <1>6, <1>7, <1>8, <1>9, <1>10, <1>11,
     <1>12, <1>13, <1>14, <1>15, <1>16, <1>17 DEF Next, Owner, Issues, Tick,
     TickCommand

(* The executor is set while it may be needed.                             *)
LEMMA StepExecInv == IInv /\ [Next]_vars => ExecInv'
<1> SUFFICES ASSUME IInv, [Next]_vars PROVE ExecInv'
  OBVIOUS
<1> USE DEF ExecInv, frontend, backend
<1>i. TypeOK /\ ExecInv
  BY DEF IInv
<1>t. fe_id \in [Timers -> Nat] /\ be_id \in [Timers -> Nat] /\ DOMAIN op = Timers
      /\ owned \in [Timers -> BOOLEAN] /\ has_exec \in [Timers -> BOOLEAN]
      /\ be_state \in [Timers -> States]
  BY <1>i DEF TypeOK
<1>c. \A d \in Commands : d.timer \in Timers /\ d.id \in Nat
  BY <1>i, CommandsType
<1>1. ASSUME NEW t \in Timers, CreateFromPool(t) PROVE ExecInv'
  BY <1>1, <1>i, <1>t, <1>c, QueueStays DEF CreateFromPool
<1>2. ASSUME NEW t \in Timers, CreateNew(t) PROVE ExecInv'
  BY <1>2, <1>i, <1>t, <1>c, NewIsUnused, Fields
<1>3. ASSUME NEW t \in Timers, Issues(t) PROVE ExecInv'
  BY <1>3, <1>i, <1>t, <1>c, IssuedIsLatest
<1>4. ASSUME NEW t \in Timers, PushCommand(t) PROVE ExecInv'
  BY <1>4, <1>i, <1>t, <1>c, PushedIsLast
<1>5. ASSUME NEW e \in expiries, RunExpiry(e) PROVE ExecInv'
  BY <1>5, <1>i, <1>t, <1>c, QueueStays DEF RunExpiry
<1>6. ASSUME TickBegin PROVE ExecInv'
  BY <1>6, <1>i, <1>t, <1>c, QueueBegins DEF TickBegin
<1>7. ASSUME TickCommand, ProcessCreate(Head(batch)) PROVE ExecInv'
  BY <1>7, <1>i, <1>t, <1>c, TakenIsFirst DEF TickCommand, ProcessCreate
<1>8. ASSUME TickCommand, ProcessStart(Head(batch)) PROVE ExecInv'
  BY <1>8, <1>i, <1>t, <1>c, TakenIsFirst DEF TickCommand, ProcessStart
<1>9. ASSUME TickCommand, ProcessStop(Head(batch)) PROVE ExecInv'
  BY <1>9, <1>i, <1>t, <1>c, TakenIsFirst DEF TickCommand, ProcessStop, StoppedBackend
<1>10. ASSUME TickCommand, ProcessDestroy(Head(batch)) PROVE ExecInv'
  BY <1>10, <1>i, <1>t, <1>c, TakenIsFirst DEF TickCommand, ProcessDestroy
<1>11. ASSUME TickCommandsDone PROVE ExecInv'
  BY <1>11, <1>i, <1>t, <1>c, QueueStays DEF TickCommandsDone
<1>12. ASSUME TickPostponed PROVE ExecInv'
  BY <1>12, <1>i, <1>t, <1>c, QueueStays DEF TickPostponed
<1>13. ASSUME TickAdvance PROVE ExecInv'
  BY <1>13, <1>i, <1>t, <1>c, QueueStays DEF TickAdvance
<1>14. ASSUME NEW t \in Timers, TickSkip(t) PROVE ExecInv'
  BY <1>14, <1>i, <1>t, <1>c, QueueStays DEF TickSkip
<1>15. ASSUME NEW t \in Timers, TickExpire(t) PROVE ExecInv'
  BY <1>15, <1>i, <1>t, <1>c, QueueStays DEF TickExpire
<1>16. ASSUME TickEnd PROVE ExecInv'
  BY <1>16, <1>i, <1>t, <1>c, QueueStays DEF TickEnd
<1>17. CASE UNCHANGED vars
  BY <1>17, <1>i, <1>t, <1>c, QueueStays DEF vars
<1>18. QED
  BY <1>1, <1>2, <1>3, <1>4, <1>5, <1>6, <1>7, <1>8, <1>9, <1>10, <1>11,
     <1>12, <1>13, <1>14, <1>15, <1>16, <1>17 DEF Next, Owner, Issues, Tick,
     TickCommand

(* Timers in the pool are at rest.                                         *)
LEMMA StepFreeInv == IInv /\ [Next]_vars => FreeInv'
<1> SUFFICES ASSUME IInv, [Next]_vars PROVE FreeInv'
  OBVIOUS
<1> USE DEF FreeInv, frontend, backend
<1>i. TypeOK /\ FreeInv /\ ExpiryInv
  BY DEF IInv
<1>t. fe_id \in [Timers -> Nat] /\ be_id \in [Timers -> Nat] /\ DOMAIN op = Timers
      /\ owned \in [Timers -> BOOLEAN] /\ has_exec \in [Timers -> BOOLEAN]
      /\ free \subseteq Timers
      /\ fe_state \in [Timers -> States] /\ be_state \in [Timers -> States]
  BY <1>i DEF TypeOK
<1>c. \A d \in Commands : d.timer \in Timers /\ d.id \in Nat
  BY <1>i, CommandsType
<1>1. ASSUME NEW t \in Timers, CreateFromPool(t) PROVE FreeInv'
  BY <1>1, <1>i, <1>t, <1>c, QueueStays DEF CreateFromPool
<1>2. ASSUME NEW t \in Timers, CreateNew(t) PROVE FreeInv'
  BY <1>2, <1>i, <1>t, <1>c, NewIsUnused, Fields
<1>3. ASSUME NEW t \in Timers, Issues(t) PROVE FreeInv'
  BY <1>3, <1>i, <1>t, <1>c, IssuedIsLatest
<1>4. ASSUME NEW t \in Timers, PushCommand(t) PROVE FreeInv'
  BY <1>4, <1>i, <1>t, <1>c, PushedIsLast
<1>5. ASSUME NEW e \in expiries, RunExpiry(e) PROVE FreeInv'
  <2>1. e.timer \in Timers /\ (e.id = fe_id[e.timer] => e.timer \notin free)
    BY <1>i DEF TypeOK, Expiries, ExpiryInv, ExpiryOk
  <2>2. QED
    BY <1>5, <1>i, <1>t, <1>c, <2>1, QueueStays DEF RunExpiry
<1>6. ASSUME TickBegin PROVE FreeInv'
  BY <1>6, <1>i, <1>t, <1>c, QueueBegins DEF TickBegin
<1>7. ASSUME TickCommand, ProcessCreate(Head(batch)) PROVE FreeInv'
  BY <1>7, <1>i, <1>t, <1>c, TakenIsFirst DEF TickCommand, ProcessCreate
<1>8. ASSUME TickCommand, ProcessStart(Head(batch)) PROVE FreeInv'
  BY <1>8, <1>i, <1>t, <1>c, TakenIsFirst DEF TickCommand, ProcessStart
<1>9. ASSUME TickCommand, ProcessStop(Head(batch)) PROVE FreeInv'
  BY <1>9, <1>i, <1>t, <1>c, TakenIsFirst DEF TickCommand, ProcessStop, StoppedBackend
<1>10. ASSUME TickCommand, ProcessDestroy(Head(batch)) PROVE FreeInv'
  BY <1>10, <1>i, <1>t, <1>c, TakenIsFirst DEF TickCommand, ProcessDestroy
<1>11. ASSUME TickCommandsDone PROVE FreeInv'
  BY <1>11, <1>i, <1>t, <1>c, QueueStays DEF TickCommandsDone
<1>12. ASSUME TickPostponed PROVE FreeInv'
  BY <1>12, <1>i, <1>t, <1>c, QueueStays DEF TickPostponed
<1>13. ASSUME TickAdvance PROVE FreeInv'
  BY <1>13, <1>i, <1>t, <1>c, QueueStays DEF TickAdvance
<1>14. ASSUME NEW t \in Timers, TickSkip(t) PROVE FreeInv'
  BY <1>14, <1>i, <1>t, <1>c, QueueStays DEF TickSkip
<1>15. ASSUME NEW t \in Timers, TickExpire(t) PROVE FreeInv'
  BY <1>15, <1>i, <1>t, <1>c, QueueStays DEF TickExpire
<1>16. ASSUME TickEnd PROVE FreeInv'
  BY <1>16, <1>i, <1>t, <1>c, QueueStays DEF TickEnd
<1>17. CASE UNCHANGED vars
  BY <1>17, <1>i, <1>t, <1>c, QueueStays DEF vars
<1>18. QED
  BY <1>1, <1>2, <1>3, <1>4, <1>5, <1>6, <1>7, <1>8, <1>9, <1>10, <1>11,
     <1>12, <1>13, <1>14, <1>15, <1>16, <1>17 DEF Next, Owner, Issues, Tick,
     TickCommand

(* The commands of a timer stay in order.                                  *)
LEMMA StepQueueInv == IInv /\ [Next]_vars => QueueInv'
<1> SUFFICES ASSUME IInv, [Next]_vars PROVE QueueInv'
  OBVIOUS
<1> USE DEF QueueInv, frontend, backend
<1>i. TypeOK /\ QueueInv
  BY DEF IInv
<1>1. ASSUME NEW t \in Timers, CreateFromPool(t) PROVE QueueInv'
  BY <1>1, <1>i, QueueStays DEF CreateFromPool
<1>2. ASSUME NEW t \in Timers, CreateNew(t) PROVE QueueInv'
  BY <1>2, <1>i, NewIsUnused, Fields
<1>3. ASSUME NEW t \in Timers, Issues(t) PROVE QueueInv'
  BY <1>3, <1>i, IssuedIsLatest
<1>4. ASSUME NEW t \in Timers, PushCommand(t) PROVE QueueInv'
  BY <1>4, <1>i, PushedIsLast
<1>5. ASSUME NEW e \in expiries, RunExpiry(e) PROVE QueueInv'
  BY <1>5, <1>i, QueueStays DEF RunExpiry
<1>6. ASSUME TickBegin PROVE QueueInv'
  BY <1>6, <1>i, QueueBegins DEF TickBegin
<1>7. ASSUME TickCommand, ProcessCreate(Head(batch)) PROVE QueueInv'
  BY <1>7, <1>i, TakenIsFirst DEF TickCommand, ProcessCreate
<1>8. ASSUME TickCommand, ProcessStart(Head(batch)) PROVE QueueInv'
  BY <1>8, <1>i, TakenIsFirst DEF TickCommand, ProcessStart
<1>9. ASSUME TickCommand, ProcessStop(Head(batch)) PROVE QueueInv'
  BY <1>9, <1>i, TakenIsFirst DEF TickCommand, ProcessStop
<1>10. ASSUME TickCommand, ProcessDestroy(Head(batch)) PROVE QueueInv'
  BY <1>10, <1>i, TakenIsFirst DEF TickCommand, ProcessDestroy
<1>11. ASSUME TickCommandsDone PROVE QueueInv'
  BY <1>11, <1>i, QueueStays DEF TickCommandsDone
<1>12. ASSUME TickPostponed PROVE QueueInv'
  BY <1>12, <1>i, QueueStays DEF TickPostponed
<1>13. ASSUME TickAdvance PROVE QueueInv'
  BY <1>13, <1>i, QueueStays DEF TickAdvance
<1>14. ASSUME NEW t \in Timers, TickSkip(t) PROVE QueueInv'
  BY <1>14, <1>i, QueueStays DEF TickSkip
<1>15. ASSUME NEW t \in Timers, TickExpire(t) PROVE QueueInv'
  BY <1>15, <1>i, QueueStays DEF TickExpire
<1>16. ASSUME TickEnd PROVE QueueInv'
  BY <1>16, <1>i, QueueStays DEF TickEnd
<1>17. CASE UNCHANGED vars
  BY <1>17, <1>i, QueueStays DEF vars
<1>18. QED
  BY <1>1, <1>2, <1>3, <1>4, <1>5, <1>6, <1>7, <1>8, <1>9, <1>10, <1>11,
     <1>12, <1>13, <1>14, <1>15, <1>16, <1>17 DEF Next, Owner, Issues, Tick,
     TickCommand

(* Durations stay within half the range of the clock.                      *)
LEMMA StepDurationInv == IInv /\ [Next]_vars => DurationInv'
<1> SUFFICES ASSUME IInv, [Next]_vars PROVE DurationInv'
  OBVIOUS
<1> USE DEF DurationInv, frontend, backend
<1>i. TypeOK /\ DurationInv
  BY DEF IInv
<1>t. duration \in [Timers -> Nat] /\ DOMAIN op = Timers
  BY <1>i DEF TypeOK
<1>c. \A d \in Commands : d.timer \in Timers /\ d.id \in Nat
  BY <1>i, CommandsType
<1>m. MaxDuration \in Nat /\ MaxDuration <= TimeMod
  BY TimersAssumption DEF MaxDuration
<1>1. ASSUME NEW t \in Timers, CreateFromPool(t) PROVE DurationInv'
  BY <1>1, <1>i, <1>t, <1>c, <1>m, QueueStays DEF CreateFromPool
<1>2. ASSUME NEW t \in Timers, CreateNew(t) PROVE DurationInv'
  BY <1>2, <1>i, <1>t, <1>c, <1>m, NewIsUnused, Fields
<1>3. ASSUME NEW t \in Timers, Issues(t) PROVE DurationInv'
  <2>1. \A d \in Durations : d <= MaxDuration
    BY TimersAssumption DEF MaxDuration
  <2>2. duration'[t] <= MaxDuration /\ (op'[t] # NoOp => op'[t].dur <= MaxDuration)
    BY <1>3, <1>i, <1>t, <1>m, <2>1, IssuedIsLatest, Fields
       DEF Issues, SetTimer, RunTimer, StopTimer, DestroyTimer
  <2>3. QED
    BY <1>3, <1>i, <1>t, <1>c, <2>2, IssuedIsLatest
<1>4. ASSUME NEW t \in Timers, PushCommand(t) PROVE DurationInv'
  BY <1>4, <1>i, <1>t, <1>c, <1>m, PushedIsLast
<1>5. ASSUME NEW e \in expiries, RunExpiry(e) PROVE DurationInv'
  BY <1>5, <1>i, <1>t, <1>c, <1>m, QueueStays DEF RunExpiry
<1>6. ASSUME TickBegin PROVE DurationInv'
  BY <1>6, <1>i, <1>t, <1>c, <1>m, QueueBegins DEF TickBegin
<1>7. ASSUME TickCommand, ProcessCreate(Head(batch)) PROVE DurationInv'
  BY <1>7, <1>i, <1>t, <1>c, <1>m, TakenIsFirst DEF TickCommand, ProcessCreate
<1>8. ASSUME TickCommand, ProcessStart(Head(batch)) PROVE DurationInv'
  BY <1>8, <1>i, <1>t, <1>c, <1>m, TakenIsFirst DEF TickCommand, ProcessStart
<1>9. ASSUME TickCommand, ProcessStop(Head(batch)) PROVE DurationInv'
  BY <1>9, <1>i, <1>t, <1>c, <1>m, TakenIsFirst DEF TickCommand, ProcessStop
<1>10. ASSUME TickCommand, ProcessDestroy(Head(batch)) PROVE DurationInv'
  BY <1>10, <1>i, <1>t, <1>c, <1>m, TakenIsFirst DEF TickCommand, ProcessDestroy
<1>11. ASSUME TickCommandsDone PROVE DurationInv'
  BY <1>11, <1>i, <1>t, <1>c, <1>m, QueueStays DEF TickCommandsDone
<1>12. ASSUME TickPostponed PROVE DurationInv'
  BY <1>12, <1>i, <1>t, <1>c, <1>m, QueueStays DEF TickPostponed
<1>13. ASSUME TickAdvance PROVE DurationInv'
  BY <1>13, <1>i, <1>t, <1>c, <1>m, QueueStays DEF TickAdvance
<1>14. ASSUME NEW t \in Timers, TickSkip(t) PROVE DurationInv'
  BY <1>14, <1>i, <1>t, <1>c, <1>m, QueueStays DEF TickSkip
<1>15. ASSUME NEW t \in Timers, TickExpire(t) PROVE DurationInv'
  BY <1>15, <1>i, <1>t, <1>c, <1>m, QueueStays DEF TickExpire
<1>16. ASSUME TickEnd PROVE DurationInv'
  BY <1>16, <1>i, <1>t, <1>c, <1>m, QueueStays DEF TickEnd
<1>17. CASE UNCHANGED vars
  BY <1>17, <1>i, <1>t, <1>c, <1>m, QueueStays DEF vars
<1>18. QED
  BY <1>1, <1>2, <1>3, <1>4, <1>5, <1>6, <1>7, <1>8, <1>9, <1>10, <1>11,
     <1>12, <1>13, <1>14, <1>15, <1>16, <1>17 DEF Next, Owner, Issues, Tick,
     TickCommand

(* Timeouts agree with the ticks that are left.                            *)
LEMMA StepTimeInv == IInv /\ [Next]_vars => TimeInv'
<1> SUFFICES ASSUME IInv, [Next]_vars PROVE TimeInv'
  OBVIOUS
<1> USE DEF TimeInv, frontend, backend
<1>i. TypeOK /\ TimeInv /\ DurationInv /\ PhaseInv
  BY DEF IInv
<1>t. /\ cur_time \in Nat /\ left \in [Timers -> Nat] /\ timeout \in [Timers -> Nat]
      /\ be_state \in [Timers -> States] /\ TimeMod \in Nat \ {0}
  BY <1>i, TimersAssumption DEF TypeOK
<1>m. MaxDuration \in Nat /\ MaxDuration <= TimeMod
  BY TimersAssumption DEF MaxDuration
<1>1. ASSUME NEW t \in Timers, CreateFromPool(t) PROVE TimeInv'
  BY <1>1, <1>i, <1>t, <1>m, QueueStays DEF CreateFromPool
<1>2. ASSUME NEW t \in Timers, CreateNew(t) PROVE TimeInv'
  BY <1>2, <1>i, <1>t, <1>m, NewIsUnused, Fields
<1>3. ASSUME NEW t \in Timers, Issues(t) PROVE TimeInv'
  BY <1>3, <1>i, <1>t, <1>m, IssuedIsLatest
<1>4. ASSUME NEW t \in Timers, PushCommand(t) PROVE TimeInv'
  BY <1>4, <1>i, <1>t, <1>m, PushedIsLast
<1>5. ASSUME NEW e \in expiries, RunExpiry(e) PROVE TimeInv'
  BY <1>5, <1>i, <1>t, <1>m, QueueStays DEF RunExpiry
<1>6. ASSUME TickBegin PROVE TimeInv'
  BY <1>6, <1>i, <1>t, <1>m, QueueBegins DEF TickBegin
<1>7. ASSUME TickCommand, ProcessCreate(Head(batch)) PROVE TimeInv'
  BY <1>7, <1>i, <1>t, <1>m, TakenIsFirst DEF TickCommand, ProcessCreate
<1>8. ASSUME TickCommand, ProcessStart(Head(batch)) PROVE TimeInv'
  <2> DEFINE c == Head(batch)
  <2>1. c.dur \in Nat /\ c.dur <= MaxDuration /\ c.timer \in Timers
    BY <1>8, <1>i, TakenIsFirst DEF DurationInv
  <2>2. Max1(c.dur) \in Nat /\ Max1(c.dur) > 0 /\ Max1(c.dur) <= TimeMod
    BY <1>t, <1>m, <2>1 DEF Max1
  <2>3. QED
    BY <1>8, <1>i, <1>t, <2>1, <2>2 DEF TickCommand, ProcessStart
<1>9. ASSUME TickCommand, ProcessStop(Head(batch)) PROVE TimeInv'
  BY <1>9, <1>i, <1>t, <1>m, TakenIsFirst DEF TickCommand, ProcessStop, StoppedBackend
<1>10. ASSUME TickCommand, ProcessDestroy(Head(batch)) PROVE TimeInv'
  BY <1>10, <1>i, <1>t, <1>m, TakenIsFirst DEF TickCommand, ProcessDestroy
<1>11. ASSUME TickCommandsDone PROVE TimeInv'
  BY <1>11, <1>i, <1>t, <1>m, QueueStays DEF TickCommandsDone
<1>12. ASSUME TickPostponed PROVE TimeInv'
  BY <1>12, <1>i, <1>t, <1>m, QueueStays DEF TickPostponed
<1>13. ASSUME TickAdvance PROVE TimeInv'
  <2>1. cur_time' = (cur_time + 1) % TimeMod /\ cur_time \in 0..(TimeMod - 1)
    BY <1>13, <1>i, <1>t DEF TickAdvance
  <2>2. cur_time' \in 0..(TimeMod - 1)
    BY <1>t, <2>1
  <2>3. ASSUME NEW s \in Timers, be_state'[s] = "running"
        PROVE  /\ timeout'[s] = (cur_time' + left'[s]) % TimeMod
               /\ left'[s] < TimeMod /\ (left'[s] > 0 \/ s \in todo')
    <3>1. /\ be_state[s] = "running" /\ todo = {} /\ UNCHANGED timeout
          /\ left[s] \in 1..TimeMod
      BY <1>13, <1>i, <1>t, <2>3 DEF TickAdvance, PhaseInv
    <3>2. left'[s] = left[s] - 1
      BY <1>13, <1>t, <3>1 DEF TickAdvance
    <3>3. timeout'[s] = (cur_time' + left'[s]) % TimeMod
      BY <1>i, <1>t, <2>1, <3>1, <3>2, TickKeepsEnd
    <3>4. ASSUME left'[s] = 0 PROVE s \in todo'
      <4>1. \A now, n \in 0..(TimeMod - 1) : n = 0 => (now + n) % TimeMod = now
        BY <1>t
      <4>2. 0 \in 0..(TimeMod - 1)
        BY <1>t
      <4>3. timeout[s] = cur_time'
        BY <2>2, <3>1, <3>3, <3>4, <4>1, <4>2, Zenon
      <4>4. QED
        BY <1>13, <3>1, <4>3 DEF TickAdvance
    <3>5. QED
      BY <1>t, <3>1, <3>2, <3>3, <3>4
  <2>4. \A s \in Timers : be_state'[s] = "expired" => left'[s] = 0
    BY <1>13, <1>i, <1>t DEF TickAdvance
  <2>5. \A s \in Timers : left'[s] < TimeMod => left'[s] <= TimeMod
    BY <1>13, <1>t DEF TickAdvance
  <2>6. QED
    BY <1>t, <2>2, <2>3, <2>4, <2>5
<1>14. ASSUME NEW t \in Timers, TickSkip(t) PROVE TimeInv'
  BY <1>14, <1>i, <1>t, <1>m, QueueStays DEF TickSkip
<1>15. ASSUME NEW t \in Timers, TickExpire(t) PROVE TimeInv'
  <2>1. be_state[t] = "running" /\ tick_pc = "expire" /\ timeout[t] = cur_time
    BY <1>15, <1>i DEF TickExpire, PhaseInv
  <2>2. left[t] \in 0..(TimeMod - 1) /\ cur_time \in 0..(TimeMod - 1)
    BY <1>i, <1>t, <2>1
  <2>3. left[t] = 0
    BY <1>i, <1>t, <2>1, <2>2, EndIsNow
  <2>4. QED
    BY <1>15, <1>i, <1>t, <2>3 DEF TickExpire
<1>16. ASSUME TickEnd PROVE TimeInv'
  BY <1>16, <1>i, <1>t, <1>m, QueueStays DEF TickEnd
<1>17. CASE UNCHANGED vars
  BY <1>17, <1>i, <1>t, <1>m, QueueStays DEF vars
<1>18. QED
  BY <1>1, <1>2, <1>3, <1>4, <1>5, <1>6, <1>7, <1>8, <1>9, <1>10, <1>11,
     <1>12, <1>13, <1>14, <1>15, <1>16, <1>17 DEF Next, Owner, Issues, Tick,
     TickCommand

(* A run has at most one expiry.                                           *)
LEMMA StepExpiryInv == IInv /\ [Next]_vars => ExpiryInv'
<1> SUFFICES ASSUME IInv, [Next]_vars PROVE ExpiryInv'
  OBVIOUS
<1> USE DEF frontend, backend
<1>i. TypeOK /\ IdInv /\ PhaseInv /\ RunInv /\ ExpiryInv
  BY DEF IInv
<1>t. fe_id \in [Timers -> Nat] /\ be_id \in [Timers -> Nat]
      /\ expiries \subseteq Expiries /\ failed \in Seq(Expiries)
      /\ fe_state \in [Timers -> States] /\ be_state \in [Timers -> States]
  BY <1>i DEF TypeOK
<1>e. /\ \A e \in Expiries : e.timer \in Timers /\ e.id \in Nat
      /\ \A e \in expiries : e \in Expiries
      /\ \A i \in DOMAIN failed : failed[i] \in Expiries
  <2>1. \A e \in Expiries : e.timer \in Timers /\ e.id \in Nat
    BY DEF Expiries
  <2>2. QED
    BY <1>t, <2>1
<1>1. ASSUME NEW t \in Timers, CreateFromPool(t) PROVE ExpiryInv'
  <2>1. UNCHANGED <<fe_id, fe_state, be_id, be_state, expiries, failed>>
    BY <1>1 DEF CreateFromPool
  <2>2. QED
    BY <1>i, <2>1 DEF ExpiryInv, ExpiryOk
<1>2. ASSUME NEW t \in Timers, CreateNew(t) PROVE ExpiryInv'
  <2>1. UNCHANGED <<fe_id, fe_state, be_id, be_state, expiries, failed>>
    BY <1>2, NewIsUnused
  <2>2. QED
    BY <1>i, <2>1 DEF ExpiryInv, ExpiryOk
<1>3. ASSUME NEW t \in Timers, Issues(t) PROVE ExpiryInv'
  <2>1. \A x \in Expiries : ExpiryOk(x) => ExpiryOk(x)'
    BY <1>3, <1>i, <1>t, <1>e, IssuedIsLatest DEF ExpiryOk, IdInv
  <2>2. QED
    BY <1>3, <1>i, <1>e, <2>1, IssuedIsLatest DEF ExpiryInv
<1>4. ASSUME NEW t \in Timers, PushCommand(t) PROVE ExpiryInv'
  <2>1. UNCHANGED <<fe_id, fe_state, be_id, be_state, expiries, failed>>
    BY <1>4, PushedIsLast
  <2>2. QED
    BY <1>i, <2>1 DEF ExpiryInv, ExpiryOk
<1>5. ASSUME NEW e \in expiries, RunExpiry(e) PROVE ExpiryInv'
  <2>1. /\ expiries' = expiries \ {e} /\ UNCHANGED <<fe_id, be_id, be_state, failed>>
        /\ fe_state' = fe_state \/ fe_state' = [fe_state EXCEPT ![e.timer] = "expired"]
        /\ fe_id[e.timer] # e.id => fe_state' = fe_state
    BY <1>5 DEF RunExpiry
  <2>2. \A x \in Expiries : x.timer = e.timer /\ x.id = e.id => x = e
    BY <1>e DEF Expiries
  <2>3. ASSUME NEW x \in Expiries, x # e, ExpiryOk(x) PROVE ExpiryOk(x)'
    <3>1. x.timer \in Timers /\ (x.timer = e.timer => x.id # e.id)
      BY <2>2, <2>3 DEF Expiries
    <3>2. QED
      BY <1>t, <2>1, <2>3, <3>1 DEF ExpiryOk
  <2>4. QED
    BY <1>i, <1>e, <2>1, <2>3 DEF ExpiryInv
<1>6. ASSUME TickBegin PROVE ExpiryInv'
  <2>1. UNCHANGED <<fe_id, fe_state, be_id, be_state, expiries, failed>>
    BY <1>6 DEF TickBegin
  <2>2. QED
    BY <1>i, <2>1 DEF ExpiryInv, ExpiryOk
<1>7. ASSUME TickCommand, ProcessCreate(Head(batch)) PROVE ExpiryInv'
  <2>1. UNCHANGED <<fe_id, fe_state, be_id, be_state, expiries, failed>>
    BY <1>7 DEF TickCommand, ProcessCreate
  <2>2. QED
    BY <1>i, <2>1 DEF ExpiryInv, ExpiryOk
<1>8. ASSUME TickCommand, ProcessStart(Head(batch)) PROVE ExpiryInv'
  <2> DEFINE c == Head(batch)
  <2>1. /\ c.timer \in Timers /\ be_id[c.timer] < c.id /\ c.id \in Nat
        /\ be_id' = [be_id EXCEPT ![c.timer] = c.id]
    BY <1>8, <1>i, TakenIsFirst DEF ProcessStart, IdInv
  <2>2. /\ UNCHANGED <<fe_id, fe_state, expiries, failed>>
        /\ \A s \in Timers \ {c.timer} : be_state'[s] = be_state[s]
    BY <1>8, <1>t DEF TickCommand, ProcessStart
  <2>3. ASSUME NEW x \in Expiries, ExpiryOk(x) PROVE ExpiryOk(x)'
    BY <1>t, <1>e, <2>1, <2>2, <2>3 DEF ExpiryOk
  <2>4. QED
    BY <1>i, <1>e, <2>2, <2>3 DEF ExpiryInv
<1>9. ASSUME TickCommand, ProcessStop(Head(batch)) PROVE ExpiryInv'
  <2> DEFINE c == Head(batch)
  <2>1. /\ c.timer \in Timers /\ be_id[c.timer] < c.id /\ c.id \in Nat
        /\ be_id' = [be_id EXCEPT ![c.timer] = c.id]
    BY <1>9, <1>i, TakenIsFirst DEF ProcessStop, IdInv
  <2>2. /\ UNCHANGED <<fe_id, fe_state, expiries, failed>>
        /\ \A s \in Timers \ {c.timer} : be_state'[s] = be_state[s]
    BY <1>9, <1>t DEF TickCommand, ProcessStop
  <2>3. ASSUME NEW x \in Expiries, ExpiryOk(x) PROVE ExpiryOk(x)'
    BY <1>t, <1>e, <2>1, <2>2, <2>3 DEF ExpiryOk
  <2>4. QED
    BY <1>i, <1>e, <2>2, <2>3 DEF ExpiryInv
<1>10. ASSUME TickCommand, ProcessDestroy(Head(batch)) PROVE ExpiryInv'
  <2> DEFINE c == Head(batch)
  <2>1. /\ c.timer \in Timers /\ be_id[c.timer] < c.id /\ c.id \in Nat
        /\ c.id = fe_id[c.timer]
        /\ be_id' = [be_id EXCEPT ![c.timer] = c.id]
    BY <1>10, <1>i, TakenIsFirst DEF ProcessDestroy, IdInv
  <2>2. /\ UNCHANGED <<fe_id, expiries, failed>>
        /\ \A s \in Timers \ {c.timer} :
             be_state'[s] = be_state[s] /\ fe_state'[s] = fe_state[s]
    BY <1>10, <1>t DEF TickCommand, ProcessDestroy
  <2>3. ASSUME NEW x \in Expiries, ExpiryOk(x) PROVE ExpiryOk(x)'
    BY <1>t, <1>e, <2>1, <2>2, <2>3 DEF ExpiryOk
  <2>4. QED
    BY <1>i, <1>e, <2>2, <2>3 DEF ExpiryInv
<1>11. ASSUME TickCommandsDone PROVE ExpiryInv'
  <2>1. UNCHANGED <<fe_id, fe_state, be_id, be_state, expiries, failed>>
    BY <1>11 DEF TickCommandsDone
  <2>2. QED
    BY <1>i, <2>1 DEF ExpiryInv, ExpiryOk
<1>12. ASSUME TickPostponed PROVE ExpiryInv'
  <2> DEFINE OkAfter(x) == /\ x.id <= be_id'[x.timer]
                           /\ x.id = be_id'[x.timer] => be_state'[x.timer] # "running"
                           /\ x.id = fe_id'[x.timer] => fe_state'[x.timer] = "running"
  <2>1. /\ failed # << >> /\ failed' = Tail(failed)
        /\ expiries' = expiries \/ expiries' = expiries \cup {Head(failed)}
        /\ UNCHANGED <<fe_id, fe_state, be_id, be_state>>
    BY <1>12 DEF TickPostponed
  <2>2. \A x \in Expiries : ExpiryOk(x) => OkAfter(x)
    BY <2>1 DEF ExpiryOk
  <2>3. /\ 1 \in DOMAIN failed /\ Head(failed) = failed[1]
        /\ \A i \in DOMAIN failed' :
             /\ i + 1 \in DOMAIN failed /\ i + 1 # 1 /\ failed'[i] = failed[i + 1]
        /\ \A i, j \in DOMAIN failed' : i # j => i + 1 # j + 1
    BY <1>t, <2>1
  <2> HIDE DEF OkAfter
  <2>4. \A x \in expiries' : OkAfter(x)
    BY <1>i, <1>e, <2>1, <2>2, <2>3 DEF ExpiryInv
  <2>5. \A i \in DOMAIN failed' : OkAfter(failed'[i]) /\ failed'[i] \notin expiries'
    BY <1>i, <1>e, <2>1, <2>2, <2>3 DEF ExpiryInv
  <2>6. \A i, j \in DOMAIN failed' : i # j => failed'[i] # failed'[j]
    BY <1>i, <2>3 DEF ExpiryInv
  <2>7. QED
    BY <2>4, <2>5, <2>6 DEF ExpiryInv, ExpiryOk, OkAfter
<1>13. ASSUME TickAdvance PROVE ExpiryInv'
  <2>1. UNCHANGED <<fe_id, fe_state, be_id, be_state, expiries, failed>>
    BY <1>13 DEF TickAdvance
  <2>2. QED
    BY <1>i, <2>1 DEF ExpiryInv, ExpiryOk
<1>14. ASSUME NEW t \in Timers, TickSkip(t) PROVE ExpiryInv'
  <2>1. UNCHANGED <<fe_id, fe_state, be_id, be_state, expiries, failed>>
    BY <1>14 DEF TickSkip
  <2>2. QED
    BY <1>i, <2>1 DEF ExpiryInv, ExpiryOk
<1>15. ASSUME NEW t \in Timers, TickExpire(t) PROVE ExpiryInv'
  <2> DEFINE e == Expiry(t, be_id[t])
  <2> DEFINE OkAfter(x) == /\ x.id <= be_id'[x.timer]
                           /\ x.id = be_id'[x.timer] => be_state'[x.timer] # "running"
                           /\ x.id = fe_id'[x.timer] => fe_state'[x.timer] = "running"
  <2>1. /\ be_state[t] = "running" /\ be_state' = [be_state EXCEPT ![t] = "expired"]
        /\ UNCHANGED <<fe_id, fe_state, be_id>>
        /\ \/ expiries' = expiries /\ failed' = failed
           \/ be_id[t] = fe_id[t] /\ expiries' = expiries \cup {e} /\ failed' = failed
           \/ be_id[t] = fe_id[t] /\ expiries' = expiries /\ failed' = Append(failed, e)
    BY <1>15, <1>i DEF TickExpire, PhaseInv
  <2>2. \A x \in Expiries : ExpiryOk(x) => OkAfter(x) /\ x # e
    BY <1>t, <1>e, <2>1, Fields DEF ExpiryOk
  <2>3. be_id[t] = fe_id[t] => OkAfter(e)
    BY <1>i, <1>t, <2>1, Fields DEF RunInv
  <2>4. e \in Expiries
    BY <1>t DEF Expiry, Expiries
  <2>5. e \notin expiries /\ \A i \in DOMAIN failed : failed[i] # e
    BY <1>i, <1>e, <2>2 DEF ExpiryInv
  <2>6. /\ \A i \in DOMAIN failed : i \in DOMAIN failed' /\ failed'[i] = failed[i]
        /\ \A i, j \in DOMAIN failed' : i # j => i \in DOMAIN failed \/ j \in DOMAIN failed
        /\ \A i \in DOMAIN failed' : i \in DOMAIN failed \/ failed'[i] = e
        /\ (\E i \in DOMAIN failed' : i \notin DOMAIN failed) =>
             be_id[t] = fe_id[t] /\ expiries' = expiries
    BY <1>t, <2>1, <2>4
  <2> HIDE DEF OkAfter, e
  <2>7. \A x \in expiries' : OkAfter(x)
    BY <1>i, <1>e, <2>1, <2>2, <2>3 DEF ExpiryInv
  <2>8. \A i \in DOMAIN failed' : OkAfter(failed'[i]) /\ failed'[i] \notin expiries'
    <3> SUFFICES ASSUME NEW i \in DOMAIN failed'
                 PROVE  OkAfter(failed'[i]) /\ failed'[i] \notin expiries'
      OBVIOUS
    <3>1. CASE i \in DOMAIN failed
      BY <1>i, <1>e, <2>1, <2>2, <2>5, <2>6, <3>1 DEF ExpiryInv
    <3>2. CASE i \notin DOMAIN failed
      BY <2>3, <2>5, <2>6, <3>2
    <3>3. QED
      BY <3>1, <3>2
  <2>9. \A i, j \in DOMAIN failed' : i # j => failed'[i] # failed'[j]
    BY <1>i, <2>5, <2>6 DEF ExpiryInv
  <2>10. QED
    BY <2>7, <2>8, <2>9 DEF ExpiryInv, ExpiryOk, OkAfter
<1>16. ASSUME TickEnd PROVE ExpiryInv'
  <2>1. UNCHANGED <<fe_id, fe_state, be_id, be_state, expiries, failed>>
    BY <1>16 DEF TickEnd
  <2>2. QED
    BY <1>i, <2>1 DEF ExpiryInv, ExpiryOk
<1>17. CASE UNCHANGED vars
  BY <1>17, <1>i DEF vars, ExpiryInv, ExpiryOk
<1>18. QED
  BY <1>1, <1>2, <1>3, <1>4, <1>5, <1>6, <1>7, <1>8, <1>9, <1>10, <1>11,
     <1>12, <1>13, <1>14, <1>15, <1>16, <1>17 DEF Next, Owner, Issues, Tick,
     TickCommand

(* No timeout is lost.                                                     *)
LEMMA StepTimeoutInv == IInv /\ [Next]_vars => TimeoutInv'
<1> SUFFICES ASSUME IInv, [Next]_vars PROVE TimeoutInv'
  OBVIOUS
<1> USE DEF TimeoutInv, frontend, backend
<1>i. TypeOK /\ IdInv /\ TimeoutInv
  BY DEF IInv
<1>t. fe_id \in [Timers -> Nat] /\ be_id \in [Timers -> Nat]
      /\ duration \in [Timers -> Nat]
      /\ expiries \subseteq Expiries /\ failed \in Seq(Expiries)
      /\ fe_state \in [Timers -> States] /\ be_state \in [Timers -> States]
  BY <1>i DEF TypeOK
<1>1. ASSUME NEW t \in Timers, CreateFromPool(t) PROVE TimeoutInv'
  <2>1. /\ UNCHANGED <<fe_id, fe_state, duration, op, be_id, be_state, expiries, failed>>
        /\ Commands' = Commands
    BY <1>1, QueueStays DEF CreateFromPool
  <2>2. QED
    BY <1>i, <2>1
<1>2. ASSUME NEW t \in Timers, CreateNew(t) PROVE TimeoutInv'
  <2>1. /\ UNCHANGED <<fe_id, fe_state, duration, op, be_id, be_state, expiries, failed>>
        /\ Commands \subseteq Commands'
    BY <1>2, NewIsUnused
  <2>2. QED
    BY <1>i, <2>1
<1>3. ASSUME NEW t \in Timers, Issues(t) PROVE TimeoutInv'
  <2>1. fe_state'[t] = "running" => op'[t] = Cmd(t, fe_id'[t], "start", duration'[t])
    BY <1>3, <1>i, <1>t, IssuedIsLatest
       DEF Issues, SetTimer, RunTimer, StopTimer, DestroyTimer, TypeOK
  <2>2. /\ Commands' = Commands /\ UNCHANGED <<be_id, be_state, expiries, failed>>
        /\ \A s \in Timers \ {t} : /\ fe_id'[s] = fe_id[s] /\ op'[s] = op[s]
                                   /\ fe_state'[s] = fe_state[s]
                                   /\ duration'[s] = duration[s]
    BY <1>3, IssuedIsLatest
  <2>3. QED
    BY <1>i, <2>1, <2>2
<1>4. ASSUME NEW t \in Timers, PushCommand(t) PROVE TimeoutInv'
  <2>1. /\ UNCHANGED <<fe_id, fe_state, duration, be_id, be_state, expiries, failed>>
        /\ Commands' = Commands \cup {op[t]}
        /\ \A s \in Timers \ {t} : op'[s] = op[s]
    BY <1>4, PushedIsLast
  <2>2. QED
    BY <1>i, <2>1, Fields
<1>5. ASSUME NEW e \in expiries, RunExpiry(e) PROVE TimeoutInv'
  <2>1. e.timer \in Timers
    BY <1>t DEF Expiries
  <2>2. /\ expiries' = expiries \ {e}
        /\ UNCHANGED <<fe_id, be_id, be_state, duration, op, failed>>
        /\ Commands' = Commands
        /\ \A s \in Timers : fe_state'[s] = "running" =>
             fe_state[s] = "running" /\ (s = e.timer => fe_id[s] # e.id)
    BY <1>5, <1>t, <2>1, QueueStays DEF RunExpiry
  <2>3. \A s \in Timers : fe_state'[s] = "running" => Expiry(s, fe_id[s]) # e
    BY <2>2, Fields
  <2>4. QED
    BY <1>i, <2>2, <2>3
<1>6. ASSUME TickBegin PROVE TimeoutInv'
  <2>1. /\ UNCHANGED <<fe_id, fe_state, duration, op, be_id, be_state, expiries, failed>>
        /\ Commands' = Commands
    BY <1>6, QueueBegins DEF TickBegin
  <2>2. QED
    BY <1>i, <2>1
<1>7. ASSUME TickCommand, ProcessCreate(Head(batch)) PROVE TimeoutInv'
  <2>1. /\ UNCHANGED <<fe_id, fe_state, duration, op, be_id, be_state, expiries, failed>>
        /\ \A d \in Commands : d.action = "start" => d \in Commands'
    BY <1>7, TakenIsFirst DEF TickCommand, ProcessCreate
  <2>2. QED
    BY <1>i, <2>1
<1>8. ASSUME TickCommand, ProcessStart(Head(batch)) PROVE TimeoutInv'
  <2> DEFINE c == Head(batch)
  <2>1. /\ c \in Commands /\ Commands' = Commands \ {c} /\ c.timer \in Timers
        /\ c.id \in Nat /\ be_id[c.timer] < c.id /\ c.id <= fe_id[c.timer]
    BY <1>8, <1>i, TakenIsFirst DEF ProcessStart, IdInv
  <2>2. /\ UNCHANGED <<fe_id, op, expiries, failed>>
        /\ c.action = "start" /\ be_id' = [be_id EXCEPT ![c.timer] = c.id]
        /\ \A s \in Timers \ {c.timer} :
             /\ be_state'[s] = be_state[s] /\ fe_state'[s] = fe_state[s]
             /\ duration'[s] = duration[s]
        /\ UNCHANGED <<fe_state, duration>> /\ be_state'[c.timer] = "running"
    BY <1>8, <1>t, <2>1 DEF TickCommand, ProcessStart
  <2>3. be_id[c.timer] # fe_id[c.timer]
    BY <1>t, <2>1
  <2>4. QED
    BY <1>i, <1>t, <2>1, <2>2, <2>3
<1>9. ASSUME TickCommand, ProcessStop(Head(batch)) PROVE TimeoutInv'
  <2> DEFINE c == Head(batch)
  <2>1. /\ c \in Commands /\ Commands' = Commands \ {c} /\ c.timer \in Timers
        /\ c.id \in Nat /\ be_id[c.timer] < c.id /\ c.id <= fe_id[c.timer]
    BY <1>9, <1>i, TakenIsFirst DEF ProcessStop, IdInv
  <2>2. /\ UNCHANGED <<fe_id, op, expiries, failed>>
        /\ c.action = "stop" /\ be_id' = [be_id EXCEPT ![c.timer] = c.id]
        /\ \A s \in Timers \ {c.timer} :
             /\ be_state'[s] = be_state[s] /\ fe_state'[s] = fe_state[s]
             /\ duration'[s] = duration[s]
        /\ UNCHANGED <<fe_state, duration>>
    BY <1>9, <1>t, <2>1 DEF TickCommand, ProcessStop
  <2>3. be_id[c.timer] # fe_id[c.timer]
    BY <1>t, <2>1
  <2>4. QED
    BY <1>i, <1>t, <2>1, <2>2, <2>3
<1>10. ASSUME TickCommand, ProcessDestroy(Head(batch)) PROVE TimeoutInv'
  <2> DEFINE c == Head(batch)
  <2>1. /\ c \in Commands /\ Commands' = Commands \ {c} /\ c.timer \in Timers
        /\ c.id \in Nat /\ be_id[c.timer] < c.id /\ c.id <= fe_id[c.timer]
    BY <1>10, <1>i, TakenIsFirst DEF ProcessDestroy, IdInv
  <2>2. /\ UNCHANGED <<fe_id, op, expiries, failed>>
        /\ c.action = "destroy" /\ be_id' = [be_id EXCEPT ![c.timer] = c.id]
        /\ \A s \in Timers \ {c.timer} :
             /\ be_state'[s] = be_state[s] /\ fe_state'[s] = fe_state[s]
             /\ duration'[s] = duration[s]
        /\ fe_state'[c.timer] = "stopped"
    BY <1>10, <1>t, <2>1 DEF TickCommand, ProcessDestroy
  <2>3. be_id[c.timer] # fe_id[c.timer]
    BY <1>t, <2>1
  <2>4. QED
    BY <1>i, <1>t, <2>1, <2>2, <2>3
<1>11. ASSUME TickCommandsDone PROVE TimeoutInv'
  <2>1. /\ UNCHANGED <<fe_id, fe_state, duration, op, be_id, be_state, expiries, failed>>
        /\ Commands' = Commands
    BY <1>11, QueueStays DEF TickCommandsDone
  <2>2. QED
    BY <1>i, <2>1
<1>12. ASSUME TickPostponed PROVE TimeoutInv'
  <2>1. /\ failed # << >> /\ failed' = Tail(failed)
        /\ expiries' = IF StillCurrent(Head(failed)) THEN expiries \cup {Head(failed)}
                       ELSE expiries
        /\ UNCHANGED <<fe_id, fe_state, duration, op, be_id, be_state>>
        /\ Commands' = Commands
    BY <1>12, QueueStays DEF TickPostponed
  <2>2. \A i \in DOMAIN failed :
           failed[i] = Head(failed) \/ \E j \in DOMAIN failed' : failed'[j] = failed[i]
    <3> SUFFICES ASSUME NEW i \in DOMAIN failed, i # 1
                 PROVE  \E j \in DOMAIN failed' : failed'[j] = failed[i]
      BY <1>t, <2>1
    <3>1. i - 1 \in DOMAIN failed' /\ failed'[i - 1] = failed[i]
      BY <1>t, <2>1
    <3>2. QED
      BY <3>1
  <2>3. \A s \in Timers : be_id[s] = fe_id[s] => StillCurrent(Expiry(s, fe_id[s]))
    BY Fields DEF StillCurrent
  <2>4. QED
    BY <1>i, <2>1, <2>2, <2>3
<1>13. ASSUME TickAdvance PROVE TimeoutInv'
  <2>1. /\ UNCHANGED <<fe_id, fe_state, duration, op, be_id, be_state, expiries, failed>>
        /\ Commands' = Commands
    BY <1>13, QueueStays DEF TickAdvance
  <2>2. QED
    BY <1>i, <2>1
<1>14. ASSUME NEW t \in Timers, TickSkip(t) PROVE TimeoutInv'
  <2>1. /\ UNCHANGED <<fe_id, fe_state, duration, op, be_id, be_state, expiries, failed>>
        /\ Commands' = Commands
    BY <1>14, QueueStays DEF TickSkip
  <2>2. QED
    BY <1>i, <2>1
<1>15. ASSUME NEW t \in Timers, TickExpire(t) PROVE TimeoutInv'
  <2>1. /\ \A s \in Timers \ {t} : be_state'[s] = be_state[s]
        /\ UNCHANGED <<fe_id, fe_state, duration, op, be_id>>
        /\ \A e \in expiries : e \in expiries'
        /\ Commands' = Commands
    BY <1>15, <1>t, QueueStays DEF TickExpire
  <2>2. /\ \A i \in DOMAIN failed : i \in DOMAIN failed' /\ failed'[i] = failed[i]
        /\ be_id[t] = fe_id[t] =>
             \/ Expiry(t, fe_id[t]) \in expiries'
             \/ \E i \in DOMAIN failed' : failed'[i] = Expiry(t, fe_id[t])
    <3>1. Expiry(t, be_id[t]) \in Expiries
      BY <1>t DEF Expiry, Expiries
    <3>2. CASE failed' = failed
      BY <1>15, <3>2 DEF TickExpire
    <3>3. CASE failed' = Append(failed, Expiry(t, be_id[t]))
      <4>1. /\ \A i \in DOMAIN failed : i \in DOMAIN failed' /\ failed'[i] = failed[i]
            /\ Len(failed) + 1 \in DOMAIN failed'
            /\ failed'[Len(failed) + 1] = Expiry(t, be_id[t])
        BY <1>t, <3>1, <3>3
      <4>2. QED
        BY <4>1
    <3>4. QED
      BY <1>15, <3>2, <3>3 DEF TickExpire
  <2>3. QED
    BY <1>i, <2>1, <2>2
<1>16. ASSUME TickEnd PROVE TimeoutInv'
  <2>1. /\ UNCHANGED <<fe_id, fe_state, duration, op, be_id, be_state, expiries, failed>>
        /\ Commands' = Commands
    BY <1>16, QueueStays DEF TickEnd
  <2>2. QED
    BY <1>i, <2>1
<1>17. CASE UNCHANGED vars
  BY <1>17, <1>i, QueueStays DEF vars
<1>18. QED
  BY <1>1, <1>2, <1>3, <1>4, <1>5, <1>6, <1>7, <1>8, <1>9, <1>10, <1>11,
     <1>12, <1>13, <1>14, <1>15, <1>16, <1>17 DEF Next, Owner, Issues, Tick,
     TickCommand

(* Types.                                                                  *)
LEMMA StepTypeOK == IInv /\ [Next]_vars => TypeOK'
<1> SUFFICES ASSUME IInv, [Next]_vars PROVE TypeOK'
  OBVIOUS
<1> USE DEF frontend, backend
<1>i. TypeOK
  BY DEF IInv
<1>1. ASSUME NEW t \in Timers, CreateFromPool(t) PROVE TypeOK'
  BY <1>1, <1>i DEF CreateFromPool, TypeOK
<1>2. ASSUME NEW t \in Timers, CreateNew(t) PROVE TypeOK'
  <2>1. Cmd(t, 0, "create", 0) \in Cmds
    BY DEF Cmd, Cmds
  <2>2. QED
    BY <1>2, <1>i, <2>1 DEF CreateNew, TypeOK
<1>3. ASSUME NEW t \in Timers, Issues(t) PROVE TypeOK'
  <2>1. TypeOK /\ UNCHANGED <<has_exec, backend, pending, expiries, left>>
    BY <1>3, <1>i, IssuedIsLatest
  <2>2. op' \in [Timers -> Cmds \cup {NoOp}]
    <3>1. DOMAIN op' = Timers
      BY <1>3, <1>i DEF Issues, SetTimer, RunTimer, StopTimer, DestroyTimer, TypeOK
    <3>2. \A s \in Timers : op'[s] \in Cmds \cup {NoOp}
      BY <1>3, <1>i, IssuedIsLatest DEF TypeOK
    <3>3. op' = [s \in Timers |-> op'[s]]
      BY <1>3, <1>i, <3>1 DEF Issues, SetTimer, RunTimer, StopTimer, DestroyTimer, TypeOK
    <3>4. QED
      BY <3>2, <3>3
  <2>3. /\ fe_id' \in [Timers -> Nat] /\ fe_state' \in [Timers -> States]
        /\ owned' \in [Timers -> BOOLEAN] /\ is_set' \in [Timers -> BOOLEAN]
    <3>1. fe_id' \in [Timers -> Nat]
      BY <1>3, <1>i DEF Issues, SetTimer, RunTimer, StopTimer, DestroyTimer, Bump, TypeOK
    <3>2. fe_state' \in [Timers -> States]
      BY <1>3, <1>i DEF Issues, SetTimer, RunTimer, StopTimer, DestroyTimer, TypeOK, States
    <3>3. owned' \in [Timers -> BOOLEAN]
      BY <1>3, <1>i DEF Issues, SetTimer, RunTimer, StopTimer, DestroyTimer, TypeOK
    <3>4. is_set' \in [Timers -> BOOLEAN]
      BY <1>3, <1>i DEF Issues, SetTimer, RunTimer, StopTimer, DestroyTimer, TypeOK
    <3>5. QED
      BY <3>1, <3>2, <3>3, <3>4
  <2>4. duration' \in [Timers -> Nat]
    <3>1. Durations \subseteq Nat
      BY TimersAssumption
    <3>2. QED
      BY <1>3, <1>i, <3>1 DEF Issues, SetTimer, RunTimer, StopTimer, DestroyTimer, TypeOK
  <2>5. QED
    BY <2>1, <2>2, <2>3, <2>4 DEF TypeOK, backend
<1>4. ASSUME NEW t \in Timers, PushCommand(t) PROVE TypeOK'
  <2>1. op[t] \in Cmds
    BY <1>4, PushedIsLast
  <2>2. QED
    BY <1>4, <1>i, <2>1 DEF PushCommand, TypeOK
<1>5. ASSUME NEW e \in expiries, RunExpiry(e) PROVE TypeOK'
  BY <1>5, <1>i DEF RunExpiry, TypeOK, States
<1>6. ASSUME TickBegin PROVE TypeOK'
  BY <1>6, <1>i DEF TickBegin, TypeOK
<1>7. ASSUME TickCommand, ProcessCreate(Head(batch)) PROVE TypeOK'
  <2> DEFINE c == Head(batch)
  <2>1. batch' \in Seq(Cmds)
    BY <1>7, <1>i DEF TickCommand, TypeOK
  <2>2. c.timer \in Timers /\ c.id \in Nat /\ c.dur \in Nat
    BY <1>7, TakenIsFirst
  <2>3. QED
    BY <1>7, <1>i, <2>1, <2>2 DEF TickCommand, ProcessCreate, States, TypeOK
<1>8. ASSUME TickCommand, ProcessStart(Head(batch)) PROVE TypeOK'
  <2> DEFINE c == Head(batch)
  <2>1. batch' \in Seq(Cmds)
    BY <1>8, <1>i DEF TickCommand, TypeOK
  <2>2. c.timer \in Timers /\ c.id \in Nat /\ c.dur \in Nat
    BY <1>8, TakenIsFirst
  <2>3. (cur_time + Max1(c.dur)) % TimeMod \in Nat /\ Max1(c.dur) \in Nat
    BY <1>i, <2>2, TimersAssumption DEF Max1, TypeOK
  <2>4. QED
    BY <1>8, <1>i, <2>1, <2>2, <2>3 DEF TickCommand, ProcessStart, States, TypeOK
<1>9. ASSUME TickCommand, ProcessStop(Head(batch)) PROVE TypeOK'
  <2> DEFINE c == Head(batch)
  <2>1. batch' \in Seq(Cmds)
    BY <1>9, <1>i DEF TickCommand, TypeOK
  <2>2. c.timer \in Timers /\ c.id \in Nat /\ c.dur \in Nat
    BY <1>9, TakenIsFirst
  <2>3. QED
    BY <1>9, <1>i, <2>1, <2>2 DEF TickCommand, ProcessStop, StoppedBackend, States, TypeOK
<1>10. ASSUME TickCommand, ProcessDestroy(Head(batch)) PROVE TypeOK'
  <2> DEFINE c == Head(batch)
  <2>1. batch' \in Seq(Cmds)
    BY <1>10, <1>i DEF TickCommand, TypeOK
  <2>2. c.timer \in Timers /\ c.id \in Nat /\ c.dur \in Nat
    BY <1>10, TakenIsFirst
  <2>3. QED
    BY <1>10, <1>i, <2>1, <2>2 DEF TickCommand, ProcessDestroy, States, TypeOK
<1>11. ASSUME TickCommandsDone PROVE TypeOK'
  BY <1>11, <1>i DEF TickCommandsDone, TypeOK
<1>12. ASSUME TickPostponed PROVE TypeOK'
  <2>1. Head(failed) \in Expiries /\ Tail(failed) \in Seq(Expiries)
    BY <1>12, <1>i DEF TickPostponed, TypeOK
  <2>2. expiries' \subseteq Expiries /\ failed' \in Seq(Expiries)
    BY <1>12, <1>i, <2>1 DEF TickPostponed, TypeOK
  <2>3. QED
    BY <1>12, <1>i, <2>2 DEF TickPostponed, TypeOK
<1>13. ASSUME TickAdvance PROVE TypeOK'
  <2>1. cur_time' \in Nat
    BY <1>13, <1>i, TimersAssumption DEF TickAdvance, TypeOK
  <2>2. left' \in [Timers -> Nat]
    BY <1>13, <1>i DEF TickAdvance, TypeOK
  <2>3. QED
    BY <1>13, <1>i, <2>1, <2>2 DEF TickAdvance, TypeOK
<1>14. ASSUME NEW t \in Timers, TickSkip(t) PROVE TypeOK'
  BY <1>14, <1>i DEF TickSkip, TypeOK
<1>15. ASSUME NEW t \in Timers, TickExpire(t) PROVE TypeOK'
  <2>1. Expiry(t, be_id[t]) \in Expiries
    BY <1>i DEF TypeOK, Expiry, Expiries
  <2>2. failed' \in Seq(Expiries) /\ expiries' \subseteq Expiries
    BY <1>15, <1>i, <2>1 DEF TickExpire, TypeOK
  <2>3. QED
    BY <1>15, <1>i, <2>2 DEF TickExpire, TypeOK, States
<1>16. ASSUME TickEnd PROVE TypeOK'
  BY <1>16, <1>i DEF TickEnd, TypeOK
<1>17. CASE UNCHANGED vars
  BY <1>17, <1>i DEF vars, TypeOK
<1>18. QED
  BY <1>1, <1>2, <1>3, <1>4, <1>5, <1>6, <1>7, <1>8, <1>9, <1>10, <1>11,
     <1>12, <1>13, <1>14, <1>15, <1>16, <1>17 DEF Next, Owner, Issues, Tick,
     TickCommand

-----------------------------------------------------------------------------
(* The initial state satisfies the invariant.                              *)
LEMMA InitIInv == Init => IInv
<1> SUFFICES ASSUME Init PROVE IInv
  OBVIOUS
<1>1. TypeOK
  BY TimersAssumption DEF Init, TypeOK, States
<1>2. Queue = << >> /\ Commands = {}
  BY DEF Init, Queue, Commands
<1>3. QueueInv /\ PhaseInv /\ CreateInv
  BY <1>2 DEF Init, QueueInv, PhaseInv, CreateInv
<1>4. IdInv /\ DestroyInv /\ RunInv
  BY <1>2, Fields DEF Init, IdInv, DestroyInv, RunInv
<1>5. ExpiryInv /\ ExecInv /\ TimeoutInv
  BY <1>2 DEF Init, ExpiryInv, ExecInv, TimeoutInv
<1>6. FreeInv
  BY <1>2, TimersAssumption DEF Init, FreeInv
<1>7. DurationInv /\ TimeInv
  <2>1. MaxDuration \in Nat
    BY TimersAssumption DEF MaxDuration
  <2>2. QED
    BY <1>2, <2>1, TimersAssumption DEF Init, DurationInv, TimeInv
<1>8. QED
  BY <1>1, <1>3, <1>4, <1>5, <1>6, <1>7 DEF IInv

(* It holds in every reachable state.                                      *)
LEMMA SpecIInv == Spec => []IInv
<1>1. IInv /\ [Next]_vars => IInv'
  BY StepTypeOK, StepQueueInv, StepPhaseInv, StepIdInv, StepCreateInv, StepDestroyInv,
     StepRunInv, StepExpiryInv, StepExecInv, StepFreeInv, StepDurationInv, StepTimeInv,
     StepTimeoutInv DEF IInv
<1>2. QED
  BY <1>1, InitIInv, PTL DEF Spec

-----------------------------------------------------------------------------
(* Timers, commands and expiries keep their types.                         *)
THEOREM TypeCorrect == Spec => []TypeOK
<1>1. IInv => TypeOK
  BY DEF IInv
<1>2. QED
  BY <1>1, SpecIInv, PTL

(* An expiry that reaches the executor of the owner with the current id    *)
(* finds the timer running, for any number of timers, owners and ticks.    *)
THEOREM ExpiryFindsRunningHolds == Spec => []ExpiryFindsRunning
<1>1. IInv => ExpiryFindsRunning
  BY DEF IInv, ExpiryInv, ExpiryOk, ExpiryFindsRunning
<1>2. QED
  BY <1>1, SpecIInv, PTL

(* While the owner sees a timer running its timeout is still to come, also *)
(* if executors are full at any time.                                      *)
THEOREM NoLostTimeoutHolds == Spec => []NoLostTimeout
<1>1. IInv => NoLostTimeout
  <2> SUFFICES ASSUME IInv PROVE NoLostTimeout
    OBVIOUS
  <2>1. batch \in Seq(Cmds) /\ pending \in Seq(Cmds)
    BY DEF IInv, TypeOK
  <2>2. \A c \in Commands : (\E i \in DOMAIN batch : batch[i] = c)
                              \/ \E i \in DOMAIN pending : pending[i] = c
    <3> SUFFICES ASSUME NEW i \in DOMAIN Queue
                 PROVE  \/ \E j \in DOMAIN batch : batch[j] = Queue[i]
                        \/ \E j \in DOMAIN pending : pending[j] = Queue[i]
      BY DEF Commands
    <3>1. i \in 1..(Len(batch) + Len(pending)) /\ Len(batch) \in Nat /\ Len(pending) \in Nat
      BY <2>1 DEF Queue
    <3>2. CASE i <= Len(batch)
      BY <2>1, <3>1, <3>2 DEF Queue
    <3>3. CASE i > Len(batch)
      <4>1. /\ i - Len(batch) \in DOMAIN pending
            /\ pending[i - Len(batch)] = Queue[i]
        BY <2>1, <3>1, <3>3 DEF Queue
      <4>2. QED
        BY <4>1
    <3>4. QED
      BY <3>1, <3>2, <3>3
  <2>3. \A t \in Timers :
          (\E c \in Commands : c.timer = t /\ c.id = fe_id[t] /\ c.action = "start") =>
             Queued(pending, t, fe_id[t], "start") \/ Queued(batch, t, fe_id[t], "start")
    BY <2>2 DEF Queued
  <2>4. QED
    BY <2>3 DEF IInv, TimeoutInv, NoLostTimeout
<1>2. QED
  BY <1>1, SpecIInv, PTL

(* Runs last exactly as many ticks as their durations say, for any size of *)
(* the wheel and any width of the clock.                                   *)
THEOREM ExpiresOnTimeHolds == Spec => []ExpiresOnTime
<1>1. IInv => ExpiresOnTime
  BY DEF IInv, TimeInv, ExpiresOnTime
<1>2. QED
  BY <1>1, SpecIInv, PTL

(* A timer that returns to the pool brings nothing along for its next      *)
(* owner.                                                                  *)
THEOREM PooledIsAtRestHolds == Spec => []PooledIsAtRest
<1>1. IInv => PooledIsAtRest
  <2> SUFFICES ASSUME IInv, NEW t \in free
               PROVE  /\ ~owned[t] /\ ~has_exec[t] /\ op[t] = NoOp /\ t \in known
                      /\ fe_state[t] = "stopped" /\ be_state[t] # "running"
                      /\ \A i \in DOMAIN pending : pending[i].timer # t
                      /\ \A i \in DOMAIN batch : batch[i].timer # t
                      /\ \A e \in expiries : e.timer = t => e.id # fe_id[t]
    BY DEF PooledIsAtRest
  <2>1. /\ ~owned[t] /\ ~has_exec[t] /\ op[t] = NoOp /\ t \in known
        /\ fe_state[t] = "stopped" /\ be_state[t] # "running"
        /\ \A c \in Commands : c.timer # t
    BY DEF IInv, FreeInv
  <2>2. batch \in Seq(Cmds) /\ pending \in Seq(Cmds)
    BY DEF IInv, TypeOK
  <2>3. \A i \in DOMAIN batch : batch[i] \in Commands
    BY <2>2 DEF Commands, Queue
  <2>4. ASSUME NEW i \in DOMAIN pending PROVE pending[i] \in Commands
    <3>1. Len(batch) + i \in DOMAIN Queue /\ Queue[Len(batch) + i] = pending[i]
      BY <2>2 DEF Queue
    <3>2. QED
      BY <3>1 DEF Commands
  <2>5. \A e \in expiries : e.timer = t => e.id # fe_id[t]
    BY <2>1 DEF IInv, ExpiryInv, ExpiryOk
  <2>6. QED
    BY <2>1, <2>3, <2>4, <2>5
<1>2. QED
  BY <1>1, SpecIInv, PTL

(* tick() never uses a null executor, nor a timer it does not know.        *)
THEOREM BackendPointersValidHold == Spec => []BackendPointersValid
<1>1. IInv => BackendPointersValid
  <2> SUFFICES ASSUME IInv PROVE BackendPointersValid
    OBVIOUS
  <2>1. \A t \in Timers : be_state[t] = "running" => has_exec[t]
    BY DEF IInv, ExecInv
  <2>2. ASSUME NEW i \in DOMAIN failed, StillCurrent(failed[i])
        PROVE  has_exec[failed[i].timer]
    <3>1. failed[i].timer \in Timers
      <4>1. failed[i] \in Expiries
        BY DEF IInv, TypeOK
      <4>2. QED
        BY <4>1 DEF Expiries
    <3>2. fe_state[failed[i].timer] = "running"
      BY <2>2 DEF IInv, ExpiryInv, ExpiryOk, StillCurrent
    <3>3. QED
      BY <3>1, <3>2 DEF IInv, RunInv, ExecInv
  <2>3. batch # << >> => Head(batch).action = "create" \/ Head(batch).timer \in known
    BY FirstIsKnown
  <2>4. QED
    BY <2>1, <2>2, <2>3 DEF BackendPointersValid
<1>2. QED
  BY <1>1, SpecIInv, PTL
=============================================================================
