------------------------------- MODULE Timers -------------------------------
(***************************************************************************)
(* timer_manager and unique_timer (srsRAN/lib/support/timers.cpp), the     *)
(* timer service of every component of the gNB, the E2 agent included.     *)
(*                                                                         *)
(* A timer has a front-end, used only by the thread of its owner, and a    *)
(* back-end, used only by the thread that calls tick().  The front-end     *)
(* sends commands through a queue; the back-end answers by dispatching an  *)
(* expiry to the owner's executor.  Neither locks the other out: cmd_id    *)
(* tells whether an expiry still belongs to the current run of the timer.  *)
(*                                                                         *)
(* A front-end operation takes two steps, since the back-end can read      *)
(* cmd_id between its increment and the push of the command.  tick() takes *)
(* one step per command, per postponed timeout and per timer in the wheel  *)
(* bucket.  Expiries run in any order: the executors of different owners   *)
(* are not ordered, and a reused timer can have a new owner.               *)
(***************************************************************************)
EXTENDS Naturals, Sequences, FiniteSets

CONSTANTS
  Timers,       \* timer ids
  Reserved,     \* those created by the constructor of timer_manager
  Durations,    \* durations an owner can set
  WheelSize,    \* WHEEL_SIZE
  TimeMod,      \* 2^32: cur_time and timeouts are unsigned
  ExecCapacity, \* expiries the executors can hold
  MaxCmdId      \* bound: commands issued for each timer

ASSUME TimersAssumption ==
  /\ IsFiniteSet(Timers)
  /\ Reserved \subseteq Timers
  /\ WheelSize \in Nat \ {0}
  /\ TimeMod \in Nat \ {0}
  /\ Durations \subseteq 0..((TimeMod - 1) \div 2)   \* MAX_TIMER_DURATION
  /\ ExecCapacity \in Nat \ {0}
  /\ MaxCmdId \in [Timers -> Nat]

VARIABLES
  (* front-end, one per timer *)
  owned,      \* a unique_timer refers to the timer
  has_exec,   \* frontend->exec # nullptr
  fe_id,      \* frontend->cmd_id
  fe_state,   \* frontend->state
  duration,   \* frontend->duration; 0 stands for a duration that was not set
  is_set,     \* frontend->duration # INVALID_DURATION
  op,         \* command between the increment of cmd_id and its push, or NoOp
  (* back-end *)
  known,      \* timers with a handle in the back-end
  be_id,      \* backend.cmd_id
  be_state,   \* backend.state
  timeout,    \* backend.timeout
  free,       \* timer_pool
  cur_time,
  batch,      \* cmds_to_process
  failed,     \* failed_to_trigger_timers
  todo,       \* timers of the wheel bucket that tick() has still to visit
  tick_pc,    \* where tick() is
  (* between the threads *)
  pending,    \* pending_cmds
  expiries,   \* expiries dispatched to executors and not yet run
  (* history *)
  left        \* ticks the current run has left, counted without wheel or wrap

frontend == <<owned, has_exec, fe_id, fe_state, duration, is_set, op>>
backend == <<known, be_id, be_state, timeout, free, cur_time, batch, failed,
             todo, tick_pc>>
vars == <<frontend, backend, pending, expiries, left>>

States == {"stopped", "running", "expired"}
Cmds == [timer : Timers, id : Nat, action : {"start", "stop", "destroy", "create"},
         dur : Nat]
Cmd(t, id, action, d) == [timer |-> t, id |-> id, action |-> action, dur |-> d]
NoOp == [action |-> "none"]
Expiry(t, id) == [timer |-> t, id |-> id]
Expiries == [timer : Timers, id : Nat]

TypeOK ==
  /\ owned \in [Timers -> BOOLEAN]
  /\ has_exec \in [Timers -> BOOLEAN]
  /\ fe_id \in [Timers -> Nat]
  /\ fe_state \in [Timers -> States]
  /\ duration \in [Timers -> Nat]
  /\ is_set \in [Timers -> BOOLEAN]
  /\ op \in [Timers -> Cmds \cup {NoOp}]
  /\ known \subseteq Timers
  /\ be_id \in [Timers -> Nat]
  /\ be_state \in [Timers -> States]
  /\ timeout \in [Timers -> Nat]
  /\ free \subseteq Timers
  /\ cur_time \in Nat
  /\ batch \in Seq(Cmds)
  /\ failed \in Seq(Expiries)
  /\ todo \subseteq Timers
  /\ tick_pc \in {"idle", "cmds", "postponed", "expire"}
  /\ pending \in Seq(Cmds)
  /\ expiries \subseteq Expiries
  /\ left \in [Timers -> Nat]

Init ==
  /\ owned = [t \in Timers |-> FALSE]
  /\ has_exec = [t \in Timers |-> FALSE]
  /\ fe_id = [t \in Timers |-> 0]
  /\ fe_state = [t \in Timers |-> "stopped"]
  /\ duration = [t \in Timers |-> 0]
  /\ is_set = [t \in Timers |-> FALSE]
  /\ op = [t \in Timers |-> NoOp]
  /\ known = Reserved
  /\ be_id = [t \in Timers |-> 0]
  /\ be_state = [t \in Timers |-> "stopped"]
  /\ timeout = [t \in Timers |-> 0]
  /\ free = Reserved
  /\ cur_time = 0
  /\ batch = << >>
  /\ failed = << >>
  /\ todo = {}
  /\ tick_pc = "idle"
  /\ pending = << >>
  /\ expiries = {}
  /\ left = [t \in Timers |-> 0]

Max1(d) == IF d = 0 THEN 1 ELSE d

-----------------------------------------------------------------------------
(* Front-end: create_frontend_timer.                                       *)

CreateFromPool(t) ==
  /\ t \in free
  /\ free' = free \ {t}
  /\ owned' = [owned EXCEPT ![t] = TRUE]
  /\ has_exec' = [has_exec EXCEPT ![t] = TRUE]
  /\ UNCHANGED <<fe_id, fe_state, duration, is_set, op, known, be_id, be_state,
                 timeout, cur_time, batch, failed, todo, tick_pc, pending,
                 expiries, left>>

(* The pool is empty: a new handle is sent to the back-end.                *)
CreateNew(t) ==
  /\ free = {}
  /\ t \notin known
  /\ ~owned[t]
  /\ fe_id[t] = 0
  /\ owned' = [owned EXCEPT ![t] = TRUE]
  /\ has_exec' = [has_exec EXCEPT ![t] = TRUE]
  /\ pending' = Append(pending, Cmd(t, 0, "create", 0))
  /\ UNCHANGED <<fe_id, fe_state, duration, is_set, op, backend, expiries, left>>

(* The operations of timer_frontend.  Each increments cmd_id, changes the  *)
(* state and leaves the command it will push in op.                        *)
Idle(t) == owned[t] /\ op[t] = NoOp /\ fe_id[t] < MaxCmdId[t]
Bump(t) == fe_id' = [fe_id EXCEPT ![t] = @ + 1]

SetTimer(t, d) ==
  /\ Idle(t)
  /\ Bump(t)
  /\ duration' = [duration EXCEPT ![t] = d]
  /\ is_set' = [is_set EXCEPT ![t] = TRUE]
  /\ op' = IF fe_state[t] = "running"
           THEN [op EXCEPT ![t] = Cmd(t, fe_id[t] + 1, "start", d)]
           ELSE op
  /\ UNCHANGED <<owned, has_exec, fe_state, backend, pending, expiries, left>>

RunTimer(t) ==
  /\ Idle(t)
  /\ is_set[t]
  /\ Bump(t)
  /\ fe_state' = [fe_state EXCEPT ![t] = "running"]
  /\ op' = [op EXCEPT ![t] = Cmd(t, fe_id[t] + 1, "start", duration[t])]
  /\ UNCHANGED <<owned, has_exec, duration, is_set, backend, pending, expiries, left>>

(* Mutant of StopTimer: cmd_id is not incremented.                         *)
StopTimerSameId(t) ==
  /\ Idle(t)
  /\ fe_state[t] = "running"
  /\ fe_state' = [fe_state EXCEPT ![t] = "stopped"]
  /\ op' = [op EXCEPT ![t] = Cmd(t, fe_id[t], "stop", 0)]
  /\ UNCHANGED <<owned, has_exec, fe_id, duration, is_set, backend, pending, expiries,
                 left>>

StopTimer(t) ==
  /\ Idle(t)
  /\ fe_state[t] = "running"
  /\ Bump(t)
  /\ fe_state' = [fe_state EXCEPT ![t] = "stopped"]
  /\ op' = [op EXCEPT ![t] = Cmd(t, fe_id[t] + 1, "stop", 0)]
  /\ UNCHANGED <<owned, has_exec, duration, is_set, backend, pending, expiries, left>>

(* Mutant of DestroyTimer: cmd_id is not incremented.                      *)
DestroyTimerSameId(t) ==
  /\ Idle(t)
  /\ fe_state' = [fe_state EXCEPT ![t] = "stopped"]
  /\ op' = [op EXCEPT ![t] = Cmd(t, fe_id[t], "destroy", 0)]
  /\ owned' = [owned EXCEPT ![t] = FALSE]
  /\ UNCHANGED <<has_exec, fe_id, duration, is_set, backend, pending, expiries, left>>

DestroyTimer(t) ==
  /\ Idle(t)
  /\ Bump(t)
  /\ fe_state' = [fe_state EXCEPT ![t] = "stopped"]
  /\ op' = [op EXCEPT ![t] = Cmd(t, fe_id[t] + 1, "destroy", 0)]
  /\ owned' = [owned EXCEPT ![t] = FALSE]
  /\ UNCHANGED <<has_exec, duration, is_set, backend, pending, expiries, left>>

(* Mutant of PushCommand: a command is pushed also when there is none.     *)
PushAlways(t) ==
  /\ pending' = Append(pending, op[t])
  /\ op' = [op EXCEPT ![t] = NoOp]
  /\ UNCHANGED <<owned, has_exec, fe_id, fe_state, duration, is_set, backend,
                 expiries, left>>

PushCommand(t) ==
  /\ op[t] # NoOp
  /\ pending' = Append(pending, op[t])
  /\ op' = [op EXCEPT ![t] = NoOp]
  /\ UNCHANGED <<owned, has_exec, fe_id, fe_state, duration, is_set, backend,
                 expiries, left>>

(* The dispatched task of trigger_timeout_handling.  The callback of the   *)
(* owner is whatever the owner does next.                                  *)
RunExpiry(e) ==
  /\ e \in expiries
  /\ expiries' = expiries \ {e}
  /\ fe_state' = IF fe_id[e.timer] = e.id
                 THEN [fe_state EXCEPT ![e.timer] = "expired"]
                 ELSE fe_state
  /\ UNCHANGED <<owned, has_exec, fe_id, duration, is_set, op, backend, pending, left>>

-----------------------------------------------------------------------------
(* Back-end: the steps of tick().                                          *)

TickBegin ==
  /\ tick_pc = "idle"
  /\ batch' = pending
  /\ pending' = << >>
  /\ tick_pc' = "cmds"
  /\ UNCHANGED <<frontend, known, be_id, be_state, timeout, free, cur_time, failed,
                 todo, expiries, left>>

(* create_timer_handle.                                                    *)
ProcessCreate(c) ==
  /\ c.action = "create"
  /\ known' = known \cup {c.timer}
  /\ UNCHANGED <<has_exec, fe_state, duration, is_set, be_id, be_state, timeout, free, left>>

(* Mutant of ProcessStart: a duration of zero is not raised to one tick.   *)
ProcessStartExact(c) ==
  /\ c.action = "start"
  /\ be_id' = [be_id EXCEPT ![c.timer] = c.id]
  /\ be_state' = [be_state EXCEPT ![c.timer] = "running"]
  /\ timeout' = [timeout EXCEPT ![c.timer] = (cur_time + c.dur) % TimeMod]
  /\ left' = [left EXCEPT ![c.timer] = Max1(c.dur)]
  /\ UNCHANGED <<has_exec, fe_state, duration, is_set, known, free>>

(* Every other command adopts the cmd_id and stops the run in progress.    *)
ProcessStart(c) ==
  /\ c.action = "start"
  /\ be_id' = [be_id EXCEPT ![c.timer] = c.id]
  /\ be_state' = [be_state EXCEPT ![c.timer] = "running"]
  /\ timeout' = [timeout EXCEPT ![c.timer] = (cur_time + Max1(c.dur)) % TimeMod]
  /\ left' = [left EXCEPT ![c.timer] = Max1(c.dur)]
  /\ UNCHANGED <<has_exec, fe_state, duration, is_set, known, free>>

StoppedBackend(t) == IF be_state[t] = "running" THEN "stopped" ELSE be_state[t]

ProcessStop(c) ==
  /\ c.action = "stop"
  /\ be_id' = [be_id EXCEPT ![c.timer] = c.id]
  /\ be_state' = [be_state EXCEPT ![c.timer] = StoppedBackend(c.timer)]
  /\ UNCHANGED <<has_exec, fe_state, duration, is_set, known, timeout, free, left>>

(* Mutant of ProcessDestroy: the back-end keeps running.                   *)
ProcessDestroyRunning(c) ==
  /\ c.action = "destroy"
  /\ be_id' = [be_id EXCEPT ![c.timer] = c.id]
  /\ has_exec' = [has_exec EXCEPT ![c.timer] = FALSE]
  /\ fe_state' = [fe_state EXCEPT ![c.timer] = "stopped"]
  /\ duration' = [duration EXCEPT ![c.timer] = 0]
  /\ is_set' = [is_set EXCEPT ![c.timer] = FALSE]
  /\ free' = free \cup {c.timer}
  /\ UNCHANGED <<be_state, timeout, known, left>>

(* destroy_timer_backend clears the front-end and frees the timer.         *)
ProcessDestroy(c) ==
  /\ c.action = "destroy"
  /\ be_id' = [be_id EXCEPT ![c.timer] = c.id]
  /\ be_state' = [be_state EXCEPT ![c.timer] = "stopped"]
  /\ timeout' = [timeout EXCEPT ![c.timer] = 0]
  /\ has_exec' = [has_exec EXCEPT ![c.timer] = FALSE]
  /\ fe_state' = [fe_state EXCEPT ![c.timer] = "stopped"]
  /\ duration' = [duration EXCEPT ![c.timer] = 0]
  /\ is_set' = [is_set EXCEPT ![c.timer] = FALSE]
  /\ free' = free \cup {c.timer}
  /\ UNCHANGED <<known, left>>

TickCommand ==
  /\ tick_pc = "cmds"
  /\ batch # << >>
  /\ LET c == Head(batch)
     IN  ProcessCreate(c) \/ ProcessStart(c) \/ ProcessStop(c) \/ ProcessDestroy(c)
  /\ batch' = Tail(batch)
  /\ UNCHANGED <<owned, fe_id, op, cur_time, failed, todo, tick_pc, pending, expiries>>

TickCommandsDone ==
  /\ tick_pc = "cmds"
  /\ batch = << >>
  /\ tick_pc' = "postponed"
  /\ UNCHANGED <<frontend, known, be_id, be_state, timeout, free, cur_time, batch,
                 failed, todo, pending, expiries, left>>

(* handle_postponed_timeouts: one entry per step.                          *)
ExecHasRoom == Cardinality(expiries) < ExecCapacity
StillCurrent(e) == be_id[e.timer] = e.id /\ be_id[e.timer] = fe_id[e.timer]

(* Mutant of TickPostponed: an entry is removed although the executor      *)
(* refused it again.                                                       *)
TickPostponedDrops ==
  /\ tick_pc = "postponed"
  /\ failed # << >>
  /\ expiries' = IF StillCurrent(Head(failed)) /\ ExecHasRoom
                 THEN expiries \cup {Head(failed)}
                 ELSE expiries
  /\ failed' = Tail(failed)
  /\ UNCHANGED <<frontend, known, be_id, be_state, timeout, free, cur_time, batch,
                 todo, tick_pc, pending, left>>

TickPostponed ==
  /\ tick_pc = "postponed"
  /\ failed # << >>
  /\ StillCurrent(Head(failed)) => ExecHasRoom
  /\ expiries' = IF StillCurrent(Head(failed))
                 THEN expiries \cup {Head(failed)}
                 ELSE expiries
  /\ failed' = Tail(failed)
  /\ UNCHANGED <<frontend, known, be_id, be_state, timeout, free, cur_time, batch,
                 todo, tick_pc, pending, left>>

(* The list is empty or its first entry cannot be dispatched: time goes on.*)
TickAdvance ==
  /\ tick_pc = "postponed"
  /\ failed # << >> => StillCurrent(Head(failed)) /\ ~ExecHasRoom
  /\ cur_time' = (cur_time + 1) % TimeMod
  /\ left' = [t \in Timers |-> IF be_state[t] = "running" /\ left[t] > 0
                              THEN left[t] - 1 ELSE left[t]]
  /\ todo' = {t \in Timers : be_state[t] = "running"
                             /\ timeout[t] % WheelSize = cur_time' % WheelSize}
  /\ tick_pc' = "expire"
  /\ UNCHANGED <<frontend, known, be_id, be_state, timeout, free, batch, failed,
                 pending, expiries>>

(* A timer of the bucket that does not expire in this tick.                *)
TickSkip(t) ==
  /\ tick_pc = "expire"
  /\ t \in todo
  /\ timeout[t] # cur_time
  /\ todo' = todo \ {t}
  /\ UNCHANGED <<frontend, known, be_id, be_state, timeout, free, cur_time, batch,
                 failed, tick_pc, pending, expiries, left>>

(* Mutant of TickExpire: an expiry the executor refuses is not postponed.  *)
TickExpireDrops(t) ==
  /\ tick_pc = "expire"
  /\ t \in todo
  /\ timeout[t] = cur_time
  /\ todo' = todo \ {t}
  /\ be_state' = [be_state EXCEPT ![t] = "expired"]
  /\ expiries' = IF be_id[t] = fe_id[t] /\ ExecHasRoom
                 THEN expiries \cup {Expiry(t, be_id[t])} ELSE expiries
  /\ UNCHANGED <<frontend, known, be_id, timeout, free, cur_time, batch, failed, tick_pc,
                 pending, left>>

(* stop_timer_backend(timer, true): the expiry is dispatched if the timer  *)
(* has no newer command, and postponed if the executor is full.            *)
TickExpire(t) ==
  LET current == be_id[t] = fe_id[t]
      e == Expiry(t, be_id[t])
  IN  /\ tick_pc = "expire"
      /\ t \in todo
      /\ timeout[t] = cur_time
      /\ todo' = todo \ {t}
      /\ be_state' = [be_state EXCEPT ![t] = "expired"]
      /\ expiries' = IF current /\ ExecHasRoom THEN expiries \cup {e} ELSE expiries
      /\ failed' = IF current /\ ~ExecHasRoom THEN Append(failed, e) ELSE failed
      /\ UNCHANGED <<frontend, known, be_id, timeout, free, cur_time, batch, tick_pc,
                     pending, left>>

TickEnd ==
  /\ tick_pc = "expire"
  /\ todo = {}
  /\ tick_pc' = "idle"
  /\ UNCHANGED <<frontend, known, be_id, be_state, timeout, free, cur_time, batch,
                 failed, todo, pending, expiries, left>>

-----------------------------------------------------------------------------
Owner(t) ==
  \/ CreateFromPool(t) \/ CreateNew(t)
  \/ \E d \in Durations : SetTimer(t, d)
  \/ RunTimer(t) \/ StopTimer(t) \/ DestroyTimer(t) \/ PushCommand(t)

Tick ==
  \/ TickBegin \/ TickCommand \/ TickCommandsDone \/ TickPostponed \/ TickAdvance
  \/ \E t \in Timers : TickSkip(t) \/ TickExpire(t)
  \/ TickEnd

Next ==
  \/ \E t \in Timers : Owner(t)
  \/ \E e \in expiries : RunExpiry(e)
  \/ Tick

Spec == Init /\ [][Next]_vars

(* The clock source keeps ticking, an operation that began completes and   *)
(* executors run what was dispatched to them.                              *)
FairSpec ==
  /\ Spec
  /\ WF_vars(Tick)
  /\ \A t \in Timers : WF_vars(PushCommand(t))
  /\ WF_vars(\E e \in expiries : RunExpiry(e))

-----------------------------------------------------------------------------
(* Properties.                                                             *)

Queued(q, t, id, action) ==
  \E i \in DOMAIN q : q[i].timer = t /\ q[i].id = id /\ q[i].action = action

(* trigger_timeout_handling asserts that a timer "can only expire if it    *)
(* was already running": an expiry that still matches the cmd_id of its    *)
(* timer always finds the timer running, however stop, restart, destroy    *)
(* and reuse of the timer interleave with tick().                          *)
ExpiryFindsRunning ==
  \A e \in expiries : e.id = fe_id[e.timer] => fe_state[e.timer] = "running"

(* No timeout is lost: for every timer its owner sees running, the timeout *)
(* of its current run is still to come: the start command is on its way,   *)
(* the back-end counts, or the expiry was dispatched or postponed.         *)
NoLostTimeout ==
  \A t \in Timers : fe_state[t] = "running" =>
    \/ op[t] = Cmd(t, fe_id[t], "start", duration[t])
    \/ Queued(pending, t, fe_id[t], "start")
    \/ Queued(batch, t, fe_id[t], "start")
    \/ /\ be_id[t] = fe_id[t]
       /\ \/ be_state[t] = "running"
          \/ Expiry(t, fe_id[t]) \in expiries
          \/ \E i \in DOMAIN failed : failed[i] = Expiry(t, fe_id[t])

(* A timer in the pool is at rest: it counts no time, no command about it  *)
(* is on its way, and no expiry can reach the owner that takes it next     *)
(* ("Reassignment of timer detected", "Destroying timer that is running"). *)
PooledIsAtRest ==
  \A t \in free :
    /\ ~owned[t] /\ ~has_exec[t] /\ op[t] = NoOp /\ t \in known
    /\ fe_state[t] = "stopped" /\ be_state[t] # "running"
    /\ \A i \in DOMAIN pending : pending[i].timer # t
    /\ \A i \in DOMAIN batch : batch[i].timer # t
    /\ \A e \in expiries : e.timer = t => e.id # fe_id[t]

(* tick() dispatches through frontend->exec and finds every timer it has a *)
(* command for: neither pointer is null when it is used.                   *)
BackendPointersValid ==
  /\ \A t \in Timers : be_state[t] = "running" => has_exec[t]
  /\ \A i \in DOMAIN failed : StillCurrent(failed[i]) => has_exec[failed[i].timer]
  /\ batch # << >> => Head(batch).action = "create" \/ Head(batch).timer \in known

(* A run lasts as many ticks as its duration says, at least one, also when *)
(* several laps of the wheel or the wrap of cur_time lie in between: it    *)
(* expires neither early nor late.                                         *)
ExpiresOnTime ==
  \A t \in Timers :
    /\ be_state[t] = "expired" => left[t] = 0
    /\ be_state[t] = "running" => left[t] > 0 \/ t \in todo

(* A timer that runs eventually stops running: its expiry reaches the      *)
(* owner, unless the owner stops, restarts or destroys it.                 *)
TimeoutDelivered ==
  \A t \in Timers : fe_state[t] = "running" ~> fe_state[t] # "running"
=============================================================================
