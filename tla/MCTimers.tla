------------------------------ MODULE MCTimers ------------------------------
(* Two timers: one is reused by owner after owner and runs, on an executor *)
(* with room for one expiry; the other is created outside the pool, so its *)
(* handle goes through the queue of commands, and is then set or destroyed *)
(* into the pool.  cur_time wraps after eight ticks and the wheel has two  *)
(* buckets, so that a duration of three ticks makes a lap and a half.      *)

EXTENDS Timers, TLC

CONSTANTS t1, t2

TwoTimers == {t1, t2}
Pooled == {t1}
LapDurations == {0, 3}
MCMaxCmdId == (t1 :> 3) @@ (t2 :> 1)
=============================================================================
