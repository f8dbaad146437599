---------------------------- MODULE CronSchedule ----------------------------
(***************************************************************************)
(* Schedules of pkg/cron and the function that computes the next firing    *)
(* time of one.  Time is counted in abstract units (the code counts        *)
(* milliseconds since the epoch and looks at the clock once a second).     *)
(*                                                                         *)
(* A cron expression is evaluated by the external library gronx; it is the *)
(* constant operator NextTickAfter, of which only what its documentation   *)
(* and its use in service.go promise is assumed.                           *)
(***************************************************************************)
EXTENDS Integers

CONSTANTS
  MaxTime,              (* bound on the clock                               *)
  MaxJobs,              (* bound on the number of jobs ever created         *)
  Exprs,                (* the cron expressions in use, the empty and the   *)
                        (* malformed ones included                          *)
  NextTickAfter(_, _),  (* gronx: first tick of an expression strictly      *)
                        (* after a time, NoTime for one gronx rejects       *)
  NoTime                (* a nil *int64                                     *)

Times == 0 .. MaxTime
Ids   == 1 .. MaxJobs
OptTime == Nat \cup {NoTime}

ASSUME BoundsAssumption == MaxTime \in Nat /\ MaxJobs \in Nat

ASSUME NoTimeAssumption == NoTime \notin Int

\* The next tick is strictly later than the time asked about, and asking from
\* an earlier time gives an earlier tick or the same one.
ASSUME TickAssumption ==
  \A e \in Exprs, t \in Times :
    /\ NextTickAfter(e, t) \in OptTime
    /\ NextTickAfter(e, t) # NoTime =>
         /\ NextTickAfter(e, t) > t
         /\ \A s \in 0 .. t : /\ NextTickAfter(e, s) # NoTime
                              /\ NextTickAfter(e, s) =< NextTickAfter(e, t)

\* type CronSchedule: one of AtMS, EveryMS and Expr is meaningful.
AtSchedule    == [kind : {"at"},    at : Nat]
EverySchedule == [kind : {"every"}, every : Int]
ExprSchedule  == [kind : {"cron"},  expr : Exprs]
Schedule      == AtSchedule \cup EverySchedule \cup ExprSchedule

\* Mutants: a period that is not checked, and a time that is still good now.
ComputeNextRun_Unchecked(s, now) ==
  CASE s.kind = "at"    -> IF s.at > now THEN s.at ELSE NoTime
    [] s.kind = "every" -> now + s.every
    [] s.kind = "cron"  -> NextTickAfter(s.expr, now)

ComputeNextRun_AtNow(s, now) ==
  CASE s.kind = "at"    -> IF s.at >= now THEN s.at ELSE NoTime
    [] s.kind = "every" -> IF s.every > 0 THEN now + s.every ELSE NoTime
    [] s.kind = "cron"  -> NextTickAfter(s.expr, now)

\* A one-time job fires at its time if that is still ahead; a period counts
\* from now; a period that is not positive never fires.
ComputeNextRun(s, now) ==
  CASE s.kind = "at"    -> IF s.at > now THEN s.at ELSE NoTime
    [] s.kind = "every" -> IF s.every > 0 THEN now + s.every ELSE NoTime
    [] s.kind = "cron"  -> NextTickAfter(s.expr, now)
=============================================================================
