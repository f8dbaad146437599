---------------------------- MODULE CronPromise -----------------------------
(***************************************************************************)
(* What the scheduler promises about the starts of jobs, whatever happens  *)
(* to the process that schedules them: a one-time job starts at most once  *)
(* and never before its time, two starts of a periodic job are at least    *)
(* its period apart, and a cron expression has a tick between any two      *)
(* starts.  No job starts that was not submitted.                          *)
(***************************************************************************)
EXTENDS CronSchedule

CONSTANT NoEntry        (* the ledger's value for an id not yet given       *)

VARIABLES
  now,                  (* the clock                                        *)
  ledger                (* per job: its schedule and when it was submitted  *)
                        (* or last started, whichever is later              *)

promiseVars == <<now, ledger>>

Entry == [sched : Schedule, since : Times]

\* A start of the job with entry e at time t keeps the promise.
MayStart(e, t) ==
  \/ e.sched.kind = "at"    /\ e.since < e.sched.at /\ e.sched.at =< t
  \/ e.sched.kind = "every" /\ e.sched.every > 0 /\ e.since + e.sched.every =< t
  \/ e.sched.kind = "cron"  /\ \E tick \in e.since + 1 .. t :
                                  tick = NextTickAfter(e.sched.expr, e.since)

Init == now = 0 /\ ledger = [id \in Ids |-> NoEntry]

Advance == now < MaxTime /\ now' = now + 1 /\ UNCHANGED ledger

Submit(id) ==
  /\ ledger[id] = NoEntry
  /\ ledger'[id] \in Entry /\ ledger'[id].since = now
  /\ ledger' = [ledger EXCEPT ![id] = ledger'[id]]
  /\ UNCHANGED now

StartJob(id) ==
  /\ ledger[id] # NoEntry
  /\ MayStart(ledger[id], now)
  /\ ledger' = [ledger EXCEPT ![id].since = now]
  /\ UNCHANGED now

Next ==
  \/ Advance
  \/ \E id \in Ids : Submit(id) \/ StartJob(id)

Spec == Init /\ [][Next]_promiseVars
=============================================================================
