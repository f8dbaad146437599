--------------------------- MODULE MCCronService ----------------------------
(***************************************************************************)
(* CronService for TLC.  A cron expression is the number of time units     *)
(* between its ticks, 0 being one that gronx rejects.                      *)
(***************************************************************************)
EXTENDS CronService

MCNextTickAfter(e, t) == IF e = 0 THEN NoTime ELSE ((t \div e) + 1) * e

At(t)    == [kind |-> "at", at |-> t]
Every(p) == [kind |-> "every", every |-> p]
Expr(e)  == [kind |-> "cron", expr |-> e]

\* A reminder for the next unit and one for right now, which never fires; a
\* period, and one that is not positive; a cron expression, and a malformed
\* one.  The second job is of the schedules that fire.
AllInputs(t) == IF t = 0 THEN {At(t), At(t + 1), Every(1), Every(-1), Expr(2), Expr(0)}
                         ELSE {At(t + 1), Every(1)}

\* Reminders only, for times the clock reaches.
Reminders(t) == {At(t + 1)} \cap {At(u) : u \in Times}
=============================================================================
