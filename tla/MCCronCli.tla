------------------------------ MODULE MCCronCli ------------------------------
(***************************************************************************)
(* CronCli for TLC, with the schedules of MCCronService.                   *)
(***************************************************************************)
EXTENDS CronCli

MCNextTickAfter(e, t) == IF e = 0 THEN NoTime ELSE ((t \div e) + 1) * e

\* A reminder and a period: the command adds only the second.
CliTestInputs(t) == {[kind |-> "at", at |-> t + 1], [kind |-> "every", every |-> 1]}

\* Periods only.
PeriodInputs(t) == {[kind |-> "every", every |-> 1]}
=============================================================================
