------------------------------- MODULE CronCli ------------------------------
(***************************************************************************)
(* `picoclaw cron add|remove|enable|disable` beside the gateway.  The      *)
(* command is a process of its own (cmd/picoclaw/main.go): it loads        *)
(* jobs.json into a CronService that is never started, applies one         *)
(* operation and saves its store, all of it, over the file.  There is no   *)
(* lock between the processes, and the gateway never reads the file again: *)
(* it overwrites it at every tick.                                         *)
(***************************************************************************)
EXTENDS CronService

CONSTANTS
  NoStore,          (* no command is running                                *)
  MaxCommands       (* bound on the number of commands                      *)

VARIABLES
  cli,              (* the store the running command has loaded             *)
  commands,         (* the counter of the bound                             *)
  told              (* history: the ids a command said it added while the   *)
                    (* gateway ran, which it has not come to know and no    *)
                    (* command has removed                                  *)

cliVars == <<cli, commands, told>>
allVars == <<vars, cliVars>>

CliInit == Init /\ cli = NoStore /\ commands = 0 /\ told = {}

\* NewCronService drops the error of loadStore: a file that does not parse is
\* taken for an empty one.  While the gateway is up the command may read in
\* the middle of one of its writes.
Load ==
  /\ cli = NoStore /\ commands < MaxCommands
  /\ commands' = commands + 1
  /\ \/ file # Torn /\ cli' = file
     \/ (file = Torn \/ Up) /\ cli' = EmptyStore
  /\ UNCHANGED <<vars, told>>

\* The operation and its save; the command then ends.
CliAdd(s) ==
  /\ cli # NoStore /\ nextId =< MaxJobs
  /\ nextId' = nextId + 1
  /\ ledger' = [ledger EXCEPT ![nextId] = [sched |-> s, since |-> now]]
  /\ Save([cli EXCEPT ![nextId] = NewJob(s, now)])
  /\ told' = IF running /\ faults' = faults THEN told \cup {nextId} ELSE told
  /\ cli' = NoStore
  /\ UNCHANGED <<now, proc, running, mem, due, cur, exits, commands>>

CliRemove(id) ==
  /\ cli # NoStore /\ id \in Present(cli)
  /\ Save(Removed(cli, id))
  /\ told' = told \ {id}
  /\ cli' = NoStore
  /\ UNCHANGED <<now, proc, running, mem, due, cur, nextId, exits, ledger, commands>>

CliEnable(id, on) ==
  /\ cli # NoStore /\ id \in Present(cli)
  /\ Save(Switched(cli, id, on, now))
  /\ cli' = NoStore
  /\ UNCHANGED <<now, proc, running, mem, due, cur, nextId, exits, ledger, commands, told>>

\* The id is not found, or the command is interrupted: nothing is written.
CliQuit ==
  /\ cli # NoStore
  /\ cli' = NoStore
  /\ UNCHANGED <<vars, commands, told>>

\* The command offers no one-time jobs.
CliInputs == {s \in Inputs(now) : s.kind # "at"}

CliNext ==
  \/ Next /\ told' = told \ Present(mem') /\ UNCHANGED <<cli, commands>>
  \/ Load
  \/ \E s \in CliInputs : CliAdd(s)
  \/ \E id \in Ids : \/ CliRemove(id)
                     \/ \E on \in Switches : CliEnable(id, on)
  \/ CliQuit

\* The gateway is as fair as it is alone; commands are under no obligation.
CliSpec     == CliInit /\ [][CliNext]_allVars
CliFairSpec == CliSpec /\ Fairness

-----------------------------------------------------------------------------
\* The running gateway has the last word: a command changes the file under it
\* only until the next tick.
GatewayWins == (running /\ file # mem) ~> (~running \/ file = mem)

\* README.md:482, "Add a scheduled job", and README.md:492, "Jobs are stored in
\* ~/.picoclaw/workspace/cron/ and processed automatically": a job that the
\* command said it added while the gateway runs comes to the gateway's
\* knowledge, unless a command removes it.
CliAddProcessed == \A id \in Ids : (id \in told) ~> (id \notin told)
=============================================================================
