---------------------------- MODULE CronCliProofs ---------------------------
(***************************************************************************)
(* The promise of CronPromise holds with the commands beside the gateway,  *)
(* for every number of commands, jobs, crashes and failed writes, though   *)
(* both processes write jobs.json without a lock: whichever writes last,   *)
(* what the file holds under an id is the job that was submitted as that   *)
(* id.                                                                     *)
(***************************************************************************)
EXTENDS CronCli, CronServiceProofs

USE BoundsAssumption, LimitsAssumption, NoTimeAssumption, SentinelAssumption

\* The command's copy of the file is as good as the file: it may be out of date,
\* but every job in it was submitted with the schedule it has.
CliInv == PromiseInv /\ (cli # NoStore => cli \in Store /\ AsSubmitted(cli))

\* A command is about to save a store, and no job is submitted.
LEMMA SaveStep ==
  ASSUME PromiseInv, NEW store \in Store, AsSubmitted(store), Save(store),
         UNCHANGED <<now, proc, running, mem, due, cur, nextId, exits, ledger>>
  PROVE  PromiseInv'
<1>1. TypeOK'
  BY SaveType DEF PromiseInv, TypeOK
<1>2. (file # Torn => AsSubmitted(file))'
  BY SaveKeepsSchedules DEF PromiseInv
<1>3. QED
  BY <1>1, <1>2 DEF PromiseInv, LedgerOK, AsSubmitted, NextMayStart, DueMayStart

LEMMA AddStep ==
  ASSUME CliInv, NEW s \in CliInputs, CliAdd(s)
  PROVE  CliInv' /\ Promise!Next
<1>. USE DEF CliInv, PromiseInv
<1>1. /\ mem \in Store /\ now \in Times /\ s \in Schedule /\ s \in Inputs(now)
      /\ cli \in Store /\ AsSubmitted(cli)
  BY InputsAssumption DEF TypeOK, CliAdd, CliInputs
<1>2. nextId \in Ids /\ ledger[nextId] = NoEntry /\ mem[nextId] = NoJob
  BY <1>1 DEF TypeOK, CliAdd, Ids, LedgerOK, AsSubmitted, Present
<1>. DEFINE store == [cli EXCEPT ![nextId] = NewJob(s, now)]
<1>3. /\ Save(store) /\ cli' = NoStore
      /\ ledger' = [ledger EXCEPT ![nextId] = [sched |-> s, since |-> now]]
      /\ nextId' = nextId + 1 /\ UNCHANGED <<now, proc, running, mem, due, cur, exits>>
  BY DEF CliAdd
<1>4. /\ \A id \in Ids \ {nextId} : ledger'[id] = ledger[id] /\ store[id] = cli[id]
      /\ ledger'[nextId] = [sched |-> s, since |-> now]
      /\ store[nextId] = NewJob(s, now) /\ NewJob(s, now).sched = s
  BY <1>1, <1>2, <1>3 DEF TypeOK, Store, NewJob
<1>5. [sched |-> s, since |-> now] \in Entry /\ ledger'[nextId] # NoEntry
  BY <1>1, <1>4 DEF Entry
<1>6. store \in Store
  BY <1>1, <1>2, NewJobType DEF Store
<1>7. TypeOK'
  <2>1. file' \in Store \cup {Torn} /\ faults' \in 0 .. MaxFaults
    BY <1>3, <1>6, SaveType
  <2>2. nextId' \in 1 .. MaxJobs + 1
    BY <1>2, <1>3 DEF Ids
  <2>3. ledger' \in [Ids -> Entry \cup {NoEntry}]
    BY <1>2, <1>3, <1>5 DEF TypeOK
  <2>4. QED
    BY <1>3, <2>1, <2>2, <2>3 DEF TypeOK
<1>8. LedgerOK'
  BY <1>1, <1>2, <1>3, <1>4, <1>5, TimesAreNat DEF LedgerOK, TypeOK, Ids
<1>9. AsSubmitted(mem)'
  BY <1>2, <1>3, <1>4 DEF AsSubmitted, Present
<1>. HIDE DEF store
<1>10. (file # Torn => AsSubmitted(file))'
  <2>1. ASSUME file # Torn PROVE \A id \in Present(file) : /\ ledger'[id] # NoEntry
                                                          /\ file[id].sched = ledger'[id].sched
    BY <1>2, <1>4, <2>1 DEF AsSubmitted, Present
  <2>2. \A id \in Present(store) : ledger'[id] # NoEntry /\ store[id].sched = ledger'[id].sched
    BY <1>1, <1>4, <1>5 DEF AsSubmitted, Present
  <2>3. QED
    BY <1>3, <2>1, <2>2 DEF Save, AsSubmitted, Present
<1>11. NextMayStart'
  BY <1>2, <1>3, <1>4 DEF NextMayStart, Present
<1>12. DueMayStart' /\ (cur # NoId => ledger[cur] # NoEntry)'
  BY <1>2, <1>3, <1>4 DEF DueMayStart, TypeOK
<1>13. Promise!Submit(nextId)
  <2>1. ledger'[nextId] \in Promise!Entry /\ ledger'[nextId].since = now
    BY <1>4, <1>5, SameTypes
  <2>2. ledger' = [ledger EXCEPT ![nextId] = ledger'[nextId]] /\ UNCHANGED now
    BY <1>3, <1>4
  <2>3. QED
    BY <1>2, <2>1, <2>2 DEF Promise!Submit
<1>14. QED
  BY <1>2, <1>3, <1>7, <1>8, <1>9, <1>10, <1>11, <1>12, <1>13, SameTypes DEF Promise!Next

\* The ledger only grows while a gateway step leaves the command's copy alone.
LEMMA CopyStays ==
  ASSUME PromiseInv, [Next]_vars, NEW store \in Store, AsSubmitted(store)
  PROVE  AsSubmitted(store)'
<1>1. \A id \in Ids : ledger[id] # NoEntry =>
        ledger'[id] # NoEntry /\ ledger'[id].sched = ledger[id].sched
  <2>1. CASE UNCHANGED ledger
    BY <2>1
  <2>2. ASSUME NEW s \in Inputs(now), AddJob(s), NEW id \in Ids, ledger[id] # NoEntry
        PROVE  ledger'[id] = ledger[id]
    BY <2>2 DEF AddJob, PromiseInv, TypeOK, LedgerOK
  <2>3. ASSUME NEW i \in Ids, ExecuteJob(i), NEW id \in Ids, ledger[id] # NoEntry
        PROVE  ledger'[id] # NoEntry /\ ledger'[id].sched = ledger[id].sched
    <3>1. ledger[id] \in Entry /\ now \in Times /\ ledger \in [Ids -> Entry \cup {NoEntry}]
      BY <2>3 DEF PromiseInv, TypeOK
    <3>2. ledger' = [ledger EXCEPT ![i] = [ledger[i] EXCEPT !.since = now]]
      BY <2>3 DEF ExecuteJob
    <3>3. [ledger[id] EXCEPT !.since = now] \in Entry
          /\ [ledger[id] EXCEPT !.since = now].sched = ledger[id].sched
      BY <3>1 DEF Entry
    <3>4. QED
      BY <2>3, <3>1, <3>2, <3>3
  <2>4. QED
    BY <2>1, <2>2, <2>3 DEF Next, Tick, Start, Stop, Exit, CheckJobs, FinishJob, RemoveJob, EnableJob, vars
<1>2. QED
  BY <1>1 DEF AsSubmitted, Present

LEMMA GatewayStep == CliInv /\ [Next]_vars /\ UNCHANGED cli => CliInv'
<1>. SUFFICES ASSUME CliInv, [Next]_vars, UNCHANGED cli PROVE CliInv'
  OBVIOUS
<1>1. PromiseInv'
  BY PromiseStep DEF CliInv
<1>2. CASE cli = NoStore
  BY <1>1, <1>2 DEF CliInv
<1>3. CASE cli # NoStore
  <2>1. AsSubmitted(cli)'
    <3>1. PICK store \in Store : store = cli /\ AsSubmitted(store)
      BY <1>3 DEF CliInv
    <3>2. AsSubmitted(store)'
      BY <3>1, CopyStays DEF CliInv
    <3>3. QED
      BY <3>1, <3>2 DEF AsSubmitted, Present
  <2>2. QED
    BY <1>1, <1>3, <2>1 DEF CliInv
<1>4. QED
  BY <1>2, <1>3

LEMMA CliStep ==
  CliInv /\ [CliNext]_allVars => CliInv' /\ [Promise!Next]_(Promise!promiseVars)
<1>. SUFFICES ASSUME CliInv, [CliNext]_allVars
              PROVE  CliInv' /\ (Promise!Next \/ UNCHANGED <<now, ledger>>)
  BY DEF Promise!promiseVars
<1>1. CASE [Next]_vars /\ UNCHANGED cli
  BY <1>1, GatewayStep, RefineStep DEF CliInv, Promise!promiseVars
<1>2. CASE Load
  <2>1. /\ UNCHANGED vars
        /\ \/ cli' = EmptyStore
           \/ file # Torn /\ cli' = file
    BY <1>2 DEF Load
  <2>2. PromiseInv'
    BY <2>1, PromiseStep DEF CliInv
  <2>3. cli' \in Store /\ AsSubmitted(cli')
    BY <2>1, EmptyStoreType DEF CliInv, PromiseInv, TypeOK, AsSubmitted
  <2>4. QED
    BY <2>1, <2>2, <2>3 DEF CliInv, AsSubmitted, vars
<1>3. ASSUME NEW s \in CliInputs, CliAdd(s)
      PROVE  CliInv' /\ Promise!Next
  BY <1>3, AddStep
<1>4. ASSUME NEW id \in Ids, CliRemove(id) PROVE CliInv' /\ UNCHANGED <<now, ledger>>
  <2>1. cli \in Store /\ AsSubmitted(cli) /\ now \in Times
    BY <1>4 DEF CliRemove, CliInv, PromiseInv, TypeOK
  <2>2. Removed(cli, id) \in Store /\ AsSubmitted(Removed(cli, id))
    BY <2>1, RemovedType, OperationsKeepSchedules DEF AsSubmitted
  <2>3. QED
    BY <1>4, <2>2, SaveStep DEF CliRemove, CliInv
<1>5. ASSUME NEW id \in Ids, NEW on \in Switches, CliEnable(id, on)
      PROVE  CliInv' /\ UNCHANGED <<now, ledger>>
  <2>1. cli \in Store /\ AsSubmitted(cli) /\ now \in Times /\ id \in Present(cli) /\ on \in BOOLEAN
    BY <1>5, InputsAssumption DEF CliEnable, CliInv, PromiseInv, TypeOK
  <2>2. Switched(cli, id, on, now) \in Store
    BY <2>1, SwitchedType
  <2>3. AsSubmitted(Switched(cli, id, on, now))
    BY <2>1, <2>2, OperationsKeepSchedules DEF AsSubmitted
  <2>4. QED
    BY <1>5, <2>2, <2>3, SaveStep DEF CliEnable, CliInv
<1>6. CASE CliQuit
  <2>1. UNCHANGED vars /\ cli' = NoStore
    BY <1>6 DEF CliQuit
  <2>2. PromiseInv'
    BY <2>1, PromiseStep DEF CliInv
  <2>3. QED
    BY <2>1, <2>2 DEF CliInv, vars
<1>7. QED
  BY <1>1, <1>2, <1>3, <1>4, <1>5, <1>6 DEF CliNext, allVars, cliVars

LEMMA CliInitInv == CliInit => CliInv /\ Promise!Init
BY PromiseInit, RefineInit DEF CliInit, CliInv

LEMMA CliInvHolds == CliSpec => []CliInv
BY CliInitInv, CliStep, PTL DEF CliSpec

\* What the scheduler relies on is not disturbed by a process that loads jobs.json at
\* some time and writes it back, changed, at another.
THEOREM InvariantBesideCommands == CliSpec => []PromiseInv
<1>1. CliInv => PromiseInv
  BY DEF CliInv
<1>2. QED
  BY <1>1, CliInvHolds, PTL

\* No job starts early, too often or without having been submitted, whatever commands
\* overwrite and whatever of theirs the gateway overwrites.
THEOREM PromiseBesideCommands == CliSpec => KeepsPromise
BY CliInitInv, CliStep, CliInvHolds, PTL
   DEF CliSpec, KeepsPromise, Promise!Spec, Promise!promiseVars
=============================================================================
