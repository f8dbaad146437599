----------------------------- MODULE CronService ----------------------------
(***************************************************************************)
(* The scheduler of the gateway process (pkg/cron/service.go): a store of  *)
(* jobs in memory, its copy in jobs.json, and the goroutine that looks at  *)
(* the clock every second and runs the jobs that are due, one after the    *)
(* other and outside the lock.  Every method that takes cs.mu is one step; *)
(* a run of a job is two steps (before and after the handler), and the     *)
(* tool calls of the agent, time, crashes and restarts come in between.    *)
(*                                                                         *)
(* Left out: names and payloads, and LastRunAtMS, LastStatus, LastError,   *)
(* CreatedAtMS and UpdatedAtMS, which the code writes and never reads.     *)
(* DeleteAfterRun is not a field of its own: AddJob is the only place that *)
(* sets it, and sets it for the "at" jobs and for no other.                *)
(***************************************************************************)
EXTENDS CronSchedule, FiniteSets, FiniteSetsExt

CONSTANTS
  Inputs(_),        (* schedules a user may ask for at a given time         *)
  Switches,         (* what users ask of EnableJob: to enable, to disable   *)
  NoJob,            (* the store's value for an id it does not hold         *)
  NoId,             (* no job is running                                    *)
  NoEntry,          (* the ledger's value for an id not yet given           *)
  Torn,             (* a jobs.json that does not parse                      *)
  MaxExits,         (* bound on the number of times the process ends        *)
  MaxFaults         (* bound on the number of failed writes                 *)

VARIABLES
  now,              (* time.Now()                                           *)
  proc,             (* the gateway process: down, up or stopping            *)
  running,          (* cs.running                                           *)
  mem,              (* cs.store                                             *)
  file,             (* jobs.json, a missing file being an empty store       *)
  due,              (* dueJobs of checkJobs not yet handed to executeJob    *)
  cur,              (* the job executeJob is running                        *)
  nextId,           (* the next id generateID gives                         *)
  exits, faults,    (* the counters of the two bounds                       *)
  ledger            (* history, for the properties: per job its schedule    *)
                    (* and when it was submitted or last started            *)

vars == <<now, proc, running, mem, file, due, cur, nextId, exits, faults, ledger>>

Job   == [sched : Schedule, enabled : BOOLEAN, next : OptTime]
Store == [Ids -> Job \cup {NoJob}]
Entry == [sched : Schedule, since : Times]

EmptyStore == [id \in Ids |-> NoJob]

ASSUME SentinelAssumption ==
  /\ NoJob \notin Job /\ NoEntry \notin Entry
  /\ NoId \notin Ids /\ Torn \notin Store

ASSUME LimitsAssumption == MaxExits \in Nat /\ MaxFaults \in Nat

ASSUME InputsAssumption ==
  Switches \subseteq BOOLEAN /\ \A t \in Times : Inputs(t) \subseteq Schedule

Up == proc # "down"

Present(store) == {id \in Ids : store[id] # NoJob}

-----------------------------------------------------------------------------
(* The store under the lock.                                               *)

\* Mutant: a job whose second passed while the goroutine was busy is missed.
DueJobs_Exactly(store, t) ==
  {id \in Present(store) : store[id].enabled /\ store[id].next = t}

\* The jobs checkJobs collects.
DueJobs(store, t) ==
  {id \in Present(store) : /\ store[id].enabled
                           /\ store[id].next # NoTime
                           /\ store[id].next =< t}

\* Mutants: times are taken as they were saved, or only the missing computed.
Recomputed_AsSaved(store, t) == store

Recomputed_IfNil(store, t) ==
  [id \in Ids |->
     IF store[id] # NoJob /\ store[id].enabled /\ store[id].next = NoTime
     THEN [store[id] EXCEPT !.next = ComputeNextRun(store[id].sched, t)]
     ELSE store[id]]

\* recomputeNextRuns: what was missed while the process was down is not made
\* up for, and disabled jobs keep the time they have.
Recomputed(store, t) ==
  [id \in Ids |->
     IF store[id] # NoJob /\ store[id].enabled
     THEN [store[id] EXCEPT !.next = ComputeNextRun(store[id].sched, t)]
     ELSE store[id]]

\* The due jobs lose their time until they have run.
Cleared(store, ids) ==
  [id \in Ids |-> IF id \in ids THEN [store[id] EXCEPT !.next = NoTime] ELSE store[id]]

NewJob(s, t) == [sched |-> s, enabled |-> TRUE, next |-> ComputeNextRun(s, t)]

Removed(store, id) == [store EXCEPT ![id] = NoJob]

Switched(store, id, on, t) ==
  [store EXCEPT ![id].enabled = on,
                ![id].next = IF on THEN ComputeNextRun(store[id].sched, t) ELSE NoTime]

\* Mutant: executeJob writes back the copy it was given.
Finished_CopyBack(store, id, t) == [store EXCEPT ![id] = NewJob(ledger[id].sched, t)]

\* executeJob after the handler: a job removed in the meantime stays removed.
Finished(store, id, t) ==
  IF store[id] = NoJob
  THEN store
  ELSE IF store[id].sched.kind = "at"
       THEN Removed(store, id)
       ELSE [store EXCEPT ![id].next = ComputeNextRun(store[id].sched, t)]

\* saveStoreUnsafe: os.WriteFile truncates and then writes, so that a write
\* that fails leaves the old file (it could not be opened) or a torn one.
Save(store) ==
  \/ file' = store /\ UNCHANGED faults
  \/ /\ faults < MaxFaults
     /\ faults' = faults + 1
     /\ file' \in {file, Torn}

-----------------------------------------------------------------------------
Init ==
  /\ now = 0 /\ nextId = 1 /\ exits = 0 /\ faults = 0
  /\ proc = "down" /\ running = FALSE
  /\ mem = EmptyStore /\ file = EmptyStore
  /\ due = {} /\ cur = NoId
  /\ ledger = [id \in Ids |-> NoEntry]

Tick ==
  /\ now < MaxTime
  /\ now' = now + 1
  /\ UNCHANGED <<proc, running, mem, file, due, cur, nextId, exits, faults, ledger>>

\* NewCronService and Start of a new process.  When the file does not parse,
\* or cannot be written, Start fails: the gateway prints the error and goes on
\* with the store it has and without the goroutine that runs jobs.
Start ==
  /\ proc = "down"
  /\ proc' = "up"
  /\ \/ /\ file = Torn
        /\ mem' = EmptyStore /\ running' = FALSE
        /\ UNCHANGED <<file, faults>>
     \/ /\ file # Torn
        /\ mem' = Recomputed(file, now)
        /\ Save(mem')
        /\ running' = (faults' = faults)
  /\ UNCHANGED <<now, due, cur, nextId, exits, ledger>>

\* Stop, when the gateway shuts down: the goroutine still works through the
\* batch it has collected, until main returns.
Stop ==
  /\ proc = "up" /\ exits < MaxExits
  /\ proc' = "stopping"
  /\ running' = FALSE
  /\ UNCHANGED <<now, mem, file, due, cur, nextId, exits, faults, ledger>>

\* The process ends, by main returning after Stop or by a crash at any point.
Exit ==
  /\ Up /\ exits < MaxExits
  /\ exits' = exits + 1
  /\ proc' = "down" /\ running' = FALSE
  /\ mem' = EmptyStore /\ due' = {} /\ cur' = NoId
  /\ UNCHANGED <<now, file, nextId, faults, ledger>>

\* Mutants: the store is saved only if something was due; the file is read at
\* every tick, so that what other processes wrote is not lost.
CheckJobs_SaveIfDue ==
  /\ running /\ due = {} /\ cur = NoId
  /\ due' = DueJobs(mem, now)
  /\ mem' = Cleared(mem, due')
  /\ IF due' # {} THEN Save(mem') ELSE UNCHANGED <<file, faults>>
  /\ UNCHANGED <<now, proc, running, cur, nextId, exits, ledger>>

CheckJobs_Reload ==
  /\ running /\ due = {} /\ cur = NoId
  /\ due' = DueJobs(file, now)
  /\ mem' = Cleared(file, due')
  /\ Save(mem')
  /\ UNCHANGED <<now, proc, running, cur, nextId, exits, ledger>>

\* A tick of runLoop.  The store is saved whether or not something is due.
CheckJobs ==
  /\ running /\ due = {} /\ cur = NoId
  /\ due' = DueJobs(mem, now)
  /\ mem' = Cleared(mem, due')
  /\ Save(mem')
  /\ UNCHANGED <<now, proc, running, cur, nextId, exits, ledger>>

\* executeJob calls the handler with its copy of the job, in the order of the
\* store, which is the order of creation.
ExecuteJob(id) ==
  /\ cur = NoId /\ id \in due /\ id = Min(due)
  /\ due' = due \ {id}
  /\ cur' = id
  /\ ledger' = [ledger EXCEPT ![id].since = now]
  /\ UNCHANGED <<now, proc, running, mem, file, nextId, exits, faults>>

\* Mutant: the store is saved before the job is updated.
FinishJob_SaveFirst ==
  /\ cur # NoId
  /\ cur' = NoId
  /\ mem' = Finished(mem, cur, now)
  /\ Save(mem)
  /\ UNCHANGED <<now, proc, running, due, nextId, exits, ledger>>

\* The handler has returned.  (For an "at" job the store is saved twice, with
\* the same content.)
FinishJob ==
  /\ cur # NoId
  /\ cur' = NoId
  /\ mem' = Finished(mem, cur, now)
  /\ Save(mem')
  /\ UNCHANGED <<now, proc, running, due, nextId, exits, ledger>>

\* The cron tool adds a job.  If the save fails the job is in memory
\* nevertheless, and the tool reports an error.
AddJob(s) ==
  /\ Up /\ nextId =< MaxJobs
  /\ nextId' = nextId + 1
  /\ mem' = [mem EXCEPT ![nextId] = NewJob(s, now)]
  /\ ledger' = [ledger EXCEPT ![nextId] = [sched |-> s, since |-> now]]
  /\ Save(mem')
  /\ UNCHANGED <<now, proc, running, due, cur, exits>>

\* The cron tool removes, enables or disables a job; an id the store does not
\* hold changes nothing.
RemoveJob(id) ==
  /\ Up /\ id \in Present(mem)
  /\ mem' = Removed(mem, id)
  /\ Save(mem')
  /\ UNCHANGED <<now, proc, running, due, cur, nextId, exits, ledger>>

EnableJob(id, on) ==
  /\ Up /\ id \in Present(mem)
  /\ mem' = Switched(mem, id, on, now)
  /\ Save(mem')
  /\ UNCHANGED <<now, proc, running, due, cur, nextId, exits, ledger>>

Next ==
  \/ Tick
  \/ Start
  \/ Stop
  \/ Exit
  \/ CheckJobs
  \/ FinishJob
  \/ \E s \in Inputs(now) : AddJob(s)
  \/ \E id \in Ids : \/ ExecuteJob(id)
                     \/ RemoveJob(id)
                     \/ \E on \in Switches : EnableJob(id, on)

Spec == Init /\ [][Next]_vars

\* The clock ticks, the goroutine is scheduled, a gateway that is shutting down
\* ends, one that has ended is started again.  That a handler returns is an
\* assumption about the agent and the bus it calls.  Users, shutdowns and
\* crashes are under no obligation.
Fairness ==
  /\ WF_vars(Tick) /\ WF_vars(Start) /\ WF_vars(proc = "stopping" /\ Exit)
  /\ WF_vars(CheckJobs) /\ WF_vars(FinishJob)
  /\ \A id \in Ids : WF_vars(ExecuteJob(id))

FairSpec == Spec /\ Fairness

-----------------------------------------------------------------------------
TypeOK ==
  /\ now \in Times
  /\ proc \in {"down", "up", "stopping"} /\ running \in BOOLEAN
  /\ mem \in Store
  /\ file \in Store \cup {Torn}
  /\ due \in SUBSET Ids
  /\ cur \in Ids \cup {NoId}
  /\ nextId \in 1 .. MaxJobs + 1
  /\ exits \in 0 .. MaxExits /\ faults \in 0 .. MaxFaults
  /\ ledger \in [Ids -> Entry \cup {NoEntry}]

\* The starts of jobs keep the promise of CronPromise: no one-time job runs
\* twice and no job runs early or too often, however enabling, removing,
\* crashes, restarts and failed writes fall between the steps of checkJobs
\* and executeJob.
Promise == INSTANCE CronPromise WITH now <- now, ledger <- ledger
KeepsPromise == Promise!Spec

\* Why it holds: the inductive invariant.  What is stored under an id is the
\* schedule the id was submitted with; a time in the store is one at which the
\* job may start, except for the job that is running, whose time executeJob
\* will overwrite; and a job that was collected may start from then on.
LedgerOK ==
  \A id \in Ids : /\ id < nextId <=> ledger[id] # NoEntry
                  /\ ledger[id] # NoEntry => ledger[id].since =< now

AsSubmitted(store) ==
  \A id \in Present(store) : /\ ledger[id] # NoEntry
                             /\ store[id].sched = ledger[id].sched

NextMayStart ==
  \A id \in Present(mem) :
    id # cur /\ mem[id].enabled /\ mem[id].next # NoTime =>
      Promise!MayStart(ledger[id], mem[id].next)

DueMayStart ==
  /\ cur \notin due
  /\ \A id \in due : ledger[id] # NoEntry /\ Promise!MayStart(ledger[id], now)

PromiseInv ==
  /\ TypeOK
  /\ LedgerOK
  /\ AsSubmitted(mem)
  /\ file # Torn => AsSubmitted(file)
  /\ cur # NoId => ledger[cur] # NoEntry
  /\ NextMayStart
  /\ DueMayStart

\* A recurring job that is enabled always has its next run ahead of it, or is
\* about to run or running: the nil that checkJobs leaves in the store while
\* a batch runs never becomes permanent.
Recurs(s, t) == s.kind # "at" /\ ComputeNextRun(s, t) # NoTime
NoJobStranded ==
  \A id \in Present(mem) :
    mem[id].enabled /\ Recurs(mem[id].sched, now) =>
      mem[id].next # NoTime \/ id \in due \/ id = cur

\* As long as no write has failed, a crash loses nothing the gateway knew: the
\* file holds what the memory holds, between any two steps.
NothingUnsaved == Up /\ faults = 0 => file = mem

\* A removed job stays removed and a disabled one stays disabled, until the
\* user says otherwise, even if the job was running or waiting to run, and over
\* the end of the process and its restart.  The exception is the end of a
\* process after a failed write (saveStoreUnsafe): a removal that is only in
\* memory goes with it, and the job is back as the file has it.
Known == IF Up THEN mem ELSE IF file = Torn THEN EmptyStore ELSE file
KnownEnabled(id) == id \in Present(Known) /\ Known[id].enabled
UserDecides ==
  [][\A id \in Ids : KnownEnabled(id)' =>
       \/ KnownEnabled(id)
       \/ AddJob(mem'[id].sched)
       \/ EnableJob(id, TRUE)
       \/ Exit /\ faults # 0]_vars

\* A job that is due is run, unless the service stops or the user removes,
\* disables or reschedules the job first.  (To enable a one-time job whose time
\* has come, before the goroutine has seen it, is to cancel it.)
DueJobsRun ==
  \A id \in Ids :
    (running /\ id \in DueJobs(mem, now)) ~>
      \/ cur = id
      \/ ~running
      \/ id \notin Present(mem)
      \/ ~mem[id].enabled
      \/ mem[id].next \notin 0 .. now /\ id \notin due

\* A write that failed is made up for: a running gateway does not leave jobs.json
\* torn, or behind what it knows, for longer than until a later tick.
FileHeals == (running /\ file # mem) ~> (~running \/ file = mem)
=============================================================================
