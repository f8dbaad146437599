-------------------------- MODULE CronServiceProofs -------------------------
(***************************************************************************)
(* For every number of jobs, every set of cron expressions and schedules,  *)
(* and any number of crashes and failed writes: the scheduler keeps the    *)
(* promise of CronPromise.                                                 *)
(***************************************************************************)
EXTENDS CronService, TLAPS

USE BoundsAssumption, LimitsAssumption, NoTimeAssumption, SentinelAssumption

-----------------------------------------------------------------------------
(* The operators.                                                          *)

LEMMA TimesAreNat == Times \subseteq Nat
BY DEF Times

\* A schedule is of exactly one kind.
LEMMA ScheduleKinds ==
  ASSUME NEW s \in Schedule
  PROVE  \/ s.kind = "at" /\ s.at \in Nat
         \/ s.kind = "every" /\ s.every \in Int
         \/ s.kind = "cron" /\ s.expr \in Exprs
BY DEF Schedule, AtSchedule, EverySchedule, ExprSchedule

\* The next run of a job is a time ahead, or there is none.
LEMMA NextRunType ==
  ASSUME NEW s \in Schedule, NEW t \in Times
  PROVE  ComputeNextRun(s, t) \in OptTime
BY ScheduleKinds, TickAssumption DEF ComputeNextRun, OptTime, Times

\* A run that was due stays due: MayStart is monotone in time.
LEMMA MayStartLater ==
  ASSUME NEW e \in Entry, NEW t \in Nat, NEW u \in Nat, t =< u,
         Promise!MayStart(e, t)
  PROVE  Promise!MayStart(e, u)
<1>1. e.sched \in Schedule /\ e.since \in Nat
  BY TimesAreNat DEF Entry
<1>2. CASE e.sched.kind = "at"
  BY <1>1, <1>2, ScheduleKinds DEF Promise!MayStart
<1>3. CASE e.sched.kind = "every"
  BY <1>1, <1>3, ScheduleKinds DEF Promise!MayStart
<1>4. CASE e.sched.kind = "cron"
  BY <1>1, <1>4, ScheduleKinds DEF Promise!MayStart
<1>5. QED
  BY <1>1, <1>2, <1>3, <1>4, ScheduleKinds

\* The time ComputeNextRun gives, at any moment after the job was submitted or
\* last started, is a time at which it may start.
LEMMA NextRunMayStart ==
  ASSUME NEW e \in Entry, NEW t \in Times, e.since =< t,
         ComputeNextRun(e.sched, t) # NoTime
  PROVE  Promise!MayStart(e, ComputeNextRun(e.sched, t))
<1>1. e.sched \in Schedule /\ e.since \in Times
  BY DEF Entry
<1>2. CASE e.sched.kind = "at"
  BY <1>1, <1>2, ScheduleKinds DEF Promise!MayStart, ComputeNextRun, Times
<1>3. CASE e.sched.kind = "every"
  BY <1>1, <1>3, ScheduleKinds DEF Promise!MayStart, ComputeNextRun, Times
<1>4. CASE e.sched.kind = "cron"
  <2>1. e.sched.expr \in Exprs
    BY <1>1, <1>4, ScheduleKinds
  <2>2. ComputeNextRun(e.sched, t) = NextTickAfter(e.sched.expr, t)
    BY <1>4 DEF ComputeNextRun
  <2>3. /\ NextTickAfter(e.sched.expr, e.since) # NoTime
        /\ NextTickAfter(e.sched.expr, e.since) =< NextTickAfter(e.sched.expr, t)
    BY <1>1, <2>1, <2>2, TickAssumption DEF Times
  <2>4. /\ NextTickAfter(e.sched.expr, e.since) \in Nat
        /\ NextTickAfter(e.sched.expr, e.since) > e.since
        /\ NextTickAfter(e.sched.expr, t) \in Nat
    BY <1>1, <2>1, <2>2, <2>3, TickAssumption DEF OptTime, Times
  <2>5. NextTickAfter(e.sched.expr, e.since) \in e.since + 1 .. NextTickAfter(e.sched.expr, t)
    BY <1>1, <2>3, <2>4 DEF Times
  <2>6. QED
    BY <1>4, <2>2, <2>5 DEF Promise!MayStart
<1>5. QED
  BY <1>1, <1>2, <1>3, <1>4, ScheduleKinds

-----------------------------------------------------------------------------
(* What the operations make of a store.                                    *)

LEMMA EmptyStoreType == EmptyStore \in Store /\ Present(EmptyStore) = {}
BY DEF EmptyStore, Store, Present

LEMMA PresentJob ==
  ASSUME NEW store \in Store, NEW id \in Present(store)
  PROVE  id \in Ids /\ store[id] \in Job /\ store[id].sched \in Schedule
BY DEF Present, Store, Job

LEMMA RecomputedType ==
  ASSUME NEW store \in Store, NEW t \in Times
  PROVE  Recomputed(store, t) \in Store
<1>1. SUFFICES ASSUME NEW id \in Ids, store[id] # NoJob, store[id].enabled
               PROVE  [store[id] EXCEPT !.next = ComputeNextRun(store[id].sched, t)] \in Job
  BY DEF Recomputed, Store
<1>2. store[id] \in Job
  BY <1>1 DEF Store
<1>3. ComputeNextRun(store[id].sched, t) \in OptTime
  BY <1>2, NextRunType DEF Job
<1>4. QED
  BY <1>2, <1>3 DEF Job

LEMMA ClearedType ==
  ASSUME NEW store \in Store, NEW S \in SUBSET Present(store)
  PROVE  Cleared(store, S) \in Store
<1>1. \A id \in S : [store[id] EXCEPT !.next = NoTime] \in Job
  BY PresentJob DEF Job, OptTime
<1>2. QED
  BY <1>1 DEF Cleared, Store

LEMMA RemovedType ==
  ASSUME NEW store \in Store, NEW id \in Ids
  PROVE  Removed(store, id) \in Store
BY DEF Removed, Store

LEMMA NewJobType ==
  ASSUME NEW s \in Schedule, NEW t \in Times
  PROVE  NewJob(s, t) \in Job
BY NextRunType DEF NewJob, Job

LEMMA SwitchedType ==
  ASSUME NEW store \in Store, NEW id \in Present(store), NEW on \in BOOLEAN,
         NEW t \in Times
  PROVE  Switched(store, id, on, t) \in Store
<1>1. id \in Ids /\ store[id] \in Job /\ store[id].sched \in Schedule
  BY PresentJob
<1>2. ComputeNextRun(store[id].sched, t) \in OptTime
  BY <1>1, NextRunType
<1>3. [[store[id] EXCEPT !.enabled = on]
         EXCEPT !.next = IF on THEN ComputeNextRun(store[id].sched, t) ELSE NoTime] \in Job
  BY <1>1, <1>2 DEF Job, OptTime
<1>4. QED
  BY <1>1, <1>3 DEF Switched, Store

LEMMA FinishedType ==
  ASSUME NEW store \in Store, NEW id \in Ids, NEW t \in Times
  PROVE  Finished(store, id, t) \in Store
<1>1. CASE store[id] = NoJob
  BY <1>1 DEF Finished
<1>2. CASE store[id] # NoJob
  <2>1. store[id] \in Job /\ ComputeNextRun(store[id].sched, t) \in OptTime
    BY <1>2, NextRunType DEF Store, Job
  <2>2. [store EXCEPT ![id].next = ComputeNextRun(store[id].sched, t)] \in Store
    BY <2>1 DEF Store, Job
  <2>3. QED
    BY <1>2, <2>2, RemovedType DEF Finished
<1>3. QED
  BY <1>1, <1>2

LEMMA SaveType ==
  ASSUME TypeOK, NEW store \in Store, Save(store)
  PROVE  file' \in Store \cup {Torn} /\ faults' \in 0 .. MaxFaults
BY DEF TypeOK, Save

-----------------------------------------------------------------------------
(* Types.                                                                  *)

LEMMA TypeInit == Init => TypeOK
<1> SUFFICES ASSUME Init PROVE TypeOK
  OBVIOUS
<1>1. now \in Times /\ nextId \in 1 .. MaxJobs + 1
  BY DEF Init, Times
<1>2. exits \in 0 .. MaxExits /\ faults \in 0 .. MaxFaults
  BY DEF Init
<1>3. mem \in Store /\ file \in Store
  BY EmptyStoreType DEF Init
<1>4. ledger \in [Ids -> Entry \cup {NoEntry}]
  BY DEF Init
<1>5. QED
  BY <1>1, <1>2, <1>3, <1>4 DEF Init, TypeOK

\* A job that waits to run is in the ledger; without that, the types alone are
\* not inductive.
LEMMA TypeStep == TypeOK /\ DueMayStart /\ [Next]_vars => TypeOK'
<1> SUFFICES ASSUME TypeOK, DueMayStart, [Next]_vars PROVE TypeOK'
  OBVIOUS
<1>1. CASE Tick
  BY <1>1 DEF Tick, TypeOK, Times
<1>2. CASE Start
  <2>1. CASE file = Torn
    BY <1>2, <2>1, EmptyStoreType DEF Start, TypeOK
  <2>2. CASE file # Torn
    <3>1. mem' = Recomputed(file, now) /\ mem' \in Store
      BY <1>2, <2>2, RecomputedType DEF Start, TypeOK
    <3>2. file' \in Store \cup {Torn} /\ faults' \in 0 .. MaxFaults
      BY <1>2, <2>2, <3>1, SaveType DEF Start
    <3>3. QED
      BY <1>2, <2>2, <3>1, <3>2 DEF Start, TypeOK
  <2>3. QED
    BY <2>1, <2>2
<1>3. CASE Stop
  BY <1>3 DEF Stop, TypeOK
<1>4. CASE Exit
  <2>1. exits' \in 0 .. MaxExits
    BY <1>4 DEF Exit, TypeOK
  <2>2. mem' \in Store
    BY <1>4, EmptyStoreType DEF Exit
  <2>3. QED
    BY <1>4, <2>1, <2>2 DEF Exit, TypeOK
<1>5. CASE CheckJobs
  <2>1. due' \subseteq Present(mem) /\ due' \subseteq Ids
    BY <1>5 DEF CheckJobs, DueJobs, Present
  <2>2. mem' \in Store
    BY <1>5, <2>1, ClearedType DEF CheckJobs, TypeOK
  <2>3. file' \in Store \cup {Torn} /\ faults' \in 0 .. MaxFaults
    BY <1>5, <2>2, SaveType DEF CheckJobs
  <2>4. QED
    BY <1>5, <2>1, <2>2, <2>3 DEF CheckJobs, TypeOK
<1>6. CASE FinishJob
  <2>1. mem' \in Store
    BY <1>6, FinishedType DEF FinishJob, TypeOK
  <2>2. file' \in Store \cup {Torn} /\ faults' \in 0 .. MaxFaults
    BY <1>6, <2>1, SaveType DEF FinishJob
  <2>3. QED
    BY <1>6, <2>1, <2>2 DEF FinishJob, TypeOK
<1>7. ASSUME NEW s \in Inputs(now), AddJob(s) PROVE TypeOK'
  <2>1. s \in Schedule /\ nextId \in Ids
    BY <1>7, InputsAssumption DEF TypeOK, AddJob, Ids
  <2>2. mem' \in Store
    BY <1>7, <2>1, NewJobType DEF AddJob, TypeOK, Store
  <2>3. ledger' \in [Ids -> Entry \cup {NoEntry}]
    BY <1>7, <2>1 DEF AddJob, TypeOK, Entry
  <2>4. file' \in Store \cup {Torn} /\ faults' \in 0 .. MaxFaults
    BY <1>7, <2>2, SaveType DEF AddJob
  <2>5. QED
    BY <1>7, <2>2, <2>3, <2>4 DEF AddJob, TypeOK
<1>8. ASSUME NEW id \in Ids, ExecuteJob(id) PROVE TypeOK'
  <2>1. ledger' \in [Ids -> Entry \cup {NoEntry}]
    <3>1. ledger[id] \in Entry
      BY <1>8 DEF ExecuteJob, TypeOK, DueMayStart
    <3>2. [ledger[id] EXCEPT !.since = now] \in Entry
      BY <3>1 DEF TypeOK, Entry
    <3>3. QED
      BY <1>8, <3>2 DEF ExecuteJob, TypeOK
  <2>2. QED
    BY <1>8, <2>1 DEF ExecuteJob, TypeOK
<1>9. ASSUME NEW id \in Ids, RemoveJob(id) PROVE TypeOK'
  <2>1. mem' \in Store
    BY <1>9, RemovedType DEF RemoveJob, TypeOK
  <2>2. file' \in Store \cup {Torn} /\ faults' \in 0 .. MaxFaults
    BY <1>9, <2>1, SaveType DEF RemoveJob
  <2>3. QED
    BY <1>9, <2>1, <2>2 DEF RemoveJob, TypeOK
<1>10. ASSUME NEW id \in Ids, NEW on \in Switches, EnableJob(id, on) PROVE TypeOK'
  <2>1. mem' \in Store
    BY <1>10, SwitchedType, InputsAssumption DEF EnableJob, TypeOK
  <2>2. file' \in Store \cup {Torn} /\ faults' \in 0 .. MaxFaults
    BY <1>10, <2>1, SaveType DEF EnableJob
  <2>3. QED
    BY <1>10, <2>1, <2>2 DEF EnableJob, TypeOK
<1>11. CASE UNCHANGED vars
  BY <1>11 DEF vars, TypeOK
<1>12. QED
  BY <1>1, <1>2, <1>3, <1>4, <1>5, <1>6, <1>7, <1>8, <1>9, <1>10, <1>11 DEF Next

-----------------------------------------------------------------------------
(* The inductive invariant behind the promise.                             *)

\* The store operations leave every schedule as it is and add no job.
LEMMA OperationsKeepSchedules ==
  ASSUME NEW store \in Store, NEW store2 \in Store, NEW t \in Times,
         \/ store2 = Recomputed(store, t)
         \/ \E S \in SUBSET Present(store) : store2 = Cleared(store, S)
         \/ \E id \in Ids : store2 = Removed(store, id)
         \/ \E id \in Ids : store2 = Finished(store, id, t)
         \/ \E id \in Present(store), on \in BOOLEAN : store2 = Switched(store, id, on, t)
  PROVE  \A id \in Present(store2) : /\ id \in Present(store)
                                     /\ store2[id].sched = store[id].sched
<1> SUFFICES ASSUME NEW id \in Ids, store2[id] # NoJob
             PROVE  store[id] # NoJob /\ store2[id].sched = store[id].sched
  BY DEF Present
<1>1. store[id] = NoJob \/ store[id] \in Job
  BY DEF Store
<1>2. CASE store2 = Recomputed(store, t)
  BY <1>1, <1>2 DEF Recomputed, Job
<1>3. ASSUME NEW S \in SUBSET Present(store), store2 = Cleared(store, S)
      PROVE  store[id] # NoJob /\ store2[id].sched = store[id].sched
  BY <1>1, <1>3 DEF Cleared, Job, Present
<1>4. ASSUME NEW i \in Ids, store2 = Removed(store, i)
      PROVE  store[id] # NoJob /\ store2[id].sched = store[id].sched
  BY <1>1, <1>4 DEF Removed, Store
<1>5. ASSUME NEW i \in Ids, store2 = Finished(store, i, t)
      PROVE  store[id] # NoJob /\ store2[id].sched = store[id].sched
  BY <1>1, <1>5 DEF Finished, Removed, Store, Job
<1>6. ASSUME NEW i \in Present(store), NEW on \in BOOLEAN, store2 = Switched(store, i, on, t)
      PROVE  store[id] # NoJob /\ store2[id].sched = store[id].sched
  BY <1>1, <1>6 DEF Switched, Store, Job, Present
<1>7. QED
  BY <1>2, <1>3, <1>4, <1>5, <1>6

LEMMA SaveKeepsSchedules ==
  ASSUME NEW store \in Store, AsSubmitted(store), file # Torn => AsSubmitted(file),
         Save(store), UNCHANGED ledger
  PROVE  (file # Torn => AsSubmitted(file))'
BY DEF Save, AsSubmitted

LEMMA PromiseInit == Init => PromiseInv
<1> SUFFICES ASSUME Init PROVE PromiseInv
  OBVIOUS
<1>1. TypeOK
  BY TypeInit
<1>2. LedgerOK
  BY DEF Init, LedgerOK, Ids
<1>3. AsSubmitted(mem) /\ AsSubmitted(file) /\ NextMayStart /\ DueMayStart
  BY EmptyStoreType DEF Init, AsSubmitted, NextMayStart, DueMayStart
<1>4. QED
  BY <1>1, <1>2, <1>3 DEF PromiseInv, Init

\* A job in the store whose entry is known, and whose next run is computed
\* now, may start at that time.
LEMMA ComputedMayStart ==
  ASSUME PromiseInv, NEW id \in Ids, ledger[id] # NoEntry,
         ComputeNextRun(ledger[id].sched, now) # NoTime
  PROVE  Promise!MayStart(ledger[id], ComputeNextRun(ledger[id].sched, now))
<1>1. ledger[id] \in Entry /\ now \in Times /\ ledger[id].since =< now
  BY DEF PromiseInv, TypeOK, LedgerOK
<1>2. QED
  BY <1>1, NextRunMayStart

LEMMA PromiseTick == PromiseInv /\ TypeOK' /\ Tick => PromiseInv'
<1> SUFFICES ASSUME PromiseInv, TypeOK', Tick PROVE PromiseInv'
  OBVIOUS
<1> USE DEF Tick, PromiseInv
<1>1. now \in Nat /\ now' \in Nat /\ now' = now + 1
  BY DEF TypeOK, Times
<1>2. LedgerOK'
  <2>1. ASSUME NEW id \in Ids, ledger[id] # NoEntry PROVE ledger[id].since =< now'
    <3>1. ledger[id].since \in Nat /\ ledger[id].since =< now
      BY <2>1, TimesAreNat DEF TypeOK, LedgerOK, Entry
    <3>2. QED
      BY <1>1, <3>1
  <2>2. QED
    BY <2>1 DEF LedgerOK
<1>3. DueMayStart'
  <2>1. ASSUME NEW id \in due PROVE Promise!MayStart(ledger[id], now')
    <3>1. ledger[id] \in Entry /\ Promise!MayStart(ledger[id], now)
      BY <2>1 DEF TypeOK, DueMayStart
    <3>2. QED
      BY <1>1, <3>1, MayStartLater
  <2>2. QED
    BY <2>1 DEF DueMayStart
<1>4. NextMayStart' /\ AsSubmitted(mem)' /\ (file # Torn => AsSubmitted(file))'
  BY DEF NextMayStart, AsSubmitted
<1>5. QED
  BY <1>2, <1>3, <1>4

LEMMA PromiseStart == PromiseInv /\ TypeOK' /\ Start => PromiseInv'
<1> SUFFICES ASSUME PromiseInv, TypeOK', Start PROVE PromiseInv'
  OBVIOUS
<1> USE DEF PromiseInv
<1>1. LedgerOK' /\ DueMayStart' /\ (cur # NoId => ledger[cur] # NoEntry)'
  BY DEF Start, LedgerOK, DueMayStart
<1>2. CASE file = Torn
  <2>1. AsSubmitted(mem)' /\ NextMayStart' /\ file' = Torn
    BY <1>2, EmptyStoreType DEF Start, AsSubmitted, NextMayStart
  <2>2. QED
    BY <1>1, <2>1
<1>3. CASE file # Torn
  <2>1. file \in Store /\ mem' \in Store /\ now \in Times
    BY <1>3 DEF TypeOK
  <2>2. mem' = Recomputed(file, now) /\ Save(mem') /\ UNCHANGED ledger
    BY <1>3 DEF Start
  <2>3. AsSubmitted(mem')
    BY <1>3, <2>1, <2>2, OperationsKeepSchedules DEF AsSubmitted
  <2>4. (file # Torn => AsSubmitted(file))' /\ AsSubmitted(mem)'
    BY <2>1, <2>2, <2>3, SaveKeepsSchedules DEF AsSubmitted
  <2>5. ASSUME NEW id \in Present(mem'), mem'[id].enabled, mem'[id].next # NoTime
        PROVE  Promise!MayStart(ledger[id], mem'[id].next)
    <3>1. id \in Ids /\ file[id] \in Job /\ mem'[id] \in Job
      BY <2>1, <2>2, <2>5 DEF Recomputed, Present, Store
    <3>2. file[id].enabled /\ mem'[id] = [file[id] EXCEPT !.next = ComputeNextRun(file[id].sched, now)]
      BY <2>1, <2>2, <2>5, <3>1, SentinelAssumption DEF Recomputed
    <3>3. mem'[id].next = ComputeNextRun(ledger[id].sched, now) /\ ledger[id] # NoEntry
      BY <2>3, <2>5, <3>1, <3>2 DEF AsSubmitted, Job
    <3>4. QED
      BY <2>5, <3>1, <3>3, ComputedMayStart
  <2>6. NextMayStart'
    BY <2>2, <2>5 DEF NextMayStart
  <2>7. QED
    BY <1>1, <2>4, <2>6
<1>4. QED
  BY <1>2, <1>3

LEMMA PromiseStop == PromiseInv /\ TypeOK' /\ (Stop \/ UNCHANGED vars) => PromiseInv'
BY DEF Stop, vars, PromiseInv, LedgerOK, AsSubmitted, NextMayStart, DueMayStart

LEMMA PromiseExit == PromiseInv /\ TypeOK' /\ Exit => PromiseInv'
<1> SUFFICES ASSUME PromiseInv, TypeOK', Exit PROVE PromiseInv'
  OBVIOUS
<1>1. AsSubmitted(mem)' /\ NextMayStart' /\ DueMayStart'
  BY EmptyStoreType DEF Exit, AsSubmitted, NextMayStart, DueMayStart
<1>2. LedgerOK' /\ (file # Torn => AsSubmitted(file))' /\ cur' = NoId
  BY DEF PromiseInv, Exit, LedgerOK, AsSubmitted
<1>3. QED
  BY <1>1, <1>2 DEF PromiseInv

LEMMA PromiseCheckJobs == PromiseInv /\ TypeOK' /\ CheckJobs => PromiseInv'
<1> SUFFICES ASSUME PromiseInv, TypeOK', CheckJobs PROVE PromiseInv'
  OBVIOUS
<1> USE DEF PromiseInv
<1>1. mem \in Store /\ mem' \in Store /\ now \in Times /\ due' \in SUBSET Present(mem)
  BY DEF TypeOK, CheckJobs, DueJobs
<1>2. mem' = Cleared(mem, due') /\ Save(mem') /\ UNCHANGED <<ledger, cur, now, nextId>>
  BY DEF CheckJobs
<1>3. AsSubmitted(mem')
  BY <1>1, <1>2, OperationsKeepSchedules DEF AsSubmitted
<1>4. (file # Torn => AsSubmitted(file))' /\ AsSubmitted(mem)'
  BY <1>1, <1>2, <1>3, SaveKeepsSchedules DEF AsSubmitted
<1>5. DueMayStart'
  <2>1. ASSUME NEW id \in due' PROVE ledger[id] # NoEntry /\ Promise!MayStart(ledger[id], now)
    <3>1. id \in Present(mem) /\ mem[id].enabled /\ mem[id].next # NoTime /\ mem[id].next =< now
      BY <2>1 DEF CheckJobs, DueJobs
    <3>2. mem[id].next \in Nat /\ now \in Nat /\ ledger[id] \in Entry
      BY <1>1, <3>1, PresentJob, TimesAreNat DEF Job, OptTime, AsSubmitted, TypeOK
    <3>3. Promise!MayStart(ledger[id], mem[id].next)
      BY <3>1, SentinelAssumption DEF NextMayStart, CheckJobs, Present
    <3>4. QED
      BY <3>1, <3>2, <3>3, MayStartLater DEF AsSubmitted
  <2>2. cur \notin due'
    BY <1>1, SentinelAssumption DEF CheckJobs, Present
  <2>3. QED
    BY <1>2, <2>1, <2>2 DEF DueMayStart
<1>6. NextMayStart'
  <2>1. ASSUME NEW id \in Present(mem'), mem'[id].next # NoTime
        PROVE  id \in Present(mem) /\ mem'[id] = mem[id]
    <3>1. id \notin due'
      BY <1>1, <1>2, <2>1, PresentJob DEF Cleared, Present, Job
    <3>2. QED
      BY <1>2, <2>1, <3>1 DEF Cleared, Present
  <2>2. QED
    BY <1>2, <2>1 DEF NextMayStart
<1>7. QED
  BY <1>2, <1>4, <1>5, <1>6 DEF LedgerOK

LEMMA PromiseExecuteJob ==
  ASSUME PromiseInv, TypeOK', NEW id \in Ids, ExecuteJob(id)
  PROVE  PromiseInv'
<1> USE DEF PromiseInv
<1>1. /\ ledger[id] \in Entry /\ ledger[id] # NoEntry /\ ledger \in [Ids -> Entry \cup {NoEntry}]
  BY DEF TypeOK, ExecuteJob, DueMayStart
<1>2. /\ ledger' = [ledger EXCEPT ![id] = [ledger[id] EXCEPT !.since = now]]
      /\ cur' = id /\ due' = due \ {id} /\ cur = NoId
      /\ UNCHANGED <<now, mem, file, nextId>>
  BY DEF ExecuteJob
<1>3. ledger'[id].sched = ledger[id].sched /\ ledger'[id].since = now
  BY <1>1, <1>2 DEF Entry
<1>4. ledger'[id] # NoEntry
  BY <1>1, <1>2, <1>3, SentinelAssumption DEF Entry, TypeOK
<1>5. \A j \in Ids \ {id} : ledger'[j] = ledger[j]
  BY <1>1, <1>2
<1>6. now \in Nat
  BY TimesAreNat DEF TypeOK
<1>7. LedgerOK'
  BY <1>1, <1>2, <1>3, <1>4, <1>5, <1>6 DEF LedgerOK
<1>8. AsSubmitted(mem)' /\ (file # Torn => AsSubmitted(file))'
  BY <1>2, <1>3, <1>4, <1>5 DEF AsSubmitted, Present
<1>9. NextMayStart'
  BY <1>2, <1>5, SentinelAssumption DEF NextMayStart, Present
<1>10. DueMayStart'
  BY <1>2, <1>5 DEF DueMayStart, TypeOK
<1>11. QED
  BY <1>2, <1>4, <1>7, <1>8, <1>9, <1>10

LEMMA PromiseFinishJob == PromiseInv /\ TypeOK' /\ FinishJob => PromiseInv'
<1> SUFFICES ASSUME PromiseInv, TypeOK', FinishJob PROVE PromiseInv'
  OBVIOUS
<1> USE DEF PromiseInv
<1>1. mem \in Store /\ mem' \in Store /\ now \in Times /\ cur \in Ids
  BY DEF TypeOK, FinishJob
<1>2. mem' = Finished(mem, cur, now) /\ Save(mem') /\ UNCHANGED <<ledger, due, now, nextId>>
  BY DEF FinishJob
<1>3. AsSubmitted(mem')
  BY <1>1, <1>2, OperationsKeepSchedules DEF AsSubmitted
<1>4. (file # Torn => AsSubmitted(file))' /\ AsSubmitted(mem)'
  BY <1>1, <1>2, <1>3, SaveKeepsSchedules DEF AsSubmitted
<1>5. DueMayStart' /\ cur' = NoId
  BY <1>2, SentinelAssumption DEF DueMayStart, FinishJob, TypeOK
<1>6. ASSUME NEW id \in Present(mem'), mem'[id].enabled, mem'[id].next # NoTime
      PROVE  Promise!MayStart(ledger[id], mem'[id].next)
  <2>1. CASE id # cur
    <3>1. id \in Present(mem) /\ mem'[id] = mem[id]
      BY <1>1, <1>2, <1>6, <2>1 DEF Finished, Removed, Present, Store
    <3>2. QED
      BY <1>6, <2>1, <3>1 DEF NextMayStart
  <2>2. CASE id = cur
    <3>1. mem[cur] \in Job /\ mem' = [mem EXCEPT ![cur].next = ComputeNextRun(mem[cur].sched, now)]
      BY <1>1, <1>2, <1>6, <2>2 DEF Finished, Removed, Present, Store
    <3>2. mem'[id].next = ComputeNextRun(mem'[id].sched, now)
      BY <1>1, <2>2, <3>1 DEF Store, Job
    <3>3. mem'[id].sched = ledger[id].sched /\ ledger[id] # NoEntry /\ id \in Ids
      BY <1>3, <1>6 DEF AsSubmitted, Present
    <3>4. QED
      BY <1>6, <3>2, <3>3, ComputedMayStart
  <2>3. QED
    BY <2>1, <2>2
<1>7. NextMayStart'
  BY <1>2, <1>6 DEF NextMayStart
<1>8. QED
  BY <1>2, <1>4, <1>5, <1>7 DEF LedgerOK

LEMMA PromiseRemoveJob ==
  ASSUME PromiseInv, TypeOK', NEW id \in Ids, RemoveJob(id)
  PROVE  PromiseInv'
<1> USE DEF PromiseInv
<1>1. mem \in Store /\ mem' \in Store /\ now \in Times
  BY DEF TypeOK
<1>2. mem' = Removed(mem, id) /\ Save(mem') /\ UNCHANGED <<ledger, due, cur, now, nextId>>
  BY DEF RemoveJob
<1>3. AsSubmitted(mem')
  BY <1>1, <1>2, OperationsKeepSchedules DEF AsSubmitted
<1>4. (file # Torn => AsSubmitted(file))' /\ AsSubmitted(mem)'
  BY <1>1, <1>2, <1>3, SaveKeepsSchedules DEF AsSubmitted
<1>5. NextMayStart'
  BY <1>1, <1>2 DEF NextMayStart, Removed, Present, Store
<1>6. QED
  BY <1>2, <1>4, <1>5 DEF LedgerOK, DueMayStart

LEMMA PromiseEnableJob ==
  ASSUME PromiseInv, TypeOK', NEW id \in Ids, NEW on \in BOOLEAN, EnableJob(id, on)
  PROVE  PromiseInv'
<1> USE DEF PromiseInv
<1>1. mem \in Store /\ mem' \in Store /\ now \in Times /\ id \in Present(mem)
  BY DEF TypeOK, EnableJob
<1>2. mem' = Switched(mem, id, on, now) /\ Save(mem') /\ UNCHANGED <<ledger, due, cur, now, nextId>>
  BY DEF EnableJob
<1>3. AsSubmitted(mem')
  BY <1>1, <1>2, OperationsKeepSchedules DEF AsSubmitted
<1>4. (file # Torn => AsSubmitted(file))' /\ AsSubmitted(mem)'
  BY <1>1, <1>2, <1>3, SaveKeepsSchedules DEF AsSubmitted
<1>5. ASSUME NEW j \in Present(mem'), j # cur, mem'[j].enabled, mem'[j].next # NoTime
      PROVE  Promise!MayStart(ledger[j], mem'[j].next)
  <2>1. CASE j # id
    <3>1. j \in Present(mem) /\ mem'[j] = mem[j]
      BY <1>1, <1>2, <1>5, <2>1 DEF Switched, Present, Store
    <3>2. QED
      BY <1>5, <3>1 DEF NextMayStart
  <2>2. CASE j = id
    <3>1. mem[id] \in Job
      BY <1>1, PresentJob
    <3>2. mem'[id].next = IF on THEN ComputeNextRun(mem[id].sched, now) ELSE NoTime
      BY <1>1, <1>2, <3>1 DEF Switched, Store, Job
    <3>3. mem'[j].next = ComputeNextRun(ledger[j].sched, now) /\ ledger[j] # NoEntry
      BY <1>1, <1>5, <2>2, <3>2 DEF AsSubmitted
    <3>4. QED
      BY <1>5, <2>2, <3>3, ComputedMayStart
  <2>3. QED
    BY <2>1, <2>2
<1>6. NextMayStart'
  BY <1>2, <1>5 DEF NextMayStart
<1>7. QED
  BY <1>2, <1>4, <1>6 DEF LedgerOK, DueMayStart

LEMMA PromiseAddJob ==
  ASSUME PromiseInv, TypeOK', NEW s \in Inputs(now), AddJob(s)
  PROVE  PromiseInv'
<1> USE DEF PromiseInv
<1>1. mem \in Store /\ mem' \in Store /\ now \in Times /\ s \in Schedule
  BY InputsAssumption DEF TypeOK
<1>2. nextId \in Ids /\ ledger[nextId] = NoEntry /\ mem[nextId] = NoJob
  BY <1>1 DEF TypeOK, AddJob, Ids, LedgerOK, AsSubmitted, Present
<1>3. /\ mem' = [mem EXCEPT ![nextId] = NewJob(s, now)] /\ Save(mem')
      /\ ledger' = [ledger EXCEPT ![nextId] = [sched |-> s, since |-> now]]
      /\ nextId' = nextId + 1 /\ UNCHANGED <<now, due, cur>>
  BY DEF AddJob
<1>4. /\ \A id \in Ids \ {nextId} : ledger'[id] = ledger[id] /\ mem'[id] = mem[id]
      /\ ledger'[nextId] = [sched |-> s, since |-> now]
      /\ mem'[nextId] = NewJob(s, now)
  BY <1>1, <1>2, <1>3 DEF TypeOK, Store
<1>5. [sched |-> s, since |-> now] \in Entry /\ ledger'[nextId] # NoEntry
  BY <1>1, <1>4, SentinelAssumption DEF Entry
<1>6. LedgerOK'
  BY <1>1, <1>2, <1>3, <1>4, <1>5, TimesAreNat DEF LedgerOK, TypeOK, Ids
<1>7. AsSubmitted(mem)'
  BY <1>3, <1>4, <1>5 DEF AsSubmitted, Present, NewJob
<1>8. (file # Torn => AsSubmitted(file))'
  <2>1. ASSUME file # Torn PROVE \A id \in Present(file) : /\ ledger'[id] # NoEntry
                                                          /\ file[id].sched = ledger'[id].sched
    BY <1>2, <1>4, <2>1 DEF AsSubmitted, Present
  <2>2. QED
    BY <1>3, <1>7, <2>1 DEF Save, AsSubmitted
<1>9. NextMayStart'
  <2>1. ASSUME ComputeNextRun(s, now) # NoTime
        PROVE  Promise!MayStart([sched |-> s, since |-> now], ComputeNextRun(s, now))
    BY <1>1, <1>5, <2>1, TimesAreNat, NextRunMayStart
  <2>2. mem'[nextId].next # NoTime =>
          Promise!MayStart(ledger'[nextId], mem'[nextId].next)
    BY <1>4, <2>1 DEF NewJob
  <2>3. QED
    BY <1>2, <1>3, <1>4, <2>2 DEF NextMayStart, Present
<1>10. DueMayStart' /\ (cur # NoId => ledger[cur] # NoEntry)'
  BY <1>2, <1>3, <1>4 DEF DueMayStart, TypeOK
<1>11. QED
  BY <1>6, <1>7, <1>8, <1>9, <1>10

LEMMA PromiseStep == PromiseInv /\ [Next]_vars => PromiseInv'
<1> SUFFICES ASSUME PromiseInv, [Next]_vars PROVE PromiseInv'
  OBVIOUS
<1>1. TypeOK'
  BY TypeStep DEF PromiseInv
<1>2. ASSUME NEW id \in Ids, NEW on \in Switches, EnableJob(id, on) PROVE PromiseInv'
  BY <1>1, <1>2, PromiseEnableJob, InputsAssumption
<1>3. QED
  BY <1>1, <1>2, PromiseTick, PromiseStart, PromiseStop, PromiseExit, PromiseCheckJobs,
     PromiseExecuteJob, PromiseFinishJob, PromiseAddJob, PromiseRemoveJob DEF Next

\* The invariant the promise rests on holds in every reachable state.
THEOREM PromiseInvariant == Spec => []PromiseInv
BY PromiseInit, PromiseStep, PTL DEF Spec

\* Every variable keeps its type: in particular no next run is ever computed
\* that is neither nil nor a time.
THEOREM TypeCorrect == Spec => []TypeOK
<1>1. PromiseInv => TypeOK
  BY DEF PromiseInv
<1>2. QED
  BY <1>1, PromiseInvariant, PTL

-----------------------------------------------------------------------------
(* The refinement.                                                         *)

LEMMA SameTypes == Promise!Ids = Ids /\ Promise!Times = Times /\ Promise!Entry = Entry
BY DEF Promise!Ids, Ids, Promise!Times, Times, Promise!Entry, Entry,
       Promise!Schedule, Schedule, Promise!AtSchedule, AtSchedule,
       Promise!EverySchedule, EverySchedule, Promise!ExprSchedule, ExprSchedule

LEMMA RefineInit == Init => Promise!Init
BY SameTypes DEF Init, Promise!Init

LEMMA RefineStep == PromiseInv /\ [Next]_vars => [Promise!Next]_(Promise!promiseVars)
<1> SUFFICES ASSUME PromiseInv, [Next]_vars
             PROVE  Promise!Next \/ UNCHANGED <<now, ledger>>
  BY DEF Promise!promiseVars
<1>1. CASE Tick
  BY <1>1 DEF Tick, Promise!Next, Promise!Advance
<1>2. ASSUME NEW s \in Inputs(now), AddJob(s) PROVE Promise!Next
  <2>1. nextId \in Ids /\ ledger[nextId] = NoEntry
    BY <1>2 DEF PromiseInv, TypeOK, AddJob, Ids, LedgerOK
  <2>2. [sched |-> s, since |-> now] \in Entry
    BY InputsAssumption DEF Entry, PromiseInv, TypeOK
  <2>3. ledger'[nextId] = [sched |-> s, since |-> now]
    BY <1>2, <2>1 DEF PromiseInv, TypeOK, AddJob
  <2>4. Promise!Submit(nextId)
    <3>1. ledger'[nextId] \in Promise!Entry /\ ledger'[nextId].since = now
      BY <2>2, <2>3, SameTypes
    <3>2. ledger' = [ledger EXCEPT ![nextId] = ledger'[nextId]] /\ UNCHANGED now
      BY <1>2, <2>3 DEF AddJob
    <3>3. QED
      BY <2>1, <3>1, <3>2 DEF Promise!Submit
  <2>5. QED
    BY <2>1, <2>4, SameTypes DEF Promise!Next
<1>3. ASSUME NEW id \in Ids, ExecuteJob(id) PROVE Promise!Next
  <2>1. Promise!StartJob(id)
    BY <1>3 DEF ExecuteJob, Promise!StartJob, PromiseInv, DueMayStart
  <2>2. QED
    BY <2>1, SameTypes DEF Promise!Next
<1>4. CASE Start \/ Stop \/ Exit \/ CheckJobs \/ FinishJob \/ UNCHANGED vars
  BY <1>4 DEF Start, Stop, Exit, CheckJobs, FinishJob, vars
<1>5. ASSUME NEW id \in Ids, RemoveJob(id) \/ \E on \in Switches : EnableJob(id, on)
      PROVE  UNCHANGED <<now, ledger>>
  BY <1>5 DEF RemoveJob, EnableJob
<1>6. QED
  BY <1>1, <1>2, <1>3, <1>4, <1>5 DEF Next

\* No one-time job starts twice, none starts early, and a recurring job never
\* starts again before its next time: across crashes, restarts, failed writes
\* and the tool calls that come between checkJobs and executeJob.
THEOREM PromiseKept == Spec => KeepsPromise
BY RefineInit, RefineStep, PromiseInvariant, PTL
   DEF Spec, KeepsPromise, Promise!Spec, Promise!promiseVars

-----------------------------------------------------------------------------
(* What the file holds.                                                    *)

SavedInv == NothingUnsaved /\ (faults = 0 => file # Torn)

LEMMA SaveSucceeds ==
  ASSUME faults \in Nat, NEW store, Save(store), faults' = 0
  PROVE  faults = 0 /\ file' = store
BY DEF Save

LEMMA SavedStep == PromiseInv /\ SavedInv /\ [Next]_vars => SavedInv'
<1> SUFFICES ASSUME PromiseInv, SavedInv, [Next]_vars, faults' = 0
             PROVE  file' # Torn /\ (Up' => file' = mem')
  BY DEF SavedInv, NothingUnsaved
<1>1. faults \in Nat /\ mem' \in Store
  BY PromiseStep DEF PromiseInv, TypeOK
<1>2. ASSUME Save(mem') PROVE file' = mem' /\ file' # Torn
  BY <1>1, <1>2, SaveSucceeds, SentinelAssumption
<1>3. CASE Tick \/ Stop \/ UNCHANGED vars
  BY <1>3 DEF Tick, Stop, vars, SavedInv, NothingUnsaved, Up
<1>4. CASE Start
  <2>1. faults' = faults \/ Save(mem')
    BY <1>4 DEF Start
  <2>2. faults = 0
    BY <1>1, <2>1, SaveSucceeds
  <2>3. Save(mem')
    BY <1>4, <2>2 DEF Start, SavedInv
  <2>4. QED
    BY <1>2, <2>3
<1>5. CASE Exit
  BY <1>5 DEF Exit, Up, SavedInv
<1>6. CASE CheckJobs \/ FinishJob
  BY <1>2, <1>6 DEF CheckJobs, FinishJob
<1>7. ASSUME NEW s \in Inputs(now), AddJob(s) PROVE Save(mem')
  BY <1>7 DEF AddJob
<1>8. ASSUME NEW id \in Ids, ExecuteJob(id) PROVE file' # Torn /\ (Up' => file' = mem')
  BY <1>8 DEF ExecuteJob, Up, SavedInv, NothingUnsaved
<1>9. ASSUME NEW id \in Ids, RemoveJob(id) \/ \E on \in Switches : EnableJob(id, on)
      PROVE  Save(mem')
  BY <1>9 DEF RemoveJob, EnableJob
<1>10. QED
  BY <1>2, <1>3, <1>4, <1>5, <1>6, <1>7, <1>8, <1>9 DEF Next

\* Until a write fails, a crash between any two steps loses nothing.
THEOREM Durability == Spec => []NothingUnsaved
<1>1. Init => SavedInv
  BY EmptyStoreType, SentinelAssumption DEF Init, SavedInv, NothingUnsaved, Up
<1>2. SavedInv => NothingUnsaved
  BY DEF SavedInv
<1>3. QED
  BY <1>1, <1>2, SavedStep, PromiseInvariant, PTL DEF Spec

-----------------------------------------------------------------------------
(* Recurring jobs.                                                         *)

\* A schedule that has a run after now had one after any earlier time.
LEMMA RecursEarlier ==
  ASSUME NEW s \in Schedule, NEW t \in Times, NEW u \in Times, t =< u, Recurs(s, u)
  PROVE  Recurs(s, t)
<1>1. CASE s.kind = "every"
  BY <1>1, ScheduleKinds DEF Recurs, ComputeNextRun, Times
<1>2. CASE s.kind = "cron"
  <2>1. NextTickAfter(s.expr, u) # NoTime /\ s.expr \in Exprs
    BY <1>2, ScheduleKinds DEF Recurs, ComputeNextRun
  <2>2. NextTickAfter(s.expr, t) # NoTime
    BY <2>1, TickAssumption DEF Times
  <2>3. QED
    BY <1>2, <2>2 DEF Recurs, ComputeNextRun
<1>3. QED
  BY <1>1, <1>2, ScheduleKinds DEF Recurs

LEMMA StrandedStep == PromiseInv /\ NoJobStranded /\ [Next]_vars => NoJobStranded'
<1> SUFFICES ASSUME PromiseInv, NoJobStranded, [Next]_vars,
                    NEW id \in Ids, mem'[id] # NoJob, mem'[id].enabled,
                    Recurs(mem'[id].sched, now')
             PROVE  mem'[id].next # NoTime \/ id \in due' \/ id = cur'
  BY DEF NoJobStranded, Present
<1>1. /\ mem \in Store /\ mem' \in Store /\ now \in Times /\ now' \in Times
      /\ mem'[id] \in Job
  BY PromiseStep DEF PromiseInv, TypeOK, Store
<1>2. ASSUME mem[id] # NoJob, mem[id] = mem'[id], now' = now
      PROVE  mem'[id].next # NoTime \/ id \in due \/ id = cur
  BY <1>2 DEF NoJobStranded, Present
<1>3. CASE Tick
  <2>1. now =< now' /\ mem'[id] = mem[id] /\ due' = due /\ cur' = cur
    BY <1>1, <1>3 DEF Tick, Times
  <2>2. Recurs(mem[id].sched, now)
    BY <1>1, <2>1, RecursEarlier DEF Job
  <2>3. QED
    BY <2>1, <2>2 DEF NoJobStranded, Present
<1>4. CASE Start
  <2>1. file # Torn
    BY <1>4, EmptyStoreType DEF Start, Present
  <2>2. file[id] \in Job /\ mem' = Recomputed(file, now) /\ now' = now
    BY <1>1, <1>4, <2>1 DEF Start, Recomputed, PromiseInv, TypeOK, Store
  <2>3. mem'[id].next = ComputeNextRun(mem'[id].sched, now')
    BY <2>2 DEF Recomputed, Job
  <2>4. QED
    BY <2>3 DEF Recurs
<1>5. CASE Exit
  BY <1>5 DEF Exit, EmptyStore
<1>6. CASE CheckJobs
  <2>1. CASE id \in due'
    BY <2>1
  <2>2. CASE id \notin due'
    BY <1>2, <1>6, <2>2 DEF CheckJobs, Cleared
  <2>3. QED
    BY <2>1, <2>2
<1>7. CASE FinishJob
  <2>1. CASE id = cur
    <3>1. mem[id] \in Job /\ mem' = [mem EXCEPT ![id].next = ComputeNextRun(mem[id].sched, now)]
      BY <1>1, <1>7, <2>1 DEF FinishJob, Finished, Removed, Store
    <3>2. mem'[id].next = ComputeNextRun(mem'[id].sched, now')
      BY <1>1, <1>7, <3>1 DEF FinishJob, Store, Job
    <3>3. QED
      BY <3>2 DEF Recurs
  <2>2. CASE id # cur
    BY <1>1, <1>2, <1>7, <2>2 DEF FinishJob, Finished, Removed, Store
  <2>3. QED
    BY <2>1, <2>2
<1>8. ASSUME NEW s \in Inputs(now), AddJob(s) PROVE mem'[id].next # NoTime \/ id \in due' \/ id = cur'
  <2>1. CASE id = nextId
    <3>1. mem'[id] = NewJob(s, now) /\ now' = now
      BY <1>1, <1>8, <2>1 DEF AddJob, Store
    <3>2. QED
      BY <3>1 DEF NewJob, Recurs
  <2>2. CASE id # nextId
    BY <1>1, <1>2, <1>8, <2>2 DEF AddJob, Store
  <2>3. QED
    BY <2>1, <2>2
<1>9. ASSUME NEW i \in Ids, ExecuteJob(i) PROVE mem'[id].next # NoTime \/ id \in due' \/ id = cur'
  BY <1>2, <1>9, SentinelAssumption DEF ExecuteJob
<1>10. ASSUME NEW i \in Ids, RemoveJob(i) PROVE mem'[id].next # NoTime \/ id \in due' \/ id = cur'
  BY <1>1, <1>2, <1>10 DEF RemoveJob, Removed, Store
<1>11. ASSUME NEW i \in Ids, NEW on \in Switches, EnableJob(i, on)
       PROVE mem'[id].next # NoTime \/ id \in due' \/ id = cur'
  <2>1. CASE id = i
    <3>1. mem[id] \in Job
      BY <1>1, <1>11, <2>1, PresentJob DEF EnableJob
    <3>2. /\ mem'[id].enabled = on /\ mem'[id].sched = mem[id].sched /\ now' = now
          /\ mem'[id].next = IF on THEN ComputeNextRun(mem[id].sched, now) ELSE NoTime
      BY <1>1, <1>11, <2>1, <3>1 DEF EnableJob, Switched, Store, Job
    <3>3. QED
      BY <3>2 DEF Recurs
  <2>2. CASE id # i
    BY <1>1, <1>2, <1>11, <2>2 DEF EnableJob, Switched, Store
  <2>3. QED
    BY <2>1, <2>2
<1>12. CASE UNCHANGED vars
  BY <1>2, <1>12 DEF vars
<1>13. CASE Stop
  BY <1>2, <1>13 DEF Stop
<1>14. CASE \E s \in Inputs(now) : AddJob(s)
  BY <1>8, <1>14
<1>15. CASE \E i \in Ids : \/ ExecuteJob(i)
                           \/ RemoveJob(i)
                           \/ \E on \in Switches : EnableJob(i, on)
  BY <1>9, <1>10, <1>11, <1>15
<1>16. QED
  BY <1>3, <1>4, <1>5, <1>6, <1>7, <1>12, <1>13, <1>14, <1>15 DEF Next

\* The nil that checkJobs leaves in the store is never permanent: a recurring
\* job keeps having a next run for as long as it is enabled.
THEOREM NeverStranded == Spec => []NoJobStranded
<1>1. Init => NoJobStranded
  BY EmptyStoreType DEF Init, NoJobStranded
<1>2. QED
  BY <1>1, StrandedStep, PromiseInvariant, PTL DEF Spec

-----------------------------------------------------------------------------
(* What the steps of the goroutine leave to the user.                      *)

LEMMA UpStep ==
  ASSUME PromiseInv, [Next]_vars, Up, Up', NEW id \in Ids, KnownEnabled(id)'
  PROVE  \/ id \in Present(mem) /\ mem[id].enabled
         \/ AddJob(mem'[id].sched)
         \/ EnableJob(id, TRUE)
<1>. DEFINE Was == id \in Present(mem) /\ mem[id].enabled
<1>1. mem \in Store /\ mem' \in Store /\ mem'[id] # NoJob /\ mem'[id].enabled
      /\ (mem[id] # NoJob => mem[id] \in Job)
  BY PromiseStep DEF PromiseInv, TypeOK, KnownEnabled, Known, Present, Store
<1>2. CASE UNCHANGED mem
  BY <1>1, <1>2 DEF Present
<1>3. ASSUME NEW s \in Inputs(now), AddJob(s) PROVE Was \/ AddJob(mem'[id].sched)
  <2>1. s \in Schedule /\ nextId \in Ids /\ NewJob(s, now).sched = s
        /\ mem' = [mem EXCEPT ![nextId] = NewJob(s, now)]
    BY <1>3, InputsAssumption DEF AddJob, NewJob, PromiseInv, TypeOK, Ids
  <2>2. CASE id = nextId
    <3>1. mem'[id].sched = s
      BY <1>1, <2>1, <2>2 DEF Store
    <3>2. QED
      BY <1>3, <3>1
  <2>3. CASE id # nextId
    BY <1>1, <2>1, <2>3 DEF Present, Store
  <2>4. QED
    BY <2>2, <2>3
<1>4. CASE CheckJobs
  <2>1. \/ mem'[id] = mem[id]
        \/ mem[id] # NoJob /\ mem'[id] = [mem[id] EXCEPT !.next = NoTime]
    <3>1. mem' = Cleared(mem, due') /\ due' \subseteq Present(mem)
      BY <1>4 DEF CheckJobs, DueJobs
    <3>2. mem'[id] = IF id \in due' THEN [mem[id] EXCEPT !.next = NoTime] ELSE mem[id]
      BY <3>1 DEF Cleared
    <3>3. QED
      BY <3>1, <3>2 DEF Present
  <2>2. mem[id] # NoJob /\ mem[id] \in Job
    BY <1>1, <2>1
  <2>3. mem'[id].enabled = mem[id].enabled
    BY <2>1, <2>2 DEF Job
  <2>4. QED
    BY <1>1, <2>2, <2>3 DEF Present
<1>5. CASE FinishJob
  <2>1. mem' = Finished(mem, cur, now) /\ cur \in Ids
    BY <1>5 DEF FinishJob, PromiseInv, TypeOK
  <2>2. CASE mem[cur] = NoJob
    BY <1>1, <2>1, <2>2 DEF Finished, Present
  <2>3. CASE mem[cur] # NoJob /\ mem[cur].sched.kind = "at"
    BY <1>1, <2>1, <2>3 DEF Finished, Removed, Present, Store
  <2>4. CASE mem[cur] # NoJob /\ mem[cur].sched.kind # "at"
    <3>1. mem' = [mem EXCEPT ![cur].next = ComputeNextRun(mem[cur].sched, now)]
      BY <2>1, <2>4 DEF Finished
    <3>2. mem[id] # NoJob /\ mem[id] \in Job /\ mem'[id].enabled = mem[id].enabled
      BY <1>1, <2>1, <2>4, <3>1 DEF Store, Job
    <3>3. QED
      BY <1>1, <3>2 DEF Present
  <2>5. QED
    BY <2>2, <2>3, <2>4
<1>6. ASSUME NEW i \in Ids, RemoveJob(i) PROVE Was
  BY <1>1, <1>6 DEF RemoveJob, Removed, Present, Store
<1>7. ASSUME NEW i \in Ids, NEW on \in Switches, EnableJob(i, on) PROVE Was \/ EnableJob(id, TRUE)
  <2>1. i \in Present(mem) /\ mem' = Switched(mem, i, on, now) /\ on \in BOOLEAN
    BY <1>7, InputsAssumption DEF EnableJob
  <2>2. CASE i = id
    <3>1. mem'[id].enabled = on
      BY <1>1, <2>1, <2>2 DEF Switched, Present, Store, Job
    <3>2. QED
      BY <1>1, <1>7, <2>1, <2>2, <3>1
  <2>3. CASE i # id
    BY <1>1, <2>1, <2>3 DEF Switched, Present, Store
  <2>4. QED
    BY <2>2, <2>3
<1>8. ~Start /\ ~Exit
  BY DEF Start, Exit, Up
<1>9. QED
  BY <1>2, <1>3, <1>4, <1>5, <1>6, <1>7, <1>8 DEF Next, Tick, Stop, ExecuteJob, vars

\* Start recomputes next runs and enables nothing.
LEMMA StartEnablesNothing ==
  ASSUME PromiseInv, Start, NEW id \in Ids, KnownEnabled(id)'
  PROVE  KnownEnabled(id)
<1>1. ~Up /\ Up' /\ id \in Present(mem)' /\ mem'[id].enabled
  BY DEF Start, Up, KnownEnabled, Known, Present
<1>2. file # Torn /\ mem' = Recomputed(file, now) /\ file \in Store
  BY <1>1, EmptyStoreType DEF Start, Present, EmptyStore, PromiseInv, TypeOK
<1>3. id \in Present(file) /\ file[id].enabled
  <2>1. mem'[id] # NoJob /\ mem'[id] =
          IF file[id] # NoJob /\ file[id].enabled
          THEN [file[id] EXCEPT !.next = ComputeNextRun(file[id].sched, now)]
          ELSE file[id]
    BY <1>1, <1>2 DEF Recomputed, Present
  <2>2. QED
    BY <1>1, <2>1 DEF Present
<1>4. QED
  BY <1>1, <1>2, <1>3 DEF KnownEnabled, Known

\* A process that has ended has no goroutines.
DownInv == ~Up => ~running /\ due = {} /\ cur = NoId

LEMMA DownStep == DownInv /\ [Next]_vars => DownInv'
<1> SUFFICES ASSUME DownInv, [Next]_vars, ~Up' PROVE ~running' /\ due' = {} /\ cur' = NoId
  BY DEF DownInv
<1>1. CASE Up
  BY <1>1 DEF Next, Tick, Start, Stop, Exit, CheckJobs, FinishJob, AddJob, ExecuteJob, RemoveJob, EnableJob, Up, vars
<1>2. CASE ~Up
  BY <1>2 DEF DownInv, Next, Tick, Start, Stop, Exit, CheckJobs, FinishJob, AddJob, ExecuteJob, RemoveJob, EnableJob, Up, vars
<1>3. QED
  BY <1>1, <1>2

LEMMA UserDecidesStep ==
  ASSUME PromiseInv, SavedInv, DownInv, [Next]_vars, NEW id \in Ids, KnownEnabled(id)'
  PROVE  \/ KnownEnabled(id)
         \/ AddJob(mem'[id].sched)
         \/ EnableJob(id, TRUE)
         \/ Exit /\ faults # 0
<1>1. CASE Up /\ Up'
  BY <1>1, UpStep DEF KnownEnabled, Known
<1>2. CASE Up /\ ~Up'
  <2>1. Exit
    BY <1>2 DEF Next, Tick, Start, Stop, CheckJobs, FinishJob, AddJob, ExecuteJob, RemoveJob, EnableJob, Up, vars
  <2>2. ASSUME faults = 0 PROVE Known' = Known
    BY <1>2, <2>1, <2>2 DEF SavedInv, NothingUnsaved, Known, Exit, Up
  <2>3. QED
    BY <2>1, <2>2 DEF KnownEnabled, Present
<1>3. CASE ~Up /\ Up'
  <2>1. Start
    BY <1>3, SentinelAssumption
       DEF Next, Tick, Stop, Exit, CheckJobs, FinishJob, AddJob, ExecuteJob, RemoveJob, EnableJob, Up, vars
  <2>2. QED
    BY <2>1, StartEnablesNothing
<1>4. CASE ~Up /\ ~Up'
  <2>1. UNCHANGED file
    BY <1>4 DEF DownInv, Next, Tick, Start, Stop, Exit, CheckJobs, FinishJob, AddJob, ExecuteJob,
                RemoveJob, EnableJob, Up, vars
  <2>2. QED
    BY <1>4, <2>1 DEF KnownEnabled, Known, Present
<1>5. QED
  BY <1>1, <1>2, <1>3, <1>4

\* EnableJob and RemoveJob against checkJobs and executeJob, which write the job back
\* after it has run, and against the end of the process and recomputeNextRuns: a job
\* is enabled or comes back only when the user asks for it, or when the process ends
\* after a failed write.
THEOREM UsersDecide == Spec => UserDecides
<1>1. Init => SavedInv
  BY EmptyStoreType, SentinelAssumption DEF Init, SavedInv, NothingUnsaved, Up
<1>2. DownInv /\ PromiseInv /\ SavedInv /\ [Next]_vars =>
        [\A id \in Ids : KnownEnabled(id)' =>
           \/ KnownEnabled(id)
           \/ AddJob(mem'[id].sched)
           \/ EnableJob(id, TRUE)
           \/ Exit /\ faults # 0]_vars
  BY UserDecidesStep
<1>3. Init => DownInv
  BY DEF Init, DownInv
<1>4. QED
  BY <1>1, <1>2, <1>3, DownStep, SavedStep, PromiseInvariant, PTL DEF Spec, UserDecides
=============================================================================
