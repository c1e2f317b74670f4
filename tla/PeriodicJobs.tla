---------------------------- MODULE PeriodicJobs ----------------------------
(***************************************************************************)
(* The periodic jobs: the sorted set in Redis that says when each is next, *)
(* a record of each, and the scheduler processes that put what is due on   *)
(* its queue and back on the schedule for later (tasks/schedule.py over    *)
(* rq-scheduler).  There is one process; while a new version is rolled out *)
(* there are two, and they need not define the same jobs.  A job's id is a *)
(* hash of its definition, so a job with a new interval is another job.    *)
(***************************************************************************)
EXTENDS Naturals, FiniteSets

CONSTANTS
    Schedulers,  \* processes
    Outgoing,    \* those of the version that a rollout takes away
    PeriodicIds, \* job_id of the definitions of either version
    DefinedBy,   \* periodic_job_definitions of a process
    NoScheduler,
    MaxMishaps   \* processes and records lost, and passes longer than the lock (bound)

ASSUME PeriodicAssumption ==
    /\ Outgoing \subseteq Schedulers
    /\ DefinedBy \in [Schedulers -> SUBSET PeriodicIds]
    /\ NoScheduler \notin Schedulers
    /\ MaxMishaps \in Nat

VARIABLES
    entry,    \* the sorted set
    record,   \* the jobs that have a record
    inQueue,  \* on the queue for the workers
    schedPc,  \* where a process is
    toRemove, \* jobs_to_clean_up of a process that starts
    toAdd,    \* the jobs that it found missing, or has queued and not put back
    toQueue,  \* the jobs that its pass found due
    passLock, \* rq-scheduler's lock on a pass
    mishaps,
    revived   \* history: jobs put on the schedule by one process while another that is
              \* to outlive it, and does not define them, was up

passVars     == <<schedPc, toRemove, toAdd, toQueue>>
periodicVars == <<entry, record, inQueue, passVars, passLock, mishaps, revived>>

SchedPcs == {"down", "clean", "add", "rest", "queue", "put", "mend", "gone"}
Whens    == {"none", "due", "later"}

\* Types.
PeriodicTypeOK ==
    /\ entry \in [PeriodicIds -> Whens]
    /\ record \subseteq PeriodicIds /\ inQueue \subseteq PeriodicIds
    /\ schedPc \in [Schedulers -> SchedPcs]
    /\ toRemove \in [Schedulers -> SUBSET PeriodicIds]
    /\ \A s \in Schedulers : toRemove[s] \cap DefinedBy[s] = {}
    /\ toAdd \in [Schedulers -> SUBSET PeriodicIds]
    /\ toQueue \in [Schedulers -> SUBSET PeriodicIds]
    /\ passLock \in Schedulers \cup {NoScheduler}
    /\ mishaps \in 0..MaxMishaps
    /\ revived \subseteq PeriodicIds

\* Redis is empty, or as earlier processes have left it.
PeriodicInit ==
    /\ entry \in [PeriodicIds -> {"none", "due"}]
    /\ inQueue \in SUBSET PeriodicIds
    /\ record = inQueue \cup {d \in PeriodicIds : entry[d] # "none"}
    /\ schedPc = [s \in Schedulers |-> "down"]
    /\ toRemove = [s \in Schedulers |-> {}]
    /\ toAdd = [s \in Schedulers |-> {}]
    /\ toQueue = [s \in Schedulers |-> {}]
    /\ passLock = NoScheduler
    /\ mishaps = 0
    /\ revived = {}

-----------------------------------------------------------------------------

SchedulerGoto(s, from, to) ==
    /\ schedPc[s] = from
    /\ schedPc' = [schedPc EXCEPT ![s] = to]

Up == {s \in Schedulers : schedPc[s] \notin {"down", "gone"}}

\* s puts ds on the schedule.
Revives(s, ds) ==
    revived' = revived \cup
        {d \in ds : s \in Outgoing /\ \E n \in Up \ Outgoing : d \notin DefinedBy[n]}

\* Whoever lists the schedule drops what has no record.
Listed(among)  == {d \in among : entry[d] # "none" /\ d \in record}
Dropped(among) == [d \in PeriodicIds |->
                      IF d \in among \ record THEN "none" ELSE entry[d]]
DueNow(ds)     == [d \in PeriodicIds |-> IF d \in ds THEN "due" ELSE entry[d]]

(* Starting: schedule_periodic_jobs *)

\* Mutant: what the old version has put on the schedule stays.
LeftAlone(s) == {}

Obsolete(s) == Listed(PeriodicIds \ DefinedBy[s])

\* jobs_to_clean_up, then jobs_to_schedule
StartScheduler(s) ==
    /\ SchedulerGoto(s, "down", "clean")
    /\ toRemove' = [toRemove EXCEPT ![s] = Obsolete(s)]
    /\ toAdd' = [toAdd EXCEPT ![s] = {d \in DefinedBy[s] : Dropped(PeriodicIds)[d] = "none"}]
    /\ entry' = Dropped(PeriodicIds)
    /\ UNCHANGED <<record, inQueue, toQueue, passLock, mishaps, revived>>

\* rq_scheduler.cancel and job.delete, which takes it off its queue as well
RemoveOld(s) ==
    /\ SchedulerGoto(s, "clean", "add")
    /\ entry' = [d \in PeriodicIds |-> IF d \in toRemove[s] THEN "none" ELSE entry[d]]
    /\ record' = record \ toRemove[s]
    /\ inQueue' = inQueue \ toRemove[s]
    /\ toRemove' = [toRemove EXCEPT ![s] = {}]
    /\ UNCHANGED <<toAdd, toQueue, passLock, mishaps, revived>>

\* A record, and an entry for now, written over whatever is there.
AddMissing(s) ==
    /\ entry' = DueNow(toAdd[s])
    /\ record' = record \cup toAdd[s]
    /\ Revives(s, toAdd[s])
    /\ toAdd' = [toAdd EXCEPT ![s] = {}]

FinishStart(s) ==
    /\ SchedulerGoto(s, "add", "rest")
    /\ AddMissing(s)
    /\ UNCHANGED <<inQueue, toRemove, toQueue, passLock, mishaps>>

(* A pass: rq-scheduler's enqueue_jobs, and the look that follows it *)

BeginPass(s) ==
    /\ passLock = NoScheduler
    /\ SchedulerGoto(s, "rest", "queue")
    /\ passLock' = s
    /\ LET due == {d \in PeriodicIds : entry[d] = "due"} IN
        /\ entry' = Dropped(due)
        /\ toQueue' = [toQueue EXCEPT ![s] = Listed(due)]
    /\ UNCHANGED <<record, inQueue, toRemove, toAdd, mishaps, revived>>

\* On the queue, with its record, and off the schedule; one job at a time.
QueueDue(s, d) ==
    /\ d \in toQueue[s]
    /\ SchedulerGoto(s, "queue", "put")
    /\ inQueue' = inQueue \cup {d}
    /\ record' = record \cup {d}
    /\ entry' = [entry EXCEPT ![d] = "none"]
    /\ toAdd' = [toAdd EXCEPT ![s] = {d}]
    /\ toQueue' = [toQueue EXCEPT ![s] = @ \ {d}]
    /\ UNCHANGED <<toRemove, passLock, mishaps, revived>>

PutBack(s) ==
    /\ SchedulerGoto(s, "put", "queue")
    /\ entry' = [d \in PeriodicIds |-> IF d \in toAdd[s] THEN "later" ELSE entry[d]]
    /\ Revives(s, toAdd[s])
    /\ toAdd' = [toAdd EXCEPT ![s] = {}]
    /\ UNCHANGED <<record, inQueue, toRemove, toQueue, passLock, mishaps>>

\* Mutant: nothing is looked for.
NothingMissing(s) == {}

ToMend(s) == {d \in DefinedBy[s] : entry[d] = "none"}

\* Every thirty seconds, reschedule_missing_periodic_jobs
LookForMissing(s) ==
    /\ toQueue[s] = {}
    /\ SchedulerGoto(s, "queue", "mend")
    /\ toAdd' = [toAdd EXCEPT ![s] = ToMend(s)]
    /\ UNCHANGED <<entry, record, inQueue, toRemove, toQueue, passLock, mishaps, revived>>

\* remove_lock deletes whatever lock there is.
EndPass(s) ==
    /\ \/ SchedulerGoto(s, "mend", "rest")
       \/ toQueue[s] = {} /\ SchedulerGoto(s, "queue", "rest")
    /\ AddMissing(s)
    /\ passLock' = NoScheduler
    /\ UNCHANGED <<inQueue, toRemove, toQueue, mishaps>>

-----------------------------------------------------------------------------
(* What goes wrong, and what goes on *)

Mishap ==
    /\ mishaps < MaxMishaps
    /\ mishaps' = mishaps + 1

LetGoOfAll(s) ==
    /\ toRemove' = [toRemove EXCEPT ![s] = {}]
    /\ toAdd' = [toAdd EXCEPT ![s] = {}]
    /\ toQueue' = [toQueue EXCEPT ![s] = {}]

\* Killed: the lock stays.
KillScheduler(s) ==
    /\ Mishap
    /\ s \in Up
    /\ schedPc' = [schedPc EXCEPT ![s] = "down"]
    /\ LetGoOfAll(s)
    /\ UNCHANGED <<entry, record, inQueue, passLock, revived>>

\* The rollout stops it, wherever it is; the lock may stay as well.
Retire(s) ==
    /\ s \in Outgoing
    /\ schedPc[s] # "gone"
    /\ schedPc' = [schedPc EXCEPT ![s] = "gone"]
    /\ LetGoOfAll(s)
    /\ UNCHANGED <<entry, record, inQueue, passLock, mishaps, revived>>

\* The lock has fifteen seconds: it runs out under a process only if the pass is longer.
PassLockExpires ==
    /\ passLock # NoScheduler
    /\ IF \E s \in Schedulers : passLock = s /\ schedPc[s] \in {"queue", "put", "mend"} THEN Mishap ELSE UNCHANGED mishaps
    /\ passLock' = NoScheduler
    /\ UNCHANGED <<entry, record, inQueue, passVars, revived>>

\* Redis loses a record.  That of a job that has run stays (result_ttl -1).
LoseRecord(d) ==
    /\ Mishap
    /\ d \in record \ inQueue
    /\ record' = record \ {d}
    /\ UNCHANGED <<entry, inQueue, passVars, passLock, revived>>

ComesDue ==
    /\ entry' = [d \in PeriodicIds |-> IF entry[d] = "later" THEN "due" ELSE entry[d]]
    /\ UNCHANGED <<record, inQueue, passVars, passLock, mishaps, revived>>

RunPeriodic(d) ==
    /\ inQueue' = inQueue \ {d}
    /\ UNCHANGED <<entry, record, passVars, passLock, mishaps, revived>>

SchedulerStep(s) ==
    \/ RemoveOld(s) \/ FinishStart(s)
    \/ BeginPass(s) \/ PutBack(s) \/ LookForMissing(s) \/ EndPass(s)
    \/ \E d \in PeriodicIds : QueueDue(s, d)

PeriodicNext ==
    \/ \E s \in Schedulers :
        StartScheduler(s) \/ SchedulerStep(s) \/ KillScheduler(s) \/ Retire(s)
    \/ \E d \in PeriodicIds : LoseRecord(d) \/ RunPeriodic(d)
    \/ PassLockExpires \/ ComesDue

PeriodicSpec == PeriodicInit /\ [][PeriodicNext]_periodicVars

-----------------------------------------------------------------------------

Current == UNION {DefinedBy[s] : s \in Schedulers \ Outgoing}

\* Again and again every job of the version that stays is put on its queue, whatever
\* record was lost and whoever died in between: "one lost record stopped that job until
\* somebody restarted the scheduler" (StatsdRecordingScheduler) is over.  And a job that
\* the version does not have any more goes from the schedule, unless a process of the
\* outgoing one put it back with the new one already up.
ScheduleIsKept ==
    /\ \A d \in Current : []<>(d \in inQueue)
    /\ <>[](\A d \in PeriodicIds \ Current : entry[d] = "none" \/ d \in revived)
=============================================================================
