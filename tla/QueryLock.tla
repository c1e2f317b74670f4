------------------------------ MODULE QueryLock ------------------------------
(***************************************************************************)
(* The per-query job lock of sqldesk/tasks/queries: how enqueue_query      *)
(* decides between joining a running job and starting one, how the job     *)
(* gives the lock back, and how remove_ghost_locks sweeps what is left.    *)
(*                                                                         *)
(* The key is query_hash_job:<data source>:<hash>; keys of different       *)
(* queries never interact, so one key is modelled.  Every Redis round trip *)
(* is one action.  RQ itself (the queue, the registries, the record of a   *)
(* job and its TTL) is external: only what the code relies on is here.     *)
(*                                                                         *)
(* A job id is a UUID, never used twice.  Jobs is finite, so an id returns *)
(* to the pool once its record is gone and nothing refers to it any more.  *)
(***************************************************************************)
EXTENDS Naturals, FiniteSets

CONSTANTS
    Enqueuers,  \* the threads that may be inside enqueue_query at once
    Jobs,       \* job ids in play at once (bound)
    NoJob,      \* the absence of a job id
    MaxTries    \* enqueue_query's limit on its retry loop

ASSUME QueryLockAssumption ==
    /\ NoJob \notin Jobs
    /\ MaxTries \in Nat \ {0}

VARIABLES
    lock,       \* the value of the lock key, NoJob when it is not set
    status,     \* RQ's status of a job; "none": no record of it in Redis
    phase,      \* where QueryExecutor.run is for a job
    pc,         \* where an enqueuer is in enqueue_query
    seen,       \* the job id its GET returned, as long as it is needed
    job,        \* its local variable job
    dirty,      \* the key changed since its WATCH: EXEC will fail
    tries,      \* its try_count
    ended,      \* history: jobs that were over when its call began
    sweepPc,    \* where remove_ghost_locks is
    sweepSeen,  \* the lock value it read, as long as it is needed
    sweepFound  \* whether rq_job_ids has shown it that job so far

lockVars    == <<lock, dirty>>
jobVars     == <<status, phase>>
enqueueVars == <<pc, seen, job, tries, ended>>
sweepVars   == <<sweepPc, sweepSeen, sweepFound>>
vars == <<lock, status, phase, pc, seen, job, dirty, tries, ended,
          sweepPc, sweepSeen, sweepFound>>

\* Between pipe.watch and the pipe.reset at the end of a try.
Watching(e) == pc[e] \in {"get", "fetch", "delete", "push", "exec"}

JobOrNone == Jobs \cup {NoJob}
Statuses  == {"none", "queued", "started", "finished", "failed", "canceled"}
Phases    == {"idle", "slot", "query", "store", "unlock", "return", "killed"}
EnqueuePc == {"idle", "watch", "get", "fetch", "delete", "push", "exec"}
SweepPc   == {"idle", "get", "started", "queued", "delete"}

TypeOK ==
    /\ lock \in JobOrNone
    /\ status \in [Jobs -> Statuses]
    /\ phase \in [Jobs -> Phases]
    /\ pc \in [Enqueuers -> EnqueuePc]
    /\ seen \in [Enqueuers -> JobOrNone]
    /\ job \in [Enqueuers -> JobOrNone]
    /\ dirty \in [Enqueuers -> BOOLEAN]
    /\ tries \in [Enqueuers -> 0..MaxTries]
    /\ ended \in [Enqueuers -> SUBSET Jobs]
    /\ sweepPc \in SweepPc
    /\ sweepSeen \in JobOrNone
    /\ sweepFound \in BOOLEAN

Init ==
    /\ lock = NoJob
    /\ status = [j \in Jobs |-> "none"]
    /\ phase = [j \in Jobs |-> "idle"]
    /\ pc = [e \in Enqueuers |-> "idle"]
    /\ seen = [e \in Enqueuers |-> NoJob]
    /\ job = [e \in Enqueuers |-> NoJob]
    /\ dirty = [e \in Enqueuers |-> FALSE]
    /\ tries = [e \in Enqueuers |-> 0]
    /\ ended = [e \in Enqueuers |-> {}]
    /\ sweepPc = "idle"
    /\ sweepSeen = NoJob
    /\ sweepFound = FALSE

-----------------------------------------------------------------------------
(* Redis and RQ *)

\* DEL fails the EXEC of everyone watching the key, unless it was not there.
DeleteLock ==
    /\ lock' = NoJob
    /\ dirty' = [e \in Enqueuers |-> dirty[e] \/ (lock # NoJob /\ Watching(e))]

\* Mutant: any record counts, as if the status of the job were not looked at.
AnyRecordIsLive(j) == status[j] # "none"

\* Neither job_complete nor job_cancelled, and job_exists.
Live(j) == status[j] \in {"queued", "started"}

\* What the caller's request came after: the job has ended, whoever looks.
Over(j) == status[j] \in {"finished", "failed", "canceled"}

\* An id that enqueue may mint: nothing anywhere still means an older job by it.
Unused(j) ==
    /\ status[j] = "none"
    /\ j \notin {lock, sweepSeen}
    /\ \A e \in Enqueuers : j \notin {seen[e], job[e]}

-----------------------------------------------------------------------------
(* enqueue_query *)

Goto(e, from, to) ==
    /\ pc[e] = from
    /\ pc' = [pc EXCEPT ![e] = to]

\* Out of the loop, with job[e] for the caller; the pipeline is reset.
Return(e) ==
    /\ pc' = [pc EXCEPT ![e] = "idle"]
    /\ seen' = [seen EXCEPT ![e] = NoJob]
    /\ job' = [job EXCEPT ![e] = NoJob]
    /\ tries' = [tries EXCEPT ![e] = 0]
    /\ ended' = [ended EXCEPT ![e] = {}]

Call(e) ==
    /\ Goto(e, "idle", "watch")
    /\ tries' = [tries EXCEPT ![e] = 1]
    /\ ended' = [ended EXCEPT ![e] = {j \in Jobs : Over(j)}]
    /\ UNCHANGED <<lockVars, seen, job, jobVars, sweepVars>>

Watch(e) ==
    /\ Goto(e, "watch", "get")
    /\ UNCHANGED <<lockVars, seen, job, tries, ended, jobVars, sweepVars>>

GetHeld(e) ==
    /\ lock # NoJob
    /\ Goto(e, "get", "fetch")
    /\ seen' = [seen EXCEPT ![e] = lock]
    /\ UNCHANGED <<lockVars, job, tries, ended, jobVars, sweepVars>>

GetFree(e) ==
    /\ lock = NoJob
    /\ job[e] = NoJob
    /\ Goto(e, "get", "push")
    /\ UNCHANGED <<lockVars, seen, job, tries, ended, jobVars, sweepVars>>

\* No lock, but an earlier try has queued a job: that job is the answer.
GetOwn(e) ==
    /\ pc[e] = "get"
    /\ lock = NoJob
    /\ job[e] # NoJob
    /\ Return(e)
    /\ dirty' = [dirty EXCEPT ![e] = FALSE]
    /\ UNCHANGED <<lock, jobVars, sweepVars>>

\* The job the lock names is waiting or running: that job is the answer.
Join(e) ==
    /\ pc[e] = "fetch"
    /\ Live(seen[e])
    /\ Return(e)
    /\ dirty' = [dirty EXCEPT ![e] = FALSE]
    /\ UNCHANGED <<lock, jobVars, sweepVars>>

FindOver(e) ==
    /\ Goto(e, "fetch", "delete")
    /\ ~Live(seen[e])
    /\ seen' = [seen EXCEPT ![e] = NoJob]
    /\ UNCHANGED <<lockVars, job, tries, ended, jobVars, sweepVars>>

\* The delete goes over another connection than the one that is watching.
RemoveLock(e) ==
    /\ Goto(e, "delete", "push")
    /\ DeleteLock
    /\ job' = [job EXCEPT ![e] = NoJob]
    /\ UNCHANGED <<seen, tries, ended, jobVars, sweepVars>>

\* queue.enqueue is not part of the transaction: the job may start at once.
Push(e) ==
    /\ Goto(e, "push", "exec")
    /\ \E j \in Jobs :
        /\ Unused(j)
        /\ status' = [status EXCEPT ![j] = "queued"]
        /\ job' = [job EXCEPT ![e] = j]
        /\ ended' = [d \in Enqueuers |-> ended[d] \ {j}]
    /\ UNCHANGED <<lockVars, seen, tries, phase, sweepVars>>

\* Mutant: SET without the WATCH.
SetRegardless(e) ==
    /\ pc[e] = "exec"
    /\ lock' = job[e]
    /\ dirty' = [d \in Enqueuers |-> d # e /\ (dirty[d] \/ Watching(d))]
    /\ Return(e)
    /\ UNCHANGED <<jobVars, sweepVars>>

\* The transaction goes through: SET, and the EXEC of other watchers will fail.
ExecSet(e) ==
    /\ pc[e] = "exec"
    /\ ~dirty[e]
    /\ lock' = job[e]
    /\ dirty' = [d \in Enqueuers |-> d # e /\ (dirty[d] \/ Watching(d))]
    /\ Return(e)
    /\ UNCHANGED <<jobVars, sweepVars>>

\* Mutant: one try too many.
ConflictOffByOne(e) ==
    /\ pc[e] = "exec"
    /\ dirty[e]
    /\ tries[e] <= MaxTries
    /\ dirty' = [dirty EXCEPT ![e] = FALSE]
    /\ pc' = [pc EXCEPT ![e] = "watch"]
    /\ tries' = [tries EXCEPT ![e] = @ + 1]
    /\ UNCHANGED <<lock, seen, job, ended, jobVars, sweepVars>>

\* WatchError: once more, with job[e] still the job queued a moment ago.
ExecConflict(e) ==
    /\ pc[e] = "exec"
    /\ dirty[e]
    /\ dirty' = [dirty EXCEPT ![e] = FALSE]
    /\ \/ /\ tries[e] < MaxTries
          /\ pc' = [pc EXCEPT ![e] = "watch"]
          /\ tries' = [tries EXCEPT ![e] = @ + 1]
          /\ UNCHANGED <<seen, job, ended>>
       \/ /\ tries[e] = MaxTries
          /\ Return(e)
    /\ UNCHANGED <<lock, jobVars, sweepVars>>

Enqueue(e) ==
    \/ Watch(e) \/ GetHeld(e) \/ GetFree(e) \/ GetOwn(e) \/ Join(e)
    \/ FindOver(e) \/ RemoveLock(e) \/ Push(e) \/ ExecSet(e) \/ ExecConflict(e)

-----------------------------------------------------------------------------
(* QueryExecutor.run in a work horse *)

RunStep(j, from, to) ==
    /\ phase[j] = from
    /\ phase' = [phase EXCEPT ![j] = to]

Start(j) ==
    /\ status[j] = "queued"
    /\ status' = [status EXCEPT ![j] = "started"]
    /\ RunStep(j, "idle", "slot")
    /\ UNCHANGED <<lockVars, enqueueVars, sweepVars>>

TakeSlot(j) ==
    /\ RunStep(j, "slot", "query")
    /\ UNCHANGED <<lockVars, status, enqueueVars, sweepVars>>

\* _refuse raises before the try whose finally unlocks.
Refuse(j) ==
    /\ RunStep(j, "slot", "return")
    /\ UNCHANGED <<lockVars, status, enqueueVars, sweepVars>>

QueryReturns(j) ==
    /\ RunStep(j, "query", "store")
    /\ UNCHANGED <<lockVars, status, enqueueVars, sweepVars>>

QueryFails(j) ==
    /\ RunStep(j, "query", "unlock")
    /\ UNCHANGED <<lockVars, status, enqueueVars, sweepVars>>

\* store_result, update_latest_result and their commit, or an exception there.
Store(j) ==
    /\ RunStep(j, "store", "unlock")
    /\ UNCHANGED <<lockVars, status, enqueueVars, sweepVars>>

\* Mutant: a plain delete.
UnlockAny(j) ==
    /\ RunStep(j, "unlock", "return")
    /\ DeleteLock
    /\ UNCHANGED <<status, enqueueVars, sweepVars>>

\* _unlock: compare and delete in one script.
Unlock(j) ==
    /\ RunStep(j, "unlock", "return")
    /\ IF lock = j THEN DeleteLock ELSE UNCHANGED lockVars
    /\ UNCHANGED <<status, enqueueVars, sweepVars>>

\* execute_query returns, its QueryExecutionError too: RQ calls it finished.
JobReturns(j) ==
    /\ RunStep(j, "return", "idle")
    /\ status' = [status EXCEPT ![j] = "finished"]
    /\ UNCHANGED <<lockVars, enqueueVars, sweepVars>>

\* Mutant: nobody moves the job of a dead horse to the failed registry.
FailureUnnoticed(j) ==
    /\ RunStep(j, "killed", "idle")
    /\ UNCHANGED <<lockVars, status, enqueueVars, sweepVars>>

\* The worker, or RQ's registry cleanup when the worker died too.
HandleFailure(j) ==
    /\ RunStep(j, "killed", "idle")
    /\ status' = [status EXCEPT ![j] = "failed"]
    /\ UNCHANGED <<lockVars, enqueueVars, sweepVars>>

Work(j) ==
    \/ Start(j) \/ TakeSlot(j) \/ Refuse(j) \/ QueryReturns(j) \/ QueryFails(j)
    \/ Store(j) \/ Unlock(j) \/ JobReturns(j) \/ HandleFailure(j)

\* CancellableJob.cancel, by the person waiting or by an administrator.
Cancel(j) ==
    /\ Live(j)
    /\ status' = [status EXCEPT ![j] = "canceled"]
    /\ UNCHANGED <<lockVars, phase, enqueueVars, sweepVars>>

\* The monitor's SIGINT raises InterruptException wherever the horse is; only
\* inside the second try of run is there a finally that unlocks.
Interrupt(j) ==
    /\ status[j] = "canceled"
    /\ \/ RunStep(j, "slot", "killed")
       \/ RunStep(j, "query", "unlock")
       \/ RunStep(j, "store", "unlock")
       \/ RunStep(j, "unlock", "killed")
    /\ UNCHANGED <<lockVars, status, enqueueVars, sweepVars>>

\* The work horse is killed: out of memory, the hard time limit, a lost node.
Kill(j) ==
    /\ phase[j] \notin {"idle", "killed"}
    /\ phase' = [phase EXCEPT ![j] = "killed"]
    /\ UNCHANGED <<lockVars, status, enqueueVars, sweepVars>>

\* Redis drops the record of a job that is over when its TTL has passed.
ExpireRecord(j) ==
    /\ Over(j)
    /\ phase[j] = "idle"
    /\ status' = [status EXCEPT ![j] = "none"]
    /\ UNCHANGED <<lockVars, phase, enqueueVars, sweepVars>>

-----------------------------------------------------------------------------
(* remove_ghost_locks *)

SweepGoto(from, to) ==
    /\ sweepPc = from
    /\ sweepPc' = to

SweepKeys ==
    /\ lock # NoJob
    /\ SweepGoto("idle", "get")
    /\ UNCHANGED <<lockVars, sweepSeen, sweepFound, jobVars, enqueueVars>>

SweepGet ==
    /\ SweepGoto("get", "started")
    /\ sweepSeen' = lock
    /\ UNCHANGED <<lockVars, sweepFound, jobVars, enqueueVars>>

\* rq_job_ids reads every started registry first and every queue after.
SweepStarted ==
    /\ SweepGoto("started", "queued")
    /\ sweepFound' = \E j \in Jobs : j = sweepSeen /\ status[j] = "started"
    /\ UNCHANGED <<lockVars, sweepSeen, jobVars, enqueueVars>>

SweepQueued ==
    /\ SweepGoto("queued", "delete")
    /\ sweepFound' = (sweepFound \/ \E j \in Jobs : j = sweepSeen /\ status[j] = "queued")
    /\ sweepSeen' = NoJob
    /\ UNCHANGED <<lockVars, jobVars, enqueueVars>>

\* The delete does not look at the key again.
SweepDelete ==
    /\ SweepGoto("delete", "idle")
    /\ IF sweepFound THEN UNCHANGED lockVars ELSE DeleteLock
    /\ sweepFound' = FALSE
    /\ UNCHANGED <<sweepSeen, jobVars, enqueueVars>>

Sweep == SweepKeys \/ SweepGet \/ SweepStarted \/ SweepQueued \/ SweepDelete

-----------------------------------------------------------------------------

Next ==
    \/ \E e \in Enqueuers : Call(e) \/ Enqueue(e)
    \/ \E j \in Jobs :
        Work(j) \/ Cancel(j) \/ Interrupt(j) \/ Kill(j) \/ ExpireRecord(j)
    \/ Sweep

Spec == Init /\ [][Next]_vars

\* A request thread runs on, workers take queued jobs and their parents notice
\* a dead horse, RQ drops expired records, and the sweep comes back every minute.
FairSpec ==
    /\ Spec
    /\ \A e \in Enqueuers : WF_vars(Enqueue(e))
    /\ \A j \in Jobs : WF_vars(Work(j)) /\ WF_vars(ExpireRecord(j))
    /\ WF_vars(Sweep)

\* The same system on its best day: nobody cancels, no query is refused, fails
\* or dies, and the sweep does not run.
QuietNext ==
    \/ \E e \in Enqueuers : Call(e) \/ Enqueue(e)
    \/ \E j \in Jobs :
        \/ Start(j) \/ TakeSlot(j) \/ QueryReturns(j)
        \/ Store(j) \/ Unlock(j) \/ JobReturns(j) \/ ExpireRecord(j)

QuietSpec == Init /\ [][QuietNext]_vars

-----------------------------------------------------------------------------
(* Safety *)

\* The WATCH in enqueue_query makes its SET land on a free key only: the lock
\* passes from one job to another only through being free in between.
LockNeverOverwritten ==
    [][lock' # lock => NoJob \in {lock, lock'}]_vars

\* A run leaves the lock alone but for the end of its finally: the lock is then its
\* own, never one that a newer job has taken (_UNLOCK_IF_MINE), and its rows are
\* committed or it failed, so that the next request finds the job or the result.
GivenBackByItsRun ==
    [][\A j \in Jobs :
        phase'[j] # phase[j] /\ lock' # lock => lock = j /\ phase'[j] = "return"]_vars

\* Whatever dies, is cancelled or swept, the lock is taken only when it is free, and a
\* run gives back its own only.
LockChangesHands == LockNeverOverwritten /\ GivenBackByItsRun

\* What a returning call of enqueue_query hands its caller.
Answer(e) == IF pc[e] = "fetch" THEN seen[e] ELSE job[e]

\* A call always hands back a job, and never one that was over before the call
\* began: nobody is answered with a run older than their request, although the
\* lock may name a job long dead.
AnswerIsNew ==
    [][\A e \in Enqueuers :
        pc[e] # "idle" /\ pc'[e] = "idle" => Answer(e) \in Jobs \ ended[e]]_vars

(* Liveness *)

\* Every job that was queued comes to an end that its waiting client can see, and a
\* lock left behind by a job that is over does not stay.
NothingIsLeftBehind ==
    \A j \in Jobs :
        /\ Live(j) ~> ~Live(j)
        /\ (lock = j /\ ~Live(j)) ~> lock # j

(* What the repository says of the lock, and the code does not do *)

\* "Two executions of the same query is what the lock exists to prevent"
\* (execution.py): at most one job that nobody cancelled is at the data source.
SingleFlight == Cardinality({j \in Jobs : phase[j] = "query" /\ Live(j)}) <= 1

=============================================================================
