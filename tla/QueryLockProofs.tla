--------------------------- MODULE QueryLockProofs ---------------------------
(***************************************************************************)
(* What the WATCH in enqueue_query gives, for any number of callers, jobs  *)
(* and tries, through every cancellation, crash and sweep.                 *)
(***************************************************************************)
EXTENDS QueryLock, TLAPS

USE DEF jobVars, lockVars, enqueueVars, sweepVars, JobOrNone, Statuses, Phases,
        EnqueuePc, SweepPc

\* The steps of one caller, of one job, and of the sweep: the cases of every
\* proof below.
LEMMA NextCases ==
    ASSUME [Next]_vars
    PROVE  \/ \E e \in Enqueuers : Call(e) \/ Enqueue(e)
           \/ \E j \in Jobs :
                 Work(j) \/ Cancel(j) \/ Interrupt(j) \/ Kill(j) \/ ExpireRecord(j)
           \/ Sweep
           \/ UNCHANGED vars
BY DEF Next

-----------------------------------------------------------------------------

\* A step of one caller keeps every variable to its values.
LEMMA CallerKeepsType ==
    ASSUME NEW e \in Enqueuers, TypeOK, Call(e) \/ Enqueue(e)
    PROVE  TypeOK'
<1> USE QueryLockAssumption DEF TypeOK
<1>1. CASE Call(e)
  BY <1>1 DEF Call, Goto
<1>2. CASE Watch(e)
  BY <1>2 DEF Watch, Goto
<1>3. CASE GetHeld(e)
  BY <1>3 DEF GetHeld, Goto
<1>4. CASE GetFree(e)
  BY <1>4 DEF GetFree, Goto
<1>5. CASE GetOwn(e)
  BY <1>5 DEF GetOwn, Return
<1>6. CASE Join(e)
  BY <1>6 DEF Join, Return
<1>7. CASE FindOver(e)
  BY <1>7 DEF FindOver, Goto
<1>8. CASE RemoveLock(e)
  BY <1>8 DEF RemoveLock, DeleteLock, Watching, Goto
<1>9. CASE Push(e)
  BY <1>9 DEF Push, Goto
<1>10. CASE ExecSet(e)
  BY <1>10 DEF ExecSet, Return, Watching
<1>11. CASE ExecConflict(e)
  BY <1>11 DEF ExecConflict, Return
<1> QED
  BY <1>1, <1>2, <1>3, <1>4, <1>5, <1>6, <1>7, <1>8, <1>9, <1>10, <1>11
  DEF Enqueue

\* So does a step of one job, and of whoever cancels or kills it.
LEMMA JobKeepsType ==
    ASSUME NEW j \in Jobs, TypeOK,
           Work(j) \/ Cancel(j) \/ Interrupt(j) \/ Kill(j) \/ ExpireRecord(j)
    PROVE  TypeOK'
<1> USE DEF TypeOK, RunStep
<1>1. CASE Unlock(j)
  BY <1>1 DEF Unlock, DeleteLock, Watching
<1>2. CASE Work(j) /\ ~Unlock(j)
  BY <1>2 DEF Work, Start, TakeSlot, Refuse, QueryReturns, QueryFails, Store,
              JobReturns, HandleFailure
<1>3. CASE Cancel(j) \/ Interrupt(j) \/ Kill(j) \/ ExpireRecord(j)
  BY <1>3 DEF Cancel, Interrupt, Kill, ExpireRecord
<1> QED
  BY <1>1, <1>2, <1>3 DEF Work

\* So does a step of the sweep.
LEMMA SweepKeepsType == TypeOK /\ Sweep => TypeOK'
<1> USE DEF TypeOK, SweepGoto
<1>1. ASSUME TypeOK, SweepDelete PROVE TypeOK'
  BY <1>1 DEF SweepDelete, DeleteLock, Watching
<1>2. ASSUME TypeOK, Sweep, ~SweepDelete PROVE TypeOK'
  BY <1>2 DEF Sweep, SweepKeys, SweepGet, SweepStarted, SweepQueued
<1> QED
  BY <1>1, <1>2

\* Every variable keeps to the values the code can give it; in particular the
\* retry loop never counts past its limit.
THEOREM TypeCorrect == Spec => []TypeOK
<1>1. ASSUME Init PROVE TypeOK
  <2>1. 0 \in 0..MaxTries
    BY QueryLockAssumption
  <2>2. lock \in JobOrNone /\ sweepSeen \in JobOrNone /\ sweepPc \in SweepPc
    BY <1>1 DEF Init
  <2>3. status \in [Jobs -> Statuses] /\ phase \in [Jobs -> Phases]
    BY <1>1 DEF Init
  <2>4. /\ pc \in [Enqueuers -> EnqueuePc]
        /\ seen \in [Enqueuers -> JobOrNone]
        /\ job \in [Enqueuers -> JobOrNone]
    BY <1>1 DEF Init
  <2>5. /\ dirty \in [Enqueuers -> BOOLEAN]
        /\ sweepFound \in BOOLEAN
    BY <1>1 DEF Init
  <2>6. tries \in [Enqueuers -> 0..MaxTries]
    BY <1>1, <2>1 DEF Init
  <2>7. ended \in [Enqueuers -> SUBSET Jobs]
    BY <1>1 DEF Init
  <2> QED
    BY <2>2, <2>3, <2>4, <2>5, <2>6, <2>7 DEF TypeOK
<1>2. TypeOK /\ [Next]_vars => TypeOK'
  <2> SUFFICES ASSUME TypeOK, [Next]_vars PROVE TypeOK'
    OBVIOUS
  <2>1. CASE UNCHANGED vars
    BY <2>1 DEF TypeOK, vars
  <2> QED
    BY <2>1, NextCases, CallerKeepsType, JobKeepsType, SweepKeepsType
<1> QED
  BY <1>1, <1>2, PTL DEF Spec

-----------------------------------------------------------------------------
(* The inductive invariant.  A WATCH that nothing has dirtied still vouches for
   what its GET returned: the lock names the job that was found, or nobody.   *)

WatchInv ==
    \A e \in Enqueuers :
        /\ pc[e] = "fetch" => seen[e] \in Jobs
        /\ pc[e] = "fetch" /\ ~dirty[e] => lock = seen[e]
        /\ pc[e] = "delete" /\ ~dirty[e] => lock # NoJob
        /\ pc[e] \in {"push", "exec"} /\ ~dirty[e] => lock = NoJob
        /\ pc[e] = "exec" => job[e] \in Jobs

\* A job that was over when a call began stays over, unless its id is minted
\* anew, and the call never makes it its own.
AnswerInv ==
    \A e \in Enqueuers :
        /\ pc[e] = "idle" => job[e] = NoJob
        /\ job[e] \notin ended[e]
        /\ \A j \in ended[e] : ~Live(j)

\* A step that leaves the callers alone and frees the lock, if it changes it,
\* dirties whoever watches it.
LEMMA LockStepKeepsWatchInv ==
    ASSUME TypeOK, WatchInv, UNCHANGED enqueueVars, DeleteLock \/ UNCHANGED lockVars
    PROVE  WatchInv'
<1>1. CASE UNCHANGED lockVars
  BY <1>1 DEF WatchInv
<1>2. CASE DeleteLock
  BY <1>2, QueryLockAssumption DEF WatchInv, DeleteLock, Watching, TypeOK
<1> QED
  BY <1>1, <1>2

\* A caller watches before it reads, and its own writes dirty the others.
LEMMA CallerKeepsWatchInv ==
    ASSUME NEW e \in Enqueuers, TypeOK, WatchInv, Call(e) \/ Enqueue(e)
    PROVE  WatchInv'
<1> USE QueryLockAssumption DEF TypeOK, WatchInv
<1>1. CASE Call(e)
  BY <1>1 DEF Call, Goto
<1>2. CASE Watch(e)
  BY <1>2 DEF Watch, Goto
<1>3. CASE GetHeld(e)
  BY <1>3 DEF GetHeld, Goto
<1>4. CASE GetFree(e)
  BY <1>4 DEF GetFree, Goto
<1>5. CASE GetOwn(e)
  BY <1>5 DEF GetOwn, Return
<1>6. CASE Join(e)
  BY <1>6 DEF Join, Return
<1>7. CASE FindOver(e)
  BY <1>7 DEF FindOver, Goto
<1>8. CASE RemoveLock(e)
  BY <1>8 DEF RemoveLock, DeleteLock, Watching, Goto
<1>9. CASE Push(e)
  BY <1>9 DEF Push, Goto
<1>10. CASE ExecSet(e)
  BY <1>10 DEF ExecSet, Return, Watching
<1>11. CASE ExecConflict(e)
  BY <1>11 DEF ExecConflict, Return
<1> QED
  BY <1>1, <1>2, <1>3, <1>4, <1>5, <1>6, <1>7, <1>8, <1>9, <1>10, <1>11
  DEF Enqueue

\* Jobs and the sweep touch the lock only to free it.
LEMMA OthersOnlyFree ==
    ASSUME TypeOK,
           \/ Sweep
           \/ \E j \in Jobs :
                 Work(j) \/ Cancel(j) \/ Interrupt(j) \/ Kill(j) \/ ExpireRecord(j)
    PROVE  UNCHANGED enqueueVars /\ (DeleteLock \/ UNCHANGED lockVars)
<1>1. CASE Sweep
  BY <1>1 DEF Sweep, SweepKeys, SweepGet, SweepStarted, SweepQueued, SweepDelete
<1>2. ASSUME NEW j \in Jobs,
             Work(j) \/ Cancel(j) \/ Interrupt(j) \/ Kill(j) \/ ExpireRecord(j)
      PROVE  UNCHANGED enqueueVars /\ (DeleteLock \/ UNCHANGED lockVars)
  <2>1. CASE Work(j)
    BY <2>1 DEF Work, Start, TakeSlot, Refuse, QueryReturns, QueryFails, Store,
                Unlock, JobReturns, HandleFailure
  <2>2. CASE Cancel(j) \/ Interrupt(j) \/ Kill(j) \/ ExpireRecord(j)
    BY <2>2 DEF Cancel, Interrupt, Kill, ExpireRecord
  <2> QED
    BY <1>2, <2>1, <2>2
<1> QED
  BY <1>1, <1>2

\* WATCH does what enqueue_query relies on: a clean watch vouches for the read.
THEOREM WatchInvHolds == Spec => []WatchInv
<1>1. Init => WatchInv
  BY DEF Init, WatchInv
<1>2. TypeOK /\ WatchInv /\ [Next]_vars => WatchInv'
  <2> SUFFICES ASSUME TypeOK, WatchInv, [Next]_vars PROVE WatchInv'
    OBVIOUS
  <2>1. CASE UNCHANGED vars
    BY <2>1 DEF WatchInv, vars
  <2> QED
    BY <2>1, NextCases, CallerKeepsWatchInv, OthersOnlyFree, LockStepKeepsWatchInv
<1> QED
  BY <1>1, <1>2, TypeCorrect, PTL DEF Spec

-----------------------------------------------------------------------------

\* enqueue_query: SET happens only when the key is free, so that no job's lock
\* is ever overwritten, however many requests race and whatever the jobs do.
THEOREM NeverOverwritten == Spec => LockNeverOverwritten
<1> DEFINE P == NoJob \in {lock, lock'}
<1>1. TypeOK /\ WatchInv /\ [Next]_vars => [lock' # lock => P]_vars
  <2> SUFFICES ASSUME TypeOK, WatchInv, [Next]_vars, lock' # lock PROVE P
    OBVIOUS
  <2>1. ASSUME NEW e \in Enqueuers, Call(e) \/ Enqueue(e) PROVE P
    <3>1. CASE ExecSet(e)
      BY <3>1 DEF ExecSet, WatchInv
    <3>2. CASE ~ExecSet(e)
      BY <2>1, <3>2 DEF Call, Enqueue, Watch, GetHeld, GetFree, GetOwn, Join,
                        FindOver, RemoveLock, DeleteLock, Push, ExecConflict
    <3> QED
      BY <3>1, <3>2
  <2>2. CASE UNCHANGED vars
    BY <2>2 DEF vars
  <2> QED
    BY <2>1, <2>2, NextCases, OthersOnlyFree DEF DeleteLock
<1> QED
  BY <1>1, TypeCorrect, WatchInvHolds, PTL DEF Spec, LockNeverOverwritten

\* A try of enqueue_query that removes a stale lock has dirtied its own WATCH:
\* its EXEC cannot succeed, and the job it queues never owns the lock.
StaleRecoveryConflicts ==
    [][\A e \in Enqueuers : pc[e] = "delete" /\ pc'[e] = "push" => dirty'[e]]_vars

\* enqueue_query: the request that finds a stale lock has, once it has removed
\* it, a transaction that must fail.  Whatever job it queues runs unlocked.
THEOREM StaleRecoveryAlwaysConflicts == Spec => StaleRecoveryConflicts
<1> DEFINE P == \A e \in Enqueuers : pc[e] = "delete" /\ pc'[e] = "push" => dirty'[e]
<1>1. TypeOK /\ WatchInv /\ [Next]_vars => [P]_vars
  <2> SUFFICES ASSUME TypeOK, WatchInv, [Next]_vars,
                      NEW e \in Enqueuers, pc[e] = "delete", pc'[e] = "push"
               PROVE  dirty'[e]
    OBVIOUS
  <2>1. ASSUME NEW d \in Enqueuers, Call(d) \/ Enqueue(d) PROVE dirty'[e]
    <3>1. CASE RemoveLock(d)
      BY <3>1, QueryLockAssumption
      DEF RemoveLock, DeleteLock, Watching, Goto, WatchInv, TypeOK
    <3>2. CASE ~RemoveLock(d)
      BY <2>1, <3>2 DEF Call, Enqueue, Watch, GetHeld, GetFree, GetOwn, Join,
                  FindOver, Push, ExecSet, ExecConflict, Goto, Return, TypeOK
    <3> QED
      BY <3>1, <3>2
  <2>2. CASE UNCHANGED enqueueVars
    BY <2>2
  <2> QED
    BY <2>1, <2>2, NextCases, OthersOnlyFree DEF vars
<1> QED
  BY <1>1, TypeCorrect, WatchInvHolds, PTL DEF Spec, StaleRecoveryConflicts

-----------------------------------------------------------------------------

\* A call drops the job of a stale lock and queues one that is new.
LEMMA CallerKeepsAnswerInv ==
    ASSUME NEW e \in Enqueuers, TypeOK, AnswerInv, Call(e) \/ Enqueue(e)
    PROVE  AnswerInv'
<1> USE QueryLockAssumption DEF TypeOK, AnswerInv, Live, Over
<1>1. CASE Call(e)
  BY <1>1 DEF Call, Goto
<1>2. CASE Watch(e) \/ GetHeld(e) \/ GetFree(e) \/ FindOver(e)
  BY <1>2 DEF Watch, GetHeld, GetFree, FindOver, Goto
<1>3. CASE GetOwn(e) \/ Join(e) \/ ExecSet(e)
  BY <1>3 DEF GetOwn, Join, ExecSet, Return
<1>4. CASE RemoveLock(e)
  BY <1>4 DEF RemoveLock, Goto
<1>5. CASE Push(e)
  <2>1. PICK j \in Jobs :
          /\ Unused(j)
          /\ status' = [status EXCEPT ![j] = "queued"]
          /\ job' = [job EXCEPT ![e] = j]
          /\ ended' = [d \in Enqueuers |-> ended[d] \ {j}]
    BY <1>5 DEF Push
  <2>2. ASSUME NEW d \in Enqueuers PROVE job'[d] \notin ended'[d]
    BY <2>1
  <2>3. ASSUME NEW d \in Enqueuers, NEW k \in ended'[d] PROVE ~Live(k)'
    BY <2>1, <2>3
  <2>4. ASSUME NEW d \in Enqueuers, pc'[d] = "idle" PROVE job'[d] = NoJob
    BY <1>5, <2>1, <2>4 DEF Push, Goto
  <2> QED
    BY <2>2, <2>3, <2>4
<1>6. CASE ExecConflict(e)
  BY <1>6 DEF ExecConflict, Return
<1> QED
  BY <1>1, <1>2, <1>3, <1>4, <1>5, <1>6 DEF Enqueue

\* Nothing brings a job that is over back to life.
LEMMA OthersKeepAnswerInv ==
    ASSUME TypeOK, AnswerInv,
           \/ Sweep
           \/ \E j \in Jobs :
                 Work(j) \/ Cancel(j) \/ Interrupt(j) \/ Kill(j) \/ ExpireRecord(j)
    PROVE  AnswerInv'
<1>1. UNCHANGED enqueueVars
  BY OthersOnlyFree
<1>2. \A k \in Jobs : ~Live(k) => ~Live(k)'
  <2>1. CASE Sweep
    BY <2>1 DEF Sweep, SweepKeys, SweepGet, SweepStarted, SweepQueued, SweepDelete,
                Live
  <2>2. ASSUME NEW j \in Jobs,
               Work(j) \/ Cancel(j) \/ Interrupt(j) \/ Kill(j) \/ ExpireRecord(j)
        PROVE  \A k \in Jobs : ~Live(k) => ~Live(k)'
    BY <2>2 DEF Work, Start, TakeSlot, Refuse, QueryReturns, QueryFails, Store,
                Unlock, JobReturns, HandleFailure, Cancel, Interrupt, Kill,
                ExpireRecord, Live, Over, TypeOK
  <2> QED
    BY <2>1, <2>2
<1> QED
  BY <1>1, <1>2 DEF AnswerInv, TypeOK

\* What a call has in hand was never over before the call began.
THEOREM AnswerInvHolds == Spec => []AnswerInv
<1>1. Init => AnswerInv
  BY QueryLockAssumption DEF Init, AnswerInv
<1>2. TypeOK /\ AnswerInv /\ [Next]_vars => AnswerInv'
  <2> SUFFICES ASSUME TypeOK, AnswerInv, [Next]_vars PROVE AnswerInv'
    OBVIOUS
  <2>1. CASE UNCHANGED vars
    BY <2>1 DEF AnswerInv, Live, vars
  <2> QED
    BY <2>1, NextCases, CallerKeepsAnswerInv, OthersKeepAnswerInv
<1> QED
  BY <1>1, <1>2, TypeCorrect, PTL DEF Spec

\* enqueue_query returns a job on every path, the one that has used up its tries
\* included, and never one that was over when the request was made.
THEOREM EveryAnswerIsNew == Spec => AnswerIsNew
<1> DEFINE P == \A e \in Enqueuers :
                  pc[e] # "idle" /\ pc'[e] = "idle" => Answer(e) \in Jobs \ ended[e]
<1>1. TypeOK /\ WatchInv /\ AnswerInv /\ [Next]_vars => [P]_vars
  <2> SUFFICES ASSUME TypeOK, WatchInv, AnswerInv, [Next]_vars,
                      NEW e \in Enqueuers, pc[e] # "idle", pc'[e] = "idle"
               PROVE  Answer(e) \in Jobs \ ended[e]
    OBVIOUS
  <2>1. ASSUME NEW d \in Enqueuers, Call(d) \/ Enqueue(d)
        PROVE  d = e /\ (GetOwn(e) \/ Join(e) \/ ExecSet(e) \/ ExecConflict(e))
    BY <2>1 DEF Call, Enqueue, Watch, GetHeld, GetFree, GetOwn, Join, FindOver,
                RemoveLock, Push, ExecSet, ExecConflict, Goto, Return, TypeOK
  <2>2. CASE Join(e)
    BY <2>2 DEF Join, Answer, WatchInv, AnswerInv
  <2>3. CASE GetOwn(e)
    BY <2>3 DEF GetOwn, Answer, AnswerInv, TypeOK
  <2>4. CASE ExecSet(e) \/ ExecConflict(e)
    BY <2>4 DEF ExecSet, ExecConflict, Answer, WatchInv, AnswerInv
  <2>5. ~UNCHANGED enqueueVars
    OBVIOUS
  <2> QED
    BY <2>1, <2>2, <2>3, <2>4, <2>5, NextCases, OthersOnlyFree DEF vars
<1> QED
  BY <1>1, TypeCorrect, WatchInvHolds, AnswerInvHolds, PTL DEF Spec, AnswerIsNew

-----------------------------------------------------------------------------

\* A run that moves on leaves the lock alone, unless it is the compare-and-delete
\* of its own _unlock.
LEMMA RunAndLock ==
    ASSUME TypeOK, [Next]_vars, NEW j \in Jobs, phase'[j] # phase[j]
    PROVE  lock' = lock \/ (lock = j /\ Unlock(j))
<1>1. ASSUME NEW k \in Jobs,
             Work(k) \/ Cancel(k) \/ Interrupt(k) \/ Kill(k) \/ ExpireRecord(k)
      PROVE  lock' = lock \/ (lock = j /\ Unlock(j))
  <2>1. CASE Unlock(k)
    <3>1. k = j
      BY <2>1 DEF Unlock, RunStep, TypeOK
    <3> QED
      BY <2>1, <3>1 DEF Unlock
  <2>2. CASE ~Unlock(k)
    BY <1>1, <2>2 DEF Work, Start, TakeSlot, Refuse, QueryReturns, QueryFails, Store,
                      JobReturns, HandleFailure, Cancel, Interrupt, Kill, ExpireRecord
  <2> QED
    BY <2>1, <2>2
<1>2. CASE UNCHANGED phase
  BY <1>2
<1>3. ASSUME NEW e \in Enqueuers, Call(e) \/ Enqueue(e) PROVE UNCHANGED phase
  BY <1>3 DEF Call, Enqueue, Watch, GetHeld, GetFree, GetOwn, Join, FindOver,
              RemoveLock, Push, ExecSet, ExecConflict
<1>4. CASE Sweep
  BY <1>4 DEF Sweep, SweepKeys, SweepGet, SweepStarted, SweepQueued, SweepDelete
<1>5. CASE UNCHANGED vars
  BY <1>5 DEF vars
<1> QED
  BY <1>1, <1>2, <1>3, <1>4, <1>5, NextCases

\* The finally of run and _UNLOCK_IF_MINE: a run lets go of its own lock only, and
\* of that only when its rows are committed or it has failed.
THEOREM GivesBackItsOwn == Spec => GivenBackByItsRun
<1> DEFINE P == \A j \in Jobs :
        phase'[j] # phase[j] /\ lock' # lock => lock = j /\ phase'[j] = "return"
<1>1. TypeOK /\ [Next]_vars => [P]_vars
  <2> SUFFICES ASSUME TypeOK, [Next]_vars, NEW j \in Jobs,
                      phase'[j] # phase[j], lock' # lock
               PROVE  lock = j /\ phase'[j] = "return"
    OBVIOUS
  <2>1. lock = j /\ Unlock(j)
    BY RunAndLock
  <2> QED
    BY <2>1 DEF Unlock, RunStep, TypeOK
<1> QED
  BY <1>1, TypeCorrect, PTL DEF Spec, GivenBackByItsRun

\* The lock is taken only when it is free, and a run gives back its own only.
THEOREM LockPassesOn == Spec => LockChangesHands
  BY NeverOverwritten, GivesBackItsOwn DEF LockChangesHands

=============================================================================
