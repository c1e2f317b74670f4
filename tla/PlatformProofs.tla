--------------------------- MODULE PlatformProofs ---------------------------
(***************************************************************************)
(* That the components keep their promises side by side: a behaviour of    *)
(* MCPlatform is a behaviour of every component, so that what is proved of *)
(* each by itself holds of the module that the runs check.                 *)
(***************************************************************************)
EXTENDS MCPlatform, JobsProofs, DashboardProofs, NotebookProofs, PoolsProofs

\* A step of the platform is one of the subject's, and none of the others'.
LEMMA StepsOfOne ==
    [PlatformNext]_platformVars =>
       /\ [AlertsNext]_alertsVars
       /\ [FailureReportNext]_reportVars
       /\ [ScheduledNext]_scheduleVars
       /\ [UploadsNext]_uploadVars
       /\ [SubscriptionsNext]_subscriptionVars
       /\ [LiveNext]_liveVars
       /\ [SessionsNext]_sessionVars
       /\ [NotebooksNext]_notebooksVars
       /\ [Next]_vars
       /\ [RollupNext]_rollupVars
       /\ [VersionsNext]_versionsVars
       /\ [PeriodicNext]_periodicVars
<1> SUFFICES ASSUME [PlatformNext]_platformVars
             PROVE  /\ [AlertsNext]_alertsVars
                    /\ [FailureReportNext]_reportVars
                    /\ [ScheduledNext]_scheduleVars
                    /\ [UploadsNext]_uploadVars
                    /\ [SubscriptionsNext]_subscriptionVars
                    /\ [LiveNext]_liveVars
                    /\ [SessionsNext]_sessionVars
                    /\ [NotebooksNext]_notebooksVars
                    /\ [Next]_vars
                    /\ [RollupNext]_rollupVars
                    /\ [VersionsNext]_versionsVars
                    /\ [PeriodicNext]_periodicVars
  OBVIOUS
<1>1. CASE AlertsOn(AlertsNext)
  BY <1>1 DEF AlertsOn
<1>2. CASE FailuresOn(FailureReportNext)
  BY <1>2 DEF FailuresOn
<1>3. CASE SchedulesOn(ScheduledNext)
  BY <1>3 DEF SchedulesOn
<1>4. CASE UploadsOn(UploadsNext)
  BY <1>4 DEF UploadsOn
<1>5. CASE SubscriptionsOn(SubscriptionsNext)
  BY <1>5 DEF SubscriptionsOn
<1>6. CASE LiveOn(LiveNext)
  BY <1>6 DEF LiveOn
<1>7. CASE SessionsOn(SessionsNext)
  BY <1>7 DEF SessionsOn
<1>8. CASE NotebooksOn(NotebooksNext)
  BY <1>8 DEF NotebooksOn
<1>9. CASE PoolsOn(Next)
  BY <1>9 DEF PoolsOn
<1>10. CASE RollupsOn(RollupNext)
  BY <1>10 DEF RollupsOn
<1>11. CASE VersionsOn(VersionsNext)
  BY <1>11 DEF VersionsOn
<1>12. CASE PeriodicOn(PeriodicNext)
  BY <1>12 DEF PeriodicOn
<1>13. CASE UNCHANGED platformVars
  BY <1>13 DEF platformVars
<1> QED
  BY <1>1, <1>2, <1>3, <1>4, <1>5, <1>6, <1>7, <1>8, <1>9, <1>10, <1>11, <1>12, <1>13 DEF PlatformNext

\* A behaviour of the platform is one of each component.
LEMMA ComponentsRun ==
    PlatformSpec =>
       /\ AlertsSpec
       /\ FailureReportSpec
       /\ ScheduledSpec
       /\ UploadsSpec
       /\ SubscriptionsSpec
       /\ LiveSpec
       /\ SessionsSpec
       /\ NotebooksSpec
       /\ Spec
       /\ RollupSpec
       /\ VersionsSpec
       /\ PeriodicSpec
<1>1. PlatformInit =>
         /\ AlertsInit
         /\ FailureReportInit
         /\ ScheduledInit
         /\ UploadsInit
         /\ SubscriptionsInit
         /\ LiveInit
         /\ SessionsInit
         /\ NotebooksInit
         /\ Init
         /\ RollupInit
         /\ VersionsInit
         /\ PeriodicInit
  BY DEF PlatformInit
<1>2. PlatformSpec => AlertsSpec
  BY <1>1, StepsOfOne, PTL DEF PlatformSpec, AlertsSpec
<1>3. PlatformSpec => FailureReportSpec
  BY <1>1, StepsOfOne, PTL DEF PlatformSpec, FailureReportSpec
<1>4. PlatformSpec => ScheduledSpec
  BY <1>1, StepsOfOne, PTL DEF PlatformSpec, ScheduledSpec
<1>5. PlatformSpec => UploadsSpec
  BY <1>1, StepsOfOne, PTL DEF PlatformSpec, UploadsSpec
<1>6. PlatformSpec => SubscriptionsSpec
  BY <1>1, StepsOfOne, PTL DEF PlatformSpec, SubscriptionsSpec
<1>7. PlatformSpec => LiveSpec
  BY <1>1, StepsOfOne, PTL DEF PlatformSpec, LiveSpec
<1>8. PlatformSpec => SessionsSpec
  BY <1>1, StepsOfOne, PTL DEF PlatformSpec, SessionsSpec
<1>9. PlatformSpec => NotebooksSpec
  BY <1>1, StepsOfOne, PTL DEF PlatformSpec, NotebooksSpec
<1>10. PlatformSpec => Spec
  BY <1>1, StepsOfOne, PTL DEF PlatformSpec, Spec
<1>11. PlatformSpec => RollupSpec
  BY <1>1, StepsOfOne, PTL DEF PlatformSpec, RollupSpec
<1>12. PlatformSpec => VersionsSpec
  BY <1>1, StepsOfOne, PTL DEF PlatformSpec, VersionsSpec
<1>13. PlatformSpec => PeriodicSpec
  BY <1>1, StepsOfOne, PTL DEF PlatformSpec, PeriodicSpec
<1> QED
  BY <1>2, <1>3, <1>4, <1>5, <1>6, <1>7, <1>8, <1>9, <1>10, <1>11, <1>12, <1>13

\* Every variable of every component keeps to its values.
THEOREM PlatformTypeCorrect == PlatformSpec => []PlatformTypeOK
<1>1. /\ AlertsTypeOK /\ FailureReportTypeOK /\ ScheduledTypeOK /\ UploadsTypeOK
      /\ SubscriptionsTypeOK /\ LiveTypeOK /\ SessionsTypeOK /\ NotebooksTypeOK
      /\ TypeOK /\ RollupTypeOK /\ VersionsTypeOK /\ PeriodicTypeOK
      => PlatformTypeOK
  BY DEF PlatformTypeOK
<1> QED
  BY <1>1, ComponentsRun, AlertsTypeCorrect, FailureReportTypeCorrect, ScheduledTypeCorrect,
     UploadsTypeCorrect, SubscriptionsTypeCorrect, LiveTypeCorrect, SessionsTypeCorrect,
     NotebooksTypeCorrect, TypeCorrect, RollupTypeCorrect, VersionsTypeCorrect,
     PeriodicTypeCorrect, PTL

\* Whatever the components' sizes and bounds are, together they keep the invariants that
\* each keeps alone.
THEOREM PlatformKeepsInvariants ==
    PlatformSpec =>
       /\ []SubscribersKnow
       /\ []FailuresInARow
       /\ []OwedIsListed
       /\ []UnloadedIsIdle
       /\ []OneSweep
       /\ []CapKept
       /\ []MinuteCountedOnce
       /\ []FreshIsTrue
  BY ComponentsRun, SubscribersAreTold, FailuresAreCounted, NoFailureIsLost,
     UnloadedFilesAreIdle, SweepsTakeTurns, CapIsKept, MinutesAreCountedOnce,
     UnmarkedCellsAreFresh

\* No step of theirs does what a step of theirs may never do.
THEOREM PlatformKeepsSteps ==
    PlatformSpec =>
       /\ FiresAreSpaced
       /\ DeletedWasAnnounced
       /\ OncePerSlot
       /\ NotHammered
       /\ RunningIsKept
       /\ WholeRunIsFresh
  BY ComponentsRun, FiresKeepTheRearm, DeletedFilesWereAnnounced, MailedOncePerSlot,
     AskedAtMostOnceInAnInterval, RunningSessionIsKept, WholeRunsLeaveNothingStale

\* Where nothing stalls, pools let in what fits of the work that renews its slots, and
\* keep the slots of what runs of it, whatever else is in the pool.
THEOREM PlatformPoolsKeepBudget ==
    ASSUME Faults = {}
    PROVE  PlatformSpec => ([]SlotWhileRunning) /\ LetsInWhatFits
  BY ComponentsRun, RunningKeepsSlot, ImplementsAdmission

\* Where the version of a row is counted by every UPDATE, no save replaces unseen words.
THEOREM PlatformSavesAreSeen ==
    ASSUME Counted = TRUE
    PROVE  PlatformSpec => ReplacesWhatItSaw
  BY ComponentsRun, SavesReplaceWhatTheySaw
=============================================================================
