----------------------------- MODULE MCPlatform -----------------------------
(***************************************************************************)
(* The components that share no state with each other, side by side, for   *)
(* TLC: a behaviour is one of the component it is the subject of, while the *)
(* others stand still in one of their initial states.  So one run asks one *)
(* question of them all, and none of them multiplies the states of another.*)
(***************************************************************************)
EXTENDS Alerts, FailureReport, ScheduledQueries, Uploads, Subscriptions,
        LiveDashboards, NotebookSessions, Notebooks, Pools, StreamRollup, Versions,
        PeriodicJobs

CONSTANTS
    Subjects,  \* the components that the run is about
    t1, j1, c1, b1, n1, n2, k3, h1, h2, s1, d1

\* Alerts: a last row that is empty, and one that fires.
MCResults == {<<2>>, <<1, Null>>}
MCOptions == {[op |-> ">", selector |-> "first", threshold |-> 1],
              [op |-> ">", selector |-> "max", threshold |-> 1]}
\* Live dashboards: two intervals.
MCEvery == [b \in Boards |-> IF b = b1 THEN 1 ELSE 2]
\* Notebook sessions: all runs are of one notebook, but for k3.
MCPageOf == [t \in Talks |-> IF t = k3 THEN n2 ELSE n1]
\* Pools: of two slots one is kept for people, so one of the two others is refused; in
\* the run on time two people share a pool.
MCFeatures == {"interactive", "scheduled"}
MCFeature  == [h \in Holders |-> IF h \in {h1, h2} THEN "interactive" ELSE "scheduled"]
MCRank     == [f \in MCFeatures |-> IF f = "interactive" THEN 0 ELSE 1]
MCFloor    == [f \in MCFeatures |-> IF f = "interactive" THEN 50 ELSE 0]
MCCeiling  == [f \in MCFeatures |-> 100]

\* Periodic jobs: the version that goes has one job more.
MCDefinedBy == [s \in Schedulers |-> IF s = s1 THEN PeriodicIds ELSE {d1}]

VARIABLE subject

platformVars ==
    <<subject, alertsVars, reportVars, scheduleVars, uploadVars, subscriptionVars,
      liveVars, sessionVars, notebooksVars, vars, rollupVars, versionsVars, periodicVars>>

On(s) == subject = s

\* What is not the subject waits for nothing, so that no promise is made of it.
PlatformInit ==
    /\ subject \in Subjects
    /\ AlertsInit /\ FailureReportInit /\ ScheduledInit /\ UploadsInit
    /\ SubscriptionsInit /\ LiveInit /\ SessionsInit /\ NotebooksInit
    /\ Init /\ RollupInit /\ VersionsInit /\ PeriodicInit
    /\ ~On("alerts") => options = [a \in AlertIds |-> CHOOSE o \in Options : TRUE]
    /\ ~On("schedules") => text = [q \in Queries |-> t1] /\ scheduled = {}
    /\ ~On("subscriptions") => row = "paused" /\ recipients = People
    /\ ~On("live") => live = [b \in Boards |-> "off"]
    /\ ~On("periodic") => inQueue = {} /\ record = {}

AlertsOn(step) ==
    /\ On("alerts") /\ step
    /\ UNCHANGED <<subject, reportVars, scheduleVars, uploadVars, subscriptionVars, liveVars,
                   sessionVars, notebooksVars, vars, rollupVars, versionsVars, periodicVars>>
FailuresOn(step) ==
    /\ On("failures") /\ step
    /\ UNCHANGED <<subject, alertsVars, scheduleVars, uploadVars, subscriptionVars, liveVars,
                   sessionVars, notebooksVars, vars, rollupVars, versionsVars, periodicVars>>
SchedulesOn(step) ==
    /\ On("schedules") /\ step
    /\ UNCHANGED <<subject, alertsVars, reportVars, uploadVars, subscriptionVars, liveVars,
                   sessionVars, notebooksVars, vars, rollupVars, versionsVars, periodicVars>>
UploadsOn(step) ==
    /\ On("uploads") /\ step
    /\ UNCHANGED <<subject, alertsVars, reportVars, scheduleVars, subscriptionVars, liveVars,
                   sessionVars, notebooksVars, vars, rollupVars, versionsVars, periodicVars>>
SubscriptionsOn(step) ==
    /\ On("subscriptions") /\ step
    /\ UNCHANGED <<subject, alertsVars, reportVars, scheduleVars, uploadVars, liveVars,
                   sessionVars, notebooksVars, vars, rollupVars, versionsVars, periodicVars>>
LiveOn(step) ==
    /\ On("live") /\ step
    /\ UNCHANGED <<subject, alertsVars, reportVars, scheduleVars, uploadVars, subscriptionVars,
                   sessionVars, notebooksVars, vars, rollupVars, versionsVars, periodicVars>>
SessionsOn(step) ==
    /\ On("sessions") /\ step
    /\ UNCHANGED <<subject, alertsVars, reportVars, scheduleVars, uploadVars, subscriptionVars,
                   liveVars, notebooksVars, vars, rollupVars, versionsVars, periodicVars>>
NotebooksOn(step) ==
    /\ On("notebooks") /\ step
    /\ UNCHANGED <<subject, alertsVars, reportVars, scheduleVars, uploadVars, subscriptionVars,
                   liveVars, sessionVars, vars, rollupVars, versionsVars, periodicVars>>
PoolsOn(step) ==
    /\ On("pools") /\ step
    /\ UNCHANGED <<subject, alertsVars, reportVars, scheduleVars, uploadVars, subscriptionVars,
                   liveVars, sessionVars, notebooksVars, rollupVars, versionsVars, periodicVars>>
RollupsOn(step) ==
    /\ On("rollups") /\ step
    /\ UNCHANGED <<subject, alertsVars, reportVars, scheduleVars, uploadVars, subscriptionVars,
                   liveVars, sessionVars, notebooksVars, vars, versionsVars, periodicVars>>
VersionsOn(step) ==
    /\ On("versions") /\ step
    /\ UNCHANGED <<subject, alertsVars, reportVars, scheduleVars, uploadVars, subscriptionVars,
                   liveVars, sessionVars, notebooksVars, vars, rollupVars, periodicVars>>
PeriodicOn(step) ==
    /\ On("periodic") /\ step
    /\ UNCHANGED <<subject, alertsVars, reportVars, scheduleVars, uploadVars, subscriptionVars,
                   liveVars, sessionVars, notebooksVars, vars, rollupVars, versionsVars>>

PlatformNext ==
    \/ AlertsOn(AlertsNext)
    \/ FailuresOn(FailureReportNext)
    \/ SchedulesOn(ScheduledNext)
    \/ UploadsOn(UploadsNext)
    \/ SubscriptionsOn(SubscriptionsNext)
    \/ LiveOn(LiveNext)
    \/ SessionsOn(SessionsNext)
    \/ NotebooksOn(NotebooksNext)
    \/ PoolsOn(Next)
    \/ RollupsOn(RollupNext)
    \/ VersionsOn(VersionsNext)
    \/ PeriodicOn(PeriodicNext)

PlatformSpec == PlatformInit /\ [][PlatformNext]_platformVars

-----------------------------------------------------------------------------
(* Fairness.  Only the subject moves, so a condition may stand for one of  *)
(* each component: taken together they are the same as each by itself.     *)

\* The clock goes on, and TTLs run out.
TimePasses ==
    \/ SchedulesOn(MinutePasses)
    \/ UploadsOn(UploadsDay)
    \/ SubscriptionsOn(SendMinute)
    \/ LiveOn(LiveTick)
    \/ PoolsOn(\E h \in Holders \ {h1} : SlotExpires(h))

\* The scheduler comes round for ever, the data source answers (every query has a time
\* limit), and the TTL of the other holder's slot runs out.
ComesRound ==
    \/ FailuresOn(ReadFailures)
    \/ SchedulesOn(RefreshQueries)
    \/ SubscriptionsOn(QueueSend(j1))
    \/ LiveOn(\E stored \in BOOLEAN : QueryEnds(stored))
    \/ PoolsOn(SlotExpires(h1))
    \/ RollupsOn(\E j \in RollupJobs : StartRollup(j))

\* A job that has been taken goes on and ends: each has a time limit, and so has every
\* call it makes.  That uploads' is not killed for ever is the bound KillsLeft.
RunsOn ==
    \/ AlertsOn(CheckStep(c1))
    \/ SchedulesOn(\E t \in Texts : RunStep(t))
    \/ UploadsOn(ManageStep \/ RaiseManage)
    \/ SubscriptionsOn(SendStep(j1) \/ (UnderWay(j1) /\ BreakSend(j1)))
    \/ LiveOn(\E w \in Sweeps : WalkStep(w))
    \/ PoolsOn(Renew(h1))
    \/ RollupsOn(\E j \in RollupJobs : RollStep(j))

\* So does a request.
RequestsRunOn == LiveOn(\E w \in Visits : WalkStep(w))

\* What may fail or be put off, but not every time: the report is not killed every
\* time, a job that is queued again and again is run, the mail server takes a mail at
\* last, a sweep starts, looks at what it finds old, and gets to ask, and a rollup reads,
\* looks and commits.
SucceedsAtLast ==
    \/ FailuresOn(MailFailures)
    \/ SchedulesOn(\E t \in Texts : LoadRun(t))
    \/ UploadsOn(\E f \in Files : MailUploaders /\ f \in done')
    \/ SubscriptionsOn(StartSend(j1))
    \/ LiveOn(\E w \in Sweeps : StartSweep(w))
    \/ RollupsOn(\E j \in RollupJobs, s \in Streams : ReadMinutes(j, s))
AlsoSucceeds ==
    \/ FailuresOn(ForgetFailures)
    \/ LiveOn(\E w \in Sweeps, b \in Boards : FindOld(w, b))
    \/ RollupsOn(\E j \in RollupJobs : LookForBuckets(j))
SucceedsToo ==
    \/ LiveOn(\E w \in Sweeps : AskForQuery(w))
    \/ RollupsOn(\E j \in RollupJobs : CommitBuckets(j))

FairPlatformSpec ==
    /\ PlatformSpec
    /\ WF_platformVars(TimePasses)
    /\ WF_platformVars(ComesRound)
    /\ WF_platformVars(RunsOn)
    /\ WF_platformVars(RequestsRunOn)
    /\ SF_platformVars(SucceedsAtLast)
    /\ SF_platformVars(AlsoSucceeds)
    /\ SF_platformVars(SucceedsToo)

-----------------------------------------------------------------------------

\* The types of all components.
PlatformTypeOK ==
    /\ AlertsTypeOK /\ FailureReportTypeOK /\ ScheduledTypeOK /\ UploadsTypeOK
    /\ SubscriptionsTypeOK /\ LiveTypeOK /\ SessionsTypeOK /\ NotebooksTypeOK
    /\ TypeOK /\ RollupTypeOK /\ VersionsTypeOK /\ PeriodicTypeOK
=============================================================================
