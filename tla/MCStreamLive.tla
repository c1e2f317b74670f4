---------------------------- MODULE MCStreamLive ----------------------------
(***************************************************************************)
(* For TLC, side by side: a stream, whose supervisor is one of the periodic *)
(* jobs, and the schedulers that have those jobs come round.  A behaviour   *)
(* is one of the stream or one of the schedulers.                           *)
(***************************************************************************)
EXTENDS StreamConsumer, PeriodicJobs

CONSTANTS s1, s2, d1

\* The version that goes has one job more.
MCDefinedBy == [s \in Schedulers |-> IF s = s1 THEN PeriodicIds ELSE {d1}]

VARIABLE subject

bothVars == <<subject, vars, periodicVars>>

StreamOn(step)   == subject = "stream" /\ step /\ UNCHANGED <<subject, periodicVars>>
PeriodicOn(step) == subject = "periodic" /\ step /\ UNCHANGED <<subject, vars>>

\* While the stream moves, the schedulers stand where nothing is promised of them.
BothInit ==
    /\ subject \in {"stream", "periodic"}
    /\ Init /\ PeriodicInit
    /\ subject = "stream" => inQueue = PeriodicIds /\ \A d \in PeriodicIds : entry[d] = "none"
BothNext == StreamOn(Next) \/ PeriodicOn(PeriodicNext)

\* Of the stream as in FairSpec.  A process that died is started again and goes on, the
\* rollout ends, time passes, locks run out; of the looks for what is missing, which are
\* not part of every pass, some are made.
FairBothSpec ==
    /\ BothInit /\ [][BothNext]_bothVars
    /\ \A j \in Jobs : WF_bothVars(StreamOn(Consume(j)))
    /\ WF_bothVars(StreamOn(Supervise))
    /\ WF_bothVars(StreamOn(View) \/ PeriodicOn(ComesDue))
    /\ WF_bothVars(StreamOn(ClaimExpires) \/ PeriodicOn(StartScheduler(s2)))
    /\ WF_bothVars(StreamOn(SlotExpires) \/ PeriodicOn(SchedulerStep(s2)))
    /\ WF_bothVars(PeriodicOn(Retire(s1)))
    /\ WF_bothVars(PeriodicOn(PassLockExpires))
    /\ SF_bothVars(PeriodicOn(LookForMissing(s2)))
=============================================================================
