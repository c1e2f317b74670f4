---------------------------- MODULE StreamRollup ----------------------------
(***************************************************************************)
(* The minutes of streams: the window, a file that the consumer fills and  *)
(* trims (streams/store.py), and the buckets that a job makes of it every  *)
(* minute, in Postgres (tasks/streams.py), while a window may be thrown    *)
(* away and a stream deleted.  The job may run late, twice at once, or die.*)
(* DuckDB gives the file to one process at a time, so a flush is one step, *)
(* and so is what a rollup reads.  Of the rows of a minute it matters only *)
(* whether all of them are there; the groups of a minute go together.      *)
(***************************************************************************)
EXTENDS Integers, FiniteSets

CONSTANTS
    Streams,     \* that have measures
    RollupJobs,  \* runs of the job at once (bound)
    LastMinute,  \* where the clock stops (bound)
    Windows,     \* minutes that window_for may choose
    CatchUp,     \* CATCHUP_MINUTES
    KeptMinutes  \* STREAM_ROLLUP_HOURS

ASSUME RollupAssumption ==
    /\ LastMinute \in Nat
    /\ Windows \subseteq Nat \ {0}
    /\ CatchUp \in Nat \ {0} /\ KeptMinutes \in Nat \ {0}

Minutes == 0..LastMinute

VARIABLES
    minute,      \* the minute in progress
    defined,     \* the streams that have not been deleted
    window,      \* what the window has of a minute
    buckets,     \* the rows of stream_rollups: who made it, of what
    rollPc,      \* where a run is
    streamsLeft, \* the streams it has yet to roll up
    rolling,     \* the minutes in its hands: stream, minute, and what was read
    updating,    \* those of them for which it found a row
    sessionOk,   \* its session is not waiting for a rollback
    lost,        \* history: the minutes that a window has lost rows of
    twice        \* history: the minutes that two runs looked for before either wrote

rollupVars == <<minute, defined, window, buckets, rollPc, streamsLeft, rolling,
                updating, sessionOk, lost, twice>>
rollVars   == <<rollPc, streamsLeft, rolling, updating, sessionOk>>

RollupTypeOK ==
    /\ minute \in Minutes
    /\ defined \subseteq Streams
    /\ window \in [Streams -> [Minutes -> {"none", "part", "whole"}]]
    /\ buckets \subseteq Streams \X Minutes \X RollupJobs \X {"part", "whole"}
    /\ rollPc \in [RollupJobs -> {"idle", "next", "look", "commit"}]
    /\ streamsLeft \in [RollupJobs -> SUBSET Streams]
    /\ rolling \in [RollupJobs -> SUBSET (Streams \X Minutes \X {"part", "whole"})]
    /\ updating \in [RollupJobs -> SUBSET (Streams \X Minutes \X {"part", "whole"})]
    /\ \A j \in RollupJobs : updating[j] \subseteq rolling[j]
    /\ sessionOk \in [RollupJobs -> BOOLEAN]
    /\ lost \subseteq Streams \X Minutes /\ twice \subseteq Streams \X Minutes

RollupInit ==
    /\ minute = 0
    /\ defined = Streams
    /\ window = [s \in Streams |-> [m \in Minutes |-> "none"]]
    /\ buckets = {}
    /\ rollPc = [j \in RollupJobs |-> "idle"]
    /\ streamsLeft = [j \in RollupJobs |-> {}]
    /\ rolling = [j \in RollupJobs |-> {}]
    /\ updating = [j \in RollupJobs |-> {}]
    /\ sessionOk = [j \in RollupJobs |-> TRUE]
    /\ lost = {} /\ twice = {}

-----------------------------------------------------------------------------
(* The window *)

\* What truncate may leave of a minute when it keeps w minutes: the bound falls within
\* the minute w ago, before, between or after its rows.
Trimmed(had, m, w) ==
    IF m < minute - w THEN {"none"}
    ELSE IF m = minute - w /\ had # "none" THEN {had, "part", "none"}
    ELSE {had}

Loses(s, after) ==
    lost' = lost \cup {<<s, m>> : m \in {n \in Minutes : after[n] # window[s][n]}}

\* flush_once: what was polled, if anything, is of this minute; then the window is
\* trimmed.  What a minute has lost does not come back with more of it.
FlushWindow(s) ==
    /\ s \in defined
    /\ \E w \in Windows, after \in [Minutes -> {"none", "part", "whole"}] :
        /\ \A m \in Minutes : after[m] \in Trimmed(window[s][m], m, w)
        /\ Loses(s, after)
        /\ \E some \in BOOLEAN :
            window' = [window EXCEPT ![s] = [after EXCEPT ![minute] =
                IF some /\ @ = "none"
                THEN IF <<s, minute>> \in lost THEN "part" ELSE "whole"
                ELSE @]]
    /\ UNCHANGED <<minute, defined, buckets, rollVars, twice>>

\* The decoder changes and the window is reset, or the stream is cold and the file goes.
DropWindow(s) ==
    /\ s \in defined
    /\ window' = [window EXCEPT ![s] = [m \in Minutes |-> "none"]]
    /\ Loses(s, window'[s])
    /\ UNCHANGED <<minute, defined, buckets, rollVars, twice>>

\* Its buckets go with it.
DeleteStream(s) ==
    /\ s \in defined
    /\ defined' = defined \ {s}
    /\ window' = [window EXCEPT ![s] = [m \in Minutes |-> "none"]]
    /\ buckets' = {b \in buckets : b[1] # s}
    /\ UNCHANGED <<minute, rollVars, lost, twice>>

-----------------------------------------------------------------------------
(* The job *)

RollGoto(j, from, to) ==
    /\ rollPc[j] = from
    /\ rollPc' = [rollPc EXCEPT ![j] = to]

StartRollup(j) ==
    /\ RollGoto(j, "idle", "next")
    /\ streamsLeft' = [streamsLeft EXCEPT ![j] = defined]
    /\ UNCHANGED <<minute, defined, window, buckets, rolling, updating, sessionOk, lost, twice>>

\* The newest CatchUp of the finished minutes that the window has something of.
Finished(s) == {m \in Minutes : m < minute /\ window[s][m] # "none"}
Newest(s)   == {m \in Finished(s) : Cardinality({n \in Finished(s) : n > m}) < CatchUp}

Rolled(s) == {b[2] : b \in {c \in buckets : c[1] = s}}

\* Mutant: the last minute and no other.
LastOnly(s) == {m \in Finished(s) \ Rolled(s) : m = minute - 1}

MinutesToRoll(s) == Newest(s) \ Rolled(s)

\* Whether a bucket that is made of a minute now will be all of it.
ReadAs(s, m) == IF m < minute THEN window[s][m] ELSE "part"

ReadMinutes(j, s) ==
    /\ s \in streamsLeft[j] \cap defined
    /\ sessionOk[j]
    /\ RollGoto(j, "next", "look")
    /\ streamsLeft' = [streamsLeft EXCEPT ![j] = @ \ {s}]
    /\ rolling' = [rolling EXCEPT ![j] = {<<s, m, ReadAs(s, m)>> : m \in MinutesToRoll(s)}]
    /\ UNCHANGED <<minute, defined, window, buckets, updating, sessionOk, lost, twice>>

\* The file is gone, or held too long; or every statement raises, since the session of
\* an earlier stream's failure was not rolled back.  It is logged.
SkipStream(j, s) ==
    /\ rollPc[j] = "next"
    /\ s \in streamsLeft[j]
    /\ streamsLeft' = [streamsLeft EXCEPT ![j] = @ \ {s}]
    /\ UNCHANGED <<minute, defined, window, buckets, rollPc, rolling, updating, sessionOk,
                   lost, twice>>

Minute(r)   == <<r[1], r[2]>>
Looking(j)  == {Minute(r) : r \in rolling[j]}

\* Mutant: no row is looked for.
NoneFound(j) == {}
FoundRows(j) == {r \in rolling[j] : r[2] \in Rolled(r[1])}

LookForBuckets(j) ==
    /\ RollGoto(j, "look", "commit")
    /\ updating' = [updating EXCEPT ![j] = FoundRows(j)]
    /\ twice' = twice \cup (Looking(j) \cap
           UNION {Looking(k) : k \in {i \in RollupJobs \ {j} : rollPc[i] = "commit"}})
    /\ UNCHANGED <<minute, defined, window, buckets, streamsLeft, rolling, sessionOk, lost>>

\* A row of a deleted stream is refused, and so is an update of a row that is gone.
Refused(j) ==
    \/ \E r \in rolling[j] : r[1] \notin defined
    \/ \E r \in updating[j] : r[2] \notin Rolled(r[1])

EmptyHands(j) ==
    /\ rolling' = [rolling EXCEPT ![j] = {}]
    /\ updating' = [updating EXCEPT ![j] = {}]

\* A row that was found is written over, whoever made it.
CommitBuckets(j) ==
    /\ ~Refused(j)
    /\ RollGoto(j, "commit", "next")
    /\ \E over \in SUBSET {b \in buckets : \E r \in updating[j] : Minute(r) = <<b[1], b[2]>>} :
        /\ \A r \in updating[j] : Cardinality({b \in over : <<b[1], b[2]>> = Minute(r)}) = 1
        /\ buckets' = (buckets \ over) \cup {<<r[1], r[2], j, r[3]>> : r \in rolling[j]}
    /\ EmptyHands(j)
    /\ UNCHANGED <<minute, defined, window, streamsLeft, sessionOk, lost, twice>>

FailToCommit(j) ==
    /\ Refused(j)
    /\ RollGoto(j, "commit", "next")
    /\ sessionOk' = [sessionOk EXCEPT ![j] = FALSE]
    /\ EmptyHands(j)
    /\ UNCHANGED <<minute, defined, window, buckets, streamsLeft, lost, twice>>

\* _drop_old_rollups raises as well when the session is broken.
EndRollup(j) ==
    /\ streamsLeft[j] = {}
    /\ RollGoto(j, "next", "idle")
    /\ buckets' = IF sessionOk[j] THEN {b \in buckets : b[2] >= minute - KeptMinutes}
                                  ELSE buckets
    /\ sessionOk' = [sessionOk EXCEPT ![j] = TRUE]
    /\ UNCHANGED <<minute, defined, window, streamsLeft, rolling, updating, lost, twice>>

KillRollup(j) ==
    /\ rollPc[j] # "idle"
    /\ rollPc' = [rollPc EXCEPT ![j] = "idle"]
    /\ streamsLeft' = [streamsLeft EXCEPT ![j] = {}]
    /\ EmptyHands(j)
    /\ sessionOk' = [sessionOk EXCEPT ![j] = TRUE]
    /\ UNCHANGED <<minute, defined, window, buckets, lost, twice>>

-----------------------------------------------------------------------------

RollupMinute ==
    /\ minute < LastMinute
    /\ minute' = minute + 1
    /\ UNCHANGED <<defined, window, buckets, rollVars, lost, twice>>

RollStep(j) ==
    \/ \E s \in Streams : ReadMinutes(j, s) \/ SkipStream(j, s)
    \/ LookForBuckets(j) \/ CommitBuckets(j) \/ FailToCommit(j) \/ EndRollup(j)

RollupNext ==
    \/ \E s \in Streams : FlushWindow(s) \/ DropWindow(s) \/ DeleteStream(s)
    \/ \E j \in RollupJobs : StartRollup(j) \/ RollStep(j) \/ KillRollup(j)
    \/ RollupMinute

RollupSpec == RollupInit /\ [][RollupNext]_rollupVars

-----------------------------------------------------------------------------

BucketsOf(s, m) == {b \in buckets : b[1] = s /\ b[2] = m}

\* A minute is in the history once, and with all that was stored in it: "a bucket
\* written while its minute is filling is wrong until it is rewritten, and nothing
\* rewrites it" (tasks/streams.py).  It is counted twice only if two runs had both
\* looked for it before either wrote, as no constraint of the table forbids; and short
\* only if the window had lost some of it first.
MinuteCountedOnce ==
    \A s \in Streams, m \in Minutes :
        /\ Cardinality(BucketsOf(s, m)) > 1 => <<s, m>> \in twice
        /\ (\E b \in BucketsOf(s, m) : b[4] = "part") => <<s, m>> \in lost

\* A run that comes late, fails or dies leaves no hole (tasks/streams.py: a late run
\* "lost that minute for good"): again and again the buckets have every finished minute
\* that the window has, but for those that CatchUp newer ones keep out.
HolesAreFilled == []<>(\A s \in Streams : Newest(s) \subseteq Rolled(s))
=============================================================================
