--------------------------- MODULE LiveDashboards ---------------------------
(***************************************************************************)
(* Live dashboards that show the same query: the sweep every ten seconds,  *)
(* the job for a first viewer and the request that changes the settings    *)
(* each walk over dashboards and ask for the query when its result is old  *)
(* and nobody has asked lately.  All three are walkers here.  Time is      *)
(* counted in the shortest interval; lock, mark and check-ins are keys of  *)
(* Redis that expire.  At most one run of the query at a time is the query *)
(* lock's doing (module QueryLock).                                        *)
(***************************************************************************)
EXTENDS Integers, FiniteSets

CONSTANTS
    Boards,      \* the dashboards with a widget that shows the query
    Every,       \* Every[b]: its interval
    Sweeps,      \* sweeps in play at once (bound)
    Visits,      \* first-viewer jobs and settings requests in play (bound)
    WatchWindow  \* WATCH_WINDOW

ASSUME LiveAssumption ==
    /\ Every \in [Boards -> Nat \ {0}]
    /\ \E b \in Boards : \A c \in Boards : Every[c] <= Every[b]
    /\ WatchWindow \in Nat \ {0}
    /\ Sweeps \cap Visits = {}

VARIABLES
    live,      \* dashboard.live: on, paused or off
    seenAge,   \* the age of the last check-in of a dashboard's viewer; Unseen if it left
    resultAge, \* the age of the query's newest result
    markLeft,  \* how long the mark of the last attempt still stands; 0 when it is gone
    refreshing,\* a run of the query is queued or running
    sweepLock, \* how long sqldesk:live:sweep still stands; 0 when it is gone
    walkPc,    \* where a walker is
    ahead,     \* the dashboards it has still to look at
    looking,   \* the one it found old, or NoBoard
    askedAge,  \* history: since the last attempt
    byHand,    \* history: somebody had the attempts forgotten since then
    overran    \* history: the lock ran out under a sweep that is still walking

walkVars == <<walkPc, ahead, looking>>
liveVars == <<live, seenAge, resultAge, markLeft, refreshing, sweepLock, walkVars,
              askedAge, byHand, overran>>

Walkers  == Sweeps \cup Visits
NoBoard  == "no dashboard"
Unseen   == WatchWindow + 1
Longest  == CHOOSE n \in {Every[b] : b \in Boards} : \A b \in Boards : Every[b] <= n
Shortest == CHOOSE n \in {Every[b] : b \in Boards} : \A b \in Boards : Every[b] >= n

\* SWEEP_TIMEOUT, which is also the job's: longer than the shortest interval.
SweepTimeout == 2

Later(age, cap) == IF age < cap THEN age + 1 ELSE age

LiveInit ==
    /\ live \in [Boards -> {"on", "off"}]
    /\ seenAge = [b \in Boards |-> Unseen]
    /\ resultAge = Longest + 1
    /\ markLeft = 0
    /\ refreshing = FALSE
    /\ sweepLock = 0
    /\ walkPc = [w \in Walkers |-> "idle"]
    /\ ahead = [w \in Walkers |-> {}]
    /\ looking = [w \in Walkers |-> NoBoard]
    /\ askedAge = Longest
    /\ byHand = FALSE
    /\ overran = FALSE

-----------------------------------------------------------------------------

IsRunning(b) == live[b] = "on"
IsWatched(b) == seenAge[b] <= WatchWindow
Fresh(b)     == resultAge < Every[b]

Walking(w) == walkPc[w] = "walking"

Walk(w, from, to, boards) ==
    /\ walkPc[w] = from
    /\ walkPc' = [walkPc EXCEPT ![w] = to]
    /\ ahead' = [ahead EXCEPT ![w] = boards]

\* Mutant: every sweep takes itself for the only one.
LockRegardless(w) == TRUE

LockFree(w) == sweepLock = 0

\* refresh_live_dashboards takes the lock for as long as it may run.
StartSweep(w) ==
    /\ LockFree(w)
    /\ Walk(w, "idle", "walking", Boards)
    /\ sweepLock' = SweepTimeout
    /\ UNCHANGED <<live, seenAge, resultAge, markLeft, refreshing, looking, askedAge,
                   byHand, overran>>

\* The lock is deleted whoever holds it by now.
EndSweep(w) ==
    /\ w \in Sweeps
    /\ ahead[w] = {}
    /\ looking[w] = NoBoard
    /\ Walk(w, "walking", "idle", {})
    /\ sweepLock' = 0
    /\ overran' = (overran /\ \E v \in Sweeps \ {w} : Walking(v))
    /\ UNCHANGED <<live, seenAge, resultAge, markLeft, refreshing, looking, askedAge, byHand>>

\* A job that is out of time still runs its finally; one that is killed does not.
StopWalk(w) ==
    /\ Walking(w)
    /\ Walk(w, "walking", "idle", {})
    /\ looking' = [looking EXCEPT ![w] = NoBoard]
    /\ \/ w \in Sweeps /\ sweepLock' = 0
       \/ UNCHANGED sweepLock
    /\ overran' = (overran /\ \E v \in Sweeps \ {w} : Walking(v))
    /\ UNCHANGED <<live, seenAge, resultAge, markLeft, refreshing, askedAge, byHand>>

\* A sweep passes over what nobody watches; either kind over what is not running.
PassBoard(w, b) ==
    /\ Walking(w) /\ b \in ahead[w] /\ looking[w] = NoBoard
    /\ ~IsRunning(b) \/ (w \in Sweeps /\ ~IsWatched(b)) \/ Fresh(b)
    /\ ahead' = [ahead EXCEPT ![w] = @ \ {b}]
    /\ UNCHANGED <<live, seenAge, resultAge, markLeft, refreshing, sweepLock, walkPc, looking,
                   askedAge, byHand, overran>>

\* refresh_dashboard finds the result older than its interval.
FindOld(w, b) ==
    /\ Walking(w) /\ b \in ahead[w] /\ looking[w] = NoBoard
    /\ IsRunning(b) /\ (w \in Sweeps => IsWatched(b)) /\ ~Fresh(b)
    /\ ahead' = [ahead EXCEPT ![w] = @ \ {b}]
    /\ looking' = [looking EXCEPT ![w] = b]
    /\ UNCHANGED <<live, seenAge, resultAge, markLeft, refreshing, sweepLock, walkPc,
                   askedAge, byHand, overran>>

\* Mutant: the mark is looked at when the result is not there.
MarkIgnored == TRUE

MarkGone == markLeft = 0

\* claim_attempt, then enqueue_query, which joins the run there is or raises; the
\* mark stands for the interval of the dashboard that made it.
AskForQuery(w) ==
    /\ looking[w] # NoBoard
    /\ MarkGone
    /\ markLeft' = Every[looking[w]]
    /\ refreshing' \in {refreshing, TRUE}
    /\ askedAge' = 0
    /\ byHand' = FALSE
    /\ looking' = [looking EXCEPT ![w] = NoBoard]
    /\ UNCHANGED <<live, seenAge, resultAge, sweepLock, walkPc, ahead, overran>>

AskedAlready(w) ==
    /\ looking[w] # NoBoard
    /\ ~MarkGone
    /\ looking' = [looking EXCEPT ![w] = NoBoard]
    /\ UNCHANGED <<live, seenAge, resultAge, markLeft, refreshing, sweepLock, walkPc, ahead,
                   askedAge, byHand, overran>>

EndVisit(w) ==
    /\ w \in Visits
    /\ ahead[w] = {} /\ looking[w] = NoBoard
    /\ Walk(w, "walking", "idle", {})
    /\ UNCHANGED <<live, seenAge, resultAge, markLeft, refreshing, sweepLock, looking,
                   askedAge, byHand, overran>>

-----------------------------------------------------------------------------

\* The settings are written, the attempts forgotten, and the request walks on.
SetLive(w, b, to) ==
    /\ Walk(w, "idle", "walking", {b})
    /\ live' = [live EXCEPT ![b] = to]
    /\ markLeft' = 0
    /\ byHand' = TRUE
    /\ UNCHANGED <<seenAge, resultAge, refreshing, sweepLock, looking, askedAge, overran>>

\* _watch: a first viewer has the refresh queued; one more only checks in.
CheckInLive(w, b) ==
    /\ live[b] # "off"
    /\ seenAge' = [seenAge EXCEPT ![b] = 0]
    /\ IF IsWatched(b) THEN UNCHANGED <<walkPc, ahead>> ELSE Walk(w, "idle", "walking", {b})
    /\ UNCHANGED <<live, resultAge, markLeft, refreshing, sweepLock, looking, askedAge,
                   byHand, overran>>

LeaveLive(b) ==
    /\ seenAge' = [seenAge EXCEPT ![b] = Unseen]
    /\ UNCHANGED <<live, resultAge, markLeft, refreshing, sweepLock, walkVars, askedAge,
                   byHand, overran>>

\* A run stores its result, or fails and leaves none.
QueryEnds(stored) ==
    /\ refreshing
    /\ refreshing' = FALSE
    /\ resultAge' = IF stored THEN 0 ELSE resultAge
    /\ UNCHANGED <<live, seenAge, markLeft, sweepLock, walkVars, askedAge, byHand, overran>>

\* Mutant: the mark of an attempt does not expire.
MarkStays(left) == left

MarkExpires(left) == IF left > 0 THEN left - 1 ELSE 0

LiveTick ==
    /\ seenAge' = [b \in Boards |-> Later(seenAge[b], Unseen)]
    /\ resultAge' = Later(resultAge, Longest + 1)
    /\ markLeft' = MarkExpires(markLeft)
    /\ sweepLock' = IF sweepLock > 0 THEN sweepLock - 1 ELSE 0
    /\ askedAge' = Later(askedAge, Longest)
    /\ overran' = (overran \/ (sweepLock = 1 /\ \E w \in Sweeps : Walking(w)))
    /\ UNCHANGED <<live, refreshing, walkVars, byHand>>

WalkStep(w) ==
    \/ \E b \in Boards : PassBoard(w, b) \/ FindOld(w, b)
    \/ AskForQuery(w) \/ AskedAlready(w)
    \/ EndSweep(w) \/ EndVisit(w)

LiveNext ==
    \/ \E w \in Sweeps : StartSweep(w)
    \/ \E w \in Walkers : WalkStep(w) \/ StopWalk(w)
    \/ \E w \in Visits, b \in Boards :
        CheckInLive(w, b) \/ \E to \in {"on", "paused", "off"} : SetLive(w, b, to)
    \/ \E b \in Boards : LeaveLive(b)
    \/ \E stored \in BOOLEAN : QueryEnds(stored)
    \/ LiveTick

LiveSpec == LiveInit /\ [][LiveNext]_liveVars

-----------------------------------------------------------------------------

\* Types.
LiveTypeOK ==
    /\ live \in [Boards -> {"on", "paused", "off"}]
    /\ seenAge \in [Boards -> 0..Unseen]
    /\ resultAge \in 0..(Longest + 1)
    /\ markLeft \in 0..Longest
    /\ refreshing \in BOOLEAN
    /\ sweepLock \in 0..SweepTimeout
    /\ walkPc \in [Walkers -> {"idle", "walking"}]
    /\ ahead \in [Walkers -> SUBSET Boards]
    /\ looking \in [Walkers -> Boards \cup {NoBoard}]
    /\ askedAge \in 0..Longest
    /\ byHand \in BOOLEAN /\ overran \in BOOLEAN

\* However many viewers come and go, dashboards show it and walkers overlap, the query
\* is asked for at most once in the shortest interval, unless somebody had the
\* attempts forgotten: also while it fails and leaves no result behind.
NotHammered ==
    [][\A w \in Walkers :
          looking[w] # NoBoard /\ askedAge' = 0 /\ markLeft' > markLeft
            => askedAge >= Shortest \/ byHand]_liveVars

\* Two sweeps walk at once only after one of them has outlived its lock.
OneSweep == Cardinality({w \in Sweeps : Walking(w)}) > 1 => overran

\* A dashboard that is on and watched has its query asked for when it is old, again
\* and again, whether it fails or not.
KeepsRefreshed ==
    \A b \in Boards :
        (IsRunning(b) /\ IsWatched(b) /\ ~Fresh(b))
          ~> (refreshing \/ Fresh(b) \/ ~IsRunning(b) \/ ~IsWatched(b) \/ askedAge = 0)

=============================================================================
