-------------------------- MODULE ScheduledQueries --------------------------
(***************************************************************************)
(* Scheduled queries: which ones refresh_queries finds outdated, what their*)
(* runs leave in the database, and how failures push the next run out.     *)
(* What a counted failure puts in its owner's report is module             *)
(* FailureReport.                                                          *)
(*                                                                         *)
(* The queries are of one owner and one data source and have the same      *)
(* interval.  A text stands for its hash.  At most one job per text: that  *)
(* is the query lock's doing (module QueryLock).  Times are ages, in units *)
(* of a minute, and stop growing when they are past every threshold.       *)
(***************************************************************************)
EXTENDS Integers, FiniteSets

CONSTANTS
    Queries,     \* query ids, numbers
    Texts,
    BadTexts,    \* texts whose default parameters are not valid
    Interval,    \* of every schedule
    MaxBackoff,  \* MAX_SCHEDULE_BACKOFF
    FailureCap,  \* schedule_failures is not told apart above this (bound)
    Handled      \* the queries that somebody edits, reschedules or runs by hand (bound)

ASSUME ScheduledQueriesAssumption ==
    /\ Queries \subseteq Nat
    /\ BadTexts \subseteq Texts
    /\ Interval \in Nat /\ MaxBackoff \in Nat
    /\ FailureCap \in Nat /\ 2 ^ FailureCap >= MaxBackoff
    /\ Handled \subseteq Queries

VARIABLES
    text,        \* the text of a query
    scheduled,   \* the queries that have a schedule
    failures,    \* schedule_failures
    executed,    \* the queries with an entry in sq:executed_at
    sinceAge,    \* the age of that entry, else of its latest_query_data, else Never
    storedAge,   \* the age of the newest stored result of a text
    runPc,       \* where the job of a text is
    runOf,       \* [query, scheduled, failures]: its query_model, as it was loaded
    counted,     \* history: failures since the last success; 0 when lapped
    lapped       \* history: something else wrote the count while a run had it loaded

queryVars    == <<text, scheduled, failures>>
runVars      == <<runPc, runOf>>
scheduleVars == <<queryVars, executed, sinceAge, storedAge, runVars, counted, lapped>>

Never  == -1
MaxAge == Interval + MaxBackoff + 1
Ages   == Never..MaxAge
NoRun  == [query |-> -1, scheduled |-> FALSE, failures |-> 0]

Aged(age) == IF age \in {Never, MaxAge} THEN age ELSE age + 1
Count(n)  == IF n < FailureCap THEN n + 1 ELSE n

ScheduledInit ==
    /\ text \in [Queries -> Texts]
    /\ scheduled \in SUBSET Queries
    /\ failures = [q \in Queries |-> 0]
    /\ executed = {}
    /\ sinceAge = [q \in Queries |-> Never]
    /\ storedAge = [t \in Texts |-> Never]
    /\ runPc = [t \in Texts |-> "idle"]
    /\ runOf = [t \in Texts |-> NoRun]
    /\ counted = [q \in Queries |-> 0]
    /\ lapped = [q \in Queries |-> FALSE]

-----------------------------------------------------------------------------
(* outdated_queries and refresh_queries *)

\* Mutant: the backoff has no ceiling.
Unlimited(n) == IF n = 0 THEN 0 ELSE 2 ^ (n + MaxBackoff)

Backoff(n) ==
    IF n = 0 THEN 0 ELSE IF 2 ^ n < MaxBackoff THEN 2 ^ n ELSE MaxBackoff

\* should_schedule_next for an interval: a query that never ran is due.
Due(age, n) == age = Never \/ age > Interval + Backoff(n)

\* The entry in Redis counts when there is one, the latest result otherwise.
Outdated == {q \in scheduled : Due(sinceAge[q], failures[q])}

\* Of the outdated queries with one text the last one stands for all.
Chosen == {q \in Outdated : \A p \in Outdated : text[p] = text[q] => p <= q}

\* track_failure: the count is one more than what its caller had in hand.
Failed(q, n) == failures' = [failures EXCEPT ![q] = Count(n)]

\* A run has the query, and its count, in hand.
LoadedBesides(q, t) == \E s \in Texts \ {t} : runPc[s] = "running" /\ runOf[s].query = q
Loaded(q) == \E s \in Texts : runPc[s] = "running" /\ runOf[s].query = q

\* One pass: a query whose parameters do not apply is a failure, the rest join the
\* job of their text or get one.
RefreshQueries ==
    LET bad  == {q \in Chosen : text[q] \in BadTexts}
        new  == {q \in Chosen \ bad : runPc[text[q]] = "idle"}
        of(t) == CHOOSE q \in new : text[q] = t
        starts == {text[q] : q \in new}
    IN
    /\ failures' = [q \in Queries |-> IF q \in bad THEN Count(failures[q]) ELSE failures[q]]
    /\ lapped' = [q \in Queries |-> lapped[q] \/ (q \in bad /\ Loaded(q))]
    /\ counted' = [q \in Queries |-> IF lapped'[q] THEN 0
                                     ELSE IF q \in bad THEN Count(counted[q]) ELSE counted[q]]
    /\ runPc' = [t \in Texts |-> IF t \in starts THEN "queued" ELSE runPc[t]]
    /\ runOf' = [t \in Texts |->
           IF t \in starts THEN [query |-> of(t), scheduled |-> TRUE, failures |-> 0] ELSE runOf[t]]
    /\ UNCHANGED <<text, scheduled, executed, sinceAge, storedAge>>

-----------------------------------------------------------------------------
(* QueryExecutor *)

\* Somebody runs the query by hand: it joins a job of its text, or gets one.
RunByHand(q) ==
    /\ runPc[text[q]] = "idle"
    /\ runPc' = [runPc EXCEPT ![text[q]] = "queued"]
    /\ runOf' = [runOf EXCEPT ![text[q]] = [query |-> q, scheduled |-> FALSE, failures |-> 0]]
    /\ UNCHANGED <<queryVars, executed, sinceAge, storedAge, counted, lapped>>

\* The constructor loads the query and notes that a scheduled one has started.
LoadRun(t) ==
    LET q == runOf[t].query IN
    /\ runPc[t] = "queued"
    /\ runPc' = [runPc EXCEPT ![t] = "running"]
    /\ runOf' = [runOf EXCEPT ![t].failures = failures[q]]
    /\ IF runOf[t].scheduled
       THEN executed' = executed \cup {q} /\ sinceAge' = [sinceAge EXCEPT ![q] = 0]
       ELSE UNCHANGED <<executed, sinceAge>>
    /\ UNCHANGED <<queryVars, storedAge, counted, lapped>>

EndRun(t) ==
    /\ runPc' = [runPc EXCEPT ![t] = "idle"]
    /\ runOf' = [runOf EXCEPT ![t] = NoRun]

\* The query fails, or the pool refuses it; only a scheduled one is counted, from
\* what was loaded before the run.
FailRun(t) ==
    LET q == runOf[t].query IN
    /\ runPc[t] = "running"
    /\ EndRun(t)
    /\ IF runOf[t].scheduled
       THEN /\ Failed(q, runOf[t].failures)
            /\ lapped' = [lapped EXCEPT ![q] = @ \/ LoadedBesides(q, t)]
            /\ counted' = [counted EXCEPT ![q] = IF lapped'[q] THEN 0 ELSE Count(@)]
       ELSE UNCHANGED <<failures, counted, lapped>>
    /\ UNCHANGED <<text, scheduled, executed, sinceAge, storedAge>>

\* Mutant: only a scheduled run clears the count.
ScheduledClears(t) == runOf[t].scheduled /\ runOf[t].failures > 0

Clears(t) == runOf[t].failures > 0

\* The count is cleared if it was above zero when loaded; the result is stored and
\* becomes the latest of every query that has its text by now.
StoreRun(t) ==
    LET q == runOf[t].query IN
    /\ runPc[t] = "running"
    /\ EndRun(t)
    /\ failures' = IF Clears(t) THEN [failures EXCEPT ![q] = 0] ELSE failures
    /\ counted' = [counted EXCEPT ![q] = 0]
    /\ lapped' = [lapped EXCEPT ![q] = LoadedBesides(q, t) \/ (@ /\ ~Clears(t))]
    /\ storedAge' = [storedAge EXCEPT ![t] = 0]
    /\ sinceAge' = [p \in Queries |->
           IF text[p] = t /\ p \notin executed THEN 0 ELSE sinceAge[p]]
    /\ UNCHANGED <<text, scheduled, executed>>

\* The job's horse is killed: the lock goes stale, and so frees the text.
KillRun(t) ==
    /\ runPc[t] # "idle"
    /\ EndRun(t)
    /\ UNCHANGED <<queryVars, executed, sinceAge, storedAge, counted, lapped>>

-----------------------------------------------------------------------------
(* The query's handler, and time *)

\* A text that has been run before brings its newest result; with one that has
\* not, the query keeps the result it had.
EditQuery(q, t) ==
    /\ text' = [text EXCEPT ![q] = t]
    /\ sinceAge' = IF storedAge[t] = Never \/ q \in executed THEN sinceAge
                   ELSE [sinceAge EXCEPT ![q] = storedAge[t]]
    /\ UNCHANGED <<scheduled, failures, executed, storedAge, runVars, counted, lapped>>

SetSchedule(q) ==
    /\ scheduled' \in {scheduled \cup {q}, scheduled \ {q}}
    /\ UNCHANGED <<text, failures, executed, sinceAge, storedAge, runVars, counted, lapped>>

MinutePasses ==
    /\ sinceAge' = [q \in Queries |-> Aged(sinceAge[q])]
    /\ storedAge' = [t \in Texts |-> Aged(storedAge[t])]
    /\ UNCHANGED <<queryVars, executed, runVars, counted, lapped>>

RunStep(t) == LoadRun(t) \/ FailRun(t) \/ StoreRun(t)

ScheduledNext ==
    \/ RefreshQueries
    \/ \E t \in Texts : RunStep(t) \/ KillRun(t)
    \/ \E q \in Handled :
        RunByHand(q) \/ SetSchedule(q) \/ \E t \in Texts : EditQuery(q, t)
    \/ MinutePasses

ScheduledSpec == ScheduledInit /\ [][ScheduledNext]_scheduleVars

-----------------------------------------------------------------------------

\* Types.
ScheduledTypeOK ==
    /\ text \in [Queries -> Texts]
    /\ scheduled \subseteq Queries
    /\ failures \in [Queries -> 0..FailureCap]
    /\ executed \subseteq Queries
    /\ sinceAge \in [Queries -> Ages]
    /\ storedAge \in [Texts -> Ages]
    /\ runPc \in [Texts -> {"idle", "queued", "running"}]
    /\ runOf \in [Texts -> [query : Queries, scheduled : BOOLEAN, failures : 0..FailureCap]
                             \cup {NoRun}]
    /\ counted \in [Queries -> 0..FailureCap]
    /\ lapped \in [Queries -> BOOLEAN]

\* schedule_failures is the number of failures since the last run that succeeded,
\* by hand or not, unless two runs of the query, or a run and the scheduler, had
\* the count in hand at once (tasks/failure_report.py:90 adds to what was loaded
\* before the run).
FailuresInARow == \A q \in Queries : ~lapped[q] => failures[q] = counted[q]

\* However often it fails, a query that stays scheduled is run again and again: its
\* own run, a twin's with its text, or one by hand that its run joined (the backoff
\* has a ceiling, and a query is left out of a pass only for a twin).
KeepsRefreshing ==
    \A q \in Queries :
        (q \in scheduled /\ text[q] \notin BadTexts)
          ~> (runPc[text[q]] = "running" \/ q \notin scheduled \/ text[q] \in BadTexts)
=============================================================================
