------------------------------- MODULE Alerts -------------------------------
(***************************************************************************)
(* The alerts of one query: how a stored result is turned into a state,    *)
(* when a check writes that state down and tells the subscribers, and what *)
(* the handlers of sqldesk/handlers/alerts.py change meanwhile.            *)
(*                                                                         *)
(* A result is the sequence of the values of the watched column; <<>> when *)
(* there is no result, no row or no such column.  A check is an RQ job; a  *)
(* job reads an alert and the latest result, commits what it decided, and  *)
(* reads the alert again before it tells anybody.  Times are ages.         *)
(***************************************************************************)
EXTENDS Integers, FiniteSets, Sequences

CONSTANTS
    AlertIds,
    CheckJobs,  \* check_alerts_for_query jobs in play at once (bound)
    Results,    \* the results a run may store
    Options,    \* [op, selector, threshold]: what an alert may be set to
    Null, Text, \* values of a column that are not numbers
    Rearm       \* alert.rearm, 0 when it is not set

ASSUME AlertsAssumption == Rearm \in Nat /\ "nothing" \notin AlertIds

VARIABLES
    result,     \* the values of the query's latest result
    alerts,     \* the alerts that exist
    options,    \* alert.options
    muted,      \* options["muted"]
    state,      \* alert.state
    firedAge,   \* the age of last_triggered_at; NotFired when it is None
    checkPc,    \* where a check is
    todo,       \* the alerts a check has still to look at
    checking,   \* the alert it is at
    decided,    \* its old_state and new_state
    told,       \* history: the state that the subscribers were last told
    lastFire,   \* history: the state last written by a check or the button, its age
    disturbed,  \* history: a message was withheld, lost or overtaken since the last one
    fresh       \* history: the result in place came with a check that works

checkVars  == <<checkPc, todo, checking, decided>>
alertsVars == <<result, alerts, options, muted, state, firedAge, checkVars,
                told, lastFire, disturbed, fresh>>

States == {"unknown", "ok", "triggered"}
NotFired  == -1
FiredAges == NotFired..(Rearm + 1)
NobodyYet == "nothing"

\* Mutant: an age is not cut off.
OlderForever(age) == IF age = NotFired THEN age ELSE age + 1

\* Every age grows to one more than the rearm and stays there.
Older(age) == IF age = NotFired \/ age > Rearm THEN age ELSE age + 1

AlertsInit ==
    /\ result = <<>>
    /\ alerts = AlertIds
    /\ options \in [AlertIds -> Options]
    /\ muted = [a \in AlertIds |-> FALSE]
    /\ state = [a \in AlertIds |-> "unknown"]
    /\ firedAge = [a \in AlertIds |-> NotFired]
    /\ checkPc = [j \in CheckJobs |-> "idle"]
    /\ todo = [j \in CheckJobs |-> {}]
    /\ checking = [j \in CheckJobs |-> NobodyYet]
    /\ decided = [j \in CheckJobs |-> [old |-> "unknown", new |-> "unknown"]]
    /\ told = [a \in AlertIds |-> NobodyYet]
    /\ lastFire = [a \in AlertIds |-> [state |-> NobodyYet, age |-> NotFired]]
    /\ disturbed = [a \in AlertIds |-> FALSE]
    /\ fresh = FALSE

-----------------------------------------------------------------------------
(* What a result means to an alert *)

Holds(op, value, threshold) ==
    CASE op = ">"  -> value > threshold
      [] op = "<=" -> value <= threshold
      [] op = "==" -> value = threshold
      [] op = "!=" -> value # threshold

\* Ordering a text against a number raises TypeError, which nobody catches;
\* a text equals no number.
NextState(op, value, threshold) ==
    IF value = Text THEN CASE op = "==" -> "ok"
                           [] op = "!=" -> "triggered"
                           [] OTHER -> "raises"
    ELSE IF Holds(op, value, threshold) THEN "triggered" ELSE "ok"

Extreme(selector, values) ==
    CHOOSE v \in values :
        \A w \in values : IF selector = "max" THEN v >= w ELSE v <= w

\* float(None) raises TypeError, float("text") the ValueError that is caught:
\* whichever of the two comes first in the rows.
Evaluate(o, rows) ==
    LET values == {rows[i] : i \in 1..Len(rows)}
        odd    == {i \in 1..Len(rows) : rows[i] \in {Null, Text}}
        first  == CHOOSE i \in odd : \A k \in odd : i <= k
    IN  IF rows = <<>> THEN "unknown"
        ELSE IF o.selector = "first"
             THEN IF rows[1] = Null THEN "unknown" ELSE NextState(o.op, rows[1], o.threshold)
        ELSE IF odd # {} THEN IF rows[first] = Text THEN "unknown" ELSE "raises"
        ELSE NextState(o.op, Extreme(o.selector, values), o.threshold)

Verdict(a) == Evaluate(options[a], result)

\* Mutant: a recovery is not a change worth writing down.
NotifyOnlyWorse(a, new) ==
    \/ new # state[a] /\ new # "ok"
    \/ state[a] = "triggered" /\ Rearm > 0 /\ firedAge[a] > Rearm

ShouldNotify(a, new) ==
    \/ new # state[a]
    \/ state[a] = "triggered" /\ Rearm > 0 /\ firedAge[a] > Rearm

-----------------------------------------------------------------------------
(* A run stores its result, and queues a check for the query *)

\* The check is queued after the commit: a worker killed in between leaves the
\* result without one.
StoreResult(r) ==
    /\ result' = r
    /\ \/ /\ fresh' = FALSE
          /\ UNCHANGED checkPc
       \/ \E j \in CheckJobs :
            /\ checkPc[j] = "idle"
            /\ checkPc' = [checkPc EXCEPT ![j] = "queued"]
            /\ fresh' = TRUE
    /\ UNCHANGED <<alerts, options, muted, state, firedAge, todo, checking, decided,
                   told, lastFire, disturbed>>

-----------------------------------------------------------------------------
(* check_alerts_for_query *)

CheckGoto(j, from, to) ==
    /\ checkPc[j] = from
    /\ checkPc' = [checkPc EXCEPT ![j] = to]

\* Every variable of the job is back to where an idle job has it.
CheckForgets(j) ==
    /\ todo' = [todo EXCEPT ![j] = {}]
    /\ checking' = [checking EXCEPT ![j] = NobodyYet]
    /\ decided' = [decided EXCEPT ![j] = [old |-> "unknown", new |-> "unknown"]]

StartCheck(j) ==
    /\ CheckGoto(j, "queued", "next")
    /\ todo' = [todo EXCEPT ![j] = alerts]
    /\ UNCHANGED <<result, alerts, options, muted, state, firedAge, checking, decided,
                   told, lastFire, disturbed, fresh>>

\* An exception ends the job: the alerts after this one are not looked at, and
\* what was written and not told yet is not told.
CheckRaises(j) ==
    /\ CheckGoto(j, checkPc[j], "idle")
    /\ CheckForgets(j)
    /\ disturbed' = [a \in AlertIds |-> disturbed[a] \/ (a \in alerts /\ a = checking[j])]
    /\ fresh' = FALSE
    /\ UNCHANGED <<result, alerts, options, muted, state, firedAge, told, lastFire>>

\* Another check has decided about this alert and is not through with it.
AnotherAt(j, a) == \E i \in CheckJobs \ {j} : checking[i] = a

\* Nobody is told of an alert that was unknown and is ok.
Settles(old, new) == old = "unknown" /\ new = "ok"

\* evaluate and should_notify, on what the database says now.
EvaluateAlert(j, a) ==
    /\ checkPc[j] = "next"
    /\ a \in todo[j] \cap alerts
    /\ Verdict(a) # "raises"
    /\ todo' = [todo EXCEPT ![j] = @ \ {a}]
    /\ IF ShouldNotify(a, Verdict(a))
       THEN /\ CheckGoto(j, "next", "write")
            /\ checking' = [checking EXCEPT ![j] = a]
            /\ decided' = [decided EXCEPT ![j] = [old |-> state[a], new |-> Verdict(a)]]
       ELSE UNCHANGED <<checkPc, checking, decided>>
    /\ disturbed' = [disturbed EXCEPT ![a] =
           AnotherAt(j, a) \/ (@ /\ ~(ShouldNotify(a, Verdict(a)) /\ ~Settles(state[a], Verdict(a))))]
    /\ fresh' = (fresh /\ ~AnotherAt(j, a))
    /\ UNCHANGED <<result, alerts, options, muted, state, firedAge, told, lastFire>>

EvaluateRaises(j, a) ==
    /\ checkPc[j] = "next"
    /\ a \in todo[j]
    /\ a \in alerts => Verdict(a) = "raises"
    /\ CheckRaises(j)

\* State and time, with the AlertFire row, in one commit.
RecordFire(j, ages) ==
    LET a == checking[j] IN
    /\ a \in alerts
    /\ CheckGoto(j, "write", "notify")
    /\ state' = [state EXCEPT ![a] = decided[j].new]
    /\ firedAge' = ages
    /\ lastFire' = [lastFire EXCEPT ![a] = [state |-> decided[j].new, age |-> 0]]
    /\ UNCHANGED <<result, alerts, options, muted, todo, checking, decided, told,
                   disturbed, fresh>>

\* Mutant: last_triggered_at is when the state changed, not when it was told.
WriteTimeOfChange(j) ==
    RecordFire(j, IF decided[j].new = decided[j].old THEN firedAge
                  ELSE [firedAge EXCEPT ![checking[j]] = 0])

WriteAlert(j) == RecordFire(j, [firedAge EXCEPT ![checking[j]] = 0])

\* Mutant: an alert that recovers is taken to settle, whatever it was before.
AnyOkSettles(j) == decided[j].new = "ok"

Settling(j) == Settles(decided[j].old, decided[j].new)

\* Whether it settles is what was decided; whether it is muted is read again after
\* the commit, so it may be told or not against what its AlertFire row says.
NotifySubscriptions(j) ==
    LET a == checking[j] IN
    /\ a \in alerts
    /\ CheckGoto(j, "notify", "next")
    /\ told' = IF Settling(j) \/ muted[a] THEN told
               ELSE [told EXCEPT ![a] = decided[j].new]
    /\ disturbed' = [disturbed EXCEPT ![a] = @ \/ (muted[a] /\ ~Settling(j))]
    /\ checking' = [checking EXCEPT ![j] = NobodyYet]
    /\ decided' = [decided EXCEPT ![j] = [old |-> "unknown", new |-> "unknown"]]
    /\ UNCHANGED <<result, alerts, options, muted, state, firedAge, todo, lastFire, fresh>>

\* The row a check is at was deleted under it.
AlertGone(j) ==
    /\ checkPc[j] \in {"write", "notify"}
    /\ checking[j] \notin alerts
    /\ CheckRaises(j)

EndCheck(j) ==
    /\ CheckGoto(j, "next", "idle")
    /\ todo[j] = {}
    /\ CheckForgets(j)
    /\ UNCHANGED <<result, alerts, options, muted, state, firedAge, told, lastFire, disturbed, fresh>>

\* The platform kills the work horse.
KillCheck(j) ==
    /\ checkPc[j] # "idle"
    /\ CheckRaises(j)

CheckStep(j) ==
    \/ StartCheck(j)
    \/ \E a \in AlertIds : EvaluateAlert(j, a) \/ EvaluateRaises(j, a)
    \/ WriteAlert(j)
    \/ NotifySubscriptions(j)
    \/ AlertGone(j)
    \/ EndCheck(j)

-----------------------------------------------------------------------------
(* The handlers *)

\* The options that the form sends replace the old ones, "muted" with them.
EditAlert(a, o) ==
    /\ a \in alerts
    /\ options' = [options EXCEPT ![a] = o]
    /\ \E on \in BOOLEAN : muted' = [muted EXCEPT ![a] = on]
    /\ fresh' = FALSE
    /\ UNCHANGED <<result, alerts, state, firedAge, checkVars, told, lastFire, disturbed>>

SetMuted(a, on) ==
    /\ a \in alerts
    /\ muted' = [muted EXCEPT ![a] = on]
    /\ UNCHANGED <<result, alerts, options, state, firedAge, checkVars, told, lastFire, disturbed, fresh>>

\* Its rows of subscriptions and history go with it.
DeleteAlert(a) ==
    /\ a \in alerts
    /\ alerts' = alerts \ {a}
    /\ muted' = [muted EXCEPT ![a] = FALSE]
    /\ state' = [state EXCEPT ![a] = "unknown"]
    /\ firedAge' = [firedAge EXCEPT ![a] = NotFired]
    /\ told' = [told EXCEPT ![a] = NobodyYet]
    /\ lastFire' = [lastFire EXCEPT ![a] = [state |-> NobodyYet, age |-> NotFired]]
    /\ disturbed' = [disturbed EXCEPT ![a] = FALSE]
    /\ UNCHANGED <<result, options, checkVars, fresh>>

\* A new alert is not checked before the next result.  An id is not used again
\* while a check still holds the old one.
CreateAlert(a, o) ==
    /\ a \notin alerts
    /\ \A j \in CheckJobs : a # checking[j] /\ a \notin todo[j]
    /\ alerts' = alerts \cup {a}
    /\ options' = [options EXCEPT ![a] = o]
    /\ \E on \in BOOLEAN : muted' = [muted EXCEPT ![a] = on]
    /\ fresh' = FALSE
    /\ UNCHANGED <<result, state, firedAge, checkVars, told, lastFire, disturbed>>

\* The Evaluate button: it leaves no row, and tells the subscribers either way.
EvaluateNow(a) ==
    /\ a \in alerts
    /\ Verdict(a) # "raises"
    /\ IF ShouldNotify(a, Verdict(a))
       THEN /\ state' = [state EXCEPT ![a] = Verdict(a)]
            /\ firedAge' = [firedAge EXCEPT ![a] = 0]
            /\ lastFire' = [lastFire EXCEPT ![a] = [state |-> Verdict(a), age |-> 0]]
       ELSE UNCHANGED <<state, firedAge, lastFire>>
    /\ told' = [told EXCEPT ![a] = Verdict(a)]
    /\ disturbed' = [disturbed EXCEPT ![a] = \E j \in CheckJobs : checking[j] = a]
    /\ fresh' = (fresh /\ \A j \in CheckJobs : checking[j] # a)
    /\ UNCHANGED <<result, alerts, options, muted, checkVars>>

AlertsTick ==
    /\ firedAge' = [a \in AlertIds |-> Older(firedAge[a])]
    /\ lastFire' = [a \in AlertIds |-> [lastFire[a] EXCEPT !.age = Older(@)]]
    /\ UNCHANGED <<result, alerts, options, muted, state, checkVars, told, disturbed, fresh>>

AlertsNext ==
    \/ \E r \in Results : StoreResult(r)
    \/ \E j \in CheckJobs : CheckStep(j) \/ KillCheck(j)
    \/ \E a \in AlertIds : EvaluateNow(a) \/ DeleteAlert(a)
    \/ \E a \in AlertIds, o \in Options : EditAlert(a, o) \/ CreateAlert(a, o)
    \/ \E a \in AlertIds, on \in BOOLEAN : SetMuted(a, on)
    \/ AlertsTick

AlertsSpec == AlertsInit /\ [][AlertsNext]_alertsVars

-----------------------------------------------------------------------------

\* Types.
AlertsTypeOK ==
    /\ result \in Results \cup {<<>>}
    /\ alerts \subseteq AlertIds
    /\ options \in [AlertIds -> Options]
    /\ muted \in [AlertIds -> BOOLEAN]
    /\ state \in [AlertIds -> States]
    /\ firedAge \in [AlertIds -> FiredAges]
    /\ checkPc \in [CheckJobs -> {"idle", "queued", "next", "write", "notify"}]
    /\ todo \in [CheckJobs -> SUBSET AlertIds]
    /\ checking \in [CheckJobs -> AlertIds \cup {NobodyYet}]
    /\ decided \in [CheckJobs -> [old : States, new : States]]
    /\ told \in [AlertIds -> States \cup {NobodyYet}]
    /\ lastFire \in [AlertIds -> [state : States \cup {NobodyYet}, age : FiredAges]]
    /\ disturbed \in [AlertIds -> BOOLEAN]
    /\ fresh \in BOOLEAN

\* An alert fires again in the state it was last written with only when the rearm
\* has passed since, unless two checks were at it or a message was withheld
\* (should_notify, with the time that check_alerts_for_query wrote).
FiresAreSpaced ==
    [][\A j \in CheckJobs, a \in AlertIds :
          checking[j] = a /\ checkPc[j] = "write" /\ checkPc'[j] = "notify"
            => \/ lastFire[a].state # lastFire'[a].state
               \/ lastFire[a].age > Rearm
               \/ disturbed[a]]_alertsVars

\* Once no check is at an alert, its subscribers were last told the state it is in,
\* or it has only settled from unknown to ok since (which nobody is told), unless a
\* message was withheld by muting, lost with its job, or overtaken by another check.
SubscribersKnow ==
    \A a \in alerts :
        (~disturbed[a] /\ \A j \in CheckJobs : checking[j] # a)
          => \/ told[a] = state[a]
             \/ state[a] \in {"unknown", "ok"} /\ told[a] \in {"unknown", NobodyYet}

Agrees == \A a \in alerts : state[a] = Verdict(a)

\* A result whose check was queued is followed: in the end every alert's state is
\* what the latest result means to it, unless an alert was edited or created, a
\* check died, raised or overlapped another, or a run was killed before it
\* queued its check.
AlertsFollow == fresh ~> (Agrees \/ ~fresh)
=============================================================================
