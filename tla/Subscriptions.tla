--------------------------- MODULE Subscriptions ---------------------------
(***************************************************************************)
(* One dashboard subscription: the job that every minute queues a send for *)
(* what is due, the sends themselves, and the handlers that edit, pause,   *)
(* delete or unsubscribe meanwhile.  The job id does not keep a second     *)
(* copy of a send from being queued, so there may be several.  Times are   *)
(* ages in minutes.  A kill, or an exception that nobody catches, ends a   *)
(* send where it is.                                                       *)
(***************************************************************************)
EXTENDS Integers, FiniteSets

CONSTANTS
    Sends,      \* copies of the job at once (bound)
    People,     \* who may be on the subscription
    Slot,       \* minutes from one slot of its schedule to the next
    LongestWait \* MAX_BACKOFF_MINUTES

ASSUME SubscriptionsAssumption == Slot \in Nat \ {0} /\ LongestWait \in Nat \ {0}

VARIABLES
    row,        \* active, paused, or gone
    recipients, \* recipient_ids
    sentAge,    \* the age of last_sent_at
    attemptAge, \* the age of last_attempt_at
    problems,   \* subscription.failures
    sendPc,     \* where a send is
    sendTo,     \* its recipients, still to be mailed
    refused,    \* whether every mail of it so far was refused
    seen,       \* subscription.failures, as it loaded it
    mailedAge,  \* history: how long ago a person was mailed
    excused     \* history: copies met, or one ended early, since the last full send

sendVars         == <<sendPc, sendTo, refused, seen>>
subscriptionVars == <<row, recipients, sentAge, attemptAge, problems, sendVars,
                      mailedAge, excused>>

\* An age stops growing when it is past the slot, or the longest wait.
Elder(age, cap) == IF age < cap THEN age + 1 ELSE age

\* failures are not told apart from here on: the wait is the longest by then.
MaxProblems == LongestWait

SubscriptionsInit ==
    /\ row \in {"active", "paused"}
    /\ recipients \in (SUBSET People) \ {{}}
    /\ sentAge = Slot + 1
    /\ attemptAge = LongestWait
    /\ problems = 0
    /\ sendPc = [j \in Sends |-> "idle"]
    /\ sendTo = [j \in Sends |-> {}]
    /\ refused = [j \in Sends |-> TRUE]
    /\ seen = [j \in Sends |-> 0]
    /\ mailedAge = [p \in People |-> Slot + 1]
    /\ excused = FALSE

-----------------------------------------------------------------------------

\* Mutant: the wait has no ceiling.
EndlessWait == 2 ^ problems + LongestWait

Wait == IF 2 ^ problems < LongestWait THEN 2 ^ problems ELSE LongestWait

\* _is_due
SendIsDue ==
    /\ problems > 0 => attemptAge >= Wait
    /\ sentAge > Slot

SendGoto(j, from, to) ==
    /\ sendPc[j] = from
    /\ sendPc' = [sendPc EXCEPT ![j] = to]

SendForgets(j) ==
    /\ sendTo' = [sendTo EXCEPT ![j] = {}]
    /\ refused' = [refused EXCEPT ![j] = TRUE]
    /\ seen' = [seen EXCEPT ![j] = 0]

\* send_due_subscriptions
QueueSend(j) ==
    /\ row = "active" /\ SendIsDue
    /\ SendGoto(j, "idle", "queued")
    /\ UNCHANGED <<row, recipients, sentAge, attemptAge, problems, sendTo, refused,
                   seen, mailedAge, excused>>

UnderWay(j) == sendPc[j] \in {"drawing", "mailing"}

\* Mutant: a send trusts the job that queued it.
Trusting == row = "active"

StillDue == row = "active" /\ SendIsDue

\* What made it due is asked again; the attempt is committed.
StartSend(j) ==
    /\ StillDue
    /\ SendGoto(j, "queued", "drawing")
    /\ attemptAge' = 0
    /\ excused' = (excused \/ \E i \in Sends : UnderWay(i))
    /\ seen' = [seen EXCEPT ![j] = problems]
    /\ UNCHANGED <<row, recipients, sentAge, problems, sendTo, refused, mailedAge>>

SkipSend(j) ==
    /\ ~StillDue
    /\ SendGoto(j, "queued", "idle")
    /\ UNCHANGED <<row, recipients, sentAge, attemptAge, problems, sendTo, refused,
                   seen, mailedAge, excused>>

\* Who may see the dashboard is worked out before the picture is drawn; some of the
\* recipients may be left out.
DrawPicture(j) ==
    /\ SendGoto(j, "drawing", "mailing")
    /\ \E to \in (SUBSET recipients) \ {{}} : sendTo' = [sendTo EXCEPT ![j] = to]
    /\ UNCHANGED <<row, recipients, sentAge, attemptAge, problems, refused, seen, mailedAge,
                   excused>>

\* _record_problem: the dashboard or its owner is gone, it is too big, nobody may
\* see it, or the renderer has no picture; or the mail server refused every mail.
RecordProblem(j) ==
    /\ row # "gone"
    /\ \/ sendPc[j] = "drawing"
       \/ sendPc[j] = "mailing" /\ sendTo[j] = {} /\ refused[j]
    /\ SendGoto(j, sendPc[j], "idle")
    /\ problems' = IF seen[j] < MaxProblems THEN seen[j] + 1 ELSE seen[j]
    /\ SendForgets(j)
    /\ UNCHANGED <<row, recipients, sentAge, attemptAge, mailedAge, excused>>

\* One mail, sent or refused.
MailRecipient(j, p) ==
    /\ sendPc[j] = "mailing"
    /\ p \in sendTo[j]
    /\ sendTo' = [sendTo EXCEPT ![j] = @ \ {p}]
    /\ \/ /\ refused' = [refused EXCEPT ![j] = FALSE]
          /\ mailedAge' = [mailedAge EXCEPT ![p] = 0]
       \/ UNCHANGED <<refused, mailedAge>>
    /\ UNCHANGED <<row, recipients, sentAge, attemptAge, problems, sendPc, seen, excused>>

\* last_sent_at is the end of the send; the failures it knew of are forgiven.
EndSend(j) ==
    /\ row # "gone"
    /\ SendGoto(j, "mailing", "idle")
    /\ sendTo[j] = {} /\ ~refused[j]
    /\ sentAge' = 0
    /\ problems' = IF seen[j] = 0 THEN problems ELSE 0
    /\ SendForgets(j)
    /\ excused' = \E i \in Sends \ {j} : UnderWay(i)
    /\ UNCHANGED <<row, recipients, attemptAge, mailedAge>>

\* Killed, out of time, or raising: what was mailed is not on record.
BreakSend(j) ==
    /\ sendPc[j] # "idle"
    /\ SendGoto(j, sendPc[j], "idle")
    /\ SendForgets(j)
    /\ excused' = (excused \/ UnderWay(j))
    /\ UNCHANGED <<row, recipients, sentAge, attemptAge, problems, mailedAge>>

-----------------------------------------------------------------------------

\* The owner edits the list.
SetRecipients(people) ==
    /\ row # "gone"
    /\ recipients' = people
    /\ UNCHANGED <<row, sentAge, attemptAge, problems, sendVars, mailedAge, excused>>

\* Somebody follows the link that takes them off it; the last one pauses it.
Unsubscribe(p) ==
    /\ row # "gone" /\ p \in recipients
    /\ recipients' = recipients \ {p}
    /\ row' = IF recipients' = {} THEN "paused" ELSE row
    /\ UNCHANGED <<sentAge, attemptAge, problems, sendVars, mailedAge, excused>>

\* Pausing it, deleting it, and resuming it, which keeps its failures.
SetRow(to) ==
    /\ row # "gone"
    /\ row' = to
    /\ UNCHANGED <<recipients, sentAge, attemptAge, problems, sendVars, mailedAge, excused>>

SendMinute ==
    /\ sentAge' = Elder(sentAge, Slot + 1)
    /\ attemptAge' = Elder(attemptAge, LongestWait)
    /\ mailedAge' = [p \in People |-> Elder(mailedAge[p], Slot + 1)]
    /\ UNCHANGED <<row, recipients, problems, sendVars, excused>>

SendStep(j) ==
    \/ StartSend(j) \/ SkipSend(j)
    \/ DrawPicture(j) \/ RecordProblem(j)
    \/ \E p \in People : MailRecipient(j, p)
    \/ EndSend(j)

SubscriptionsNext ==
    \/ \E j \in Sends : QueueSend(j) \/ SendStep(j) \/ BreakSend(j)
    \/ \E people \in (SUBSET People) \ {{}} : SetRecipients(people)
    \/ \E p \in People : Unsubscribe(p)
    \/ \E to \in {"active", "paused", "gone"} : SetRow(to)
    \/ SendMinute

SubscriptionsSpec ==
    SubscriptionsInit /\ [][SubscriptionsNext]_subscriptionVars

-----------------------------------------------------------------------------

\* Types.
SubscriptionsTypeOK ==
    /\ row \in {"active", "paused", "gone"}
    /\ recipients \subseteq People
    /\ sentAge \in 0..(Slot + 1)
    /\ attemptAge \in 0..LongestWait
    /\ problems \in 0..MaxProblems
    /\ sendPc \in [Sends -> {"idle", "queued", "drawing", "mailing"}]
    /\ sendTo \in [Sends -> SUBSET People]
    /\ refused \in [Sends -> BOOLEAN]
    /\ seen \in [Sends -> 0..MaxProblems]
    /\ mailedAge \in [People -> 0..(Slot + 1)]
    /\ excused \in BOOLEAN

\* Nobody is mailed twice for one slot, however many copies of the send were queued
\* (tasks/subscriptions.py:109 asks again), unless two of them ran at once or one
\* was broken off between its first mail and the commit of last_sent_at.
OncePerSlot ==
    [][\A j \in Sends : \A p \in sendTo[j] \ sendTo'[j] :
          sendPc'[j] = "mailing" => mailedAge[p] > Slot \/ excused]_subscriptionVars

\* However often it fails, a subscription that stays active is tried again and again
\* (its wait has a ceiling, and a pause does not count against it).
KeepsTrying ==
    row = "active" ~> (row # "active" \/ \E j \in Sends : sendPc[j] = "drawing")
=============================================================================
