--------------------------- MODULE FailureReport ---------------------------
(***************************************************************************)
(* The failures of one owner's scheduled queries: how each is counted and  *)
(* put on the owner's list in Redis, and how the hourly report mails the   *)
(* list and deletes it.  The list is a count of entries per query; reading *)
(* it, handing the mail over and deleting it are three steps, and runs go  *)
(* on failing between them.  The mail itself is a job of its own.          *)
(***************************************************************************)
EXTENDS Integers

CONSTANTS
    Failing,    \* the owner's scheduled queries
    MaxReports, \* MAX_FAILURE_REPORTS_PER_QUERY
    ListCap     \* entries of one query on the list at once (bound)

ASSUME FailureReportAssumption == MaxReports \in Nat \ {0} /\ ListCap \in Nat \ {0}

VARIABLES
    wanted,     \* the owner is not disabled and the organisation sends reports
    counts,     \* schedule_failures
    listed,     \* entries of a query under aggregated_failures:<owner>
    reportPc,   \* where send_failure_report is
    errors,     \* its errors: what it read
    owed        \* history: entries not mailed yet and not pushed behind a report's back

reportVars == <<wanted, counts, listed, reportPc, errors, owed>>

NoEntries == [q \in Failing |-> 0]

FailureReportInit ==
    /\ wanted = TRUE
    /\ counts = NoEntries
    /\ listed = NoEntries
    /\ reportPc = "idle"
    /\ errors = NoEntries
    /\ owed = NoEntries

-----------------------------------------------------------------------------

\* schedule_failures, which is not told apart once reports have stopped.
CountUpTo(n) == IF n < MaxReports THEN n + 1 ELSE n

\* notify_of_failure, after the count is written.
Reported(q) == wanted /\ counts'[q] < MaxReports

TrackFailure(q) ==
    /\ listed[q] < ListCap
    /\ counts' = [counts EXCEPT ![q] = CountUpTo(@)]
    /\ listed' = IF Reported(q) THEN [listed EXCEPT ![q] = @ + 1] ELSE listed
    /\ owed' = IF Reported(q) /\ reportPc = "idle" THEN [owed EXCEPT ![q] = @ + 1] ELSE owed
    /\ UNCHANGED <<wanted, reportPc, errors>>

\* A run that stores its result clears the count.
ClearFailures(q) ==
    /\ counts' = [counts EXCEPT ![q] = 0]
    /\ UNCHANGED <<wanted, listed, reportPc, errors, owed>>

ReportGoto(from, to) == reportPc = from /\ reportPc' = to

\* Mutant: the list is deleted as it is read.
ReadAndForget ==
    /\ ReportGoto("idle", "mail")
    /\ errors' = listed
    /\ listed' = NoEntries
    /\ UNCHANGED <<wanted, counts, owed>>

\* An owner without an entry has no key, and is not visited.
ReadFailures ==
    /\ ReportGoto("idle", "mail")
    /\ listed # NoEntries
    /\ errors' = listed
    /\ UNCHANGED <<wanted, counts, listed, owed>>

\* Mutant: a single entry is not worth a mail.
OnlySeveral == \E q \in Failing : errors[q] > 1

WorthMailing == errors # NoEntries

\* One mail for all that was read.
MailFailures ==
    /\ ReportGoto("mail", "delete")
    /\ owed' = IF WorthMailing THEN NoEntries ELSE owed
    /\ UNCHANGED <<wanted, counts, listed, errors>>

ForgetFailures ==
    /\ ReportGoto("delete", "idle")
    /\ listed' = NoEntries
    /\ errors' = NoEntries
    /\ UNCHANGED <<wanted, counts, owed>>

KillReport ==
    /\ reportPc # "idle"
    /\ reportPc' = "idle"
    /\ errors' = NoEntries
    /\ UNCHANGED <<wanted, counts, listed, owed>>

SwitchReports ==
    /\ wanted' = ~wanted
    /\ UNCHANGED <<counts, listed, reportPc, errors, owed>>

FailureReportNext ==
    \/ \E q \in Failing : TrackFailure(q) \/ ClearFailures(q)
    \/ ReadFailures
    \/ MailFailures
    \/ ForgetFailures
    \/ KillReport
    \/ SwitchReports

FailureReportSpec ==
    FailureReportInit /\ [][FailureReportNext]_reportVars

-----------------------------------------------------------------------------

Entries == [Failing -> 0..ListCap]

\* Types.
FailureReportTypeOK ==
    /\ wanted \in BOOLEAN
    /\ counts \in [Failing -> 0..MaxReports]
    /\ listed \in Entries
    /\ reportPc \in {"idle", "mail", "delete"}
    /\ errors \in Entries
    /\ owed \in Entries

\* A failure that was listed while no report was under way stays on the list until
\* a report has mailed it, whenever that report or the ones after it are killed
\* (tasks/failure_report.py:65 deletes the list last, so what is pushed while a
\* report is under way may go with it).
OwedIsListed == \A q \in Failing : owed[q] <= listed[q]

\* And a report does mail it.
FailuresAreMailed == \A q \in Failing : owed[q] > 0 ~> owed[q] = 0
=============================================================================
