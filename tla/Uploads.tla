------------------------------ MODULE Uploads ------------------------------
(***************************************************************************)
(* The files that people upload to a data source: the rows, what is on the *)
(* disk, the clock on each, and the hourly manage_uploads job that unloads *)
(* the idle ones, warns of those that go tomorrow and deletes those that   *)
(* were warned about and not kept.  The job reads a list, does something   *)
(* slow with it and then writes; queries and buttons come in between.      *)
(* Times are whole days, and every file has a size of one.                 *)
(***************************************************************************)
EXTENDS Integers, FiniteSets

CONSTANTS
    Files,
    Addressed,  \* the files whose uploader has an address
    Lifetime,   \* UPLOAD_LIFETIME_DAYS
    IdleDays,   \* UPLOAD_UNLOAD_AFTER_DAYS
    Quota,      \* how many files the organisation may hold
    KillsLeft   \* times that the job may still be killed, at most (bound)

ASSUME UploadsAssumption ==
    /\ Addressed \subseteq Files
    /\ Lifetime \in Nat \ {0} /\ IdleDays \in Nat \ {0} /\ Quota \in Nat
    /\ KillsLeft \in Nat

VARIABLES
    uploaded,   \* the rows
    onDisk,     \* the files
    posting,    \* uploads whose request has saved the file and not committed
    daysLeft,   \* to expires_at; Kept when it is null
    warnedAge,  \* of expiry_warning_sent_at; Unwarned when it is null
    idleAge,    \* days since last_queried_at, or since the upload
    unloaded,   \* rows with an unloaded_at
    managePc,   \* where manage_uploads is
    hand,       \* the rows its step has selected
    kills,      \* how often it has been killed
    done,       \* those of them whose uploader was mailed, or whose file is off the disk
    announced,  \* history: days since the mail about the clock a file is on now
    pressed,    \* history: files whose keep button was pressed with the file in hand
    overtaken   \* history: files that were queried with the file in hand to be unloaded

manageVars == <<managePc, hand, done, kills>>
uploadVars == <<uploaded, onDisk, posting, daysLeft, warnedAge, idleAge, unloaded,
                manageVars, announced, pressed, overtaken>>

ManagePcs == {"idle", "unload", "warn", "mail", "mark", "expire", "delete", "drop"}

Kept     == -1
Unwarned == -1

\* An age in days that stops at the last one that is told apart.
NextDay(age, cap) == IF age = Unwarned \/ age = cap THEN age ELSE age + 1

UploadsInit ==
    /\ uploaded = {} /\ onDisk = {} /\ posting = {}
    /\ daysLeft = [f \in Files |-> Kept]
    /\ warnedAge = [f \in Files |-> Unwarned]
    /\ idleAge = [f \in Files |-> 0]
    /\ unloaded = {}
    /\ managePc = "idle"
    /\ hand = {} /\ done = {} /\ kills = 0
    /\ announced = [f \in Files |-> Unwarned]
    /\ pressed = {} /\ overtaken = {}

-----------------------------------------------------------------------------
(* The handlers *)

\* why_this_would_not_fit, asked with what bytes_held sums.
WouldNotFit(held, size) == held + size > Quota

\* A declared length is checked first, if there is one; the row is flushed and the
\* file saved before anything is committed.
StartPost(f) ==
    /\ f \notin uploaded \cup onDisk \cup posting \cup hand \cup done
    /\ posting' = posting \cup {f}
    /\ onDisk' = onDisk \cup {f}
    /\ UNCHANGED <<uploaded, daysLeft, warnedAge, idleAge, unloaded, manageVars,
                   announced, pressed, overtaken>>

\* The request's own row is flushed when the sum is asked for, so it is in it.
HeldWith(f) == Cardinality(uploaded \cup {f})

CommitPost(f) ==
    /\ f \in posting
    /\ ~WouldNotFit(HeldWith(f), 1)
    /\ posting' = posting \ {f}
    /\ uploaded' = uploaded \cup {f}
    /\ daysLeft' = [daysLeft EXCEPT ![f] = Lifetime]
    /\ idleAge' = [idleAge EXCEPT ![f] = 0]
    /\ UNCHANGED <<onDisk, warnedAge, unloaded, manageVars, announced, pressed,
                   overtaken>>

RefusePost(f) ==
    /\ f \in posting
    /\ WouldNotFit(HeldWith(f), 1)
    /\ posting' = posting \ {f}
    /\ onDisk' = onDisk \ {f}
    /\ UNCHANGED <<uploaded, daysLeft, warnedAge, idleAge, unloaded, manageVars,
                   announced, pressed, overtaken>>

\* The server is killed in the middle: the file stays on the disk without a row.
KillPost(f) ==
    /\ f \in posting
    /\ posting' = posting \ {f}
    /\ UNCHANGED <<uploaded, onDisk, daysLeft, warnedAge, idleAge, unloaded, manageVars,
                   announced, pressed, overtaken>>

\* Either button resets the warning, and with it what was announced.
PressButton(f, days) ==
    /\ f \in uploaded
    /\ daysLeft' = [daysLeft EXCEPT ![f] = days]
    /\ warnedAge' = [warnedAge EXCEPT ![f] = Unwarned]
    /\ announced' = [announced EXCEPT ![f] = Unwarned]
    /\ pressed' = IF f \in hand THEN pressed \cup {f} ELSE pressed \ {f}
    /\ UNCHANGED <<uploaded, onDisk, posting, idleAge, unloaded, manageVars, overtaken>>

KeepUpload(f)   == PressButton(f, Kept)
UnkeepUpload(f) == PressButton(f, Lifetime)

\* What is left of a row that is gone.
ForgetRow(f) ==
    /\ uploaded' = uploaded \ {f}
    /\ daysLeft' = [daysLeft EXCEPT ![f] = Kept]
    /\ warnedAge' = [warnedAge EXCEPT ![f] = Unwarned]
    /\ idleAge' = [idleAge EXCEPT ![f] = 0]
    /\ unloaded' = unloaded \ {f}
    /\ announced' = [announced EXCEPT ![f] = Unwarned]
    /\ pressed' = pressed \ {f}
    /\ overtaken' = overtaken \ {f}

\* An administrator deletes it: the file, then the row, unless killed in between.
DeleteUpload(f) ==
    /\ f \in uploaded
    /\ onDisk' = onDisk \ {f}
    /\ \/ ForgetRow(f)
       \/ UNCHANGED <<uploaded, daysLeft, warnedAge, idleAge, unloaded, announced,
                      pressed, overtaken>>
    /\ UNCHANGED <<posting, manageVars>>

\* Mutant: a query dates the file and leaves it unloaded.
NotedOnly(f) == unloaded

NotedLoaded(f) == unloaded \ {f}

\* A query names it (note_queried); one within the hour of another writes nothing.
NoteQueried(f) ==
    /\ f \in uploaded
    /\ idleAge' = [idleAge EXCEPT ![f] = 0]
    /\ unloaded' = NotedLoaded(f)
    /\ overtaken' = IF managePc = "unload" /\ f \in hand THEN overtaken \cup {f} ELSE overtaken \ {f}
    /\ UNCHANGED <<uploaded, onDisk, posting, daysLeft, warnedAge, manageVars,
                   announced, pressed>>

-----------------------------------------------------------------------------
(* manage_uploads *)

ManageGoto(from, to) == managePc = from /\ managePc' = to

\* One step's list; an empty one goes straight on, as an empty loop does.
Select(from, to, files) ==
    /\ ManageGoto(from, to)
    /\ hand' = files
    /\ done' = {}
    /\ UNCHANGED <<kills, uploaded, onDisk, posting, daysLeft, warnedAge, idleAge, unloaded,
                   announced, pressed, overtaken>>

SelectIdle ==
    Select("idle", "unload", {f \in uploaded \ unloaded : idleAge[f] > IdleDays})

UnloadIdle ==
    /\ hand \subseteq uploaded
    /\ ManageGoto("unload", "warn")
    /\ unloaded' = unloaded \cup hand
    /\ hand' = {}
    /\ UNCHANGED <<kills, uploaded, onDisk, posting, daysLeft, warnedAge, idleAge, done,
                   announced, pressed, overtaken>>

SelectDue ==
    Select("warn", "mail", {f \in uploaded : daysLeft[f] \in {0, 1} /\ warnedAge[f] = Unwarned})

\* Mutant: a mail that the server refuses counts as sent.
SentAll(went) == hand \cap Addressed

SentOnly(went) == went

\* One mail for each uploader; a refused one leaves its files unmarked.
MailUploaders ==
    /\ ManageGoto("mail", "mark")
    /\ \E went \in SUBSET (hand \cap Addressed) :
        /\ done' = SentOnly(went)
        /\ announced' = [f \in Files |->
               IF f \in went /\ f \in uploaded /\ daysLeft[f] # Kept THEN 0 ELSE announced[f]]
    /\ UNCHANGED <<kills, uploaded, onDisk, posting, daysLeft, warnedAge, idleAge, unloaded,
                   hand, pressed, overtaken>>

\* Files with nobody to tell are marked too, and never deleted.
MarkWarned ==
    /\ hand \subseteq uploaded
    /\ ManageGoto("mark", "expire")
    /\ warnedAge' = [f \in Files |->
           IF f \in done \cup (hand \ Addressed) THEN 0 ELSE warnedAge[f]]
    /\ hand' = {} /\ done' = {}
    /\ UNCHANGED <<kills, uploaded, onDisk, posting, daysLeft, idleAge, unloaded, announced,
                   pressed, overtaken>>

WarnedADayAgo(f) == warnedAge[f] >= 1

\* Mutant: a row that lost its file is not deleted again.
OnDiskOnly(f) == f \in Addressed \cap onDisk

Deletable(f) == f \in Addressed

SelectExpired ==
    Select("expire", "delete",
           {f \in uploaded : daysLeft[f] = 0 /\ WarnedADayAgo(f) /\ Deletable(f)})

\* UploadedFile.delete, the file first; nothing is asked again.
RemoveFile(f) ==
    /\ f \in hand
    /\ ManageGoto("delete", "drop")
    /\ onDisk' = onDisk \ {f}
    /\ hand' = hand \ {f}
    /\ done' = {f}
    /\ UNCHANGED <<kills, uploaded, posting, daysLeft, warnedAge, idleAge, unloaded, announced,
                   pressed, overtaken>>

\* Then the row.
DropRow(f) ==
    /\ f \in done
    /\ ManageGoto("drop", "delete")
    /\ done' = {}
    /\ ForgetRow(f)
    /\ UNCHANGED <<kills, onDisk, posting, hand>>

EndManage ==
    /\ hand = {}
    /\ ManageGoto("delete", "idle")
    /\ UNCHANGED <<kills, uploaded, onDisk, posting, daysLeft, warnedAge, idleAge, unloaded,
                   hand, done, announced, pressed, overtaken>>

LeaveManage ==
    /\ managePc' = "idle"
    /\ hand' = {} /\ done' = {}
    /\ UNCHANGED <<uploaded, onDisk, posting, daysLeft, warnedAge, idleAge, unloaded,
                   announced, pressed, overtaken>>

\* A row of its list was deleted under it, and the commit raises.
RaiseManage == ~(hand \subseteq uploaded) /\ LeaveManage /\ UNCHANGED kills

KillManage ==
    /\ managePc # "idle" /\ kills < KillsLeft
    /\ kills' = kills + 1
    /\ LeaveManage

UploadsDay ==
    /\ daysLeft' = [f \in Files |-> IF daysLeft[f] > 0 THEN daysLeft[f] - 1 ELSE daysLeft[f]]
    /\ warnedAge' = [f \in Files |-> NextDay(warnedAge[f], 1)]
    /\ announced' = [f \in Files |-> NextDay(announced[f], 1)]
    /\ idleAge' = [f \in Files |-> IF f \in uploaded THEN NextDay(idleAge[f], IdleDays + 1) ELSE 0]
    /\ UNCHANGED <<uploaded, onDisk, posting, unloaded, manageVars, pressed, overtaken>>

ManageStep ==
    \/ SelectIdle \/ UnloadIdle
    \/ SelectDue \/ MailUploaders \/ MarkWarned
    \/ SelectExpired \/ (\E f \in Files : RemoveFile(f) \/ DropRow(f)) \/ EndManage

UploadsNext ==
    \/ \E f \in Files :
        \/ StartPost(f) \/ CommitPost(f) \/ RefusePost(f) \/ KillPost(f)
        \/ KeepUpload(f) \/ UnkeepUpload(f) \/ DeleteUpload(f) \/ NoteQueried(f)
    \/ ManageStep
    \/ RaiseManage \/ KillManage
    \/ UploadsDay

UploadsSpec == UploadsInit /\ [][UploadsNext]_uploadVars

-----------------------------------------------------------------------------

\* Types.
UploadsTypeOK ==
    /\ uploaded \subseteq Files /\ onDisk \subseteq Files /\ posting \subseteq Files
    /\ daysLeft \in [Files -> Kept..Lifetime]
    /\ warnedAge \in [Files -> Unwarned..1]
    /\ idleAge \in [Files -> 0..(IdleDays + 1)]
    /\ unloaded \subseteq Files
    /\ managePc \in ManagePcs
    /\ hand \subseteq Files /\ done \subseteq Files /\ kills \in 0..KillsLeft
    /\ announced \in [Files -> Unwarned..1]
    /\ pressed \subseteq Files /\ overtaken \subseteq Files

\* The clock deletes a file only when it has run out and the uploader was mailed about
\* it, a full day before, since it was last set: unless a keep button was pressed while
\* the job had the file in hand, which it does not look at again
\* (tasks/uploads.py:205, and 148 which marks what was selected before the mails).
DeletedWasAnnounced ==
    [][\A f \in hand \cap uploaded :
          managePc = "delete" /\ managePc' = "drop" /\ f \notin hand'
            => (daysLeft[f] = 0 /\ announced[f] = 1) \/ f \in pressed]_uploadVars

\* A file is unloaded only while nothing has queried it for days, unless a query came
\* between the job's look and its commit.
UnloadedIsIdle == \A f \in unloaded : idleAge[f] > IdleDays \/ f \in overtaken

\* A file whose clock has run out goes, its row too, whatever is killed in between,
\* unless somebody sets the clock again.
ExpiredGoes ==
    \A f \in Addressed : (f \in uploaded /\ daysLeft[f] = 0) ~> (f \notin uploaded \/ daysLeft[f] # 0)

=============================================================================
