---------------------------- MODULE JobsProofs ----------------------------
(*************************************************************************)
(* The periodic and scheduled jobs, one after another: for any files,    *)
(* streams, schedulers, queries and bounds.                              *)
(*************************************************************************)
EXTENDS Uploads, StreamRollup, PeriodicJobs, ScheduledQueries, FailureReport,
        FiniteSetTheorems, TLAPS

-----------------------------------------------------------------------------
(*************************************************************************)
(* Uploads: the clock deletes no file its uploader was not mailed about, *)
(* and only idle files are unloaded, whatever is pressed, queried,       *)
(* killed or deleted while the job has its lists in hand.                *)
(*************************************************************************)

USE DEF Kept, Unwarned

\* What people do to one file.
PeopleStep(f) ==
    \/ StartPost(f) \/ CommitPost(f) \/ RefusePost(f) \/ KillPost(f)
    \/ KeepUpload(f) \/ UnkeepUpload(f) \/ DeleteUpload(f) \/ NoteQueried(f)

-----------------------------------------------------------------------------
(* Types *)

\* An age stops where it is told to.
LEMMA NextDayType ==
    ASSUME NEW cap \in Nat, NEW age \in -1..cap
    PROVE  /\ NextDay(age, cap) \in -1..cap
           /\ NextDay(age, cap) >= age
           /\ NextDay(age, cap) = -1 <=> age = -1
           /\ NextDay(age, cap) = cap \/ NextDay(age, cap) = age + 1 \/ age = -1
BY DEF NextDay

\* What people do keeps every variable to its values.
LEMMA PeopleKeepType ==
    ASSUME UploadsTypeOK, NEW f \in Files, PeopleStep(f)
    PROVE  UploadsTypeOK'
<1> USE UploadsAssumption DEF UploadsTypeOK, manageVars
<1>1. CASE StartPost(f) \/ RefusePost(f) \/ KillPost(f)
  BY <1>1 DEF StartPost, RefusePost, KillPost
<1>2. CASE CommitPost(f)
  BY <1>2 DEF CommitPost
<1>3. CASE KeepUpload(f) \/ UnkeepUpload(f)
  BY <1>3 DEF KeepUpload, UnkeepUpload, PressButton
<1>4. CASE DeleteUpload(f)
  BY <1>4 DEF DeleteUpload, ForgetRow
<1>5. CASE NoteQueried(f)
  BY <1>5 DEF NoteQueried, NotedLoaded
<1> QED
  BY <1>1, <1>2, <1>3, <1>4, <1>5 DEF PeopleStep

\* So does the job, killed or not,
LEMMA ManageKeepsType ==
    ASSUME UploadsTypeOK, ManageStep \/ RaiseManage \/ KillManage
    PROVE  UploadsTypeOK'
<1> USE UploadsAssumption DEF UploadsTypeOK, ManageGoto, ManagePcs
<1>1. CASE SelectIdle \/ SelectDue \/ SelectExpired
  BY <1>1 DEF SelectIdle, SelectDue, SelectExpired, Select
<1>2. CASE UnloadIdle
  BY <1>2 DEF UnloadIdle
<1>3. CASE MailUploaders
  BY <1>3 DEF MailUploaders, SentOnly
<1>4. CASE MarkWarned
  BY <1>4 DEF MarkWarned
<1>5. ASSUME NEW f \in Files, RemoveFile(f) \/ DropRow(f) PROVE UploadsTypeOK'
  BY <1>5 DEF RemoveFile, DropRow, ForgetRow
<1>6. CASE EndManage \/ RaiseManage \/ KillManage
  BY <1>6 DEF EndManage, RaiseManage, KillManage, LeaveManage
<1> QED
  BY <1>1, <1>2, <1>3, <1>4, <1>5, <1>6 DEF ManageStep

\* and the passing of a day.
LEMMA DayKeepsType ==
    ASSUME UploadsTypeOK, UploadsDay
    PROVE  UploadsTypeOK'
<1> USE UploadsAssumption, NextDayType DEF UploadsTypeOK, UploadsDay, manageVars
<1>1. daysLeft' \in [Files -> Kept..Lifetime]
  OBVIOUS
<1>2. warnedAge' \in [Files -> Unwarned..1] /\ announced' \in [Files -> Unwarned..1]
  OBVIOUS
<1>3. idleAge' \in [Files -> 0..(IdleDays + 1)]
  <2>1. ASSUME NEW f \in Files PROVE NextDay(idleAge[f], IdleDays + 1) \in 0..(IdleDays + 1)
    <3>1. IdleDays + 1 \in Nat /\ idleAge[f] \in 0..(IdleDays + 1)
      OBVIOUS
    <3> QED
      BY ONLY <3>1 DEF NextDay
  <2> QED
    BY <2>1
<1> QED
  BY <1>1, <1>2, <1>3

\* Every variable keeps to its values.
THEOREM UploadsTypeCorrect == UploadsSpec => []UploadsTypeOK
<1>1. UploadsInit => UploadsTypeOK
  BY UploadsAssumption DEF UploadsInit, UploadsTypeOK, ManagePcs
<1>2. UploadsTypeOK /\ [UploadsNext]_uploadVars => UploadsTypeOK'
  <2> SUFFICES ASSUME UploadsTypeOK, [UploadsNext]_uploadVars PROVE UploadsTypeOK'
    OBVIOUS
  <2>1. CASE UNCHANGED uploadVars
    BY <2>1 DEF uploadVars, manageVars, UploadsTypeOK
  <2>2. CASE UploadsNext
    BY <2>2, PeopleKeepType, ManageKeepsType, DayKeepsType DEF UploadsNext, PeopleStep
  <2> QED
    BY <2>1, <2>2
<1> QED
  BY <1>1, <1>2, PTL DEF UploadsSpec

-----------------------------------------------------------------------------
(* Rows *)

\* A file that is being posted is new to the job, an unloaded file has a row, and one
\* without a row was not warned about.
RowsInv ==
    /\ posting \cap (uploaded \cup hand \cup done) = {}
    /\ unloaded \subseteq uploaded
    /\ \A f \in Files \ uploaded : warnedAge[f] = Unwarned
    /\ managePc = "mark" => done \subseteq hand

\* The strengthening is inductive.
LEMMA RowsInvHolds == UploadsSpec => []RowsInv
<1> USE DEF RowsInv, UploadsTypeOK
<1>1. UploadsInit => RowsInv
  BY DEF UploadsInit
<1>2. UploadsTypeOK /\ RowsInv /\ [UploadsNext]_uploadVars => RowsInv'
  <2> SUFFICES ASSUME UploadsTypeOK, RowsInv, [UploadsNext]_uploadVars PROVE RowsInv'
    OBVIOUS
  <2>1. ASSUME NEW f \in Files, PeopleStep(f) PROVE RowsInv'
    <3>1. CASE StartPost(f) \/ CommitPost(f) \/ RefusePost(f) \/ KillPost(f)
      BY <3>1 DEF StartPost, CommitPost, RefusePost, KillPost, manageVars
    <3>2. CASE KeepUpload(f) \/ UnkeepUpload(f)
      BY <3>2 DEF KeepUpload, UnkeepUpload, PressButton, manageVars
    <3>3. CASE DeleteUpload(f)
      BY <3>3 DEF DeleteUpload, ForgetRow, manageVars
    <3>4. CASE NoteQueried(f)
      BY <3>4 DEF NoteQueried, NotedLoaded, manageVars
    <3> QED
      BY <2>1, <3>1, <3>2, <3>3, <3>4 DEF PeopleStep
  <2>2. CASE ManageStep
    <3> USE DEF ManageGoto
    <3>1. CASE SelectIdle \/ SelectDue \/ SelectExpired
      BY <3>1 DEF SelectIdle, SelectDue, SelectExpired, Select
    <3>2. CASE UnloadIdle
      BY <3>2 DEF UnloadIdle
    <3>3. CASE MailUploaders
      BY <3>3 DEF MailUploaders, SentOnly
    <3>4. CASE MarkWarned
      BY <3>4 DEF MarkWarned
    <3>5. ASSUME NEW f \in Files, RemoveFile(f) \/ DropRow(f) PROVE RowsInv'
      BY <3>5 DEF RemoveFile, DropRow, ForgetRow
    <3>6. CASE EndManage
      BY <3>6 DEF EndManage
    <3> QED
      BY <2>2, <3>1, <3>2, <3>3, <3>4, <3>5, <3>6 DEF ManageStep
  <2>3. CASE RaiseManage \/ KillManage
    BY <2>3 DEF RaiseManage, KillManage, LeaveManage
  <2>4. CASE UploadsDay
    BY <2>4, NextDayType DEF UploadsDay, manageVars
  <2>5. CASE UNCHANGED uploadVars
    BY <2>5 DEF uploadVars, manageVars
  <2> QED
    BY <2>1, <2>2, <2>3, <2>4, <2>5 DEF UploadsNext, PeopleStep
<1> QED
  BY <1>1, <1>2, UploadsTypeCorrect, PTL DEF UploadsSpec

-----------------------------------------------------------------------------
(* Unloading *)

\* A file that was not queried for days, or was while the job had it in hand.
IsIdle(f) == idleAge[f] > IdleDays \/ f \in overtaken

\* What is unloaded, and what the job is about to unload, is idle.
UnloadInv ==
    /\ \A f \in unloaded : IsIdle(f)
    /\ managePc = "unload" => \A f \in hand \cap uploaded : IsIdle(f)

\* A file is unloaded only while nothing has queried it for days, unless a query came
\* between the job's look and its commit (tasks/uploads.py).
THEOREM UnloadedFilesAreIdle == UploadsSpec => []UnloadedIsIdle
<1> USE UploadsAssumption DEF UnloadInv, IsIdle, RowsInv, UploadsTypeOK
<1>1. UploadsInit => UnloadInv
  BY DEF UploadsInit
<1>2. UploadsTypeOK /\ RowsInv /\ UnloadInv /\ [UploadsNext]_uploadVars => UnloadInv'
  <2> SUFFICES ASSUME UploadsTypeOK, RowsInv, UnloadInv, [UploadsNext]_uploadVars
               PROVE  UnloadInv'
    OBVIOUS
  <2>1. ASSUME NEW f \in Files, PeopleStep(f) PROVE UnloadInv'
    <3>1. CASE StartPost(f) \/ RefusePost(f) \/ KillPost(f)
      BY <3>1 DEF StartPost, RefusePost, KillPost, manageVars
    <3>2. CASE CommitPost(f)
      BY <3>2 DEF CommitPost, manageVars
    <3>3. CASE KeepUpload(f) \/ UnkeepUpload(f)
      BY <3>3 DEF KeepUpload, UnkeepUpload, PressButton, manageVars
    <3>4. CASE DeleteUpload(f)
      BY <3>4 DEF DeleteUpload, ForgetRow, manageVars
    <3>5. CASE NoteQueried(f)
      BY <3>5 DEF NoteQueried, NotedLoaded, manageVars
    <3> QED
      BY <2>1, <3>1, <3>2, <3>3, <3>4, <3>5 DEF PeopleStep
  <2>2. CASE ManageStep
    <3> USE DEF ManageGoto
    <3>1. CASE SelectIdle \/ SelectDue \/ SelectExpired
      BY <3>1 DEF SelectIdle, SelectDue, SelectExpired, Select
    <3>2. CASE UnloadIdle
      BY <3>2 DEF UnloadIdle
    <3>3. CASE MailUploaders \/ MarkWarned \/ EndManage
      BY <3>3 DEF MailUploaders, MarkWarned, EndManage
    <3>4. ASSUME NEW f \in Files, RemoveFile(f) \/ DropRow(f) PROVE UnloadInv'
      BY <3>4 DEF RemoveFile, DropRow, ForgetRow
    <3> QED
      BY <2>2, <3>1, <3>2, <3>3, <3>4 DEF ManageStep
  <2>3. CASE RaiseManage \/ KillManage
    BY <2>3 DEF RaiseManage, KillManage, LeaveManage
  <2>4. CASE UploadsDay
    BY <2>4 DEF UploadsDay, NextDay, manageVars
  <2>5. CASE UNCHANGED uploadVars
    BY <2>5 DEF uploadVars, manageVars
  <2> QED
    BY <2>1, <2>2, <2>3, <2>4, <2>5 DEF UploadsNext, PeopleStep
<1>3. UnloadInv => UnloadedIsIdle
  BY DEF UnloadedIsIdle
<1> QED
  BY <1>1, <1>2, <1>3, UploadsTypeCorrect, RowsInvHolds, PTL DEF UploadsSpec

-----------------------------------------------------------------------------
(* Deleting *)

\* The mail about a file's clock is as old as its mark says; a file in hand to be
\* mailed about is on a clock and not marked, one that was mailed about is announced, and one in hand
\* to be deleted has run out a day after it was: or its button was pressed meanwhile.
WarnInv ==
    /\ \A f \in uploaded \cap Addressed :
          warnedAge[f] >= 0 => announced[f] >= warnedAge[f] \/ f \in pressed
    /\ managePc = "mail" =>
          \A f \in hand \cap uploaded :
             warnedAge[f] = Unwarned /\ (daysLeft[f] >= 0 \/ f \in pressed)
    /\ managePc = "mark" => \A f \in done \cap uploaded : announced[f] >= 0 \/ f \in pressed
    /\ managePc \in {"delete", "drop"} =>
          \A f \in hand \cap uploaded :
             (daysLeft[f] = 0 /\ announced[f] = 1) \/ f \in pressed

\* What people do disturbs none of it.
LEMMA PeopleKeepWarn ==
    ASSUME UploadsTypeOK, RowsInv, WarnInv, NEW f \in Files, PeopleStep(f)
    PROVE  WarnInv'
<1> USE UploadsAssumption DEF WarnInv, RowsInv, UploadsTypeOK, manageVars
<1>1. CASE StartPost(f) \/ RefusePost(f) \/ KillPost(f)
  BY <1>1 DEF StartPost, RefusePost, KillPost
<1>2. CASE CommitPost(f)
  BY <1>2 DEF CommitPost
<1>3. CASE KeepUpload(f) \/ UnkeepUpload(f)
  BY <1>3 DEF KeepUpload, UnkeepUpload, PressButton
<1>4. CASE DeleteUpload(f)
  BY <1>4 DEF DeleteUpload, ForgetRow
<1>5. CASE NoteQueried(f)
  BY <1>5 DEF NoteQueried
<1> QED
  BY <1>1, <1>2, <1>3, <1>4, <1>5 DEF PeopleStep

\* Nor does the job.
LEMMA ManageKeepsWarn ==
    ASSUME UploadsTypeOK, RowsInv, WarnInv, ManageStep
    PROVE  WarnInv'
<1> USE UploadsAssumption DEF WarnInv, RowsInv, UploadsTypeOK, ManageGoto
<1>1. CASE SelectIdle \/ SelectDue
  BY <1>1 DEF SelectIdle, SelectDue, Select
<1>2. CASE SelectExpired
  BY <1>2 DEF SelectExpired, Select, WarnedADayAgo, Deletable
<1>3. CASE UnloadIdle
  BY <1>3 DEF UnloadIdle
<1>4. CASE MailUploaders
  <2>1. PICK went \in SUBSET (hand \cap Addressed) :
           /\ done' = went
           /\ announced' = [f \in Files |->
                  IF f \in went /\ f \in uploaded /\ daysLeft[f] # Kept THEN 0 ELSE announced[f]]
    BY <1>4 DEF MailUploaders, SentOnly
  <2>2. \A f \in uploaded \cap Addressed :
           warnedAge[f] >= 0 => announced'[f] >= warnedAge[f] \/ f \in pressed
    BY <1>4, <2>1 DEF MailUploaders
  <2> QED
    BY <1>4, <2>1, <2>2 DEF MailUploaders
<1>5. CASE MarkWarned
  BY <1>5 DEF MarkWarned
<1>6. ASSUME NEW f \in Files, RemoveFile(f) \/ DropRow(f) PROVE WarnInv'
  BY <1>6 DEF RemoveFile, DropRow, ForgetRow
<1>7. CASE EndManage
  BY <1>7 DEF EndManage
<1> QED
  BY <1>1, <1>2, <1>3, <1>4, <1>5, <1>6, <1>7 DEF ManageStep

\* The strengthening is inductive.
LEMMA WarnInvHolds == UploadsSpec => []WarnInv
<1> USE UploadsAssumption DEF WarnInv, UploadsTypeOK
<1>1. UploadsInit => WarnInv
  BY DEF UploadsInit
<1>2. UploadsTypeOK /\ RowsInv /\ WarnInv /\ [UploadsNext]_uploadVars => WarnInv'
  <2> SUFFICES ASSUME UploadsTypeOK, RowsInv, WarnInv, [UploadsNext]_uploadVars
               PROVE  WarnInv'
    OBVIOUS
  <2>1. CASE RaiseManage \/ KillManage
    BY <2>1 DEF RaiseManage, KillManage, LeaveManage
  <2>2. CASE UploadsDay
    <3>1. \A f \in Files :
             /\ warnedAge[f] >= 0 /\ announced[f] >= warnedAge[f]
                  => announced'[f] >= warnedAge'[f]
             /\ announced[f] >= 0 => announced'[f] >= 0
             /\ warnedAge'[f] >= 0 => warnedAge[f] >= 0
             /\ announced[f] = 1 => announced'[f] = 1
             /\ warnedAge[f] = Unwarned => warnedAge'[f] = Unwarned
      BY <2>2 DEF UploadsDay, NextDay
    <3>2. \A f \in Files :
             /\ daysLeft[f] >= 0 => daysLeft'[f] >= 0
             /\ daysLeft[f] = 0 => daysLeft'[f] = 0
      BY <2>2 DEF UploadsDay
    <3> QED
      BY <2>2, <3>1, <3>2 DEF UploadsDay, manageVars
  <2>3. CASE UNCHANGED uploadVars
    BY <2>3 DEF uploadVars, manageVars
  <2> QED
    BY <2>1, <2>2, <2>3, PeopleKeepWarn, ManageKeepsWarn DEF UploadsNext, PeopleStep
<1> QED
  BY <1>1, <1>2, UploadsTypeCorrect, RowsInvHolds, PTL DEF UploadsSpec

\* The clock deletes a file only when it has run out, a full day after the mail about
\* it, and only with nobody's button pressed since, unless it was pressed while the job
\* had the file in hand (tasks/uploads.py:205).
THEOREM DeletedFilesWereAnnounced == UploadsSpec => DeletedWasAnnounced
<1> DEFINE Announced ==
      \A f \in hand \cap uploaded :
          managePc = "delete" /\ managePc' = "drop" /\ f \notin hand'
            => (daysLeft[f] = 0 /\ announced[f] = 1) \/ f \in pressed
<1>1. WarnInv => [Announced]_uploadVars
  BY DEF WarnInv
<1> QED
  BY <1>1, WarnInvHolds, PTL DEF DeletedWasAnnounced

HIDE DEF Kept, Unwarned

-----------------------------------------------------------------------------
(*************************************************************************)
(* Stream rollups: a minute is in the history once and whole. What a run *)
(* holds is no longer in the window or still to be looked for; what      *)
(* another run finds standing it updates.                                *)
(*************************************************************************)

USE DEF Minutes

\* A run is rolling the minute.
RollsMinute(j, s, m) == \E r \in rolling[j] : r[1] = s /\ r[2] = m

\* A run has found rows only when it is about to write, and one row of a minute.
HandsInv ==
    /\ \A j \in RollupJobs : rollPc[j] # "commit" => updating[j] = {}
    /\ \A j \in RollupJobs : \A r, q \in rolling[j] : r[1] = q[1] /\ r[2] = q[2] => r = q

RollupTyped == RollupTypeOK /\ HandsInv

LEMMA RollupTypedHolds == RollupSpec => []RollupTyped
<1> USE RollupAssumption DEF RollupTyped, RollupTypeOK, HandsInv, RollGoto, EmptyHands, rollVars
<1>1. RollupInit => RollupTyped
  BY DEF RollupInit
<1>2. RollupTyped /\ [RollupNext]_rollupVars => RollupTyped'
  <2> SUFFICES ASSUME RollupTyped, [RollupNext]_rollupVars PROVE RollupTyped'
    OBVIOUS
  <2>1. ASSUME NEW s \in Streams, FlushWindow(s) PROVE RollupTyped'
    <3>1. UNCHANGED <<minute, defined, buckets, rollVars, twice>>
      BY <2>1 DEF FlushWindow
    <3>2. lost' \subseteq Streams \X Minutes
      BY <2>1 DEF FlushWindow, Loses
    <3>3. window' \in [Streams -> [Minutes -> {"none", "part", "whole"}]]
      <4>1. PICK after \in [Minutes -> {"none", "part", "whole"}], some \in BOOLEAN :
               window' = [window EXCEPT ![s] = [after EXCEPT ![minute] =
                  IF some /\ @ = "none"
                  THEN IF <<s, minute>> \in lost THEN "part" ELSE "whole"
                  ELSE @]]
        BY <2>1 DEF FlushWindow
      <4>2. [after EXCEPT ![minute] =
                  IF some /\ @ = "none"
                  THEN IF <<s, minute>> \in lost THEN "part" ELSE "whole"
                  ELSE @] \in [Minutes -> {"none", "part", "whole"}]
        OBVIOUS
      <4> QED
        BY <4>1, <4>2
    <3> QED
      BY <3>1, <3>2, <3>3
  <2>2. ASSUME NEW s \in Streams, DropWindow(s) \/ DeleteStream(s) PROVE RollupTyped'
    <3>1. /\ UNCHANGED <<minute, rollVars, twice>>
          /\ defined' \subseteq Streams
          /\ window' = [window EXCEPT ![s] = [m \in Minutes |-> "none"]]
          /\ buckets' \subseteq buckets
      BY <2>2 DEF DropWindow, DeleteStream
    <3>2. lost' \subseteq Streams \X Minutes
      BY <2>2 DEF DropWindow, DeleteStream, Loses
    <3> QED
      BY <3>1, <3>2
  <2>3. ASSUME NEW j \in RollupJobs, StartRollup(j) \/ RollStep(j) \/ KillRollup(j)
        PROVE  RollupTyped'
    <3>1. CASE StartRollup(j)
      BY <3>1 DEF StartRollup
    <3>2. ASSUME NEW s \in Streams, ReadMinutes(j, s) PROVE RollupTyped'
      <4> DEFINE new == {<<s, m, ReadAs(s, m)>> : m \in MinutesToRoll(s)}
      <4>1. new \subseteq Streams \X Minutes \X {"part", "whole"}
        <5>1. \A m \in MinutesToRoll(s) : m \in Minutes /\ ReadAs(s, m) \in {"part", "whole"}
          BY DEF MinutesToRoll, Newest, Finished, ReadAs
        <5> QED
          BY <5>1
      <4>2. ASSUME NEW r \in new, NEW q \in new, r[2] = q[2] PROVE r = q
        <5>1. PICK m \in MinutesToRoll(s) : r = <<s, m, ReadAs(s, m)>>
          OBVIOUS
        <5>2. PICK n \in MinutesToRoll(s) : q = <<s, n, ReadAs(s, n)>>
          OBVIOUS
        <5>3. m = n
          BY <4>2, <5>1, <5>2
        <5> QED
          BY <5>1, <5>2, <5>3
      <4> HIDE DEF new
      <4>3. rolling' = [rolling EXCEPT ![j] = new] /\ rollPc[j] = "next"
            /\ rollPc' = [rollPc EXCEPT ![j] = "look"]
            /\ streamsLeft' = [streamsLeft EXCEPT ![j] = @ \ {s}]
            /\ UNCHANGED <<minute, defined, window, buckets, updating, sessionOk, lost, twice>>
        BY <3>2 DEF ReadMinutes, new
      <4> QED
        BY <4>1, <4>2, <4>3
    <3>3. ASSUME NEW s \in Streams, SkipStream(j, s) PROVE RollupTyped'
      BY <3>3 DEF SkipStream
    <3>4. CASE LookForBuckets(j)
      <4>1. /\ updating' = [updating EXCEPT ![j] = FoundRows(j)]
            /\ rollPc' = [rollPc EXCEPT ![j] = "commit"]
            /\ UNCHANGED <<minute, defined, window, buckets, streamsLeft, rolling, sessionOk, lost>>
        BY <3>4 DEF LookForBuckets
      <4>2. FoundRows(j) \subseteq rolling[j]
        BY DEF FoundRows
      <4>3. twice' \subseteq Streams \X Minutes
        <5>1. Looking(j) \subseteq Streams \X Minutes
          BY DEF Looking, Minute
        <5> QED
          BY <3>4, <5>1 DEF LookForBuckets
      <4> QED
        BY <4>1, <4>2, <4>3
    <3>5. CASE CommitBuckets(j)
      <4>1. buckets' \subseteq buckets \cup {<<r[1], r[2], j, r[3]>> : r \in rolling[j]}
        BY <3>5 DEF CommitBuckets
      <4>2. {<<r[1], r[2], j, r[3]>> : r \in rolling[j]}
               \subseteq Streams \X Minutes \X RollupJobs \X {"part", "whole"}
        OBVIOUS
      <4>3. buckets' \subseteq Streams \X Minutes \X RollupJobs \X {"part", "whole"}
        BY <4>1, <4>2
      <4> QED
        BY <3>5, <4>3 DEF CommitBuckets
    <3>6. CASE FailToCommit(j)
      BY <3>6 DEF FailToCommit
    <3>7. CASE EndRollup(j)
      <4>1. buckets' \subseteq buckets
        BY <3>7 DEF EndRollup
      <4> QED
        BY <3>7, <4>1 DEF EndRollup
    <3>8. CASE KillRollup(j)
      BY <3>8 DEF KillRollup
    <3> QED
      BY <2>3, <3>1, <3>2, <3>3, <3>4, <3>5, <3>6, <3>7, <3>8 DEF RollStep
  <2>4. CASE RollupMinute
    BY <2>4 DEF RollupMinute
  <2>5. CASE UNCHANGED rollupVars
    BY <2>5 DEF rollupVars
  <2> QED
    BY <2>1, <2>2, <2>3, <2>4, <2>5 DEF RollupNext
<1> QED
  BY <1>1, <1>2, PTL DEF RollupSpec

\* Every variable keeps to its values.
THEOREM RollupTypeCorrect == RollupSpec => []RollupTypeOK
<1>1. RollupTyped => RollupTypeOK
  BY DEF RollupTyped
<1> QED
  BY <1>1, RollupTypedHolds, PTL

-----------------------------------------------------------------------------

\* What is short in the window, in hand or in the history is known to be.
ShortInv ==
    /\ \A s \in Streams, m \in Minutes : window[s][m] = "part" => <<s, m>> \in lost
    /\ \A j \in RollupJobs : \A r \in rolling[j] : r[3] = "part" => <<r[1], r[2]>> \in lost
    /\ \A b \in buckets : b[4] = "part" => <<b[1], b[2]>> \in lost

\* Of a minute that two runs did not look for at once there is one row; and if one is
\* about to write it and has found none, there is none.
OnceInv ==
    \A s \in Streams, m \in Minutes : <<s, m>> \notin twice =>
        /\ \A b, c \in buckets : b[1] = s /\ b[2] = m /\ c[1] = s /\ c[2] = m => b = c
        /\ \A j, k \in RollupJobs :
              /\ rollPc[j] = "commit" /\ rollPc[k] = "commit"
              /\ RollsMinute(j, s, m) /\ RollsMinute(k, s, m)
              => j = k
        /\ \A j \in RollupJobs : \A r \in rolling[j] :
              rollPc[j] = "commit" /\ r[1] = s /\ r[2] = m /\ r \notin updating[j]
                => \A b \in buckets : ~(b[1] = s /\ b[2] = m)

LEMMA ShortInvHolds == RollupSpec => []ShortInv
<1> USE RollupAssumption DEF RollupTyped, RollupTypeOK, HandsInv, ShortInv, RollGoto, EmptyHands, rollVars
<1>1. RollupInit => ShortInv
  BY DEF RollupInit
<1>2. RollupTyped /\ ShortInv /\ [RollupNext]_rollupVars => ShortInv'
  <2> SUFFICES ASSUME RollupTyped, ShortInv, [RollupNext]_rollupVars PROVE ShortInv'
    OBVIOUS
  <2>1. ASSUME NEW s \in Streams, FlushWindow(s) PROVE ShortInv'
    <3>1. PICK after \in [Minutes -> {"none", "part", "whole"}], some \in BOOLEAN :
             /\ Loses(s, after)
             /\ window' = [window EXCEPT ![s] = [after EXCEPT ![minute] =
                  IF some /\ @ = "none"
                  THEN IF <<s, minute>> \in lost THEN "part" ELSE "whole"
                  ELSE @]]
      BY <2>1 DEF FlushWindow
    <3>2. lost \subseteq lost'
      BY <3>1 DEF Loses
    <3>3. ASSUME NEW m \in Minutes, window'[s][m] = "part" PROVE <<s, m>> \in lost'
      <4>1. CASE after[m] = "part"
        <5>1. CASE window[s][m] = "part"
          BY <3>2, <5>1
        <5>2. CASE window[s][m] # "part"
          BY <3>1, <4>1, <5>2 DEF Loses
        <5> QED
          BY <5>1, <5>2
      <4>2. CASE after[m] # "part"
        <5>1. m = minute /\ <<s, minute>> \in lost
          BY <3>1, <3>3, <4>2
        <5> QED
          BY <3>2, <5>1
      <4> QED
        BY <4>1, <4>2
    <3>4. \A t \in Streams \ {s} : window'[t] = window[t]
      BY <3>1
    <3>5. UNCHANGED <<buckets, rollVars>>
      BY <2>1 DEF FlushWindow
    <3>6. ASSUME NEW t \in Streams, NEW m \in Minutes, window'[t][m] = "part" PROVE <<t, m>> \in lost'
      BY <3>2, <3>3, <3>4, <3>6
    <3> QED
      BY <3>2, <3>5, <3>6
  <2>2. ASSUME NEW s \in Streams, DropWindow(s) \/ DeleteStream(s) PROVE ShortInv'
    <3>1. /\ window' = [window EXCEPT ![s] = [m \in Minutes |-> "none"]]
          /\ buckets' \subseteq buckets /\ lost \subseteq lost' /\ UNCHANGED rollVars
      BY <2>2 DEF DropWindow, DeleteStream, Loses
    <3> QED
      BY <3>1
  <2>3. ASSUME NEW j \in RollupJobs, StartRollup(j) \/ RollStep(j) \/ KillRollup(j)
        PROVE  ShortInv'
    <3>1. CASE StartRollup(j)
      BY <3>1 DEF StartRollup
    <3>2. ASSUME NEW s \in Streams, ReadMinutes(j, s) PROVE ShortInv'
      <4> DEFINE new == {<<s, m, ReadAs(s, m)>> : m \in MinutesToRoll(s)}
      <4>1. ASSUME NEW r \in new, r[3] = "part" PROVE <<r[1], r[2]>> \in lost
        <5>1. PICK m \in MinutesToRoll(s) : r = <<s, m, ReadAs(s, m)>>
          OBVIOUS
        <5>2. m \in Minutes /\ ReadAs(s, m) = window[s][m]
          BY DEF MinutesToRoll, Newest, Finished, ReadAs
        <5> QED
          BY <4>1, <5>1, <5>2
      <4> HIDE DEF new
      <4>2. rolling' = [rolling EXCEPT ![j] = new] /\ UNCHANGED <<window, buckets, lost>>
        BY <3>2 DEF ReadMinutes, new
      <4> QED
        BY <4>1, <4>2
    <3>3. ASSUME NEW s \in Streams, SkipStream(j, s) PROVE ShortInv'
      BY <3>3 DEF SkipStream
    <3>4. CASE LookForBuckets(j)
      BY <3>4 DEF LookForBuckets
    <3>5. CASE CommitBuckets(j)
      <4>1. buckets' \subseteq buckets \cup {<<r[1], r[2], j, r[3]>> : r \in rolling[j]}
        BY <3>5 DEF CommitBuckets
      <4>2. ASSUME NEW b \in buckets', b[4] = "part" PROVE <<b[1], b[2]>> \in lost
        <5>1. CASE b \in buckets
          BY <4>2, <5>1
        <5>2. CASE b \notin buckets
          <6>1. PICK r \in rolling[j] : b = <<r[1], r[2], j, r[3]>>
            BY <4>1, <5>2
          <6> QED
            BY <4>2, <6>1
        <5> QED
          BY <5>1, <5>2
      <4>3. /\ rolling' = [rolling EXCEPT ![j] = {}] /\ UNCHANGED <<window, lost>>
        BY <3>5 DEF CommitBuckets
      <4> QED
        BY <4>2, <4>3
    <3>6. CASE FailToCommit(j)
      BY <3>6 DEF FailToCommit
    <3>7. CASE EndRollup(j)
      BY <3>7 DEF EndRollup
    <3>8. CASE KillRollup(j)
      BY <3>8 DEF KillRollup
    <3> QED
      BY <2>3, <3>1, <3>2, <3>3, <3>4, <3>5, <3>6, <3>7, <3>8 DEF RollStep
  <2>4. CASE RollupMinute
    BY <2>4 DEF RollupMinute
  <2>5. CASE UNCHANGED rollupVars
    BY <2>5 DEF rollupVars
  <2> QED
    BY <2>1, <2>2, <2>3, <2>4, <2>5 DEF RollupNext
<1> QED
  BY <1>1, <1>2, RollupTypedHolds, PTL DEF RollupSpec

\* What does not look for rows or write them keeps to one of each minute.
LEMMA OnceByStanding ==
    ASSUME OnceInv, buckets' \subseteq buckets, twice \subseteq twice',
           \A k \in RollupJobs : rollPc'[k] = "commit" =>
              rollPc[k] = "commit" /\ rolling'[k] = rolling[k] /\ updating'[k] = updating[k]
    PROVE  OnceInv'
BY DEF OnceInv, RollsMinute

\* A run looks: what another has looked for and not written is marked.
LEMMA OnceByLooking ==
    ASSUME RollupTyped, OnceInv, NEW j \in RollupJobs, LookForBuckets(j)
    PROVE  OnceInv'
<1> USE DEF RollupTyped, RollupTypeOK
<1>1. /\ rollPc[j] = "look" /\ rollPc' = [rollPc EXCEPT ![j] = "commit"]
      /\ updating' = [updating EXCEPT ![j] = FoundRows(j)]
      /\ twice' = twice \cup (Looking(j) \cap
             UNION {Looking(k) : k \in {i \in RollupJobs \ {j} : rollPc[i] = "commit"}})
      /\ UNCHANGED <<buckets, rolling>>
  BY DEF LookForBuckets, RollGoto
<1>2. SUFFICES ASSUME NEW s \in Streams, NEW m \in Minutes, <<s, m>> \notin twice'
               PROVE  /\ \A b, c \in buckets : b[1] = s /\ b[2] = m /\ c[1] = s /\ c[2] = m => b = c
                      /\ \A i, k \in RollupJobs :
                            /\ rollPc'[i] = "commit" /\ rollPc'[k] = "commit"
                            /\ RollsMinute(i, s, m) /\ RollsMinute(k, s, m)
                            => i = k
                      /\ \A i \in RollupJobs : \A r \in rolling[i] :
                            rollPc'[i] = "commit" /\ r[1] = s /\ r[2] = m /\ r \notin updating'[i]
                              => \A b \in buckets : ~(b[1] = s /\ b[2] = m)
  BY <1>1 DEF OnceInv, RollsMinute
<1>3. <<s, m>> \notin twice
  BY <1>1, <1>2
<1>4. \A i \in RollupJobs : RollsMinute(i, s, m) <=> <<s, m>> \in Looking(i)
  <2>1. \A i \in RollupJobs : \A r \in rolling[i] : Minute(r) = <<s, m>> <=> r[1] = s /\ r[2] = m
    BY DEF Minute
  <2> QED
    BY <2>1 DEF RollsMinute, Looking
<1>5. RollsMinute(j, s, m) => \A k \in RollupJobs \ {j} : rollPc[k] = "commit" => ~RollsMinute(k, s, m)
  BY <1>1, <1>2, <1>4
<1>6. ASSUME NEW i \in RollupJobs, NEW k \in RollupJobs, rollPc'[i] = "commit", rollPc'[k] = "commit",
             RollsMinute(i, s, m), RollsMinute(k, s, m)
      PROVE  i = k
  <2>1. CASE i = j
    BY <1>1, <1>5, <1>6, <2>1
  <2>2. CASE k = j
    BY <1>1, <1>5, <1>6, <2>2
  <2>3. CASE i # j /\ k # j
    BY <1>1, <1>3, <1>6, <2>3 DEF OnceInv
  <2> QED
    BY <2>1, <2>2, <2>3
<1>7. ASSUME NEW i \in RollupJobs, NEW r \in rolling[i], rollPc'[i] = "commit",
             r[1] = s, r[2] = m, r \notin updating'[i], NEW b \in buckets, b[1] = s, b[2] = m
      PROVE  FALSE
  <2>1. CASE i = j
    BY <1>1, <1>7, <2>1 DEF FoundRows, Rolled
  <2>2. CASE i # j
    BY <1>1, <1>3, <1>7, <2>2 DEF OnceInv
  <2> QED
    BY <2>1, <2>2
<1> QED
  BY <1>3, <1>6, <1>7 DEF OnceInv

\* A run writes: over the row it found, or where there is none.
LEMMA OnceByWriting ==
    ASSUME RollupTyped, OnceInv, NEW j \in RollupJobs, CommitBuckets(j)
    PROVE  OnceInv'
<1> USE DEF RollupTyped, RollupTypeOK, HandsInv
<1> DEFINE new == {<<r[1], r[2], j, r[3]>> : r \in rolling[j]}
<1>1. /\ rollPc[j] = "commit" /\ rollPc' = [rollPc EXCEPT ![j] = "next"]
      /\ rolling' = [rolling EXCEPT ![j] = {}] /\ updating' = [updating EXCEPT ![j] = {}]
      /\ twice' = twice
  BY DEF CommitBuckets, RollGoto, EmptyHands
<1>2. PICK over \in SUBSET {b \in buckets : \E r \in updating[j] : Minute(r) = <<b[1], b[2]>>} :
         /\ \A r \in updating[j] : Cardinality({b \in over : <<b[1], b[2]>> = Minute(r)}) = 1
         /\ buckets' = (buckets \ over) \cup new
  BY DEF CommitBuckets
<1>3. SUFFICES ASSUME NEW s \in Streams, NEW m \in Minutes, <<s, m>> \notin twice
               PROVE  /\ \A b, c \in buckets' : b[1] = s /\ b[2] = m /\ c[1] = s /\ c[2] = m => b = c
                      /\ \A i, k \in RollupJobs \ {j} :
                            /\ rollPc[i] = "commit" /\ rollPc[k] = "commit"
                            /\ RollsMinute(i, s, m) /\ RollsMinute(k, s, m)
                            => i = k
                      /\ \A i \in RollupJobs \ {j} : \A r \in rolling[i] :
                            rollPc[i] = "commit" /\ r[1] = s /\ r[2] = m /\ r \notin updating[i]
                              => \A b \in buckets' : ~(b[1] = s /\ b[2] = m)
  <2> HIDE DEF new
  <2>1. \A k \in RollupJobs : rollPc'[k] = "commit" =>
           k # j /\ rollPc[k] = "commit" /\ rolling'[k] = rolling[k] /\ updating'[k] = updating[k]
    BY <1>1
  <2>2. \A k \in RollupJobs, s \in Streams, m \in Minutes :
           rollPc'[k] = "commit" => (RollsMinute(k, s, m)' <=> RollsMinute(k, s, m))
    BY <2>1 DEF RollsMinute
  <2> HIDE DEF RollupTyped, RollupTypeOK, HandsInv
  <2> QED
    BY <1>1, <2>1, <2>2 DEF OnceInv
<1>4. /\ \A b, c \in buckets : b[1] = s /\ b[2] = m /\ c[1] = s /\ c[2] = m => b = c
      /\ \A i, k \in RollupJobs :
            /\ rollPc[i] = "commit" /\ rollPc[k] = "commit"
            /\ RollsMinute(i, s, m) /\ RollsMinute(k, s, m)
            => i = k
      /\ \A i \in RollupJobs : \A r \in rolling[i] :
            rollPc[i] = "commit" /\ r[1] = s /\ r[2] = m /\ r \notin updating[i]
              => \A b \in buckets : ~(b[1] = s /\ b[2] = m)
  BY <1>3 DEF OnceInv
<1>5. \A b \in new : b[1] = s /\ b[2] = m => RollsMinute(j, s, m)
  BY DEF RollsMinute
<1>6. ASSUME NEW b \in new, NEW c \in new, b[1] = s, b[2] = m, c[1] = s, c[2] = m PROVE b = c
  <2>1. PICK r \in rolling[j] : b = <<r[1], r[2], j, r[3]>>
    OBVIOUS
  <2>2. PICK q \in rolling[j] : c = <<q[1], q[2], j, q[3]>>
    OBVIOUS
  <2>3. r = q
    BY <1>6, <2>1, <2>2
  <2> QED
    BY <2>1, <2>2, <2>3
<1>7. ASSUME NEW r \in rolling[j], r[1] = s, r[2] = m, NEW b \in buckets \ over, b[1] = s, b[2] = m
      PROVE  FALSE
  <2>1. r \in updating[j]
    BY <1>1, <1>4, <1>7
  <2>2. Cardinality({c \in over : <<c[1], c[2]>> = Minute(r)}) = 1
    BY <1>2, <2>1
  <2>3. PICK c \in over : <<c[1], c[2]>> = Minute(r)
    <3> DEFINE rows == {c \in over : <<c[1], c[2]>> = Minute(r)}
    <3>1. rows # {}
      <4> HIDE DEF rows
      <4>1. Cardinality({}) = 0
        BY FS_EmptySet
      <4>2. Cardinality(rows) = 1
        BY <2>2 DEF rows
      <4>3. rows = {} => Cardinality(rows) = Cardinality({})
        OBVIOUS
      <4> QED
        BY <4>1, <4>2, <4>3
    <3> QED
      BY <3>1
  <2>4. c \in buckets /\ c[1] = s /\ c[2] = m
    BY <1>7, <2>3 DEF Minute
  <2> QED
    BY <1>4, <1>7, <2>3, <2>4
<1>8. \A b, c \in buckets' : b[1] = s /\ b[2] = m /\ c[1] = s /\ c[2] = m => b = c
  <2>1. ASSUME NEW b \in buckets \ over, b[1] = s, b[2] = m PROVE ~RollsMinute(j, s, m)
    BY <1>7, <2>1 DEF RollsMinute
  <2> HIDE DEF new
  <2> QED
    BY <1>2, <1>4, <1>5, <1>6, <2>1
<1>9. ASSUME NEW i \in RollupJobs \ {j}, NEW r \in rolling[i],
             rollPc[i] = "commit", r[1] = s, r[2] = m, r \notin updating[i],
             NEW b \in buckets', b[1] = s, b[2] = m
      PROVE  FALSE
  <2>1. ~RollsMinute(j, s, m)
    BY <1>1, <1>4, <1>9 DEF RollsMinute
  <2>2. b \in buckets
    BY <1>2, <1>5, <1>9, <2>1
  <2> QED
    BY <1>4, <1>9, <2>2
<1> QED
  BY <1>4, <1>8, <1>9

LEMMA OnceInvHolds == RollupSpec => []OnceInv
<1>1. RollupInit => OnceInv
  BY DEF RollupInit, OnceInv, RollsMinute
<1>2. RollupTyped /\ OnceInv /\ [RollupNext]_rollupVars => OnceInv'
  <2> SUFFICES ASSUME RollupTyped, OnceInv, [RollupNext]_rollupVars PROVE OnceInv'
    OBVIOUS
  <2> USE DEF RollupTyped, RollupTypeOK, RollGoto, EmptyHands, rollVars
  <2>1. ASSUME NEW s \in Streams, FlushWindow(s) \/ DropWindow(s) \/ DeleteStream(s) PROVE OnceInv'
    BY <2>1, OnceByStanding DEF FlushWindow, DropWindow, DeleteStream
  <2>2. ASSUME NEW j \in RollupJobs, StartRollup(j) \/ RollStep(j) \/ KillRollup(j) PROVE OnceInv'
    <3>1. CASE StartRollup(j)
      BY <3>1, OnceByStanding DEF StartRollup
    <3>2. ASSUME NEW s \in Streams, ReadMinutes(j, s) PROVE OnceInv'
      <4>1. /\ rollPc[j] # "commit" /\ rollPc'[j] # "commit"
            /\ \A k \in RollupJobs \ {j} : rollPc'[k] = rollPc[k] /\ rolling'[k] = rolling[k]
            /\ UNCHANGED <<buckets, updating, twice>>
        BY <3>2 DEF ReadMinutes
      <4>2. \A k \in RollupJobs : rollPc'[k] = "commit" =>
               rollPc[k] = "commit" /\ rolling'[k] = rolling[k] /\ updating'[k] = updating[k]
        BY <4>1
      <4> QED
        BY <4>1, <4>2, OnceByStanding
    <3>3. ASSUME NEW s \in Streams, SkipStream(j, s) PROVE OnceInv'
      BY <3>3, OnceByStanding DEF SkipStream
    <3>4. CASE FailToCommit(j)
      BY <3>4, OnceByStanding DEF FailToCommit
    <3>5. CASE EndRollup(j)
      <4>1. buckets' \subseteq buckets
        BY <3>5 DEF EndRollup
      <4> QED
        BY <3>5, <4>1, OnceByStanding DEF EndRollup
    <3>6. CASE KillRollup(j)
      BY <3>6, OnceByStanding DEF KillRollup
    <3> QED
      BY <2>2, <3>1, <3>2, <3>3, <3>4, <3>5, <3>6, OnceByLooking, OnceByWriting DEF RollStep
  <2>3. CASE RollupMinute
    BY <2>3, OnceByStanding DEF RollupMinute
  <2>4. CASE UNCHANGED rollupVars
    BY <2>4, OnceByStanding DEF rollupVars
  <2> QED
    BY <2>1, <2>2, <2>3, <2>4 DEF RollupNext
<1> QED
  BY <1>1, <1>2, RollupTypedHolds, PTL DEF RollupSpec

\* For any streams, windows, clock and number of runs of the job at once, a minute is in
\* the history once, unless two runs had both looked for it before either wrote, and is
\* whole, unless the window had lost some of it (tasks/streams.py).
THEOREM MinutesAreCountedOnce == RollupSpec => []MinuteCountedOnce
<1>1. RollupTyped /\ ShortInv /\ OnceInv => MinuteCountedOnce
  <2> SUFFICES ASSUME RollupTyped, ShortInv, OnceInv, NEW s \in Streams, NEW m \in Minutes
               PROVE  /\ Cardinality(BucketsOf(s, m)) > 1 => <<s, m>> \in twice
                      /\ (\E b \in BucketsOf(s, m) : b[4] = "part") => <<s, m>> \in lost
    BY DEF MinuteCountedOnce
  <2>1. ASSUME <<s, m>> \notin twice PROVE ~(Cardinality(BucketsOf(s, m)) > 1)
    <3>1. \A b, c \in BucketsOf(s, m) : b = c
      BY <2>1 DEF OnceInv, BucketsOf
    <3>2. CASE BucketsOf(s, m) = {}
      BY <3>2, FS_EmptySet
    <3>3. CASE BucketsOf(s, m) # {}
      <4>1. PICK b \in BucketsOf(s, m) : TRUE
        BY <3>3
      <4>2. BucketsOf(s, m) = {b}
        BY <3>1, <4>1
      <4>3. Cardinality({b}) = 1
        BY FS_Singleton
      <4> QED
        BY <4>2, <4>3
    <3> QED
      BY <3>2, <3>3
  <2>2. (\E b \in BucketsOf(s, m) : b[4] = "part") => <<s, m>> \in lost
    BY DEF ShortInv, BucketsOf
  <2> QED
    BY <2>1, <2>2
<1> QED
  BY <1>1, RollupTypedHolds, ShortInvHolds, OnceInvHolds, PTL

HIDE DEF Minutes

-----------------------------------------------------------------------------
(*************************************************************************)
(* Periodic jobs: types.                                                 *)
(*************************************************************************)

\* Every variable keeps to its values; a process removes no job that it defines.
THEOREM PeriodicTypeCorrect == PeriodicSpec => []PeriodicTypeOK
<1> USE PeriodicAssumption DEF PeriodicTypeOK, SchedPcs, Whens, SchedulerGoto, LetGoOfAll, Mishap
<1>1. PeriodicInit => PeriodicTypeOK
  <2> SUFFICES ASSUME PeriodicInit PROVE PeriodicTypeOK
    OBVIOUS
  <2>1. /\ record \subseteq PeriodicIds /\ inQueue \subseteq PeriodicIds
        /\ entry \in [PeriodicIds -> Whens]
    BY DEF PeriodicInit
  <2>2. /\ schedPc \in [Schedulers -> SchedPcs]
        /\ toRemove \in [Schedulers -> SUBSET PeriodicIds]
        /\ toAdd \in [Schedulers -> SUBSET PeriodicIds]
        /\ toQueue \in [Schedulers -> SUBSET PeriodicIds]
        /\ \A s \in Schedulers : toRemove[s] \cap DefinedBy[s] = {}
    BY DEF PeriodicInit
  <2>3. passLock = NoScheduler /\ mishaps = 0 /\ revived = {}
    BY DEF PeriodicInit
  <2> QED
    BY <2>1, <2>2, <2>3
<1>2. PeriodicTypeOK /\ [PeriodicNext]_periodicVars => PeriodicTypeOK'
  <2> SUFFICES ASSUME PeriodicTypeOK, [PeriodicNext]_periodicVars PROVE PeriodicTypeOK'
    OBVIOUS
  <2>0. \A ds : Dropped(ds) \in [PeriodicIds -> Whens] /\ DueNow(ds) \in [PeriodicIds -> Whens]
    BY DEF Dropped, DueNow
  <2>1. ASSUME NEW s \in Schedulers, StartScheduler(s) PROVE PeriodicTypeOK'
    <3>1. Obsolete(s) \subseteq PeriodicIds /\ Obsolete(s) \cap DefinedBy[s] = {}
      BY DEF Obsolete, Listed
    <3>2. {d \in DefinedBy[s] : Dropped(PeriodicIds)[d] = "none"} \subseteq PeriodicIds
      OBVIOUS
    <3> QED
      BY <2>0, <2>1, <3>1, <3>2 DEF StartScheduler
  <2>2. ASSUME NEW s \in Schedulers, SchedulerStep(s) PROVE PeriodicTypeOK'
    <3>1. CASE RemoveOld(s)
      BY <3>1 DEF RemoveOld
    <3>2. ASSUME AddMissing(s)
          PROVE  /\ entry' \in [PeriodicIds -> Whens] /\ record' \subseteq PeriodicIds
                 /\ revived' \subseteq PeriodicIds
                 /\ toAdd' \in [Schedulers -> SUBSET PeriodicIds]
      BY <2>0, <3>2 DEF AddMissing, Revives
    <3>3. CASE FinishStart(s)
      BY <3>2, <3>3 DEF FinishStart
    <3>4. CASE BeginPass(s)
      <4>1. toQueue' \in [Schedulers -> SUBSET PeriodicIds] /\ entry' \in [PeriodicIds -> Whens]
        BY <2>0, <3>4 DEF BeginPass, Listed
      <4> QED
        BY <3>4, <4>1 DEF BeginPass
    <3>5. CASE PutBack(s)
      BY <3>5 DEF PutBack, Revives
    <3>6. CASE LookForMissing(s)
      BY <3>6 DEF LookForMissing, ToMend
    <3>7. CASE EndPass(s)
      BY <3>2, <3>7 DEF EndPass
    <3>8. ASSUME NEW d \in PeriodicIds, QueueDue(s, d) PROVE PeriodicTypeOK'
      BY <3>8 DEF QueueDue
    <3> QED
      BY <2>2, <3>1, <3>3, <3>4, <3>5, <3>6, <3>7, <3>8 DEF SchedulerStep
  <2>3. ASSUME NEW s \in Schedulers, KillScheduler(s) PROVE PeriodicTypeOK'
    BY <2>3 DEF KillScheduler
  <2>4. ASSUME NEW s \in Schedulers, Retire(s) PROVE PeriodicTypeOK'
    BY <2>4 DEF Retire
  <2>5. ASSUME NEW d \in PeriodicIds, LoseRecord(d) \/ RunPeriodic(d) PROVE PeriodicTypeOK'
    BY <2>5 DEF LoseRecord, RunPeriodic, passVars
  <2>6. CASE PassLockExpires
    BY <2>6 DEF PassLockExpires, passVars
  <2>7. CASE ComesDue
    BY <2>7 DEF ComesDue, passVars
  <2>8. CASE UNCHANGED periodicVars
    BY <2>8 DEF periodicVars, passVars
  <2> QED
    BY <2>1, <2>2, <2>3, <2>4, <2>5, <2>6, <2>7, <2>8 DEF PeriodicNext
<1> QED
  BY <1>1, <1>2, PTL DEF PeriodicSpec

-----------------------------------------------------------------------------
(*************************************************************************)
(* Scheduled queries: schedule_failures counts the failures in a row.    *)
(*************************************************************************)

USE DEF Never

\* A run that is queued or has started has a query.
RunsHaveQueries == \A t \in Texts : runPc[t] # "idle" => runOf[t].query \in Queries

ScheduledTyped == ScheduledTypeOK /\ RunsHaveQueries

\* The assumption, without its exponential.
LEMMA ScheduledConstants ==
    /\ Queries \subseteq Nat /\ Handled \subseteq Queries
    /\ Interval \in Nat /\ MaxBackoff \in Nat /\ FailureCap \in Nat
BY ScheduledQueriesAssumption, Zenon

\* A count goes up by one, to its last value.
LEMMA CountType == \A n \in 0..FailureCap : Count(n) \in 0..FailureCap
BY ScheduledConstants DEF Count

\* An age goes up by one, to its last value.
LEMMA AgedType == \A age \in Ages : Aged(age) \in Ages
BY ScheduledConstants DEF Aged, Ages, MaxAge

\* A pass queues a run of each text for one of the queries that have it.
LEMMA RefreshKeepsType ==
    ASSUME ScheduledTyped, RefreshQueries
    PROVE  ScheduledTyped'
<1> USE ScheduledConstants DEF ScheduledTyped, ScheduledTypeOK, RunsHaveQueries
<1> DEFINE bad    == {q \in Chosen : text[q] \in BadTexts}
           new    == {q \in Chosen \ bad : runPc[text[q]] = "idle"}
           of(t)  == CHOOSE q \in new : text[q] = t
           starts == {text[q] : q \in new}
<1>1. /\ failures' = [q \in Queries |-> IF q \in bad THEN Count(failures[q]) ELSE failures[q]]
      /\ lapped' = [q \in Queries |-> lapped[q] \/ (q \in bad /\ Loaded(q))]
      /\ counted' = [q \in Queries |-> IF lapped'[q] THEN 0
                                       ELSE IF q \in bad THEN Count(counted[q]) ELSE counted[q]]
      /\ runPc' = [t \in Texts |-> IF t \in starts THEN "queued" ELSE runPc[t]]
      /\ runOf' = [t \in Texts |->
             IF t \in starts THEN [query |-> of(t), scheduled |-> TRUE, failures |-> 0] ELSE runOf[t]]
      /\ UNCHANGED <<text, scheduled, executed, sinceAge, storedAge>>
  BY DEF RefreshQueries
<1>2. \A t \in starts : of(t) \in Queries
  <2>1. \A t \in starts : \E q \in new : text[q] = t
    OBVIOUS
  <2>2. new \subseteq Queries
    BY DEF Chosen, Outdated
  <2> QED
    BY <2>1, <2>2
<1>3. failures' \in [Queries -> 0..FailureCap] /\ lapped' \in [Queries -> BOOLEAN]
  <2> HIDE DEF bad
  <2>1. failures' \in [Queries -> 0..FailureCap]
    BY <1>1, CountType
  <2>2. \A q \in Queries : (lapped[q] \/ (q \in bad /\ Loaded(q))) \in BOOLEAN
    OBVIOUS
  <2> QED
    BY <1>1, <2>1, <2>2
<1>4. counted' \in [Queries -> 0..FailureCap]
  <2> HIDE DEF bad
  <2> QED
    BY <1>1, CountType
<1>5. /\ runPc' \in [Texts -> {"idle", "queued", "running"}]
      /\ runOf' \in [Texts -> [query : Queries, scheduled : BOOLEAN, failures : 0..FailureCap]
                                \cup {NoRun}]
      /\ RunsHaveQueries'
  <2> HIDE DEF starts, of
  <2> QED
    BY <1>1, <1>2
<1> QED
  BY <1>1, <1>3, <1>4, <1>5

\* The job of a text keeps to the types.
LEMMA RunKeepsType ==
    ASSUME ScheduledTyped, NEW t \in Texts, RunStep(t) \/ KillRun(t)
    PROVE  ScheduledTyped'
<1> USE ScheduledConstants, CountType DEF ScheduledTyped, ScheduledTypeOK, RunsHaveQueries, Ages, MaxAge
<1>1. CASE LoadRun(t)
  BY <1>1 DEF LoadRun, queryVars, NoRun
<1>2. CASE FailRun(t)
  <2>1. runOf[t].query \in Queries /\ runOf[t].failures \in 0..FailureCap
    BY <1>2 DEF FailRun, NoRun
  <2>2. failures' \in [Queries -> 0..FailureCap] /\ counted' \in [Queries -> 0..FailureCap]
    BY <1>2, <2>1 DEF FailRun, Failed
  <2>3. lapped' \in [Queries -> BOOLEAN]
    <3>1. (lapped[runOf[t].query] \/ LoadedBesides(runOf[t].query, t)) \in BOOLEAN
      OBVIOUS
    <3> QED
      BY <1>2, <2>1, <3>1 DEF FailRun
  <2> QED
    BY <1>2, <2>2, <2>3 DEF FailRun, EndRun
<1>3. CASE StoreRun(t)
  <2>1. lapped' \in [Queries -> BOOLEAN]
    <3>1. (LoadedBesides(runOf[t].query, t) \/ (lapped[runOf[t].query] /\ ~Clears(t))) \in BOOLEAN
      OBVIOUS
    <3> QED
      BY <1>3, <3>1 DEF StoreRun
  <2> QED
    BY <1>3, <2>1 DEF StoreRun, EndRun
<1>4. CASE KillRun(t)
  BY <1>4 DEF KillRun, EndRun, queryVars
<1> QED
  BY <1>1, <1>2, <1>3, <1>4 DEF RunStep

\* Types, with the queries that runs have.
LEMMA ScheduledTypedHolds == ScheduledSpec => []ScheduledTyped
<1> USE ScheduledConstants DEF ScheduledTyped, ScheduledTypeOK, RunsHaveQueries
<1>1. ScheduledInit => ScheduledTyped
  BY DEF ScheduledInit, NoRun, Ages, MaxAge
<1>2. ScheduledTyped /\ [ScheduledNext]_scheduleVars => ScheduledTyped'
  <2> SUFFICES ASSUME ScheduledTyped, [ScheduledNext]_scheduleVars PROVE ScheduledTyped'
    OBVIOUS
  <2>1. ASSUME NEW q \in Handled, RunByHand(q) PROVE ScheduledTyped'
    BY <2>1 DEF RunByHand, queryVars
  <2>2. ASSUME NEW q \in Handled, SetSchedule(q) PROVE ScheduledTyped'
    BY <2>2 DEF SetSchedule, runVars
  <2>3. ASSUME NEW q \in Handled, NEW t \in Texts, EditQuery(q, t) PROVE ScheduledTyped'
    BY <2>3 DEF EditQuery, runVars
  <2>4. CASE MinutePasses
    BY <2>4, AgedType DEF MinutePasses, queryVars, runVars
  <2>5. CASE UNCHANGED scheduleVars
    BY <2>5 DEF scheduleVars, queryVars, runVars
  <2> QED
    BY <2>1, <2>2, <2>3, <2>4, <2>5, RefreshKeepsType, RunKeepsType DEF ScheduledNext
<1> QED
  BY <1>1, <1>2, PTL DEF ScheduledSpec

\* Every variable keeps to its values.
THEOREM ScheduledTypeCorrect == ScheduledSpec => []ScheduledTypeOK
<1>1. ScheduledTyped => ScheduledTypeOK
  BY DEF ScheduledTyped
<1> QED
  BY <1>1, ScheduledTypedHolds, PTL

-----------------------------------------------------------------------------

\* The count is right, and a run in progress has it in hand as it is, unless something
\* else has written it meanwhile.
CountInv ==
    /\ FailuresInARow
    /\ \A t \in Texts :
          runPc[t] = "running" /\ ~lapped[runOf[t].query]
            => runOf[t].failures = failures[runOf[t].query]

\* A pass counts the queries whose parameters do not apply, and laps those in hand.
LEMMA RefreshKeepsCount ==
    ASSUME ScheduledTyped, CountInv, RefreshQueries
    PROVE  CountInv'
<1> USE ScheduledConstants DEF ScheduledTyped, ScheduledTypeOK, RunsHaveQueries, CountInv
<1> DEFINE bad    == {q \in Chosen : text[q] \in BadTexts}
           new    == {q \in Chosen \ bad : runPc[text[q]] = "idle"}
           of(t)  == CHOOSE q \in new : text[q] = t
           starts == {text[q] : q \in new}
<1>1. /\ failures' = [q \in Queries |-> IF q \in bad THEN Count(failures[q]) ELSE failures[q]]
      /\ lapped' = [q \in Queries |-> lapped[q] \/ (q \in bad /\ Loaded(q))]
      /\ counted' = [q \in Queries |-> IF lapped'[q] THEN 0
                                       ELSE IF q \in bad THEN Count(counted[q]) ELSE counted[q]]
      /\ runPc' = [t \in Texts |-> IF t \in starts THEN "queued" ELSE runPc[t]]
      /\ runOf' = [t \in Texts |->
             IF t \in starts THEN [query |-> of(t), scheduled |-> TRUE, failures |-> 0] ELSE runOf[t]]
      /\ UNCHANGED <<text, scheduled, executed, sinceAge, storedAge>>
  BY DEF RefreshQueries
<1> HIDE DEF bad, starts, of
<1>2. FailuresInARow'
  BY <1>1 DEF FailuresInARow
<1>3. ASSUME NEW t \in Texts, runPc'[t] = "running", ~lapped'[runOf'[t].query]
      PROVE  runOf'[t].failures = failures'[runOf'[t].query]
  <2>1. runPc[t] = "running" /\ runOf'[t] = runOf[t]
    BY <1>1, <1>3
  <2>2. Loaded(runOf[t].query)
    BY <2>1 DEF Loaded
  <2>3. runOf[t].query \in Queries /\ ~lapped[runOf[t].query] /\ runOf[t].query \notin bad
    BY <1>1, <1>3, <2>1, <2>2
  <2> QED
    BY <1>1, <2>1, <2>3
<1> QED
  BY <1>2, <1>3

\* A run that ends writes the count from what it has loaded.
LEMMA RunKeepsCount ==
    ASSUME ScheduledTyped, CountInv, NEW t \in Texts, RunStep(t) \/ KillRun(t)
    PROVE  CountInv'
<1> USE ScheduledConstants, CountType
    DEF ScheduledTyped, ScheduledTypeOK, RunsHaveQueries, CountInv, FailuresInARow
<1>1. CASE LoadRun(t)
  BY <1>1 DEF LoadRun, queryVars
<1>2. CASE FailRun(t)
  <2> DEFINE q == runOf[t].query
  <2>1. q \in Queries /\ (~lapped[q] => runOf[t].failures = failures[q] /\ failures[q] = counted[q])
    BY <1>2 DEF FailRun
  <2>2. CASE runOf[t].scheduled
    <3>1. /\ failures' = [failures EXCEPT ![q] = Count(runOf[t].failures)]
          /\ lapped' = [lapped EXCEPT ![q] = lapped[q] \/ LoadedBesides(q, t)]
          /\ counted' = [counted EXCEPT ![q] = IF lapped'[q] THEN 0 ELSE Count(counted[q])]
          /\ runPc' = [runPc EXCEPT ![t] = "idle"] /\ runOf' = [runOf EXCEPT ![t] = NoRun]
      BY <1>2, <2>2 DEF FailRun, Failed, EndRun
    <3>2. FailuresInARow'
      BY <2>1, <3>1
    <3>3. ASSUME NEW s \in Texts, runPc'[s] = "running", ~lapped'[runOf'[s].query]
          PROVE  runOf'[s].failures = failures'[runOf'[s].query]
      <4>1. s # t /\ runPc[s] = "running" /\ runOf'[s] = runOf[s]
        BY <3>1, <3>3
      <4>2. runOf[s].query # q
        BY <2>1, <3>1, <3>3, <4>1 DEF LoadedBesides
      <4> QED
        BY <3>1, <3>3, <4>1, <4>2
    <3> QED
      BY <3>2, <3>3
  <2>3. CASE ~runOf[t].scheduled
    BY <1>2, <2>3 DEF FailRun, EndRun
  <2> QED
    BY <2>2, <2>3
<1>3. CASE StoreRun(t)
  <2> DEFINE q == runOf[t].query
  <2>1. q \in Queries /\ (~lapped[q] => runOf[t].failures = failures[q] /\ failures[q] = counted[q])
    BY <1>3 DEF StoreRun
  <2>2. /\ failures' = IF runOf[t].failures > 0 THEN [failures EXCEPT ![q] = 0] ELSE failures
        /\ counted' = [counted EXCEPT ![q] = 0]
        /\ lapped' = [lapped EXCEPT ![q] =
               LoadedBesides(q, t) \/ (lapped[q] /\ ~(runOf[t].failures > 0))]
        /\ runPc' = [runPc EXCEPT ![t] = "idle"] /\ runOf' = [runOf EXCEPT ![t] = NoRun]
    BY <1>3 DEF StoreRun, Clears, EndRun
  <2>3. runOf[t].failures \in 0..FailureCap
    BY <1>3 DEF StoreRun, NoRun
  <2>4. FailuresInARow'
    BY <2>1, <2>2, <2>3
  <2>5. ASSUME NEW s \in Texts, runPc'[s] = "running", ~lapped'[runOf'[s].query]
        PROVE  runOf'[s].failures = failures'[runOf'[s].query]
    <3>1. s # t /\ runPc[s] = "running" /\ runOf'[s] = runOf[s]
      BY <2>2, <2>5
    <3>2. runOf[s].query # q
      BY <2>1, <2>2, <2>5, <3>1 DEF LoadedBesides
    <3> QED
      BY <2>2, <2>5, <3>1, <3>2
  <2> QED
    BY <2>4, <2>5
<1>4. CASE KillRun(t)
  BY <1>4 DEF KillRun, EndRun, queryVars
<1> QED
  BY <1>1, <1>2, <1>3, <1>4 DEF RunStep

\* For any queries, texts, intervals and limits, schedule_failures is the number of
\* failures since the last run that succeeded, unless two runs of the query, or a run
\* and the scheduler, had the count in hand at once (tasks/failure_report.py:90).
THEOREM FailuresAreCounted == ScheduledSpec => []FailuresInARow
<1> USE ScheduledConstants DEF ScheduledTyped, ScheduledTypeOK, RunsHaveQueries, CountInv
<1>1. ScheduledInit => CountInv
  BY DEF ScheduledInit, FailuresInARow
<1>2. ScheduledTyped /\ CountInv /\ [ScheduledNext]_scheduleVars => CountInv'
  <2> SUFFICES ASSUME ScheduledTyped, CountInv, [ScheduledNext]_scheduleVars PROVE CountInv'
    OBVIOUS
  <2>1. ASSUME NEW q \in Handled, RunByHand(q) PROVE CountInv'
    BY <2>1 DEF RunByHand, queryVars, FailuresInARow
  <2>2. ASSUME NEW q \in Handled, SetSchedule(q) PROVE CountInv'
    BY <2>2 DEF SetSchedule, runVars, FailuresInARow
  <2>3. ASSUME NEW q \in Handled, NEW t \in Texts, EditQuery(q, t) PROVE CountInv'
    BY <2>3 DEF EditQuery, runVars, FailuresInARow
  <2>4. CASE MinutePasses
    BY <2>4 DEF MinutePasses, queryVars, runVars, FailuresInARow
  <2>5. CASE UNCHANGED scheduleVars
    BY <2>5 DEF scheduleVars, queryVars, runVars, FailuresInARow
  <2> QED
    BY <2>1, <2>2, <2>3, <2>4, <2>5, RefreshKeepsCount, RunKeepsCount DEF ScheduledNext
<1>3. CountInv => FailuresInARow
  BY DEF CountInv
<1> QED
  BY <1>1, <1>2, <1>3, ScheduledTypedHolds, PTL DEF ScheduledSpec

HIDE DEF Never

-----------------------------------------------------------------------------
(*************************************************************************)
(* Failure report: a report loses no failure that was listed before it   *)
(* began.                                                                *)
(*************************************************************************)

\* What is owed is listed; a report that mails has read something, and one that
\* deletes has mailed all that was owed, as nothing comes to be owed under a report.
FailureReportInv ==
    /\ FailureReportTypeOK
    /\ OwedIsListed
    /\ reportPc = "mail" => WorthMailing
    /\ reportPc = "delete" => owed = NoEntries

\* A count stays within the most that is reported of a query, and one step of a run
\* lists what it owes.
LEMMA TrackKeepsInv ==
    ASSUME NEW q \in Failing, FailureReportInv, TrackFailure(q)
    PROVE  FailureReportInv'
<1> USE FailureReportAssumption
    DEF FailureReportInv, FailureReportTypeOK, Entries, OwedIsListed, TrackFailure
<1>1. counts' \in [Failing -> 0..MaxReports]
  BY DEF CountUpTo
<1>2. listed' \in Entries
  OBVIOUS
<1>3. \A p \in Failing : owed'[p] <= listed'[p] /\ owed'[p] \in 0..ListCap
  OBVIOUS
<1>4. owed' \in Entries
  BY <1>3
<1>5. reportPc = "delete" => owed' = NoEntries
  BY DEF NoEntries
<1> QED
  BY <1>1, <1>2, <1>3, <1>4, <1>5 DEF WorthMailing

\* The strengthening is inductive.
LEMMA FailureReportInduction == FailureReportSpec => []FailureReportInv
<1> USE FailureReportAssumption DEF FailureReportInv, FailureReportTypeOK, Entries, OwedIsListed
<1>1. FailureReportInit => FailureReportInv
  BY DEF FailureReportInit, NoEntries
<1>2. FailureReportInv /\ [FailureReportNext]_reportVars => FailureReportInv'
  <2> SUFFICES ASSUME FailureReportInv, [FailureReportNext]_reportVars
               PROVE  FailureReportInv'
    OBVIOUS
  <2>1. ASSUME NEW q \in Failing, TrackFailure(q) PROVE FailureReportInv'
    BY <2>1, TrackKeepsInv
  <2>2. ASSUME NEW q \in Failing, ClearFailures(q) PROVE FailureReportInv'
    BY <2>2 DEF ClearFailures, WorthMailing
  <2>3. CASE ReadFailures
    BY <2>3 DEF ReadFailures, ReportGoto, WorthMailing
  <2>4. CASE MailFailures
    BY <2>4 DEF MailFailures, ReportGoto, NoEntries
  <2>5. CASE ForgetFailures
    BY <2>5 DEF ForgetFailures, ReportGoto, NoEntries
  <2>6. CASE KillReport
    BY <2>6 DEF KillReport, NoEntries
  <2>7. CASE SwitchReports
    BY <2>7 DEF SwitchReports, WorthMailing
  <2>8. CASE UNCHANGED reportVars
    BY <2>8 DEF reportVars, WorthMailing
  <2> QED
    BY <2>1, <2>2, <2>3, <2>4, <2>5, <2>6, <2>7, <2>8 DEF FailureReportNext
<1> QED
  BY <1>1, <1>2, PTL DEF FailureReportSpec

\* Every variable keeps to its values: the count to the most that is reported of a
\* query, the list to its bound.
THEOREM FailureReportTypeCorrect == FailureReportSpec => []FailureReportTypeOK
<1>1. FailureReportInv => FailureReportTypeOK
  BY DEF FailureReportInv
<1> QED
  BY <1>1, FailureReportInduction, PTL

\* A failure that was listed while no report was under way is on the list until a
\* report has mailed it, wherever reports are killed and however many runs fail
\* meanwhile.
THEOREM NoFailureIsLost == FailureReportSpec => []OwedIsListed
<1>1. FailureReportInv => OwedIsListed
  BY DEF FailureReportInv
<1> QED
  BY <1>1, FailureReportInduction, PTL

-----------------------------------------------------------------------------

\* What an owner is told of is never taken back: only a report that has read
\* something and mails it settles what is owed.
OnlyMailSettles ==
    [][\A q \in Failing : owed'[q] < owed[q] => MailFailures /\ WorthMailing]_reportVars

\* No killed report, no deletion and no reset of a count settles an entry that nobody
\* was told of (tasks/failure_report.py:65 deletes what it has mailed).
THEOREM SettledByMail == FailureReportSpec => OnlyMailSettles
<1>1. FailureReportInv /\ [FailureReportNext]_reportVars
        => [\A q \in Failing : owed'[q] < owed[q] => MailFailures /\ WorthMailing]_reportVars
  <2> SUFFICES ASSUME FailureReportInv, FailureReportNext,
                      NEW q \in Failing, owed'[q] < owed[q]
               PROVE  MailFailures /\ WorthMailing
    OBVIOUS
  <2> USE DEF FailureReportInv, FailureReportTypeOK, Entries
  <2>1. ASSUME NEW p \in Failing, TrackFailure(p) PROVE FALSE
    BY <2>1 DEF TrackFailure
  <2>2. ASSUME UNCHANGED owed PROVE FALSE
    BY <2>2
  <2>3. CASE MailFailures
    BY <2>3 DEF MailFailures, ReportGoto
  <2> QED
    BY <2>1, <2>2, <2>3
    DEF FailureReportNext, ClearFailures, ReadFailures, ForgetFailures, KillReport, SwitchReports
<1> QED
  BY <1>1, FailureReportInduction, PTL DEF FailureReportSpec, OnlyMailSettles
=============================================================================
