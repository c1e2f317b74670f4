------------------------- MODULE DashboardProofs --------------------------
(*************************************************************************)
(* What shows, keeps and sends the results of queries: live dashboards,  *)
(* the versions of what is edited, dashboard subscriptions and alerts,   *)
(* for any of each and any bounds.                                       *)
(*************************************************************************)
EXTENDS LiveDashboards, Versions, Subscriptions, Alerts,
        FiniteSetTheorems, WellFoundedInduction, TLAPS

-----------------------------------------------------------------------------
(*************************************************************************)
(* Live dashboards: sweeps do not walk together unless one outlives its  *)
(* lock, and a query is not asked for more often than the shortest       *)
(* interval.                                                             *)
(*************************************************************************)

-----------------------------------------------------------------------------
(* Intervals *)

\* The longest of the intervals is one of them.
LEMMA LongestIsLongest ==
    /\ Longest \in Nat \ {0}
    /\ \A b \in Boards : Every[b] \in Nat \ {0} /\ Every[b] <= Longest
<1>1. PICK l \in Boards : \A c \in Boards : Every[c] <= Every[l]
  BY LiveAssumption
<1> DEFINE Intervals == {Every[b] : b \in Boards}
<1>2. \E n \in Intervals : \A b \in Boards : Every[b] <= n
  BY <1>1
<1>3. Longest \in Intervals /\ \A b \in Boards : Every[b] <= Longest
  BY <1>2 DEF Longest
<1> QED
  BY <1>3, LiveAssumption

\* So is the shortest, as natural numbers are well founded.
LEMMA ShortestIsShortest ==
    Shortest \in Nat /\ \A b \in Boards : Shortest <= Every[b]
<1> DEFINE Intervals == {Every[b] : b \in Boards}
           Less == OpToRel(<, Nat)
<1>1. Intervals # {} /\ Intervals \subseteq Nat
  BY LiveAssumption
<1>2. \A m \in Nat, n \in Nat : m < n => <<m, n>> \in Less
  BY DEF OpToRel
<1>3. IsWellFoundedOn(Less, Nat)
  BY NatLessThanWellFounded
<1> HIDE DEF Less
<1>4. \E n \in Intervals : \A m \in Intervals : <<m, n>> \notin Less
  BY <1>1, <1>3, WFMin, Zenon
<1>5. \E n \in Intervals : \A b \in Boards : Every[b] >= n
  <2>1. PICK n \in Intervals : \A m \in Intervals : <<m, n>> \notin Less
    BY <1>4
  <2>2. \A b \in Boards : Every[b] \in Intervals
    OBVIOUS
  <2> HIDE DEF Intervals
  <2>3. ASSUME NEW m \in Intervals PROVE n <= m
    <3>1. m \in Nat /\ n \in Nat
      BY <1>1
    <3>2. ~(m < n)
      BY <1>2, <2>1, <3>1, Zenon
    <3> QED
      BY <3>1, <3>2
  <2>4. \A b \in Boards : Every[b] >= n
    BY <1>1, <2>2, <2>3
  <2> QED
    BY <2>4
<1>6. Shortest \in Intervals /\ \A b \in Boards : Every[b] >= Shortest
  BY <1>5 DEF Shortest
<1> QED
  BY <1>1, <1>6, LiveAssumption

-----------------------------------------------------------------------------
(* Types *)

\* What a walker does keeps every variable to the values it may take.
LEMMA WalkKeepsType ==
    ASSUME NEW w \in Walkers, LiveTypeOK,
           (w \in Sweeps /\ StartSweep(w)) \/ WalkStep(w) \/ StopWalk(w)
    PROVE  LiveTypeOK'
<1> USE LiveAssumption, LongestIsLongest DEF LiveTypeOK, Walk
<1>1. CASE StartSweep(w)
  BY <1>1 DEF StartSweep, SweepTimeout
<1>2. ASSUME NEW b \in Boards, PassBoard(w, b) \/ FindOld(w, b) PROVE LiveTypeOK'
  BY <1>2 DEF PassBoard, FindOld
<1>3. CASE AskForQuery(w)
  <2>1. refreshing' \in BOOLEAN /\ byHand' = FALSE
    BY <1>3, Zenon DEF AskForQuery
  <2>2. /\ looking[w] # NoBoard /\ markLeft' = Every[looking[w]] /\ askedAge' = 0
        /\ looking' = [looking EXCEPT ![w] = NoBoard]
        /\ UNCHANGED <<live, seenAge, resultAge, sweepLock, walkPc, ahead, overran>>
    BY <1>3, Zenon DEF AskForQuery
  <2>3. looking' \in [Walkers -> Boards \cup {NoBoard}]
    BY <2>2
  <2>4. markLeft' \in 0..Longest /\ askedAge' \in 0..Longest
    BY <2>2
  <2> QED
    BY <2>1, <2>2, <2>3, <2>4, Zenon DEF LiveTypeOK
<1>4. CASE AskedAlready(w)
  BY <1>4 DEF AskedAlready
<1>5. CASE EndSweep(w)
  BY <1>5 DEF EndSweep, SweepTimeout
<1>6. CASE EndVisit(w)
  BY <1>6 DEF EndVisit
<1>7. CASE StopWalk(w)
  BY <1>7 DEF StopWalk, SweepTimeout
<1> QED
  BY <1>1, <1>2, <1>3, <1>4, <1>5, <1>6, <1>7 DEF WalkStep

\* So does everything else that happens.
LEMMA OthersKeepType ==
    ASSUME LiveTypeOK,
           \/ \E w \in Visits, b \in Boards :
                CheckInLive(w, b) \/ \E to \in {"on", "paused", "off"} : SetLive(w, b, to)
           \/ \E b \in Boards : LeaveLive(b)
           \/ \E stored \in BOOLEAN : QueryEnds(stored)
           \/ LiveTick
    PROVE  LiveTypeOK'
<1> USE LiveAssumption, LongestIsLongest DEF LiveTypeOK, Walk, Unseen, Walkers
<1>1. ASSUME NEW w \in Visits, NEW b \in Boards, CheckInLive(w, b) PROVE LiveTypeOK'
  <2>1. UNCHANGED <<walkPc, ahead>> \/ Walk(w, "idle", "walking", {b})
    BY <1>1 DEF CheckInLive
  <2> QED
    BY <1>1, <2>1 DEF CheckInLive
<1>2. ASSUME NEW w \in Visits, NEW b \in Boards, NEW to \in {"on", "paused", "off"},
             SetLive(w, b, to)
      PROVE  LiveTypeOK'
  BY <1>2 DEF SetLive
<1>3. ASSUME NEW b \in Boards, LeaveLive(b) PROVE LiveTypeOK'
  BY <1>3 DEF LeaveLive, walkVars
<1>4. ASSUME NEW stored \in BOOLEAN, QueryEnds(stored) PROVE LiveTypeOK'
  <2>1. /\ refreshing' = FALSE
        /\ resultAge' = 0 \/ resultAge' = resultAge
        /\ UNCHANGED <<live, seenAge, markLeft, sweepLock, walkPc, ahead, looking, askedAge,
                       byHand, overran>>
    BY <1>4, Zenon DEF QueryEnds, walkVars
  <2>2. resultAge' \in 0..(Longest + 1)
    BY <2>1
  <2>3. refreshing' \in BOOLEAN
    BY <2>1, Zenon
  <2> QED
    BY <2>1, <2>2, <2>3, Zenon DEF LiveTypeOK
<1>5. CASE LiveTick
  <2>1. seenAge' \in [Boards -> 0..Unseen]
    BY <1>5 DEF LiveTick, Later
  <2>2. resultAge' \in 0..(Longest + 1) /\ askedAge' \in 0..Longest
    BY <1>5 DEF LiveTick, Later
  <2>3. markLeft' \in 0..Longest /\ sweepLock' \in 0..SweepTimeout
    BY <1>5 DEF LiveTick, MarkExpires, SweepTimeout
  <2>4. overran' \in BOOLEAN
    BY <1>5 DEF LiveTick
  <2> QED
    BY <1>5, <2>1, <2>2, <2>3, <2>4 DEF LiveTick, walkVars
<1> QED
  BY <1>1, <1>2, <1>3, <1>4, <1>5

\* Every variable keeps to its values: a mark never outlasts the longest interval,
\* nor the lock the time a sweep may take.
THEOREM LiveTypeCorrect == LiveSpec => []LiveTypeOK
<1>1. LiveInit => LiveTypeOK
  <2> SUFFICES ASSUME LiveInit PROVE LiveTypeOK
    OBVIOUS
  <2>1. live \in [Boards -> {"on", "paused", "off"}]
    BY DEF LiveInit
  <2>2. seenAge \in [Boards -> 0..Unseen]
    BY LiveAssumption DEF LiveInit, Unseen
  <2>3. resultAge \in 0..(Longest + 1) /\ askedAge \in 0..Longest /\ markLeft \in 0..Longest
    BY LongestIsLongest DEF LiveInit
  <2>4. walkPc \in [Walkers -> {"idle", "walking"}] /\ ahead \in [Walkers -> SUBSET Boards]
    BY DEF LiveInit
  <2>5. looking \in [Walkers -> Boards \cup {NoBoard}] /\ sweepLock \in 0..SweepTimeout
    BY DEF LiveInit, SweepTimeout
  <2>6. refreshing \in BOOLEAN /\ byHand \in BOOLEAN /\ overran \in BOOLEAN
    BY Zenon DEF LiveInit
  <2> QED
    BY <2>1, <2>2, <2>3, <2>4, <2>5, <2>6, Zenon DEF LiveTypeOK
<1>2. LiveTypeOK /\ [LiveNext]_liveVars => LiveTypeOK'
  <2> SUFFICES ASSUME LiveTypeOK, [LiveNext]_liveVars PROVE LiveTypeOK'
    OBVIOUS
  <2>1. CASE UNCHANGED liveVars
    BY <2>1 DEF liveVars, walkVars, LiveTypeOK
  <2>2. CASE LiveNext
    BY <2>2, WalkKeepsType, OthersKeepType DEF LiveNext, Walkers
  <2> QED
    BY <2>1, <2>2
<1> QED
  BY <1>1, <1>2, PTL DEF LiveSpec

-----------------------------------------------------------------------------
(* One sweep *)

\* Unless a sweep has outlived its lock, a sweep that walks has the lock, and walks
\* alone.
SweepInv ==
    \A w \in Sweeps : Walking(w) /\ ~overran =>
        /\ sweepLock > 0
        /\ \A v \in Sweeps : Walking(v) => v = w

\* Lock, sweep and history move together.
LEMMA SweepInvHolds == LiveSpec => []SweepInv
<1> USE LiveAssumption DEF SweepInv, Walking, LiveTypeOK, Walk, Walkers
<1>1. LiveInit => SweepInv
  BY DEF LiveInit
<1>2. LiveTypeOK /\ SweepInv /\ [LiveNext]_liveVars => SweepInv'
  <2> SUFFICES ASSUME LiveTypeOK, SweepInv, [LiveNext]_liveVars PROVE SweepInv'
    OBVIOUS
  <2>1. ASSUME NEW w \in Sweeps, StartSweep(w) PROVE SweepInv'
    BY <2>1 DEF StartSweep, LockFree, SweepTimeout
  <2>2. ASSUME NEW w \in Sweeps, EndSweep(w) PROVE SweepInv'
    BY <2>2 DEF EndSweep
  <2>3. ASSUME NEW w \in Walkers, StopWalk(w) PROVE SweepInv'
    BY <2>3 DEF StopWalk
  <2>4. ASSUME NEW w \in Walkers, \E b \in Boards : PassBoard(w, b) \/ FindOld(w, b)
        PROVE  SweepInv'
    BY <2>4 DEF PassBoard, FindOld
  <2>5. ASSUME NEW w \in Walkers, AskForQuery(w) \/ AskedAlready(w) PROVE SweepInv'
    BY <2>5 DEF AskForQuery, AskedAlready
  <2>6. ASSUME NEW w \in Visits, EndVisit(w) PROVE SweepInv'
    BY <2>6 DEF EndVisit
  <2>7. ASSUME NEW w \in Visits, NEW b \in Boards, CheckInLive(w, b) PROVE SweepInv'
    <3>1. \A v \in Sweeps : walkPc'[v] = walkPc[v]
      BY <2>7 DEF CheckInLive
    <3> QED
      BY <2>7, <3>1 DEF CheckInLive
  <2>8. ASSUME NEW w \in Visits, NEW b \in Boards, NEW to \in {"on", "paused", "off"},
               SetLive(w, b, to)
        PROVE  SweepInv'
    BY <2>8 DEF SetLive
  <2>9. ASSUME UNCHANGED <<walkPc, sweepLock, overran>> PROVE SweepInv'
    BY <2>9
  <2>10. CASE LiveTick
    <3>1. ASSUME ~overran' PROVE ~overran /\ ~(sweepLock = 1 /\ \E w \in Sweeps : Walking(w))
      BY <2>10, <3>1, Zenon DEF LiveTick
    <3> QED
      BY <2>10, <3>1 DEF LiveTick, walkVars
  <2>11. ASSUME \/ \E b \in Boards : LeaveLive(b)
                \/ \E stored \in BOOLEAN : QueryEnds(stored)
                \/ UNCHANGED liveVars
         PROVE  SweepInv'
    BY <2>9, <2>11 DEF LeaveLive, QueryEnds, walkVars, liveVars
  <2>12. ASSUME NEW w \in Walkers, EndSweep(w) \/ EndVisit(w) PROVE SweepInv'
    BY <2>2, <2>6, <2>12 DEF EndSweep, EndVisit
  <2>13. ASSUME NEW w \in Walkers, WalkStep(w) PROVE SweepInv'
    BY <2>4, <2>5, <2>12, <2>13 DEF WalkStep
  <2> QED
    BY <2>1, <2>3, <2>7, <2>8, <2>10, <2>11, <2>13 DEF LiveNext
<1> QED
  BY <1>1, <1>2, LiveTypeCorrect, PTL DEF LiveSpec

\* Two sweeps walk at once only after one of them has outlived its lock, however many
\* are queued and wherever they are stopped or killed.
THEOREM SweepsTakeTurns == LiveSpec => []OneSweep
<1>1. SweepInv /\ LiveTypeOK => OneSweep
  <2> SUFFICES ASSUME SweepInv, LiveTypeOK, ~overran
               PROVE  ~(Cardinality({w \in Sweeps : Walking(w)}) > 1)
    BY DEF OneSweep
  <2> DEFINE walking == {w \in Sweeps : Walking(w)}
  <2>1. CASE walking = {}
    BY <2>1, FS_EmptySet
  <2>2. CASE walking # {}
    <3>1. PICK w \in Sweeps : walking = {w}
      BY <2>2 DEF SweepInv
    <3>2. Cardinality({w}) = 1
      BY FS_Singleton
    <3> QED
      BY <3>1, <3>2
  <2> QED
    BY <2>1, <2>2
<1> QED
  BY <1>1, SweepInvHolds, LiveTypeCorrect, PTL

-----------------------------------------------------------------------------
(* How often the query is asked for *)

\* While the mark of an attempt has time left, that and the time since the attempt
\* make up an interval.
MarkInv == byHand \/ markLeft + askedAge >= Shortest

\* Time passes from the one to the other.
LEMMA MarkInvHolds == LiveSpec => []MarkInv
<1> USE LongestIsLongest, ShortestIsShortest DEF MarkInv, LiveTypeOK
<1>1. LiveInit => MarkInv
  <2>1. Shortest <= Longest
    BY LiveAssumption
  <2> QED
    BY <2>1 DEF LiveInit
<1>2. LiveTypeOK /\ MarkInv /\ [LiveNext]_liveVars => MarkInv'
  <2> SUFFICES ASSUME LiveTypeOK, MarkInv, [LiveNext]_liveVars PROVE MarkInv'
    OBVIOUS
  <2>1. ASSUME UNCHANGED <<markLeft, askedAge, byHand>> PROVE MarkInv'
    BY <2>1
  <2>2. ASSUME NEW w \in Walkers, AskForQuery(w) PROVE MarkInv'
    BY <2>2 DEF AskForQuery
  <2>3. ASSUME NEW w \in Visits, NEW b \in Boards, NEW to \in {"on", "paused", "off"},
               SetLive(w, b, to)
        PROVE  MarkInv'
    BY <2>3 DEF SetLive
  <2>4. CASE LiveTick
    <3>1. Shortest <= Longest
      BY LiveAssumption
    <3> QED
      BY <2>4, <3>1 DEF LiveTick, Later, MarkExpires
  <2>5. ASSUME NEW w \in Walkers, WalkStep(w) \/ StopWalk(w) PROVE MarkInv'
    BY <2>1, <2>2, <2>5
    DEF WalkStep, StopWalk, PassBoard, FindOld, AskedAlready, EndSweep, EndVisit
  <2>6. ASSUME NEW w \in Sweeps, StartSweep(w) PROVE MarkInv'
    BY <2>1, <2>6 DEF StartSweep
  <2>7. ASSUME NEW w \in Visits, NEW b \in Boards, CheckInLive(w, b) PROVE MarkInv'
    BY <2>1, <2>7 DEF CheckInLive
  <2>8. ASSUME \/ \E b \in Boards : LeaveLive(b)
               \/ \E stored \in BOOLEAN : QueryEnds(stored)
               \/ UNCHANGED liveVars
        PROVE  MarkInv'
    BY <2>1, <2>8 DEF LeaveLive, QueryEnds, liveVars
  <2> QED
    BY <2>3, <2>4, <2>5, <2>6, <2>7, <2>8 DEF LiveNext
<1> QED
  BY <1>1, <1>2, LiveTypeCorrect, PTL DEF LiveSpec

\* A query that is watched, and also one that fails each time, is asked for at most
\* once in the shortest interval of the dashboards that show it, unless somebody had
\* the attempts forgotten.
THEOREM AskedAtMostOnceInAnInterval == LiveSpec => NotHammered
<1> DEFINE Asks ==
      \A w \in Walkers :
          looking[w] # NoBoard /\ askedAge' = 0 /\ markLeft' > markLeft
            => askedAge >= Shortest \/ byHand
<1>1. LiveTypeOK /\ MarkInv /\ [LiveNext]_liveVars => [Asks]_liveVars
  <2> SUFFICES ASSUME LiveTypeOK, MarkInv, LiveNext, markLeft' > markLeft
               PROVE  askedAge >= Shortest \/ byHand
    OBVIOUS
  <2> USE LongestIsLongest, ShortestIsShortest DEF LiveTypeOK
  <2>1. markLeft' # markLeft
    OBVIOUS
  <2>2. ASSUME NEW w \in Walkers, AskForQuery(w) PROVE askedAge >= Shortest \/ byHand
    BY <2>2 DEF AskForQuery, MarkGone, MarkInv
  <2>3. ASSUME NEW w \in Visits, NEW b \in Boards, NEW to \in {"on", "paused", "off"},
               SetLive(w, b, to)
        PROVE  FALSE
    BY <2>3 DEF SetLive
  <2>4. CASE LiveTick
    BY <2>4 DEF LiveTick, MarkExpires
  <2>5. ASSUME NEW w \in Walkers, WalkStep(w) \/ StopWalk(w) PROVE AskForQuery(w)
    BY <2>1, <2>5 DEF WalkStep, StopWalk, PassBoard, FindOld, AskedAlready, EndSweep, EndVisit
  <2>6. ASSUME \/ \E w \in Sweeps : StartSweep(w)
               \/ \E w \in Visits, b \in Boards : CheckInLive(w, b)
               \/ \E b \in Boards : LeaveLive(b)
               \/ \E stored \in BOOLEAN : QueryEnds(stored)
        PROVE  FALSE
    BY <2>1, <2>6 DEF StartSweep, CheckInLive, LeaveLive, QueryEnds
  <2> QED
    BY <2>2, <2>3, <2>4, <2>5, <2>6 DEF LiveNext
<1> QED
  BY <1>1, LiveTypeCorrect, MarkInvHolds, PTL DEF LiveSpec, NotHammered

-----------------------------------------------------------------------------
(*************************************************************************)
(* Versions: no save replaces words that its writer has not seen.        *)
(*************************************************************************)

USE DEF NoVersion

\* The saves that are on their way.
Pending == {e \in Editors : savePc[e] \in {"sent", "loaded"}}

\* No version is past what saves and other writes have made of it, and the bound on
\* saves covers those on their way.
VersionBounds ==
    /\ saved.version <= 1 + saves + touches
    /\ saves + Cardinality(Pending) <= MaxSaves

VersionsTyped == VersionsTypeOK /\ VersionBounds

\* One editor more or less with a save on its way is counted as one.
LEMMA PendingCount ==
    ASSUME VersionsTypeOK, NEW e \in Editors, NEW pc \in SavePcs,
           savePc' = [savePc EXCEPT ![e] = pc]
    PROVE  /\ Cardinality(Pending) \in Nat /\ Cardinality(Pending') \in Nat
           /\ Cardinality(Pending') <= Cardinality(Pending) + 1
           /\ pc \notin {"sent", "loaded"} => Cardinality(Pending') <= Cardinality(Pending)
           /\ pc \notin {"sent", "loaded"} /\ savePc[e] \in {"sent", "loaded"}
                => Cardinality(Pending') + 1 = Cardinality(Pending)
           /\ savePc[e] \in {"sent", "loaded"} => Cardinality(Pending') <= Cardinality(Pending)
<1> USE DEF VersionsTypeOK, SavePcs
<1>1. IsFiniteSet(Pending) /\ IsFiniteSet(Pending')
  BY VersionsAssumption, FS_Subset, Pending \subseteq Editors, Pending' \subseteq Editors DEF Pending
<1>2. Cardinality(Pending) \in Nat /\ Cardinality(Pending') \in Nat
  BY <1>1, FS_CardinalityType
<1>3. Pending \cup {e} = Pending' \cup {e} /\ Pending \ {e} = Pending' \ {e}
  BY DEF Pending
<1>4. CASE e \in Pending <=> e \in Pending'
  <2>1. Pending = Pending'
    BY <1>3, <1>4
  <2> QED
    BY <1>2, <1>4, <2>1 DEF Pending
<1>5. CASE e \in Pending /\ e \notin Pending'
  <2>1. Pending' = Pending \ {e}
    BY <1>3, <1>5
  <2>2. Cardinality(Pending') = Cardinality(Pending) - 1
    BY <1>1, <1>5, <2>1, FS_RemoveElement
  <2> QED
    BY <1>2, <1>5, <2>2 DEF Pending
<1>6. CASE e \notin Pending /\ e \in Pending'
  <2>1. Pending' = Pending \cup {e}
    BY <1>3, <1>6
  <2>2. Cardinality(Pending') = Cardinality(Pending) + 1
    BY <1>1, <1>6, <2>1, FS_AddElement
  <2> QED
    BY <1>2, <1>6, <2>2 DEF Pending
<1> QED
  BY <1>4, <1>5, <1>6

\* The strengthening is inductive.
LEMMA VersionsTypedHolds == VersionsSpec => []VersionsTyped
<1> USE VersionsAssumption DEF VersionsTyped, VersionBounds, VersionsTypeOK, Saved, SavePcs
<1>1. VersionsInit => VersionsTyped
  <2>1. VersionsInit => Pending = {}
    BY DEF VersionsInit, Pending
  <2> QED
    BY <2>1, FS_EmptySet DEF VersionsInit
<1>2. VersionsTyped /\ [VersionsNext]_versionsVars => VersionsTyped'
  <2> SUFFICES ASSUME VersionsTyped, [VersionsNext]_versionsVars PROVE VersionsTyped'
    OBVIOUS
  <2>0. Cardinality(Pending) \in Nat
    BY FS_Subset, FS_CardinalityType, Pending \subseteq Editors DEF Pending
  <2>1. ASSUME NEW e \in Editors, Reload(e) PROVE VersionsTyped'
    <3>1. Cardinality(Pending') <= Cardinality(Pending) /\ Cardinality(Pending') \in Nat
      BY <2>1, PendingCount DEF Reload
    <3> QED
      BY <2>0, <2>1, <3>1 DEF Reload
  <2>2. ASSUME NEW e \in Editors, Save(e) \/ SaveAnyway(e) PROVE VersionsTyped'
    <3>1. Cardinality(Pending') <= Cardinality(Pending) + 1 /\ Cardinality(Pending') \in Nat
      BY <2>2, PendingCount DEF Save, SaveAnyway, SaveGoto
    <3>2. saves + Cardinality(Pending) < MaxSaves
      BY <2>2 DEF Save, SaveAnyway, MaySave, Pending
    <3>3. saves' + Cardinality(Pending') <= MaxSaves
      BY <2>0, <2>2, <3>1, <3>2 DEF Save, SaveAnyway
    <3> QED
      BY <2>2, <3>3 DEF Save, SaveAnyway, SaveGoto
  <2>3. ASSUME NEW e \in Editors, LoadToSave(e) PROVE VersionsTyped'
    <3>1. Cardinality(Pending') <= Cardinality(Pending) /\ Cardinality(Pending') \in Nat
      BY <2>3, PendingCount DEF LoadToSave, SaveGoto
    <3> QED
      BY <2>0, <2>3, <3>1 DEF LoadToSave, SaveGoto
  <2>4. ASSUME NEW e \in Editors, CommitSave(e) PROVE VersionsTyped'
    <3>1. Cardinality(Pending') + 1 = Cardinality(Pending) /\ Cardinality(Pending') \in Nat
      BY <2>4, PendingCount DEF CommitSave, SaveGoto
    <3>2. saves' \in 0..MaxSaves /\ saves' + Cardinality(Pending') <= MaxSaves
      BY <2>0, <2>4, <3>1 DEF CommitSave
    <3>3. saved'.version <= 1 + saves' + touches' /\ saved' \in Saved
      BY <2>0, <2>4, <3>2 DEF CommitSave, NextVersion
    <3> QED
      BY <2>4, <3>2, <3>3 DEF CommitSave, SaveGoto
  <2>5. ASSUME NEW e \in Editors, FindStale(e) PROVE VersionsTyped'
    <3>1. Cardinality(Pending') <= Cardinality(Pending) /\ Cardinality(Pending') \in Nat
      BY <2>5, PendingCount DEF FindStale, SaveGoto
    <3> QED
      BY <2>0, <2>5, <3>1 DEF FindStale, SaveGoto
  <2>6. CASE Touch
    BY <2>0, <2>6 DEF Touch, NextVersion, Pending
  <2>7. CASE UNCHANGED versionsVars
    BY <2>7 DEF versionsVars, Pending
  <2> QED
    BY <2>1, <2>2, <2>3, <2>4, <2>5, <2>6, <2>7 DEF VersionsNext
<1> QED
  BY <1>1, <1>2, PTL DEF VersionsSpec

\* Every variable keeps to its values, for a row with and without a counted version.
THEOREM VersionsTypeCorrect == VersionsSpec => []VersionsTypeOK
<1>1. VersionsTyped => VersionsTypeOK
  BY DEF VersionsTyped
<1> QED
  BY <1>1, VersionsTypedHolds, PTL

-----------------------------------------------------------------------------

\* A page with the row's version was loaded with what the row says; a save goes with
\* the version of its page, and a request that found it current has loaded that.
SeenInv ==
    \A e \in Editors :
        /\ page[e].version <= saved.version
        /\ page[e].version = saved.version => page[e].says = saved.says
        /\ savePc[e] \in {"sent", "loaded"} /\ sent[e] # NoVersion => sent[e] = page[e].version
        /\ savePc[e] = "loaded" /\ sent[e] # NoVersion => loaded[e] = sent[e]

\* The strengthening is inductive, where each UPDATE counts the version up.
LEMMA SeenInvHolds ==
    ASSUME Counted = TRUE
    PROVE  VersionsSpec => []SeenInv
<1> USE VersionsAssumption DEF SeenInv, VersionsTypeOK, Saved, SavePcs
<1>1. VersionsInit => SeenInv
  BY DEF VersionsInit
<1>2. VersionsTypeOK /\ SeenInv /\ [VersionsNext]_versionsVars => SeenInv'
  <2> SUFFICES ASSUME VersionsTypeOK, SeenInv, [VersionsNext]_versionsVars PROVE SeenInv'
    OBVIOUS
  <2>1. ASSUME NEW e \in Editors, Reload(e) \/ Save(e) \/ SaveAnyway(e) PROVE SeenInv'
    BY <2>1 DEF Reload, Save, SaveAnyway, SaveGoto
  <2>2. ASSUME NEW e \in Editors, LoadToSave(e) \/ FindStale(e) PROVE SeenInv'
    BY <2>2 DEF LoadToSave, FindStale, SaveGoto, IsBehind
  <2>3. ASSUME NEW e \in Editors, CommitSave(e) PROVE SeenInv'
    BY <2>3 DEF CommitSave, SaveGoto, NextVersion
  <2>4. CASE Touch
    BY <2>4 DEF Touch, NextVersion
  <2>5. CASE UNCHANGED versionsVars
    BY <2>5 DEF versionsVars
  <2> QED
    BY <2>1, <2>2, <2>3, <2>4, <2>5 DEF VersionsNext
<1> QED
  BY <1>1, <1>2, VersionsTypeCorrect, PTL DEF VersionsSpec

\* For any number of editors, saves and other writes, nobody's words in a dashboard are
\* replaced by somebody who has not seen them and did not choose to: the version of its
\* row is counted up by every UPDATE.
THEOREM SavesReplaceWhatTheySaw ==
    ASSUME Counted = TRUE
    PROVE  VersionsSpec => ReplacesWhatItSaw
<1> DEFINE Saw ==
      \A e \in Editors :
        /\ savePc[e] = "loaded" /\ savePc'[e] = "editing"
        /\ sent[e] # NoVersion
        => page[e].says = saved.says
<1>1. VersionsTypeOK /\ SeenInv /\ [VersionsNext]_versionsVars => [Saw]_versionsVars
  <2> SUFFICES ASSUME VersionsTypeOK, SeenInv, VersionsNext,
                      NEW e \in Editors, savePc[e] = "loaded", savePc'[e] = "editing",
                      sent[e] # NoVersion
               PROVE  page[e].says = saved.says
    BY DEF versionsVars
  <2>1. CommitSave(e)
    BY DEF VersionsNext, VersionsTypeOK, Reload, Save, SaveAnyway, LoadToSave, CommitSave,
           FindStale, Touch, SaveGoto
  <2> QED
    BY <2>1 DEF CommitSave, RowIsAsLoaded, SeenInv
<1> QED
  BY <1>1, VersionsTypeCorrect, SeenInvHolds, PTL DEF VersionsSpec, ReplacesWhatItSaw

HIDE DEF NoVersion

-----------------------------------------------------------------------------
(*************************************************************************)
(* Subscriptions: nobody is mailed twice for one slot.                   *)
(*************************************************************************)

\* Every variable keeps to its values.
THEOREM SubscriptionsTypeCorrect == SubscriptionsSpec => []SubscriptionsTypeOK
<1> USE SubscriptionsAssumption
    DEF SubscriptionsTypeOK, MaxProblems, SendGoto, SendForgets
<1>1. SubscriptionsInit => SubscriptionsTypeOK
  <2> SUFFICES ASSUME SubscriptionsInit PROVE SubscriptionsTypeOK
    OBVIOUS
  <2>0. recipients \subseteq People
    BY DEF SubscriptionsInit
  <2>1. /\ row \in {"active", "paused", "gone"}
        /\ problems \in 0..MaxProblems
        /\ sentAge \in 0..(Slot + 1) /\ attemptAge \in 0..LongestWait
    BY DEF SubscriptionsInit
  <2>2. /\ excused \in BOOLEAN
        /\ sendPc \in [Sends -> {"idle", "queued", "drawing", "mailing"}]
        /\ refused \in [Sends -> BOOLEAN]
    BY DEF SubscriptionsInit
  <2>3. sendTo \in [Sends -> SUBSET People]
    BY DEF SubscriptionsInit
  <2>4. /\ seen \in [Sends -> 0..MaxProblems]
        /\ mailedAge \in [People -> 0..(Slot + 1)]
    BY DEF SubscriptionsInit
  <2> QED
    BY <2>0, <2>1, <2>2, <2>3, <2>4
<1>2. SubscriptionsTypeOK /\ [SubscriptionsNext]_subscriptionVars => SubscriptionsTypeOK'
  <2> SUFFICES ASSUME SubscriptionsTypeOK, [SubscriptionsNext]_subscriptionVars
               PROVE  SubscriptionsTypeOK'
    OBVIOUS
  <2>1. ASSUME NEW j \in Sends, QueueSend(j) \/ SendStep(j) \/ BreakSend(j)
        PROVE  SubscriptionsTypeOK'
    <3>1. CASE QueueSend(j)
      BY <3>1 DEF QueueSend
    <3>2. CASE StartSend(j)
      BY <3>2 DEF StartSend
    <3>3. CASE SkipSend(j)
      BY <3>3 DEF SkipSend
    <3>4. CASE DrawPicture(j)
      BY <3>4 DEF DrawPicture
    <3>5. CASE RecordProblem(j)
      BY <3>5 DEF RecordProblem
    <3>6. ASSUME NEW p \in People, MailRecipient(j, p) PROVE SubscriptionsTypeOK'
      <4>1. sendTo' \in [Sends -> SUBSET People]
        BY <3>6 DEF MailRecipient
      <4>2. refused' \in [Sends -> BOOLEAN] /\ mailedAge' \in [People -> 0..(Slot + 1)]
        <5>1. CASE /\ refused' = [refused EXCEPT ![j] = FALSE]
                   /\ mailedAge' = [mailedAge EXCEPT ![p] = 0]
          BY <5>1
        <5> QED
          BY <3>6, <5>1 DEF MailRecipient
      <4> QED
        BY <3>6, <4>1, <4>2 DEF MailRecipient
    <3>7. CASE EndSend(j)
      BY <3>7 DEF EndSend
    <3>8. CASE BreakSend(j)
      BY <3>8 DEF BreakSend, UnderWay
    <3> QED
      BY <2>1, <3>1, <3>2, <3>3, <3>4, <3>5, <3>6, <3>7, <3>8 DEF SendStep
  <2>2. ASSUME NEW people \in SUBSET People, SetRecipients(people) PROVE SubscriptionsTypeOK'
    BY <2>2 DEF SetRecipients, sendVars
  <2>3. ASSUME NEW p \in People, Unsubscribe(p) PROVE SubscriptionsTypeOK'
    BY <2>3 DEF Unsubscribe, sendVars
  <2>4. ASSUME NEW to \in {"active", "paused", "gone"}, SetRow(to) PROVE SubscriptionsTypeOK'
    BY <2>4 DEF SetRow, sendVars
  <2>5. CASE SendMinute
    <3>1. \A cap \in Nat : \A age \in 0..cap : Elder(age, cap) \in 0..cap
      BY DEF Elder
    <3>2. /\ sentAge' \in 0..(Slot + 1) /\ attemptAge' \in 0..LongestWait
          /\ mailedAge' \in [People -> 0..(Slot + 1)]
      BY <2>5, <3>1 DEF SendMinute
    <3> QED
      BY <2>5, <3>2 DEF SendMinute, sendVars
  <2>6. CASE UNCHANGED subscriptionVars
    BY <2>6 DEF subscriptionVars, sendVars
  <2> QED
    BY <2>1, <2>2, <2>3, <2>4, <2>5, <2>6 DEF SubscriptionsNext
<1> QED
  BY <1>1, <1>2, PTL DEF SubscriptionsSpec

-----------------------------------------------------------------------------

\* Nobody was mailed since the last slot, or longer ago.
NobodyMailed == \A p \in People : mailedAge[p] > Slot

\* With nothing to excuse it, at most one send is under way, and whom it has still to
\* mail was not mailed in this slot; a send that has mailed nobody found nobody mailed;
\* and between sends every mail is as old as the last full send.
MailInv == ~excused =>
    /\ \A i, j \in Sends : UnderWay(i) /\ UnderWay(j) => i = j
    /\ \A j \in Sends :
          /\ sendPc[j] = "drawing" => NobodyMailed
          /\ sendPc[j] = "mailing" =>
                /\ refused[j] => NobodyMailed
                /\ \A p \in sendTo[j] : mailedAge[p] > Slot
    /\ (\A j \in Sends : ~UnderWay(j)) => \A p \in People : mailedAge[p] >= sentAge

\* A step of a send.
LEMMA SendKeepsMail ==
    ASSUME SubscriptionsTypeOK, MailInv, NEW j \in Sends, QueueSend(j) \/ SendStep(j) \/ BreakSend(j)
    PROVE  MailInv'
<1> USE SubscriptionsAssumption DEF SubscriptionsTypeOK, SendGoto, SendForgets, MailInv, UnderWay, NobodyMailed
<1>1. CASE QueueSend(j)
  BY <1>1 DEF QueueSend
<1>2. CASE StartSend(j)
  <2>1. SUFFICES ASSUME ~excused' PROVE MailInv'
    OBVIOUS
  <2>2. /\ ~excused /\ \A i \in Sends : ~UnderWay(i)
        /\ sendPc' = [sendPc EXCEPT ![j] = "drawing"]
        /\ sentAge > Slot
        /\ UNCHANGED <<sentAge, sendTo, refused, mailedAge>>
    BY <1>2, <2>1 DEF StartSend, StillDue, SendIsDue
  <2>3. NobodyMailed
    BY <2>2
  <2> QED
    BY <2>2, <2>3
<1>3. CASE SkipSend(j)
  BY <1>3 DEF SkipSend
<1>4. CASE DrawPicture(j)
  BY <1>4 DEF DrawPicture
<1>5. CASE RecordProblem(j)
  <2>0. sendPc[j] = "drawing" \/ (sendPc[j] = "mailing" /\ refused[j])
    BY <1>5, Zenon DEF RecordProblem
  <2>2. /\ sendPc' = [sendPc EXCEPT ![j] = "idle"]
        /\ sendTo' = [sendTo EXCEPT ![j] = {}] /\ refused' = [refused EXCEPT ![j] = TRUE]
        /\ UNCHANGED <<sentAge, mailedAge, excused>>
    BY <1>5 DEF RecordProblem
  <2>1. \A i \in Sends \ {j} : sendTo'[i] = sendTo[i] /\ refused'[i] = refused[i]
    BY <2>2
  <2>3. ~excused => NobodyMailed
    <3>1. CASE sendPc[j] = "drawing"
      BY <3>1
    <3>2. CASE sendPc[j] = "mailing" /\ refused[j]
      BY <3>2
    <3> QED
      BY <2>0, <3>1, <3>2, Zenon
  <2> QED
    BY <2>0, <2>1, <2>2, <2>3
<1>6. ASSUME NEW p \in People, MailRecipient(j, p) PROVE MailInv'
  <2>1. /\ sendPc[j] = "mailing" /\ p \in sendTo[j]
        /\ sendTo' = [sendTo EXCEPT ![j] = @ \ {p}]
        /\ UNCHANGED <<sentAge, sendPc, excused>>
    BY <1>6 DEF MailRecipient
  <2>2. CASE UNCHANGED <<refused, mailedAge>>
    BY <2>1, <2>2
  <2>3. CASE /\ refused' = [refused EXCEPT ![j] = FALSE]
             /\ mailedAge' = [mailedAge EXCEPT ![p] = 0]
    BY <2>1, <2>3
  <2> QED
    BY <1>6, <2>2, <2>3 DEF MailRecipient
<1>7. CASE EndSend(j)
  <2>1. /\ sendPc[j] = "mailing" /\ sendPc' = [sendPc EXCEPT ![j] = "idle"]
        /\ sentAge' = 0 /\ UNCHANGED mailedAge
        /\ excused' = \E i \in Sends \ {j} : UnderWay(i)
    BY <1>7 DEF EndSend
  <2>2. ~excused' => \A i \in Sends : ~UnderWay(i)'
    BY <2>1
  <2> QED
    BY <2>1, <2>2
<1>8. CASE BreakSend(j)
  <2>1. /\ excused' = (excused \/ UnderWay(j))
        /\ sendPc' = [sendPc EXCEPT ![j] = "idle"]
        /\ \A i \in Sends \ {j} : sendTo'[i] = sendTo[i] /\ refused'[i] = refused[i]
        /\ UNCHANGED <<sentAge, mailedAge>>
    BY <1>8 DEF BreakSend
  <2> QED
    BY <2>1
<1> QED
  BY <1>1, <1>2, <1>3, <1>4, <1>5, <1>6, <1>7, <1>8 DEF SendStep

LEMMA MailInvHolds == SubscriptionsSpec => []MailInv
<1> USE SubscriptionsAssumption DEF SubscriptionsTypeOK, MailInv, UnderWay, NobodyMailed
<1>1. SubscriptionsInit => MailInv
  BY DEF SubscriptionsInit
<1>2. SubscriptionsTypeOK /\ MailInv /\ [SubscriptionsNext]_subscriptionVars => MailInv'
  <2> SUFFICES ASSUME SubscriptionsTypeOK, MailInv, [SubscriptionsNext]_subscriptionVars
               PROVE  MailInv'
    OBVIOUS
  <2>1. CASE UNCHANGED <<sentAge, mailedAge, sendVars, excused>>
    BY <2>1 DEF sendVars
  <2>2. CASE SendMinute
    <3>1. \A a, b \in 0..(Slot + 1) :
             /\ a >= b => Elder(a, Slot + 1) >= Elder(b, Slot + 1)
             /\ a > Slot => Elder(a, Slot + 1) > Slot
      BY DEF Elder
    <3>2. /\ sentAge' = Elder(sentAge, Slot + 1)
          /\ \A p \in People : mailedAge'[p] = Elder(mailedAge[p], Slot + 1)
          /\ UNCHANGED <<sendPc, sendTo, refused, seen, excused>>
      BY <2>2 DEF SendMinute, sendVars
    <3> QED
      BY <3>1, <3>2
  <2> QED
    BY <2>1, <2>2, SendKeepsMail
    DEF SubscriptionsNext, SetRecipients, Unsubscribe, SetRow, subscriptionVars
<1> QED
  BY <1>1, <1>2, SubscriptionsTypeCorrect, PTL DEF SubscriptionsSpec

\* For any slot, wait, people and number of copies of a send, nobody is mailed twice for
\* one slot, unless two sends ran at once or one was broken off among its mails
\* (tasks/subscriptions.py:109).
THEOREM MailedOncePerSlot == SubscriptionsSpec => OncePerSlot
<1>1. SubscriptionsTypeOK /\ MailInv /\ [SubscriptionsNext]_subscriptionVars =>
        [\A j \in Sends : \A p \in sendTo[j] \ sendTo'[j] :
           sendPc'[j] = "mailing" => mailedAge[p] > Slot \/ excused]_subscriptionVars
  <2> SUFFICES ASSUME SubscriptionsTypeOK, MailInv, SubscriptionsNext, ~excused,
                      NEW j \in Sends, NEW p \in sendTo[j] \ sendTo'[j], sendPc'[j] = "mailing"
               PROVE  mailedAge[p] > Slot
    OBVIOUS
  <2> USE DEF SubscriptionsTypeOK, SendGoto, SendForgets
  <2>1. PICK i \in Sends : QueueSend(i) \/ SendStep(i) \/ BreakSend(i)
    BY DEF SubscriptionsNext, SetRecipients, Unsubscribe, SetRow, SendMinute, sendVars
  <2>2. i = j
    BY <2>1 DEF SendStep, QueueSend, StartSend, SkipSend, DrawPicture, RecordProblem,
        MailRecipient, EndSend, BreakSend
  <2>3. sendPc[j] \in {"drawing", "mailing"}
    BY <2>1, <2>2 DEF SendStep, QueueSend, StartSend, SkipSend, DrawPicture, RecordProblem,
        MailRecipient, EndSend, BreakSend
  <2> QED
    BY <2>3 DEF MailInv, NobodyMailed
<1> QED
  BY <1>1, MailInvHolds, SubscriptionsTypeCorrect, PTL DEF SubscriptionsSpec, OncePerSlot

-----------------------------------------------------------------------------
(*************************************************************************)
(* Alerts: subscribers know the state that an alert is in, and an alert  *)
(* fires again in the same state only when the rearm has passed.         *)
(*************************************************************************)

\* What a result means to an alert is a state, or raises.
LEMMA VerdictType == \A a \in AlertIds : Verdict(a) \in States \cup {"raises"}
<1>1. ASSUME NEW op, NEW value, NEW threshold
      PROVE  NextState(op, value, threshold) \in States \cup {"raises"}
  BY DEF NextState, States
<1>2. ASSUME NEW a \in AlertIds PROVE Verdict(a) \in States \cup {"raises"}
  <2> DEFINE o == options[a]
             values == {result[i] : i \in 1..Len(result)}
             odd    == {i \in 1..Len(result) : result[i] \in {Null, Text}}
             first  == CHOOSE i \in odd : \A k \in odd : i <= k
  <2>1. Verdict(a) =
           IF result = <<>> THEN "unknown"
           ELSE IF o.selector = "first"
                THEN IF result[1] = Null THEN "unknown" ELSE NextState(o.op, result[1], o.threshold)
           ELSE IF odd # {} THEN IF result[first] = Text THEN "unknown" ELSE "raises"
           ELSE NextState(o.op, Extreme(o.selector, values), o.threshold)
    BY DEF Verdict, Evaluate
  <2> HIDE DEF o, values, odd, first
  <2>2. NextState(o.op, result[1], o.threshold) \in States \cup {"raises"}
    BY <1>1
  <2>3. NextState(o.op, Extreme(o.selector, values), o.threshold) \in States \cup {"raises"}
    BY <1>1
  <2>4. {"unknown", "raises"} \subseteq States \cup {"raises"}
    BY DEF States
  <2> QED
    BY <2>1, <2>2, <2>3, <2>4
<1> QED
  BY <1>2

\* A check holds an alert from its decision until it has told the subscribers, and
\* what is not there has no history.
CheckHolds ==
    /\ \A j \in CheckJobs : checking[j] \in AlertIds <=> checkPc[j] \in {"write", "notify"}
    /\ \A a \in AlertIds \ alerts :
          state[a] = "unknown" /\ told[a] = NobodyYet /\ firedAge[a] = NotFired

AlertsTyped == AlertsTypeOK /\ CheckHolds

LEMMA AlertsTypedHolds == AlertsSpec => []AlertsTyped
<1> USE DEF AlertsTyped, AlertsTypeOK, CheckHolds, CheckGoto, CheckForgets
<1>0. /\ "unknown" \in States /\ {0, NotFired} \subseteq FiredAges
      /\ NobodyYet \notin AlertIds
  BY AlertsAssumption DEF States, FiredAges, NotFired, NobodyYet
<1> USE <1>0
<1>1. AlertsInit => AlertsTyped
  <2> SUFFICES ASSUME AlertsInit PROVE AlertsTyped
    OBVIOUS
  <2>1. /\ result \in Results \cup {<<>>} /\ alerts \subseteq AlertIds
        /\ options \in [AlertIds -> Options] /\ muted \in [AlertIds -> BOOLEAN]
        /\ state \in [AlertIds -> States] /\ firedAge \in [AlertIds -> FiredAges]
        /\ disturbed \in [AlertIds -> BOOLEAN] /\ fresh \in BOOLEAN
    BY DEF AlertsInit
  <2>2. /\ checkPc \in [CheckJobs -> {"idle", "queued", "next", "write", "notify"}]
        /\ todo \in [CheckJobs -> SUBSET AlertIds]
        /\ checking \in [CheckJobs -> AlertIds \cup {NobodyYet}]
    BY DEF AlertsInit
  <2>3. decided \in [CheckJobs -> [old : States, new : States]]
    BY DEF AlertsInit
  <2>4. /\ told \in [AlertIds -> States \cup {NobodyYet}]
        /\ lastFire \in [AlertIds -> [state : States \cup {NobodyYet}, age : FiredAges]]
    BY DEF AlertsInit
  <2>5. CheckHolds
    BY DEF AlertsInit
  <2> QED
    BY <2>1, <2>2, <2>3, <2>4, <2>5
<1>2. AlertsTyped /\ [AlertsNext]_alertsVars => AlertsTyped'
  <2> SUFFICES ASSUME AlertsTyped, [AlertsNext]_alertsVars PROVE AlertsTyped'
    OBVIOUS
  <2>0. \A b \in FiredAges : Older(b) \in FiredAges
    BY AlertsAssumption DEF Older, FiredAges, NotFired
  <2>1. ASSUME NEW r \in Results, StoreResult(r) PROVE AlertsTyped'
    BY <2>1 DEF StoreResult
  <2>2. ASSUME NEW j \in CheckJobs, checkPc[j] # "idle", CheckRaises(j) PROVE AlertsTyped'
    <3>1. disturbed' \in [AlertIds -> BOOLEAN]
      <4>1. \A a \in AlertIds : (disturbed[a] \/ (a \in alerts /\ a = checking[j])) \in BOOLEAN
        OBVIOUS
      <4> QED
        BY <2>2, <4>1 DEF CheckRaises
    <3> QED
      BY <2>2, <3>1 DEF CheckRaises
  <2>3. ASSUME NEW j \in CheckJobs, CheckStep(j) PROVE AlertsTyped'
    <3>1. CASE StartCheck(j)
      BY <3>1 DEF StartCheck
    <3>2. ASSUME NEW a \in AlertIds, EvaluateAlert(j, a) PROVE AlertsTyped'
      <4>1. Verdict(a) \in States /\ a \in alerts /\ checkPc[j] = "next"
        BY <3>2, VerdictType DEF EvaluateAlert
      <4>2. disturbed' \in [AlertIds -> BOOLEAN] /\ fresh' \in BOOLEAN
        <5>1. (AnotherAt(j, a) \/ (disturbed[a] /\ ~(ShouldNotify(a, Verdict(a)) /\ ~Settles(state[a], Verdict(a)))))
                \in BOOLEAN /\ (fresh /\ ~AnotherAt(j, a)) \in BOOLEAN
          OBVIOUS
        <5>2. disturbed' = [disturbed EXCEPT ![a] =
                AnotherAt(j, a) \/ (disturbed[a] /\ ~(ShouldNotify(a, Verdict(a)) /\ ~Settles(state[a], Verdict(a))))]
              /\ fresh' = (fresh /\ ~AnotherAt(j, a))
          BY <3>2 DEF EvaluateAlert
        <5> HIDE DEF AlertsTyped
        <5> QED
          BY <5>1, <5>2 DEF AlertsTyped
      <4>3. CASE ShouldNotify(a, Verdict(a))
        <5>1. /\ checkPc' = [checkPc EXCEPT ![j] = "write"]
              /\ checking' = [checking EXCEPT ![j] = a]
              /\ decided' = [decided EXCEPT ![j] = [old |-> state[a], new |-> Verdict(a)]]
              /\ todo' = [todo EXCEPT ![j] = @ \ {a}]
              /\ UNCHANGED <<result, alerts, options, muted, state, firedAge, told, lastFire>>
          BY <3>2, <4>3 DEF EvaluateAlert
        <5> QED
          BY <4>1, <4>2, <5>1
      <4>4. CASE ~ShouldNotify(a, Verdict(a))
        BY <3>2, <4>1, <4>2, <4>4 DEF EvaluateAlert
      <4> QED
        BY <4>3, <4>4
    <3>3. ASSUME NEW a \in AlertIds, EvaluateRaises(j, a) PROVE AlertsTyped'
      BY <3>3, <2>2 DEF EvaluateRaises
    <3>4. CASE WriteAlert(j)
      BY <3>4 DEF WriteAlert, RecordFire
    <3>5. CASE NotifySubscriptions(j)
      <4>1. disturbed' \in [AlertIds -> BOOLEAN]
        <5>1. (disturbed[checking[j]] \/ (muted[checking[j]] /\ ~Settling(j))) \in BOOLEAN
          OBVIOUS
        <5> QED
          BY <3>5, <5>1 DEF NotifySubscriptions
      <4> QED
        BY <3>5, <4>1 DEF NotifySubscriptions
    <3>6. CASE AlertGone(j)
      BY <3>6, <2>2 DEF AlertGone
    <3>7. CASE EndCheck(j)
      BY <3>7 DEF EndCheck
    <3> QED
      BY <2>3, <3>1, <3>2, <3>3, <3>4, <3>5, <3>6, <3>7 DEF CheckStep
  <2>4. ASSUME NEW j \in CheckJobs, KillCheck(j) PROVE AlertsTyped'
    BY <2>4, <2>2 DEF KillCheck
  <2>5. ASSUME NEW a \in AlertIds, EvaluateNow(a) PROVE AlertsTyped'
    <3>1. Verdict(a) \in States
      BY <2>5, VerdictType DEF EvaluateNow
    <3>2. disturbed' \in [AlertIds -> BOOLEAN] /\ fresh' \in BOOLEAN
      <4>1. (\E j \in CheckJobs : checking[j] = a) \in BOOLEAN
            /\ (fresh /\ \A j \in CheckJobs : checking[j] # a) \in BOOLEAN
        OBVIOUS
      <4> QED
        BY <2>5, <4>1 DEF EvaluateNow
    <3> QED
      <4>1. /\ state' \in [AlertIds -> States] /\ firedAge' \in [AlertIds -> FiredAges]
            /\ lastFire' \in [AlertIds -> [state : States \cup {NobodyYet}, age : FiredAges]]
            /\ told' \in [AlertIds -> States \cup {NobodyYet}]
        <5>1. CASE ShouldNotify(a, Verdict(a))
          <6>1. /\ state' = [state EXCEPT ![a] = Verdict(a)]
                /\ firedAge' = [firedAge EXCEPT ![a] = 0]
                /\ lastFire' = [lastFire EXCEPT ![a] = [state |-> Verdict(a), age |-> 0]]
                /\ told' = [told EXCEPT ![a] = Verdict(a)]
            BY <2>5, <5>1 DEF EvaluateNow
          <6> QED
            BY <3>1, <6>1
        <5>2. CASE ~ShouldNotify(a, Verdict(a))
          BY <2>5, <3>1, <5>2 DEF EvaluateNow
        <5> QED
          BY <5>1, <5>2
      <4>2. \A b \in AlertIds \ {a} :
               state'[b] = state[b] /\ told'[b] = told[b] /\ firedAge'[b] = firedAge[b]
        BY <2>5 DEF EvaluateNow
      <4> QED
        BY <2>5, <3>2, <4>1, <4>2 DEF EvaluateNow, checkVars
  <2>6. ASSUME NEW a \in AlertIds, DeleteAlert(a) PROVE AlertsTyped'
    BY <2>6 DEF DeleteAlert, checkVars
  <2>7. ASSUME NEW a \in AlertIds, NEW o \in Options, EditAlert(a, o) \/ CreateAlert(a, o)
        PROVE  AlertsTyped'
    <3>1. /\ options' \in [AlertIds -> Options] /\ muted' \in [AlertIds -> BOOLEAN]
          /\ alerts \subseteq alerts' /\ alerts' \subseteq AlertIds /\ fresh' = FALSE
      <4>1. CASE EditAlert(a, o)
        BY <4>1 DEF EditAlert
      <4>2. CASE CreateAlert(a, o)
        BY <4>2 DEF CreateAlert
      <4> QED
        BY <2>7, <4>1, <4>2
    <3>2. UNCHANGED <<result, state, firedAge, checkVars, told, lastFire, disturbed>>
      BY <2>7 DEF EditAlert, CreateAlert
    <3> QED
      BY <3>1, <3>2 DEF checkVars
  <2>8. ASSUME NEW a \in AlertIds, NEW on \in BOOLEAN, SetMuted(a, on) PROVE AlertsTyped'
    BY <2>8 DEF SetMuted, checkVars
  <2>9. CASE AlertsTick
    <3>1. /\ firedAge' \in [AlertIds -> FiredAges]
          /\ lastFire' \in [AlertIds -> [state : States \cup {NobodyYet}, age : FiredAges]]
      BY <2>9, <2>0 DEF AlertsTick
    <3>2. Older(NotFired) = NotFired
      BY DEF Older
    <3> QED
      BY <2>9, <3>1, <3>2 DEF AlertsTick, checkVars
  <2>10. CASE UNCHANGED alertsVars
    BY <2>10 DEF alertsVars, checkVars
  <2> QED
    BY <2>1, <2>3, <2>4, <2>5, <2>6, <2>7, <2>8, <2>9, <2>10 DEF AlertsNext
<1> QED
  BY <1>1, <1>2, PTL DEF AlertsSpec

\* Every variable keeps to its values.
THEOREM AlertsTypeCorrect == AlertsSpec => []AlertsTypeOK
<1>1. AlertsTyped => AlertsTypeOK
  BY DEF AlertsTyped
<1> QED
  BY <1>1, AlertsTypedHolds, PTL

-----------------------------------------------------------------------------

\* The subscribers were told the state, or of a state that nobody is told to leave.
Informed(a) ==
    \/ told[a] = state[a]
    \/ state[a] \in {"unknown", "ok"} /\ told[a] \in {"unknown", NobodyYet}

\* A check that is at an alert is the only one, knows the state that it is in, and
\* will tell of it; before it writes, it has a reason to.
AtWork(j, a) ==
    /\ \A i \in CheckJobs : checking[i] = a => i = j
    /\ Settling(j) => Informed(a)
    /\ checkPc[j] = "write" =>
          /\ decided[j].old = state[a]
          /\ decided[j].new # state[a] \/ firedAge[a] > Rearm
    /\ checkPc[j] = "notify" => decided[j].new = state[a]

\* The last fire is the state that the alert is in, unless it has never fired.
FireInv(a) ==
    /\ lastFire[a].state \in {state[a], NobodyYet}
    /\ lastFire[a].state = NobodyYet => state[a] = "unknown"
    /\ lastFire[a].age = firedAge[a]

WorkInv(a) == ~disturbed[a] =>
    /\ \A j \in CheckJobs : checking[j] = a => AtWork(j, a)
    /\ (\A j \in CheckJobs : checking[j] # a) => Informed(a)

CheckInv ==
    /\ \A a \in alerts : FireInv(a) /\ WorkInv(a)
    /\ \A a \in AlertIds \ alerts :
          lastFire[a] = [state |-> NobodyYet, age |-> NotFired] /\ ~disturbed[a]

\* What is not at an alert leaves it as it is.
LEMMA Elsewhere ==
    ASSUME NEW a \in AlertIds, WorkInv(a),
           disturbed'[a] = disturbed[a], told'[a] = told[a], state'[a] = state[a],
           firedAge'[a] = firedAge[a],
           \A i \in CheckJobs : checking'[i] = a <=> checking[i] = a,
           \A i \in CheckJobs : checking[i] = a =>
              checkPc'[i] = checkPc[i] /\ decided'[i] = decided[i]
    PROVE  WorkInv(a)'
<1>1. Informed(a)' <=> Informed(a)
  BY DEF Informed
<1>2. ASSUME NEW i \in CheckJobs, checking[i] = a, AtWork(i, a) PROVE AtWork(i, a)'
  BY <1>1, <1>2 DEF AtWork, Settling
<1> QED
  BY <1>1, <1>2 DEF WorkInv

\* The steps of a check.
LEMMA CheckKeepsInv ==
    ASSUME AlertsTyped, CheckInv, NEW j \in CheckJobs, CheckStep(j) \/ KillCheck(j)
    PROVE  CheckInv'
<1> USE DEF AlertsTyped, AlertsTypeOK, CheckHolds, CheckGoto, CheckForgets, CheckInv
<1>0. NobodyYet \notin AlertIds /\ NobodyYet \notin States
  BY AlertsAssumption DEF NobodyYet, States
<1> USE <1>0
<1>1. ASSUME CheckRaises(j) PROVE CheckInv'
  <2>1. UNCHANGED <<alerts, state, firedAge, told, lastFire>>
    BY <1>1 DEF CheckRaises
  <2>2. \A a \in AlertIds \ alerts : ~disturbed'[a]
    BY <1>1 DEF CheckRaises
  <2>3. ASSUME NEW a \in alerts PROVE WorkInv(a)'
    <3>1. CASE a = checking[j]
      BY <1>1, <3>1 DEF CheckRaises, WorkInv
    <3>2. CASE a # checking[j]
      <4>1. disturbed'[a] = disturbed[a]
        BY <1>1, <3>2 DEF CheckRaises
      <4>2. \A i \in CheckJobs : checking'[i] = a <=> checking[i] = a
        BY <1>1, <3>2 DEF CheckRaises
      <4>3. \A i \in CheckJobs : checking[i] = a =>
               checkPc'[i] = checkPc[i] /\ decided'[i] = decided[i]
        BY <1>1, <3>2 DEF CheckRaises
      <4> QED
        BY <2>1, <4>1, <4>2, <4>3, Elsewhere
    <3> QED
      BY <3>1, <3>2
  <2> QED
    BY <2>1, <2>2, <2>3 DEF FireInv
<1>2. ASSUME NEW a \in AlertIds, EvaluateAlert(j, a) PROVE CheckInv'
  <2> DEFINE notify == ShouldNotify(a, Verdict(a))
             settles == Settles(state[a], Verdict(a))
  <2>1. /\ UNCHANGED <<alerts, state, firedAge, told, lastFire>>
        /\ a \in alerts /\ checkPc[j] = "next" /\ checking[j] \notin AlertIds
        /\ disturbed' = [disturbed EXCEPT ![a] =
               AnotherAt(j, a) \/ (disturbed[a] /\ ~(notify /\ ~settles))]
    BY <1>2 DEF EvaluateAlert
  <2>2. IF notify
        THEN /\ checkPc' = [checkPc EXCEPT ![j] = "write"]
             /\ checking' = [checking EXCEPT ![j] = a]
             /\ decided' = [decided EXCEPT ![j] = [old |-> state[a], new |-> Verdict(a)]]
        ELSE UNCHANGED <<checkPc, checking, decided>>
    BY <1>2 DEF EvaluateAlert
  <2> HIDE DEF notify, settles
  <2>3. ASSUME NEW b \in alerts, b # a PROVE WorkInv(b)'
    <3>1. disturbed'[b] = disturbed[b]
      BY <2>1, <2>3
    <3>2. \A i \in CheckJobs : checking'[i] = b <=> checking[i] = b
      BY <2>1, <2>2, <2>3
    <3>3. \A i \in CheckJobs : checking[i] = b =>
             checkPc'[i] = checkPc[i] /\ decided'[i] = decided[i]
      BY <2>1, <2>2, <2>3
    <3> QED
      BY <2>1, <3>1, <3>2, <3>3, Elsewhere
  <2>4. ASSUME ~disturbed'[a] PROVE WorkInv(a)'
    <3>1. (\A i \in CheckJobs : checking[i] # a) /\ (disturbed[a] => notify /\ ~settles)
      BY <2>1, <2>4 DEF AnotherAt
    <3>2. disturbed[a] \/ Informed(a)
      BY <2>1, <3>1 DEF WorkInv
    <3>3. CASE notify
      <4>1. /\ checking'[j] = a /\ checkPc'[j] = "write"
            /\ decided'[j].old = state[a] /\ decided'[j].new = Verdict(a)
        BY <2>2, <3>3
      <4>2. Settling(j)' => settles
        BY <4>1 DEF Settling, settles, Settles
      <4>3. Settling(j)' => Informed(a)'
        BY <2>1, <3>1, <3>2, <4>2 DEF Informed
      <4>4. Verdict(a) # state[a] \/ firedAge[a] > Rearm
        BY <3>3 DEF notify, ShouldNotify
      <4>5. \A i \in CheckJobs : checking'[i] = a => i = j
        BY <2>2, <3>1, <3>3
      <4>6. AtWork(j, a)'
        BY <2>1, <4>1, <4>3, <4>4, <4>5 DEF AtWork
      <4> QED
        BY <4>1, <4>5, <4>6 DEF WorkInv
    <3>4. CASE ~notify
      BY <2>1, <2>2, <3>1, <3>2, <3>4 DEF WorkInv, Informed
    <3> QED
      BY <3>3, <3>4
  <2>5. disturbed'[a] => WorkInv(a)'
    BY DEF WorkInv
  <2> QED
    BY <2>1, <2>3, <2>4, <2>5 DEF FireInv
<1>3. CASE WriteAlert(j)
  <2>0. PICK a \in alerts : a = checking[j]
    BY <1>3 DEF WriteAlert, RecordFire
  <2>1. /\ a \in alerts /\ checkPc[j] = "write"
        /\ checkPc' = [checkPc EXCEPT ![j] = "notify"]
        /\ state' = [state EXCEPT ![a] = decided[j].new]
        /\ firedAge' = [firedAge EXCEPT ![a] = 0]
        /\ lastFire' = [lastFire EXCEPT ![a] = [state |-> decided[j].new, age |-> 0]]
        /\ UNCHANGED <<alerts, checking, decided, told, disturbed>>
    BY <1>3, <2>0 DEF WriteAlert, RecordFire
  <2>2. \A b \in alerts : FireInv(b)'
    BY <2>1 DEF FireInv
  <2>3. ASSUME NEW b \in alerts, b # a PROVE WorkInv(b)'
    <3>1. \A i \in CheckJobs : checking[i] = b => i # j
      BY <2>0, <2>3
    <3> QED
      BY <2>1, <2>3, <3>1, Elsewhere
  <2>4. ASSUME ~disturbed[a] PROVE WorkInv(a)'
    <3>1. AtWork(j, a) /\ checking[j] = a
      BY <2>1, <2>0, <2>4 DEF WorkInv
    <3>2. state'[a] = decided[j].new /\ told'[a] = told[a]
      BY <2>1
    <3>3. Settling(j) => Informed(a)'
      BY <2>1, <3>1, <3>2 DEF Settling, Settles, AtWork, Informed, NobodyYet
    <3>4. AtWork(j, a)'
      BY <2>1, <3>1, <3>2, <3>3 DEF AtWork, Settling
    <3>5. \A i \in CheckJobs : checking[i] = a => i = j
      BY <3>1 DEF AtWork
    <3> QED
      BY <2>1, <3>1, <3>4, <3>5 DEF WorkInv
  <2>5. disturbed[a] => WorkInv(a)'
    BY <2>1 DEF WorkInv
  <2> QED
    BY <2>1, <2>2, <2>3, <2>4, <2>5
<1>4. CASE NotifySubscriptions(j)
  <2>0. PICK a \in alerts : a = checking[j]
    BY <1>4 DEF NotifySubscriptions
  <2>1. /\ a \in alerts /\ checkPc[j] = "notify"
        /\ checkPc' = [checkPc EXCEPT ![j] = "next"]
        /\ told' = IF Settling(j) \/ muted[a] THEN told
                   ELSE [told EXCEPT ![a] = decided[j].new]
        /\ disturbed' = [disturbed EXCEPT ![a] = @ \/ (muted[a] /\ ~Settling(j))]
        /\ checking' = [checking EXCEPT ![j] = NobodyYet]
        /\ decided' = [decided EXCEPT ![j] = [old |-> "unknown", new |-> "unknown"]]
        /\ UNCHANGED <<alerts, state, firedAge, lastFire>>
    BY <1>4, <2>0 DEF NotifySubscriptions
  <2>2. ASSUME NEW b \in alerts, b # a PROVE WorkInv(b)'
    <3>1. \A i \in CheckJobs : checking[i] = b => i # j
      BY <2>0, <2>2
    <3>2. \A i \in CheckJobs : /\ checking'[i] = b <=> checking[i] = b
                               /\ checking[i] = b => checkPc'[i] = checkPc[i] /\ decided'[i] = decided[i]
      BY <2>1, <3>1
    <3>3. disturbed'[b] = disturbed[b] /\ told'[b] = told[b]
      BY <2>1, <2>2
    <3> QED
      BY <2>1, <3>2, <3>3, Elsewhere
  <2>3. ASSUME ~disturbed'[a] PROVE WorkInv(a)'
    <3>1. ~disturbed[a] /\ (Settling(j) \/ ~muted[a])
      BY <2>1, <2>3
    <3>2. AtWork(j, a) /\ checking[j] = a
      BY <2>1, <2>0, <3>1 DEF WorkInv
    <3>3. Informed(a)'
      BY <2>1, <3>1, <3>2 DEF AtWork, Informed
    <3>4. \A i \in CheckJobs : checking'[i] # a
      BY <2>1, <3>2 DEF AtWork
    <3> QED
      BY <3>3, <3>4 DEF WorkInv
  <2>4. disturbed'[a] => WorkInv(a)'
    BY DEF WorkInv
  <2>5. \A b \in AlertIds \ alerts : ~disturbed'[b]
    BY <2>1
  <2> QED
    BY <2>1, <2>2, <2>3, <2>4, <2>5 DEF FireInv
<1>5. ASSUME StartCheck(j) \/ EndCheck(j) PROVE CheckInv'
  <2>1. UNCHANGED <<alerts, state, firedAge, told, lastFire, disturbed>>
    BY <1>5 DEF StartCheck, EndCheck
  <2>2. checking[j] \notin AlertIds /\ checking'[j] \notin AlertIds
    BY <1>5 DEF StartCheck, EndCheck
  <2>3. \A i \in CheckJobs : /\ checking'[i] \in AlertIds => checking'[i] = checking[i]
                             /\ checking[i] \in AlertIds =>
                                   /\ checking'[i] = checking[i]
                                   /\ checkPc'[i] = checkPc[i] /\ decided'[i] = decided[i]
    BY <1>5, <2>2 DEF StartCheck, EndCheck
  <2>4. \A a \in alerts : WorkInv(a)'
    BY <2>1, <2>3 DEF WorkInv, AtWork, Informed, Settling
  <2> QED
    BY <2>1, <2>4 DEF FireInv
<1> HIDE DEF AlertsTyped, AlertsTypeOK, CheckHolds, CheckGoto, CheckForgets, CheckInv
<1> QED
  BY <1>1, <1>2, <1>3, <1>4, <1>5 DEF CheckStep, KillCheck, EvaluateRaises, AlertGone

\* The handlers, and time.
LEMMA HandlersKeepInv ==
    ASSUME AlertsTyped, CheckInv, NEW a \in AlertIds,
           \/ EvaluateNow(a) \/ DeleteAlert(a)
           \/ \E o \in Options : EditAlert(a, o) \/ CreateAlert(a, o)
    PROVE  CheckInv'
<1> USE DEF AlertsTyped, AlertsTypeOK, CheckHolds, CheckInv
<1>0. NobodyYet \notin AlertIds
  BY AlertsAssumption DEF NobodyYet
<1>1. CASE EvaluateNow(a)
  <2>1. /\ a \in alerts
        /\ IF ShouldNotify(a, Verdict(a))
           THEN /\ state' = [state EXCEPT ![a] = Verdict(a)]
                /\ firedAge' = [firedAge EXCEPT ![a] = 0]
                /\ lastFire' = [lastFire EXCEPT ![a] = [state |-> Verdict(a), age |-> 0]]
           ELSE Verdict(a) = state[a] /\ UNCHANGED <<state, firedAge, lastFire>>
        /\ told' = [told EXCEPT ![a] = Verdict(a)]
        /\ disturbed' = [disturbed EXCEPT ![a] = \E j \in CheckJobs : checking[j] = a]
        /\ UNCHANGED <<alerts, checkPc, checking, decided>>
    BY <1>1 DEF EvaluateNow, checkVars, ShouldNotify
  <2>2. ASSUME NEW b \in alerts, b # a PROVE FireInv(b)' /\ WorkInv(b)'
    <3>1. /\ UNCHANGED <<disturbed[b], told[b], state[b], firedAge[b], lastFire[b]>>
      BY <2>1, <2>2
    <3> QED
      BY <2>1, <3>1, Elsewhere DEF FireInv
  <2>3. FireInv(a)'
    <3>1. CASE ShouldNotify(a, Verdict(a))
      <4>1. /\ state'[a] = Verdict(a) /\ firedAge'[a] = 0
            /\ lastFire'[a] = [state |-> Verdict(a), age |-> 0]
        BY <2>1, <3>1
      <4>2. Verdict(a) # NobodyYet
        BY <1>1, VerdictType DEF EvaluateNow, States, NobodyYet
      <4> QED
        BY <4>1, <4>2 DEF FireInv
    <3>2. CASE ~ShouldNotify(a, Verdict(a))
      BY <2>1, <3>2 DEF FireInv
    <3> QED
      BY <3>1, <3>2
  <2>4. told'[a] = state'[a]
    BY <2>1
  <2>5. WorkInv(a)'
    BY <2>1, <2>4 DEF WorkInv, Informed
  <2>6. \A b \in AlertIds \ alerts : lastFire'[b] = lastFire[b] /\ ~disturbed'[b]
    BY <2>1
  <2> QED
    BY <2>1, <2>2, <2>3, <2>5, <2>6
<1>2. CASE DeleteAlert(a)
  <2>1. /\ a \in alerts /\ alerts' = alerts \ {a}
        /\ state' = [state EXCEPT ![a] = "unknown"]
        /\ firedAge' = [firedAge EXCEPT ![a] = NotFired]
        /\ told' = [told EXCEPT ![a] = NobodyYet]
        /\ lastFire' = [lastFire EXCEPT ![a] = [state |-> NobodyYet, age |-> NotFired]]
        /\ disturbed' = [disturbed EXCEPT ![a] = FALSE]
        /\ UNCHANGED <<checkPc, checking, decided>>
    BY <1>2 DEF DeleteAlert, checkVars
  <2>2. ASSUME NEW b \in alerts, b # a PROVE FireInv(b)' /\ WorkInv(b)'
    <3>1. /\ UNCHANGED <<disturbed[b], told[b], state[b], firedAge[b], lastFire[b]>>
      BY <2>1, <2>2
    <3> QED
      BY <2>1, <3>1, Elsewhere DEF FireInv
  <2> QED
    BY <2>1, <2>2
<1>3. ASSUME NEW o \in Options, EditAlert(a, o) PROVE CheckInv'
  <2>1. UNCHANGED <<alerts, state, firedAge, checkVars, told, lastFire, disturbed>>
    BY <1>3 DEF EditAlert
  <2> QED
    BY <2>1, Elsewhere DEF FireInv, checkVars
<1>4. ASSUME NEW o \in Options, CreateAlert(a, o) PROVE CheckInv'
  <2>1. /\ a \notin alerts /\ alerts' = alerts \cup {a}
        /\ \A j \in CheckJobs : checking[j] # a
        /\ UNCHANGED <<state, firedAge, checkVars, told, lastFire, disturbed>>
    BY <1>4 DEF CreateAlert
  <2>2. \A b \in alerts : FireInv(b)' /\ WorkInv(b)'
    BY <2>1, Elsewhere DEF FireInv, checkVars
  <2>3. FireInv(a)' /\ WorkInv(a)'
    <3>1. /\ state[a] = "unknown" /\ told[a] = NobodyYet /\ firedAge[a] = NotFired
          /\ lastFire[a] = [state |-> NobodyYet, age |-> NotFired]
      BY <2>1
    <3> QED
      BY <2>1, <3>1 DEF FireInv, WorkInv, Informed, checkVars
  <2> QED
    BY <2>1, <2>2, <2>3
<1> QED
  BY <1>1, <1>2, <1>3, <1>4

LEMMA CheckInvHolds == AlertsSpec => []CheckInv
<1> USE DEF AlertsTyped, AlertsTypeOK, CheckHolds, CheckInv
<1>1. AlertsInit => CheckInv
  <2> SUFFICES ASSUME AlertsInit PROVE CheckInv
    OBVIOUS
  <2>1. ASSUME NEW a \in AlertIds PROVE FireInv(a)
    BY <2>1 DEF AlertsInit, FireInv
  <2>2. ASSUME NEW a \in AlertIds PROVE WorkInv(a)
    <3>1. told[a] = NobodyYet /\ state[a] = "unknown" /\ \A j \in CheckJobs : checking[j] = NobodyYet
      BY <2>2 DEF AlertsInit
    <3> QED
      BY <2>2, <3>1, AlertsAssumption DEF WorkInv, Informed, NobodyYet
  <2> QED
    BY <2>1, <2>2 DEF AlertsInit
<1>2. AlertsTyped /\ CheckInv /\ [AlertsNext]_alertsVars => CheckInv'
  <2> SUFFICES ASSUME AlertsTyped, CheckInv, [AlertsNext]_alertsVars PROVE CheckInv'
    OBVIOUS
  <2>1. ASSUME NEW r \in Results, StoreResult(r) PROVE CheckInv'
    <3>1. /\ UNCHANGED <<alerts, state, firedAge, todo, checking, decided, told, lastFire, disturbed>>
          /\ \A j \in CheckJobs : checkPc[j] # "idle" => checkPc'[j] = checkPc[j]
      BY <2>1 DEF StoreResult
    <3> QED
      BY <3>1, Elsewhere DEF FireInv
  <2>2. ASSUME NEW a \in AlertIds, NEW on \in BOOLEAN, SetMuted(a, on) PROVE CheckInv'
    <3>1. UNCHANGED <<alerts, state, firedAge, checkVars, told, lastFire, disturbed>>
      BY <2>2 DEF SetMuted
    <3> QED
      BY <3>1, Elsewhere DEF FireInv, checkVars
  <2>3. CASE AlertsTick
    <3>1. /\ firedAge' = [a \in AlertIds |-> Older(firedAge[a])]
          /\ lastFire' = [a \in AlertIds |-> [lastFire[a] EXCEPT !.age = Older(@)]]
          /\ UNCHANGED <<alerts, state, checkVars, told, disturbed>>
      BY <2>3 DEF AlertsTick
    <3>2. \A a \in alerts : FireInv(a)'
      BY <3>1 DEF FireInv
    <3>3. ASSUME NEW a \in alerts PROVE WorkInv(a)'
      <4>1. firedAge[a] > Rearm => firedAge'[a] > Rearm
        BY <3>1, AlertsAssumption DEF Older, FiredAges, NotFired
      <4>2. Informed(a)' <=> Informed(a)
        BY <3>1 DEF Informed
      <4>3. ASSUME NEW j \in CheckJobs, AtWork(j, a) PROVE AtWork(j, a)'
        BY <3>1, <4>1, <4>2, <4>3 DEF AtWork, Settling, checkVars
      <4> QED
        BY <3>1, <4>2, <4>3 DEF WorkInv, checkVars
    <3>4. \A a \in AlertIds \ alerts : lastFire'[a] = [state |-> NobodyYet, age |-> NotFired]
      BY <3>1 DEF Older
    <3> QED
      BY <3>1, <3>2, <3>3, <3>4
  <2>4. CASE UNCHANGED alertsVars
    BY <2>4, Elsewhere DEF alertsVars, checkVars, FireInv
  <2> QED
    BY <2>1, <2>2, <2>3, <2>4, CheckKeepsInv, HandlersKeepInv DEF AlertsNext
<1> QED
  BY <1>1, <1>2, AlertsTypedHolds, PTL DEF AlertsSpec

\* For any alerts, options, results, rearm and number of checks at once, once no check is
\* at an alert its subscribers know the state it is in, unless a message was withheld,
\* lost with its job, or overtaken by another check (check_alerts_for_query).
THEOREM SubscribersAreTold == AlertsSpec => []SubscribersKnow
<1>1. AlertsTyped /\ CheckInv => SubscribersKnow
  BY DEF AlertsTyped, AlertsTypeOK, CheckInv, WorkInv, Informed, SubscribersKnow
<1> QED
  BY <1>1, AlertsTypedHolds, CheckInvHolds, PTL

\* An alert fires twice in the same state only when the rearm has passed in between,
\* unless two checks were at it or a message was withheld (should_notify).
THEOREM FiresKeepTheRearm == AlertsSpec => FiresAreSpaced
<1>1. AlertsTyped /\ CheckInv /\ [AlertsNext]_alertsVars =>
        [\A j \in CheckJobs, a \in AlertIds :
           checking[j] = a /\ checkPc[j] = "write" /\ checkPc'[j] = "notify"
             => \/ lastFire[a].state # lastFire'[a].state
                \/ lastFire[a].age > Rearm
                \/ disturbed[a]]_alertsVars
  <2> SUFFICES ASSUME AlertsTyped, CheckInv, AlertsNext,
                      NEW j \in CheckJobs, NEW a \in AlertIds,
                      checking[j] = a, checkPc[j] = "write", checkPc'[j] = "notify",
                      ~disturbed[a]
               PROVE  lastFire[a].state # lastFire'[a].state \/ lastFire[a].age > Rearm
    OBVIOUS
  <2> USE DEF AlertsTyped, AlertsTypeOK
  <2>1. WriteAlert(j)
    <3>1. ASSUME NEW i \in CheckJobs, CheckStep(i) \/ KillCheck(i) PROVE WriteAlert(j)
      <4>1. CASE i # j
        BY <3>1, <4>1 DEF CheckStep, KillCheck, CheckRaises, StartCheck, EvaluateAlert, EvaluateRaises,
             WriteAlert, RecordFire, NotifySubscriptions, AlertGone, EndCheck, CheckGoto
      <4>2. CASE i = j
        BY <3>1, <4>2 DEF CheckStep, KillCheck, CheckRaises, StartCheck, EvaluateAlert, EvaluateRaises,
             WriteAlert, RecordFire, NotifySubscriptions, AlertGone, EndCheck, CheckGoto
      <4> QED
        BY <4>1, <4>2
    <3>2. ASSUME NEW r \in Results, StoreResult(r) PROVE FALSE
      BY <3>2 DEF StoreResult
    <3>3. (UNCHANGED checkVars) => FALSE
      BY DEF checkVars
    <3> QED
      BY <3>1, <3>2, <3>3 DEF AlertsNext, EvaluateNow, DeleteAlert, EditAlert, CreateAlert,
           SetMuted, AlertsTick
  <2>2. /\ a \in alerts
        /\ lastFire' = [lastFire EXCEPT ![a] = [state |-> decided[j].new, age |-> 0]]
    BY <2>1 DEF WriteAlert, RecordFire
  <2>3. AtWork(j, a) /\ FireInv(a)
    BY <2>2 DEF CheckInv, WorkInv
  <2>4. decided[j].new \in States /\ NobodyYet \notin States /\ lastFire'[a].state = decided[j].new
    BY <2>2 DEF States, NobodyYet
  <2> QED
    BY <2>3, <2>4 DEF AtWork, FireInv
<1> QED
  BY <1>1, AlertsTypedHolds, CheckInvHolds, PTL DEF AlertsSpec, FiresAreSpaced
=============================================================================
