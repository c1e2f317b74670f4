------------------------- MODULE StreamConsumerProofs -------------------------
(***************************************************************************)
(* Proofs about StreamConsumer, for any number of jobs, any cap and any    *)
(* bounds: types, the claim that keeps the consumers of a stream apart,    *)
(* and that a saved position never passes over an event.                   *)
(***************************************************************************)
EXTENDS StreamConsumer, TLAPS

-----------------------------------------------------------------------------
(* Types, and no position past the end of the topic *)

\* consume_stream keeps every variable within its values.
LEMMA ConsumeType ==
    ASSUME TypeOK, NEW j \in Jobs, Consume(j)
    PROVE  TypeOK'
<1> USE StreamAssumption DEF TypeOK, Goto, Forget, topicVars, posVars, slotVars, Pcs, Holding, Offsets
<1>1. CASE Claim(j)
  BY <1>1 DEF Claim
<1>2. CASE Continue(j, "first", "take") \/ Continue(j, "loop", "poll")
  BY <1>2 DEF Continue
<1>3. CASE GiveUp(j)
  BY <1>3 DEF GiveUp, Trouble
<1>4. CASE Take(j)
  BY <1>4 DEF Take
<1>5. CASE Open(j)
  <2>1. StartOf(j) \in 0..head
    BY DEF StartOf
  <2> QED
    BY <1>5, <2>1 DEF Open
<1>6. CASE Stop(j)
  BY <1>6 DEF Stop
<1>7. CASE Poll(j)
  BY <1>7 DEF Poll
<1>8. CASE Flush(j)
  <2>1. done' \subseteq Offsets
    <3>1. kept[j] \in 0..head /\ next[j] \in 0..head
      OBVIOUS
    <3>2. \A e \in kept[j]..(next[j] - 1) : e \in Offsets
      BY <3>1
    <3>3. done' = done \cup kept[j]..(next[j] - 1)
      BY <1>8 DEF Flush
    <3> HIDE DEF Offsets
    <3> QED
      BY <3>2, <3>3
  <2> QED
    BY <1>8, <2>1 DEF Flush
<1>9. CASE Commit(j)
  BY <1>9 DEF Commit
<1>10. CASE Close(j)
  BY <1>10 DEF Close
<1>11. CASE Release(j)
  BY <1>11 DEF Release
<1>12. CASE Give(j)
  BY <1>12 DEF Give
<1>13. CASE Succeed(j)
  BY <1>13 DEF Succeed
<1>14. CASE ReleaseSlot(j)
  <2>1. slot' \in BOOLEAN /\ moved' \in [Jobs -> BOOLEAN]
    BY <1>14 DEF ReleaseSlot
  <2>2. pc' \in [Jobs -> Pcs]
    BY <1>14 DEF ReleaseSlot
  <2> QED
    BY <1>14, <2>1, <2>2 DEF ReleaseSlot
<1> QED
  BY <1>1, <1>2, <1>3, <1>4, <1>5, <1>6, <1>7, <1>8, <1>9, <1>10, <1>11, <1>12, <1>13, <1>14 DEF Consume

\* So does whatever goes wrong with a job.
LEMMA TroubleType ==
    ASSUME TypeOK, NEW j \in Jobs, Rebalance(j) \/ Fail(j) \/ Kill(j) \/ Lapse(j)
    PROVE  TypeOK'
<1> USE StreamAssumption DEF TypeOK, Goto, Forget, Trouble, topicVars, posVars, slotVars, Pcs, Holding, Offsets
<1>1. CASE Rebalance(j)
  <2>1. StartOf(j) \in 0..head
    BY DEF StartOf
  <2> QED
    BY <1>1, <2>1 DEF Rebalance
<1>2. CASE Fail(j)
  BY <1>2 DEF Fail
<1>3. CASE Kill(j)
  BY <1>3 DEF Kill
<1>4. CASE Lapse(j)
  BY <1>4 DEF Lapse
<1> QED
  BY <1>1, <1>2, <1>3, <1>4

\* So does whoever asks for a slot.
LEMMA AcquireType ==
    ASSUME TypeOK, NEW p \in Askers, Acquire(p)
    PROVE  TypeOK'
<1> USE StreamAssumption DEF TypeOK, AskGoto, Trouble, topicVars, posVars, slotVars, Offsets, Askers
<1>1. CASE Admit(p)
  BY <1>1 DEF Admit
<1>2. CASE Refuse(p)
  BY <1>2 DEF Refuse
<1>3. CASE RefuseOwner(p)
  BY <1>3 DEF RefuseOwner
<1>4. CASE Write(p)
  <2>1. ask' \in [Askers -> {"idle", "state", "acquire", "write", "delay", "check_in"}]
    BY <1>4 DEF Write
  <2>2. slot' \in BOOLEAN
    BY <1>4, Zenon DEF Write
  <2>3. others' \in Nat
    BY <1>4 DEF Write
  <2> QED
    BY <1>4, <2>1, <2>2, <2>3 DEF Write
<1> QED
  BY <1>1, <1>2, <1>3, <1>4 DEF Acquire

\* So do the supervisor, the page, the topic and the TTLs.
LEMMA RestType ==
    ASSUME TypeOK,
           \/ BeingConsumed \/ State \/ Delay \/ Post \/ CheckIn \/ Leave
           \/ OtherAsks \/ OtherEnds \/ Produce
           \/ ClaimExpires \/ HandoverExpires \/ SlotExpires
    PROVE  TypeOK'
<1> USE StreamAssumption DEF TypeOK, AskGoto, Goto, topicVars, posVars, slotVars, Pcs, Holding, Offsets, Askers
<1>1. CASE BeingConsumed \/ State \/ Post \/ CheckIn \/ Leave \/ OtherAsks
  BY <1>1 DEF BeingConsumed, State, Post, CheckIn, Leave, OtherAsks
<1>2. CASE Delay
  BY <1>2 DEF Delay
<1>3. CASE OtherEnds
  BY <1>3 DEF OtherEnds
<1>4. CASE Produce
  BY <1>4 DEF Produce
<1>5. CASE ClaimExpires \/ HandoverExpires \/ SlotExpires
  BY <1>5 DEF ClaimExpires, HandoverExpires, SlotExpires
<1> QED
  BY <1>1, <1>2, <1>3, <1>4, <1>5

\* The system's steps, as the proofs below tell them apart.
LEMMA NextCases ==
    ASSUME Next
    PROVE  \/ \E j \in Jobs : Consume(j)
           \/ \E j \in Jobs : Rebalance(j) \/ Fail(j) \/ Kill(j) \/ Lapse(j)
           \/ \E p \in Askers : Acquire(p)
           \/ BeingConsumed \/ State \/ Delay \/ Post \/ CheckIn \/ Leave
           \/ OtherAsks \/ OtherEnds \/ Produce
           \/ ClaimExpires \/ HandoverExpires \/ SlotExpires
  BY DEF Next, Supervise, View, Askers

\* Every variable keeps to its values, and no position that a job holds, leaves
\* to the next one or commits is past the end of the topic.
THEOREM TypeCorrect == Spec => []TypeOK
<1>1. Init => TypeOK
  <2> SUFFICES ASSUME Init PROVE TypeOK
    OBVIOUS
  <2>1. moved \in [Jobs -> BOOLEAN] /\ watched \in BOOLEAN /\ slot \in BOOLEAN
    BY DEF Init
  <2>2. pc \in [Jobs -> Pcs]
    BY DEF Init, Pcs
  <2>3. ask \in [Askers -> {"idle", "state", "acquire", "write", "delay", "check_in"}]
    BY DEF Init
  <2> QED
    BY <2>1, <2>2, <2>3, StreamAssumption DEF Init, TypeOK, Offsets
<1>2. TypeOK /\ [Next]_vars => TypeOK'
  <2> SUFFICES ASSUME TypeOK, [Next]_vars PROVE TypeOK'
    OBVIOUS
  <2>1. CASE Next
    BY <2>1, NextCases, ConsumeType, TroubleType, AcquireType, RestType
  <2>2. CASE UNCHANGED vars
    BY <2>2 DEF vars, TypeOK, topicVars, posVars, slotVars, Pcs, Holding
  <2> QED
    BY <2>1, <2>2
<1> QED
  BY <1>1, <1>2, PTL DEF Spec

-----------------------------------------------------------------------------
(* The claim *)

\* Who is between its claim and its release is the one the claim names.
ClaimInv == \A j \in Jobs : pc[j] \in Holding => claim = j

\* Two jobs cannot both be the one that the claim names.
LEMMA ClaimInvImplies == ClaimInv => OneConsumer
  BY DEF ClaimInv, OneConsumer

\* A job sets the claim only when there is none, and deletes only its own.
LEMMA ConsumeClaim ==
    ASSUME TypeOK, ClaimInv, NEW j \in Jobs, Consume(j)
    PROVE  ClaimInv'
<1> USE StreamAssumption DEF ClaimInv, TypeOK, Goto, Pcs, Holding
<1>1. CASE Claim(j)
  BY <1>1 DEF Claim
<1>2. CASE Continue(j, "first", "take") \/ Continue(j, "loop", "poll") \/ Poll(j)
  BY <1>2 DEF Continue, Poll
<1>3. CASE GiveUp(j)
  BY <1>3 DEF GiveUp
<1>4. CASE Take(j) \/ Open(j) \/ Stop(j) \/ Flush(j) \/ Commit(j)
  BY <1>4 DEF Take, Open, Stop, Flush, Commit
<1>5. CASE Close(j)
  BY <1>5 DEF Close
<1>6. CASE Release(j)
  BY <1>6 DEF Release
<1>7. CASE Give(j) \/ Succeed(j) \/ ReleaseSlot(j)
  BY <1>7 DEF Give, Succeed, ReleaseSlot
<1> QED
  BY <1>1, <1>2, <1>3, <1>4, <1>5, <1>6, <1>7 DEF Consume

\* What else happens starts no consumer, and the claim of one does not expire.
LEMMA OthersClaim ==
    ASSUME TypeOK, ClaimInv,
           \/ \E j \in Jobs : Rebalance(j) \/ Fail(j) \/ Kill(j) \/ Lapse(j)
           \/ \E p \in Askers : Acquire(p)
           \/ BeingConsumed \/ State \/ Delay \/ Post \/ CheckIn \/ Leave
           \/ OtherAsks \/ OtherEnds \/ Produce
           \/ ClaimExpires \/ HandoverExpires \/ SlotExpires
    PROVE  ClaimInv'
<1> USE StreamAssumption DEF ClaimInv, TypeOK, Goto, Pcs, Holding
<1>1. CASE \E j \in Jobs : Rebalance(j) \/ Fail(j) \/ Kill(j) \/ Lapse(j)
  BY <1>1 DEF Rebalance, Fail, Kill, Lapse
<1>2. CASE \E p \in Askers : Acquire(p)
  BY <1>2 DEF Acquire, Admit, Refuse, RefuseOwner, Write
<1>3. CASE BeingConsumed \/ State \/ Post \/ CheckIn \/ Leave \/ OtherAsks \/ OtherEnds \/ Produce
  BY <1>3 DEF BeingConsumed, State, Post, CheckIn, Leave, OtherAsks, OtherEnds, Produce
<1>4. CASE Delay
  BY <1>4 DEF Delay
<1>5. CASE ClaimExpires
  BY <1>5 DEF ClaimExpires
<1>6. CASE HandoverExpires \/ SlotExpires
  BY <1>6 DEF HandoverExpires, SlotExpires
<1> QED
  BY <1>1, <1>2, <1>3, <1>4, <1>5, <1>6

\* No two jobs of a stream are ever between their claim and their release.
THEOREM ConsumedByOne == Spec => []OneConsumer
<1>1. Init => ClaimInv
  BY DEF Init, ClaimInv, Holding
<1>2. TypeOK /\ ClaimInv /\ [Next]_vars => ClaimInv'
  <2> SUFFICES ASSUME TypeOK, ClaimInv, [Next]_vars PROVE ClaimInv'
    OBVIOUS
  <2>1. CASE Next
    BY <2>1, NextCases, ConsumeClaim, OthersClaim
  <2>2. CASE UNCHANGED vars
    BY <2>2 DEF vars, ClaimInv
  <2> QED
    BY <2>1, <2>2
<1> QED
  BY <1>1, <1>2, TypeCorrect, ClaimInvImplies, PTL DEF Spec

-----------------------------------------------------------------------------
(* The saved position *)

\* Wherever a consumer may start, now or when the group has handed out its
\* partitions again, all before is done; so is all before what a job has
\* flushed, and only between a poll and its flush is it ahead of that.
SavedInv ==
    /\ Covered(committed)
    /\ handover # None => Covered(handover)
    /\ \A j \in Jobs :
        /\ resume[j] # None => Covered(resume[j])
        /\ pc[j] \in {"loop", "poll", "flush", "commit", "close", "handover", "give"}
            => Covered(kept[j])
        /\ pc[j] \in {"loop", "poll", "commit", "close", "handover", "give"}
            => kept[j] = next[j]

\* An event that is done stays done.
LEMMA CoveredStays ==
    ASSUME NEW position, Covered(position), done \subseteq done'
    PROVE  Covered(position)'
  BY DEF Covered

\* The start of a consumer that commits is a position with all before it done.
LEMMA StartCovered ==
    ASSUME SavedInv, StartFrom = "saved", NEW j \in Jobs
    PROVE  Covered(StartOf(j))
  BY DEF SavedInv, StartOf

\* consume_stream commits and hands over what it has flushed, no more.
LEMMA ConsumeSaved ==
    ASSUME TypeOK, SavedInv, StartFrom = "saved", NEW j \in Jobs, Consume(j)
    PROVE  SavedInv'
<1> USE StreamAssumption DEF SavedInv, TypeOK, Goto, Forget, Pcs, Holding
<1>1. CASE Claim(j)
  BY <1>1 DEF Claim, topicVars, posVars, Covered
<1>2. CASE Continue(j, "first", "take") \/ Continue(j, "loop", "poll")
  BY <1>2 DEF Continue, topicVars, posVars, Covered
<1>3. CASE GiveUp(j) \/ Stop(j) \/ Close(j)
  BY <1>3 DEF GiveUp, Stop, Close, topicVars, posVars, Covered
<1>4. CASE Take(j)
  BY <1>4 DEF Take, topicVars, Covered
<1>5. CASE Open(j)
  <2>1. Covered(StartOf(j)) /\ done' = done
    BY <1>5, StartCovered DEF Open, topicVars
  <2> QED
    BY <1>5, <2>1 DEF Open, topicVars, Covered
<1>6. CASE Poll(j)
  BY <1>6 DEF Poll, topicVars, Covered
<1>7. CASE Flush(j)
  <2>1. done \subseteq done'
    BY <1>7 DEF Flush
  <2>2. Covered(next[j])'
    <3>1. Covered(kept[j]) /\ kept[j] \in 0..head /\ next[j] \in 0..head
      BY <1>7 DEF Flush
    <3>2. done' = done \cup kept[j]..(next[j] - 1) /\ next' = next
      BY <1>7 DEF Flush
    <3>3. ASSUME NEW e \in Offsets, e < next[j] PROVE e \in done'
      BY <3>1, <3>2, <3>3 DEF Covered, Offsets
    <3> QED
      BY <3>2, <3>3 DEF Covered
  <2>3. UNCHANGED <<committed, handover, resume, next>>
    BY <1>7 DEF Flush
  <2>4. Covered(committed)' /\ (handover # None => Covered(handover))'
    BY <2>1, <2>3 DEF Covered
  <2>5. \A k \in Jobs : resume'[k] # None => Covered(resume[k])'
    BY <2>1, <2>3 DEF Covered
  <2>6. \A k \in Jobs : k # j /\ Covered(kept[k]) => Covered(kept[k])'
    BY <1>7, <2>1 DEF Flush, Covered
  <2>7. kept' = [kept EXCEPT ![j] = next[j]] /\ pc' = [pc EXCEPT ![j] = "commit"]
    BY <1>7 DEF Flush
  <2> HIDE DEF TypeOK, Goto, Pcs, Holding, Forget
  <2>8. pc \in [Jobs -> Pcs] /\ kept \in [Jobs -> 0..head]
    BY DEF TypeOK
  <2> QED
    BY <2>2, <2>3, <2>4, <2>5, <2>6, <2>7, <2>8
<1>8. CASE Commit(j)
  BY <1>8 DEF Commit, posVars, Covered
<1>9. CASE Release(j) \/ Give(j)
  BY <1>9 DEF Release, Give, topicVars, posVars, Covered
<1>10. CASE Succeed(j) \/ ReleaseSlot(j)
  BY <1>10 DEF Succeed, ReleaseSlot, topicVars, Covered
<1> QED
  BY <1>1, <1>2, <1>3, <1>4, <1>5, <1>6, <1>7, <1>8, <1>9, <1>10 DEF Consume

\* Whatever goes wrong with a job, or happens elsewhere, undoes no event and
\* moves no position past one that is not done.
LEMMA OthersSaved ==
    ASSUME TypeOK, SavedInv, StartFrom = "saved",
           \/ \E j \in Jobs : Rebalance(j) \/ Fail(j) \/ Kill(j) \/ Lapse(j)
           \/ \E p \in Askers : Acquire(p)
           \/ BeingConsumed \/ State \/ Delay \/ Post \/ CheckIn \/ Leave
           \/ OtherAsks \/ OtherEnds \/ Produce
           \/ ClaimExpires \/ HandoverExpires \/ SlotExpires
    PROVE  SavedInv'
<1> USE StreamAssumption DEF SavedInv, TypeOK, Goto, Forget, Pcs, Holding, topicVars, posVars
<1>1. ASSUME NEW j \in Jobs, Rebalance(j) PROVE SavedInv'
  <2>1. Covered(StartOf(j)) /\ done' = done
    BY <1>1, StartCovered DEF Rebalance
  <2> QED
    BY <1>1, <2>1 DEF Rebalance, Covered
<1>2. ASSUME NEW j \in Jobs, Fail(j) \/ Kill(j) \/ Lapse(j) PROVE SavedInv'
  BY <1>2 DEF Fail, Kill, Lapse, Covered
<1>3. CASE \E p \in Askers : Acquire(p)
  BY <1>3 DEF Acquire, Admit, Refuse, RefuseOwner, Write, Covered
<1>4. CASE BeingConsumed \/ State \/ Post \/ CheckIn \/ Leave \/ OtherAsks \/ OtherEnds \/ Produce
  BY <1>4 DEF BeingConsumed, State, Post, CheckIn, Leave, OtherAsks, OtherEnds, Produce, Covered
<1>5. CASE Delay
  BY <1>5 DEF Delay, Covered
<1>6. CASE ClaimExpires \/ HandoverExpires \/ SlotExpires
  BY <1>6 DEF ClaimExpires, HandoverExpires, SlotExpires, Covered
<1> QED
  BY <1>1, <1>2, <1>3, <1>4, <1>5, <1>6

\* With a saved position, all before the committed offset and all before what is
\* handed over has been flushed, whichever jobs die, fail or follow each other.
THEOREM SavedPositionLosesNothing == Spec => []SavedLosesNothing
<1> DEFINE Saved == StartFrom = "saved" => SavedInv
<1>1. Init => Saved
  BY StreamAssumption DEF Init, SavedInv, Covered, Offsets
<1>2. TypeOK /\ Saved /\ [Next]_vars => Saved'
  <2> SUFFICES ASSUME TypeOK, SavedInv, StartFrom = "saved", [Next]_vars PROVE SavedInv'
    OBVIOUS
  <2>1. CASE Next
    BY <2>1, NextCases, ConsumeSaved, OthersSaved
  <2>2. CASE UNCHANGED vars
    BY <2>2 DEF vars, topicVars, posVars, SavedInv, Covered
  <2> QED
    BY <2>1, <2>2
<1>3. Saved => SavedLosesNothing
  BY DEF SavedInv, SavedLosesNothing
<1> HIDE DEF Saved
<1> QED
  BY <1>1, <1>2, <1>3, TypeCorrect, PTL DEF Spec

===============================================================================
