----------------------------- MODULE PoolsProofs -----------------------------
(***************************************************************************)
(* That a pool caps the work that renews its slots, for any number of      *)
(* holders, any table of shares and any limit, whatever else is in the     *)
(* pool: as long as nothing stands still for longer than a TTL.            *)
(***************************************************************************)
EXTENDS Pools, FiniteSetTheorems, TLAPS

USE DEF Slots, Pcs, Renewers, CountingPcs

-----------------------------------------------------------------------------
(* Types *)

\* One step of one holder keeps every variable to the values it may take.
LEMMA HolderKeepsType ==
    ASSUME NEW h \in Holders, TypeOK,
           \/ Begin(h) \/ Acquire(h) \/ EndQuery(h) \/ Release(h)
           \/ Kill(h) \/ Interrupt(h)
           \/ Renew(h) \/ SlotExpires(h) \/ LockExpires(h) \/ Stall(h)
    PROVE  TypeOK'
<1> USE PoolsAssumption DEF TypeOK, Goto, RenewGoto
<1>1. CASE Begin(h)
  BY <1>1 DEF Begin
<1>2. CASE Enter(h) \/ GiveUp(h)
  BY <1>2 DEF Enter, GiveUp
<1>3. CASE Admit(h) \/ Refuse(h)
  BY <1>3 DEF Admit, Refuse, Expired
<1>4. CASE CheckFails(h)
  BY <1>4 DEF CheckFails
<1>5. CASE Drop(h) \/ Write(h)
  BY <1>5 DEF Drop, Write
<1>6. CASE ExitAdmitted(h) \/ ExitRefused(h)
  BY <1>6 DEF ExitAdmitted, ExitRefused
<1>7. CASE EndQuery(h) \/ Release(h)
  BY <1>7 DEF EndQuery, Release
<1>8. CASE Kill(h) \/ Interrupt(h)
  BY <1>8 DEF Kill, Interrupt
<1>9. CASE RenewWake(h) \/ RenewRead(h)
  BY <1>9 DEF RenewWake, RenewRead, Expired
<1>10. CASE RenewWrite(h) \/ RenewStop(h)
  BY <1>10 DEF RenewWrite, RenewStop
<1>11. CASE SlotExpires(h) \/ LockExpires(h) \/ Stall(h)
  BY <1>11 DEF SlotExpires, LockExpires, Stall
<1> QED
  BY <1>1, <1>2, <1>3, <1>4, <1>5, <1>6, <1>7, <1>8, <1>9, <1>10, <1>11
  DEF Acquire, Renew

\* Every variable keeps to its values, and the renewing thread of a holder
\* never overlaps the time in which that holder asks for room.
THEOREM TypeCorrect == Spec => []TypeOK
<1>1. Init => TypeOK
  BY DEF Init, TypeOK
<1>2. TypeOK /\ [Next]_vars => TypeOK'
  <2> SUFFICES ASSUME TypeOK, [Next]_vars PROVE TypeOK'
    OBVIOUS
  <2>1. CASE UNCHANGED vars
    BY <2>1 DEF vars, TypeOK
  <2>2. CASE Next
    BY <2>2, HolderKeepsType DEF Next
  <2> QED
    BY <2>1, <2>2
<1> QED
  BY <1>1, <1>2, PTL DEF Spec

-----------------------------------------------------------------------------
(* Who holds what while nobody stalls *)

\* The lock really excludes.  Of the holders that renew, what runs has its slot and a
\* thread for it, and no entry on its way to being dropped belongs to one that is let
\* in; a holder that does not renew may lose its entry, and take it again.
SlotInv ==
    /\ TypeOK
    /\ \A h \in Holders : Counting(h) => lock = h
    /\ \A h \in Renewing :
        pc[h] \in {"enter", "check", "write", "refused"} => slot[h] = "absent"
    /\ \A h \in Renewing : pc[h] \in {"admitted", "query"} => slot[h] = "live"
    /\ \A h \in Renewing : pc[h] = "query" => renewer[h] # "off"
    /\ \A g \in Renewing : \A h \in Holders : g \in stale[h] => pc[g] \in {"store", "idle"}

\* One step of one holder keeps SlotInv, whether or not the holder renews.
LEMMA HolderKeepsSlotInv ==
    ASSUME Faults = {},
           NEW h \in Holders, SlotInv,
           \/ Begin(h) \/ Acquire(h) \/ EndQuery(h) \/ Release(h)
           \/ Kill(h) \/ Interrupt(h)
           \/ Renew(h) \/ SlotExpires(h) \/ LockExpires(h) \/ Stall(h)
    PROVE  SlotInv'
<1> USE PoolsAssumption DEF SlotInv, TypeOK, Counting, Goto, RenewGoto
<1>0. TypeOK'
  BY HolderKeepsType
<1>1. CASE Begin(h)
  BY <1>0, <1>1 DEF Begin
<1>2. CASE Enter(h) \/ GiveUp(h)
  BY <1>0, <1>2 DEF Enter, GiveUp
<1>3. CASE Admit(h) \/ Refuse(h)
  BY <1>0, <1>3 DEF Admit, Refuse, Expired
<1>4. CASE Drop(h) \/ Write(h)
  BY <1>0, <1>4 DEF Drop, Write
<1>5. CASE ExitAdmitted(h) \/ ExitRefused(h)
  BY <1>0, <1>5 DEF ExitAdmitted, ExitRefused
<1>6. CASE EndQuery(h) \/ Release(h)
  BY <1>0, <1>6 DEF EndQuery, Release
<1>7. CASE Kill(h) \/ Interrupt(h)
  BY <1>0, <1>7 DEF Kill, Interrupt
<1>8. CASE RenewWake(h) \/ RenewRead(h)
  BY <1>0, <1>8 DEF RenewWake, RenewRead, Expired
<1>9. CASE RenewWrite(h) \/ RenewStop(h)
  BY <1>0, <1>9 DEF RenewWrite, RenewStop
<1>10. CASE SlotExpires(h) \/ LockExpires(h)
  BY <1>0, <1>10 DEF SlotExpires, LockExpires
<1>11. ~CheckFails(h) /\ ~Stall(h)
  BY DEF CheckFails, Stall
<1> QED
  BY <1>1, <1>2, <1>3, <1>4, <1>5, <1>6, <1>7, <1>8, <1>9, <1>10, <1>11
  DEF Acquire, Renew

\* SlotInv holds from the start and through every step.
THEOREM SlotInvHolds ==
    ASSUME Faults = {}
    PROVE  Spec => []SlotInv
<1>1. Init => SlotInv
  BY PoolsAssumption DEF Init, SlotInv, TypeOK, Counting
<1>2. SlotInv /\ [Next]_vars => SlotInv'
  <2> SUFFICES ASSUME SlotInv, [Next]_vars PROVE SlotInv'
    OBVIOUS
  <2>1. CASE UNCHANGED vars
    BY <2>1 DEF vars, SlotInv, TypeOK, Counting
  <2>2. CASE Next
    BY <2>2, HolderKeepsSlotInv DEF Next
  <2> QED
    BY <2>1, <2>2
<1> QED
  BY <1>1, <1>2, PTL DEF Spec

\* A running query that renews has its slot, whatever notebook cells that do not renew
\* do beside it: the pool never forgets it.
THEOREM RunningKeepsSlot ==
    ASSUME Faults = {}
    PROVE  Spec => []SlotWhileRunning
<1>1. SlotInv => SlotWhileRunning
  BY DEF SlotInv, SlotWhileRunning, Running
<1> QED
  BY <1>1, SlotInvHolds, PTL

-----------------------------------------------------------------------------
(* What room_for leaves *)

\* A share of the pool is a whole number of slots, and at most the pool.
LEMMA SlotsOfType ==
    ASSUME NEW p \in 0..100
    PROVE  SlotsOf(p) \in 0..Limit
<1>1. Limit \in Nat
  BY PoolsAssumption
<1>2. p * Limit \in Nat /\ p * Limit <= 100 * Limit
  BY <1>1
<1> QED
  BY <1>1, <1>2 DEF SlotsOf

Below(f, holders) == {h \in holders : Rank[Feature[h]] > Rank[f]}

\* Every set that room_for counts is finite.
LEMMA CountsAreFinite ==
    ASSUME NEW S \in SUBSET Holders, NEW f \in Features
    PROVE  /\ IsFiniteSet(S) /\ Cardinality(S) \in Nat
           /\ IsFiniteSet(Of(f, S)) /\ Cardinality(Of(f, S)) \in Nat
           /\ IsFiniteSet(Below(f, S)) /\ Cardinality(Below(f, S)) \in Nat
           /\ IsFiniteSet(ReservedAbove(f, S))
           /\ Cardinality(ReservedAbove(f, S)) \in Nat
<1>1. IsFiniteSet(S)
  BY PoolsAssumption, FS_Subset
<1>2. Of(f, S) \in SUBSET S /\ Below(f, S) \in SUBSET S
  BY DEF Of, Below
<1>3. ReservedAbove(f, S) \in SUBSET (Features \X (1..Limit))
  BY DEF ReservedAbove
<1>4. IsFiniteSet(ReservedAbove(f, S))
  BY <1>3, PoolsAssumption, FS_Subset
<1> QED
  BY <1>1, <1>2, <1>4, FS_Subset, FS_CardinalityType

\* How many slots there are between what a kind holds and its floor.
LEMMA IntervalAbove ==
    ASSUME NEW a \in Nat, NEW b \in Nat, a < b
    PROVE  IsFiniteSet((a + 1)..b) /\ Cardinality((a + 1)..b) = b - a
<1>1. a + 1 \in Int /\ b \in Int /\ ~(a + 1 > b) /\ b - (a + 1) + 1 = b - a
  OBVIOUS
<1> QED
  BY <1>1, FS_Interval

\* Room for one more of a kind leaves the floor of every kind that outranks it.
LEMMA RoomLeavesFloor ==
    ASSUME NEW f \in Features, NEW g \in Features, Rank[f] < Rank[g],
           NEW S \in SUBSET Holders, HasRoom(g, S)
    PROVE  Cardinality(Below(f, S)) + 1 + SlotsOf(Floor[f]) <= Limit
<1> DEFINE a == Cardinality(Of(f, S))
           b == SlotsOf(Floor[f])
           below == Cardinality(Below(f, S))
           reserved == Cardinality(ReservedAbove(g, S))
<1>1. a \in Nat /\ below \in Nat /\ reserved \in Nat /\ Cardinality(S) \in Nat
  BY CountsAreFinite
<1>2. b \in 0..Limit /\ Limit \in Nat
  BY SlotsOfType, PoolsAssumption
<1>3. below + a <= Cardinality(S)
  <2>1. Below(f, S) \cap Of(f, S) = {}
    BY PoolsAssumption DEF Below, Of
  <2>2. Below(f, S) \cup Of(f, S) \in SUBSET S
    BY DEF Below, Of
  <2>3. Cardinality(Below(f, S) \cup Of(f, S)) = below + a - Cardinality({})
    BY <2>1, CountsAreFinite, FS_Union
  <2>4. Cardinality({}) = 0
    BY FS_EmptySet
  <2>5. Cardinality(Below(f, S) \cup Of(f, S)) <= Cardinality(S)
    BY <2>2, CountsAreFinite, FS_Subset
  <2> QED
    BY <1>1, <2>3, <2>4, <2>5
<1>4. Cardinality(S) + reserved < Limit
  BY DEF HasRoom
<1>5. CASE b <= a
  BY <1>1, <1>2, <1>3, <1>4, <1>5
<1>6. CASE a < b
  <2> DEFINE kept == {f} \X ((a + 1)..b)
             pair == [r \in (a + 1)..b |-> <<f, r>>]
  <2>1. IsFiniteSet((a + 1)..b) /\ Cardinality((a + 1)..b) = b - a
    BY <1>1, <1>2, <1>6, IntervalAbove
  <2>2. pair \in Bijection((a + 1)..b, kept)
    BY DEF Bijection, Injection, Surjection, IsInjective
  <2>3. ExistsBijection((a + 1)..b, kept)
    BY <2>2 DEF ExistsBijection
  <2>4. Cardinality(kept) = b - a
    BY <2>1, <2>3, FS_Bijection
  <2>5. kept \in SUBSET ReservedAbove(g, S)
    <3>1. ASSUME NEW r \in (a + 1)..b PROVE <<f, r>> \in ReservedAbove(g, S)
      BY <1>1, <1>2 DEF ReservedAbove
    <3> QED
      BY <3>1
  <2>6. Cardinality(kept) <= reserved
    BY <2>5, CountsAreFinite, FS_Subset
  <2>7. b - a <= reserved
    BY <2>4, <2>6
  <2> QED
    BY <1>1, <1>2, <1>3, <1>4, <2>7
<1> QED
  BY <1>1, <1>2, <1>5, <1>6

-----------------------------------------------------------------------------
(* The bounds *)

\* A set of holders within the limit, the ceilings, and clear of the floors.
Fits(S) ==
    /\ Cardinality(S) <= Limit
    /\ \A f \in Features : Cardinality(Of(f, S)) <= SlotsOf(Ceiling[f])
    /\ \A f \in Features : Cardinality(Below(f, S)) + SlotsOf(Floor[f]) <= Limit

\* One more element is at most one more.
LEMMA OneHolderMore ==
    ASSUME NEW S, IsFiniteSet(S), NEW x
    PROVE  /\ Cardinality(S) \in Nat
           /\ Cardinality(S \cup {x}) \in Nat
           /\ Cardinality(S \cup {x}) <= Cardinality(S) + 1
<1>1. Cardinality(S) \in Nat
  BY FS_CardinalityType
<1>2. CASE x \in S
  <2>1. S \cup {x} = S
    BY <1>2
  <2> QED
    BY <1>1, <2>1
<1>3. CASE x \notin S
  <2>1. Cardinality(S \cup {x}) = Cardinality(S) + 1
    BY <1>3, FS_AddElement
  <2> QED
    BY <1>1, <2>1
<1> QED
  BY <1>2, <1>3

\* Whoever leaves, the rest fits.
LEMMA FewerFit ==
    ASSUME NEW S \in SUBSET Holders, NEW T \in SUBSET S, Fits(S)
    PROVE  Fits(T)
<1>1. Cardinality(T) \in Nat /\ Cardinality(S) \in Nat /\ Limit \in Nat
  BY PoolsAssumption, FS_Subset, FS_CardinalityType
<1>2. Cardinality(T) <= Limit
  <2>1. Cardinality(T) <= Cardinality(S)
    BY PoolsAssumption, FS_Subset
  <2> QED
    BY <1>1, <2>1 DEF Fits
<1>3. ASSUME NEW f \in Features
      PROVE  /\ Cardinality(Of(f, T)) <= SlotsOf(Ceiling[f])
             /\ Cardinality(Below(f, T)) + SlotsOf(Floor[f]) <= Limit
  <2>1. Of(f, T) \in SUBSET Of(f, S) /\ Below(f, T) \in SUBSET Below(f, S)
    BY DEF Of, Below
  <2>2. /\ IsFiniteSet(Of(f, S)) /\ Cardinality(Of(f, S)) \in Nat
        /\ IsFiniteSet(Below(f, S)) /\ Cardinality(Below(f, S)) \in Nat
    BY CountsAreFinite
  <2>3. Cardinality(Of(f, T)) \in Nat /\ Cardinality(Below(f, T)) \in Nat
    BY CountsAreFinite
  <2>4. Cardinality(Of(f, T)) <= Cardinality(Of(f, S))
    BY <2>1, <2>2, FS_Subset
  <2>5. Cardinality(Below(f, T)) <= Cardinality(Below(f, S))
    BY <2>1, <2>2, FS_Subset
  <2>6. SlotsOf(Ceiling[f]) \in Nat /\ SlotsOf(Floor[f]) \in Nat
    BY SlotsOfType, PoolsAssumption
  <2> QED
    BY <1>1, <2>2, <2>3, <2>4, <2>5, <2>6 DEF Fits
<1> QED
  BY <1>2, <1>3 DEF Fits

\* Who is let in with room beside everybody in the hash fits too.
LEMMA OneMoreFits ==
    ASSUME NEW S \in SUBSET Holders, NEW T \in SUBSET S, NEW h \in Holders,
           Fits(T), HasRoom(Feature[h], S)
    PROVE  Fits(T \cup {h})
<1> DEFINE k == Feature[h]
<1>1. k \in Features /\ Limit \in Nat
  BY PoolsAssumption
<1>2. IsFiniteSet(T) /\ Cardinality(T) \in Nat /\ Cardinality(S) \in Nat
  BY PoolsAssumption, FS_Subset, FS_CardinalityType
<1>3. Cardinality(T \cup {h}) <= Limit
  <2>1. Cardinality(T \cup {h}) <= Cardinality(T) + 1
    BY <1>2, OneHolderMore
  <2>2. Cardinality(T) <= Cardinality(S)
    BY PoolsAssumption, FS_Subset
  <2>3. Cardinality(S) + Cardinality(ReservedAbove(k, S)) < Limit
    BY DEF HasRoom
  <2>4. Cardinality(ReservedAbove(k, S)) \in Nat
    BY <1>1, CountsAreFinite
  <2>5. Cardinality(T \cup {h}) \in Nat
    BY <1>2, OneHolderMore
  <2> QED
    BY <1>1, <1>2, <2>1, <2>2, <2>3, <2>4, <2>5
<1>4. ASSUME NEW f \in Features
      PROVE  Cardinality(Of(f, T \cup {h})) <= SlotsOf(Ceiling[f])
  <2>1. CASE f # k
    <3>1. Of(f, T \cup {h}) = Of(f, T)
      BY <2>1 DEF Of
    <3> QED
      BY <3>1 DEF Fits
  <2>2. CASE f = k
    <3>1. Of(f, T \cup {h}) = Of(f, T) \cup {h}
      BY <2>2 DEF Of
    <3>2. /\ IsFiniteSet(Of(f, T)) /\ Cardinality(Of(f, T)) \in Nat
          /\ IsFiniteSet(Of(f, S)) /\ Cardinality(Of(f, S)) \in Nat
      BY CountsAreFinite
    <3>3. Cardinality(Of(f, T) \cup {h}) <= Cardinality(Of(f, T)) + 1
      BY <3>2, OneHolderMore
    <3>4. Of(f, T) \in SUBSET Of(f, S)
      BY DEF Of
    <3>5. Cardinality(Of(f, T)) <= Cardinality(Of(f, S))
      BY <3>2, <3>4, FS_Subset
    <3>6. Cardinality(Of(f, S)) < SlotsOf(Ceiling[f])
      BY <2>2 DEF HasRoom
    <3>7. SlotsOf(Ceiling[f]) \in Nat
      BY SlotsOfType, PoolsAssumption
    <3>8. Cardinality(Of(f, T) \cup {h}) \in Nat
      BY <3>2, OneHolderMore
    <3> QED
      BY <3>1, <3>2, <3>3, <3>5, <3>6, <3>7, <3>8
  <2> QED
    BY <2>1, <2>2
<1>5. ASSUME NEW f \in Features
      PROVE  Cardinality(Below(f, T \cup {h})) + SlotsOf(Floor[f]) <= Limit
  <2>1. CASE ~(Rank[f] < Rank[k])
    <3>1. Below(f, T \cup {h}) = Below(f, T)
      BY <2>1, PoolsAssumption DEF Below
    <3> QED
      BY <3>1 DEF Fits
  <2>2. CASE Rank[f] < Rank[k]
    <3>1. Below(f, T \cup {h}) = Below(f, T) \cup {h}
      BY <2>2, PoolsAssumption DEF Below
    <3>2. /\ IsFiniteSet(Below(f, T)) /\ Cardinality(Below(f, T)) \in Nat
          /\ IsFiniteSet(Below(f, S)) /\ Cardinality(Below(f, S)) \in Nat
      BY CountsAreFinite
    <3>3. Cardinality(Below(f, T) \cup {h}) <= Cardinality(Below(f, T)) + 1
      BY <3>2, OneHolderMore
    <3>4. Below(f, T) \in SUBSET Below(f, S)
      BY DEF Below
    <3>5. Cardinality(Below(f, T)) <= Cardinality(Below(f, S))
      BY <3>2, <3>4, FS_Subset
    <3>6. Cardinality(Below(f, S)) + 1 + SlotsOf(Floor[f]) <= Limit
      BY <1>1, <2>2, RoomLeavesFloor
    <3>7. SlotsOf(Floor[f]) \in Nat
      BY SlotsOfType, PoolsAssumption
    <3>8. Cardinality(Below(f, T) \cup {h}) \in Nat
      BY <3>2, OneHolderMore
    <3>9. Cardinality(Below(f, T) \cup {h}) <= Cardinality(Below(f, S)) + 1
      BY <3>2, <3>3, <3>5, <3>8
    <3>10. Cardinality(Below(f, T) \cup {h}) + SlotsOf(Floor[f]) <= Limit
      BY <1>1, <3>2, <3>6, <3>7, <3>8, <3>9
    <3> QED
      BY <3>1, <3>10
  <2> QED
    BY <2>1, <2>2
<1> QED
  BY <1>3, <1>4, <1>5 DEF Fits

\* Only Admit adds to what is let in, and it has counted under the lock everybody who
\* renews.
LEMMA HolderKeepsFits ==
    ASSUME Faults = {},
           NEW h \in Holders, SlotInv, Fits(LetIn),
           \/ Begin(h) \/ Acquire(h) \/ EndQuery(h) \/ Release(h)
           \/ Kill(h) \/ Interrupt(h)
           \/ Renew(h) \/ SlotExpires(h) \/ LockExpires(h) \/ Stall(h)
    PROVE  Fits(LetIn')
<1>1. LetIn \in SUBSET Holders
  BY PoolsAssumption DEF LetIn
<1>2. CASE Admit(h) /\ h \in Renewing
  <2>1. slot[h] = "absent" /\ HasRoom(Feature[h], Held)
    BY <1>2 DEF Admit, SlotInv
  <2>2. LetIn \in SUBSET Held
    BY <1>2, PoolsAssumption DEF LetIn, Held, SlotInv, Admit, Counting
  <2>3. LetIn' = LetIn \cup {h}
    BY <1>2 DEF LetIn, Admit, SlotInv, TypeOK
  <2>4. Held \in SUBSET Holders
    BY DEF Held
  <2> QED
    BY <2>1, <2>2, <2>3, <2>4, OneMoreFits
<1>3. CASE Admit(h) /\ h \notin Renewing
  <2>1. LetIn' = LetIn
    BY <1>3 DEF LetIn, Admit, SlotInv, TypeOK
  <2> QED
    BY <2>1
<1>4. CASE ~Admit(h)
  <2>1. LetIn' \in SUBSET LetIn
    <3> USE <1>4, PoolsAssumption DEF LetIn, SlotInv, TypeOK, Goto, RenewGoto
    <3>1. CASE Begin(h) \/ Enter(h) \/ GiveUp(h) \/ Refuse(h) \/ Drop(h) \/ Write(h)
      BY <3>1 DEF Begin, Enter, GiveUp, Refuse, Drop, Write
    <3>2. CASE \/ ExitAdmitted(h) \/ ExitRefused(h) \/ EndQuery(h) \/ Release(h)
               \/ Kill(h) \/ Interrupt(h)
      BY <3>2 DEF ExitAdmitted, ExitRefused, EndQuery, Release, Kill, Interrupt
    <3>3. CASE Renew(h) \/ SlotExpires(h) \/ LockExpires(h)
      BY <3>3 DEF Renew, RenewWake, RenewRead, RenewWrite, RenewStop,
                  SlotExpires, LockExpires
    <3>4. ~CheckFails(h) /\ ~Stall(h)
      BY DEF CheckFails, Stall
    <3> QED
      BY <3>1, <3>2, <3>3, <3>4 DEF Acquire
  <2> QED
    BY <1>1, <2>1, FewerFit
<1> QED
  BY <1>2, <1>3, <1>4

\* What is let in and renews fits, in every state.
THEOREM FitsHolds ==
    ASSUME Faults = {}
    PROVE  Spec => []Fits(LetIn)
<1>1. Init => Fits(LetIn)
  <2> SUFFICES ASSUME Init PROVE Fits(LetIn)
    OBVIOUS
  <2>1. LetIn = {}
    BY PoolsAssumption DEF Init, LetIn
  <2>2. \A f \in Features : Of(f, {}) = {} /\ Below(f, {}) = {}
    BY DEF Of, Below
  <2>3. Cardinality({}) = 0
    BY FS_EmptySet
  <2>4. \A f \in Features :
          SlotsOf(Ceiling[f]) \in Nat /\ SlotsOf(Floor[f]) \in 0..Limit
    BY SlotsOfType, PoolsAssumption
  <2>5. 0 <= Limit
    BY PoolsAssumption
  <2>6. \A f \in Features : 0 <= SlotsOf(Ceiling[f]) /\ 0 + SlotsOf(Floor[f]) <= Limit
    BY <2>4, PoolsAssumption
  <2>7. Fits({})
    BY <2>2, <2>3, <2>5, <2>6 DEF Fits
  <2> QED
    BY <2>1, <2>7
<1>2. SlotInv /\ Fits(LetIn) /\ [Next]_vars => Fits(LetIn)'
  <2> SUFFICES ASSUME SlotInv, Fits(LetIn), [Next]_vars PROVE Fits(LetIn')
    BY DEF Fits
  <2>1. CASE UNCHANGED vars
    BY <2>1 DEF vars, LetIn
  <2>2. CASE Next
    BY <2>2, HolderKeepsFits DEF Next
  <2> QED
    BY <2>1, <2>2
<1> QED
  BY <1>1, <1>2, SlotInvHolds, PTL DEF Spec

\* What runs and renews is part of that, and so within the limit, the ceilings and clear
\* of the floors, with as many others in the pool as there may be: only what does not
\* renew goes past the budget.
THEOREM RunningFits ==
    ASSUME Faults = {}
    PROVE  Spec => []Fits(Running \cap Renewing)
<1>1. LetIn \in SUBSET Holders /\ Running \cap Renewing \in SUBSET LetIn
  BY PoolsAssumption DEF LetIn, Running
<1>2. Fits(LetIn) => Fits(Running \cap Renewing)
  BY <1>1, FewerFit
<1> QED
  BY <1>2, FitsHolds, PTL

-----------------------------------------------------------------------------
(* Pools implements Admission *)

\* The two measure a set of holders alike.
LEMMA SameFits ==
    ASSUME NEW S \in SUBSET Holders
    PROVE  Admission!Fits(S) <=> Fits(S)
<1>1. ASSUME NEW f \in Features
      PROVE  Admission!Of(f, S) = Of(f, S) /\ Admission!Below(f, S) = Below(f, S)
  BY DEF Admission!Of, Admission!Below, Of, Below
<1>2. \A f \in Features :
        /\ Admission!Of(f, S) = Of(f, S)
        /\ Admission!Below(f, S) = Below(f, S)
        /\ [k \in Features |-> SlotsOf(Floor[k])][f] = SlotsOf(Floor[f])
        /\ [k \in Features |-> SlotsOf(Ceiling[k])][f] = SlotsOf(Ceiling[f])
  BY <1>1
<1>3. \A T : Admission!Cardinality(T) = Cardinality(T)
  BY DEF Admission!Cardinality, Cardinality
<1> QED
  BY <1>2, <1>3 DEF Admission!Fits, Fits

\* One step of one holder lets in one or lets go one, or neither.
LEMMA HolderLetsInOrGo ==
    ASSUME Faults = {},
           NEW h \in Holders, SlotInv, Fits(LetIn),
           \/ Begin(h) \/ Acquire(h) \/ EndQuery(h) \/ Release(h)
           \/ Kill(h) \/ Interrupt(h)
           \/ Renew(h) \/ SlotExpires(h) \/ LockExpires(h) \/ Stall(h)
    PROVE  Admission!LetIn(h) \/ Admission!LetGo(h) \/ LetIn' = LetIn
<1> USE PoolsAssumption DEF LetIn, SlotInv, TypeOK, Goto, RenewGoto
<1>1. CASE Admit(h) /\ h \in Renewing
  <2>1. LetIn' = LetIn \cup {h} /\ LetIn' \in SUBSET Holders
    BY <1>1 DEF Admit
  <2>2. Fits(LetIn')
    BY HolderKeepsFits
  <2>3. Admission!Fits(LetIn \cup {h})
    BY <2>1, <2>2, SameFits
  <2> QED
    BY <2>1, <2>3 DEF Admission!LetIn
<1>2. CASE \/ EndQuery(h) \/ Kill(h) \/ Interrupt(h)
  <2>1. LetIn' = LetIn \ {h}
    BY <1>2 DEF EndQuery, Kill, Interrupt
  <2> QED
    BY <2>1 DEF Admission!LetGo
<1>3. CASE \/ Begin(h) \/ Enter(h) \/ GiveUp(h) \/ Refuse(h) \/ Drop(h) \/ Write(h)
           \/ ExitAdmitted(h) \/ ExitRefused(h) \/ Release(h)
  BY <1>3 DEF Begin, Enter, GiveUp, Refuse, Drop, Write, ExitAdmitted, ExitRefused, Release
<1>4. CASE Renew(h) \/ SlotExpires(h) \/ LockExpires(h)
  BY <1>4 DEF Renew, RenewWake, RenewRead, RenewWrite, RenewStop, SlotExpires, LockExpires
<1>5. CASE Admit(h) /\ h \notin Renewing
  BY <1>5 DEF Admit
<1>6. ~CheckFails(h) /\ ~Stall(h)
  BY DEF CheckFails, Stall
<1> QED
  BY <1>1, <1>2, <1>3, <1>4, <1>5, <1>6 DEF Acquire

\* For any number of holders, any table of shares and any limit, what Pools does with
\* hash, lock, TTLs and threads is what Admission promises of the holders that renew.
THEOREM ImplementsAdmission ==
    ASSUME Faults = {}
    PROVE  Spec => LetsInWhatFits
<1>1. Init => Admission!Init
  BY PoolsAssumption DEF Init, Admission!Init, LetIn
<1>2. SlotInv /\ Fits(LetIn) /\ [Next]_vars => [Admission!Next]_LetIn
  <2> SUFFICES ASSUME SlotInv, Fits(LetIn), [Next]_vars PROVE [Admission!Next]_LetIn
    OBVIOUS
  <2>1. CASE UNCHANGED vars
    BY <2>1 DEF vars, LetIn
  <2>2. CASE Next
    BY <2>2, HolderLetsInOrGo DEF Next, Admission!Next
  <2> QED
    BY <2>1, <2>2
<1> QED
  BY <1>1, <1>2, SlotInvHolds, FitsHolds, PTL DEF Spec, LetsInWhatFits, Admission!Spec

=============================================================================
