-------------------------------- MODULE Pools --------------------------------
(***************************************************************************)
(* One query pool (sqldesk/pools.py) as the work horses use it: room taken *)
(* under a short lock, renewed by a thread while the query runs, given     *)
(* back at the end, and expiring by itself when nobody renews it.          *)
(*                                                                         *)
(* Every slot weighs one: no caller passes another weight.  A step is one  *)
(* Redis round trip.  Time is in the guards of SlotExpires and LockExpires:*)
(* an entry that is renewed, and a lock whose owner is alive, run out only *)
(* under the fault "stall".                                                *)
(***************************************************************************)
EXTENDS Naturals, FiniteSets

CONSTANTS
    Holders,    \* what may occupy the pool: job ids, notebook-cell ids
    Features,   \* the kinds of work of the shares table
    Feature,    \* Holders -> Features
    Rank,       \* Features -> Nat, the position in the table, 0 first
    Floor,      \* Features -> percent
    Ceiling,    \* Features -> percent
    Limit,      \* the budget of the pool, not NO_LIMIT
    Renewing,   \* the holders whose slot a pool-renew thread keeps alive
    Faults,     \* what may go wrong: "stall", a delay beyond a TTL;
                \* "blip", a read of the pool that fails
    Nobody      \* the lock key is not set

ASSUME PoolsAssumption ==
    /\ IsFiniteSet(Holders)
    /\ IsFiniteSet(Features \X (1..Limit))
    /\ Nobody \notin Holders
    /\ Feature \in [Holders -> Features]
    /\ Rank \in [Features -> Nat]
    /\ Floor \in [Features -> 0..100]
    /\ Ceiling \in [Features -> 0..100]
    /\ Limit \in Nat \ {0}
    /\ Renewing \subseteq Holders
    /\ Faults \subseteq {"stall", "blip"}

VARIABLES
    slot,       \* the entry of a holder in the hash of the pool
    lock,       \* who set the lock key of the pool
    pc,         \* where the process of a holder is
    renewer,    \* where its pool-renew thread is
    stale       \* the expired entries a process or its thread has yet to drop

vars == <<slot, lock, pc, renewer, stale>>

Slots == {"absent", "live", "expired"}
CountingPcs == {"check", "write", "admitted", "refused"}
Pcs == {"idle", "enter", "check", "write", "admitted", "refused", "query", "store"}
Renewers == {"off", "wait", "read", "write"}

TypeOK ==
    /\ slot \in [Holders -> Slots]
    /\ lock \in Holders \cup {Nobody}
    /\ pc \in [Holders -> Pcs]
    /\ renewer \in [Holders -> Renewers]
    /\ stale \in [Holders -> SUBSET Holders]
    /\ \A h \in Holders :  \* the thread lives between acquire and release
        renewer[h] # "off" => h \in Renewing /\ pc[h] \notin {"enter"} \cup CountingPcs

Init ==
    /\ slot = [h \in Holders |-> "absent"]
    /\ lock = Nobody
    /\ pc = [h \in Holders |-> "idle"]
    /\ renewer = [h \in Holders |-> "off"]
    /\ stale = [h \in Holders |-> {}]

-----------------------------------------------------------------------------
(* The arithmetic of room_for *)

SlotsOf(percent) == (percent * Limit) \div 100

Of(f, holders) == {h \in holders : Feature[h] = f}

\* The unused part of the floors that outrank f, as a set of <<kind, slot>>.
ReservedAbove(f, holders) ==
    {r \in Features \X (1..Limit) :
        /\ Rank[r[1]] < Rank[f]
        /\ Cardinality(Of(r[1], holders)) < r[2]
        /\ r[2] <= SlotsOf(Floor[r[1]])}

\* room_for(f) is at least one, with holders occupying the pool.
HasRoom(f, holders) ==
    /\ Cardinality(Of(f, holders)) < SlotsOf(Ceiling[f])
    /\ Cardinality(holders) + Cardinality(ReservedAbove(f, holders)) < Limit

-----------------------------------------------------------------------------
(* held, acquire, renew, release *)

Goto(h, from, to) ==
    /\ pc[h] = from
    /\ pc' = [pc EXCEPT ![h] = to]

Held == {h \in Holders : slot[h] = "live"}

Expired == {h \in Holders : slot[h] = "expired"}

\* A job id is used once, so here it stands for a new job when nothing that
\* counts is left of the one before; a notebook cell always has the same name.
Begin(h) ==
    /\ lock # h
    /\ stale[h] = {}
    /\ Goto(h, "idle", "enter")
    /\ \/ h \notin Renewing /\ slot' = slot
       \/ /\ h \in Renewing
          /\ slot[h] # "live"
          /\ renewer[h] = "off"
          /\ \A g \in Holders : h \notin stale[g]
          /\ slot' = [slot EXCEPT ![h] = "absent"]
    /\ UNCHANGED <<lock, renewer, stale>>

\* Mutant: the lock without NX.
EnterRegardless(h) ==
    /\ Goto(h, "enter", "check")
    /\ lock' = h
    /\ UNCHANGED <<slot, renewer, stale>>

Enter(h) ==
    /\ lock = Nobody
    /\ Goto(h, "enter", "check")
    /\ lock' = h
    /\ UNCHANGED <<slot, renewer, stale>>

\* The lock did not come free in time: the refusal "could not check".
GiveUp(h) ==
    /\ lock # Nobody
    /\ Goto(h, "enter", "idle")
    /\ UNCHANGED <<slot, lock, renewer, stale>>

Admit(h) ==
    /\ pc[h] = "check"
    /\ slot[h] = "live" \/ HasRoom(Feature[h], Held)
    /\ pc' = [pc EXCEPT ![h] = "write"]
    /\ stale' = [stale EXCEPT ![h] = Expired]
    /\ UNCHANGED <<slot, lock, renewer>>

Refuse(h) ==
    /\ pc[h] = "check"
    /\ slot[h] # "live"
    /\ ~HasRoom(Feature[h], Held)
    /\ pc' = [pc EXCEPT ![h] = "refused"]
    /\ stale' = [stale EXCEPT ![h] = Expired]
    /\ UNCHANGED <<slot, lock, renewer>>

\* held answers {} when Redis cannot be read, and the pool looks empty.
CheckFails(h) ==
    /\ "blip" \in Faults
    /\ Goto(h, "check", IF HasRoom(Feature[h], {}) THEN "write" ELSE "refused")
    /\ UNCHANGED <<slot, lock, renewer, stale>>

\* The second half of held: the hash may have changed since it was read.
Drop(h) ==
    /\ stale[h] # {}
    /\ slot' = [g \in Holders |-> IF g \in stale[h] THEN "absent" ELSE slot[g]]
    /\ stale' = [stale EXCEPT ![h] = {}]
    /\ UNCHANGED <<lock, pc, renewer>>

Write(h) ==
    /\ stale[h] = {}
    /\ Goto(h, "write", "admitted")
    /\ slot' = [slot EXCEPT ![h] = "live"]
    /\ UNCHANGED <<lock, renewer, stale>>

\* Mutant: the query runs without its renewing thread.
ExitWithoutThread(h) ==
    /\ Goto(h, "admitted", "query")
    /\ lock' = Nobody
    /\ UNCHANGED <<slot, renewer, stale>>

\* __exit__ deletes the lock key, whoever set it; the query starts and with it
\* the thread that renews the slot.
ExitAdmitted(h) ==
    /\ Goto(h, "admitted", "query")
    /\ lock' = Nobody
    /\ renewer' = [renewer EXCEPT ![h] = IF h \in Renewing THEN "wait" ELSE "off"]
    /\ UNCHANGED <<slot, stale>>

ExitRefused(h) ==
    /\ stale[h] = {}
    /\ Goto(h, "refused", "idle")
    /\ lock' = Nobody
    /\ UNCHANGED <<slot, renewer, stale>>

Acquire(h) ==
    \/ Enter(h) \/ GiveUp(h) \/ Admit(h) \/ Refuse(h) \/ CheckFails(h)
    \/ Drop(h) \/ Write(h) \/ ExitAdmitted(h) \/ ExitRefused(h)

\* The data source has answered; keep_slot is set, the thread not joined.
EndQuery(h) ==
    /\ Goto(h, "query", "store")
    /\ UNCHANGED <<slot, lock, renewer, stale>>

Release(h) ==
    /\ Goto(h, "store", "idle")
    /\ slot' = [slot EXCEPT ![h] = "absent"]
    /\ UNCHANGED <<lock, renewer, stale>>

\* The process dies; what it holds in Redis stays.
Kill(h) ==
    /\ pc[h] # "idle"
    /\ pc' = [pc EXCEPT ![h] = "idle"]
    /\ renewer' = [renewer EXCEPT ![h] = "off"]
    /\ stale' = [stale EXCEPT ![h] = {}]
    /\ UNCHANGED <<slot, lock>>

\* The monitor's SIGINT raises before run has reached its finally: the lock is
\* given back on the way out, a slot just written is not.
Interrupt(h) ==
    /\ pc[h] \in {"enter"} \cup CountingPcs
    /\ pc' = [pc EXCEPT ![h] = "idle"]
    /\ lock' = IF pc[h] = "enter" THEN lock ELSE Nobody
    /\ stale' = [stale EXCEPT ![h] = {}]
    /\ UNCHANGED <<slot, renewer>>

-----------------------------------------------------------------------------
(* The pool-renew thread *)

RenewGoto(h, from, to) ==
    /\ renewer[h] = from
    /\ renewer' = [renewer EXCEPT ![h] = to]

\* Mutant: the thread does not look at the stop event.
WakeRegardless(h) ==
    /\ RenewGoto(h, "wait", "read")
    /\ UNCHANGED <<slot, lock, pc, stale>>

RenewWake(h) ==
    /\ pc[h] = "query"
    /\ stale[h] = {}
    /\ RenewGoto(h, "wait", "read")
    /\ UNCHANGED <<slot, lock, pc, stale>>

RenewRead(h) ==
    /\ RenewGoto(h, "read", IF slot[h] = "live" THEN "write" ELSE "wait")
    /\ stale' = [stale EXCEPT ![h] = Expired]
    /\ UNCHANGED <<slot, lock, pc>>

\* Not under the lock, and not looking whether the slot is still there.
RenewWrite(h) ==
    /\ stale[h] = {}
    /\ RenewGoto(h, "write", "wait")
    /\ slot' = [slot EXCEPT ![h] = "live"]
    /\ UNCHANGED <<lock, pc, stale>>

RenewStop(h) ==
    /\ pc[h] # "query"
    /\ stale[h] = {}
    /\ RenewGoto(h, "wait", "off")
    /\ UNCHANGED <<slot, lock, pc, stale>>

Renew(h) == RenewWake(h) \/ RenewRead(h) \/ RenewWrite(h) \/ RenewStop(h)

-----------------------------------------------------------------------------
(* Time *)

Counting(h) == pc[h] \in CountingPcs

\* QUERY_SLOT_TTL_SECONDS after the last write, three renewals apart.
SlotExpires(h) ==
    /\ slot[h] = "live"
    /\ renewer[h] = "off"
    /\ pc[h] # "admitted"
    /\ slot' = [slot EXCEPT ![h] = "expired"]
    /\ UNCHANGED <<lock, pc, renewer, stale>>

\* LOCK_SECONDS after it was set, which is long for one read and one write.
LockExpires(h) ==
    /\ lock = h
    /\ ~Counting(h)
    /\ lock' = Nobody
    /\ UNCHANGED <<slot, pc, renewer, stale>>

\* A process, or its Redis, stands still for longer than the TTL.
Stall(h) ==
    /\ "stall" \in Faults
    /\ \/ /\ lock = h
          /\ Counting(h)
          /\ lock' = Nobody
          /\ UNCHANGED slot
       \/ /\ slot[h] = "live"
          /\ renewer[h] # "off" \/ pc[h] = "admitted"
          /\ slot' = [slot EXCEPT ![h] = "expired"]
          /\ UNCHANGED lock
    /\ UNCHANGED <<pc, renewer, stale>>

-----------------------------------------------------------------------------

Next ==
    \E h \in Holders :
        \/ Begin(h) \/ Acquire(h) \/ EndQuery(h) \/ Release(h)
        \/ Kill(h) \/ Interrupt(h)
        \/ Renew(h) \/ SlotExpires(h) \/ LockExpires(h) \/ Stall(h)

Spec == Init /\ [][Next]_vars

-----------------------------------------------------------------------------
(* Safety *)

\* What the data source is asked to do at this moment.
Running == {h \in Holders : pc[h] = "query"}

\* Those that count against the pool until they end, whether or not their query has
\* started.  The slot of one that does not renew may run out under it.
LetIn == {h \in Renewing : pc[h] \in {"write", "admitted", "query"}}

Admission == INSTANCE Admission WITH
    Kinds     <- Features,
    KindOf    <- Feature,
    FloorOf   <- [f \in Features |-> SlotsOf(Floor[f])],
    CeilingOf <- [f \in Features |-> SlotsOf(Ceiling[f])],
    letIn     <- LetIn

\* A pool is a ceiling, with a ceiling for each kind of work and a floor for those that
\* come first: with a hash that is read and written in several steps, entries and a
\* lock that expire, threads that write on their own and holders that die, work that
\* renews is let in only where all of it together fits, whatever else is in the pool.
LetsInWhatFits == Admission!Spec

\* A query that renews keeps its slot for as long as it runs: nobody is let in
\* on top of it.
SlotWhileRunning == \A h \in Running \cap Renewing : slot[h] = "live"

(* Liveness *)

\* A slot whose holder is gone is free again: a killed worker, a drained node
\* and a renewal that came too late all end the same way.
SlotComesBack ==
    \A h \in Holders :
        (pc[h] = "idle" /\ slot[h] = "live") ~> (pc[h] # "idle" \/ slot[h] # "live")

(* What the repository says of pools, and the code does not do *)

\* "A renewal racing a release must not resurrect the slot" (test_pools.py).
RenewNeverResurrects ==
    [][\A h \in Holders :
        slot[h] # "live" /\ slot'[h] = "live" => pc[h] = "write"]_vars

=============================================================================
