---------------------------- MODULE StreamConsumer ----------------------------
(***************************************************************************)
(* One stream (sqldesk/tasks/streams.py, sqldesk/streams): the supervisor  *)
(* that starts its consumer, the jobs that consume it one after another,   *)
(* the claim that keeps them apart, the position that one leaves for the   *)
(* next, and its slot among those of the other streams.                    *)
(*                                                                         *)
(* The topic has one partition and an event is its offset.  The TTLs are   *)
(* in the guards of ClaimExpires and SlotExpires: neither key runs out     *)
(* under a job that keeps to its own time limit.                           *)
(***************************************************************************)
EXTENDS Integers

CONSTANTS
    Jobs,        \* names for the executions of consume_stream; a successor
                 \* has the name of the job that queues it
    StartFrom,   \* the start_from of the stream; "saved" is in a named group
                 \* and commits, the others are in none
    Cap,         \* STREAM_MAX_CONCURRENT; 0 is no limit
    MaxEvents,   \* bound: events on the topic
    MaxTroubles, \* bound: kills, failures, rebalances, lapses, refusals
    None         \* no position; no job

ASSUME StreamAssumption ==
    /\ None \notin Jobs /\ None \notin Nat
    /\ StartFrom \in {"latest", "earliest", "saved"}
    /\ Cap \in Nat /\ MaxEvents \in Nat /\ MaxTroubles \in Nat

VARIABLES
    head,        \* the end of the topic
    done,        \* the events stored in the window, or counted as malformed
    committed,   \* the offset of the group at the broker, when it is kept
    claim,       \* who set stream:consuming
    handover,    \* the position in the handover record
    pc,          \* where a job is
    resume,      \* what it took from the handover
    next,        \* the next offset it polls
    kept,        \* up to where it has flushed
    moved,       \* whether a poll has returned anything: its position is known
    watched,     \* watching.state is RUNNING: a recent check-in, or pinned
    ask,         \* where whoever asks for a slot is
    slot,        \* the stream has a slot that has not expired
    others,      \* slots of other streams
    troubles     \* how often something has gone wrong

topicVars == <<head, done, committed>>
posVars == <<resume, next, kept, moved>>
slotVars == <<ask, slot, others>>
vars == <<topicVars, claim, handover, pc, posVars, watched, slotVars, troubles>>

Offsets == 0..MaxEvents
Askers == {"supervisor", "viewer", "other"}

\* From the claim to its release.
Holding == {"first", "take", "open", "loop", "poll", "flush", "commit",
            "close", "handover", "stop"}
Pcs == {"none", "queued", "successor", "give", "delay", "unslot"} \cup Holding

TypeOK ==
    /\ head \in Offsets /\ done \subseteq Offsets
    /\ claim \in Jobs \cup {None}
    /\ pc \in [Jobs -> Pcs]
    \* no position is past the end of the topic
    /\ committed \in 0..head
    /\ handover \in (0..head) \cup {None}
    /\ resume \in [Jobs -> (0..head) \cup {None}]
    /\ next \in [Jobs -> 0..head] /\ kept \in [Jobs -> 0..head]
    /\ moved \in [Jobs -> BOOLEAN]
    /\ watched \in BOOLEAN
    /\ ask \in [Askers -> {"idle", "state", "acquire", "write", "delay", "check_in"}]
    /\ slot \in BOOLEAN /\ others \in Nat
    /\ troubles \in 0..MaxTroubles

Init ==
    /\ head = 0 /\ done = {} /\ committed = 0
    /\ claim = None
    /\ handover = None
    /\ pc = [j \in Jobs |-> "none"]
    /\ resume = [j \in Jobs |-> None]
    /\ next = [j \in Jobs |-> 0] /\ kept = [j \in Jobs |-> 0]
    /\ moved = [j \in Jobs |-> FALSE]
    /\ watched = FALSE
    /\ ask = [p \in Askers |-> "idle"]
    /\ slot = FALSE /\ others = 0
    /\ troubles = 0

\* Something goes wrong that need not.
Trouble ==
    /\ troubles < MaxTroubles
    /\ troubles' = troubles + 1

Goto(j, from, to) ==
    /\ pc[j] = from
    /\ pc' = [pc EXCEPT ![j] = to]

Forget(j) ==
    /\ resume' = [resume EXCEPT ![j] = None]
    /\ next' = [next EXCEPT ![j] = 0]
    /\ kept' = [kept EXCEPT ![j] = 0]
    /\ moved' = [moved EXCEPT ![j] = FALSE]

-----------------------------------------------------------------------------
(* consume_stream *)

\* Mutant: SET without NX.
ClaimRegardless(j) ==
    /\ pc[j] \in {"queued", "successor"}
    /\ pc' = [pc EXCEPT ![j] = "first"]
    /\ claim' = j
    /\ UNCHANGED <<topicVars, handover, posVars, watched, slotVars, troubles>>

Claim(j) ==
    /\ pc[j] \in {"queued", "successor"}
    /\ \/ /\ claim = None
          /\ claim' = j
          /\ pc' = [pc EXCEPT ![j] = "first"]
       \/ /\ claim # None
          /\ pc' = [pc EXCEPT ![j] = "none"]
          /\ UNCHANGED claim
    /\ UNCHANGED <<topicVars, handover, posVars, watched, slotVars, troubles>>

\* Mutant: the watchers are not looked at.
RenewRegardless(j, from, to) ==
    /\ Goto(j, from, to)
    /\ slot' = TRUE
    /\ UNCHANGED <<topicVars, claim, handover, posVars, watched, ask, others, troubles>>

\* should_continue() is true, and renews the slot, whether it is there or not.
Continue(j, from, to) ==
    /\ watched
    /\ Goto(j, from, to)
    /\ slot' = TRUE
    /\ UNCHANGED <<topicVars, claim, handover, posVars, watched, ask, others, troubles>>

\* should_continue() is false at once: nobody watches, or the worker shuts down.
GiveUp(j) ==
    /\ Goto(j, "first", "none")
    /\ claim' = None
    /\ IF watched THEN Trouble ELSE UNCHANGED troubles
    /\ UNCHANGED <<topicVars, handover, posVars, watched, slotVars>>

Take(j) ==
    /\ Goto(j, "take", "open")
    /\ resume' = [resume EXCEPT ![j] = handover]
    /\ handover' = None
    /\ UNCHANGED <<topicVars, claim, next, kept, moved, watched, slotVars, troubles>>

\* A hand-over first, then the setting.
StartOf(j) ==
    IF resume[j] # None THEN resume[j]
    ELSE CASE StartFrom = "latest" -> head
           [] StartFrom = "earliest" -> 0
           [] OTHER -> committed

Open(j) ==
    /\ Goto(j, "open", "loop")
    /\ next' = [next EXCEPT ![j] = StartOf(j)]
    /\ kept' = [kept EXCEPT ![j] = StartOf(j)]
    /\ UNCHANGED <<topicVars, claim, handover, resume, moved, watched, slotVars, troubles>>

\* The deadline, a shutdown, or nobody watching.
Stop(j) ==
    /\ Goto(j, "loop", "close")
    /\ UNCHANGED <<topicVars, claim, handover, posVars, watched, slotVars, troubles>>

\* The polls of one flush interval, and the should_continue after each.
Poll(j) ==
    /\ Goto(j, "poll", "flush")
    /\ \E n \in next[j]..head :
        /\ next' = [next EXCEPT ![j] = n]
        /\ moved' = [moved EXCEPT ![j] = @ \/ n > next[j]]
    /\ slot' = (slot \/ watched)
    /\ UNCHANGED <<topicVars, claim, handover, resume, kept, watched, ask, others, troubles>>

\* on_assign, when the group has handed out its partitions again: the one of
\* this job is put where the job began.
Rebalance(j) ==
    /\ StartFrom = "saved"
    /\ Goto(j, "poll", "poll")
    /\ next' = [next EXCEPT ![j] = StartOf(j)]
    /\ kept' = [kept EXCEPT ![j] = StartOf(j)]
    /\ moved' = [moved EXCEPT ![j] = FALSE]
    /\ Trouble
    /\ UNCHANGED <<topicVars, claim, handover, resume, watched, slotVars>>

\* Mutant: what the last poll before a stop returned is left unflushed.
FlushUnlessLeaving(j) ==
    /\ Goto(j, "flush", "commit")
    /\ IF watched
       THEN /\ done' = done \cup kept[j]..(next[j] - 1)
            /\ kept' = [kept EXCEPT ![j] = next[j]]
       ELSE UNCHANGED <<done, kept>>
    /\ UNCHANGED <<head, committed, claim, handover, resume, next, moved, watched, slotVars, troubles>>

\* Stored, or after a failure dropped and counted.
Flush(j) ==
    /\ Goto(j, "flush", "commit")
    /\ done' = done \cup kept[j]..(next[j] - 1)
    /\ kept' = [kept EXCEPT ![j] = next[j]]
    /\ UNCHANGED <<head, committed, claim, handover, resume, next, moved, watched, slotVars, troubles>>

Commit(j) ==
    /\ Goto(j, "commit", "loop")
    /\ committed' = IF StartFrom = "saved" /\ moved[j] THEN next[j] ELSE committed
    /\ UNCHANGED <<head, done, claim, handover, posVars, watched, slotVars, troubles>>

\* The broker is closed; carry_on is whether anybody watches now.
Close(j) ==
    /\ Goto(j, "close", IF watched THEN "handover" ELSE "stop")
    /\ UNCHANGED <<topicVars, claim, handover, posVars, watched, slotVars, troubles>>

\* An error that consume does not pass over: carry_on stays false.
Fail(j) ==
    /\ pc[j] \in {"open", "loop", "poll", "flush"}
    /\ pc' = [pc EXCEPT ![j] = "stop"]
    /\ Trouble
    /\ UNCHANGED <<topicVars, claim, handover, posVars, watched, slotVars>>

\* The claim is deleted, whoever set it.
Release(j) ==
    /\ Goto(j, "handover", "give") \/ Goto(j, "stop", "unslot")
    /\ claim' = None
    /\ UNCHANGED <<topicVars, handover, posVars, watched, slotVars, troubles>>

\* Mutant: the position after the next event.
GiveNext(j) ==
    /\ Goto(j, "give", "delay")
    /\ handover' = IF moved[j] THEN next[j] + 1 ELSE handover
    /\ UNCHANGED <<topicVars, claim, posVars, watched, slotVars, troubles>>

\* A job that has seen no event has no position to leave.
Give(j) ==
    /\ Goto(j, "give", "delay")
    /\ handover' = IF moved[j] THEN next[j] ELSE handover
    /\ UNCHANGED <<topicVars, claim, posVars, watched, slotVars, troubles>>

Succeed(j) ==
    /\ Goto(j, "delay", "successor")
    /\ Forget(j)
    /\ UNCHANGED <<topicVars, claim, handover, watched, slotVars, troubles>>

ReleaseSlot(j) ==
    /\ Goto(j, "unslot", "none")
    /\ slot' = FALSE
    /\ Forget(j)
    /\ UNCHANGED <<topicVars, claim, handover, watched, ask, others, troubles>>

Consume(j) ==
    \/ Claim(j) \/ Continue(j, "first", "take") \/ GiveUp(j) \/ Take(j) \/ Open(j)
    \/ Continue(j, "loop", "poll") \/ Stop(j) \/ Poll(j) \/ Flush(j) \/ Commit(j)
    \/ Close(j) \/ Release(j) \/ Give(j) \/ Succeed(j) \/ ReleaseSlot(j)

\* The worker dies; its keys stay.
Kill(j) ==
    /\ pc[j] \notin {"none", "queued", "successor"}
    /\ pc' = [pc EXCEPT ![j] = "none"]
    /\ Forget(j)
    /\ Trouble
    /\ UNCHANGED <<topicVars, claim, handover, watched, slotVars>>

\* QUEUED_SECONDS without a stream worker.
Lapse(j) ==
    /\ pc[j] \in {"queued", "successor"}
    /\ pc' = [pc EXCEPT ![j] = "none"]
    /\ Trouble
    /\ UNCHANGED <<topicVars, claim, handover, posVars, watched, slotVars>>

-----------------------------------------------------------------------------
(* slots.acquire *)

\* The lock of the slots is taken before the read and given back by the write.
Locked == \E p \in Askers : ask[p] = "write"

Used == others + (IF slot THEN 1 ELSE 0)

AskGoto(p, from, to) ==
    /\ ask[p] = from
    /\ ask' = [ask EXCEPT ![p] = to]

HasSlot(p) == p # "other" /\ slot

Room(p) == HasSlot(p) \/ Cap = 0 \/ Used < Cap

Admit(p) ==
    /\ ~Locked
    /\ Room(p)
    /\ AskGoto(p, "acquire", "write")
    /\ UNCHANGED <<topicVars, claim, handover, pc, posVars, watched, slot, others, troubles>>

\* All slots are in use, or the lock did not come free.
Refuse(p) ==
    /\ Locked \/ ~Room(p)
    /\ AskGoto(p, "acquire", "idle")
    /\ UNCHANGED <<topicVars, claim, handover, pc, posVars, watched, slot, others, troubles>>

\* The owner has as many streams as one person may have.
RefuseOwner(p) ==
    /\ ~Locked
    /\ ~HasSlot(p)
    /\ AskGoto(p, "acquire", "idle")
    /\ Trouble
    /\ UNCHANGED <<topicVars, claim, handover, pc, posVars, watched, slot, others>>

Write(p) ==
    /\ AskGoto(p, "write", CASE p = "supervisor" -> "delay" [] p = "viewer" -> "check_in"
                             [] OTHER -> "idle")
    /\ IF p = "other" THEN others' = others + 1 /\ UNCHANGED slot
                      ELSE slot' = TRUE /\ UNCHANGED others
    /\ UNCHANGED <<topicVars, claim, handover, pc, posVars, watched, troubles>>

Acquire(p) == Admit(p) \/ Refuse(p) \/ RefuseOwner(p) \/ Write(p)

-----------------------------------------------------------------------------
(* supervise_streams *)

BeingConsumed ==
    /\ AskGoto("supervisor", "idle", IF claim = None THEN "state" ELSE "idle")
    /\ UNCHANGED <<topicVars, claim, handover, pc, posVars, watched, slot, others, troubles>>

State ==
    /\ AskGoto("supervisor", "state", IF watched THEN "acquire" ELSE "idle")
    /\ UNCHANGED <<topicVars, claim, handover, pc, posVars, watched, slot, others, troubles>>

Delay ==
    /\ AskGoto("supervisor", "delay", "idle")
    /\ IF \E j \in Jobs : pc[j] = "queued"
       THEN UNCHANGED pc
       ELSE \E j \in Jobs : Goto(j, "none", "queued") /\ claim # j
    /\ UNCHANGED <<topicVars, claim, handover, posVars, watched, slot, others, troubles>>

Supervise == BeingConsumed \/ State \/ Acquire("supervisor") \/ Delay

-----------------------------------------------------------------------------
(* The page of the stream, the other streams, the broker, and time *)

\* StreamWatchResource.post: only who finds nobody watching takes a slot.
Post ==
    /\ AskGoto("viewer", "idle", IF watched THEN "check_in" ELSE "acquire")
    /\ UNCHANGED <<topicVars, claim, handover, pc, posVars, watched, slot, others, troubles>>

CheckIn ==
    /\ AskGoto("viewer", "check_in", "idle")
    /\ watched' = TRUE
    /\ UNCHANGED <<topicVars, claim, handover, pc, posVars, slot, others, troubles>>

\* The last viewer says so, or is timed out.
Leave ==
    /\ watched
    /\ watched' = FALSE
    /\ UNCHANGED <<topicVars, claim, handover, pc, posVars, slotVars, troubles>>

View == Acquire("viewer") \/ CheckIn

OtherAsks ==
    /\ Cap > 0
    /\ AskGoto("other", "idle", "acquire")
    /\ UNCHANGED <<topicVars, claim, handover, pc, posVars, watched, slot, others, troubles>>

OtherEnds ==
    /\ others > 0
    /\ others' = others - 1
    /\ UNCHANGED <<topicVars, claim, handover, pc, posVars, watched, ask, slot, troubles>>

Produce ==
    /\ head < MaxEvents
    /\ head' = head + 1
    /\ UNCHANGED <<done, committed, claim, handover, pc, posVars, watched, slotVars, troubles>>

\* Mutant: a claim without a TTL.
ClaimStays == FALSE /\ UNCHANGED vars

\* LOCK_SECONDS, longer than a job.
ClaimExpires ==
    /\ claim # None
    /\ pc[claim] \notin Holding
    /\ claim' = None
    /\ UNCHANGED <<topicVars, handover, pc, posVars, watched, slotVars, troubles>>

HandoverExpires ==
    /\ handover # None
    /\ handover' = None
    /\ UNCHANGED <<topicVars, claim, pc, posVars, watched, slotVars, troubles>>

\* STREAM_SLOT_GRACE_SECONDS: a job renews at every flush, and the supervisor
\* every minute for one that waits while somebody watches.
SlotExpires ==
    /\ slot
    /\ \A p \in Askers : ask[p] \notin {"delay", "check_in"}
    /\ \A j \in Jobs : \/ pc[j] \in {"none", "unslot"}
                      \/ (pc[j] \in {"queued", "successor"} /\ ~watched)
    /\ slot' = FALSE
    /\ UNCHANGED <<topicVars, claim, handover, pc, posVars, watched, ask, others, troubles>>

-----------------------------------------------------------------------------

Next ==
    \/ \E j \in Jobs : Consume(j) \/ Rebalance(j) \/ Fail(j) \/ Kill(j) \/ Lapse(j)
    \/ Supervise
    \/ Post \/ View \/ Leave
    \/ OtherAsks \/ Acquire("other") \/ OtherEnds
    \/ Produce
    \/ ClaimExpires \/ HandoverExpires \/ SlotExpires

Spec == Init /\ [][Next]_vars

\* Workers take jobs and run them, the supervisor comes round every minute, a
\* request that was begun goes on, and TTLs run out.
FairSpec ==
    /\ Spec
    /\ \A j \in Jobs : WF_vars(Consume(j))
    /\ WF_vars(Supervise)
    /\ WF_vars(View)
    /\ WF_vars(ClaimExpires)
    /\ WF_vars(SlotExpires)

-----------------------------------------------------------------------------
(* Safety *)

\* _claim: two consumers of a stream would write to one file and count the same
\* events, so from its claim to its release a job is alone.
OneConsumer == \A j, k \in Jobs : pc[j] \in Holding /\ pc[k] \in Holding => j = k

\* All before the position is in the window or counted.
Covered(position) == \A e \in Offsets : e < position => e \in done

\* commit_position and handover.give: with a saved position nothing is passed
\* over.  Whatever dies, fails, lapses or is handed over on the way, all that
\* lies before the position where a consumer may start has been flushed.
SavedLosesNothing ==
    StartFrom = "saved" => Covered(committed) /\ (handover # None => Covered(handover))

(* Liveness *)

Reading == \E j \in Jobs : pc[j] \in {"loop", "poll", "flush", "commit"}

\* Somebody who stays sees events again, however the last consumer ended.
WatchedIsConsumed == <>[]watched => []<>Reading

\* A stream that nobody comes back to ends without a job, a claim and a slot.
QuietStreamEnds ==
    <>[]~watched => <>[](~slot /\ claim = None /\ \A j \in Jobs : pc[j] = "none")

(* What the repository says of streams, and the code does not do *)

\* "a count that two of them pass simultaneously is a cap that does not cap"
\* (slots.py): there are never more slots than the cap.
SlotsWithinCap == Cap > 0 => Used <= Cap

=============================================================================
