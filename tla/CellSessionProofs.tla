--------------------------- MODULE CellSessionProofs ---------------------------
(***************************************************************************)
(* Proofs about CellSession, for any numbers of requests and stops: types, *)
(* the lock of the session, what a stop has done when it returns, and that *)
(* every reply goes to the request it answers until a signal comes in the  *)
(* gap that serve leaves open.                                             *)
(***************************************************************************)
EXTENDS CellSession, TLAPS

\* The steps, as the proofs below tell them apart.
LEMMA NextCases ==
    ASSUME Next
    PROVE  \/ \E r \in Requests : Begin(r) \/ Serve(r) \/ Late(r)
           \/ ChildReceives \/ ChildReplies \/ ChildNext \/ ChildExits
           \/ \E s \in Stoppers : StopChecks(s) \/ Stop(s)
           \/ Close
  BY DEF Next

-----------------------------------------------------------------------------
(* Types *)

\* A request keeps every variable within its values.
LEMMA RequestType ==
    ASSUME TypeOK, NEW r \in Requests, Begin(r) \/ Serve(r) \/ Late(r)
    PROVE  TypeOK'
<1> USE SessionAssumption DEF TypeOK, Goto, childVars, stopVars
<1>1. CASE Begin(r)
  BY <1>1 DEF Begin
<1>2. CASE Lock(r)
  BY <1>2 DEF Lock, Requests
<1>3. CASE Refuse(r)
  BY <1>3 DEF Refuse
<1>4. CASE Send(r)
  BY <1>4 DEF Send
<1>5. CASE Broken(r)
  BY <1>5 DEF Broken, Die
<1>6. CASE Late(r)
  BY <1>6 DEF Late, Die
<1>7. CASE Receive(r)
  BY <1>7 DEF Receive
<1>8. CASE Finish(r)
  BY <1>8 DEF Finish
<1> QED
  BY <1>1, <1>2, <1>3, <1>4, <1>5, <1>6, <1>7, <1>8 DEF Serve

\* So do the child, a stop and whoever closes the session.
LEMMA RestType ==
    ASSUME TypeOK,
           \/ ChildReceives \/ ChildReplies \/ ChildNext \/ ChildExits
           \/ \E s \in Stoppers : StopChecks(s) \/ Stop(s)
           \/ Close
    PROVE  TypeOK'
<1> USE SessionAssumption DEF TypeOK, StopGoto, requestVars, childVars, stopVars
<1>1. CASE ChildReceives \/ ChildReplies \/ ChildNext \/ ChildExits
  <2>1. CASE ChildReceives
    <3>1. Head(toChild) \in Requests /\ Tail(toChild) \in Seq(Requests)
      BY <2>1 DEF ChildReceives
    <3> QED
      BY <2>1, <3>1 DEF ChildReceives
  <2>2. CASE ChildReplies
    BY <2>2 DEF ChildReplies
  <2>3. CASE ChildNext \/ ChildExits
    BY <2>3 DEF ChildNext, ChildExits
  <2> QED
    BY <1>1, <2>1, <2>2, <2>3
<1>2. ASSUME NEW s \in Stoppers, StopChecks(s) PROVE TypeOK'
  BY <1>2 DEF StopChecks
<1>3. ASSUME NEW s \in Stoppers, Signal(s) PROVE TypeOK'
  <2>1. child \in {"busy", "replied"} => Append(toParent, work) \in Seq(Requests)
    OBVIOUS
  <2>2. /\ toParent' \in Seq(Requests)
        /\ child' \in {"recv", "busy", "replied", "gone"}
        /\ work' \in Requests \cup {None}
        /\ child' \in {"busy", "replied"} => work' # None
    BY <1>3, <2>1 DEF Signal, Interrupted
  <2>3. stray' \in BOOLEAN
    BY <1>3 DEF Signal
  <2> QED
    BY <1>3, <2>2, <2>3 DEF Signal
<1>4. ASSUME NEW s \in Stoppers, StopSees(s) PROVE TypeOK'
  BY <1>4 DEF StopSees
<1>5. ASSUME NEW s \in Stoppers, GraceOver(s) PROVE TypeOK'
  BY <1>5 DEF GraceOver, Die
<1>6. CASE Close
  BY <1>6 DEF Close, Die
<1> QED
  BY <1>1, <1>2, <1>3, <1>4, <1>5, <1>6 DEF Stop

\* Every variable keeps to its values; the flag that a stop reads is up only
\* while a run has the lock.
THEOREM TypeCorrect == Spec => []TypeOK
<1>1. Init => TypeOK
  <2> SUFFICES ASSUME Init PROVE TypeOK
    OBVIOUS
  <2>1. running \in BOOLEAN /\ dead \in BOOLEAN /\ ~running
    BY DEF Init
  <2>2. toChild \in Seq(Requests) /\ toParent \in Seq(Requests)
    BY DEF Init
  <2>3. pc \in [Requests -> {"none", "lock", "send", "poll", "finish", "done"}]
    BY DEF Init
  <2>4. stopPc \in [Stoppers -> {"none", "kill", "wait"}]
    BY DEF Init
  <2> QED
    BY <2>1, <2>2, <2>3, <2>4 DEF Init, TypeOK
<1>2. TypeOK /\ [Next]_vars => TypeOK'
  <2> SUFFICES ASSUME TypeOK, [Next]_vars PROVE TypeOK'
    OBVIOUS
  <2>1. CASE Next
    BY <2>1, NextCases, RequestType, RestType
  <2>2. CASE UNCHANGED vars
    BY <2>2 DEF vars, TypeOK, requestVars, childVars, stopVars
  <2> QED
    BY <2>1, <2>2
<1> QED
  BY <1>1, <1>2, PTL DEF Spec

-----------------------------------------------------------------------------
(* The lock, and what a stop has done when it returns *)

Within == {"send", "poll", "finish"}

\* Who is between the lock and its release has it, and a run that has it is
\* flagged; what a stop has found running has it still or is done.
LockInv ==
    /\ \A r \in Requests : pc[r] \in Within => lock = r
    /\ lock \in Runs => running
    /\ \A s \in Stoppers :
        stopPc[s] # "none" => target[s] \in Runs /\ pc[target[s]] \in Within \cup {"done"}
    /\ lock # None => pc[lock] \in Within

\* One request at a time has its hands on the pipe.
OneAtATime ==
    \A r, q \in Requests :
        pc[r] \in {"send", "poll"} /\ pc[q] \in {"send", "poll"} => r = q

\* Only one can be the one that has the lock.
LEMMA LockInvImplies == LockInv => OneAtATime
  BY DEF LockInv, OneAtATime, Within

\* A request takes the lock when it is free and gives back its own.
LEMMA RequestLock ==
    ASSUME TypeOK, LockInv, NEW r \in Requests, Begin(r) \/ Serve(r) \/ Late(r)
    PROVE  LockInv'
<1> USE SessionAssumption DEF TypeOK, LockInv, Within, Goto, Requests, childVars, stopVars
<1>1. CASE Begin(r)
  BY <1>1 DEF Begin
<1>2. CASE Lock(r)
  BY <1>2 DEF Lock
<1>3. CASE Refuse(r)
  BY <1>3 DEF Refuse
<1>4. CASE Send(r)
  BY <1>4 DEF Send
<1>5. CASE Broken(r)
  BY <1>5 DEF Broken
<1>6. CASE Late(r)
  BY <1>6 DEF Late
<1>7. CASE Receive(r)
  BY <1>7 DEF Receive
<1>8. CASE Finish(r)
  BY <1>8 DEF Finish
<1> QED
  BY <1>1, <1>2, <1>3, <1>4, <1>5, <1>6, <1>7, <1>8 DEF Serve

\* Nothing else touches the lock, and a stop picks who has it.
LEMMA RestLock ==
    ASSUME TypeOK, LockInv,
           \/ ChildReceives \/ ChildReplies \/ ChildNext \/ ChildExits
           \/ \E s \in Stoppers : StopChecks(s) \/ Stop(s)
           \/ Close
    PROVE  LockInv'
<1> USE SessionAssumption DEF TypeOK, LockInv, Within, StopGoto, requestVars, childVars, stopVars
<1>1. CASE ChildReceives \/ ChildReplies \/ ChildNext \/ ChildExits \/ Close
  BY <1>1 DEF ChildReceives, ChildReplies, ChildNext, ChildExits, Close
<1>2. ASSUME NEW s \in Stoppers, StopChecks(s) PROVE LockInv'
  <2>1. lock \in Runs /\ pc[lock] \in Within
    BY <1>2 DEF StopChecks, Requests
  <2> QED
    BY <1>2, <2>1 DEF StopChecks
<1>3. ASSUME NEW s \in Stoppers, Signal(s) PROVE LockInv'
  BY <1>3 DEF Signal
<1>4. ASSUME NEW s \in Stoppers, StopSees(s) PROVE LockInv'
  BY <1>4 DEF StopSees
<1>5. ASSUME NEW s \in Stoppers, GraceOver(s) PROVE LockInv'
  BY <1>5 DEF GraceOver
<1> QED
  BY <1>1, <1>2, <1>3, <1>4, <1>5 DEF Stop

\* The lock is held by whoever should have it, always.
LEMMA LockInvariant == Spec => []LockInv
<1>1. Init => LockInv
  BY SessionAssumption DEF Init, LockInv, Within, Requests
<1>2. TypeOK /\ LockInv /\ [Next]_vars => LockInv'
  <2> SUFFICES ASSUME TypeOK, LockInv, [Next]_vars PROVE LockInv'
    OBVIOUS
  <2>1. CASE Next
    BY <2>1, NextCases, RequestLock, RestLock
  <2>2. CASE UNCHANGED vars
    BY <2>2 DEF vars, LockInv, requestVars, stopVars
  <2> QED
    BY <2>1, <2>2
<1> QED
  BY <1>1, <1>2, TypeCorrect, PTL DEF Spec

\* "two cells of the same notebook cannot run at once" (Session): one request
\* at a time has its hands on the pipe.
THEOREM PipeIsExclusive == Spec => []OneAtATime
  BY LockInvariant, LockInvImplies, PTL

\* A stop returns only when the cell it was pressed for is over, or its session.
THEOREM StopsEndCells == Spec => StopEndsTheCell
<1>1. TypeOK /\ LockInv /\ [Next]_vars =>
        [\A s \in Stoppers :
            stopPc[s] = "wait" /\ stopPc'[s] = "none" => dead' \/ pc[target[s]] = "done"]_vars
  <2> SUFFICES ASSUME TypeOK, LockInv, Next,
                      NEW s \in Stoppers, stopPc[s] = "wait", stopPc'[s] = "none"
               PROVE  dead' \/ pc[target[s]] = "done"
    OBVIOUS
  <2>1. target[s] \in Runs /\ pc[target[s]] \in Within \cup {"done"}
    BY DEF LockInv
  <2>2. ASSUME ~running PROVE pc[target[s]] = "done"
    BY <2>1, <2>2 DEF LockInv, Requests
  <2>3. CASE \E r \in Requests : Begin(r) \/ Serve(r) \/ Late(r)
    BY <2>3 DEF Begin, Serve, Lock, Refuse, Send, Broken, Receive, Finish, Late, stopVars
  <2>4. CASE ChildReceives \/ ChildReplies \/ ChildNext \/ ChildExits \/ Close
    BY <2>4 DEF ChildReceives, ChildReplies, ChildNext, ChildExits, Close, stopVars
  <2>5. ASSUME NEW t \in Stoppers, StopChecks(t) \/ Signal(t) PROVE FALSE
    BY <2>5 DEF StopChecks, Signal, StopGoto, TypeOK
  <2>6. ASSUME NEW t \in Stoppers, StopSees(t) PROVE ~running
    BY <2>6 DEF StopSees
  <2>7. ASSUME NEW t \in Stoppers, GraceOver(t) PROVE dead'
    BY <2>7 DEF GraceOver, Die
  <2> QED
    BY <2>2, <2>3, <2>4, <2>5, <2>6, <2>7, NextCases DEF Stop
<1> QED
  BY <1>1, TypeCorrect, LockInvariant, PTL DEF Spec, StopEndsTheCell

-----------------------------------------------------------------------------
(* The pipe *)

\* What has been asked and not answered is in one place only: on its way to the
\* child, at work, or on its way back; and who asked it waits for it.
PipeInv ==
    /\ dead => child = "gone" /\ toChild = <<>> /\ toParent = <<>>
    /\ toChild # <<>> => \E r \in Requests :
        toChild = <<r>> /\ pc[r] = "poll" /\ toParent = <<>> /\ child # "busy"
    /\ toParent # <<>> => \E r \in Requests :
        toParent = <<r>> /\ pc[r] = "poll" /\ toChild = <<>> /\ child # "busy"
    /\ child = "busy" => pc[work] = "poll" /\ toChild = <<>> /\ toParent = <<>>

AnswerInv == PipeInv /\ AnswersItsOwn

\* A request sends when nothing is under way and receives what it has sent.
LEMMA RequestPipe ==
    ASSUME TypeOK, LockInv, AnswerInv, NEW r \in Requests, Begin(r) \/ Serve(r) \/ Late(r)
    PROVE  AnswerInv'
<1> USE SessionAssumption DEF TypeOK, AnswerInv, AnswersItsOwn, PipeInv, Goto, childVars, stopVars
<1>1. CASE Begin(r) \/ Refuse(r) \/ Lock(r) \/ Finish(r)
  BY <1>1 DEF Begin, Refuse, Lock, Finish
<1>2. CASE Send(r)
  <2>1. toChild = <<>> /\ toParent = <<>> /\ child # "busy" /\ ~dead
    BY <1>2 DEF Send, Alive, LockInv, Within
  <2>2. toChild' = <<r>>
    BY <1>2, <2>1 DEF Send
  <2> QED
    BY <1>2, <2>1, <2>2 DEF Send
<1>3. CASE Broken(r)
  BY <1>3 DEF Broken, Die
<1>4. CASE Late(r)
  BY <1>4 DEF Late, Die
<1>5. CASE Receive(r)
  <2>1. toParent = <<r>> /\ toChild = <<>> /\ child # "busy"
    BY <1>5 DEF Receive, LockInv, Within
  <2>2. Head(toParent) = r /\ toParent' = <<>>
    BY <1>5, <2>1 DEF Receive
  <2> QED
    BY <1>5, <2>1, <2>2 DEF Receive
<1> QED
  BY <1>1, <1>2, <1>3, <1>4, <1>5 DEF Serve

\* The child answers what it has received, once.
LEMMA ChildPipe ==
    ASSUME TypeOK, AnswerInv,
           ChildReceives \/ ChildReplies \/ ChildNext \/ ChildExits \/ Close
    PROVE  AnswerInv'
<1> USE SessionAssumption DEF TypeOK, AnswerInv, AnswersItsOwn, PipeInv, requestVars, stopVars
<1>1. CASE ChildReceives
  <2>1. PICK r \in Requests : toChild = <<r>> /\ pc[r] = "poll" /\ toParent = <<>>
    BY <1>1 DEF ChildReceives
  <2>2. work' = r /\ toChild' = <<>>
    BY <1>1, <2>1 DEF ChildReceives
  <2> QED
    BY <1>1, <2>1, <2>2 DEF ChildReceives
<1>2. CASE ChildReplies
  <2>1. work \in Requests /\ toParent' = <<work>>
    BY <1>2 DEF ChildReplies
  <2> QED
    BY <1>2, <2>1 DEF ChildReplies
<1>3. CASE ChildNext \/ ChildExits
  BY <1>3 DEF ChildNext, ChildExits
<1>4. CASE Close
  BY <1>4 DEF Close, Die
<1> QED
  BY <1>1, <1>2, <1>3, <1>4

\* A stop leaves it at that, unless its signal comes just after an answer: then serve
\* sends a second one.
LEMMA StopPipe ==
    ASSUME TypeOK, AnswerInv, NEW s \in Stoppers, StopChecks(s) \/ Stop(s)
    PROVE  stray' \/ AnswerInv'
<1> USE SessionAssumption DEF TypeOK, AnswerInv, AnswersItsOwn, PipeInv, requestVars, childVars
<1>1. CASE StopChecks(s) \/ StopSees(s)
  BY <1>1 DEF StopChecks, StopSees
<1>2. CASE GraceOver(s)
  BY <1>2 DEF GraceOver, Die
<1>3. CASE Signal(s)
  <2>1. CASE child = "replied"
    BY <1>3, <2>1 DEF Signal
  <2>2. CASE child = "busy"
    <3>1. CASE child' = "replied"
      <4>1. work \in Requests /\ toParent' = <<work>>
        BY <1>3, <2>2, <3>1 DEF Signal, Interrupted
      <4> QED
        BY <1>3, <2>2, <3>1, <4>1 DEF Signal, Interrupted
    <3>2. CASE child' # "replied"
      BY <1>3, <2>2, <3>2 DEF Signal, Interrupted
    <3> QED
      BY <3>1, <3>2
  <2>3. CASE child \in {"recv", "gone"}
    BY <1>3, <2>3 DEF Signal, Interrupted
  <2> QED
    BY <2>1, <2>2, <2>3
<1> QED
  BY <1>1, <1>2, <1>3 DEF Stop

\* Every reply goes to the request that it answers, however late the child is, whenever
\* it goes and whoever stops it, until a signal comes between an answer and the next recv.
THEOREM RepliesMatch == Spec => []OnlyStraysMisanswer
<1>1. Init => AnswerInv
  BY DEF Init, AnswerInv, PipeInv, AnswersItsOwn
<1>2. TypeOK /\ LockInv /\ (stray \/ AnswerInv) /\ [Next]_vars => (stray \/ AnswerInv)'
  <2> SUFFICES ASSUME TypeOK, LockInv, stray \/ AnswerInv, [Next]_vars PROVE (stray \/ AnswerInv)'
    OBVIOUS
  <2>1. stray => stray'
    BY NextCases DEF Begin, Serve, Lock, Refuse, Send, Broken, Receive, Finish, Late,
       ChildReceives, ChildReplies, ChildNext, ChildExits, StopChecks, Stop, Signal, StopSees,
       GraceOver, Close, stopVars, vars
  <2>2. CASE AnswerInv /\ Next
    BY <2>2, NextCases, RequestPipe, ChildPipe, StopPipe
  <2>3. CASE AnswerInv /\ UNCHANGED vars
    BY <2>3 DEF vars, AnswerInv, PipeInv, AnswersItsOwn, requestVars, childVars
  <2> QED
    BY <2>1, <2>2, <2>3
<1>3. stray \/ AnswerInv => OnlyStraysMisanswer
  BY DEF AnswerInv, OnlyStraysMisanswer
<1> QED
  BY <1>1, <1>2, <1>3, TypeCorrect, LockInvariant, PTL DEF Spec

===============================================================================
