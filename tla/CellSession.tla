------------------------------ MODULE CellSession ------------------------------
(***************************************************************************)
(* One interpreter session of a notebook (executor/service.py, Session;    *)
(* executor/runner.py, serve): the requests that run a cell in it or give  *)
(* it an input, the stop button, the pipe, and the child that answers.     *)
(*                                                                         *)
(* An answer is the request it answers.  SIGINT takes effect at once, in   *)
(* whatever the child is doing.                                            *)
(***************************************************************************)
EXTENDS Sequences

CONSTANTS
    Runs,      \* POST .../run requests
    Inputs,    \* PUT .../inputs/<name> requests
    Stoppers,  \* threads that serve POST .../stop, again and again
    None,      \* no request; no answer yet
    Failed     \* an answer that ask made up itself: the session is over

Requests == Runs \cup Inputs

ASSUME SessionAssumption == None \notin Requests /\ Failed \notin Requests

VARIABLES
    pc,        \* where a request is
    answer,    \* what ask returned to it
    lock,      \* Session.lock
    running,   \* Session.running
    dead,      \* dead_reason is set: the child is killed and the pipe closed
    toChild,   \* the pipe, one way
    toParent,  \* and the other
    child,     \* where serve is: in recv, at work, after its send, or gone
    work,      \* the request the child is at
    stopPc,    \* where a stop is
    target,    \* history: the run that a stop found running
    stray      \* history: a signal came between the child's answer and its next recv

requestVars == <<pc, answer, lock, running>>
childVars == <<toChild, toParent, child, work>>
stopVars == <<stopPc, target, stray>>
vars == <<requestVars, dead, childVars, stopVars>>

TypeOK ==
    /\ pc \in [Requests -> {"none", "lock", "send", "poll", "finish", "done"}]
    /\ answer \in [Requests -> Requests \cup {None, Failed}]
    /\ lock \in Requests \cup {None}
    /\ running \in BOOLEAN /\ dead \in BOOLEAN
    /\ toChild \in Seq(Requests) /\ toParent \in Seq(Requests)
    /\ child \in {"recv", "busy", "replied", "gone"}
    /\ work \in Requests \cup {None}
    /\ stopPc \in [Stoppers -> {"none", "kill", "wait"}]
    /\ target \in [Stoppers -> Requests \cup {None}]
    /\ stray \in BOOLEAN
    \* what is at work has been asked for, and the flag is up for a run only
    /\ child \in {"busy", "replied"} => work # None
    /\ running => lock \in Runs

Init ==
    /\ pc = [r \in Requests |-> "none"]
    /\ answer = [r \in Requests |-> None]
    /\ lock = None /\ running = FALSE
    /\ dead = FALSE
    /\ toChild = <<>> /\ toParent = <<>>
    /\ child = "recv" /\ work = None
    /\ stopPc = [s \in Stoppers |-> "none"]
    /\ target = [s \in Stoppers |-> None]
    /\ stray = FALSE

Alive == ~dead /\ child # "gone"

Goto(r, from, to) ==
    /\ pc[r] = from
    /\ pc' = [pc EXCEPT ![r] = to]

StopGoto(s, from, to) ==
    /\ stopPc[s] = from
    /\ stopPc' = [stopPc EXCEPT ![s] = to]

\* The child is killed and the pipe is closed.
Die ==
    /\ dead' = TRUE
    /\ child' = "gone" /\ work' = None
    /\ toChild' = <<>> /\ toParent' = <<>>

-----------------------------------------------------------------------------
(* run and put_input *)

\* The session is looked up, and is there.
Begin(r) ==
    /\ Goto(r, "none", IF Alive THEN "lock" ELSE "done")
    /\ UNCHANGED <<answer, lock, running, dead, childVars, stopVars>>

Lock(r) ==
    /\ lock = None
    /\ Goto(r, "lock", "send")
    /\ lock' = r
    /\ running' = (r \in Runs)
    /\ UNCHANGED <<answer, dead, childVars, stopVars>>

\* 409: a run waits for the lock for a second only.
Refuse(r) ==
    /\ r \in Runs
    /\ lock # None
    /\ Goto(r, "lock", "done")
    /\ UNCHANGED <<answer, lock, running, dead, childVars, stopVars>>

Send(r) ==
    /\ Alive
    /\ Goto(r, "send", "poll")
    /\ toChild' = Append(toChild, r)
    /\ UNCHANGED <<answer, lock, running, dead, toParent, child, work, stopVars>>

\* Nobody is at the other end of the pipe.
Broken(r) ==
    /\ child = "gone"
    /\ pc[r] = "send" \/ (pc[r] = "poll" /\ toParent = <<>>)
    /\ pc' = [pc EXCEPT ![r] = "finish"]
    /\ answer' = [answer EXCEPT ![r] = Failed]
    /\ Die
    /\ UNCHANGED <<lock, running, stopVars>>

\* Mutant: the session goes on after a reply that did not come in time.
LateKeepsSession(r) ==
    /\ Alive /\ toParent = <<>>
    /\ Goto(r, "poll", "finish")
    /\ answer' = [answer EXCEPT ![r] = Failed]
    /\ UNCHANGED <<lock, running, dead, childVars, stopVars>>

Late(r) ==
    /\ Alive /\ toParent = <<>>
    /\ Goto(r, "poll", "finish")
    /\ answer' = [answer EXCEPT ![r] = Failed]
    /\ Die
    /\ UNCHANGED <<lock, running, stopVars>>

Receive(r) ==
    /\ toParent # <<>>
    /\ Goto(r, "poll", "finish")
    /\ answer' = [answer EXCEPT ![r] = Head(toParent)]
    /\ toParent' = Tail(toParent)
    /\ UNCHANGED <<lock, running, dead, toChild, child, work, stopVars>>

\* Mutant: the flag is not put down.
FinishRunning(r) ==
    /\ Goto(r, "finish", "done")
    /\ lock' = None
    /\ UNCHANGED <<answer, running, dead, childVars, stopVars>>

Finish(r) ==
    /\ Goto(r, "finish", "done")
    /\ running' = FALSE
    /\ lock' = None
    /\ UNCHANGED <<answer, dead, childVars, stopVars>>

Serve(r) == Lock(r) \/ Refuse(r) \/ Send(r) \/ Broken(r) \/ Receive(r) \/ Finish(r)

-----------------------------------------------------------------------------
(* The child *)

ChildReceives ==
    /\ child = "recv" /\ toChild # <<>>
    /\ child' = "busy" /\ work' = Head(toChild)
    /\ toChild' = Tail(toChild)
    /\ UNCHANGED <<requestVars, dead, toParent, stopVars>>

ChildReplies ==
    /\ child = "busy"
    /\ child' = "replied"
    /\ toParent' = Append(toParent, work)
    /\ UNCHANGED <<requestVars, dead, toChild, work, stopVars>>

ChildNext ==
    /\ child = "replied"
    /\ child' = "recv" /\ work' = None
    /\ UNCHANGED <<requestVars, dead, toChild, toParent, stopVars>>

\* A cell ends its own process, or the container does for want of memory.
ChildExits ==
    /\ child = "busy"
    /\ child' = "gone" /\ work' = None
    /\ UNCHANGED <<requestVars, dead, toChild, toParent, stopVars>>

\* A KeyboardInterrupt in the child: recv lets serve return; a cell reports it
\* as its answer, unless it does not let itself be interrupted; and after the
\* answer has been sent, serve answers once more.
Interrupted ==
    \/ child = "recv" /\ child' = "gone" /\ UNCHANGED <<toParent, work>>
    \/ child = "busy" /\ child' = "replied" /\ toParent' = Append(toParent, work) /\ UNCHANGED work
    \/ child \in {"busy", "gone"} /\ UNCHANGED <<child, toParent, work>>
    \/ child = "replied" /\ child' = "recv" /\ toParent' = Append(toParent, work) /\ work' = None

-----------------------------------------------------------------------------
(* interrupt, and the ends of a session *)

StopChecks(s) ==
    /\ Alive /\ running
    /\ StopGoto(s, "none", "kill")
    /\ target' = [target EXCEPT ![s] = lock]
    /\ UNCHANGED <<requestVars, dead, childVars, stray>>

Signal(s) ==
    /\ StopGoto(s, "kill", "wait")
    /\ Interrupted
    /\ stray' = (stray \/ child = "replied")
    /\ UNCHANGED <<requestVars, dead, toChild, target>>

StopSees(s) ==
    /\ ~running
    /\ StopGoto(s, "wait", "none")
    /\ target' = [target EXCEPT ![s] = None]
    /\ UNCHANGED <<requestVars, dead, childVars, stray>>

\* Mutant: after the grace the stop is given up.
GraceKeeps(s) ==
    /\ running
    /\ StopGoto(s, "wait", "none")
    /\ target' = [target EXCEPT ![s] = None]
    /\ UNCHANGED <<requestVars, dead, childVars, stray>>

\* Mutant: no grace to run out.
GraceForever(s) == FALSE /\ UNCHANGED <<vars, s>>

\* Something was running whenever it looked, for STOP_GRACE_SECONDS.
GraceOver(s) ==
    /\ running
    /\ StopGoto(s, "wait", "none")
    /\ target' = [target EXCEPT ![s] = None]
    /\ Die
    /\ UNCHANGED <<requestVars, stray>>

Stop(s) == Signal(s) \/ StopSees(s) \/ GraceOver(s)

\* close: somebody ends the session, or it is reaped.
Close ==
    /\ ~dead
    /\ Die
    /\ UNCHANGED <<requestVars, stopVars>>

-----------------------------------------------------------------------------

\* A session is opened to serve requests; when the last has been answered there
\* is nothing more to see.
Next ==
    \/ \E r \in Requests : Begin(r) \/ Serve(r) \/ Late(r)
    \/ ChildReceives \/ ChildReplies \/ ChildNext \/ ChildExits
    \/ \E s \in Stoppers : StopChecks(s) \/ Stop(s)
    \/ Close

Spec == Init /\ [][Next]_vars

\* Threads go on.  The child may hang in a cell, and nobody need close the session.
FairSpec ==
    /\ Spec
    /\ \A r \in Requests : WF_vars(Serve(r))
    /\ \A s \in Stoppers : WF_vars(Stop(s))

-----------------------------------------------------------------------------
(* Safety *)

\* ask: whoever gets a reply from the child gets the one to its own request,
\* or is told that the session is over.
AnswersItsOwn == \A r \in Requests : answer[r] \in {None, Failed, r}

\* Replies and requests stay in step whatever is late, dies, is closed or is stopped,
\* but for a signal that comes in the one gap that serve leaves open, between its
\* answer and its next recv.
OnlyStraysMisanswer == stray \/ AnswersItsOwn

\* interrupt: when a stop returns, the cell it was pressed for is over, or its
\* session is.
StopEndsTheCell ==
    [][\A s \in Stoppers :
        stopPc[s] = "wait" /\ stopPc'[s] = "none" => dead' \/ pc[target[s]] = "done"]_vars

(* Liveness *)

\* Whatever a cell does, whoever asked for it is answered, as RUN_SECONDS is a
\* deadline for poll; and whoever pressed stop is, who need not wait for that.
EveryCallReturns ==
    /\ \A s \in Stoppers : stopPc[s] # "none" ~> stopPc[s] = "none"
    /\ (\A r \in Requests : WF_vars(Late(r)))
           => \A r \in Requests : pc[r] # "none" ~> pc[r] = "done"

=============================================================================
