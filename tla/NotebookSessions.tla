-------------------------- MODULE NotebookSessions --------------------------
(***************************************************************************)
(* Which interpreter session a notebook's Python cells run in: the key in  *)
(* Redis that names it, the executor's table of sessions with its cap and  *)
(* its reaper, the runs that look the session up, open one, lose it and    *)
(* open another, and the people who let it go.  Every step is a round trip *)
(* to Redis or to the executor.  What happens inside a session is module   *)
(* CellSession.                                                            *)
(***************************************************************************)
EXTENDS Integers, FiniteSets

CONSTANTS
    Pages,        \* the notebooks
    CellRuns,     \* runs of Python cells in play at once (bound)
    Leavers,      \* requests that detach the interpreter, likewise (bound)
    PageOf,       \* PageOf[t]: the notebook a run or a leaver is of
    SessionIds,   \* (bound)
    MaxSessions,  \* EXECUTOR_MAX_SESSIONS
    NoSession

Talks == CellRuns \cup Leavers

ASSUME NotebookSessionsAssumption ==
    /\ PageOf \in [Talks -> Pages]
    /\ CellRuns \cap Leavers = {}
    /\ MaxSessions \in Nat
    /\ NoSession \notin SessionIds

VARIABLES
    key,       \* the session a notebook's key names
    table,     \* _sessions
    lapsed,    \* those of them idle for too long, or with a dead child
    talkPc,    \* where a run or a leaver is
    talkWith,  \* the session it has in hand
    retried,   \* the runs that have lost a session already
    crowded    \* history: two sessions were started at once

talkVars    == <<talkPc, talkWith, retried>>
sessionVars == <<key, table, lapsed, talkVars, crowded>>

TalkPcs == {"idle", "look", "post", "start", "name", "ask", "run", "forget", "clear", "end"}

SessionsInit ==
    /\ key = [n \in Pages |-> NoSession]
    /\ table = {} /\ lapsed = {}
    /\ talkPc = [t \in Talks |-> "idle"]
    /\ talkWith = [t \in Talks |-> NoSession]
    /\ retried = {}
    /\ crowded = FALSE

-----------------------------------------------------------------------------

\* Sessions in use by somebody: an id is not given twice.
InHand == table \cup {key[n] : n \in Pages} \cup {talkWith[t] : t \in Talks}
InCell(s) == \E t \in CellRuns : talkPc[t] = "run" /\ talkWith[t] = s

\* _gate reaps before every request.
Reaped == table \ lapsed

TalkGoto(t, from, to, s) ==
    /\ talkPc[t] = from
    /\ talkPc' = [talkPc EXCEPT ![t] = to]
    /\ talkWith' = [talkWith EXCEPT ![t] = s]

TalkEnds(t) ==
    /\ TalkGoto(t, talkPc[t], "idle", NoSession)
    /\ retried' = retried \ {t}

\* A request of the executor, which changes the table to what is given.
Request(sessions) ==
    /\ table' = sessions
    /\ lapsed' = lapsed \cap sessions

RunPythonCell(t) ==
    /\ t \in CellRuns
    /\ TalkGoto(t, "idle", "look", NoSession)
    /\ UNCHANGED <<key, table, lapsed, retried, crowded>>

Detach(t) ==
    /\ t \in Leavers
    /\ TalkGoto(t, "idle", "forget", NoSession)
    /\ UNCHANGED <<key, table, lapsed, retried, crowded>>

\* session_for: the GET.
LookUp(t) ==
    LET s == key[PageOf[t]] IN
    /\ TalkGoto(t, "look", IF s = NoSession THEN "post" ELSE "ask", s)
    /\ UNCHANGED <<key, table, lapsed, retried, crowded>>

\* Mutant: the session that would be one too many is let in.
OneMore(sessions) == Cardinality(sessions) <= MaxSessions

TableHasRoom(sessions) == Cardinality(sessions) < MaxSessions

\* create_session looks at the cap under its lock,
PostSession(t) ==
    /\ TableHasRoom(Reaped)
    /\ Request(Reaped)
    /\ TalkGoto(t, "post", "start", NoSession)
    /\ crowded' = (crowded \/ \E u \in CellRuns : talkPc[u] = "start")
    /\ UNCHANGED <<key, retried>>

RefuseSession(t) ==
    /\ talkPc[t] = "post" /\ ~TableHasRoom(Reaped)
    /\ Request(Reaped)
    /\ TalkEnds(t)
    /\ UNCHANGED <<key, crowded>>

Opened(s) ==
    /\ s \in SessionIds \ InHand
    /\ table' = table \cup {s}

\* starts a child, and puts the session into the table under the lock again,
StartChild(t) ==
    /\ \E s \in SessionIds : Opened(s) /\ TalkGoto(t, "start", "name", s)
    /\ UNCHANGED <<key, lapsed, retried, crowded>>

\* unless the child does not answer.
ChildFails(t) ==
    /\ talkPc[t] = "start"
    /\ TalkEnds(t)
    /\ UNCHANGED <<key, table, lapsed, crowded>>

\* The SETEX.
NameIt(t) ==
    /\ TalkGoto(t, "name", "ask", talkWith[t])
    /\ key' = [key EXCEPT ![PageOf[t]] = talkWith[t]]
    /\ UNCHANGED <<table, lapsed, retried, crowded>>

\* The inputs and the code go to the session, if it is there and not at a cell.
AskSession(t) ==
    /\ talkWith[t] \in Reaped /\ ~InCell(talkWith[t])
    /\ TalkGoto(t, "ask", "run", talkWith[t])
    /\ Request(Reaped)
    /\ UNCHANGED <<key, retried, crowded>>

SessionBusy(t) ==
    /\ talkPc[t] = "ask"
    /\ talkWith[t] \in Reaped /\ InCell(talkWith[t])
    /\ TalkEnds(t)
    /\ Request(Reaped)
    /\ UNCHANGED <<key, crowded>>

\* Gone: the first time the run detaches and starts over, then it fails.
LoseSession(t) ==
    /\ talkPc[t] = "ask"
    /\ talkWith[t] \notin Reaped
    /\ Request(Reaped)
    /\ IF t \notin retried
       THEN TalkGoto(t, "ask", "forget", NoSession) /\ retried' = retried \cup {t}
       ELSE TalkEnds(t)
    /\ UNCHANGED <<key, crowded>>

\* The cell ends, with an answer, an error or a session that died under it.
EndCell(t) ==
    /\ talkPc[t] = "run"
    /\ TalkEnds(t)
    /\ UNCHANGED <<key, table, lapsed, crowded>>

\* detach: GET, DEL, DELETE, of whatever session the notebook has by now.
ForgetSession(t) ==
    /\ TalkGoto(t, "forget", "clear", key[PageOf[t]])
    /\ UNCHANGED <<key, table, lapsed, retried, crowded>>

ClearKey(t) ==
    /\ TalkGoto(t, "clear", "end", talkWith[t])
    /\ key' = [key EXCEPT ![PageOf[t]] = NoSession]
    /\ UNCHANGED <<table, lapsed, retried, crowded>>

EndSession(t) ==
    /\ TalkGoto(t, "end", IF t \in CellRuns THEN "look" ELSE "idle", NoSession)
    /\ IF talkWith[t] = NoSession THEN UNCHANGED <<table, lapsed>>
       ELSE Request(Reaped \ {talkWith[t]})
    /\ UNCHANGED <<key, retried, crowded>>

\* The worker or the server is killed; a session that is being started may still
\* come up, with no key to name it.
KillTalk(t) ==
    /\ talkPc[t] # "idle"
    /\ TalkEnds(t)
    /\ \/ UNCHANGED table
       \/ talkPc[t] = "start" /\ \E s \in SessionIds : Opened(s)
    /\ UNCHANGED <<key, lapsed, crowded>>

\* Mutant: a session's idle time runs from its first request.
IdleFromTheStart(s) == TRUE

IdleFromLastUse(s) == ~InCell(s)

\* No request for IDLE_SECONDS, which is longer than a cell may run.
SessionIdles(s) ==
    /\ s \in table
    /\ IdleFromLastUse(s)
    /\ lapsed' = lapsed \cup {s}
    /\ UNCHANGED <<key, table, talkVars, crowded>>

\* The child dies: out of memory or time, or it would not stop.
ChildDies(s) ==
    /\ s \in table /\ InCell(s)
    /\ lapsed' = lapsed \cup {s}
    /\ talkPc' = [t \in Talks |-> IF talkWith[t] = s /\ talkPc[t] = "run" THEN "idle" ELSE talkPc[t]]
    /\ talkWith' = [t \in Talks |-> IF talkPc'[t] = "idle" THEN NoSession ELSE talkWith[t]]
    /\ retried' = {t \in retried : talkPc'[t] # "idle"}
    /\ UNCHANGED <<key, table, crowded>>

\* SESSION_TTL is longer than IDLE_SECONDS.
KeyExpires(n) ==
    /\ key[n] \notin Reaped
    /\ key' = [key EXCEPT ![n] = NoSession]
    /\ UNCHANGED <<table, lapsed, talkVars, crowded>>

ExecutorRestarts ==
    /\ table' = {} /\ lapsed' = {}
    /\ UNCHANGED <<key, talkVars, crowded>>

TalkStep(t) ==
    \/ LookUp(t) \/ PostSession(t) \/ RefuseSession(t) \/ StartChild(t) \/ ChildFails(t) \/ NameIt(t)
    \/ AskSession(t) \/ SessionBusy(t) \/ LoseSession(t) \/ EndCell(t)
    \/ ForgetSession(t) \/ ClearKey(t) \/ EndSession(t)

SessionsNext ==
    \/ \E t \in Talks : RunPythonCell(t) \/ Detach(t) \/ TalkStep(t) \/ KillTalk(t)
    \/ \E s \in SessionIds : SessionIdles(s) \/ ChildDies(s)
    \/ \E n \in Pages : KeyExpires(n)
    \/ ExecutorRestarts

SessionsSpec == SessionsInit /\ [][SessionsNext]_sessionVars

-----------------------------------------------------------------------------

\* Types.
SessionsTypeOK ==
    /\ key \in [Pages -> SessionIds \cup {NoSession}]
    /\ table \subseteq SessionIds /\ lapsed \subseteq table
    /\ talkPc \in [Talks -> TalkPcs]
    /\ talkWith \in [Talks -> SessionIds \cup {NoSession}]
    /\ retried \subseteq CellRuns
    /\ crowded \in BOOLEAN

\* The executor keeps to its cap as long as no two sessions are started at once
\* (service.py:262 looks and :277 inserts, with the start of a child in between).
CapKept == Cardinality(table) <= MaxSessions \/ crowded

\* A session with a cell in it leaves the table only by a detach of its own
\* notebook, by another run of it that lost a session or by a person, or with the
\* whole executor: never by the reaper, or for the sake of another notebook.
RunningIsKept ==
    [][\A s \in table \ table' :
          InCell(s) =>
             \/ ExecutorRestarts
             \/ \E t \in Talks, u \in CellRuns :
                   /\ talkPc[t] = "end" /\ talkWith[t] = s
                   /\ talkPc[u] = "run" /\ talkWith[u] = s /\ PageOf[t] = PageOf[u]]_sessionVars

=============================================================================
