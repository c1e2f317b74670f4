-------------------------- MODULE NotebookProofs --------------------------
(*************************************************************************)
(* Notebooks: their sessions with the executor, the runs of their cells, *)
(* and what the page calls stale, for any notebooks, cells, runs and     *)
(* edits.                                                                *)
(*************************************************************************)
EXTENDS NotebookSessions, Notebooks, FiniteSetTheorems, WellFoundedInduction, TLAPS

-----------------------------------------------------------------------------
(*************************************************************************)
(* Sessions: the executor keeps to its cap unless two sessions are       *)
(* started at once, and a session with a cell in it goes only by its own *)
(* notebook's doing.                                                     *)
(*************************************************************************)

USE DEF Talks

-----------------------------------------------------------------------------
(* Types *)

\* A leaver only forgets, clears and ends a session.
LeaverPcs == {"idle", "forget", "clear", "end"}

TypeInv ==
    /\ SessionsTypeOK
    /\ \A t \in Leavers : talkPc[t] \in LeaverPcs

\* One step of a run or a leaver keeps every variable to its values.
LEMMA TalkKeepsType ==
    ASSUME NEW t \in Talks, TypeInv,
           RunPythonCell(t) \/ Detach(t) \/ TalkStep(t) \/ KillTalk(t)
    PROVE  TypeInv'
<1> USE NotebookSessionsAssumption
    DEF TypeInv, SessionsTypeOK, TalkPcs, LeaverPcs, TalkGoto, TalkEnds
<1>1. CASE RunPythonCell(t) \/ Detach(t)
  BY <1>1 DEF RunPythonCell, Detach
<1>2. CASE LookUp(t)
  BY <1>2 DEF LookUp
<1>3. CASE PostSession(t) \/ RefuseSession(t)
  BY <1>3 DEF PostSession, RefuseSession, Request, Reaped
<1>4. CASE StartChild(t) \/ ChildFails(t)
  BY <1>4 DEF StartChild, ChildFails, Opened
<1>5. CASE NameIt(t)
  BY <1>5 DEF NameIt
<1>6. CASE AskSession(t) \/ SessionBusy(t)
  BY <1>6 DEF AskSession, SessionBusy, Request, Reaped
<1>7. CASE LoseSession(t)
  <2>1. t \in CellRuns
    BY <1>7 DEF LoseSession
  <2> QED
    BY <1>7, <2>1 DEF LoseSession, Request, Reaped
<1>8. CASE EndCell(t)
  BY <1>8 DEF EndCell
<1>9. CASE ForgetSession(t) \/ ClearKey(t)
  BY <1>9 DEF ForgetSession, ClearKey
<1>10. CASE EndSession(t)
  <2>1. table' \subseteq table /\ lapsed' \subseteq table'
    BY <1>10 DEF EndSession, Request, Reaped
  <2> QED
    BY <1>10, <2>1 DEF EndSession
<1>11. CASE KillTalk(t)
  <2>1. table \subseteq table' /\ table' \subseteq SessionIds
    BY <1>11 DEF KillTalk, Opened
  <2> QED
    BY <1>11, <2>1 DEF KillTalk
<1> QED
  BY <1>1, <1>2, <1>3, <1>4, <1>5, <1>6, <1>7, <1>8, <1>9, <1>10, <1>11 DEF TalkStep

\* So do the sessions, the keys and the executor.
LEMMA SessionsKeepType ==
    ASSUME TypeInv,
           \/ \E s \in SessionIds : SessionIdles(s) \/ ChildDies(s)
           \/ \E n \in Pages : KeyExpires(n)
           \/ ExecutorRestarts
    PROVE  TypeInv'
<1> USE DEF TypeInv, SessionsTypeOK, TalkPcs, LeaverPcs, talkVars
<1>1. ASSUME NEW s \in SessionIds, SessionIdles(s) PROVE TypeInv'
  BY <1>1 DEF SessionIdles
<1>2. ASSUME NEW s \in SessionIds, ChildDies(s) PROVE TypeInv'
  <2>1. talkPc' \in [Talks -> TalkPcs] /\ \A t \in Leavers : talkPc'[t] \in LeaverPcs
    BY <1>2 DEF ChildDies
  <2>2. talkWith' \in [Talks -> SessionIds \cup {NoSession}]
    BY <1>2 DEF ChildDies
  <2>3. retried' \subseteq CellRuns
    BY <1>2 DEF ChildDies
  <2> QED
    BY <1>2, <2>1, <2>2, <2>3 DEF ChildDies
<1>3. ASSUME NEW n \in Pages, KeyExpires(n) PROVE TypeInv'
  BY <1>3 DEF KeyExpires
<1>4. CASE ExecutorRestarts
  BY <1>4 DEF ExecutorRestarts
<1> QED
  BY <1>1, <1>2, <1>3, <1>4

\* The strengthening is inductive.
LEMMA TypeInvHolds == SessionsSpec => []TypeInv
<1>1. SessionsInit => TypeInv
  BY NotebookSessionsAssumption DEF SessionsInit, TypeInv, SessionsTypeOK, TalkPcs, LeaverPcs
<1>2. TypeInv /\ [SessionsNext]_sessionVars => TypeInv'
  <2> SUFFICES ASSUME TypeInv, [SessionsNext]_sessionVars PROVE TypeInv'
    OBVIOUS
  <2>1. CASE UNCHANGED sessionVars
    BY <2>1 DEF sessionVars, talkVars, TypeInv, SessionsTypeOK
  <2>2. CASE SessionsNext
    BY <2>2, TalkKeepsType, SessionsKeepType DEF SessionsNext
  <2> QED
    BY <2>1, <2>2
<1> QED
  BY <1>1, <1>2, PTL DEF SessionsSpec

\* Every variable keeps to its values: a session that is idle or dead is one of the
\* table, and only a run of a cell ever loses one.
THEOREM SessionsTypeCorrect == SessionsSpec => []SessionsTypeOK
<1>1. TypeInv => SessionsTypeOK
  BY DEF TypeInv
<1> QED
  BY <1>1, TypeInvHolds, PTL

-----------------------------------------------------------------------------
(* The cap *)

\* Unless two sessions were started at once, there is room for the one that is being
\* started, and it is the only one.
CapInv ==
    /\ IsFiniteSet(table)
    /\ ~crowded =>
        /\ Cardinality(table) <= MaxSessions
        /\ \A t \in CellRuns : talkPc[t] = "start" =>
              /\ Cardinality(table) < MaxSessions
              /\ \A u \in CellRuns : talkPc[u] = "start" => u = t

\* A table that only loses sessions keeps within what it was within.
LEMMA FewerSessions ==
    ASSUME NEW S \in SUBSET table, IsFiniteSet(table)
    PROVE  /\ IsFiniteSet(S) /\ Cardinality(S) \in Nat /\ Cardinality(table) \in Nat
           /\ Cardinality(S) <= Cardinality(table)
BY FS_Subset, FS_CardinalityType

\* A session that opens is one more.
LEMMA OneMoreSession ==
    ASSUME NEW s, s \notin table, IsFiniteSet(table)
    PROVE  /\ IsFiniteSet(table \cup {s})
           /\ Cardinality(table) \in Nat
           /\ Cardinality(table \cup {s}) = Cardinality(table) + 1
BY FS_AddElement, FS_CardinalityType

\* A step that starts no session and puts none into the table disturbs nothing.
LEMMA CapUndisturbed ==
    ASSUME CapInv, crowded' = crowded, table' \subseteq table,
           \A t \in CellRuns : talkPc'[t] = "start" => talkPc[t] = "start"
    PROVE  CapInv'
<1>1. /\ IsFiniteSet(table') /\ Cardinality(table') \in Nat /\ Cardinality(table) \in Nat
      /\ Cardinality(table') <= Cardinality(table)
  BY FewerSessions DEF CapInv
<1>2. ASSUME ~crowded' PROVE ~crowded
  BY <1>2
<1> QED
  BY <1>1, <1>2, NotebookSessionsAssumption DEF CapInv

\* A session opens for the run that was starting it, and that run starts it no more.
LEMMA CapKeptByOpening ==
    ASSUME CapInv, TypeInv, NEW t \in CellRuns, talkPc[t] = "start",
           NEW s \in SessionIds, Opened(s), crowded' = crowded,
           NEW to, to # "start", talkPc' = [talkPc EXCEPT ![t] = to]
    PROVE  CapInv'
<1>1. /\ IsFiniteSet(table') /\ Cardinality(table) \in Nat
      /\ Cardinality(table') = Cardinality(table) + 1
  BY OneMoreSession DEF CapInv, Opened, InHand
<1>2. ASSUME ~crowded' PROVE ~crowded
  BY <1>2
<1>3. \A u \in CellRuns : talkPc'[u] = "start" => talkPc[u] = "start" /\ u # t
  BY DEF TypeInv, SessionsTypeOK
<1> QED
  BY <1>1, <1>2, <1>3, NotebookSessionsAssumption DEF CapInv

\* A session is let in when the table has room, and no other is being started.
LEMMA CapKeptByPosting ==
    ASSUME CapInv, TypeInv, NEW t \in Talks, PostSession(t)
    PROVE  CapInv'
<1>1. table' = Reaped /\ table' \subseteq table
  BY DEF PostSession, Request, Reaped
<1>2. IsFiniteSet(table') /\ Cardinality(table') \in Nat
  BY <1>1, FewerSessions DEF CapInv
<1>3. Cardinality(table') < MaxSessions
  BY <1>1 DEF PostSession, TableHasRoom
<1>4. ASSUME ~crowded'
      PROVE  \A u \in CellRuns : talkPc'[u] = "start" => u = t
  <2>1. \A u \in CellRuns : talkPc[u] # "start"
    BY <1>4, Zenon DEF PostSession
  <2> QED
    BY <2>1 DEF PostSession, TalkGoto, TypeInv, SessionsTypeOK
<1>5. Cardinality(table') <= MaxSessions
  BY <1>2, <1>3, NotebookSessionsAssumption
<1> QED
  BY <1>2, <1>3, <1>4, <1>5 DEF CapInv

\* The strengthening is inductive.
LEMMA CapInvHolds == SessionsSpec => []CapInv
<1>1. SessionsInit => CapInv
  BY FS_EmptySet, NotebookSessionsAssumption DEF SessionsInit, CapInv
<1>2. TypeInv /\ CapInv /\ [SessionsNext]_sessionVars => CapInv'
  <2> SUFFICES ASSUME TypeInv, CapInv, [SessionsNext]_sessionVars PROVE CapInv'
    OBVIOUS
  <2> USE DEF TypeInv, SessionsTypeOK
  <2>1. ASSUME NEW t \in Talks, TalkStep(t), ~PostSession(t), ~StartChild(t) PROVE CapInv'
    <3> USE DEF TalkGoto, TalkEnds
    <3>1. crowded' = crowded
      BY <2>1, Zenon
      DEF TalkStep, LookUp, RefuseSession, ChildFails, NameIt, AskSession, SessionBusy,
          LoseSession, EndCell, ForgetSession, ClearKey, EndSession
    <3>2. table' \subseteq table
      BY <2>1
      DEF TalkStep, LookUp, RefuseSession, ChildFails, NameIt, AskSession, SessionBusy,
          LoseSession, EndCell, ForgetSession, ClearKey, EndSession, Request, Reaped
    <3>3. \A u \in CellRuns : talkPc'[u] = "start" => talkPc[u] = "start"
      BY <2>1
      DEF TalkStep, LookUp, RefuseSession, ChildFails, NameIt, AskSession, SessionBusy,
          LoseSession, EndCell, ForgetSession, ClearKey, EndSession
    <3> QED
      BY <3>1, <3>2, <3>3, CapUndisturbed
  <2>2. ASSUME NEW t \in Talks, StartChild(t) PROVE CapInv'
    <3>1. PICK s \in SessionIds : Opened(s) /\ TalkGoto(t, "start", "name", s)
      BY <2>2 DEF StartChild
    <3>2. t \in CellRuns
      BY <3>1 DEF TalkGoto, LeaverPcs
    <3> QED
      BY <2>2, <3>1, <3>2, CapKeptByOpening DEF StartChild, TalkGoto
  <2>3. ASSUME NEW t \in Talks, KillTalk(t) PROVE CapInv'
    <3>1. crowded' = crowded
      BY <2>3, Zenon DEF KillTalk
    <3>2. talkPc' = [talkPc EXCEPT ![t] = "idle"]
      BY <2>3 DEF KillTalk, TalkEnds, TalkGoto
    <3>3. CASE UNCHANGED table
      BY <3>1, <3>2, <3>3, CapUndisturbed
    <3>4. ASSUME NEW s \in SessionIds, talkPc[t] = "start", Opened(s) PROVE CapInv'
      <4>1. t \in CellRuns
        BY <3>4 DEF LeaverPcs
      <4> QED
        BY <3>1, <3>2, <3>4, <4>1, CapKeptByOpening
    <3> QED
      BY <2>3, <3>3, <3>4 DEF KillTalk
  <2>4. ASSUME NEW t \in Talks, RunPythonCell(t) \/ Detach(t) PROVE CapInv'
    <3>1. crowded' = crowded
      BY <2>4, Zenon DEF RunPythonCell, Detach
    <3> QED
      BY <2>4, <3>1, CapUndisturbed DEF RunPythonCell, Detach, TalkGoto
  <2>5. ASSUME NEW s \in SessionIds, SessionIdles(s) \/ ChildDies(s) PROVE CapInv'
    <3>1. crowded' = crowded
      BY <2>5, Zenon DEF SessionIdles, ChildDies
    <3>2. \A u \in CellRuns : talkPc'[u] = "start" => talkPc[u] = "start"
      BY <2>5 DEF SessionIdles, ChildDies, talkVars
    <3> QED
      BY <2>5, <3>1, <3>2, CapUndisturbed DEF SessionIdles, ChildDies
  <2>6. ASSUME NEW n \in Pages, KeyExpires(n) PROVE CapInv'
    <3>1. crowded' = crowded
      BY <2>6, Zenon DEF KeyExpires
    <3> QED
      BY <2>6, <3>1, CapUndisturbed DEF KeyExpires, talkVars
  <2>7. CASE ExecutorRestarts
    <3>1. crowded' = crowded
      BY <2>7, Zenon DEF ExecutorRestarts
    <3> QED
      BY <2>7, <3>1, CapUndisturbed DEF ExecutorRestarts, talkVars
  <2>8. CASE UNCHANGED sessionVars
    <3>1. crowded' = crowded /\ table' = table /\ talkPc' = talkPc
      BY <2>8, Zenon DEF sessionVars, talkVars
    <3> QED
      BY <3>1, CapUndisturbed
  <2>9. ASSUME NEW t \in Talks, PostSession(t) PROVE CapInv'
    BY <2>9, CapKeptByPosting
  <2> QED
    BY <2>1, <2>2, <2>3, <2>4, <2>5, <2>6, <2>7, <2>8, <2>9 DEF SessionsNext
<1> QED
  BY <1>1, <1>2, TypeInvHolds, PTL DEF SessionsSpec

\* The executor keeps to its cap as long as no two sessions are started at once,
\* through restarts, killed workers, and sessions that come up with nobody waiting.
THEOREM CapIsKept == SessionsSpec => []CapKept
<1>1. CapInv => CapKept
  BY Zenon DEF CapInv, CapKept
<1> QED
  BY <1>1, CapInvHolds, PTL

-----------------------------------------------------------------------------
(* A session with a cell in it *)

\* A session is of one notebook: of whoever has it in hand, and of the key that
\* names it.
OfOnePage ==
    /\ \A n, m \in Pages : key[n] = key[m] /\ key[n] # NoSession => n = m
    /\ \A t \in Talks, n \in Pages : talkWith[t] = key[n] /\ key[n] # NoSession => PageOf[t] = n
    /\ \A t, u \in Talks :
          talkWith[t] = talkWith[u] /\ talkWith[t] # NoSession => PageOf[t] = PageOf[u]

\* A cell is in a session that is neither idle nor dead.
RunningIsAlive == \A t \in CellRuns : talkPc[t] = "run" => talkWith[t] \notin lapsed

\* Nobody takes a session in hand who is not of its notebook, unless it is new.
LEMMA PageKept ==
    ASSUME TypeInv, OfOnePage, NEW t \in Talks, NEW to, NEW s,
           talkPc' = [talkPc EXCEPT ![t] = to],
           talkWith' = [talkWith EXCEPT ![t] = s],
           \/ s \in {NoSession, talkWith[t], key[PageOf[t]]} /\ UNCHANGED key
           \/ s \in SessionIds \ InHand /\ UNCHANGED key
           \/ s = talkWith[t] /\ key' = [key EXCEPT ![PageOf[t]] = s]
           \/ s = talkWith[t] /\ key' = [key EXCEPT ![PageOf[t]] = NoSession]
    PROVE  OfOnePage'
<1> USE NotebookSessionsAssumption DEF OfOnePage, TypeInv, SessionsTypeOK
<1>1. CASE s \in {NoSession, talkWith[t], key[PageOf[t]]} /\ UNCHANGED key
  BY <1>1
<1>2. CASE s \in SessionIds \ InHand /\ UNCHANGED key
  BY <1>2 DEF InHand
<1>3. CASE s = talkWith[t] /\ key' = [key EXCEPT ![PageOf[t]] = s]
  BY <1>3
<1>4. CASE s = talkWith[t] /\ key' = [key EXCEPT ![PageOf[t]] = NoSession]
  BY <1>4
<1> QED
  BY <1>1, <1>2, <1>3, <1>4

\* One step of a run or a leaver keeps a session to its notebook.
LEMMA TalkKeepsPage ==
    ASSUME NEW t \in Talks, TypeInv, OfOnePage,
           RunPythonCell(t) \/ Detach(t) \/ TalkStep(t) \/ KillTalk(t)
    PROVE  OfOnePage'
<1> USE DEF TalkGoto, TalkEnds
<1>1. CASE RunPythonCell(t) \/ Detach(t)
  BY <1>1, PageKept DEF RunPythonCell, Detach
<1>2. CASE LookUp(t)
  BY <1>2, PageKept DEF LookUp
<1>3. CASE PostSession(t) \/ RefuseSession(t)
  BY <1>3, PageKept DEF PostSession, RefuseSession
<1>4. CASE StartChild(t)
  BY <1>4, PageKept DEF StartChild, Opened
<1>5. CASE ChildFails(t) \/ EndCell(t)
  BY <1>5, PageKept DEF ChildFails, EndCell
<1>6. CASE NameIt(t)
  BY <1>6, PageKept DEF NameIt
<1>7. CASE AskSession(t) \/ SessionBusy(t)
  BY <1>7, PageKept DEF AskSession, SessionBusy
<1>8. CASE LoseSession(t)
  BY <1>8, PageKept DEF LoseSession
<1>9. CASE ForgetSession(t)
  BY <1>9, PageKept DEF ForgetSession
<1>10. CASE ClearKey(t)
  BY <1>10, PageKept DEF ClearKey
<1>11. CASE EndSession(t)
  BY <1>11, PageKept DEF EndSession
<1>12. CASE KillTalk(t)
  BY <1>12, PageKept DEF KillTalk
<1> QED
  BY <1>1, <1>2, <1>3, <1>4, <1>5, <1>6, <1>7, <1>8, <1>9, <1>10, <1>11, <1>12 DEF TalkStep

\* One step of a run or a leaver leaves the cells of others in live sessions, and
\* puts its own into one.
LEMMA TalkKeepsAlive ==
    ASSUME NEW t \in Talks, TypeInv, RunningIsAlive,
           RunPythonCell(t) \/ Detach(t) \/ TalkStep(t) \/ KillTalk(t)
    PROVE  RunningIsAlive'
<1> USE DEF TypeInv, SessionsTypeOK, RunningIsAlive, TalkGoto, TalkEnds
<1>1. lapsed' \subseteq lapsed
  BY DEF RunPythonCell, Detach, KillTalk, TalkStep, LookUp, PostSession, RefuseSession,
         StartChild, ChildFails, NameIt, AskSession, SessionBusy, LoseSession, EndCell,
         ForgetSession, ClearKey, EndSession, Request, Reaped
<1>2. CASE AskSession(t)
  BY <1>1, <1>2 DEF AskSession, Reaped
<1>3. CASE ~AskSession(t)
  <2>1. \E to \in TalkPcs \ {"run"}, s \in SessionIds \cup {NoSession} :
           /\ talkPc' = [talkPc EXCEPT ![t] = to]
           /\ talkWith' = [talkWith EXCEPT ![t] = s]
    BY <1>3, NotebookSessionsAssumption
    DEF RunPythonCell, Detach, KillTalk, TalkStep, LookUp, PostSession, RefuseSession,
        StartChild, ChildFails, NameIt, SessionBusy, LoseSession, EndCell,
        ForgetSession, ClearKey, EndSession, TalkPcs, Opened
  <2> QED
    BY <1>1, <2>1
<1> QED
  BY <1>2, <1>3

\* Both hold of every state.
LEMMA HoldInvHolds == SessionsSpec => [](OfOnePage /\ RunningIsAlive)
<1>1. SessionsInit => OfOnePage /\ RunningIsAlive
  BY NotebookSessionsAssumption DEF SessionsInit, OfOnePage, RunningIsAlive
<1>2. TypeInv /\ OfOnePage /\ RunningIsAlive /\ [SessionsNext]_sessionVars
        => (OfOnePage /\ RunningIsAlive)'
  <2> SUFFICES ASSUME TypeInv, OfOnePage, RunningIsAlive, [SessionsNext]_sessionVars
               PROVE  (OfOnePage /\ RunningIsAlive)'
    OBVIOUS
  <2> USE DEF TypeInv, SessionsTypeOK
  <2>1. ASSUME NEW t \in Talks,
               RunPythonCell(t) \/ Detach(t) \/ TalkStep(t) \/ KillTalk(t)
        PROVE  (OfOnePage /\ RunningIsAlive)'
    BY <2>1, TalkKeepsPage, TalkKeepsAlive
  <2>2. ASSUME NEW s \in SessionIds, SessionIdles(s) PROVE (OfOnePage /\ RunningIsAlive)'
    BY <2>2 DEF SessionIdles, IdleFromLastUse, InCell, talkVars, OfOnePage, RunningIsAlive
  <2>3. ASSUME NEW s \in SessionIds, ChildDies(s) PROVE (OfOnePage /\ RunningIsAlive)'
    <3>1. \A t \in Talks : talkWith'[t] \in {talkWith[t], NoSession}
      BY <2>3 DEF ChildDies
    <3>2. \A t \in Talks : talkPc'[t] = "run" =>
             talkPc[t] = "run" /\ talkWith[t] # s /\ talkWith'[t] = talkWith[t]
      BY <2>3 DEF ChildDies
    <3>3. key' = key /\ lapsed' = lapsed \cup {s}
      BY <2>3 DEF ChildDies
    <3>4. OfOnePage'
      BY <3>1, <3>3 DEF OfOnePage
    <3>5. RunningIsAlive'
      BY <3>2, <3>3 DEF RunningIsAlive
    <3> QED
      BY <3>4, <3>5
  <2>4. ASSUME NEW n \in Pages, KeyExpires(n) PROVE (OfOnePage /\ RunningIsAlive)'
    BY <2>4 DEF KeyExpires, talkVars, OfOnePage, RunningIsAlive
  <2>5. CASE ExecutorRestarts
    BY <2>5 DEF ExecutorRestarts, talkVars, OfOnePage, RunningIsAlive
  <2>6. CASE UNCHANGED sessionVars
    BY <2>6 DEF sessionVars, talkVars, OfOnePage, RunningIsAlive
  <2> QED
    BY <2>1, <2>2, <2>3, <2>4, <2>5, <2>6 DEF SessionsNext
<1> QED
  BY <1>1, <1>2, TypeInvHolds, PTL DEF SessionsSpec

\* A session with a cell in it is ended only for its own notebook, or with the whole
\* executor: the reaper passes it by, and so does every request of another notebook.
THEOREM RunningSessionIsKept == SessionsSpec => RunningIsKept
<1> DEFINE Kept ==
      \A s \in table \ table' :
          InCell(s) =>
             \/ ExecutorRestarts
             \/ \E t \in Talks, u \in CellRuns :
                   /\ talkPc[t] = "end" /\ talkWith[t] = s
                   /\ talkPc[u] = "run" /\ talkWith[u] = s /\ PageOf[t] = PageOf[u]
<1>1. TypeInv /\ OfOnePage /\ RunningIsAlive /\ [SessionsNext]_sessionVars => [Kept]_sessionVars
  <2> SUFFICES ASSUME TypeInv, OfOnePage, RunningIsAlive, SessionsNext,
                      NEW s \in table \ table', InCell(s), ~ExecutorRestarts
               PROVE  \E t \in Talks, u \in CellRuns :
                         /\ talkPc[t] = "end" /\ talkWith[t] = s
                         /\ talkPc[u] = "run" /\ talkWith[u] = s /\ PageOf[t] = PageOf[u]
    OBVIOUS
  <2>1. PICK u \in CellRuns : talkPc[u] = "run" /\ talkWith[u] = s
    BY DEF InCell
  <2>2. s \in Reaped /\ s # NoSession
    BY <2>1, NotebookSessionsAssumption DEF RunningIsAlive, Reaped, TypeInv, SessionsTypeOK
  <2>3. PICK t \in Talks : TalkStep(t)
    BY <2>2
    DEF SessionsNext, RunPythonCell, Detach, KillTalk, Opened, SessionIdles, ChildDies, KeyExpires
  <2>4. EndSession(t)
    BY <2>2, <2>3
    DEF TalkStep, LookUp, PostSession, RefuseSession, StartChild, ChildFails, NameIt,
        AskSession, SessionBusy, LoseSession, EndCell, ForgetSession, ClearKey, Request, Opened
  <2>5. talkPc[t] = "end" /\ talkWith[t] = s
    BY <2>2, <2>4 DEF EndSession, TalkGoto, Request
  <2>6. PageOf[t] = PageOf[u]
    BY <2>1, <2>2, <2>5 DEF OfOnePage
  <2> QED
    BY <2>1, <2>5, <2>6
<1> QED
  BY <1>1, TypeInvHolds, HoldInvHolds, PTL DEF SessionsSpec, RunningIsKept

HIDE DEF Talks

-----------------------------------------------------------------------------
(*************************************************************************)
(* Cells: what the page does not call stale is fresh, and a whole run    *)
(* that meets no other leaves nothing stale.                             *)
(*************************************************************************)

\* A set of numbers that is not empty has a smallest.
LEMMA Smallest ==
    ASSUME NEW S \in SUBSET Nat, S # {}
    PROVE  \E m \in S : \A n \in S : m <= n
<1> DEFINE R == {p \in Nat \X Nat : p[1] < p[2]}
<1>1. IsWellFoundedOn(R, Nat)
  BY NatLessThanWellFounded DEF OpToRel
<1>2. PICK m \in S : \A n \in S : ~(<<n, m>> \in R)
  <2> HIDE DEF R
  <2> QED
    BY <1>1, WFMin
<1>3. \A n \in S : ~(n < m)
  BY <1>2
<1> QED
  BY <1>3

\* The cell that a job is at is the first of those it has still to run.
LEMMA FirstIsThere ==
    ASSUME NEW S \in SUBSET Cells, S # {}
    PROVE  ByPosition(S) \in S /\ \A d \in S : ByPosition(S) <= d
<1>1. S \in SUBSET Nat
  BY NotebooksAssumption
<1>2. \E c \in S : \A d \in S : c <= d
  BY <1>1, Smallest
<1> QED
  BY <1>2 DEF ByPosition

\* The cell of a job that is at one.
LEMMA CellOfJob ==
    ASSUME NotebooksTypeOK, NEW j \in NotebookJobs, jobPc[j] # "idle"
    PROVE  Cell(j) \in jobCells[j] /\ Cell(j) \in Cells /\ \A d \in jobCells[j] : Cell(j) <= d
<1>1. jobCells[j] \in SUBSET Cells /\ jobCells[j] # {}
  BY DEF NotebooksTypeOK
<1> QED
  BY <1>1, FirstIsThere DEF Cell

\* Of the order of the last runs: the cell that has just run is after all others.
LEMMA OrderKept ==
    ASSUME NotebooksTypeOK, NEW c \in Cells, ran' = ran \cup {c},
           ranLater' = {p \in ranLater : c \notin {p[1], p[2]}} \cup {<<c, d>> : d \in ran \ {c}}
    PROVE  /\ ranLater' \subseteq ran' \X ran'
           /\ \A d, e \in ran' : <<d, e>> \in ranLater' <=> d # e /\ <<e, d>> \notin ranLater'
           /\ \A d, e \in ran \ {c} : <<d, e>> \in ranLater' <=> <<d, e>> \in ranLater
           /\ \A d \in ran \ {c} : <<c, d>> \in ranLater' /\ <<d, c>> \notin ranLater'
<1>1. /\ ran \subseteq Cells /\ ranLater \subseteq ran \X ran
      /\ \A d, e \in ran : <<d, e>> \in ranLater <=> d # e /\ <<e, d>> \notin ranLater
  BY DEF NotebooksTypeOK
<1>2. \A d, e : <<d, e>> \in ranLater' <=>
         \/ <<d, e>> \in ranLater /\ c # d /\ c # e
         \/ d = c /\ e \in ran /\ e # c
  OBVIOUS
<1>3. ranLater' \subseteq ran' \X ran'
  BY <1>1
<1>4. \A d \in ran \ {c} : <<c, d>> \in ranLater' /\ <<d, c>> \notin ranLater'
  BY <1>2
<1>5. \A d, e \in ran \ {c} : <<d, e>> \in ranLater' <=> <<d, e>> \in ranLater
  BY <1>2
<1>6. <<c, c>> \notin ranLater'
  BY <1>2
<1>7. ASSUME NEW d \in ran', NEW e \in ran'
      PROVE  <<d, e>> \in ranLater' <=> d # e /\ <<e, d>> \notin ranLater'
  <2>1. CASE d = c /\ e = c
    BY <1>6, <2>1
  <2>2. CASE d = c /\ e # c
    BY <1>4, <2>2
  <2>3. CASE d # c /\ e = c
    BY <1>4, <2>3
  <2>4. CASE d # c /\ e # c
    BY <1>1, <1>5, <2>4
  <2> QED
    BY <2>1, <2>2, <2>3, <2>4
<1> QED
  BY <1>3, <1>4, <1>5, <1>7

\* What the record of a run does.
LEMMA Recording ==
    ASSUME NotebooksTypeOK, NEW j \in NotebookJobs, RecordCell(j)
    PROVE  /\ jobPc[j] = "written" /\ Cell(j) \in Cells /\ Cell(j) \in jobCells[j]
           /\ jobPc' = [jobPc EXCEPT ![j] = IF jobCells[j] = {Cell(j)} THEN "idle" ELSE "next"]
           /\ jobCells' = [jobCells EXCEPT ![j] = @ \ {Cell(j)}]
           /\ jobRun' = [jobRun EXCEPT ![j] = NoRunYet]
           /\ ran' = ran \cup {Cell(j)}
           /\ ranLater' \subseteq ran' \X ran'
           /\ \A d, e \in ran' : <<d, e>> \in ranLater' <=> d # e /\ <<e, d>> \notin ranLater'
           /\ \A d, e \in ran \ {Cell(j)} : <<d, e>> \in ranLater' <=> <<d, e>> \in ranLater
           /\ \A d \in ran \ {Cell(j)} : <<Cell(j), d>> \in ranLater' /\ <<d, Cell(j)>> \notin ranLater'
           /\ lastOk' = IF jobRun[j].id > lastOk[Cell(j)].id
                        THEN [lastOk EXCEPT ![Cell(j)] = jobRun[j]] ELSE lastOk
           /\ crossed \subseteq crossed'
           /\ handoff[Cell(j)] # jobRun[j].id => Cell(j) \in crossed'
           /\ \A d \in Cells : ~Settled(d) /\ basis[d][Cell(j)] \notin {0, handoff[Cell(j)]} => d \in crossed'
           /\ crossed' \subseteq Cells
           /\ chain' \subseteq chain /\ (jobPc'[j] = "idle" => j \notin chain')
           /\ UNCHANGED <<refs, handoff, store, runCount, edits, basis>>
<1> DEFINE c == Cell(j)
<1>1. jobPc[j] = "written"
  BY DEF RecordCell, JobGoto
<1>2. c \in Cells /\ c \in jobCells[j]
  BY <1>1, CellOfJob
<1>3. /\ ran' = ran \cup {c}
      /\ ranLater' = {p \in ranLater : c \notin {p[1], p[2]}} \cup {<<c, d>> : d \in ran \ {c}}
  BY DEF RecordCell
<1>4. /\ ranLater' \subseteq ran' \X ran'
      /\ \A d, e \in ran' : <<d, e>> \in ranLater' <=> d # e /\ <<e, d>> \notin ranLater'
      /\ \A d, e \in ran \ {c} : <<d, e>> \in ranLater' <=> <<d, e>> \in ranLater
      /\ \A d \in ran \ {c} : <<c, d>> \in ranLater' /\ <<d, c>> \notin ranLater'
  <2> HIDE DEF c
  <2> QED
    BY <1>2, <1>3, OrderKept
<1>5. /\ jobPc' = [jobPc EXCEPT ![j] = IF jobCells[j] = {c} THEN "idle" ELSE "next"]
      /\ jobCells' = [jobCells EXCEPT ![j] = @ \ {c}]
      /\ jobRun' = [jobRun EXCEPT ![j] = NoRunYet]
      /\ lastOk' = IF jobRun[j].id > lastOk[c].id THEN [lastOk EXCEPT ![c] = jobRun[j]] ELSE lastOk
      /\ chain' = IF jobPc'[j] = "idle" THEN chain \ {j} ELSE chain
      /\ UNCHANGED <<refs, handoff, store, runCount, edits, basis>>
  BY DEF RecordCell, JobGoto
<1>6. crossed' = crossed
           \cup {d \in Cells : ~Settled(d) /\ basis[d][c] \notin {0, handoff[c]}}
           \cup (IF handoff[c] # jobRun[j].id THEN {c} ELSE {})
  BY DEF RecordCell
<1>7. /\ crossed \subseteq crossed' /\ crossed' \subseteq Cells
      /\ handoff[c] # jobRun[j].id => c \in crossed'
      /\ \A d \in Cells : ~Settled(d) /\ basis[d][c] \notin {0, handoff[c]} => d \in crossed'
  <2>1. crossed \subseteq Cells
    BY DEF NotebooksTypeOK
  <2> HIDE DEF c
  <2> QED
    BY <1>2, <1>6, <2>1
<1>8. chain' \subseteq chain /\ (jobPc'[j] = "idle" => j \notin chain')
  BY <1>5
<1> QED
  BY <1>1, <1>2, <1>3, <1>4, <1>5, <1>7, <1>8

\* Every variable keeps to its values; of two cells that have run, one ran later.
THEOREM NotebooksTypeCorrect == NotebooksSpec => []NotebooksTypeOK
<1> USE NotebooksAssumption DEF NotebooksTypeOK, RunRecords, JobGoto
<1>1. NotebooksInit => NotebooksTypeOK
  BY DEF NotebooksInit, NoRunYet, Nothing, Above
<1>2. NotebooksTypeOK /\ [NotebooksNext]_notebooksVars => NotebooksTypeOK'
  <2> SUFFICES ASSUME NotebooksTypeOK, [NotebooksNext]_notebooksVars PROVE NotebooksTypeOK'
    OBVIOUS
  <2>1. ASSUME NEW j \in NotebookJobs, NEW cells \in SUBSET Cells, cells # {},
               NEW met \in SUBSET NotebookJobs, StartJob(j, cells, met)
        PROVE  NotebooksTypeOK'
    BY <2>1 DEF StartJob, cellVars
  <2>2. ASSUME NEW j \in NotebookJobs, NEW c \in Cells, RunCell(j, c) PROVE NotebooksTypeOK'
    <3>1. {c} \in SUBSET Cells /\ {c} # {} /\ {} \in SUBSET NotebookJobs
      OBVIOUS
    <3> QED
      BY <2>1, <2>2, <3>1 DEF RunCell
  <2>3. ASSUME NEW j \in NotebookJobs, RunNotebook(j) PROVE NotebooksTypeOK'
    <3> DEFINE met == IF \A i \in NotebookJobs : jobPc[i] = "idle" THEN {j} ELSE {}
    <3>1. met \in SUBSET NotebookJobs /\ Cells \in SUBSET Cells /\ Cells # {}
      OBVIOUS
    <3>2. StartJob(j, Cells, met)
      BY <2>3 DEF RunNotebook
    <3> HIDE DEF met
    <3> QED
      BY <2>1, <3>1, <3>2
  <2>4. ASSUME NEW j \in NotebookJobs, JobStops(j) PROVE NotebooksTypeOK'
    BY <2>4 DEF JobStops, NoRunYet
  <2>5. ASSUME NEW j \in NotebookJobs, StartCell(j) PROVE NotebooksTypeOK'
    <3>1. refs[Cell(j)] \subseteq Cells
      BY <2>5, CellOfJob DEF StartCell
    <3> QED
      BY <2>5, <3>1 DEF StartCell, cellVars
  <2>6. ASSUME NEW j \in NotebookJobs, OpenStore(j) PROVE NotebooksTypeOK'
    BY <2>6 DEF OpenStore
  <2>7. ASSUME NEW j \in NotebookJobs, WriteHandoff(j) PROVE NotebooksTypeOK'
    <3>1. Cell(j) \in Cells
      BY <2>7, CellOfJob DEF WriteHandoff
    <3>2. [i \in Cells |-> IF i \in jobRun[j].inputs THEN handoff[i] ELSE 0] \in [Cells -> 0..MaxRuns]
      OBVIOUS
    <3> QED
      BY <2>7, <3>1, <3>2 DEF WriteHandoff
  <2>8. ASSUME NEW j \in NotebookJobs, RecordCell(j) PROVE NotebooksTypeOK'
    <3> HIDE DEF NotebooksTypeOK
    <3>1. lastOk' \in [Cells -> RunRecords]
      <4>1. lastOk \in [Cells -> RunRecords] /\ jobRun[j] \in RunRecords
        BY DEF NotebooksTypeOK
      <4>2. lastOk' = [lastOk EXCEPT ![Cell(j)] = jobRun[j]] \/ lastOk' = lastOk
        BY <2>8, Recording
      <4> HIDE DEF RunRecords
      <4> QED
        BY <4>1, <4>2
    <3>2. /\ ran' \subseteq Cells /\ ranLater' \subseteq ran' \X ran'
          /\ \A c, d \in ran' : <<c, d>> \in ranLater' <=> c # d /\ <<d, c>> \notin ranLater'
      <4>1. ran \subseteq Cells /\ Cell(j) \in Cells /\ ran' = ran \cup {Cell(j)}
        BY <2>8, Recording DEF NotebooksTypeOK
      <4> QED
        BY <2>8, <4>1, Recording
    <3>3. /\ jobCells' \in [NotebookJobs -> SUBSET Cells]
          /\ jobPc' \in [NotebookJobs -> {"idle", "next", "begun", "open", "written"}]
          /\ \A k \in NotebookJobs : jobCells'[k] = {} <=> jobPc'[k] = "idle"
      <4>1. /\ jobPc' = [jobPc EXCEPT ![j] = IF jobCells[j] = {Cell(j)} THEN "idle" ELSE "next"]
            /\ jobCells' = [jobCells EXCEPT ![j] = @ \ {Cell(j)}]
            /\ Cell(j) \in jobCells[j]
        BY <2>8, Recording
      <4> QED
        BY <4>1 DEF NotebooksTypeOK
    <3>4. /\ jobRun' \in [NotebookJobs -> RunRecords]
          /\ crossed' \subseteq Cells /\ chain' \subseteq NotebookJobs
          /\ UNCHANGED <<refs, handoff, store, runCount, edits, basis>>
      <4>1. NoRunYet \in RunRecords /\ jobRun \in [NotebookJobs -> RunRecords] /\ chain \subseteq NotebookJobs
        BY DEF NotebooksTypeOK, NoRunYet
      <4>2. /\ jobRun' = [jobRun EXCEPT ![j] = NoRunYet]
            /\ crossed' \subseteq Cells /\ chain' \subseteq chain
            /\ UNCHANGED <<refs, handoff, store, runCount, edits, basis>>
        BY <2>8, Recording
      <4> HIDE DEF RunRecords
      <4> QED
        BY <4>1, <4>2
    <3> QED
      BY <3>1, <3>2, <3>3, <3>4 DEF NotebooksTypeOK
  <2>9. ASSUME NEW c \in Cells, NEW reads \in SUBSET Above(c), EditCell(c, reads)
        PROVE  NotebooksTypeOK'
    <3>1. reads \subseteq Cells
      BY DEF Above
    <3> QED
      <4>1. refs' = [refs EXCEPT ![c] = reads] /\ edits' = edits + 1 /\ edits < MaxEdits
            /\ UNCHANGED <<handoff, ran, ranLater, lastOk, store, jobVars, basis, crossed, chain>>
        BY <2>9 DEF EditCell
      <4>2. refs' \in [Cells -> SUBSET Cells] /\ \A d \in Cells : refs'[d] \subseteq Above(d)
        BY <3>1, <4>1
      <4> QED
        BY <4>1, <4>2 DEF jobVars
  <2>10. CASE UNCHANGED notebooksVars
    BY <2>10 DEF notebooksVars, cellVars, jobVars
  <2> QED
    BY <2>2, <2>3, <2>4, <2>5, <2>6, <2>7, <2>8, <2>9, <2>10
    DEF NotebooksNext, RefuseCell, FailCell, KillJob
<1> QED
  BY <1>1, <1>2, PTL DEF NotebooksSpec

-----------------------------------------------------------------------------

\* A job is at the run of a cell.
AtRun(j) == jobPc[j] \in {"begun", "open", "written"}

\* The run that a job is at has an id of its own, not on record yet; what it reads are
\* cells above that have run.
RunsInv ==
    /\ \A j \in NotebookJobs :
          IF AtRun(j)
          THEN jobRun[j].id \in 1..runCount /\ jobRun[j].inputs \subseteq Above(Cell(j)) \cap ran
          ELSE jobRun[j] = NoRunYet
    /\ \A j, k \in NotebookJobs : AtRun(j) /\ AtRun(k) /\ jobRun[j].id = jobRun[k].id => j = k
    /\ \A c \in Cells :
          /\ lastOk[c].id \in 0..runCount /\ lastOk[c].inputs \subseteq Above(c)
          /\ \A j \in NotebookJobs : AtRun(j) => lastOk[c].id # jobRun[j].id

\* A step that starts no run of a cell and records none.
LEMMA RunsStand ==
    ASSUME RunsInv, UNCHANGED <<runCount, lastOk, ran>>,
           \A j \in NotebookJobs :
              IF AtRun(j)' THEN AtRun(j) /\ jobRun'[j] = jobRun[j] /\ jobCells'[j] = jobCells[j]
              ELSE jobRun'[j] = NoRunYet
    PROVE  RunsInv'
<1>1. \A j \in NotebookJobs : AtRun(j)' => Cell(j)' = Cell(j)
  BY DEF Cell
<1> QED
  BY <1>1 DEF RunsInv

LEMMA RunsInvHolds == NotebooksSpec => []RunsInv
<1> USE NotebooksAssumption DEF NotebooksTypeOK, RunRecords, JobGoto
<1>1. NotebooksInit => RunsInv
  BY DEF NotebooksInit, RunsInv, AtRun, NoRunYet
<1>2. NotebooksTypeOK /\ RunsInv /\ [NotebooksNext]_notebooksVars => RunsInv'
  <2> SUFFICES ASSUME NotebooksTypeOK, RunsInv, [NotebooksNext]_notebooksVars PROVE RunsInv'
    OBVIOUS
  <2>0. \A j \in NotebookJobs : ~AtRun(j) => jobRun[j] = NoRunYet
    BY DEF RunsInv
  <2>1. ASSUME NEW j \in NotebookJobs, NEW cells, NEW met, StartJob(j, cells, met)
        PROVE  RunsInv'
    BY <2>0, <2>1, RunsStand DEF StartJob, cellVars, AtRun
  <2>2. ASSUME NEW j \in NotebookJobs, JobStops(j) PROVE RunsInv'
    BY <2>0, <2>2, RunsStand DEF JobStops, AtRun
  <2>3. ASSUME NEW j \in NotebookJobs, StartCell(j) PROVE RunsInv'
    <3> DEFINE c == Cell(j)
    <3>1. c \in Cells /\ jobPc[j] = "next"
      BY <2>3, CellOfJob DEF StartCell
    <3>2. /\ jobPc' = [jobPc EXCEPT ![j] = "begun"] /\ runCount' = runCount + 1
          /\ jobRun' = [jobRun EXCEPT ![j] = [id |-> runCount + 1, inputs |-> refs[c]]]
          /\ UNCHANGED <<ran, lastOk, jobCells>>
      BY <2>3 DEF StartCell, cellVars
    <3>3. refs[c] \subseteq Above(c) /\ refs[c] \subseteq ran
      <4>1. refs[c] \subseteq Above(c)
        BY <3>1
      <4>2. \A i \in refs[c] : i \in ran
        BY <2>3 DEF StartCell, Runnable, HasRun
      <4> QED
        BY <4>1, <4>2
    <3>4. Cell(j)' = c /\ \A k \in NotebookJobs : Cell(k)' = Cell(k)
      BY <3>2 DEF Cell
    <3>5. /\ AtRun(j)' /\ ~AtRun(j) /\ jobRun'[j].id = runCount + 1 /\ jobRun'[j].inputs = refs[c]
          /\ \A k \in NotebookJobs \ {j} : (AtRun(k)' <=> AtRun(k)) /\ jobRun'[k] = jobRun[k]
      BY <3>1, <3>2 DEF AtRun
    <3> HIDE DEF c, NotebooksTypeOK
    <3>6. runCount \in Nat /\ runCount' = runCount + 1 /\ UNCHANGED <<ran, lastOk>>
      BY <3>2 DEF NotebooksTypeOK
    <3>7. ASSUME NEW k \in NotebookJobs
          PROVE  IF AtRun(k)'
                 THEN /\ jobRun'[k].id \in 1..runCount'
                      /\ jobRun'[k].inputs \subseteq Above(Cell(k)') \cap ran'
                 ELSE jobRun'[k] = NoRunYet
      <4>1. CASE k = j
        BY <3>3, <3>4, <3>5, <3>6, <4>1
      <4>2. CASE k # j
        BY <3>4, <3>5, <3>6, <4>2 DEF RunsInv
      <4> QED
        BY <4>1, <4>2
    <3>8. ASSUME NEW k \in NotebookJobs, NEW l \in NotebookJobs,
                 AtRun(k)', AtRun(l)', jobRun'[k].id = jobRun'[l].id
          PROVE  k = l
      <4>1. \A i \in NotebookJobs \ {j} : AtRun(i) => jobRun[i].id < runCount + 1
        BY <3>6 DEF RunsInv
      <4> QED
        BY <3>5, <3>6, <3>8, <4>1 DEF RunsInv
    <3>9. ASSUME NEW d \in Cells
          PROVE  /\ lastOk[d].id \in 0..runCount' /\ lastOk[d].inputs \subseteq Above(d)
                 /\ \A k \in NotebookJobs : AtRun(k)' => lastOk[d].id # jobRun'[k].id
      BY <3>5, <3>6 DEF RunsInv
    <3> QED
      BY <3>6, <3>7, <3>8, <3>9 DEF RunsInv, Above
  <2>4. ASSUME NEW j \in NotebookJobs, OpenStore(j) PROVE RunsInv'
    BY <2>0, <2>4, RunsStand DEF OpenStore, AtRun
  <2>5. ASSUME NEW j \in NotebookJobs, WriteHandoff(j) PROVE RunsInv'
    BY <2>0, <2>5, RunsStand DEF WriteHandoff, AtRun
  <2>6. ASSUME NEW j \in NotebookJobs, RecordCell(j) PROVE RunsInv'
    <3> DEFINE c == Cell(j)
    <3>1. /\ c \in Cells /\ jobPc[j] = "written"
          /\ jobPc' = [jobPc EXCEPT ![j] = IF jobCells[j] = {c} THEN "idle" ELSE "next"]
          /\ jobCells' = [jobCells EXCEPT ![j] = @ \ {c}]
          /\ jobRun' = [jobRun EXCEPT ![j] = NoRunYet]
          /\ ran \subseteq ran' /\ runCount' = runCount
          /\ lastOk' = IF jobRun[j].id > lastOk[c].id THEN [lastOk EXCEPT ![c] = jobRun[j]] ELSE lastOk
      BY <2>6, Recording
    <3>2. /\ AtRun(j) /\ ~AtRun(j)' /\ jobRun'[j] = NoRunYet
          /\ \A k \in NotebookJobs \ {j} : /\ (AtRun(k)' <=> AtRun(k)) /\ jobRun'[k] = jobRun[k]
                                           /\ Cell(k)' = Cell(k)
      BY <3>1 DEF AtRun, Cell
    <3>3. jobRun[j].id \in 1..runCount /\ jobRun[j].inputs \subseteq Above(c)
      BY <3>2 DEF RunsInv
    <3>4. \A d \in Cells : lastOk'[d] = lastOk[d] \/ (d = c /\ lastOk'[d] = jobRun[j])
      BY <3>1
    <3> HIDE DEF c, NotebooksTypeOK
    <3>5. \A k \in NotebookJobs \ {j} : AtRun(k) => jobRun[j].id # jobRun[k].id
      BY <3>2 DEF RunsInv
    <3>6. ASSUME NEW d \in Cells
          PROVE  /\ lastOk'[d].id \in 0..runCount /\ lastOk'[d].inputs \subseteq Above(d)
                 /\ \A k \in NotebookJobs \ {j} : AtRun(k) => lastOk'[d].id # jobRun[k].id
      <4>1. CASE lastOk'[d] = lastOk[d]
        BY <4>1 DEF RunsInv
      <4>2. CASE d = c /\ lastOk'[d] = jobRun[j]
        BY <3>3, <3>5, <4>2
      <4> QED
        BY <3>4, <4>1, <4>2
    <3>7. \A k \in NotebookJobs \ {j} : AtRun(k) =>
             jobRun[k].id \in 1..runCount /\ jobRun[k].inputs \subseteq Above(Cell(k)) \cap ran'
      BY <3>1 DEF RunsInv
    <3>8. ASSUME NEW k \in NotebookJobs
          PROVE  IF AtRun(k)'
                 THEN /\ jobRun'[k].id \in 1..runCount'
                      /\ jobRun'[k].inputs \subseteq Above(Cell(k)') \cap ran'
                 ELSE jobRun'[k] = NoRunYet
      <4>1. CASE k = j
        BY <3>2, <4>1
      <4>2. CASE k # j
        BY <2>0, <3>1, <3>2, <3>7, <4>2
      <4> QED
        BY <4>1, <4>2
    <3>9. \A k, l \in NotebookJobs : AtRun(k)' /\ AtRun(l)' /\ jobRun'[k].id = jobRun'[l].id => k = l
      BY <3>2 DEF RunsInv
    <3>10. \A d \in Cells :
              /\ lastOk'[d].id \in 0..runCount' /\ lastOk'[d].inputs \subseteq Above(d)
              /\ \A k \in NotebookJobs : AtRun(k)' => lastOk'[d].id # jobRun'[k].id
      <4>1. \A k \in NotebookJobs : AtRun(k)' => k # j /\ AtRun(k) /\ jobRun'[k] = jobRun[k]
        BY <3>2
      <4>2. runCount' = runCount
        BY <3>1
      <4> QED
        BY <3>6, <4>1, <4>2
    <3> QED
      BY <3>8, <3>9, <3>10 DEF RunsInv, Above
  <2>7. ASSUME NEW c \in Cells, NEW reads \in SUBSET Above(c), EditCell(c, reads) PROVE RunsInv'
    BY <2>0, <2>7, RunsStand DEF EditCell, jobVars, AtRun
  <2>8. CASE UNCHANGED notebooksVars
    BY <2>0, <2>8, RunsStand DEF notebooksVars, cellVars, jobVars, AtRun
  <2> QED
    BY <2>1, <2>2, <2>3, <2>4, <2>5, <2>6, <2>7, <2>8
    DEF NotebooksNext, RunCell, RunNotebook, RefuseCell, FailCell, KillJob
<1> QED
  BY <1>1, <1>2, NotebooksTypeCorrect, PTL DEF NotebooksSpec

-----------------------------------------------------------------------------

\* A cell that has run has a handoff, and so has one that a job has written.
HandoffInv ==
    /\ \A c \in ran : handoff[c] # 0
    /\ \A j \in NotebookJobs : jobPc[j] = "written" => handoff[Cell(j)] # 0

\* An input that was handed on since a settled cell read it ran later.
BasisInv ==
    \A c \in ran : Settled(c) /\ c \notin crossed =>
        \A i \in lastOk[c].inputs :
            Settled(i) => basis[c][i] = handoff[i] \/ RanAfter(i, c)

\* The same of a handoff that is written and not yet recorded: what it was made from is
\* what its cell's inputs hand on, unless the cell is marked.
WrittenInv ==
    \A j \in NotebookJobs : jobPc[j] = "written" /\ handoff[Cell(j)] = jobRun[j].id =>
        /\ \A i \in jobRun[j].inputs : basis[Cell(j)][i] # 0
        /\ Cell(j) \notin crossed =>
              \A i \in jobRun[j].inputs : Settled(i) => basis[Cell(j)][i] = handoff[i]

FreshInv == HandoffInv /\ BasisInv /\ WrittenInv

\* A cell reads cells above it, and not itself.
LEMMA NotItself == \A c \in Cells : Above(c) \subseteq Cells /\ c \notin Above(c)
<1>1. \A c \in Cells : ~(c < c)
  BY NotebooksAssumption
<1> QED
  BY <1>1 DEF Above

\* A step that writes no handoff and records no run.
LEMMA FreshStand ==
    ASSUME FreshInv, UNCHANGED <<handoff, ran, ranLater, lastOk, basis, crossed>>,
           \A j \in NotebookJobs : jobPc'[j] = "written" =>
              jobPc[j] = "written" /\ jobRun'[j] = jobRun[j] /\ jobCells'[j] = jobCells[j]
    PROVE  FreshInv'
<1>1. \A j \in NotebookJobs : jobPc'[j] = "written" => Cell(j)' = Cell(j)
  BY DEF Cell
<1>2. \A c : Settled(c)' <=> Settled(c)
  BY DEF Settled
<1>3. HandoffInv'
  BY <1>1 DEF FreshInv, HandoffInv
<1>4. BasisInv'
  BY <1>2 DEF FreshInv, BasisInv, RanAfter
<1>5. WrittenInv'
  BY <1>1, <1>2 DEF FreshInv, WrittenInv
<1> QED
  BY <1>3, <1>4, <1>5 DEF FreshInv

\* The handoff of a cell is new, and no page goes by it before it is recorded.
LEMMA WriteKeepsFresh ==
    ASSUME NotebooksTypeOK, RunsInv, FreshInv, NEW j \in NotebookJobs, WriteHandoff(j)
    PROVE  FreshInv'
<1>0. PICK c \in Cells : c = Cell(j)
  BY CellOfJob DEF WriteHandoff, JobGoto
<1> DEFINE r == jobRun[j]
<1>1. c \in Cells /\ jobPc[j] = "open" /\ \A k \in NotebookJobs : jobPc[k] = "written" => Cell(k) \in Cells
  BY CellOfJob DEF WriteHandoff, JobGoto
<1>2. /\ jobPc' = [jobPc EXCEPT ![j] = "written"]
      /\ handoff' = [handoff EXCEPT ![c] = r.id]
      /\ basis' = [basis EXCEPT ![c] = [i \in Cells |-> IF i \in r.inputs THEN handoff[i] ELSE 0]]
      /\ crossed' = crossed \ {c}
      /\ UNCHANGED <<ran, ranLater, lastOk, jobCells, jobRun>>
  BY <1>0 DEF WriteHandoff, JobGoto
<1>3. /\ handoff \in [Cells -> 0..MaxRuns] /\ basis \in [Cells -> [Cells -> 0..MaxRuns]]
      /\ ran \subseteq Cells /\ jobPc \in [NotebookJobs -> {"idle", "next", "begun", "open", "written"}]
  BY DEF NotebooksTypeOK
<1>4. r.id \in 1..runCount /\ r.inputs \subseteq Above(c) \cap ran /\ lastOk[c].id # r.id
  BY <1>0, <1>1 DEF RunsInv, AtRun
<1>5. \A k \in NotebookJobs : jobPc[k] = "written" => jobRun[k].id # r.id
  BY <1>1 DEF RunsInv, AtRun
<1>6. \A k \in NotebookJobs : Cell(k)' = Cell(k)
  BY <1>2 DEF Cell
<1> HIDE DEF r
<1>7. /\ handoff'[c] = r.id /\ \A d \in Cells \ {c} : handoff'[d] = handoff[d] /\ basis'[d] = basis[d]
      /\ basis'[c] = [i \in Cells |-> IF i \in r.inputs THEN handoff[i] ELSE 0]
      /\ jobPc'[j] = "written" /\ \A k \in NotebookJobs \ {j} : jobPc'[k] = jobPc[k]
  BY <1>1, <1>2, <1>3
<1>8. ~Settled(c)' /\ \A d \in Cells \ {c} : Settled(d)' <=> Settled(d)
  <2>1. ~Settled(c)'
    BY <1>2, <1>4, <1>7 DEF Settled
  <2>2. ASSUME NEW d \in Cells \ {c} PROVE Settled(d)' <=> Settled(d)
    BY <1>2, <1>7 DEF Settled
  <2> QED
    BY <2>1, <2>2
<1>9. HandoffInv'
  <2>1. r.id # 0
    BY <1>4
  <2>2. \A d \in Cells : handoff[d] # 0 => handoff'[d] # 0
    BY <1>7, <2>1
  <2>3. \A d \in ran' : handoff'[d] # 0
    BY <1>2, <1>3, <2>2 DEF FreshInv, HandoffInv
  <2>4. \A k \in NotebookJobs : jobPc'[k] = "written" => handoff'[Cell(k)] # 0
    BY <1>0, <1>1, <1>7, <2>1, <2>2 DEF FreshInv, HandoffInv
  <2> QED
    BY <1>6, <2>3, <2>4 DEF HandoffInv
<1>10. \A d \in Cells : lastOk[d].inputs \subseteq Cells /\ d \notin lastOk[d].inputs
  <2>1. \A d \in Cells : lastOk[d].inputs \subseteq Above(d)
    BY DEF RunsInv
  <2> QED
    BY <2>1, NotItself
<1>11. BasisInv'
  <2> SUFFICES ASSUME NEW d \in ran, Settled(d)', d \notin crossed', NEW i \in lastOk[d].inputs,
                      Settled(i)'
               PROVE  basis'[d][i] = handoff'[i] \/ RanAfter(i, d)'
    BY <1>2 DEF BasisInv
  <2>1. d \in Cells /\ d # c /\ i \in Cells /\ i # c
    BY <1>3, <1>8, <1>10 DEF Settled
  <2>2. Settled(d) /\ Settled(i) /\ d \notin crossed
    BY <1>2, <1>8, <2>1
  <2>3. basis[d][i] = handoff[i] \/ RanAfter(i, d)
    BY <2>2 DEF FreshInv, BasisInv
  <2> QED
    BY <1>2, <1>7, <2>1, <2>3 DEF RanAfter
<1>12. \A k \in NotebookJobs : AtRun(k) => jobRun[k].inputs \subseteq Above(Cell(k)) \cap ran
  BY DEF RunsInv
<1>13. WrittenInv'
  <2> SUFFICES ASSUME NEW k \in NotebookJobs, jobPc'[k] = "written",
                      handoff'[Cell(k)'] = jobRun'[k].id
               PROVE  /\ \A i \in jobRun'[k].inputs : basis'[Cell(k)'][i] # 0
                      /\ Cell(k)' \notin crossed' =>
                            \A i \in jobRun'[k].inputs :
                               Settled(i)' => basis'[Cell(k)'][i] = handoff'[i]
    BY DEF WrittenInv
  <2>0. Cell(k)' = Cell(k) /\ jobRun' = jobRun /\ handoff'[Cell(k)] = jobRun[k].id
    BY <1>2, <1>6
  <2> SUFFICES /\ \A i \in jobRun[k].inputs : basis'[Cell(k)][i] # 0
               /\ Cell(k) \notin crossed' =>
                     \A i \in jobRun[k].inputs : Settled(i)' => basis'[Cell(k)][i] = handoff'[i]
    BY <2>0
  <2>1. CASE k = j
    <3>1. \A i \in r.inputs : i \in Cells /\ i # c /\ handoff[i] # 0
      BY <1>1, <1>3, <1>4, NotItself DEF FreshInv, HandoffInv
    <3>2. \A i \in r.inputs : basis'[c][i] = handoff[i] /\ handoff'[i] = handoff[i]
      BY <1>7, <3>1
    <3> QED
      BY <1>0, <2>1, <3>1, <3>2 DEF r
  <2>2. CASE k # j
    <3>1. jobPc[k] = "written" /\ Cell(k) \in Cells
      BY <1>1, <1>7, <2>2
    <3>2. Cell(k) # c
      BY <1>5, <1>7, <2>0, <3>1
    <3>3. handoff[Cell(k)] = jobRun[k].id /\ basis'[Cell(k)] = basis[Cell(k)]
      BY <1>7, <2>0, <3>1, <3>2
    <3>4. jobRun[k].inputs \subseteq Cells
      BY <1>3, <1>12, <3>1 DEF AtRun
    <3>5. \A i \in jobRun[k].inputs : basis'[Cell(k)][i] # 0
      BY <3>1, <3>3 DEF FreshInv, WrittenInv
    <3>6. ASSUME Cell(k) \notin crossed', NEW i \in jobRun[k].inputs, Settled(i)'
          PROVE  basis'[Cell(k)][i] = handoff'[i]
      <4>1. Cell(k) \notin crossed /\ i \in Cells /\ i # c /\ Settled(i)
        BY <1>2, <1>8, <3>2, <3>4, <3>6 DEF Settled
      <4>2. basis[Cell(k)][i] = handoff[i]
        BY <3>1, <3>3, <4>1 DEF FreshInv, WrittenInv
      <4> QED
        BY <1>7, <3>3, <4>1, <4>2
    <3> QED
      BY <3>5, <3>6
  <2> QED
    BY <2>1, <2>2
<1> QED
  BY <1>9, <1>11, <1>13 DEF FreshInv

\* The record makes its cell later than every other, and marks the ones that it leaves
\* behind before they are recorded.
LEMMA RecordKeepsFresh ==
    ASSUME NotebooksTypeOK, RunsInv, FreshInv, NEW j \in NotebookJobs, RecordCell(j)
    PROVE  FreshInv'
<1>0. PICK c \in Cells : c = Cell(j)
  BY Recording
<1> DEFINE r == jobRun[j]
<1>1. /\ jobPc[j] = "written" /\ c \in Cells
      /\ jobPc' = [jobPc EXCEPT ![j] = IF jobCells[j] = {c} THEN "idle" ELSE "next"]
      /\ jobCells' = [jobCells EXCEPT ![j] = @ \ {c}]
      /\ jobRun' = [jobRun EXCEPT ![j] = NoRunYet]
  BY <1>0, Recording
<1>2. /\ ran' = ran \cup {c}
      /\ \A d, e \in ran \ {c} : RanAfter(d, e)' <=> RanAfter(d, e)
      /\ \A d \in ran \ {c} : RanAfter(c, d)'
  <2>1. /\ ran' = ran \cup {c}
        /\ \A d, e \in ran \ {c} : <<d, e>> \in ranLater' <=> <<d, e>> \in ranLater
        /\ \A d \in ran \ {c} : <<c, d>> \in ranLater'
    BY <1>0, Recording
  <2> QED
    BY <2>1 DEF RanAfter
<1>3. /\ lastOk' = IF r.id > lastOk[c].id THEN [lastOk EXCEPT ![c] = r] ELSE lastOk
      /\ UNCHANGED <<handoff, basis>>
  BY <1>0, Recording
<1>4. /\ crossed \subseteq crossed' /\ (handoff[c] # r.id => c \in crossed')
      /\ \A d \in Cells : ~Settled(d) /\ basis[d][c] \notin {0, handoff[c]} => d \in crossed'
  BY <1>0, Recording
<1>5. /\ ran \subseteq Cells /\ ranLater \subseteq ran \X ran /\ lastOk \in [Cells -> RunRecords]
      /\ jobPc \in [NotebookJobs -> {"idle", "next", "begun", "open", "written"}]
  BY DEF NotebooksTypeOK
<1>6. r.inputs \subseteq Above(c) \cap ran /\ lastOk[c].id # r.id
  BY <1>0, <1>1 DEF RunsInv, AtRun
<1>7. \A k \in NotebookJobs : jobPc'[k] = "written" =>
         /\ k # j /\ jobPc[k] = "written" /\ jobRun'[k] = jobRun[k] /\ Cell(k)' = Cell(k)
  BY <1>0, <1>1, <1>5 DEF Cell
<1>8. \A k \in NotebookJobs : jobPc[k] = "written" =>
         Cell(k) \in Cells /\ jobRun[k].id # lastOk[Cell(k)].id
  BY CellOfJob DEF RunsInv, AtRun
<1> HIDE DEF r
<1>9. /\ \A d \in Cells \ {c} : lastOk'[d] = lastOk[d]
      /\ lastOk'[c] = r \/ (lastOk'[c] = lastOk[c] /\ lastOk[c].id # r.id)
  BY <1>1, <1>3, <1>5, <1>6
<1>10. \A d \in Cells \ {c} : Settled(d)' <=> Settled(d)
  BY <1>3, <1>9 DEF Settled
<1>11. HandoffInv'
  <2>1. handoff[c] # 0
    BY <1>0, <1>1 DEF FreshInv, HandoffInv
  <2>2. \A d \in ran' : handoff'[d] # 0
    BY <1>2, <1>3, <2>1 DEF FreshInv, HandoffInv
  <2>3. \A k \in NotebookJobs : jobPc'[k] = "written" => handoff'[Cell(k)'] # 0
    BY <1>3, <1>7 DEF FreshInv, HandoffInv
  <2> QED
    BY <2>2, <2>3 DEF HandoffInv
<1>12. BasisInv'
  <2> SUFFICES ASSUME NEW d \in ran', Settled(d)', d \notin crossed', NEW i \in lastOk'[d].inputs,
                      Settled(i)'
               PROVE  basis'[d][i] = handoff'[i] \/ RanAfter(i, d)'
    BY DEF BasisInv
  <2>1. d \notin crossed
    BY <1>4
  <2>2. CASE d = c
    <3>1. handoff[c] = r.id
      BY <1>4, <2>2
    <3>2. lastOk'[c] = r
      BY <1>3, <1>9, <2>2, <3>1 DEF Settled
    <3>3. i \in Cells /\ i # c /\ i \in r.inputs
      BY <1>1, <1>6, <2>2, <3>2, NotItself
    <3>4. Settled(i)
      BY <1>10, <3>3
    <3>5. basis[c][i] = handoff[i]
      BY <1>0, <1>1, <2>1, <2>2, <3>1, <3>3, <3>4 DEF FreshInv, WrittenInv, r
    <3> QED
      BY <1>3, <2>2, <3>5
  <2>3. CASE d # c
    <3>1. d \in ran /\ d \in Cells /\ lastOk'[d] = lastOk[d] /\ Settled(d)
      BY <1>2, <1>5, <1>9, <1>10, <2>3
    <3>2. CASE i = c
      BY <1>2, <2>3, <3>1, <3>2 DEF RanAfter
    <3>3. CASE i # c
      <4>1. i \in Cells
        BY <1>5, <3>1 DEF RunRecords
      <4>2. Settled(i)
        BY <1>10, <3>3, <4>1
      <4>3. basis[d][i] = handoff[i] \/ RanAfter(i, d)
        BY <2>1, <3>1, <4>2 DEF FreshInv, BasisInv
      <4>4. RanAfter(i, d) => i \in ran
        BY <1>5 DEF RanAfter
      <4> QED
        BY <1>2, <1>3, <2>3, <3>1, <3>3, <4>3, <4>4
    <3> QED
      BY <3>2, <3>3
  <2> QED
    BY <2>2, <2>3
<1>13. \A k \in NotebookJobs : AtRun(k) => jobRun[k].inputs \subseteq Above(Cell(k)) \cap ran
  BY DEF RunsInv
<1>14. WrittenInv'
  <2> SUFFICES ASSUME NEW k \in NotebookJobs, jobPc'[k] = "written",
                      handoff'[Cell(k)'] = jobRun'[k].id
               PROVE  /\ \A i \in jobRun'[k].inputs : basis'[Cell(k)'][i] # 0
                      /\ Cell(k)' \notin crossed' =>
                            \A i \in jobRun'[k].inputs :
                               Settled(i)' => basis'[Cell(k)'][i] = handoff'[i]
    BY DEF WrittenInv
  <2> DEFINE e == Cell(k)
  <2>1. jobPc[k] = "written" /\ jobRun'[k] = jobRun[k] /\ Cell(k)' = e
    BY <1>7
  <2>2. e \in Cells /\ jobRun[k].id # lastOk[e].id /\ handoff[e] = jobRun[k].id
    BY <1>3, <1>8, <2>1
  <2>3. ~Settled(e)
    BY <2>2 DEF Settled
  <2>4. \A i \in jobRun[k].inputs : basis[e][i] # 0
    BY <2>1, <2>2 DEF FreshInv, WrittenInv
  <2>5. ASSUME e \notin crossed', NEW i \in jobRun[k].inputs, Settled(i)'
        PROVE  basis[e][i] = handoff[i]
    <3>1. CASE i = c
      <4> HIDE DEF e
      <4> QED
        BY <1>4, <2>2, <2>3, <2>4, <2>5, <3>1
    <3>2. CASE i # c
      <4>1. i \in Cells
        BY <1>5, <1>13, <2>1 DEF AtRun
      <4>2. Settled(i) /\ e \notin crossed
        BY <1>4, <1>10, <2>5, <3>2, <4>1
      <4> QED
        BY <2>1, <2>2, <4>2 DEF FreshInv, WrittenInv
    <3> QED
      BY <3>1, <3>2
  <2> HIDE DEF e
  <2> QED
    BY <1>3, <2>1, <2>4, <2>5
<1> QED
  BY <1>11, <1>12, <1>14 DEF FreshInv

LEMMA FreshInvHolds == NotebooksSpec => []FreshInv
<1>1. NotebooksInit => FreshInv
  BY DEF NotebooksInit, FreshInv, HandoffInv, BasisInv, WrittenInv
<1>2. NotebooksTypeOK /\ RunsInv /\ FreshInv /\ [NotebooksNext]_notebooksVars => FreshInv'
  <2> SUFFICES ASSUME NotebooksTypeOK, RunsInv, FreshInv, [NotebooksNext]_notebooksVars
               PROVE  FreshInv'
    OBVIOUS
  <2>0. jobPc \in [NotebookJobs -> {"idle", "next", "begun", "open", "written"}]
    BY DEF NotebooksTypeOK
  <2> USE DEF JobGoto
  <2>1. ASSUME NEW j \in NotebookJobs, NEW cells, NEW met, StartJob(j, cells, met)
        PROVE  FreshInv'
    BY <2>0, <2>1, FreshStand, NotebooksTypeOK DEF StartJob, cellVars, NotebooksTypeOK
  <2>2. ASSUME NEW j \in NotebookJobs, JobStops(j) PROVE FreshInv'
    BY <2>0, <2>2, FreshStand DEF JobStops, NotebooksTypeOK
  <2>3. ASSUME NEW j \in NotebookJobs, StartCell(j) PROVE FreshInv'
    BY <2>0, <2>3, FreshStand DEF StartCell, cellVars, NotebooksTypeOK
  <2>4. ASSUME NEW j \in NotebookJobs, OpenStore(j) PROVE FreshInv'
    BY <2>0, <2>4, FreshStand DEF OpenStore
  <2>5. ASSUME NEW c \in Cells, NEW reads \in SUBSET Above(c), EditCell(c, reads) PROVE FreshInv'
    BY <2>5, FreshStand DEF EditCell, jobVars
  <2>6. CASE UNCHANGED notebooksVars
    BY <2>6, FreshStand DEF notebooksVars, cellVars, jobVars
  <2> QED
    BY <2>1, <2>2, <2>3, <2>4, <2>5, <2>6, WriteKeepsFresh, RecordKeepsFresh
    DEF NotebooksNext, RunCell, RunNotebook, RefuseCell, FailCell, KillJob
<1> QED
  BY <1>1, <1>2, NotebooksTypeCorrect, RunsInvHolds, PTL DEF NotebooksSpec

-----------------------------------------------------------------------------

\* The recursion has a solution: the cells that every set contains that is closed under
\* it.  So what the page calls stale is what the recursion says.
LEMMA StaleUnfolds ==
    ASSUME RunsInv
    PROVE  \A c \in Cells : Stale[c] <=> \E i \in ReadThen(c) : RanAfter(i, c) \/ Stale[i]
<1> DEFINE Calls(S) == {c \in Cells : \E i \in ReadThen(c) : RanAfter(i, c) \/ i \in S}
           L == {c \in Cells : \A S \in SUBSET Cells : Calls(S) \subseteq S => c \in S}
           f == [c \in Cells |-> \E i \in ReadThen(c) : RanAfter(i, c) \/ i \in L]
<1>1. \A c \in Cells : ReadThen(c) \subseteq Cells
  <2>1. \A c \in Cells : ReadThen(c) \subseteq Above(c)
    BY DEF RunsInv, ReadThen
  <2> QED
    BY <2>1, NotItself
<1>2. Calls(L) \subseteq L
  <2> SUFFICES ASSUME NEW c \in Calls(L), NEW S \in SUBSET Cells, Calls(S) \subseteq S
               PROVE  c \in S
    OBVIOUS
  <2>1. PICK i \in ReadThen(c) : RanAfter(i, c) \/ i \in L
    OBVIOUS
  <2>2. i \in L => i \in S
    OBVIOUS
  <2>3. c \in Calls(S)
    BY <2>1, <2>2
  <2> QED
    BY <2>3
<1>3. L \subseteq Calls(L)
  <2>1. Calls(Calls(L)) \subseteq Calls(L)
    <3> SUFFICES ASSUME NEW c \in Calls(Calls(L)) PROVE c \in Calls(L)
      OBVIOUS
    <3>1. PICK i \in ReadThen(c) : RanAfter(i, c) \/ i \in Calls(L)
      OBVIOUS
    <3>2. RanAfter(i, c) \/ i \in L
      BY <1>2, <3>1
    <3> QED
      BY <3>2
  <2>2. Calls(L) \in SUBSET Cells
    OBVIOUS
  <2> HIDE DEF Calls
  <2> QED
    BY <2>1, <2>2
<1>4. \A c \in Cells : c \in L <=> \E i \in ReadThen(c) : RanAfter(i, c) \/ i \in L
  BY <1>2, <1>3
<1> HIDE DEF L
<1>5. \A c \in Cells : \A i \in ReadThen(c) : f[i] <=> i \in L
  BY <1>1, <1>4
<1>6. f = [c \in Cells |-> \E i \in ReadThen(c) : RanAfter(i, c) \/ f[i]]
  <2>1. ASSUME NEW c \in Cells
        PROVE  (\E i \in ReadThen(c) : RanAfter(i, c) \/ i \in L) =
                  (\E i \in ReadThen(c) : RanAfter(i, c) \/ f[i])
    <3>1. \A i \in ReadThen(c) : f[i] <=> i \in L
      BY <1>5
    <3> HIDE DEF f
    <3>2. (\E i \in ReadThen(c) : RanAfter(i, c) \/ i \in L) <=>
             (\E i \in ReadThen(c) : RanAfter(i, c) \/ f[i])
      BY <3>1
    <3> QED
      BY <3>2
  <2> DEFINE g == [c \in Cells |-> \E i \in ReadThen(c) : RanAfter(i, c) \/ f[i]]
  <2>2. f = g
    BY <2>1
  <2> QED
    BY <2>2
<1> HIDE DEF f
<1>7. Stale = CHOOSE g : g = [c \in Cells |-> \E i \in ReadThen(c) : RanAfter(i, c) \/ g[i]]
  BY DEF Stale
<1>8. Stale = [c \in Cells |-> \E i \in ReadThen(c) : RanAfter(i, c) \/ Stale[i]]
  BY <1>6, <1>7
<1> QED
  BY <1>8

\* What the page does not call stale was computed from what the cells it read hand on now.
THEOREM UnmarkedCellsAreFresh == NotebooksSpec => []FreshIsTrue
<1>1. RunsInv /\ FreshInv /\ NotebooksTypeOK => FreshIsTrue
  <2> SUFFICES ASSUME RunsInv, FreshInv, NEW c \in Cells,
                      HasRun(c), ~Stale[c], Settled(c), c \notin crossed,
                      NEW i \in lastOk[c].inputs, Settled(i)
               PROVE  basis[c][i] = handoff[i]
    BY DEF FreshIsTrue
  <2>1. basis[c][i] = handoff[i] \/ RanAfter(i, c)
    BY DEF FreshInv, BasisInv, HasRun
  <2>2. ~RanAfter(i, c)
    BY StaleUnfolds DEF ReadThen
  <2> QED
    BY <2>1, <2>2
<1> QED
  BY <1>1, NotebooksTypeCorrect, RunsInvHolds, FreshInvHolds, PTL

-----------------------------------------------------------------------------

\* While a whole run meets no other job, the cells it is through with ran in order.
ChainInv ==
    \A j \in chain :
        /\ jobPc[j] # "idle"
        /\ \A k \in NotebookJobs \ {j} : jobPc[k] = "idle"
        /\ Cells \ jobCells[j] \subseteq ran
        /\ \A d \in Cells \ jobCells[j] : \A e \in jobCells[j] : d < e
        /\ \A d, e \in Cells \ jobCells[j] : d < e => RanAfter(e, d)

LEMMA ChainInvHolds == NotebooksSpec => []ChainInv
<1>1. NotebooksInit => ChainInv
  BY DEF NotebooksInit, ChainInv
<1>2. NotebooksTypeOK /\ ChainInv /\ [NotebooksNext]_notebooksVars => ChainInv'
  <2> SUFFICES ASSUME NotebooksTypeOK, ChainInv, [NotebooksNext]_notebooksVars PROVE ChainInv'
    OBVIOUS
  <2>0. /\ jobPc \in [NotebookJobs -> {"idle", "next", "begun", "open", "written"}]
        /\ jobCells \in [NotebookJobs -> SUBSET Cells] /\ chain \subseteq NotebookJobs
    BY DEF NotebooksTypeOK
  <2>1. ASSUME chain' \subseteq chain, UNCHANGED <<ran, ranLater>>,
               \A k \in chain' : jobCells'[k] = jobCells[k] /\ jobPc'[k] # "idle",
               \A k \in NotebookJobs : jobPc[k] = "idle" => jobPc'[k] = "idle"
        PROVE  ChainInv'
    BY <2>0, <2>1 DEF ChainInv, RanAfter
  <2>2. ASSUME NEW j \in NotebookJobs, NEW c \in Cells, RunCell(j, c) PROVE ChainInv'
    BY <2>2 DEF RunCell, StartJob, ChainInv
  <2>3. ASSUME NEW j \in NotebookJobs, RunNotebook(j) PROVE ChainInv'
    <3>1. /\ jobPc' = [jobPc EXCEPT ![j] = "next"] /\ jobCells' = [jobCells EXCEPT ![j] = Cells]
          /\ chain' = IF \A i \in NotebookJobs : jobPc[i] = "idle" THEN {j} ELSE {}
      BY <2>3 DEF RunNotebook, StartJob, JobGoto
    <3>2. Cells \ jobCells'[j] = {} /\ jobPc'[j] # "idle"
      BY <2>0, <3>1
    <3>3. \A k \in chain' : k = j /\ \A i \in NotebookJobs \ {j} : jobPc'[i] = "idle"
      BY <2>0, <3>1
    <3> QED
      BY <3>2, <3>3 DEF ChainInv
  <2>4. ASSUME NEW j \in NotebookJobs, JobStops(j) PROVE ChainInv'
    BY <2>0, <2>1, <2>4 DEF JobStops, JobGoto, ChainInv
  <2>5. ASSUME NEW j \in NotebookJobs, StartCell(j) \/ OpenStore(j) \/ WriteHandoff(j)
        PROVE  ChainInv'
    <3>1. /\ UNCHANGED <<ran, ranLater, jobCells, chain>>
          /\ jobPc[j] # "idle" /\ \E to \in {"begun", "open", "written"} : jobPc' = [jobPc EXCEPT ![j] = to]
      BY <2>5 DEF StartCell, OpenStore, WriteHandoff, JobGoto, cellVars
    <3> QED
      BY <2>0, <2>1, <3>1 DEF ChainInv
  <2>6. ASSUME NEW j \in NotebookJobs, RecordCell(j) PROVE ChainInv'
    <3>0. PICK c \in Cells : c = Cell(j)
      BY <2>6, Recording
    <3>1. /\ jobPc[j] = "written" /\ c \in jobCells[j]
          /\ jobPc' = [jobPc EXCEPT ![j] = IF jobCells[j] = {c} THEN "idle" ELSE "next"]
          /\ jobCells' = [jobCells EXCEPT ![j] = @ \ {c}]
          /\ chain' \subseteq chain /\ (jobPc'[j] = "idle" => j \notin chain')
      BY <2>6, <3>0, Recording
    <3>2. /\ ran' = ran \cup {c}
          /\ \A d, e \in ran \ {c} : RanAfter(d, e)' <=> RanAfter(d, e)
          /\ \A d \in ran \ {c} : RanAfter(c, d)'
      <4>1. /\ ran' = ran \cup {c}
            /\ \A d, e \in ran \ {c} : <<d, e>> \in ranLater' <=> <<d, e>> \in ranLater
            /\ \A d \in ran \ {c} : <<c, d>> \in ranLater'
        BY <2>6, <3>0, Recording
      <4> QED
        BY <4>1 DEF RanAfter
    <3>3. \A e \in jobCells[j] : c <= e
      BY <3>0, <3>1, CellOfJob
    <3>4. ASSUME NEW k \in chain' PROVE k = j
      BY <2>0, <3>1, <3>4 DEF ChainInv
    <3>5. SUFFICES ASSUME j \in chain'
                   PROVE  /\ jobPc'[j] # "idle"
                          /\ \A k \in NotebookJobs \ {j} : jobPc'[k] = "idle"
                          /\ Cells \ jobCells'[j] \subseteq ran'
                          /\ \A d \in Cells \ jobCells'[j] : \A e \in jobCells'[j] : d < e
                          /\ \A d, e \in Cells \ jobCells'[j] : d < e => RanAfter(e, d)'
      BY <3>4 DEF ChainInv
    <3>6. /\ \A k \in NotebookJobs \ {j} : jobPc[k] = "idle"
          /\ Cells \ jobCells[j] \subseteq ran
          /\ \A d \in Cells \ jobCells[j] : \A e \in jobCells[j] : d < e
          /\ \A d, e \in Cells \ jobCells[j] : d < e => RanAfter(e, d)
      BY <3>1, <3>5 DEF ChainInv
    <3>7. jobCells'[j] = jobCells[j] \ {c} /\ jobCells[j] \subseteq Cells
      BY <2>0, <3>1
    <3>8. \A d \in Cells : d \in Nat
      BY NotebooksAssumption
    <3>9. /\ jobPc'[j] # "idle"
          /\ \A k \in NotebookJobs \ {j} : jobPc'[k] = "idle"
          /\ Cells \ jobCells'[j] \subseteq ran'
      BY <2>0, <3>1, <3>2, <3>5, <3>6, <3>7
    <3>10. ASSUME NEW d \in Cells \ jobCells'[j], NEW e \in jobCells'[j]
           PROVE  d < e
      <4>1. CASE d = c
        BY <3>3, <3>7, <3>8, <4>1
      <4>2. CASE d # c
        BY <3>6, <3>7, <4>2
      <4> QED
        BY <4>1, <4>2
    <3>11. ASSUME NEW d \in Cells \ jobCells'[j], NEW e \in Cells \ jobCells'[j], d < e
           PROVE  RanAfter(e, d)'
      <4>1. d # c => d \in Cells \ jobCells[j] /\ d \in ran \ {c} /\ d < c
        BY <3>1, <3>6, <3>7
      <4>2. e # c => e \in Cells \ jobCells[j] /\ e \in ran \ {c} /\ e < c
        BY <3>1, <3>6, <3>7
      <4>3. d # e /\ ~(e < d)
        BY <3>8, <3>11
      <4>4. CASE d = c
        BY <4>2, <4>3, <4>4
      <4>5. CASE e = c /\ d # c
        BY <3>2, <4>1, <4>5 DEF RanAfter
      <4>6. CASE e # c /\ d # c
        BY <3>2, <3>6, <3>11, <4>1, <4>2, <4>6 DEF RanAfter
      <4> QED
        BY <4>4, <4>5, <4>6
    <3> QED
      BY <3>9, <3>10, <3>11
  <2>7. ASSUME NEW c \in Cells, NEW reads \in SUBSET Above(c), EditCell(c, reads) PROVE ChainInv'
    BY <2>7 DEF EditCell, jobVars, ChainInv, RanAfter
  <2>8. CASE UNCHANGED notebooksVars
    BY <2>8 DEF notebooksVars, cellVars, jobVars, ChainInv, RanAfter
  <2> QED
    BY <2>2, <2>3, <2>4, <2>5, <2>6, <2>7, <2>8
    DEF NotebooksNext, RefuseCell, FailCell, KillJob
<1> QED
  BY <1>1, <1>2, NotebooksTypeCorrect, PTL DEF NotebooksSpec

\* All cells have run, each after the ones above it.
RanInOrder == \A c, d \in Cells : c < d => RanAfter(d, c)

\* Then nothing is stale: the smallest stale cell would have read a cell above it that
\* ran later or is stale.
LEMMA NothingStale ==
    NotebooksTypeOK /\ RunsInv /\ RanInOrder => \A c \in Cells : ~Stale[c]
<1> SUFFICES ASSUME NotebooksTypeOK, RunsInv, RanInOrder, NEW s \in Cells, Stale[s]
             PROVE  FALSE
  OBVIOUS
<1> DEFINE S == {c \in Cells : Stale[c]}
<1>1. S \in SUBSET Nat /\ S # {}
  BY NotebooksAssumption
<1>2. PICK c \in S : \A d \in S : c <= d
  <2> HIDE DEF S
  <2> QED
    BY <1>1, Smallest
<1>3. PICK i \in ReadThen(c) : RanAfter(i, c) \/ Stale[i]
  BY StaleUnfolds
<1>4. i \in Cells /\ i < c /\ c \in Nat /\ i \in Nat
  <2>1. i \in Above(c)
    BY <1>3 DEF RunsInv, ReadThen
  <2>2. i \in Cells /\ i < c
    BY <2>1 DEF Above
  <2> QED
    BY <2>2, NotebooksAssumption
<1>5. ~Stale[i]
  BY <1>2, <1>4
<1>6. RanAfter(c, i) /\ RanAfter(i, c)
  BY <1>3, <1>4, <1>5 DEF RanInOrder
<1> QED
  BY <1>6 DEF NotebooksTypeOK, RanAfter

\* A run of the whole notebook that met no other job leaves nothing stale.
THEOREM WholeRunsLeaveNothingStale == NotebooksSpec => WholeRunIsFresh
<1>1. ASSUME NotebooksTypeOK, ChainInv, NEW j \in chain, RecordCell(j), jobPc'[j] = "idle"
      PROVE  RanInOrder'
  <2>0. j \in NotebookJobs /\ jobPc \in [NotebookJobs -> {"idle", "next", "begun", "open", "written"}]
    BY <1>1 DEF NotebooksTypeOK
  <2>1. PICK c \in Cells : c = Cell(j)
    BY <1>1, <2>0, Recording
  <2>2. /\ jobPc' = [jobPc EXCEPT ![j] = IF jobCells[j] = {c} THEN "idle" ELSE "next"]
        /\ \A d, e \in ran \ {c} : <<d, e>> \in ranLater' <=> <<d, e>> \in ranLater
        /\ \A d \in ran \ {c} : <<c, d>> \in ranLater'
    BY <1>1, <2>0, <2>1, Recording
  <2>3. jobCells[j] = {c}
    BY <1>1, <2>0, <2>2
  <2>4. /\ Cells \ {c} \subseteq ran /\ \A d \in Cells \ {c} : d < c
        /\ \A d, e \in Cells \ {c} : d < e => RanAfter(e, d)
    BY <1>1, <2>3 DEF ChainInv
  <2>5. \A d \in Cells : d \in Nat
    BY NotebooksAssumption
  <2> SUFFICES ASSUME NEW d \in Cells, NEW e \in Cells, d < e PROVE <<e, d>> \in ranLater'
    BY DEF RanInOrder, RanAfter
  <2>6. d # e /\ ~(e < d)
    BY <2>5
  <2>7. d # c
    BY <2>4, <2>6
  <2>8. CASE e = c
    BY <2>2, <2>4, <2>7, <2>8
  <2>9. CASE e # c
    BY <2>2, <2>4, <2>7, <2>9 DEF RanAfter
  <2> QED
    BY <2>8, <2>9
<1>2. (NotebooksTypeOK /\ RunsInv /\ RanInOrder)' => (\A c \in Cells : ~Stale[c])'
  BY NothingStale, PTL
<1>3. NotebooksTypeOK /\ ChainInv /\ NotebooksTypeOK' /\ RunsInv' =>
         [\A j \in chain :
            RecordCell(j) /\ jobPc'[j] = "idle" => \A c \in Cells : ~Stale'[c]]_notebooksVars
  BY <1>1, <1>2
<1> QED
  BY <1>3, NotebooksTypeCorrect, RunsInvHolds, ChainInvHolds, PTL DEF WholeRunIsFresh
=============================================================================
