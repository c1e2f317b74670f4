----------------------------- MODULE Notebooks -----------------------------
(***************************************************************************)
(* One notebook: the jobs that run a cell or the whole chain, the handoffs *)
(* they leave each other in the notebook's store, what a finished run says *)
(* it read, and from it which cells the page calls stale.                  *)
(*                                                                         *)
(* Cells are numbered by position and stay where they are; one that reads  *)
(* nothing queries a data source.  A handoff is the id of the run that     *)
(* wrote it, 0 if there is none.  Of the last_run_at the order is kept.    *)
(* Its schedule is of the kind of module ScheduledQueries and not repeated *)
(* here; its sessions are module NotebookSessions.                         *)
(***************************************************************************)
EXTENDS Integers

CONSTANTS
    Cells,        \* positions
    NotebookJobs, \* jobs of the notebook in play at once (bound)
    MaxRuns,      \* runs of cells, ever (bound)
    MaxEdits      \* times that somebody edits a cell (bound)

ASSUME NotebooksAssumption ==
    /\ Cells \subseteq Nat \ {0} /\ Cells # {}
    /\ MaxRuns \in Nat /\ MaxEdits \in Nat

VARIABLES
    refs,      \* the cells that a cell's source refers to
    handoff,   \* its relation in the store
    ran,       \* the cells that have a last_run_at
    ranLater,  \* <<i, c>>: that of i is later than that of c
    lastOk,    \* [id, inputs] of its newest run that is ok
    store,     \* the job that has the file of the store open
    jobPc,     \* where a job is
    jobCells,  \* the cells it has still to run, with the present one
    jobRun,    \* [id, inputs] of the run it is at
    runCount,  \* runs so far: the next one's id
    edits,
    basis,     \* history: the handoffs that the handoff of a cell was made from
    crossed,   \* history: cells whose run was recorded after what it read had moved on
    chain      \* history: the run of the whole notebook that no other job has met

cellVars      == <<refs, handoff, ran, ranLater, lastOk, store>>
jobVars       == <<jobPc, jobCells, jobRun, runCount>>
notebooksVars == <<cellVars, jobVars, edits, basis, crossed, chain>>

StoreFree == "nobody"
Nothing  == [c \in Cells |-> 0]
NoRunYet == [id |-> 0, inputs |-> {}]
Above(c) == {i \in Cells : i < c}

NotebooksInit ==
    /\ refs = [c \in Cells |-> Above(c)]
    /\ handoff = Nothing /\ ran = {} /\ ranLater = {}
    /\ lastOk = [c \in Cells |-> NoRunYet]
    /\ store = StoreFree
    /\ jobPc = [j \in NotebookJobs |-> "idle"]
    /\ jobCells = [j \in NotebookJobs |-> {}]
    /\ jobRun = [j \in NotebookJobs |-> NoRunYet]
    /\ runCount = 0 /\ edits = 0
    /\ basis = [c \in Cells |-> Nothing]
    /\ crossed = {} /\ chain = {}

-----------------------------------------------------------------------------
(* What the page works out *)

HasRun(c) == c \in ran

\* Both have run, and i later.
RanAfter(i, c) == <<i, c>> \in ranLater

\* Mutant: what a cell refers to now, not what its run read.
ReadNow(c) == refs[c]

\* _inputs_by_cell: the newest run by id that is ok.
ReadThen(c) == lastOk[c].inputs

\* staleness: an input ran later, or is stale itself.  A cell reads cells above it,
\* for which the walk with its memory is this recursion.
Stale[c \in Cells] ==
    \E i \in ReadThen(c) : RanAfter(i, c) \/ Stale[i]

\* what_stops_it: nothing that it reads may be without a run.
Runnable(c) == \A i \in refs[c] : HasRun(i)

-----------------------------------------------------------------------------
(* run_cell and run_notebook *)

\* Mutant: the chain is run from its end.
FromTheEnd(cells) == CHOOSE c \in cells : \A d \in cells : d <= c

ByPosition(cells) == CHOOSE c \in cells : \A d \in cells : c <= d

Cell(j) == ByPosition(jobCells[j])

JobGoto(j, from, to) ==
    /\ jobPc[j] = from
    /\ jobPc' = [jobPc EXCEPT ![j] = to]

StartJob(j, cells, met) ==
    /\ JobGoto(j, "idle", "next")
    /\ jobCells' = [jobCells EXCEPT ![j] = cells]
    /\ chain' = met
    /\ UNCHANGED <<cellVars, jobRun, runCount, edits, basis, crossed>>

\* Both handlers refuse what could not even start.
RunCell(j, c)  == Runnable(c) /\ StartJob(j, {c}, {})
RunNotebook(j) ==
    /\ Runnable(ByPosition(Cells))
    /\ StartJob(j, Cells, IF \A i \in NotebookJobs : jobPc[i] = "idle" THEN {j} ELSE {})

\* A refusal, a failure or a kill ends the job, and with it the whole chain.
JobStops(j) ==
    /\ JobGoto(j, jobPc[j], "idle")
    /\ jobCells' = [jobCells EXCEPT ![j] = {}]
    /\ jobRun' = [jobRun EXCEPT ![j] = NoRunYet]
    /\ chain' = chain \ {j}
    /\ store' = IF store = j THEN StoreFree ELSE store
    /\ UNCHANGED <<refs, handoff, ran, ranLater, lastOk, runCount, edits, basis, crossed>>

\* The row of the run is flushed with what the cell refers to at this moment.
StartCell(j) ==
    /\ JobGoto(j, "next", "begun")
    /\ Runnable(Cell(j)) /\ runCount < MaxRuns
    /\ runCount' = runCount + 1
    /\ jobRun' = [jobRun EXCEPT ![j] = [id |-> runCount + 1, inputs |-> refs[Cell(j)]]]
    /\ UNCHANGED <<cellVars, jobCells, edits, basis, crossed, chain>>

\* What it reads has not run, or the pool or the interpreter refuses.
RefuseCell(j) == jobPc[j] = "next" /\ JobStops(j)

\* Only one process may have the file of the store open.
OpenStore(j) ==
    /\ store = StoreFree
    /\ JobGoto(j, "begun", "open")
    /\ store' = j
    /\ UNCHANGED <<refs, handoff, ran, ranLater, lastOk, jobCells, jobRun, runCount, edits, basis,
                   crossed, chain>>

\* The query, the code or the store raises; the store may be another's.
FailCell(j) == jobPc[j] \in {"begun", "open"} /\ JobStops(j)

\* Its handoff is made of the inputs' and is in the store when that is closed.
WriteHandoff(j) ==
    LET c == Cell(j) IN
    /\ JobGoto(j, "open", "written")
    /\ handoff' = [handoff EXCEPT ![c] = jobRun[j].id]
    /\ basis' = [basis EXCEPT ![c] =
           [i \in Cells |-> IF i \in jobRun[j].inputs THEN handoff[i] ELSE 0]]
    /\ crossed' = crossed \ {c}
    /\ store' = StoreFree
    /\ UNCHANGED <<refs, ran, ranLater, lastOk, jobCells, jobRun, runCount, edits, chain>>

\* The handoff that is there is the one of the run that the page goes by.
Settled(c) == handoff[c] = lastOk[c].id

\* last_run_at and the outcome, committed together; a chain goes on with its next cell.
RecordCell(j) ==
    LET c == Cell(j)
        run == jobRun[j] IN
    /\ JobGoto(j, "written", IF jobCells[j] = {c} THEN "idle" ELSE "next")
    /\ jobCells' = [jobCells EXCEPT ![j] = @ \ {c}]
    /\ jobRun' = [jobRun EXCEPT ![j] = NoRunYet]
    /\ ran' = ran \cup {c}
    /\ ranLater' = {p \in ranLater : c \notin {p[1], p[2]}} \cup {<<c, d>> : d \in ran \ {c}}
    /\ lastOk' = IF run.id > lastOk[c].id THEN [lastOk EXCEPT ![c] = run] ELSE lastOk
    /\ crossed' = crossed
           \cup {d \in Cells : ~Settled(d) /\ basis[d][c] \notin {0, handoff[c]}}
           \cup (IF handoff[c] # run.id THEN {c} ELSE {})
    /\ chain' = IF jobPc'[j] = "idle" THEN chain \ {j} ELSE chain
    /\ UNCHANGED <<refs, handoff, store, runCount, edits, basis>>

KillJob(j) == jobPc[j] # "idle" /\ JobStops(j)

\* Somebody edits a cell's source, while it runs or not.
EditCell(c, reads) ==
    /\ edits < MaxEdits
    /\ edits' = edits + 1
    /\ refs' = [refs EXCEPT ![c] = reads]
    /\ UNCHANGED <<handoff, ran, ranLater, lastOk, store, jobVars, basis, crossed, chain>>

NotebooksNext ==
    \/ \E j \in NotebookJobs :
        \/ (\E c \in Cells : RunCell(j, c)) \/ RunNotebook(j)
        \/ StartCell(j) \/ RefuseCell(j) \/ OpenStore(j) \/ FailCell(j)
        \/ WriteHandoff(j) \/ RecordCell(j) \/ KillJob(j)
    \/ \E c \in Cells : \E reads \in SUBSET Above(c) : EditCell(c, reads)

NotebooksSpec == NotebooksInit /\ [][NotebooksNext]_notebooksVars

-----------------------------------------------------------------------------

RunRecords == [id : 0..MaxRuns, inputs : SUBSET Cells]

\* Types.
NotebooksTypeOK ==
    /\ refs \in [Cells -> SUBSET Cells] /\ \A c \in Cells : refs[c] \subseteq Above(c)
    /\ handoff \in [Cells -> 0..MaxRuns]
    /\ ran \subseteq Cells /\ ranLater \subseteq ran \X ran
    /\ \A c, d \in ran : <<c, d>> \in ranLater <=> c # d /\ <<d, c>> \notin ranLater
    /\ lastOk \in [Cells -> RunRecords]
    /\ store \in NotebookJobs \cup {StoreFree}
    /\ jobPc \in [NotebookJobs -> {"idle", "next", "begun", "open", "written"}]
    /\ jobCells \in [NotebookJobs -> SUBSET Cells]
    /\ \A j \in NotebookJobs : jobCells[j] = {} <=> jobPc[j] = "idle"
    /\ jobRun \in [NotebookJobs -> RunRecords]
    /\ runCount \in 0..MaxRuns /\ edits \in 0..MaxEdits
    /\ basis \in [Cells -> [Cells -> 0..MaxRuns]]
    /\ crossed \subseteq Cells /\ chain \subseteq NotebookJobs

\* A cell that the page does not call stale was computed from the outputs that the
\* cells it read have now: unless it was edited into, killed between its handoff and
\* its record, or recorded after an input had moved on (last_run_at is the end of a
\* run, notebooks/run.py:290, and not when it read).
FreshIsTrue ==
    \A c \in Cells :
        (HasRun(c) /\ ~Stale[c] /\ Settled(c) /\ c \notin crossed)
          => \A i \in lastOk[c].inputs : Settled(i) => basis[c][i] = handoff[i]

\* A run of the whole notebook that comes to its end leaves nothing stale, if no
\* other job was at the notebook meanwhile, whatever was edited.
WholeRunIsFresh ==
    [][\A j \in chain :
          RecordCell(j) /\ jobPc'[j] = "idle" => \A c \in Cells : ~Stale'[c]]_notebooksVars
=============================================================================
