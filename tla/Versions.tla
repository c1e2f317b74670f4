------------------------------ MODULE Versions ------------------------------
(***************************************************************************)
(* Two people edit one dashboard, or one query: each loads it, and saves    *)
(* what it is to say from then on.  A save goes with the version that the   *)
(* page was loaded with; the request compares it with the row's, and the    *)
(* UPDATE names the version that the request has loaded.  A save without a  *)
(* version is somebody's choice to overwrite.                               *)
(*                                                                          *)
(* Dashboards and queries differ in one word: whether the mapper gives the  *)
(* row a new version with every UPDATE (Counted).                           *)
(***************************************************************************)
EXTENDS Naturals, FiniteSets

CONSTANTS
    Editors,
    Counted,    \* version_id_generator is not False
    MaxSaves,   \* how often it is saved (bound)
    MaxTouches  \* how often the row is written for another reason (bound)

ASSUME VersionsAssumption ==
    /\ IsFiniteSet(Editors)
    /\ Counted \in BOOLEAN
    /\ MaxSaves \in Nat /\ MaxTouches \in Nat

VARIABLES
    saved,    \* the row: its version, and which save it says
    page,     \* what the page of an editor was loaded with
    savePc,   \* where an editor, and the request of the editor, is
    sent,     \* the version that goes with the save
    loaded,   \* the version that the request has read
    saves,    \* how many saves there were
    touches

versionsVars == <<saved, page, savePc, sent, loaded, saves, touches>>

NoVersion == 0
Saved     == [version : 1..(1 + MaxSaves + MaxTouches), says : 0..MaxSaves]
SavePcs   == {"editing", "sent", "loaded", "conflict"}

VersionsTypeOK ==
    /\ saved \in Saved
    /\ page \in [Editors -> Saved]
    /\ savePc \in [Editors -> SavePcs]
    /\ sent \in [Editors -> {NoVersion} \cup 1..(1 + MaxSaves + MaxTouches)]
    /\ loaded \in [Editors -> {NoVersion} \cup 1..(1 + MaxSaves + MaxTouches)]
    /\ saves \in 0..MaxSaves /\ touches \in 0..MaxTouches

VersionsInit ==
    /\ saved = [version |-> 1, says |-> 0]
    /\ page = [e \in Editors |-> saved]
    /\ savePc = [e \in Editors |-> "editing"]
    /\ sent = [e \in Editors |-> NoVersion]
    /\ loaded = [e \in Editors |-> NoVersion]
    /\ saves = 0 /\ touches = 0

SaveGoto(e, from, to) ==
    /\ savePc[e] = from
    /\ savePc' = [savePc EXCEPT ![e] = to]

-----------------------------------------------------------------------------

\* version_id_col with and without a version_id_generator
NextVersion == IF Counted THEN saved.version + 1 ELSE saved.version

\* The page is loaded again.
Reload(e) ==
    /\ savePc[e] \in {"editing", "conflict"}
    /\ savePc' = [savePc EXCEPT ![e] = "editing"]
    /\ page' = [page EXCEPT ![e] = saved]
    /\ UNCHANGED <<saved, sent, loaded, saves, touches>>

\* The bound.
MaySave ==
    saves + Cardinality({e \in Editors : savePc[e] \in {"sent", "loaded"}}) < MaxSaves

Save(e) ==
    /\ MaySave
    /\ SaveGoto(e, "editing", "sent")
    /\ sent' = [sent EXCEPT ![e] = page[e].version]
    /\ UNCHANGED <<saved, page, loaded, saves, touches>>

\* "Are you sure you want to overwrite the query with your version?"; a dashboard's page
\* does not ask, a request to the API need not name a version either.
SaveAnyway(e) ==
    /\ MaySave
    /\ SaveGoto(e, "conflict", "sent")
    /\ sent' = [sent EXCEPT ![e] = NoVersion]
    /\ UNCHANGED <<saved, page, loaded, saves, touches>>

IsBehind(e) == sent[e] \notin {NoVersion, saved.version}

LoadToSave(e) ==
    /\ SaveGoto(e, "sent", IF IsBehind(e) THEN "conflict" ELSE "loaded")
    /\ loaded' = [loaded EXCEPT ![e] = saved.version]
    /\ UNCHANGED <<saved, page, sent, saves, touches>>

\* Mutant: an UPDATE that names the row by its id alone.
NamesTheRow(e) == TRUE

\* UPDATE ... WHERE version = the one that was loaded
RowIsAsLoaded(e) == loaded[e] = saved.version

\* The answer brings the page up to the new version.
CommitSave(e) ==
    /\ RowIsAsLoaded(e)
    /\ SaveGoto(e, "loaded", "editing")
    /\ saves' = saves + 1
    /\ saved' = [version |-> NextVersion, says |-> saves + 1]
    /\ page' = [page EXCEPT ![e] = saved']
    /\ UNCHANGED <<sent, loaded, touches>>

\* StaleDataError, answered with 409
FindStale(e) ==
    /\ ~RowIsAsLoaded(e)
    /\ SaveGoto(e, "loaded", "conflict")
    /\ UNCHANGED <<saved, page, sent, loaded, saves, touches>>

\* Publishing, filing, archiving, the failure count of a query: what it says stays.
Touch ==
    /\ touches < MaxTouches
    /\ touches' = touches + 1
    /\ saved' = [saved EXCEPT !.version = NextVersion]
    /\ UNCHANGED <<page, savePc, sent, loaded, saves>>

VersionsNext ==
    \/ \E e \in Editors :
        Reload(e) \/ Save(e) \/ SaveAnyway(e) \/ LoadToSave(e) \/ CommitSave(e) \/ FindStale(e)
    \/ Touch

VersionsSpec == VersionsInit /\ [][VersionsNext]_versionsVars

-----------------------------------------------------------------------------

\* Nobody's words are replaced by somebody who has not seen them, unless that is what
\* was chosen: whoever else saves while a page is open, while its save is on the way,
\* or while the request is between its SELECT and its UPDATE (handlers/dashboards.py,
\* handlers/queries.py: "SQLAlchemy handles the case where a concurrent transaction
\* beats us to the update.  But we still have to make sure that we're not starting out
\* behind.").  So it is for dashboards; for queries, whose version nothing counts up,
\* it is not.
ReplacesWhatItSaw ==
    [][\A e \in Editors :
        /\ savePc[e] = "loaded" /\ savePc'[e] = "editing"
        /\ sent[e] # NoVersion
        => page[e].says = saved.says]_versionsVars
=============================================================================
