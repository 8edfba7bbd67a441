--------------------------- MODULE SimulationPage ---------------------------
(***************************************************************************)
(* The Simulation page of the dashboard, from one simulation to another:   *)
(* OnParametersSetAsync loads what it shows, a loop polls when snapshots   *)
(* do not come, another renders, and drafts of parameter edits are cached  *)
(* for each simulation.  The page is single-threaded WebAssembly: its      *)
(* tasks interleave at their awaits only, and go on when the page has      *)
(* moved to another simulation.  Of a value, the model keeps the           *)
(* simulation it was read from; charts, tables and status are left out.    *)
(***************************************************************************)
EXTENDS Simulations, Integers

CONSTANTS
  ParamsOf,  \* the names of the parameters of each simulation
  None,      \* null, or no entry
  User,      \* marks an entry typed by the user
  MaxLoads   \* bound: simulations the page is set to, one after another

ASSUME PageAssumption ==
  /\ None \notin Sims \cup ({User} \X Sims)
  /\ MaxLoads \in Nat \ {0}

Loads == 1..MaxLoads
Names == UNION {ParamsOf[s] : s \in Sims}

VARIABLES
  simId,      \* SimId and _currentSimId
  started,    \* calls of OnParametersSetAsync so far
  load,       \* where each call is, and what it has read
  defs,       \* the simulation _parameterDefinitions is of
  latest,     \* _latestSnapshot
  unseen,     \* _latestSnapshotSeq # _lastRenderedSnapshotSeq
  ui,         \* _uiSnapshot
  recent,     \* _lastSnapshotAt is less than a second ago
  poll,       \* where PollStatusLoopAsync is, and for which simulation
  edits,      \* _parameterEdits: the simulation a value is of, or a draft
  viewSnap,   \* SimViewState.LatestSnapshot of each simulation
  viewEdits,  \* SimViewState._parameterEdits of each simulation
  viewed,     \* the simulations ViewCache has a state of
  hubHas,     \* the simulations SimHubClient has a snapshot of
  joins,      \* the last simulation JoinSimulationAsync was called for
  crossed     \* history: the page moved on while a load or poll was under way

view == <<viewSnap, viewEdits, viewed>>
pageVars == <<simId, started, load, defs, latest, unseen, ui, recent, poll, edits,
              view, hubHas, joins, crossed>>

Snapshot(s, values, signals) == [sim |-> s, params |-> values, signals |-> signals]
Own(s) == Snapshot(s, s, s)
Typed(s) == <<User, s>>  \* typed while the page was of simulation s
NoEdits == [n \in Names |-> None]

NotStarted == [pc |-> "new", asked |-> None, values |-> None, signals |-> None]
Started(s) == [NotStarted EXCEPT !.pc = "defs", !.asked = s]
Idle == [pc |-> "idle", sim |-> None]

PageInit ==
  /\ simId \in Sims
  /\ started = 1
  /\ load = [l \in Loads |-> IF l = 1 THEN Started(simId) ELSE NotStarted]
  /\ defs = None
  /\ latest = None
  /\ unseen = FALSE
  /\ ui = None
  /\ recent = FALSE
  /\ poll = Idle
  /\ edits = NoEdits
  /\ viewSnap = [s \in Sims |-> None]
  /\ viewEdits = [s \in Sims |-> NoEdits]
  /\ viewed = {}
  /\ hubHas = {}
  /\ joins = None
  /\ crossed = FALSE

-----------------------------------------------------------------------------
(* OnParametersSetAsync: up to its first request the page shows what is    *)
(* cached for the simulation, of the view or else of the hub client.       *)

Running(l) == load[l].pc \in {"defs", "values", "signals", "status"}

Cached(s) ==
  IF s \in viewed THEN viewSnap[s]
  ELSE IF s \in hubHas THEN Own(s) ELSE None

OnParametersSet(s) ==
  /\ s # simId
  /\ started < MaxLoads
  /\ simId' = s
  /\ started' = started + 1
  /\ load' = [load EXCEPT ![started + 1] = Started(s)]
  /\ latest' = Cached(s)
  /\ ui' = Cached(s)
  /\ unseen' = (Cached(s) # None)
  /\ recent' = FALSE
  /\ edits' = IF viewEdits[s] # NoEdits THEN viewEdits[s] ELSE edits
  /\ crossed' = (crossed \/ poll # Idle \/ \E l \in Loads : Running(l))
  /\ UNCHANGED <<defs, poll, view, hubHas, joins>>

(* An answer to a request of the load; the next request is for the         *)
(* simulation the page is set to by then.                                  *)
Answer(l, from, to) ==
  /\ load[l].pc = from
  /\ load' = [load EXCEPT ![l].pc = to, ![l].asked = simId,
                          ![l].values = IF from = "values" THEN load[l].asked ELSE @,
                          ![l].signals = IF from = "signals" THEN load[l].asked ELSE @]

Definitions(l) ==
  /\ Answer(l, "defs", "values")
  /\ defs' = load[l].asked
  /\ UNCHANGED <<simId, started, latest, unseen, ui, recent, poll, edits, view,
                 hubHas, joins, crossed>>

ValuesOrSignals(l) ==
  /\ Answer(l, "values", "signals") \/ Answer(l, "signals", "status")
  /\ UNCHANGED <<simId, started, defs, latest, unseen, ui, recent, poll, edits, view,
                 hubHas, joins, crossed>>

(* Slip: the drafts of the page are kept, whichever simulation they are of. *)
MergedIntoPage(s, values) ==
  [n \in Names |->
     IF edits[n] = None /\ n \in ParamsOf[values] THEN values ELSE edits[n]]

(* Slip: values of the server replace the drafts.                          *)
MergedOver(s, values) ==
  [n \in Names |-> IF n \in ParamsOf[values] THEN values ELSE viewEdits[s][n]]

(* MergeParameterEditsFromValues                                           *)
Merged(s, values) ==
  [n \in Names |->
     IF viewEdits[s][n] = None /\ n \in ParamsOf[values] THEN values ELSE viewEdits[s][n]]

(* RemoveUnknownParameterEdits                                             *)
Known(entries, s) == [n \in Names |-> IF n \in ParamsOf[s] THEN entries[n] ELSE None]

(* Slip: the hub is asked for the simulation of the last request.          *)
JoinAsked(l) == joins' = load[l].asked

Join(l) == joins' = simId

(* The end of the load: the snapshot is put together, the values are       *)
(* merged into the drafts, and the hub is asked to join, all for the       *)
(* simulation the page is set to by then.                                  *)
LoadEnds(l) ==
  /\ load[l].pc = "status"
  /\ load' = [load EXCEPT ![l] = [NotStarted EXCEPT !.pc = "done"]]
  /\ latest' = Snapshot(simId, load[l].values, load[l].signals)
  /\ ui' = latest'
  /\ unseen' = TRUE
  /\ viewEdits' = [viewEdits EXCEPT ![simId] = Known(Merged(simId, load[l].values), defs)]
  /\ viewed' = viewed \cup {simId}
  /\ edits' = viewEdits'[simId]
  /\ Join(l)
  /\ UNCHANGED <<simId, started, defs, recent, poll, viewSnap, hubHas, crossed>>

(* A failed request ends the load, but for the hub; what the page had, it  *)
(* keeps.                                                                  *)
LoadFails(l) ==
  /\ load[l].pc \in {"defs", "values", "signals"}
  /\ load' = [load EXCEPT ![l] = [NotStarted EXCEPT !.pc = "failed"]]
  /\ Join(l)
  /\ UNCHANGED <<simId, started, defs, latest, unseen, ui, recent, poll, edits, view,
                 hubHas, crossed>>

-----------------------------------------------------------------------------
(* Slip: the page takes the snapshots of every simulation.                 *)
OnSnapshotOfAny(s) ==
  /\ hubHas' = hubHas \cup {s}
  /\ latest' = Own(s)
  /\ unseen' = TRUE
  /\ recent' = TRUE
  /\ viewSnap' = [viewSnap EXCEPT ![s] = Own(s)]
  /\ viewed' = viewed \cup {s}
  /\ UNCHANGED <<simId, started, load, defs, ui, poll, edits, viewEdits, joins, crossed>>

(* A snapshot of the page's simulation comes from the hub.                 *)
OnSnapshot(s) ==
  /\ s = simId
  /\ hubHas' = hubHas \cup {s}
  /\ latest' = Own(s)
  /\ unseen' = TRUE
  /\ recent' = TRUE
  /\ viewSnap' = [viewSnap EXCEPT ![s] = Own(s)]
  /\ viewed' = viewed \cup {s}
  /\ UNCHANGED <<simId, started, load, defs, ui, poll, edits, viewEdits, joins, crossed>>

(* One of another simulation is kept by the hub client only.               *)
OtherSnapshot(s) ==
  /\ s # simId
  /\ hubHas' = hubHas \cup {s}
  /\ UNCHANGED <<simId, started, load, defs, latest, unseen, ui, recent, poll, edits,
                 view, joins, crossed>>

(* Slip: what was rendered is cached for the page's simulation.            *)
RenderForPage ==
  /\ latest # None
  /\ unseen
  /\ unseen' = FALSE
  /\ ui' = latest
  /\ viewSnap' = [viewSnap EXCEPT ![simId] = latest]
  /\ viewed' = viewed \cup {simId}
  /\ UNCHANGED <<simId, started, load, defs, latest, recent, poll, edits, viewEdits,
                 hubHas, joins, crossed>>

Render ==
  /\ latest # None
  /\ unseen
  /\ unseen' = FALSE
  /\ ui' = latest
  /\ viewSnap' = [viewSnap EXCEPT ![latest.sim] = latest]
  /\ viewed' = viewed \cup {latest.sim}
  /\ UNCHANGED <<simId, started, load, defs, latest, recent, poll, edits, viewEdits,
                 hubHas, joins, crossed>>

-----------------------------------------------------------------------------
(* PollStatusLoopAsync                                                     *)

PollGoes(from, to) ==
  /\ poll.pc = from
  /\ poll' = to
  /\ UNCHANGED <<simId, started, load, defs, edits, view, hubHas, joins, crossed>>

PollStarts ==
  /\ PollGoes("idle", [pc |-> "status", sim |-> simId])
  /\ UNCHANGED <<latest, unseen, ui, recent>>

(* After the status: nothing to do while snapshots come.                   *)
PollStatus ==
  /\ PollGoes("status", IF recent THEN Idle ELSE [poll EXCEPT !.pc = "values"])
  /\ UNCHANGED <<latest, unseen, ui, recent>>

(* The values, then the signals, both of the loop's simulation.            *)
PollValues ==
  /\ PollGoes("values", Idle)
  /\ latest' = Own(poll.sim)
  /\ unseen' = TRUE
  /\ ui' = latest'
  /\ recent' = TRUE

(* Slip: the first failed request ends the loop.                           *)
PollEnds ==
  /\ poll # Idle
  /\ PollGoes(poll.pc, [poll EXCEPT !.pc = "ended"])
  /\ UNCHANGED <<latest, unseen, ui, recent>>

PollFails ==
  /\ poll # Idle
  /\ PollGoes(poll.pc, Idle)
  /\ UNCHANGED <<latest, unseen, ui, recent>>

(* A second has passed without a snapshot.                                 *)
Silence ==
  /\ recent
  /\ recent' = FALSE
  /\ UNCHANGED <<simId, started, load, defs, latest, unseen, ui, poll, edits, view,
                 hubHas, joins, crossed>>

(* The user types into the table of parameters that is shown.              *)
OnEditChanged(n) ==
  /\ defs # None
  /\ n \in ParamsOf[defs]
  /\ edits' = [edits EXCEPT ![n] = Typed(simId)]
  /\ viewEdits' = [viewEdits EXCEPT ![simId][n] = Typed(simId)]
  /\ viewed' = viewed \cup {simId}
  /\ UNCHANGED <<simId, started, load, defs, latest, unseen, ui, recent, poll, viewSnap,
                 hubHas, joins, crossed>>

(* What the Set button of a row sends, to the page's simulation.           *)
ApplyParameter(n) == edits[n]

-----------------------------------------------------------------------------
Loading(l) == Definitions(l) \/ ValuesOrSignals(l) \/ LoadEnds(l)

PageNext ==
  \/ \E s \in Sims : OnParametersSet(s) \/ OnSnapshot(s) \/ OtherSnapshot(s)
  \/ \E l \in Loads : Loading(l) \/ LoadFails(l)
  \/ Render
  \/ PollStarts \/ PollStatus \/ PollValues \/ PollFails
  \/ Silence
  \/ \E n \in Names : OnEditChanged(n)

PageSpec == PageInit /\ [][PageNext]_pageVars

(* Requests are answered or fail, the loops run, and polls do not fail for *)
(* ever.                                                                   *)
PageFairSpec ==
  /\ PageSpec
  /\ \A l \in Loads : WF_pageVars(Loading(l) \/ LoadFails(l))
  /\ WF_pageVars(Render)
  /\ WF_pageVars(Silence)
  /\ WF_pageVars(PollStarts)
  /\ SF_pageVars(PollStatus) /\ SF_pageVars(PollValues)

-----------------------------------------------------------------------------
(* What is shown is the page's simulation throughout, unless the page      *)
(* moved on while a load or a poll of the one before was under way; what   *)
(* is cached for a simulation always bears its name.                       *)
ShowsOwn ==
  /\ ~crossed /\ ui # None => ui = Own(simId)
  /\ \A s \in Sims : viewSnap[s] # None => viewSnap[s].sim = s

(* Once its load has ended well, the page sets the parameters of its own   *)
(* simulation, to what was read from it or typed for it, although it has   *)
(* one table of drafts for all, unless the page moved on too early.        *)
SetsOwn ==
  ~crossed /\ load[started].pc = "done" =>
    /\ defs = simId
    /\ \A n \in ParamsOf[defs] : ApplyParameter(n) \in {simId, Typed(simId)}

(* When every load has ended, the hub was last asked for the page's        *)
(* simulation, in whatever order the loads ended.                          *)
JoinsCurrent == (\A l \in Loads : ~Running(l)) => joins = simId

(* A draft of a simulation's parameter outlives every load, unless the     *)
(* page moved on while one was under way.                                  *)
DraftsKeptUncrossed ==
  [][~crossed' => \A s \in Sims : \A n \in ParamsOf[s] :
       viewEdits[s][n] = Typed(s) => viewEdits'[s][n] = Typed(s)]_pageVars

(* A page that stays with a simulation shows only that in the end, however *)
(* it got there, also when no snapshots come and loads fail.               *)
PageSettles == <>[](ui = Own(simId))
=============================================================================
