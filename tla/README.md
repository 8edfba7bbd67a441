# SkyNet Simulator: models, checks and proofs

SkyNet Simulator runs small training simulations in real time. A daemon
(ASP.NET Core) hosts several simulations, each driven by a loop of its own, and
offers HTTP endpoints and a SignalR hub; a Blazor WebAssembly dashboard shows
their telemetry and edits their parameters; a console program (the CLI) drives
one simulation without the daemon. This directory holds TLA+ models of that
program, TLC configurations that check them, and TLAPS proofs about them.
`src/` below means the repository.

    tlc -workers 2 -config MCSimulationRunner.cfg MCSimulationRunner
    tlapm SimulationRunner_proofs.tla

PROJECT.json lists the components, the runs, the source lines of every
definition (`map`), the hazards and the theorems. For every property of a run
there is a *slip*, an operator that is the mutated form of one definition, such
as `LoopUnlockBlind` beside `LoopUnlock`; it stands before the definition, is
marked "Slip:", and is used by no specification.

## 1. Inventory

| part of the program | state | operations | what is hard | module |
|---|---|---|---|---|
| `SimulationRunner` (Core): loop, steps, pause | `_paused`, the clock, the step lock, the cancellation token | `RunRealTimeAsync`, `Step`, `Pause`, `Resume`, cancellation | the loop and any number of requests tick the same components; flags are read before they are used | `SimulationRunner` |
| `SimulationRunner`: pacing | `nextTickAt`, late-tick counters | the delays of the loop | delays are cut to milliseconds, the machine may be late at any statement | `RunnerPacing`, in `Cli` |
| `ParameterStore` (Core) | `_values`, `_definitions` | `Define`, `Set`, event `ParameterChanged` | concurrent `Set`s; events are raised after the exchange, outside any lock | `ParameterStore`, `Register` |
| `TankTransferSystem` (Core): inventory | two weights and a capacity | `Tick`, `OnParameterChanged` | both run at once on the same fields without a lock; NaN passes the validation and spreads | `TankInventory`, `Inventory`, `Doubles` |
| `TankTransferSystem`, `HydraulicTrainingSystem`, `DemoHydraulicSystem`: process components | lags of first order | `Tick` | real arithmetic | – |
| `SimSystemBuilder`, `SimSystem` (Core) | declared signals, the order of components | `Build`, `Tick` | a stable topological order over any declarations | `SystemBuilder` |
| `SignalBus` (Core) | named doubles | `Set`, `Get`, `Snapshot` | `Snapshot` is not atomic | in `TelemetryStream` |
| `InMemoryLogStore` (daemon), `Logs` page | queue and sequence number of each simulation; `_after`, shown entries, the choices | `Add`, `Get`; `Refresh`, the choices | numbers and queue may be in different orders; two refreshes at once; each simulation counts from 1 | `LogStore` |
| `SimHostService`, `SimHub`, `SimulationRegistry` (daemon) | the ticks last published, groups, active id | the broadcaster, `JoinSim`, `LeaveSim`, `TrySetActive` | snapshots are built in several steps while ticks and joins go on; connections are lost; groups know letter case | `TelemetryStream` |
| telemetry store (daemon, PostgreSQL) | a table, the time of the next maintenance | `AppendAsync` with pruning, `GetLatestAsync`, `GetRecentAsync`, schema start-up | the table outlives the daemon; every statement may fail | `TelemetryStore` |
| `SimHubClient` (dashboard) | connection, `_joinedSimId`, the gate | join, leave, rejoin after a reconnect | lost connections, failed and cancelled calls | `HubClient` |
| `Simulation` page, `SimViewCache` (dashboard) | shown snapshot, drafts, caches per simulation | load, poll, render, edit, set | loads and polls of one simulation go on after the page has moved to another | `SimulationPage` |
| endpoints of `Program.cs` (daemon) | – | one call each | the guard of `step` is read before the steps | with the components |
| CLI | task and token of the loop | start, stop, step, pause, resume, quit | the loop runs on the console's own thread until its first wait; stop and quit wait for it without a limit | `Cli` |
| theme: `theme.js`, `MainLayout` | the choice in local storage, what a tab shows, the label of the button | `init`, `get`, `set`, `toggle`, `clear`; the button | tabs share the choice, storage may refuse, answers come late | `Theme` |
| `SimApiClient`, contracts, units, charts, schematic, home and sample pages | – | – | rendering and serialisation | – |

How they interact. The loop of a `SimulationRunner` ticks a `SimSystem`, whose
components read the `ParameterStore` and write the `SignalBus`. HTTP requests
call the runner and the store; the store's event calls the tank inventory on the
thread of the request. The broadcaster polls every runner's tick, copies
parameters and signals into a snapshot, appends it to the telemetry store and
sends it to a group of the hub. The hub client keeps the last snapshot of each
simulation and raises it to the page, which falls back to polling when none
comes. The CLI has a runner of its own and calls it from its one thread.

What makes each part correct is stated by the properties in section 3. The
hazards the properties are aimed at are listed in PROJECT.json, each at the
line where it bites.

## 2. Modules

**`SimulationRunner`.** Threads are the loop and a set of step requests. A tick
is split into taking the lock, advancing the clock, one step per component and
giving the lock back; the loop reads the token, then `_paused`, in two steps.
Whether a tick was late, and how long a delay takes, is left open. `granted`,
`loopTicks` and `afterPause` are history.

**`RunnerPacing`.** The same loop against a clock that may advance between any
two statements, without the lock. `Pace` cuts the delay to the grain of
`Task.Delay`. `slow` records that the machine let time pass that the loop had
not asked for. The loop may be run again after it has returned.

**`Cli`** extends it with the console: one action for each command, and the
loop's wait (`LoopWaits`), at which the console gets its thread back. The
pacing specification is the promise the console has to keep towards the runner
(`ImplementsPacing`): it runs the loop only when the one before has returned.

**`ParameterStore`.** `Set` is a read, a compare-and-swap that may fail and be
retried, and the delivery of the event. A value is an integer or NaN, for which
every comparison is false. `mirror` is what a subscriber was last told.
**`Register`** is what it promises, without the retry loop: a call takes effect
once, at a moment of its own, with the request brought within the bounds, and
the change it made is announced before it returns. The store's variables are
mapped to it by `Calls` (callers before their exchange) and `Events` (callers
after it).

**`TankInventory`** instantiates `ParameterStore` for the three parameters the
component listens to and composes its calls with `Tick` and
`OnParameterChanged`, one step per access to a shared field. The clamp of a new
capacity reads `_destCapacityLb` and `_destWeightLb` again and again, as the
code does. `serialized` is chosen once: in those behaviours edits come one by
one and outside ticks, and the component is compared with **`Inventory`**, the
abstract specification, in which a transfer and an edit are one step each. The
amount requested by the components before it in a tick is any number up to
`MaxDelta`, or NaN. **`Doubles`** is the arithmetic of both: `ParameterStore`
lets NaN and Infinity through, a comparison with NaN is false, `Math.Max`,
`Math.Min`, sums and differences with NaN are NaN, and so is Infinity less
Infinity. Infinity is the number at which sums stop growing.

**`SystemBuilder`.** The three loops of `Build`, one step per component or
chosen node, over every system whose declarations come from `Inputs`. The model
takes the components of a system to be different objects, as they are in the
three systems of the repository. `again` are the writes a component lists twice,
which `Build` refuses as it does two units or two components.

**`LogStore`.** `Add` is four steps (number, enqueue, count, dequeue) on the log
of one simulation; the page's `Refresh` is a request, an answer and its use, or
a failure, by the timer or by a button. Users choose the simulation of the
page, the active one, and whether the timer polls. An entry is its simulation
and its number.

**`TelemetryStream`.** The value of a signal is the tick that wrote it, so that
one can see which ticks a snapshot mixes. The broadcaster reads the tick, copies
the signals one by one, sends to the group and, for the active simulation, to
everybody. `Asked` are the spellings clients use: a group is named with the id
as it is written, the registry ignores its case (`Named`). `Lose` ends a
connection, with its groups and what was on its way, and the client has another.
SignalR's promise that the messages to one connection arrive in the
order in which they were sent is the only assumption about it. The sends to the
group and the messages to everybody put the same snapshot into the inbox.

**`HubClient`.** One client, its connection, the groups the hub has it in, and
the queue at `_connectionGate`. The dashboard is single-threaded, so that calls
interleave at awaits only. A dropped connection has no groups; an invocation on
it fails. The page cancels its joins when it ends.

**`SimulationPage`.** Of a value the model keeps the simulation it was read
from, of a draft the simulation it was typed for; `Set` sends what is in the
table to the simulation of the page. Loads run on after the page has moved on,
re-reading `SimId` where the code does; the poll keeps the simulation it started
with.

**`TelemetryStore`.** The table persists, the daemon starts, crashes and starts
again with ticks from 0. Maintenance is due at times the model leaves open, but
with at most `Interval` appends in between. A maintenance that fails, whose
answer is lost or that a crash cuts off is a *setback*.

**`Theme`.** All of `skynetTheme` and the button of `MainLayout`, in several tabs
that share local storage. Calls from .NET are answered later, some with an
exception, and the label changes with the answer. Storage may refuse; the
system's preference may change.

Modules named `MC...` give the constants for TLC. Modules named `..._proofs`
hold the theorems of the module they are named after; `Cli_proofs` also those of
`RunnerPacing`, `DaemonStores_proofs` those of `TelemetryStore` and `LogStore`,
`Dashboard_proofs` those of `HubClient`, `Theme` and `SimulationPage`, which it
extends together. For this the specifications of `LogStore`, `Theme` and
`SimulationPage` have names of their own (`LogSpec`, `ThemeSpec`, `PageSpec`),
and the modules that speak of the daemon's simulations take them from
`Simulations`. Side by side these components share
nothing but `Sims`.

## 3. Runs

| run | properties | instance and bounds | distinct states |
|---|---|---|---|
| `runner` | `TickWhole`, `PauseStopsLoop`, `StepsAccounted` | three requests of up to three steps, three components, seven ticks: requests and the loop can contend for every tick, and a request can be overtaken between its own steps | 137 000 |
| `cli` | `NeverAhead`, `PromptIsOnTime`, `StepsAlone`, `StartIsPrompt`, `ImplementsPacing`, `StopReturns` | a step of 5 units and a grain of 2, so that every second delay is inexact, over three steps; two loops, the second of which meets what the first has left | 730 000 |
| `params` | `EventsChain`, `SubscriberCurrent`, `ImplementsRegister` | three calls by three threads, a parameter with two bounds and one with a lower bound, requests below, at, above and NaN | 146 000 |
| `tank_safety` | `NonNegative`, `UnracedTransfers`, `AlignedWithParameters`, `ImplementsInventory` | two edits by two threads to 0, 3, Infinity or NaN, any number of ticks, rates up to 2 or NaN; Infinity is 7, above the total of two weights that were edited: empty, full and overfilled tanks, a capacity of 0, a spoilt weight, capacity and rate occur | 6 550 000 |
| `tank_teleport` | `TeleportSurvivesTick` is violated | one edit | – |
| `builder` | `WritersFirst`, `StableOrder`, `FailsIfWrong` | every system of four components with one of fourteen declarations each: diamonds, cycles, self-reads, second writers, also the same write twice, two signals of one writer, blank names, wrong units | 167 000 |
| `logs` | `QueueBounded`, `PageInOrder`, `PassedWasSeen`, `PageCatchesUp` | two simulations, two writers, three entries, a queue of two, a page of two, the timer and one button, one choice: trimming, overtaking and a change of simulation occur; that a writer finds the queue empty when it dequeues takes more than `MaxEntries + 1` writers and does not | 569 000 |
| `stream` | `SnapshotsFresh`, `NeverBack`, `JoinedIsFed` | two simulations, one of which ticks twice; a client that joins once on a connection, in one of two spellings, may leave, and may lose its connection once | 582 000 |
| `hub_client` | `InJoinedOnly`, `CallsReturn`, `RejoinsAfterReconnect` | four calls for two simulations, two losses of the connection | 139 000 |
| `page` | `ShowsOwn`, `SetsOwn`, `JoinsCurrent`, `DraftsKeptUncrossed`, `PageSettles` | a page that moves once between two simulations with one parameter name in common, with polls, renders, snapshots, edits and failures in any number | 803 000 |
| `store` | `RowsBounded`, `LatestServed` | two simulations of three ticks, a cap of two rows, two starts, two setbacks | 1 070 000 |
| `theme` | `ButtonAgrees`, `ReloadKeepsChoice`, `ClickFlips` | two tabs with two answers under way in each; clicks, reloads, refusals and changes of preference in any number | 376 000 |

What the bounds leave out is repetition: counters of calls, ticks and losses are
bounded, everything else may go on for ever. Each bound is a constant whose
comment begins with "bound:". The invariants that are proved (section 5) hold
for every value of the constants, so that the bounds matter only for the
liveness properties. The longest runs (`stream`, `tank_safety`) take three minutes, the others less. Deadlock is
checked where the system goes on for ever; it is not where it may come to rest
(all calls made, all ticks taken, the order built, the daemon down).

Symmetry is used for interchangeable threads, tabs and simulations in runs of
safety properties, and in `tank_safety`, whose abstract specification has no
liveness.

What the runs show about the code, beside the properties themselves:

- *Pausing.* `Pause()` returns while a tick is under way or already decided on;
  at most one more tick of the loop begins. A step request reads `IsPaused` once:
  its remaining steps run also after a resume in between, mixed with the ticks
  of the loop, and none is lost.
- *Late ticks.* The schedule is kept through a pause, so that a resumed loop
  first catches up with the ticks of the pause, each counted as late.
- *Console.* While the loop is behind, `start` does not give the prompt back:
  the loop runs on the console's thread until its first wait, and no command can
  stop it. On a machine that is not slow that is after at most one tick, if a
  step is at least a millisecond long.
- *Parameters.* Events of two overlapping calls for one parameter can reach the
  subscriber in the opposite order, which then keeps the older value; the
  properties exclude exactly these parameters (`overlapped`). NaN passes the
  validation and is stored.
- *Tank inventory.* Weights do not become negative however edits and a tick
  interleave, but an edit may be lost in a tick (finding below), and material is
  conserved only by ticks that no edit interferes with and that begin with
  numbers. `ParameterStore.Set` lets NaN through: if a weight, the capacity or
  the rate is NaN, or capacity and weight of the destination are both infinite,
  the next tick makes both weights NaN, and only edits bring them back. A refill to the value
  the parameter already has raises no event and does nothing, although ticks
  have used the weight up since. A destination weight set above the capacity is
  not clamped.
- *Logs.* An entry that gets its number first and is enqueued last is passed
  over by a page that has been given a later one (`skipped`); two refreshes at
  once can show entries twice. `_after` is kept when another simulation is chosen
  or activated, so that its entries up to that number are never shown;
  `PassedWasSeen` allows for what the change of simulation takes away.
- *Stream.* A snapshot may mix signals of its tick with those of the tick before
  or of later ones, never older ones. On a paused simulation the last, possibly
  mixed, snapshot is not sent again; and when the initial snapshot of a join
  overtakes, or is overtaken by, a broadcast, the older one can stay. A client
  that joins in another spelling than the registry's is in a group that no
  broadcast is sent to: it gets the initial snapshot only (`JoinedIsFed` promises
  it no more).
- *Hub client.* `_joinedSimId` survives a closed connection, or is empty after a
  join that failed; joining the simulation it names then returns without a call
  (`unjoined`). A cancelled join may still be carried out by the hub (`leaked`).
- *Page.* When a load of one simulation ends after the page has moved to
  another, its values are shown, for a time, under the new name, and its
  definitions drop drafts of the new one (`Simulation.razor:328` re-reads
  `SimId`). A failed load leaves the table of the simulation before in place,
  whose Set buttons then send its values to the new one. Caches stay with their simulation throughout, and the page settles.
- *Telemetry store.* Keys are `(sim_id, tick)`, ticks start again from 0 with the
  daemon, and `ON CONFLICT (sim_id, tick) DO NOTHING` discards what the new run
  appends under a key of the run before, while `AppendAsync` succeeds. Rows of
  an earlier run with higher ticks are served as the latest for as long as that
  run lasted. `LatestServed` exempts these and nothing else.
- *Theme.* A tab shows its choice before it stores it; where storage refuses, a
  reload brings the last stored choice back. The label may lag behind the tab
  only while answers are under way, when the theme was changed from elsewhere, or
  after a click whose choice could not be stored.

### Disagreements with what the repository says

- `tank_teleport`: the description of the parameter says that the source weight
  "Can be adjusted live." (`TankTransferSystem.cs:64`). `Tick` loads
  `_sourceWeightLb`, computes and stores it; an edit between the load and the
  store is overwritten.

## 4. Fairness

- `cli`: the threads of the loop and of the console run on. The user need not
  type, and the clock need not advance: a loop that is told to stop does so
  whatever the time.
- `params`: a thread inside `Set` runs on, from which the leads-to of `Register`
  (every call returns) follows. No fairness is needed for the
  exchange: the number of competing calls is finite.
- `logs`: writers run on, the page polls as long as its timer is on, and its
  requests do not fail for ever (strong fairness of the answer and of its use). A failed
  refresh is repeated by the timer.
- `stream`: the broadcaster, invocations and deliveries run on. Ticks, joins,
  losses and failures need not happen.
- `hub_client`: an invocation is answered or fails, the waits for a change end
  by their time-out, and the retries of `WithAutomaticReconnect` are finite.
- `page`: requests are answered or fail, the two loops run, a second of silence
  passes, and polls do not fail for ever.

The other runs check safety only, under `Spec` (`ThemeSpec`). For `runner` no
liveness is claimed: .NET's `Monitor` is not fair, a loop that is late takes the
lock again without sleeping (`SimulationRunner.cs:91`), and a run whose ticks are
bounded cannot show that a step request starves. Assuming that every
waiter obtains the lock would assume what there is to show.

## 5. Proofs

Except for three refinements (below), the theorems are of the form `Spec => []P`,
with the component's `Spec` (`CliSpec` for the console), or `Spec => P` for an
action property, for arbitrary constants that satisfy the
assumption named in the module (`RunnerAssumption`, ...). Each `_proofs`
module defines an inductive invariant, `IInv` or one named below, proves
`Init => IInv` and `IInv /\ [Next]_vars => IInv'`, with one step for each action,
and derives the properties from it.

| theorem | why an invariant of its own is needed |
|---|---|
| `SimulationRunner_proofs`: `TypeCorrect`, `TickExclusion`, `TicksWhole`, `PauseEffective` | `PauseInv` says that a loop that has decided to tick, and not begun, has begun none since the pause; `StepInv` that a request under way has steps left |
| `SimulationRunner_proofs`: `StepsRunOnce` | the steps that requests have still to run are a set, `Pending`, whose cardinality stands for the sum of `left` over the requests; `CountInv`: ticks run and steps pending are the loop's ticks, the steps granted, and the one under way |
| `Cli_proofs`: `NeverAheadOfClock`, `PromptLoopOnTime`, `CommandsImplementPacing`, `StepsAreAlone`, `PromptReturns` | `AheadInv` relates ticks to `nextTickAt` and the end of a delay, `PromptInv` says how close to its due time a prompt loop is at each place, `ConsoleInv` ties the console's state to `runTask`, `runCts` and the phase of the loop, `PromptConsole` says how far a loop can be that has not waited yet; `Cut` is the lemma on cutting a delay to the grain |
| `ParameterStore_proofs`: `StoreImplementsRegister`, `ValuesInRange`, `EventsFormChain`, `SubscriberKnowsValue` | `RangeInv` extends the range to calls under way, `EventInv` connects the value with the one undelivered event of a parameter; `Clamps` is the lemma on the validation |
| `TankInventory_proofs`: `WeightsNonNegative`, `MaterialConserved`, `InventoryFollows`, `InventoryImplemented` | `WeightInv` covers the registers of the handlers and of the tick, `UnracedInv` says what a tick that was not interfered with has computed at each of its places, NaN or the amount to be moved; `TakeAndReturn` and `MovedTotal` are the lemmas on sums of weights, finite, infinite or NaN; `AlignInv` says that a field lags behind its parameter by the one event under way; `SerialInv` that serialized edits leave one thing under way at a time, and what the clamp then knows |
| `SystemBuilder_proofs`: `OrderTopological`, `OrderStable`, `FailsExactly` | edges are exactly the dependencies collected so far, the indegree of a component is the number of its writers not yet placed, and the ready set is that of indegree 0; `VerdictInv` says what the checks so far have established, and that no component of a cycle is ever placed |
| `TelemetryStream_proofs`: `SnapshotsAreFresh` | every snapshot on its way is a good one, and its tick was the simulation's |
| `TelemetryStream_proofs`: `BroadcastsInOrder` | the snapshot the broadcaster works on has the number it published last (`NumberInv`), numbers only grow, so the broadcasts in an inbox are in order and none is earlier than the one the client shows (`OrderInv`) |
| `Dashboard_proofs`: `MembershipAgrees` | `GroupsInv` and `MemberInv` say at each place of the call that holds the gate which groups the connection can have; `RejoinPending` that a connection without its group has a rejoin in the queue |
| `Dashboard_proofs`: `ButtonOffersOther`, `ChoiceSurvivesReload`, `ClickTurnsOver` | `Labelled`: what a tab has been answered last, and not used yet, is what it shows; where nothing is shown and storage cannot be read, every answer under way is none or a failure. `OwnerInv`: the owner's choice is the stored one |
| `Dashboard_proofs`: `PageShowsOwn`, `PageSetsOwn`, `HubJoinsCurrent`, `DraftsOutliveLoads` | unless the page has moved on too early (`crossed`), only the last load runs, and `LoadOwn` says at each of its places what it has read; `SnapsOwn` and `DraftsOwn` say the same of what is shown, polled, cached and typed. `CacheNamed` and `JoinsCurrent` need no such condition |
| `DaemonStores_proofs`: `TableBounded` | `SizeInv`: rows are at most `MaxRows + (Interval + 1) * setbacks + age`; a completed maintenance deletes the excess of one interval because `Interval < PruneBatch` |
| `DaemonStores_proofs`: `AppendedIsServed` | `KeyInv`: the keys of the table are unique; `RunInv` that no row is of a later run than the present one; `TailInv` that the snapshot appended last is at the end of the table, where no pruning reaches it |
| `DaemonStores_proofs`: `LengthBounded` | `LengthInv`: writers between the count and the dequeue have each seen the queue over its limit, so that it is below the limit by no more than those that have dequeued since |
| `DaemonStores_proofs`: `PageStaysInOrder` | `OrderInv`: without overlapping calls an answer under way is of the number the page has got to, ascending, and beyond it |
| `DaemonStores_proofs`: `NothingPassedBy` | `PassedInv` speaks of every entry that may yet be served (`Live`): not only of those in the queues but of those not numbered or not enqueued; and it holds of the number the page has got to, of every number asked from, and of what each answer under way would take it to |

`Interval < PruneBatch` is part of `StoreAssumption`: within thirty seconds three
simulations, each published at most ten times a second, append fewer rows than
a batch of 10 000. With a batch smaller than that the
table would grow without bound.

`StoreImplementsRegister` is a refinement: under the mapping above, every step of
the store is one of `Register` or none. So is `InventoryImplemented`: of a tick
its beginning asks for an amount (`Ask`), and only the write of the destination
is a transfer, or, where a number was NaN, the write of each weight its loss
(`Spoil`); of an edit only the handler's write, to which the clamp that follows already belongs.
The same holds of `CommandsImplementPacing`,
where the mapping is the identity, as `Cli` extends what it implements.
`PromptReturns` needs a step of at least the grain of a delay
(`Milli <= StepLength`), which its statement assumes.

`TelemetryStore` and `LogStore` sort rows and entries (`ORDER BY`, `OrderBy`). A
sorted sequence is chosen there by what it is, as the library's operator for
sorting has no definition that the provers can use. That such a sequence exists
for every finite set with different keys is the lemma `Sortable`; it is unique,
which `GetLatest`, the first of the recent rows, and the first entries of a
page rest on. `Sortable` is an induction on the size of the set; it is carried
out with a smallest counterexample, which the set of the sizes of all
counterexamples has (`LeastNumber`).

The proofs use these assumptions on the constants beside types and the
distinctness of names: writers are finitely many (`LogAssumption`), as
`Cardinality` in `QueueBounded` has no meaning otherwise; the value for "nothing" is no
simulation, no draft and no tab (`PageAssumption`, `ThemeAssumption`); NaN is no
number, Infinity is a positive one (`DoublesAssumption`), and what a tick is
asked to move is finite or NaN (`MaxDelta` is below `Infinity`).

Every safety invariant of the runs is proved, and every action property that
needs no fairness; of the refinements, every step. Only model-checked are the
liveness properties (`StopReturns`, `PageCatchesUp`,
`JoinedIsFed`, `CallsReturn`, `RejoinsAfterReconnect`, `PageSettles` and the
leads-to of `Register`): fairness and ENABLED are out of the provers' reach.

## 6. Not modelled

- The process components of the three systems: exponentials and first-order
  lags over doubles. Their order within a tick is `SystemBuilder`'s subject.
- The console's `set`, which is one call of `ParameterStore.Set`, and `watch`,
  which displays.
- The page's buttons for pause, resume and step, which only send a request, and
  the end of the page; `DisposeAsync` of the hub client and the recreation of a
  disposed connection, which end with the application; the warning of the
  telemetry store.
- `HubClient` and `TelemetryStream` are not composed: the first knows the groups
  of its one connection but no snapshots, the second lets a client join again
  on a new connection whenever it likes.
- The rounding of doubles: finite weights are counted in units.
- `TimeSeconds` of a snapshot, a read of the clock of its own after that of the
  tick number (`SimHostService.cs:68`), which may be later, as signals may.
- Queries without effect, serialisation, rendering, contracts, units.

## 7. Plan

Done, in this order: the runner and its pacing; the parameter store and the tank
inventory composed with it, with its abstract specification; the builder; the
log store; the snapshot stream; the hub client; the page; the telemetry store;
then the console over the pacing loop, the theme, the logs of several
simulations, lost connections and spellings in the stream, the drafts and Set
buttons of the page, and the register that the parameter store implements. Next:

1. *Interlocks.* `RunStateSignals`, `AirlockDrive` and `TransferSetpoint` before
   the inventory in a tick, with enables edited at any time: no transfer in a
   tick that has read an enable as off.
2. *Hub client and stream composed:* `RejoinsAfterReconnect` and `JoinedIsFed` as
   one property, of a client whose connection drops between broadcasts.
3. *Abstract specifications:* a log whose entries are each seen once for
   `LogStore`, a page that shows one simulation at a time for `SimulationPage`.
4. *Proofs:* what the modules of 1 to 3 promise, and the refinements of 3.
