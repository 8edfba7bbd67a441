--------------------------- MODULE TelemetryStore ---------------------------
(***************************************************************************)
(* PostgresTelemetrySnapshotStore and PostgresTelemetrySchemaInitializer,  *)
(* over starts and crashes of the daemon.  The broadcaster appends one     *)
(* snapshot after another; an append may go on to count the rows of all    *)
(* simulations and delete the oldest.  The table outlives the daemon, whose *)
(* simulations start again from tick 0.  A row is the snapshot it holds,   *)
(* and the table is in the order of created_at.                            *)
(***************************************************************************)
EXTENDS Simulations, Integers, Sequences, SequencesExt, FiniteSets

CONSTANTS
  None,         \* no snapshot
  MaxRows,      \* TelemetryStoreOptions.MaxRowsTotal
  PruneBatch,   \* TelemetryStoreOptions.PruneBatchSize
  Interval,     \* the most appends within MaintenanceIntervalSeconds
  MaxAttempts,  \* maxAttempts of the schema initializer
  MaxTick,      \* bound: ticks of a simulation
  MaxRuns,      \* bound: starts of the daemon
  MaxSetbacks   \* bound: maintenances that are not completed

(* The ranges of the options; there is time between two maintenances.      *)
TelemetryStoreOptions == {MaxRows, PruneBatch} \subseteq Nat \ {0} /\ Interval \in Nat

ASSUME StoreAssumption ==
  /\ TelemetryStoreOptions
  /\ Interval < PruneBatch
  /\ MaxAttempts \in Nat \ {0}
  /\ MaxTick \in Nat
  /\ MaxRuns \in Nat \ {0}
  /\ MaxSetbacks \in Nat
  /\ None \notin [sim : Sims, tick : Nat, run : Nat]

VARIABLES
  table,     \* telemetry_snapshots, oldest created_at first
  run,       \* starts of the daemon so far
  pc,        \* where the daemon is in starting or in AppendAsync
  attempt,   \* attempt of the schema initializer
  last,      \* the last tick published of each simulation in this run
  snapshot,  \* the snapshot of the append under way or the last to succeed
  due,       \* DateTimeOffset.UtcNow has reached _nextMaintenanceUtc
  stats,     \* what maintenance has counted
  discarded, \* history: the key of the snapshot was taken
  age,       \* history: appends since maintenance was last begun
  setbacks   \* history: maintenances that failed or did not come to an end

vars == <<table, run, pc, attempt, last, snapshot, due, stats, discarded, age, setbacks>>

Init ==
  /\ table = <<>>
  /\ run = 1
  /\ pc = "schema"
  /\ attempt = 1
  /\ last = [s \in Sims |-> 0]
  /\ snapshot = None
  /\ due = TRUE
  /\ stats = 0
  /\ discarded = FALSE
  /\ age = 0
  /\ setbacks = 0

-----------------------------------------------------------------------------
(* StartAsync of the schema initializer comes before the broadcaster.      *)

SchemaReady ==
  /\ pc = "schema"
  /\ pc' = "idle"
  /\ UNCHANGED <<table, run, attempt, last, snapshot, due, stats, discarded, age, setbacks>>

(* The last attempt's exception is not caught and ends the start.          *)
SchemaFails ==
  /\ pc = "schema"
  /\ IF attempt < MaxAttempts
       THEN attempt' = attempt + 1 /\ pc' = "schema"
       ELSE attempt' = attempt /\ pc' = "down"
  /\ UNCHANGED <<table, run, last, snapshot, due, stats, discarded, age, setbacks>>

-----------------------------------------------------------------------------
(* AppendAsync                                                             *)

SameKey(a, b) == a.sim = b.sim /\ a.tick = b.tick
Stored(m) == \E i \in DOMAIN table : SameKey(table[i], m)

(* The broadcaster has a tick it has not published; it may skip some.      *)
AppendAsync(s, n) ==
  /\ pc = "idle"
  /\ last[s] < n
  /\ age < Interval \/ due
  /\ last' = [last EXCEPT ![s] = n]
  /\ snapshot' = [sim |-> s, tick |-> n, run |-> run]
  /\ pc' = "insert"
  /\ UNCHANGED <<table, run, attempt, due, stats, discarded, age, setbacks>>

(* INSERT ... ON CONFLICT (sim_id, tick) DO NOTHING                        *)
Insert ==
  /\ pc = "insert"
  /\ table' = IF Stored(snapshot) THEN table ELSE Append(table, snapshot)
  /\ discarded' = Stored(snapshot)
  /\ pc' = "maintain"
  /\ age' = age + 1
  /\ UNCHANGED <<run, attempt, last, snapshot, due, stats, setbacks>>

(* A failed append is logged by the broadcaster, which goes on.            *)
InsertFails ==
  /\ pc = "insert"
  /\ pc' = "idle"
  /\ snapshot' = None
  /\ UNCHANGED <<table, run, attempt, last, due, stats, discarded, age, setbacks>>

(* Maintenance that was due does not take place.                           *)
Setback ==
  /\ setbacks < MaxSetbacks
  /\ setbacks' = setbacks + 1
  /\ age' = 0

SetbackIfDue == IF due THEN Setback ELSE UNCHANGED <<age, setbacks>>

(* The row is stored, but the answer is lost.                              *)
AnswerLost ==
  /\ pc = "maintain"
  /\ pc' = "idle"
  /\ snapshot' = None
  /\ SetbackIfDue
  /\ UNCHANGED <<table, run, attempt, last, due, stats, discarded>>

-----------------------------------------------------------------------------
(* MaybeMaintainAsync                                                      *)

NotDue ==
  /\ pc = "maintain"
  /\ ~due
  /\ pc' = "idle"
  /\ UNCHANGED <<table, run, attempt, last, snapshot, due, stats, discarded, age, setbacks>>

(* Slip: only the rows of the simulation at hand are counted.              *)
GetStatsOfSim ==
  /\ pc = "maintain"
  /\ due
  /\ due' = FALSE
  /\ stats' = Cardinality({i \in DOMAIN table : table[i].sim = snapshot.sim})
  /\ age' = 0
  /\ pc' = "prune"
  /\ UNCHANGED <<table, run, attempt, last, snapshot, discarded, setbacks>>

(* The next maintenance is set before this one is done.                    *)
GetStats ==
  /\ pc = "maintain"
  /\ due
  /\ due' = FALSE
  /\ stats' = Len(table)
  /\ age' = 0
  /\ pc' = "prune"
  /\ UNCHANGED <<table, run, attempt, last, snapshot, discarded, setbacks>>

ToDelete == IF stats - MaxRows < PruneBatch THEN stats - MaxRows ELSE PruneBatch

(* Slip: the newest rows are deleted.                                      *)
PruneNewest ==
  /\ pc = "prune"
  /\ table' = IF stats > MaxRows THEN SubSeq(table, 1, Len(table) - ToDelete) ELSE table
  /\ pc' = "idle"
  /\ UNCHANGED <<run, attempt, last, snapshot, due, stats, discarded, age, setbacks>>

PruneIfNeeded ==
  /\ pc = "prune"
  /\ table' = IF stats > MaxRows THEN SubSeq(table, ToDelete + 1, Len(table)) ELSE table
  /\ pc' = "idle"
  /\ UNCHANGED <<run, attempt, last, snapshot, due, stats, discarded, age, setbacks>>

(* A failed count or deletion is logged, and the append has succeeded.     *)
MaintenanceFails ==
  /\ pc = "prune"
  /\ pc' = "idle"
  /\ Setback
  /\ UNCHANGED <<table, run, attempt, last, snapshot, due, stats, discarded>>

BecomesDue ==
  /\ ~due
  /\ due' = TRUE
  /\ UNCHANGED <<table, run, pc, attempt, last, snapshot, stats, discarded, age, setbacks>>

(* The daemon stops or crashes, wherever it is.                            *)
Crash ==
  /\ pc \notin {"schema", "down"}
  /\ pc' = "down"
  /\ snapshot' = None
  /\ IF pc = "prune" THEN Setback
     ELSE IF pc = "maintain" THEN SetbackIfDue
     ELSE UNCHANGED <<age, setbacks>>
  /\ UNCHANGED <<table, run, attempt, last, due, stats, discarded>>

(* It is started again, with simulations at tick 0 and maintenance due.    *)
Start ==
  /\ pc = "down"
  /\ run < MaxRuns
  /\ run' = run + 1
  /\ pc' = "schema"
  /\ attempt' = 1
  /\ last' = [s \in Sims |-> 0]
  /\ due' = TRUE
  /\ UNCHANGED <<table, snapshot, stats, discarded, age, setbacks>>

Next ==
  \/ SchemaReady \/ SchemaFails
  \/ \E s \in Sims, n \in 1..MaxTick : AppendAsync(s, n)
  \/ Insert \/ InsertFails \/ AnswerLost
  \/ NotDue \/ GetStats \/ PruneIfNeeded \/ MaintenanceFails
  \/ BecomesDue
  \/ Crash \/ Start

Spec == Init /\ [][Next]_vars

-----------------------------------------------------------------------------
(* GetLatestAsync: the row of the simulation with the highest tick.        *)
GetLatest(s) ==
  LET rows == {m \in ToSet(table) : m.sim = s}
  IN  IF rows = {} THEN None
      ELSE CHOOSE m \in rows : \A other \in rows : other.tick <= m.tick

(* GetRecentAsync: up to take of its rows, the highest tick first.         *)
GetRecent(s, take) ==
  LET rows == {m \in ToSet(table) : m.sim = s}
      byTick == CHOOSE r \in [1..Cardinality(rows) -> rows] :
                  \A i, j \in DOMAIN r : i < j => r[i].tick > r[j].tick
  IN  SubSeq(byTick, 1, IF take < Len(byTick) THEN take ELSE Len(byTick))

Shadowed(m) ==
  \E i \in DOMAIN table :
    table[i].sim = m.sim /\ table[i].run < m.run /\ table[i].tick > m.tick

(* An append has succeeded, and no earlier run stands in its way.          *)
Unshadowed ==
  pc = "idle" /\ snapshot # None /\ ~discarded /\ ~Shadowed(snapshot)

(* However many simulations share the table, and whatever fails, it never  *)
(* holds more than the cap and the appends of one interval, and those of   *)
(* one more for each maintenance that was not completed.                   *)
RowsBounded ==
  Len(table) <= MaxRows + (Interval + 1) * setbacks + Interval + 1

(* When an append is done, its snapshot is the latest of its simulation,   *)
(* and the first of its recent ones, and pruning has spared it, unless an  *)
(* earlier run left a row with its tick or a higher one.                   *)
LatestServed ==
  Unshadowed =>
    /\ GetLatest(snapshot.sim) = snapshot
    /\ \A take \in 1..MaxRows : Head(GetRecent(snapshot.sim, take)) = snapshot
=============================================================================
