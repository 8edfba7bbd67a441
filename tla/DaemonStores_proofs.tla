------------------------- MODULE DaemonStores_proofs -------------------------
(***************************************************************************)
(* Theorems about what the daemon stores.  The table of telemetry: for any *)
(* number of simulations, starts and crashes of the daemon, as long as a   *)
(* batch of pruning is larger than the appends of an interval, the table   *)
(* is bounded by the cap, one interval, and one more for each maintenance  *)
(* that was not completed; and what was appended is what is served, but    *)
(* for rows of earlier runs.  The logs in memory and the page that tails   *)
(* one of them: for any number of writers, logs and calls of Refresh.      *)
(***************************************************************************)
EXTENDS TelemetryStore, LogStore, TLAPS, FiniteSetTheorems, WellFoundedInduction

-----------------------------------------------------------------------------
(* Sorting.                                                                *)

(* A set of numbers has a least one.                                       *)
LEMMA LeastNumber ==
  ASSUME NEW T \in SUBSET Nat, T # {}
  PROVE  \E x \in T : \A y \in T : x <= y
<1> DEFINE R == OpToRel(<, Nat)
<1>1. PICK x \in T : \A y \in T : ~(<<y, x>> \in R)
  <2>1. IsWellFoundedOn(R, Nat)
    BY NatLessThanWellFounded
  <2> HIDE DEF R
  <2> QED BY <2>1, WFMin
<1>2. \A y \in T : ~(y < x)
  BY <1>1 DEF OpToRel
<1> QED BY <1>2

(* A finite set can be put in the order of its keys: otherwise take a      *)
(* smallest subset that cannot, put its least element aside, and then in   *)
(* front of the others.                                                    *)
LEMMA Sortable ==
  ASSUME NEW S, IsFiniteSet(S), NEW key, \A x \in S : key[x] \in Nat,
         \A x, y \in S : key[x] = key[y] => x = y
  PROVE  \E s \in [1..Cardinality(S) -> S] :
           \A i, j \in 1..Cardinality(S) : i < j => key[s[i]] < key[s[j]]
<1> DEFINE Up(s, n) == \A i, j \in 1..n : i < j => key[s[i]] < key[s[j]]
           Ok(T) == \E s \in [1..Cardinality(T) -> T] : Up(s, Cardinality(T))
           Bad == {n \in Nat : \E T \in SUBSET S : Cardinality(T) = n /\ ~Ok(T)}
<1>1. ASSUME Bad # {} PROVE FALSE
  <2>1. PICK n \in Bad : \A k \in Bad : n <= k
    <3>1. Bad \in SUBSET Nat
      OBVIOUS
    <3> HIDE DEF Bad
    <3> QED BY <1>1, <3>1, LeastNumber
  <2>2. PICK T \in SUBSET S : Cardinality(T) = n /\ ~Ok(T)
    OBVIOUS
  <2>3. n \in Nat /\ IsFiniteSet(T)
    BY FS_Subset
  <2>4. n # 0
    <3>1. ASSUME n = 0 PROVE FALSE
      <4>1. 1..n = {}
        BY <3>1
      <4>2. [i \in 1..n |-> i] \in [1..n -> T] /\ Up([i \in 1..n |-> i], n)
        BY <4>1
      <4> QED BY <2>2, <4>2
    <3> QED BY <3>1
  <2>5. T # {}
    BY <2>2, <2>4, FS_EmptySet
  <2>6. PICK m \in T : \A x \in T : key[m] <= key[x]
    <3> DEFINE keys == {key[x] : x \in T}
    <3>1. keys \in SUBSET Nat /\ keys # {}
      BY <2>5
    <3>2. PICK k \in keys : \A y \in keys : k <= y
      <4> HIDE DEF keys
      <4> QED BY <3>1, LeastNumber
    <3> QED BY <3>2
  <2> DEFINE U == T \ {m}
  <2>7. U \in SUBSET S /\ Cardinality(U) = n - 1 /\ n - 1 \in Nat
    <3>1. Cardinality(U) = Cardinality(T) - 1
      BY <2>3, <2>6, FS_RemoveElement
    <3> QED BY <2>2, <2>3, <2>4, <3>1
  <2>8. Ok(U)
    <3>1. n - 1 \notin Bad
      BY <2>1, <2>3
    <3> HIDE DEF Ok, U
    <3> QED BY <2>7, <3>1
  <2>9. PICK g \in [1..(n - 1) -> U] : Up(g, n - 1)
    <3> HIDE DEF U
    <3> QED BY <2>7, <2>8
  <2> DEFINE s == [i \in 1..n |-> IF i = 1 THEN m ELSE g[i - 1]]
  <2>10. \A i \in 1..n : i # 1 => i - 1 \in 1..(n - 1) /\ s[i] = g[i - 1]
    BY <2>3
  <2>11. s \in [1..n -> T]
    BY <2>3, <2>6, <2>9
  <2>12. Up(s, n)
    <3> SUFFICES ASSUME NEW i \in 1..n, NEW j \in 1..n, i < j PROVE key[s[i]] < key[s[j]]
      OBVIOUS
    <3>1. j # 1 /\ j - 1 \in 1..(n - 1) /\ s[j] = g[j - 1] /\ g[j - 1] \in U
      BY <2>3, <2>9, <2>10
    <3>2. CASE i = 1
      <4>1. s[i] = m /\ key[m] <= key[s[j]] /\ key[m] # key[s[j]]
        BY <2>4, <2>6, <3>1, <3>2
      <4>2. key[m] \in Nat /\ key[s[j]] \in Nat
        BY <2>6, <3>1
      <4> HIDE DEF s
      <4> QED BY <4>1, <4>2
    <3>3. CASE i # 1
      <4>1. i - 1 \in 1..(n - 1) /\ s[i] = g[i - 1] /\ i - 1 < j - 1
        BY <2>3, <2>10, <3>3
      <4> HIDE DEF s
      <4> QED BY <2>9, <3>1, <4>1
    <3> QED BY <3>2, <3>3
  <2> QED
    <3> HIDE DEF s, Up
    <3> QED BY <2>2, <2>11, <2>12
<1>2. S \in SUBSET S /\ Cardinality(S) \in Nat
  BY FS_CardinalityType
<1>3. Ok(S)
  <2> HIDE DEF Ok
  <2> QED BY <1>1, <1>2
<1> QED BY <1>3

(* A sequence of the elements of a set that does not repeat any has all.   *)
LEMMA NoneMissing ==
  ASSUME NEW S, IsFiniteSet(S), NEW s \in [1..Cardinality(S) -> S],
         \A i, j \in 1..Cardinality(S) : s[i] = s[j] => i = j
  PROVE  \A x \in S : \E i \in 1..Cardinality(S) : s[i] = x
<1> DEFINE n == Cardinality(S)
<1>1. n \in Nat
  BY FS_CardinalityType
<1>2. s \in Injection(1..n, S)
  BY DEF Injection, IsInjective
<1>3. Cardinality(1..n) = n
  BY <1>1, FS_Interval
<1>4. s \in Surjection(1..n, S)
  BY <1>2, <1>3, FS_Injection
<1> QED BY <1>4 DEF Surjection

-----------------------------------------------------------------------------
(* The table of telemetry.                                                 *)

Rows == [sim : Sims, tick : Nat, run : Nat]

(* The rows of an interval, the append that finds it over included.        *)
Cycle == Interval + 1

(* The counters and the table are in their domains.                        *)
StoreTypes ==
  /\ table \in Seq(Rows)
  /\ snapshot \in Rows \cup {None}
  /\ pc \in {"schema", "down", "idle", "insert", "maintain", "prune"}
  /\ pc = "insert" => snapshot \in Rows
  /\ run \in Nat
  /\ due \in BOOLEAN
  /\ stats \in Nat
  /\ age \in Nat
  /\ setbacks \in Nat

(* What was appended since the last maintenance, and when one is near.     *)
AgeInv ==
  /\ pc \in {"schema", "down", "idle", "insert"} => age <= Interval
  /\ pc = "insert" => age < Interval \/ due
  /\ pc = "maintain" => age <= Cycle /\ (~due => age <= Interval)
  /\ pc = "prune" => age = 0 /\ stats = Len(table)

(* The rows beyond the cap are of this interval or of a setback.           *)
SizeInv ==
  /\ pc # "prune" => Len(table) <= MaxRows + Cycle * setbacks + age
  /\ pc = "prune" => Len(table) <= MaxRows + Cycle * setbacks + Cycle

IInv == StoreTypes /\ AgeInv /\ SizeInv

(* The facts about the options that proofs use.                            *)
LEMMA Options ==
  /\ MaxRows \in Nat \ {0} /\ PruneBatch \in Nat \ {0} /\ Interval \in Nat
  /\ Interval < PruneBatch
  /\ MaxAttempts \in Nat \ {0} /\ MaxTick \in Nat
  /\ MaxRuns \in Nat \ {0} /\ MaxSetbacks \in Nat
  /\ None \notin [sim : Sims, tick : Nat, run : Nat]
BY StoreAssumption DEF TelemetryStoreOptions

(* A setback accounts for the rows of one more interval.                   *)
LEMMA OneMore ==
  /\ Cycle \in Nat
  /\ \A k \in Nat : Cycle * k \in Nat /\ Cycle * (k + 1) = Cycle * k + Cycle
BY Options DEF Cycle

(* The daemon first starts in the invariant.                               *)
LEMMA InitIInv == Init => IInv
BY Options, OneMore DEF Init, IInv, StoreTypes, AgeInv, SizeInv

(* An insert adds at most a row, and the age counts it.                    *)
LEMMA InsertIInv == IInv /\ Insert => IInv'
<1> SUFFICES ASSUME IInv, Insert PROVE IInv'
  OBVIOUS
<1> USE DEF IInv, StoreTypes, Insert
<1>1. table' \in Seq(Rows) /\ Len(table') <= Len(table) + 1
  <2>1. snapshot \in Rows
    OBVIOUS
  <2>2. Append(table, snapshot) \in Seq(Rows) /\ Len(Append(table, snapshot)) = Len(table) + 1
    BY <2>1
  <2>3. Len(table) \in Nat
    OBVIOUS
  <2> QED BY <2>2, <2>3
<1>2. StoreTypes' /\ AgeInv'
  <2>1. StoreTypes'
    BY <1>1
  <2>2. /\ pc = "insert" /\ pc' = "maintain" /\ age' = age + 1 /\ due' = due
        /\ age \in Nat /\ age <= Interval
        /\ age = Interval => due
    BY DEF AgeInv
  <2>3. AgeInv'
    BY <2>2, Options DEF AgeInv, Cycle
  <2> QED BY <2>1, <2>3
<1>3. SizeInv'
  <2>1. Cycle * setbacks \in Nat /\ Len(table) \in Nat /\ Len(table') \in Nat
    BY <1>1, OneMore
  <2> QED BY <1>1, <2>1, Options DEF SizeInv
<1> QED BY <1>2, <1>3

(* Pruning deletes what is beyond the cap, or a batch, which is more than  *)
(* an interval has appended.                                               *)
LEMMA PruneIInv == IInv /\ PruneIfNeeded => IInv'
<1> SUFFICES ASSUME IInv, PruneIfNeeded PROVE IInv'
  OBVIOUS
<1> USE DEF IInv, StoreTypes, PruneIfNeeded
<1>1. /\ Cycle \in Nat /\ Cycle <= PruneBatch /\ PruneBatch \in Nat /\ MaxRows \in Nat
      /\ Cycle * setbacks \in Nat
  BY OneMore, Options DEF Cycle
<1>2. /\ table' \in Seq(Rows)
      /\ Len(table') <= MaxRows + Cycle * setbacks
  <2>1. CASE stats > MaxRows
    <3>1. stats = Len(table) /\ Len(table) <= MaxRows + Cycle * setbacks + Cycle
      BY DEF AgeInv, SizeInv
    <3>2. ToDelete \in 1..Len(table) /\ Len(table) - ToDelete <= MaxRows + Cycle * setbacks
      <4> DEFINE over == Cycle * setbacks
      <4>1. over \in Nat /\ Len(table) <= MaxRows + over + Cycle
        BY <1>1, <3>1
      <4> HIDE DEF over
      <4>2. /\ Cycle \in Nat /\ Cycle <= PruneBatch /\ PruneBatch \in Nat \ {0}
            /\ MaxRows \in Nat /\ stats \in Nat /\ stats > MaxRows
        BY <1>1, <2>1, Options
      <4>3. ToDelete \in 1..stats /\ stats - ToDelete <= MaxRows + over
        <5> HIDE DEF IInv, StoreTypes, PruneIfNeeded
        <5>1. CASE stats - MaxRows < PruneBatch
          BY <4>1, <4>2, <5>1 DEF ToDelete
        <5>2. CASE ~(stats - MaxRows < PruneBatch)
          BY <3>1, <4>1, <4>2, <5>2 DEF ToDelete
        <5> QED BY <5>1, <5>2
      <4> QED BY <3>1, <4>3 DEF over
    <3>3. table' = SubSeq(table, ToDelete + 1, Len(table))
      BY <2>1
    <3>4. table' \in Seq(Rows) /\ Len(table') = Len(table) - ToDelete
      BY <3>2, <3>3
    <3> QED BY <3>2, <3>4
  <2>2. CASE ~(stats > MaxRows)
    BY <2>2, <1>1 DEF AgeInv
  <2> QED BY <2>1, <2>2
<1>3. StoreTypes' /\ AgeInv'
  BY <1>2, Options DEF AgeInv
<1>4. SizeInv'
  BY <1>1, <1>2 DEF SizeInv, AgeInv
<1> QED BY <1>3, <1>4

(* The other steps leave the table alone: where the age is forgotten, it   *)
(* is counted by maintenance or becomes a setback.                         *)
LEMMA QuietIInv ==
  ASSUME IInv, UNCHANGED table,
         \/ SchemaReady \/ SchemaFails
         \/ \E s \in Sims, n \in 1..MaxTick : AppendAsync(s, n)
         \/ InsertFails \/ AnswerLost \/ NotDue \/ GetStats \/ MaintenanceFails
         \/ BecomesDue \/ Crash \/ Start
  PROVE  IInv'
<1> USE Options DEF IInv, StoreTypes, AgeInv, Cycle
<1>1. SizeInv'
  <2> DEFINE over == Cycle * setbacks
  <2>1. /\ over \in Nat /\ Cycle \in Nat /\ Len(table) \in Nat
        /\ Cycle * (setbacks + 1) = over + Cycle
    BY OneMore
  <2>2. (setbacks' = setbacks => Cycle * setbacks' = over)
        /\ (setbacks' = setbacks + 1 => Cycle * setbacks' = over + Cycle)
    BY <2>1
  <2>3. /\ pc # "prune" => Len(table) <= MaxRows + over + age
        /\ pc = "prune" => Len(table) <= MaxRows + over + Cycle
    BY DEF SizeInv
  <2> HIDE DEF over
  <2> USE <2>1, <2>2, <2>3 DEF SizeInv, Setback, SetbackIfDue
  <2>4. CASE SchemaReady \/ SchemaFails BY <2>4 DEF SchemaReady, SchemaFails
  <2>5. CASE \E s \in Sims, n \in 1..MaxTick : AppendAsync(s, n)
    BY <2>5 DEF AppendAsync
  <2>6. CASE InsertFails \/ AnswerLost BY <2>6 DEF InsertFails, AnswerLost
  <2>7. CASE NotDue \/ GetStats BY <2>7 DEF NotDue, GetStats
  <2>8. CASE MaintenanceFails BY <2>8 DEF MaintenanceFails
  <2>9. CASE BecomesDue \/ Start BY <2>9 DEF BecomesDue, Start
  <2>10. CASE Crash BY <2>10 DEF Crash
  <2> QED BY <2>4, <2>5, <2>6, <2>7, <2>8, <2>9, <2>10
<1>2. StoreTypes' /\ AgeInv'
  <2> USE DEF Setback, SetbackIfDue
  <2>1. CASE SchemaReady \/ SchemaFails BY <2>1 DEF SchemaReady, SchemaFails
  <2>2. CASE \E s \in Sims, n \in 1..MaxTick : AppendAsync(s, n)
    BY <2>2 DEF AppendAsync, Rows
  <2>3. CASE InsertFails \/ AnswerLost BY <2>3 DEF InsertFails, AnswerLost
  <2>4. CASE NotDue BY <2>4 DEF NotDue
  <2>5. CASE GetStats
    <3>1. Len(table) \in Nat /\ stats' = Len(table')
      BY <2>5 DEF GetStats
    <3> QED BY <2>5, <3>1 DEF GetStats
  <2>51. CASE MaintenanceFails BY <2>51 DEF MaintenanceFails
  <2>6. CASE BecomesDue BY <2>6 DEF BecomesDue
  <2>7. CASE Start BY <2>7 DEF Start
  <2>8. CASE Crash BY <2>8 DEF Crash
  <2> QED BY <2>1, <2>2, <2>3, <2>4, <2>5, <2>51, <2>6, <2>7, <2>8
<1> QED BY <1>1, <1>2

(* Every step keeps the invariant.                                         *)
LEMMA StepIInv == IInv /\ [Next]_vars => IInv'
<1> SUFFICES ASSUME IInv, [Next]_vars PROVE IInv'
  OBVIOUS
<1>1. CASE UNCHANGED vars
  BY <1>1 DEF vars, IInv, StoreTypes, AgeInv, SizeInv
<1>2. CASE Insert BY <1>2, InsertIInv
<1>3. CASE PruneIfNeeded BY <1>3, PruneIInv
<1>4. CASE \/ SchemaReady \/ SchemaFails
           \/ \E s \in Sims, n \in 1..MaxTick : AppendAsync(s, n)
           \/ InsertFails \/ AnswerLost \/ NotDue \/ GetStats \/ MaintenanceFails
           \/ BecomesDue \/ Crash \/ Start
  <2>1. UNCHANGED table
    BY <1>4 DEF SchemaReady, SchemaFails, AppendAsync, InsertFails, AnswerLost, NotDue,
                GetStats, MaintenanceFails, BecomesDue, Crash, Start
  <2> QED BY <1>4, <2>1, QuietIInv
<1> QED BY <1>1, <1>2, <1>3, <1>4 DEF Next

(* The invariant holds of every run of the daemon.                         *)
THEOREM Invariant == Spec => []IInv
BY InitIInv, StepIInv, PTL DEF Spec

(* The table does not outgrow its cap by more than the appends between two *)
(* maintenances that are completed.                                        *)
THEOREM TableBounded == Spec => []RowsBounded
<1>1. IInv => RowsBounded
  <2> SUFFICES ASSUME IInv PROVE RowsBounded
    OBVIOUS
  <2> DEFINE over == Cycle * setbacks
  <2>1. over \in Nat /\ Cycle = Interval + 1 /\ Interval \in Nat /\ MaxRows \in Nat
    BY OneMore, Options DEF IInv, StoreTypes, Cycle
  <2>2. over = (Interval + 1) * setbacks
    BY DEF Cycle
  <2>3. /\ pc # "prune" => Len(table) <= MaxRows + over + age
        /\ pc = "prune" => Len(table) <= MaxRows + over + Cycle
        /\ Len(table) \in Nat /\ age \in Nat
        /\ pc # "prune" => age <= Cycle
    BY <2>1 DEF IInv, SizeInv, StoreTypes, AgeInv
  <2> HIDE DEF over
  <2>4. Len(table) <= MaxRows + over + Interval + 1
    BY <2>1, <2>3
  <2> QED BY <2>2, <2>4, <2>1 DEF RowsBounded
<1> QED BY <1>1, Invariant, PTL

(* Of a simulation and a tick there is one row.                            *)
KeyInv == \A i, j \in DOMAIN table : SameKey(table[i], table[j]) => i = j

(* Rows are of this run or an earlier one, and none of this run is beyond  *)
(* the tick that was published last.                                       *)
RunInv ==
  /\ last \in [Sims -> Nat]
  /\ \A i \in DOMAIN table :
       /\ table[i].run <= run
       /\ table[i].run = run => table[i].tick <= last[table[i].sim]

(* The snapshot of the append, which becomes the newest row.               *)
TailInv ==
  /\ pc \in {"schema", "down"} => snapshot = None
  /\ snapshot # None => snapshot.run = run /\ snapshot.tick = last[snapshot.sim]
  /\ pc \in {"idle", "maintain", "prune"} /\ snapshot # None /\ ~discarded =>
       table # <<>> /\ table[Len(table)] = snapshot

ServeInv == KeyInv /\ RunInv /\ TailInv

(* Before the first append there is no row to serve.                       *)
LEMMA InitServe == Init => ServeInv
BY DEF Init, ServeInv, KeyInv, RunInv, TailInv

(* An insert puts the snapshot last, unless its key is taken.              *)
LEMMA InsertServe == IInv /\ ServeInv /\ Insert => ServeInv'
<1> SUFFICES ASSUME IInv, ServeInv, Insert PROVE ServeInv'
  OBVIOUS
<1> USE DEF IInv, StoreTypes, ServeInv, Insert
<1>0. /\ table \in Seq(Rows) /\ snapshot \in Rows /\ snapshot # None
      /\ UNCHANGED <<run, last, snapshot>>
  BY Options DEF Rows
<1>1. CASE Stored(snapshot)
  BY <1>0, <1>1 DEF KeyInv, RunInv, TailInv, SameKey
<1>2. CASE ~Stored(snapshot)
  <2> DEFINE L == Len(table)
  <2>1. /\ table' = Append(table, snapshot) /\ L \in Nat
        /\ DOMAIN table' = 1..(L + 1) /\ DOMAIN table = 1..L /\ Len(table') = L + 1
        /\ \A i \in 1..L : table'[i] = table[i]
        /\ table'[L + 1] = snapshot
    BY <1>0, <1>2
  <2> HIDE DEF L
  <2>2. \A i \in 1..L : ~SameKey(table[i], snapshot) /\ ~SameKey(snapshot, table[i])
    BY <1>2, <2>1 DEF Stored, SameKey
  <2>3. KeyInv'
    <3> SUFFICES ASSUME NEW i \in 1..(L + 1), NEW j \in 1..(L + 1),
                        SameKey(table'[i], table'[j])
                 PROVE  i = j
      BY <2>1 DEF KeyInv, SameKey
    <3>1. CASE i \in 1..L /\ j \in 1..L
      BY <2>1, <3>1 DEF KeyInv
    <3>2. CASE ~(i \in 1..L /\ j \in 1..L)
      <4>1. i = L + 1 \/ j = L + 1
        BY <2>1, <3>2
      <4>2. ~(i = L + 1 /\ j \in 1..L) /\ ~(j = L + 1 /\ i \in 1..L)
        BY <2>1, <2>2
      <4> QED BY <2>1, <4>1, <4>2
    <3> QED BY <3>1, <3>2
  <2>4. RunInv'
    <3> SUFFICES ASSUME NEW i \in 1..(L + 1)
                 PROVE  /\ table'[i].run <= run
                        /\ table'[i].run = run => table'[i].tick <= last[table'[i].sim]
      BY <1>0, <2>1 DEF RunInv
    <3>1. CASE i \in 1..L
      BY <2>1, <3>1 DEF RunInv
    <3>2. CASE i = L + 1
      <4>1. snapshot.run = run /\ snapshot.tick = last[snapshot.sim]
            /\ snapshot.tick \in Nat /\ run \in Nat
        BY <1>0 DEF TailInv, Rows
      <4> QED BY <2>1, <3>2, <4>1
    <3> QED BY <2>1, <3>1, <3>2
  <2>5. TailInv'
    BY <1>0, <2>1 DEF TailInv
  <2> QED BY <2>3, <2>4, <2>5
<1> QED BY <1>1, <1>2

(* Pruning keeps the last row: it deletes fewer rows than there are.       *)
LEMMA PruneServe == IInv /\ ServeInv /\ PruneIfNeeded => ServeInv'
<1> SUFFICES ASSUME IInv, ServeInv, PruneIfNeeded PROVE ServeInv'
  OBVIOUS
<1> USE DEF IInv, StoreTypes, ServeInv, PruneIfNeeded
<1>1. CASE ~(stats > MaxRows)
  BY <1>1 DEF KeyInv, RunInv, TailInv, SameKey
<1>2. CASE stats > MaxRows
  <2> DEFINE L == Len(table)
             d == ToDelete
  <2>1. L \in Nat /\ d \in 1..(L - 1)
    <3>1. stats = L /\ L \in Nat /\ MaxRows \in Nat \ {0} /\ PruneBatch \in Nat \ {0}
      BY Options DEF AgeInv
    <3>2. CASE stats - MaxRows < PruneBatch
      BY <1>2, <3>1, <3>2 DEF ToDelete
    <3>3. CASE ~(stats - MaxRows < PruneBatch)
      BY <1>2, <3>1, <3>3 DEF ToDelete
    <3> QED BY <3>2, <3>3
  <2>2. table' = SubSeq(table, d + 1, L)
    BY <1>2
  <2> HIDE DEF d
  <2>3. /\ DOMAIN table = 1..L /\ DOMAIN table' = 1..(L - d) /\ Len(table') = L - d
        /\ \A i \in 1..(L - d) : table'[i] = table[i + d] /\ i + d \in 1..L
    <3>1. table \in Seq(Rows) /\ d \in Nat /\ d + 1 \in 1..L
      BY <2>1
    <3>2. DOMAIN table = 1..L
      BY <3>1
    <3>3. Len(SubSeq(table, d + 1, L)) = L - d
      BY <2>1, <3>1
    <3>4. DOMAIN SubSeq(table, d + 1, L) = 1..(L - d)
      BY <2>1, <3>1, <3>3
    <3>5. ASSUME NEW i \in 1..(L - d)
          PROVE  SubSeq(table, d + 1, L)[i] = table[i + d] /\ i + d \in 1..L
      BY <2>1, <3>1
    <3> QED BY <2>2, <3>2, <3>3, <3>4, <3>5
  <2> HIDE DEF L
  <2> HIDE DEF IInv, StoreTypes, ServeInv, PruneIfNeeded
  <2>4. KeyInv'
    <3> SUFFICES ASSUME NEW i \in 1..(L - d), NEW j \in 1..(L - d),
                        SameKey(table'[i], table'[j])
                 PROVE  i = j
      BY <2>3 DEF KeyInv, SameKey
    <3>1. SameKey(table[i + d], table[j + d])
      BY <2>3 DEF SameKey
    <3>2. i + d = j + d
      BY <2>3, <3>1 DEF ServeInv, KeyInv
    <3> QED BY <2>1, <3>2
  <2>5. RunInv'
    <3>1. UNCHANGED <<run, last>> /\ RunInv
      BY DEF ServeInv, PruneIfNeeded
    <3>2. \A i \in 1..(L - d) : i + d \in DOMAIN table
      BY <2>3
    <3> QED BY <2>3, <3>1, <3>2 DEF RunInv
  <2>6. table' # <<>> /\ table'[Len(table')] = table[L]
    <3>1. L - d \in 1..(L - d) /\ (L - d) + d = L
      BY <2>1
    <3>2. table'[L - d] = table[(L - d) + d]
      BY <2>3, <3>1
    <3>3. table' # <<>>
      BY <2>3, <3>1
    <3> QED BY <2>3, <3>1, <3>2, <3>3
  <2> USE DEF IInv, StoreTypes, ServeInv, PruneIfNeeded
  <2>7. TailInv'
    BY <2>6 DEF TailInv, L
  <2> QED BY <2>4, <2>5, <2>7
<1> QED BY <1>1, <1>2

(* An append begins with a tick that is later than any of this run.        *)
LEMMA AppendServe ==
  ASSUME IInv, ServeInv, NEW s \in Sims, NEW n \in 1..MaxTick, AppendAsync(s, n)
  PROVE  ServeInv'
<1> USE DEF IInv, StoreTypes, ServeInv, AppendAsync
<1>1. n \in Nat /\ table \in Seq(Rows) /\ last' = [last EXCEPT ![s] = n]
  BY Options
<1>2. KeyInv'
  BY DEF KeyInv, SameKey
<1>3. RunInv'
  <2> SUFFICES ASSUME NEW i \in DOMAIN table, table[i].run = run
               PROVE  table[i].tick <= last'[table[i].sim]
    BY <1>1 DEF RunInv
  <2>1. table[i] \in Rows
    BY <1>1
  <2>2. table[i].tick \in Nat /\ table[i].sim \in Sims
    BY <2>1 DEF Rows
  <2>3. table[i].tick <= last[table[i].sim] /\ last[table[i].sim] \in Nat
    BY <2>2 DEF RunInv
  <2> QED BY <1>1, <2>2, <2>3 DEF RunInv
<1>4. TailInv'
  BY <1>1 DEF TailInv, RunInv
<1> QED BY <1>2, <1>3, <1>4

(* A start makes every row one of an earlier run.                          *)
LEMMA StartServe == IInv /\ ServeInv /\ Start => ServeInv'
<1> SUFFICES ASSUME IInv, ServeInv, Start PROVE ServeInv'
  OBVIOUS
<1> USE DEF IInv, StoreTypes, ServeInv, Start
<1>1. KeyInv'
  BY DEF KeyInv, SameKey
<1>2. RunInv'
  <2> SUFFICES ASSUME NEW i \in DOMAIN table
               PROVE  table[i].run <= run + 1 /\ table[i].run # run + 1
    BY DEF RunInv
  <2>1. table[i] \in Rows
    OBVIOUS
  <2>2. table[i].run \in Nat /\ table[i].run <= run
    BY <2>1 DEF Rows, RunInv
  <2> QED BY <2>2
<1>3. TailInv'
  BY DEF TailInv
<1> QED BY <1>1, <1>2, <1>3

(* Every step keeps it.                                                    *)
LEMMA StepServe == IInv /\ ServeInv /\ [Next]_vars => ServeInv'
<1> SUFFICES ASSUME IInv, ServeInv, [Next]_vars PROVE ServeInv'
  OBVIOUS
<1>1. CASE Insert BY <1>1, InsertServe
<1>2. CASE PruneIfNeeded BY <1>2, PruneServe
<1>3. CASE \E s \in Sims, n \in 1..MaxTick : AppendAsync(s, n) BY <1>3, AppendServe
<1>4. CASE Start BY <1>4, StartServe
<1>5. CASE \/ SchemaReady \/ SchemaFails \/ InsertFails \/ AnswerLost
           \/ NotDue \/ GetStats \/ MaintenanceFails \/ BecomesDue \/ Crash
           \/ UNCHANGED vars
  <2>1. /\ UNCHANGED <<table, run, last, discarded>>
        /\ \/ snapshot' = None
           \/ UNCHANGED snapshot /\ pc \in {"schema", "down"}
           \/ UNCHANGED <<snapshot, pc>>
           \/ /\ UNCHANGED snapshot
              /\ pc \in {"maintain", "prune"} /\ pc' \in {"idle", "prune"}
    BY <1>5 DEF SchemaReady, SchemaFails, InsertFails, AnswerLost, NotDue, GetStats,
                MaintenanceFails, BecomesDue, Crash, vars
  <2>2. KeyInv' /\ RunInv'
    BY <2>1 DEF ServeInv, KeyInv, RunInv, SameKey
  <2>3. TailInv'
    BY <2>1 DEF ServeInv, TailInv
  <2> QED BY <2>2, <2>3 DEF ServeInv
<1> QED BY <1>1, <1>2, <1>3, <1>4, <1>5 DEF Next

(* The rows of the snapshot's simulation: it is the one with the highest   *)
(* tick, and no two have the same.                                         *)
LEMMA LatestRow ==
  ASSUME IInv, ServeInv, Unshadowed
  PROVE  LET rows == {m \in ToSet(table) : m.sim = snapshot.sim} IN
         /\ IsFiniteSet(rows) /\ snapshot \in rows
         /\ \A m \in rows : m.tick \in Nat /\ m.tick <= snapshot.tick
         /\ \A m, o \in rows : m.tick = o.tick => m = o
<1> USE DEF IInv, StoreTypes, ServeInv, Unshadowed
<1> DEFINE rows == {m \in ToSet(table) : m.sim = snapshot.sim}
<1>1. snapshot \in Rows /\ table \in Seq(Rows) /\ run \in Nat
  OBVIOUS
<1>2. /\ table # <<>> /\ table[Len(table)] = snapshot
      /\ snapshot.run = run /\ snapshot.tick = last[snapshot.sim]
  BY DEF TailInv
<1>3. ToSet(table) = {table[i] : i \in DOMAIN table} /\ Len(table) \in DOMAIN table
  BY <1>1, <1>2 DEF ToSet
<1>4. IsFiniteSet(rows)
  <2>1. DOMAIN table = 1..Len(table) /\ Len(table) \in Nat
    BY <1>1
  <2>2. IsFiniteSet(DOMAIN table)
    BY <2>1, FS_Interval
  <2>3. table \in Surjection(DOMAIN table, ToSet(table))
    BY <1>1, <1>3 DEF Surjection
  <2>4. IsFiniteSet(ToSet(table))
    BY <2>2, <2>3, FS_Surjection
  <2> QED BY <2>4, FS_Subset
<1>5. ASSUME NEW m \in rows
      PROVE  m.tick \in Nat /\ m.tick <= snapshot.tick
  <2>1. PICK i \in DOMAIN table : table[i] = m
    BY <1>3, <1>5
  <2>2. m \in Rows /\ m.sim = snapshot.sim
    BY <1>1, <1>5, <2>1
  <2>3. m.run \in Nat /\ m.tick \in Nat /\ snapshot.tick \in Nat
    BY <1>1, <2>2 DEF Rows
  <2>4. m.run <= run /\ (m.run = run => m.tick <= snapshot.tick)
    BY <1>2, <2>1, <2>2 DEF RunInv
  <2>5. ~(m.run < run /\ m.tick > snapshot.tick)
    BY <1>2, <2>1, <2>2 DEF Shadowed
  <2> QED BY <1>1, <2>3, <2>4, <2>5
<1>6. \A m, o \in rows : m.tick = o.tick => m = o
  BY <1>3 DEF KeyInv, SameKey
<1> QED BY <1>2, <1>3, <1>4, <1>5, <1>6

(* The highest tick is the first of the rows in order.                     *)
LEMMA LatestIsFirst ==
  ASSUME IInv, ServeInv, Unshadowed, NEW take \in 1..MaxRows
  PROVE  Head(GetRecent(snapshot.sim, take)) = snapshot
<1> DEFINE rows == {m \in ToSet(table) : m.sim = snapshot.sim}
           n == Cardinality(rows)
           Down(f) == \A i, j \in DOMAIN f : i < j => f[i].tick > f[j].tick
           byTick == CHOOSE r \in [1..n -> rows] : Down(r)
           key == [m \in rows |-> m.tick]
<1>1. /\ IsFiniteSet(rows) /\ snapshot \in rows
      /\ \A m \in rows : m.tick \in Nat /\ m.tick <= snapshot.tick
      /\ \A m, o \in rows : m.tick = o.tick => m = o
  BY LatestRow
<1>2. GetRecent(snapshot.sim, take)
        = SubSeq(byTick, 1, IF take < Len(byTick) THEN take ELSE Len(byTick))
  BY DEF GetRecent
<1>3. take \in Nat \ {0}
  BY Options
<1> HIDE DEF rows
<1>4. n \in Nat \ {0}
  BY <1>1, FS_CardinalityType, FS_EmptySet
<1>5. \E r \in [1..n -> rows] : Down(r)
  <2>1. \A m \in rows : key[m] = m.tick
    OBVIOUS
  <2>2. PICK up \in [1..n -> rows] : \A i, j \in 1..n : i < j => key[up[i]] < key[up[j]]
    <3>1. \A m \in rows : key[m] \in Nat
      BY <1>1
    <3>2. \A m, o \in rows : key[m] = key[o] => m = o
      BY <1>1
    <3> HIDE DEF key
    <3> QED BY <1>1, <3>1, <3>2, Sortable
  <2> HIDE DEF n, key
  <2> DEFINE down == [i \in 1..n |-> up[n + 1 - i]]
  <2>3. \A i \in 1..n : n + 1 - i \in 1..n
    BY <1>4
  <2>4. down \in [1..n -> rows] /\ DOMAIN down = 1..n
    BY <2>3
  <2>5. ASSUME NEW i \in 1..n, NEW j \in 1..n, i < j
        PROVE  down[i].tick > down[j].tick
    <3>1. n + 1 - j < n + 1 - i
      BY <1>4, <2>5
    <3>2. up[n + 1 - j].tick < up[n + 1 - i].tick
      BY <2>1, <2>2, <2>3, <3>1
    <3>3. up[n + 1 - j].tick \in Nat /\ up[n + 1 - i].tick \in Nat
      BY <1>1, <2>2, <2>3
    <3> QED BY <3>2, <3>3
  <2> HIDE DEF down
  <2> QED BY <2>4, <2>5
<1>6. byTick \in [1..n -> rows] /\ Down(byTick)
  <2> HIDE DEF n, Down
  <2> QED BY <1>5
<1> HIDE DEF byTick, n
<1>7. byTick \in Seq(rows) /\ Len(byTick) = n
  BY <1>4, <1>6
<1>8. PICK i \in 1..n : byTick[i] = snapshot
  <2>1. \A i, j \in 1..n : byTick[i] = byTick[j] => i = j
    <3> SUFFICES ASSUME NEW i \in 1..n, NEW j \in 1..n, byTick[i] = byTick[j], i < j
                 PROVE  FALSE
      <4>1. \A i, j \in 1..n : i = j \/ i < j \/ j < i
        BY <1>4
      <4> QED BY <4>1
    <3>1. byTick[i].tick > byTick[j].tick /\ byTick[i].tick \in Nat
      BY <1>1, <1>6
    <3> QED BY <3>1
  <2> QED BY <1>1, <1>6, <2>1, NoneMissing DEF n
<1>9. i = 1
  <2>1. ASSUME 1 < i PROVE FALSE
    <3>1. byTick[1].tick > snapshot.tick /\ byTick[1] \in rows
      BY <1>4, <1>6, <1>8, <2>1
    <3> QED BY <1>1, <3>1
  <2> QED BY <1>4, <2>1
<1>10. \A k \in 1..n : Head(SubSeq(byTick, 1, k)) = byTick[1]
  BY <1>7
<1> QED BY <1>2, <1>3, <1>4, <1>7, <1>8, <1>9, <1>10

(* What was appended is what is served as the latest, and as the first of  *)
(* the recent ones, whatever failed and was pruned since, and however many *)
(* other simulations store theirs, unless an earlier run left a row with   *)
(* its tick or a higher one (GetLatestAsync and GetRecentAsync of          *)
(* PostgresTelemetrySnapshotStore.cs).                                     *)
THEOREM AppendedIsServed == Spec => []LatestServed
<1>1. IInv /\ ServeInv => LatestServed
  <2> SUFFICES ASSUME IInv, ServeInv, Unshadowed
               PROVE  GetLatest(snapshot.sim) = snapshot
    BY LatestIsFirst DEF LatestServed
  <2> DEFINE rows == {m \in ToSet(table) : m.sim = snapshot.sim}
             Best(m) == \A other \in rows : other.tick <= m.tick
  <2>1. /\ snapshot \in rows
        /\ \A m \in rows : m.tick \in Nat /\ m.tick <= snapshot.tick
        /\ \A m, o \in rows : m.tick = o.tick => m = o
    BY LatestRow
  <2>2. GetLatest(snapshot.sim) = CHOOSE m \in rows : Best(m)
    BY <2>1 DEF GetLatest
  <2> HIDE DEF rows
  <2>3. Best(snapshot)
    BY <2>1
  <2>4. \A m \in rows : Best(m) => m = snapshot
    BY <2>1
  <2> QED BY <2>1, <2>2, <2>3, <2>4
<1> QED BY <1>1, Invariant, InitServe, StepServe, PTL DEF Spec

-----------------------------------------------------------------------------
(* The logs in memory, and the page that tails one of them.                *)
Entry == [sim : Sims, seq : Nat \ {0}]
Ascending(es) == \A i, j \in 1..Len(es) : i < j => es[i].seq < es[j].seq

(* The constants of the logs.                                              *)
LEMMA LogConstants ==
  /\ MaxEntries \in Nat \ {0} /\ Take \in Nat \ {0} /\ PageMax \in Nat \ {0}
  /\ Default \in Sims /\ Blank \notin Sims
  /\ Timer \in Refreshers
  /\ IsFiniteSet(Writers)
BY LogAssumption DEF LogAssumption, Refreshers

(* Entries of one log are put in the order of their numbers, all of them.  *)
LEMMA SortedEntries ==
  ASSUME NEW s \in Sims, NEW S \in SUBSET Entry, IsFiniteSet(S), \A e \in S : e.sim = s
  PROVE  /\ Sorted(S) \in Seq(Entry) /\ Len(Sorted(S)) = Cardinality(S)
         /\ Ascending(Sorted(S))
         /\ \A e \in S : \E i \in 1..Len(Sorted(S)) : Sorted(S)[i] = e
         /\ \A i \in 1..Len(Sorted(S)) : Sorted(S)[i] \in S
<1> DEFINE n == Cardinality(S)
           Up(f) == \A i, j \in DOMAIN f : i < j => f[i].seq < f[j].seq
           key == [e \in S |-> e.seq]
<1>1. n = Cardinality(S) /\ n \in Nat
  BY FS_CardinalityType
<1>2. \E f \in [1..n -> S] : Up(f)
  <2>1. \A x \in S : key[x] \in Nat
    BY DEF Entry
  <2>2. \A x, y \in S : key[x] = key[y] => x = y
    BY DEF Entry
  <2>3. PICK f \in [1..n -> S] : \A i, j \in 1..n : i < j => key[f[i]] < key[f[j]]
    <3> HIDE DEF key, n
    <3> QED BY <1>1, <2>1, <2>2, Sortable
  <2> QED BY <2>3
<1>3. PICK f \in [1..n -> S] : Up(f) /\ Sorted(S) = f
  <2> DEFINE c == CHOOSE f \in [1..n -> S] : Up(f)
  <2>1. c \in [1..n -> S] /\ Up(c)
    <3> HIDE DEF Up
    <3> QED BY <1>2
  <2>2. Sorted(S) = c
    BY DEF Sorted
  <2> HIDE DEF c
  <2> QED BY <2>1, <2>2
<1>4. f \in Seq(Entry) /\ Len(f) = n
  BY <1>1
<1>5. \A i, j \in 1..n : f[i] = f[j] => i = j
  <2> SUFFICES ASSUME NEW i \in 1..n, NEW j \in 1..n, f[i] = f[j], i < j PROVE FALSE
    <3>1. \A i, j \in 1..n : i = j \/ i < j \/ j < i
      BY <1>1
    <3> QED BY <3>1
  <2>1. f[i].seq < f[j].seq /\ f[i].seq \in Nat
    BY <1>3, <1>4 DEF Entry
  <2> QED BY <2>1
<1>6. \A e \in S : \E i \in 1..n : f[i] = e
  BY <1>1, <1>5, NoneMissing
<1> QED BY <1>1, <1>3, <1>4, <1>6 DEF Ascending

(* What Get returns of a log: entries after the number asked for, in the   *)
(* order of their numbers, and none is left out before the last of them.   *)
LEMMA Got ==
  ASSUME NEW s \in Sims, NEW log \in Seq(Entry),
         \A i \in DOMAIN log : log[i].sim = s, NEW a \in Nat
  PROVE  LET got == Get(log, a) IN
         /\ got \in Seq(Entry)
         /\ Ascending(got)
         /\ \A i \in 1..Len(got) : got[i].seq > a /\ \E k \in DOMAIN log : got[i] = log[k]
         /\ \A k \in DOMAIN log : log[k].seq > a =>
              /\ Len(got) \in 1..Len(got)
              /\ log[k].seq <= got[Len(got)].seq => \E i \in 1..Len(got) : got[i] = log[k]
<1> DEFINE T == ToSet(log)
           S == {e \in T : e.seq > a}
           got == Get(log, a)
<1>1. T = {log[k] : k \in DOMAIN log}
  BY DEF ToSet
<1>2. S \in SUBSET Entry /\ \A e \in S : e.sim = s
  BY <1>1
<1>3. IsFiniteSet(S)
  <2>1. IsFiniteSet(1..Len(log))
    BY FS_Interval
  <2>2. log \in Surjection(1..Len(log), T)
    BY <1>1 DEF Surjection
  <2>3. IsFiniteSet(T)
    BY <2>1, <2>2, FS_Surjection
  <2> QED BY <2>3, FS_Subset
<1>4. PICK all \in Seq(Entry) :
        /\ all = Sorted(S)
        /\ Ascending(all)
        /\ \A e \in S : \E i \in 1..Len(all) : all[i] = e
        /\ \A i \in 1..Len(all) : all[i] \in S
  <2> HIDE DEF S
  <2> QED BY <1>2, <1>3, SortedEntries
<1> DEFINE n == Len(all)
           m == IF n < Take THEN n ELSE Take
<1>5. n \in Nat /\ m \in 0..n /\ (n # 0 => m # 0)
  BY <1>4, LogConstants
<1>6. got = SubSeq(all, 1, m)
  BY <1>4 DEF Get, FirstOf
<1> HIDE DEF got, m, S
<1>7. got \in Seq(Entry) /\ Len(got) = m /\ \A i \in 1..m : got[i] = all[i]
  <2>1. all \in Seq(Entry) /\ m \in 0..Len(all)
    BY <1>5
  <2> QED BY <1>6, <2>1
<1> HIDE DEF n
<1>8. Ascending(got)
  <2> SUFFICES ASSUME NEW i \in 1..m, NEW j \in 1..m, i < j PROVE got[i].seq < got[j].seq
    BY <1>7 DEF Ascending
  <2>1. i \in 1..n /\ j \in 1..n
    BY <1>5
  <2>2. all[i].seq < all[j].seq
    BY <1>4, <2>1 DEF Ascending, n
  <2> QED BY <1>7, <2>2
<1>9. \A i \in 1..m : got[i] \in S
  BY <1>4, <1>5, <1>7 DEF n
<1>10. ASSUME NEW k \in DOMAIN log, log[k].seq > a
       PROVE  /\ Len(got) \in 1..Len(got)
              /\ log[k].seq <= got[Len(got)].seq => \E i \in 1..Len(got) : got[i] = log[k]
  <2>1. PICK j \in 1..n : all[j] = log[k]
    BY <1>1, <1>4, <1>10 DEF n, S
  <2>2. m \in 1..m
    BY <1>5, <2>1
  <2>3. ASSUME log[k].seq <= got[m].seq PROVE j \in 1..m
    <3>1. ASSUME m < j PROVE FALSE
      <4>1. m \in 1..n /\ got[m] = all[m]
        BY <1>5, <1>7, <2>2
      <4>2. all[m].seq < all[j].seq
        BY <1>4, <2>1, <3>1, <4>1 DEF Ascending, n
      <4>3. all[m] \in Entry /\ all[j] \in Entry
        BY <4>1 DEF n
      <4> QED BY <2>1, <2>3, <4>1, <4>2, <4>3 DEF Entry
    <3> QED BY <1>5, <3>1
  <2> QED BY <1>7, <2>1, <2>2, <2>3
<1>11. \A i \in 1..m : got[i].seq > a /\ \E k \in DOMAIN log : got[i] = log[k]
  BY <1>1, <1>9 DEF S
<1> QED BY <1>7, <1>8, <1>10, <1>11 DEF got

(* The variables of the logs and of the page are in their domains.         *)
LogTypes ==
  /\ seq \in [Sims -> Nat]
  /\ queue \in [Sims -> Seq(Entry)]
  /\ wpc \in [Writers -> {"idle", "enqueue", "count", "dequeue"}]
  /\ mine \in [Writers -> [sim : Sims \cup {Blank}, seq : Nat]]

PageTypes ==
  /\ active \in Sims
  /\ simId \in Sims \cup {Blank}
  /\ after \in Nat
  /\ shown \in Seq(Entry)
  /\ rpc \in [Refreshers -> {"idle", "sent", "answered"}]
  /\ asked \in [Refreshers -> [sim : Sims \cup {Blank}, after : Nat]]
  /\ batch \in [Refreshers -> Seq(Entry)]
  /\ clashed \in BOOLEAN

(* A queue holds entries of its log, and a writer adds one that has been   *)
(* numbered.                                                               *)
NumbersInv ==
  /\ \A s \in Sims : \A i \in 1..Len(queue[s]) :
       queue[s][i].sim = s /\ queue[s][i].seq <= seq[s]
  /\ \A w \in Writers : wpc[w] # "idle" => Log(w) \in Sims
  /\ \A w \in Writers : wpc[w] = "enqueue" => mine[w].seq \in 1..seq[Log(w)]

LogInv == LogTypes /\ PageTypes /\ NumbersInv

(* One entry more, and one less.                                           *)
LEMMA OneEntryMore ==
  ASSUME NEW q \in Seq(Entry), NEW e \in Entry
  PROVE  /\ Append(q, e) \in Seq(Entry) /\ Len(Append(q, e)) = Len(q) + 1 /\ Len(q) \in Nat
         /\ \A i \in 1..Len(q) : Append(q, e)[i] = q[i]
         /\ Append(q, e)[Len(q) + 1] = e
OBVIOUS

LEMMA OneEntryLess ==
  ASSUME NEW q \in Seq(Entry), q # <<>>
  PROVE  /\ Tail(q) \in Seq(Entry) /\ Len(Tail(q)) = Len(q) - 1 /\ Len(q) \in Nat \ {0}
         /\ \A i \in 1..Len(Tail(q)) : i + 1 \in 1..Len(q) /\ Tail(q)[i] = q[i + 1]
OBVIOUS

(* The last entries are a tail of those before.                            *)
LEMMA LastOnes ==
  ASSUME NEW es \in Seq(Entry), NEW n \in Nat \ {0}
  PROVE  LET rest == LastOf(es, n) IN
         /\ rest \in Seq(Entry)
         /\ \E d \in 0..Len(es) :
              /\ Len(rest) = Len(es) - d
              /\ \A i \in 1..Len(rest) : i + d \in 1..Len(es) /\ rest[i] = es[i + d]
<1> DEFINE d == IF Len(es) > n THEN Len(es) - n ELSE 0
<1>1. d \in 0..Len(es) /\ (Len(es) # 0 => d + 1 \in 1..Len(es)) /\ Len(es) \in Nat
  OBVIOUS
<1>2. LastOf(es, n) = SubSeq(es, d + 1, Len(es))
  BY <1>1 DEF LastOf
<1> HIDE DEF d
<1>3. /\ SubSeq(es, d + 1, Len(es)) \in Seq(Entry)
      /\ Len(SubSeq(es, d + 1, Len(es))) = Len(es) - d
      /\ \A i \in 1..(Len(es) - d) :
           i + d \in 1..Len(es) /\ SubSeq(es, d + 1, Len(es))[i] = es[i + d]
  BY <1>1
<1> QED BY <1>1, <1>2, <1>3

(* The logs are empty at first, and nothing is asked for.                  *)
LEMMA InitLog == LogInit => LogInv
<1> SUFFICES ASSUME LogInit PROVE LogInv
  OBVIOUS
<1>1. <<>> \in Seq(Entry) /\ Len(<<>>) = 0
  OBVIOUS
<1>2. LogTypes
  BY <1>1 DEF LogInit, NoEntry, LogTypes
<1>3. PageTypes
  BY <1>1, LogConstants DEF LogInit, NoRequest, PageTypes
<1>4. NumbersInv
  BY <1>1 DEF LogInit, NumbersInv
<1> QED BY <1>2, <1>3, <1>4 DEF LogInv

(* Writers put entries of their log, with numbers given out, into its      *)
(* queue.                                                                  *)
LEMMA AddLog ==
  ASSUME LogInv, NEW w \in Writers, Add(w)
  PROVE  LogInv'
<1> USE DEF choiceVars, pageVars
<1>0. LogTypes /\ PageTypes /\ NumbersInv /\ mine[w] \in [sim : Sims \cup {Blank}, seq : Nat]
  BY DEF LogInv, LogTypes
<1>1. UNCHANGED <<choiceVars, pageVars>>
  BY DEF Add, Number, Enqueue, TrimStep, Count, Dequeue
<1>2. PageTypes'
  BY <1>0, <1>1 DEF PageTypes
<1>3. ASSUME NEW s \in Sims, Number(w, s) PROVE LogTypes' /\ NumbersInv'
  <2>1. /\ seq' = [seq EXCEPT ![s] = seq[s] + 1] /\ queue' = queue
        /\ mine' = [mine EXCEPT ![w] = [sim |-> s, seq |-> seq'[s]]]
        /\ wpc' = [wpc EXCEPT ![w] = "enqueue"]
    BY <1>3 DEF Number
  <2>2. /\ seq[s] \in Nat /\ seq'[s] = seq[s] + 1
        /\ \A t \in Sims : seq[t] \in Nat /\ seq[t] <= seq'[t]
    BY <1>0, <2>1 DEF LogTypes
  <2>3. LogTypes'
    BY <1>0, <2>1, <2>2 DEF LogTypes
  <2>4. ASSUME NEW t \in Sims, NEW i \in 1..Len(queue[t])
        PROVE  queue[t][i].sim = t /\ queue[t][i].seq <= seq'[t]
    <3>1. queue[t][i] \in Entry /\ queue[t][i].seq <= seq[t] /\ queue[t][i].sim = t
      BY <1>0 DEF LogTypes, NumbersInv
    <3>2. queue[t][i].seq \in Nat /\ seq'[t] \in Nat
      BY <2>3, <3>1 DEF Entry, LogTypes
    <3> QED BY <2>2, <3>1, <3>2
  <2>5. ASSUME NEW v \in Writers
        PROVE  /\ wpc'[v] # "idle" => mine'[v].sim \in Sims
               /\ wpc'[v] = "enqueue" => mine'[v].seq \in 1..seq'[mine'[v].sim]
    <3>1. CASE v = w
      BY <1>0, <2>1, <2>2, <3>1 DEF LogTypes
    <3>2. CASE v # w
      <4>1. wpc'[v] = wpc[v] /\ mine'[v] = mine[v]
        BY <1>0, <2>1, <3>2 DEF LogTypes
      <4>2. wpc[v] # "idle" => mine[v].sim \in Sims
        BY <1>0 DEF NumbersInv, Log
      <4>3. wpc[v] = "enqueue" => mine[v].seq \in 1..seq[mine[v].sim]
        BY <1>0 DEF NumbersInv, Log
      <4> QED BY <2>2, <2>3, <4>1, <4>2, <4>3 DEF LogTypes
    <3> QED BY <3>1, <3>2
  <2> QED BY <2>1, <2>3, <2>4, <2>5 DEF NumbersInv, Log
<1>4. ASSUME Enqueue(w) PROVE LogTypes' /\ NumbersInv'
  <2> DEFINE s == mine[w].sim
             e == mine[w]
  <2>1. /\ s \in Sims /\ e.seq \in 1..seq[s] /\ e \in Entry /\ wpc[w] = "enqueue"
    BY <1>0, <1>4 DEF Enqueue, Log, NumbersInv, LogTypes, Entry
  <2>2. /\ queue' = [queue EXCEPT ![s] = Append(queue[s], e)]
        /\ mine' = [mine EXCEPT ![w] = [mine[w] EXCEPT !.seq = 0]]
        /\ wpc' = [wpc EXCEPT ![w] = "count"] /\ seq' = seq
    BY <1>4 DEF Enqueue, Log
  <2>3. /\ [mine[w] EXCEPT !.seq = 0] \in [sim : Sims \cup {Blank}, seq : Nat]
        /\ [mine[w] EXCEPT !.seq = 0].sim = s
    BY <1>0
  <2> HIDE DEF s, e
  <2>4. queue[s] \in Seq(Entry)
    BY <1>0, <2>1 DEF LogTypes
  <2>5. LogTypes'
    BY <1>0, <2>1, <2>2, <2>3, <2>4, OneEntryMore DEF LogTypes
  <2>6. ASSUME NEW t \in Sims, NEW i \in 1..Len(queue'[t])
        PROVE  queue'[t][i].sim = t /\ queue'[t][i].seq <= seq[t]
    <3>1. CASE t = s /\ i = Len(queue[s]) + 1
      BY <1>0, <2>1, <2>2, <2>4, <3>1, OneEntryMore DEF LogTypes, e, s
    <3>2. CASE ~(t = s /\ i = Len(queue[s]) + 1)
      <4>1. i \in 1..Len(queue[t]) /\ queue'[t][i] = queue[t][i]
        BY <1>0, <2>1, <2>2, <2>4, <3>2, OneEntryMore DEF LogTypes
      <4> QED BY <1>0, <4>1 DEF NumbersInv
    <3> QED BY <3>1, <3>2
  <2>7. \A v \in Writers : mine'[v].sim = mine[v].sim /\ (v # w => mine'[v] = mine[v])
    BY <1>0, <2>2, <2>3 DEF LogTypes, s
  <2>8. \A v \in Writers : /\ wpc'[v] # "idle" => wpc[v] # "idle"
                           /\ wpc'[v] = "enqueue" => wpc[v] = "enqueue" /\ v # w
    BY <1>0, <2>1, <2>2 DEF LogTypes
  <2> QED BY <1>0, <2>2, <2>5, <2>6, <2>7, <2>8 DEF NumbersInv, Log
<1>5. ASSUME Count(w) PROVE LogTypes' /\ NumbersInv'
  <2>1. /\ UNCHANGED <<seq, queue>>
        /\ \/ wpc' = [wpc EXCEPT ![w] = "dequeue"] /\ mine' = mine
           \/ wpc' = [wpc EXCEPT ![w] = "idle"] /\ mine' = [mine EXCEPT ![w] = NoEntry]
        /\ wpc[w] = "count"
    BY <1>0, <1>5 DEF Count, Trim, LogTypes
  <2>2. NoEntry \in [sim : Sims \cup {Blank}, seq : Nat]
    BY DEF NoEntry
  <2>3. LogTypes'
    BY <1>0, <2>1, <2>2 DEF LogTypes
  <2>4. \A v \in Writers : /\ wpc'[v] # "idle" => mine'[v] = mine[v] /\ wpc[v] # "idle"
                           /\ wpc'[v] = "enqueue" => wpc[v] = "enqueue"
    BY <1>0, <2>1 DEF LogTypes
  <2> QED BY <1>0, <2>1, <2>3, <2>4 DEF NumbersInv, Log
<1>6. ASSUME Dequeue(w) PROVE LogTypes' /\ NumbersInv'
  <2> DEFINE s == mine[w].sim
  <2>1. s \in Sims /\ wpc[w] = "dequeue" /\ queue[s] \in Seq(Entry)
    BY <1>0, <1>6 DEF Dequeue, NumbersInv, Log, LogTypes
  <2>2. \/ /\ queue[s] # <<>> /\ queue' = [queue EXCEPT ![s] = Tail(queue[s])]
           /\ wpc' = [wpc EXCEPT ![w] = "count"] /\ mine' = mine
        \/ /\ queue' = queue
           /\ wpc' = [wpc EXCEPT ![w] = "idle"] /\ mine' = [mine EXCEPT ![w] = NoEntry]
    BY <1>0, <1>6 DEF Dequeue, Log, LogTypes
  <2>3. seq' = seq /\ NoEntry \in [sim : Sims \cup {Blank}, seq : Nat]
    BY <1>6 DEF Dequeue, NoEntry
  <2> HIDE DEF s
  <2>4. LogTypes'
    <3>1. queue' \in [Sims -> Seq(Entry)]
      <4>1. queue' = queue \/ Tail(queue[s]) \in Seq(Entry)
        BY <2>1, <2>2, OneEntryLess
      <4> QED BY <1>0, <2>1, <2>2, <4>1 DEF LogTypes
    <3>2. /\ wpc' \in [Writers -> {"idle", "enqueue", "count", "dequeue"}]
          /\ mine' \in [Writers -> [sim : Sims \cup {Blank}, seq : Nat]]
      BY <1>0, <2>2, <2>3 DEF LogTypes
    <3> QED BY <1>0, <2>3, <3>1, <3>2 DEF LogTypes
  <2>5. ASSUME NEW t \in Sims, NEW i \in 1..Len(queue'[t])
        PROVE  \E k \in 1..Len(queue[t]) : queue'[t][i] = queue[t][k]
    <3>1. CASE queue'[t] = queue[t]
      BY <3>1
    <3>2. CASE queue'[t] # queue[t]
      <4>1. t = s /\ queue[s] # <<>> /\ queue'[s] = Tail(queue[s])
        BY <1>0, <2>1, <2>2, <3>2 DEF LogTypes
      <4> QED BY <2>1, <4>1, OneEntryLess
    <3> QED BY <3>1, <3>2
  <2>6. \A v \in Writers : /\ wpc'[v] # "idle" => mine'[v] = mine[v] /\ wpc[v] # "idle"
                           /\ wpc'[v] = "enqueue" => wpc[v] = "enqueue"
    BY <1>0, <2>1, <2>2 DEF LogTypes
  <2>7. \A t \in Sims : \A i \in 1..Len(queue'[t]) :
          queue'[t][i].sim = t /\ queue'[t][i].seq <= seq'[t]
    <3>1. \A t \in Sims : \A i \in 1..Len(queue[t]) :
            queue[t][i].sim = t /\ queue[t][i].seq <= seq[t]
      BY <1>0 DEF NumbersInv
    <3> SUFFICES ASSUME NEW t \in Sims, NEW i \in 1..Len(queue'[t])
                 PROVE  queue'[t][i].sim = t /\ queue'[t][i].seq <= seq'[t]
      OBVIOUS
    <3>2. PICK k \in 1..Len(queue[t]) : queue'[t][i] = queue[t][k]
      BY <2>5
    <3> QED BY <2>3, <3>1, <3>2
  <2> QED BY <1>0, <2>3, <2>4, <2>6, <2>7 DEF NumbersInv, Log
<1> QED BY <1>2, <1>3, <1>4, <1>5, <1>6 DEF Add, TrimStep, LogInv

(* What the daemon answers a call of Refresh.                              *)
LEMMA Answered ==
  ASSUME LogInv, NEW r \in Refreshers, Serve(r)
  PROVE  LET s == Target(asked[r].sim)
             a == asked[r].after
             got == Get(queue[s], a)
         IN /\ s \in Sims /\ a \in Nat
            /\ batch' = [batch EXCEPT ![r] = got] /\ batch'[r] = got
            /\ got \in Seq(Entry) /\ Ascending(got)
            /\ \A i \in 1..Len(got) :
                 got[i].seq > a /\ \E k \in 1..Len(queue[s]) : got[i] = queue[s][k]
            /\ \A k \in 1..Len(queue[s]) : queue[s][k].seq > a =>
                 /\ Len(got) \in 1..Len(got)
                 /\ queue[s][k].seq <= got[Len(got)].seq =>
                      \E i \in 1..Len(got) : got[i] = queue[s][k]
<1> DEFINE s == Target(asked[r].sim)
           a == asked[r].after
           got == Get(queue[s], a)
<1>1. s \in Sims /\ a \in Nat
  BY DEF LogInv, PageTypes, Target
<1> HIDE DEF s, a
<1>2. queue[s] \in Seq(Entry) /\ \A i \in DOMAIN queue[s] : queue[s][i].sim = s
  BY <1>1 DEF LogInv, LogTypes, NumbersInv
<1>3. DOMAIN queue[s] = 1..Len(queue[s])
  BY <1>2
<1>4. batch' = [batch EXCEPT ![r] = got] /\ batch'[r] = got
  BY DEF Serve, LogInv, PageTypes, s, a
<1>5. /\ got \in Seq(Entry)
      /\ Ascending(got)
      /\ \A i \in 1..Len(got) : got[i].seq > a /\ \E k \in DOMAIN queue[s] : got[i] = queue[s][k]
      /\ \A k \in DOMAIN queue[s] : queue[s][k].seq > a =>
           /\ Len(got) \in 1..Len(got)
           /\ queue[s][k].seq <= got[Len(got)].seq =>
                \E i \in 1..Len(got) : got[i] = queue[s][k]
  BY <1>1, <1>2, Got
<1> HIDE DEF got
<1> QED BY <1>1, <1>3, <1>4, <1>5 DEF s, a, got

(* The page gets entries, and users choose among the simulations.          *)
LEMMA RefreshLog ==
  ASSUME LogInv, NEW r \in Refreshers, Refresh(r)
  PROVE  LogInv'
<1> USE DEF choiceVars, storeVars
<1>0. LogTypes /\ PageTypes /\ NumbersInv
  BY DEF LogInv
<1>1. UNCHANGED <<active, simId, seq, queue, wpc, mine>>
  BY DEF Refresh, Request, Serve, Apply, Fail
<1>2. LogTypes' /\ NumbersInv'
  BY <1>0, <1>1 DEF LogTypes, NumbersInv, Log
<1>3. /\ NoRequest \in [sim : Sims \cup {Blank}, after : Nat]
      /\ [sim |-> simId, after |-> after] \in [sim : Sims \cup {Blank}, after : Nat]
      /\ <<>> \in Seq(Entry)
  BY <1>0 DEF NoRequest, PageTypes
<1>4. ASSUME Request(r) PROVE PageTypes'
  <2>1. /\ rpc' = [rpc EXCEPT ![r] = "sent"]
        /\ asked' = [asked EXCEPT ![r] = [sim |-> simId, after |-> after]]
        /\ UNCHANGED <<after, shown, batch>>
    BY <1>4 DEF Request
  <2>2. clashed' \in BOOLEAN
    BY <1>4 DEF Request
  <2> QED BY <1>0, <1>1, <1>3, <2>1, <2>2 DEF PageTypes
<1>5. ASSUME Serve(r) PROVE PageTypes'
  <2>1. batch' \in [Refreshers -> Seq(Entry)]
    BY <1>0, <1>5, Answered DEF PageTypes
  <2>2. /\ rpc' = [rpc EXCEPT ![r] = "answered"]
        /\ asked' = [asked EXCEPT ![r] = NoRequest]
        /\ UNCHANGED <<after, shown, clashed>>
    BY <1>5 DEF Serve
  <2> QED BY <1>0, <1>1, <1>3, <2>1, <2>2 DEF PageTypes
<1>6. ASSUME Apply(r) PROVE PageTypes'
  <2>1. /\ batch[r] \in Seq(Entry) /\ shown \o batch[r] \in Seq(Entry)
        /\ batch[r] # <<>> => Last(batch[r]).seq \in Nat
    <3>1. batch[r] \in Seq(Entry) /\ shown \in Seq(Entry)
      BY <1>0 DEF PageTypes
    <3>2. batch[r] # <<>> => Len(batch[r]) \in 1..Len(batch[r])
      BY <3>1
    <3>3. batch[r] # <<>> => batch[r][Len(batch[r])] \in Entry
      BY <3>1, <3>2
    <3> QED BY <3>1, <3>3 DEF Last, Entry
  <2>2. LastOf(shown \o batch[r], PageMax) \in Seq(Entry)
    BY <2>1, LastOnes, LogConstants
  <2>3. after' \in Nat /\ shown' \in Seq(Entry) /\ clashed' = clashed
    BY <1>0, <1>6, <2>1, <2>2 DEF Apply, PageTypes
  <2>4. /\ rpc' = [rpc EXCEPT ![r] = "idle"]
        /\ asked' = [asked EXCEPT ![r] = NoRequest]
        /\ batch' = [batch EXCEPT ![r] = <<>>]
    BY <1>6 DEF Apply, Return
  <2> QED BY <1>0, <1>1, <1>3, <2>3, <2>4 DEF PageTypes
<1>7. ASSUME Fail(r) PROVE PageTypes'
  <2>1. /\ rpc' = [rpc EXCEPT ![r] = "idle"]
        /\ asked' = [asked EXCEPT ![r] = NoRequest]
        /\ batch' = [batch EXCEPT ![r] = <<>>]
        /\ UNCHANGED <<after, shown, clashed>>
    BY <1>7 DEF Fail, Return
  <2> QED BY <1>0, <1>1, <1>3, <2>1 DEF PageTypes
<1> QED BY <1>2, <1>4, <1>5, <1>6, <1>7 DEF Refresh, LogInv

LEMMA ChooseLog == LogInv /\ Choose => LogInv'
<1> SUFFICES ASSUME LogInv, Choose PROVE LogInv'
  OBVIOUS
<1>1. /\ UNCHANGED <<storeVars, pageVars>>
      /\ active' \in {active} \cup Sims /\ simId' \in {simId} \cup Sims \cup {Blank}
  BY DEF Choose, ToggleAuto, TrySetActive, ChooseSim, Choice
<1> QED BY <1>1 DEF storeVars, pageVars, LogInv, LogTypes, PageTypes, NumbersInv,
                    Log

(* Every step keeps the types and the numbers.                             *)
LEMMA StepLog == LogInv /\ [LogNext]_logVars => LogInv'
<1> SUFFICES ASSUME LogInv, [LogNext]_logVars PROVE LogInv'
  OBVIOUS
<1>1. CASE UNCHANGED logVars
  BY <1>1 DEF logVars, storeVars, choiceVars, pageVars, LogInv, LogTypes,
     PageTypes, NumbersInv, Log
<1> QED BY <1>1, AddLog, RefreshLog, ChooseLog DEF LogNext

(* The invariant of the logs and the page.                                 *)
THEOREM LogInvariant == LogSpec => []LogInv
<1>1. LogInit => LogInv
  BY InitLog
<1>2. LogInv /\ [LogNext]_logVars => LogInv'
  BY StepLog
<1> QED BY <1>1, <1>2, PTL DEF LogSpec

-----------------------------------------------------------------------------
(* The length of a queue.                                                  *)

(* The writers that trim a log, and those of them that are to dequeue.     *)
Trimming(s) == {w \in Writers : wpc[w] \in {"count", "dequeue"} /\ Log(w) = s}
Dequeuing(s) == {w \in Writers : wpc[w] = "dequeue" /\ Log(w) = s}

(* A queue is over the limit by no more than those that trim it.  Those    *)
(* that have seen it over the limit take it no further below than their    *)
(* number: what each is still to take is there, or was taken by another.   *)
LengthInv ==
  \A s \in Sims :
    /\ Len(queue[s]) <= MaxEntries + Cardinality(Trimming(s))
    /\ s \in trimmed \/ Dequeuing(s) # {} =>
         Len(queue[s]) + Cardinality(Writers) > MaxEntries + Cardinality(Dequeuing(s))

(* Their numbers are those of sets of writers.                             *)
LEMMA WritersCount ==
  ASSUME NEW S \in SUBSET Writers
  PROVE  /\ IsFiniteSet(S) /\ Cardinality(S) \in Nat /\ Cardinality(Writers) \in Nat
         /\ Cardinality(S) <= Cardinality(Writers)
         /\ \A w \in Writers \ S : Cardinality(S \cup {w}) = Cardinality(S) + 1
         /\ \A w \in S : Cardinality(S \ {w}) = Cardinality(S) - 1
<1>1. IsFiniteSet(Writers)
  BY LogConstants
<1>2. IsFiniteSet(S) /\ Cardinality(S) \in Nat /\ Cardinality(Writers) \in Nat
  BY <1>1, FS_Subset, FS_CardinalityType
<1>3. Cardinality(S) <= Cardinality(Writers)
  BY <1>1, FS_Subset
<1>4. \A w \in Writers \ S : Cardinality(S \cup {w}) = Cardinality(S) + 1
  BY <1>2, FS_AddElement
<1>5. \A w \in S : Cardinality(S \ {w}) = Cardinality(S) - 1
  BY <1>2, FS_RemoveElement
<1> QED BY <1>2, <1>3, <1>4, <1>5

(* The queues are empty, and nobody trims.                                 *)
LEMMA InitLength == LogInit => LengthInv
<1> SUFFICES ASSUME LogInit, NEW s \in Sims
             PROVE  /\ Len(queue[s]) <= MaxEntries + Cardinality(Trimming(s))
                    /\ s \notin trimmed /\ Dequeuing(s) = {}
  BY DEF LengthInv
<1>1. Len(queue[s]) = 0
  BY DEF LogInit
<1>2. Cardinality(Trimming(s)) \in Nat
  BY WritersCount DEF Trimming
<1>3. s \notin trimmed /\ Dequeuing(s) = {}
  BY DEF LogInit, Dequeuing
<1> QED BY <1>1, <1>2, <1>3, LogConstants

(* What a writer does to a log, and to the numbers of those that trim it.  *)
LEMMA AddLength ==
  ASSUME LogInv, LengthInv, NEW w \in Writers, Add(w)
  PROVE  LengthInv'
<1> SUFFICES ASSUME NEW s \in Sims
             PROVE  /\ Len(queue'[s]) <= MaxEntries + Cardinality(Trimming(s)')
                    /\ s \in trimmed' \/ Dequeuing(s)' # {} =>
                         Len(queue'[s]) + Cardinality(Writers)
                           > MaxEntries + Cardinality(Dequeuing(s)')
  BY DEF LengthInv
<1> DEFINE T == Trimming(s)
           D == Dequeuing(s)
           L == Len(queue[s])
<1>0. /\ LogTypes /\ NumbersInv /\ queue[s] \in Seq(Entry) /\ L \in Nat
      /\ MaxEntries \in Nat
      /\ \A v \in Writers : mine[v] \in [sim : Sims \cup {Blank}, seq : Nat]
  BY LogConstants DEF LogInv, LogTypes
<1>1. /\ T \in SUBSET Writers /\ T' \in SUBSET Writers
      /\ D \in SUBSET Writers /\ D' \in SUBSET Writers
  BY DEF Trimming, Dequeuing
<1>2. /\ Cardinality(T) \in Nat /\ Cardinality(D) \in Nat /\ Cardinality(Writers) \in Nat
      /\ Cardinality(T') \in Nat /\ Cardinality(D') \in Nat
      /\ Cardinality(D') <= Cardinality(Writers)
  BY <1>1, WritersCount
<1>3. /\ L <= MaxEntries + Cardinality(T)
      /\ s \in trimmed \/ D # {} => L + Cardinality(Writers) > MaxEntries + Cardinality(D)
  BY DEF LengthInv
<1>4. \A v \in Writers \ {w} : wpc'[v] = wpc[v] /\ mine'[v] = mine[v]
  BY <1>0 DEF LogTypes, Add, Number, Enqueue, TrimStep, Count,
     Trim, Dequeue
<1>5. CASE \E t \in Sims : Number(w, t)
  <2>1. wpc[w] = "idle" /\ wpc'[w] = "enqueue" /\ queue' = queue /\ trimmed' = trimmed
    BY <1>0, <1>5 DEF LogTypes, Number
  <2>2. T' = T /\ D' = D
    BY <1>4, <2>1 DEF Trimming, Dequeuing, Log
  <2> QED BY <1>3, <2>1, <2>2
<1>6. CASE Enqueue(w)
  <2> DEFINE own == mine[w].sim
  <2>1. /\ wpc[w] = "enqueue" /\ wpc'[w] = "count" /\ mine'[w].sim = own
        /\ own \in Sims /\ mine[w] \in Entry /\ trimmed' = trimmed
        /\ queue' = [queue EXCEPT ![own] = Append(queue[own], mine[w])]
    BY <1>0, <1>6 DEF LogTypes, NumbersInv, Enqueue, Log, Entry
  <2> HIDE DEF own
  <2>2. D' = D
    BY <1>4, <2>1 DEF Dequeuing, Log
  <2>3. CASE own = s
    <3>1. queue'[s] = Append(queue[s], mine[w])
      BY <1>0, <2>1, <2>3 DEF LogTypes
    <3>2. Len(queue'[s]) = L + 1
      BY <1>0, <2>1, <3>1, OneEntryMore
    <3>3. w \notin T /\ T' = T \cup {w}
      BY <1>4, <2>1, <2>3 DEF Trimming, Log, own
    <3>4. Cardinality(T') = Cardinality(T) + 1
      BY <1>1, <3>3, WritersCount
    <3>5. L + 1 <= MaxEntries + Cardinality(T')
      BY <1>0, <1>2, <1>3, <3>4
    <3>6. s \in trimmed \/ D # {} =>
            (L + 1) + Cardinality(Writers) > MaxEntries + Cardinality(D)
      BY <1>0, <1>2, <1>3
    <3> QED BY <2>1, <2>2, <3>2, <3>5, <3>6
  <2>4. CASE own # s
    <3>1. queue'[s] = queue[s]
      BY <1>0, <2>1, <2>4 DEF LogTypes
    <3>2. T' = T
      BY <1>4, <2>1, <2>4 DEF Trimming, Log, own
    <3> QED BY <1>3, <2>1, <2>2, <3>1, <3>2
  <2> QED BY <2>3, <2>4
<1>7. CASE Count(w)
  <2> DEFINE own == mine[w].sim
  <2>1. wpc[w] = "count" /\ queue' = queue /\ trimmed' = trimmed
    BY <1>7 DEF Count
  <2>2. CASE Len(queue[own]) > MaxEntries
    <3>1. wpc'[w] = "dequeue" /\ mine'[w] = mine[w]
      BY <1>0, <1>7, <2>2 DEF LogTypes, Count, Trim, Log
    <3>2. T' = T
      BY <1>4, <2>1, <3>1 DEF Trimming, Log
    <3>3. CASE own = s
      BY <1>0, <1>2, <1>3, <2>1, <2>2, <3>2, <3>3
    <3>4. CASE own # s
      <4>1. D' = D
        BY <1>4, <2>1, <3>1, <3>4 DEF Dequeuing, Log
      <4> QED BY <1>3, <2>1, <3>2, <4>1
    <3> QED BY <3>3, <3>4
  <2>3. CASE ~(Len(queue[own]) > MaxEntries)
    <3>1. wpc'[w] = "idle"
      BY <1>0, <1>7, <2>3 DEF LogTypes, Count, Trim, Log
    <3>2. D' = D
      BY <1>4, <2>1, <3>1 DEF Dequeuing, Log
    <3>3. CASE own = s
      <4>1. L <= MaxEntries
        BY <1>0, <2>3, <3>3
      <4> QED BY <1>0, <1>2, <1>3, <2>1, <3>2, <4>1
    <3>4. CASE own # s
      <4>1. T' = T
        BY <1>4, <2>1, <3>1, <3>4 DEF Trimming, Log
      <4> QED BY <1>3, <2>1, <3>2, <4>1
    <3> QED BY <3>3, <3>4
  <2> QED BY <2>2, <2>3
<1>8. CASE Dequeue(w)
  <2> DEFINE own == mine[w].sim
  <2>1. wpc[w] = "dequeue" /\ own \in Sims /\ trimmed' = trimmed \cup {own}
    BY <1>0, <1>8 DEF Dequeue, NumbersInv, Log
  <2>2. \/ /\ queue[own] # <<>> /\ queue' = [queue EXCEPT ![own] = Tail(queue[own])]
           /\ wpc'[w] = "count" /\ mine'[w] = mine[w]
        \/ queue[own] = <<>> /\ queue' = queue /\ wpc'[w] = "idle"
    BY <1>0, <1>8 DEF Dequeue, LogTypes, Log
  <2>3. CASE own # s
    <3>1. queue'[s] = queue[s]
      BY <1>0, <2>1, <2>2, <2>3 DEF LogTypes
    <3>2. T' = T /\ D' = D
      BY <1>4, <2>1, <2>2, <2>3 DEF Trimming, Dequeuing, Log
    <3> QED BY <1>3, <2>1, <2>3, <3>1, <3>2
  <2>4. CASE own = s
    <3>1. w \in D /\ w \in T
      BY <2>1, <2>4 DEF Trimming, Dequeuing, Log
    <3>2. D' = D \ {w}
      BY <1>4, <2>1, <2>2 DEF Dequeuing, Log
    <3>3. Cardinality(D') = Cardinality(D) - 1
      BY <1>1, <3>1, <3>2, WritersCount
    <3>4. L + Cardinality(Writers) > MaxEntries + Cardinality(D)
      BY <1>3, <3>1
    <3>5. CASE queue[own] # <<>>
      <4>1. Len(queue'[s]) = L - 1
        BY <1>0, <2>1, <2>2, <2>4, <3>5, OneEntryLess DEF LogTypes
      <4>2. T' = T
        BY <1>4, <2>1, <2>2, <3>5 DEF Trimming, Log
      <4> HIDE DEF T, D, L
      <4> QED BY <1>0, <1>2, <1>3, <3>3, <3>4, <4>1, <4>2 DEF T, D
    <3>6. CASE queue[own] = <<>>
      <4>1. Len(queue'[s]) = 0 /\ L = 0
        BY <2>2, <2>4, <3>6
      <4> HIDE DEF T, D, L
      <4> QED BY <1>0, <1>2, <3>3, <3>4, <4>1 DEF T, D
    <3> QED BY <3>5, <3>6
  <2> QED BY <2>3, <2>4
<1> QED BY <1>5, <1>6, <1>7, <1>8 DEF Add, TrimStep

(* Only writers change the lengths.                                        *)
LEMMA StepLength ==
  LogInv /\ LengthInv /\ [LogNext]_logVars => LengthInv'
<1> SUFFICES ASSUME LogInv, LengthInv, UNCHANGED <<queue, wpc, mine, trimmed>>
             PROVE  LengthInv'
  BY AddLength DEF LogNext, logVars, storeVars, Choose, ToggleAuto,
     TrySetActive, ChooseSim, Choice, Refresh, Request, Serve,
     Apply, Fail
<1> QED BY DEF LengthInv, Trimming, Dequeuing, Log

(* However many writers add to a log at once, its queue outgrows the limit *)
(* only by those that are still trimming, and they do not empty it (Add    *)
(* and TrimIfNeeded of InMemoryLogStore.cs).                               *)
THEOREM LengthBounded == LogSpec => []QueueBounded
<1>1. LogInit => LengthInv
  BY InitLength
<1>2. LogInv /\ LengthInv /\ [LogNext]_logVars => LengthInv'
  BY StepLength
<1>3. LogInv /\ LengthInv => QueueBounded
  <2> SUFFICES ASSUME LogInv, LengthInv, NEW s \in Sims
               PROVE  /\ Len(queue[s]) <= MaxEntries + Cardinality(Trimming(s))
                      /\ s \in trimmed => Len(queue[s]) > MaxEntries - Cardinality(Writers)
    BY DEF QueueBounded, Trimming
  <2>1. /\ Cardinality(Dequeuing(s)) \in Nat /\ Cardinality(Writers) \in Nat
        /\ MaxEntries \in Nat /\ Len(queue[s]) \in Nat
    BY WritersCount, LogConstants DEF LogInv, LogTypes, Dequeuing
  <2> QED BY <2>1 DEF LengthInv
<1> QED BY <1>1, <1>2, <1>3, LogInvariant, PTL DEF LogSpec

-----------------------------------------------------------------------------
(* The order of the page.                                                  *)

(* What is shown is not after the number the page has got to, and what it  *)
(* was answered is after it, as long as no other call has moved it.        *)
OrderInv ==
  ~clashed =>
    /\ \A q, r \in Refreshers : rpc[q] # "idle" /\ rpc[r] # "idle" => q = r
    /\ \A r \in Refreshers : rpc[r] = "sent" => asked[r].after = after
    /\ \A r \in Refreshers : rpc[r] = "answered" =>
         Ascending(batch[r]) /\ \A i \in 1..Len(batch[r]) : batch[r][i].seq > after
    /\ Ascending(shown) /\ \A i \in 1..Len(shown) : shown[i].seq <= after

(* Nothing is shown at first.                                              *)
LEMMA InitOrder == LogInit => OrderInv
<1> SUFFICES ASSUME LogInit PROVE OrderInv
  OBVIOUS
<1>1. Len(shown) = 0
  BY DEF LogInit
<1> QED BY <1>1 DEF LogInit, OrderInv, Ascending

(* An ascending batch after what is shown is put behind it.                *)
LEMMA AppendedAscending ==
  ASSUME NEW es \in Seq(Entry), NEW fs \in Seq(Entry), NEW a \in Nat,
         Ascending(es), Ascending(fs),
         \A i \in 1..Len(es) : es[i].seq <= a, \A i \in 1..Len(fs) : fs[i].seq > a
  PROVE  /\ Ascending(es \o fs)
         /\ \A i \in 1..Len(es \o fs) :
              (es \o fs)[i].seq <= IF fs = <<>> THEN a ELSE fs[Len(fs)].seq
<1> DEFINE k == Len(es)
           m == Len(fs)
           all == es \o fs
<1>1. /\ k \in Nat /\ m \in Nat /\ Len(all) = k + m /\ (fs # <<>> <=> m # 0)
      /\ \A i \in 1..k : all[i] = es[i]
      /\ \A i \in 1..m : all[k + i] = fs[i]
  OBVIOUS
<1>2. /\ \A i \in 1..k : es[i].seq \in Nat
      /\ \A i \in 1..m : fs[i].seq \in Nat
  <2>1. \A e \in Entry : e.seq \in Nat
    BY DEF Entry
  <2>2. /\ \A i \in 1..k : es[i] \in Entry
        /\ \A i \in 1..m : fs[i] \in Entry
    OBVIOUS
  <2> QED BY <2>1, <2>2
<1> HIDE DEF all, k, m
<1>3. \A i \in 1..(k + m) : i \in 1..k \/ (i - k \in 1..m /\ k + (i - k) = i)
  BY <1>1
<1>4. \A i \in 1..(k + m) : i \notin 1..k => all[i] = fs[i - k]
  BY <1>1, <1>3
<1>5. ASSUME NEW i \in 1..(k + m), NEW j \in 1..(k + m), i < j
      PROVE  all[i].seq < all[j].seq
  <2>1. CASE j \in 1..k
    <3>1. i \in 1..k
      BY <1>1, <1>5, <2>1
    <3> QED BY <1>1, <1>5, <2>1, <3>1 DEF Ascending, k
  <2>2. CASE i \notin 1..k
    <3>1. j \notin 1..k /\ i - k \in 1..m /\ j - k \in 1..m /\ i - k < j - k
      BY <1>1, <1>3, <1>5, <2>2
    <3> QED BY <1>4, <2>2, <3>1 DEF Ascending, m
  <2>3. CASE i \in 1..k /\ j \notin 1..k
    <3>1. j - k \in 1..m /\ all[i] = es[i] /\ all[j] = fs[j - k]
      BY <1>1, <1>3, <1>4, <2>3
    <3>2. es[i].seq <= a /\ fs[j - k].seq > a /\ es[i].seq \in Nat /\ fs[j - k].seq \in Nat
      BY <1>2, <2>3, <3>1 DEF k, m
    <3> QED BY <3>1, <3>2
  <2> QED BY <2>1, <2>2, <2>3
<1>6. ASSUME NEW i \in 1..(k + m)
      PROVE  all[i].seq <= IF fs = <<>> THEN a ELSE fs[m].seq
  <2>1. CASE i \in 1..k
    <3>1. all[i].seq = es[i].seq /\ es[i].seq <= a /\ es[i].seq \in Nat
      BY <1>1, <1>2, <2>1 DEF k
    <3>2. fs # <<>> => fs[m].seq > a /\ fs[m].seq \in Nat
      BY <1>1, <1>2 DEF m
    <3> QED BY <3>1, <3>2
  <2>2. CASE i \notin 1..k
    <3>1. i - k \in 1..m /\ m \in 1..m /\ fs # <<>> /\ all[i] = fs[i - k]
      BY <1>1, <1>3, <1>4, <2>2
    <3>2. i - k = m \/ fs[i - k].seq < fs[m].seq
      BY <1>1, <3>1 DEF Ascending, m
    <3> QED BY <1>2, <3>1, <3>2
  <2> QED BY <2>1, <2>2
<1> QED BY <1>1, <1>5, <1>6 DEF Ascending, all, m

(* A call of Refresh, alone, moves the page on.                            *)
LEMMA RefreshOrder ==
  ASSUME LogInv, OrderInv, NEW r \in Refreshers, Refresh(r)
  PROVE  OrderInv'
<1> SUFFICES ASSUME ~clashed' PROVE OrderInv'
  BY DEF OrderInv
<1>0. PageTypes /\ after \in Nat /\ shown \in Seq(Entry)
  BY DEF LogInv, PageTypes
<1>1. ~clashed
  BY <1>0 DEF PageTypes, Refresh, Request, Serve, Apply, Fail
<1>2. /\ \A p, q \in Refreshers : rpc[p] # "idle" /\ rpc[q] # "idle" => p = q
      /\ \A q \in Refreshers : rpc[q] = "sent" => asked[q].after = after
      /\ \A q \in Refreshers : rpc[q] = "answered" =>
           Ascending(batch[q]) /\ \A i \in 1..Len(batch[q]) : batch[q][i].seq > after
      /\ Ascending(shown) /\ \A i \in 1..Len(shown) : shown[i].seq <= after
  BY <1>1 DEF OrderInv
<1>3. CASE Request(r)
  <2>1. \A q \in Refreshers \ {r} : rpc[q] = "idle"
    BY <1>3 DEF Request
  <2>2. /\ rpc' = [rpc EXCEPT ![r] = "sent"]
        /\ asked' = [asked EXCEPT ![r] = [sim |-> simId, after |-> after]]
        /\ UNCHANGED <<after, shown, batch>>
    BY <1>3 DEF Request
  <2>3. rpc'[r] = "sent" /\ asked'[r].after = after
        /\ \A q \in Refreshers \ {r} : rpc'[q] = "idle"
    BY <1>0, <2>1, <2>2 DEF PageTypes
  <2> QED BY <1>2, <2>2, <2>3 DEF OrderInv
<1>4. CASE Serve(r)
  <2>1. /\ rpc[r] = "sent" /\ rpc' = [rpc EXCEPT ![r] = "answered"]
        /\ UNCHANGED <<after, shown>>
    BY <1>4 DEF Serve
  <2>2. rpc'[r] = "answered" /\ \A q \in Refreshers \ {r} : rpc'[q] = "idle"
    BY <1>0, <1>2, <2>1 DEF PageTypes
  <2>3. Ascending(batch'[r]) /\ \A i \in 1..Len(batch'[r]) : batch'[r][i].seq > asked[r].after
    BY <1>4, Answered
  <2>4. asked[r].after = after
    BY <1>2, <2>1
  <2> QED BY <1>2, <2>1, <2>2, <2>3, <2>4 DEF OrderInv
<1>5. ASSUME Return(r)
      PROVE  \A q \in Refreshers :
               \/ rpc'[q] = "idle"
               \/ /\ rpc'[q] = rpc[q] /\ batch'[q] = batch[q] /\ asked'[q] = asked[q]
                  /\ q # r
  BY <1>0, <1>5 DEF Return, PageTypes
<1>6. CASE Apply(r)
  <2> DEFINE all == shown \o batch[r]
  <2>1. /\ rpc[r] = "answered" /\ Return(r)
        /\ shown' = LastOf(all, PageMax)
        /\ after' = IF batch[r] = <<>> THEN after ELSE batch[r][Len(batch[r])].seq
    BY <1>6 DEF Apply, Last
  <2>2. \A q \in Refreshers : rpc'[q] = "idle"
    BY <1>2, <1>5, <2>1
  <2>3. batch[r] \in Seq(Entry) /\ all \in Seq(Entry)
    BY <1>0 DEF PageTypes
  <2>4. Ascending(all) /\ \A i \in 1..Len(all) : all[i].seq <= after'
    BY <1>0, <1>2, <2>1, <2>3, AppendedAscending
  <2> HIDE DEF all
  <2>5. PICK d \in 0..Len(all) :
          /\ Len(shown') = Len(all) - d
          /\ \A i \in 1..Len(shown') : i + d \in 1..Len(all) /\ shown'[i] = all[i + d]
    BY <2>1, <2>3, LastOnes, LogConstants
  <2>6. Ascending(shown')
    <3> SUFFICES ASSUME NEW i \in 1..Len(shown'), NEW j \in 1..Len(shown'), i < j
                 PROVE  shown'[i].seq < shown'[j].seq
      BY DEF Ascending
    <3>1. i + d \in 1..Len(all) /\ j + d \in 1..Len(all) /\ i + d < j + d
      BY <2>5
    <3> QED BY <2>4, <2>5, <3>1 DEF Ascending
  <2>7. \A i \in 1..Len(shown') : shown'[i].seq <= after'
    BY <2>4, <2>5
  <2> QED BY <2>2, <2>6, <2>7 DEF OrderInv, Ascending
<1>7. CASE Fail(r)
  <2>1. Return(r) /\ rpc[r] # "idle" /\ UNCHANGED <<after, shown>>
    BY <1>7 DEF Fail
  <2> QED BY <1>2, <1>5, <2>1 DEF OrderInv
<1> QED BY <1>3, <1>4, <1>6, <1>7 DEF Refresh

LEMMA StepOrder ==
  LogInv /\ OrderInv /\ [LogNext]_logVars => OrderInv'
<1> SUFFICES ASSUME OrderInv, UNCHANGED <<clashed, rpc, asked, batch, after, shown>>
             PROVE  OrderInv'
  BY RefreshOrder DEF LogNext, logVars, pageVars, Choose, ToggleAuto,
     TrySetActive, ChooseSim, Choice, Add, Number, Enqueue,
     TrimStep, Count, Dequeue
<1> QED BY DEF OrderInv, Ascending

(* However long the log and whatever simulations are chosen and activated, *)
(* a page whose calls of Refresh come one at a time shows entries once and *)
(* in the order of their numbers (Refresh of Logs.razor, Get of            *)
(* InMemoryLogStore.cs).                                                   *)
THEOREM PageStaysInOrder == LogSpec => []PageInOrder
<1>1. LogInit => OrderInv
  BY InitOrder
<1>2. LogInv /\ OrderInv /\ [LogNext]_logVars => OrderInv'
  BY StepOrder
<1>3. OrderInv => PageInOrder
  BY DEF OrderInv, Ascending, PageInOrder
<1> QED BY <1>1, <1>2, <1>3, LogInvariant, PTL DEF LogSpec

-----------------------------------------------------------------------------
(* What the page has passed by.                                            *)

(* The entries that may yet be served: those not numbered so far, those    *)
(* not enqueued, and those of the queues.                                  *)
Live ==
  {e \in Entry :
     \/ e.seq > seq[e.sim]
     \/ \E w \in Writers : wpc[w] = "enqueue" /\ mine[w] = e
     \/ \E i \in 1..Len(queue[e.sim]) : queue[e.sim][i] = e}

(* Entries up to a number are among those given, or lost.                  *)
Passed(n, given, missed, entries) ==
  \A e \in entries : e.seq <= n =>
    e \in given \cup missed \/ \E f \in given : f.sim # e.sim /\ f.seq >= e.seq

Given(r) == {batch[r][i] : i \in 1..Len(batch[r])}

(* That is so of the number the page has got to, of those it has asked     *)
(* from, and of those that its answers would take it to.                   *)
PassedInv ==
  /\ Passed(after, seen, skipped, Live)
  /\ \A r \in Refreshers :
       rpc[r] = "sent" => Passed(asked[r].after, seen, skipped, Live)
  /\ \A r \in Refreshers : rpc[r] = "answered" /\ batch[r] # <<>> =>
       Passed(batch[r][Len(batch[r])].seq, seen \cup Given(r), skipped, Live)

(* It remains so with more entries given or lost, and with fewer to serve. *)
LEMMA PassedStays ==
  ASSUME NEW n, NEW given, NEW missed, NEW entries, Passed(n, given, missed, entries),
         NEW given2, NEW missed2, NEW entries2,
         given \subseteq given2, missed \subseteq missed2, entries2 \subseteq entries
  PROVE  Passed(n, given2, missed2, entries2)
BY DEF Passed

(* The page starts before the first entry.                                 *)
LEMMA InitPassed == LogInit => PassedInv
BY DEF LogInit, PassedInv, Passed, Live, Entry

(* No entry comes to be served again: a number is new, and what is         *)
(* enqueued has been numbered.                                             *)
LEMMA AddLive ==
  ASSUME LogInv, NEW w \in Writers, Add(w)
  PROVE  Live' \subseteq Live
<1> SUFFICES ASSUME NEW e \in Entry,
                    \/ e.seq > seq'[e.sim]
                    \/ \E v \in Writers : wpc'[v] = "enqueue" /\ mine'[v] = e
                    \/ \E i \in 1..Len(queue'[e.sim]) : queue'[e.sim][i] = e
             PROVE  \/ e.seq > seq[e.sim]
                    \/ \E v \in Writers : wpc[v] = "enqueue" /\ mine[v] = e
                    \/ \E i \in 1..Len(queue[e.sim]) : queue[e.sim][i] = e
  BY DEF Live
<1>0. /\ LogTypes /\ NumbersInv /\ e.sim \in Sims /\ e.seq \in Nat
      /\ queue[e.sim] \in Seq(Entry) /\ seq[e.sim] \in Nat
  BY DEF LogInv, LogTypes, Entry
<1>1. \A v \in Writers \ {w} : wpc'[v] = wpc[v] /\ mine'[v] = mine[v]
  BY <1>0 DEF LogTypes, Add, Number, Enqueue, TrimStep, Count,
     Trim, Dequeue
<1>2. ASSUME NEW s \in Sims, Number(w, s)
      PROVE  /\ queue' = queue /\ seq'[e.sim] >= seq[e.sim] /\ seq'[e.sim] \in Nat
             /\ mine'[w] = e => e.seq > seq[e.sim]
  <2>1. /\ seq' = [seq EXCEPT ![s] = seq[s] + 1] /\ queue' = queue
        /\ mine' = [mine EXCEPT ![w] = [sim |-> s, seq |-> seq'[s]]]
    BY <1>2 DEF Number
  <2>2. seq[s] \in Nat /\ seq'[s] = seq[s] + 1 /\ mine'[w] = [sim |-> s, seq |-> seq[s] + 1]
    BY <1>0, <2>1 DEF LogTypes
  <2> QED BY <1>0, <2>1, <2>2 DEF LogTypes
<1>3. ASSUME Enqueue(w)
      PROVE  /\ seq' = seq /\ wpc'[w] # "enqueue"
             /\ \A i \in 1..Len(queue'[e.sim]) : queue'[e.sim][i] = e =>
                  \/ wpc[w] = "enqueue" /\ mine[w] = e
                  \/ \E k \in 1..Len(queue[e.sim]) : queue[e.sim][k] = e
  <2> DEFINE own == mine[w].sim
  <2>1. /\ wpc[w] = "enqueue" /\ wpc'[w] # "enqueue" /\ seq' = seq
        /\ own \in Sims /\ mine[w] \in Entry
        /\ queue' = [queue EXCEPT ![own] = Append(queue[own], mine[w])]
    BY <1>0, <1>3 DEF LogTypes, NumbersInv, Enqueue, Log, Entry
  <2> HIDE DEF own
  <2>2. \/ queue'[e.sim] = queue[e.sim]
        \/ queue'[e.sim] = Append(queue[e.sim], mine[w])
    BY <1>0, <2>1 DEF LogTypes
  <2> QED BY <1>0, <2>1, <2>2, OneEntryMore
<1>4. ASSUME TrimStep(w)
      PROVE  /\ seq' = seq /\ wpc'[w] # "enqueue"
             /\ \A i \in 1..Len(queue'[e.sim]) :
                  \E k \in 1..Len(queue[e.sim]) : queue'[e.sim][i] = queue[e.sim][k]
  <2>1. seq' = seq /\ wpc'[w] # "enqueue"
    BY <1>0, <1>4 DEF TrimStep, Count, Trim, Dequeue, LogTypes
  <2>2. \/ queue'[e.sim] = queue[e.sim]
        \/ queue[e.sim] # <<>> /\ queue'[e.sim] = Tail(queue[e.sim])
    BY <1>0, <1>4 DEF TrimStep, Count, Dequeue, LogTypes
  <2>3. CASE queue'[e.sim] = queue[e.sim]
    BY <2>1, <2>3
  <2>4. CASE queue'[e.sim] # queue[e.sim]
    BY <1>0, <2>1, <2>2, <2>4, OneEntryLess
  <2> QED BY <2>3, <2>4
<1> QED BY <1>0, <1>1, <1>2, <1>3, <1>4 DEF Add

(* An answer gives what the page would pass by with it.                    *)
LEMMA ServePassed ==
  ASSUME LogInv, NEW r \in Refreshers, Serve(r),
         Passed(asked[r].after, seen, skipped, Live), batch'[r] # <<>>
  PROVE  Passed(batch'[r][Len(batch'[r])].seq, seen \cup Given(r)', skipped', Live)
<1> DEFINE s == Target(asked[r].sim)
           a == asked[r].after
           got == batch'[r]
           top == got[Len(got)]
<1>1. /\ s \in Sims /\ a \in Nat /\ got \in Seq(Entry)
      /\ \A i \in 1..Len(got) : \E k \in 1..Len(queue[s]) : got[i] = queue[s][k]
      /\ \A k \in 1..Len(queue[s]) : queue[s][k].seq > a /\ queue[s][k].seq <= top.seq =>
           \E i \in 1..Len(got) : got[i] = queue[s][k]
  <2> DEFINE g == Get(queue[s], a)
  <2>1. /\ s \in Sims /\ a \in Nat /\ got = g /\ g \in Seq(Entry)
        /\ \A i \in 1..Len(g) : \E k \in 1..Len(queue[s]) : g[i] = queue[s][k]
        /\ \A k \in 1..Len(queue[s]) : queue[s][k].seq > a /\ queue[s][k].seq <= g[Len(g)].seq =>
             \E i \in 1..Len(g) : g[i] = queue[s][k]
    BY Answered
  <2> HIDE DEF g, s, a, got
  <2> QED BY <2>1
<1>2. Given(r)' = {got[i] : i \in 1..Len(got)}
  BY DEF Given
<1>3. skipped' = skipped \cup
        {e \in Unqueued : \E i \in DOMAIN got : e.sim = got[i].sim /\ e.seq < got[i].seq}
  BY DEF Serve
<1>4. Passed(a, seen, skipped, Live)
  OBVIOUS
<1> HIDE DEF s, a, got
<1>5. Len(got) \in 1..Len(got) /\ DOMAIN got = 1..Len(got)
  <2>1. got # <<>>
    BY DEF got
  <2> QED BY <1>1, <2>1
<1>6. top \in Entry /\ top \in Given(r)' /\ top.sim = s /\ top.seq <= seq[s]
  <2>1. PICK k \in 1..Len(queue[s]) : top = queue[s][k]
    BY <1>1, <1>5
  <2> QED BY <1>1, <1>2, <1>5, <2>1 DEF LogInv, NumbersInv
<1>7. ASSUME NEW e \in Live, e.seq <= top.seq
      PROVE  \/ e \in seen \cup Given(r)' \cup skipped'
             \/ \E f \in seen \cup Given(r)' : f.sim # e.sim /\ f.seq >= e.seq
  <2>0. /\ e \in Entry /\ e.seq \in Nat /\ top.seq \in Nat
        /\ e = [sim |-> e.sim, seq |-> e.seq]
        /\ top = [sim |-> s, seq |-> top.seq] /\ seq[s] \in Nat
    BY <1>1, <1>6 DEF Live, Entry, LogInv, LogTypes
  <2>1. CASE e.sim # s
    BY <1>6, <1>7, <2>0, <2>1
  <2>2. CASE e.seq <= a
    BY <1>3, <1>4, <2>2 DEF Passed
  <2>3. CASE e.sim = s /\ e.seq > a
    <3>1. ~(e.seq > seq[e.sim])
      BY <1>6, <1>7, <2>0, <2>3
    <3>2. ASSUME NEW w \in Writers, wpc[w] = "enqueue", mine[w] = e
          PROVE  e \in Given(r)' \cup skipped'
      <4>1. e \in Unqueued
        BY <3>2 DEF Unqueued
      <4>2. CASE e.seq < top.seq
        BY <1>3, <1>5, <1>6, <2>3, <4>1, <4>2
      <4>3. CASE e.seq = top.seq
        BY <1>6, <2>0, <2>3, <4>3
      <4> QED BY <1>7, <2>0, <4>2, <4>3
    <3>3. ASSUME NEW k \in 1..Len(queue[s]), queue[s][k] = e
          PROVE  e \in Given(r)'
      BY <1>1, <1>2, <1>7, <2>3, <3>3
    <3> QED BY <2>3, <3>1, <3>2, <3>3 DEF Live
  <2> QED BY <1>1, <2>0, <2>1, <2>2, <2>3
<1> QED BY <1>7 DEF Passed, got

(* The page moves on with what it is given.                                *)
LEMMA RefreshPassed ==
  ASSUME LogInv, PassedInv, NEW r \in Refreshers, Refresh(r)
  PROVE  PassedInv'
<1>0. PageTypes /\ batch[r] \in Seq(Entry)
  BY DEF LogInv, PageTypes
<1>1. Live' = Live /\ seen \subseteq seen' /\ skipped \subseteq skipped'
  BY DEF Live, storeVars, Refresh, Request, Serve, Apply, Fail
<1>2. /\ Passed(after, seen, skipped, Live)
      /\ \A q \in Refreshers :
           rpc[q] = "sent" => Passed(asked[q].after, seen, skipped, Live)
      /\ \A q \in Refreshers : rpc[q] = "answered" /\ batch[q] # <<>> =>
           Passed(batch[q][Len(batch[q])].seq, seen \cup Given(q), skipped, Live)
  BY DEF PassedInv
<1>3. \A q \in Refreshers \ {r} :
        rpc'[q] = rpc[q] /\ asked'[q] = asked[q] /\ batch'[q] = batch[q]
  BY <1>0 DEF PageTypes, Refresh, Request, Serve, Apply, Fail,
     Return
<1>4. \A q \in Refreshers \ {r} :
        /\ rpc'[q] = "sent" => Passed(asked'[q].after, seen', skipped', Live')
        /\ rpc'[q] = "answered" /\ batch'[q] # <<>> =>
             Passed(batch'[q][Len(batch'[q])].seq, seen' \cup Given(q)', skipped', Live')
  <2> SUFFICES ASSUME NEW q \in Refreshers \ {r}
               PROVE  /\ rpc'[q] = "sent" => Passed(asked'[q].after, seen', skipped', Live')
                      /\ rpc'[q] = "answered" /\ batch'[q] # <<>> =>
                           Passed(batch'[q][Len(batch'[q])].seq, seen' \cup Given(q)',
                                  skipped', Live')
    OBVIOUS
  <2>1. Given(q)' = Given(q) /\ seen \cup Given(q) \subseteq seen' \cup Given(q)'
    BY <1>1, <1>3 DEF Given
  <2>2. rpc'[q] = "sent" => Passed(asked[q].after, seen', skipped', Live')
    BY <1>1, <1>2, <1>3, PassedStays
  <2>3. rpc'[q] = "answered" /\ batch'[q] # <<>> =>
          Passed(batch[q][Len(batch[q])].seq, seen' \cup Given(q)', skipped', Live')
    BY <1>1, <1>2, <1>3, <2>1, PassedStays
  <2> QED BY <1>3, <2>2, <2>3
<1>5. Passed(after, seen', skipped', Live')
  BY <1>1, <1>2, PassedStays
<1>6. CASE Request(r)
  <2>1. after' = after /\ rpc'[r] = "sent" /\ asked'[r].after = after
    BY <1>0, <1>6 DEF Request, PageTypes
  <2> QED BY <1>4, <1>5, <2>1 DEF PassedInv
<1>7. CASE Serve(r)
  <2>1. /\ after' = after /\ rpc[r] = "sent" /\ rpc'[r] = "answered"
        /\ seen' = seen
    BY <1>0, <1>7 DEF Serve, PageTypes
  <2>2. batch'[r] # <<>> =>
          Passed(batch'[r][Len(batch'[r])].seq, seen' \cup Given(r)', skipped', Live')
    BY <1>1, <1>2, <1>7, <2>1, ServePassed
  <2> QED BY <1>4, <1>5, <2>1, <2>2 DEF PassedInv
<1>8. CASE Apply(r)
  <2>1. /\ rpc[r] = "answered" /\ rpc'[r] = "idle"
        /\ after' = IF batch[r] = <<>> THEN after ELSE batch[r][Len(batch[r])].seq
    BY <1>0, <1>8 DEF Apply, Return, Last, PageTypes
  <2>2. seen' = seen \cup Given(r) /\ skipped' = skipped
    BY <1>0, <1>8 DEF Apply, ToSet, Given
  <2>3. Passed(after', seen', skipped', Live')
    BY <1>1, <1>2, <1>5, <2>1, <2>2
  <2> QED BY <1>4, <2>1, <2>3 DEF PassedInv
<1>9. CASE Fail(r)
  <2>1. after' = after /\ rpc'[r] = "idle"
    BY <1>0, <1>9 DEF Fail, Return, PageTypes
  <2> QED BY <1>4, <1>5, <2>1 DEF PassedInv
<1> QED BY <1>6, <1>7, <1>8, <1>9 DEF Refresh

LEMMA StepPassed ==
  LogInv /\ PassedInv /\ [LogNext]_logVars => PassedInv'
<1> SUFFICES ASSUME LogInv, PassedInv, Live' \subseteq Live,
                    UNCHANGED <<after, rpc, asked, batch, seen, skipped>>
             PROVE  PassedInv'
  <2>1. ASSUME NEW w \in Writers, Add(w)
        PROVE  UNCHANGED <<after, rpc, asked, batch, seen, skipped>>
    BY <2>1 DEF Add, Number, Enqueue, TrimStep, Count, Dequeue,
       pageVars
  <2>2. ASSUME Choose \/ UNCHANGED logVars
        PROVE  Live' = Live /\ UNCHANGED <<after, rpc, asked, batch, seen, skipped>>
    BY <2>2 DEF Choose, ToggleAuto, TrySetActive, ChooseSim, Choice,
       logVars, pageVars, storeVars, Live
  <2> QED BY <2>1, <2>2, RefreshPassed, AddLive DEF LogNext
<1>1. \A q \in Refreshers : Given(q)' = Given(q)
  BY DEF Given
<1> QED BY <1>1, PassedStays DEF PassedInv

(* An entry that the page has passed by was given to it, or was lost to a  *)
(* race of writers or to the numbers of another log, however its calls of  *)
(* Refresh interleave (Refresh of Logs.razor, Get and Add of               *)
(* InMemoryLogStore.cs).                                                   *)
THEOREM NothingPassedBy == LogSpec => []PassedWasSeen
<1>1. LogInit => PassedInv
  BY InitPassed
<1>2. LogInv /\ PassedInv /\ [LogNext]_logVars => PassedInv'
  BY StepPassed
<1>3. LogInv /\ PassedInv => PassedWasSeen
  <2> SUFFICES ASSUME LogInv, PassedInv, NEW s \in Sims, NEW e \in ToSet(queue[s]),
                      e.seq <= after
               PROVE  e \in seen \/ Lost(e)
    BY DEF PassedWasSeen
  <2>1. queue[s] \in Seq(Entry)
    BY DEF LogInv, LogTypes
  <2>2. PICK i \in 1..Len(queue[s]) : queue[s][i] = e
    BY <2>1 DEF ToSet
  <2>3. e \in Entry /\ e.sim = s
    BY <2>1, <2>2 DEF LogInv, NumbersInv
  <2>4. e \in Live
    BY <2>2, <2>3 DEF Live
  <2> QED BY <2>4 DEF PassedInv, Passed, Lost
<1> QED BY <1>1, <1>2, <1>3, LogInvariant, PTL DEF LogSpec
=============================================================================
