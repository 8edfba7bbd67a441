----------------------- MODULE SystemBuilder_proofs -----------------------
(***************************************************************************)
(* For any number of components and any declarations, a built order is     *)
(* topological, has every component once and is stable.                    *)
(***************************************************************************)
EXTENDS SystemBuilder, FiniteSetTheorems, SequenceTheorems, TLAPS

Preds(E, c) == {w \in Components : <<w, c>> \in E}
Placed(s) == {s[i] : i \in 1..Len(s)}
Before(s, j) == {s[i] : i \in 1..(j - 1)}

(* writersBySignal holds the writes of the components visited so far.      *)
WrittenInv ==
  \A w \in Components, d \in Dependencies :
    [name |-> d.name, unit |-> d.unit, by |-> w] \in written
      <=> d \in declared[w].writes /\ (phase # "writes" \/ w < at)

(* The edges are the dependencies of the readers visited so far.           *)
EdgeInv ==
  \A w, c \in Components :
    <<w, c>> \in edges
      <=> DependsOn(c, w) /\ phase # "writes" /\ (phase = "edges" => c < at)

(* indegree counts the writers that are not placed yet.                    *)
DegreeInv ==
  \A c \in Components :
    indegree[c] = Cardinality(Preds(edges, c) \ Placed(sorted))

(* What Kahn's algorithm has placed, and what it may place next.           *)
SortInv ==
  /\ phase \in {"writes", "edges"} => sorted = <<>>
  /\ phase = "sort" => ready = {c \in Components \ Placed(sorted) : indegree[c] = 0}
  /\ phase = "built" => Len(sorted) = N
  /\ \A i, j \in 1..Len(sorted) : i # j => sorted[i] # sorted[j]
  /\ \A j \in 1..Len(sorted) : Preds(edges, sorted[j]) \subseteq Before(sorted, j)

StableInv ==
  \A j \in 1..Len(sorted), c \in Components :
    c \notin Before(sorted, j) /\ c # sorted[j] /\ Preds(edges, c) \subseteq Before(sorted, j)
      => sorted[j] < c

BuildInv == WrittenInv /\ EdgeInv /\ DegreeInv /\ SortInv /\ StableInv

IInv == TypeOK /\ (phase # "failed" => BuildInv)

USE BuilderAssumption

(* Sets of components are finite, and empty when nothing is counted.       *)
LEMMA Finite ==
  ASSUME NEW S \in SUBSET Components
  PROVE  /\ IsFiniteSet(S)
         /\ Cardinality(S) \in Nat
         /\ Cardinality(S) = 0 <=> S = {}
<1>1. IsFiniteSet(Components)
  BY FS_Interval DEF Components
<1>2. IsFiniteSet(S)
  BY <1>1, FS_Subset
<1> QED BY <1>2, FS_CardinalityType, FS_EmptySet

(* The writers a reader is connected to are those it depends on.           *)
LEMMA WritersAreDependencies ==
  ASSUME TypeOK, WrittenInv, phase = "edges", NEW c \in Components
  PROVE  WritersFor(c) = {w \in Components : DependsOn(c, w)}
<1>0. /\ declared[c] \in Inputs
      /\ Inputs \subseteq [reads : SUBSET Dependencies, writes : SUBSET Dependencies,
                          again : SUBSET Dependencies]
  BY DEF TypeOK
<1>1. ASSUME NEW w \in WritersFor(c) PROVE w \in Components /\ DependsOn(c, w)
  <2>1. PICK v \in written, r \in declared[c].reads :
               v.by = w /\ v.by # c /\ r.name = v.name
    BY <1>1 DEF WritersFor
  <2>2. v \in [name : Names, unit : Units, by : Components]
    BY DEF TypeOK
  <2> DEFINE d == [name |-> v.name, unit |-> v.unit]
  <2>3. d \in Dependencies /\ d.name = v.name /\ d.unit = v.unit
    BY <2>2 DEF Dependencies
  <2>4. v = [name |-> d.name, unit |-> d.unit, by |-> w]
    BY <2>1, <2>2
  <2>5. w \in Components
    BY <2>1, <2>2
  <2>6. d \in declared[w].writes
    BY <2>3, <2>4, <2>5 DEF WrittenInv
  <2> QED BY <2>1, <2>3, <2>5, <2>6 DEF DependsOn
<1>2. ASSUME NEW w \in Components, DependsOn(c, w) PROVE w \in WritersFor(c)
  <2>1. PICK r \in declared[c].reads, d \in declared[w].writes :
               c # w /\ r.name = d.name
    BY <1>2 DEF DependsOn
  <2>2. d \in Dependencies
    BY <2>1 DEF TypeOK
  <2> DEFINE v == [name |-> d.name, unit |-> d.unit, by |-> w]
  <2>3. v \in written
    BY <2>1, <2>2 DEF WrittenInv
  <2>4. v.by = w /\ v.name = d.name
    OBVIOUS
  <2> QED BY <2>1, <2>3, <2>4 DEF WritersFor
<1> QED BY <1>1, <1>2

(* Build starts in the invariant.                                          *)
LEMMA InitIInv == Init => IInv
<1> SUFFICES ASSUME Init PROVE IInv
  OBVIOUS
<1> USE DEF Init
<1>1. TypeOK
  BY DEF TypeOK, Components
<1>2. WrittenInv /\ EdgeInv
  BY DEF WrittenInv, EdgeInv, Components
<1>3. \A c \in Components : Preds(edges, c) \ Placed(sorted) = {}
  BY DEF Preds
<1>4. DegreeInv
  BY <1>3, FS_EmptySet DEF DegreeInv
<1>5. SortInv /\ StableInv
  BY DEF SortInv, StableInv
<1> QED BY <1>1, <1>2, <1>4, <1>5 DEF IInv, BuildInv

(* The loops over the writes and the reads.                                *)
LEMMA CollectIInv == IInv /\ CollectWrites => IInv'
<1> SUFFICES ASSUME IInv, CollectWrites PROVE IInv'
  OBVIOUS
<1> USE DEF IInv, BuildInv, TypeOK
<1>1. at \in Components /\ phase = "writes" /\ phase' = "writes" /\ at' = at + 1
  BY DEF CollectWrites, Components
<1>2. declared[at].writes \subseteq Dependencies
  BY <1>1
<1> DEFINE new == {[name |-> d.name, unit |-> d.unit, by |-> at] :
                     d \in declared[at].writes}
<1>3. written' = written \cup new /\ declared' = declared
  BY DEF CollectWrites
<1>4. new \subseteq [name : Names, unit : Units, by : Components]
  BY <1>1, <1>2 DEF Dependencies
<1>5. \A w \in Components, d \in Dependencies :
        [name |-> d.name, unit |-> d.unit, by |-> w] \in new
          <=> w = at /\ d \in declared[at].writes
  <2> SUFFICES ASSUME NEW w \in Components, NEW d \in Dependencies
               PROVE [name |-> d.name, unit |-> d.unit, by |-> w] \in new
                       <=> w = at /\ d \in declared[at].writes
    OBVIOUS
  <2>1. ASSUME [name |-> d.name, unit |-> d.unit, by |-> w] \in new
        PROVE  w = at /\ d \in declared[at].writes
    <3>1. PICK e \in declared[at].writes :
                 [name |-> d.name, unit |-> d.unit, by |-> w]
                   = [name |-> e.name, unit |-> e.unit, by |-> at]
      BY <2>1
    <3>2. d.name = e.name /\ d.unit = e.unit /\ w = at
      BY <3>1
    <3>3. e \in Dependencies
      BY <1>2
    <3>4. d = e
      BY <3>2, <3>3 DEF Dependencies
    <3> QED BY <3>2, <3>4
  <2> QED BY <2>1
<1> HIDE DEF new
<1>6. TypeOK'
  BY <1>1, <1>3, <1>4 DEF CollectWrites, Components
<1>7. WrittenInv'
  <2> SUFFICES ASSUME NEW w \in Components, NEW d \in Dependencies
               PROVE [name |-> d.name, unit |-> d.unit, by |-> w] \in written'
                       <=> d \in declared[w].writes /\ w < at + 1
    BY <1>1, <1>3 DEF WrittenInv
  <2> DEFINE rec == [name |-> d.name, unit |-> d.unit, by |-> w]
  <2>1. rec \in written <=> d \in declared[w].writes /\ w < at
    BY <1>1 DEF WrittenInv
  <2>2. rec \in new <=> w = at /\ d \in declared[w].writes
    BY <1>5
  <2>3. w < at + 1 <=> w < at \/ w = at
    BY <1>1 DEF Components
  <2> HIDE DEF rec
  <2>4. rec \in written' <=> d \in declared[w].writes /\ w < at + 1
    BY <1>3, <2>1, <2>2, <2>3
  <2> QED BY <2>4 DEF rec
<1>8. (EdgeInv /\ DegreeInv /\ SortInv /\ StableInv)'
  BY <1>1 DEF CollectWrites, EdgeInv, DegreeInv, SortInv, StableInv, Preds,
              Placed, Before, DependsOn
<1> QED BY <1>6, <1>7, <1>8

(* Connecting a reader to the writers of what it reads.                    *)
LEMMA ConnectIInv == IInv /\ Connect => IInv'
<1> SUFFICES ASSUME IInv, Connect PROVE IInv'
  OBVIOUS
<1> USE DEF IInv, BuildInv, TypeOK
<1>0. PICK k \in Components : k = at
  BY DEF Connect, Components
<1>1. /\ phase = "edges" /\ phase' = "edges" /\ at' = k + 1
      /\ UNCHANGED <<declared, written, ready, sorted>> /\ sorted = <<>>
  BY <1>0 DEF Connect, SortInv
<1>2. PICK W : W = WritersFor(k)
  OBVIOUS
<1>3. \A w : w \in W <=> w \in Components /\ DependsOn(k, w)
  BY <1>1, <1>2, WritersAreDependencies
<1>4. edges' = edges \cup (W \X {k})
  BY <1>0, <1>2 DEF Connect
<1>5. indegree' = [indegree EXCEPT ![k] = Cardinality(W)]
  BY <1>0, <1>2 DEF Connect
<1>6. W \in SUBSET Components /\ Cardinality(W) \in Nat
  BY <1>3, Finite
<1>7. \A w, c : <<w, c>> \in edges' <=> <<w, c>> \in edges \/ (w \in W /\ c = k)
  BY <1>4
<1>8. TypeOK'
  <2>1. edges' \subseteq Components \X Components
    BY <1>4, <1>6
  <2>2. indegree' \in [Components -> Nat]
    BY <1>5, <1>6
  <2>3. at' \in 1..(N + 1)
    BY <1>1 DEF Components
  <2> QED BY <1>1, <2>1, <2>2, <2>3
<1>9. EdgeInv'
  <2> SUFFICES ASSUME NEW w \in Components, NEW c \in Components
               PROVE  <<w, c>> \in edges' <=> DependsOn(c, w) /\ c < k + 1
    <3>1. declared' = declared /\ phase' = "edges" /\ at' = k + 1
      BY <1>1
    <3>2. \A v, x \in Components : DependsOn(x, v)' <=> DependsOn(x, v)
      BY <3>1 DEF DependsOn
    <3> QED BY <3>1, <3>2 DEF EdgeInv
  <2>1. <<w, c>> \in edges <=> DependsOn(c, w) /\ c < k
    BY <1>0, <1>1 DEF EdgeInv
  <2>2. c < k + 1 <=> c < k \/ c = k
    BY DEF Components
  <2> QED BY <1>3, <1>7, <2>1, <2>2
<1>10. \A c \in Components \ {k} : Preds(edges', c) = Preds(edges, c)
  BY <1>7 DEF Preds
<1>11. Preds(edges', k) = W
  <2>1. \A w \in Components : <<w, k>> \notin edges
    BY <1>0, <1>1 DEF EdgeInv, Components
  <2> QED BY <1>6, <1>7, <2>1 DEF Preds
<1>12. Placed(sorted) = {} /\ Placed(sorted') = {}
  BY <1>1 DEF Placed
<1>13. DegreeInv'
  <2> SUFFICES ASSUME NEW c \in Components
               PROVE  indegree'[c] = Cardinality(Preds(edges', c))
    <3>1. \A S : S \ Placed(sorted') = S
      BY <1>12
    <3> QED BY <3>1 DEF DegreeInv
  <2>1. CASE c = k
    BY <1>5, <1>11, <2>1
  <2>2. CASE c # k
    <3>0. \A S : S \ Placed(sorted) = S
      BY <1>12
    <3>1. indegree[c] = Cardinality(Preds(edges, c))
      BY <1>1, <3>0 DEF DegreeInv
    <3> QED BY <1>5, <1>10, <2>2, <3>1
  <2> QED BY <2>1, <2>2
<1>14. WrittenInv' /\ SortInv' /\ StableInv'
  BY <1>1 DEF WrittenInv, SortInv, StableInv
<1> QED BY <1>8, <1>9, <1>13, <1>14

(* The places of an order that is extended by a component.                 *)
LEMMA Extended ==
  ASSUME NEW s \in Seq(Components), NEW node \in Components
  PROVE  LET t == Append(s, node) IN
         /\ t \in Seq(Components)
         /\ Len(t) = Len(s) + 1
         /\ \A i \in 1..Len(s) : t[i] = s[i]
         /\ t[Len(s) + 1] = node
         /\ Placed(t) = Placed(s) \cup {node}
         /\ \A j \in 1..Len(s) : Before(t, j) = Before(s, j)
         /\ Before(t, Len(s) + 1) = Placed(s)
<1> DEFINE n == Len(s)
           t == Append(s, node)
<1>1. /\ n \in Nat
      /\ t \in Seq(Components)
      /\ Len(t) = n + 1
      /\ \A i \in 1..n : t[i] = s[i]
      /\ t[n + 1] = node
  BY AppendProperties
<1> HIDE DEF t
<1>2. 1..(n + 1) = 1..n \cup {n + 1} /\ (n + 1) - 1 = n
  BY <1>1
<1>3. Placed(t) = Placed(s) \cup {node}
  BY <1>1, <1>2 DEF Placed
<1>4. ASSUME NEW j \in 1..n PROVE Before(t, j) = Before(s, j)
  <2>1. \A i \in 1..(j - 1) : t[i] = s[i]
    BY <1>1
  <2> QED BY <2>1 DEF Before
<1>5. Before(t, n + 1) = Placed(s)
  BY <1>1, <1>2 DEF Before, Placed
<1> QED BY <1>1, <1>3, <1>4, <1>5 DEF t

(* Placing a component that is ready.                                      *)
LEMMA VisitIInv == IInv /\ Visit => IInv'
<1> SUFFICES ASSUME IInv, Visit PROVE IInv'
  OBVIOUS
<1> USE DEF IInv, BuildInv
<1>1. PICK node \in ready : (\A other \in ready : node <= other) /\ Emit(node)
  BY DEF Visit
<1>2. /\ phase = "sort" /\ phase' = "sort" /\ node \in Components
      /\ UNCHANGED <<declared, at, written, edges>>
      /\ sorted' = Append(sorted, node)
  BY <1>1 DEF Emit, TypeOK
<1>3. node \notin Placed(sorted) /\ indegree[node] = 0
  BY <1>1, <1>2 DEF SortInv
<1>4. \A c \in Components :
        /\ Preds(edges, c) \in SUBSET Components
        /\ Preds(edges', c) = Preds(edges, c)
        /\ indegree[c] = Cardinality(Preds(edges, c) \ Placed(sorted))
        /\ node \in Preds(edges, c) <=> <<node, c>> \in edges
  BY <1>2 DEF Preds, DegreeInv
<1>5. Preds(edges, node) \subseteq Placed(sorted)
  <2>1. Preds(edges, node) \ Placed(sorted) \in SUBSET Components
    BY <1>2, <1>4
  <2>2. Cardinality(Preds(edges, node) \ Placed(sorted)) = 0
    BY <1>2, <1>3, <1>4
  <2> QED BY <2>1, <2>2, Finite
<1>6. /\ sorted' \in Seq(Components)
      /\ Len(sorted') = Len(sorted) + 1
      /\ \A i \in 1..Len(sorted) : sorted'[i] = sorted[i]
      /\ sorted'[Len(sorted) + 1] = node
      /\ Placed(sorted') = Placed(sorted) \cup {node}
      /\ \A j \in 1..Len(sorted) : Before(sorted', j) = Before(sorted, j)
      /\ Before(sorted', Len(sorted) + 1) = Placed(sorted)
  <2>1. sorted \in Seq(Components)
    BY DEF TypeOK
  <2> QED BY <1>2, <2>1, Extended
<1>7. \A c \in Components :
        /\ indegree'[c] \in Nat
        /\ indegree'[c] = Cardinality(Preds(edges, c) \ Placed(sorted'))
  <2> SUFFICES ASSUME NEW c \in Components
               PROVE /\ indegree'[c] \in Nat
                     /\ indegree'[c] = Cardinality(Preds(edges, c) \ Placed(sorted'))
    OBVIOUS
  <2> DEFINE S == Preds(edges, c) \ Placed(sorted)
  <2>1. IsFiniteSet(S) /\ Cardinality(S) \in Nat /\ indegree[c] = Cardinality(S)
    BY <1>4, Finite
  <2>2. indegree'[c] = IF <<node, c>> \in edges THEN indegree[c] - 1 ELSE indegree[c]
    BY <1>1 DEF Emit
  <2>3. CASE <<node, c>> \in edges
    <3>1. node \in S
      BY <1>3, <1>4, <2>3
    <3>2. Preds(edges, c) \ Placed(sorted') = S \ {node}
      BY <1>6
    <3>3. Cardinality(S \ {node}) = Cardinality(S) - 1 /\ IsFiniteSet(S \ {node})
      BY <2>1, <3>1, FS_RemoveElement
    <3>4. Cardinality(S \ {node}) \in Nat
      BY <3>3, FS_CardinalityType
    <3> QED BY <2>1, <2>2, <2>3, <3>2, <3>3, <3>4
  <2>4. CASE <<node, c>> \notin edges
    <3>1. Preds(edges, c) \ Placed(sorted') = S
      BY <1>4, <1>6, <2>4
    <3> QED BY <2>1, <2>2, <2>4, <3>1
  <2> QED BY <2>3, <2>4
<1>8. DegreeInv'
  BY <1>4, <1>7 DEF DegreeInv
<1>9. ready' = {c \in Components \ Placed(sorted') : indegree'[c] = 0}
  <2>1. ready = {c \in Components \ Placed(sorted) : indegree[c] = 0}
    BY <1>2 DEF SortInv
  <2>2. ready' = (ready \ {node}) \cup
          {c \in Components : <<node, c>> \in edges /\ indegree[c] = 1}
    BY <1>1 DEF Emit
  <2>3. \A c \in Components : indegree[c] \in Nat /\
          indegree'[c] = IF <<node, c>> \in edges THEN indegree[c] - 1 ELSE indegree[c]
    BY <1>1 DEF Emit, TypeOK
  <2>4. ASSUME NEW c \in Placed(sorted) PROVE Preds(edges, c) \subseteq Placed(sorted)
    <3>1. PICK j \in 1..Len(sorted) : c = sorted[j]
      BY DEF Placed
    <3>2. Preds(edges, c) \subseteq Before(sorted, j)
      BY <1>2, <3>1 DEF SortInv
    <3>3. 1..(j - 1) \subseteq 1..Len(sorted)
      BY DEF TypeOK
    <3> QED BY <3>2, <3>3 DEF Placed, Before
  <2>5. \A c \in Components : <<node, c>> \in edges => c \notin Placed(sorted')
    BY <1>3, <1>4, <1>5, <1>6, <2>4
  <2>6. \A c \in Components : <<node, c>> \in edges => indegree[c] # 0
    BY <1>3, <1>4, Finite
  <2> QED BY <1>6, <2>1, <2>2, <2>3, <2>5, <2>6
<1>10. \A i \in 1..Len(sorted) : sorted[i] \in Placed(sorted) /\ sorted[i] # node
  BY <1>3 DEF Placed
<1>11. Len(sorted) \in Nat
  BY DEF TypeOK
<1>12. SortInv'
  <2>0. 1..Len(sorted') = 1..Len(sorted) \cup {Len(sorted) + 1}
    BY <1>6, <1>11
  <2>1. ASSUME NEW i \in 1..Len(sorted'), NEW j \in 1..Len(sorted'), i # j
        PROVE  sorted'[i] # sorted'[j]
    <3>1. CASE i \in 1..Len(sorted) /\ j \in 1..Len(sorted)
      BY <1>2, <1>6, <2>1, <3>1 DEF SortInv
    <3>2. CASE i = Len(sorted) + 1 /\ j \in 1..Len(sorted)
      BY <1>6, <1>10, <3>2
    <3>3. CASE j = Len(sorted) + 1 /\ i \in 1..Len(sorted)
      BY <1>6, <1>10, <3>3
    <3> QED BY <2>0, <2>1, <3>1, <3>2, <3>3
  <2>2. ASSUME NEW j \in 1..Len(sorted')
        PROVE  Preds(edges, sorted'[j]) \subseteq Before(sorted', j)
    <3>1. CASE j = Len(sorted) + 1
      BY <1>5, <1>6, <3>1
    <3>2. CASE j \in 1..Len(sorted)
      <4>1. sorted'[j] = sorted[j] /\ Before(sorted', j) = Before(sorted, j)
        BY <1>6, <3>2
      <4>2. Preds(edges, sorted[j]) \subseteq Before(sorted, j)
        BY <1>2, <3>2 DEF SortInv
      <4> QED BY <4>1, <4>2
    <3> QED BY <2>0, <3>1, <3>2
  <2>3. edges' = edges
    BY <1>2
  <2> QED BY <1>2, <1>9, <2>1, <2>2, <2>3 DEF SortInv
<1>13. StableInv'
  <2> SUFFICES ASSUME NEW j \in 1..Len(sorted'), NEW c \in Components,
                      c \notin Before(sorted', j), c # sorted'[j],
                      Preds(edges', c) \subseteq Before(sorted', j)
               PROVE  sorted'[j] < c
    BY DEF StableInv
  <2>1. CASE j = Len(sorted) + 1
    <3>1. c \notin Placed(sorted) /\ c # node /\ Preds(edges, c) \subseteq Placed(sorted)
      BY <1>4, <1>6, <2>1
    <3>2. Preds(edges, c) \ Placed(sorted) = {}
      BY <3>1
    <3>3. indegree[c] = 0
      BY <1>4, <3>2, FS_EmptySet
    <3>4. c \in ready
      BY <1>2, <3>1, <3>3 DEF SortInv
    <3> QED BY <1>1, <1>2, <1>6, <2>1, <3>1, <3>4 DEF Components
  <2>2. CASE j \in 1..Len(sorted)
    <3>1. /\ sorted'[j] = sorted[j]
          /\ Before(sorted', j) = Before(sorted, j)
          /\ Preds(edges', c) = Preds(edges, c)
      BY <1>4, <1>6, <2>2
    <3> QED BY <1>2, <2>2, <3>1 DEF StableInv
  <2> QED BY <1>6, <1>11, <2>1, <2>2
<1>14. TypeOK'
  <2>1. indegree' \in [Components -> Nat]
    BY <1>1, <1>7 DEF Emit
  <2>2. ready' \subseteq Components
    BY <1>9
  <2> QED BY <1>2, <1>6, <2>1, <2>2 DEF TypeOK
<1>15. WrittenInv' /\ EdgeInv'
  BY <1>2 DEF WrittenInv, EdgeInv, DependsOn
<1> QED BY <1>8, <1>12, <1>13, <1>14, <1>15

(* Every step keeps the invariant.                                         *)
LEMMA StepIInv == IInv /\ [Next]_vars => IInv'
<1> SUFFICES ASSUME IInv, [Next]_vars PROVE IInv'
  OBVIOUS
<1> USE DEF IInv, BuildInv
<1>1. CASE CollectFails \/ ConnectFails
  BY <1>1 DEF CollectFails, ConnectFails, Fail, TypeOK
<1>2. CASE StartEdges
  <2> USE <1>2 DEF StartEdges
  <2>1. TypeOK' BY DEF TypeOK
  <2>0. /\ phase = "writes" /\ phase' = "edges" /\ at' = 1 /\ at > N
        /\ UNCHANGED <<declared, written, edges>>
    OBVIOUS
  <2>2. WrittenInv'
    <3> SUFFICES ASSUME NEW w \in Components, NEW d \in Dependencies
                 PROVE  [name |-> d.name, unit |-> d.unit, by |-> w] \in written
                          <=> d \in declared[w].writes
      BY <2>0 DEF WrittenInv
    <3>1. w < at
      BY <2>0 DEF Components, TypeOK
    <3> QED BY <2>0, <3>1 DEF WrittenInv
  <2>3. EdgeInv'
    <3> SUFFICES ASSUME NEW w \in Components, NEW c \in Components
                 PROVE  <<w, c>> \notin edges /\ ~(c < 1)
      BY <2>0 DEF EdgeInv
    <3> QED BY <2>0 DEF EdgeInv, Components
  <2>4. (DegreeInv /\ SortInv /\ StableInv)'
    BY DEF DegreeInv, SortInv, StableInv, Preds, Placed, Before
  <2> QED BY <2>1, <2>2, <2>3, <2>4
<1>3. CASE StartSort
  <2> USE <1>3 DEF StartSort
  <2>1. TypeOK' BY DEF TypeOK
  <2>2. WrittenInv' BY DEF WrittenInv
  <2>3. EdgeInv'
    <3>0. /\ phase = "edges" /\ phase' = "sort" /\ at > N
          /\ UNCHANGED <<declared, edges>>
      OBVIOUS
    <3> SUFFICES ASSUME NEW w \in Components, NEW c \in Components
                 PROVE  <<w, c>> \in edges <=> DependsOn(c, w)
      <4>1. \A w, c \in Components : DependsOn(c, w)' <=> DependsOn(c, w)
        BY <3>0 DEF DependsOn
      <4>2. phase' # "writes" /\ phase' # "edges" /\ edges' = edges
        BY <3>0
      <4> QED BY <4>1, <4>2 DEF EdgeInv
    <3>1. c < at
      BY <3>0 DEF Components, TypeOK
    <3> QED BY <3>0, <3>1 DEF EdgeInv
  <2>4. Placed(sorted) = {} /\ Placed(sorted') = {}
    BY DEF SortInv, Placed
  <2>5. (DegreeInv /\ StableInv)'
    BY DEF DegreeInv, StableInv, Preds, Placed, Before
  <2>6. SortInv'
    BY <2>4 DEF SortInv, Preds, Before
  <2> QED BY <2>1, <2>2, <2>3, <2>5, <2>6
<1>4. CASE Finish
  <2> USE <1>4 DEF Finish
  <2>1. TypeOK' BY DEF TypeOK
  <2>2. phase' # "failed" => BuildInv'
    BY DEF WrittenInv, EdgeInv, DependsOn, DegreeInv, SortInv, StableInv, Preds,
           Placed, Before
  <2> QED BY <2>1, <2>2
<1>5. CASE UNCHANGED vars
  <2> USE <1>5 DEF vars
  <2>1. TypeOK' = TypeOK BY DEF TypeOK
  <2>2. WrittenInv' = WrittenInv BY DEF WrittenInv
  <2>3. EdgeInv' = EdgeInv BY DEF EdgeInv, DependsOn
  <2>4. DegreeInv' = DegreeInv BY DEF DegreeInv
  <2>5. SortInv' = SortInv BY DEF SortInv
  <2>6. StableInv' = StableInv BY DEF StableInv
  <2> QED BY <2>1, <2>2, <2>3, <2>4, <2>5, <2>6
<1> QED
  BY <1>1, <1>2, <1>3, <1>4, <1>5, CollectIInv, ConnectIInv, VisitIInv DEF Next

(* The invariant holds of every run of Build.                              *)
THEOREM Invariant == Spec => []IInv
BY InitIInv, StepIInv, PTL DEF Spec

(* An order that is built has each component, once, with its writers       *)
(* before it.                                                              *)
THEOREM OrderTopological == Spec => []WritersFirst
<1>1. IInv => WritersFirst
  <2>1. ASSUME IInv, phase = "built", NEW j \in 1..Len(sorted),
               NEW w \in Components, DependsOn(sorted[j], w)
        PROVE  \E i \in 1..(j - 1) : sorted[i] = w
    <3>1. sorted[j] \in Components
      BY <2>1 DEF IInv, TypeOK
    <3>2. w \in Preds(edges, sorted[j])
      BY <2>1, <3>1 DEF IInv, BuildInv, EdgeInv, Preds
    <3> QED BY <2>1, <3>2 DEF IInv, BuildInv, SortInv, Before
  <2>2. ASSUME IInv, phase = "built"
        PROVE  /\ Len(sorted) = N
               /\ \A i, j \in 1..Len(sorted) : i # j => sorted[i] # sorted[j]
    BY <2>2 DEF IInv, BuildInv, SortInv
  <2> QED BY <2>1, <2>2 DEF WritersFirst
<1> QED BY <1>1, Invariant, PTL

(* The order of Add is kept wherever the dependencies leave a choice.      *)
THEOREM OrderStable == Spec => []StableOrder
<1>1. IInv => StableOrder
  <2> SUFFICES ASSUME IInv, phase \in {"sort", "built"},
                      NEW j \in 1..Len(sorted), NEW c \in Components,
                      \A i \in 1..j : sorted[i] # c,
                      \A w \in Components :
                        DependsOn(c, w) => \E i \in 1..(j - 1) : sorted[i] = w
               PROVE  sorted[j] < c
    BY DEF StableOrder
  <2>1. Preds(edges, c) \subseteq Before(sorted, j)
    BY DEF IInv, BuildInv, EdgeInv, Preds, Before
  <2>2. j \in 1..j /\ 1..(j - 1) \subseteq 1..j
    BY DEF IInv, TypeOK
  <2>3. c \notin Before(sorted, j) /\ c # sorted[j]
    BY <2>2 DEF Before
  <2> QED BY <2>1, <2>3 DEF IInv, BuildInv, StableInv
<1> QED BY <1>1, Invariant, PTL

(* What the checks of the declarations have established.                   *)
Proper(c) ==
  /\ ~NamedTwice(c)
  /\ \A d \in declared[c].writes : d.name # Blank

Apart(c, w) ==
  \A d \in declared[c].writes, e \in declared[w].writes : d.name # e.name

Matched(c, w) ==
  \A r \in declared[c].reads, d \in declared[w].writes :
    r.name = d.name => r.unit = d.unit

CheckedInv ==
  /\ \A c \in Components : phase # "writes" \/ c < at => Proper(c)
  /\ \A c, w \in Components :
       c # w /\ (phase # "writes" \/ (c < at /\ w < at)) => Apart(c, w)
  /\ \A c, w \in Components :
       phase \in {"sort", "built"} \/ (phase = "edges" /\ c < at) => Matched(c, w)

(* Each of these components waits for another one of them.                 *)
Circular(S) == \A c \in S : \E w \in S : DependsOn(c, w)

(* None of them is ever placed, and a place is taken by one component.     *)
PlacedInv ==
  /\ \A S \in SUBSET Components : Circular(S) => S \cap Placed(sorted) = {}
  /\ Cardinality(Placed(sorted)) = Len(sorted)

VerdictInv ==
  /\ phase = "failed" => Wrong
  /\ phase # "failed" => CheckedInv /\ PlacedInv

(* There are N components.                                                 *)
LEMMA AllComponents == IsFiniteSet(Components) /\ Cardinality(Components) = N
<1>1. /\ IsFiniteSet(1..N)
      /\ Cardinality(1..N) = IF 1 > N THEN 0 ELSE N - 1 + 1
  BY FS_Interval
<1>2. (IF 1 > N THEN 0 ELSE N - 1 + 1) = N
  OBVIOUS
<1> QED BY <1>1, <1>2 DEF Components

(* The verdict is on the declarations, which Build does not change.        *)
LEMMA SameDeclarations ==
  ASSUME UNCHANGED declared
  PROVE  /\ Wrong' <=> Wrong
         /\ \A S : Circular(S)' <=> Circular(S)
<1>1. \A c, w : DependsOn(c, w)' <=> DependsOn(c, w)
  BY DEF DependsOn
<1> QED BY <1>1 DEF Wrong, NamedTwice, Circular

(* A record of writersBySignal is a write of a component visited before.   *)
LEMMA WrittenBy ==
  ASSUME TypeOK, WrittenInv, NEW v \in written
  PROVE  /\ v.by \in Components
         /\ phase # "writes" \/ v.by < at
         /\ \E d \in declared[v.by].writes : d.name = v.name /\ d.unit = v.unit
<1> DEFINE d == [name |-> v.name, unit |-> v.unit]
<1>1. v \in [name : Names, unit : Units, by : Components]
  BY DEF TypeOK
<1>2. d \in Dependencies /\ d.name = v.name /\ d.unit = v.unit
  BY <1>1 DEF Dependencies
<1>3. v = [name |-> d.name, unit |-> d.unit, by |-> v.by]
  BY <1>1
<1> HIDE DEF d
<1> QED BY <1>1, <1>2, <1>3 DEF WrittenInv

(* Every write of a component visited before is recorded.                  *)
LEMMA Recorded ==
  ASSUME TypeOK, WrittenInv, NEW w \in Components, NEW d \in declared[w].writes,
         phase # "writes" \/ w < at
  PROVE  \E v \in written : v.name = d.name /\ v.unit = d.unit /\ v.by = w
<1>1. d \in Dependencies
  BY DEF TypeOK
<1>2. [name |-> d.name, unit |-> d.unit, by |-> w] \in written
  BY <1>1 DEF WrittenInv
<1> QED BY <1>2

(* At first nothing is checked and nothing is placed.                      *)
LEMMA InitVerdict == Init => VerdictInv
<1> SUFFICES ASSUME Init PROVE VerdictInv
  OBVIOUS
<1>1. CheckedInv
  BY DEF Init, CheckedInv, Components
<1>2. Placed(sorted) = {} /\ Len(sorted) = 0
  BY DEF Init, Placed
<1>3. PlacedInv
  BY <1>2, FS_EmptySet DEF PlacedInv
<1> QED BY <1>1, <1>3 DEF VerdictInv, Init

(* The loop over the writes fails where a declaration is wrong.            *)
LEMMA CollectVerdict ==
  ASSUME IInv, VerdictInv, CollectFails \/ CollectWrites
  PROVE  VerdictInv'
<1>0. /\ phase = "writes" /\ at \in Components /\ declared' = declared
      /\ TypeOK /\ WrittenInv /\ CheckedInv /\ PlacedInv
  BY DEF CollectFails, CollectWrites, Fail, IInv, BuildInv, VerdictInv, TypeOK,
         Components
<1>1. CASE CollectFails
  <2>1. phase' = "failed" /\ WritesInvalid(at)
    BY <1>1 DEF CollectFails, Fail
  <2>2. CASE \E d \in declared[at].writes, v \in written : d.name = v.name
    <3>1. PICK d \in declared[at].writes, v \in written : d.name = v.name
      BY <2>2
    <3>2. v.by \in Components \ {at}
      BY <1>0, WrittenBy DEF Components
    <3>3. \E e \in declared[v.by].writes : d.name = e.name
      BY <1>0, <3>1, WrittenBy
    <3> QED BY <1>0, <2>1, <3>2, <3>3 DEF VerdictInv, Wrong
  <2>3. CASE \/ \E d \in declared[at].writes : d.name = Blank
             \/ NamedTwice(at)
    BY <1>0, <2>1, <2>3 DEF VerdictInv, Wrong, NamedTwice
  <2> QED BY <2>1, <2>2, <2>3 DEF WritesInvalid
<1>2. CASE CollectWrites
  <2>1. /\ phase' = "writes" /\ at' = at + 1 /\ sorted' = sorted
        /\ ~WritesInvalid(at)
    BY <1>0, <1>2 DEF CollectWrites
  <2>2. Proper(at)
    BY <2>1 DEF WritesInvalid, Proper
  <2>3. ASSUME NEW w \in Components, w < at PROVE Apart(at, w) /\ Apart(w, at)
    <3>1. ASSUME NEW d \in declared[at].writes, NEW e \in declared[w].writes
          PROVE  d.name # e.name
      <4>1. PICK v \in written : v.name = e.name
        BY <1>0, <2>3, Recorded
      <4> QED BY <2>1, <4>1 DEF WritesInvalid
    <3> QED BY <3>1 DEF Apart
  <2>4. \A c \in Components : c < at + 1 <=> c < at \/ c = at
    BY <1>0 DEF Components
  <2>5. CheckedInv'
    <3>1. \A c \in Components : c < at' => Proper(c)
      BY <1>0, <2>1, <2>2, <2>4 DEF CheckedInv
    <3>2. \A c, w \in Components : c # w /\ c < at' /\ w < at' => Apart(c, w)
      BY <1>0, <2>1, <2>3, <2>4 DEF CheckedInv
    <3> QED BY <1>0, <2>1, <3>1, <3>2 DEF CheckedInv, Proper, Apart, NamedTwice
  <2>6. PlacedInv'
    BY <1>0, <2>1, SameDeclarations DEF PlacedInv
  <2> QED BY <2>1, <2>5, <2>6 DEF VerdictInv
<1> QED BY <1>1, <1>2

(* The loop over the reads fails at a wrong unit.                          *)
LEMMA ConnectVerdict ==
  ASSUME IInv, VerdictInv, ConnectFails \/ Connect
  PROVE  VerdictInv'
<1>0. /\ phase = "edges" /\ at \in Components /\ declared' = declared
      /\ TypeOK /\ WrittenInv /\ CheckedInv /\ PlacedInv
  BY DEF ConnectFails, Connect, Fail, IInv, BuildInv, VerdictInv, TypeOK, Components
<1>1. CASE ConnectFails
  <2>1. phase' = "failed" /\ ReadsInvalid(at)
    BY <1>1 DEF ConnectFails, Fail
  <2>2. PICK r \in declared[at].reads, v \in written :
               r.name = v.name /\ r.unit # v.unit
    BY <2>1 DEF ReadsInvalid
  <2>3. v.by \in Components
    BY <1>0, WrittenBy
  <2>4. \E d \in declared[v.by].writes : r.name = d.name /\ r.unit # d.unit
    BY <1>0, <2>2, WrittenBy
  <2> QED BY <1>0, <2>1, <2>3, <2>4 DEF VerdictInv, Wrong
<1>2. CASE Connect
  <2>1. /\ phase' = "edges" /\ at' = at + 1 /\ sorted' = sorted
        /\ ~ReadsInvalid(at)
    BY <1>0, <1>2 DEF Connect
  <2>2. ASSUME NEW w \in Components PROVE Matched(at, w)
    <3>1. ASSUME NEW r \in declared[at].reads, NEW d \in declared[w].writes,
                 r.name = d.name
          PROVE  r.unit = d.unit
      <4>1. PICK v \in written : v.name = d.name /\ v.unit = d.unit
        BY <1>0, Recorded
      <4> QED BY <2>1, <3>1, <4>1 DEF ReadsInvalid
    <3> QED BY <3>1 DEF Matched
  <2>3. \A c \in Components : c < at + 1 <=> c < at \/ c = at
    BY <1>0 DEF Components
  <2>4. CheckedInv'
    <3>1. \A c, w \in Components : c < at' => Matched(c, w)
      BY <1>0, <2>1, <2>2, <2>3 DEF CheckedInv
    <3>2. \A c, w \in Components : Proper(c) /\ (c # w => Apart(c, w))
      BY <1>0 DEF CheckedInv
    <3> QED BY <1>0, <2>1, <3>1, <3>2 DEF CheckedInv, Proper, Apart, NamedTwice, Matched
  <2>5. PlacedInv'
    BY <1>0, <2>1, SameDeclarations DEF PlacedInv
  <2> QED BY <2>1, <2>4, <2>5 DEF VerdictInv
<1> QED BY <1>1, <1>2

(* The sort places no component of a cycle, and leaves nothing else.       *)
LEMMA VisitVerdict == IInv /\ VerdictInv /\ Visit => VerdictInv'
<1> SUFFICES ASSUME IInv, VerdictInv, Visit PROVE VerdictInv'
  OBVIOUS
<1>1. PICK node \in ready : Emit(node)
  BY DEF Visit
<1>2. /\ phase = "sort" /\ phase' = "sort" /\ node \in Components
      /\ UNCHANGED <<declared, at, edges>>
      /\ sorted' = Append(sorted, node)
      /\ TypeOK /\ EdgeInv /\ DegreeInv /\ SortInv /\ CheckedInv /\ PlacedInv
  BY <1>1 DEF Emit, IInv, BuildInv, VerdictInv, TypeOK
<1>3. /\ Placed(sorted') = Placed(sorted) \cup {node}
      /\ Len(sorted') = Len(sorted) + 1
  <2>1. sorted \in Seq(Components)
    BY <1>2 DEF TypeOK
  <2> QED BY <1>2, <2>1, Extended
<1>4. node \notin Placed(sorted) /\ Placed(sorted) \in SUBSET Components
  BY <1>2 DEF SortInv, Placed, TypeOK
<1>5. Cardinality(Placed(sorted')) = Len(sorted')
  BY <1>2, <1>3, <1>4, Finite, FS_AddElement DEF PlacedInv
<1>6. \A w \in Components : DependsOn(node, w) => w \in Placed(sorted)
  <2>1. Preds(edges, node) \ Placed(sorted) \in SUBSET Components
    BY DEF Preds
  <2>2. Cardinality(Preds(edges, node) \ Placed(sorted)) = 0
    BY <1>2 DEF SortInv, DegreeInv
  <2>3. Preds(edges, node) \subseteq Placed(sorted)
    BY <2>1, <2>2, Finite
  <2> QED BY <1>2, <2>3 DEF EdgeInv, Preds
<1>7. ASSUME NEW S \in SUBSET Components, Circular(S)
      PROVE  S \cap Placed(sorted') = {}
  <2>1. S \cap Placed(sorted) = {}
    BY <1>2, <1>7 DEF PlacedInv
  <2>2. node \notin S
    BY <1>6, <1>7, <2>1 DEF Circular
  <2> QED BY <1>3, <2>1, <2>2
<1>8. PlacedInv'
  BY <1>2, <1>5, <1>7, SameDeclarations DEF PlacedInv
<1>9. CheckedInv'
  BY <1>2 DEF CheckedInv, Proper, Apart, NamedTwice, Matched
<1> QED BY <1>2, <1>8, <1>9 DEF VerdictInv

(* A sort that ends early has found components that wait for each other.   *)
LEMMA FinishVerdict == IInv /\ VerdictInv /\ Finish => VerdictInv'
<1> SUFFICES ASSUME IInv, VerdictInv, Finish PROVE VerdictInv'
  OBVIOUS
<1>1. /\ phase = "sort" /\ ready = {} /\ UNCHANGED <<declared, at, sorted>>
      /\ phase' = IF Len(sorted) = N THEN "built" ELSE "failed"
      /\ TypeOK /\ EdgeInv /\ DegreeInv /\ SortInv /\ CheckedInv /\ PlacedInv
  BY DEF Finish, IInv, BuildInv, VerdictInv
<1>2. CASE Len(sorted) = N
  <2>1. CheckedInv'
    BY <1>1, <1>2 DEF CheckedInv, Proper, Apart, NamedTwice, Matched
  <2>2. PlacedInv'
    BY <1>1, SameDeclarations DEF PlacedInv
  <2> QED BY <1>1, <1>2, <2>1, <2>2 DEF VerdictInv
<1>3. CASE Len(sorted) # N
  <2> DEFINE S == Components \ Placed(sorted)
  <2>1. S # {}
    <3>1. Cardinality(Components) = N
      BY AllComponents
    <3>2. Placed(sorted) \subseteq Components
      BY <1>1 DEF Placed, TypeOK
    <3>3. S = {} => Placed(sorted) = Components
      BY <3>2
    <3> QED BY <1>1, <1>3, <3>1, <3>3 DEF PlacedInv
  <2>2. ASSUME NEW c \in S PROVE \E w \in S : DependsOn(c, w)
    <3>1. Cardinality(Preds(edges, c) \ Placed(sorted)) # 0
      BY <1>1, <2>2 DEF SortInv, DegreeInv
    <3>2. Preds(edges, c) \ Placed(sorted) # {}
      BY <3>1, FS_EmptySet
    <3> QED BY <1>1, <2>2, <3>2 DEF EdgeInv, Preds
  <2>3. S \in (SUBSET Components) \ {{}}
    BY <2>1
  <2> HIDE DEF S
  <2>4. Wrong
    BY <2>2, <2>3 DEF Wrong
  <2>5. Wrong'
    BY <1>1, <2>4, SameDeclarations
  <2> QED BY <1>1, <1>3, <2>5 DEF VerdictInv
<1> QED BY <1>2, <1>3

(* Every step keeps the verdict right.                                     *)
LEMMA StepVerdict == IInv /\ VerdictInv /\ [Next]_vars => VerdictInv'
<1> SUFFICES ASSUME IInv, VerdictInv, [Next]_vars PROVE VerdictInv'
  OBVIOUS
<1>1. CASE StartEdges \/ StartSort
  <2>1. /\ phase \in {"writes", "edges"} /\ at = N + 1
        /\ phase' = IF phase = "writes" THEN "edges" ELSE "sort"
        /\ UNCHANGED <<declared, sorted>>
        /\ phase = "writes" => at' = 1
        /\ CheckedInv /\ PlacedInv
    BY <1>1 DEF StartEdges, StartSort, IInv, TypeOK, VerdictInv
  <2>2. \A c \in Components : c < at /\ ~(c < 1)
    BY <2>1 DEF Components
  <2>3. CheckedInv'
    BY <2>1, <2>2 DEF CheckedInv, Proper, Apart, NamedTwice, Matched
  <2>4. PlacedInv'
    BY <2>1, SameDeclarations DEF PlacedInv
  <2> QED BY <2>1, <2>3, <2>4 DEF VerdictInv
<1>2. CASE UNCHANGED vars
  <2>1. UNCHANGED <<declared, phase, at, sorted>>
    BY <1>2 DEF vars
  <2>2. CheckedInv' <=> CheckedInv
    BY <2>1 DEF CheckedInv, Proper, Apart, NamedTwice, Matched
  <2>3. PlacedInv' <=> PlacedInv
    BY <2>1, SameDeclarations DEF PlacedInv
  <2> QED BY <2>1, <2>2, <2>3, SameDeclarations DEF VerdictInv
<1> QED
  BY <1>1, <1>2, CollectVerdict, ConnectVerdict, VisitVerdict, FinishVerdict DEF Next

(* Build fails exactly for declarations that are wrong.                    *)
THEOREM FailsExactly == Spec => []FailsIfWrong
<1>1. IInv /\ VerdictInv => FailsIfWrong
  <2> SUFFICES ASSUME IInv, VerdictInv, phase = "built", Wrong PROVE FALSE
    BY DEF VerdictInv, FailsIfWrong
  <2>1. \A c, w \in Components :
          Proper(c) /\ (c # w => Apart(c, w)) /\ Matched(c, w)
    BY DEF VerdictInv, CheckedInv
  <2>2. PICK S \in (SUBSET Components) \ {{}} : Circular(S)
    BY <2>1 DEF Wrong, Proper, Apart, NamedTwice, Matched, Circular
  <2>3. Placed(sorted) = Components
    <3>1. Cardinality(Components) = N /\ IsFiniteSet(Components)
      BY AllComponents
    <3>2. Placed(sorted) \in SUBSET Components
      BY DEF Placed, IInv, TypeOK
    <3>3. Cardinality(Placed(sorted)) = N
      BY DEF VerdictInv, PlacedInv, IInv, BuildInv, SortInv
    <3> QED BY <3>1, <3>2, <3>3, FS_Subset
  <2> QED BY <2>2, <2>3 DEF VerdictInv, PlacedInv
<1> QED BY <1>1, Invariant, InitVerdict, StepVerdict, PTL DEF Spec
=============================================================================
