--------------------------- MODULE SystemBuilder ---------------------------
(***************************************************************************)
(* SimSystemBuilder.Build: the order in which SimSystem.Tick runs the      *)
(* components of a system.  Components are the numbers 1..N, in the order  *)
(* of Add; a dependency is a signal name (letter case aside) with a unit.  *)
(***************************************************************************)
EXTENDS Integers, Sequences, FiniteSets

CONSTANTS
  N,       \* number of components added
  Names,   \* signal names
  Units,   \* unit types
  Blank,   \* the empty name
  Inputs   \* the declarations a component may have: its reads, its writes,
           \* and those of the writes that it lists more than once

Dependencies == [name : Names, unit : Units]

ASSUME BuilderAssumption ==
  /\ N \in Nat
  /\ Inputs \subseteq [reads : SUBSET Dependencies, writes : SUBSET Dependencies,
                      again : SUBSET Dependencies]
  /\ \A input \in Inputs : input.again \subseteq input.writes

VARIABLES
  declared,  \* Reads and Writes of each component
  phase,     \* where Build is
  at,        \* the component a loop of Build is at
  written,   \* writersBySignal: records of name, unit and component
  edges,     \* outgoing, as pairs <<writer, reader>>
  indegree,  \* indegree
  ready,     \* ready, kept sorted by the order of Add
  sorted     \* sorted

vars == <<declared, phase, at, written, edges, indegree, ready, sorted>>

Components == 1..N

Init ==
  /\ declared \in [Components -> Inputs]
  /\ phase = "writes"
  /\ at = 1
  /\ written = {}
  /\ edges = {}
  /\ indegree = [c \in Components |-> 0]
  /\ ready = {}
  /\ sorted = <<>>

Fail ==
  /\ phase' = "failed"
  /\ UNCHANGED <<declared, at, written, edges, indegree, ready, sorted>>

-----------------------------------------------------------------------------
(* The writers: a blank name and a second writer are errors, also when one *)
(* component declares the signal twice.                                    *)

NamedTwice(c) ==
  \/ declared[c].again # {}
  \/ \E d, e \in declared[c].writes : d # e /\ d.name = e.name

WritesInvalid(c) ==
  LET writes == declared[c].writes
  IN  \/ \E w \in writes : w.name = Blank
      \/ \E w \in writes, other \in written : w.name = other.name
      \/ NamedTwice(c)

CollectFails ==
  /\ phase = "writes"
  /\ at <= N
  /\ WritesInvalid(at)
  /\ Fail

CollectWrites ==
  /\ phase = "writes"
  /\ at <= N
  /\ ~WritesInvalid(at)
  /\ written' = written \cup
       {[name |-> d.name, unit |-> d.unit, by |-> at] : d \in declared[at].writes}
  /\ at' = at + 1
  /\ UNCHANGED <<declared, phase, edges, indegree, ready, sorted>>

StartEdges ==
  /\ phase = "writes"
  /\ at > N
  /\ phase' = "edges"
  /\ at' = 1
  /\ UNCHANGED <<declared, written, edges, indegree, ready, sorted>>

-----------------------------------------------------------------------------
(* The edges writer -> reader: a signal nobody writes is an external       *)
(* input, another unit is an error, and a component may read itself.       *)

ReadsInvalid(c) ==
  \E r \in declared[c].reads, w \in written : r.name = w.name /\ r.unit # w.unit

WritersFor(c) ==
  {w.by : w \in {v \in written : v.by # c /\ \E r \in declared[c].reads :
                                               r.name = v.name}}

ConnectFails ==
  /\ phase = "edges"
  /\ at <= N
  /\ ReadsInvalid(at)
  /\ Fail

(* Slip: indegree counts the signals read and not the edges added.         *)
ConnectPerSignal ==
  /\ phase = "edges"
  /\ at <= N
  /\ ~ReadsInvalid(at)
  /\ edges' = edges \cup (WritersFor(at) \X {at})
  /\ indegree' = [indegree EXCEPT ![at] =
       Cardinality({r \in declared[at].reads :
                      \E w \in written : w.by # at /\ w.name = r.name})]
  /\ at' = at + 1
  /\ UNCHANGED <<declared, phase, written, ready, sorted>>

(* Slip: an external input ends the loop over the reads.                   *)
ConnectStopsAtExternal ==
  LET writers == IF \E r \in declared[at].reads : \A w \in written : r.name # w.name
                   THEN {} ELSE WritersFor(at)
  IN  /\ phase = "edges"
      /\ at <= N
      /\ ~ReadsInvalid(at)
      /\ edges' = edges \cup (writers \X {at})
      /\ indegree' = [indegree EXCEPT ![at] = Cardinality(writers)]
      /\ at' = at + 1
      /\ UNCHANGED <<declared, phase, written, ready, sorted>>

Connect ==
  /\ phase = "edges"
  /\ at <= N
  /\ ~ReadsInvalid(at)
  /\ edges' = edges \cup (WritersFor(at) \X {at})
  /\ indegree' = [indegree EXCEPT ![at] = Cardinality(WritersFor(at))]
  /\ at' = at + 1
  /\ UNCHANGED <<declared, phase, written, ready, sorted>>

StartSort ==
  /\ phase = "edges"
  /\ at > N
  /\ phase' = "sort"
  /\ ready' = {c \in Components : indegree[c] = 0}
  /\ UNCHANGED <<declared, at, written, edges, indegree, sorted>>

-----------------------------------------------------------------------------
(* Kahn's algorithm, always with the ready component that was added first. *)

Emit(node) ==
  /\ phase = "sort"
  /\ node \in ready
  /\ sorted' = Append(sorted, node)
  /\ indegree' = [c \in Components |->
       IF <<node, c>> \in edges THEN indegree[c] - 1 ELSE indegree[c]]
  /\ ready' = (ready \ {node}) \cup
       {c \in Components : <<node, c>> \in edges /\ indegree[c] = 1}
  /\ UNCHANGED <<declared, phase, at, written, edges>>

(* Slip: ready is not sorted again after components are added to it.       *)
VisitNewest ==
  \E node \in ready :
    /\ \A other \in ready : node >= other
    /\ Emit(node)

Visit ==
  \E node \in ready :
    /\ \A other \in ready : node <= other
    /\ Emit(node)

Finish ==
  /\ phase = "sort"
  /\ ready = {}
  /\ phase' = IF Len(sorted) = N THEN "built" ELSE "failed"
  /\ UNCHANGED <<declared, at, written, edges, indegree, ready, sorted>>

Next ==
  \/ CollectFails \/ CollectWrites \/ StartEdges
  \/ ConnectFails \/ Connect \/ StartSort
  \/ Visit \/ Finish

Spec == Init /\ [][Next]_vars

-----------------------------------------------------------------------------
(* Every variable stays in its domain.                                     *)
TypeOK ==
  /\ declared \in [Components -> Inputs]
  /\ phase \in {"writes", "edges", "sort", "built", "failed"}
  /\ at \in 1..(N + 1)
  /\ written \subseteq [name : Names, unit : Units, by : Components]
  /\ edges \subseteq Components \X Components
  /\ indegree \in [Components -> Nat]
  /\ ready \subseteq Components
  /\ sorted \in Seq(Components)

(* What the components declare, independently of how Build goes about it:  *)
(* c depends on another component that writes a signal c reads.            *)
DependsOn(c, w) ==
  /\ c # w
  /\ \E r \in declared[c].reads, d \in declared[w].writes : r.name = d.name

(* The order is topological: when a component ticks, every other component *)
(* whose output it reads has ticked before, so that nothing it reads is a  *)
(* tick old; and no component is left out or ticks twice.                  *)
WritersFirst ==
  phase = "built" =>
    /\ \A j \in 1..Len(sorted), w \in Components :
         DependsOn(sorted[j], w) => \E i \in 1..(j - 1) : sorted[i] = w
    /\ Len(sorted) = N
    /\ \A i, j \in 1..Len(sorted) : i # j => sorted[i] # sorted[j]

(* The order is stable: each place has the first-added component of those  *)
(* whose writers are all placed before.                                    *)
StableOrder ==
  phase \in {"sort", "built"} =>
    \A j \in 1..Len(sorted), c \in Components :
      (/\ \A i \in 1..j : sorted[i] # c
       /\ \A w \in Components : DependsOn(c, w) => \E i \in 1..(j - 1) : sorted[i] = w)
      => sorted[j] < c

(* Build fails exactly when the declarations are wrong: a blank or doubled *)
(* writer, a unit mismatch, or components that all wait for each other.    *)
Wrong ==
  \/ \E c \in Components :
       \/ NamedTwice(c)
       \/ \E d \in declared[c].writes : d.name = Blank
       \/ \E w \in Components \ {c} :
            \E d \in declared[c].writes, e \in declared[w].writes : d.name = e.name
  \/ \E c, w \in Components :
       \E r \in declared[c].reads, d \in declared[w].writes :
         r.name = d.name /\ r.unit # d.unit
  \/ \E S \in (SUBSET Components) \ {{}} :
       \A c \in S : \E w \in S : DependsOn(c, w)

FailsIfWrong ==
  /\ phase = "failed" => Wrong
  /\ phase = "built" => ~Wrong
=============================================================================
