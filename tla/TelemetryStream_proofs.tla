----------------------- MODULE TelemetryStream_proofs -----------------------
(***************************************************************************)
(* For any simulations, clients and signals: whatever ticks run while a    *)
(* snapshot is copied, stored and sent, its signals are at most one tick   *)
(* older than its number; and what has been sent of the broadcasts of a    *)
(* simulation, to the group or to all, is received in the order of ticks.  *)
(***************************************************************************)
EXTENDS TelemetryStream, TLAPS

(* A snapshot, complete or not, that was numbered before it was copied.    *)
Copies == UNION {[S -> Int] : S \in SUBSET Signals}

GoodSnapshots ==
  {m \in [sim : Names, tick : Nat, initial : BOOLEAN, sigs : Copies] : Fresh(m)}

(* Those under way have a number the clock has reached.                    *)
IInv ==
  /\ tick \in [Sims -> Nat]
  /\ bmsg \in GoodSnapshots
  /\ bmsg.tick <= tick[Named[bmsg.sim]]
  /\ hmsg \in [Clients -> GoodSnapshots]
  /\ \A c \in Clients : hmsg[c].tick <= tick[Named[hmsg[c].sim]]
  /\ inbox \in [Clients -> Seq(GoodSnapshots)]
  /\ latest \in [Clients -> [Sims -> GoodSnapshots]]
  /\ bsim \in 1..Len(SimOrder)

(* A list of simulations names simulations.                                *)
LEMMA ListedSims ==
  ASSUME NEW i \in 1..Len(SimOrder)
  PROVE  SimOrder[i] \in Sims /\ SimOrder[i] \in Names /\ Named[SimOrder[i]] \in Sims
<1>1. SimOrder \in Seq(Sims)
  BY StreamAssumption DEF Sims
<1>2. SimOrder[i] \in Sims
  BY <1>1
<1> QED BY <1>2, StreamAssumption

(* Nothing has been copied into an empty snapshot.                         *)
LEMMA NewSnapshot ==
  ASSUME NEW s \in Names, NEW n \in Nat, NEW i \in BOOLEAN
  PROVE  [sim |-> s, tick |-> n, sigs |-> <<>>, initial |-> i] \in GoodSnapshots
<1>1. <<>> \in [{} -> Int]
  OBVIOUS
<1>2. <<>> \in Copies
  BY <1>1 DEF Copies
<1>3. DOMAIN <<>> = {}
  OBVIOUS
<1> QED BY <1>2, <1>3 DEF GoodSnapshots, Fresh

(* A signal that is copied is at most one tick older than the clock, and   *)
(* the snapshot's number is one the clock has reached.                     *)
LEMMA CopyKeepsGood ==
  ASSUME tick \in [Sims -> Nat], NEW m \in GoodSnapshots, NEW x \in Signals,
         m.tick <= tick[Named[m.sim]]
  PROVE  /\ CopySignal(m, x) \in GoodSnapshots
         /\ CopySignal(m, x).tick = m.tick
         /\ CopySignal(m, x).sim = m.sim
<1> DEFINE D == DOMAIN m.sigs \cup {x}
           f == [y \in D |-> IF y = x THEN Version(Named[m.sim], x) ELSE m.sigs[y]]
<1>0. Named[m.sim] \in Sims
  BY StreamAssumption DEF GoodSnapshots
<1>1. m.sim \in Names /\ m.tick \in Nat /\ m.initial \in BOOLEAN /\ m.sigs \in Copies /\ Fresh(m)
  BY DEF GoodSnapshots
<1>2. PICK S \in SUBSET Signals : m.sigs \in [S -> Int]
  BY <1>1 DEF Copies
<1>3. D \in SUBSET Signals /\ DOMAIN m.sigs = S
  BY <1>2
<1>4. /\ Version(Named[m.sim], x) \in Int
      /\ Version(Named[m.sim], x) + 1 >= m.tick
  BY <1>0, <1>1 DEF Version
<1>5. f \in [D -> Int]
  BY <1>2, <1>3, <1>4
<1>6. f \in Copies
  BY <1>3, <1>5 DEF Copies
<1>7. \A y \in D : f[y] + 1 >= m.tick
  BY <1>1, <1>2, <1>3, <1>4 DEF Fresh
<1>8. CopySignal(m, x) = [sim |-> m.sim, tick |-> m.tick, initial |-> m.initial, sigs |-> f]
  BY DEF CopySignal, GoodSnapshots
<1> HIDE DEF f
<1>9. Fresh(CopySignal(m, x))
  BY <1>5, <1>7, <1>8 DEF Fresh
<1> QED BY <1>1, <1>6, <1>8, <1>9 DEF GoodSnapshots

(* Messages sent are good when the snapshot is.                            *)
LEMMA SendKeepsGood ==
  ASSUME NEW m \in GoodSnapshots, NEW S, inbox \in [Clients -> Seq(GoodSnapshots)],
         SendTo(S, m)
  PROVE  inbox' \in [Clients -> Seq(GoodSnapshots)]
BY DEF SendTo

(* The first snapshots are empty.                                          *)
LEMMA InitIInv == Init => IInv
<1> SUFFICES ASSUME Init PROVE IInv
  OBVIOUS
<1>1. Len(SimOrder) \in Nat \ {0}
  BY StreamAssumption
<1>2. SimOrder[1] \in Names /\ Named[SimOrder[1]] \in Sims /\ Sims \subseteq Names
  BY <1>1, ListedSims, StreamAssumption
<1>3. \A s \in Names : Empty(s) \in GoodSnapshots
  BY NewSnapshot DEF Empty
<1>4. Nothing \in GoodSnapshots /\ Nothing.tick = 0 /\ Named[Nothing.sim] \in Sims
  BY <1>2, <1>3 DEF Nothing, Empty
<1>5. \A s \in Sims : Empty(s) \in GoodSnapshots
  BY <1>2, <1>3
<1>6. <<>> \in Seq(GoodSnapshots)
  OBVIOUS
<1>7. inbox \in [Clients -> Seq(GoodSnapshots)]
  BY <1>6 DEF Init
<1>8. latest \in [Clients -> [Sims -> GoodSnapshots]]
  BY <1>5 DEF Init
<1> QED BY <1>1, <1>4, <1>7, <1>8 DEF Init, IInv

(* Moving on to the next simulation of the list, or waiting.               *)
LEMMA NextInList ==
  ASSUME bsim \in 1..Len(SimOrder), NextSim PROVE bsim' \in 1..Len(SimOrder)
<1>1. Len(SimOrder) \in Nat \ {0}
  BY StreamAssumption
<1> QED BY <1>1 DEF NextSim

(* The snapshots of invocations, where one of them changes.                *)
LEMMA InvocationKeepsGood ==
  ASSUME IInv, NEW c \in Clients, NEW m \in GoodSnapshots,
         m.tick <= tick[Named[m.sim]], hmsg' = [hmsg EXCEPT ![c] = m]
  PROVE  /\ hmsg' \in [Clients -> GoodSnapshots]
         /\ \A d \in Clients : hmsg'[d].tick <= tick[Named[hmsg'[d].sim]]
BY DEF IInv

(* Every step keeps it.                                                    *)
LEMMA StepIInv == IInv /\ [Next]_vars => IInv'
<1> SUFFICES ASSUME IInv, [Next]_vars PROVE IInv'
  OBVIOUS
<1> USE DEF simVars, bVars, hubVars, clientVars
<1>e. \A s \in Names : Empty(s) \in GoodSnapshots /\ Empty(s).tick = 0 /\ Empty(s).sim = s
  BY NewSnapshot DEF Empty
<1>n. Nothing \in GoodSnapshots /\ Nothing.tick = 0 /\ Named[Nothing.sim] \in Sims
  <2>1. SimOrder[1] \in Names /\ Named[SimOrder[1]] \in Sims
    BY ListedSims, StreamAssumption
  <2> QED BY <1>e, <2>1 DEF Nothing
<1>g. \A m \in GoodSnapshots :
        m.sim \in Names /\ Named[m.sim] \in Sims /\ m.tick \in Nat
  BY StreamAssumption DEF GoodSnapshots
<1>z. Nothing.tick <= tick[Named[Nothing.sim]]
  BY <1>n DEF IInv
<1>1. ASSUME NEW s \in Sims, Advance(s) PROVE IInv'
  BY <1>1, <1>g DEF Advance, IInv
<1>2. ASSUME NEW s \in Sims, NEW x \in Signals, WriteSignal(s, x) PROVE IInv'
  BY <1>2 DEF WriteSignal, IInv
<1>3. ASSUME NEW s \in Sims, TrySetActive(s) PROVE IInv'
  BY <1>3 DEF TrySetActive, IInv
<1>4. CASE Look
  <2>1. SimOrder[bsim] \in Names /\ Named[SimOrder[bsim]] \in Sims
    BY ListedSims DEF IInv
  <2>2. CASE LookAgain(SimOrder[bsim])
    BY <1>4, <2>2, NextInList DEF Look, LookAgain, IInv
  <2>3. CASE LookNew(SimOrder[bsim])
    <3>1. tick[Named[SimOrder[bsim]]] \in Nat
      BY <2>1 DEF IInv
    <3>2. bmsg' \in GoodSnapshots
      BY <2>1, <2>3, <3>1, NewSnapshot DEF LookNew, Label
    <3>3. tick' = tick /\ bmsg'.tick <= tick'[Named[bmsg'.sim]]
      BY <1>4, <2>3, <3>1 DEF Look, LookNew, Label
    <3> QED BY <1>4, <2>3, <3>2, <3>3 DEF Look, LookNew, IInv
  <2> QED BY <1>4, <2>2, <2>3 DEF Look
<1>5. ASSUME NEW x \in Signals, Copy(x) PROVE IInv'
  BY <1>5, CopyKeepsGood DEF Copy, IInv
<1>6. CASE AppendAsync
  BY <1>6 DEF AppendAsync, IInv
<1>7. CASE SendGroup
  <2>1. inbox' \in [Clients -> Seq(GoodSnapshots)]
    BY <1>7, SendKeepsGood DEF SendGroup, IInv
  <2> QED BY <1>7, <2>1 DEF SendGroup, IInv
<1>8. CASE SendAll
  <2>1. inbox' \in [Clients -> Seq(GoodSnapshots)]
    BY <1>8, SendKeepsGood DEF SendAll, IInv
  <2> QED BY <1>8, <2>1, <1>n, <1>z, NextInList DEF SendAll, IInv
<1>9. CASE Wake
  BY <1>9 DEF Wake, IInv
<1>10. CASE BroadcasterEnds
  BY <1>10, <1>n, <1>z DEF BroadcasterEnds, IInv
<1>11. ASSUME NEW c \in Clients, NEW n \in Asked, JoinSim(c, n) PROVE IInv'
  <2>0. n \in Names /\ Named[n] \in Sims
    BY StreamAssumption
  <2>1. Empty(n).tick <= tick[Named[Empty(n).sim]]
    BY <1>e, <2>0 DEF IInv
  <2> QED BY <1>11, <1>e, <2>0, <2>1, InvocationKeepsGood DEF JoinSim, IInv
<1>12. ASSUME NEW c \in Clients, NEW n \in Asked, LeaveSim(c, n) PROVE IInv'
  BY <1>12 DEF LeaveSim, IInv
<1>13. ASSUME NEW c \in Clients, AddToGroup(c) PROVE IInv'
  BY <1>13 DEF AddToGroup, IInv
<1>14. ASSUME NEW c \in Clients, ReadTick(c) PROVE IInv'
  <2> DEFINE m == Label(hmsg[c].sim, TRUE)
  <2>1. hmsg[c].sim \in Names /\ tick[Named[hmsg[c].sim]] \in Nat
    BY <1>g DEF IInv
  <2>2. m \in GoodSnapshots
    BY <2>1, NewSnapshot DEF Label
  <2>3. m.tick <= tick[Named[m.sim]]
    BY <2>1 DEF Label
  <2> HIDE DEF m
  <2>4. hmsg' = [hmsg EXCEPT ![c] = m]
    BY <1>14 DEF ReadTick, m
  <2> QED BY <1>14, <2>3, <2>4, <2>2, InvocationKeepsGood DEF ReadTick, IInv
<1>15. ASSUME NEW c \in Clients, NEW x \in Signals, CopyInitial(c, x) PROVE IInv'
  <2> DEFINE m == CopySignal(hmsg[c], x)
  <2>1. m \in GoodSnapshots /\ m.tick <= tick[Named[m.sim]]
    BY CopyKeepsGood DEF IInv
  <2>2. hmsg' = [hmsg EXCEPT ![c] = m]
    BY <1>15 DEF CopyInitial, IInv
  <2> QED BY <1>15, <2>1, <2>2, InvocationKeepsGood DEF CopyInitial, IInv
<1>16. ASSUME NEW c \in Clients, SendInitial(c) PROVE IInv'
  <2>1. inbox' \in [Clients -> Seq(GoodSnapshots)]
    BY <1>16, SendKeepsGood DEF SendInitial, IInv
  <2> QED BY <1>16, <2>1, <1>n, <1>z, InvocationKeepsGood DEF SendInitial, IInv
<1>17. ASSUME NEW c \in Clients, AddFails(c) PROVE IInv'
  BY <1>17, <1>n, <1>z, InvocationKeepsGood DEF AddFails, IInv
<1>18. ASSUME NEW c \in Clients, SendInitialFails(c) PROVE IInv'
  BY <1>18, <1>n, <1>z, InvocationKeepsGood DEF SendInitialFails, IInv
<1>19. ASSUME NEW c \in Clients, Receive(c) PROVE IInv'
  <2>1. Head(inbox[c]) \in GoodSnapshots /\ Tail(inbox[c]) \in Seq(GoodSnapshots)
    BY <1>19 DEF Receive, IInv
  <2>2. latest' \in [Clients -> [Sims -> GoodSnapshots]]
    BY <1>19, <2>1, <1>g DEF Receive, Keep, IInv
  <2> QED BY <1>19, <2>1, <2>2 DEF Receive, IInv
<1>20. ASSUME NEW c \in Clients, Lose(c) PROVE IInv'
  <2>1. <<>> \in Seq(GoodSnapshots)
    OBVIOUS
  <2>2. inbox' \in [Clients -> Seq(GoodSnapshots)]
    BY <1>20, <2>1 DEF Lose, IInv
  <2> QED BY <1>20, <2>2, <1>n, <1>z, InvocationKeepsGood DEF Lose, IInv
<1>21. CASE UNCHANGED vars
  BY <1>21 DEF vars, IInv
<1> QED BY <1>1, <1>2, <1>3, <1>4, <1>5, <1>6, <1>7, <1>8, <1>9, <1>10, <1>11,
           <1>12, <1>13, <1>14, <1>15, <1>16, <1>17, <1>18, <1>19, <1>20, <1>21
        DEF Next, Simulate, Broadcast, FinishJoin

(* The invariant holds of every run.                                       *)
THEOREM Invariant == Spec => []IInv
BY InitIInv, StepIInv, PTL DEF Spec

(* What a client has or is sent under the number of a tick has signals of  *)
(* that tick or the one before.                                            *)
THEOREM SnapshotsAreFresh == Spec => []SnapshotsFresh
<1>1. IInv => SnapshotsFresh
  <2> SUFFICES ASSUME IInv PROVE SnapshotsFresh
    OBVIOUS
  <2>1. \A c \in Clients, s \in Sims : Fresh(latest[c][s])
    BY DEF IInv, GoodSnapshots
  <2>2. \A c \in Clients : \A i \in DOMAIN inbox[c] : Fresh(inbox[c][i])
    <3> SUFFICES ASSUME NEW c \in Clients, NEW i \in DOMAIN inbox[c]
                 PROVE  inbox[c][i] \in GoodSnapshots
      BY DEF GoodSnapshots
    <3> QED BY DEF IInv
  <2> QED BY <2>1, <2>2 DEF SnapshotsFresh
<1> QED BY <1>1, Invariant, PTL

(* Broadcasts of one simulation, m sent before n.                          *)
InOrder(m, n) ==
  ~m.initial /\ ~n.initial /\ Named[m.sim] = Named[n.sim] => m.tick <= n.tick

(* A broadcast's number has been published.                                *)
Published(m) == ~m.initial => m.tick <= lastPublished[Named[m.sim]]

(* The broadcaster's numbers grow, and the snapshot it works on has the    *)
(* last of them.                                                           *)
NumberInv ==
  /\ lastPublished \in [Sims -> Nat]
  /\ \A s \in Sims : lastPublished[s] <= tick[s]
  /\ bpc \in {"copy", "append", "group", "all"} =>
       ~bmsg.initial /\ bmsg.tick = lastPublished[Named[bmsg.sim]]
  /\ DOMAIN hpc = Clients
  /\ \A c \in Clients : hpc[c] \in {"copy", "send"} => hmsg[c].initial

(* What a client has and what is under way to it are in order.             *)
OrderInv ==
  /\ \A c \in Clients : \A i \in DOMAIN inbox[c] : Published(inbox[c][i])
  /\ \A c \in Clients, s \in Sims :
       Named[latest[c][s].sim] = s /\ Published(latest[c][s])
  /\ \A c \in Clients : \A i, j \in DOMAIN inbox[c] :
       i < j => InOrder(inbox[c][i], inbox[c][j])
  /\ \A c \in Clients, s \in Sims : \A i \in DOMAIN inbox[c] :
       InOrder(latest[c][s], inbox[c][i])

(* Snapshots that are numbered and named.                                  *)
LEMMA Numbered ==
  ASSUME NEW m \in GoodSnapshots
  PROVE  m.tick \in Nat /\ m.sim \in Names /\ Named[m.sim] \in Sims
BY StreamAssumption DEF GoodSnapshots

(* At first nothing is published.                                          *)
LEMMA InitOrder == Init => NumberInv /\ OrderInv
<1> SUFFICES ASSUME Init PROVE NumberInv /\ OrderInv
  OBVIOUS
<1>1. NumberInv
  BY DEF Init, NumberInv
<1>2. \A c \in Clients : DOMAIN inbox[c] = {}
  BY DEF Init
<1>3. \A c \in Clients, s \in Sims :
        latest[c][s].sim = s /\ latest[c][s].tick = 0 /\ Named[s] = s
  BY StreamAssumption DEF Init, Empty
<1>4. OrderInv
  BY <1>2, <1>3 DEF OrderInv, Published, Init
<1> QED BY <1>1, <1>4

(* Looking on publishes a later number, or none.                           *)
LEMMA LaterNumbers ==
  ASSUME IInv, NumberInv, OrderInv, UNCHANGED <<inbox, latest>>,
         lastPublished' \in [Sims -> Nat],
         \A s \in Sims : lastPublished[s] <= lastPublished'[s]
  PROVE  OrderInv'
<1>1. ASSUME NEW m \in GoodSnapshots, Published(m) PROVE Published(m)'
  BY <1>1, Numbered DEF Published, NumberInv
<1>2. \A c \in Clients : \A i \in DOMAIN inbox[c] : inbox[c][i] \in GoodSnapshots
  BY DEF IInv
<1>3. \A c \in Clients, s \in Sims : latest[c][s] \in GoodSnapshots
  BY DEF IInv
<1>4. \A c \in Clients : \A i \in DOMAIN inbox[c] : Published(inbox[c][i])'
  BY <1>1, <1>2 DEF OrderInv
<1>5. \A c \in Clients, s \in Sims : Published(latest[c][s])'
  BY <1>1, <1>3 DEF OrderInv
<1> QED BY <1>4, <1>5 DEF OrderInv, InOrder, Published

(* What is sent is an initial snapshot or the broadcast published last.    *)
LEMMA SendOrder ==
  ASSUME IInv, NumberInv, OrderInv, NEW m \in GoodSnapshots, NEW S, SendTo(S, m),
         m.initial \/ m.tick = lastPublished[Named[m.sim]],
         UNCHANGED <<latest, lastPublished>>
  PROVE  OrderInv'
<1>1. ASSUME NEW n, Published(n) PROVE InOrder(n, m)
  BY <1>1 DEF Published, InOrder
<1>2. Published(m)
  BY Numbered DEF Published, NumberInv
<1>3. ASSUME NEW c \in Clients
      PROVE  /\ DOMAIN inbox[c] = 1..Len(inbox[c]) /\ Len(inbox[c]) \in Nat
             /\ \A i \in DOMAIN inbox'[c] :
                  \/ i \in DOMAIN inbox[c] /\ inbox'[c][i] = inbox[c][i]
                  \/ i = Len(inbox[c]) + 1 /\ inbox'[c][i] = m
  <2>1. inbox[c] \in Seq(GoodSnapshots)
    BY DEF IInv
  <2>2. inbox'[c] = IF c \in S THEN Append(inbox[c], m) ELSE inbox[c]
    BY DEF SendTo
  <2> QED BY <2>1, <2>2
<1>4. ASSUME NEW c \in Clients, NEW i \in DOMAIN inbox'[c]
      PROVE  Published(inbox'[c][i])
  BY <1>2, <1>3, <1>4 DEF OrderInv
<1>5. ASSUME NEW c \in Clients, NEW i \in DOMAIN inbox'[c],
             NEW j \in DOMAIN inbox'[c], i < j
      PROVE  InOrder(inbox'[c][i], inbox'[c][j])
  <2>1. i \in DOMAIN inbox[c] /\ inbox'[c][i] = inbox[c][i]
    BY <1>3, <1>5
  <2>2. CASE j \in DOMAIN inbox[c] /\ inbox'[c][j] = inbox[c][j]
    BY <1>5, <2>1, <2>2 DEF OrderInv
  <2>3. CASE inbox'[c][j] = m
    BY <1>1, <2>1, <2>3 DEF OrderInv
  <2> QED BY <1>3, <2>2, <2>3
<1>6. ASSUME NEW c \in Clients, NEW s \in Sims, NEW i \in DOMAIN inbox'[c]
      PROVE  InOrder(latest[c][s], inbox'[c][i])
  BY <1>1, <1>3, <1>6 DEF OrderInv
<1> QED BY <1>4, <1>5, <1>6 DEF OrderInv, InOrder, Published

(* The client takes the first of what is under way.                        *)
LEMMA ReceiveOrder ==
  ASSUME IInv, NumberInv, OrderInv, NEW c \in Clients, Receive(c)
  PROVE  OrderInv'
<1> DEFINE m == Head(inbox[c])
           t == Named[m.sim]
<1>1. /\ inbox[c] \in Seq(GoodSnapshots) /\ inbox[c] # <<>>
      /\ inbox' = [inbox EXCEPT ![c] = Tail(@)]
      /\ latest' = [latest EXCEPT ![c][t] = m]
      /\ lastPublished' = lastPublished
      /\ inbox \in [Clients -> Seq(GoodSnapshots)]
      /\ latest \in [Clients -> [Sims -> GoodSnapshots]]
  BY DEF Receive, Keep, IInv, bVars
<1>2. m = inbox[c][1] /\ 1 \in DOMAIN inbox[c] /\ m \in GoodSnapshots /\ t \in Sims
  BY <1>1, Numbered
<1>3. \A i \in DOMAIN inbox'[c] :
        i + 1 \in DOMAIN inbox[c] /\ inbox'[c][i] = inbox[c][i + 1] /\ i >= 1
        /\ i \in Nat
  BY <1>1
<1>4. \A d \in Clients \ {c} : inbox'[d] = inbox[d] /\ latest'[d] = latest[d]
  BY <1>1
<1>5. /\ latest'[c][t] = m
      /\ \A s \in Sims \ {t} : latest'[c][s] = latest[c][s]
  BY <1>1, <1>2
<1> HIDE DEF m, t
<1>6. ASSUME NEW d \in Clients, NEW i \in DOMAIN inbox'[d]
      PROVE  Published(inbox'[d][i])
  BY <1>3, <1>4 DEF OrderInv
<1>7. ASSUME NEW d \in Clients, NEW i \in DOMAIN inbox'[d],
             NEW j \in DOMAIN inbox'[d], i < j
      PROVE  InOrder(inbox'[d][i], inbox'[d][j])
  <2>1. CASE d = c
    <3>1. i + 1 < j + 1
      BY <1>3, <1>7, <2>1
    <3> QED BY <1>3, <2>1, <3>1 DEF OrderInv
  <2>2. CASE d # c
    BY <1>4, <1>7, <2>2 DEF OrderInv
  <2> QED BY <2>1, <2>2
<1>8. ASSUME NEW d \in Clients, NEW s \in Sims
      PROVE  /\ Named[latest'[d][s].sim] = s /\ Published(latest'[d][s])
             /\ \A i \in DOMAIN inbox'[d] : InOrder(latest'[d][s], inbox'[d][i])
  <2>1. CASE d = c /\ s = t
    <3>1. Published(m) /\ Named[m.sim] = t
      BY <1>2 DEF OrderInv, t
    <3>2. \A i \in DOMAIN inbox'[c] : InOrder(m, inbox'[c][i])
      <4>1. \A i \in DOMAIN inbox'[c] : 1 < i + 1
        BY <1>3
      <4> QED BY <1>2, <1>3, <4>1 DEF OrderInv
    <3> QED BY <1>5, <2>1, <3>1, <3>2
  <2>2. CASE d = c /\ s # t
    BY <1>3, <1>5, <2>2 DEF OrderInv
  <2>3. CASE d # c
    BY <1>4, <2>3 DEF OrderInv
  <2> QED BY <2>1, <2>2, <2>3
<1> QED BY <1>1, <1>6, <1>7, <1>8 DEF OrderInv, InOrder, Published

(* Every step keeps the numbers growing and the messages in order.         *)
LEMMA StepOrder ==
  ASSUME IInv, NumberInv, OrderInv, [Next]_vars
  PROVE  NumberInv' /\ OrderInv'
<1> USE DEF simVars, bVars, hubVars, clientVars
<1>q. ASSUME UNCHANGED <<inbox, latest, lastPublished>> PROVE OrderInv'
  BY <1>q DEF OrderInv, InOrder, Published
<1>1. ASSUME NEW s \in Sims, Simulate(s) \/ TrySetActive(s)
      PROVE NumberInv' /\ OrderInv'
  <2>1. /\ UNCHANGED <<bVars, hubVars, clientVars>>
        /\ \A u \in Sims : tick[u] <= tick'[u] /\ tick[u] \in Nat /\ tick'[u] \in Nat
    <3>1. tick \in [Sims -> Nat]
      BY DEF IInv
    <3>2. CASE Advance(s)
      BY <3>1, <3>2 DEF Advance
    <3>3. CASE (\E x \in Signals : WriteSignal(s, x)) \/ TrySetActive(s)
      <4>1. tick' = tick /\ UNCHANGED <<bVars, hubVars, clientVars>>
        BY <3>3 DEF WriteSignal, TrySetActive
      <4> QED BY <3>1, <4>1
    <3> QED BY <1>1, <3>2, <3>3 DEF Simulate
  <2>2. NumberInv'
    BY <2>1 DEF NumberInv
  <2> QED BY <1>q, <2>1, <2>2
<1>2. CASE Look
  <2>1. SimOrder[bsim] \in Sims /\ Named[SimOrder[bsim]] = SimOrder[bsim]
    BY ListedSims, StreamAssumption DEF IInv
  <2>2. CASE LookAgain(SimOrder[bsim])
    <3>1. NumberInv'
      BY <1>2, <2>2 DEF Look, LookAgain, NextSim, NumberInv
    <3> QED BY <1>2, <1>q, <2>2, <3>1 DEF Look, LookAgain
  <2>3. CASE LookNew(SimOrder[bsim])
    <3>1. /\ lastPublished' \in [Sims -> Nat]
          /\ \A s \in Sims :
               lastPublished[s] <= lastPublished'[s] /\ lastPublished'[s] <= tick[s]
          /\ lastPublished'[SimOrder[bsim]] = tick[SimOrder[bsim]]
      BY <2>1, <2>3 DEF LookNew, NumberInv, IInv
    <3>2. NumberInv'
      BY <1>2, <2>1, <2>3, <3>1 DEF Look, LookNew, Label, NumberInv
    <3> QED BY <1>2, <3>1, <3>2, LaterNumbers DEF Look
  <2> QED BY <1>2, <2>2, <2>3 DEF Look
<1>3. ASSUME NEW x \in Signals, Copy(x) PROVE NumberInv' /\ OrderInv'
  <2>1. bmsg'.initial = bmsg.initial /\ bmsg'.tick = bmsg.tick /\ bmsg'.sim = bmsg.sim
    BY <1>3 DEF Copy, CopySignal, IInv, GoodSnapshots
  <2>2. NumberInv'
    BY <1>3, <2>1 DEF Copy, NumberInv
  <2> QED BY <1>3, <1>q, <2>2 DEF Copy
<1>4. CASE AppendAsync \/ Wake \/ BroadcasterEnds
  <2>1. NumberInv'
    BY <1>4 DEF AppendAsync, Wake, BroadcasterEnds, NumberInv
  <2> QED BY <1>4, <1>q, <2>1 DEF AppendAsync, Wake, BroadcasterEnds
<1>5. CASE SendGroup \/ SendAll
  <2>1. NumberInv'
    BY <1>5 DEF SendGroup, SendAll, NextSim, NumberInv
  <2>2. /\ bmsg \in GoodSnapshots /\ bmsg.tick = lastPublished[Named[bmsg.sim]]
        /\ \E S : SendTo(S, bmsg)
        /\ UNCHANGED <<latest, lastPublished>>
    BY <1>5 DEF SendGroup, SendAll, NumberInv, IInv
  <2> QED BY <2>1, <2>2, SendOrder
<1>6. ASSUME NEW c \in Clients,
             \/ \E n \in Asked : JoinSim(c, n) \/ LeaveSim(c, n)
             \/ AddToGroup(c) \/ AddFails(c) \/ SendInitialFails(c)
      PROVE NumberInv' /\ OrderInv'
  <2>0. /\ UNCHANGED <<tick, bVars, clientVars>>
        /\ \A d \in Clients \ {c} : hpc'[d] = hpc[d] /\ hmsg'[d] = hmsg[d]
        /\ hpc'[c] \in {"copy", "send"} => hpc'[c] = hpc[c] /\ hmsg'[c] = hmsg[c]
        /\ DOMAIN hpc' = Clients
    <3>2. DOMAIN hpc = Clients /\ DOMAIN hmsg = Clients
      BY DEF NumberInv, IInv
    <3>3. CASE \E n \in Asked : JoinSim(c, n)
      BY <3>2, <3>3 DEF JoinSim
    <3>4. CASE \E n \in Asked : LeaveSim(c, n)
      BY <3>2, <3>4 DEF LeaveSim
    <3>5. CASE AddToGroup(c)
      BY <3>2, <3>5 DEF AddToGroup
    <3>6. CASE AddFails(c)
      BY <3>2, <3>6 DEF AddFails
    <3>7. CASE SendInitialFails(c)
      BY <3>2, <3>7 DEF SendInitialFails
    <3> QED BY <1>6, <3>3, <3>4, <3>5, <3>6, <3>7
  <2>1. NumberInv'
    BY <2>0 DEF NumberInv
  <2> QED BY <1>q, <2>0, <2>1
<1>7. ASSUME NEW c \in Clients, ReadTick(c) PROVE NumberInv' /\ OrderInv'
  <2>1. /\ hmsg'[c].initial /\ DOMAIN hpc' = Clients
        /\ \A d \in Clients \ {c} : hpc'[d] = hpc[d] /\ hmsg'[d] = hmsg[d]
    <3>1. DOMAIN hpc = Clients /\ DOMAIN hmsg = Clients
      BY DEF NumberInv, IInv
    <3> QED BY <1>7, <3>1 DEF ReadTick, Label
  <2>2. NumberInv'
    BY <1>7, <2>1 DEF ReadTick, NumberInv
  <2> QED BY <1>7, <1>q, <2>2 DEF ReadTick
<1>8. ASSUME NEW c \in Clients, NEW x \in Signals, CopyInitial(c, x)
      PROVE NumberInv' /\ OrderInv'
  <2>1. /\ hmsg'[c].initial = hmsg[c].initial /\ hpc[c] = "copy"
        /\ DOMAIN hpc' = Clients
        /\ \A d \in Clients \ {c} : hpc'[d] = hpc[d] /\ hmsg'[d] = hmsg[d]
    <3>1. DOMAIN hpc = Clients /\ DOMAIN hmsg = Clients
      BY DEF NumberInv, IInv
    <3>2. CopySignal(hmsg[c], x).initial = hmsg[c].initial
      BY DEF CopySignal, IInv, GoodSnapshots
    <3> QED BY <1>8, <3>1, <3>2 DEF CopyInitial
  <2>2. NumberInv'
    BY <1>8, <2>1 DEF CopyInitial, NumberInv
  <2> QED BY <1>8, <1>q, <2>2 DEF CopyInitial
<1>9. ASSUME NEW c \in Clients, SendInitial(c) PROVE NumberInv' /\ OrderInv'
  <2>0. /\ UNCHANGED <<tick, bVars, latest>>
        /\ \A d \in Clients \ {c} : hpc'[d] = hpc[d] /\ hmsg'[d] = hmsg[d]
        /\ hpc'[c] \notin {"copy", "send"}
        /\ DOMAIN hpc' = Clients
        /\ hmsg[c].initial /\ SendTo({c}, hmsg[c]) /\ hmsg[c] \in GoodSnapshots
    <3>1. DOMAIN hpc = Clients /\ DOMAIN hmsg = Clients
      BY DEF NumberInv, IInv
    <3>2. hmsg[c].initial /\ hmsg[c] \in GoodSnapshots
      BY <1>9 DEF SendInitial, NumberInv, IInv
    <3> QED BY <1>9, <3>1, <3>2 DEF SendInitial
  <2>1. NumberInv'
    BY <2>0 DEF NumberInv
  <2> QED BY <2>0, <2>1, SendOrder
<1>10. ASSUME NEW c \in Clients, Receive(c) PROVE NumberInv' /\ OrderInv'
  BY <1>10, ReceiveOrder DEF Receive, NumberInv
<1>11. ASSUME NEW c \in Clients, Lose(c) PROVE NumberInv' /\ OrderInv'
  <2>0. /\ UNCHANGED <<tick, bVars, latest>>
        /\ \A d \in Clients \ {c} :
             hpc'[d] = hpc[d] /\ hmsg'[d] = hmsg[d] /\ inbox'[d] = inbox[d]
        /\ hpc'[c] \notin {"copy", "send"}
        /\ DOMAIN hpc' = Clients
        /\ inbox'[c] = <<>>
    <3>1. DOMAIN hpc = Clients /\ DOMAIN hmsg = Clients /\ DOMAIN inbox = Clients
      BY DEF NumberInv, IInv
    <3> QED BY <1>11, <3>1 DEF Lose
  <2>1. NumberInv'
    BY <2>0 DEF NumberInv
  <2>2. DOMAIN inbox'[c] = {}
    BY <2>0
  <2>3. OrderInv'
    BY <2>0, <2>2 DEF OrderInv, InOrder, Published
  <2> QED BY <2>1, <2>3
<1>12. CASE UNCHANGED vars
  BY <1>12, <1>q DEF vars, NumberInv
<1> QED BY <1>1, <1>2, <1>3, <1>4, <1>5, <1>6, <1>7, <1>8, <1>9, <1>10, <1>11, <1>12
        DEF Next, Broadcast, FinishJoin

(* Broadcasts do not take a client back: only an initial snapshot is       *)
(* overtaken, or overtakes.                                                *)
THEOREM BroadcastsInOrder == Spec => NeverBack
<1> DEFINE Kept ==
      \A c \in Clients, s \in Sims :
        latest'[c][s].tick < latest[c][s].tick =>
          latest'[c][s].initial \/ latest[c][s].initial
<1>1. IInv /\ OrderInv /\ [Next]_vars => [Kept]_vars
  <2> SUFFICES ASSUME IInv, OrderInv, Next,
                      NEW c \in Clients, NEW s \in Sims,
                      latest'[c][s].tick < latest[c][s].tick
               PROVE  latest'[c][s].initial \/ latest[c][s].initial
    OBVIOUS
  <2>0. latest[c][s] \in GoodSnapshots /\ latest[c][s].tick \in Nat
    BY Numbered DEF IInv
  <2>1. latest'[c][s] # latest[c][s]
    BY <2>0
  <2>2. PICK d \in Clients : Receive(d)
    BY <2>1 DEF Next, Simulate, Advance, WriteSignal, TrySetActive, Broadcast, Look,
       Copy, AppendAsync, SendGroup, SendAll, Wake, BroadcasterEnds, JoinSim, LeaveSim,
       Lose, FinishJoin, AddToGroup, ReadTick, CopyInitial, SendInitial, AddFails,
       SendInitialFails, clientVars
  <2> DEFINE m == Head(inbox[d])
  <2>3. /\ inbox[d] \in Seq(GoodSnapshots) /\ inbox[d] # <<>>
        /\ latest' = [latest EXCEPT ![d][Named[m.sim]] = m]
        /\ latest \in [Clients -> [Sims -> GoodSnapshots]]
    BY <2>2 DEF Receive, Keep, IInv
  <2>4. m = inbox[d][1] /\ 1 \in DOMAIN inbox[d] /\ m \in GoodSnapshots
    BY <2>3
  <2>5. d = c /\ Named[m.sim] = s /\ latest'[c][s] = m /\ m.tick \in Nat
    BY <2>1, <2>3, <2>4, Numbered
  <2>6. InOrder(latest[c][s], m) /\ Named[latest[c][s].sim] = s
    BY <2>4, <2>5 DEF OrderInv
  <2> QED BY <2>0, <2>5, <2>6 DEF InOrder
<1> QED
  BY <1>1, Invariant, InitIInv, StepIInv, InitOrder, StepOrder, PTL DEF Spec, NeverBack
=============================================================================
