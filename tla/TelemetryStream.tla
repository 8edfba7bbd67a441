--------------------------- MODULE TelemetryStream ---------------------------
(***************************************************************************)
(* How snapshots reach the dashboards: the broadcaster of SimHostService   *)
(* looks at the ticks of the simulations and publishes to the group of     *)
(* each, SimHub.JoinSim adds a connection to a group and sends it an       *)
(* initial snapshot, and a client keeps the snapshot that came last.  The  *)
(* connection may be lost: the one that replaces it is in no group.  A     *)
(* signal is the tick whose Tick wrote it; ticks go on while a snapshot is *)
(* copied.  Parameters are copied in the same way and are left out.        *)
(***************************************************************************)
EXTENDS Integers, Sequences, SequencesExt

CONSTANTS
  SimOrder,  \* SimulationRegistry.List(), a sequence of simulations
  Clients,   \* clients, each with a connection to the hub
  Names,     \* ids of the simulations, in any spelling
  Named,     \* the simulation TryGet finds for an id, letter case aside
  Asked,     \* ids that clients ask for
  Signals,   \* names of signals
  MaxTick,   \* bound: ticks of each simulation
  MaxJoins,  \* bound: calls of JoinSim on a connection
  MaxLosses  \* bound: connections lost

Sims == ToSet(SimOrder)

ASSUME StreamAssumption ==
  /\ SimOrder # <<>>
  /\ SimOrder \in Seq(ToSet(SimOrder))
  /\ Named \in [Names -> Sims]
  /\ \A s \in Sims : s \in Names /\ Named[s] = s
  /\ Asked \subseteq Names
  /\ MaxTick \in [Sims -> Nat]
  /\ MaxJoins \in Nat
  /\ MaxLosses \in Nat

VARIABLES
  tick,           \* Runner.Time.Tick of each simulation
  written,        \* the signals the current tick has written
  activeId,       \* SimulationRegistry._activeId
  bpc,            \* where the broadcaster is
  bsim,           \* its position in the list of simulations
  bmsg,           \* the snapshot it is working on
  lastPublished,  \* lastPublished
  groups,         \* the groups each connection is in, named with an id
  hpc,            \* where the invocation of each connection is
  hmsg,           \* the snapshot of that JoinSim, sim is simId
  inbox,          \* messages under way to each client
  latest,         \* _latestBySimId of each client
  joins,          \* calls of JoinSim on each connection so far
  losses,         \* connections lost so far
  missed,         \* history: clients and simulations whose initial snapshot
                  \* failed since they joined, or was lost with the connection
  given           \* history: the latest tick each client was given

simVars == <<tick, written, activeId>>
bVars == <<bpc, bsim, bmsg, lastPublished>>
hubVars == <<groups, hpc, hmsg, joins, losses, missed>>
clientVars == <<inbox, latest, given>>
vars == <<simVars, bVars, hubVars, clientVars>>

Empty(n) == [sim |-> n, tick |-> 0, sigs |-> <<>>, initial |-> FALSE]
Nothing == Empty(SimOrder[1])

Init ==
  /\ tick = [s \in Sims |-> 0]
  /\ written = [s \in Sims |-> Signals]
  /\ activeId \in Sims
  /\ bpc = "look"
  /\ bsim = 1
  /\ bmsg = Nothing
  /\ lastPublished = [s \in Sims |-> 0]
  /\ groups = [c \in Clients |-> {}]
  /\ hpc = [c \in Clients |-> "idle"]
  /\ hmsg = [c \in Clients |-> Nothing]
  /\ inbox = [c \in Clients |-> <<>>]
  /\ latest = [c \in Clients |-> [s \in Sims |-> Empty(s)]]
  /\ given = [c \in Clients |-> [s \in Sims |-> 0]]
  /\ joins = [c \in Clients |-> 0]
  /\ losses = 0
  /\ missed = {}

-----------------------------------------------------------------------------
(* The simulations: StepOnce advances the clock, then the components run.  *)

Advance(s) ==
  /\ written[s] = Signals
  /\ tick[s] < MaxTick[s]
  /\ tick' = [tick EXCEPT ![s] = @ + 1]
  /\ written' = [written EXCEPT ![s] = {}]
  /\ UNCHANGED <<activeId, bVars, hubVars, clientVars>>

WriteSignal(s, x) ==
  /\ x \notin written[s]
  /\ written' = [written EXCEPT ![s] = @ \cup {x}]
  /\ UNCHANGED <<tick, activeId, bVars, hubVars, clientVars>>

TrySetActive(s) ==
  /\ activeId' = s
  /\ UNCHANGED <<tick, written, bVars, hubVars, clientVars>>

(* The tick that wrote signal x.                                           *)
Version(s, x) == IF x \in written[s] THEN tick[s] ELSE tick[s] - 1

(* SignalBus.Snapshot copies a signal at a time, while ticks go on.        *)
CopySignal(m, x) ==
  [m EXCEPT !.sigs = [y \in DOMAIN m.sigs \cup {x} |->
     IF y = x THEN Version(Named[m.sim], x) ELSE m.sigs[y]]]

Label(n, initial) ==
  [sim |-> n, tick |-> tick[Named[n]], sigs |-> <<>>, initial |-> initial]

-----------------------------------------------------------------------------
(* The broadcaster.                                                        *)

NextSim ==
  IF bsim < Len(SimOrder)
    THEN bsim' = bsim + 1 /\ bpc' = "look"
    ELSE bsim' = 1 /\ bpc' = "delay"

(* Nothing is published as long as the tick is the one published last.     *)
LookAgain(s) ==
  /\ tick[s] = lastPublished[s]
  /\ NextSim
  /\ UNCHANGED <<bmsg, lastPublished>>

LookNew(s) ==
  /\ tick[s] # lastPublished[s]
  /\ lastPublished' = [lastPublished EXCEPT ![s] = tick[s]]
  /\ bmsg' = Label(s, FALSE)
  /\ bpc' = "copy"
  /\ UNCHANGED bsim

Look ==
  /\ bpc = "look"
  /\ LookAgain(SimOrder[bsim]) \/ LookNew(SimOrder[bsim])
  /\ UNCHANGED <<simVars, hubVars, clientVars>>

Copy(x) ==
  /\ bpc = "copy"
  /\ x \notin DOMAIN bmsg.sigs
  /\ bmsg' = CopySignal(bmsg, x)
  /\ bpc' = IF DOMAIN bmsg'.sigs = Signals THEN "append" ELSE "copy"
  /\ UNCHANGED <<simVars, bsim, lastPublished, hubVars, clientVars>>

(* Slip: the snapshot is numbered when it has been stored.                 *)
AppendNumbersLate ==
  /\ bpc = "append"
  /\ bpc' = "group"
  /\ bmsg' = [bmsg EXCEPT !.tick = tick[bmsg.sim]]
  /\ UNCHANGED <<simVars, bsim, lastPublished, hubVars, clientVars>>

(* AppendAsync takes its time; that it fails changes nothing here.         *)
AppendAsync ==
  /\ bpc = "append"
  /\ bpc' = "group"
  /\ UNCHANGED <<simVars, bsim, bmsg, lastPublished, hubVars, clientVars>>

SendTo(S, m) ==
  inbox' = [c \in Clients |-> IF c \in S THEN Append(inbox[c], m) ELSE inbox[c]]

Members(s) == {c \in Clients : s \in groups[c]}

SendGroup ==
  /\ bpc = "group"
  /\ SendTo(Members(bmsg.sim), bmsg)
  /\ bpc' = "all"
  /\ UNCHANGED <<simVars, bsim, bmsg, lastPublished, hubVars, latest, given>>

(* The active simulation is sent to every connection as well.              *)
SendAll ==
  /\ bpc = "all"
  /\ SendTo(IF activeId = bmsg.sim THEN Clients ELSE {}, bmsg)
  /\ bmsg' = Nothing
  /\ NextSim
  /\ UNCHANGED <<simVars, lastPublished, hubVars, latest, given>>

Wake ==
  /\ bpc = "delay"
  /\ bpc' = "look"
  /\ UNCHANGED <<simVars, bsim, bmsg, lastPublished, hubVars, clientVars>>

(* A failed send or the shutdown ends broadcasting, for every simulation.  *)
BroadcasterEnds ==
  /\ bpc \in {"group", "all", "delay"}
  /\ bpc' = "ended"
  /\ bmsg' = Nothing
  /\ UNCHANGED <<simVars, bsim, lastPublished, hubVars, clientVars>>

-----------------------------------------------------------------------------
(* The hub: one invocation of a connection at a time.                      *)

JoinSim(c, n) ==
  /\ hpc[c] = "idle"
  /\ joins[c] < MaxJoins
  /\ joins' = [joins EXCEPT ![c] = @ + 1]
  /\ hpc' = [hpc EXCEPT ![c] = "add"]
  /\ hmsg' = [hmsg EXCEPT ![c] = Empty(n)]
  /\ UNCHANGED <<simVars, bVars, groups, losses, missed, clientVars>>

(* The group has the id as it was written, not as the registry has it.     *)
AddToGroup(c) ==
  /\ hpc[c] = "add"
  /\ groups' = [groups EXCEPT ![c] = @ \cup {hmsg[c].sim}]
  /\ hpc' = [hpc EXCEPT ![c] = "label"]
  /\ missed' = missed \ {<<c, Named[hmsg[c].sim]>>}
  /\ UNCHANGED <<simVars, bVars, hmsg, joins, losses, clientVars>>

AddFails(c) ==
  /\ hpc[c] = "add"
  /\ hpc' = [hpc EXCEPT ![c] = "idle"]
  /\ hmsg' = [hmsg EXCEPT ![c] = Nothing]
  /\ UNCHANGED <<simVars, bVars, groups, joins, losses, missed,
                 clientVars>>

ReadTick(c) ==
  /\ hpc[c] = "label"
  /\ hmsg' = [hmsg EXCEPT ![c] = Label(hmsg[c].sim, TRUE)]
  /\ hpc' = [hpc EXCEPT ![c] = "copy"]
  /\ UNCHANGED <<simVars, bVars, groups, joins, losses, missed,
                 clientVars>>

CopyInitial(c, x) ==
  /\ hpc[c] = "copy"
  /\ x \notin DOMAIN hmsg[c].sigs
  /\ hmsg' = [hmsg EXCEPT ![c] = CopySignal(@, x)]
  /\ hpc' = [hpc EXCEPT ![c] =
       IF DOMAIN hmsg'[c].sigs = Signals THEN "send" ELSE "copy"]
  /\ UNCHANGED <<simVars, bVars, groups, joins, losses, missed,
                 clientVars>>

(* Slip: the initial snapshot of a tick that was published is left out.    *)
SendInitialUnlessPublished(c) ==
  LET published == hmsg[c].tick = lastPublished[Named[hmsg[c].sim]]
  IN  /\ hpc[c] = "send"
      /\ SendTo(IF published THEN {} ELSE {c}, hmsg[c])
      /\ hpc' = [hpc EXCEPT ![c] = "idle"]
      /\ hmsg' = [hmsg EXCEPT ![c] = Nothing]
      /\ UNCHANGED <<simVars, bVars, groups, joins, losses, missed, latest, given>>

SendInitial(c) ==
  /\ hpc[c] = "send"
  /\ SendTo({c}, hmsg[c])
  /\ hpc' = [hpc EXCEPT ![c] = "idle"]
  /\ hmsg' = [hmsg EXCEPT ![c] = Nothing]
  /\ UNCHANGED <<simVars, bVars, groups, joins, losses, missed,
                 latest, given>>

(* The failure is logged and the connection stays in the group.            *)
SendInitialFails(c) ==
  /\ hpc[c] = "send"
  /\ hpc' = [hpc EXCEPT ![c] = "idle"]
  /\ hmsg' = [hmsg EXCEPT ![c] = Nothing]
  /\ missed' = missed \cup {<<c, Named[hmsg[c].sim]>>}
  /\ UNCHANGED <<simVars, bVars, groups, joins, losses, clientVars>>

LeaveSim(c, n) ==
  /\ hpc[c] = "idle"
  /\ groups' = [groups EXCEPT ![c] = @ \ {n}]
  /\ UNCHANGED <<simVars, bVars, hpc, hmsg, joins, losses, missed,
                 clientVars>>

(* A new connection takes the place of one that was lost: its groups and   *)
(* the messages under way are gone, and an invocation that goes on adds    *)
(* and sends to a connection that is no more.                              *)
Lose(c) ==
  /\ losses < MaxLosses
  /\ losses' = losses + 1
  /\ groups' = [groups EXCEPT ![c] = {}]
  /\ inbox' = [inbox EXCEPT ![c] = <<>>]
  /\ hpc' = [hpc EXCEPT ![c] = "idle"]
  /\ hmsg' = [hmsg EXCEPT ![c] = Nothing]
  /\ missed' = missed \cup ({c} \X Sims)
  /\ joins' = [joins EXCEPT ![c] = 0]
  /\ UNCHANGED <<simVars, bVars, latest, given>>

-----------------------------------------------------------------------------
(* The client keeps the snapshot, whatever it had for the simulation.      *)
Keep(c, m) ==
  /\ latest' = [latest EXCEPT ![c][Named[m.sim]] = m]
  /\ given' = [given EXCEPT ![c][Named[m.sim]] = IF @ < m.tick THEN m.tick ELSE @]

(* Slip: the client handles the newest message first.                      *)
ReceiveNewest(c) ==
  /\ inbox[c] # <<>>
  /\ Keep(c, Last(inbox[c]))
  /\ inbox' = [inbox EXCEPT ![c] = Front(@)]
  /\ UNCHANGED <<simVars, bVars, hubVars>>

Receive(c) ==
  /\ inbox[c] # <<>>
  /\ Keep(c, Head(inbox[c]))
  /\ inbox' = [inbox EXCEPT ![c] = Tail(@)]
  /\ UNCHANGED <<simVars, bVars, hubVars>>

Simulate(s) ==
  \/ Advance(s)
  \/ \E x \in Signals : WriteSignal(s, x)

Broadcast ==
  \/ Look
  \/ \E x \in Signals : Copy(x)
  \/ AppendAsync
  \/ SendGroup
  \/ SendAll
  \/ Wake

FinishJoin(c) ==
  \/ AddToGroup(c)
  \/ ReadTick(c)
  \/ \E x \in Signals : CopyInitial(c, x)
  \/ SendInitial(c)

Next ==
  \/ \E s \in Sims : Simulate(s) \/ TrySetActive(s)
  \/ Broadcast
  \/ BroadcasterEnds
  \/ \E c \in Clients :
       \/ \E n \in Asked : JoinSim(c, n) \/ LeaveSim(c, n)
       \/ Lose(c)
       \/ FinishJoin(c)
       \/ AddFails(c)
       \/ SendInitialFails(c)
       \/ Receive(c)

Spec == Init /\ [][Next]_vars

(* The broadcaster, invocations and the delivery of messages run on; ticks *)
(* and the clients' calls need not.                                        *)
FairSpec ==
  /\ Spec
  /\ WF_vars(Broadcast)
  /\ \A c \in Clients : WF_vars(FinishJoin(c)) /\ WF_vars(Receive(c))

-----------------------------------------------------------------------------
(* However ticks run while it is copied and sent, what a client has or is  *)
(* sent under the number of a tick is at most one tick older.              *)
Fresh(m) == \A x \in DOMAIN m.sigs : m.sigs[x] + 1 >= m.tick

SnapshotsFresh ==
  \A c \in Clients :
    /\ \A s \in Sims : Fresh(latest[c][s])
    /\ \A i \in DOMAIN inbox[c] : Fresh(inbox[c][i])

(* A client's view of a simulation goes back to an earlier tick only       *)
(* around a JoinSim of its own, when the initial snapshot and a broadcast  *)
(* under way race each other: broadcasts among themselves stay in order.   *)
NeverBack ==
  [][\A c \in Clients, s \in Sims :
       latest'[c][s].tick < latest[c][s].tick =>
         latest'[c][s].initial \/ latest[c][s].initial]_vars

(* A client in the group of a simulation is given a snapshot of its tick   *)
(* or a later one, also when the simulation is paused, when it joined      *)
(* after the tick was published, and when it joined again on a new         *)
(* connection, unless it leaves, its initial snapshot fails, or            *)
(* broadcasting has ended.  Broadcasts do not reach the group of another   *)
(* spelling, but every JoinSim is answered with the tick it found.         *)
JoinedIsFed ==
  \A c \in Clients, s \in Sims : \A k \in 1..MaxTick[s] :
    /\ s \in groups[c] /\ tick[s] = k ~>
         \/ given[c][s] >= k
         \/ s \notin groups[c]
         \/ <<c, s>> \in missed
         \/ bpc = "ended"
    /\ hpc[c] = "label" /\ Named[hmsg[c].sim] = s /\ tick[s] = k ~>
         given[c][s] >= k \/ <<c, s>> \in missed
=============================================================================
