-------------------------- MODULE Dashboard_proofs --------------------------
(***************************************************************************)
(* The hub client, the theme and the Simulation page of the dashboard.     *)
(* For any simulations, calls, losses and cancellations: between calls, a  *)
(* connected client is in the group it takes itself to have joined and in  *)
(* no other, but for the failures the code ignores.                        *)
(* For any tabs: the button agrees with what its tab shows, and a reload   *)
(* shows the choice that was stored.                                       *)
(* For any simulations and loads: unless the page moved on too early, it   *)
(* shows, sets and keeps the drafts of its own simulation.                 *)
(***************************************************************************)
EXTENDS HubClient, Theme, SimulationPage, TLAPS

CallSet == [op : Ops, sim : Sims \cup {NoSim}, cancelled : BOOLEAN]

Types ==
  /\ conn \in {"none", "disconnected", "connected", "reconnecting"}
  /\ groups \subseteq Sims
  /\ joined \in Sims \cup {NoSim}
  /\ calls \in Seq(CallSet)
  /\ \A i \in 1..Len(calls) : calls[i].op = "join" => calls[i].sim \in Sims
  /\ sent \in BOOLEAN
  /\ leaked \in BOOLEAN
  /\ unjoined \in BOOLEAN

(* Where the call that holds the gate can be.                              *)
Held ==
  /\ calls = <<>> => pc = "start"
  /\ sent => conn = "connected" /\ pc \in {"leave", "join"}
  /\ calls # <<>> /\ calls[1].op = "rejoin" /\ pc = "join" => joined # NoSim

(* Without a leak there is no group but the joined one, and none at all    *)
(* once it was left for another.                                           *)
GroupsInv ==
  /\ conn # "connected" => groups = {}
  /\ ~leaked => groups \subseteq {joined}
  /\ ~leaked /\ calls # <<>> /\ calls[1].op = "join" /\ pc = "join" => groups = {}

(* A call of RejoinAfterReconnect that will be answered by the connection. *)
RejoinPending ==
  \E i \in 1..Len(calls) : calls[i].op = "rejoin" /\ (i = 1 => pc = "start" \/ sent)

(* JoinSim is under way for another simulation.                            *)
Switching == calls # <<>> /\ calls[1].op = "join" /\ pc = "join" /\ sent

(* Where the joined group is when it is not with the connection.           *)
MemberInv ==
  /\ conn \in {"none", "disconnected"} /\ joined # NoSim => unjoined
  /\ conn = "connected" /\ ~unjoined /\ joined # NoSim =>
       joined \in groups \/ RejoinPending \/ Switching

IInv == Types /\ Held /\ GroupsInv /\ MemberInv

(* Nothing is connected, called or joined at first.                        *)
LEMMA InitIInv == Init => IInv
<1> SUFFICES ASSUME Init PROVE IInv
  OBVIOUS
<1>1. calls \in Seq(CallSet) /\ Len(calls) = 0
  BY DEF Init
<1>2. Types
  <2>1. \A i \in 1..Len(calls) : FALSE
    BY <1>1
  <2> QED BY <1>1, <2>1 DEF Init, Types
<1>3. Held /\ GroupsInv /\ MemberInv
  BY DEF Init, Held, GroupsInv, MemberInv
<1> QED BY <1>2, <1>3 DEF IInv

(* The call that holds the gate is the first of the sequence.              *)
LEMMA CallsContinue ==
  ASSUME Types, NEW op, NEW label, Runs(op, label)
  PROVE  /\ calls # <<>> /\ Len(calls) \in Nat \ {0}
         /\ Head(calls) = calls[1] /\ calls[1] \in CallSet
         /\ calls[1].op = op /\ pc = label
         /\ op = "join" => calls[1].sim \in Sims
BY DEF Types, Runs

(* The others are kept when it finishes.                                   *)
LEMMA Finished ==
  ASSUME Types, calls # <<>>, Finish
  PROVE  /\ calls' \in Seq(CallSet)
         /\ \A i \in 1..Len(calls') : calls'[i].op = "join" => calls'[i].sim \in Sims
         /\ pc' = "start" /\ sent' = FALSE
         /\ RejoinPending /\ calls[1].op # "rejoin" => RejoinPending'
<1>1. calls' = Tail(calls) /\ pc' = "start" /\ sent' = FALSE
  BY DEF Finish
<1>2. Len(calls) \in Nat \ {0} /\ calls' \in Seq(CallSet) /\ Len(calls') = Len(calls) - 1
  BY <1>1 DEF Types
<1>3. \A i \in 1..Len(calls') : i + 1 \in 1..Len(calls) /\ calls'[i] = calls[i + 1]
  BY <1>1, <1>2 DEF Types
<1>4. ASSUME RejoinPending, calls[1].op # "rejoin" PROVE RejoinPending'
  <2>1. PICK i \in 1..Len(calls) : calls[i].op = "rejoin"
    BY <1>4 DEF RejoinPending
  <2>2. i # 1
    BY <1>4, <2>1
  <2>3. i - 1 \in 1..Len(calls') /\ calls'[i - 1] = calls[i]
    BY <1>2, <1>3, <2>1, <2>2
  <2> QED BY <1>1, <2>1, <2>3 DEF RejoinPending
<1> QED BY <1>1, <1>2, <1>3, <1>4 DEF Types

(* A call that is appended changes nothing for the others.                 *)
LEMMA Appended ==
  ASSUME Types, Held, NEW call \in CallSet, calls' = Append(calls, call),
         call.op = "join" => call.sim \in Sims
  PROVE  /\ calls' \in Seq(CallSet) /\ calls' # <<>>
         /\ \A i \in 1..Len(calls') : calls'[i].op = "join" => calls'[i].sim \in Sims
         /\ Len(calls') = Len(calls) + 1 /\ Len(calls) \in Nat
         /\ calls'[Len(calls')] = call
         /\ \A i \in 1..Len(calls) : calls'[i] = calls[i]
         /\ calls # <<>> => calls'[1] = calls[1] /\ Len(calls) > 0
         /\ calls = <<>> => Len(calls) = 0 /\ pc = "start"
BY DEF Types, Held

(* The calls of the page.                                                  *)
LEMMA PageStep ==
  ASSUME IInv, NEW call \in CallSet, call.op = "join" => call.sim \in Sims,
         PageCalls(call)
  PROVE  IInv'
<1> USE DEF IInv
<1>1. calls' = Append(calls, call)
  BY DEF PageCalls
<1>2. UNCHANGED <<conn, groups, joined, pc, sent, leaked, unjoined>>
  BY DEF PageCalls, flags
<1>3. Types' /\ Held'
  BY <1>1, <1>2, Appended DEF Types, Held
<1>4. GroupsInv'
  BY <1>1, <1>2, Appended DEF GroupsInv, Held
<1>5. RejoinPending => RejoinPending'
  BY <1>1, <1>2, Appended DEF RejoinPending
<1>6. Switching => Switching'
  BY <1>1, <1>2, Appended DEF Switching
<1>7. MemberInv'
  BY <1>2, <1>5, <1>6 DEF MemberInv
<1> QED BY <1>3, <1>4, <1>7

(* A call that is given up.                                                *)
LEMMA CancelStep ==
  ASSUME IInv, NEW i \in DOMAIN calls, Cancel(i) PROVE IInv'
<1> USE DEF IInv
<1>1. UNCHANGED <<conn, groups, joined, pc, sent, leaked, unjoined>>
  BY DEF Cancel, flags
<1>2. /\ calls' \in Seq(CallSet) /\ Len(calls') = Len(calls)
      /\ \A j \in 1..Len(calls) : calls'[j].op = calls[j].op /\ calls'[j].sim = calls[j].sim
      /\ calls # <<>> /\ calls' # <<>> /\ Len(calls) \in Nat \ {0}
  <2> DEFINE given == [calls[i] EXCEPT !.cancelled = TRUE]
  <2>1. i \in 1..Len(calls) /\ Len(calls) \in Nat \ {0} /\ calls # <<>> /\ calls[i] \in CallSet
    BY DEF Types
  <2>2. given \in CallSet /\ given.op = calls[i].op /\ given.sim = calls[i].sim
    BY <2>1 DEF CallSet
  <2>3. calls' = [calls EXCEPT ![i] = given]
    BY DEF Cancel
  <2> HIDE DEF given
  <2>4. calls' \in Seq(CallSet) /\ Len(calls') = Len(calls)
    BY <2>1, <2>2, <2>3 DEF Types
  <2>5. \A j \in 1..Len(calls) : calls'[j] = IF j = i THEN given ELSE calls[j]
    BY <2>1, <2>3 DEF Types
  <2> QED BY <2>1, <2>2, <2>4, <2>5
<1>3. Types' /\ Held' /\ GroupsInv'
  BY <1>1, <1>2 DEF Types, Held, GroupsInv
<1>4. (RejoinPending => RejoinPending') /\ (Switching => Switching')
  BY <1>1, <1>2 DEF RejoinPending, Switching
<1>5. MemberInv'
  BY <1>1, <1>4 DEF MemberInv
<1> QED BY <1>3, <1>5

(* A call that ends and leaves the connection and the groups alone.        *)
LEMMA EndsQuietly ==
  ASSUME IInv, calls # <<>>, Finish, conn' = conn, groups' = groups, joined' = joined,
         leaked' = leaked, unjoined' \in BOOLEAN, unjoined => unjoined',
         conn # "connected" \/ joined = NoSim \/ joined \in groups
           \/ (calls[1].op = "join" /\ ~Switching)
           \/ unjoined'
  PROVE  IInv'
<1> USE DEF IInv
<1>1. Types' /\ Held'
  BY Finished DEF Types, Held
<1>2. GroupsInv'
  BY Finished DEF GroupsInv
<1>3. calls[1].op = "join" /\ RejoinPending => RejoinPending'
  BY Finished
<1>4. MemberInv'
  BY <1>3 DEF MemberInv
<1> QED BY <1>1, <1>2, <1>4

(* A call that moves on without returning, with the connection as it is.   *)
LEMMA MovesOn ==
  ASSUME IInv, calls # <<>>, calls' = calls, conn' = conn, joined' = joined,
         groups' \subseteq groups, leaked' \in BOOLEAN, leaked => leaked',
         unjoined' = unjoined, sent' \in BOOLEAN,
         sent' => conn = "connected" /\ pc' \in {"leave", "join"},
         calls[1].op = "join" /\ pc' = "join" /\ ~leaked' => groups' = {},
         conn = "connected" =>
           \/ joined = NoSim
           \/ joined \in groups => joined \in groups'
           \/ Switching',
         RejoinPending => RejoinPending',
         Switching => Switching',
         calls[1].op = "rejoin" /\ pc' = "join" => joined # NoSim
  PROVE  IInv'
<1>1. Types' /\ Held'
  BY DEF IInv, Types, Held
<1>2. GroupsInv'
  BY DEF IInv, GroupsInv
<1>3. MemberInv'
  BY DEF IInv, MemberInv
<1> QED BY <1>1, <1>2, <1>3 DEF IInv

(* The step after LeaveSim, which the groups and the leak flag fit.        *)
LEMMA AfterLeaveStep ==
  ASSUME IInv, Runs("join", "leave") \/ Runs("leave", "leave"), AfterLeave,
         groups' \in {groups, groups \ {joined}}, leaked' \in BOOLEAN,
         leaked => leaked', joined \in groups' => leaked', conn' = conn
  PROVE  IInv'
<1> USE DEF IInv
<1>1. /\ calls # <<>> /\ Head(calls) = calls[1] /\ calls[1] \in CallSet
      /\ pc = "leave" /\ calls[1].op \in {"join", "leave"}
  BY CallsContinue
<1>2. ~leaked' => groups' = {}
  BY DEF GroupsInv, Types
<1>3. conn # "connected" => groups' = {}
  BY DEF GroupsInv
<1>4. CASE /\ calls[1].op = "join" /\ Invoke("join") /\ conn = "connected"
           /\ UNCHANGED <<joined, unjoined>>
  <2>1. RejoinPending => RejoinPending'
    BY <1>1, <1>4 DEF RejoinPending, Invoke
  <2>2. Switching'
    BY <1>1, <1>4 DEF Switching, Invoke
  <2> QED BY <1>1, <1>2, <1>4, <2>1, <2>2, MovesOn DEF Invoke
<1>5. CASE /\ calls[1].op = "join" /\ Finish /\ joined' = joined
           /\ unjoined' = (unjoined \/ conn = "connected")
  <2>1. Types' /\ Held'
    BY <1>1, <1>5, Finished DEF Types, Held
  <2>2. GroupsInv'
    BY <1>2, <1>3, <1>5, Finished DEF GroupsInv
  <2>3. MemberInv'
    BY <1>5 DEF MemberInv, Types
  <2> QED BY <2>1, <2>2, <2>3
<1>6. CASE Finish /\ joined' = NoSim /\ unjoined' = FALSE
  <2>1. Types' /\ Held'
    BY <1>1, <1>6, Finished DEF Types, Held
  <2>2. GroupsInv'
    BY <1>2, <1>3, <1>6, Finished DEF GroupsInv
  <2>3. MemberInv'
    BY <1>6 DEF MemberInv
  <2> QED BY <2>1, <2>2, <2>3
<1> QED BY <1>1, <1>4, <1>5, <1>6 DEF AfterLeave

(* JoinSim of a call that succeeds.                                        *)
LEMMA JoinAnsweredStep == ASSUME IInv, JoinAnswered PROVE IInv'
<1> USE DEF IInv
<1>1. /\ calls # <<>> /\ Head(calls) = calls[1] /\ calls[1].op = "join" /\ pc = "join"
      /\ calls[1].sim \in Sims
  BY CallsContinue DEF JoinAnswered
<1>2. /\ groups' = groups \cup {calls[1].sim} /\ joined' = calls[1].sim
      /\ unjoined' = FALSE /\ leaked' = leaked /\ conn' = conn /\ Finish
      /\ conn = "connected"
  BY <1>1 DEF JoinAnswered, Held
<1>3. Types' /\ Held'
  BY <1>1, <1>2, Finished DEF Types, Held
<1>4. GroupsInv'
  BY <1>1, <1>2, Finished DEF GroupsInv
<1>5. MemberInv'
  BY <1>2 DEF MemberInv
<1> QED BY <1>3, <1>4, <1>5

(* JoinSim of a call that fails.                                           *)
LEMMA JoinFailsStep == ASSUME IInv, JoinFails PROVE IInv'
<1> USE DEF IInv
<1>1. /\ calls # <<>> /\ Head(calls) = calls[1] /\ calls[1].op = "join" /\ pc = "join"
      /\ calls[1].sim \in Sims
  BY CallsContinue DEF JoinFails
<1>2. /\ Finish /\ conn' = conn /\ joined' = joined
      /\ unjoined' = (unjoined \/ (sent /\ joined # NoSim))
      /\ leaked' = (leaked \/ groups' # groups)
      /\ groups' = groups \/ (sent /\ groups' = groups \cup {calls[1].sim})
  BY <1>1 DEF JoinFails
<1>3. Types' /\ Held'
  BY <1>1, <1>2, Finished DEF Types, Held
<1>4. GroupsInv'
  BY <1>1, <1>2, Finished DEF GroupsInv, Held
<1>5. RejoinPending => RejoinPending'
  BY <1>1, <1>2, Finished
<1>6. MemberInv'
  <2>1. CASE sent
    BY <1>2, <2>1 DEF MemberInv, Types
  <2>2. CASE ~sent
    BY <1>2, <1>5, <2>2 DEF MemberInv, Switching, Types
  <2> QED BY <2>1, <2>2 DEF Types
<1> QED BY <1>3, <1>4, <1>6

(* JoinSim after a reconnect.                                              *)
LEMMA RejoinAnsweredStep == ASSUME IInv, RejoinAnswered PROVE IInv'
<1> USE DEF IInv
<1>1. calls # <<>> /\ conn = "connected" /\ joined # NoSim
  BY CallsContinue DEF RejoinAnswered, Held
<1>2. /\ groups' = groups \cup {joined} /\ joined' = joined
      /\ unjoined' = FALSE /\ leaked' = leaked /\ conn' = conn /\ Finish
  BY DEF RejoinAnswered
<1>3. Types' /\ Held'
  BY <1>1, <1>2, Finished DEF Types, Held
<1>4. GroupsInv'
  BY <1>1, <1>2, Finished DEF GroupsInv
<1>5. MemberInv'
  BY <1>1, <1>2 DEF MemberInv
<1> QED BY <1>3, <1>4, <1>5

(* The connection is gone, with its groups and what was invoked on it.     *)
LEMMA DropStep ==
  ASSUME IInv, conn' \in {"disconnected", "reconnecting"}, groups' = {}, sent' = FALSE,
         leaked' \in BOOLEAN, StateChanged, joined' = joined, calls' = calls,
         unjoined' \in BOOLEAN,
         conn' = "disconnected" => unjoined' = (joined # NoSim)
  PROVE  IInv'
<1>1. Types' /\ Held'
  BY DEF IInv, Types, Held, StateChanged
<1>2. GroupsInv' /\ MemberInv'
  BY DEF GroupsInv, MemberInv
<1> QED BY <1>1, <1>2 DEF IInv

(* The connection is back, and its rejoin is at the gate.                  *)
LEMMA ReconnectedStep == ASSUME IInv, Reconnected PROVE IInv'
<1> USE DEF IInv
<1> DEFINE call == Call("rejoin", NoSim)
<1>1. call \in CallSet /\ call.op = "rejoin"
  BY DEF Call, CallSet, Ops
<1>2. /\ conn = "reconnecting" /\ conn' = "connected" /\ calls' = Append(calls, call)
      /\ UNCHANGED <<groups, joined, sent, leaked, unjoined>> /\ StateChanged
  BY DEF Reconnected, flags
<1> HIDE DEF call
<1>3. groups = {} /\ sent = FALSE
  BY <1>2 DEF GroupsInv, Held, Types
<1>4. Types'
  BY <1>1, <1>2, Appended DEF Types
<1>5. Held'
  BY <1>1, <1>2, <1>3, Appended DEF Held, StateChanged
<1>6. GroupsInv'
  BY <1>2, <1>3 DEF GroupsInv
<1>7. RejoinPending'
  <2> DEFINE n == Len(calls')
  <2>1. n \in Nat \ {0} /\ calls'[n] = call /\ (n = 1 => calls = <<>> /\ pc = "start")
    BY <1>1, <1>2, Appended DEF Types
  <2>2. n = 1 => pc' = "start"
    BY <1>2, <2>1 DEF StateChanged
  <2>3. n \in 1..Len(calls') /\ calls'[n].op = "rejoin"
    BY <1>1, <2>1
  <2> HIDE DEF n
  <2> QED BY <2>2, <2>3 DEF RejoinPending
<1>8. MemberInv'
  BY <1>2, <1>7 DEF MemberInv
<1> QED BY <1>4, <1>5, <1>6, <1>8

(* Every step keeps the invariant.                                         *)
LEMMA StepIInv == IInv /\ [Next]_vars => IInv'
<1> SUFFICES ASSUME IInv, [Next]_vars PROVE IInv'
  OBVIOUS
<1> USE DEF flags, callVars
<1>t. Types
  BY DEF IInv
<1>1. ASSUME NEW s \in Sims, JoinSimulation(s) PROVE IInv'
  <2>1. Call("join", s) \in CallSet /\ Call("join", s).sim = s
    BY DEF Call, CallSet, Ops
  <2> QED BY <1>1, <2>1, PageStep DEF JoinSimulation
<1>2. CASE LeaveCurrentSimulation
  <2>1. Call("leave", NoSim) \in CallSet /\ Call("leave", NoSim).op = "leave"
    BY DEF Call, CallSet, Ops
  <2> QED BY <1>2, <2>1, PageStep DEF LeaveCurrentSimulation
<1>3. ASSUME NEW i \in DOMAIN calls, Cancel(i) PROVE IInv'
  BY <1>3, CancelStep
<1>4. CASE GiveUp
  <2>1. calls # <<>> /\ calls[1].op = "join" /\ pc # "join"
    BY <1>4, <1>t, CallsContinue DEF GiveUp
  <2> QED BY <1>4, <1>t, <2>1, EndsQuietly DEF GiveUp, Switching, Types
<1>5. CASE Start
  <2>1. calls # <<>> /\ calls[1].op = "join" /\ pc = "start"
    BY <1>5, <1>t, CallsContinue DEF Start
  <2>2. conn' = "connected" /\ UNCHANGED <<groups, joined, calls, pc, sent, leaked, unjoined>>
    BY <1>5 DEF Start
  <2>3. Types' /\ Held' /\ GroupsInv'
    BY <2>1, <2>2 DEF IInv, Types, Held, GroupsInv
  <2>4. MemberInv'
    BY <1>5, <2>2 DEF IInv, MemberInv, Start
  <2> QED BY <2>3, <2>4 DEF IInv
<1>6. CASE StartFails
  <2>1. calls # <<>>
    BY <1>6, <1>t, CallsContinue DEF StartFails
  <2>2. /\ conn \in {"none", "disconnected"} /\ conn' = "disconnected" /\ Finish
        /\ UNCHANGED <<groups, joined, leaked, unjoined>>
    BY <1>6 DEF StartFails
  <2>3. Types' /\ Held'
    BY <1>t, <2>1, <2>2, Finished DEF Types, Held
  <2>4. GroupsInv' /\ MemberInv'
    BY <1>t, <2>1, <2>2, Finished DEF IInv, GroupsInv, MemberInv
  <2> QED BY <2>3, <2>4 DEF IInv
<1>7. CASE WaitForChange
  <2>1. calls # <<>> /\ calls[1].op = "join" /\ pc = "start"
    BY <1>7, <1>t, CallsContinue DEF WaitForChange
  <2>2. RejoinPending => RejoinPending'
    BY <1>7, <2>1 DEF WaitForChange, Goto, RejoinPending
  <2>3. sent = FALSE /\ ~Switching
    BY <2>1, <1>t DEF IInv, Held, Switching, Types
  <2> QED BY <1>7, <1>t, <2>1, <2>2, <2>3, MovesOn DEF WaitForChange, Goto, Types
<1>8. CASE TimesOut
  <2>1. calls # <<>> /\ calls[1].op = "join" /\ pc = "wait"
    BY <1>8, <1>t, CallsContinue DEF TimesOut
  <2> QED BY <1>8, <1>t, <2>1, EndsQuietly DEF TimesOut, Switching, Types
<1>9. CASE Connected
  <2>1. /\ calls # <<>> /\ Head(calls) = calls[1] /\ calls[1].op = "join" /\ pc = "start"
        /\ calls[1].sim \in Sims
    BY <1>9, <1>t, CallsContinue DEF Connected
  <2>2. conn = "connected" /\ UNCHANGED <<conn, groups, joined, leaked, unjoined>>
    BY <1>9 DEF Connected
  <2>3. CASE Finish
    BY <1>t, <2>1, <2>2, <2>3, EndsQuietly DEF Switching, Types
  <2>4. ASSUME NEW label \in {"leave", "join"}, Invoke(label),
               label = "join" => joined = NoSim
        PROVE  IInv'
    <3>1. calls' = calls /\ pc' = label /\ sent' = TRUE
      BY <2>4 DEF Invoke
    <3>2. RejoinPending => RejoinPending'
      BY <2>1, <3>1 DEF RejoinPending
    <3>3. ~Switching
      BY <2>1 DEF Switching
    <3>4. joined = NoSim /\ ~leaked => groups = {}
      BY <1>t, ClientAssumption DEF IInv, GroupsInv, Types
    <3> QED BY <1>t, <2>1, <2>2, <2>4, <3>1, <3>2, <3>3, <3>4, MovesOn DEF Types
  <2> QED BY <1>9, <2>1, <2>3, <2>4 DEF Connected
<1>10. CASE StartLeave
  <2>1. calls # <<>> /\ calls[1].op = "leave" /\ pc = "start"
    BY <1>10, <1>t, CallsContinue DEF StartLeave
  <2>2. UNCHANGED <<conn, groups, leaked>>
    BY <1>10 DEF StartLeave
  <2>3. CASE conn = "connected" /\ Invoke("leave") /\ UNCHANGED <<joined, unjoined>>
    <3>1. RejoinPending => RejoinPending'
      BY <2>1, <2>3 DEF RejoinPending, Invoke
    <3>2. ~Switching
      BY <2>1 DEF Switching
    <3> QED BY <1>t, <2>1, <2>2, <2>3, <3>1, <3>2, MovesOn DEF Invoke, Types
  <2>4. CASE /\ conn # "connected" \/ joined = NoSim
             /\ Finish /\ joined' = NoSim /\ unjoined' = FALSE
    <3>1. Types' /\ Held'
      BY <1>t, <2>1, <2>2, <2>4, Finished DEF Types, Held
    <3>2. ~leaked => groups = {}
      BY <1>t, <2>4, ClientAssumption DEF IInv, GroupsInv, Types
    <3>3. GroupsInv' /\ MemberInv'
      BY <1>t, <2>1, <2>2, <2>4, <3>2, Finished DEF IInv, GroupsInv, MemberInv
    <3> QED BY <3>1, <3>3 DEF IInv
  <2> QED BY <1>10, <2>3, <2>4 DEF StartLeave
<1>11. CASE LeaveAnswered
  BY <1>11, <1>t, AfterLeaveStep DEF LeaveAnswered, Types
<1>12. CASE LeaveFails
  BY <1>12, <1>t, AfterLeaveStep DEF LeaveFails, Types
<1>13. CASE JoinAnswered
  BY <1>13, JoinAnsweredStep
<1>14. CASE JoinFails
  BY <1>14, JoinFailsStep
<1>15. CASE StartRejoin
  <2>1. calls # <<>> /\ calls[1].op = "rejoin" /\ pc = "start"
    BY <1>15, <1>t, CallsContinue DEF StartRejoin
  <2>2. UNCHANGED <<conn, groups, joined, leaked, unjoined>>
    BY <1>15 DEF StartRejoin
  <2>3. CASE conn = "connected" /\ joined # NoSim /\ Invoke("join")
    <3>1. RejoinPending => RejoinPending'
      BY <2>1, <2>3 DEF RejoinPending, Invoke
    <3>2. ~Switching
      BY <2>1 DEF Switching
    <3> QED BY <1>t, <2>1, <2>2, <2>3, <3>1, <3>2, MovesOn DEF Invoke, Types
  <2>4. CASE (conn # "connected" \/ joined = NoSim) /\ Finish
    <3>1. Types' /\ Held'
      BY <1>t, <2>1, <2>2, <2>4, Finished DEF Types, Held
    <3>2. GroupsInv' /\ MemberInv'
      BY <1>t, <2>1, <2>2, <2>4, Finished DEF IInv, GroupsInv, MemberInv
    <3> QED BY <3>1, <3>2 DEF IInv
  <2> QED BY <1>15, <2>3, <2>4 DEF StartRejoin
<1>16. CASE RejoinAnswered
  BY <1>16, RejoinAnsweredStep
<1>17. CASE RejoinFails
  <2>1. calls # <<>> /\ calls[1].op = "rejoin" /\ pc = "join"
    BY <1>17, <1>t, CallsContinue DEF RejoinFails
  <2>2. Finish /\ unjoined' = (unjoined \/ sent) /\ UNCHANGED <<conn, groups, joined, leaked>>
    BY <1>17 DEF RejoinFails
  <2>3. CASE sent
    BY <1>t, <2>1, <2>2, <2>3, EndsQuietly DEF Types
  <2>4. CASE ~sent
    <3>1. Types' /\ Held'
      BY <1>t, <2>1, <2>2, Finished DEF Types, Held
    <3>2. GroupsInv'
      BY <1>t, <2>1, <2>2, Finished DEF IInv, GroupsInv
    <3>3. RejoinPending => RejoinPending'
      <4> SUFFICES ASSUME RejoinPending PROVE RejoinPending'
        OBVIOUS
      <4>1. calls' = Tail(calls) /\ pc' = "start" /\ Len(calls) \in Nat \ {0}
        BY <1>t, <2>1, <2>2 DEF Finish, Types
      <4>2. PICK i \in 1..Len(calls) : calls[i].op = "rejoin" /\ i # 1
        BY <2>1, <2>4 DEF RejoinPending
      <4>3. i - 1 \in 1..Len(calls') /\ calls'[i - 1] = calls[i]
        BY <1>t, <4>1, <4>2 DEF Types
      <4> QED BY <4>1, <4>2, <4>3 DEF RejoinPending
    <3>4. MemberInv'
      BY <1>t, <2>2, <2>4, <3>3 DEF IInv, MemberInv, Switching, Types
    <3> QED BY <3>1, <3>2, <3>4 DEF IInv
  <2> QED BY <1>t, <2>3, <2>4 DEF Types
<1>18. CASE Lose
  BY <1>18, <1>t, DropStep DEF Lose, Drop
<1>19. CASE Closed
  BY <1>19, <1>t, DropStep DEF Closed, Drop
<1>20. CASE Reconnected
  BY <1>20, ReconnectedStep
<1>21. CASE ReconnectingFails
  <2>1. conn # "connected" /\ groups = {} /\ sent = FALSE
    BY <1>21, <1>t DEF ReconnectingFails, IInv, GroupsInv, Held, Types
  <2> QED BY <1>21, <1>t, <2>1, DropStep DEF ReconnectingFails, Types
<1>22. CASE UNCHANGED vars
  BY <1>22 DEF vars, IInv, Types, Held, GroupsInv, MemberInv, RejoinPending, Switching
<1> QED BY <1>1, <1>2, <1>3, <1>4, <1>5, <1>6, <1>7, <1>8, <1>9, <1>10, <1>11, <1>12,
           <1>13, <1>14, <1>15, <1>16, <1>17, <1>18, <1>19, <1>20, <1>21, <1>22
        DEF Next, Progress

(* The invariant holds of every run of the client.                         *)
THEOREM Invariant == Spec => []IInv
BY InitIInv, StepIInv, PTL DEF Spec

(* A connected client at rest is in the group it joined and in no other,   *)
(* if no failure has leaked one on this connection, or kept it out of it.  *)
THEOREM MembershipAgrees == Spec => []InJoinedOnly
<1>1. IInv => InJoinedOnly
  <2>1. ASSUME IInv, AtRest, ~leaked PROVE groups \subseteq {joined}
    BY <2>1 DEF IInv, GroupsInv, AtRest
  <2>2. ASSUME IInv, AtRest, ~unjoined, joined # NoSim PROVE joined \in groups
    <3>1. ~RejoinPending /\ ~Switching
      BY <2>2 DEF AtRest, RejoinPending, Switching
    <3> QED BY <2>2, <3>1 DEF IInv, MemberInv, AtRest
  <2> QED BY <2>1, <2>2 DEF InJoinedOnly
<1> QED BY <1>1, Invariant, PTL

-----------------------------------------------------------------------------
(* The theme.                                                              *)
Choices == Themes \cup {NoTheme}
Answers == Choices \cup {Failed}

StyleTypes ==
  /\ storage \in {"ok", "full", "blocked"}
  /\ stored \in Choices \cup {"other"}
  /\ stage \in [Tabs -> {"closed", "booting", "live"}]
  /\ shown \in [Tabs -> Choices]
  /\ isDark \in [Tabs -> BOOLEAN]
  /\ pending \in [Tabs -> Seq(Answers)]
  /\ told \in [Tabs -> BOOLEAN]

(* The last of the answers under way.                                      *)
LastAnswer(t) == pending[t][Len(pending[t])]

(* What a tab that is told will make of its label: what it was answered    *)
(* last is shown; but as long as nothing is shown, and nothing can be read *)
(* of the storage, it is only ever answered that.                          *)
Labelled(t) ==
  IF storage = "blocked" /\ shown[t] = NoTheme
    THEN /\ ~isDark[t]
         /\ \A i \in 1..Len(pending[t]) : pending[t][i] \in {NoTheme, Failed}
    ELSE IF pending[t] = <<>> THEN isDark[t] = (shown[t] = "dark")
    ELSE LastAnswer(t) = shown[t]

LabelInv ==
  \A t \in Tabs :
    /\ told[t] /\ stage[t] = "live" => Labelled(t)
    /\ stage[t] = "booting" => pending[t] = <<>> /\ ~isDark[t]

(* The owner shows what is stored; nothing was stored while it is blocked. *)
OwnerInv ==
  /\ \A t \in Tabs : owner = t => stored = shown[t] /\ stored \in Themes
  /\ storage = "blocked" => owner = NoTheme

StyleInv == StyleTypes /\ LabelInv /\ OwnerInv

(* What a tab is asked to show is one of the two themes.                   *)
LEMMA Applied ==
  /\ \A theme : applyTheme(theme) \in Themes
  /\ \A theme \in Themes : applyTheme(theme) = theme
BY DEF applyTheme, Themes

(* An answer more is the last one, and taking one over leaves the last.    *)
LEMMA OneMoreAnswer ==
  ASSUME NEW s \in Seq(Answers), NEW a \in Answers
  PROVE  /\ Append(s, a) \in Seq(Answers)
         /\ Append(s, a) # <<>>
         /\ Len(Append(s, a)) = Len(s) + 1
         /\ Append(s, a)[Len(Append(s, a))] = a
         /\ \A i \in 1..Len(Append(s, a)) :
              \/ Append(s, a)[i] = a
              \/ i \in 1..Len(s) /\ Append(s, a)[i] = s[i]
OBVIOUS

LEMMA OneAnswerLess ==
  ASSUME NEW s \in Seq(Answers), s # <<>>
  PROVE  /\ Head(s) = s[1] /\ Head(s) \in Answers
         /\ Tail(s) \in Seq(Answers)
         /\ Len(s) \in Nat \ {0}
         /\ Tail(s) = <<>> => s[Len(s)] = Head(s)
         /\ Tail(s) # <<>> => Tail(s)[Len(Tail(s))] = s[Len(s)]
         /\ \A i \in 1..Len(Tail(s)) : i + 1 \in 1..Len(s) /\ Tail(s)[i] = s[i + 1]
<1>1. Len(s) \in Nat \ {0} /\ Tail(s) \in Seq(Answers) /\ Len(Tail(s)) = Len(s) - 1
  OBVIOUS
<1>2. \A i \in 1..Len(Tail(s)) : i + 1 \in 1..Len(s) /\ Tail(s)[i] = s[i + 1]
  OBVIOUS
<1>3. Tail(s) = <<>> => Len(s) = 1
  <2>1. Len(<<>>) = 0
    OBVIOUS
  <2>2. Tail(s) = <<>> => Len(Tail(s)) = 0
    BY <2>1, Zenon
  <2> QED BY <1>1, <2>2
<1>4. Tail(s) # <<>> => Len(Tail(s)) \in 1..Len(Tail(s))
  BY <1>1
<1> QED BY <1>1, <1>2, <1>3, <1>4

(* No tab is open at first.                                                *)
LEMMA InitStyle == ThemeInit => StyleInv
<1> SUFFICES ASSUME ThemeInit PROVE StyleInv
  OBVIOUS
<1>1. <<>> \in Seq(Answers)
  OBVIOUS
<1>2. StyleTypes
  BY <1>1 DEF ThemeInit, StyleTypes, Choices
<1>3. LabelInv
  BY DEF ThemeInit, LabelInv
<1>4. OwnerInv
  BY ThemeAssumption DEF ThemeAssumption, ThemeInit, OwnerInv
<1> QED BY <1>2, <1>3, <1>4 DEF StyleInv

(* A choice is stored and owned, or else what was owned stays.             *)
LEMMA SetOwner ==
  ASSUME StyleTypes, OwnerInv, NEW t \in Tabs, NEW theme,
         set(t, theme), storage' = storage
  PROVE  /\ OwnerInv'
         /\ shown' \in [Tabs -> Choices] /\ stored' \in Choices \cup {"other"}
         /\ shown'[t] = applyTheme(theme) /\ shown'[t] \in Themes
         /\ \A u \in Tabs \ {t} : shown'[u] = shown[u]
<1> DEFINE applied == applyTheme(theme)
<1>1. applied \in Themes
  BY Applied
<1>2. /\ shown' = [shown EXCEPT ![t] = applied]
      /\ stored' = IF storage = "ok" THEN applied ELSE stored
      /\ owner' = IF storage = "ok" THEN t
                  ELSE IF owner = t THEN NoTheme ELSE owner
  BY DEF set, Writable
<1> HIDE DEF applied
<1>3. /\ shown' \in [Tabs -> Choices] /\ stored' \in Choices \cup {"other"}
      /\ shown'[t] = applied
      /\ \A u \in Tabs \ {t} : shown'[u] = shown[u]
  BY <1>1, <1>2 DEF StyleTypes, Choices
<1>4. OwnerInv'
  BY <1>1, <1>2, <1>3, ThemeAssumption DEF OwnerInv, ThemeAssumption
<1> QED BY <1>1, <1>3, <1>4 DEF applied

(* Where a label is concerned, the other tabs' answers do not count.       *)
LEMMA OtherLabels ==
  ASSUME LabelInv, NEW t \in Tabs, storage' = storage,
         \A u \in Tabs \ {t} :
           /\ shown'[u] = shown[u] /\ isDark'[u] = isDark[u] /\ pending'[u] = pending[u]
           /\ told'[u] = told[u] /\ stage'[u] = stage[u],
         told'[t] /\ stage'[t] = "live" => Labelled(t)',
         stage'[t] = "booting" => pending'[t] = <<>> /\ ~isDark'[t]
  PROVE  LabelInv'
BY DEF LabelInv, Labelled, LastAnswer

(* Every step keeps it.                                                    *)
LEMMA StepStyle ==
  StyleInv /\ [ThemeNext]_themeVars => StyleInv'
<1> SUFFICES ASSUME StyleInv, [ThemeNext]_themeVars
             PROVE  StyleInv'
  OBVIOUS
<1> USE DEF browser
<1>t. StyleTypes /\ LabelInv /\ OwnerInv
  BY DEF StyleInv
<1>e. <<>> \in Seq(Answers)
  OBVIOUS
<1>1. CASE SystemChanges
  BY <1>1, <1>t DEF SystemChanges, StyleInv, StyleTypes, LabelInv, Labelled,
                    LastAnswer, OwnerInv
<1>2. CASE StorageChanges
  <2>1. storage # "blocked" /\ storage' \in {"full", "ok"}
    BY <1>2 DEF StorageChanges, Readable, Writable
  <2> QED BY <1>2, <1>t, <2>1
          DEF StorageChanges, StyleInv, StyleTypes, LabelInv, Labelled, LastAnswer, OwnerInv
<1>3. ASSUME NEW t \in Tabs, Load(t) PROVE StyleInv'
  <2> DEFINE first == IF Readable THEN applyTheme(getPreferredTheme)
                      ELSE NoTheme
  <2>1. first \in Choices
    BY Applied DEF Choices
  <2>2. owner = t => first = stored
    <3> SUFFICES ASSUME owner = t PROVE first = stored
      OBVIOUS
    <3>1. stored \in Themes /\ Readable
      BY <1>t, ThemeAssumption DEF OwnerInv, Readable, ThemeAssumption
    <3> QED BY <3>1, Applied DEF getPreferredTheme
  <2>3. shown' = [shown EXCEPT ![t] = first]
    BY <1>3 DEF Load
  <2> HIDE DEF first
  <2>4. StyleTypes'
    BY <1>3, <1>t, <1>e, <2>1, <2>3 DEF Load, StyleTypes
  <2>5. told'[t] = FALSE /\ storage' = storage
        /\ pending'[t] = <<>> /\ ~isDark'[t]
        /\ \A u \in Tabs \ {t} :
             /\ shown'[u] = shown[u] /\ isDark'[u] = isDark[u] /\ pending'[u] = pending[u]
             /\ told'[u] = told[u] /\ stage'[u] = stage[u]
    BY <1>3, <1>t, <2>3 DEF Load, StyleTypes
  <2>6. LabelInv'
    BY <1>t, <2>5, OtherLabels
  <2>7. OwnerInv'
    BY <1>3, <1>t, <2>2, <2>3 DEF Load, OwnerInv, StyleTypes
  <2> QED BY <2>4, <2>6, <2>7 DEF StyleInv
<1>4. ASSUME NEW t \in Tabs, Close(t) PROVE StyleInv'
  <2>1. StyleTypes' /\ OwnerInv'
    BY <1>4, <1>t, ThemeAssumption DEF Close, StyleTypes, OwnerInv, ThemeAssumption
  <2>2. LabelInv'
    BY <1>4, <1>t DEF Close, StyleTypes, LabelInv, Labelled, LastAnswer
  <2> QED BY <2>1, <2>2 DEF StyleInv
<1>5. ASSUME NEW t \in Tabs, FirstRender(t) PROVE StyleInv'
  <2> DEFINE p == Append(pending[t], shown[t])
  <2>1. pending[t] \in Seq(Answers) /\ shown[t] \in Answers
    BY <1>t DEF StyleTypes, Answers
  <2>2. p \in Seq(Answers) /\ p # <<>> /\ p[Len(p)] = shown[t]
    BY <2>1, OneMoreAnswer
  <2>3. pending' = [pending EXCEPT ![t] = p]
    BY <1>5 DEF FirstRender, Reply
  <2> HIDE DEF p
  <2>4. StyleTypes' /\ OwnerInv'
    BY <1>5, <1>t, <2>2, <2>3 DEF FirstRender, StyleTypes, OwnerInv
  <2>5. storage' = storage /\ shown' = shown /\ isDark' = isDark
        /\ stage[t] = "booting" /\ stage'[t] = "live"
        /\ \A u \in Tabs \ {t} :
             /\ pending'[u] = pending[u] /\ told'[u] = told[u] /\ stage'[u] = stage[u]
    BY <1>5, <1>t, <2>3 DEF FirstRender, StyleTypes
  <2>6. pending'[t] = p /\ pending[t] = <<>> /\ ~isDark[t]
    BY <1>t, <2>3, <2>5 DEF StyleTypes, LabelInv
  <2>7. Labelled(t)'
    <3>1. p = <<shown[t]>>
      BY <2>6 DEF p
    <3> QED BY <2>2, <2>5, <2>6, <3>1 DEF Labelled, LastAnswer
  <2>8. LabelInv'
    BY <1>t, <2>5, <2>7, OtherLabels
  <2> QED BY <2>4, <2>8 DEF StyleInv
<1>6. ASSUME NEW t \in Tabs, TakeAnswer(t) PROVE StyleInv'
  <2> DEFINE p == Tail(pending[t])
             a == Head(pending[t])
             label == IF a = Failed THEN isDark[t] ELSE a = "dark"
  <2>1. pending[t] \in Seq(Answers) /\ pending[t] # <<>> /\ stage[t] = "live"
    BY <1>6, <1>t DEF StyleTypes, TakeAnswer
  <2>2. p \in Seq(Answers) /\ label \in BOOLEAN
    BY <1>t, <2>1, OneAnswerLess DEF StyleTypes
  <2>3. pending' = [pending EXCEPT ![t] = p] /\ isDark' = [isDark EXCEPT ![t] = label]
    BY <1>6 DEF TakeAnswer
  <2> HIDE DEF p, label, a
  <2>4. StyleTypes' /\ OwnerInv'
    BY <1>6, <1>t, <2>2, <2>3 DEF TakeAnswer, StyleTypes, OwnerInv
  <2>5. storage' = storage /\ shown' = shown /\ told' = told /\ stage' = stage
        /\ pending'[t] = p /\ isDark'[t] = label
        /\ \A u \in Tabs \ {t} : pending'[u] = pending[u] /\ isDark'[u] = isDark[u]
    BY <1>6, <1>t, <2>3 DEF TakeAnswer, StyleTypes
  <2>6. ASSUME told[t] PROVE Labelled(t)'
    <3>1. Labelled(t)
      BY <1>t, <2>1, <2>6 DEF LabelInv
    <3>2. CASE storage = "blocked" /\ shown[t] = NoTheme
      <4>1. a \in {NoTheme, Failed} /\ ~isDark[t]
        BY <2>1, <3>1, <3>2, OneAnswerLess DEF a, Labelled
      <4>2. ~label
        BY <4>1 DEF label, NoTheme, Failed
      <4>3. \A i \in 1..Len(p) : p[i] \in {NoTheme, Failed}
        BY <2>1, <3>1, <3>2, OneAnswerLess DEF p, Labelled
      <4> QED BY <2>5, <3>2, <4>2, <4>3 DEF Labelled
    <3>3. CASE ~(storage = "blocked" /\ shown[t] = NoTheme)
      <4>1. pending[t][Len(pending[t])] = shown[t]
        BY <2>1, <3>1, <3>3 DEF Labelled, LastAnswer
      <4>2. CASE p = <<>>
        <5>1. a = shown[t] /\ shown[t] \in Choices
          BY <1>t, <2>1, <4>1, <4>2, OneAnswerLess DEF a, p, StyleTypes
        <5>2. label = (shown[t] = "dark")
          BY <5>1 DEF label, Choices, NoTheme, Failed, Themes
        <5> QED BY <2>5, <3>3, <4>2, <5>2 DEF Labelled
      <4>3. CASE p # <<>>
        <5>1. p[Len(p)] = shown[t]
          BY <2>1, <4>1, <4>3, OneAnswerLess DEF p
        <5> QED BY <2>5, <3>3, <4>3, <5>1 DEF Labelled, LastAnswer
      <4> QED BY <4>2, <4>3
    <3> QED BY <3>2, <3>3
  <2>7. LabelInv'
    BY <1>t, <2>1, <2>5, <2>6, OtherLabels
  <2> QED BY <2>4, <2>7 DEF StyleInv
<1>7. ASSUME NEW t \in Tabs, Toggle(t) PROVE StyleInv'
  <2> DEFINE a == IF Writable THEN shown'[t] ELSE Failed
             p == Append(pending[t], a)
  <2>1. set(t, Opposite(current(t))) /\ storage' = storage
        /\ pending' = [pending EXCEPT ![t] = p]
        /\ told' = [told EXCEPT ![t] = Writable]
        /\ stage' = stage /\ isDark' = isDark /\ stage[t] = "live"
    BY <1>7 DEF Toggle, Reply, Clickable
  <2>2. OwnerInv' /\ shown' \in [Tabs -> Choices] /\ stored' \in Choices \cup {"other"}
        /\ shown'[t] \in Themes /\ \A u \in Tabs \ {t} : shown'[u] = shown[u]
    BY <1>t, <2>1, SetOwner
  <2>3. p \in Seq(Answers) /\ p # <<>> /\ p[Len(p)] = a
    <3>1. a \in Answers /\ pending[t] \in Seq(Answers)
      BY <1>t, <2>2 DEF Answers, Choices, StyleTypes
    <3> QED BY <3>1, OneMoreAnswer
  <2> HIDE DEF p
  <2>4. StyleTypes'
    BY <1>t, <2>1, <2>2, <2>3 DEF StyleTypes, Writable
  <2>5. /\ pending'[t] = p /\ told'[t] = Writable
        /\ \A u \in Tabs \ {t} : pending'[u] = pending[u] /\ told'[u] = told[u]
    BY <1>t, <2>1 DEF StyleTypes
  <2>6. ASSUME told'[t] PROVE Labelled(t)'
    BY <2>1, <2>2, <2>3, <2>5, <2>6 DEF Labelled, LastAnswer, Writable
  <2>7. LabelInv'
    BY <1>t, <2>1, <2>2, <2>5, <2>6, OtherLabels
  <2> QED BY <2>2, <2>4, <2>7 DEF StyleInv
<1>8. ASSUME NEW t \in Tabs, ToggleBlocked(t) PROVE StyleInv'
  <2> DEFINE p == Append(pending[t], Failed)
  <2>1. /\ storage = "blocked" /\ shown[t] = NoTheme /\ stage[t] = "live"
        /\ pending' = [pending EXCEPT ![t] = p]
        /\ UNCHANGED <<storage, prefersDark, stored, stage, shown, isDark, told, owner>>
    BY <1>8 DEF ToggleBlocked, Reply, Clickable, Readable
  <2>2. pending[t] \in Seq(Answers) /\ Failed \in Answers
    BY <1>t DEF StyleTypes, Answers
  <2>3. /\ p \in Seq(Answers)
        /\ \A i \in 1..Len(p) : \/ p[i] = Failed
                                \/ i \in 1..Len(pending[t]) /\ p[i] = pending[t][i]
    BY <2>2, OneMoreAnswer
  <2> HIDE DEF p
  <2>4. StyleTypes' /\ OwnerInv'
    BY <1>t, <2>1, <2>3 DEF StyleTypes, OwnerInv
  <2>5. pending'[t] = p /\ \A u \in Tabs \ {t} : pending'[u] = pending[u]
    BY <1>t, <2>1 DEF StyleTypes
  <2>6. ASSUME told[t] PROVE Labelled(t)'
    <3>1. Labelled(t)
      BY <1>t, <2>1, <2>6 DEF LabelInv
    <3> QED BY <2>1, <2>3, <2>5, <3>1 DEF Labelled
  <2>7. LabelInv'
    BY <1>t, <2>1, <2>5, <2>6, OtherLabels
  <2> QED BY <2>4, <2>7 DEF StyleInv
<1>9. ASSUME NEW t \in Tabs, NEW theme, Set(t, theme) PROVE StyleInv'
  <2>1. set(t, theme) /\ told' = [told EXCEPT ![t] = FALSE]
        /\ UNCHANGED <<storage, prefersDark, stage, isDark, pending>>
    BY <1>9 DEF Set
  <2>2. OwnerInv' /\ shown' \in [Tabs -> Choices] /\ stored' \in Choices \cup {"other"}
        /\ \A u \in Tabs \ {t} : shown'[u] = shown[u]
    BY <1>t, <2>1, SetOwner
  <2>3. StyleTypes'
    BY <1>t, <2>1, <2>2 DEF StyleTypes
  <2>4. told'[t] = FALSE /\ \A u \in Tabs \ {t} : told'[u] = told[u]
    BY <1>t, <2>1 DEF StyleTypes
  <2>5. LabelInv'
    BY <1>t, <2>1, <2>2, <2>4 DEF LabelInv, Labelled, LastAnswer
  <2> QED BY <2>2, <2>3, <2>5 DEF StyleInv
<1>10. ASSUME NEW t \in Tabs, clear(t) PROVE StyleInv'
  <2>1. StyleTypes' /\ OwnerInv'
    BY <1>10, <1>t, ThemeAssumption
       DEF clear, StyleTypes, OwnerInv, Choices, ThemeAssumption
  <2>2. LabelInv'
    BY <1>10, <1>t DEF clear, StyleTypes, LabelInv, Labelled, LastAnswer
  <2> QED BY <2>1, <2>2 DEF StyleInv
<1>11. CASE UNCHANGED themeVars
  BY <1>11, <1>t DEF themeVars, StyleInv, StyleTypes, LabelInv, Labelled, LastAnswer, OwnerInv
<1> QED BY <1>1, <1>2, <1>3, <1>4, <1>5, <1>6, <1>7, <1>8, <1>9, <1>10, <1>11
        DEF ThemeNext

(* The invariant holds of every run of the tabs.                           *)
THEOREM StyleInvariant ==
  ThemeSpec => []StyleInv
BY InitStyle, StepStyle, PTL DEF ThemeSpec

(* The button offers the other theme than the one that is shown.           *)
THEOREM ButtonOffersOther ==
  ThemeSpec => []ButtonAgrees
<1>1. StyleInv => ButtonAgrees
  BY DEF StyleInv, StyleTypes, LabelInv, Labelled, ButtonAgrees, NoTheme
<1> QED BY <1>1, StyleInvariant, PTL

(* A reload shows the choice that was stored last.                         *)
THEOREM ChoiceSurvivesReload ==
  ThemeSpec => []ReloadKeepsChoice
<1>1. StyleInv => ReloadKeepsChoice
  BY Applied DEF StyleInv, OwnerInv, ReloadKeepsChoice, Reloaded,
     getPreferredTheme
<1> QED BY <1>1, StyleInvariant, PTL

(* A click changes what is shown, whatever other tabs have stored.         *)
THEOREM ClickTurnsOver ==
  ThemeSpec => ClickFlips
<1> DEFINE Flips ==
      \A t \in Tabs :
        stage[t] = "live" /\ Len(pending'[t]) > Len(pending[t]) /\ shown[t] # NoTheme
          => shown'[t] # shown[t]
<1>1. StyleInv /\ [ThemeNext]_themeVars => [Flips]_themeVars
  <2> SUFFICES ASSUME StyleInv, ThemeNext, NEW t \in Tabs, stage[t] = "live",
                      Len(pending'[t]) > Len(pending[t]), shown[t] # NoTheme
               PROVE  shown'[t] # shown[t]
    OBVIOUS
  <2>0. pending[t] \in Seq(Answers) /\ Len(pending[t]) \in Nat /\ shown[t] \in Themes
    BY DEF StyleInv, StyleTypes, Choices
  <2>1. /\ pending'[t] # pending[t] /\ pending'[t] # <<>>
        /\ pending[t] # <<>> => pending'[t] # Tail(pending[t])
    <3> DEFINE Longer(s) == Len(s) > Len(pending[t])
    <3>1. ~Longer(pending[t]) /\ ~Longer(<<>>)
      BY <2>0
    <3>2. pending[t] # <<>> => ~Longer(Tail(pending[t]))
      BY <2>0
    <3>3. Longer(pending'[t])
      OBVIOUS
    <3> HIDE DEF Longer
    <3> QED BY <3>1, <3>2, <3>3, Zenon
  <2>2. ASSUME NEW u \in Tabs, Toggle(u) PROVE shown'[t] # shown[t]
    <3> DEFINE theme == Opposite(current(u))
    <3>1. \E a : pending' = [pending EXCEPT ![u] = Append(@, a)]
      BY <2>2 DEF Toggle, Reply
    <3>2. u = t
      BY <2>1, <3>1 DEF StyleInv, StyleTypes
    <3>3. shown' = [shown EXCEPT ![u] = applyTheme(theme)]
      BY <2>2 DEF Toggle, set
    <3>4. applyTheme(theme) # shown[t]
      BY <2>0, <3>2 DEF current, Opposite, applyTheme, Themes
    <3> QED BY <3>2, <3>3, <3>4 DEF StyleInv, StyleTypes
  <2>3. ASSUME NEW u \in Tabs, Load(u) PROVE FALSE
    <3>1. pending' = [pending EXCEPT ![u] = <<>>]
      BY <2>3 DEF Load
    <3> QED BY <2>1, <3>1 DEF StyleInv, StyleTypes
  <2>4. ASSUME NEW u \in Tabs, TakeAnswer(u) PROVE FALSE
    <3>1. pending[u] # <<>> /\ pending' = [pending EXCEPT ![u] = Tail(@)]
      BY <2>4 DEF TakeAnswer
    <3> QED BY <2>1, <3>1 DEF StyleInv, StyleTypes
  <2>5. ASSUME NEW u \in Tabs, FirstRender(u) \/ ToggleBlocked(u) PROVE FALSE
    <3>1. u # t
      BY <2>5 DEF FirstRender, ToggleBlocked
    <3> QED BY <2>1, <2>5, <3>1
            DEF FirstRender, ToggleBlocked, Reply, StyleInv, StyleTypes
  <2> QED
    BY <2>1, <2>2, <2>3, <2>4, <2>5 DEF ThemeNext, SystemChanges,
       StorageChanges, Close, clear, Set
<1> QED BY <1>1, StyleInvariant, PTL DEF ThemeSpec, ClickFlips

-----------------------------------------------------------------------------
(* The Simulation page.                                                    *)
Ids == Sims \cup {None}
Entries == Ids \cup ({User} \X Sims)
Snaps == [sim : Sims, params : Ids, signals : Ids]
LoadStates ==
  [pc : {"new", "defs", "values", "signals", "status", "done", "failed"},
   asked : Ids, values : Ids, signals : Ids]

PageTypes ==
  /\ simId \in Sims
  /\ started \in Loads
  /\ load \in [Loads -> LoadStates]
  /\ latest \in Snaps \cup {None}
  /\ poll \in {Idle} \cup [pc : {"status", "values"}, sim : Sims]
  /\ edits \in [Names -> Entries]
  /\ viewSnap \in [Sims -> Snaps \cup {None}]
  /\ viewEdits \in [Sims -> [Names -> Entries]]
  /\ crossed \in BOOLEAN

(* What a load has read is of the page's simulation.                       *)
LoadOwn ==
  LET l == load[started] IN
  /\ \A k \in Loads : Running(k) => k = started
  /\ l.pc \in {"defs", "values", "signals", "status"} => l.asked = simId
  /\ l.pc \in {"signals", "status"} => l.values = simId
  /\ l.pc = "status" => l.signals = simId
  /\ l.pc \in {"values", "signals", "status", "done"} => defs = simId

(* So is what is shown, and what is cached is of its simulation.           *)
SnapsOwn ==
  /\ poll # Idle => poll.sim = simId
  /\ {latest, ui} \subseteq {None, Own(simId)}
  /\ \A s \in Sims : viewSnap[s] \in {None, Own(s)}

(* So are the drafts.                                                      *)
DraftsOwn ==
  /\ \A s \in Sims, n \in Names : viewEdits[s][n] \in {None, s, Typed(s)}
  /\ load[started].pc = "done" =>
       \A n \in ParamsOf[simId] : edits[n] \in {simId, Typed(simId)}

(* A snapshot is cached under the name it bears, however the page moved on. *)
CacheNamed == \A s \in Sims : viewSnap[s] # None => viewSnap[s].sim = s

PageInv ==
  /\ PageTypes
  /\ CacheNamed
  /\ JoinsCurrent
  /\ ~crossed => LoadOwn /\ SnapsOwn /\ DraftsOwn

(* The constants of the page.                                              *)
LEMMA PageConstants ==
  /\ MaxLoads \in Nat \ {0} /\ Loads = 1..MaxLoads
  /\ None \notin Sims
  /\ \A s \in Sims : Typed(s) # None /\ Typed(s) \in Entries
  /\ \A s \in Sims : ParamsOf[s] \subseteq Names
  /\ \A s \in Sims : Own(s) \in Snaps /\ Own(s).sim = s
BY PageAssumption DEF PageAssumption, Loads, Typed, Names, Own, Snapshot,
   Snaps, Ids, Entries

(* The first load is under way, and nothing is shown.                      *)
LEMMA InitPage == PageInit => PageInv
<1> SUFFICES ASSUME PageInit PROVE PageInv
  OBVIOUS
<1>1. 1 \in Loads
  BY PageConstants
<1>2. load \in [Loads -> LoadStates]
  BY DEF PageInit, Started, NotStarted, LoadStates, Ids
<1>3. load[1] = Started(simId) /\ load[1].pc = "defs" /\ load[1].asked = simId
  BY <1>1 DEF PageInit, Started, NotStarted
<1>4. \A k \in Loads : k # 1 => load[k].pc = "new"
  BY DEF PageInit, NotStarted
<1>5. PageTypes
  BY <1>1, <1>2 DEF PageInit, PageTypes, NoEdits, Entries, Ids
<1>6. JoinsCurrent
  BY <1>1, <1>3 DEF JoinsCurrent, Running
<1>7. LoadOwn /\ SnapsOwn
  BY <1>1, <1>3, <1>4 DEF PageInit, LoadOwn, SnapsOwn, Running
<1>8. DraftsOwn /\ CacheNamed
  BY <1>3 DEF PageInit, DraftsOwn, CacheNamed, NoEdits
<1> QED BY <1>5, <1>6, <1>7, <1>8 DEF PageInv

(* What is cached for a simulation is its own.                             *)
LEMMA CachedOwn ==
  ASSUME PageTypes, NEW s \in Sims
  PROVE  /\ Cached(s) \in Snaps \cup {None}
         /\ SnapsOwn => Cached(s) \in {None, Own(s)}
BY PageConstants DEF PageTypes, SnapsOwn, Cached

(* The page is set to another simulation.                                  *)
LEMMA MoveStep ==
  ASSUME PageInv, NEW s \in Sims, OnParametersSet(s)
  PROVE  PageInv'
<1> DEFINE l == started + 1
<1>0. PageTypes /\ CacheNamed /\ started \in Loads /\ l \in Loads /\ l # started
  <2>1. PageTypes /\ CacheNamed /\ started \in Loads
    BY DEF PageInv, PageTypes
  <2>2. started < MaxLoads
    BY DEF OnParametersSet
  <2> QED BY <2>1, <2>2, PageConstants
<1>1. Started(s) \in LoadStates /\ Started(s).pc = "defs" /\ Started(s).asked = s
  BY DEF Started, NotStarted, LoadStates, Ids
<1>2. /\ load' = [load EXCEPT ![l] = Started(s)]
      /\ started' = l /\ simId' = s /\ latest' = Cached(s) /\ ui' = Cached(s)
      /\ edits' = (IF viewEdits[s] # NoEdits THEN viewEdits[s] ELSE edits)
      /\ crossed' = (crossed \/ poll # Idle \/ \E k \in Loads : Running(k))
      /\ UNCHANGED <<defs, poll, viewSnap, viewEdits, viewed, hubHas, joins>>
  BY DEF OnParametersSet, view
<1> HIDE DEF l
<1>3. /\ load' \in [Loads -> LoadStates] /\ load'[l] = Started(s)
      /\ \A k \in Loads \ {l} : load'[k] = load[k]
  BY <1>0, <1>1, <1>2 DEF PageTypes
<1>4. PageTypes'
  BY <1>0, <1>2, <1>3, CachedOwn DEF PageTypes
<1>5. JoinsCurrent'
  BY <1>0, <1>1, <1>3 DEF JoinsCurrent, Running
<1>6. CacheNamed'
  BY <1>0, <1>2 DEF CacheNamed
<1>7. ASSUME ~crossed' PROVE LoadOwn' /\ SnapsOwn' /\ DraftsOwn'
  <2>1. /\ ~crossed /\ poll = Idle /\ \A k \in Loads : ~Running(k)
        /\ SnapsOwn /\ DraftsOwn
    BY <1>2, <1>7 DEF PageInv, PageTypes
  <2>2. LoadOwn'
    BY <1>0, <1>1, <1>2, <1>3, <2>1 DEF LoadOwn, Running
  <2>3. SnapsOwn'
    BY <1>0, <1>2, <2>1, CachedOwn DEF SnapsOwn
  <2>4. DraftsOwn'
    BY <1>1, <1>2, <1>3, <2>1 DEF DraftsOwn
  <2> QED BY <2>2, <2>3, <2>4
<1> QED BY <1>4, <1>5, <1>6, <1>7 DEF PageInv

(* An answer to a request of a load: the next one is for the page's        *)
(* simulation.                                                             *)
LEMMA AnswerStep ==
  ASSUME PageInv, NEW l \in Loads,
         NEW from, NEW to, Answer(l, from, to),
         \/ from = "defs" /\ to = "values" /\ defs' = load[l].asked
         \/ /\ (from = "values" /\ to = "signals") \/ (from = "signals" /\ to = "status")
            /\ defs' = defs,
         UNCHANGED <<simId, started, latest, unseen, ui, recent, poll, edits,
                     viewSnap, viewEdits, viewed, hubHas, joins, crossed>>
  PROVE  PageInv'
<1> DEFINE m == [pc |-> to, asked |-> simId,
                 values |-> IF from = "values" THEN load[l].asked ELSE load[l].values,
                 signals |-> IF from = "signals" THEN load[l].asked ELSE load[l].signals]
<1>0. PageTypes /\ CacheNamed /\ load[l] \in LoadStates /\ load[l].pc = from
  BY DEF PageInv, PageTypes, Answer
<1>1. load' = [load EXCEPT ![l] = m]
  <2> DEFINE x == [load[l] EXCEPT !.pc = to, !.asked = simId,
                      !.values = IF from = "values" THEN load[l].asked ELSE @,
                      !.signals = IF from = "signals" THEN load[l].asked ELSE @]
  <2>1. x = m
    <3>1. x = [f \in {"pc", "asked", "values", "signals"} |-> x[f]]
      BY <1>0 DEF LoadStates
    <3>2. m = [f \in {"pc", "asked", "values", "signals"} |-> m[f]]
      OBVIOUS
    <3>3. x["pc"] = m["pc"] /\ x["asked"] = m["asked"]
      BY <1>0 DEF LoadStates
    <3>4. x["values"] = m["values"] /\ x["signals"] = m["signals"]
      BY <1>0 DEF LoadStates
    <3> HIDE DEF x, m
    <3> QED BY <3>1, <3>2, <3>3, <3>4
  <2>2. load' = [load EXCEPT ![l] =
                   [load[l] EXCEPT !.pc = to, !.asked = simId,
                      !.values = IF from = "values" THEN load[l].asked ELSE @,
                      !.signals = IF from = "signals" THEN load[l].asked ELSE @]]
    BY DEF Answer
  <2> QED BY <2>1, <2>2
<1>2. m \in LoadStates
  BY <1>0 DEF LoadStates, PageTypes, Ids
<1>3. /\ m.pc = to /\ m.asked = simId
      /\ from = "values" => m.values = load[l].asked
      /\ from = "signals" => m.signals = load[l].asked /\ m.values = load[l].values
  OBVIOUS
<1> HIDE DEF m
<1>4. /\ load' \in [Loads -> LoadStates] /\ load'[l] = m
      /\ \A k \in Loads \ {l} : load'[k] = load[k]
  BY <1>0, <1>1, <1>2 DEF PageTypes
<1>5. PageTypes' /\ CacheNamed'
  BY <1>0, <1>4 DEF PageTypes, CacheNamed
<1>6. JoinsCurrent'
  BY <1>0, <1>3, <1>4 DEF JoinsCurrent, Running
<1>7. ASSUME ~crossed' PROVE LoadOwn' /\ SnapsOwn' /\ DraftsOwn'
  <2>1. LoadOwn /\ SnapsOwn /\ DraftsOwn
    BY <1>7 DEF PageInv
  <2>2. l = started
    BY <1>0, <2>1 DEF LoadOwn, Running
  <2>3. load[l].asked = simId
    BY <1>0, <2>1, <2>2 DEF LoadOwn
  <2>4. LoadOwn'
    BY <1>0, <1>3, <1>4, <2>1, <2>2, <2>3 DEF LoadOwn, Running
  <2>5. SnapsOwn' /\ DraftsOwn'
    BY <1>3, <1>4, <2>1, <2>2 DEF SnapsOwn, DraftsOwn
  <2> QED BY <2>4, <2>5
<1> QED BY <1>5, <1>6, <1>7 DEF PageInv

(* The end of a load: values are merged into the drafts of the page's      *)
(* simulation.                                                             *)
LEMMA LoadEndsStep ==
  ASSUME PageInv, NEW l \in Loads, LoadEnds(l)
  PROVE  /\ PageInv'
         /\ ~crossed => \A s \in Sims : \A n \in ParamsOf[s] :
              viewEdits[s][n] = Typed(s) => viewEdits'[s][n] = Typed(s)
<1> DEFINE v == load[l].values
           m == [NotStarted EXCEPT !.pc = "done"]
           drafts == Known(Merged(simId, v), defs)
           snap == Snapshot(simId, v, load[l].signals)
<1>0. PageTypes /\ CacheNamed /\ load[l] \in LoadStates /\ load[l].pc = "status"
      /\ simId \in Sims
  BY DEF PageInv, PageTypes, LoadEnds
<1>1. m \in LoadStates /\ m.pc = "done"
  BY DEF NotStarted, LoadStates, Ids
<1>2. snap \in Snaps
  BY <1>0 DEF Snapshot, Snaps, LoadStates
<1>3. \A n \in Names :
        drafts[n] = IF n \notin ParamsOf[defs] THEN None
                    ELSE IF viewEdits[simId][n] = None /\ n \in ParamsOf[v] THEN v
                    ELSE viewEdits[simId][n]
  BY DEF Known, Merged
<1>4. drafts \in [Names -> Entries]
  <2>1. v \in Entries /\ None \in Entries /\ \A n \in Names : viewEdits[simId][n] \in Entries
    BY <1>0 DEF LoadStates, Entries, Ids, PageTypes
  <2> QED BY <2>1 DEF Known, Merged
<1>5. /\ load' = [load EXCEPT ![l] = m] /\ latest' = snap /\ ui' = snap
      /\ viewEdits' = [viewEdits EXCEPT ![simId] = drafts]
      /\ edits' = viewEdits'[simId] /\ joins' = simId
      /\ UNCHANGED <<simId, started, defs, recent, poll, viewSnap, hubHas, crossed>>
  BY DEF LoadEnds, Join
<1> HIDE DEF m, drafts, snap, v
<1>6. /\ load' \in [Loads -> LoadStates] /\ load'[l] = m
      /\ \A k \in Loads \ {l} : load'[k] = load[k]
  BY <1>0, <1>1, <1>5 DEF PageTypes
<1>7. /\ viewEdits'[simId] = drafts /\ edits' = drafts
      /\ \A s \in Sims \ {simId} : viewEdits'[s] = viewEdits[s]
      /\ viewEdits' \in [Sims -> [Names -> Entries]]
  BY <1>0, <1>4, <1>5 DEF PageTypes
<1>8. PageTypes' /\ CacheNamed' /\ JoinsCurrent'
  BY <1>0, <1>2, <1>4, <1>5, <1>6, <1>7 DEF PageTypes, CacheNamed, JoinsCurrent
<1>9. ASSUME ~crossed
      PROVE  /\ LoadOwn' /\ SnapsOwn' /\ DraftsOwn'
             /\ \A s \in Sims : \A n \in ParamsOf[s] :
                  viewEdits[s][n] = Typed(s) => viewEdits'[s][n] = Typed(s)
  <2>1. LoadOwn /\ SnapsOwn /\ DraftsOwn
    BY <1>9 DEF PageInv
  <2>2. l = started
    BY <1>0, <2>1 DEF LoadOwn, Running
  <2>3. v = simId /\ load[l].signals = simId /\ defs = simId
    BY <1>0, <2>1, <2>2 DEF LoadOwn, v
  <2>4. LoadOwn'
    BY <1>0, <1>1, <1>5, <1>6, <2>1, <2>2, <2>3 DEF LoadOwn, Running
  <2>5. SnapsOwn'
    BY <1>5, <2>1, <2>3 DEF SnapsOwn, snap, Own
  <2>6. \A n \in Names : viewEdits[simId][n] \in {None, simId, Typed(simId)}
    BY <1>0, <2>1 DEF DraftsOwn
  <2>7. DraftsOwn'
    <3>1. \A n \in Names : drafts[n] \in {None, simId, Typed(simId)}
      BY <1>3, <2>3, <2>6
    <3>2. \A n \in ParamsOf[simId] : drafts[n] \in {simId, Typed(simId)}
      BY <1>0, <1>3, <2>3, <2>6, PageConstants
    <3> QED BY <1>0, <1>5, <1>7, <2>1, <3>1, <3>2 DEF DraftsOwn
  <2>8. ASSUME NEW n \in ParamsOf[simId], viewEdits[simId][n] = Typed(simId)
        PROVE  drafts[n] = Typed(simId)
    BY <1>0, <1>3, <2>3, <2>8, PageConstants
  <2> QED BY <1>7, <2>4, <2>5, <2>7, <2>8
<1> QED BY <1>5, <1>8, <1>9 DEF PageInv

(* A request fails, and the load with it.                                  *)
LEMMA LoadFailsStep ==
  ASSUME PageInv, NEW l \in Loads, LoadFails(l)
  PROVE  PageInv'
<1> DEFINE m == [NotStarted EXCEPT !.pc = "failed"]
<1>0. PageTypes /\ CacheNamed /\ simId \in Sims
  BY DEF PageInv, PageTypes
<1>1. m \in LoadStates /\ m.pc = "failed"
  BY DEF NotStarted, LoadStates, Ids
<1>2. /\ load' = [load EXCEPT ![l] = m] /\ joins' = simId
      /\ UNCHANGED <<simId, started, defs, latest, unseen, ui, recent, poll, edits,
                     viewSnap, viewEdits, viewed, hubHas, crossed>>
  BY DEF LoadFails, Join, view
<1> HIDE DEF m
<1>3. /\ load' \in [Loads -> LoadStates] /\ load'[l] = m
      /\ \A k \in Loads \ {l} : load'[k] = load[k]
  BY <1>0, <1>1, <1>2 DEF PageTypes
<1>4. PageTypes' /\ CacheNamed' /\ JoinsCurrent'
  BY <1>0, <1>2, <1>3 DEF PageTypes, CacheNamed, JoinsCurrent
<1>5. ASSUME ~crossed' PROVE LoadOwn' /\ SnapsOwn' /\ DraftsOwn'
  <2>1. ~crossed /\ LoadOwn /\ SnapsOwn /\ DraftsOwn /\ started \in Loads
    BY <1>2, <1>5 DEF PageInv, PageTypes
  <2>2. LoadOwn' /\ DraftsOwn'
    BY <1>1, <1>2, <1>3, <2>1 DEF LoadOwn, DraftsOwn, Running
  <2> QED BY <1>2, <2>1, <2>2 DEF SnapsOwn
<1> QED BY <1>4, <1>5 DEF PageInv

(* Snapshots come, and are rendered.                                       *)
LEMMA SnapshotStep ==
  ASSUME PageInv,
         \/ \E s \in Sims : OnSnapshot(s) \/ OtherSnapshot(s)
         \/ Render
  PROVE  PageInv'
<1>0. PageTypes /\ CacheNamed /\ simId \in Sims
  BY DEF PageInv, PageTypes
<1>1. UNCHANGED <<simId, started, load, defs, poll, edits, viewEdits, joins, crossed>>
  BY DEF OnSnapshot, OtherSnapshot, Render, view
<1>2. \/ UNCHANGED <<latest, ui, viewSnap>>
      \/ /\ latest' = Own(simId) /\ ui' = ui
         /\ viewSnap' = [viewSnap EXCEPT ![simId] = Own(simId)]
      \/ /\ latest # None /\ latest' = latest /\ ui' = latest
         /\ viewSnap' = [viewSnap EXCEPT ![latest.sim] = latest]
  BY DEF OnSnapshot, OtherSnapshot, Render, view
<1>3. latest # None => latest \in Snaps /\ latest.sim \in Sims
  BY <1>0 DEF PageTypes, Snaps
<1>4. Own(simId) \in Snaps /\ Own(simId).sim = simId
  BY <1>0, PageConstants
<1>5. PageTypes' /\ CacheNamed'
  BY <1>0, <1>1, <1>2, <1>3, <1>4 DEF PageTypes, CacheNamed
<1>6. JoinsCurrent'
  BY <1>1 DEF PageInv, JoinsCurrent, Running
<1>7. ASSUME ~crossed' PROVE LoadOwn' /\ SnapsOwn' /\ DraftsOwn'
  <2>1. LoadOwn /\ SnapsOwn /\ DraftsOwn
    BY <1>1, <1>7 DEF PageInv
  <2>2. LoadOwn' /\ DraftsOwn'
    BY <1>1, <2>1 DEF LoadOwn, DraftsOwn, Running
  <2>3. SnapsOwn'
    BY <1>0, <1>1, <1>2, <1>3, <1>4, <2>1 DEF SnapsOwn, PageTypes
  <2> QED BY <2>1, <2>2, <2>3
<1> QED BY <1>5, <1>6, <1>7 DEF PageInv

(* The loop polls, and time passes.                                        *)
LEMMA PollStep ==
  ASSUME PageInv,
         \/ PollStarts \/ PollStatus \/ PollValues \/ PollFails
         \/ Silence
  PROVE  PageInv'
<1>0. PageTypes /\ CacheNamed /\ simId \in Sims
  BY DEF PageInv, PageTypes
<1>1. UNCHANGED <<simId, started, load, defs, edits, viewSnap, viewEdits, joins, crossed>>
  BY DEF PollStarts, PollStatus, PollValues, PollFails, PollGoes,
         Silence, view
<1>2. \/ poll' \in {poll, Idle}
      \/ poll' = [pc |-> "status", sim |-> simId]
      \/ poll.pc = "status" /\ poll' = [poll EXCEPT !.pc = "values"]
  BY DEF PollStarts, PollStatus, PollValues, PollFails, PollGoes,
         Silence
<1>3. \/ latest' = latest /\ ui' = ui
      \/ poll.pc = "values" /\ latest' = Own(poll.sim) /\ ui' = Own(poll.sim)
  BY DEF PollStarts, PollStatus, PollValues, PollFails, PollGoes,
         Silence
<1>4. poll.pc \in {"status", "values"} =>
        /\ poll # Idle /\ poll.sim \in Sims
        /\ [poll EXCEPT !.pc = "values"] \in [pc : {"status", "values"}, sim : Sims]
        /\ [poll EXCEPT !.pc = "values"].sim = poll.sim
  BY <1>0 DEF PageTypes, Idle
<1>5. poll.pc = "values" => Own(poll.sim) \in Snaps
  BY <1>4, PageConstants
<1>6. PageTypes' /\ CacheNamed'
  BY <1>0, <1>1, <1>2, <1>3, <1>4, <1>5 DEF PageTypes, CacheNamed
<1>7. JoinsCurrent'
  BY <1>1 DEF PageInv, JoinsCurrent, Running
<1>8. ASSUME ~crossed' PROVE LoadOwn' /\ SnapsOwn' /\ DraftsOwn'
  <2>1. LoadOwn /\ SnapsOwn /\ DraftsOwn
    BY <1>1, <1>8 DEF PageInv
  <2>2. LoadOwn' /\ DraftsOwn'
    BY <1>1, <2>1 DEF LoadOwn, DraftsOwn, Running
  <2>3. SnapsOwn'
    BY <1>1, <1>2, <1>3, <1>4, <2>1 DEF SnapsOwn
  <2> QED BY <2>1, <2>2, <2>3
<1> QED BY <1>6, <1>7, <1>8 DEF PageInv

(* The user types a value: it is a draft of the page's simulation.         *)
LEMMA EditStep ==
  ASSUME PageInv, NEW n \in Names, OnEditChanged(n)
  PROVE  /\ PageInv'
         /\ \A s \in Sims, k \in Names :
              viewEdits[s][k] = Typed(s) => viewEdits'[s][k] = Typed(s)
<1> DEFINE typed == Typed(simId)
<1>0. PageTypes /\ CacheNamed /\ simId \in Sims /\ typed \in Entries
  BY PageConstants DEF PageInv, PageTypes
<1>1. /\ edits' = [edits EXCEPT ![n] = typed]
      /\ viewEdits' = [viewEdits EXCEPT ![simId] = [viewEdits[simId] EXCEPT ![n] = typed]]
      /\ UNCHANGED <<simId, started, load, defs, latest, ui, poll, viewSnap, joins, crossed>>
  BY DEF OnEditChanged
<1>2. \A s \in Sims, k \in Names :
        /\ viewEdits'[s][k] = IF s = simId /\ k = n THEN typed ELSE viewEdits[s][k]
        /\ edits'[k] = IF k = n THEN typed ELSE edits[k]
  BY <1>0, <1>1 DEF PageTypes
<1>3. edits' \in [Names -> Entries] /\ viewEdits' \in [Sims -> [Names -> Entries]]
  BY <1>0, <1>1 DEF PageTypes
<1>4. PageTypes' /\ CacheNamed'
  BY <1>0, <1>1, <1>3 DEF PageTypes, CacheNamed
<1>5. JoinsCurrent'
  BY <1>1 DEF PageInv, JoinsCurrent, Running
<1>6. ASSUME ~crossed' PROVE LoadOwn' /\ SnapsOwn' /\ DraftsOwn'
  <2>1. LoadOwn /\ SnapsOwn /\ DraftsOwn
    BY <1>1, <1>6 DEF PageInv
  <2>2. LoadOwn' /\ SnapsOwn'
    BY <1>1, <2>1 DEF LoadOwn, SnapsOwn, Running
  <2>3. DraftsOwn'
    BY <1>0, <1>1, <1>2, <2>1, PageConstants DEF DraftsOwn
  <2> QED BY <2>2, <2>3
<1> QED BY <1>2, <1>4, <1>5, <1>6 DEF PageInv

(* What a step does: the invariant is kept, and, with no page that moved   *)
(* on too early, so are the drafts.                                        *)
LEMMA StepPage ==
  ASSUME PageInv, [PageNext]_pageVars
  PROVE  /\ PageInv'
         /\ ~crossed' => \A s \in Sims : \A n \in ParamsOf[s] :
              viewEdits[s][n] = Typed(s) => viewEdits'[s][n] = Typed(s)
<1>1. ASSUME NEW s \in Sims, OnParametersSet(s)
      PROVE  PageInv' /\ viewEdits' = viewEdits
  BY <1>1, MoveStep DEF OnParametersSet, view
<1>2. ASSUME \/ \E s \in Sims : OnSnapshot(s) \/ OtherSnapshot(s)
             \/ Render
      PROVE  PageInv' /\ viewEdits' = viewEdits
  BY <1>2, SnapshotStep DEF OnSnapshot, OtherSnapshot, Render, view
<1>3. ASSUME NEW l \in Loads, Definitions(l)
      PROVE  PageInv' /\ viewEdits' = viewEdits
  BY <1>3, AnswerStep DEF Definitions, view
<1>4. ASSUME NEW l \in Loads, ValuesOrSignals(l)
      PROVE  PageInv' /\ viewEdits' = viewEdits
  BY <1>4, AnswerStep DEF ValuesOrSignals, view
<1>5. ASSUME NEW l \in Loads, LoadEnds(l)
      PROVE  /\ PageInv' /\ crossed' = crossed
             /\ ~crossed => \A s \in Sims : \A n \in ParamsOf[s] :
                  viewEdits[s][n] = Typed(s) => viewEdits'[s][n] = Typed(s)
  BY <1>5, LoadEndsStep DEF LoadEnds
<1>6. ASSUME NEW l \in Loads, LoadFails(l)
      PROVE  PageInv' /\ viewEdits' = viewEdits
  BY <1>6, LoadFailsStep DEF LoadFails, view
<1>7. ASSUME \/ PollStarts \/ PollStatus \/ PollValues \/ PollFails
             \/ Silence
      PROVE  PageInv' /\ viewEdits' = viewEdits
  BY <1>7, PollStep DEF PollStarts, PollStatus, PollValues, PollFails,
     PollGoes, Silence, view
<1>8. ASSUME NEW n \in Names, OnEditChanged(n)
      PROVE  /\ PageInv'
             /\ \A s \in Sims : \A k \in ParamsOf[s] :
                  viewEdits[s][k] = Typed(s) => viewEdits'[s][k] = Typed(s)
  BY <1>8, EditStep, PageConstants
<1>9. ASSUME UNCHANGED pageVars PROVE PageInv' /\ viewEdits' = viewEdits
  BY <1>9 DEF pageVars, view, PageInv, PageTypes, CacheNamed, JoinsCurrent,
     Running, LoadOwn, SnapsOwn, DraftsOwn
<1> QED
  BY <1>1, <1>2, <1>3, <1>4, <1>5, <1>6, <1>7, <1>8, <1>9 DEF PageNext, Loading

(* The invariant of the page.                                              *)
THEOREM PageInvariant == PageSpec => []PageInv
<1>1. PageInit => PageInv
  BY InitPage
<1>2. PageInv /\ [PageNext]_pageVars => PageInv'
  BY StepPage
<1> QED BY <1>1, <1>2, PTL DEF PageSpec

(* What is shown is the page's simulation, and what is cached for one      *)
(* bears its name, for any simulations and any number of moves (the        *)
(* handlers of SimulationPage.razor and ViewCache).                        *)
THEOREM PageShowsOwn == PageSpec => []ShowsOwn
<1>1. PageInv => ShowsOwn
  BY DEF PageInv, CacheNamed, SnapsOwn, ShowsOwn
<1> QED BY <1>1, PageInvariant, PTL

(* Once a load has ended well, the Set buttons send what was read from the *)
(* page's simulation, or typed for it (MergeParameterEditsFromValues,      *)
(* RemoveUnknownParameterEdits, OnEditChanged).                            *)
THEOREM PageSetsOwn == PageSpec => []SetsOwn
<1>1. PageInv => SetsOwn
  BY DEF PageInv, LoadOwn, DraftsOwn, SetsOwn, ApplyParameter
<1> QED BY <1>1, PageInvariant, PTL

(* When every load has ended, the hub was last asked for the page's        *)
(* simulation: the load of the last move ends by asking for it, and those  *)
(* before it ask for the simulation of the page, not for their own.        *)
THEOREM HubJoinsCurrent == PageSpec => []JoinsCurrent
<1>1. PageInv => JoinsCurrent
  BY DEF PageInv
<1> QED BY <1>1, PageInvariant, PTL

(* What was typed for a simulation's parameter outlives every load, unless *)
(* the page moved on while one was under way.                              *)
THEOREM DraftsOutliveLoads ==
  PageSpec => DraftsKeptUncrossed
<1> DEFINE Kept ==
      ~crossed' => \A s \in Sims : \A n \in ParamsOf[s] :
        viewEdits[s][n] = Typed(s) => viewEdits'[s][n] = Typed(s)
<1>1. PageInv /\ [PageNext]_pageVars => [Kept]_pageVars
  BY StepPage
<1> QED BY <1>1, PageInvariant, PTL DEF PageSpec, DraftsKeptUncrossed
=============================================================================
