----------------------------- MODULE HubClient -----------------------------
(***************************************************************************)
(* SimHubClient of the dashboard: joining and leaving the group of a       *)
(* simulation over a connection that is lost, reconnects by itself with    *)
(* no group, or is closed.  The calls pass a gate one at a time, first     *)
(* come, first served; the dashboard is single-threaded WebAssembly, so    *)
(* that they interleave at their awaits only.                              *)
(***************************************************************************)
EXTENDS Simulations, Integers, Sequences

CONSTANTS
  NoSim,     \* null
  MaxCalls,  \* bound: calls of the page
  MaxDrops   \* bound: times the connection is lost or closed

ASSUME ClientAssumption ==
  /\ NoSim \notin Sims
  /\ MaxCalls \in Nat
  /\ MaxDrops \in Nat

VARIABLES
  conn,      \* _connection and its State
  groups,    \* the groups of the connection, on the hub
  joined,    \* _joinedSimId
  calls,     \* the calls at _connectionGate; the first one holds it
  pc,        \* where that one is
  sent,      \* its invocation is under way on this connection
  made,      \* calls of the page so far
  drops,     \* losses of the connection so far
  leaked,    \* history: a group may be left over on this connection
  unjoined   \* history: joined may be missing from the groups

callVars == <<calls, pc, sent>>
flags == <<leaked, unjoined>>
vars == <<conn, groups, joined, callVars, made, drops, flags>>

Ops == {"join", "leave", "rejoin"}
Call(op, s) == [op |-> op, sim |-> s, cancelled |-> FALSE]

Init ==
  /\ conn = "none"
  /\ groups = {}
  /\ joined = NoSim
  /\ calls = <<>>
  /\ pc = "start"
  /\ sent = FALSE
  /\ made = 0
  /\ drops = 0
  /\ leaked = FALSE
  /\ unjoined = FALSE

-----------------------------------------------------------------------------
(* The page calls, and gives calls up when it is disposed.                 *)

PageCalls(call) ==
  /\ made < MaxCalls
  /\ made' = made + 1
  /\ calls' = Append(calls, call)
  /\ UNCHANGED <<conn, groups, joined, pc, sent, drops, flags>>

JoinSimulation(s) == PageCalls(Call("join", s))
LeaveCurrentSimulation == PageCalls(Call("leave", NoSim))

Cancel(i) ==
  /\ calls[i].op = "join"
  /\ ~calls[i].cancelled
  /\ calls' = [calls EXCEPT ![i].cancelled = TRUE]
  /\ UNCHANGED <<conn, groups, joined, pc, sent, made, drops, flags>>

-----------------------------------------------------------------------------
(* The call that holds the gate.                                           *)

Runs(op, label) ==
  /\ calls # <<>>
  /\ Head(calls).op = op
  /\ pc = label

(* The call returns or throws, and releases the gate.                      *)
Finish ==
  /\ calls' = Tail(calls)
  /\ pc' = "start"
  /\ sent' = FALSE

Invoke(label) ==
  /\ pc' = label
  /\ sent' = TRUE
  /\ UNCHANGED calls

Goto(label) ==
  /\ pc' = label
  /\ UNCHANGED <<calls, sent>>

(* Before it is connected, a cancelled call throws.                        *)
GiveUp ==
  /\ Runs("join", "start") \/ Runs("join", "wait")
  /\ Head(calls).cancelled
  /\ Finish
  /\ UNCHANGED <<conn, groups, joined, made, drops, flags>>

Start ==
  /\ Runs("join", "start")
  /\ conn \in {"none", "disconnected"}
  /\ conn' = "connected"
  /\ UNCHANGED <<groups, joined, callVars, made, drops, flags>>

StartFails ==
  /\ Runs("join", "start")
  /\ conn \in {"none", "disconnected"}
  /\ conn' = "disconnected"
  /\ Finish
  /\ UNCHANGED <<groups, joined, made, drops, flags>>

WaitForChange ==
  /\ Runs("join", "start")
  /\ conn = "reconnecting"
  /\ Goto("wait")
  /\ UNCHANGED <<conn, groups, joined, made, drops, flags>>

(* Slip: the gate is not released when the wait for the connection ends.   *)
TimesOutInGate ==
  /\ Runs("join", "wait")
  /\ Goto("timedOut")
  /\ UNCHANGED <<conn, groups, joined, made, drops, flags>>

TimesOut ==
  /\ Runs("join", "wait")
  /\ Finish
  /\ UNCHANGED <<conn, groups, joined, made, drops, flags>>

(* Slip: the simulation joined before is not left.                         *)
JoinWithoutLeaving ==
  /\ Runs("join", "start")
  /\ conn = "connected"
  /\ IF joined = Head(calls).sim THEN Finish ELSE Invoke("join")
  /\ UNCHANGED <<conn, groups, joined, made, drops, flags>>

(* Connected: nothing to do, or leave, or join at once.                    *)
Connected ==
  /\ Runs("join", "start")
  /\ conn = "connected"
  /\ \/ joined = Head(calls).sim /\ Finish
     \/ joined \notin {NoSim, Head(calls).sim} /\ Invoke("leave")
     \/ joined = NoSim /\ Invoke("join")
  /\ UNCHANGED <<conn, groups, joined, made, drops, flags>>

StartLeave ==
  /\ Runs("leave", "start")
  /\ IF conn = "connected" /\ joined # NoSim
       THEN Invoke("leave") /\ UNCHANGED <<joined, unjoined>>
       ELSE Finish /\ joined' = NoSim /\ unjoined' = FALSE
  /\ UNCHANGED <<conn, groups, made, drops, leaked>>

(* After LeaveSim, well or not: on to JoinSim, which throws at once when   *)
(* the call is cancelled or the connection is gone; or joined is forgotten.*)
AfterLeave ==
  LET call == Head(calls)
  IN \/ /\ call.op = "join"
        /\ conn = "connected"
        /\ ~call.cancelled
        /\ Invoke("join")
        /\ UNCHANGED <<joined, unjoined>>
     \/ /\ call.op = "join"
        /\ conn # "connected" \/ call.cancelled
        /\ Finish
        /\ unjoined' = (unjoined \/ conn = "connected")
        /\ UNCHANGED joined
     \/ /\ call.op = "leave"
        /\ Finish
        /\ joined' = NoSim
        /\ unjoined' = FALSE

LeaveAnswered ==
  /\ Runs("join", "leave") \/ Runs("leave", "leave")
  /\ sent
  /\ groups' = groups \ {joined}
  /\ AfterLeave
  /\ UNCHANGED <<conn, made, drops, leaked>>

(* The failure is ignored; the hub may have left the group all the same.   *)
LeaveFails ==
  /\ Runs("join", "leave") \/ Runs("leave", "leave")
  /\ groups' \in {groups, groups \ {joined}}
  /\ leaked' = (leaked \/ joined \in groups')
  /\ AfterLeave
  /\ UNCHANGED <<conn, made, drops>>

JoinAnswered ==
  /\ Runs("join", "join")
  /\ sent
  /\ groups' = groups \cup {Head(calls).sim}
  /\ joined' = Head(calls).sim
  /\ unjoined' = FALSE
  /\ Finish
  /\ UNCHANGED <<conn, made, drops, leaked>>

(* JoinSim throws and joined stays, although that simulation was left.  A  *)
(* cancelled invocation may be carried out by the hub none the less.       *)
JoinFails ==
  /\ Runs("join", "join")
  /\ groups' \in {groups} \cup
       (IF sent /\ Head(calls).cancelled THEN {groups \cup {Head(calls).sim}} ELSE {})
  /\ leaked' = (leaked \/ groups' # groups)
  /\ unjoined' = (unjoined \/ (sent /\ joined # NoSim))
  /\ Finish
  /\ UNCHANGED <<conn, joined, made, drops>>

StartRejoin ==
  /\ Runs("rejoin", "start")
  /\ IF conn = "connected" /\ joined # NoSim THEN Invoke("join") ELSE Finish
  /\ UNCHANGED <<conn, groups, joined, made, drops, flags>>

RejoinAnswered ==
  /\ Runs("rejoin", "join")
  /\ sent
  /\ groups' = groups \cup {joined}
  /\ unjoined' = FALSE
  /\ Finish
  /\ UNCHANGED <<conn, joined, made, drops, leaked>>

(* Rejoining is best effort.                                               *)
RejoinFails ==
  /\ Runs("rejoin", "join")
  /\ unjoined' = (unjoined \/ sent)
  /\ Finish
  /\ UNCHANGED <<conn, groups, joined, made, drops, leaked>>

-----------------------------------------------------------------------------
(* The connection.  Its events wake the call that waits for a change.      *)

StateChanged == pc' = IF pc = "wait" THEN "start" ELSE pc

Drop ==
  /\ drops < MaxDrops
  /\ drops' = drops + 1
  /\ groups' = {}
  /\ sent' = FALSE
  /\ leaked' = FALSE
  /\ StateChanged
  /\ UNCHANGED <<joined, calls, made>>

Lose ==
  /\ conn = "connected"
  /\ conn' = "reconnecting"
  /\ unjoined' = FALSE
  /\ Drop

(* Slip: nothing is done when the connection is back.                      *)
ReconnectedForgets ==
  /\ conn = "reconnecting"
  /\ conn' = "connected"
  /\ StateChanged
  /\ UNCHANGED <<groups, joined, calls, sent, made, drops, flags>>

(* RejoinAfterReconnectAsync waits for the gate like any other call.       *)
Reconnected ==
  /\ conn = "reconnecting"
  /\ conn' = "connected"
  /\ calls' = Append(calls, Call("rejoin", NoSim))
  /\ StateChanged
  /\ UNCHANGED <<groups, joined, sent, made, drops, flags>>

(* Closed for good: a connection started later joins nothing by itself.    *)
Closed ==
  /\ conn \in {"connected", "reconnecting"}
  /\ conn' = "disconnected"
  /\ unjoined' = (joined # NoSim)
  /\ Drop

ReconnectingFails ==
  /\ conn = "reconnecting"
  /\ conn' = "disconnected"
  /\ unjoined' = (joined # NoSim)
  /\ StateChanged
  /\ UNCHANGED <<groups, joined, calls, sent, made, drops, leaked>>

-----------------------------------------------------------------------------
Progress ==
  \/ GiveUp \/ Start \/ StartFails \/ WaitForChange \/ TimesOut \/ Connected
  \/ StartLeave \/ LeaveAnswered \/ LeaveFails
  \/ JoinAnswered \/ JoinFails
  \/ StartRejoin \/ RejoinAnswered \/ RejoinFails

Next ==
  \/ \E s \in Sims : JoinSimulation(s)
  \/ LeaveCurrentSimulation
  \/ \E i \in DOMAIN calls : Cancel(i)
  \/ Progress
  \/ Lose
  \/ Closed
  \/ Reconnected
  \/ ReconnectingFails

Spec == Init /\ [][Next]_vars

(* Invocations are answered or fail, waits end, and the retries of the     *)
(* connection are finite.                                                  *)
FairSpec ==
  /\ Spec
  /\ WF_vars(Progress)
  /\ WF_vars(Reconnected \/ ReconnectingFails)

-----------------------------------------------------------------------------
AtRest == conn = "connected" /\ calls = <<>>

(* Between calls, a connected client is in no group but the one it takes   *)
(* itself to have joined, so that it is sent no snapshots of a simulation  *)
(* it has left, unless LeaveSim failed or a JoinSim that was given up was  *)
(* carried out, on this connection; and it is in that group, also after    *)
(* the connection was lost while it joined, left or rejoined, unless       *)
(* JoinSim failed or the connection was closed since.                      *)
InJoinedOnly ==
  AtRest =>
    /\ ~leaked => groups \subseteq {joined}
    /\ ~unjoined /\ joined # NoSim => joined \in groups

(* Every call returns and lets the next one in.                            *)
CallsReturn == calls # <<>> ~> calls = <<>>

(* After a reconnect the client is in its group again, unless it has       *)
(* changed its mind, rejoining failed, or the connection is gone again.    *)
RejoinsAfterReconnect ==
  \A s \in Sims :
    conn = "connected" /\ joined = s ~>
      s \in groups \/ joined # s \/ conn # "connected" \/ unjoined
=============================================================================
