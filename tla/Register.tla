------------------------------ MODULE Register ------------------------------
(***************************************************************************)
(* What ParameterStore promises, its retry loop left out: a call of Set    *)
(* takes effect once, at a moment between its start and its return, with   *)
(* the request brought within the bounds of the parameter; if that changes *)
(* the value, a subscriber is told before the call returns.                *)
(***************************************************************************)
EXTENDS Integers

CONSTANTS Callers, Params, Requests, Default, MinValue, MaxValue, NoBound, NaN

VARIABLES
  value,   \* of each parameter
  calls,   \* calls without effect so far: by, name, write
  events,  \* changes a subscriber is to be told of: by, name, old, new
  mirror   \* what a subscriber was told last

vars == <<value, calls, events, mirror>>

Within(p, v) ==
  /\ v # NaN
  /\ MinValue[p] # NoBound => MinValue[p] <= v
  /\ MaxValue[p] # NoBound => v <= MaxValue[p]

(* w is v, or the bound that v is beyond.                                  *)
Clamped(p, v, w) ==
  IF v = NaN THEN w = NaN
             ELSE /\ w # NoBound /\ Within(p, w)
                  /\ w < v => w = MaxValue[p]
                  /\ v < w => w = MinValue[p]

Busy(t) == \E c \in calls \cup events : c.by = t

Init == value = Default /\ mirror = Default /\ calls = {} /\ events = {}

Call(t, p, w) ==
  /\ ~Busy(t)
  /\ calls' = calls \cup {[by |-> t, name |-> p, write |-> w]}
  /\ UNCHANGED <<value, events, mirror>>

Write(c) ==
  /\ calls' = calls \ {c}
  /\ value' = [value EXCEPT ![c.name] = c.write]
  /\ events' =
       IF value[c.name] = c.write THEN events
       ELSE events \cup
         {[by |-> c.by, name |-> c.name, old |-> value[c.name], new |-> c.write]}
  /\ UNCHANGED mirror

Announce(e) ==
  /\ mirror' = [mirror EXCEPT ![e.name] = e.new]
  /\ events' = events \ {e}
  /\ UNCHANGED <<value, calls>>

Next ==
  \/ \E t \in Callers, p \in Params, v \in Requests :
       \E w \in {v, MinValue[p], MaxValue[p]} : Clamped(p, v, w) /\ Call(t, p, w)
  \/ \E c \in calls : Write(c)
  \/ \E e \in events : Announce(e)

Safety == Init /\ [][Next]_vars

(* Every call returns.                                                     *)
Spec == Safety /\ \A t \in Callers : Busy(t) ~> ~Busy(t)
=============================================================================
