--------------------------- MODULE ParameterStore ---------------------------
(***************************************************************************)
(* ParameterStore of SkyNet.Simulator.Core: concurrent calls of Set clamp  *)
(* the requested value, exchange it by compare-and-swap and then raise     *)
(* ParameterChanged, after the exchange and outside any lock.  A parameter *)
(* value stands for a double; NaN compares false with every bound.         *)
(***************************************************************************)
EXTENDS Integers, FiniteSets

CONSTANTS
  Callers,   \* threads that call Set
  Params,    \* defined parameters, after trimming, letter case aside
  Requests,  \* requested values
  Default,   \* DefaultValue of each parameter
  MinValue,  \* MinValue of each parameter, or NoBound
  MaxValue,  \* MaxValue of each parameter, or NoBound
  NoBound,
  NaN,
  MaxSets    \* bound: calls of Set

(* Define throws for bounds that are out of order.                         *)
Validate(p) ==
  MinValue[p] # NoBound /\ MaxValue[p] # NoBound => MinValue[p] <= MaxValue[p]

(* Validate does not look at the default, which Define stores as it is;    *)
(* the defaults of the systems lie between their bounds.                   *)
ASSUME StoreAssumption ==
  /\ MaxSets \in Nat
  /\ Requests \subseteq Int \cup {NaN}
  /\ NaN \notin Int
  /\ NoBound \notin Int
  /\ Default \in [Params -> Int]
  /\ MinValue \in [Params -> Int \cup {NoBound}]
  /\ MaxValue \in [Params -> Int \cup {NoBound}]
  /\ \A p \in Params :
       /\ MinValue[p] # NoBound => MinValue[p] <= Default[p]
       /\ MaxValue[p] # NoBound => Default[p] <= MaxValue[p]
       /\ Validate(p)

VARIABLES
  value,       \* _values
  pc,          \* where each caller is in Set
  target,      \* name, for each caller
  newValue,    \* value after ApplyValidation
  oldValue,    \* oldValue read by TryGetValue
  mirror,      \* NewValue of the latest event a subscriber handled
  sets,        \* calls of Set so far
  overlapped   \* history: parameters with two undelivered events at once

vars == <<value, pc, target, newValue, oldValue, mirror, sets, overlapped>>

Values == Int \cup {NaN}

Init ==
  /\ value = Default
  /\ pc = [t \in Callers |-> "idle"]
  /\ target \in [Callers -> Params]
  /\ newValue = [t \in Callers |-> Default[target[t]]]
  /\ oldValue = newValue
  /\ mirror = Default
  /\ sets = 0
  /\ overlapped = {}

Below(v, bound) == v # NaN /\ bound # NoBound /\ v < bound

Above(v, bound) == v # NaN /\ bound # NoBound /\ v > bound

ApplyValidation(p, v) ==
  LET raised == IF Below(v, MinValue[p]) THEN MinValue[p] ELSE v
  IN  IF Above(raised, MaxValue[p]) THEN MaxValue[p] ELSE raised

(* A call of Set; a blank or an unknown name only throws.                  *)
Set(t, p, v) ==
  /\ pc[t] = "idle"
  /\ sets < MaxSets
  /\ sets' = sets + 1
  /\ target' = [target EXCEPT ![t] = p]
  /\ newValue' = [newValue EXCEPT ![t] = ApplyValidation(p, v)]
  /\ pc' = [pc EXCEPT ![t] = "read"]
  /\ UNCHANGED <<value, oldValue, mirror, overlapped>>

TryGetValue(t) ==
  /\ pc[t] = "read"
  /\ oldValue' = [oldValue EXCEPT ![t] = value[target[t]]]
  /\ pc' = [pc EXCEPT ![t] = "swap"]
  /\ UNCHANGED <<value, target, newValue, mirror, sets, overlapped>>

(* Callers whose event for p is not delivered yet.                         *)
Undelivered(p) == {t \in Callers : pc[t] = "raise" /\ target[t] = p}

(* The write of TryUpdate; only a change of the value raises an event.     *)
Exchange(t) ==
  LET p       == target[t]
      changed == oldValue[t] # newValue[t]
  IN  /\ value' = [value EXCEPT ![p] = newValue[t]]
      /\ pc' = [pc EXCEPT ![t] = IF changed THEN "raise" ELSE "idle"]
      /\ overlapped' = IF changed /\ Undelivered(p) # {}
                         THEN overlapped \cup {p} ELSE overlapped
      /\ UNCHANGED <<target, newValue, oldValue, mirror, sets>>

(* Slip: the value is stored without comparing.                            *)
StoreBlindly(t) ==
  /\ pc[t] = "swap"
  /\ Exchange(t)

(* Slip: the event is left out when the request was clamped to a bound.    *)
TryUpdateQuiet(t) ==
  /\ pc[t] = "swap"
  /\ value[target[t]] = oldValue[t]
  /\ value' = [value EXCEPT ![target[t]] = newValue[t]]
  /\ pc' = [pc EXCEPT ![t] = IF newValue[t] = MinValue[target[t]]
                               THEN "idle" ELSE "raise"]
  /\ UNCHANGED <<target, newValue, oldValue, mirror, sets, overlapped>>

TryUpdate(t) ==
  /\ pc[t] = "swap"
  /\ value[target[t]] = oldValue[t]
  /\ Exchange(t)

(* Slip: the call returns when another one came between.                   *)
TryUpdateGivesUp(t) ==
  /\ pc[t] = "swap"
  /\ value[target[t]] # oldValue[t]
  /\ pc' = [pc EXCEPT ![t] = "idle"]
  /\ UNCHANGED <<value, target, newValue, oldValue, mirror, sets, overlapped>>

TryUpdateFails(t) ==
  /\ pc[t] = "swap"
  /\ value[target[t]] # oldValue[t]
  /\ pc' = [pc EXCEPT ![t] = "read"]
  /\ UNCHANGED <<value, target, newValue, oldValue, mirror, sets, overlapped>>

(* The caller's thread runs the subscriber and is at label afterwards.     *)
Deliver(t, label) ==
  /\ pc[t] = "raise"
  /\ mirror' = [mirror EXCEPT ![target[t]] = newValue[t]]
  /\ pc' = [pc EXCEPT ![t] = label]
  /\ UNCHANGED <<value, target, newValue, oldValue, sets, overlapped>>

ParameterChanged(t) == Deliver(t, "idle")

Steps(t) ==
  TryGetValue(t) \/ TryUpdate(t) \/ TryUpdateFails(t) \/ ParameterChanged(t)

Next ==
  \E t \in Callers :
    \/ \E p \in Params, v \in Requests : Set(t, p, v)
    \/ TryGetValue(t)
    \/ TryUpdate(t)
    \/ TryUpdateFails(t)
    \/ ParameterChanged(t)

Spec == Init /\ [][Next]_vars

(* A thread inside Set runs on.                                            *)
FairSpec == Spec /\ \A t \in Callers : WF_vars(Steps(t))

-----------------------------------------------------------------------------
(* Every variable stays in its domain.                                     *)
TypeOK ==
  /\ value \in [Params -> Values]
  /\ pc \in [Callers -> {"idle", "read", "swap", "raise"}]
  /\ target \in [Callers -> Params]
  /\ newValue \in [Callers -> Values]
  /\ oldValue \in [Callers -> Values]
  /\ mirror \in [Params -> Values]
  /\ sets \in Nat
  /\ overlapped \subseteq Params

(* An event's OldValue is what the subscriber was last told, whatever the  *)
(* interleaving, unless two events for the parameter were under way.       *)
EventsChain ==
  \A t \in Callers :
    pc[t] = "raise" /\ target[t] \notin overlapped
      => oldValue[t] = mirror[target[t]]

(* Nor does a subscriber miss a change: with no call under way it knows    *)
(* the value.                                                              *)
SubscriberCurrent ==
  \A p \in Params \ overlapped :
    (\A t \in Callers : pc[t] # "raise" \/ target[t] # p) => mirror[p] = value[p]

(* The calls in the loop of Set, and the events still to be handled.       *)
Calls ==
  {[by |-> t, name |-> target[t], write |-> newValue[t]] :
     t \in {u \in Callers : pc[u] \in {"read", "swap"}}}

Events ==
  {[by |-> t, name |-> target[t], old |-> oldValue[t], new |-> newValue[t]] :
     t \in {u \in Callers : pc[u] = "raise"}}

Register == INSTANCE Register WITH calls <- Calls, events <- Events

(* However the calls interleave, and however often an exchange fails, each *)
(* takes effect exactly once, on the value at that moment and within the   *)
(* bounds (NaN alone is stored as it is), tells a subscriber of the change *)
(* it made, if any, and returns.                                           *)
ImplementsRegister == Register!Spec
=============================================================================
