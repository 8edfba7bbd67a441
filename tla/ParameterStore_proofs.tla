----------------------- MODULE ParameterStore_proofs -----------------------
(***************************************************************************)
(* For any callers, parameters and bounds: the store implements Register,  *)
(* each call taking effect once and at once; values stay within their      *)
(* bounds but for a requested NaN; and a parameter without two events      *)
(* under way at once has a subscriber that knows its value and was told    *)
(* each change from the value it knew.                                     *)
(***************************************************************************)
EXTENDS ParameterStore, TLAPS

(* A request that was validated is within the bounds, wherever it is.      *)
Admitted(p, v) == v # NaN \/ NaN \notin Requests => Register!Within(p, v)

RangeInv ==
  /\ \A p \in Params : Admitted(p, value[p]) /\ Admitted(p, mirror[p])
  /\ \A t \in Callers : pc[t] # "idle" => Admitted(target[t], newValue[t])

(* The event under way, if there is one, leads from mirror to value.       *)
EventInv ==
  \A p \in Params \ overlapped :
    /\ Undelivered(p) = {} => mirror[p] = value[p]
    /\ \A t \in Undelivered(p) :
         /\ Undelivered(p) = {t}
         /\ oldValue[t] = mirror[p]
         /\ newValue[t] = value[p]

IInv == TypeOK /\ RangeInv /\ EventInv

(* ApplyValidation returns a value, and for a number one within bounds.    *)
LEMMA Clamps ==
  ASSUME NEW p \in Params, NEW v \in Requests
  PROVE  /\ ApplyValidation(p, v) \in Values
         /\ Admitted(p, ApplyValidation(p, v))
<1>1. /\ MinValue[p] \in Int \cup {NoBound}
      /\ MaxValue[p] \in Int \cup {NoBound}
      /\ v \in Int \cup {NaN}
      /\ NaN \notin Int /\ NoBound \notin Int
      /\ MinValue[p] # NoBound /\ MaxValue[p] # NoBound
           => MinValue[p] <= MaxValue[p]
  BY StoreAssumption
<1> QED BY <1>1 DEF ApplyValidation, Below, Above, Admitted, Register!Within, Values

(* The store starts in the invariant.                                      *)
LEMMA InitIInv == Init => IInv
<1> SUFFICES ASSUME Init PROVE IInv
  OBVIOUS
<1> USE StoreAssumption DEF Init
<1>1. TypeOK
  BY DEF TypeOK, Values
<1>2. RangeInv
  BY DEF RangeInv, Admitted, Register!Within
<1>3. EventInv
  BY DEF EventInv, Undelivered
<1> QED BY <1>1, <1>2, <1>3 DEF IInv

(* Every step keeps it.                                                    *)
LEMMA StepIInv == IInv /\ [Next]_vars => IInv'
<1> SUFFICES ASSUME IInv, [Next]_vars PROVE IInv'
  OBVIOUS
<1> USE DEF IInv, TypeOK
<1>1. ASSUME NEW t \in Callers, NEW p \in Params, NEW v \in Requests, Set(t, p, v)
      PROVE IInv'
  <2> DEFINE w == ApplyValidation(p, v)
  <2>1. w \in Values /\ Admitted(p, w)
    BY Clamps
  <2>2. newValue' = [newValue EXCEPT ![t] = w]
    BY <1>1 DEF Set
  <2> HIDE DEF w
  <2>3. TypeOK'
    BY <1>1, <2>1, <2>2 DEF Set
  <2>4. RangeInv'
    BY <1>1, <2>1, <2>2 DEF Set, RangeInv, Admitted, Register!Within
  <2>5. \A q \in Params : Undelivered(q)' = Undelivered(q)
    BY <1>1 DEF Set, Undelivered
  <2>6. \A q \in Params : t \notin Undelivered(q)
    BY <1>1 DEF Set, Undelivered
  <2>7. EventInv'
    BY <1>1, <2>2, <2>5, <2>6 DEF Set, EventInv
  <2> QED BY <2>3, <2>4, <2>7
<1>2. ASSUME NEW t \in Callers, TryGetValue(t) PROVE IInv'
  <2> USE <1>2 DEF TryGetValue
  <2>1. TypeOK' BY DEF Values
  <2>2. RangeInv' BY DEF RangeInv, Admitted, Register!Within
  <2>3. \A q \in Params : Undelivered(q)' = Undelivered(q)
    BY DEF Undelivered
  <2>4. \A q \in Params : t \notin Undelivered(q)
    BY DEF Undelivered
  <2>5. EventInv' BY <2>3, <2>4 DEF EventInv
  <2> QED BY <2>1, <2>2, <2>5
<1>3. ASSUME NEW t \in Callers, TryUpdate(t) PROVE IInv'
  <2>0. PICK p \in Params : p = target[t]
    OBVIOUS
  <2>1. p = target[t] /\ value[p] = oldValue[t] /\ pc[t] = "swap"
    BY <1>3, <2>0 DEF TryUpdate, Exchange
  <2>2. TypeOK'
    BY <1>3 DEF TryUpdate, Exchange
  <2>3. RangeInv'
    BY <1>3 DEF TryUpdate, Exchange, RangeInv, Admitted, Register!Within
  <2>4. CASE oldValue[t] = newValue[t]
    <3>1. /\ value' = value
          /\ UNCHANGED <<mirror, overlapped, oldValue, newValue>>
      BY <1>3, <2>1, <2>4 DEF TryUpdate, Exchange
    <3>2. \A q \in Params : Undelivered(q)' = Undelivered(q)
      BY <1>3, <2>4 DEF TryUpdate, Exchange, Undelivered
    <3>3. EventInv'
      BY <3>1, <3>2 DEF EventInv
    <3> QED BY <2>2, <2>3, <3>3
  <2>5. CASE oldValue[t] # newValue[t]
    <3>1. /\ value' = [value EXCEPT ![p] = newValue[t]]
          /\ UNCHANGED <<mirror, oldValue, newValue>>
          /\ overlapped \subseteq overlapped'
          /\ Undelivered(p) # {} => p \in overlapped'
      BY <1>3, <2>0, <2>5 DEF TryUpdate, Exchange
    <3>2. \A q \in Params \ {p} : Undelivered(q)' = Undelivered(q)
      BY <1>3, <2>0, <2>5 DEF TryUpdate, Exchange, Undelivered
    <3>3. Undelivered(p)' = Undelivered(p) \cup {t}
      BY <1>3, <2>0, <2>1, <2>5 DEF TryUpdate, Exchange, Undelivered
    <3>4. ASSUME NEW q \in Params \ overlapped'
          PROVE /\ Undelivered(q)' = {} => mirror'[q] = value'[q]
                /\ \A u \in Undelivered(q)' :
                     /\ Undelivered(q)' = {u}
                     /\ oldValue'[u] = mirror'[q]
                     /\ newValue'[u] = value'[q]
      <4>1. CASE q = p
        <5>1. Undelivered(p) = {}
          BY <3>1, <3>4, <4>1
        <5>2. mirror[p] = value[p]
          BY <5>1, <3>1, <3>4, <4>1 DEF EventInv
        <5>3. Undelivered(q)' = {t}
          BY <3>3, <4>1, <5>1
        <5>4. value'[p] = newValue[t] /\ mirror'[p] = oldValue[t]
          BY <2>1, <3>1, <5>2
        <5>5. oldValue'[t] = mirror'[q] /\ newValue'[t] = value'[q]
          BY <3>1, <4>1, <5>4
        <5> QED BY <5>3, <5>5
      <4>2. CASE q # p
        BY <3>1, <3>2, <3>4, <4>2 DEF EventInv
      <4> QED BY <4>1, <4>2
    <3>5. EventInv'
      BY <3>4 DEF EventInv
    <3> QED BY <2>2, <2>3, <3>5
  <2> QED BY <2>4, <2>5
<1>4. ASSUME NEW t \in Callers, TryUpdateFails(t) PROVE IInv'
  <2> USE <1>4 DEF TryUpdateFails
  <2>1. TypeOK' OBVIOUS
  <2>2. RangeInv' BY DEF RangeInv, Admitted, Register!Within
  <2>3. \A q \in Params : Undelivered(q)' = Undelivered(q)
    BY DEF Undelivered
  <2>4. EventInv' BY <2>3 DEF EventInv
  <2> QED BY <2>1, <2>2, <2>4
<1>5. ASSUME NEW t \in Callers, ParameterChanged(t) PROVE IInv'
  <2>0. PICK p \in Params : p = target[t]
    OBVIOUS
  <2> USE <1>5, <2>0 DEF ParameterChanged, Deliver
  <2>1. TypeOK' OBVIOUS
  <2>2. RangeInv' BY DEF RangeInv, Admitted, Register!Within
  <2>3. \A q \in Params \ {p} : Undelivered(q)' = Undelivered(q)
    BY DEF Undelivered
  <2>4. t \in Undelivered(p) /\ Undelivered(p)' = Undelivered(p) \ {t}
    BY DEF Undelivered
  <2>5. p \notin overlapped
          => Undelivered(p)' = {} /\ mirror'[p] = value'[p]
    <3> SUFFICES ASSUME p \notin overlapped
                 PROVE Undelivered(p)' = {} /\ mirror'[p] = value'[p]
      OBVIOUS
    <3>1. Undelivered(p) = {t} /\ newValue[t] = value[p]
      BY <2>4 DEF EventInv
    <3> QED BY <2>4, <3>1
  <2>6. EventInv' BY <2>3, <2>5 DEF EventInv
  <2> QED BY <2>1, <2>2, <2>6
<1>6. CASE UNCHANGED vars
  <2> USE <1>6 DEF vars
  <2>1. TypeOK' OBVIOUS
  <2>2. RangeInv' BY DEF RangeInv, Admitted, Register!Within
  <2>3. \A q \in Params : Undelivered(q)' = Undelivered(q)
    BY DEF Undelivered
  <2>4. EventInv' BY <2>3 DEF EventInv
  <2> QED BY <2>1, <2>2, <2>4
<1> QED BY <1>1, <1>2, <1>3, <1>4, <1>5, <1>6 DEF Next

(* The invariant holds of every run of the store.                          *)
THEOREM Invariant == Spec => []IInv
BY InitIInv, StepIInv, PTL DEF Spec

(* Values, and what subscribers are told, stay within the bounds whatever  *)
(* is requested, but for NaN: no comparison refuses it, and it is stored.  *)
InRange ==
  \A p \in Params : \A v \in {value[p], mirror[p]} :
    v # NaN \/ NaN \notin Requests => Register!Within(p, v)

(* Set clamps: no interleaving puts a value, or an event's NewValue, out   *)
(* of its parameter's bounds.                                              *)
THEOREM ValuesInRange == Spec => []InRange
<1>1. IInv => InRange BY DEF IInv, RangeInv, Admitted, InRange
<1> QED BY <1>1, Invariant, PTL

(* The OldValue of an event is what its subscriber knew.                   *)
THEOREM EventsFormChain == Spec => []EventsChain
<1>1. IInv => EventsChain
  BY DEF IInv, TypeOK, EventInv, EventsChain, Undelivered
<1> QED BY <1>1, Invariant, PTL

(* A subscriber knows the value of a parameter whose events never overlap. *)
THEOREM SubscriberKnowsValue == Spec => []SubscriberCurrent
<1>1. IInv => SubscriberCurrent
  BY DEF IInv, TypeOK, EventInv, SubscriberCurrent, Undelivered
<1> QED BY <1>1, Invariant, PTL

(* What ApplyValidation returns is what Register allows to be written.     *)
LEMMA ClampsAsPromised ==
  ASSUME NEW p \in Params, NEW v \in Requests
  PROVE  /\ Register!Clamped(p, v, ApplyValidation(p, v))
         /\ ApplyValidation(p, v) \in {v, MinValue[p], MaxValue[p]}
<1>1. /\ MinValue[p] \in Int \cup {NoBound}
      /\ MaxValue[p] \in Int \cup {NoBound}
      /\ v \in Int \cup {NaN}
      /\ NaN \notin Int /\ NoBound \notin Int
      /\ MinValue[p] # NoBound /\ MaxValue[p] # NoBound
           => MinValue[p] <= MaxValue[p]
  BY StoreAssumption
<1>2. CASE v = NaN
  BY <1>1, <1>2 DEF ApplyValidation, Below, Above, Register!Clamped
<1>3. CASE v # NaN
  BY <1>1, <1>3
  DEF ApplyValidation, Below, Above, Register!Clamped, Register!Within
<1> QED BY <1>2, <1>3

(* A call that is not under way is not busy in Register either.            *)
LEMMA IdleIsNotBusy ==
  ASSUME TypeOK, NEW t \in Callers, pc[t] = "idle"
  PROVE  ~Register!Busy(t)
BY DEF TypeOK, Register!Busy, Calls, Events

(* Each step of the store is one of Register, or no step for it.           *)
LEMMA StepImplements ==
  IInv /\ [Next]_vars => [Register!Next]_(Register!vars)
<1> SUFFICES ASSUME IInv, [Next]_vars
             PROVE  Register!Next \/ UNCHANGED Register!vars
  OBVIOUS
<1> USE DEF IInv, TypeOK
<1> DEFINE callOf(t) == [by |-> t, name |-> target[t], write |-> newValue[t]]
           eventOf(t) == [by |-> t, name |-> target[t],
                          old |-> oldValue[t], new |-> newValue[t]]
<1>1. ASSUME NEW t \in Callers, NEW p \in Params, NEW v \in Requests, Set(t, p, v)
      PROVE \E w \in {v, MinValue[p], MaxValue[p]} :
              Register!Clamped(p, v, w) /\ Register!Call(t, p, w)
  <2> USE <1>1 DEF Set
  <2> DEFINE w == ApplyValidation(p, v)
  <2>1. ~Register!Busy(t)
    BY IdleIsNotBusy
  <2>2. Calls' = Calls \cup {[by |-> t, name |-> p, write |-> w]}
    <3>1. newValue' = [newValue EXCEPT ![t] = w]
      OBVIOUS
    <3> HIDE DEF w
    <3> QED BY <3>1 DEF Calls
  <2>3. Events' = Events
    <3>1. newValue' = [newValue EXCEPT ![t] = w]
      OBVIOUS
    <3> HIDE DEF w
    <3> QED BY <3>1 DEF Events
  <2>4. Register!Clamped(p, v, w) /\ w \in {v, MinValue[p], MaxValue[p]}
    BY ClampsAsPromised
  <2> HIDE DEF w
  <2>5. Register!Call(t, p, w)
    BY <2>1, <2>2, <2>3 DEF Register!Call
  <2> QED BY <2>4, <2>5
<1>2. ASSUME NEW t \in Callers, TryGetValue(t) PROVE UNCHANGED Register!vars
  <2> USE <1>2 DEF TryGetValue
  <2>1. Calls' = Calls
    BY DEF Calls
  <2>2. Events' = Events
    BY DEF Events
  <2> QED BY <2>1, <2>2 DEF Register!vars
<1>3. ASSUME NEW t \in Callers, TryUpdate(t)
      PROVE \E c \in Calls : Register!Write(c)
  <2> DEFINE c == callOf(t)
             p == target[t]
             w == newValue[t]
  <2>0. pc[t] = "swap" /\ value[p] = oldValue[t]
    BY <1>3 DEF TryUpdate
  <2>1. c \in Calls /\ c.by = t /\ c.name = p /\ c.write = w
    BY <2>0 DEF Calls
  <2>2. Calls' = Calls \ {c}
    <3>1. {u \in Callers : pc[u] \in {"read", "swap"}}'
            = {u \in Callers : pc[u] \in {"read", "swap"}} \ {t}
      BY <1>3 DEF TryUpdate, Exchange
    <3>2. target' = target /\ newValue' = newValue
      BY <1>3 DEF TryUpdate, Exchange
    <3> QED BY <3>1, <3>2 DEF Calls
  <2>3. Events' = IF value[p] = w THEN Events
                  ELSE Events \cup {[by |-> c.by, name |-> c.name,
                                    old |-> value[c.name], new |-> c.write]}
    <3>1. UNCHANGED <<target, newValue, oldValue>>
      BY <1>3 DEF TryUpdate, Exchange
    <3>2. {u \in Callers : pc[u] = "raise"}'
            = IF value[p] = w THEN {u \in Callers : pc[u] = "raise"}
              ELSE {u \in Callers : pc[u] = "raise"} \cup {t}
      BY <1>3, <2>0 DEF TryUpdate, Exchange
    <3>3. CASE value[p] = w
      BY <3>1, <3>2, <3>3 DEF Events
    <3>4. CASE value[p] # w
      <4>1. Events' = Events \cup {eventOf(t)}
        BY <3>1, <3>2, <3>4 DEF Events
      <4>2. eventOf(t) = [by |-> c.by, name |-> c.name,
                          old |-> value[c.name], new |-> c.write]
        BY <2>0, <2>1
      <4> QED BY <3>4, <4>1, <4>2
    <3> QED BY <3>3, <3>4
  <2>4. value' = [value EXCEPT ![p] = w] /\ mirror' = mirror
    BY <1>3 DEF TryUpdate, Exchange
  <2>5. Register!Write(c)
    BY <2>1, <2>2, <2>3, <2>4 DEF Register!Write
  <2> QED BY <2>1, <2>5
<1>4. ASSUME NEW t \in Callers, TryUpdateFails(t) PROVE UNCHANGED Register!vars
  <2> USE <1>4 DEF TryUpdateFails
  <2>1. Calls' = Calls
    BY DEF Calls
  <2>2. Events' = Events
    BY DEF Events
  <2> QED BY <2>1, <2>2 DEF Register!vars
<1>5. ASSUME NEW t \in Callers, ParameterChanged(t)
      PROVE \E e \in Events : Register!Announce(e)
  <2> USE <1>5 DEF ParameterChanged, Deliver
  <2>1. eventOf(t) \in Events
    BY DEF Events
  <2>2. Events' = Events \ {eventOf(t)}
    <3>1. {u \in Callers : pc[u] = "raise"}' = {u \in Callers : pc[u] = "raise"} \ {t}
      OBVIOUS
    <3> QED BY <3>1 DEF Events
  <2>3. Calls' = Calls
    BY DEF Calls
  <2>4. mirror' = [mirror EXCEPT ![eventOf(t).name] = eventOf(t).new]
    OBVIOUS
  <2>5. Register!Announce(eventOf(t))
    BY <2>2, <2>3, <2>4 DEF Register!Announce
  <2> QED BY <2>1, <2>5
<1>6. CASE UNCHANGED vars
  <2>1. Calls' = Calls /\ Events' = Events
    BY <1>6 DEF vars, Calls, Events
  <2> QED BY <1>6, <2>1 DEF vars, Register!vars
<1> QED BY <1>1, <1>2, <1>3, <1>4, <1>5, <1>6 DEF Next, Register!Next

(* The store implements Register but for the return of every call, which   *)
(* is checked only: no interleaving loses a write, repeats one, or raises  *)
(* an event for anything else than the change a call has made.             *)
THEOREM StoreImplementsRegister == Spec => Register!Safety
<1>1. Init => Register!Init
  BY DEF Init, Register!Init, Calls, Events
<1>2. IInv /\ [Next]_vars => [Register!Next]_(Register!vars)
  BY StepImplements
<1> QED BY <1>1, <1>2, Invariant, PTL DEF Spec, Register!Safety
=============================================================================
