--------------------------- MODULE TankInventory ---------------------------
(***************************************************************************)
(* TankInventoryComponent of TankTransferSystem, composed with the         *)
(* ParameterStore.  The runner's thread moves material in Tick while the   *)
(* threads of parameter edits run OnParameterChanged on the same fields,   *)
(* without a lock: every read and write of a shared field is a step.       *)
(***************************************************************************)
EXTENDS Doubles, FiniteSets

CONSTANTS
  Callers, Requests, Default, NoBound, MaxSets,  \* as in ParameterStore
  Source, Dest, Capacity,  \* the parameters the inventory listens to
  None,
  MaxDelta                 \* bound: cmdRate * dtSeconds, where it is a number

Params == {Source, Dest, Capacity}
MinValue == [p \in Params |-> 0]
MaxValue == [p \in Params |-> NoBound]

ASSUME InventoryAssumption ==
  /\ Source # Dest /\ Dest # Capacity /\ Capacity # Source
  /\ Requests \subseteq Double
  /\ Default \in [Params -> 0..Infinity]
  /\ NoBound \notin Int
  /\ MaxDelta \in 0..(Infinity - 1)

VARIABLES
  serialized,  \* the edits of this run come one by one and never during a tick
  value, pc, target, newValue, oldValue, mirror, sets, overlapped,
                                 \* of the ParameterStore
  source, dest, cap,             \* the fields of the component
  seen,                          \* a handler's register
  tpc,                           \* where Tick is
  request, available, reg, delta,  \* locals of Tick
  outSource, outDest, isStarved, isFull,  \* the signals Tick sets
  before,   \* history: the total weight when the tick began, or NaN if the
            \* tick began with numbers from which no delta can be computed
  raced,    \* history: a field was edited during the tick
  ticked,   \* history: some tick has written the weights
  teleport  \* history: what the source was set to during the tick, or None

Store == INSTANCE ParameterStore

store    == <<value, pc, target, newValue, oldValue, mirror, sets, overlapped>>
locals   == <<tpc, request, available, reg, delta>>
signals  == <<outSource, outDest, isStarved, isFull>>
history  == <<before, raced, ticked, teleport>>
vars     == <<serialized, store, source, dest, cap, seen, locals, signals, history>>

Init ==
  /\ serialized \in BOOLEAN
  /\ Store!Init
  /\ source = Default[Source]
  /\ dest = Default[Dest]
  /\ cap = Default[Capacity]
  /\ seen = [t \in Callers |-> 0]
  /\ tpc = "idle"
  /\ request = 0 /\ available = 0 /\ reg = 0 /\ delta = 0
  /\ outSource = source
  /\ outDest = dest
  /\ isStarved = FALSE
  /\ isFull = FALSE
  /\ before = Plus(source, dest)
  /\ raced = FALSE
  /\ ticked = FALSE
  /\ teleport = None

-----------------------------------------------------------------------------
(* Calls of ParameterStore.Set, up to the event.                           *)

NoEdit == \A t \in Callers : pc[t] = "idle"

SetCall(t) ==
  /\ \E p \in Params, v \in Requests : Store!Set(t, p, v)
  /\ serialized => tpc = "idle" /\ NoEdit
  /\ UNCHANGED <<source, dest, cap, seen, locals, signals, history>>

SetStep(t) ==
  /\ Store!TryGetValue(t) \/ Store!TryUpdate(t) \/ Store!TryUpdateFails(t)
  /\ UNCHANGED <<source, dest, cap, seen, locals, signals, history>>

(* OnParameterChanged, on the thread of the edit.                          *)
Raced == raced' = (tpc # "idle") /\ UNCHANGED <<before, ticked>>

EditSource(t) ==
  /\ Store!ParameterChanged(t)
  /\ target[t] = Source
  /\ source' = Max0(newValue[t])
  /\ teleport' = IF tpc = "idle" THEN None ELSE source'
  /\ Raced
  /\ UNCHANGED <<dest, cap, seen, locals, signals>>

(* Slip: the first two branches write the same field.                      *)
EditDestWrongTank(t) ==
  /\ Store!ParameterChanged(t)
  /\ target[t] = Dest
  /\ source' = Max0(newValue[t])
  /\ Raced
  /\ UNCHANGED <<dest, cap, seen, locals, signals, teleport>>

EditDest(t) ==
  /\ Store!ParameterChanged(t)
  /\ target[t] = Dest
  /\ dest' = Max0(newValue[t])
  /\ Raced
  /\ UNCHANGED <<source, cap, seen, locals, signals, teleport>>

EditCapacity(t) ==
  /\ Store!Deliver(t, "clampLimit")
  /\ target[t] = Capacity
  /\ cap' = Max0(newValue[t])
  /\ Raced
  /\ UNCHANGED <<source, dest, seen, locals, signals, teleport>>

(* The clamp of the destination to the new capacity: look at the capacity, *)
(* at the weight, at the capacity twice more, write the weight.            *)
ClampStep(t, from, to) ==
  /\ pc[t] = from
  /\ pc' = [pc EXCEPT ![t] = to]
  /\ UNCHANGED <<value, target, newValue, oldValue, mirror, sets, overlapped,
                 source, cap, locals, signals, before, ticked, teleport>>

(* Slip: a capacity of 0 is taken for a limit.                             *)
ClampLimitZero(t) ==
  /\ ClampStep(t, "clampLimit", "clampRead")
  /\ UNCHANGED <<dest, seen, raced>>

ClampLimit(t) ==
  /\ ClampStep(t, "clampLimit", IF Exceeds(cap, 0) THEN "clampRead" ELSE "idle")
  /\ UNCHANGED <<dest, seen, raced>>

ClampRead(t) ==
  /\ ClampStep(t, "clampRead", "clampTest")
  /\ seen' = [seen EXCEPT ![t] = dest]
  /\ UNCHANGED <<dest, raced>>

ClampTest(t) ==
  /\ ClampStep(t, "clampTest", IF Exceeds(seen[t], cap) THEN "clampLoad" ELSE "idle")
  /\ UNCHANGED <<dest, seen, raced>>

ClampLoad(t) ==
  /\ ClampStep(t, "clampLoad", "clampStore")
  /\ seen' = [seen EXCEPT ![t] = cap]
  /\ UNCHANGED <<dest, raced>>

ClampStore(t) ==
  /\ ClampStep(t, "clampStore", "idle")
  /\ dest' = seen[t]
  /\ raced' = (tpc # "idle")
  /\ UNCHANGED seen

-----------------------------------------------------------------------------
(* Tick: one step for each read or write of a field.                       *)

TickStep(from, to) ==
  /\ tpc = from
  /\ tpc' = to
  /\ UNCHANGED <<store, cap, seen>>

TickBegin ==
  /\ TickStep("idle", "readSource")
  /\ serialized => NoEdit
  /\ request' \in (0..MaxDelta) \cup {NaN}
  /\ before' = IF NaN \in {request', source, Minus0(cap, dest)} THEN NaN
               ELSE Plus(source, dest)
  /\ raced' = FALSE
  /\ teleport' = None
  /\ UNCHANGED <<source, dest, available, reg, delta, signals, ticked>>

ReadSource ==
  /\ TickStep("readSource", "readCap")
  /\ available' = Max0(source)
  /\ UNCHANGED <<source, dest, request, reg, delta, signals, history>>

ReadCap ==
  /\ TickStep("readCap", "readDest")
  /\ reg' = cap
  /\ UNCHANGED <<source, dest, request, available, delta, signals, history>>

(* Slip: the amount is not limited by what fits.                           *)
ReadDestOverfill ==
  /\ TickStep("readDest", "take")
  /\ delta' = Lesser(request, available)
  /\ UNCHANGED <<source, dest, request, available, reg, signals, history>>

ReadDest ==
  /\ TickStep("readDest", "take")
  /\ delta' = Lesser(request, Lesser(available, Minus0(reg, dest)))
  /\ UNCHANGED <<source, dest, request, available, reg, signals, history>>

TakeLoad ==
  /\ TickStep("take", "takeStore")
  /\ reg' = source
  /\ UNCHANGED <<source, dest, request, available, delta, signals, history>>

(* Slip: Math.Max(0, ...) is left out, as delta is at most the source.     *)
TakeStoreUnguarded ==
  /\ TickStep("takeStore", "give")
  /\ source' = IF NaN \in {reg, delta} THEN NaN ELSE reg - delta
  /\ ticked' = TRUE
  /\ UNCHANGED <<dest, request, available, reg, delta, signals,
                 before, raced, teleport>>

TakeStore ==
  /\ TickStep("takeStore", "give")
  /\ source' = Minus0(reg, delta)
  /\ ticked' = TRUE
  /\ UNCHANGED <<dest, request, available, reg, delta, signals,
                 before, raced, teleport>>

GiveLoad ==
  /\ TickStep("give", "giveStore")
  /\ reg' = dest
  /\ UNCHANGED <<source, dest, request, available, delta, signals, history>>

GiveStore ==
  /\ TickStep("giveStore", "outSource")
  /\ dest' = Max0(Plus(reg, delta))
  /\ UNCHANGED <<source, request, available, reg, delta, signals, history>>

(* Each signal is computed from the fields once more.                      *)
OutSource ==
  /\ TickStep("outSource", "outDest")
  /\ outSource' = source
  /\ UNCHANGED <<source, dest, request, available, reg, delta,
                 outDest, isStarved, isFull, history>>

OutDest ==
  /\ TickStep("outDest", "outStarved")
  /\ outDest' = dest
  /\ UNCHANGED <<source, dest, request, available, reg, delta,
                 outSource, isStarved, isFull, history>>

OutStarved ==
  /\ TickStep("outStarved", "outFull")
  /\ isStarved' = (source = 0)
  /\ UNCHANGED <<source, dest, request, available, reg, delta,
                 outSource, outDest, isFull, history>>

(* _destCapacityLb > 0 && _destWeightLb >= _destCapacityLb: three reads.   *)
OutFull ==
  /\ TickStep("outFull", IF Exceeds(cap, 0) THEN "outFullDest" ELSE "idle")
  /\ isFull' = (isFull /\ Exceeds(cap, 0))
  /\ UNCHANGED <<source, dest, request, available, reg, delta,
                 outSource, outDest, isStarved, history>>

OutFullDest ==
  /\ TickStep("outFullDest", "outFullCap")
  /\ reg' = dest
  /\ UNCHANGED <<source, dest, request, available, delta, signals, history>>

OutFullCap ==
  /\ TickStep("outFullCap", "idle")
  /\ isFull' = AtLeast(reg, cap)
  /\ UNCHANGED <<source, dest, request, available, reg, delta,
                 outSource, outDest, isStarved, history>>

Edit(t) ==
  \/ SetCall(t) \/ SetStep(t)
  \/ EditSource(t) \/ EditDest(t) \/ EditCapacity(t)
  \/ ClampLimit(t) \/ ClampRead(t) \/ ClampTest(t) \/ ClampLoad(t) \/ ClampStore(t)

Tick ==
  \/ TickBegin \/ ReadSource \/ ReadCap \/ ReadDest
  \/ TakeLoad \/ TakeStore \/ GiveLoad \/ GiveStore
  \/ OutSource \/ OutDest \/ OutStarved
  \/ OutFull \/ OutFullDest \/ OutFullCap

Next ==
  /\ Tick \/ \E t \in Callers : Edit(t)
  /\ UNCHANGED serialized

Spec == Init /\ [][Next]_vars

-----------------------------------------------------------------------------
ClampLabels == {"clampLimit", "clampRead", "clampTest", "clampLoad", "clampStore"}
TickLabels == {"idle", "readSource", "readCap", "readDest", "take", "takeStore",
               "give", "giveStore", "outSource", "outDest", "outStarved", "outFull",
               "outFullDest", "outFullCap"}

(* Every variable stays in its domain; a weight may be negative here.      *)
TypeOK ==
  /\ serialized \in BOOLEAN
  /\ newValue \in [Callers -> Double]
  /\ pc \in [Callers -> {"idle", "read", "swap", "raise"} \cup ClampLabels]
  /\ target \in [Callers -> Params]
  /\ tpc \in TickLabels
  /\ source \in Double /\ dest \in Double /\ cap \in Double
  /\ seen \in [Callers -> Double]
  /\ request \in (0..MaxDelta) \cup {NaN}
  /\ available \in Double /\ reg \in Double /\ delta \in Double
  /\ outSource \in Double /\ outDest \in Double
  /\ isStarved \in BOOLEAN /\ isFull \in BOOLEAN
  /\ before \in Double /\ raced \in BOOLEAN /\ ticked \in BOOLEAN

(* No weight is ever negative, however edits and a tick interleave, and a  *)
(* tick never moves material backwards.                                    *)
NonNegative == \A w \in {source, dest, cap, delta} : w = NaN \/ w >= 0

TickDone == tpc \in {"outSource", "outDest", "outStarved",
                     "outFull", "outFullDest", "outFullCap"}

(* A tick no edit interferes with neither loses nor makes material, and    *)
(* does not fill the destination beyond its capacity, if it began with     *)
(* numbers.  If a weight, the capacity or the rate was NaN, or weight and  *)
(* capacity of the destination infinite, it destroys both weights.         *)
UnracedTransfers ==
  TickDone /\ ~raced =>
    IF before = NaN THEN source = NaN /\ dest = NaN
    ELSE /\ Plus(source, dest) = before
         /\ delta > 0 => AtLeast(cap, dest)

(* Until a tick writes it, an inventory whose events did not overlap is    *)
(* what its parameters say.                                                *)
AlignedWithParameters ==
  ~ticked /\ NoEdit =>
    /\ Source \notin overlapped => source = value[Source]
    /\ Capacity \notin overlapped => cap = value[Capacity]

(* With edits one by one and outside ticks, the component implements the   *)
(* inventory of atomic transfers and edits: a transfer takes place when    *)
(* the destination is written, a clamp with its capacity.  The other runs  *)
(* are mapped to an inventory nothing happens to.                          *)
Clamping == \E t \in Callers : pc[t] \in ClampLabels
Giving == tpc \in {"give", "giveStore"}

Atomic == INSTANCE Inventory WITH
  told   <- IF serialized THEN mirror ELSE Default,
  asked  <- IF serialized THEN request ELSE 0,
  source <- IF ~serialized THEN Default[Source]
            ELSE IF Giving THEN Plus(source, delta) ELSE source,
  dest   <- IF ~serialized THEN Default[Dest]
            ELSE IF Clamping /\ Exceeds(cap, 0) /\ Exceeds(dest, cap) THEN cap ELSE dest,
  cap    <- IF serialized THEN cap ELSE Default[Capacity]

ImplementsInventory == Atomic!Spec

(* What the parameter's description says ("Can be adjusted live"): a       *)
(* source edited during a tick has its new weight, less what was moved.    *)
TeleportSurvivesTick ==
  TickDone /\ teleport # None => source \in {teleport, Minus0(teleport, delta)}
=============================================================================
