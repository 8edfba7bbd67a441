------------------------------ MODULE LogStore ------------------------------
(***************************************************************************)
(* The daemon's InMemoryLogStores, one for each simulation, and the        *)
(* dashboard's Logs page that tails one of them.  An entry gets its number *)
(* before it is enqueued, and is enqueued before the queue is trimmed; the *)
(* page asks for the entries after the last number it was given, whichever *)
(* log that was in.                                                        *)
(***************************************************************************)
EXTENDS Simulations, Integers, FiniteSets, SequencesExt

CONSTANTS
  Default,     \* defaultActiveId
  Blank,       \* _simId is left blank: the active simulation
  Writers,     \* threads that call Add
  Timer,       \* the page's polling loop
  Buttons,     \* clicks on Refresh that may be under way at once
  MaxEntries,  \* _maxEntries
  Take,        \* entries of a batch
  PageMax,     \* entries the page keeps
  MaxAdds,     \* bound: calls of Add
  MaxChoices   \* bound: choices of the users

ASSUME LogAssumption ==
  /\ {MaxEntries, Take, PageMax} \subseteq Nat \ {0}
  /\ {MaxAdds, MaxChoices} \subseteq Nat
  /\ Default \in Sims /\ Blank \notin Sims
  /\ Timer \notin Buttons
  /\ IsFiniteSet(Writers)

VARIABLES
  seq,      \* _seq of each log
  queue,    \* _entries of each log
  wpc,      \* where each writer is in Add
  mine,     \* the entry each writer adds
  trimmed,  \* history: the logs that were trimmed
  active,   \* _activeId of the registry
  simId,    \* _simId of the page
  auto,     \* _auto of the page
  choices,  \* choices made
  after,    \* _after of the page
  shown,    \* _entries of the page
  rpc,      \* where each call of Refresh is
  asked,    \* the simulation and the after each call sent
  batch,    \* the entries of its response
  seen,     \* history: entries the page was given
  skipped,  \* history: entries not enqueued when a later one was served
  clashed   \* history: two calls of Refresh were under way at once

storeVars  == <<seq, queue, wpc, mine, trimmed>>
choiceVars == <<active, simId, auto, choices>>
pageVars   == <<after, shown, rpc, asked, batch, seen, skipped, clashed>>
logVars    == <<storeVars, choiceVars, pageVars>>

Refreshers == Buttons \cup {Timer}
NoEntry == [sim |-> Blank, seq |-> 0]
NoRequest == [sim |-> Blank, after |-> 0]

LogInit ==
  /\ seq = [s \in Sims |-> 0]
  /\ queue = [s \in Sims |-> <<>>]
  /\ wpc = [w \in Writers |-> "idle"]
  /\ mine = [w \in Writers |-> NoEntry]
  /\ trimmed = {}
  /\ active = Default
  /\ simId = Blank
  /\ auto = TRUE
  /\ choices = 0
  /\ after = 0
  /\ shown = <<>>
  /\ rpc = [r \in Refreshers |-> "idle"]
  /\ asked = [r \in Refreshers |-> NoRequest]
  /\ batch = [r \in Refreshers |-> <<>>]
  /\ seen = {}
  /\ skipped = {}
  /\ clashed = FALSE

-----------------------------------------------------------------------------
(* Interlocked.Increment in the entry's constructor.                       *)
Number(w, s) ==
  /\ wpc[w] = "idle"
  /\ FoldFunction(+, 0, seq) < MaxAdds
  /\ seq' = [seq EXCEPT ![s] = @ + 1]
  /\ mine' = [mine EXCEPT ![w] = [sim |-> s, seq |-> seq'[s]]]
  /\ wpc' = [wpc EXCEPT ![w] = "enqueue"]
  /\ UNCHANGED <<queue, trimmed, choiceVars, pageVars>>

Log(w) == mine[w].sim  \* the log that w adds to

Enqueue(w) ==
  /\ wpc[w] = "enqueue"
  /\ queue' = [queue EXCEPT ![Log(w)] = Append(@, mine[w])]
  /\ mine' = [mine EXCEPT ![w].seq = 0]
  /\ wpc' = [wpc EXCEPT ![w] = "count"]
  /\ UNCHANGED <<seq, trimmed, choiceVars, pageVars>>

Trim(w, again) ==
  /\ wpc' = [wpc EXCEPT ![w] = IF again THEN "dequeue" ELSE "idle"]
  /\ mine' = [mine EXCEPT ![w] = IF again THEN @ ELSE NoEntry]

(* Slip: a queue at the limit is trimmed already.                          *)
CountEarly(w) ==
  /\ wpc[w] = "count"
  /\ Trim(w, Len(queue[Log(w)]) >= MaxEntries)
  /\ UNCHANGED <<seq, queue, trimmed, choiceVars, pageVars>>

(* TrimIfNeeded looks at the count, then dequeues, and looks again.        *)
Count(w) ==
  /\ wpc[w] = "count"
  /\ Trim(w, Len(queue[Log(w)]) > MaxEntries)
  /\ UNCHANGED <<seq, queue, trimmed, choiceVars, pageVars>>

(* TryDequeue fails, and ends the loop, on a queue that others have        *)
(* emptied since: it takes more than MaxEntries + 1 writers.               *)
Dequeue(w) ==
  LET got == queue[Log(w)] # <<>>
  IN  /\ wpc[w] = "dequeue"
      /\ wpc' = [wpc EXCEPT ![w] = IF got THEN "count" ELSE "idle"]
      /\ mine' = [mine EXCEPT ![w] = IF got THEN @ ELSE NoEntry]
      /\ trimmed' = trimmed \cup {Log(w)}
      /\ queue' = [queue EXCEPT ![Log(w)] = IF got THEN Tail(@) ELSE @]
      /\ UNCHANGED <<seq, choiceVars, pageVars>>

-----------------------------------------------------------------------------
(* What the users of this page, and of any other, choose.                  *)

Choice ==
  /\ choices < MaxChoices
  /\ choices' = choices + 1
  /\ UNCHANGED <<storeVars, pageVars>>

ChooseSim(s) == simId # s /\ simId' = s /\ Choice /\ UNCHANGED <<active, auto>>

ToggleAuto == auto' = ~auto /\ Choice /\ UNCHANGED <<active, simId>>

TrySetActive(s) == active # s /\ active' = s /\ Choice /\ UNCHANGED <<simId, auto>>

-----------------------------------------------------------------------------
(* The page: Refresh sends _after, the daemon answers, the page appends.   *)

Request(r) ==
  /\ rpc[r] = "idle"
  /\ r = Timer => auto
  /\ rpc' = [rpc EXCEPT ![r] = "sent"]
  /\ asked' = [asked EXCEPT ![r] = [sim |-> simId, after |-> after]]
  /\ clashed' = (clashed \/ \E other \in Refreshers \ {r} : rpc[other] # "idle")
  /\ UNCHANGED <<storeVars, choiceVars, after, shown, batch, seen, skipped>>

(* OrderBy; of a log, no two entries have the same number.                 *)
Sorted(S) ==
  CHOOSE s \in [1..Cardinality(S) -> S] :
    \A i, j \in DOMAIN s : i < j => s[i].seq < s[j].seq

FirstOf(s, n) == SubSeq(s, 1, IF Len(s) < n THEN Len(s) ELSE n)
LastOf(s, n) == SubSeq(s, IF Len(s) > n THEN Len(s) - n + 1 ELSE 1, Len(s))

(* Slip: the batch is cut before it is filtered.                           *)
GetCutFirst(log, a) ==
  SelectSeq(FirstOf(log, Take), LAMBDA e : e.seq > a)

(* Slip: the batch is left in the order of the queue.                      *)
GetUnsorted(log, a) == FirstOf(SelectSeq(log, LAMBDA e : e.seq > a), Take)

(* Get: the entries after a in the order of their numbers, at most Take.   *)
Get(log, a) == FirstOf(Sorted({e \in ToSet(log) : e.seq > a}), Take)

Target(sim) == IF sim = Blank THEN active ELSE sim

Unqueued == {mine[w] : w \in {v \in Writers : wpc[v] = "enqueue"}}

(* The daemon looks the simulation up when it answers.                     *)
Serve(r) ==
  /\ rpc[r] = "sent"
  /\ rpc' = [rpc EXCEPT ![r] = "answered"]
  /\ batch' = [batch EXCEPT ![r] = Get(queue[Target(asked[r].sim)], asked[r].after)]
  /\ asked' = [asked EXCEPT ![r] = NoRequest]
  /\ skipped' = skipped \cup
       {e \in Unqueued : \E i \in DOMAIN batch'[r] :
          e.sim = batch'[r][i].sim /\ e.seq < batch'[r][i].seq}
  /\ UNCHANGED <<storeVars, choiceVars, after, shown, seen, clashed>>

(* The end of Refresh, whose locals are forgotten.                         *)
Return(r) ==
  /\ rpc' = [rpc EXCEPT ![r] = "idle"]
  /\ asked' = [asked EXCEPT ![r] = NoRequest]
  /\ batch' = [batch EXCEPT ![r] = <<>>]

(* Slip: the page asks for the same entries again.                         *)
ApplyKeepsAfter(r) ==
  /\ rpc[r] = "answered"
  /\ Return(r)
  /\ shown' = LastOf(shown \o batch[r], PageMax)
  /\ seen' = seen \cup ToSet(batch[r])
  /\ UNCHANGED <<storeVars, choiceVars, after, skipped, clashed>>

Apply(r) ==
  /\ rpc[r] = "answered"
  /\ Return(r)
  /\ shown' = LastOf(shown \o batch[r], PageMax)
  /\ after' = IF batch[r] = <<>> THEN after ELSE Last(batch[r]).seq
  /\ seen' = seen \cup ToSet(batch[r])
  /\ UNCHANGED <<storeVars, choiceVars, skipped, clashed>>

(* The request fails: the page shows the error and keeps what it has.      *)
Fail(r) ==
  /\ rpc[r] # "idle"
  /\ Return(r)
  /\ UNCHANGED <<storeVars, choiceVars, after, shown, seen, skipped, clashed>>

TrimStep(w) == Count(w) \/ Dequeue(w)

Add(w) == (\E s \in Sims : Number(w, s)) \/ Enqueue(w) \/ TrimStep(w)

Refresh(r) == Request(r) \/ Serve(r) \/ Apply(r) \/ Fail(r)

Choose ==
  \/ ToggleAuto
  \/ \E s \in Sims : TrySetActive(s)
  \/ \E s \in Sims \cup {Blank} : ChooseSim(s)

LogNext == Choose \/ (\E w \in Writers : Add(w)) \/ (\E r \in Refreshers : Refresh(r))

LogSpec == LogInit /\ [][LogNext]_logVars

(* Writers run on, the timer asks while auto-refresh is on, and requests   *)
(* do not fail for ever.  Nobody has to press the button.                  *)
LogFairSpec ==
  /\ LogSpec
  /\ \A w \in Writers : WF_logVars(Enqueue(w) \/ TrimStep(w))
  /\ WF_logVars(Request(Timer)) /\ SF_logVars(Serve(Timer)) /\ SF_logVars(Apply(Timer))

-----------------------------------------------------------------------------
(* A queue is over the limit by no more than the writers still trimming,   *)
(* and their trimming takes it below by less than their number.            *)
QueueBounded ==
  \A s \in Sims :
    /\ Len(queue[s]) <= MaxEntries
         + Cardinality({w \in Writers : wpc[w] \in {"count", "dequeue"} /\ Log(w) = s})
    /\ s \in trimmed => Len(queue[s]) > MaxEntries - Cardinality(Writers)

(* As long as its calls of Refresh come one at a time, the page shows each *)
(* entry once, in the order of the numbers, and never goes back, whatever  *)
(* simulations are chosen and activated meanwhile.                         *)
PageInOrder ==
  ~clashed =>
    \A i, j \in 1..Len(shown) : i < j => shown[i].seq < shown[j].seq

(* An entry the page will not be given: one that was not yet enqueued when *)
(* a later one was served, or one whose number is not above those of       *)
(* another simulation's log that the page was given.                       *)
Lost(e) ==
  e \in skipped \/ \E f \in seen : f.sim # e.sim /\ f.seq >= e.seq

(* However the timer's and the button's calls of Refresh interleave, an    *)
(* entry the page has passed by was given to it or is lost: with one       *)
(* simulation, only to a race of writers.                                  *)
PassedWasSeen ==
  \A s \in Sims : \A e \in ToSet(queue[s]) :
    e.seq <= after => e \in seen \/ Lost(e)

(* With auto-refresh on, in the end the page has been given every entry    *)
(* that the chosen log keeps, but the lost ones.                           *)
PageCatchesUp ==
  []<>auto => <>[](\A e \in ToSet(queue[Target(simId)]) : e \in seen \/ Lost(e))
=============================================================================
