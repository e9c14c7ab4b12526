----------------------------- MODULE SearchSlots -----------------------------
(***************************************************************************)
(* The cap on concurrent searches of src/server: SearchSlot, the guard     *)
(* that every search holds, over a counting semaphore, the number of       *)
(* searches in flight and the highest such number seen.                    *)
(*                                                                         *)
(* Every access to an atomic is a step.  All of them are relaxed: a plain  *)
(* load may return an older value, a read-modify-write never does.         *)
(***************************************************************************)
EXTENDS Integers, FiniteSets

CONSTANTS
  Worker,     \* the HTTP workers
  Hw,         \* what hardware_concurrency returns, 0 if unknown
  Option,     \* the int given with --max-searches, 0 if none
  SizeRange   \* 2^64, the number of values of a size_t (16 in the runs)

ASSUME SlotAssumption ==
  /\ IsFiniteSet(Worker)
  /\ Hw \in Nat /\ Option \in Int
  /\ SizeRange \in Nat \ {0}
  /\ 2 * Hw < SizeRange /\ 4 < SizeRange
  /\ 2 * Cardinality(Worker) < SizeRange  \* fewer threads than a ptrdiff_t counts

AutoConcurrency == IF 2 * Hw > 4 THEN 2 * Hw ELSE 4

\* Conversions to size_t and back to ptrdiff_t.
SizeT(n) == n % SizeRange
PtrDiff(n) == IF 2 * n < SizeRange THEN n ELSE n - SizeRange

max_concurrent_searches == IF SizeT(Option) = 0 THEN AutoConcurrency ELSE SizeT(Option)

Slots == PtrDiff(max_concurrent_searches)

VARIABLES
  search_slots,         \* the counter of the semaphore
  in_flight_searches,
  peak_in_flight,
  point,                   \* program points of the threads
  now, observed,        \* their locals
  highest               \* history: the highest in_flight_searches ever

shared == <<search_slots, in_flight_searches, peak_in_flight>>
slotVars == <<shared, point, now, observed, highest>>

-----------------------------------------------------------------------------
SlotInit ==
  /\ search_slots = Slots
  /\ in_flight_searches = 0 /\ peak_in_flight = 0
  /\ point = [t \in Worker |-> "idle"]
  /\ now = [t \in Worker |-> 0] /\ observed = [t \in Worker |-> 0]
  /\ highest = 0

Here(t, here) == point[t] = here
Go(t, there) == point' = [point EXCEPT ![t] = there]

\* A search whose index has a reader asks for a slot.
AskSlot(t) ==
  /\ Here(t, "idle") /\ Go(t, "acquire")
  /\ UNCHANGED <<shared, now, observed, highest>>

\* The semaphore waits while it counts zero.  A count below zero is undefined:
\* the libraries the program is built with test for zero alone, and let all pass.
Acquire(t) ==
  /\ Here(t, "acquire") /\ search_slots # 0 /\ Go(t, "add")
  /\ search_slots' = search_slots - 1
  /\ UNCHANGED <<in_flight_searches, peak_in_flight, now, observed, highest>>

Add(t) ==
  /\ Here(t, "add") /\ Go(t, "load")
  /\ in_flight_searches' = in_flight_searches + 1
  /\ now' = [now EXCEPT ![t] = in_flight_searches + 1]
  /\ highest' = IF in_flight_searches + 1 > highest THEN in_flight_searches + 1 ELSE highest
  /\ UNCHANGED <<search_slots, peak_in_flight, observed>>

\* peak_ never decreases, so an older value is a smaller one.
Load(t) ==
  /\ Here(t, "load") /\ Go(t, "cas")
  /\ \E v \in 0..peak_in_flight : observed' = [observed EXCEPT ![t] = v]
  /\ UNCHANGED <<shared, now, highest>>

\* Mutant: a store in place of the compare-exchange.
RaiseStores(t) ==
  /\ Here(t, "cas") /\ now[t] > observed[t] /\ Go(t, "search")
  /\ peak_in_flight' = now[t]
  /\ UNCHANGED <<search_slots, in_flight_searches, now, observed, highest>>

Raise(t) ==
  /\ Here(t, "cas") /\ now[t] > observed[t] /\ peak_in_flight = observed[t]
  /\ Go(t, "search")
  /\ peak_in_flight' = now[t]
  /\ UNCHANGED <<search_slots, in_flight_searches, now, observed, highest>>

\* The exchange reports what it found.  It may also fail for no reason.
RaiseFails(t) ==
  /\ Here(t, "cas") /\ now[t] > observed[t]
  /\ observed' = [observed EXCEPT ![t] = peak_in_flight]
  /\ UNCHANGED <<shared, point, now, highest>>

NothingToRaise(t) ==
  /\ Here(t, "cas") /\ now[t] <= observed[t] /\ Go(t, "search")
  /\ UNCHANGED <<shared, now, observed, highest>>

\* Mutant: one of the returns of the handler is not covered by the guard.
EndKeepsSlot(t) ==
  /\ Here(t, "search")
  /\ Go(t, "sub") \/ Go(t, "idle")
  /\ UNCHANGED <<shared, now, observed, highest>>

\* Whichever return or exception ends the handler, the guard is destroyed.
EndSearch(t) ==
  /\ Here(t, "search") /\ Go(t, "sub")
  /\ UNCHANGED <<shared, now, observed, highest>>

Sub(t) ==
  /\ Here(t, "sub") /\ Go(t, "release")
  /\ in_flight_searches' = in_flight_searches - 1
  /\ UNCHANGED <<search_slots, peak_in_flight, now, observed, highest>>

\* Mutant: the guard was copied, and the copy is destroyed as well.
ReleaseCopied(t) ==
  /\ Here(t, "release")
  /\ Go(t, "idle") \/ Go(t, "sub")
  /\ search_slots' = search_slots + 1
  /\ UNCHANGED <<in_flight_searches, peak_in_flight, now, observed, highest>>

\* The locals end with the handler.
Release(t) ==
  /\ Here(t, "release") /\ Go(t, "idle")
  /\ search_slots' = search_slots + 1
  /\ now' = [now EXCEPT ![t] = 0] /\ observed' = [observed EXCEPT ![t] = 0]
  /\ UNCHANGED <<in_flight_searches, peak_in_flight, highest>>

\* What a thread does once it has asked for a slot.
Step(t) ==
  \/ Acquire(t) \/ Add(t) \/ Load(t) \/ Raise(t) \/ RaiseFails(t) \/ NothingToRaise(t)
  \/ EndSearch(t) \/ Sub(t) \/ Release(t)

SlotNext == \E t \in Worker : AskSlot(t) \/ Step(t)

SlotSpec == SlotInit /\ [][SlotNext]_slotVars

\* Every thread that can go on does: handlers end, and an exchange does not
\* fail for no reason for ever.  Nobody is promised the next free slot.
FairSlotSpec == SlotSpec /\ \A t \in Worker : WF_slotVars(Step(t))

-----------------------------------------------------------------------------
SlotTypeOK ==
  /\ search_slots \in Int
  /\ in_flight_searches \in Nat /\ peak_in_flight \in Nat /\ highest \in Nat
  /\ point \in [Worker -> {"idle", "acquire", "add", "load", "cas", "search", "sub", "release"}]
  /\ now \in [Worker -> Nat] /\ observed \in [Worker -> Nat]

\* The threads that have a slot, and those counted as in flight.
Holding == {t \in Worker : point[t] \notin {"idle", "acquire"}}
Counted == {t \in Holding : point[t] \notin {"add", "release"}}

\* No slot is lost or made, whatever the order in which searches start and
\* end: the free ones and the ones held add up to those there were.
SlotsConserved ==
  /\ search_slots + Cardinality(Holding) = Slots
  /\ in_flight_searches = Cardinality(Counted)

\* "The semaphore must never let more than `max_concurrent_searches` runs
\* execute simultaneously" (search_concurrency_test.cpp:103), measured as
\* the test does.
PeakBounded == peak_in_flight <= max_concurrent_searches

\* Racing searches with stale views do not lose a maximum: once no thread
\* is about to record what it saw, peak_in_flight_ is the highest number of
\* searches that were ever in flight.
PeakRecorded ==
  (\A t \in Worker : point[t] \notin {"load", "cas"}) => peak_in_flight = highest

\* What PeakInFlightSearches returns is the highest number of searches
\* there were at a time, and never above the cap.
PeakRight == PeakBounded /\ PeakRecorded

\* "downcast is safe since AutoConcurrency() returns at least 4 and any
\* operator-provided override is bounded by the int we accept on the CLI"
\* (search_server.cpp:102): while searches run, the free slots and the ones
\* held are as many as the cap that the server reports.  The int may be
\* negative, and then they are not.
DowncastSafe ==
  Holding # {} => search_slots + Cardinality(Holding) = max_concurrent_searches

\* Excess searches wait for a slot, and one always comes back.
SlotsComeBack ==
  (search_slots = 0 /\ \E t \in Worker : Here(t, "acquire")) ~> search_slots > 0

-----------------------------------------------------------------------------
(* The inductive invariant behind PeakRecorded and PeakBounded.            *)

PeakInv ==
  /\ \A t \in Worker : observed[t] <= peak_in_flight /\ now[t] <= highest
  /\ peak_in_flight <= highest
  /\ highest = peak_in_flight \/ \E t \in Worker : point[t] \in {"load", "cas"} /\ now[t] = highest
  /\ highest <= max_concurrent_searches
  /\ Slots > 0 => search_slots >= 0
=============================================================================
