--------------------------- MODULE CircularBuffer ---------------------------
(***************************************************************************)
(* src/internal/circular_buffer: the event memory of one traced process.   *)
(*                                                                         *)
(* A ring of `size` slots holds the newest events; two capped lists hold   *)
(* the first failed and the first slow ones, so that a flood of successful *)
(* calls cannot wash them out.  Drain merges the three for the report.     *)
(* Every method holds cb.mu for its whole body, hence one action per call. *)
(***************************************************************************)
EXTENDS Integers, Sequences, FiniteSets

SX == INSTANCE SequencesExt

CONSTANTS
    Sizes,           \* the ring sizes a configuration may ask for
    Event,           \* the events that may be pushed
    MaxErrors,       \* cap of the error list  (100 in the code)
    MaxSlow,         \* cap of the slow list   (100)
    QuietContext,    \* context shown without priority events (50)
    PriorityContext, \* context shown beside priority events  (30)
    SlowThreshold,   \* latency above which a call is slow    (100ms)
    Names,           \* files and destinations of the calls
    NoName,          \* the name in a slot that was never written
    EINPROGRESS,     \* the errno that is not an error        (115)
    MaxPushes        \* model bound on the pushes of a behaviour

EventFields == [kind : {"openat", "connect"}, name : Names,
                ts : Nat, ret : Int, latency : Nat]

ASSUME BufferAssumption ==
    /\ Sizes \subseteq Nat \ {0}
    /\ Event \subseteq EventFields
    /\ {MaxErrors, MaxSlow, QuietContext, PriorityContext,
        SlowThreshold, EINPROGRESS, MaxPushes} \subseteq Nat

\* The zero SyscallEvent that make() puts in every slot.
ZeroEvent == [kind |-> "openat", name |-> NoName, ts |-> 0, ret |-> 0, latency |-> 0]

VARIABLES
    size,                                 \* fixed by GetOrCreate
    events, head, count,                  \* the ring
    errorEvents, slowEvents,              \* priority storage
    TotalEvents, ErrorCount, SlowCount,   \* statistics
    log                                   \* history: every event pushed

ring     == <<events, head, count>>
priority == <<errorEvents, slowEvents>>
stats    == <<TotalEvents, ErrorCount, SlowCount>>
vars     == <<size, ring, priority, stats, log>>
-----------------------------------------------------------------------------
IsError(e) == e.ret < 0 /\ e.ret # -EINPROGRESS
IsSlow(e)  == e.latency > SlowThreshold /\ e.ret # -EINPROGRESS

Smaller(a, b) == IF a <= b THEN a ELSE b

\* GetOrCreate for a PID without a buffer.
Init ==
    /\ size \in Sizes
    /\ events = [i \in 0..(size - 1) |-> ZeroEvent]
    /\ head = 0 /\ count = 0
    /\ errorEvents = << >> /\ slowEvents = << >>
    /\ TotalEvents = 0 /\ ErrorCount = 0 /\ SlowCount = 0
    /\ log = << >>

\* Mutant of Keep: the cap is off by one.
KeepOneLess(list, cap, wanted, e) ==
    IF wanted /\ Len(list) + 1 < cap THEN Append(list, e) ELSE list

\* Appends e to a capped priority list when it belongs there.
Keep(list, cap, wanted, e) ==
    IF wanted /\ Len(list) < cap THEN Append(list, e) ELSE list

\* Mutant of Count: the condition is dropped.
CountAlways(n, wanted) == n + 1

Count(n, wanted) == IF wanted THEN n + 1 ELSE n

Push(e) ==
    /\ TotalEvents < MaxPushes
    /\ errorEvents' = Keep(errorEvents, MaxErrors, IsError(e), e)
    /\ slowEvents'  = Keep(slowEvents, MaxSlow, IsSlow(e), e)
    /\ events' = [events EXCEPT ![head] = e]
    /\ head' = (head + 1) % size
    /\ count' = Count(count, count < size)
    /\ TotalEvents' = TotalEvents + 1
    /\ ErrorCount' = Count(ErrorCount, IsError(e))
    /\ SlowCount'  = Count(SlowCount, IsSlow(e))
    /\ log' = Append(log, e)
    /\ UNCHANGED size

Next == \E e \in Event : Push(e)

Spec == Init /\ [][Next]_vars
-----------------------------------------------------------------------------
(* Drain, a pure reading of the buffer.                                    *)

\* Mutant of Recent: the start of a full ring is off by one.
RecentFromBefore(n) ==
    [i \in 1..n |-> IF count < size
                     THEN events[count - n + (i - 1)]
                     ELSE events[(head - n + size - 1 + i - 1) % size]]

\* The newest n events of the ring, n <= count, by the two index
\* computations of the code: a prefix that has not wrapped, and a full ring.
Recent(n) ==
    IF count < size
      THEN [i \in 1..n |-> events[count - n + (i - 1)]]
      ELSE LET startIdx == (head - n + size) % size
           IN  [i \in 1..n |-> events[(startIdx + (i - 1)) % size]]

\* Mutant of InsertByTime: the scan stops before the first event (j > 0).
InsertBehindFirst(sorted, e) ==
    LET notLater == {i \in DOMAIN sorted : i = 1 \/ sorted[i].ts <= e.ts}
        j == CHOOSE m \in notLater \cup {0} : \A i \in notLater : i <= m
    IN  SX!InsertAt(sorted, j + 1, e)

\* One round of the insertion sort: the scan from the right stops at the
\* last event that is not later, and e is put behind it.
InsertByTime(sorted, e) ==
    LET notLater == {i \in DOMAIN sorted : sorted[i].ts <= e.ts}
        j == CHOOSE m \in notLater \cup {0} : \A i \in notLater : i <= m
    IN  SX!InsertAt(sorted, j + 1, e)

\* The rounds of the loop: after n of them the first n events are in order.
SortByTimestamp(s) ==
    LET sorted[n \in 0..Len(s)] ==
          IF n = 0 THEN << >> ELSE InsertByTime(sorted[n - 1], s[n])
    IN  sorted[Len(s)]

HasPriority == errorEvents # << >> \/ slowEvents # << >>

Gathered == errorEvents \o slowEvents \o Recent(Smaller(PriorityContext, count))

Drain == IF HasPriority
           THEN SortByTimestamp(Gathered)
           ELSE Recent(Smaller(QuietContext, count))
-----------------------------------------------------------------------------
(* Properties.                                                             *)

TypeOK ==
    /\ size \in Sizes
    /\ events \in [0..(size - 1) -> Event \cup {ZeroEvent}]
    /\ head \in 0..(size - 1)
    /\ count \in 0..size
    /\ errorEvents \in Seq(Event) /\ slowEvents \in Seq(Event)
    /\ {TotalEvents, ErrorCount, SlowCount} \subseteq 0..MaxPushes
    /\ log \in Seq(Event)

\* The ring never loses, repeats or reorders an event of the window: whatever
\* number of them Drain asks for, before or after the ring has wrapped, it
\* gets exactly the newest events pushed, oldest first.
RecentIsNewest ==
    \A n \in 0..count :
        Recent(n) = [i \in 1..n |-> log[Len(log) - n + i]]

\* A priority list never drops an event for want of anything but room: as
\* long as no more than the cap were seen, every failed call and every slow
\* one is in its list, however many calls followed it.
PriorityKept ==
    /\ ErrorCount <= MaxErrors =>
          \A i \in DOMAIN log : IsError(log[i]) =>
              \E k \in DOMAIN errorEvents : errorEvents[k] = log[i]
    /\ SlowCount <= MaxSlow =>
          \A i \in DOMAIN log : IsSlow(log[i]) =>
              \E k \in DOMAIN slowEvents : slowEvents[k] = log[i]

\* With priority events the merged list is in time order and is the gathered
\* list rearranged: sorting neither loses nor invents an event.
DrainIsSortedMerge ==
    HasPriority =>
        /\ \A i, j \in DOMAIN Drain : i < j => Drain[i].ts <= Drain[j].ts
        /\ \A e \in Event : Cardinality({i \in DOMAIN Drain : Drain[i] = e})
                          = Cardinality({i \in DOMAIN Gathered : Gathered[i] = e})

\* The ring with its wrapping index implements a sliding window.
Window == INSTANCE SlidingWindow
            WITH Item <- Event, window <- Recent(count), capacity <- size
WindowSpec == Window!Spec
=============================================================================
