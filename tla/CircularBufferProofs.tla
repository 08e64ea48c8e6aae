------------------------ MODULE CircularBufferProofs ------------------------
(***************************************************************************)
(* For every ring size, every cap and every stream of events: the types,   *)
(* the window, the priority lists.  The inductive invariant places the     *)
(* k-th newest event in the slot k behind the head, which says nothing of  *)
(* the modulus; RecentSlots turns that into the code's index computations.  *)
(***************************************************************************)
EXTENDS CircularBuffer, SequenceTheorems, FiniteSetTheorems, FunctionTheorems,
        WellFoundedInduction, TLAPS

\* The slot of the k-th newest event.
SlotOf(k) == IF k <= head THEN head - k ELSE head - k + size

RingInv ==
    /\ count <= Len(log)
    /\ count < size => head = count
    /\ \A k \in 1..count : events[SlotOf(k)] = log[Len(log) + 1 - k]

CountInv ==
    /\ TotalEvents = Len(log)
    /\ ErrorCount <= TotalEvents
    /\ SlowCount <= TotalEvents

IInv == TypeOK /\ CountInv /\ RingInv

\* All the wrapping the ring ever does: every remainder the code takes is of
\* a number below twice the divisor.
LEMMA NextSlot ==
    ASSUME NEW n \in Nat \ {0}, NEW h \in 0..(n - 1)
    PROVE  (h + 1) % n = IF h + 1 < n THEN h + 1 ELSE 0
BY SMT

LEMMA StartSlot ==
    ASSUME NEW n \in Nat \ {0}, NEW h \in 0..(n - 1), NEW m \in 0..n
    PROVE  (h - m + n) % n = IF h < m THEN h - m + n ELSE h - m
BY SMT

LEMMA WalkSlot ==
    ASSUME NEW n \in Nat \ {0}, NEW s \in 0..(n - 1), NEW j \in 1..n
    PROVE  (s + (j - 1)) % n = IF s + (j - 1) < n THEN s + (j - 1) ELSE s + (j - 1) - n
BY SMT

LEMMA TypeInit == Init => IInv
BY BufferAssumption DEF Init, IInv, TypeOK, CountInv, RingInv, ZeroEvent

LEMMA TypeStep == ASSUME IInv, NEW e \in Event, Push(e)
                  PROVE  TypeOK' /\ CountInv'
<1>1. size \in Nat \ {0} /\ MaxPushes \in Nat
  BY BufferAssumption DEF IInv, TypeOK
<1>2. head' \in 0..(size - 1)
  BY <1>1, SMT DEF IInv, TypeOK, Push
<1>3. events' \in [0..(size' - 1) -> Event \cup {ZeroEvent}]
  BY DEF IInv, TypeOK, Push
<1>4. errorEvents' \in Seq(Event) /\ slowEvents' \in Seq(Event) /\ log' \in Seq(Event)
  BY DEF IInv, TypeOK, Push, Keep
<1>5. count' \in 0..size'
  BY <1>1 DEF IInv, TypeOK, Push, Count
<1>6. CountInv' /\ {TotalEvents, ErrorCount, SlowCount}' \subseteq 0..MaxPushes
  BY <1>1 DEF IInv, TypeOK, CountInv, Push, Count
<1> QED BY <1>2, <1>3, <1>4, <1>5, <1>6 DEF TypeOK, IInv, Push

LEMMA RingStep == ASSUME IInv, NEW e \in Event, Push(e)
                  PROVE  RingInv'
<1>1. size \in Nat \ {0} /\ size' = size
  BY BufferAssumption DEF IInv, TypeOK, Push
<1>2. /\ head \in 0..(size - 1) /\ count \in 0..size
      /\ log \in Seq(Event) /\ Len(log) \in Nat
      /\ events \in [0..(size - 1) -> Event \cup {ZeroEvent}]
  BY DEF IInv, TypeOK
<1>3. head' = IF head + 1 < size THEN head + 1 ELSE 0
  BY <1>1, <1>2, NextSlot DEF Push
<1>4. count' = IF count < size THEN count + 1 ELSE count
  BY DEF Push, Count
<1>5. Len(log') = Len(log) + 1 /\ log'[Len(log) + 1] = e
  BY <1>2, AppendProperties DEF Push
<1>6. ASSUME NEW i \in 1..Len(log) PROVE log'[i] = log[i]
  BY <1>2, AppendProperties DEF Push
<1>7. count' <= Len(log')
  BY <1>2, <1>4, <1>5 DEF IInv, RingInv
<1>8. count' < size' => head' = count'
  BY <1>1, <1>2, <1>3, <1>4 DEF IInv, RingInv
<1>9. ASSUME NEW k \in 1..count' PROVE events'[SlotOf(k)'] = log'[Len(log') + 1 - k]
  <2>1. CASE k = 1
    <3>1. SlotOf(1)' = head
      BY <1>1, <1>2, <1>3 DEF SlotOf
    <3>2. events'[head] = e
      BY <1>2 DEF Push
    <3> QED BY <2>1, <3>1, <3>2, <1>2, <1>5
  <2>2. CASE k # 1
    <3>1. k - 1 \in 1..count /\ k - 1 < size
      BY <2>2, <1>1, <1>2, <1>4
    <3>2. SlotOf(k)' = SlotOf(k - 1) /\ SlotOf(k - 1) \in 0..(size - 1)
      BY <3>1, <1>1, <1>2, <1>3 DEF SlotOf
    <3>3. SlotOf(k - 1) # head
      BY <3>1, <1>1, <1>2 DEF SlotOf
    <3>4. events'[SlotOf(k - 1)] = events[SlotOf(k - 1)]
      BY <3>2, <3>3, <1>2 DEF Push
    <3>5. events[SlotOf(k - 1)] = log[Len(log) + 1 - (k - 1)]
      BY <3>1 DEF IInv, RingInv
    <3>6. Len(log) + 1 - (k - 1) \in 1..Len(log)
      BY <3>1, <1>2 DEF IInv, RingInv
    <3>7. Len(log') + 1 - k = Len(log) + 1 - (k - 1)
      BY <1>2, <1>5, <3>1
    <3> QED BY <3>2, <3>4, <3>5, <3>6, <3>7, <1>6
  <2> QED BY <2>1, <2>2
<1> QED BY <1>7, <1>8, <1>9 DEF RingInv

\* The types, the bounds of the statistics and the placement of every
\* retained event hold in every state of every buffer.
THEOREM Invariance == Spec => []IInv
<1>1. Init => IInv
  BY TypeInit
<1>2. IInv /\ [Next]_vars => IInv'
  <2>1. ASSUME IInv, NEW e \in Event, Push(e) PROVE IInv'
    BY <2>1, TypeStep, RingStep DEF IInv
  <2>2. CASE UNCHANGED vars
    BY <2>2 DEF IInv, TypeOK, CountInv, RingInv, SlotOf, vars, ring, priority, stats
  <2> QED BY <2>1, <2>2 DEF Next
<1> QED BY <1>1, <1>2, PTL DEF Spec

\* TypeOK, for every instance.
THEOREM TypeCorrect == Spec => []TypeOK
<1>1. IInv => TypeOK
  BY DEF IInv
<1> QED BY <1>1, Invariance, PTL

\* The slot the code computes for the i-th of the newest n events is the one
\* the invariant names.
LEMMA RecentSlots ==
    ASSUME IInv, NEW n \in 0..count, NEW i \in 1..n
    PROVE  Recent(n)[i] = events[SlotOf(n + 1 - i)]
<1>1. size \in Nat \ {0} /\ head \in 0..(size - 1) /\ count \in 0..size
  BY BufferAssumption DEF IInv, TypeOK
<1>2. CASE count < size
  <2>1. head = count /\ SlotOf(n + 1 - i) = count - n + (i - 1)
    BY <1>1, <1>2 DEF IInv, RingInv, SlotOf
  <2> QED BY <2>1, <1>2 DEF Recent
<1>3. CASE ~(count < size)
  <2> DEFINE startIdx == (head - n + size) % size
  <2>1. count = size /\ i \in 1..size /\ n \in 0..size
    BY <1>1, <1>3
  <2>2. startIdx = IF head < n THEN head - n + size ELSE head - n
    BY <2>1, <1>1, StartSlot
  <2>3. startIdx \in 0..(size - 1)
    BY <2>1, <2>2, <1>1
  <2>4. (startIdx + (i - 1)) % size = SlotOf(n + 1 - i)
    <3> HIDE DEF startIdx
    <3>1. (startIdx + (i - 1)) % size =
             IF startIdx + (i - 1) < size THEN startIdx + (i - 1)
                                         ELSE startIdx + (i - 1) - size
      BY <2>1, <2>3, <1>1, WalkSlot
    <3> QED BY <3>1, <2>1, <2>2, <1>1 DEF SlotOf
  <2>5. Recent(n) = [m \in 1..n |-> events[(startIdx + (m - 1)) % size]]
    BY <1>3 DEF Recent
  <2> HIDE DEF startIdx
  <2> QED BY <2>4, <2>5
<1> QED BY <1>2, <1>3

LEMMA RecentDomain == \A n : Recent(n) = [i \in 1..n |-> Recent(n)[i]]
BY DEF Recent

LEMMA NewestByInv == IInv => RecentIsNewest
<1> SUFFICES ASSUME IInv, NEW n \in 0..count
             PROVE  Recent(n) = [i \in 1..n |-> log[Len(log) - n + i]]
  BY DEF RecentIsNewest
<1>1. count \in Nat /\ Len(log) \in Nat
  BY BufferAssumption DEF IInv, TypeOK
<1>2. ASSUME NEW i \in 1..n PROVE Recent(n)[i] = log[Len(log) - n + i]
  <2>1. n + 1 - i \in 1..count /\ Len(log) + 1 - (n + 1 - i) = Len(log) - n + i
    BY <1>1
  <2>2. events[SlotOf(n + 1 - i)] = log[Len(log) + 1 - (n + 1 - i)]
    BY <2>1 DEF IInv, RingInv
  <2> QED BY <2>1, <2>2, RecentSlots
<1> QED BY <1>2, RecentDomain

\* Whatever Drain asks of the ring, wrapped or not, it gets exactly the
\* newest events in the order they were pushed.
THEOREM NewestRetained == Spec => []RecentIsNewest
BY NewestByInv, Invariance, PTL

\* The ring implements the sliding window: a push below capacity appends, a
\* push at capacity forgets the oldest event, and nothing else happens.
THEOREM Implements == Spec => WindowSpec
<1>0. IInv' => RecentIsNewest'
  BY NewestByInv, PTL
<1>1. Init => Window!Init
  <2>1. ASSUME Init PROVE Recent(count) = << >>
    BY <2>1, BufferAssumption DEF Init, Recent
  <2> QED BY <2>1, BufferAssumption DEF Init, Window!Init
<1>2. IInv /\ IInv' /\ [Next]_vars => [Window!Next]_(Window!vars)
  <2>1. ASSUME IInv, IInv', NEW e \in Event, Push(e) PROVE Window!Push(e)
    <3> DEFINE W == Recent(count)
               N == Recent(count)'
    <3>1. /\ size \in Nat \ {0} /\ size' = size
          /\ count \in 0..size /\ Len(log) \in Nat /\ count <= Len(log)
          /\ count' = IF count < size THEN count + 1 ELSE count
      BY <2>1, BufferAssumption DEF IInv, TypeOK, RingInv, Push, Count
    <3>2. W = [i \in 1..count |-> log[Len(log) - count + i]]
      <4>1. count \in 0..count
        BY <3>1
      <4> QED BY <2>1, <4>1, NewestByInv DEF RecentIsNewest
    <3>3. N = [i \in 1..count' |-> log'[Len(log') - count' + i]]
      <4>1. RecentIsNewest'
        BY <2>1, <1>0
      <4>2. count' \in 0..count'
        BY <3>1
      <4> QED BY <4>1, <4>2 DEF RecentIsNewest
    <3>4. /\ Len(log') = Len(log) + 1 /\ log'[Len(log) + 1] = e
          /\ \A i \in 1..Len(log) : log'[i] = log[i]
      BY <2>1, AppendProperties DEF IInv, TypeOK, Push
    <3>5. log \in Seq(Event)
      BY <2>1 DEF IInv, TypeOK
    <3> HIDE DEF W, N
    <3>6. W \in Seq(Event) /\ Len(W) = count
      BY <3>1, <3>2, <3>5
    <3>7. /\ N \in Seq(Event) /\ Len(N) = count'
          /\ \A i \in 1..count' : N[i] = log'[Len(log') - count' + i]
      <4>1. log' \in Seq(Event) /\ count' \in Nat /\ count' <= Len(log')
        BY <2>1, <3>1, <3>4 DEF IInv, TypeOK
      <4> QED BY <3>3, <4>1
    <3>8. CASE count < size
      <4>1. /\ Append(W, e) \in Seq(Event) /\ Len(Append(W, e)) = count + 1
            /\ \A i \in 1..count : Append(W, e)[i] = W[i]
            /\ Append(W, e)[count + 1] = e
        BY <3>6, AppendProperties
      <4>2. ASSUME NEW i \in 1..count
            PROVE  N[i] = W[i]
        <5>1. /\ i \in 1..count' /\ Len(log') - count' + i = Len(log) - count + i
              /\ Len(log) - count + i \in 1..Len(log)
          BY <3>1, <3>4, <3>8
        <5> QED BY <5>1, <3>2, <3>4, <3>7
      <4>3. N[count + 1] = e
        <5>1. count + 1 \in 1..count' /\ Len(log') - count' + (count + 1) = Len(log) + 1
          BY <3>1, <3>4, <3>8
        <5> QED BY <5>1, <3>4, <3>7
      <4>4. N = Append(W, e)
        <5>1. \A i \in 1..Len(N) : N[i] = Append(W, e)[i]
          BY <3>1, <3>7, <3>8, <4>1, <4>2, <4>3
        <5>2. Len(N) = Len(Append(W, e))
          BY <3>1, <3>7, <3>8, <4>1
        <5> QED BY <5>1, <5>2, <3>7, <4>1, SeqEqual
      <4> QED BY <4>4, <3>1, <3>6, <3>8 DEF Window!Push, W, N
    <3>9. CASE ~(count < size)
      <4>1. count = size /\ count' = count /\ count \in Nat \ {0}
        BY <3>1, <3>9
      <4> DEFINE T == Tail(W)
      <4>2. /\ T \in Seq(Event) /\ Len(T) = count - 1
            /\ \A i \in 1..(count - 1) : T[i] = W[i + 1]
        BY <3>6, <4>1, HeadTailProperties
      <4> HIDE DEF T
      <4>3. /\ Append(T, e) \in Seq(Event) /\ Len(Append(T, e)) = count
            /\ \A i \in 1..(count - 1) : Append(T, e)[i] = T[i]
            /\ Append(T, e)[count] = e
        BY <4>1, <4>2, AppendProperties
      <4>4. ASSUME NEW i \in 1..(count - 1)
            PROVE  N[i] = W[i + 1]
        <5>1. /\ i \in 1..count' /\ i + 1 \in 1..count
              /\ Len(log') - count' + i = Len(log) - count + (i + 1)
              /\ Len(log) - count + (i + 1) \in 1..Len(log)
          BY <3>1, <3>4, <4>1
        <5> QED BY <5>1, <3>2, <3>4, <3>7
      <4>5. N[count] = e
        <5>1. count \in 1..count' /\ Len(log') - count' + count = Len(log) + 1
          BY <3>1, <3>4, <4>1
        <5> QED BY <5>1, <3>4, <3>7
      <4>6. N = Append(T, e)
        <5>1. \A i \in 1..Len(N) : N[i] = Append(T, e)[i]
          BY <3>7, <4>1, <4>2, <4>3, <4>4, <4>5
        <5>2. Len(N) = Len(Append(T, e))
          BY <3>7, <4>1, <4>3
        <5> QED BY <5>1, <5>2, <3>7, <4>3, SeqEqual
      <4> QED BY <4>6, <3>1, <3>6, <3>9 DEF Window!Push, W, N, T
    <3> QED BY <3>8, <3>9
  <2>2. CASE UNCHANGED vars
    BY <2>2 DEF vars, ring, Window!vars, Recent
  <2> QED BY <2>1, <2>2 DEF Next, Window!Next
<1> QED BY <1>1, <1>2, Invariance, PTL DEF Spec, WindowSpec, Window!Spec

-----------------------------------------------------------------------------
(* The priority lists.  The length of a list is the smaller of its counter *)
(* and its cap, so a list whose counter is within the cap has had room for *)
(* every event counted.                                                    *)

LengthInv ==
    /\ Len(errorEvents) = Smaller(ErrorCount, MaxErrors)
    /\ Len(slowEvents) = Smaller(SlowCount, MaxSlow)

\* What Keep does to a list of the right length: it stays of the right
\* length, nothing in it moves, and a wanted event gets in if counted
\* within the cap.
LEMMA KeepEffect ==
    ASSUME NEW list \in Seq(Event), NEW cap \in Nat, NEW n \in Nat,
           NEW wanted \in BOOLEAN, NEW e \in Event,
           Len(list) = Smaller(n, cap)
    PROVE  /\ Len(Keep(list, cap, wanted, e)) = Smaller(Count(n, wanted), cap)
           /\ \A k \in DOMAIN list : /\ k \in DOMAIN Keep(list, cap, wanted, e)
                                     /\ Keep(list, cap, wanted, e)[k] = list[k]
           /\ wanted /\ Count(n, wanted) <= cap =>
                 \E k \in DOMAIN Keep(list, cap, wanted, e) :
                     Keep(list, cap, wanted, e)[k] = e
<1> DEFINE new == Append(list, e)
<1>1. /\ new \in Seq(Event) /\ Len(new) = Len(list) + 1
      /\ new[Len(list) + 1] = e
      /\ \A k \in 1..Len(list) : new[k] = list[k]
      /\ DOMAIN new = 1..Len(new) /\ DOMAIN list = 1..Len(list)
      /\ Len(list) \in Nat
  BY AppendProperties, LenProperties
<1> HIDE DEF new
<1>2. CASE wanted /\ Len(list) < cap
  <2>1. Keep(list, cap, wanted, e) = new
    BY <1>2 DEF Keep, new
  <2>2. Len(list) = n /\ Count(n, wanted) = n + 1
    BY <1>2 DEF Smaller, Count
  <2>3. Len(new) = Smaller(Count(n, wanted), cap)
    <3>1. Len(new) = n + 1 /\ n < cap
      BY <1>1, <1>2, <2>2
    <3> HIDE DEF new
    <3> QED BY <3>1, <2>2 DEF Smaller
  <2>4. Len(list) + 1 \in DOMAIN new
    BY <1>1
  <2> QED BY <1>1, <2>1, <2>3, <2>4
<1>3. CASE ~(wanted /\ Len(list) < cap)
  <2>1. Keep(list, cap, wanted, e) = list
    BY <1>3 DEF Keep
  <2>2. Len(list) = Smaller(Count(n, wanted), cap)
    BY <1>3 DEF Smaller, Count
  <2>3. ~(wanted /\ Count(n, wanted) <= cap)
    BY <1>3 DEF Smaller, Count
  <2> QED BY <2>1, <2>2, <2>3
<1> QED BY <1>2, <1>3

\* One priority list, from one push to the next; W is the set of events
\* that belong in it.
LEMMA ListStep ==
    ASSUME IInv, NEW e \in Event, log' = Append(log, e),
           NEW list \in Seq(Event), NEW cap \in Nat, NEW n \in Nat, NEW W,
           NEW wanted \in BOOLEAN, wanted <=> e \in W,
           Len(list) = Smaller(n, cap),
           n <= cap => \A i \in DOMAIN log : log[i] \in W =>
                          \E k \in DOMAIN list : list[k] = log[i]
    PROVE  Count(n, wanted) <= cap =>
              \A i \in DOMAIN log' : log'[i] \in W =>
                 \E k \in DOMAIN Keep(list, cap, wanted, e) :
                    Keep(list, cap, wanted, e)[k] = log'[i]
<1> DEFINE new == Keep(list, cap, wanted, e)
<1>1. /\ \A k \in DOMAIN list : k \in DOMAIN new /\ new[k] = list[k]
      /\ wanted /\ Count(n, wanted) <= cap =>
            \E k \in DOMAIN new : new[k] = e
  BY KeepEffect
<1> HIDE DEF new
<1>2. /\ log \in Seq(Event) /\ Len(log) \in Nat
      /\ DOMAIN log = 1..Len(log) /\ DOMAIN log' = 1..(Len(log) + 1)
      /\ log'[Len(log) + 1] = e
      /\ \A i \in 1..Len(log) : log'[i] = log[i]
  BY AppendProperties, LenProperties DEF IInv, TypeOK
<1> SUFFICES ASSUME Count(n, wanted) <= cap, NEW i \in DOMAIN log', log'[i] \in W
             PROVE  \E k \in DOMAIN new : new[k] = log'[i]
  BY DEF new
<1>3. CASE i = Len(log) + 1
  BY <1>1, <1>2, <1>3
<1>4. CASE i # Len(log) + 1
  <2>1. i \in DOMAIN log /\ log'[i] = log[i]
    BY <1>2, <1>4
  <2>2. n <= cap
    BY DEF Count
  <2>3. PICK k \in DOMAIN list : list[k] = log[i]
    BY <2>1, <2>2
  <2> QED BY <1>1, <2>1, <2>3
<1> QED BY <1>3, <1>4

\* An event that belongs in a priority list is lost only to a full list.
THEOREM PrioritySafe == Spec => []PriorityKept
<1> DEFINE J == LengthInv /\ PriorityKept
<1>1. Init => J
  BY BufferAssumption DEF Init, LengthInv, PriorityKept, Smaller
<1>2. IInv /\ J /\ [Next]_vars => J'
  <2>1. ASSUME IInv, J, NEW e \in Event, Push(e) PROVE J'
    <3>1. /\ errorEvents \in Seq(Event) /\ slowEvents \in Seq(Event)
          /\ ErrorCount \in Nat /\ SlowCount \in Nat
          /\ MaxErrors \in Nat /\ MaxSlow \in Nat
      BY <2>1, BufferAssumption DEF IInv, TypeOK
    <3>2. IsError(e) \in BOOLEAN /\ IsSlow(e) \in BOOLEAN
      BY DEF IsError, IsSlow
    <3>3. /\ errorEvents' = Keep(errorEvents, MaxErrors, IsError(e), e)
          /\ slowEvents' = Keep(slowEvents, MaxSlow, IsSlow(e), e)
          /\ ErrorCount' = Count(ErrorCount, IsError(e))
          /\ SlowCount' = Count(SlowCount, IsSlow(e))
          /\ log' = Append(log, e)
      BY <2>1 DEF Push
    <3>4. LengthInv'
      BY <2>1, <3>1, <3>2, <3>3, KeepEffect DEF LengthInv
    <3> DEFINE Errors == {x \in Event : IsError(x)}
               Slows  == {x \in Event : IsSlow(x)}
    <3>5. /\ \A i \in DOMAIN log : log[i] \in Event
          /\ \A i \in DOMAIN log' : log'[i] \in Event
      BY <2>1, TypeStep DEF IInv, TypeOK
    <3>6. IsError(e) <=> e \in Errors
      OBVIOUS
    <3>7. IsSlow(e) <=> e \in Slows
      OBVIOUS
    <3>8. ErrorCount' <= MaxErrors =>
             \A i \in DOMAIN log' : log'[i] \in Errors =>
                \E k \in DOMAIN errorEvents' : errorEvents'[k] = log'[i]
      <4>1. ErrorCount <= MaxErrors =>
               \A i \in DOMAIN log : log[i] \in Errors =>
                  \E k \in DOMAIN errorEvents : errorEvents[k] = log[i]
        BY <2>1 DEF PriorityKept
      <4>2. Len(errorEvents) = Smaller(ErrorCount, MaxErrors)
        BY <2>1 DEF LengthInv
      <4>3. log' = Append(log, e)
        BY <3>3
      <4>4. errorEvents \in Seq(Event) /\ MaxErrors \in Nat /\ ErrorCount \in Nat
        BY <3>1
      <4>5. IsError(e) \in BOOLEAN
        BY <3>2
      <4>6. IInv
        BY <2>1
      <4> HIDE DEF Errors, Slows, J
      <4>7. Count(ErrorCount, IsError(e)) <= MaxErrors =>
               \A i \in DOMAIN log' : log'[i] \in Errors =>
                  \E k \in DOMAIN Keep(errorEvents, MaxErrors, IsError(e), e) :
                     Keep(errorEvents, MaxErrors, IsError(e), e)[k] = log'[i]
        BY <3>6, <4>1, <4>2, <4>3, <4>4, <4>5, <4>6, ListStep
      <4> QED BY <3>3, <4>7
    <3>9. SlowCount' <= MaxSlow =>
             \A i \in DOMAIN log' : log'[i] \in Slows =>
                \E k \in DOMAIN slowEvents' : slowEvents'[k] = log'[i]
      <4>1. SlowCount <= MaxSlow =>
               \A i \in DOMAIN log : log[i] \in Slows =>
                  \E k \in DOMAIN slowEvents : slowEvents[k] = log[i]
        BY <2>1 DEF PriorityKept
      <4>2. Len(slowEvents) = Smaller(SlowCount, MaxSlow)
        BY <2>1 DEF LengthInv
      <4>3. log' = Append(log, e)
        BY <3>3
      <4>4. slowEvents \in Seq(Event) /\ MaxSlow \in Nat /\ SlowCount \in Nat
        BY <3>1
      <4>5. IsSlow(e) \in BOOLEAN
        BY <3>2
      <4>6. IInv
        BY <2>1
      <4> HIDE DEF Errors, Slows, J
      <4>7. Count(SlowCount, IsSlow(e)) <= MaxSlow =>
               \A i \in DOMAIN log' : log'[i] \in Slows =>
                  \E k \in DOMAIN Keep(slowEvents, MaxSlow, IsSlow(e), e) :
                     Keep(slowEvents, MaxSlow, IsSlow(e), e)[k] = log'[i]
        BY <3>7, <4>1, <4>2, <4>3, <4>4, <4>5, <4>6, ListStep
      <4> QED BY <3>3, <4>7
    <3> QED BY <3>4, <3>5, <3>8, <3>9 DEF PriorityKept, IsError, IsSlow
  <2>2. CASE UNCHANGED vars
    BY <2>2 DEF LengthInv, PriorityKept, vars, priority, stats
  <2> QED BY <2>1, <2>2 DEF Next
<1> QED BY <1>1, <1>2, Invariance, PTL DEF Spec
-----------------------------------------------------------------------------
(* Sorting.  Induction over the rounds of the loop is by the least round   *)
(* that goes wrong.                                                        *)

LEMMA Least ==
    ASSUME NEW T \in SUBSET Nat, T # {}
    PROVE  \E x \in T : \A y \in T : x <= y
<1>1. \E x \in T : \A y \in T : ~(<<y, x>> \in OpToRel(<, Nat))
  BY NatLessThanWellFounded, WFMin
<1>2. OpToRel(<, Nat) = {ss \in Nat \X Nat : ss[1] < ss[2]}
  BY Zenon DEF OpToRel
<1>3. \A x, y \in Nat : <<y, x>> \in {ss \in Nat \X Nat : ss[1] < ss[2]} <=> y < x
  BY SMT
<1>4. PICK x \in T : \A y \in T : ~(<<y, x>> \in OpToRel(<, Nat))
  BY <1>1
<1>5. ASSUME NEW y \in T PROVE x <= y
  <2>1. x \in Nat /\ y \in Nat
    OBVIOUS
  <2>2. ~(<<y, x>> \in {ss \in Nat \X Nat : ss[1] < ss[2]})
    BY <1>2, <1>4, Zenon
  <2>3. ~(y < x)
    BY <1>3, <2>1, <2>2, Zenon
  <2> QED BY <2>1, <2>3
<1> QED BY <1>5

LEMMA Greatest ==
    ASSUME NEW n \in Nat, NEW S \in SUBSET (0..n), S # {}
    PROVE  \E m \in S : \A i \in S : i <= m
<1> DEFINE T == {d \in 0..n : n - d \in S}
<1>1. PICK i \in S : TRUE
  OBVIOUS
<1>2. n - i \in T
  BY <1>1
<1>3. PICK d \in T : \A c \in T : d <= c
  <2>1. T # {}
    BY <1>2
  <2>2. \A d \in T : d \in Nat
    OBVIOUS
  <2> HIDE DEF T
  <2>3. T \in SUBSET Nat
    BY <2>2
  <2> QED BY <2>1, <2>3, Least
<1>4. ASSUME NEW k \in S PROVE k <= n - d
  <2>1. n - k \in T
    OBVIOUS
  <2> QED BY <1>3, <2>1
<1> QED BY <1>3, <1>4

Occurrences(s, x) == {i \in DOMAIN s : s[i] = x}

InOrder(s) == \A i, j \in DOMAIN s : i < j => s[i].ts <= s[j].ts

\* The list with e between its first j events and the others.
LEMMA InsertedList ==
    ASSUME NEW s \in Seq(Event), NEW e \in Event, NEW j \in 0..Len(s),
           NEW new, new = SX!InsertAt(s, j + 1, e)
    PROVE  /\ new \in Seq(Event) /\ Len(new) = Len(s) + 1
           /\ \A k \in 1..j : new[k] = s[k]
           /\ new[j + 1] = e
           /\ \A k \in (j + 2)..(Len(s) + 1) : new[k] = s[k - 1]
<1> DEFINE left  == SubSeq(s, 1, j)
           right == SubSeq(s, j + 1, Len(s))
<1>1. /\ left \in Seq(Event) /\ Len(left) = j
      /\ \A k \in 1..j : left[k] = s[k]
  BY LenProperties, SubSeqProperties
<1>2. /\ right \in Seq(Event) /\ Len(right) = Len(s) - j
      /\ \A k \in 1..(Len(s) - j) : right[k] = s[j + k]
  <2>1. /\ Len(s) \in Nat /\ j + 1 \in Int
        /\ \A i \in (j + 1)..Len(s) : s[i] \in Event
    BY LenProperties
  <2>2. /\ right \in Seq(Event)
        /\ Len(right) = IF j + 1 <= Len(s) THEN Len(s) - (j + 1) + 1 ELSE 0
        /\ \A k \in 1..(Len(s) - (j + 1) + 1) : right[k] = s[j + 1 + k - 1]
    BY <2>1, SubSeqProperties
  <2> HIDE DEF right
  <2>3. \A k \in 1..(Len(s) - j) : k \in 1..(Len(s) - (j + 1) + 1) /\ j + 1 + k - 1 = j + k
    BY <2>1
  <2> QED BY <2>1, <2>2, <2>3
<1>3. <<e>> \in Seq(Event) /\ Len(<<e>>) = 1 /\ <<e>>[1] = e
  OBVIOUS
<1>4. SX!InsertAt(s, j + 1, e) = (left \o <<e>>) \o right
  <2>1. (j + 1) - 1 = j
    OBVIOUS
  <2> QED BY <2>1 DEF SX!InsertAt
<1> HIDE DEF left, right
<1> DEFINE front == left \o <<e>>
<1>5. /\ front \in Seq(Event) /\ Len(front) = j + 1
      /\ \A k \in 1..j : front[k] = s[k]
      /\ front[j + 1] = e
  BY <1>1, <1>3, ConcatProperties
<1> HIDE DEF front
<1>6. /\ front \o right \in Seq(Event) /\ Len(front \o right) = Len(s) + 1
      /\ \A k \in 1..(j + 1) : (front \o right)[k] = front[k]
      /\ \A k \in (j + 2)..(Len(s) + 1) : (front \o right)[k] = right[k - (j + 1)]
  <2>1. /\ front \o right \in Seq(Event) /\ Len(front \o right) = Len(front) + Len(right)
        /\ \A k \in 1..(Len(front) + Len(right)) :
              (front \o right)[k] = IF k <= Len(front) THEN front[k] ELSE right[k - Len(front)]
    BY <1>2, <1>5, ConcatProperties
  <2>2. Len(s) \in Nat /\ Len(front) + Len(right) = Len(s) + 1
    BY <1>2, <1>5, LenProperties
  <2> QED BY <1>5, <2>1, <2>2
<1>7. \A k \in (j + 2)..(Len(s) + 1) : right[k - (j + 1)] = s[k - 1]
  BY <1>2, LenProperties
<1>8. /\ SX!InsertAt(s, j + 1, e) = front \o right
      /\ \A k \in 1..j : (front \o right)[k] = s[k]
      /\ (front \o right)[j + 1] = e
  BY <1>4, <1>5, <1>6 DEF front
<1> QED BY <1>6, <1>7, <1>8

\* The place the scan finds in a list that is in order: what is before it is
\* not later than e, what is behind it is.
LEMMA InsertPlace ==
    ASSUME NEW s \in Seq(Event), NEW e \in Event, InOrder(s)
    PROVE  \E j \in 0..Len(s) :
              /\ InsertByTime(s, e) = SX!InsertAt(s, j + 1, e)
              /\ \A k \in 1..j : s[k].ts <= e.ts
              /\ \A k \in (j + 1)..Len(s) : e.ts <= s[k].ts
<1> DEFINE notLater == {i \in DOMAIN s : s[i].ts <= e.ts}
           j == CHOOSE m \in notLater \cup {0} : \A i \in notLater : i <= m
<1>1. /\ Len(s) \in Nat /\ DOMAIN s = 1..Len(s)
      /\ e.ts \in Nat /\ \A k \in DOMAIN s : s[k].ts \in Nat
  BY LenProperties, BufferAssumption DEF EventFields
<1>2. \E m \in notLater \cup {0} : \A i \in notLater : i <= m
  <2> DEFINE S == notLater \cup {0}
  <2>1. S \in SUBSET (0..Len(s)) /\ S # {}
    BY <1>1
  <2> HIDE DEF S
  <2>2. \E m \in S : \A i \in S : i <= m
    BY <1>1, <2>1, Greatest
  <2> QED BY <2>2 DEF S
<1>3. j \in notLater \cup {0} /\ \A i \in notLater : i <= j
  BY <1>2
<1>4. InsertByTime(s, e) = SX!InsertAt(s, j + 1, e)
  BY DEF InsertByTime
<1>5. j \in 0..Len(s)
  BY <1>1, <1>3
<1>6. ASSUME NEW k \in 1..j PROVE s[k].ts <= e.ts
  <2>1. j \in DOMAIN s /\ s[j].ts <= e.ts /\ k \in DOMAIN s
    BY <1>1, <1>3
  <2>2. s[k].ts <= s[j].ts
    BY <1>1, <1>5, <2>1 DEF InOrder
  <2> QED BY <1>1, <2>1, <2>2
<1>7. ASSUME NEW k \in (j + 1)..Len(s) PROVE e.ts <= s[k].ts
  <2>1. k \in DOMAIN s /\ k \notin notLater
    BY <1>1, <1>3, <1>5
  <2> QED BY <1>1, <2>1
<1> HIDE DEF j
<1> QED BY <1>4, <1>5, <1>6, <1>7

\* One round keeps the list in order and adds one occurrence of e, as
\* appending it would.
LEMMA InsertRound ==
    ASSUME NEW s \in Seq(Event), NEW e \in Event, InOrder(s)
    PROVE  /\ InsertByTime(s, e) \in Seq(Event)
           /\ InOrder(InsertByTime(s, e))
           /\ \A x \in Event : Cardinality(Occurrences(InsertByTime(s, e), x))
                             = Cardinality(Occurrences(s, x)) + (IF x = e THEN 1 ELSE 0)
<1>1. PICK j \in 0..Len(s) :
              /\ InsertByTime(s, e) = SX!InsertAt(s, j + 1, e)
              /\ \A k \in 1..j : s[k].ts <= e.ts
              /\ \A k \in (j + 1)..Len(s) : e.ts <= s[k].ts
  BY InsertPlace
<1>0. PICK new : new = InsertByTime(s, e)
  OBVIOUS
<1>2. /\ new \in Seq(Event) /\ Len(new) = Len(s) + 1
      /\ \A k \in 1..j : new[k] = s[k]
      /\ new[j + 1] = e
      /\ \A k \in (j + 2)..(Len(s) + 1) : new[k] = s[k - 1]
  <2>1. new = SX!InsertAt(s, j + 1, e)
    BY <1>1, <1>0
  <2>2. new \in Seq(Event)
    BY <2>1, InsertedList
  <2>3. Len(new) = Len(s) + 1
    BY <2>1, InsertedList
  <2>4. new[j + 1] = e
    BY <2>1, InsertedList
  <2>5. \A k \in 1..j : new[k] = s[k]
    BY <2>1, InsertedList
  <2>6. \A k \in (j + 2)..(Len(s) + 1) : new[k] = s[k - 1]
    BY <2>1, InsertedList
  <2> QED BY <2>2, <2>3, <2>4, <2>5, <2>6
<1>3. /\ Len(s) \in Nat /\ DOMAIN s = 1..Len(s) /\ DOMAIN new = 1..(Len(s) + 1)
  BY <1>2, LenProperties
<1>4. e.ts \in Nat /\ \A k \in DOMAIN s : s[k].ts \in Nat
  BY BufferAssumption DEF EventFields
<1>5. InOrder(new)
  <2> SUFFICES ASSUME NEW h \in 1..(Len(s) + 1), NEW k \in 1..(Len(s) + 1), h < k
               PROVE  new[h].ts <= new[k].ts
    BY <1>3 DEF InOrder
  <2>1. CASE k <= j
    <3>1. h \in 1..j /\ k \in 1..j /\ h \in DOMAIN s /\ k \in DOMAIN s
      BY <1>3, <2>1
    <3>2. s[h].ts <= s[k].ts
      BY <3>1 DEF InOrder
    <3> QED BY <1>2, <3>1, <3>2
  <2>2. CASE k = j + 1
    BY <1>1, <1>2, <1>3, <2>2
  <2>3. CASE h = j + 1
    <3>1. k - 1 \in (j + 1)..Len(s) /\ k \in (j + 2)..(Len(s) + 1)
      BY <1>3, <2>3
    <3> QED BY <1>1, <1>2, <2>3, <3>1
  <2>4. CASE h <= j /\ k > j + 1
    <3>1. h \in 1..j /\ k - 1 \in (j + 1)..Len(s) /\ k \in (j + 2)..(Len(s) + 1)
      BY <1>3, <2>4
    <3>2. s[h].ts <= s[k - 1].ts
      BY <1>3, <3>1 DEF InOrder
    <3> QED BY <1>2, <3>1, <3>2
  <2>5. CASE h > j + 1
    <3>1. /\ h \in (j + 2)..(Len(s) + 1) /\ k \in (j + 2)..(Len(s) + 1)
          /\ h - 1 \in DOMAIN s /\ k - 1 \in DOMAIN s /\ h - 1 < k - 1
      BY <1>3, <2>5
    <3>2. s[h - 1].ts <= s[k - 1].ts
      BY <3>1 DEF InOrder
    <3> QED BY <1>2, <3>1, <3>2
  <2> QED BY <1>3, <2>1, <2>2, <2>3, <2>4, <2>5
<1>6. ASSUME NEW x \in Event
      PROVE  Cardinality(Occurrences(new, x))
           = Cardinality(Occurrences(s, x)) + (IF x = e THEN 1 ELSE 0)
  <2> DEFINE A == Occurrences(s, x)
             B == Occurrences(new, x) \ {j + 1}
             f == [i \in A |-> IF i <= j THEN i ELSE i + 1]
  <2>1. A \in SUBSET (1..Len(s)) /\ B \in SUBSET (1..(Len(s) + 1))
    BY <1>3 DEF Occurrences
  <2>2. ASSUME NEW i \in A PROVE f[i] \in B
    BY <1>2, <1>3 DEF Occurrences
  <2>3. ASSUME NEW k \in B PROVE \E i \in A : f[i] = k
    <3>1. CASE k <= j
      <4>1. k \in A /\ f[k] = k
        BY <1>2, <1>3, <3>1 DEF Occurrences
      <4> QED BY <4>1
    <3>2. CASE k > j + 1
      <4>1. k \in (j + 2)..(Len(s) + 1) /\ new[k] = x /\ k - 1 \in DOMAIN s
        BY <1>3, <3>2 DEF Occurrences
      <4>2. k - 1 \in A /\ f[k - 1] = k
        BY <1>2, <1>3, <3>2, <4>1 DEF Occurrences
      <4> QED BY <4>2
    <3> QED BY <1>3, <2>1, <3>1, <3>2
  <2>4. ASSUME NEW h \in A, NEW i \in A, f[h] = f[i] PROVE h = i
    BY <1>3, <2>1, <2>4
  <2>5. f \in Bijection(A, B)
    <3>1. f \in [A -> B]
      BY <2>2
    <3> HIDE DEF f, A, B
    <3> QED BY <2>3, <2>4, <3>1 DEF Bijection, Injection, Surjection, IsInjective
  <2> HIDE DEF f, A, B
  <2>6. IsFiniteSet(A) /\ Cardinality(A) \in Nat
    <3>1. IsFiniteSet(1..Len(s))
      BY <1>3, FS_Interval
    <3> QED BY <2>1, <3>1, FS_Subset, FS_CardinalityType
  <2>7. IsFiniteSet(B) /\ Cardinality(B) = Cardinality(A)
    BY <2>5, <2>6, FS_Bijection DEF ExistsBijection
  <2>8. Occurrences(new, x) = (IF x = e THEN B \cup {j + 1} ELSE B) /\ j + 1 \notin B
    BY <1>2, <1>3 DEF Occurrences, B
  <2>9. CASE x = e
    <3>1. Cardinality(B \cup {j + 1}) = Cardinality(B) + 1
      BY <2>7, <2>8, FS_AddElement
    <3> QED BY <2>6, <2>7, <2>8, <2>9, <3>1 DEF A
  <2>10. CASE x # e
    BY <2>6, <2>7, <2>8, <2>10 DEF A
  <2> QED BY <2>9, <2>10
<1> QED BY <1>0, <1>2, <1>5, <1>6
\* The rounds of the loop, from the first: one exists, since a list of rounds
\* can always be continued by one more.
Rounds(s, n, g) ==
    g = [k \in 0..n |-> IF k = 0 THEN << >> ELSE InsertByTime(g[k - 1], s[k])]

LEMMA RoundsExist ==
    ASSUME NEW s, NEW n \in Nat
    PROVE  \E g : Rounds(s, n, g)
<1> DEFINE Bad == {k \in Nat : ~ \E g : Rounds(s, k, g)}
<1> SUFFICES ASSUME Bad # {} PROVE FALSE
  OBVIOUS
<1>1. PICK m \in Bad : \A k \in Bad : m <= k
  <2>1. Bad \in SUBSET Nat
    OBVIOUS
  <2> HIDE DEF Bad
  <2> QED BY <2>1, Least
<1>2. m # 0
  <2>1. Rounds(s, 0, [k \in 0..0 |-> << >>])
    BY DEF Rounds
  <2> QED BY <2>1
<1>3. PICK g : Rounds(s, m - 1, g)
  <2>1. m - 1 \in Nat /\ m - 1 \notin Bad
    BY <1>1, <1>2
  <2> QED BY <2>1
<1> DEFINE h == [k \in 0..m |-> IF k = m THEN InsertByTime(g[m - 1], s[m]) ELSE g[k]]
<1>4. Rounds(s, m, h)
  <2>1. ASSUME NEW k \in 0..m
        PROVE  h[k] = IF k = 0 THEN << >> ELSE InsertByTime(h[k - 1], s[k])
    <3>1. CASE k = m
      BY <1>2, <3>1
    <3>2. CASE k # m
      <4>1. k \in 0..(m - 1) /\ h[k] = g[k] /\ (k # 0 => h[k - 1] = g[k - 1])
        BY <3>2
      <4>2. g[k] = IF k = 0 THEN << >> ELSE InsertByTime(g[k - 1], s[k])
        BY <1>3, <4>1 DEF Rounds
      <4> QED BY <4>1, <4>2
    <3> QED BY <3>1, <3>2
  <2>2. h = [k \in 0..m |-> h[k]]
    OBVIOUS
  <2> HIDE DEF h
  <2> QED BY <2>1, <2>2 DEF Rounds
<1> QED BY <1>4

\* One more event of a list.
LEMMA PrefixCount ==
    ASSUME NEW s \in Seq(Event), NEW m \in 1..Len(s), NEW x \in Event
    PROVE  Cardinality(Occurrences(SubSeq(s, 1, m), x))
         = Cardinality(Occurrences(SubSeq(s, 1, m - 1), x)) + (IF x = s[m] THEN 1 ELSE 0)
<1> DEFINE A == Occurrences(SubSeq(s, 1, m - 1), x)
           B == Occurrences(SubSeq(s, 1, m), x)
<1>1. Len(s) \in Nat /\ m \in Nat /\ m - 1 \in Nat /\ m \in 1..m
  BY LenProperties
<1>2. A = {i \in 1..(m - 1) : s[i] = x} /\ B = {i \in 1..m : s[i] = x}
  BY <1>1 DEF Occurrences
<1> HIDE DEF A, B
<1>3. B = (IF x = s[m] THEN A \cup {m} ELSE A) /\ m \notin A
  BY <1>1, <1>2
<1>4. IsFiniteSet(1..(m - 1)) /\ A \in SUBSET (1..(m - 1))
  <2>1. IsFiniteSet(1..(m - 1))
    BY <1>1, FS_Interval
  <2> QED BY <1>2, <2>1
<1>5. IsFiniteSet(A) /\ Cardinality(A) \in Nat
  BY <1>4, FS_Subset, FS_CardinalityType
<1>6. Cardinality(A \cup {m}) = Cardinality(A) + 1
  BY <1>3, <1>5, FS_AddElement
<1> QED BY <1>3, <1>5, <1>6 DEF A, B

\* The sort: a list in order with the same events as often.
LEMMA SortCorrect ==
    ASSUME NEW s \in Seq(Event)
    PROVE  /\ SortByTimestamp(s) \in Seq(Event)
           /\ InOrder(SortByTimestamp(s))
           /\ \A x \in Event : Cardinality(Occurrences(SortByTimestamp(s), x))
                             = Cardinality(Occurrences(s, x))
<1>1. Len(s) \in Nat /\ DOMAIN s = 1..Len(s)
  BY LenProperties
<1> DEFINE g == CHOOSE f : Rounds(s, Len(s), f)
<1>2. Rounds(s, Len(s), g)
  BY <1>1, RoundsExist
<1>3. SortByTimestamp(s) = g[Len(s)]
  BY DEF SortByTimestamp, Rounds
<1> HIDE DEF g
<1>4. /\ g[0] = << >>
      /\ \A k \in 1..Len(s) : g[k] = InsertByTime(g[k - 1], s[k])
  <2>1. ASSUME NEW k \in 0..Len(s)
        PROVE  g[k] = IF k = 0 THEN << >> ELSE InsertByTime(g[k - 1], s[k])
    BY <1>2 DEF Rounds
  <2> QED BY <1>1, <2>1
<1> DEFINE Good(k) ==
        /\ g[k] \in Seq(Event) /\ InOrder(g[k])
        /\ \A x \in Event : Cardinality(Occurrences(g[k], x))
                          = Cardinality(Occurrences(SubSeq(s, 1, k), x))
           Bad == {k \in 0..Len(s) : ~Good(k)}
<1>5. Bad = {}
  <2> SUFFICES ASSUME Bad # {} PROVE FALSE
    OBVIOUS
  <2>1. PICK m \in Bad : \A k \in Bad : m <= k
    <3>1. Bad \in SUBSET Nat
      OBVIOUS
    <3> HIDE DEF Bad
    <3> QED BY <3>1, Least
  <2>2. m # 0
    <3>1. g[0] \in Seq(Event) /\ InOrder(g[0])
      BY <1>4 DEF InOrder
    <3>2. SubSeq(s, 1, 0) = << >>
      BY <1>1
    <3>3. Good(0)
      BY <1>4, <3>1, <3>2
    <3> QED BY <3>3
  <2>3. m - 1 \in 0..Len(s) /\ m \in 1..Len(s) /\ Good(m - 1)
    BY <1>1, <2>1, <2>2
  <2>4. g[m] = InsertByTime(g[m - 1], s[m]) /\ s[m] \in Event
    BY <1>1, <1>4, <2>3
  <2>5. /\ g[m] \in Seq(Event) /\ InOrder(g[m])
        /\ \A x \in Event : Cardinality(Occurrences(g[m], x))
             = Cardinality(Occurrences(g[m - 1], x)) + (IF x = s[m] THEN 1 ELSE 0)
    <3>1. g[m - 1] \in Seq(Event) /\ InOrder(g[m - 1])
      BY <2>3
    <3> HIDE DEF Good, Bad
    <3> DEFINE t == g[m - 1]
               e == s[m]
    <3>2. t \in Seq(Event) /\ e \in Event /\ InOrder(t) /\ g[m] = InsertByTime(t, e)
      BY <2>4, <3>1
    <3> HIDE DEF t, e
    <3>3. /\ g[m] \in Seq(Event) /\ InOrder(g[m])
          /\ \A x \in Event : Cardinality(Occurrences(g[m], x))
               = Cardinality(Occurrences(t, x)) + (IF x = e THEN 1 ELSE 0)
      BY <3>2, InsertRound
    <3> QED BY <3>3 DEF t, e
  <2>6. ASSUME NEW x \in Event
        PROVE  Cardinality(Occurrences(SubSeq(s, 1, m), x))
             = Cardinality(Occurrences(SubSeq(s, 1, m - 1), x)) + (IF x = s[m] THEN 1 ELSE 0)
    BY <2>3, PrefixCount
  <2>7. Good(m)
    BY <2>3, <2>5, <2>6
  <2> QED BY <2>7
<1>6. Good(Len(s))
  BY <1>1, <1>5
<1>7. SubSeq(s, 1, Len(s)) = s
  BY <1>1
<1> QED BY <1>3, <1>6, <1>7

\* What Drain takes of the ring are events that were pushed.
LEMMA RecentTyped ==
    ASSUME IInv, NEW n \in 0..count
    PROVE  Recent(n) \in Seq(Event)
<1>1. /\ log \in Seq(Event) /\ Len(log) \in Nat /\ count \in Nat /\ count <= Len(log)
      /\ Recent(n) = [i \in 1..n |-> log[Len(log) - n + i]]
  <2>1. /\ log \in Seq(Event) /\ count \in 0..size /\ size \in Nat /\ count <= Len(log)
    BY BufferAssumption DEF IInv, TypeOK, RingInv
  <2>2. RecentIsNewest
    BY NewestByInv
  <2>3. Recent(n) = [i \in 1..n |-> log[Len(log) - n + i]]
    BY <2>2 DEF RecentIsNewest
  <2> QED BY <2>1, <2>3, LenProperties
<1>2. \A i \in 1..n : log[Len(log) - n + i] \in Event
  BY <1>1
<1> QED BY <1>1, <1>2

LEMMA GatheredTyped == IInv => Gathered \in Seq(Event)
<1> SUFFICES ASSUME IInv PROVE Gathered \in Seq(Event)
  OBVIOUS
<1>1. Smaller(PriorityContext, count) \in 0..count
  BY BufferAssumption DEF IInv, TypeOK, Smaller
<1>2. Recent(Smaller(PriorityContext, count)) \in Seq(Event)
  BY <1>1, RecentTyped
<1>3. errorEvents \in Seq(Event) /\ slowEvents \in Seq(Event)
  BY DEF IInv, TypeOK
<1> QED BY <1>2, <1>3, ConcatProperties DEF Gathered

LEMMA DrainByInv == IInv => DrainIsSortedMerge
<1> SUFFICES ASSUME IInv, HasPriority
             PROVE  /\ InOrder(Drain)
                    /\ \A e \in Event : Cardinality(Occurrences(Drain, e))
                                      = Cardinality(Occurrences(Gathered, e))
  BY DEF DrainIsSortedMerge, InOrder, Occurrences
<1>1. Drain = SortByTimestamp(Gathered)
  BY DEF Drain
<1> QED BY <1>1, GatheredTyped, SortCorrect

\* With priority events, what the report gets is in the order of time and is
\* what was gathered, each event as often: sorting neither loses nor invents.
THEOREM DrainCorrect == Spec => []DrainIsSortedMerge
BY DrainByInv, Invariance, PTL
=============================================================================
