------------------------ MODULE ReportContentProofs ------------------------
(***************************************************************************)
(* For every ring size, every cap and every stream of events: what a       *)
(* report made at any moment says of failed calls, of destinations and of  *)
(* times.  It rests on the buffer: a failed call is in the error list, the *)
(* lists and the window hold pushed events only, and the merge keeps every *)
(* event and the order of time; the filter here keeps what is not noise.   *)
(***************************************************************************)
EXTENDS ReportContent, CircularBufferProofs

\* The rounds of the filter's loop.
Kept(s, n, g) ==
    g = [k \in 0..n |-> IF k = 0 THEN << >>
                        ELSE IF IsNoiseEvent(s[k]) THEN g[k - 1]
                        ELSE Append(g[k - 1], s[k])]

LEMMA KeptExists ==
    ASSUME NEW s, NEW n \in Nat
    PROVE  \E g : Kept(s, n, g)
<1> DEFINE Bad == {k \in Nat : ~ \E g : Kept(s, k, g)}
<1> SUFFICES ASSUME Bad # {} PROVE FALSE
  OBVIOUS
<1>1. PICK m \in Bad : \A k \in Bad : m <= k
  <2>1. Bad \in SUBSET Nat
    OBVIOUS
  <2> HIDE DEF Bad
  <2> QED BY <2>1, Least
<1>2. m # 0
  <2>1. Kept(s, 0, [k \in 0..0 |-> << >>])
    BY DEF Kept
  <2> QED BY <2>1
<1>3. PICK g : Kept(s, m - 1, g)
  <2>1. m - 1 \in Nat /\ m - 1 \notin Bad
    BY <1>1, <1>2
  <2> QED BY <2>1
<1> DEFINE last == IF IsNoiseEvent(s[m]) THEN g[m - 1] ELSE Append(g[m - 1], s[m])
           h == [k \in 0..m |-> IF k = m THEN last ELSE g[k]]
<1>4. Kept(s, m, h)
  <2>1. ASSUME NEW k \in 0..m
        PROVE  h[k] = IF k = 0 THEN << >>
                      ELSE IF IsNoiseEvent(s[k]) THEN h[k - 1]
                      ELSE Append(h[k - 1], s[k])
    <3>1. CASE k = m
      BY <1>2, <3>1
    <3>2. CASE k # m
      <4>1. k \in 0..(m - 1) /\ h[k] = g[k] /\ (k # 0 => h[k - 1] = g[k - 1])
        BY <3>2
      <4>2. g[k] = IF k = 0 THEN << >>
                   ELSE IF IsNoiseEvent(s[k]) THEN g[k - 1]
                   ELSE Append(g[k - 1], s[k])
        BY <1>3, <4>1 DEF Kept
      <4> QED BY <4>1, <4>2
    <3> QED BY <3>1, <3>2
  <2>2. h = [k \in 0..m |-> h[k]]
    OBVIOUS
  <2> HIDE DEF h
  <2> QED BY <2>1, <2>2 DEF Kept
<1> QED BY <1>4

\* One more event: the list stays in order, of s, and complete.
KeptRight(s, n, list) ==
    /\ list \in Seq(Event)
    /\ InOrder(list)
    /\ \A k \in DOMAIN list : \E i \in 1..n : list[k] = s[i]
    /\ \A i \in 1..n : IsNoiseEvent(s[i]) \/ \E k \in DOMAIN list : list[k] = s[i]

LEMMA KeptRound ==
    ASSUME NEW s \in Seq(Event), InOrder(s), NEW n \in 1..Len(s),
           NEW list, KeptRight(s, n - 1, list), NEW next,
           next = IF IsNoiseEvent(s[n]) THEN list ELSE Append(list, s[n])
    PROVE  KeptRight(s, n, next)
<1>1. /\ Len(s) \in Nat /\ DOMAIN s = 1..Len(s) /\ s[n] \in Event
      /\ n \in 1..n /\ n \in Nat /\ \A i \in 1..n : i # n => i \in 1..(n - 1)
      /\ \A i \in 1..(n - 1) : i \in 1..n
  BY LenProperties
<1>2. CASE IsNoiseEvent(s[n])
  BY <1>1, <1>2 DEF KeptRight
<1>3. CASE ~IsNoiseEvent(s[n])
  <2>1. list \in Seq(Event) /\ next = Append(list, s[n])
    BY <1>3 DEF KeptRight
  <2>2. /\ next \in Seq(Event) /\ Len(list) \in Nat
        /\ DOMAIN list = 1..Len(list) /\ DOMAIN next = 1..(Len(list) + 1)
        /\ \A k \in 1..Len(list) : next[k] = list[k]
        /\ next[Len(list) + 1] = s[n]
    BY <1>1, <2>1, AppendProperties, LenProperties
  <2>3. ASSUME NEW k \in DOMAIN next PROVE \E i \in 1..n : next[k] = s[i]
    <3>1. CASE k = Len(list) + 1
      BY <1>1, <2>2, <3>1
    <3>2. CASE k # Len(list) + 1
      <4>1. k \in DOMAIN list
        BY <2>2, <3>2
      <4>2. PICK i \in 1..(n - 1) : list[k] = s[i]
        BY <4>1 DEF KeptRight
      <4> QED BY <1>1, <2>2, <4>1, <4>2
    <3> QED BY <3>1, <3>2
  <2>4. ASSUME NEW i \in 1..n
        PROVE  IsNoiseEvent(s[i]) \/ \E k \in DOMAIN next : next[k] = s[i]
    <3>1. CASE i = n
      <4>1. Len(list) + 1 \in DOMAIN next
        BY <2>2
      <4> QED BY <2>2, <3>1, <4>1
    <3>2. CASE i # n
      <4>1. IsNoiseEvent(s[i]) \/ \E k \in DOMAIN list : list[k] = s[i]
        BY <1>1, <3>2 DEF KeptRight
      <4> QED BY <2>2, <4>1
    <3> QED BY <3>1, <3>2
  <2>5. InOrder(next)
    <3> SUFFICES ASSUME NEW j \in DOMAIN next, NEW k \in DOMAIN next, j < k
                 PROVE  next[j].ts <= next[k].ts
      BY DEF InOrder
    <3>1. CASE k = Len(list) + 1
      <4>1. j \in DOMAIN list
        BY <2>2, <3>1
      <4>2. PICK i \in 1..(n - 1) : list[j] = s[i]
        BY <4>1 DEF KeptRight
      <4>3. i \in DOMAIN s /\ n \in DOMAIN s /\ i < n
        BY <1>1
      <4>4. s[i].ts <= s[n].ts
        BY <4>3 DEF InOrder
      <4> QED BY <2>2, <3>1, <4>1, <4>2, <4>4
    <3>2. CASE k # Len(list) + 1
      <4>1. j \in DOMAIN list /\ k \in DOMAIN list
        BY <2>2, <3>2
      <4> QED BY <2>2, <4>1 DEF KeptRight, InOrder
    <3> QED BY <3>1, <3>2
  <2> QED BY <2>2, <2>3, <2>4, <2>5 DEF KeptRight
<1> QED BY <1>2, <1>3

\* The filter keeps the order, invents nothing and takes out noise alone.
LEMMA FilterCorrect ==
    ASSUME NEW s \in Seq(Event), InOrder(s)
    PROVE  KeptRight(s, Len(s), FilterNoise(s))
<1>1. Len(s) \in Nat /\ DOMAIN s = 1..Len(s)
  BY LenProperties
<1> DEFINE g == CHOOSE f : Kept(s, Len(s), f)
<1>2. Kept(s, Len(s), g)
  BY <1>1, KeptExists
<1>3. FilterNoise(s) = g[Len(s)]
  BY DEF FilterNoise, Kept
<1> HIDE DEF g
<1>4. /\ g[0] = << >>
      /\ \A k \in 1..Len(s) : g[k] = IF IsNoiseEvent(s[k]) THEN g[k - 1]
                                     ELSE Append(g[k - 1], s[k])
  <2>1. ASSUME NEW k \in 0..Len(s)
        PROVE  g[k] = IF k = 0 THEN << >>
                      ELSE IF IsNoiseEvent(s[k]) THEN g[k - 1]
                      ELSE Append(g[k - 1], s[k])
    BY <1>2 DEF Kept
  <2> QED BY <1>1, <2>1
<1> DEFINE Bad == {k \in 0..Len(s) : ~KeptRight(s, k, g[k])}
<1>5. Bad = {}
  <2> SUFFICES ASSUME Bad # {} PROVE FALSE
    OBVIOUS
  <2>1. PICK m \in Bad : \A k \in Bad : m <= k
    <3>1. Bad \in SUBSET Nat
      OBVIOUS
    <3> HIDE DEF Bad
    <3> QED BY <3>1, Least
  <2>2. m # 0
    <3>1. g[0] \in Seq(Event) /\ InOrder(g[0])
      BY <1>4 DEF InOrder
    <3>2. KeptRight(s, 0, g[0])
      BY <1>4, <3>1 DEF KeptRight
    <3> QED BY <3>2
  <2>3. m \in 1..Len(s) /\ KeptRight(s, m - 1, g[m - 1])
    BY <1>1, <2>1, <2>2
  <2>4. KeptRight(s, m, g[m])
    BY <1>4, <2>3, KeptRound
  <2> QED BY <2>4
<1> QED BY <1>1, <1>3, <1>5
-----------------------------------------------------------------------------
\* A priority list holds nothing that was not pushed.
Pushed(list) == \A k \in DOMAIN list : \E i \in DOMAIN log : list[k] = log[i]

OriginInv == Pushed(errorEvents) /\ Pushed(slowEvents)

LEMMA KeepOrigin ==
    ASSUME IInv, NEW e \in Event, log' = Append(log, e),
           NEW list \in Seq(Event), Pushed(list), NEW cap, NEW wanted,
           NEW new, new = Keep(list, cap, wanted, e)
    PROVE  \A k \in DOMAIN new : \E i \in DOMAIN log' : new[k] = log'[i]
<1>1. /\ log \in Seq(Event) /\ Len(log) \in Nat
      /\ DOMAIN log = 1..Len(log) /\ DOMAIN log' = 1..(Len(log) + 1)
      /\ log'[Len(log) + 1] = e
      /\ \A i \in 1..Len(log) : log'[i] = log[i]
  BY AppendProperties, LenProperties DEF IInv, TypeOK
<1>2. \A k \in DOMAIN list : \E i \in DOMAIN log' : list[k] = log'[i]
  BY <1>1 DEF Pushed
<1>3. CASE new = list
  BY <1>2, <1>3
<1>4. CASE new = Append(list, e)
  <2>1. /\ DOMAIN list = 1..Len(list) /\ DOMAIN new = 1..(Len(list) + 1)
        /\ new[Len(list) + 1] = e /\ Len(list) \in Nat
        /\ \A k \in 1..Len(list) : new[k] = list[k]
    BY <1>4, AppendProperties, LenProperties
  <2> SUFFICES ASSUME NEW k \in DOMAIN new PROVE \E i \in DOMAIN log' : new[k] = log'[i]
    OBVIOUS
  <2>2. CASE k = Len(list) + 1
    <3>1. Len(log) + 1 \in DOMAIN log'
      BY <1>1
    <3> QED BY <1>1, <2>1, <2>2, <3>1
  <2>3. CASE k # Len(list) + 1
    <3>1. k \in DOMAIN list /\ new[k] = list[k]
      BY <2>1, <2>3
    <3> QED BY <1>2, <3>1
  <2> QED BY <2>2, <2>3
<1> QED BY <1>3, <1>4 DEF Keep

LEMMA Origin == Spec => []OriginInv
<1>1. Init => OriginInv
  BY DEF Init, OriginInv, Pushed
<1>2. IInv /\ OriginInv /\ [Next]_vars => OriginInv'
  <2>1. ASSUME IInv, OriginInv, NEW e \in Event, Push(e) PROVE OriginInv'
    <3>1. errorEvents \in Seq(Event) /\ slowEvents \in Seq(Event)
      BY <2>1 DEF IInv, TypeOK
    <3>2. /\ errorEvents' = Keep(errorEvents, MaxErrors, IsError(e), e)
          /\ slowEvents' = Keep(slowEvents, MaxSlow, IsSlow(e), e)
          /\ log' = Append(log, e)
      BY <2>1 DEF Push
    <3>3. Pushed(errorEvents) /\ Pushed(slowEvents)
      BY <2>1 DEF OriginInv
    <3>4. Pushed(errorEvents)'
      <4> DEFINE new == Keep(errorEvents, MaxErrors, IsError(e), e)
      <4>1. new = errorEvents'
        BY <3>2
      <4> HIDE DEF new
      <4>2. \A k \in DOMAIN new : \E i \in DOMAIN log' : new[k] = log'[i]
        BY <2>1, <3>1, <3>2, <3>3, <4>1, KeepOrigin
      <4> QED BY <4>1, <4>2 DEF Pushed
    <3>5. Pushed(slowEvents)'
      <4> DEFINE new == Keep(slowEvents, MaxSlow, IsSlow(e), e)
      <4>1. new = slowEvents'
        BY <3>2
      <4> HIDE DEF new
      <4>2. \A k \in DOMAIN new : \E i \in DOMAIN log' : new[k] = log'[i]
        BY <2>1, <3>1, <3>2, <3>3, <4>1, KeepOrigin
      <4> QED BY <4>1, <4>2 DEF Pushed
    <3> QED BY <3>4, <3>5 DEF OriginInv
  <2>2. CASE UNCHANGED vars
    BY <2>2 DEF OriginInv, Pushed, vars, priority
  <2> QED BY <2>1, <2>2 DEF Next
<1> QED BY <1>1, <1>2, Invariance, PTL DEF Spec
-----------------------------------------------------------------------------
\* What is in the merged list is what was gathered.
LEMMA DrainMembers ==
    ASSUME IInv, HasPriority
    PROVE  /\ Drain \in Seq(Event) /\ Gathered \in Seq(Event)
           /\ InOrder(Drain)
           /\ \A x \in Event : (\E k \in DOMAIN Drain : Drain[k] = x)
                                 <=> (\E k \in DOMAIN Gathered : Gathered[k] = x)
<1>1. Gathered \in Seq(Event)
  BY GatheredTyped
<1>2. Drain = SortByTimestamp(Gathered)
  BY DEF Drain
<1>3. /\ Drain \in Seq(Event) /\ InOrder(Drain)
      /\ \A x \in Event : Cardinality(Occurrences(Drain, x)) = Cardinality(Occurrences(Gathered, x))
  BY <1>1, <1>2, SortCorrect
<1>4. ASSUME NEW s \in Seq(Event), NEW x \in Event
      PROVE  Cardinality(Occurrences(s, x)) = 0 <=> ~ \E k \in DOMAIN s : s[k] = x
  <2>1. IsFiniteSet(1..Len(s)) /\ DOMAIN s = 1..Len(s)
    BY LenProperties, FS_Interval
  <2>2. Occurrences(s, x) \in SUBSET (1..Len(s))
    BY <2>1 DEF Occurrences
  <2>3. IsFiniteSet(Occurrences(s, x))
    BY <2>1, <2>2, FS_Subset
  <2>4. Cardinality(Occurrences(s, x)) = 0 <=> Occurrences(s, x) = {}
    BY <2>3, FS_EmptySet
  <2> QED BY <2>4 DEF Occurrences
<1> QED BY <1>1, <1>3, <1>4

LEMMA LogTimes == IInv => \A i \in DOMAIN log : log[i].ts \in Nat
BY BufferAssumption DEF IInv, TypeOK, EventFields

\* An event of the report was pushed, the report is in order, and a failed
\* call that the error list has had room for is there unless it is noise.
LEMMA ShownMembers ==
    ASSUME IInv, OriginInv, HasPriority
    PROVE  /\ Shown \in Seq(Event) /\ InOrder(Shown)
           /\ \A k \in DOMAIN Shown : \E i \in DOMAIN log : Shown[k] = log[i]
           /\ \A k \in DOMAIN errorEvents :
                 \/ IsNoiseEvent(errorEvents[k])
                 \/ \E h \in DOMAIN Shown : Shown[h] = errorEvents[k]
<1> DEFINE n == Smaller(PriorityContext, count)
<1>1. /\ errorEvents \in Seq(Event) /\ slowEvents \in Seq(Event)
      /\ n \in 0..count /\ count \in Nat /\ Len(log) \in Nat /\ count <= Len(log)
      /\ DOMAIN log = 1..Len(log)
  BY BufferAssumption, LenProperties DEF IInv, TypeOK, RingInv, Smaller
<1>2. Recent(n) \in Seq(Event)
  BY <1>1, RecentTyped
<1>3. ASSUME NEW k \in DOMAIN Recent(n) PROVE \E i \in DOMAIN log : Recent(n)[k] = log[i]
  <2>1. Recent(n) = [i \in 1..n |-> log[Len(log) - n + i]]
    BY <1>1, NewestByInv DEF RecentIsNewest
  <2>2. k \in 1..n /\ Len(log) - n + k \in DOMAIN log
    BY <1>1, <1>3, <2>1
  <2> QED BY <2>1, <2>2
<1> HIDE DEF n
<1> DEFINE both == errorEvents \o slowEvents
<1>4. /\ both \in Seq(Event) /\ Len(both) = Len(errorEvents) + Len(slowEvents)
      /\ \A k \in 1..(Len(errorEvents) + Len(slowEvents)) :
            both[k] = IF k <= Len(errorEvents) THEN errorEvents[k]
                                               ELSE slowEvents[k - Len(errorEvents)]
  BY <1>1, ConcatProperties
<1>5. Gathered = both \o Recent(n)
  BY DEF Gathered, n
<1> HIDE DEF both
<1>6. /\ Len(Gathered) = Len(both) + Len(Recent(n)) /\ Gathered \in Seq(Event)
      /\ \A k \in 1..(Len(both) + Len(Recent(n))) :
            Gathered[k] = IF k <= Len(both) THEN both[k] ELSE Recent(n)[k - Len(both)]
  <2> DEFINE recent == Recent(n)
  <2>1. recent \in Seq(Event) /\ Gathered = both \o recent
    BY <1>2, <1>5
  <2> HIDE DEF recent
  <2>2. both \in Seq(Event)
    BY <1>4
  <2>3. /\ both \o recent \in Seq(Event)
        /\ Len(both \o recent) = Len(both) + Len(recent)
        /\ \A k \in 1..(Len(both) + Len(recent)) :
              (both \o recent)[k] = IF k <= Len(both) THEN both[k] ELSE recent[k - Len(both)]
    BY <2>1, <2>2, ConcatProperties
  <2> QED BY <2>1, <2>3 DEF recent
<1>7. /\ DOMAIN errorEvents = 1..Len(errorEvents) /\ Len(errorEvents) \in Nat
      /\ DOMAIN slowEvents = 1..Len(slowEvents) /\ Len(slowEvents) \in Nat
      /\ DOMAIN Recent(n) = 1..Len(Recent(n)) /\ Len(Recent(n)) \in Nat
      /\ DOMAIN Gathered = 1..Len(Gathered)
  BY <1>1, <1>2, <1>6, LenProperties
<1>8. ASSUME NEW k \in DOMAIN errorEvents
      PROVE  \E h \in DOMAIN Gathered : Gathered[h] = errorEvents[k]
  <2>1. k \in DOMAIN Gathered /\ Gathered[k] = errorEvents[k]
    BY <1>4, <1>6, <1>7
  <2> QED BY <2>1
<1>9. ASSUME NEW k \in DOMAIN Gathered PROVE \E i \in DOMAIN log : Gathered[k] = log[i]
  <2>1. CASE k <= Len(errorEvents)
    <3>1. k \in DOMAIN errorEvents /\ Gathered[k] = errorEvents[k]
      BY <1>4, <1>6, <1>7, <2>1
    <3> QED BY <3>1 DEF OriginInv, Pushed
  <2>2. CASE k > Len(errorEvents) /\ k <= Len(both)
    <3>1. k - Len(errorEvents) \in DOMAIN slowEvents /\ Gathered[k] = slowEvents[k - Len(errorEvents)]
      BY <1>4, <1>6, <1>7, <2>2
    <3> QED BY <3>1 DEF OriginInv, Pushed
  <2>3. CASE k > Len(both)
    <3>1. k - Len(both) \in DOMAIN Recent(n) /\ Gathered[k] = Recent(n)[k - Len(both)]
      BY <1>4, <1>6, <1>7, <2>3
    <3> QED BY <1>3, <3>1
  <2> QED BY <1>4, <1>7, <2>1, <2>2, <2>3
<1>10. KeptRight(Drain, Len(Drain), Shown)
  BY DrainMembers, FilterCorrect DEF Shown
<1>11. DOMAIN Drain = 1..Len(Drain) /\ \A k \in DOMAIN Drain : Drain[k] \in Event
  BY DrainMembers, LenProperties
<1>12. ASSUME NEW k \in DOMAIN Shown PROVE \E i \in DOMAIN log : Shown[k] = log[i]
  <2>1. PICK j \in DOMAIN Drain : Shown[k] = Drain[j]
    BY <1>10, <1>11 DEF KeptRight
  <2>2. PICK h \in DOMAIN Gathered : Gathered[h] = Drain[j]
    BY <1>11, DrainMembers
  <2> QED BY <1>9, <2>1, <2>2
<1>13. ASSUME NEW k \in DOMAIN errorEvents
       PROVE  \/ IsNoiseEvent(errorEvents[k])
              \/ \E h \in DOMAIN Shown : Shown[h] = errorEvents[k]
  <2>1. errorEvents[k] \in Event
    BY <1>1
  <2>2. PICK j \in DOMAIN Drain : Drain[j] = errorEvents[k]
    BY <1>8, <2>1, DrainMembers
  <2> QED BY <1>10, <1>11, <2>2 DEF KeptRight
<1> QED BY <1>10, <1>12, <1>13 DEF KeptRight

\* A failed call within the cap is in the error list, so there is priority.
LEMMA FailureKept ==
    ASSUME PriorityKept, IInv, OriginInv, ErrorCount <= MaxErrors,
           NEW i \in DOMAIN log, IsError(log[i])
    PROVE  /\ HasPriority
           /\ IsNoiseEvent(log[i]) \/ \E k \in DOMAIN Shown : Shown[k] = log[i]
<1>1. PICK k \in DOMAIN errorEvents : errorEvents[k] = log[i]
  BY DEF PriorityKept
<1>2. HasPriority
  BY <1>1 DEF HasPriority
<1> QED BY <1>1, <1>2, ShownMembers

LEMMA FailuresByInv == IInv /\ OriginInv /\ PriorityKept => FailuresShown
<1> SUFFICES ASSUME IInv, OriginInv, PriorityKept, ErrorCount <= MaxErrors,
                    NEW i \in DOMAIN log, IsError(log[i]),
                    ~(log[i].ret = -ENOENT /\ log[i].name \in BenignNames)
             PROVE  \E k \in DOMAIN Shown : Shown[k] = log[i]
  BY DEF FailuresShown
<1>1. ~IsNoiseEvent(log[i])
  BY DEF IsNoiseEvent
<1> QED BY <1>1, FailureKept

\* Within the cap of the error list a report shows every failed call that is
\* not noise, however long ago it was: the list keeps it, the merge keeps what
\* was gathered, and the filter takes out noise alone.
THEOREM FailuresReported == Spec => []FailuresShown
BY FailuresByInv, Invariance, Origin, PrioritySafe, PTL

LEMMA LastByInv == IInv /\ OriginInv /\ PriorityKept => LastFailureStands
<1> SUFFICES ASSUME IInv, OriginInv, PriorityKept, ErrorCount <= MaxErrors,
                    NEW i \in DOMAIN log, log[i].kind = "connect", IsError(log[i]),
                    \A j \in DOMAIN log \ {i} :
                        log[j].kind = "connect" /\ log[j].name = log[i].name
                            => log[j].ts < log[i].ts
             PROVE  Destinations[log[i].name] = Status(log[i])
  BY DEF LastFailureStands
<1> DEFINE d == log[i].name
           calls == {k \in Connections : Shown[k].name = d}
<1>1. HasPriority /\ \E k \in DOMAIN Shown : Shown[k] = log[i]
  BY FailureKept DEF IsNoiseEvent
<1>2. PICK k \in DOMAIN Shown : Shown[k] = log[i]
  BY <1>1
<1>3. k \in calls
  BY <1>2 DEF Connections
<1>4. /\ Shown \in Seq(Event) /\ InOrder(Shown)
      /\ \A h \in DOMAIN Shown : \E j \in DOMAIN log : Shown[h] = log[j]
  BY <1>1, ShownMembers
<1>5. Len(Shown) \in Nat /\ DOMAIN Shown = 1..Len(Shown)
  BY <1>4, LenProperties
<1> DEFINE last == CHOOSE h \in calls : \A j \in calls : j <= h
<1>6. last \in calls /\ \A j \in calls : j <= last
  <2>1. calls \in SUBSET (0..Len(Shown)) /\ calls # {}
    BY <1>3, <1>5 DEF Connections
  <2> HIDE DEF calls
  <2>2. \E m \in calls : \A j \in calls : j <= m
    BY <1>5, <2>1, Greatest
  <2> QED BY <2>2
<1> HIDE DEF last
<1>7. last \in DOMAIN Shown /\ Shown[last].kind = "connect" /\ Shown[last].name = d
  BY <1>6 DEF Connections
<1>8. PICK j \in DOMAIN log : Shown[last] = log[j]
  BY <1>4, <1>7
<1>9. j = i
  <2> SUFFICES ASSUME j # i PROVE FALSE
    OBVIOUS
  <2>1. log[j].ts < log[i].ts
    BY <1>7, <1>8
  <2>2. k <= last /\ k \in Nat /\ last \in Nat
    BY <1>3, <1>5, <1>6, <1>7
  <2>3. k # last
    BY <1>2, <1>8, <2>1, LogTimes
  <2>4. Shown[k].ts <= Shown[last].ts
    BY <1>4, <1>7, <2>2, <2>3 DEF InOrder
  <2> QED BY <1>2, <1>8, <2>1, <2>4, LogTimes
<1>10. Destinations[d] = StatusOf(calls)
  <2>1. d \in {Shown[h].name : h \in Connections}
    BY <1>3
  <2> QED BY <2>1 DEF Destinations
<1>11. StatusOf(calls) = Status(Shown[last])
  BY DEF StatusOf, last
<1> QED BY <1>8, <1>9, <1>10, <1>11

\* Within the cap of the error list a destination whose last connection failed
\* has the status of that failure: it is shown, nothing in the report to that
\* destination is later, and what is last in the list is last in time.
THEOREM LastFailureReported == Spec => []LastFailureStands
BY LastByInv, Invariance, Origin, PrioritySafe, PTL

LEMMA OffsetsByInv == IInv /\ OriginInv => OffsetsInOrder
<1> SUFFICES ASSUME IInv, OriginInv, HasPriority,
                    NEW h \in DOMAIN Shown, NEW k \in DOMAIN Shown, h < k
             PROVE  Offset(Shown[h].ts) <= Offset(Shown[k].ts)
  BY DEF OffsetsInOrder
<1>1. PICK i \in DOMAIN log, j \in DOMAIN log : Shown[h] = log[i] /\ Shown[k] = log[j]
  BY ShownMembers
<1>2. Shown[h].ts \in Nat /\ Shown[k].ts \in Nat /\ StartTime \in Nat
  <2>1. 1 \in DOMAIN log
    BY LenProperties DEF IInv, TypeOK
  <2> QED BY <1>1, <2>1, LogTimes DEF StartTime
<1>3. Shown[h].ts <= Shown[k].ts
  BY ShownMembers DEF InOrder
<1> QED BY <1>2, <1>3 DEF Offset

\* With priority events the offsets in the report never go back.
THEOREM OffsetsOrdered == Spec => []OffsetsInOrder
BY OffsetsByInv, Invariance, Origin, PTL
=============================================================================
