-------------------------- MODULE OpenProbesProofs --------------------------
(***************************************************************************)
(* For every set of threads and files and every capacity: the types, and   *)
(* that an event never combines two calls of openat.  The reason is that   *)
(* an entry of openat is gone when the call returns, by every path of the  *)
(* exit hook, so an entry that is there belongs to the call in progress.   *)
(***************************************************************************)
EXTENDS OpenProbes, SequenceTheorems, TLAPS

Event == [thread : Threads, ret : Ids, info : OpenatInfo]

LEMMA StoredInfo ==
    ASSUME TypeOK, NEW t \in Threads, IsStored(t)
    PROVE  openat_start[t] \in OpenatInfo
BY DEF TypeOK, IsStored

LEMMA CallTyping ==
    ASSUME TypeOK, NEW t \in Threads, call[t].kind \in Kinds
    PROVE  call[t] \in [kind : Kinds, id : Ids]
BY DEF TypeOK, Idle, Kinds

LEMMA TypeInit == Init => TypeOK
<1> SUFFICES ASSUME Init PROVE TypeOK
  OBVIOUS
<1>1. calls \in 0..MaxCalls
  BY OpenAssumption DEF Init
<1>2. events \in Seq(Event)
  BY DEF Init
<1> QED BY <1>1, <1>2 DEF Init, TypeOK, Event

LEMMA EnterType ==
    ASSUME TypeOK, NEW t \in Threads, NEW kind \in Kinds, NEW file \in Files,
           TraceOpenCommon(t, kind, file)
    PROVE  TypeOK'
<1>1. calls + 1 \in Ids /\ calls' \in 0..MaxCalls
  BY OpenAssumption DEF TraceOpenCommon, TypeOK, Ids
<1>2. CASE ~IsNoise(file)
  <2>1. [id |-> calls + 1, kind |-> kind, file |-> file, comm |-> comm[t],
         attached |-> attached] \in OpenatInfo
    BY <1>1, <1>2 DEF OpenatInfo, IsNoise, TypeOK
  <2>2. openat_start' \in [Threads -> OpenatInfo \cup {Absent}]
    BY <2>1 DEF TraceOpenCommon, Key, TypeOK
  <2> QED BY <1>1, <2>2 DEF TraceOpenCommon, TypeOK
<1>3. CASE IsNoise(file)
  BY <1>1, <1>3 DEF TraceOpenCommon, TypeOK
<1> QED BY <1>2, <1>3

\* The event, if there is one, and what the exit hook leaves.
LEMMA ExitEffect ==
    ASSUME TypeOK, NEW t \in Threads, TraceOpenatExit(t)
    PROVE  /\ openat_start' = [openat_start EXCEPT ![t] = Absent]
           /\ call' = [call EXCEPT ![t] = Idle]
           /\ call[t] \in [kind : Kinds, id : Ids]
           /\ UNCHANGED <<comm, attached, calls>>
           /\ \/ events' = events
              \/ \E e \in Event :
                   /\ events' = Append(events, e)
                   /\ IsStored(t) /\ e.ret = call[t].id /\ e.info = openat_start[t]
<1>1. call[t].kind \in Kinds
  BY DEF TraceOpenatExit, Kinds
<1>2. call[t] \in [kind : Kinds, id : Ids]
  BY <1>1, CallTyping
<1>3. CASE IsStored(t)
  <2>1. [thread |-> t, ret |-> call[t].id, info |-> openat_start[t]] \in Event
    BY <1>2, <1>3, StoredInfo DEF Event
  <2> QED BY <1>2, <1>3, <2>1 DEF TraceOpenatExit, Removed, Key
<1>4. CASE ~IsStored(t)
  BY <1>2, <1>4 DEF TraceOpenatExit, Key, IsStored, TypeOK
<1> QED BY <1>3, <1>4

LEMMA ExitType ==
    ASSUME TypeOK, NEW t \in Threads, TraceOpenatExit(t)
    PROVE  TypeOK'
<1>1. events \in Seq(Event)
  BY DEF TypeOK, Event
<1>2. events' \in Seq(Event)
  BY <1>1, ExitEffect, AppendProperties
<1>3. call' \in [Threads -> [kind : Kinds, id : Ids] \cup {Idle}]
  BY ExitEffect DEF TypeOK
<1>4. openat_start' \in [Threads -> OpenatInfo \cup {Absent}]
  BY ExitEffect DEF TypeOK
<1> QED BY <1>2, <1>3, <1>4, ExitEffect DEF TypeOK, Event

LEMMA TypeStep == TypeOK /\ [Next]_vars => TypeOK'
<1> SUFFICES ASSUME TypeOK, [Next]_vars PROVE TypeOK'
  OBVIOUS
<1>1. ASSUME NEW t \in Threads, TraceOpenat(t) \/ TraceOpen(t) \/ TraceOpenat2(t)
      PROVE  TypeOK'
  BY <1>1, EnterType DEF TraceOpenat, TraceOpen, TraceOpenat2, Kinds
<1>2. ASSUME NEW t \in Threads, OpenExit(t) \/ Rename(t) PROVE TypeOK'
  BY <1>2 DEF OpenExit, Rename, TypeOK
<1>3. CASE AttachExit \/ UNCHANGED vars
  BY <1>3 DEF AttachExit, vars, TypeOK
<1> QED BY <1>1, <1>2, <1>3, ExitType DEF Next

\* Every variable keeps its type, and no noisy file is ever shown.
THEOREM TypeCorrect == Spec => []TypeOK
BY TypeInit, TypeStep, PTL DEF Spec
-----------------------------------------------------------------------------
\* An entry of openat, stored since the exit hook was attached, is of the
\* call in progress.
OfThisCall(t) ==
    (IsStored(t) /\ openat_start[t].kind = "openat" /\ openat_start[t].attached) =>
        call[t] = [kind |-> "openat", id |-> openat_start[t].id]

EntryInv ==
    \A t \in Threads :
        /\ OfThisCall(t)
        /\ IsStored(t) /\ openat_start[t].attached => attached

LEMMA EnterEntry ==
    ASSUME TypeOK, EntryInv, NEW t \in Threads, NEW kind \in Kinds, NEW file \in Files,
           TraceOpenCommon(t, kind, file)
    PROVE  EntryInv'
<1>1. PICK info : info = [id |-> calls + 1, kind |-> kind, file |-> file,
                          comm |-> comm[t], attached |-> attached]
  OBVIOUS
<1>2. /\ call[t] = Idle /\ attached' = attached
      /\ call' = [call EXCEPT ![t] = [kind |-> kind, id |-> calls + 1]]
      /\ openat_start' = [openat_start EXCEPT ![t] = info] \/ openat_start' = openat_start
  BY <1>1 DEF TraceOpenCommon, Key
<1> SUFFICES ASSUME NEW w \in Threads
             PROVE  /\ OfThisCall(w)'
                    /\ IsStored(w)' /\ openat_start'[w].attached => attached'
  BY DEF EntryInv
<1>3. CASE openat_start'[w] = openat_start[w] /\ w # t
  BY <1>2, <1>3 DEF EntryInv, OfThisCall, IsStored, TypeOK
<1>4. CASE w = t /\ openat_start' = [openat_start EXCEPT ![t] = info]
  BY <1>1, <1>2, <1>4 DEF OfThisCall, TypeOK
<1>5. CASE w = t /\ openat_start' = openat_start
  BY <1>2, <1>5 DEF EntryInv, OfThisCall, IsStored, Idle
<1> QED BY <1>2, <1>3, <1>4, <1>5 DEF TypeOK

LEMMA EntryStep == TypeOK /\ EntryInv /\ [Next]_vars => EntryInv'
<1> SUFFICES ASSUME TypeOK, EntryInv, [Next]_vars PROVE EntryInv'
  OBVIOUS
<1>1. ASSUME NEW t \in Threads, TraceOpenat(t) \/ TraceOpen(t) \/ TraceOpenat2(t)
      PROVE  EntryInv'
  BY <1>1, EnterEntry DEF TraceOpenat, TraceOpen, TraceOpenat2, Kinds
<1>2. ASSUME NEW t \in Threads, TraceOpenatExit(t) PROVE EntryInv'
  BY <1>2, ExitEffect DEF EntryInv, OfThisCall, IsStored, TypeOK
<1>3. ASSUME NEW t \in Threads, OpenExit(t) PROVE EntryInv'
  BY <1>3 DEF OpenExit, EntryInv, OfThisCall, IsStored, TypeOK
<1>4. ASSUME NEW t \in Threads, Rename(t) PROVE EntryInv'
  BY <1>4 DEF Rename, EntryInv, OfThisCall, IsStored
<1>5. CASE AttachExit \/ UNCHANGED vars
  BY <1>5 DEF AttachExit, vars, EntryInv, OfThisCall, IsStored
<1> QED BY <1>1, <1>2, <1>3, <1>4, <1>5 DEF Next

LEMMA OneOpenatStep ==
    TypeOK /\ EntryInv /\ OneOpenat /\ [Next]_vars => OneOpenat'
<1> SUFFICES ASSUME TypeOK, EntryInv, OneOpenat, [Next]_vars PROVE OneOpenat'
  OBVIOUS
<1>1. CASE events' = events
  BY <1>1 DEF OneOpenat
<1>2. CASE events' # events
  <2>1. PICK t \in Threads : TraceOpenatExit(t)
    BY <1>2 DEF Next, AttachExit, TraceOpenat, TraceOpen, TraceOpenat2, TraceOpenCommon,
                OpenExit, Rename, vars
  <2>2. PICK e \in Event : /\ events' = Append(events, e)
                           /\ IsStored(t) /\ e.ret = call[t].id /\ e.info = openat_start[t]
    BY <1>2, <2>1, ExitEffect
  <2>3. (e.info.kind = "openat" /\ e.info.attached) => e.info.id = e.ret
    <3>1. OfThisCall(t)
      BY DEF EntryInv
    <3>2. (e.info.kind = "openat" /\ e.info.attached)
             => call[t] = [kind |-> "openat", id |-> e.info.id]
      BY <2>2, <3>1 DEF OfThisCall
    <3> QED BY <2>2, <3>2
  <2>4. /\ DOMAIN events' = 1..(Len(events) + 1) /\ DOMAIN events = 1..Len(events)
        /\ Len(events) \in Nat
        /\ \A k \in DOMAIN events : events'[k] = events[k]
        /\ events'[Len(events) + 1] = e
    <3>1. events \in Seq(Event)
      BY DEF TypeOK, Event
    <3> QED BY <2>2, <3>1, AppendProperties
  <2> SUFFICES ASSUME NEW k \in DOMAIN events', events'[k].info.kind = "openat",
                      events'[k].info.attached
               PROVE  events'[k].info.id = events'[k].ret
    BY DEF OneOpenat
  <2>5. CASE k \in DOMAIN events
    BY <2>4, <2>5 DEF OneOpenat
  <2>6. CASE k = Len(events) + 1
    BY <2>3, <2>4, <2>6
  <2> QED BY <2>4, <2>5, <2>6
<1> QED BY <1>1, <1>2

\* An event never combines two calls of openat.
THEOREM NeverMixed == Spec => []OneOpenat
<1>1. Init => EntryInv /\ OneOpenat
  BY DEF Init, EntryInv, OfThisCall, IsStored, OneOpenat
<1> QED BY <1>1, TypeInit, TypeStep, EntryStep, OneOpenatStep, PTL DEF Spec
-----------------------------------------------------------------------------
\* No call is newer than the clock.
Past ==
    /\ \A t \in Threads : call[t].id <= calls /\ openat_start[t].id <= calls
    /\ \A k \in DOMAIN events : events[k].ret <= calls /\ events[k].info.id <= calls

\* A call in progress is one thread's, and has not been reported.
CallsApart ==
    \A t \in Threads : call[t] # Idle =>
        /\ \A u \in Threads \ {t} : call[u].id # call[t].id
        /\ \A k \in DOMAIN events : events[k].ret # call[t].id

\* So is an entry that is stored.
EntriesApart ==
    \A t \in Threads : IsStored(t) =>
        /\ \A u \in Threads \ {t} : openat_start[u].id # openat_start[t].id
        /\ \A k \in DOMAIN events : events[k].info.id # openat_start[t].id

OnceInv == Past /\ CallsApart /\ EntriesApart /\ ReportedOnce

LEMMA EventTyping ==
    ASSUME TypeOK
    PROVE  /\ \A k \in DOMAIN events : events[k] \in Event
           /\ DOMAIN events = 1..Len(events) /\ Len(events) \in Nat
<1>1. events \in Seq(Event)
  BY DEF TypeOK, Event
<1> QED BY <1>1

\* A new call, and the entry that may be stored for it, have an identity
\* that nothing before them has.
LEMMA EnterOnce ==
    ASSUME TypeOK, OnceInv, NEW t \in Threads, NEW kind \in Kinds, NEW file \in Files,
           TraceOpenCommon(t, kind, file)
    PROVE  OnceInv'
<1>1. PICK info : info = [id |-> calls + 1, kind |-> kind, file |-> file,
                          comm |-> comm[t], attached |-> attached]
  OBVIOUS
<1>2. /\ call[t] = Idle /\ calls' = calls + 1 /\ events' = events
      /\ call' = [call EXCEPT ![t] = [kind |-> kind, id |-> calls + 1]]
      /\ openat_start' = [openat_start EXCEPT ![t] = info] \/ openat_start' = openat_start
  BY <1>1 DEF TraceOpenCommon, Key
<1>3. /\ calls \in Nat /\ info.id = calls + 1
      /\ \A w \in Threads : call[w].id \in Nat /\ openat_start[w].id \in Nat
      /\ \A k \in DOMAIN events : events[k].ret \in Nat /\ events[k].info.id \in Nat
  BY <1>1, EventTyping DEF TypeOK, Event, Ids, OpenatInfo, Idle, Absent
<1>4. /\ call'[t].id = calls + 1
      /\ \A w \in Threads \ {t} : call'[w] = call[w]
  BY <1>2 DEF TypeOK
<1>5. /\ openat_start'[t] \in {info, openat_start[t]}
      /\ \A w \in Threads \ {t} : openat_start'[w] = openat_start[w]
  BY <1>2 DEF TypeOK
<1>6. Past'
  BY <1>2, <1>3, <1>4, <1>5 DEF OnceInv, Past
<1>7. CallsApart'
  BY <1>2, <1>3, <1>4 DEF OnceInv, Past, CallsApart
<1>8. EntriesApart'
  BY <1>2, <1>3, <1>5 DEF OnceInv, Past, EntriesApart, IsStored
<1>9. ReportedOnce'
  BY <1>2 DEF OnceInv, ReportedOnce
<1> QED BY <1>6, <1>7, <1>8, <1>9 DEF OnceInv

\* The event of a return: the call and the entry it is made of are in no
\* earlier event, and both are gone when it is submitted.
LEMMA ExitOnce ==
    ASSUME TypeOK, OnceInv, NEW t \in Threads, TraceOpenatExit(t)
    PROVE  OnceInv'
<1>1. /\ openat_start'[t] = Absent
      /\ \A w \in Threads \ {t} : openat_start'[w] = openat_start[w]
      /\ call'[t] = Idle
      /\ \A w \in Threads \ {t} : call'[w] = call[w]
      /\ calls' = calls
  BY ExitEffect DEF TypeOK
<1>2. /\ calls \in Nat /\ Idle.id = 0 /\ Absent.id = 0
      /\ \A w \in Threads : IsStored(w) => openat_start[w].id \in Nat \ {0}
      /\ \A w \in Threads : call[w] # Idle => call[w].id \in Nat \ {0}
  BY DEF TypeOK, Idle, Absent, IsStored, Ids, OpenatInfo
<1>3. CASE events' = events
  <2>1. Past'
    BY <1>1, <1>2, <1>3 DEF OnceInv, Past
  <2>2. CallsApart'
    BY <1>1, <1>2, <1>3 DEF OnceInv, CallsApart
  <2>3. EntriesApart'
    BY <1>1, <1>2, <1>3 DEF OnceInv, EntriesApart, IsStored
  <2>4. ReportedOnce'
    BY <1>3 DEF OnceInv, ReportedOnce
  <2> QED BY <2>1, <2>2, <2>3, <2>4 DEF OnceInv
<1>4. CASE events' # events
  <2>1. PICK e \in Event : /\ events' = Append(events, e)
                           /\ IsStored(t) /\ e.ret = call[t].id /\ e.info = openat_start[t]
    BY <1>4, ExitEffect
  <2>2. /\ DOMAIN events' = DOMAIN events \cup {Len(events) + 1}
        /\ Len(events) + 1 \notin DOMAIN events
        /\ \A k \in DOMAIN events : events'[k] = events[k]
        /\ events'[Len(events) + 1] = e
    <3>1. events \in Seq(Event)
      BY DEF TypeOK, Event
    <3> QED BY <2>1, <3>1, AppendProperties
  <2>3. call[t] # Idle
    BY ExitEffect DEF Idle, Kinds
  <2>4. Past'
    BY <1>1, <1>2, <2>1, <2>2 DEF OnceInv, Past
  <2>5. CallsApart'
    BY <1>1, <1>2, <2>1, <2>2, <2>3 DEF OnceInv, CallsApart
  <2>6. EntriesApart'
    BY <1>1, <1>2, <2>1, <2>2 DEF OnceInv, EntriesApart, IsStored
  <2>7. \A k \in DOMAIN events : events[k].ret # e.ret /\ events[k].info.id # e.info.id
    BY <2>1, <2>3 DEF OnceInv, CallsApart, EntriesApart
  <2>8. ReportedOnce'
    BY <2>2, <2>7 DEF OnceInv, ReportedOnce
  <2> QED BY <2>4, <2>5, <2>6, <2>8 DEF OnceInv
<1> QED BY <1>3, <1>4

LEMMA OnceStep == TypeOK /\ OnceInv /\ [Next]_vars => OnceInv'
<1> SUFFICES ASSUME TypeOK, OnceInv, [Next]_vars PROVE OnceInv'
  OBVIOUS
<1>1. ASSUME NEW t \in Threads, TraceOpenat(t) \/ TraceOpen(t) \/ TraceOpenat2(t)
      PROVE  OnceInv'
  BY <1>1, EnterOnce DEF TraceOpenat, TraceOpen, TraceOpenat2, Kinds
<1>2. ASSUME NEW t \in Threads, OpenExit(t) PROVE OnceInv'
  <2>1. /\ UNCHANGED <<openat_start, events, calls>>
        /\ call'[t] = Idle /\ \A w \in Threads \ {t} : call'[w] = call[w]
    BY <1>2 DEF OpenExit, TypeOK
  <2>2. /\ calls \in Nat /\ Idle.id = 0
        /\ \A w \in Threads : call[w] # Idle => call[w].id \in Nat \ {0}
    BY DEF TypeOK, Idle, Ids
  <2>3. Past' /\ CallsApart'
    BY <2>1, <2>2 DEF OnceInv, Past, CallsApart
  <2>4. EntriesApart' /\ ReportedOnce'
    BY <2>1 DEF OnceInv, EntriesApart, ReportedOnce, IsStored
  <2> QED BY <2>3, <2>4 DEF OnceInv
<1>3. ASSUME UNCHANGED <<call, openat_start, events, calls>> PROVE OnceInv'
  BY <1>3 DEF OnceInv, Past, CallsApart, EntriesApart, ReportedOnce, IsStored
<1>4. (\E t \in Threads : Rename(t)) \/ AttachExit \/ UNCHANGED vars
         => UNCHANGED <<call, openat_start, events, calls>>
  BY DEF Rename, AttachExit, vars
<1> QED BY <1>1, <1>2, <1>3, <1>4, ExitOnce DEF Next

\* No call is reported twice: the exit hook takes the call and the entry away
\* as it reports them, whatever is left by calls that are not matched.
THEOREM NeverTwice == Spec => []ReportedOnce
<1>1. Init => OnceInv
  BY DEF Init, OnceInv, Past, CallsApart, EntriesApart, ReportedOnce, IsStored, Idle, Absent
<1>2. OnceInv => ReportedOnce
  BY DEF OnceInv
<1> QED BY <1>1, <1>2, TypeInit, TypeStep, OnceStep, PTL DEF Spec
=============================================================================
