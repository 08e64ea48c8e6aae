------------------------ MODULE ConnectProbesProofs ------------------------
(***************************************************************************)
(* For every assignment of threads to processes and every capacity: the    *)
(* event of a call that overlapped no other of its process is its own, and *)
(* a process that is in no call holds no slot.  A slot always belongs to a *)
(* call in progress, since the exit hook of every call empties it.         *)
(***************************************************************************)
EXTENDS ConnectProbes, SequenceTheorems, FunctionTheorems, FiniteSetTheorems, TLAPS

Event == [thread : Threads, ret : Ids, start : Ids]

\* The types without the bound on the slots in use, and what a pointer is.
Typing ==
    /\ call \in [Threads -> 0..MaxCalls]
    /\ connect_start \in [Processes -> 0..MaxCalls]
    /\ pinned \in [Threads -> 0..MaxCalls]
    /\ attached \in BOOLEAN
    /\ events \in Seq(Event)
    /\ calls \in 0..MaxCalls
    /\ shared \subseteq Ids /\ early \subseteq Ids

\* What a slot holds is of a call in progress, or from before the exit hook.
SlotInv ==
    \A p \in Processes :
        connect_start[p] # 0 =>
            \/ connect_start[p] \in early
            \/ \E t \in Threads : Process[t] = p /\ call[t] = connect_start[p]

\* Two calls in progress of one process are both known as overlapping.
ShareInv ==
    \A t, u \in Threads :
        (t # u /\ Process[t] = Process[u] /\ call[t] # 0 /\ call[u] # 0) => call[t] \in shared

\* Identities of calls are not used twice, and only calls that entered before
\* the exit hook was attached are early.
FreshInv ==
    /\ \A t \in Threads : call[t] <= calls
    /\ \A t \in Threads : pinned[t] <= calls
    /\ \A i \in shared \cup early : i <= calls

\* A pointer belongs to a call in progress; that of a call which is alone
\* still points into the map.
PinInv ==
    \A t \in Threads : pinned[t] # 0 =>
        /\ call[t] # 0
        /\ call[t] \notin shared =>
             /\ connect_start[Process[t]] = pinned[t]
             /\ pinned[t] = call[t] \/ pinned[t] \in early

\* Before the exit hook is attached every call is early and no hook runs.
AttachInv ==
    ~attached => \A t \in Threads : /\ call[t] # 0 => call[t] \in early
                                    /\ pinned[t] = 0

IndInv == Typing /\ SlotInv /\ ShareInv /\ FreshInv /\ PinInv /\ AttachInv /\ PairedAlone

LEMMA Constants ==
    /\ MaxCalls \in Nat /\ Capacity \in Nat
    /\ \A t \in Threads : Process[t] \in Processes
BY ConnectAssumption DEF Processes

LEMMA InitInd == Init => IndInv
<1> SUFFICES ASSUME Init PROVE IndInv
  OBVIOUS
<1>1. events \in Seq(Event)
  BY DEF Init
<1>2. Typing
  <2>1. calls \in 0..MaxCalls /\ 0 \in 0..MaxCalls
    BY Constants DEF Init
  <2> QED BY <1>1, <2>1 DEF Init, Typing
<1>3. SlotInv /\ ShareInv /\ FreshInv /\ PinInv /\ AttachInv /\ PairedAlone
  BY Constants DEF Init, SlotInv, ShareInv, FreshInv, PinInv, AttachInv, PairedAlone
<1> QED BY <1>2, <1>3 DEF IndInv

LEMMA EnterStep ==
    ASSUME IndInv, NEW t \in Threads, HandleConnectEnter(t)
    PROVE  IndInv'
<1> PICK id : id = calls + 1
  OBVIOUS
<1> PICK p : p = Process[t]
  OBVIOUS
<1>1. /\ id \in Ids /\ calls' = id /\ id > calls /\ calls \in Nat /\ p \in Processes
      /\ MaxCalls \in Nat /\ call[t] = 0
      /\ call' = [call EXCEPT ![t] = id]
      /\ connect_start' = connect_start \/ connect_start' = [connect_start EXCEPT ![p] = id]
      /\ shared \subseteq shared' /\ shared' \subseteq shared \cup {id} \cup {call[u] : u \in InCall(p)}
      /\ InCall(p) # {} => id \in shared' /\ \A u \in InCall(p) : call[u] \in shared'
      /\ early \subseteq early' /\ early' \subseteq early \cup {id}
      /\ UNCHANGED <<pinned, attached, events>>
  BY Constants DEF HandleConnectEnter, IndInv, Typing, Ids, Key
<1>2. /\ call \in [Threads -> 0..MaxCalls] /\ connect_start \in [Processes -> 0..MaxCalls]
      /\ pinned \in [Threads -> 0..MaxCalls]
  BY DEF IndInv, Typing
<1>3. Typing'
  <2>1. \A u \in InCall(p) : call[u] \in Ids
    BY <1>1, <1>2 DEF InCall, Ids
  <2>2. {call[u] : u \in InCall(p)} \subseteq Ids
    BY <2>1
  <2>3. shared' \subseteq Ids /\ early' \subseteq Ids
    BY <1>1, <2>2 DEF IndInv, Typing
  <2>4. call' \in [Threads -> 0..MaxCalls] /\ connect_start' \in [Processes -> 0..MaxCalls]
    BY <1>1, <1>2 DEF Ids
  <2>5. calls' \in 0..MaxCalls
    BY <1>1 DEF Ids
  <2> QED BY <1>1, <2>3, <2>4, <2>5 DEF IndInv, Typing
<1>4. SlotInv'
  <2> SUFFICES ASSUME NEW q \in Processes, connect_start'[q] # 0
               PROVE  \/ connect_start'[q] \in early'
                      \/ \E u \in Threads : Process[u] = q /\ call'[u] = connect_start'[q]
    BY DEF SlotInv
  <2>1. CASE connect_start'[q] = connect_start[q]
    BY <1>1, <1>2, <2>1 DEF IndInv, SlotInv
  <2>2. CASE connect_start'[q] # connect_start[q]
    BY <1>1, <1>2, <2>2
  <2> QED BY <2>1, <2>2
<1>5. ShareInv'
  <2> SUFFICES ASSUME NEW u \in Threads, NEW w \in Threads, u # w,
                      Process[u] = Process[w], call'[u] # 0, call'[w] # 0
               PROVE  call'[u] \in shared'
    BY DEF ShareInv
  <2>1. CASE u = t
    BY <1>1, <1>2, <2>1 DEF InCall
  <2>2. CASE w = t
    BY <1>1, <1>2, <2>2 DEF InCall
  <2>3. CASE u # t /\ w # t
    BY <1>1, <1>2, <2>3 DEF IndInv, ShareInv
  <2> QED BY <2>1, <2>2, <2>3
<1>6. FreshInv'
  <2>1. /\ \A u \in Threads : call[u] \in Nat /\ call[u] <= calls
        /\ \A u \in Threads : pinned[u] \in Nat /\ pinned[u] <= calls
        /\ \A i \in shared \cup early : i \in Nat /\ i <= calls
    BY <1>1, <1>2 DEF IndInv, Typing, FreshInv, Ids
  <2>2. \A u \in Threads : call'[u] <= id /\ pinned'[u] <= id
    BY <1>1, <1>2, <2>1
  <2>3. \A i \in shared' \cup early' : i <= id
    BY <1>1, <2>1 DEF InCall
  <2> QED BY <1>1, <2>2, <2>3 DEF FreshInv
<1>7. PinInv'
  <2> SUFFICES ASSUME NEW u \in Threads, pinned[u] # 0
               PROVE  /\ call'[u] # 0
                      /\ call'[u] \notin shared' =>
                           /\ connect_start'[Process[u]] = pinned[u]
                           /\ pinned[u] = call'[u] \/ pinned[u] \in early'
    BY <1>1 DEF PinInv
  <2>1. /\ call[u] # 0 /\ u # t
        /\ call[u] \notin shared => /\ connect_start[Process[u]] = pinned[u]
                                    /\ pinned[u] = call[u] \/ pinned[u] \in early
    BY <1>1 DEF IndInv, PinInv
  <2>2. call'[u] = call[u]
    BY <1>1, <1>2, <2>1
  <2>3. CASE Process[u] = p
    BY <1>1, <2>1, <2>2, <2>3 DEF InCall
  <2>4. CASE Process[u] # p
    <3>1. connect_start'[Process[u]] = connect_start[Process[u]]
      BY <1>1, <1>2, <2>4, Constants
    <3> QED BY <1>1, <2>1, <2>2, <3>1
  <2> QED BY <2>3, <2>4
<1>8. PairedAlone'
  BY <1>1 DEF IndInv, PairedAlone
<1>9. AttachInv'
  <2>1. ~attached => id \in early'
    BY DEF HandleConnectEnter
  <2> QED BY <1>1, <1>2, <2>1 DEF IndInv, AttachInv
<1> QED BY <1>3, <1>4, <1>5, <1>6, <1>7, <1>8, <1>9 DEF IndInv

\* A call of t ends and its slot is emptied, or was empty before.
LEMMA LeaveKeeps ==
    ASSUME IndInv, NEW t \in Threads, call[t] # 0, call' = [call EXCEPT ![t] = 0],
           connect_start' = [connect_start EXCEPT ![Process[t]] = 0],
           pinned' = [pinned EXCEPT ![t] = 0],
           UNCHANGED <<attached, calls, shared, early>>
    PROVE  /\ SlotInv' /\ ShareInv' /\ FreshInv' /\ PinInv'
           /\ call' \in [Threads -> 0..MaxCalls]
           /\ connect_start' \in [Processes -> 0..MaxCalls]
           /\ pinned' \in [Threads -> 0..MaxCalls]
<1>1. /\ call \in [Threads -> 0..MaxCalls] /\ connect_start \in [Processes -> 0..MaxCalls]
      /\ pinned \in [Threads -> 0..MaxCalls] /\ Process[t] \in Processes /\ calls \in 0..MaxCalls
      /\ MaxCalls \in Nat
  BY Constants DEF IndInv, Typing
<1>2. SlotInv'
  <2> SUFFICES ASSUME NEW q \in Processes, connect_start'[q] # 0
               PROVE  \/ connect_start'[q] \in early
                      \/ \E u \in Threads : Process[u] = q /\ call'[u] = connect_start'[q]
    BY DEF SlotInv
  <2>1. q # Process[t] /\ connect_start'[q] = connect_start[q]
    BY <1>1
  <2> QED BY <1>1, <2>1 DEF IndInv, SlotInv
<1>3. ShareInv'
  BY <1>1 DEF IndInv, ShareInv
<1>4. FreshInv'
  BY <1>1 DEF IndInv, FreshInv
<1>5. PinInv'
  <2> SUFFICES ASSUME NEW u \in Threads, pinned'[u] # 0
               PROVE  /\ call'[u] # 0
                      /\ call'[u] \notin shared =>
                           /\ connect_start'[Process[u]] = pinned'[u]
                           /\ pinned'[u] = call'[u] \/ pinned'[u] \in early
    BY DEF PinInv
  <2>1. /\ u # t /\ pinned'[u] = pinned[u] /\ call'[u] = call[u]
        /\ call[u] # 0
        /\ call[u] \notin shared => /\ connect_start[Process[u]] = pinned[u]
                                    /\ pinned[u] = call[u] \/ pinned[u] \in early
    BY <1>1 DEF IndInv, PinInv
  <2>2. CASE Process[u] = Process[t]
    BY <2>1, <2>2 DEF IndInv, ShareInv
  <2>3. CASE Process[u] # Process[t]
    BY <1>1, <2>1, <2>3, Constants
  <2> QED BY <2>2, <2>3
<1> QED BY <1>1, <1>2, <1>3, <1>4, <1>5

LEMMA ExitStep ==
    ASSUME IndInv, NEW t \in Threads, HandleConnectExit(t)
    PROVE  IndInv'
<1>1. /\ call[t] # 0 /\ attached
      /\ call' = [call EXCEPT ![t] = 0]
      /\ connect_start' = [connect_start EXCEPT ![Process[t]] = 0]
      /\ pinned' = [pinned EXCEPT ![t] = 0]
      /\ UNCHANGED <<attached, calls, shared, early, events>>
  BY Constants DEF HandleConnectExit, Removed, Key, IndInv, Typing
<1>2. /\ SlotInv' /\ ShareInv' /\ FreshInv' /\ PinInv'
      /\ call' \in [Threads -> 0..MaxCalls]
      /\ connect_start' \in [Processes -> 0..MaxCalls]
      /\ pinned' \in [Threads -> 0..MaxCalls]
  BY <1>1, LeaveKeeps
<1>3. Typing' /\ AttachInv' /\ PairedAlone'
  BY <1>1, <1>2 DEF IndInv, Typing, AttachInv, PairedAlone
<1> QED BY <1>2, <1>3 DEF IndInv

LEMMA LookupStep ==
    ASSUME IndInv, NEW t \in Threads, HandleConnectExitLookup(t)
    PROVE  IndInv'
<1> PICK p : p = Process[t]
  OBVIOUS
<1>1. /\ call[t] # 0 /\ attached /\ connect_start[p] # 0 /\ p \in Processes
      /\ pinned' = [pinned EXCEPT ![t] = connect_start[p]]
      /\ UNCHANGED <<call, connect_start, attached, events, calls, shared, early>>
      /\ connect_start[p] \in 0..MaxCalls /\ MaxCalls \in Nat
      /\ pinned \in [Threads -> 0..MaxCalls]
  BY Constants DEF HandleConnectExitLookup, Key, IndInv, Typing
<1>2. \/ connect_start[p] \in early
      \/ \E u \in Threads : Process[u] = p /\ call[u] = connect_start[p]
  BY <1>1 DEF IndInv, SlotInv
<1>3. call[t] \notin shared => connect_start[p] = call[t] \/ connect_start[p] \in early
  BY <1>1, <1>2 DEF IndInv, ShareInv
<1>4. PinInv'
  BY <1>1, <1>3 DEF IndInv, PinInv
<1>5. connect_start[p] <= calls
  BY <1>1, <1>2 DEF IndInv, FreshInv
<1>6. FreshInv'
  BY <1>1, <1>5 DEF IndInv, FreshInv
<1>7. Typing' /\ SlotInv' /\ ShareInv' /\ AttachInv' /\ PairedAlone'
  BY <1>1 DEF IndInv, Typing, SlotInv, ShareInv, AttachInv, PairedAlone
<1> QED BY <1>4, <1>6, <1>7 DEF IndInv

LEMMA EmitStep ==
    ASSUME IndInv, NEW t \in Threads, HandleConnectExitEmit(t)
    PROVE  IndInv'
<1>1. /\ pinned[t] # 0 /\ call[t] # 0
      /\ call' = [call EXCEPT ![t] = 0]
      /\ connect_start' = [connect_start EXCEPT ![Process[t]] = 0]
      /\ pinned' = [pinned EXCEPT ![t] = 0]
      /\ UNCHANGED <<attached, calls, shared, early>>
  BY DEF HandleConnectExitEmit, Removed, Key, IndInv, PinInv
<1>2. /\ SlotInv' /\ ShareInv' /\ FreshInv' /\ PinInv'
      /\ call' \in [Threads -> 0..MaxCalls]
      /\ connect_start' \in [Processes -> 0..MaxCalls]
      /\ pinned' \in [Threads -> 0..MaxCalls]
  BY <1>1, LeaveKeeps
<1>3. AttachInv'
  BY <1>1 DEF IndInv, AttachInv, Typing
<1>4. events \in Seq(Event)
  BY DEF IndInv, Typing
<1>5. CASE events' = events
  BY <1>1, <1>2, <1>3, <1>5 DEF IndInv, Typing, PairedAlone
<1>6. ASSUME NEW c \in Shown(t),
             events' = Append(events, [thread |-> t, ret |-> call[t], start |-> c])
      PROVE  IndInv'
  <2>1. /\ call[t] \in Ids /\ pinned[t] \in Ids /\ calls \in 0..MaxCalls /\ MaxCalls \in Nat
    BY <1>1, Constants DEF IndInv, Typing, Ids
  <2>2. c \in Ids
    BY <1>6, <2>1 DEF Shown, Ids
  <2>3. PICK e \in Event : e = [thread |-> t, ret |-> call[t], start |-> c]
    BY <2>1, <2>2 DEF Event
  <2>4. (e.ret \notin shared /\ e.start \notin early) => e.start = e.ret
    <3>1. call[t] \notin shared =>
            /\ connect_start[Process[t]] = pinned[t]
            /\ pinned[t] = call[t] \/ pinned[t] \in early
      BY <1>1 DEF IndInv, PinInv
    <3>2. call[t] \notin shared => c = pinned[t]
      BY <1>6, <3>1 DEF Shown, Key
    <3> QED BY <2>3, <3>1, <3>2
  <2>5. events' = Append(events, e)
    BY <1>6, <2>3
  <2>6. /\ events' \in Seq(Event)
        /\ DOMAIN events' = 1..(Len(events) + 1) /\ DOMAIN events = 1..Len(events)
        /\ Len(events) \in Nat
        /\ \A k \in DOMAIN events : events'[k] = events[k]
        /\ events'[Len(events) + 1] = e
    BY <1>4, <2>5, AppendProperties
  <2>7. PairedAlone'
    <3> SUFFICES ASSUME NEW k \in DOMAIN events', events'[k].ret \notin shared,
                        events'[k].start \notin early
                 PROVE  events'[k].start = events'[k].ret
      BY <1>1 DEF PairedAlone
    <3>1. CASE k \in DOMAIN events
      BY <2>6, <3>1 DEF IndInv, PairedAlone
    <3>2. CASE k = Len(events) + 1
      BY <2>4, <2>6, <3>2
    <3> QED BY <2>6, <3>1, <3>2
  <2>8. Typing'
    BY <1>1, <1>2, <2>6 DEF IndInv, Typing
  <2> QED BY <1>2, <1>3, <2>7, <2>8 DEF IndInv
<1> QED BY <1>5, <1>6 DEF HandleConnectExitEmit

LEMMA ReturnStep ==
    ASSUME IndInv, NEW t \in Threads, ConnectReturn(t)
    PROVE  IndInv'
<1>1. /\ ~attached /\ call[t] # 0 /\ call' = [call EXCEPT ![t] = 0]
      /\ UNCHANGED <<connect_start, pinned, attached, events, calls, shared, early>>
      /\ call \in [Threads -> 0..MaxCalls] /\ calls \in 0..MaxCalls /\ MaxCalls \in Nat
  BY Constants DEF ConnectReturn, IndInv, Typing
<1>2. \A u \in Threads : pinned[u] = 0 /\ (call[u] # 0 => call[u] \in early)
  BY <1>1 DEF IndInv, AttachInv
<1>3. SlotInv'
  BY <1>1, <1>2 DEF IndInv, SlotInv
<1>4. FreshInv'
  BY <1>1 DEF IndInv, FreshInv
<1>5. Typing' /\ ShareInv' /\ PinInv' /\ AttachInv' /\ PairedAlone'
  BY <1>1, <1>2 DEF IndInv, Typing, ShareInv, PinInv, AttachInv, PairedAlone
<1> QED BY <1>3, <1>4, <1>5 DEF IndInv

LEMMA IndStep == IndInv /\ [Next]_vars => IndInv'
<1> SUFFICES ASSUME IndInv, [Next]_vars PROVE IndInv'
  OBVIOUS
<1>1. CASE AttachExit \/ UNCHANGED vars
  <2>1. /\ UNCHANGED <<call, connect_start, pinned, events, calls, shared, early>>
        /\ attached' = TRUE \/ attached' = attached
    BY <1>1 DEF AttachExit, vars
  <2>2. Typing' /\ AttachInv'
    BY <2>1 DEF IndInv, Typing, AttachInv
  <2>3. SlotInv' /\ ShareInv' /\ FreshInv' /\ PinInv' /\ PairedAlone'
    BY <2>1 DEF IndInv, SlotInv, ShareInv, FreshInv, PinInv, PairedAlone
  <2> QED BY <2>2, <2>3 DEF IndInv
<1>2. ASSUME NEW t \in Threads,
             \/ HandleConnectEnter(t) \/ HandleConnectExit(t)
             \/ HandleConnectExitLookup(t) \/ HandleConnectExitEmit(t)
             \/ ConnectReturn(t)
      PROVE  IndInv'
  BY <1>2, EnterStep, ExitStep, LookupStep, EmitStep, ReturnStep
<1> QED BY <1>1, <1>2 DEF Next

LEMMA Invariance == Spec => []IndInv
BY InitInd, IndStep, PTL DEF Spec

\* A call that overlapped no other of its process gets its own event.
THEOREM AloneIsPaired == Spec => []PairedAlone
<1>1. IndInv => PairedAlone
  BY DEF IndInv
<1> QED BY <1>1, Invariance, PTL

\* A process that is in no call holds no slot.
THEOREM SlotsAreFreed == Spec => []NothingLeft
<1>1. IndInv => NothingLeft
  <2> SUFFICES ASSUME IndInv, NEW p \in Processes, InCall(p) = {}, connect_start[p] # 0
               PROVE  connect_start[p] \in early
    BY DEF NothingLeft
  <2> QED BY DEF IndInv, SlotInv, InCall
<1> QED BY <1>1, Invariance, PTL
-----------------------------------------------------------------------------
\* The slots in use.
Used == {p \in Processes : connect_start[p] # 0}

RoomInv == Cardinality(Used) <= Capacity

LEMMA ProcessesFinite == IsFiniteSet(Processes)
<1> DEFINE f == [t \in Threads |-> Process[t]]
<1>1. f \in Surjection(Threads, Processes)
  BY DEF Surjection, Processes
<1> QED BY <1>1, FS_Surjection, ConnectAssumption

LEMMA UsedFinite == IsFiniteSet(Used) /\ Cardinality(Used) \in Nat
BY ProcessesFinite, FS_Subset, FS_CardinalityType DEF Used

\* Entry takes one slot at most, and only a free one when there is one.
LEMMA EnterUsed ==
    ASSUME IndInv, RoomInv, NEW t \in Threads, HandleConnectEnter(t)
    PROVE  RoomInv'
<1> PICK p : p = Process[t]
  OBVIOUS
<1>1. /\ p \in Processes /\ connect_start \in [Processes -> 0..MaxCalls]
      /\ connect_start' = connect_start
           \/ (HasRoom(p) /\ connect_start' = [connect_start EXCEPT ![p] = calls + 1])
  BY Constants DEF HandleConnectEnter, IndInv, Typing, Key
<1>2. CASE connect_start' = connect_start
  BY <1>2 DEF Used, RoomInv
<1>3. CASE HasRoom(p) /\ connect_start' = [connect_start EXCEPT ![p] = calls + 1]
  <2>1. calls + 1 # 0
    BY Constants DEF IndInv, Typing
  <2>2. Used' = Used \cup {p}
    BY <1>1, <1>3, <2>1 DEF Used
  <2>3. p \in Used \/ Cardinality(Used) < Capacity
    BY <1>1, <1>3 DEF HasRoom, Used
  <2>4. Cardinality(Used') = IF p \in Used THEN Cardinality(Used) ELSE Cardinality(Used) + 1
    BY <2>2, UsedFinite, FS_AddElement
  <2>5. Cardinality(Used') <= Capacity
    BY <2>3, <2>4, UsedFinite, Constants DEF RoomInv
  <2> QED BY <2>5 DEF RoomInv, Used
<1> QED BY <1>1, <1>2, <1>3

LEMMA UsedStep == IndInv /\ RoomInv /\ [Next]_vars => RoomInv'
<1> SUFFICES ASSUME IndInv, RoomInv, [Next]_vars PROVE RoomInv'
  OBVIOUS
<1>1. ASSUME NEW t \in Threads, HandleConnectExit(t) \/ HandleConnectExitEmit(t)
      PROVE  RoomInv'
  <2>1. Used' \in SUBSET Used
    BY <1>1 DEF HandleConnectExit, HandleConnectExitEmit, Removed, Key, Used, IndInv, Typing
  <2>2. Cardinality(Used') <= Cardinality(Used)
    BY <2>1, UsedFinite, FS_Subset
  <2>3. Cardinality(Used') \in Nat
    BY <2>1, UsedFinite, FS_Subset, FS_CardinalityType
  <2> QED BY <2>2, <2>3, UsedFinite, Constants DEF RoomInv
<1>2. CASE UNCHANGED connect_start
  BY <1>2 DEF Used, RoomInv
<1>3. \/ UNCHANGED connect_start
      \/ \E t \in Threads : \/ HandleConnectEnter(t)
                            \/ HandleConnectExit(t) \/ HandleConnectExitEmit(t)
  BY DEF Next, AttachExit, HandleConnectExitLookup, ConnectReturn, vars
<1> QED BY <1>1, <1>2, <1>3, EnterUsed

\* Every variable keeps its type, and no more slots are used than there are.
THEOREM TypeCorrect == Spec => []TypeOK
<1>1. Init => RoomInv
  <2> SUFFICES ASSUME Init PROVE RoomInv
    OBVIOUS
  <2>1. Used = {}
    BY DEF Init, Used
  <2> QED BY <2>1, FS_EmptySet, Constants DEF RoomInv
<1>2. IndInv /\ RoomInv => TypeOK
  BY DEF RoomInv, IndInv, Typing, TypeOK, Used, Event
<1> QED BY <1>1, <1>2, Invariance, UsedStep, PTL DEF Spec
=============================================================================
