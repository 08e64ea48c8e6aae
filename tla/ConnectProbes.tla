--------------------------- MODULE ConnectProbes ---------------------------
(***************************************************************************)
(* The two hooks of src/bpf/trace.c on connect.  connect_start carries the *)
(* address and the time of entry to the exit hook and is keyed by process, *)
(* so the threads of a process share one slot.                             *)
(*                                                                         *)
(* The exit hook looks its slot up, and uses the pointer it got until the  *)
(* event is submitted; the hooks of other threads run on other CPUs at the *)
(* same time.  Its lookup and the rest are two steps here.  The map is     *)
(* preallocated: an element that is replaced or deleted meanwhile is free, *)
(* and the pointer shows its old content or that of its next use.          *)
(***************************************************************************)
EXTENDS Naturals, Sequences, FiniteSets

CONSTANTS
    Threads,
    Process,          \* the process of each thread, and the key of its slot
    TracedProcesses,  \* of a tracked name, or below a tracked task, not ignored
    Capacity,         \* max_entries of connect_start (1024)
    MaxCalls          \* model bound

Processes == {Process[t] : t \in Threads}

ASSUME ConnectAssumption ==
    /\ IsFiniteSet(Threads)
    /\ TracedProcesses \subseteq Processes
    /\ {Capacity, MaxCalls} \subseteq Nat

VARIABLES
    call,           \* the call each thread is in, 0 if none
    connect_start,  \* process -> the call whose entry hook stored last, 0 if absent
    pinned,         \* what the exit hook of a thread found, 0 while it has not run
    attached,       \* the exit hook is attached; the entry hook came first
    events,         \* the connect events submitted, in order
    calls,          \* how many so far; a call stands for its address and time
    shared,         \* history: calls that overlapped another of their process
    early           \* history: calls that entered before the exit hook was attached

vars == <<call, connect_start, pinned, attached, events, calls, shared, early>>

InCall(p) == {t \in Threads : Process[t] = p /\ call[t] # 0}

Init ==
    /\ call = [t \in Threads |-> 0]
    /\ connect_start = [p \in Processes |-> 0]
    /\ pinned = [t \in Threads |-> 0]
    /\ attached = FALSE
    /\ events = << >>
    /\ calls = 0
    /\ shared = {} /\ early = {}
-----------------------------------------------------------------------------
\* Mutant of HasRoom: off by one.
HasRoomForOneMore(p) ==
    \/ connect_start[p] # 0
    \/ Cardinality({q \in Processes : connect_start[q] # 0}) <= Capacity

HasRoom(p) ==
    \/ connect_start[p] # 0
    \/ Cardinality({q \in Processes : connect_start[q] # 0}) < Capacity

\* Mutant of Key: one slot for every process.
OneKey(t) == CHOOSE p \in Processes : TRUE

Key(t) == Process[t]

\* Every process that connects stores its address, traced or not.  An address
\* that cannot be read or is not IPv4 is passed over; what the slot has stays.
HandleConnectEnter(t) ==
    LET p == Process[t]
        id == calls + 1
    IN
    /\ call[t] = 0 /\ calls < MaxCalls
    /\ calls' = id
    /\ call' = [call EXCEPT ![t] = id]
    /\ connect_start' \in
         IF HasRoom(Key(t)) THEN {connect_start, [connect_start EXCEPT ![Key(t)] = id]}
                       ELSE {connect_start}
    /\ shared' = IF InCall(p) # {} THEN shared \cup {id} \cup {call[u] : u \in InCall(p)}
                                   ELSE shared
    /\ early' = IF attached THEN early ELSE early \cup {id}
    /\ UNCHANGED <<pinned, attached, events>>

\* Mutant of Removed: an untraced process leaves its entry.
RemovedIfTraced(t, traced) ==
    IF traced THEN [connect_start EXCEPT ![Key(t)] = 0] ELSE connect_start

\* Whatever the reason the hook ends for, it deletes what its slot has now.
Removed(t, traced) == [connect_start EXCEPT ![Key(t)] = 0]

\* The exit hook of a thread whose slot is empty ends, and so does one of an
\* ignored or untraced process, after deleting.
HandleConnectExit(t) ==
    /\ attached /\ call[t] # 0 /\ pinned[t] = 0
    /\ connect_start[Key(t)] = 0 \/ Process[t] \notin TracedProcesses
    /\ call' = [call EXCEPT ![t] = 0]
    /\ connect_start' = IF connect_start[Key(t)] = 0 THEN connect_start
                                                     ELSE Removed(t, FALSE)
    /\ UNCHANGED <<pinned, attached, events, calls, shared, early>>

\* The lookup succeeds, and the process is traced.
HandleConnectExitLookup(t) ==
    /\ attached /\ call[t] # 0 /\ pinned[t] = 0
    /\ connect_start[Key(t)] # 0 /\ Process[t] \in TracedProcesses
    /\ pinned' = [pinned EXCEPT ![t] = connect_start[Key(t)]]
    /\ UNCHANGED <<call, connect_start, attached, events, calls, shared, early>>

\* What the pointer shows: the element, or, when it is no longer in the map,
\* any content the map has been given since.
Shown(t) ==
    {pinned[t]} \cup (IF connect_start[Key(t)] = pinned[t] THEN {}
                                                  ELSE pinned[t]..calls)

\* The event combines the entry with the return value of the call.  If the
\* ring is full there is none; the entry is deleted all the same.
HandleConnectExitEmit(t) ==
    /\ pinned[t] # 0
    /\ \/ \E c \in Shown(t) :
            events' = Append(events, [thread |-> t, ret |-> call[t], start |-> c])
       \/ UNCHANGED events
    /\ connect_start' = Removed(t, TRUE)
    /\ pinned' = [pinned EXCEPT ![t] = 0]
    /\ call' = [call EXCEPT ![t] = 0]
    /\ UNCHANGED <<attached, calls, shared, early>>

\* A call returns while the daemon is still attaching.
ConnectReturn(t) ==
    /\ ~attached /\ call[t] # 0
    /\ call' = [call EXCEPT ![t] = 0]
    /\ UNCHANGED <<connect_start, pinned, attached, events, calls, shared, early>>

AttachExit ==
    /\ ~attached /\ attached' = TRUE
    /\ UNCHANGED <<call, connect_start, pinned, events, calls, shared, early>>

Next == \/ AttachExit
        \/ \E t \in Threads :
             \/ HandleConnectEnter(t) \/ HandleConnectExit(t)
             \/ HandleConnectExitLookup(t) \/ HandleConnectExitEmit(t)
             \/ ConnectReturn(t)

Spec == Init /\ [][Next]_vars
-----------------------------------------------------------------------------
(* Properties.                                                             *)

Ids == 1..MaxCalls

TypeOK ==
    /\ call \in [Threads -> 0..MaxCalls]
    /\ connect_start \in [Processes -> 0..MaxCalls]
    /\ Cardinality({p \in Processes : connect_start[p] # 0}) <= Capacity
    /\ pinned \in [Threads -> 0..MaxCalls]
    /\ attached \in BOOLEAN
    /\ events \in Seq([thread : Threads, ret : Ids, start : Ids])
    /\ calls \in 0..MaxCalls
    /\ shared \subseteq Ids /\ early \subseteq Ids

\* The event of a call that overlapped no other call of its process shows the
\* address and the time of that call, whatever other processes do meanwhile
\* and whatever an earlier call has left in the slot, unless the hooks were
\* just being attached.
PairedAlone ==
    \A k \in DOMAIN events :
        LET e == events[k] IN
        (e.ret \notin shared /\ e.start \notin early) => e.start = e.ret

\* A process none of whose threads is in a call holds no slot, unless the
\* hooks were just being attached: the map cannot fill up with leftovers.
NothingLeft ==
    \A p \in Processes :
        (InCall(p) = {} /\ connect_start[p] # 0) => connect_start[p] \in early
=============================================================================
