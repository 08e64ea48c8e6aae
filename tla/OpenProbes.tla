----------------------------- MODULE OpenProbes -----------------------------
(***************************************************************************)
(* The hooks of src/bpf/trace.c on the system calls that open files: three *)
(* on entry, for open, openat and openat2, and one on exit, for openat     *)
(* alone.  openat_start carries what the entry knows to the exit, keyed by *)
(* process and thread.  Calls of several threads interleave; a thread id   *)
(* is used again after its thread has ended, with what is left under it.   *)
(***************************************************************************)
EXTENDS Naturals, Sequences, FiniteSets

CONSTANTS
    Threads,          \* keys: thread ids with their process id
    Process,          \* the process of each thread id
    Comms, TrackedCommands, IgnoredCommands,
    Files,            \* the names of files
    NoisyFiles,       \* those is_noise turns away
    Capacity,         \* max_entries of openat_start (10240)
    MaxCalls          \* model bound

ASSUME OpenAssumption ==
    /\ IsFiniteSet(Threads)
    /\ Process \in [Threads -> Threads]
    /\ Comms # {}
    /\ TrackedCommands \subseteq Comms /\ IgnoredCommands \subseteq Comms
    /\ NoisyFiles \subseteq Files
    /\ {Capacity, MaxCalls} \subseteq Nat

VARIABLES
    comm,           \* the name of each thread
    call,           \* the call it is in, Idle if none
    openat_start,   \* thread -> what its entry hook stored, Absent if nothing
    attached,       \* the exit hook is attached; the entry hooks came first
    events,         \* the openat events submitted, in order
    calls           \* how many so far; the time, as each call enters once

vars == <<comm, call, openat_start, attached, events, calls>>

Kinds == {"open", "openat", "openat2"}
Idle == [kind |-> "none", id |-> 0]

\* struct openat_info.  The identity of the call stands for the time it
\* entered; kind is history, and so is whether the exit hook was attached.
Absent == [id |-> 0, kind |-> "none"]
IsStored(t) == openat_start[t] # Absent

Init ==
    /\ comm \in [Threads -> Comms]
    /\ call = [t \in Threads |-> Idle]
    /\ openat_start = [t \in Threads |-> Absent]
    /\ attached = FALSE
    /\ events = << >>
    /\ calls = 0
-----------------------------------------------------------------------------
\* Mutant of IsNoise: the prefixes are not tested.
OnlyUnreadable(file) == FALSE

\* Three letters of prefix are compared, not a path component, so what is
\* noisy is more than what lies under the three directories.
IsNoise(file) == file \in NoisyFiles

\* Allowed by name, or below a tracked task: which it is does not change
\* between entry and exit, so the second is left to ProcessTree.
Traced(t) == comm[t] \in TrackedCommands /\ comm[t] \notin IgnoredCommands

\* Mutant of Key: the process instead of the thread.
ProcessKey(t) == Process[t]

Key(t) == t

HasRoom(t) ==
    IsStored(t) \/ Cardinality({u \in Threads : IsStored(u)}) < Capacity

\* trace_open_common: the file is noise, or its name cannot be read, or the
\* thread is not traced, or the map is full: nothing is stored, and an older
\* entry stays.
TraceOpenCommon(t, kind, file) ==
    LET info == [id |-> calls + 1, kind |-> kind, file |-> file, comm |-> comm[t],
                attached |-> attached] IN
    /\ call[t] = Idle /\ calls < MaxCalls
    /\ calls' = calls + 1
    /\ call' = [call EXCEPT ![t] = [kind |-> kind, id |-> calls + 1]]
    /\ openat_start' \in
         IF ~IsNoise(file) /\ Traced(t) /\ HasRoom(Key(t))
           THEN {[openat_start EXCEPT ![Key(t)] = info], openat_start}
           ELSE {openat_start}
    /\ UNCHANGED <<comm, attached, events>>

TraceOpenat(t)  == \E file \in Files : TraceOpenCommon(t, "openat", file)
TraceOpen(t)    == \E file \in Files : TraceOpenCommon(t, "open", file)
TraceOpenat2(t) == \E file \in Files : TraceOpenCommon(t, "openat2", file)

\* Mutant of Removed: a failed reserve returns before the entry is deleted.
RemovedIfSubmitted(t, submitted) ==
    IF submitted THEN [openat_start EXCEPT ![Key(t)] = Absent] ELSE openat_start

\* Mutant of Removed: the clean-up after a submitted event is missing.
RemovedIfDropped(t, submitted) ==
    IF submitted THEN openat_start ELSE [openat_start EXCEPT ![Key(t)] = Absent]

\* The entry is deleted whether the event found room in the ring buffer or not.
Removed(t, submitted) == [openat_start EXCEPT ![Key(t)] = Absent]

\* The return value of openat, which the event combines with the entry.
TraceOpenatExit(t) ==
    /\ attached /\ call[t].kind = "openat"
    /\ call' = [call EXCEPT ![t] = Idle]
    /\ IF IsStored(Key(t))
         THEN \E submitted \in BOOLEAN :
              /\ events' = IF submitted
                             THEN Append(events, [thread |-> t, ret |-> call[t].id,
                                                  info |-> openat_start[Key(t)]])
                             ELSE events
              /\ openat_start' = Removed(t, submitted)
         ELSE UNCHANGED <<events, openat_start>>
    /\ UNCHANGED <<comm, attached, calls>>

\* A call returns and no program is attached to its exit: open and openat2
\* always, openat while the daemon is still attaching.
OpenExit(t) ==
    /\ call[t].kind \in {"open", "openat2"} \/ (call[t].kind = "openat" /\ ~attached)
    /\ call' = [call EXCEPT ![t] = Idle]
    /\ UNCHANGED <<comm, openat_start, attached, events, calls>>

\* The thread gets another name, by exec or prctl, or ends and its ids are
\* used again.
Rename(t) ==
    /\ call[t] = Idle
    /\ \E c \in Comms \ {comm[t]} : comm' = [comm EXCEPT ![t] = c]
    /\ UNCHANGED <<call, openat_start, attached, events, calls>>

\* The daemon attaches the exit hook, after the entry hooks.
AttachExit ==
    /\ ~attached /\ attached' = TRUE
    /\ UNCHANGED <<comm, call, openat_start, events, calls>>

Next == \/ AttachExit
        \/ \E t \in Threads :
             \/ TraceOpenat(t) \/ TraceOpen(t) \/ TraceOpenat2(t)
             \/ TraceOpenatExit(t) \/ OpenExit(t) \/ Rename(t)

Spec == Init /\ [][Next]_vars
-----------------------------------------------------------------------------
(* Properties.                                                             *)

Ids == 1..MaxCalls
OpenatInfo == [id : Ids, kind : Kinds, file : Files \ NoisyFiles, comm : Comms,
               attached : BOOLEAN]

\* Types; in particular an event or an entry never shows a noisy file.
TypeOK ==
    /\ comm \in [Threads -> Comms]
    /\ call \in [Threads -> [kind : Kinds, id : Ids] \cup {Idle}]
    /\ openat_start \in [Threads -> OpenatInfo \cup {Absent}]
    /\ attached \in BOOLEAN
    /\ events \in Seq([thread : Threads, ret : Ids, info : OpenatInfo])
    /\ calls \in 0..MaxCalls

\* Whatever is filtered, refused by a full map or lost in a full ring, an
\* event never combines two calls of openat: the file, the name and the time
\* of entry are of the call whose return value it has, or were left by a
\* call of open or openat2, or before the daemon had attached its exit hook.
OneOpenat ==
    \A k \in DOMAIN events :
        (events[k].info.kind = "openat" /\ events[k].info.attached)
            => events[k].info.id = events[k].ret

\* No call is reported twice: neither its entry nor its return value.
ReportedOnce ==
    \A j, k \in DOMAIN events :
        j # k => /\ events[j].info.id # events[k].info.id
                 /\ events[j].ret # events[k].ret

\* "Look up the enter info ... no matching enter event": the entry an event
\* is made of matches the call that returned, once all hooks are attached.
MatchingEnter ==
    \A k \in DOMAIN events : events[k].info.attached => events[k].info.id = events[k].ret
=============================================================================
