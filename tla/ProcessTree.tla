---------------------------- MODULE ProcessTree ----------------------------
(***************************************************************************)
(* The process tree that handle_fork and handle_execve of src/bpf/trace.c  *)
(* keep in child_root, so that what runs below a tracked command is traced *)
(* whatever its name is.  The map is keyed by task id and nothing deletes  *)
(* from it, so an entry outlives its task and meets the next holder of the *)
(* id.  Both hooks run in the context of the task they are about, before   *)
(* the child is woken and before the name changes: each is one step.       *)
(***************************************************************************)
EXTENDS Naturals, FiniteSets

CONSTANTS
    Pids,        \* task ids
    Shell,       \* the task everything is started from
    NoPid,       \* no task id
    Comms,       \* task names
    NoComm,      \* a name field that was never written
    allowed_commands,
    Capacity,    \* max_entries of child_root (1024)
    MaxForks     \* model bound

ASSUME TreeAssumption ==
    /\ IsFiniteSet(Pids) /\ Shell \in Pids /\ NoPid \notin Pids
    /\ Comms # {} /\ NoComm \notin Comms
    /\ allowed_commands \subseteq Comms
    /\ {Capacity, MaxForks} \subseteq Nat

VARIABLES
    status,      \* what each task is doing
    comm,        \* its name
    child_root,  \* task id -> process_info, NoEntry if absent
    root,        \* history: the nearest task above that forked while allowed
    parent,      \* history: the task that forked it
    refused,     \* history: tasks whose entry, or an ancestor's, found no room
    forks        \* how many so far

vars == <<status, comm, child_root, root, parent, refused, forks>>

\* struct process_info
NoEntry == [ppid |-> NoPid, rpid |-> NoPid, fork_comm |-> NoComm, current_comm |-> NoComm]

Recorded(t) == child_root[t] # NoEntry
Live(t) == status[t] # "free"

Init ==
    /\ status = [t \in Pids |-> IF t = Shell THEN "running" ELSE "free"]
    /\ \E c \in Comms \ allowed_commands : comm = [t \in Pids |-> c]
    /\ child_root = [t \in Pids |-> NoEntry]
    /\ root = [t \in Pids |-> NoPid]
    /\ parent = [t \in Pids |-> NoPid]
    /\ refused = {}
    /\ forks = 0
-----------------------------------------------------------------------------
Allowed(t) == comm[t] \in allowed_commands

\* An update of the map: a new key needs a free entry, an old one does not,
\* and the result of the update is not looked at.
HasRoom(t) == Recorded(t) \/ Cardinality({u \in Pids : Recorded(u)}) < Capacity

\* Mutant of RootFor: the branch for a parent of a tracked name is missing.
InheritedRoot(u) == child_root[u].rpid

\* Mutant of RootFor: the topmost ancestor, although the parent is tracked.
TopmostRoot(u) == IF Recorded(u) THEN child_root[u].rpid ELSE u

\* A parent of a tracked name is the root of its children, whatever tree it
\* belongs to itself.
RootFor(u) == IF Allowed(u) THEN u ELSE child_root[u].rpid

Entry(u) == [ppid |-> u, rpid |-> RootFor(u), fork_comm |-> comm[u],
             current_comm |-> NoComm]

\* Mutant of Stored: as with BPF_NOEXIST, an entry of an earlier holder of
\* the id stays.
StoredIfAbsent(u, t) ==
    IF Recorded(t) THEN child_root ELSE [child_root EXCEPT ![t] = Entry(u)]

Stored(u, t) == [child_root EXCEPT ![t] = Entry(u)]

\* u forks t.
HandleFork(u, t) ==
    /\ status[u] = "running" /\ ~Live(t)
    /\ forks < MaxForks /\ forks' = forks + 1
    /\ status' = [status EXCEPT ![t] = "running"]
    /\ comm' = [comm EXCEPT ![t] = comm[u]]
    /\ child_root' = IF (Allowed(u) \/ Recorded(u)) /\ HasRoom(t)
                       THEN Stored(u, t) ELSE child_root
    /\ root' = [root EXCEPT ![t] = IF Allowed(u) THEN u ELSE root[u]]
    /\ parent' = [parent EXCEPT ![t] = u]
    /\ refused' = IF \/ (Allowed(u) \/ Recorded(u)) /\ ~HasRoom(t)
                     \/ ~Allowed(u) /\ u \in refused
                    THEN refused \cup {t} ELSE refused \ {t}

\* The hook is on the entry of execve, so the name it copies is the one the
\* task is about to lose.
HandleExecve(t) ==
    /\ status[t] = "running"
    /\ status' = [status EXCEPT ![t] = "execing"]
    /\ child_root' = IF Recorded(t)
                       THEN [child_root EXCEPT ![t].current_comm = comm[t]]
                       ELSE child_root
    /\ UNCHANGED <<comm, root, parent, refused, forks>>

\* execve returns: the task has the name of the new program, or has failed
\* and keeps its own.  prctl changes a name too, without a hook.
FinishExec(t) ==
    /\ status[t] = "execing"
    /\ status' = [status EXCEPT ![t] = "running"]
    /\ \E c \in Comms : comm' = [comm EXCEPT ![t] = c]
    /\ UNCHANGED <<child_root, root, parent, refused, forks>>

Exit(t) ==
    /\ t # Shell /\ status[t] = "running"
    /\ status' = [status EXCEPT ![t] = "free"]
    /\ UNCHANGED <<comm, child_root, root, parent, refused, forks>>

Next == \/ \E u, t \in Pids : HandleFork(u, t)
        \/ \E t \in Pids : HandleExecve(t) \/ FinishExec(t) \/ Exit(t)

Spec == Init /\ [][Next]_vars
-----------------------------------------------------------------------------
(* Properties.                                                             *)

ProcessInfo == [ppid : Pids, rpid : Pids, fork_comm : Comms,
                current_comm : Comms \cup {NoComm}]

TypeOK ==
    /\ status \in [Pids -> {"free", "running", "execing"}]
    /\ comm \in [Pids -> Comms]
    /\ child_root \in [Pids -> ProcessInfo \cup {NoEntry}]
    /\ root \in [Pids -> Pids \cup {NoPid}]
    /\ parent \in [Pids -> Pids \cup {NoPid}]
    /\ refused \subseteq Pids
    /\ forks \in 0..MaxForks

\* A live task below a tracked one is in the map, with its true parent and
\* the root its real lineage gives it: ids used again, stale entries and
\* changed names never corrupt the tree of a task whose entries found room.
FamilyKnown ==
    \A t \in Pids :
        (Live(t) /\ root[t] # NoPid /\ t \notin refused) =>
            /\ Recorded(t)
            /\ child_root[t].rpid = root[t]
            /\ child_root[t].ppid = parent[t]
=============================================================================
