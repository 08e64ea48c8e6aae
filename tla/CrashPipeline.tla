--------------------------- MODULE CrashPipeline ---------------------------
(***************************************************************************)
(* From the death of a process to its crash report: the kernel's signal    *)
(* and exit machinery as the eBPF programs of src/bpf/trace.c see it, the  *)
(* maps and the ring buffer those programs share with the daemon, and the  *)
(* daemon's event loop in src/cmd/amon/main.go.                            *)
(*                                                                         *)
(* A program attached to a hook runs to its end at that hook, so each      *)
(* kernel step with its program is one action.  The daemon handles one     *)
(* record at a time in one goroutine and is the only user of its tables,   *)
(* so each handler is one action; it runs any time after the record was    *)
(* submitted, when the process it is about may be gone and its PID given   *)
(* to another.  An incarnation <<p, i>> is the i-th process with PID p.    *)
(***************************************************************************)
EXTENDS Integers, Sequences, FiniteSets

CONSTANTS
    Tasks, Leader,       \* thread ids, and the thread group (PID) of each
    Comms,               \* the task names that occur
    TrackedCommands,     \* config: tracked_commands
    IgnoredCommands,     \* config: ignored_commands
    MemoryFaults,        \* signals the force_sig_fault probe keeps: SEGV, BUS
    OtherCrashes,        \* the other crash signals: ABRT, ILL, FPE
    Buckets,             \* slots of the stack_traces map (1024)
    RingCapacity,        \* records the ring buffer holds (16 MiB)
    PendingCapacity,     \* max_entries of pending_signals (1024)
    MaxRuns,             \* model bound: incarnations of a PID
    MaxSignals,          \* model bound: crash signals generated
    MaxSyscalls          \* model bound: records of system calls

Processes == {Leader[t] : t \in Tasks}
Threads(p) == {t \in Tasks : Leader[t] = p}
Incarnation == Processes \X (1..MaxRuns)
Crashes == MemoryFaults \cup OtherCrashes
NoSignal == "none"     \* not a signal
Exited == "exited"     \* an exit code without a crash signal

ASSUME PipelineAssumption ==
    /\ Leader \in [Tasks -> Tasks]
    /\ \A t \in Tasks : Leader[Leader[t]] = Leader[t]
    /\ IsFiniteSet(Tasks)
    /\ Comms # {}
    /\ TrackedCommands \subseteq Comms /\ IgnoredCommands \subseteq Comms
    /\ NoSignal \notin Crashes /\ Exited \notin Crashes
    /\ Buckets \subseteq Nat
    /\ {RingCapacity, PendingCapacity, MaxRuns, MaxSignals, MaxSyscalls} \subseteq Nat

VARIABLES
    \* the kernel
    run,              \* the current incarnation of each PID, 0 before the first
    task,             \* what each thread is doing
    comm,             \* its name
    pending,          \* the crash signal generated for it
    exitCode,         \* the group exit code, NoSignal while there is none
    \* the BPF maps and the ring buffer
    child_root,       \* its keys: tasks forked below a tracked one, never deleted
    pending_signals,  \* tgid -> context of the last memory fault, Nothing if absent
    stack_traces,     \* bucket -> captured stack, 0 for an empty bucket
    ring,
    \* the daemon
    registry,         \* PID -> incarnations with events in its buffer, {} for none
    signalInfoMap,    \* PID -> what the last signal event said, NoInfo if absent
    reports,          \* incarnation -> the reports handed to the writer for it
    \* history
    death,            \* incarnation -> the signal that set its exit code
    closed,           \* incarnations whose crash exit the daemon has handled
    missed,           \* incarnations whose last crash signal left no record
    leftover,         \* incarnations with a context whose delivery is past
    overlapped,       \* incarnations with crash signals of two threads at a time
    signals, syscalls \* how many so far

kernel  == <<run, task, comm, pending, exitCode>>
bpf     == <<child_root, pending_signals, stack_traces>>
daemon  == <<registry, signalInfoMap, reports, closed>>
history == <<death, missed, leftover, overlapped, signals, syscalls>>
vars    == <<kernel, bpf, ring, daemon, history>>

\* A crash signal: its number, its identity, which stands for the stack of that
\* moment, and the fault address the probe has recorded of it, which is told by
\* the same identity.
Nothing == [sig |-> NoSignal, id |-> 0, addr |-> 0]
\* A fault address of 0 and a stack of 0 stand for none.
NoInfo == [id |-> 0, sig |-> NoSignal, addr |-> 0, stack |-> 0]
NoStackId == -1

Current(p) == <<p, run[p]>>
Live(t) == task[t] \notin {"none", "dead"}
Gone(p) == \A t \in Threads(p) : ~Live(t)

Init ==
    /\ run = [p \in Processes |-> 0]
    /\ task = [t \in Tasks |-> "none"]
    /\ comm = [t \in Tasks |-> CHOOSE c \in Comms : TRUE]
    /\ pending = [t \in Tasks |-> Nothing]
    /\ exitCode = [p \in Processes |-> NoSignal]
    /\ child_root = {}
    /\ pending_signals = [p \in Processes |-> Nothing]
    /\ stack_traces = [b \in Buckets |-> 0]
    /\ ring = << >>
    /\ registry = [p \in Processes |-> {}]
    /\ signalInfoMap = [p \in Processes |-> NoInfo]
    /\ reports = [x \in Incarnation |-> << >>]
    /\ death = [x \in Incarnation |-> Nothing]
    /\ closed = {} /\ missed = {} /\ leftover = {} /\ overlapped = {}
    /\ signals = 0 /\ syscalls = 0
-----------------------------------------------------------------------------
(* What the eBPF programs share.                                           *)

\* The tests "allowed, or in child_root", by thread id and by group id.
TracedTask(t)  == comm[t] \in TrackedCommands \/ t \in child_root
TracedGroup(t) == comm[t] \in TrackedCommands \/ Leader[t] \in child_root

HasRoom == Len(ring) < RingCapacity

\* Mutant of Submitted: reserve is taken to succeed.
SubmittedAnyway(r) == Append(ring, r)

\* Reserve and submit; a record that finds the ring full is dropped.
Submitted(r) == IF HasRoom THEN Append(ring, r) ELSE ring

\* Updating a hash map: a new key needs a free entry, and nobody looks at
\* the result.
Storable(p) ==
    \/ pending_signals[p] # Nothing
    \/ Cardinality({q \in Processes : pending_signals[q] # Nothing}) < PendingCapacity
-----------------------------------------------------------------------------
(* The life of processes and threads.                                      *)

\* A PID is taken into use, by a process of some name, below a tracked
\* process or not.  An entry an earlier holder left in child_root stays.
Start(p) ==
    /\ Gone(p) /\ run[p] < MaxRuns
    /\ run' = [run EXCEPT ![p] = @ + 1]
    /\ task' = [t \in Tasks |-> IF t = p THEN "running"
                                ELSE IF Leader[t] = p THEN "none" ELSE task[t]]
    /\ pending' = [t \in Tasks |-> IF Leader[t] = p THEN Nothing ELSE pending[t]]
    /\ exitCode' = [exitCode EXCEPT ![p] = NoSignal]
    /\ \E c \in Comms : comm' = [comm EXCEPT ![p] = c]
    /\ child_root' \in {child_root, child_root \cup {p}}
    /\ leftover' = IF pending_signals[p] = Nothing THEN leftover
                    ELSE leftover \cup {<<p, run[p] + 1>>}
    /\ UNCHANGED <<pending_signals, stack_traces, ring, daemon,
                   death, missed, overlapped, signals, syscalls>>

\* u creates thread t; a full child_root does not take it.
Spawn(u, t) ==
    /\ Leader[u] = Leader[t] /\ task[u] = "running" /\ task[t] = "none"
    /\ exitCode[Leader[u]] = NoSignal
    /\ task' = [task EXCEPT ![t] = "running"]
    /\ comm' = [comm EXCEPT ![t] = comm[u]]
    /\ \/ TracedTask(u) /\ child_root' = child_root \cup {t}
       \/ UNCHANGED child_root
    /\ UNCHANGED <<run, pending, exitCode, pending_signals, stack_traces, ring,
                   daemon, history>>

Rename(t) ==
    /\ task[t] = "running"
    /\ \E c \in Comms \ {comm[t]} : comm' = [comm EXCEPT ![t] = c]
    /\ UNCHANGED <<run, task, pending, exitCode, bpf, ring, daemon, history>>

\* exit_group by one of the threads, or a signal that is not a crash: the
\* process ends without a crash signal.
Terminate(p) ==
    /\ ~Gone(p) /\ exitCode[p] = NoSignal
    /\ exitCode' = [exitCode EXCEPT ![p] = Exited]
    /\ UNCHANGED <<run, task, comm, pending, bpf, ring, daemon, history>>

\* A single thread enters exit(2); it no longer looks at signals.
Leave(t) ==
    /\ task[t] = "running"
    /\ task' = [task EXCEPT ![t] = "leaving"]
    /\ UNCHANGED <<run, comm, pending, exitCode, bpf, ring, daemon, history>>
-----------------------------------------------------------------------------
(* System calls.  The pairing of enter and exit hooks has modules of its   *)
(* own; here a call of a traced task becomes one record.                   *)

Emit(t, kind) ==
    /\ task[t] = "running" /\ syscalls < MaxSyscalls
    /\ comm[t] \notin IgnoredCommands
    /\ ring' = Submitted([type |-> kind, inc |-> Current(Leader[t])])
    /\ syscalls' = syscalls + 1
    /\ UNCHANGED <<kernel, bpf, daemon, death, missed, leftover, overlapped, signals>>

TraceOpenatExit(t) == TracedTask(t) /\ Emit(t, "openat")

HandleConnectExit(t) == TracedGroup(t) /\ Emit(t, "connect")
-----------------------------------------------------------------------------
(* Crash signals: generated for a thread, then delivered when it returns   *)
(* to user mode.                                                           *)

Generate(t, ctx) ==
    /\ task[t] = "running" /\ signals < MaxSignals
    /\ task' = [task EXCEPT ![t] = "signalled"]
    /\ pending' = [pending EXCEPT ![t] = ctx]
    /\ signals' = signals + 1
    /\ overlapped' =
         IF \E u \in Threads(Leader[t]) \ {t} : task[u] \in {"signalled", "fatal"}
           THEN overlapped \cup {Current(Leader[t])} ELSE overlapped
    /\ UNCHANGED <<run, comm, exitCode, child_root, stack_traces, ring, daemon,
                   death, missed, leftover, syscalls>>

\* A memory fault: force_sig_fault runs, with the probe on it.
ProbeForceSigFault(t) ==
    LET p == Leader[t] IN
    \E s \in MemoryFaults :
        LET stored == TracedGroup(t) /\ Storable(p)
            ctx == [sig |-> s, id |-> signals + 1,
                    addr |-> IF stored THEN signals + 1 ELSE 0]
        IN  /\ Generate(t, ctx)
            /\ pending_signals' = IF stored THEN [pending_signals EXCEPT ![p] = ctx]
                                  ELSE pending_signals

\* A crash signal without a fault address: abort, raise, kill, and the
\* faults the probe does not keep.
SendSignal(t) ==
    /\ \E s \in Crashes : Generate(t, [sig |-> s, id |-> signals + 1, addr |-> 0])
    /\ UNCHANGED pending_signals

\* Mutant of Captured: a collision is not noticed.
CapturedAnyway(b, id) == b

\* bpf_get_stackid: the stack hashes to a bucket; a bucket that holds another
\* stack is not reused, and the capture fails.
Captured(b, id) == IF stack_traces[b] \in {0, id} THEN b ELSE NoStackId

\* Mutant of Consumed: the context stays after it was used.
ConsumedNever(p) == pending_signals

\* "Clean up"
Consumed(p) == [pending_signals EXCEPT ![p] = Nothing]

HandleSignalDeliver(t) ==
    LET p == Leader[t]
        ctx == pending[t]
        kept == pending_signals[p]
        match == kept.sig = ctx.sig
    IN
    /\ task[t] = "signalled" /\ exitCode[p] = NoSignal
    \* a handler of the program takes the signal, or it is fatal
    /\ \E next \in {"running", "fatal"} : task' = [task EXCEPT ![t] = next]
    /\ IF TracedGroup(t)
         THEN \E b \in Buckets :
              /\ stack_traces' = IF stack_traces[b] = 0
                                   THEN [stack_traces EXCEPT ![b] = ctx.id]
                                   ELSE stack_traces
              /\ pending_signals' = IF match THEN Consumed(p) ELSE pending_signals
              /\ ring' = Submitted([type |-> "signal", inc |-> Current(p),
                                    sig |-> ctx.sig, id |-> ctx.id,
                                    addr |-> IF match THEN kept.addr ELSE 0,
                                    stack_id |-> Captured(b, ctx.id)])
              /\ missed' = IF HasRoom THEN missed \ {Current(p)}
                           ELSE missed \cup {Current(p)}
              /\ UNCHANGED leftover
         ELSE /\ missed' = missed \cup {Current(p)}
              /\ leftover' = IF kept = Nothing THEN leftover
                             ELSE leftover \cup {Current(p)}
              /\ UNCHANGED <<stack_traces, pending_signals, ring>>
    /\ UNCHANGED <<run, comm, pending, exitCode, child_root, daemon,
                   death, overlapped, signals, syscalls>>

\* The first thread with a fatal signal to get here decides how the whole
\* group dies.
BeginGroupExit(t) ==
    /\ task[t] = "fatal" /\ exitCode[Leader[t]] = NoSignal
    /\ exitCode' = [exitCode EXCEPT ![Leader[t]] = pending[t].sig]
    /\ death' = [death EXCEPT ![Current(Leader[t])] = pending[t]]
    /\ UNCHANGED <<run, task, comm, pending, bpf, ring, daemon,
                   missed, leftover, overlapped, signals, syscalls>>

\* Mutant of OwnSignal: the last signal the thread got, fatal or not.
LastSignal(t) == pending[t].sig

\* The signal in the exit code of the task itself, which is what the program
\* reads: exit(2) sets it to the thread's own status.
OwnSignal(t) ==
    IF task[t] = "leaving" \/ exitCode[Leader[t]] = Exited
      THEN NoSignal ELSE exitCode[Leader[t]]

\* Mutant of GroupDead: the test of group_dead is dropped.
AnyThreadDead(t) == TRUE

GroupDead(t) == \A u \in Threads(Leader[t]) \ {t} : ~Live(u)

HandleExit(t) ==
    /\ task[t] = "leaving" \/ (Live(t) /\ exitCode[Leader[t]] # NoSignal)
    /\ task' = [task EXCEPT ![t] = "dead"]
    /\ ring' = IF TracedTask(t) /\ GroupDead(t)
                 THEN Submitted([type |-> "exit", inc |-> Current(Leader[t]),
                                 sig |-> OwnSignal(t), comm |-> comm[t]])
                 ELSE ring
    /\ UNCHANGED <<run, comm, pending, exitCode, bpf, daemon, history>>
-----------------------------------------------------------------------------
(* The daemon's event loop.  A record's PID selects the tables' entries;   *)
(* its incarnation is history, which the code does not have.               *)

Receive(type) == /\ ring # << >> /\ Head(ring).type = type
                 /\ ring' = Tail(ring)

\* GetOrCreate and Push.
Buffer(x) == registry' = [registry EXCEPT ![x[1]] = @ \cup {x[2]}]

HandleOpenatEvent ==
    /\ Receive("openat")
    /\ Buffer(Head(ring).inc)
    /\ UNCHANGED <<kernel, bpf, signalInfoMap, reports, closed, history>>

HandleConnectEvent ==
    /\ Receive("connect")
    /\ Buffer(Head(ring).inc)
    /\ UNCHANGED <<kernel, bpf, signalInfoMap, reports, closed, history>>

\* Mutant of Stored: one slot instead of one per PID.
StoredForAll(p, info) == [q \in Processes |-> info]

Stored(p, info) == [signalInfoMap EXCEPT ![p] = info]

HandleSignalEvent ==
    LET e == Head(ring) IN
    /\ Receive("signal")
    /\ signalInfoMap' = Stored(e.inc[1],
           [id |-> e.id, sig |-> e.sig, addr |-> e.addr,
            stack |-> IF e.stack_id = NoStackId THEN 0 ELSE stack_traces[e.stack_id]])
    /\ UNCHANGED <<kernel, bpf, registry, reports, closed, history>>

IsCrash(e) == e.sig \in Crashes

Report(e) == [sig |-> e.sig, owners |-> registry[e.inc[1]],
              info |-> signalInfoMap[e.inc[1]]]

\* Mutant of Freed: only the branch that reports deletes the buffer.
FreedIfTracked(p, tracked) == IF tracked THEN [registry EXCEPT ![p] = {}] ELSE registry

\* The registry after a crash: both branches delete the buffer.
Freed(p, tracked) == [registry EXCEPT ![p] = {}]

\* Mutant of HasBuffer: the buffer is looked up after it was deleted.
HasBufferLate(p) == registry'[p] # {}

HasBuffer(p) == registry[p] # {}

HandleExitEvent ==
    LET e == Head(ring)
        p == e.inc[1]
        tracked == e.comm \in TrackedCommands
    IN
    /\ Receive("exit")
    /\ IF IsCrash(e)
         THEN /\ closed' = closed \cup {e.inc}
              /\ registry' = Freed(p, tracked)
              /\ signalInfoMap' = IF tracked
                                    THEN [signalInfoMap EXCEPT ![p] = NoInfo]
                                    ELSE signalInfoMap
              /\ reports' = IF tracked /\ HasBuffer(p)
                              THEN [reports EXCEPT ![e.inc] = Append(@, Report(e))]
                              ELSE reports
         ELSE UNCHANGED <<closed, registry, signalInfoMap, reports>>
    /\ UNCHANGED <<kernel, bpf, history>>

Daemon == HandleOpenatEvent \/ HandleConnectEvent \/ HandleSignalEvent \/ HandleExitEvent

Kernel ==
    \/ \E p \in Processes : Start(p) \/ Terminate(p)
    \/ \E u, t \in Tasks : Spawn(u, t)
    \/ \E t \in Tasks :
         \/ Rename(t) \/ Leave(t)
         \/ TraceOpenatExit(t) \/ HandleConnectExit(t)
         \/ ProbeForceSigFault(t) \/ SendSignal(t)
         \/ HandleSignalDeliver(t) \/ BeginGroupExit(t) \/ HandleExit(t)

Next == Kernel \/ Daemon

Spec == Init /\ [][Next]_vars

\* The event loop keeps reading while there is something to read.
FairSpec == Spec /\ WF_vars(Daemon)
-----------------------------------------------------------------------------
(* Properties.                                                             *)

Ids == 0..MaxSignals
SyscallRecord == [type : {"openat", "connect"}, inc : Incarnation]
SignalRecord == [type : {"signal"}, inc : Incarnation, sig : Crashes, id : Ids,
                 addr : Ids, stack_id : Buckets \cup {NoStackId}]
ExitRecord == [type : {"exit"}, inc : Incarnation, sig : Crashes \cup {NoSignal},
               comm : Comms]
SignalContext == [sig : Crashes \cup {NoSignal}, id : Ids, addr : Ids]
SignalInfo == [id : Ids, sig : Crashes \cup {NoSignal}, addr : Ids, stack : Ids]

TypeOK ==
    /\ run \in [Processes -> 0..MaxRuns]
    /\ task \in [Tasks -> {"none", "running", "leaving", "signalled", "fatal", "dead"}]
    /\ comm \in [Tasks -> Comms]
    /\ pending \in [Tasks -> SignalContext]
    /\ exitCode \in [Processes -> Crashes \cup {NoSignal, Exited}]
    /\ child_root \subseteq Tasks
    /\ pending_signals \in [Processes -> SignalContext]
    /\ stack_traces \in [Buckets -> Ids]
    /\ ring \in Seq(SyscallRecord \cup SignalRecord \cup ExitRecord)
    /\ Len(ring) <= RingCapacity
    /\ registry \in [Processes -> SUBSET (1..MaxRuns)]
    /\ signalInfoMap \in [Processes -> SignalInfo]
    /\ reports \in [Incarnation -> Seq([sig : Crashes, owners : SUBSET (1..MaxRuns),
                                        info : SignalInfo])]
    /\ death \in [Incarnation -> SignalContext]
    /\ {closed, missed, leftover, overlapped} \subseteq SUBSET Incarnation
    /\ signals \in 0..MaxSignals /\ syscalls \in 0..MaxSyscalls

\* One death, one report: however many threads exit, whatever is lost, and
\* although a PID is used again while records about it are still queued.
ReportedOnce == \A x \in Incarnation : Len(reports[x]) <= 1

\* Once the daemon has handled the crash of an incarnation, its buffer is gone
\* for good: no record of it can still be queued and open a new one, which
\* would never be freed and would pollute the next holder of the PID.
NothingAfterCrash ==
    \A x \in closed : x[2] \notin registry[x[1]]

\* The report of an incarnation combines the signal that killed it with the
\* stack of that delivery and the address the probe recorded of that fault, or
\* none if it was no fault or could not be recorded: never with those of another
\* signal, another thread or an earlier process, whatever was lost or left of
\* those.  Not if the record of that very signal was lost, nor if two threads
\* had a signal at once; and if the delivery of a context was not seen, in this
\* process or an earlier one, a death without an address may show that one.
CoherentReport ==
    \A x \in Incarnation \ (missed \cup overlapped) :
        \A k \in DOMAIN reports[x] :
            LET info == reports[x][k].info IN
            /\ info.id = death[x].id /\ info.sig = death[x].sig
            /\ info.stack \in {0, death[x].id}
            /\ info.addr = death[x].addr \/ (death[x].addr = 0 /\ x \in leftover)

\* The pipeline reports real deaths only, with the right signal.
Promise == INSTANCE CrashReporting
             WITH Signal <- Crashes,
                  died <- [x \in Incarnation |-> death[x].sig],
                  reported <- [x \in Incarnation |->
                                 IF reports[x] = << >> THEN NoSignal
                                 ELSE reports[x][1].sig]
PromiseSpec == Promise!Spec

ReportDue(x) ==
    \E j \in DOMAIN ring :
        /\ ring[j].type = "exit" /\ ring[j].inc = x
        /\ IsCrash(ring[j]) /\ ring[j].comm \in TrackedCommands
        /\ \E k \in 1..(j - 1) : ring[k].type \in {"openat", "connect"} /\ ring[k].inc = x

\* A queued crash of a tracked process of which at least one system call is
\* queued before it gets its report in the end.
EventuallyReported ==
    \A x \in Incarnation : ReportDue(x) ~> reports[x] # << >>
-----------------------------------------------------------------------------
(* What the documentation says.                                            *)

\* "the circular buffer for this crashed process": a report shows the events
\* of the process it is about and of no other.
OwnEventsOnly ==
    \A x \in Incarnation : \A k \in DOMAIN reports[x] :
        reports[x][k].owners \subseteq {x[2]}

\* "Pinpoints exact memory address that caused SIGSEGV/SIGBUS": an address that
\* is shown is the one recorded of the fault that killed, not of a fault of
\* another thread or of an earlier process.
ExactAddress ==
    \A x \in Incarnation : \A k \in DOMAIN reports[x] :
        reports[x][k].info.addr \in {0, death[x].addr}

\* "STACK TRACE (at crash time)": a stack that is shown is that of the death.
StackAtCrash ==
    \A x \in Incarnation : \A k \in DOMAIN reports[x] :
        reports[x][k].info.stack \in {0, death[x].id}
=============================================================================
