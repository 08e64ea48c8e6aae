# Amon in TLA+

Amon is a daemon that watches a set of commands, and the processes below them,
with eBPF programs, remembers the last system calls of each process, and writes
a report when one of them dies by a crash signal. This directory models what can
go wrong between the fault and the report: TLA+ modules, TLC instances that
check them, and proofs that TLAPS checks for every value of the constants.

- [The system](#the-system)
- [Modules](#modules)
- [Modelling decisions](#modelling-decisions)
- [Runs](#runs)
- [Where code and documentation differ](#where-code-and-documentation-differ)
- [Proofs](#proofs)
- [Not modelled, and the plan](#not-modelled-and-the-plan)

`tlc -config X.cfg MCModule` repeats a run, `tlapm XProofs.tla` a proof.
`PROJECT.json` lists the runs, a mutant for each property, the source lines of
each definition, the findings, the hazards and the theorems.

## The system

| Component | Source | State it keeps | Operations | What makes it hard | What makes it correct |
|---|---|---|---|---|---|
| Signal and exit probes | `bpf/trace.c` 384-565 | `pending_signals`, `stack_traces`, ring buffer | `probe_force_sig_fault`, `handle_signal_deliver`, `handle_exit` | threads of one process fault, leave and die at once; full maps; a full ring; a PID used again | one exit record per process, last of its records; signal, stack and recorded address of one and the same death |
| Process tree probes | `bpf/trace.c` 296-382 | `child_root` | `handle_fork`, `handle_execve` | entries are never deleted and meet the next holder of the id | the family of a tracked task is in the map with its true parent and root |
| File open probes | `bpf/trace.c` 158-295 | `openat_start` | three entry hooks, one exit hook | leftovers of calls that have no exit hook | an event shows the call whose return value it has |
| Connect probes | `bpf/trace.c` 567-647 | `connect_start` | entry and exit hook | one slot for all threads of a process, read by pointer | the same, and no slot leaks |
| Event loop and handlers | `cmd/amon/main.go` 59-316, 567-606 | `signalInfoMap`, registry | four handlers | records are handled after the process is gone, and its PID may be another's | each crash reported once, with its own data |
| Circular buffer | `internal/circular_buffer/circular_buffer.go` | ring, error and slow lists, statistics | `Push`, `Drain` | wrap-around arithmetic, caps, merge | newest events kept in order, failures kept whatever follows |
| Process registry | `internal/circular_buffer/registry.go` | PID to buffer | `GetOrCreate`, `Get`, `Delete` | keyed by PID | nothing is left after a crash |
| Daemon start and stop | `cmd/amon/main.go` 318-610 | pin, links, loop, configuration | load, pin, attach, run, stop | partial start, leftovers of a killed daemon, two at a time, stopping in the middle of a report | a map that could be pinned stays pinned while its daemon is alone; a clean stop leaves nothing |
| Configuration | `utils/utils.go`, `types/types.go` 3-13 | a file people edit | `Load`, `GetEventThreshold` | read again at every event | a file that is missing or damaged does not end the daemon |
| Report writer | `internal/reports/reports.go` | two report files | `GenerateCrashReportWithStack` and its parts | one of two files fails; entries that overwrite each other; unsigned times | an announced report is whole; what it says of failures and destinations is so |
| Noise filter | `internal/forensics/noise_filter.go` | none | `IsNoiseEvent`, `FilterNoise` | which events are hidden | no failure that matters is hidden |
| Crash analysis | `internal/forensics/analysis.go` | none | `ParseMemoryMaps`, `ClassifyAddress`, `AnalyzeCrash` | reads the mappings of a process that has ended | a place that is named is right |
| Stack trace resolver | `internal/stacktrace/resolver.go` | symbol cache | `ResolveStackTrace`, `lookupSymbol` | mappings and files change under it | a frame names the function it is in |
| Paths, logger | `internal/paths`, `internal/logger` | none | make names, print | | not modelled, but for `Fatal` |

How they interact:

1. The hooks run in the context of a thread of the watched process, on any CPU,
   and share hash maps. What they have to say they *reserve* and *submit* in one
   ring buffer. A reserve that fails drops the record, and nobody is told.
2. One goroutine of the daemon reads the ring and dispatches on the type. A
   system call is pushed into the buffer of its PID, which is created on demand.
   A signal record is put into `signalInfoMap` with its stack, looked up in
   `stack_traces`. An exit record with a crash signal ends in a report, if the
   name in the record is tracked by configuration, and deletes the buffer.
3. Nothing ties a record to *one* process: all tables are keyed by PID, and the
   daemon runs behind the kernel by the whole content of the ring.

Steps 1 to 3 are the core: a report is correct only if the order of two hooks,
the order in the ring and the tables keyed by PID all work together, over
threads, processes and used-again PIDs. This is what `CrashPipeline` is for.

## Modules

| Module | Models | State and actions in the code |
|---|---|---|
| `CrashReporting` | abstract specification: a report only of a real death, once, with its signal | |
| `CrashPipeline`, `CrashPipelineProofs` | signal and exit probes, ring buffer, event loop, handlers, registry | `task`, `pending`, `exitCode` are the kernel's; `pending_signals`, `stack_traces`, `child_root` (its keys) the maps; `ring` the ring buffer; `registry`, `signalInfoMap` the daemon's tables. `ProbeForceSigFault`, `HandleSignalDeliver`, `HandleExit` are the hooks with the kernel step they hang on; `TraceOpenatExit`, `HandleConnectExit` stand for a whole system call; `HandleOpenatEvent`, ... are the handlers of the daemon |
| `ProcessTree`, `ProcessTreeProofs` | process tree probes | `child_root` with the whole `process_info`; `HandleFork`, `HandleExecve`; `FinishExec` and `Exit` are the kernel's |
| `OpenProbes`, `OpenProbesProofs` | file open probes | `openat_start`; `TraceOpenat`, `TraceOpen`, `TraceOpenat2` share `TraceOpenCommon`; `TraceOpenatExit`; `OpenExit` is a call whose exit has no hook; `AttachExit` is the daemon's start |
| `ConnectProbes`, `ConnectProbesProofs` | connect probes | `connect_start`; `HandleConnectEnter`; the exit hook as `HandleConnectExit` (ends early), or `HandleConnectExitLookup` followed by `HandleConnectExitEmit` |
| `SlidingWindow` | abstract specification: a bounded window onto the newest events | |
| `CircularBuffer`, `CircularBufferProofs` | circular buffer | the fields of `CircularBuffer`; `Push`; `Drain` is an operator, since it changes nothing |
| `ReportContent`, `ReportContentProofs` | noise filter, network summary and list of the report | extends `CircularBuffer`: the report is a function of the buffer (`Shown`, `Destinations`, `Offset`), so each state stands for a crash at that moment |
| `Forensics` | crash analysis | operators: `TypeOfPath`, `ClassifyAddress`, `Fallback`, `AnalyzeCrash` |
| `StackTrace` | stack trace resolver | operators: `BestSymbol`, `LookupSymbol`, `CacheAfter`, `FileOffset` |
| `Analysis`, `AnalysisProofs` | when the two of them run, and against what | `queue` the ring, `cache` is `symbolCache`, `info` the entry of `signalInfoMap`; `HandleSignalEvent`, one `ResolvePC` per frame, `StoreInfo`, `HandleExitEvent` are the daemon; `Start`, `Crash`, `ReleaseMemory`, `Reap`, `ReplaceBinary` are the kernel and the file system |
| `Daemon`, `DaemonProofs` | `main`, configuration, and the writing of a report with its failures | `phase` is how far `main` is, `loop` where the goroutine is, `pin` the file in `/sys/fs/bpf`, `files` the two files of a report; `Stop`, `Unpin`, `Return` are the deferred calls in their order; `Abort` is an end without them |
| `MC...` | constants of the TLC instances | |

Definitions have the names they have in the code, in the case of the language.
Variables marked *history* are not in the code: they record what really
happened, so that a property can compare it with what the daemon believes.

## Modelling decisions

**Grain of an action.** A tracing program runs to its end at its hook, and in
most programs the data it touches belongs to the thread it runs in, so hook and
program are one action. The exceptions: data shared by the threads of a process
(`pending_signals`, `connect_start`), where what matters is the interval between
two hooks, which is there; and the exit hook of connect, which uses a pointer
into the map after its lookup and is therefore two actions. The element behind
that pointer may have been deleted or replaced in between, and the map is
preallocated, so the pointer shows the old or any later content (`Shown`).
A handler of the daemon is one action: a single goroutine runs all of them and
nobody else touches their tables.

**Incarnations.** `<<p, i>>` is the *i*-th process with PID *p*. Records carry
it as history; the daemon's actions only use the PID. This is how a report that
mixes two processes becomes visible.

**Identities.** A crash signal has a number `id` that stands for the fault
address, the stack and the time of that fault. An `openat` or `connect` call
likewise. Two pieces of data belong together exactly when they have the same
id. 0 stands for none.

**The ring** is a queue with a capacity; a record that finds it full is lost.
In `OpenProbes` and `ConnectProbes`, where the order of records does not matter,
losing one is a choice. The daemon's read is `Receive`, and a record it cannot
decode, which the kernel side never writes, is left out.

**Faults and addresses.** A context is `[sig, id, addr]`: `addr` is the id of a
memory fault whose context the probe stored, and 0 for a fault it could not
store and for a signal that was sent. Two histories tell what the records
cannot: `missed` are the incarnations the record of whose *last* crash signal was
lost (a later signal that is recorded takes the process out again), and
`leftover` those with a context in `pending_signals` whose delivery was not
seen, their own or one they found when they started.

**Reports** are what is handed to the writer, with the signal, the entry of
`signalInfoMap` and the incarnations whose events are in the buffer.

**What the kernel does** is taken from its documented behaviour and is marked
external: `force_sig_fault` runs before the signal is delivered; a fault or a
signal is handled by a thread one at a time; the first thread that takes a fatal
signal sets the exit code of the group; a thread that had called `exit(2)`
before keeps its own code; the count of live threads goes down before the exit
tracepoint, and the last one has `group_dead`, the field `handle_exit` reads; a
PID is free for use when its last thread is dead.

**Abstracted.** In `CrashPipeline` a system call is one step, because pairing
entry and exit is the subject of `OpenProbes` and `ConnectProbes`, and
`child_root` is its set of keys, because its content is the subject of
`ProcessTree`: `Start` lets a new process be recorded or not, and keeps entries
of earlier holders of the PID; `Spawn` may find the map full. What is done with address, stack and events is
in `Analysis` and `ReportContent`. In `Daemon` a record is a call or a crash of
one PID, or the crash of a child that is not tracked by name, and reading the
configuration does not take time. The hooks submit nothing unless the name of the
task or of an ancestor is in `allowed_commands`, so `Submit` needs a tracked name
that a task can have.

**Time of reading.** `Analysis` is about data that is looked up when a record is
handled and not when it was made. `/proc/<pid>/maps` shows the process while it
lives or is dying, nothing for a zombie, an error when nobody has the PID, and
otherwise the next process. Each frame is a step, because the file of each is
opened anew and may have been replaced in between. A file is replaced by a
rename, as linkers and package managers do; the kernel then shows its path with
` (deleted)` behind it to those who have it mapped. `Deleted` maps each file to
that name, because `TypeOfPath` looks at it: `libc.so.6 (deleted)` still contains
`.so.`, `lib.so (deleted)` does not end in `.so`, and is an executable for the
code. Either record of a crash may be dropped here as well, so an entry of
`signalInfoMap` may meet the next holder of the PID. A binary is its two tables of symbols and
`bias`, how far its virtual addresses are from its file offsets; it is *tidy* if
no symbol without a size lies within a function that has one.

**Two instances.** Nothing in `main` keeps a second daemon from starting.
`overlapped` collects those that were not alone; some properties hold only for
the others and say so.

**Deadlock** is not checked (`CHECK_DEADLOCK FALSE`) where a bound on the
inputs lets a finite instance come to its end. `ProcessTree` never stops and is
checked for deadlock.

## Runs

Passing runs.

| Run | States | What it asks |
|---|---|---|
| `buffer` | 112,347 | Rings of 1, 2 and 3 slots and every sequence of 5 pushes of 8 kinds of event. `RecentIsNewest`: the two index computations of `Drain` read the newest events and nothing else. `PriorityKept`: failures and slow calls are not washed out. `DrainIsSortedMerge`: the merge is sorted and loses nothing. `WindowSpec`: the ring implements `SlidingWindow`. `FailuresShown`: no failure that is not noise is missing in the report. `LastFailureStands`: a destination that failed last is shown so. `OffsetsInOrder`: times are unsigned and events may be older than the buffer |
| `pipeline` | 455,019 | Three cases in one run: a process of two threads; one PID and two processes in turn, records of the first still queued while the second runs, with tracked and other names; two processes at a time with one slot in `pending_signals` and one stack bucket. `ReportedOnce`, `NothingAfterCrash`; `CoherentReport`: a report has the stack of the delivery that killed and the address recorded of that fault, or none, for every incarnation that is neither `missed` nor `overlapped`; only a death without a recorded address may show another, and only where a context is `leftover`. `PromiseSpec`: the pipeline implements `CrashReporting`; `EventuallyReported`: a queued crash of a tracked process, with a system call queued before it, is reported in the end |
| `tree` | 703,928 | A shell and three ids, two map entries, four forks. `FamilyKnown`: parent and root of a descendant are right, whatever the ids meant before. |
| `open` | 48,360 | Two threads, one map entry, four calls, filtered files, lost events. `OneOpenat`: an event does not mix two `openat` calls. `ReportedOnce` |
| `connect` | 726,976 | A traced process of two threads and an untraced one, one map entry, five calls. `PairedAlone`: a call that overlaps no other of its process gets its own event. `NothingLeft`: no slot leaks |
| `analysis` | 1,184,542 | Two processes with the PID in turn, two layouts of memory, faults around the ends of regions, lost records, one file replaced; two cases in one run. Where the fault was: a program and two libraries (one with a name whose deleted form still looks like a library's), signals with and without an address. Where the frames are: two stacks, a program and a library with two contents each. `NullRecognised`: an address near 0 is recognised at any time of reading. `PlaceIsRight`: a place that is named is where the address was unless a stranger has the PID; an executable is the program, or a replaced library whose deleted name no longer looks like one. `CacheIsOfFile`: a cached symbol is one that some content of that file has at that offset. `ResolvedAtZeroBias`: a frame in a binary that was not replaced, with zero bias and tidy symbols, names the function it is in, whatever was cached before |
| `daemon` | 250,762 | Two instances, two records, one edit of the configuration. `CleanSlate`: a clean stop leaves no pin, whoever left it. `PinKept`: an instance that was alone and whose `Pin` succeeded keeps its pin. `ReportPair`: an announced report has both files, the second one whole. `FreshBuffer`: the next holder of the PID starts empty, also after a report that failed or was not made. `SurvivesRemoval`: a configuration that is removed or damaged does not end the daemon. `LoopReturns`: no report holds up the loop |

Why the bounds are enough. A ring of three slots wraps, and five pushes overwrite
all of it more than once for each smaller size; caps and context sizes are below
and above the ring size. In `CrashPipeline` the hazards are about two signals
(one overwrites the other), two threads (one leaves, one crashes), two
incarnations (one inherits), one map slot or bucket for two users, and a ring
with room for a signal, an exit and one more record; a third of each only
repeats what two do. Two of everything at a time, and two signals with two
calls, is too much for one run: `CaseSpec` confines a behaviour to one of three
cases, each for one kind of interference. In `ProcessTree` two entries for four ids and four
forks let an id be used twice with an ancestor in between. In `Analysis` two
crashes are what it takes for a cache to be filled and used, and for a report to
meet the next process; addresses are small numbers around the ends of adjacent
regions; its properties of places and of stacks share no state but the mappings,
so each has a case with the data it needs. In `Daemon` a third instance meets what the second one met, two records
are a call and the crash that reports it, and two hooks give a start that is
half done. The proofs remove the bounds for the properties they cover.

`MaxRuns`, `MaxSignals`, `MaxSyscalls`, `MaxPushes`, `MaxForks`, `MaxCalls`,
`MaxHolders`, `MaxReplaced`, `MaxStarts`, `MaxRecords`, `MaxEdits` are bounds of
the model. `RingCapacity`, `PendingCapacity`, `Buckets`, `Capacity`,
`MaxErrors`, `MaxSlow`, `Sizes`, `LowMemory`, `Reach`, `Hooks`,
`DefaultThreshold` and the context sizes are the code's, made small.

**Fairness.** `EventuallyReported`, in `pipeline`, needs `WF_vars(Daemon)`, the
event loop of `main.go` 567-606, which reads and dispatches whenever a record is
there, until the daemon is stopped or a read fails. `LoopReturns`, in `daemon`,
needs the steps of the goroutine to be taken (`WF_vars(Handle(i))`), and those
of `main` once it was asked to stop (`WF_vars(Clean(i))`): both are code without
a wait, except for the file system. Nothing is assumed of the processes, of
whoever stops the daemon, or of the disk: they may do nothing at any time, and a
file may fail every time.

## Where code and documentation differ

Each of these instances checks one statement of a comment, the README or a test,
and TLC shows a behaviour of the code that violates it. The first five are runs of
`PROJECT.json`, which quotes the statement; the others are repeated with the
module and the configuration named.

| Instance | Property | Statement | What the code does |
|---|---|---|---|
| `foreign_events` | `OwnEventsOnly` | the circular buffer *for this crashed process* (`main.go` 296) | a normal exit leaves the buffer, and the next holder of the PID gets it |
| `wrong_address` | `ExactAddress` | the exact address that caused SIGSEGV (`README.md` 9) | a second faulting thread overwrites the context of the first |
| `open_matching` | `MatchingEnter` | no matching enter event (`trace.c` 263) | `open` and `openat2` have no exit hook: nothing is emitted for them, and the entry they leave is taken for that of a later `openat` |
| `resolved_right` | `ResolvedRight` | calculates correct ELF file offsets (`README.md` 311) | the offset in the file is compared with the virtual addresses of the symbols, which are others in a program linked to a fixed address |
| `config_rewrite` | `SurvivesEvents` | the default for a configuration that cannot be used (`utils.go` 30) | an empty file can be read; its threshold is 0, and `Push` on a ring without slots indexes out of range and ends the daemon. It had loaded a configuration with a threshold and a command, and the file is between the two halves of an edit |
| `MCStaleAddress.cfg`, `MCCrashPipeline` | `ExactAddress` | the same as `wrong_address` | the context of a fault that was never delivered is taken by the next holder of the PID, when it is killed by a signal of that number (`trace.c` 471) |
| `MCStaleStack.cfg`, `MCCrashPipeline` | `StackAtCrash` | STACK TRACE (at crash time) (`reports.go` 225) | the record of the fatal signal finds the ring full, and the report takes the one of a signal the program had survived (`trace.c` 479, `main.go` 281) |
| `MCReplacedLibrary.cfg`, `MCAnalysis` | `LibraryRecognised` | heap, stack, library, or unmapped memory (`README.md` 11) | a fault in a library that was replaced on disk is placed in an executable, if the name ends in `.so` (`analysis.go` 130) |
| `MCPlaceLost.cfg`, `MCAnalysis` | `UnmappedIsUnmapped` | the same | the mappings are read after the memory was released, and every address is unmapped (`analysis.go` 172) |
| `MCUnknownAsNull.cfg`, `MCAnalysis` | `NullIsNull` | 0x0 = NULL pointer (`README.md` 48) | an address that is unknown, the signal record being lost, is analysed as 0 (`reports.go` 179) |
| `MCFailedTwice.cfg`, `MCReportContent` | `FailedOnce` | 5 failed connections (`tests/C/test_connect.c` 221) | what is in two of the three lists is drained and counted twice (`circular_buffer.go` 113, `reports.go` 276) |
| `MCShortName.cfg`, `MCDaemon` | `AdvisedNameTracked` | use `my_long_progra`; `stack_trace_te`, "Only 15 chars allowed" (`README.md` 109, 370) | the advised names have 14 characters and the kernel's 15, so the program is not tracked (`main.go` 320) |

The models show more, which has no instance of its own:

- A tracked process that crashes before its first recorded call has no buffer;
  the crash is only logged, stack and address are dropped (`main.go` 305).
- When the last thread to end was in `exit(2)` already while another crashed,
  its exit code has no signal and the crash is ignored (`trace.c` 545;
  `OwnSignal`).
- Entries of `child_root` outlive their tasks. An unrelated task that gets the
  id is traced, and once 1024 ids were recorded no other can be (`trace.c` 350).
- `handle_execve` runs before the exec, also before one that fails, and stores
  the name the task is about to lose (`trace.c` 372). The field is never read.
- The comments on `ErrorCount` ("events where Ret < 0") and `SlowCount` ("events
  where Latency > threshold") leave out that a connect in progress is neither
  (`circular_buffer.go` 32, 43, 45). Modelled as the code has it.
- Two threads of a process that connect at the same time share the slot, and one
  picks up the other's data (`trace.c` 593). `PairedAlone` excepts calls that
  overlap (`shared`).
- Startup probes are errors for the buffer and are filtered only afterwards: a
  program that looks for 100 files fills the list of errors with noise
  (`circular_buffer.go` 48, `noise_filter.go` 21).
- Without priority events the list is in the order of arrival, under a heading
  that says chronological (`circular_buffer.go` 89, `reports.go` 318). The
  lifetime of a process counts from its first recorded call.
- `filepath.Base("")` is `"."`, so a frame in anonymous memory is never shown as
  `[anonymous]` (`resolver.go` 138).
- A pin left by a daemon that was killed makes the next `Pin` fail, and nobody
  looks at the error: until it stops, the path shows the map of the dead daemon
  (`main.go` 395). `PinKept` does not speak of such an instance, nor of two at a
  time; `CleanSlate` says that the next clean stop puts it right.
- A read of the ring that fails ends the loop and leaves a daemon that does
  nothing (`main.go` 578). A second daemon that stops removes the pin of the
  first (`main.go` 396).
- Errors while the text report is written are not looked at (`reports.go` 212).
- The symbol that is closest below the offset wins, sized or not: a symbol
  without a size within a function hides that function for the 4096 bytes behind
  it (`resolver.go` 220). `ResolvedAtZeroBias` is about tidy symbols because its
  proof failed without them.
- `is_noise` compares the letters of `/dev` and not the separator, so that
  `/development/x` is dropped as well (`trace.c` 168).

## Proofs

All theorems hold for every value of the constants under the `ASSUME` of the
module, which says only that sets are finite, numbers are naturals and names
do not collide.

**`CircularBufferProofs`.** `TypeCorrect`, `NewestRetained` (`RecentIsNewest`),
`PrioritySafe` (`PriorityKept`), `DrainCorrect`
(`DrainIsSortedMerge`), `Implements` (`WindowSpec`). `RecentIsNewest`
is not inductive, as it does not say where an event is. The invariant `IInv` adds
`CountInv` (`count` is the number of pushes up to `size`, and `head` is `count`
while the ring is filling) and `RingInv` (walking back `k` slots from `head`
finds the event pushed `k` pushes ago). Three lemmas do the modular arithmetic;
everything else is about indices. `Implements` maps a push to the window's push
in the two cases of a filling and a full ring. `PrioritySafe` needs that a list
is as long as the counter says up to its cap.

`DrainCorrect` is about an algorithm. `SortByTimestamp` is a recursive function of
the rounds of the insertion sort, and the prover has no induction it could use on
it. `RoundsExist` and `SortCorrect` therefore argue from a least counterexample:
naturals are well ordered (`Least`, from the library's `NatLessThanWellFounded`),
so if some round is not as it should be there is a first one, and the round
before it, being right, makes it right as well (`InsertRound`). One round puts an
event behind the last one that is not later (`InsertPlace`), and keeps the list
sorted and the number of times each event is in it (`InsertedList`).

**`ReportContentProofs`.** `FailuresReported` (`FailuresShown`),
`LastFailureReported` (`LastFailureStands`), `OffsetsOrdered` (`OffsetsInOrder`).
The report is a function of the buffer, so the theorems of the buffer do the work:
a failure is in the error list (`PrioritySafe`), the lists and the window hold
pushed events only (`Origin`), and what was gathered is drained (`DrainCorrect`).
What is added is the filter: `FilterCorrect` says that `FilterNoise` keeps the
order and drops noise alone, again from a least counterexample. For a destination
that failed last, the entry that wins in the map is the last of the list, hence
the last in time, hence that failure.

**`CrashPipelineProofs`.** `TypeCorrect`, `OneReport` (`ReportedOnce`),
`NothingLeftBehind` (`NothingAfterCrash`), `KeepsPromise` (`PromiseSpec`),
`ReportsCoherent` (`CoherentReport`). The
argument is one of order. The last live thread of a group submits the exit
record and a dead thread emits nothing, so an exit record is the *last* record
of its incarnation in the ring. `Order` says this in four parts: `QueueInv`
(after an exit record nothing of that incarnation follows, and the incarnation
is over), `ClosedInv` (of an incarnation whose crash was handled nothing is
queued or buffered), `ReportInv` (a report is of a closed incarnation, at most
one, and names the signal of its death) and `DeathInv` (a queued exit record
with a crash signal names the signal that killed). A lemma per kernel action
says that it adds at most one record, of a live incarnation (`KernelEffect`);
`QueueGrows` and `QueueShrinks` then treat all of them alike. The refinement
maps `BeginGroupExit` to `Die`, `HandleExitEvent` to `Report` or to a stutter,
and everything else to a stutter.

`CoherentReport` follows one signal through three tables. The clause on
the address has one exception, which the code makes (`MCStaleAddress.cfg`): a death
without a recorded address, in an incarnation with a leftover context. `SignalInv` says, of an
incarnation that is neither `missed` nor `overlapped`: while a thread waits for
the delivery of a fault, `pending_signals` has the context of that fault
(`FaultInv`), and where nothing is leftover it has none but of a signal that
still waits (`ContextInv`); from the delivery to the death, from the death to the exit record,
and as long as that record is queued, the last thing said about the PID before
the end of the ring, or before that record, is that delivery (`FatalInv`,
`DyingInv`, `ExitInv`). It is in the ring with only system calls behind it, or
already in `signalInfoMap` with only system calls before it (`Awaited`), so
nobody overwrites or erases it. `StackInv` ties the stack to the signal it was
captured for, and `AloneInv` says that two threads with a signal at a time are on
record in `overlapped`. Three lemmas carry `Awaited` over a record that is added
and one that is taken (`AwaitedAppend`, `AwaitedLater`, `AwaitedTaken`); only
`HandleSignalDeliver` establishes it. TLC checked `SignalInv` on the instance of
`pipeline` before it was proved.

**`ProcessTreeProofs`.** `TypeCorrect`, `TreeCorrect` (`FamilyKnown`). `FamilyKnown` is inductive with the types;
the work is in the fork: the child's root
is the parent's by the property, or the parent itself, and an entry that was
overwritten belonged to a dead holder of the id.

**`OpenProbesProofs`.** `TypeCorrect`, `NeverMixed` (`OneOpenat`), `NeverTwice`
(`ReportedOnce`). The
strengthening `EntryInv`: an entry made by `openat` after the exit hook was
attached is that of the call its thread is in. `ReportedOnce` holds also for
entries that are left behind: the invariant `OnceInv` says that calls in progress
and entries stored differ from each other, and that none of them was reported.

**`ConnectProbesProofs`.** `TypeCorrect`, `AloneIsPaired` (`PairedAlone`),
`SlotsAreFreed`
(`NothingLeft`). The invariant `IndInv` says of a slot that it holds the id of a
call some thread of the process is in or that entered early (`SlotInv`), that
calls of one process that overlap are in `shared` (`ShareInv`), that ids are
fresh (`FreshInv`), and what a pinned pointer and an unattached hook mean
(`PinInv`, `AttachInv`). `TypeCorrect` includes the number of slots in use, which
`RoomInv` counts.

**`AnalysisProofs`.** `TypeCorrect`, `NullFaultsRecognised` (`NullRecognised`),
`PlacesRight` (`PlaceIsRight`), `CacheCorrect` (`CacheIsOfFile`),
`FramesResolved` (`ResolvedAtZeroBias`). The invariant follows the data. A crash
in the ring has the mappings of the holder of its PID as long as there was no
other (`QueueInv`); what is cached is the best symbol some content of that file
has at that offset (`CacheInv`); a frame that lies in a mapping of a file has the
best symbol of some content of that file (`FrameRight`, for the frames of the job,
of `signalInfoMap` and of the report); `PlaceInv` are the two properties about
places. Replacing a file keeps all of it, since what a file has contained is only
added to (`HadGrows`). If nobody replaced the file there is one content, and a
best symbol of tidy symbols is the function itself. That addresses are in one
mapping at most is an assumption on `Spaces`, as it is in the kernel.

**`DaemonProofs`.** `TypeCorrect`, `PathFreed` (`CleanSlate`), `PinStays`
(`PinKept`), `PairKept` (`ReportPair`), `BufferIsFresh` (`FreshBuffer`),
`RemovalSurvived` (`SurvivesRemoval`), for any
number of instances, records, edits and hooks. `TypeOK` becomes inductive when it
says what a buffer is (`Types`). `CleanSlate` is inductive with the types: who
ends by returning has just removed the pin. `PinKept` is not: `PinInv` adds that
two instances that live at the same time are both in `overlapped`, so that a
`Pin` or a removal by one never meets another that counts on being alone.
`PairInv` says what the writer may assume of its files at each step (`AtStep`).
`OfThisProcess` is `FreshBuffer` at every step of the loop. `EndedByEmpty` adds
that a file that is empty now was left empty once. `RemovalSurvived` assumes that
what people write has a threshold above zero; `config_rewrite` shows what happens
between the two halves of a write all the same.

**Only model-checked.** `EventuallyReported` and `LoopReturns`, as the prover does
not do fairness and `ENABLED`. Every safety property of the passing runs, the two
refinements included, is a theorem. No module declares a `RECURSIVE` operator,
which the prover could not reason about; the sort and the filter are recursive
functions, and what they compute is proved from a least counterexample instead of
by induction. What a violating run shows is a behaviour, and needs no proof.

## Not modelled, and the plan

Every part with a state of its own has its module. What is left:

1. The composition of `CrashPipeline` with `ProcessTree`, in place of the free
   choice in `Start`, and with `CircularBuffer`, so that a report shows what was
   drained. Each of the three is near the limit of what TLC can do in minutes, so
   the composition needs an abstract `ProcessTree` first: a set of recorded PIDs
   that obeys `FamilyKnown`.
2. A timeline: a record's time is taken before its place in the ring, so records
   of several CPUs enter out of order. `ReportContent` has times in any order
   (`OffsetsInOrder`) without saying where they come from.
3. Proofs about the compositions of 1. The theorems of the parts are what they
   would rest on: `FamilyKnown` for who is recorded, `DrainIsSortedMerge` and
   `FailuresShown` for what is in a report of `CrashPipeline`.

Left out for good: ELF and DWARF parsing (a library), the loader and verifier of
eBPF, formatting and colours of the report, the rest of the logger, the file
names of `paths`, the shell script and the test programs.
