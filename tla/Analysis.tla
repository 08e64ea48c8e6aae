------------------------------ MODULE Analysis ------------------------------
(***************************************************************************)
(* What the daemon finds out about a crash after it happened.  The signal  *)
(* record is handled while the process dies: its stack is resolved, frame  *)
(* by frame, with the mappings and the binaries of that moment.  The exit  *)
(* record is handled later still, and the fault address is classified with *)
(* the mappings of then: those of the process, of a zombie (none), an      *)
(* error, or those of the next holder of the PID.  One PID, held by one    *)
(* process after the other; which signal a report combines with which      *)
(* death is CrashPipeline.                                                 *)
(***************************************************************************)
EXTENDS StackTrace, Sequences, FiniteSets

CONSTANTS
    Files,        \* the programs and libraries on disk
    Deleted,      \* file -> what the kernel calls it once it was replaced: its
                  \* name and " (deleted)", which may still contain ".so."
    Binaries,     \* what a file may contain
    Spaces,       \* the sets of mappings a process may have
    Stacks,       \* the program counters a stack may have, innermost first
    Faults,       \* the addresses a fault may have
    Signals,      \* the crash signals, MemoryFaults included
    MaxHolders,   \* model bound: processes that have the PID in turn
    MaxReplaced   \* model bound: how often a file is replaced

Binary == [symtab : {NoTable} \cup SUBSET [name : STRING, value : Nat, size : Nat, func : BOOLEAN],
           dynsym : {NoTable} \cup SUBSET [name : STRING, value : Nat, size : Nat, func : BOOLEAN],
           bias : Nat]

\* What is shown of a frame's function: its name and how far into it.
Symbol == [name : STRING, dist : Nat]

\* The paths of mappings without a file.
Anonymous == {"", "[heap]", "[stack]", "[vdso]"}

\* A process maps files and memory of its own; a file may be deleted later.
Region == [start : Nat, end : Nat, offset : Nat, path : Files \cup Anonymous]

ASSUME AnalysisAssumption ==
    /\ MemoryFaults \subseteq Signals
    /\ {LowMemory, Reach, MaxHolders, MaxReplaced} \subseteq Nat
    /\ SharedObjects \subseteq Named /\ Files \subseteq Named
    /\ Deleted \in [Files -> Named \ Files]
    /\ \A f \in Files : Deleted[f] \in SharedObjects => f \in SharedObjects
    /\ Named \cap Anonymous = {}
    /\ Binaries \subseteq Binary /\ NoFile \notin Binaries /\ NoSymbol \notin Symbol
    /\ Spaces \subseteq SUBSET Region /\ Stacks \subseteq Seq(Nat)
    /\ Faults \subseteq Nat
    /\ \A space \in Spaces : \A r, s \in space :
          r = s \/ r.end <= s.start \/ s.end <= r.start

None == [inc |-> 0]

VARIABLES
    files,      \* the binaries on disk
    holder,     \* how many processes have had the PID
    state,      \* of its last holder: alive, dying, zombie, reaped
    space,      \* the mappings of that process
    stale,      \* the files replaced since it was started
    queue,      \* records that wait in the ring buffer
    cache,      \* symbolCache: per path, offsets with their symbol
    job,        \* the signal record being handled, or None
    info,       \* signalInfoMap of the PID, or None
    report,     \* the last report, or None; forgotten when the PID is used again
    \* history
    loaded,     \* the binaries the process was started from
    had,        \* all a file has contained since the daemon started
    replaced    \* how often a file was replaced

process == <<holder, state, space, stale, loaded>>
disk    == <<files, had, replaced>>
daemon  == <<cache, job, info, report>>
vars    == <<process, disk, queue, daemon>>
-----------------------------------------------------------------------------
Init ==
    /\ files \in [Files -> Binaries]
    /\ had = [f \in Files |-> {files[f]}] /\ replaced = 0
    /\ holder = 0 /\ state = "reaped" /\ space = {} /\ stale = {} /\ loaded = files
    /\ queue = << >>
    /\ cache = [f \in Files |-> << >>]
    /\ job = None /\ info = None /\ report = None

\* fork and exec of a process that gets the PID.
Start ==
    /\ state = "reaped" /\ holder < MaxHolders
    /\ holder' = holder + 1 /\ state' = "alive"
    /\ space' \in Spaces /\ stale' = {} /\ loaded' = files
    /\ report' = None
    /\ UNCHANGED <<disk, queue, cache, job, info>>

\* A crash: the records of the signal and of the exit, each of which a full
\* ring drops.  crash is what really happened; the code has pcs and addr.
Crash ==
    /\ state = "alive" /\ state' = "dying"
    /\ \E sig \in Signals, pcs \in Stacks, addr \in Faults :
         LET crash == [inc |-> holder, sig |-> sig, pcs |-> pcs,
                       addr |-> IF sig \in MemoryFaults THEN addr ELSE 0,
                       space |-> space, loaded |-> loaded]
             signal == [type |-> "signal", crash |-> crash]
             exit == [type |-> "exit", crash |-> crash]
         IN  queue' \in {queue \o records :
                           records \in {<< >>, <<signal>>, <<exit>>, <<signal, exit>>}}
    /\ UNCHANGED <<holder, space, stale, loaded, disk, daemon>>

\* exit_mm, and the parent's wait.
ReleaseMemory == /\ state = "dying" /\ state' = "zombie"
                 /\ UNCHANGED <<holder, space, stale, loaded, disk, queue, daemon>>

Reap == /\ state = "zombie" /\ state' = "reaped"
        /\ UNCHANGED <<holder, space, stale, loaded, disk, queue, daemon>>

\* A new build or an upgrade puts another file under the path, or none; who
\* has the old one mapped keeps it.
ReplaceBinary ==
    /\ replaced < MaxReplaced /\ replaced' = replaced + 1
    /\ \E f \in Files : \E b \in (Binaries \cup {NoFile}) \ {files[f]} :
         /\ files' = [files EXCEPT ![f] = b]
         /\ had' = [had EXCEPT ![f] = @ \cup {b}]
         /\ stale' = stale \cup {f}
    /\ UNCHANGED <<holder, state, space, loaded, queue, daemon>>
-----------------------------------------------------------------------------
\* What /proc/<pid>/maps says right now.
ProcessMaps == CASE state \in {"alive", "dying"} ->
                        {[r EXCEPT !.path = IF @ \in stale THEN Deleted[@] ELSE @] : r \in space}
                 [] state = "zombie" -> {}
                 [] state = "reaped" -> NoMaps

HandleSignalEvent ==
    /\ job = None /\ queue # << >> /\ Head(queue).type = "signal"
    /\ queue' = Tail(queue)
    /\ LET c == Head(queue).crash
           maps == ProcessMaps
       IN  job' = [inc |-> c.inc, addr |-> c.addr, maps |-> maps,
                   pcs |-> IF maps = NoMaps THEN << >> ELSE c.pcs,
                   frames |-> IF maps = NoMaps
                                THEN [i \in DOMAIN c.pcs |-> RawFrame(c.pcs[i])]
                                ELSE << >>]
    /\ UNCHANGED <<process, disk, cache, info, report>>

\* One round of the loop over the stack.
ResolvePC ==
    /\ job # None /\ job.pcs # << >>
    /\ LET pc == Head(job.pcs)
           hit == {r \in job.maps : In(pc, r)}
           r == CHOOSE r \in hit : TRUE
           offset == FileOffset(pc, r)
           named == hit # {} /\ r.path \in Files  \* elf.Open fails for a deleted name
           symbol == IF named THEN LookupSymbol(cache, r.path, offset, files[r.path])
                     ELSE NoSymbol
           frame == IF hit = {} THEN RawFrame(pc)
                    ELSE [pc |-> pc, path |-> r.path, function |-> symbol]
       IN  /\ job' = [job EXCEPT !.pcs = Tail(@), !.frames = Append(@, frame)]
           /\ cache' = IF named THEN CacheAfter(cache, r.path, offset, symbol) ELSE cache
    /\ UNCHANGED <<process, disk, queue, info, report>>

\* The end of handleSignalEvent.
StoreInfo ==
    /\ job # None /\ job.pcs = << >>
    /\ info' = [inc |-> job.inc, addr |-> job.addr, maps |-> job.maps, frames |-> job.frames]
    /\ job' = None
    /\ UNCHANGED <<process, disk, queue, cache, report>>

\* The address in the exit record is 0: it comes from the signal record.
FaultAddr == IF info # None THEN info.addr ELSE 0

\* A call was buffered, and the process is tracked.
HandleExitEvent ==
    /\ job = None /\ queue # << >> /\ Head(queue).type = "exit"
    /\ queue' = Tail(queue)
    /\ LET c == Head(queue).crash
       IN  report' = [inc |-> c.inc, crash |-> c, addr |-> FaultAddr,
                      type |-> AnalyzeCrash(c.sig, FaultAddr, ProcessMaps),
                      own |-> holder = c.inc,
                      maps |-> IF info # None THEN info.maps ELSE NoMaps,
                      frames |-> IF info # None THEN info.frames ELSE << >>]
    /\ info' = None
    /\ UNCHANGED <<process, disk, cache, job>>

Kernel == Start \/ Crash \/ ReleaseMemory \/ Reap \/ ReplaceBinary

Daemon == HandleSignalEvent \/ ResolvePC \/ StoreInfo \/ HandleExitEvent

Next == Kernel \/ Daemon

Spec == Init /\ [][Next]_vars
-----------------------------------------------------------------------------
(* Properties.                                                             *)

Frame == [pc : Nat, path : Named \cup Anonymous \cup {"unknown"},
          function : {NoSymbol} \cup Symbol]

MemoryTypes == {"", "null", "low", "unmapped", "mapped", "library", "executable",
                "[heap]", "[stack]"}

TypeOK ==
    /\ holder \in 0..MaxHolders
    /\ state \in {"alive", "dying", "zombie", "reaped"}
    /\ space \in Spaces \cup {{}}
    /\ {files, loaded} \subseteq [Files -> Binaries \cup {NoFile}]
    /\ \A i \in DOMAIN queue : queue[i].type \in {"signal", "exit"}
    /\ \A f \in Files : \A o \in DOMAIN cache[f] : cache[f][o] \in Symbol
    /\ job # None => job.inc \in 1..MaxHolders /\ \A i \in DOMAIN job.frames : job.frames[i] \in Frame
    /\ info # None => info.inc \in 1..MaxHolders
    /\ report # None => report.type \in MemoryTypes

\* A fault at or near address 0 is recognised however late the exit record is
\* handled: with mappings, with none, after an error and with a stranger's.
NullRecognised ==
    report # None /\ report.crash.sig \in MemoryFaults /\ report.addr < LowMemory =>
        report.type = IF report.addr = 0 THEN "null" ELSE "low"

\* A report that places the fault in the heap, the stack, a library or the
\* program is right, unless another process has the PID by then: mappings
\* that are gone hide the place.  Only a library that was replaced and whose
\* deleted name no longer looks like one is taken for a program.
PlaceIsRight ==
    report # None /\ report.own /\ report.type \in {"[heap]", "[stack]", "library", "executable"} =>
        \E r \in report.crash.space :
            /\ r.start <= report.addr /\ report.addr <= r.end - 1
            /\ CASE report.type = "library" -> r.path \in SharedObjects
                 [] report.type = "executable" ->
                      /\ r.path \in Files
                      /\ r.path \in SharedObjects =>
                           r.path \in stale /\ Deleted[r.path] \notin SharedObjects
                 [] OTHER -> r.path = report.type

\* A cached symbol is one that some content of that very file has at that
\* very offset: no binary is resolved with another one's symbols.
CacheIsOfFile ==
    \A f \in Files : \A o \in DOMAIN cache[f] :
        \E b \in had[f] \ {NoFile} : \E s \in SymbolsOf(b) :
            /\ IsFunction(s) /\ s.value + cache[f][o].dist = o /\ s.name = cache[f][o].name
            /\ s.size > 0 => o < s.value + s.size

\* The function at a place of a binary whose symbols have sizes.
TrueFunctions(binary, address) ==
    {s.name : s \in {t \in SymbolsOf(binary) :
                        IsFunction(t) /\ t.value <= address /\ address < t.value + t.size}}

\* A frame found in a mapping of a file that no one has replaced.
Settled(frame, r) ==
    /\ r.start <= frame.pc /\ frame.pc < r.end
    /\ r.path \in Files /\ Cardinality(had[r.path]) = 1

\* No symbol without a size lies within a function that has one.
Tidy(binary) ==
    \A s, t \in SymbolsOf(binary) :
        IsFunction(s) /\ IsFunction(t) /\ t.size = 0 => t.value < s.value \/ s.value + s.size <= t.value

Names(frame, r) ==
    LET binary == report.crash.loaded[r.path]
        true == TrueFunctions(binary, FileOffset(frame.pc, r) + binary.bias)
        unsized == {s.name : s \in {t \in SymbolsOf(binary) : IsFunction(t) /\ t.size = 0}}
    IN  /\ frame.path = r.path
        /\ IF true = {} THEN frame.function = NoSymbol \/ frame.function.name \in unsized
           ELSE frame.function # NoSymbol /\ frame.function.name \in true

\* A frame of a program whose addresses in memory and in the file agree, and
\* whose symbols are tidy, names the function it is in and no other, from the
\* file or from the cache, whatever was resolved before it; the process may
\* die and other binaries may change between any two frames.
ResolvedAtZeroBias ==
    report # None /\ report.maps # NoMaps =>
        \A i \in DOMAIN report.frames : \A r \in report.maps \cap report.crash.space :
            LET frame == report.frames[i]
                binary == report.crash.loaded[r.path]
            IN  Settled(frame, r) /\ binary.bias = 0 /\ Tidy(binary) => Names(frame, r)

-----------------------------------------------------------------------------
(* What the documentation says.                                            *)

\* "Calculates correct ELF file offsets": so does a frame of any program that
\* has its symbols.
ResolvedRight ==
    report # None /\ report.maps # NoMaps =>
        \A i \in DOMAIN report.frames : \A r \in report.maps \cap report.crash.space :
            Settled(report.frames[i], r) => Names(report.frames[i], r)

\* What really happened at the address a report has of a memory fault.
OwnFault == report # None /\ report.own /\ report.crash.sig \in MemoryFaults
                          /\ report.addr = report.crash.addr

\* "Determines if crash occurred in heap, stack, library, or unmapped memory":
\* a fault in a library that a report places in a file is placed in a library.
LibraryRecognised ==
    OwnFault /\ report.type \in {"library", "executable", "mapped"} =>
        \A r \in report.crash.space :
            In(report.addr, r) /\ r.path \in SharedObjects => report.type = "library"

\* The same sentence: what a report calls unmapped was not mapped.
UnmappedIsUnmapped ==
    OwnFault /\ report.type = "unmapped" =>
        \A r \in report.crash.space : ~In(report.addr, r)

\* "0x0 = NULL pointer": what a report calls NULL was an access to address 0.
NullIsNull ==
    report # None /\ report.type = "null" => report.crash.addr = 0
=============================================================================
