------------------------------- MODULE Daemon -------------------------------
(***************************************************************************)
(* The life of the daemon (main, utils.GetEventThreshold, logger.Fatal)    *)
(* and the writing of a report (reports.GenerateCrashReportWithStack).     *)
(* An instance pins its child_root map, loads the configuration, attaches  *)
(* its hooks one by one, runs the event loop in a goroutine, and cleans up *)
(* in deferred calls when it is asked to stop.  logger.Fatal, a panic, a   *)
(* kill and an interrupt before signal.Notify end it without them.         *)
(* Nothing keeps two instances from running at the same time.  All records *)
(* are about one PID, whose holders crash one after the other.             *)
(***************************************************************************)
EXTENDS Integers, Sequences

CONSTANTS
    MaxStarts,          \* model bound: instances started
    MaxRecords,         \* model bound: records submitted
    MaxEdits,           \* model bound: edits of the configuration file
    Hooks,              \* probes to attach (11)
    Names,              \* command names a configuration may list
    LongNames,          \* those of more than 15 characters
    Shortened,          \* what the kernel makes of one of them, 15 characters
    Advised,            \* what README.md says to write for that one, 14
    Config,             \* the configurations people write
    DefaultThreshold,   \* 300
    NoConfig            \* the file is missing or is not YAML

Comms == Names \ LongNames   \* the names the kernel can have

\* What an editor leaves between truncating the file and writing it.
EmptyConfig == [tracked |-> {}, threshold |-> 0]

ASSUME DaemonAssumption ==
    /\ {MaxStarts, MaxRecords, MaxEdits, Hooks} \subseteq Nat
    /\ LongNames \subseteq Names /\ {Shortened, Advised} \subseteq Comms
    /\ Config \subseteq [tracked : SUBSET Names, threshold : Int]
    /\ DefaultThreshold \in Nat \ {0}
    /\ NoConfig \notin Config \cup {EmptyConfig}
    /\ "16 characters" \notin Names

Instance == 1..MaxStarts

VARIABLES
    pin,        \* the instance whose map /sys/fs/bpf/amon_child_root is, or 0
    config,     \* ~/.amon/config.yaml
    edits,      \* model bound
    emptied,    \* history: was the file ever left empty
    phase,      \* of main, per instance
    attached,   \* hooks attached, per instance
    pinned,     \* did Pin succeed (pinnedPath of the map), per instance
    tracked,    \* TrackedCommands as loaded, per instance
    loop,       \* the event loop, per instance
    ring,       \* the records an instance has not read
    received,   \* model bound
    buffer,     \* the registry's entry: [size, gen], per instance
    gen,        \* history: crashes of the PID an instance has handled
    files,      \* the two files of the report being written or last written
    ended,      \* history: the instance that ended last
    overlapped  \* history: instances that were not alone

own     == <<phase, attached, pinned, tracked>>
work    == <<loop, ring, received, buffer, gen, files>>
shared  == <<pin, ended, overlapped>>
edit    == <<config, edits, emptied>>
vars    == <<edit, shared, own, work>>

NoBuffer == [size |-> 0, gen |-> 0]
NoFiles  == [txt |-> "none", jsonl |-> "none", announced |-> FALSE]

Phases == {"none", "loaded", "pinned", "configured", "running",
           "closing", "unpinned", "ended", "aborted", "panicked"}

Live(i) == phase[i] \notin {"none", "ended", "aborted", "panicked"}

Init ==
    /\ config \in Config \cup {NoConfig} /\ edits = 0 /\ emptied = FALSE
    /\ pin = 0 /\ ended = 0 /\ overlapped = {}
    /\ phase = [i \in Instance |-> "none"]
    /\ attached = [i \in Instance |-> 0]
    /\ pinned = [i \in Instance |-> FALSE]
    /\ tracked = [i \in Instance |-> {}]
    /\ loop = [i \in Instance |-> "off"]
    /\ ring = [i \in Instance |-> << >>]
    /\ received = 0
    /\ buffer = [i \in Instance |-> NoBuffer]
    /\ gen = [i \in Instance |-> 1]
    /\ files = [i \in Instance |-> NoFiles]

To(i, p) == phase' = [phase EXCEPT ![i] = p]
-----------------------------------------------------------------------------
(* The configuration file, which people edit while the daemon runs.        *)

Edit == /\ edits < MaxEdits /\ edits' = edits + 1
        /\ config' \in {EmptyConfig, NoConfig}
        /\ emptied' = (emptied \/ config' = EmptyConfig)
        /\ UNCHANGED <<shared, own, work>>

Write == /\ config = EmptyConfig
         /\ config' \in Config
         /\ UNCHANGED <<edits, emptied, shared, own, work>>
-----------------------------------------------------------------------------
(* main, up to the event loop.                                             *)

\* logger.Init, the memlock limit, LoadAndAssign.
Load(i) ==
    /\ phase[i] = "none" /\ \A j \in 1..(i - 1) : phase[j] # "none"
    /\ To(i, "loaded")
    /\ overlapped' = IF \E j \in Instance : Live(j)
                       THEN overlapped \cup {i} \cup {j \in Instance : Live(j)}
                       ELSE overlapped
    /\ UNCHANGED <<edit, pin, ended, attached, pinned, tracked, work>>

\* Mutant of PinSucceeds: a map found at the path is taken for its own.
PinSucceedsAnyway(i) == TRUE

\* It fails when the path exists.
PinSucceeds(i) == pin = 0

\* The error is not looked at.
Pin(i) ==
    /\ phase[i] = "loaded" /\ To(i, "pinned")
    /\ pinned' = [pinned EXCEPT ![i] = PinSucceeds(i)]
    /\ pin' = IF pin = 0 THEN i ELSE pin
    /\ UNCHANGED <<edit, ended, overlapped, attached, tracked, work>>

\* copy(key[:], v) into 16 bytes: the kernel's names end in a zero byte, so a
\* key of 16 characters is none of them.
Key(name) == IF name \in LongNames THEN "16 characters" ELSE name

\* The map allowed_commands.
AllowedCommands(i) == {Key(name) : name \in tracked[i]}

\* utils.Load and loadConfig; without a configuration Fail is the way out.
LoadConfig(i) ==
    /\ phase[i] = "pinned" /\ config # NoConfig /\ To(i, "configured")
    /\ tracked' = [tracked EXCEPT ![i] = config.tracked]
    /\ UNCHANGED <<edit, shared, attached, pinned, work>>

\* From the first hook on, records are queued.
Attach(i) ==
    /\ phase[i] = "configured" /\ attached[i] < Hooks
    /\ attached' = [attached EXCEPT ![i] = @ + 1]
    /\ UNCHANGED <<edit, shared, phase, pinned, tracked, work>>

\* ringbuf.NewReader, signal.Notify, NewRegistry, the goroutine.
Run(i) ==
    /\ phase[i] = "configured" /\ attached[i] = Hooks /\ To(i, "running")
    /\ loop' = [loop EXCEPT ![i] = "reading"]
    /\ UNCHANGED <<edit, shared, attached, pinned, tracked, ring, received, buffer, gen, files>>

\* The end of an instance without its deferred calls: the kernel closes the
\* links and drops the maps, but not the pin.
Abort(i, how) ==
    /\ To(i, how) /\ ended' = i
    /\ attached' = [attached EXCEPT ![i] = 0]
    /\ loop' = [loop EXCEPT ![i] = "off"]
    /\ ring' = [ring EXCEPT ![i] = << >>]
    /\ buffer' = [buffer EXCEPT ![i] = NoBuffer]
    /\ UNCHANGED <<edit, pin, overlapped, pinned, tracked, received, gen>>

\* logger.Fatal at any step of the start, or an interrupt before Notify.
Fail(i) == /\ phase[i] \in {"loaded", "pinned", "configured"}
           /\ Abort(i, "aborted") /\ UNCHANGED files

Kill(i) == /\ phase[i] \in {"running", "closing", "unpinned"}
           /\ Abort(i, "aborted") /\ UNCHANGED files
-----------------------------------------------------------------------------
(* The stop: main returns and its deferred calls run, last one first.      *)

\* SIGINT or SIGTERM; rd.Close, the links.  The loop finds the ring closed
\* at its next Read; what it is doing it goes on with.
Stop(i) ==
    /\ phase[i] = "running" /\ To(i, "closing")
    /\ attached' = [attached EXCEPT ![i] = 0]
    /\ UNCHANGED <<edit, shared, pinned, tracked, work>>

\* Unpin does nothing for a map that was not pinned.
Unpin(i) ==
    /\ phase[i] = "closing" /\ To(i, "unpinned")
    /\ pin' = IF pinned[i] THEN 0 ELSE pin
    /\ UNCHANGED <<edit, ended, overlapped, attached, pinned, tracked, work>>

\* Mutant of Removed: what was not pinned is not removed either.
RemovedIfPinned(i) == IF pinned[i] THEN 0 ELSE pin

\* os.Remove
Removed(i) == 0

\* os.Remove of the path, whosever it is; the process ends, whatever the
\* goroutine is doing.
Return(i) ==
    /\ phase[i] = "unpinned" /\ To(i, "ended") /\ ended' = i
    /\ pin' = Removed(i)
    /\ loop' = [loop EXCEPT ![i] = "off"]
    /\ ring' = [ring EXCEPT ![i] = << >>]
    /\ buffer' = [buffer EXCEPT ![i] = NoBuffer]
    /\ UNCHANGED <<edit, overlapped, attached, pinned, tracked, received, gen, files>>
-----------------------------------------------------------------------------
(* The event loop.                                                         *)

\* The hooks look for the name of the task, or for one of its ancestors, among
\* the allowed commands.  "child" is the crash of a process whose own name is
\* not one of them.
Submit(i) ==
    /\ attached[i] > 0 /\ received < MaxRecords
    /\ AllowedCommands(i) \cap Comms # {}
    /\ received' = received + 1
    /\ \E type \in {"call", "crash", "child"} : ring' = [ring EXCEPT ![i] = Append(@, type)]
    /\ UNCHANGED <<edit, shared, own, loop, buffer, gen, files>>

\* Mutant of GetEventThreshold: the file is taken as it is.
ThresholdAsRead == IF config = NoConfig THEN 0 ELSE config.threshold

\* Read again at every event; empty YAML and a missing key give 0.
GetEventThreshold == IF config = NoConfig THEN DefaultThreshold ELSE config.threshold

Reading(i, type) ==
    /\ loop[i] = "reading" /\ phase[i] = "running"
    /\ ring[i] # << >> /\ Head(ring[i]) = type

Read(i) == ring' = [ring EXCEPT ![i] = Tail(@)]

\* Mutant of NewBuffer: one slot is to stay free.
SmallerBuffer(i) == [size |-> GetEventThreshold - 1, gen |-> gen[i]]

NewBuffer(i) == [size |-> GetEventThreshold, gen |-> gen[i]]

\* GetOrCreate and Push: a new ring gets the size of the moment.
HandleCall(i) ==
    /\ Reading(i, "call")
    /\ buffer[i] # NoBuffer \/ GetEventThreshold > 0
    /\ buffer' = IF buffer[i] # NoBuffer THEN buffer
                 ELSE [buffer EXCEPT ![i] = NewBuffer(i)]
    /\ Read(i)
    /\ UNCHANGED <<edit, shared, own, loop, received, gen, files>>

\* make with a negative size or Push on a ring without slots: a panic in the
\* goroutine ends the program.
Panic(i) ==
    /\ Reading(i, "call")
    /\ buffer[i] = NoBuffer /\ GetEventThreshold <= 0
    /\ Abort(i, "panicked") /\ UNCHANGED files

\* Mutant of Freed: a report that failed keeps its buffer.
FreedIfAnnounced(i) ==
    IF files[i].announced THEN [buffer EXCEPT ![i] = NoBuffer] ELSE buffer

Freed(i) == [buffer EXCEPT ![i] = NoBuffer]

\* The crash of a child: there is no report, the buffer goes.
HandleChild(i) ==
    /\ Reading(i, "child") /\ Read(i)
    /\ buffer' = Freed(i)
    /\ gen' = [gen EXCEPT ![i] = @ + 1]
    /\ UNCHANGED <<edit, shared, own, loop, received, files>>

\* A crash of a tracked process: the report is begun if there is a buffer.
HandleCrash(i) ==
    /\ Reading(i, "crash") /\ Read(i)
    /\ IF buffer[i] = NoBuffer
         THEN /\ gen' = [gen EXCEPT ![i] = @ + 1]
              /\ UNCHANGED <<loop, files>>
         ELSE /\ loop' = [loop EXCEPT ![i] = "txt"]
              /\ files' = [files EXCEPT ![i] = NoFiles]
              /\ UNCHANGED gen
    /\ UNCHANGED <<edit, shared, own, received, buffer>>

\* Read fails for another reason than a closed ring: the loop returns, and
\* main goes on waiting for a signal.
ReadError(i) ==
    /\ loop[i] = "reading" /\ phase[i] = "running"
    /\ loop' = [loop EXCEPT ![i] = "off"]
    /\ UNCHANGED <<edit, shared, own, ring, received, buffer, gen, files>>

\* GetCrashDir or os.Create fails, or the text is written; the errors of its
\* lines are not looked at.
WriteTxtReport(i) ==
    /\ loop[i] = "txt"
    /\ \/ /\ loop' = [loop EXCEPT ![i] = "clean"] /\ UNCHANGED files
       \/ \E txt \in {"partial", "complete"} :
            /\ files' = [files EXCEPT ![i].txt = txt]
            /\ loop' = [loop EXCEPT ![i] = "jsonl"]
    /\ UNCHANGED <<edit, shared, own, ring, received, buffer, gen>>

\* Mutants of AfterJsonl: the file is tried again until it is written; an error of Encode is passed over.
AfterJsonlRetry(written) == IF written = "complete" THEN "announce" ELSE "jsonl"
AfterJsonlAnyway(written) == "announce"

AfterJsonl(written) == IF written = "complete" THEN "announce" ELSE "clean"

WriteJsonlReport(i) ==
    /\ loop[i] = "jsonl"
    /\ \E jsonl \in {"none", "partial", "complete"} :
         /\ files' = [files EXCEPT ![i].jsonl = jsonl]
         /\ loop' = [loop EXCEPT ![i] = AfterJsonl(jsonl)]
    /\ UNCHANGED <<edit, shared, own, ring, received, buffer, gen>>

Announce(i) ==
    /\ loop[i] = "announce"
    /\ files' = [files EXCEPT ![i].announced = TRUE]
    /\ loop' = [loop EXCEPT ![i] = "clean"]
    /\ UNCHANGED <<edit, shared, own, ring, received, buffer, gen>>

\* Read returns ErrClosed.
LoopEnds(i) ==
    /\ loop[i] = "reading" /\ phase[i] \in {"closing", "unpinned"}
    /\ loop' = [loop EXCEPT ![i] = "off"]
    /\ UNCHANGED <<edit, shared, own, ring, received, buffer, gen, files>>

\* Report or error, the buffer goes.
DeleteBuffer(i) ==
    /\ loop[i] = "clean"
    /\ buffer' = Freed(i)
    /\ gen' = [gen EXCEPT ![i] = @ + 1]
    /\ loop' = [loop EXCEPT ![i] = "reading"]
    /\ UNCHANGED <<edit, shared, own, ring, received, files>>

Handle(i) == \/ HandleCall(i) \/ Panic(i) \/ HandleCrash(i) \/ HandleChild(i)
             \/ WriteTxtReport(i) \/ WriteJsonlReport(i) \/ Announce(i) \/ DeleteBuffer(i)
             \/ LoopEnds(i)

Main(i) == Load(i) \/ Pin(i) \/ LoadConfig(i) \/ Attach(i) \/ Run(i)

Clean(i) == Unpin(i) \/ Return(i)

Next == \/ Edit \/ Write
        \/ \E i \in Instance : \/ Main(i) \/ Fail(i) \/ Kill(i) \/ Stop(i) \/ Clean(i)
                               \/ Submit(i) \/ Handle(i) \/ ReadError(i)

Spec == Init /\ [][Next]_vars

\* The goroutine runs, and so does main when it has been asked to stop.
FairSpec == Spec /\ \A i \in Instance : WF_vars(Handle(i)) /\ WF_vars(Clean(i))
-----------------------------------------------------------------------------
(* Properties.                                                             *)

TypeOK ==
    /\ pin \in 0..MaxStarts /\ ended \in 0..MaxStarts
    /\ config \in Config \cup {EmptyConfig, NoConfig}
    /\ edits \in 0..MaxEdits /\ emptied \in BOOLEAN
    /\ overlapped \subseteq Instance
    /\ phase \in [Instance -> Phases]
    /\ attached \in [Instance -> 0..Hooks]
    /\ pinned \in [Instance -> BOOLEAN]
    /\ tracked \in [Instance -> SUBSET Names]
    /\ loop \in [Instance -> {"off", "reading", "txt", "jsonl", "announce", "clean"}]
    /\ ring \in [Instance -> Seq({"call", "crash", "child"})]
    /\ received \in 0..MaxRecords
    /\ gen \in [Instance -> Nat]
    \* CircularBuffer's assumption on the size of a ring
    /\ \A i \in Instance : buffer[i] # NoBuffer => buffer[i].size \in Nat \ {0}
    /\ files \in [Instance -> [txt : {"none", "partial", "complete"},
                               jsonl : {"none", "partial", "complete"},
                               announced : BOOLEAN]]

\* A clean stop leaves no pin, whoever left it: instances that were killed,
\* that failed on the way up, or that ran at the same time.
CleanSlate ==
    (\A i \in Instance : ~Live(i)) /\ ended # 0 /\ phase[ended] = "ended" => pin = 0

\* The pinned map is the one of the running instance if its Pin found the
\* place free and no other instance ran beside it, whose clean-up would
\* remove it.
PinKept ==
    \A i \in Instance \ overlapped :
        Live(i) /\ pinned[i] /\ phase[i] # "unpinned" => pin = i

\* Two files make a report: what is announced has its machine-readable file
\* complete, and none is without the text, whatever fails on the way and
\* wherever the daemon is stopped or killed.
ReportPair ==
    \A i \in Instance :
        /\ files[i].announced => files[i].jsonl = "complete"
        /\ files[i].jsonl # "none" => files[i].txt # "none"

\* The next process with the PID starts without the buffer of the crashed
\* one, also when the report of that one failed.
FreshBuffer ==
    \A i \in Instance : loop[i] = "reading" /\ buffer[i] # NoBuffer =>
        buffer[i].gen = gen[i]

\* A configuration that is removed or damaged while the daemon runs does not
\* end it; only one that can be read and has no threshold does.
SurvivesRemoval == (\E i \in Instance : phase[i] = "panicked") => emptied

\* "If your program is named `my_long_program_name`, use `my_long_progra`": with
\* the name the documentation advises, the program is traced.
AdvisedNameTracked ==
    \A i \in Instance :
        phase[i] = "running" /\ Advised \in tracked[i] => Shortened \in AllowedCommands(i)

\* "send default buffer threshold": a daemon survives every event if all the
\* configurations people write have a threshold, however they are written.
SurvivesEvents == \A i \in Instance : phase[i] # "panicked"

\* The loop comes back to the ring from every report, or the daemon ends: no
\* file that cannot be written holds up the records behind.
LoopReturns ==
    \A i \in Instance :
        loop[i] \notin {"reading", "off"} ~> loop[i] \in {"reading", "off"}
=============================================================================
