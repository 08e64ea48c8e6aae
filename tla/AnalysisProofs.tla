--------------------------- MODULE AnalysisProofs ---------------------------
(***************************************************************************)
(* For every set of files, binaries, mappings and stacks: the types, and   *)
(* what a report says of the fault address and of the frames.  The proof   *)
(* follows the data: a record in the ring has the mappings of its process  *)
(* as long as that is the holder of the PID, the cache has only symbols    *)
(* that a content of their file has, and a frame, once resolved, has the   *)
(* best symbol of some content of the file its mapping is of.  No step     *)
(* undoes that, for what a file has contained is only ever added to.       *)
(***************************************************************************)
EXTENDS Analysis, SequenceTheorems, FiniteSetTheorems, WellFoundedInduction, TLAPS

\* Regions as the mappings of a live process show them.
MapRegion == [start : Nat, end : Nat, offset : Nat, path : Named \cup Anonymous]

Maps == {NoMaps} \cup SUBSET MapRegion

CrashRecord == [inc : 1..MaxHolders, sig : Signals, pcs : Seq(Nat), addr : Nat,
                space : Spaces, loaded : [Files -> Binaries \cup {NoFile}]]

Record == [type : {"signal", "exit"}, crash : CrashRecord]
Job    == [inc : 1..MaxHolders, addr : Nat, maps : Maps, pcs : Seq(Nat), frames : Seq(Frame)]
Info   == [inc : 1..MaxHolders, addr : Nat, maps : Maps, frames : Seq(Frame)]
Report == [inc : 1..MaxHolders, crash : CrashRecord, addr : Nat, type : MemoryTypes,
           own : BOOLEAN, maps : Maps, frames : Seq(Frame)]

\* The types, closer than TypeOK has them.
Typing ==
    /\ holder \in 0..MaxHolders
    /\ state \in {"alive", "dying", "zombie", "reaped"}
    /\ space \in Spaces \cup {{}}
    /\ state # "reaped" => holder # 0 /\ space \in Spaces
    /\ {files, loaded} \subseteq [Files -> Binaries \cup {NoFile}]
    /\ stale \subseteq Files
    /\ had \in [Files -> SUBSET (Binaries \cup {NoFile})]
    /\ queue \in Seq(Record)
    /\ job \in Job \cup {None}
    /\ info \in Info \cup {None}
    /\ report \in Report \cup {None}

\* had is true to its name, finite, and began with a binary.
DiskInv ==
    \A f \in Files : /\ {files[f], loaded[f]} \subseteq had[f]
                     /\ IsFiniteSet(had[f])
                     /\ \E b \in had[f] : b \in Binaries

\* A crash in the ring is of a holder of the PID; the mappings of the last
\* one are still those of the crash.
OfHolder(c) ==
    /\ c.inc <= holder
    /\ c.inc = holder => c.space = space
    /\ \A f \in Files : c.loaded[f] \in had[f]

QueueInv == \A i \in DOMAIN queue : OfHolder(queue[i].crash)

\* What is cached is the answer some content of that file gives.
CacheInv ==
    /\ cache = [f \in Files |-> cache[f]]
    /\ \A f \in Files : \A o \in DOMAIN cache[f] :
          /\ o \in Nat
          /\ \E b \in had[f] \ {NoFile} :
                cache[f][o] = BestSymbol(b, o) /\ BestSymbol(b, o) # NoSymbol

\* An address is in one region at most.
Apart(maps) == \A a \in Nat : \A r, s \in maps : In(a, r) /\ In(a, s) => r = s

\* A frame found in a mapping of a file has the answer some content of that
\* file gives.
FrameRight(frame, maps) ==
    \A r \in maps :
        In(frame.pc, r) /\ r.path \in Files =>
            /\ frame.path = r.path
            /\ \E b \in had[r.path] : frame.function = BestSymbol(b, FileOffset(frame.pc, r))

FramesRight(frames, maps) ==
    maps # NoMaps => /\ Apart(maps)
                     /\ \A i \in DOMAIN frames : FrameRight(frames[i], maps)

JobInv == job # None => /\ FramesRight(job.frames, job.maps)
                        /\ job.maps = NoMaps => job.pcs = << >>

InfoInv == info # None => FramesRight(info.frames, info.maps)

ReportInv ==
    report # None => /\ FramesRight(report.frames, report.maps)
                     /\ \A f \in Files : report.crash.loaded[f] \in had[f]

PlaceInv == NullRecognised /\ PlaceIsRight

IInv == /\ Typing /\ DiskInv /\ QueueInv /\ CacheInv
        /\ JobInv /\ InfoInv /\ ReportInv /\ PlaceInv
-----------------------------------------------------------------------------
(* Numbers, symbols and mappings.                                          *)

LEMMA Least ==
    ASSUME NEW T \in SUBSET Nat, T # {}
    PROVE  \E x \in T : \A y \in T : x <= y
<1>1. \E x \in T : \A y \in T : ~(<<y, x>> \in OpToRel(<, Nat))
  BY NatLessThanWellFounded, WFMin
<1>2. OpToRel(<, Nat) = {ss \in Nat \X Nat : ss[1] < ss[2]}
  BY Zenon DEF OpToRel
<1>3. \A x, y \in Nat : <<y, x>> \in {ss \in Nat \X Nat : ss[1] < ss[2]} <=> y < x
  BY SMT
<1>4. PICK x \in T : \A y \in T : ~(<<y, x>> \in OpToRel(<, Nat))
  BY <1>1
<1>5. ASSUME NEW y \in T PROVE x <= y
  <2>1. x \in Nat /\ y \in Nat
    OBVIOUS
  <2>2. ~(<<y, x>> \in {ss \in Nat \X Nat : ss[1] < ss[2]})
    BY <1>2, <1>4, Zenon
  <2>3. ~(y < x)
    BY <1>3, <2>1, <2>2, Zenon
  <2> QED BY <2>1, <2>3
<1> QED BY <1>5

LEMMA Greatest ==
    ASSUME NEW n \in Nat, NEW S \in SUBSET (0..n), S # {}
    PROVE  \E m \in S : \A i \in S : i <= m
<1> DEFINE T == {d \in 0..n : n - d \in S}
<1>1. PICK i \in S : TRUE
  OBVIOUS
<1>2. n - i \in T
  BY <1>1
<1>3. PICK d \in T : \A c \in T : d <= c
  <2>1. T # {}
    BY <1>2
  <2>2. \A d \in T : d \in Nat
    OBVIOUS
  <2> HIDE DEF T
  <2>3. T \in SUBSET Nat
    BY <2>2
  <2> QED BY <2>1, <2>3, Least
<1>4. ASSUME NEW k \in S PROVE k <= n - d
  <2>1. n - k \in T
    OBVIOUS
  <2> QED BY <1>3, <2>1
<1> QED BY <1>3, <1>4

LEMMA SymbolTyping ==
    ASSUME NEW b \in Binaries, NEW s \in SymbolsOf(b)
    PROVE  s \in [name : STRING, value : Nat, size : Nat, func : BOOLEAN]
BY AnalysisAssumption DEF Binary, SymbolsOf

\* The answer of a binary: the closest symbol that covers the offset, and
\* none only if nothing covers it.
LEMMA Best ==
    ASSUME NEW b \in Binaries, NEW offset \in Nat
    PROVE  \/ /\ BestSymbol(b, offset) = NoSymbol
              /\ \A s \in SymbolsOf(b) : ~Covers(s, offset)
           \/ \E s \in SymbolsOf(b) :
                 /\ Covers(s, offset)
                 /\ BestSymbol(b, offset) = [name |-> s.name, dist |-> offset - s.value]
                 /\ BestSymbol(b, offset) \in Symbol
                 /\ \A t \in SymbolsOf(b) : Covers(t, offset) => t.value <= s.value
<1> DEFINE near == {s \in SymbolsOf(b) : Covers(s, offset)}
<1>1. b # NoFile
  BY AnalysisAssumption
<1>2. CASE near = {}
  <2>1. BestSymbol(b, offset) = NoSymbol
    BY <1>1, <1>2 DEF BestSymbol
  <2> QED BY <1>2, <2>1
<1>3. CASE near # {}
  <2> DEFINE values == {s.value : s \in near}
  <2>1. values \in SUBSET (0..offset) /\ values # {}
    BY <1>3, SymbolTyping DEF Covers
  <2>2. \E m \in values : \A i \in values : i <= m
    <3> HIDE DEF values
    <3> QED BY <2>1, Greatest
  <2>3. \E s \in near : \A t \in near : t.value <= s.value
    BY <2>2
  <2> DEFINE s == CHOOSE s \in near : \A t \in near : t.value <= s.value
  <2>4. s \in near /\ \A t \in near : t.value <= s.value
    BY <2>3
  <2>5. BestSymbol(b, offset) = [name |-> s.name, dist |-> offset - s.value]
    BY <1>1, <1>3 DEF BestSymbol
  <2> HIDE DEF s
  <2>6. [name |-> s.name, dist |-> offset - s.value] \in Symbol
    BY <2>4, SymbolTyping DEF Symbol, Covers
  <2> QED BY <2>4, <2>5, <2>6
<1> QED BY <1>2, <1>3

LEMMA BestTyping ==
    ASSUME NEW b \in Binaries \cup {NoFile}, NEW offset \in Nat
    PROVE  BestSymbol(b, offset) \in Symbol \cup {NoSymbol}
<1>1. CASE b = NoFile
  BY <1>1 DEF BestSymbol
<1>2. CASE b \in Binaries
  BY <1>2, Best
<1> QED BY <1>1, <1>2

LEMMA ConstantTyping ==
    /\ MaxHolders \in Nat /\ MaxReplaced \in Nat /\ LowMemory \in Nat
    /\ Files \subseteq Named /\ Deleted \in [Files -> Named \ Files]
    /\ \A sp \in Spaces : sp \subseteq Region
    /\ MemoryFaults \subseteq Signals
BY AnalysisAssumption

\* What the maps of a process say: regions, apart from each other, and each
\* of them a region the process has, under its path or as deleted.
LEMMA MapsTyping ==
    ASSUME Typing
    PROVE  /\ ProcessMaps \in Maps
           /\ ProcessMaps # NoMaps =>
                /\ Apart(ProcessMaps)
                /\ \A q \in ProcessMaps : \E r \in space :
                      /\ r \in Region /\ q.start = r.start /\ q.end = r.end
                      /\ q.path = r.path \/ (r.path \in stale /\ q.path = Deleted[r.path])
<1>1. CASE state \in {"alive", "dying"}
  <2> DEFINE shown(r) == [r EXCEPT !.path = IF @ \in stale THEN Deleted[@] ELSE @]
  <2>1. ProcessMaps = {shown(r) : r \in space}
    BY <1>1 DEF ProcessMaps
  <2>2. space \in Spaces /\ space \subseteq Region
    BY <1>1, ConstantTyping DEF Typing
  <2>3. ASSUME NEW r \in space
        PROVE  /\ shown(r) \in MapRegion /\ r \in Region
               /\ shown(r).start = r.start /\ shown(r).end = r.end
               /\ shown(r).path = r.path \/ (r.path \in stale /\ shown(r).path = Deleted[r.path])
    BY <2>2, ConstantTyping DEF Region, MapRegion, Typing
  <2> HIDE DEF shown
  <2>4. \A r \in space : shown(r).start = r.start /\ shown(r).end = r.end /\ r \in Region
    BY <2>3, Zenon
  <2>5. \A q \in ProcessMaps : \E r \in space :
           /\ r \in Region /\ q.start = r.start /\ q.end = r.end
           /\ q.path = r.path \/ (r.path \in stale /\ q.path = Deleted[r.path])
    BY <2>1, <2>3
  <2>6. ProcessMaps \in SUBSET MapRegion
    BY <2>1, <2>3
  <2>7. Apart(ProcessMaps)
    <3> SUFFICES ASSUME NEW a \in Nat, NEW p \in ProcessMaps, NEW q \in ProcessMaps,
                        In(a, p), In(a, q)
                 PROVE  p = q
      BY DEF Apart
    <3>1. PICK u \in space : p = shown(u)
      BY <2>1
    <3>2. PICK v \in space : q = shown(v)
      BY <2>1
    <3>3. In(a, u) /\ In(a, v) /\ u \in Region /\ v \in Region
      <4>1. shown(u).start = u.start /\ shown(u).end = u.end /\ u \in Region
        BY <2>4
      <4>2. shown(v).start = v.start /\ shown(v).end = v.end /\ v \in Region
        BY <2>4
      <4> QED BY <3>1, <3>2, <4>1, <4>2 DEF In
    <3>4. u = v \/ u.end <= v.start \/ v.end <= u.start
      BY <2>2, AnalysisAssumption
    <3>5. u = v
      BY <3>3, <3>4 DEF In, Region
    <3> QED BY <3>1, <3>2, <3>5
  <2> QED BY <2>5, <2>6, <2>7 DEF Maps
<1>2. CASE state = "zombie"
  BY <1>2 DEF ProcessMaps, Maps, Apart
<1>3. CASE state = "reaped"
  BY <1>3 DEF ProcessMaps, Maps
<1> QED BY <1>1, <1>2, <1>3 DEF Typing
-----------------------------------------------------------------------------
(* The invariant is established, and no step undoes it.                    *)

LEMMA NoneApart == None \notin Job /\ None \notin Info /\ None \notin Report
BY ConstantTyping DEF None, Job, Info, Report

LEMMA InitInv == Init => IInv
<1> SUFFICES ASSUME Init PROVE IInv
  OBVIOUS
<1>1. /\ files \in [Files -> Binaries] /\ loaded = files /\ holder = 0
      /\ had = [f \in Files |-> {files[f]}]
      /\ queue = << >> /\ cache = [f \in Files |-> << >>]
      /\ job = None /\ info = None /\ report = None
      /\ state = "reaped" /\ space = {} /\ stale = {}
  BY DEF Init
<1>2. Typing
  BY <1>1, ConstantTyping DEF Typing
<1>3. DiskInv
  <2>1. \A x : IsFiniteSet({x})
    BY FS_Singleton
  <2> QED BY <1>1, <2>1 DEF DiskInv
<1>4. CacheInv
  BY <1>1 DEF CacheInv
<1>5. QueueInv /\ JobInv /\ InfoInv /\ ReportInv /\ PlaceInv
  BY <1>1 DEF QueueInv, JobInv, InfoInv, ReportInv, PlaceInv, NullRecognised, PlaceIsRight
<1> QED BY <1>2, <1>3, <1>4, <1>5 DEF IInv

\* What a file has contained is only added to.
HadGrows == \A f \in Files : had[f] \subseteq had'[f]

LEMMA FrameKept ==
    ASSUME HadGrows, NEW frame, NEW maps, FrameRight(frame, maps)
    PROVE  FrameRight(frame, maps)'
BY DEF HadGrows, FrameRight

LEMMA FramesKept ==
    ASSUME HadGrows, NEW frames, NEW maps, FramesRight(frames, maps)
    PROVE  FramesRight(frames, maps)'
BY FrameKept DEF FramesRight, Apart

LEMMA CacheKept ==
    ASSUME CacheInv, HadGrows, cache' = cache
    PROVE  CacheInv'
BY DEF CacheInv, HadGrows

LEMMA JobKept ==
    ASSUME JobInv, HadGrows, job' \in {job, None}
    PROVE  JobInv'
BY FramesKept DEF JobInv

LEMMA InfoKept ==
    ASSUME InfoInv, HadGrows, info' \in {info, None}
    PROVE  InfoInv'
BY FramesKept DEF InfoInv

LEMMA ReportKept ==
    ASSUME ReportInv, PlaceInv, HadGrows,
           report' = None \/ (report' = report /\ stale \subseteq stale')
    PROVE  ReportInv' /\ PlaceInv'
BY FramesKept DEF ReportInv, PlaceInv, NullRecognised, PlaceIsRight, HadGrows

\* The steps of the kernel: the daemon's knowledge stays, or its report is
\* forgotten, and what a file has contained may grow.
LEMMA DaemonKept ==
    ASSUME IInv, HadGrows, UNCHANGED <<cache, job, info>>,
           report' = None \/ (report' = report /\ stale \subseteq stale')
    PROVE  CacheInv' /\ JobInv' /\ InfoInv' /\ ReportInv' /\ PlaceInv'
BY CacheKept, JobKept, InfoKept, ReportKept DEF IInv

LEMMA StartInv == IInv /\ Start => IInv'
<1> SUFFICES ASSUME IInv, Start PROVE IInv'
  OBVIOUS
<1>1. /\ state = "reaped" /\ holder < MaxHolders /\ holder' = holder + 1
      /\ state' = "alive" /\ space' \in Spaces /\ stale' = {} /\ loaded' = files
      /\ report' = None /\ UNCHANGED <<files, had, replaced, queue, cache, job, info>>
  BY DEF Start, disk
<1>2. Typing
  BY DEF IInv
<1>3. Typing'
  BY <1>1, <1>2, ConstantTyping DEF Typing
<1>4. DiskInv'
  BY <1>1 DEF IInv, DiskInv
<1>5. QueueInv'
  <2>1. queue \in Seq(Record) /\ holder \in Nat
    BY <1>2 DEF Typing
  <2> SUFFICES ASSUME NEW i \in DOMAIN queue PROVE OfHolder(queue[i].crash)'
    BY <1>1 DEF QueueInv
  <2>2. queue[i] \in Record /\ OfHolder(queue[i].crash)
    BY <2>1 DEF IInv, QueueInv
  <2>3. queue[i].crash.inc \in Nat
    BY <2>2 DEF Record, CrashRecord
  <2> QED BY <1>1, <2>1, <2>2, <2>3 DEF OfHolder
<1>6. CacheInv' /\ JobInv' /\ InfoInv' /\ ReportInv' /\ PlaceInv'
  BY <1>1, DaemonKept DEF HadGrows
<1> QED BY <1>3, <1>4, <1>5, <1>6 DEF IInv

LEMMA CrashInv == IInv /\ Crash => IInv'
<1> SUFFICES ASSUME IInv, Crash PROVE IInv'
  OBVIOUS
<1>1. Typing
  BY DEF IInv
<1>2. /\ state = "alive" /\ state' = "dying"
      /\ UNCHANGED <<holder, space, stale, loaded, files, had, replaced, cache, job, info, report>>
  BY DEF Crash, disk, daemon
<1>3. PICK crash :
         /\ \E sig \in Signals, pcs \in Stacks, addr \in Faults :
              crash = [inc |-> holder, sig |-> sig, pcs |-> pcs,
                       addr |-> IF sig \in MemoryFaults THEN addr ELSE 0,
                       space |-> space, loaded |-> loaded]
         /\ queue' \in {queue \o records : records \in
                {<< >>, << [type |-> "signal", crash |-> crash] >>,
                 << [type |-> "exit", crash |-> crash] >>,
                 << [type |-> "signal", crash |-> crash], [type |-> "exit", crash |-> crash] >>}}
  BY DEF Crash
<1>4. crash \in CrashRecord
  <2>1. holder \in 1..MaxHolders /\ space \in Spaces /\ loaded \in [Files -> Binaries \cup {NoFile}]
    BY <1>1, <1>2 DEF Typing
  <2>2. PICK sig \in Signals, pcs \in Stacks, addr \in Faults :
           crash = [inc |-> holder, sig |-> sig, pcs |-> pcs,
                    addr |-> IF sig \in MemoryFaults THEN addr ELSE 0,
                    space |-> space, loaded |-> loaded]
    BY <1>3
  <2>3. pcs \in Seq(Nat) /\ (IF sig \in MemoryFaults THEN addr ELSE 0) \in Nat
    BY AnalysisAssumption
  <2> QED BY <2>1, <2>2, <2>3 DEF CrashRecord
<1>5. OfHolder(crash)
  BY <1>1, <1>3 DEF OfHolder, IInv, DiskInv, Typing
<1>6. /\ queue' \in Seq(Record)
      /\ \A i \in DOMAIN queue' : \/ i \in DOMAIN queue /\ queue'[i] = queue[i]
                                  \/ queue'[i].crash = crash
  <2>1. queue \in Seq(Record)
    BY <1>1 DEF Typing
  <2> DEFINE e == [type |-> "exit", crash |-> crash]
             s == [type |-> "signal", crash |-> crash]
  <2>2. e \in Record /\ s \in Record /\ e.crash = crash /\ s.crash = crash
    BY <1>4 DEF Record
  <2>3. PICK records \in {<< >>, <<s>>, <<e>>, <<s, e>>} : queue' = queue \o records
    BY <1>3
  <2> HIDE DEF e, s
  <2>4. /\ records \in Seq(Record)
        /\ \A i \in DOMAIN records : records[i].crash = crash
    <3>1. ASSUME NEW x, NEW y, x \in Record, y \in Record, x.crash = crash, y.crash = crash
          PROVE  \A q \in {<< >>, <<x>>, <<x, y>>} :
                    q \in Seq(Record) /\ \A i \in DOMAIN q : q[i].crash = crash
      <4>1. /\ << >> \in Seq(Record) /\ \A i \in DOMAIN << >> : << >>[i].crash = crash
        OBVIOUS
      <4>2. /\ <<x>> \in Seq(Record) /\ <<x, y>> \in Seq(Record)
        BY <3>1
      <4>3. /\ \A i \in DOMAIN <<x>> : <<x>>[i].crash = crash
            /\ \A i \in DOMAIN <<x, y>> : <<x, y>>[i].crash = crash
        BY <3>1
      <4> QED BY <4>1, <4>2, <4>3, Zenon
    <3> QED BY <2>2, <2>3, <3>1, Zenon
  <2>5. /\ queue' \in Seq(Record) /\ Len(queue') = Len(queue) + Len(records)
        /\ \A i \in 1..(Len(queue) + Len(records)) :
             queue'[i] = IF i <= Len(queue) THEN queue[i] ELSE records[i - Len(queue)]
    BY <2>1, <2>3, <2>4, ConcatProperties
  <2>6. /\ DOMAIN queue = 1..Len(queue) /\ Len(queue) \in Nat
        /\ DOMAIN records = 1..Len(records) /\ Len(records) \in Nat
        /\ DOMAIN queue' = 1..(Len(queue) + Len(records))
    BY <2>1, <2>4, <2>5, LenProperties
  <2>7. ASSUME NEW i \in DOMAIN queue'
        PROVE  \/ i \in DOMAIN queue /\ queue'[i] = queue[i]
               \/ queue'[i].crash = crash
    <3>1. CASE i <= Len(queue)
      BY <2>5, <2>6, <3>1
    <3>2. CASE ~(i <= Len(queue))
      <4>1. i - Len(queue) \in DOMAIN records /\ queue'[i] = records[i - Len(queue)]
        BY <2>5, <2>6, <3>2
      <4> QED BY <2>4, <4>1
    <3> QED BY <3>1, <3>2
  <2> QED BY <2>5, <2>7
<1>7. Typing'
  BY <1>1, <1>2, <1>6 DEF Typing
<1>8. QueueInv'
  <2> SUFFICES ASSUME NEW i \in DOMAIN queue' PROVE OfHolder(queue'[i].crash)
    BY <1>2 DEF QueueInv, OfHolder
  <2> QED BY <1>5, <1>6 DEF IInv, QueueInv
<1>9. DiskInv'
  BY <1>2 DEF IInv, DiskInv
<1>10. CacheInv' /\ JobInv' /\ InfoInv' /\ ReportInv' /\ PlaceInv'
  BY <1>2, DaemonKept DEF HadGrows
<1> QED BY <1>7, <1>8, <1>9, <1>10 DEF IInv

LEMMA DyingInv == IInv /\ (ReleaseMemory \/ Reap) => IInv'
<1> SUFFICES ASSUME IInv, ReleaseMemory \/ Reap PROVE IInv'
  OBVIOUS
<1>1. /\ state \in {"dying", "zombie"} /\ state' \in {"zombie", "reaped"}
      /\ UNCHANGED <<holder, space, stale, loaded, files, had, replaced, queue,
                     cache, job, info, report>>
  BY DEF ReleaseMemory, Reap, disk, daemon
<1>2. Typing' /\ DiskInv' /\ QueueInv'
  BY <1>1 DEF IInv, Typing, DiskInv, QueueInv, OfHolder
<1>3. CacheInv' /\ JobInv' /\ InfoInv' /\ ReportInv' /\ PlaceInv'
  BY <1>1, DaemonKept DEF HadGrows
<1> QED BY <1>2, <1>3 DEF IInv

LEMMA ReplaceInv == IInv /\ ReplaceBinary => IInv'
<1> SUFFICES ASSUME IInv, ReplaceBinary PROVE IInv'
  OBVIOUS
<1>1. PICK f \in Files, b \in Binaries \cup {NoFile} :
         /\ files' = [files EXCEPT ![f] = b]
         /\ had' = [had EXCEPT ![f] = @ \cup {b}]
         /\ stale' = stale \cup {f}
  BY DEF ReplaceBinary
<1>2. UNCHANGED <<holder, state, space, loaded, queue, cache, job, info, report>>
  BY DEF ReplaceBinary, daemon
<1>3. Typing
  BY DEF IInv
<1>4. Typing'
  BY <1>1, <1>2, <1>3 DEF Typing
<1>5. HadGrows /\ had'[f] = had[f] \cup {b} /\ \A g \in Files \ {f} : had'[g] = had[g]
  BY <1>1, <1>3 DEF HadGrows, Typing
<1>6. DiskInv'
  <2> SUFFICES ASSUME NEW g \in Files
               PROVE  /\ files'[g] \in had'[g] /\ loaded'[g] \in had'[g]
                      /\ IsFiniteSet(had'[g])
                      /\ \E c \in had'[g] : c \in Binaries
    BY DEF DiskInv
  <2>1. IsFiniteSet(had'[g])
    BY <1>5, FS_AddElement DEF IInv, DiskInv
  <2>2. files'[g] \in had'[g] /\ loaded'[g] \in had'[g]
    BY <1>1, <1>2, <1>3, <1>5 DEF IInv, DiskInv, Typing
  <2>3. \E c \in had'[g] : c \in Binaries
    BY <1>5 DEF IInv, DiskInv
  <2> QED BY <2>1, <2>2, <2>3
<1>7. QueueInv'
  BY <1>2, <1>5 DEF IInv, QueueInv, OfHolder, HadGrows
<1>8. CacheInv' /\ JobInv' /\ InfoInv' /\ ReportInv' /\ PlaceInv'
  BY <1>1, <1>2, <1>5, DaemonKept
<1> QED BY <1>4, <1>6, <1>7, <1>8 DEF IInv

\* Taking the next record from the ring.
LEMMA Taken ==
    ASSUME IInv, queue # << >>, queue' = Tail(queue), UNCHANGED <<process, disk>>
    PROVE  /\ Head(queue) \in Record /\ OfHolder(Head(queue).crash)
           /\ queue' \in Seq(Record) /\ QueueInv' /\ DiskInv' /\ HadGrows
<1>1. queue \in Seq(Record)
  BY DEF IInv, Typing
<1>2. /\ Head(queue) \in Record /\ Head(queue) = queue[1] /\ 1 \in DOMAIN queue
      /\ Tail(queue) \in Seq(Record)
      /\ \A i \in DOMAIN Tail(queue) : i + 1 \in DOMAIN queue /\ Tail(queue)[i] = queue[i + 1]
  BY <1>1, HeadTailProperties, LenProperties
<1>3. QueueInv'
  BY <1>2 DEF IInv, QueueInv, OfHolder, process, disk
<1>4. DiskInv' /\ HadGrows
  BY DEF IInv, DiskInv, process, disk, HadGrows
<1> QED BY <1>2, <1>3, <1>4 DEF IInv, QueueInv

LEMMA RawFrameTyping == \A pc \in Nat : RawFrame(pc) \in Frame
BY DEF RawFrame, Frame

LEMMA SignalInv == IInv /\ HandleSignalEvent => IInv'
<1> SUFFICES ASSUME IInv, HandleSignalEvent PROVE IInv'
  OBVIOUS
<1> DEFINE c == Head(queue).crash
           maps == ProcessMaps
<1>1. /\ queue # << >> /\ queue' = Tail(queue)
      /\ UNCHANGED <<process, disk, cache, info, report>>
      /\ job' = [inc |-> c.inc, addr |-> c.addr, maps |-> maps,
                 pcs |-> IF maps = NoMaps THEN << >> ELSE c.pcs,
                 frames |-> IF maps = NoMaps
                              THEN [i \in DOMAIN c.pcs |-> RawFrame(c.pcs[i])]
                              ELSE << >>]
  BY DEF HandleSignalEvent
<1>2. /\ Head(queue) \in Record /\ queue' \in Seq(Record)
      /\ QueueInv' /\ DiskInv' /\ HadGrows
  BY <1>1, Taken
<1>3. Typing
  BY DEF IInv
<1>4. maps \in Maps /\ (maps # NoMaps => Apart(maps))
  BY <1>3, MapsTyping
<1>5. c \in CrashRecord /\ c.pcs \in Seq(Nat)
  BY <1>2 DEF Record, CrashRecord
<1> HIDE DEF c, maps
<1>6. [i \in DOMAIN c.pcs |-> RawFrame(c.pcs[i])] \in Seq(Frame)
  BY <1>5, RawFrameTyping, LenProperties, SeqDef
<1>7. job' \in Job
  BY <1>1, <1>4, <1>5, <1>6 DEF Job, CrashRecord
<1>8. Typing'
  BY <1>1, <1>2, <1>3, <1>7 DEF Typing, process, disk
<1>9. JobInv'
  BY <1>1, <1>4 DEF JobInv, FramesRight, Apart
<1>10. CacheInv' /\ InfoInv' /\ ReportInv' /\ PlaceInv'
  BY <1>1, <1>2, CacheKept, InfoKept, ReportKept DEF IInv, process
<1> QED BY <1>2, <1>8, <1>9, <1>10 DEF IInv

\* An answer comes from some content of the file, found now or found before.
LEMMA LookupRight ==
    ASSUME IInv, NEW path \in Files, NEW offset \in Nat
    PROVE  LET symbol == LookupSymbol(cache, path, offset, files[path])
           IN  /\ \E b \in had[path] : symbol = BestSymbol(b, offset)
               /\ symbol \in Symbol \cup {NoSymbol}
               /\ symbol # NoSymbol =>
                    \E b \in had[path] \ {NoFile} : symbol = BestSymbol(b, offset)
<1> DEFINE symbol == LookupSymbol(cache, path, offset, files[path])
<1>1. had[path] \subseteq Binaries \cup {NoFile} /\ files[path] \in had[path]
  BY DEF IInv, Typing, DiskInv
<1>2. \E b \in had[path] : /\ symbol = BestSymbol(b, offset)
                           /\ symbol # NoSymbol => b # NoFile
  <2>1. CASE offset \in DOMAIN cache[path]
    BY <2>1 DEF LookupSymbol, IInv, CacheInv
  <2>2. CASE offset \notin DOMAIN cache[path]
    BY <1>1, <2>2 DEF LookupSymbol, BestSymbol
  <2> QED BY <2>1, <2>2
<1> HIDE DEF symbol
<1>3. symbol \in Symbol \cup {NoSymbol}
  BY <1>1, <1>2, BestTyping
<1>4. /\ \E b \in had[path] : symbol = BestSymbol(b, offset)
      /\ symbol # NoSymbol => \E b \in had[path] \ {NoFile} : symbol = BestSymbol(b, offset)
  BY <1>2
<1> QED BY <1>3, <1>4 DEF symbol

LEMMA ResolveInv == IInv /\ ResolvePC => IInv'
<1> SUFFICES ASSUME IInv, ResolvePC PROVE IInv'
  OBVIOUS
<1> DEFINE pc == Head(job.pcs)
           hit == {q \in job.maps : In(pc, q)}
           r == CHOOSE q \in hit : TRUE
           offset == FileOffset(pc, r)
           named == hit # {} /\ r.path \in Files
           symbol == IF named THEN LookupSymbol(cache, r.path, offset, files[r.path])
                     ELSE NoSymbol
           frame == IF hit = {} THEN RawFrame(pc)
                    ELSE [pc |-> pc, path |-> r.path, function |-> symbol]
<1>1. /\ job # None /\ job.pcs # << >>
      /\ job' = [job EXCEPT !.pcs = Tail(@), !.frames = Append(@, frame)]
      /\ cache' = IF named THEN CacheAfter(cache, r.path, offset, symbol) ELSE cache
      /\ UNCHANGED <<process, disk, queue, info, report>>
  BY DEF ResolvePC
<1>2. Typing /\ job \in Job /\ job.pcs \in Seq(Nat) /\ job.frames \in Seq(Frame)
  BY <1>1 DEF IInv, Typing, Job
<1>3. /\ job.maps # NoMaps /\ job.maps \subseteq MapRegion /\ Apart(job.maps)
      /\ \A i \in DOMAIN job.frames : FrameRight(job.frames[i], job.maps)
  BY <1>1, <1>2 DEF IInv, JobInv, FramesRight, Job, Maps
<1>4. pc \in Nat /\ Tail(job.pcs) \in Seq(Nat)
  BY <1>1, <1>2, HeadTailProperties
<1> HIDE DEF pc
<1>5. hit # {} => r \in hit /\ r \in job.maps /\ In(pc, r) /\ r \in MapRegion
  BY <1>3
<1>6. \A q \in job.maps : In(pc, q) => hit # {} /\ q = r
  BY <1>3, <1>4, <1>5 DEF Apart
<1> HIDE DEF r, hit
<1>7. hit # {} => offset \in Nat
  BY <1>4, <1>5 DEF In, FileOffset, MapRegion
<1> HIDE DEF offset
<1>8. /\ named => /\ \E b \in had[r.path] : symbol = BestSymbol(b, offset)
                  /\ symbol # NoSymbol =>
                       \E b \in had[r.path] \ {NoFile} : symbol = BestSymbol(b, offset)
      /\ symbol \in Symbol \cup {NoSymbol}
  BY <1>7, LookupRight
<1>9. frame \in Frame /\ frame.pc = pc
  BY <1>4, <1>5, <1>8, RawFrameTyping DEF Frame, RawFrame, MapRegion
<1>10. FrameRight(frame, job.maps)
  BY <1>6, <1>8, <1>9 DEF FrameRight, offset
<1> HIDE DEF symbol, frame
<1>11. CacheInv'
  <2>1. CASE ~named \/ symbol = NoSymbol \/ offset \in DOMAIN cache[r.path]
    BY <1>1, <2>1 DEF CacheAfter, IInv, CacheInv, disk
  <2>2. CASE named /\ symbol # NoSymbol /\ offset \notin DOMAIN cache[r.path]
    <3>1. cache' = [cache EXCEPT ![r.path] = [o \in {offset} |-> symbol]]
      BY <1>1, <2>2 DEF CacheAfter
    <3>2. /\ cache' = [f \in Files |-> cache'[f]]
          /\ cache'[r.path] = [o \in {offset} |-> symbol]
          /\ \A f \in Files \ {r.path} : cache'[f] = cache[f]
      BY <2>2, <3>1 DEF IInv, CacheInv
    <3>3. ASSUME NEW f \in Files, NEW o \in DOMAIN cache'[f]
          PROVE  /\ o \in Nat
                 /\ \E b \in had[f] \ {NoFile} :
                      cache'[f][o] = BestSymbol(b, o) /\ BestSymbol(b, o) # NoSymbol
      <4>1. CASE f = r.path
        BY <1>7, <1>8, <2>2, <3>2, <4>1
      <4>2. CASE f # r.path
        BY <3>2, <4>2 DEF IInv, CacheInv
      <4> QED BY <4>1, <4>2
    <3> QED BY <1>1, <3>2, <3>3 DEF CacheInv, disk
  <2> QED BY <2>1, <2>2
<1>12. /\ job' \in Job /\ job'.maps = job.maps /\ job'.frames = Append(job.frames, frame)
  <2>1. Append(job.frames, frame) \in Seq(Frame)
    BY <1>2, <1>9, AppendProperties
  <2> QED BY <1>1, <1>2, <1>4, <2>1 DEF Job
<1>13. Typing'
  BY <1>1, <1>2, <1>12 DEF Typing, process, disk
<1>14. HadGrows /\ DiskInv' /\ QueueInv'
  BY <1>1 DEF HadGrows, IInv, DiskInv, QueueInv, OfHolder, process, disk
<1>15. JobInv'
  <2> DEFINE frames == job'.frames
  <2>1. \A i \in DOMAIN frames : \/ frames[i] = frame
                                 \/ i \in DOMAIN job.frames /\ frames[i] = job.frames[i]
    <3>1. /\ Append(job.frames, frame) \in Seq(Frame) /\ DOMAIN job.frames = 1..Len(job.frames)
          /\ Len(job.frames) \in Nat /\ Len(Append(job.frames, frame)) = Len(job.frames) + 1
          /\ \A i \in 1..Len(job.frames) : Append(job.frames, frame)[i] = job.frames[i]
          /\ Append(job.frames, frame)[Len(job.frames) + 1] = frame
      BY <1>2, <1>9, AppendProperties, LenProperties
    <3>2. DOMAIN Append(job.frames, frame) = 1..(Len(job.frames) + 1)
      BY <3>1, LenProperties
    <3>3. ASSUME NEW i \in 1..(Len(job.frames) + 1)
          PROVE  i \in 1..Len(job.frames) \/ i = Len(job.frames) + 1
      BY <3>1
    <3>4. frames = Append(job.frames, frame)
      BY <1>12
    <3> HIDE DEF frames
    <3>5. ASSUME NEW i \in DOMAIN frames
          PROVE  \/ frames[i] = frame
                 \/ i \in DOMAIN job.frames /\ frames[i] = job.frames[i]
      <4>1. i \in 1..Len(job.frames) \/ i = Len(job.frames) + 1
        BY <3>2, <3>3, <3>4
      <4>2. CASE i \in 1..Len(job.frames)
        BY <3>1, <3>4, <4>2, Zenon
      <4>3. CASE i = Len(job.frames) + 1
        BY <3>1, <3>4, <4>3, Zenon
      <4> QED BY <4>1, <4>2, <4>3
    <3> QED BY <3>5
  <2>2. FramesRight(frames, job'.maps)
    BY <1>3, <1>10, <1>12, <2>1 DEF FramesRight
  <2> QED BY <1>3, <1>12, <1>14, <2>2, FramesKept DEF JobInv
<1>16. InfoInv' /\ ReportInv' /\ PlaceInv'
  BY <1>1, <1>14, InfoKept, ReportKept DEF IInv, process
<1> QED BY <1>11, <1>13, <1>14, <1>15, <1>16 DEF IInv

LEMMA StoreInv == IInv /\ StoreInfo => IInv'
<1> SUFFICES ASSUME IInv, StoreInfo PROVE IInv'
  OBVIOUS
<1>1. /\ job # None /\ job' = None
      /\ info' = [inc |-> job.inc, addr |-> job.addr, maps |-> job.maps, frames |-> job.frames]
      /\ UNCHANGED <<process, disk, queue, cache, report>>
  BY DEF StoreInfo
<1>2. Typing /\ job \in Job
  BY <1>1 DEF IInv, Typing
<1>3. info' \in Info
  BY <1>1, <1>2 DEF Job, Info
<1>4. Typing'
  BY <1>1, <1>2, <1>3 DEF Typing, process, disk
<1>5. HadGrows /\ DiskInv' /\ QueueInv'
  BY <1>1 DEF HadGrows, IInv, DiskInv, QueueInv, OfHolder, process, disk
<1>6. InfoInv'
  BY <1>1 DEF IInv, JobInv, InfoInv, FramesRight, FrameRight, Apart, disk
<1>7. CacheInv' /\ JobInv' /\ ReportInv' /\ PlaceInv'
  BY <1>1, <1>5, CacheKept, JobKept, ReportKept DEF IInv, process
<1> QED BY <1>4, <1>5, <1>6, <1>7 DEF IInv

\* What an address says of a crash: a kind of memory, recognised as low
\* whatever the maps are, and a place only if a mapping of such a path is there.
LEMMA AnalysisTells ==
    ASSUME NEW sig, NEW addr \in Nat, NEW maps \in Maps
    PROVE  LET type == AnalyzeCrash(sig, addr, maps)
           IN  /\ type \in MemoryTypes
               /\ sig \in MemoryFaults /\ addr < LowMemory =>
                    type = IF addr = 0 THEN "null" ELSE "low"
               /\ type \in {"[heap]", "[stack]", "library", "executable"} =>
                    /\ maps # NoMaps
                    /\ \E q \in maps : In(addr, q) /\ type = TypeOfPath(q.path)
<1> DEFINE type == AnalyzeCrash(sig, addr, maps)
           hit == {q \in maps : In(addr, q)}
           q == CHOOSE q \in hit : TRUE
<1>1. LowMemory \in Nat
  BY ConstantTyping
<1>2. CASE sig \notin MemoryFaults
  BY <1>2 DEF AnalyzeCrash, MemoryTypes
<1>3. CASE sig \in MemoryFaults /\ maps = NoMaps
  BY <1>1, <1>3 DEF AnalyzeCrash, Fallback, MemoryTypes
<1>4. CASE sig \in MemoryFaults /\ maps # NoMaps
  <2>1. type = ClassifyAddress(maps, addr)
    BY <1>4 DEF AnalyzeCrash
  <2>2. CASE addr = 0
    BY <1>4, <2>1, <2>2 DEF ClassifyAddress, MemoryTypes
  <2>3. CASE 0 < addr /\ addr < LowMemory
    <3>1. type = "low"
      BY <1>1, <2>1, <2>3 DEF ClassifyAddress
    <3> QED BY <1>4, <2>3, <3>1 DEF MemoryTypes
  <2>4. CASE 0 < addr /\ ~(addr < LowMemory)
    <3>1. type = IF hit = {} THEN "unmapped" ELSE TypeOfPath(q.path)
      BY <1>1, <2>1, <2>4 DEF ClassifyAddress
    <3>2. hit # {} => q \in maps /\ In(addr, q)
      OBVIOUS
    <3>3. \A path : TypeOfPath(path) \in MemoryTypes
      BY DEF TypeOfPath, MemoryTypes
    <3> HIDE DEF type, q
    <3>4. type \in MemoryTypes
      BY <3>1, <3>3 DEF MemoryTypes
    <3> QED BY <1>4, <2>4, <3>1, <3>2, <3>4 DEF type
  <2> QED BY <2>2, <2>3, <2>4
<1> QED BY <1>2, <1>3, <1>4

\* What kind of path a place is told of.
LEMMA PathTold ==
    ASSUME NEW path
    PROVE  /\ TypeOfPath(path) \in {"[heap]", "[stack]"} => path = TypeOfPath(path)
           /\ TypeOfPath(path) = "library" => path \in SharedObjects
           /\ TypeOfPath(path) = "executable" => path \in Named \ SharedObjects
<1>1. CASE path \in {"[stack]", "[heap]"}
  BY <1>1 DEF TypeOfPath
<1>2. CASE path \notin {"[stack]", "[heap]"}
  BY <1>2 DEF TypeOfPath
<1> QED BY <1>1, <1>2

LEMMA ExitInv == IInv /\ HandleExitEvent => IInv'
<1> SUFFICES ASSUME IInv, HandleExitEvent PROVE IInv'
  OBVIOUS
<1> DEFINE c == Head(queue).crash
<1>1. /\ queue # << >> /\ queue' = Tail(queue) /\ info' = None
      /\ UNCHANGED <<process, disk, cache, job>>
      /\ report' = [inc |-> c.inc, crash |-> c, addr |-> FaultAddr,
                    type |-> AnalyzeCrash(c.sig, FaultAddr, ProcessMaps),
                    own |-> holder = c.inc,
                    maps |-> IF info # None THEN info.maps ELSE NoMaps,
                    frames |-> IF info # None THEN info.frames ELSE << >>]
  BY DEF HandleExitEvent
<1>2. /\ Head(queue) \in Record /\ queue' \in Seq(Record) /\ OfHolder(c)
      /\ QueueInv' /\ DiskInv' /\ HadGrows
  BY <1>1, Taken
<1>3. Typing /\ (info # None => info \in Info)
  BY DEF IInv, Typing
<1>4. c \in CrashRecord
  BY <1>2 DEF Record
<1>5. FaultAddr \in Nat
  BY <1>3 DEF FaultAddr, Info
<1>6. ProcessMaps \in Maps
  BY <1>3, MapsTyping
<1> HIDE DEF c
<1> DEFINE type == AnalyzeCrash(c.sig, FaultAddr, ProcessMaps)
<1>7. /\ type \in MemoryTypes
      /\ c.sig \in MemoryFaults /\ FaultAddr < LowMemory =>
           type = IF FaultAddr = 0 THEN "null" ELSE "low"
      /\ type \in {"[heap]", "[stack]", "library", "executable"} =>
           /\ ProcessMaps # NoMaps
           /\ \E q \in ProcessMaps : In(FaultAddr, q) /\ type = TypeOfPath(q.path)
  BY <1>5, <1>6, AnalysisTells
<1> HIDE DEF type
<1>8. /\ report'.inc = c.inc /\ report'.crash = c /\ report'.addr = FaultAddr
      /\ report'.type = type /\ report'.own = (holder = c.inc)
      /\ report'.maps = IF info # None THEN info.maps ELSE NoMaps
      /\ report'.frames = IF info # None THEN info.frames ELSE << >>
  BY <1>1 DEF type
<1>9. report' \in Report
  <2>1. (IF info # None THEN info.maps ELSE NoMaps) \in Maps
    BY <1>3 DEF Info, Maps
  <2>2. (IF info # None THEN info.frames ELSE << >>) \in Seq(Frame)
    BY <1>3 DEF Info
  <2>3. c.inc \in 1..MaxHolders
    BY <1>4 DEF CrashRecord
  <2> QED BY <1>1, <1>4, <1>5, <1>7, <2>1, <2>2, <2>3 DEF Report, type
<1>10. Typing'
  BY <1>1, <1>2, <1>3, <1>9 DEF Typing, process, disk
<1>11. ReportInv'
  <2>1. FramesRight(report'.frames, report'.maps)
    BY <1>8 DEF IInv, InfoInv, FramesRight
  <2>2. \A f \in Files : c.loaded[f] \in had'[f]
    BY <1>1, <1>2 DEF OfHolder, disk
  <2> QED BY <1>2, <1>8, <2>1, <2>2, FramesKept DEF ReportInv
<1>12. NullRecognised'
  BY <1>7, <1>8 DEF NullRecognised
<1>13. PlaceIsRight'
  <2> SUFFICES ASSUME holder = c.inc,
                      type \in {"[heap]", "[stack]", "library", "executable"}
               PROVE  \E r \in c.space :
                        /\ r.start <= FaultAddr /\ FaultAddr <= r.end - 1
                        /\ CASE type = "library" -> r.path \in SharedObjects
                             [] type = "executable" ->
                                  /\ r.path \in Files
                                  /\ r.path \in SharedObjects =>
                                       /\ r.path \in stale
                                       /\ Deleted[r.path] \notin SharedObjects
                             [] OTHER -> r.path = type
    BY <1>1, <1>8 DEF PlaceIsRight, process
  <2>1. c.space = space
    BY <1>2 DEF OfHolder
  <2>2. PICK q \in ProcessMaps : In(FaultAddr, q) /\ type = TypeOfPath(q.path)
    BY <1>7
  <2>3. PICK r \in space : /\ r \in Region /\ q.start = r.start /\ q.end = r.end
                           /\ q.path = r.path \/ (r.path \in stale /\ q.path = Deleted[r.path])
    BY <1>3, <1>7, <2>2, MapsTyping
  <2>4. r.start <= FaultAddr /\ FaultAddr <= r.end - 1
    BY <1>5, <2>2, <2>3 DEF In, Region
  <2>5. /\ stale \subseteq Files /\ Deleted \in [Files -> Named \ Files]
        /\ \A f \in Files : Deleted[f] \in SharedObjects => f \in SharedObjects
        /\ \A path \in Named : path \notin Anonymous
    BY <1>3, AnalysisAssumption DEF Typing
  <2>6. CASE type = "library"
    <3>1. q.path \in SharedObjects
      BY <2>2, <2>6, PathTold
    <3>2. r.path \in SharedObjects
      BY <2>3, <2>5, <3>1
    <3> QED BY <2>1, <2>4, <2>6, <3>2
  <2>7. CASE type = "executable"
    <3>1. q.path \in Named \ SharedObjects
      BY <2>2, <2>7, PathTold
    <3>2. r.path \in Files
      BY <2>3, <2>5, <3>1 DEF Region
    <3>3. r.path \in SharedObjects =>
            r.path \in stale /\ Deleted[r.path] \notin SharedObjects
      BY <2>3, <3>1
    <3> QED BY <2>1, <2>4, <2>7, <3>2, <3>3
  <2>8. CASE type \in {"[heap]", "[stack]"}
    <3>1. q.path = type
      BY <2>2, <2>8, PathTold
    <3>2. \A f \in stale : q.path # Deleted[f]
      BY <2>5, <2>8, <3>1 DEF Anonymous
    <3>3. r.path = type
      BY <2>3, <3>1, <3>2
    <3> QED BY <2>1, <2>4, <2>8, <3>3
  <2> QED BY <2>6, <2>7, <2>8
<1>14. CacheInv' /\ JobInv' /\ InfoInv'
  BY <1>1, <1>2, CacheKept, JobKept, InfoKept DEF IInv
<1> QED BY <1>2, <1>10, <1>11, <1>12, <1>13, <1>14 DEF IInv, PlaceInv
-----------------------------------------------------------------------------
(* What the invariant says of reports, and the theorems.                   *)

LEMMA Inductive == IInv /\ [Next]_vars => IInv'
<1> SUFFICES ASSUME IInv, [Next]_vars PROVE IInv'
  OBVIOUS
<1>1. CASE Kernel
  BY <1>1, StartInv, CrashInv, DyingInv, ReplaceInv DEF Kernel
<1>2. CASE Daemon
  BY <1>2, SignalInv, ResolveInv, StoreInv, ExitInv DEF Daemon
<1>3. CASE UNCHANGED vars
  <2>1. UNCHANGED <<holder, state, space, stale, loaded, files, had, replaced, queue,
                    cache, job, info, report>>
    BY <1>3 DEF vars, process, disk, daemon
  <2>2. Typing' /\ DiskInv' /\ QueueInv'
    BY <2>1 DEF IInv, Typing, DiskInv, QueueInv, OfHolder
  <2>3. CacheInv' /\ JobInv' /\ InfoInv' /\ ReportInv' /\ PlaceInv'
    BY <2>1, DaemonKept DEF HadGrows
  <2> QED BY <2>2, <2>3 DEF IInv
<1> QED BY <1>1, <1>2, <1>3 DEF Next

\* A cached symbol is one of a binary the file has been.
LEMMA CachedBest ==
    ASSUME IInv, NEW f \in Files, NEW o \in DOMAIN cache[f]
    PROVE  /\ cache[f][o] \in Symbol
           /\ \E b \in had[f] \ {NoFile} : \E s \in SymbolsOf(b) :
                 /\ Covers(s, o) /\ cache[f][o] = [name |-> s.name, dist |-> o - s.value]
                 /\ b \in Binaries /\ o \in Nat
<1>1. PICK b \in had[f] \ {NoFile} :
         o \in Nat /\ cache[f][o] = BestSymbol(b, o) /\ BestSymbol(b, o) # NoSymbol
  BY DEF IInv, CacheInv
<1>2. b \in Binaries
  BY DEF IInv, Typing
<1>3. PICK s \in SymbolsOf(b) : /\ Covers(s, o) /\ BestSymbol(b, o) \in Symbol
                               /\ BestSymbol(b, o) = [name |-> s.name, dist |-> o - s.value]
  BY <1>1, <1>2, Best
<1> QED BY <1>1, <1>2, <1>3

LEMMA TypeFollows == IInv => TypeOK
<1> SUFFICES ASSUME IInv PROVE TypeOK
  OBVIOUS
<1>1. Typing
  BY DEF IInv
<1>2. \A i \in DOMAIN queue : queue[i].type \in {"signal", "exit"}
  <2>1. \A i \in DOMAIN queue : queue[i] \in Record
    BY <1>1, LenProperties DEF Typing
  <2> QED BY <2>1 DEF Record
<1>3. \A f \in Files : \A o \in DOMAIN cache[f] : cache[f][o] \in Symbol
  BY CachedBest
<1>4. job # None => job.inc \in 1..MaxHolders /\ \A i \in DOMAIN job.frames : job.frames[i] \in Frame
  BY <1>1, LenProperties DEF Typing, Job
<1>5. /\ info # None => info.inc \in 1..MaxHolders
      /\ report # None => report.type \in MemoryTypes
  BY <1>1 DEF Typing, Info, Report
<1> QED BY <1>1, <1>2, <1>3, <1>4, <1>5 DEF TypeOK, Typing

LEMMA CacheFollows == IInv => CacheIsOfFile
<1> SUFFICES ASSUME IInv, NEW f \in Files, NEW o \in DOMAIN cache[f]
             PROVE  \E b \in had[f] \ {NoFile} : \E s \in SymbolsOf(b) :
                       /\ IsFunction(s) /\ s.value + cache[f][o].dist = o /\ s.name = cache[f][o].name
                       /\ s.size > 0 => o < s.value + s.size
  BY DEF CacheIsOfFile
<1>1. PICK b \in had[f] \ {NoFile} : \E s \in SymbolsOf(b) :
         /\ Covers(s, o) /\ cache[f][o] = [name |-> s.name, dist |-> o - s.value]
         /\ b \in Binaries /\ o \in Nat
  BY CachedBest
<1>2. PICK s \in SymbolsOf(b) :
         /\ Covers(s, o) /\ cache[f][o] = [name |-> s.name, dist |-> o - s.value]
         /\ b \in Binaries /\ o \in Nat
  BY <1>1
<1>3. s.value \in Nat /\ s.size \in Nat
  BY <1>2, SymbolTyping
<1>4. IsFunction(s) /\ s.value + (o - s.value) = o /\ (s.size > 0 => o < s.value + s.size)
  BY <1>2, <1>3 DEF Covers
<1> QED BY <1>2, <1>4

\* A file that never changed is the binary a process was started from.
LEMMA NeverReplaced ==
    ASSUME IInv, NEW f \in Files, Cardinality(had[f]) = 1, NEW b \in had[f], NEW c \in had[f]
    PROVE  b = c /\ b \in Binaries
<1>1. IsFiniteSet(had[f]) /\ \E d \in had[f] : d \in Binaries
  BY DEF IInv, DiskInv
<1>2. \E d : had[f] = {d}
  BY <1>1, FS_Singleton
<1> QED BY <1>1, <1>2

\* In a tidy binary without a bias, the closest symbol of an offset names the
\* function there.
LEMMA BestNames ==
    ASSUME NEW b \in Binaries, b.bias = 0, Tidy(b), NEW offset \in Nat
    PROVE  LET best == BestSymbol(b, offset)
               true == TrueFunctions(b, offset)
               unsized == {s.name : s \in {t \in SymbolsOf(b) : IsFunction(t) /\ t.size = 0}}
           IN  IF true = {} THEN best = NoSymbol \/ best.name \in unsized
               ELSE best # NoSymbol /\ best.name \in true
<1> DEFINE best == BestSymbol(b, offset)
           true == TrueFunctions(b, offset)
           unsized == {s.name : s \in {t \in SymbolsOf(b) : IsFunction(t) /\ t.size = 0}}
           right == IF true = {} THEN best = NoSymbol \/ best.name \in unsized
                    ELSE best # NoSymbol /\ best.name \in true
<1> SUFFICES right
  OBVIOUS
<1> HIDE DEF best, true, unsized
<1>1. \A s \in SymbolsOf(b) : s.value \in Nat /\ s.size \in Nat /\ IsFunction(s) \in BOOLEAN
  BY SymbolTyping DEF IsFunction
<1>2. \A s \in SymbolsOf(b) :
         IsFunction(s) /\ s.value <= offset /\ offset < s.value + s.size => Covers(s, offset)
  BY <1>1 DEF Covers
<1>3. CASE best = NoSymbol
  <2>1. \A s \in SymbolsOf(b) : ~Covers(s, offset)
    BY <1>3, Best, AnalysisAssumption DEF best
  <2>2. true = {}
    BY <1>2, <2>1 DEF true, TrueFunctions
  <2> QED BY <1>3, <2>2
<1>4. CASE best # NoSymbol
  <2>1. PICK s \in SymbolsOf(b) :
           /\ Covers(s, offset) /\ best.name = s.name
           /\ \A t \in SymbolsOf(b) : Covers(t, offset) => t.value <= s.value
    <3>1. PICK s \in SymbolsOf(b) :
             /\ Covers(s, offset) /\ best = [name |-> s.name, dist |-> offset - s.value]
             /\ \A t \in SymbolsOf(b) : Covers(t, offset) => t.value <= s.value
      BY <1>4, Best DEF best
    <3> QED BY <3>1
  <2>2. CASE s.size > 0
    <3>1. IsFunction(s) /\ s.value <= offset /\ offset < s.value + s.size
      BY <1>1, <2>1, <2>2 DEF Covers
    <3>2. s.name \in true
      BY <3>1 DEF true, TrueFunctions
    <3> QED BY <1>4, <2>1, <3>2
  <2>3. CASE s.size = 0
    <3>1. IsFunction(s) /\ s.value <= offset /\ s.name \in unsized
      BY <1>1, <2>1, <2>3 DEF Covers, unsized
    <3>2. \A t \in SymbolsOf(b) :
             ~(IsFunction(t) /\ t.value <= offset /\ offset < t.value + t.size)
      <4> SUFFICES ASSUME NEW t \in SymbolsOf(b),
                          IsFunction(t), t.value <= offset, offset < t.value + t.size
                   PROVE  FALSE
        OBVIOUS
      <4>1. t.value <= s.value
        BY <1>2, <2>1
      <4>2. s.value < t.value \/ t.value + t.size <= s.value
        BY <2>3, <3>1 DEF Tidy
      <4> QED BY <1>1, <3>1, <4>1, <4>2
    <3>3. true = {}
      BY <3>2 DEF true, TrueFunctions
    <3> QED BY <2>1, <3>1, <3>3
  <2> QED BY <1>1, <2>2, <2>3
<1> QED BY <1>3, <1>4

LEMMA ResolvedFollows == IInv => ResolvedAtZeroBias
<1> SUFFICES ASSUME IInv, report # None, report.maps # NoMaps,
                    NEW i \in DOMAIN report.frames,
                    NEW r \in report.maps \cap report.crash.space,
                    Settled(report.frames[i], r),
                    report.crash.loaded[r.path].bias = 0,
                    Tidy(report.crash.loaded[r.path])
             PROVE  Names(report.frames[i], r)
  BY DEF ResolvedAtZeroBias
<1> DEFINE frame == report.frames[i]
           binary == report.crash.loaded[r.path]
           offset == FileOffset(frame.pc, r)
<1>1. report \in Report /\ report.maps \subseteq MapRegion /\ frame \in Frame
  <2>1. report \in Report
    BY DEF IInv, Typing
  <2> QED BY <2>1, LenProperties DEF Report, Maps
<1>2. r \in MapRegion /\ r.path \in Files /\ In(frame.pc, r) /\ Cardinality(had[r.path]) = 1
  BY <1>1 DEF Settled, In
<1>3. /\ frame.path = r.path /\ binary \in had[r.path]
      /\ \E b \in had[r.path] : frame.function = BestSymbol(b, offset)
  BY <1>2 DEF IInv, ReportInv, FramesRight, FrameRight
<1>4. binary \in Binaries /\ frame.function = BestSymbol(binary, offset)
  BY <1>2, <1>3, NeverReplaced
<1>5. offset \in Nat /\ offset + binary.bias = offset
  BY <1>1, <1>2 DEF In, FileOffset, MapRegion, Frame
<1> HIDE DEF frame, binary, offset
<1>6. LET true == TrueFunctions(binary, offset)
          unsized == {s.name : s \in {t \in SymbolsOf(binary) : IsFunction(t) /\ t.size = 0}}
      IN  IF true = {} THEN frame.function = NoSymbol \/ frame.function.name \in unsized
          ELSE frame.function # NoSymbol /\ frame.function.name \in true
  BY <1>4, <1>5, BestNames DEF binary
<1> QED BY <1>3, <1>5, <1>6 DEF Names, frame, binary, offset

LEMMA Always == Spec => []IInv
BY InitInv, Inductive, PTL DEF Spec

\* The program counters, symbols and records have the types they should, for
\* any stacks, mappings and symbol tables.
THEOREM TypeCorrect == Spec => []TypeOK
BY Always, TypeFollows, PTL

\* However late a crash is analysed, whatever the mappings are by then, a
\* fault at or near address 0 is reported as one (AnalyzeCrash).
THEOREM NullFaultsRecognised == Spec => []NullRecognised
<1>1. IInv => NullRecognised
  BY DEF IInv, PlaceInv
<1> QED BY <1>1, Always, PTL

\* A place AnalyzeCrash names while the process that crashed still has the PID
\* is one the address was in at the crash: mappings only disappear.  What is
\* called a library is one, and what is called the program is the program, or
\* a library that was replaced and whose deleted name no longer ends in ".so".
THEOREM PlacesRight == Spec => []PlaceIsRight
<1>1. IInv => PlaceIsRight
  BY DEF IInv, PlaceInv
<1> QED BY <1>1, Always, PTL

\* symbolCache never answers with a symbol of another file or another offset.
THEOREM CacheCorrect == Spec => []CacheIsOfFile
BY Always, CacheFollows, PTL

\* Every frame found in a file that was not replaced, of a binary without a
\* bias and with tidy symbols, names the function it is in (resolvePC), cached
\* or not.
THEOREM FramesResolved == Spec => []ResolvedAtZeroBias
BY Always, ResolvedFollows, PTL
=============================================================================
