------------------------ MODULE CrashPipelineProofs ------------------------
(***************************************************************************)
(* For every set of processes and threads, every capacity and every bound: *)
(* the types, the promise of the pipeline, and that what a report combines *)
(* belongs together.                                                       *)
(*                                                                         *)
(* The argument rests on the order of the ring.  The last thread of a      *)
(* group submits the exit record, and a thread that is dead emits nothing, *)
(* so an exit record is the last record of its incarnation: Over says that *)
(* an incarnation has come to that point, and nothing ever undoes it.      *)
(* Awaited adds what comes before it: the last delivery said of the PID.   *)
(***************************************************************************)
EXTENDS CrashPipeline, SequenceTheorems, TLAPS

\* A thread belongs to some incarnation of its PID, and one with a signal to
\* take has a crash signal.
LiveInv ==
    \A t \in Tasks :
        /\ task[t] # "none" => run[Leader[t]] > 0
        /\ task[t] \in {"signalled", "fatal"} => pending[t].sig \in Crashes

Typing == TypeOK /\ LiveInv

Records == SyscallRecord \cup SignalRecord \cup ExitRecord

LEMMA ProcessOf == \A t \in Tasks : Leader[t] \in Processes
BY DEF Processes

LEMMA Constants ==
    /\ MaxRuns \in Nat /\ MaxSignals \in Nat /\ MaxSyscalls \in Nat /\ RingCapacity \in Nat
    /\ NoSignal \notin Crashes /\ Exited \notin Crashes
    /\ Leader \in [Tasks -> Tasks]
    /\ MemoryFaults \subseteq Crashes /\ Buckets \subseteq Nat
BY PipelineAssumption DEF Crashes

LEMMA CurrentIsIncarnation ==
    ASSUME Typing, NEW t \in Tasks, task[t] # "none"
    PROVE  Current(Leader[t]) \in Incarnation
BY ProcessOf, Constants DEF Typing, TypeOK, LiveInv, Current, Incarnation

\* Submitting a record, or dropping it, keeps the ring a bounded queue.
LEMMA SubmittedType ==
    ASSUME Typing, NEW r \in Records
    PROVE  /\ Submitted(r) \in Seq(Records)
           /\ Len(Submitted(r)) <= RingCapacity
<1>1. ring \in Seq(Records) /\ Len(ring) <= RingCapacity /\ Len(ring) \in Nat
  BY DEF Typing, TypeOK, Records
<1>2. CASE HasRoom
  BY <1>1, <1>2, Constants, AppendProperties DEF Submitted, HasRoom
<1>3. CASE ~HasRoom
  BY <1>1, <1>3 DEF Submitted
<1> QED BY <1>2, <1>3

LEMMA TailType ==
    ASSUME Typing, ring # << >>
    PROVE  /\ Head(ring) \in Records
           /\ Tail(ring) \in Seq(Records)
           /\ Len(Tail(ring)) <= RingCapacity
<1>1. ring \in Seq(Records) /\ Len(ring) <= RingCapacity /\ Len(ring) \in Nat
  BY DEF Typing, TypeOK, Records
<1> QED BY <1>1, Constants, HeadTailProperties

LEMMA TypeInit == Init => Typing
<1> SUFFICES ASSUME Init PROVE Typing
  OBVIOUS
<1>1. Nothing \in SignalContext /\ NoInfo \in SignalInfo
  BY Constants DEF Nothing, NoInfo, SignalContext, SignalInfo, Ids
<1>2. (CHOOSE c \in Comms : TRUE) \in Comms
  BY PipelineAssumption
<1> QED BY <1>1, <1>2, Constants DEF Init, Typing, TypeOK, LiveInv, Ids, Records

LEMMA StartType == ASSUME Typing, NEW p \in Processes, Start(p) PROVE Typing'
<1>1. Nothing \in SignalContext
  BY Constants DEF Nothing, SignalContext, Ids
<1>2. p \in Tasks
  BY Constants, PipelineAssumption DEF Processes
<1>3. run'[p] \in 0..MaxRuns /\ run' \in [Processes -> 0..MaxRuns]
  BY Constants DEF Typing, TypeOK, Start
<1>4. comm' \in [Tasks -> Comms] /\ child_root' \subseteq Tasks
  BY <1>2 DEF Typing, TypeOK, Start
<1>5. pending' \in [Tasks -> SignalContext]
  BY <1>1 DEF Typing, TypeOK, Start
<1>6. leftover' \in SUBSET Incarnation
  <2>1. run[p] + 1 \in 1..MaxRuns
    BY Constants DEF Typing, TypeOK, Start
  <2> QED BY <2>1 DEF Typing, TypeOK, Start, Incarnation
<1>7. TypeOK'
  BY <1>3, <1>4, <1>5, <1>6 DEF Typing, TypeOK, Start, daemon
<1>8. LiveInv'
  <2> SUFFICES ASSUME NEW t \in Tasks
               PROVE  /\ task'[t] # "none" => run'[Leader[t]] > 0
                      /\ task'[t] \in {"signalled", "fatal"} => pending'[t].sig \in Crashes
    BY DEF LiveInv
  <2>1. /\ run \in [Processes -> 0..MaxRuns] /\ run' = [run EXCEPT ![p] = @ + 1]
        /\ Leader[t] \in Processes /\ MaxRuns \in Nat
    BY ProcessOf, Constants DEF Typing, TypeOK, Start
  <2>2. CASE Leader[t] = p
    BY <2>1, <2>2 DEF Start
  <2>3. CASE Leader[t] # p
    <3>1. task'[t] = task[t] /\ pending'[t] = pending[t]
      BY <2>3, PipelineAssumption DEF Start, Processes
    <3> QED BY <2>1, <2>3, <3>1 DEF Typing, LiveInv
  <2> QED BY <2>2, <2>3
<1> QED BY <1>7, <1>8 DEF Typing

LEMMA TerminateType == ASSUME Typing, NEW p \in Processes, Terminate(p) PROVE Typing'
BY DEF Typing, TypeOK, LiveInv, Terminate, bpf, daemon, history

LEMMA SpawnType == ASSUME Typing, NEW u \in Tasks, NEW t \in Tasks, Spawn(u, t)
                   PROVE  Typing'
BY DEF Typing, TypeOK, LiveInv, Spawn, daemon, history

LEMMA RenameType == ASSUME Typing, NEW t \in Tasks, Rename(t) PROVE Typing'
BY DEF Typing, TypeOK, LiveInv, Rename, bpf, daemon, history

LEMMA LeaveType == ASSUME Typing, NEW t \in Tasks, Leave(t) PROVE Typing'
BY DEF Typing, TypeOK, LiveInv, Leave, bpf, daemon, history

LEMMA EmitType ==
    ASSUME Typing, NEW t \in Tasks, NEW kind \in {"openat", "connect"}, Emit(t, kind)
    PROVE  Typing'
<1> DEFINE r == [type |-> kind, inc |-> Current(Leader[t])]
<1>1. r \in Records
  BY CurrentIsIncarnation DEF Emit, Records, SyscallRecord
<1>2. ring' = Submitted(r)
  BY DEF Emit
<1>3. ring' \in Seq(Records) /\ Len(ring') <= RingCapacity
  BY <1>1, <1>2, SubmittedType
<1>4. syscalls' \in 0..MaxSyscalls
  BY Constants DEF Emit, Typing, TypeOK
<1> QED BY <1>3, <1>4 DEF Typing, TypeOK, LiveInv, Emit, kernel, bpf, daemon, Records

\* The part of a step that generates a signal.
LEMMA GenerateType ==
    ASSUME Typing, NEW t \in Tasks, NEW s \in Crashes, NEW a \in {0, signals + 1},
           Generate(t, [sig |-> s, id |-> signals + 1, addr |-> a])
    PROVE  /\ [sig |-> s, id |-> signals + 1, addr |-> a] \in SignalContext
           /\ Current(Leader[t]) \in Incarnation
           /\ pending' \in [Tasks -> SignalContext]
           /\ task' \in [Tasks -> {"none", "running", "leaving", "signalled", "fatal", "dead"}]
           /\ signals' \in 0..MaxSignals
           /\ overlapped' \in SUBSET Incarnation
           /\ LiveInv'
<1>1. signals + 1 \in Ids /\ a \in Ids
  BY Constants DEF Generate, Typing, TypeOK, Ids
<1>2. [sig |-> s, id |-> signals + 1, addr |-> a] \in SignalContext
  BY <1>1 DEF SignalContext
<1>3. Current(Leader[t]) \in Incarnation
  BY CurrentIsIncarnation DEF Generate
<1> QED BY <1>1, <1>2, <1>3 DEF Generate, Typing, TypeOK, LiveInv, Ids

LEMMA FaultType == ASSUME Typing, NEW t \in Tasks, ProbeForceSigFault(t) PROVE Typing'
<1>1. PICK s \in MemoryFaults, a \in {0, signals + 1} :
         LET ctx == [sig |-> s, id |-> signals + 1, addr |-> a] IN
           /\ Generate(t, ctx)
           /\ pending_signals' \in {pending_signals, [pending_signals EXCEPT ![Leader[t]] = ctx]}
  BY DEF ProbeForceSigFault
<1> DEFINE ctx == [sig |-> s, id |-> signals + 1, addr |-> a]
<1>2. s \in Crashes
  BY Constants
<1>3. /\ ctx \in SignalContext
      /\ pending' \in [Tasks -> SignalContext]
      /\ task' \in [Tasks -> {"none", "running", "leaving", "signalled", "fatal", "dead"}]
      /\ signals' \in 0..MaxSignals
      /\ overlapped' \in SUBSET Incarnation
      /\ LiveInv'
  BY <1>1, <1>2, GenerateType
<1>4. Generate(t, ctx)
  BY <1>1
<1>5. pending_signals' \in [Processes -> SignalContext]
  BY <1>1, <1>3 DEF Typing, TypeOK
<1> HIDE DEF ctx
<1> QED BY <1>3, <1>4, <1>5 DEF Typing, TypeOK, Generate, daemon

LEMMA SendType == ASSUME Typing, NEW t \in Tasks, SendSignal(t) PROVE Typing'
<1> PICK s \in Crashes : Generate(t, [sig |-> s, id |-> signals + 1, addr |-> 0])
  BY DEF SendSignal
<1> DEFINE ctx == [sig |-> s, id |-> signals + 1, addr |-> 0]
<1>1. /\ Current(Leader[t]) \in Incarnation
      /\ pending' \in [Tasks -> SignalContext]
      /\ task' \in [Tasks -> {"none", "running", "leaving", "signalled", "fatal", "dead"}]
      /\ signals' \in 0..MaxSignals
      /\ overlapped' \in SUBSET Incarnation
      /\ LiveInv'
  BY GenerateType
<1>2. Generate(t, ctx) /\ UNCHANGED pending_signals
  BY DEF SendSignal
<1> HIDE DEF ctx
<1> QED BY <1>1, <1>2 DEF Typing, TypeOK, Generate, daemon

\* The record of a delivery, whatever bucket its stack hashes to.
LEMMA DeliveredRecord ==
    ASSUME Typing, NEW t \in Tasks, task[t] = "signalled", NEW b \in Buckets
    PROVE  [type |-> "signal", inc |-> Current(Leader[t]),
            sig |-> pending[t].sig, id |-> pending[t].id,
            addr |-> IF pending_signals[Leader[t]].sig = pending[t].sig
                       THEN pending_signals[Leader[t]].addr ELSE 0,
            stack_id |-> Captured(b, pending[t].id)] \in Records
<1> DEFINE ctx == pending[t]
           kept == pending_signals[Leader[t]]
<1>1. Current(Leader[t]) \in Incarnation /\ Leader[t] \in Processes
  BY ProcessOf, CurrentIsIncarnation
<1>2. ctx \in SignalContext /\ kept \in SignalContext /\ ctx.sig \in Crashes
  BY <1>1 DEF Typing, TypeOK, LiveInv
<1>3. Captured(b, ctx.id) \in Buckets \cup {NoStackId}
  BY DEF Captured
<1>4. ctx.id \in Ids /\ kept.addr \in Ids /\ 0 \in Ids
  BY <1>2, Constants DEF SignalContext, Ids
<1> HIDE DEF ctx, kept
<1>5. [type |-> "signal", inc |-> Current(Leader[t]), sig |-> ctx.sig, id |-> ctx.id,
       addr |-> IF kept.sig = ctx.sig THEN kept.addr ELSE 0,
       stack_id |-> Captured(b, ctx.id)] \in Records
  BY <1>1, <1>2, <1>3, <1>4 DEF Records, SignalRecord
<1> QED BY <1>5 DEF ctx, kept

\* The record of an exit.
LEMMA ExitedRecord ==
    ASSUME Typing, NEW t \in Tasks, task[t] # "none"
    PROVE  [type |-> "exit", inc |-> Current(Leader[t]),
            sig |-> OwnSignal(t), comm |-> comm[t]] \in Records
<1>1. Current(Leader[t]) \in Incarnation
  BY CurrentIsIncarnation
<1>2. OwnSignal(t) \in Crashes \cup {NoSignal} /\ comm[t] \in Comms
  BY ProcessOf, Constants DEF OwnSignal, Typing, TypeOK
<1> QED BY <1>1, <1>2 DEF Records, ExitRecord

LEMMA DeliverType == ASSUME Typing, NEW t \in Tasks, HandleSignalDeliver(t) PROVE Typing'
<1> DEFINE p == Leader[t]
           ctx == pending[t]
<1>0. Nothing \in SignalContext
  BY Constants DEF Nothing, SignalContext, Ids
<1>1. task[t] = "signalled" /\ p \in Processes /\ Current(p) \in Incarnation
  BY ProcessOf, CurrentIsIncarnation DEF HandleSignalDeliver
<1>2. ctx \in SignalContext
  BY DEF Typing, TypeOK
<1>4. task' \in [Tasks -> {"none", "running", "leaving", "signalled", "fatal", "dead"}]
  BY DEF Typing, TypeOK, HandleSignalDeliver
<1>5. LiveInv'
  BY DEF Typing, TypeOK, LiveInv, HandleSignalDeliver
<1>6. missed' \in SUBSET Incarnation /\ leftover' \in SUBSET Incarnation
  <2>1. missed \in SUBSET Incarnation /\ leftover \in SUBSET Incarnation
    BY DEF Typing, TypeOK
  <2>2. missed' \subseteq missed \cup {Current(p)} /\ leftover' \subseteq leftover \cup {Current(p)}
    BY DEF HandleSignalDeliver
  <2> QED BY <1>1, <2>1, <2>2
<1>7. pending_signals' \in [Processes -> SignalContext]
  BY <1>0 DEF Typing, TypeOK, HandleSignalDeliver, Consumed
<1>8. stack_traces' \in [Buckets -> Ids]
  BY <1>2 DEF Typing, TypeOK, HandleSignalDeliver, SignalContext
<1>9. ring' \in Seq(Records) /\ Len(ring') <= RingCapacity
  <2>1. CASE TracedGroup(t)
    <3>1. PICK r \in Records : ring' = Submitted(r)
      BY <1>1, <2>1, DeliveredRecord DEF HandleSignalDeliver
    <3> QED BY <3>1, SubmittedType
  <2>2. CASE ~TracedGroup(t)
    BY <2>2 DEF HandleSignalDeliver, Typing, TypeOK, Records
  <2> QED BY <2>1, <2>2
<1> QED BY <1>4, <1>5, <1>6, <1>7, <1>8, <1>9
        DEF Typing, TypeOK, HandleSignalDeliver, daemon, Records

LEMMA GroupExitType == ASSUME Typing, NEW t \in Tasks, BeginGroupExit(t) PROVE Typing'
<1>1. /\ Current(Leader[t]) \in Incarnation /\ pending[t] \in SignalContext
      /\ pending[t].sig \in Crashes
  BY CurrentIsIncarnation DEF BeginGroupExit, Typing, TypeOK, LiveInv
<1> QED BY <1>1 DEF Typing, TypeOK, LiveInv, BeginGroupExit, bpf, daemon

LEMMA ExitType == ASSUME Typing, NEW t \in Tasks, HandleExit(t) PROVE Typing'
<1> DEFINE r == [type |-> "exit", inc |-> Current(Leader[t]),
                 sig |-> OwnSignal(t), comm |-> comm[t]]
<1>1. r \in Records
  BY ExitedRecord DEF HandleExit, Live
<1>2. ring' \in Seq(Records) /\ Len(ring') <= RingCapacity
  BY <1>1, SubmittedType DEF HandleExit, Typing, TypeOK, Records
<1>3. LiveInv'
  BY DEF Typing, TypeOK, LiveInv, HandleExit, Live
<1> QED BY <1>2, <1>3 DEF Typing, TypeOK, HandleExit, bpf, daemon, history, Records

\* The record a handler works on.
LEMMA HeadRecord ==
    ASSUME Typing, NEW type, Receive(type)
    PROVE  /\ Head(ring) \in Records /\ Head(ring).inc \in Incarnation
           /\ Head(ring).inc = <<Head(ring).inc[1], Head(ring).inc[2]>>
           /\ Head(ring).inc[1] \in Processes /\ Head(ring).inc[2] \in 1..MaxRuns
           /\ ring' \in Seq(Records) /\ Len(ring') <= RingCapacity
           /\ Head(ring).type = type
           /\ type = "signal" => Head(ring) \in SignalRecord
           /\ type = "exit" => Head(ring) \in ExitRecord
<1>1. /\ Head(ring) \in Records /\ ring' \in Seq(Records) /\ Len(ring') <= RingCapacity
      /\ Head(ring).type = type
  BY TailType DEF Receive
<1>2. Head(ring).inc \in Incarnation
  BY <1>1 DEF Records, SyscallRecord, SignalRecord, ExitRecord
<1>3. /\ type = "signal" => Head(ring) \in SignalRecord
      /\ type = "exit" => Head(ring) \in ExitRecord
  BY <1>1 DEF Records, SyscallRecord, SignalRecord, ExitRecord
<1> QED BY <1>1, <1>2, <1>3 DEF Incarnation

LEMMA SyscallEventType ==
    ASSUME Typing, HandleOpenatEvent \/ HandleConnectEvent
    PROVE  Typing'
<1>1. PICK type \in {"openat", "connect"} : Receive(type)
  BY DEF HandleOpenatEvent, HandleConnectEvent
<1> DEFINE x == Head(ring).inc
<1>2. registry' \in [Processes -> SUBSET (1..MaxRuns)]
  <2>1. x[1] \in Processes /\ x[2] \in 1..MaxRuns
    BY <1>1, HeadRecord
  <2>2. registry' = [registry EXCEPT ![x[1]] = registry[x[1]] \cup {x[2]}]
    BY DEF HandleOpenatEvent, HandleConnectEvent, Buffer
  <2> HIDE DEF x
  <2> QED BY <2>1, <2>2 DEF Typing, TypeOK
<1>3. /\ ring' \in Seq(Records) /\ Len(ring') <= RingCapacity
  BY <1>1, HeadRecord
<1> QED BY <1>2, <1>3 DEF HandleOpenatEvent, HandleConnectEvent, Typing, TypeOK, LiveInv,
                          kernel, bpf, history, Records

LEMMA SignalEventType == ASSUME Typing, HandleSignalEvent PROVE Typing'
<1> DEFINE e == Head(ring)
           info == [id |-> e.id, sig |-> e.sig, addr |-> e.addr,
                    stack |-> IF e.stack_id = NoStackId THEN 0 ELSE stack_traces[e.stack_id]]
<1>1. /\ e \in SignalRecord /\ e.inc[1] \in Processes
      /\ ring' \in Seq(Records) /\ Len(ring') <= RingCapacity
  BY HeadRecord DEF HandleSignalEvent
<1>2. info \in SignalInfo
  <2>1. /\ e.id \in Ids /\ e.sig \in Crashes /\ e.addr \in Ids
        /\ e.stack_id \in Buckets \cup {NoStackId} /\ 0 \in Ids
    BY <1>1, Constants DEF SignalRecord, Ids
  <2>2. stack_traces \in [Buckets -> Ids]
    BY DEF Typing, TypeOK
  <2> HIDE DEF e
  <2> QED BY <2>1, <2>2 DEF SignalInfo
<1>3. signalInfoMap' = [signalInfoMap EXCEPT ![e.inc[1]] = info]
  BY DEF HandleSignalEvent, Stored
<1> HIDE DEF info, e
<1>4. signalInfoMap' \in [Processes -> SignalInfo]
  BY <1>1, <1>2, <1>3 DEF Typing, TypeOK
<1> QED BY <1>1, <1>4 DEF HandleSignalEvent, Typing, TypeOK, LiveInv,
                          kernel, bpf, history, Records

LEMMA ExitEventType == ASSUME Typing, HandleExitEvent PROVE Typing'
<1> DEFINE e == Head(ring)
<1>1. /\ e \in ExitRecord /\ e.inc \in Incarnation /\ e.inc[1] \in Processes
      /\ ring' \in Seq(Records) /\ Len(ring') <= RingCapacity
  BY HeadRecord DEF HandleExitEvent
<1>2. NoInfo \in SignalInfo
  BY Constants DEF NoInfo, SignalInfo, Ids
<1>3. /\ registry' \in [Processes -> SUBSET (1..MaxRuns)]
      /\ signalInfoMap' \in [Processes -> SignalInfo]
      /\ closed' \in SUBSET Incarnation
  BY <1>1, <1>2 DEF HandleExitEvent, Freed, Typing, TypeOK
<1> DEFINE R == [sig : Crashes, owners : SUBSET (1..MaxRuns), info : SignalInfo]
<1>4. reports' \in [Incarnation -> Seq(R)]
  <2>1. IsCrash(e) => Report(e) \in R
    BY <1>1 DEF IsCrash, Report, Typing, TypeOK
  <2>2. reports \in [Incarnation -> Seq(R)] /\ reports[e.inc] \in Seq(R)
    BY <1>1 DEF Typing, TypeOK
  <2> HIDE DEF R
  <2>3. IsCrash(e) => Append(reports[e.inc], Report(e)) \in Seq(R)
    BY <2>1, <2>2, AppendProperties
  <2> QED BY <2>2, <2>3, <1>1 DEF HandleExitEvent
<1> QED BY <1>1, <1>3, <1>4 DEF HandleExitEvent, Typing, TypeOK, LiveInv,
                                kernel, bpf, history, Records

LEMMA TypeStep == Typing /\ [Next]_vars => Typing'
<1> SUFFICES ASSUME Typing, [Next]_vars PROVE Typing'
  OBVIOUS
<1>1. CASE UNCHANGED vars
  BY <1>1 DEF Typing, TypeOK, LiveInv, vars, kernel, bpf, daemon, history
<1>2. CASE Daemon
  BY <1>2, SyscallEventType, SignalEventType, ExitEventType DEF Daemon
<1>3. CASE Kernel
  BY <1>3, StartType, TerminateType, SpawnType, RenameType, LeaveType, EmitType,
     FaultType, SendType, DeliverType, GroupExitType, ExitType
     DEF Kernel, TraceOpenatExit, HandleConnectExit
<1> QED BY <1>1, <1>2, <1>3 DEF Next

\* Every variable keeps its type, and the ring its bound.
THEOREM TypeCorrect == Spec => []TypeOK
<1>1. Spec => []Typing
  BY TypeInit, TypeStep, PTL DEF Spec
<1>2. Typing => TypeOK
  BY DEF Typing
<1> QED BY <1>1, <1>2, PTL
-----------------------------------------------------------------------------
(* The order of the ring.                                                  *)

\* The incarnation has ended: a later one holds the PID, or all its threads
\* are dead.
Over(x) == x[2] < run[x[1]] \/ (x[2] = run[x[1]] /\ Gone(x[1]))

\* A queued exit record is the last record of an incarnation that has ended,
\* and the crash signal in it is the one that killed the incarnation.
QueueInv ==
    \A j \in DOMAIN ring : ring[j].type = "exit" =>
        /\ Over(ring[j].inc)
        /\ \A k \in DOMAIN ring : k > j => ring[k].inc # ring[j].inc
        /\ ring[j].sig \in Crashes => ring[j].sig = death[ring[j].inc].sig

\* An incarnation whose crash was handled has left nothing behind.
ClosedInv ==
    \A x \in closed :
        /\ Over(x)
        /\ x[2] \notin registry[x[1]]
        /\ \A k \in DOMAIN ring : ring[k].inc # x

ReportInv ==
    \A x \in Incarnation : reports[x] # << >> =>
        /\ x \in closed
        /\ Len(reports[x]) = 1
        /\ reports[x][1].sig \in Crashes
        /\ reports[x][1].sig = death[x].sig

\* The history of deaths agrees with the exit codes, and has nothing to say
\* of incarnations to come.
DeathInv ==
    /\ \A x \in Incarnation : x[2] > run[x[1]] => death[x].sig = NoSignal
    /\ \A p \in Processes : run[p] > 0 =>
         /\ exitCode[p] = NoSignal => death[Current(p)].sig = NoSignal
         /\ exitCode[p] \in Crashes => death[Current(p)].sig = exitCode[p]

Order == QueueInv /\ ClosedInv /\ ReportInv /\ DeathInv

\* An incarnation with a live thread is not over.
LEMMA LiveNotOver ==
    ASSUME Typing, NEW t \in Tasks, Live(t)
    PROVE  ~Over(Current(Leader[t]))
BY ProcessOf DEF Over, Current, Gone, Threads, Typing, TypeOK

\* Nothing a live thread does brings a dead process back.
LEMMA OverStableTask ==
    ASSUME Typing, NEW t \in Tasks, Live(t), run' = run,
           NEW u \in Tasks, Leader[u] = Leader[t],
           NEW v, task' = [task EXCEPT ![u] = v],
           NEW x \in Incarnation, Over(x)
    PROVE  Over(x)'
<1>1. CASE x[2] < run[x[1]]
  BY <1>1 DEF Over
<1>2. CASE x[2] = run[x[1]] /\ Gone(x[1])
  <2>1. x[1] # Leader[t]
    BY <1>2 DEF Gone, Threads
  <2>2. \A w \in Threads(x[1]) : task'[w] = task[w]
    BY <2>1 DEF Threads, Typing, TypeOK
  <2>3. Gone(x[1])'
    BY <1>2, <2>2 DEF Gone, Live, Threads
  <2> QED BY <1>2, <2>3 DEF Over
<1> QED BY <1>1, <1>2 DEF Over

LEMMA OverStableStart ==
    ASSUME Typing, NEW p \in Processes, Start(p), NEW x \in Incarnation, Over(x)
    PROVE  Over(x)'
<1>1. /\ run \in [Processes -> 0..MaxRuns] /\ run' = [run EXCEPT ![p] = run[p] + 1]
      /\ MaxRuns \in Nat /\ x[1] \in Processes /\ x[2] \in 1..MaxRuns
  BY Constants DEF Typing, TypeOK, Start, Incarnation
<1>2. CASE x[1] = p
  BY <1>1, <1>2 DEF Over
<1>3. CASE x[1] # p
  <2>1. run'[x[1]] = run[x[1]]
    BY <1>1, <1>3
  <2>2. \A w \in Threads(x[1]) : task'[w] = task[w]
    BY <1>3, PipelineAssumption DEF Threads, Start, Processes
  <2>3. Gone(x[1]) => Gone(x[1])'
    BY <2>2 DEF Gone, Live, Threads
  <2> QED BY <2>1, <2>3 DEF Over
<1> QED BY <1>2, <1>3

\* A step of the kernel: what has ended stays as it is, and at most one record
\* is submitted, of an incarnation that has not ended.
KernelEffect ==
    /\ \A x \in Incarnation : Over(x) => /\ Over(x)'
                                        /\ death'[x] = death[x]
    /\ UNCHANGED daemon
    /\ DeathInv'
    /\ \/ ring' = ring
       \/ \E r \in Records :
            /\ ring' = Submitted(r)
            /\ ~Over(r.inc)
            /\ r.type = "exit" => /\ Over(r.inc)'
                                  /\ r.sig \in Crashes => r.sig = death'[r.inc].sig

\* Steps of a live thread that touch neither run nor the exit codes.
LEMMA QuietEffect ==
    ASSUME Typing, Order, NEW t \in Tasks, Live(t), NEW u \in Tasks, Leader[u] = Leader[t],
           NEW v, task' = [task EXCEPT ![u] = v] \/ task' = task,
           UNCHANGED <<run, exitCode, death, daemon>>
    PROVE  /\ \A x \in Incarnation : Over(x) => /\ Over(x)'
                                               /\ death'[x] = death[x]
           /\ UNCHANGED daemon
           /\ DeathInv'
<1>1. ASSUME NEW x \in Incarnation, Over(x) PROVE Over(x)'
  <2>1. CASE task' = [task EXCEPT ![u] = v]
    BY <1>1, <2>1, OverStableTask
  <2>2. CASE task' = task
    BY <1>1, <2>2 DEF Over, Gone, Live, Threads
  <2> QED BY <2>1, <2>2
<1>2. DeathInv'
  BY DEF Order, DeathInv, Current
<1> QED BY <1>1, <1>2

LEMMA StartEffect ==
    ASSUME Typing, Order, NEW p \in Processes, Start(p)
    PROVE  KernelEffect
<1>1. ASSUME NEW x \in Incarnation, Over(x) PROVE Over(x)'
  BY <1>1, OverStableStart
<1>2. death' = death /\ UNCHANGED daemon /\ ring' = ring
  BY DEF Start, history
<1>3. DeathInv'
  <2>1. /\ run \in [Processes -> 0..MaxRuns] /\ run' = [run EXCEPT ![p] = run[p] + 1]
        /\ MaxRuns \in Nat /\ run[p] < MaxRuns
        /\ exitCode' = [exitCode EXCEPT ![p] = NoSignal]
        /\ exitCode \in [Processes -> Crashes \cup {NoSignal, Exited}]
    BY Constants DEF Typing, TypeOK, Start
  <2>2. ASSUME NEW x \in Incarnation, x[2] > run'[x[1]] PROVE death'[x].sig = NoSignal
    <3>1. x[1] \in Processes /\ x[2] \in 1..MaxRuns
      BY DEF Incarnation
    <3>2. x[2] > run[x[1]]
      BY <2>1, <2>2, <3>1
    <3> QED BY <3>2, <1>2 DEF Order, DeathInv
  <2>3. ASSUME NEW q \in Processes, run'[q] > 0
        PROVE  /\ exitCode'[q] = NoSignal => death'[Current(q)'].sig = NoSignal
               /\ exitCode'[q] \in Crashes => death'[Current(q)'].sig = exitCode'[q]
    <3>1. CASE q = p
      <4>1. <<p, run[p] + 1>> \in Incarnation /\ Current(q)' = <<p, run[p] + 1>>
        BY <2>1, <3>1 DEF Incarnation, Current
      <4>2. death[<<p, run[p] + 1>>].sig = NoSignal
        BY <4>1, <2>1 DEF Order, DeathInv
      <4> QED BY <4>1, <4>2, <1>2, <2>1, <3>1, Constants
    <3>2. CASE q # p
      <4>1. run'[q] = run[q] /\ exitCode'[q] = exitCode[q] /\ Current(q)' = Current(q)
        BY <2>1, <3>2 DEF Current
      <4> QED BY <4>1, <2>3, <1>2 DEF Order, DeathInv
    <3> QED BY <3>1, <3>2
  <2> QED BY <2>2, <2>3 DEF DeathInv
<1> QED BY <1>1, <1>2, <1>3 DEF KernelEffect

LEMMA TerminateEffect ==
    ASSUME Typing, Order, NEW p \in Processes, Terminate(p)
    PROVE  KernelEffect
<1>1. /\ run' = run /\ task' = task /\ death' = death /\ ring' = ring /\ UNCHANGED daemon
      /\ exitCode' = [exitCode EXCEPT ![p] = Exited]
      /\ exitCode \in [Processes -> Crashes \cup {NoSignal, Exited}]
  BY DEF Terminate, history, Typing, TypeOK
<1>2. \A x \in Incarnation : Over(x) => Over(x)'
  BY <1>1 DEF Over, Gone, Live, Threads
<1>3. Exited # NoSignal /\ Exited \notin Crashes
  BY Constants DEF Exited, NoSignal
<1>4. DeathInv'
  BY <1>1, <1>3 DEF Order, DeathInv, Current
<1> QED BY <1>1, <1>2, <1>4 DEF KernelEffect

LEMMA EmitEffect ==
    ASSUME Typing, Order, NEW t \in Tasks, NEW kind \in {"openat", "connect"}, Emit(t, kind)
    PROVE  KernelEffect
<1> DEFINE r == [type |-> kind, inc |-> Current(Leader[t])]
<1>1. Live(t) /\ task[t] # "none"
  BY DEF Emit, Live
<1>2. UNCHANGED <<run, exitCode, death, daemon>> /\ task' = task
  BY DEF Emit, kernel
<1>3. r \in Records /\ r.inc = Current(Leader[t]) /\ r.type # "exit"
  BY <1>1, CurrentIsIncarnation DEF Records, SyscallRecord
<1>4. ring' = Submitted(r) /\ ~Over(r.inc)
  BY <1>1, <1>3, LiveNotOver DEF Emit
<1> HIDE DEF r
<1> QED BY <1>1, <1>2, <1>3, <1>4, QuietEffect DEF KernelEffect

\* The steps that submit nothing and only move one thread, or no thread.
LEMMA QuietSteps ==
    ASSUME Typing, Order, NEW t \in Tasks,
           \/ \E u \in Tasks : Spawn(t, u)
           \/ Rename(t) \/ Leave(t) \/ ProbeForceSigFault(t) \/ SendSignal(t)
    PROVE  KernelEffect
<1>1. Live(t)
  BY DEF Spawn, Rename, Leave, ProbeForceSigFault, SendSignal, Generate, Live
<1>2. UNCHANGED <<run, exitCode, death, daemon, ring>>
  BY DEF Spawn, Rename, Leave, ProbeForceSigFault, SendSignal, Generate, history
<1>3. PICK u \in Tasks, v \in {"running", "leaving", "signalled"} :
         Leader[u] = Leader[t] /\ (task' = [task EXCEPT ![u] = v] \/ task' = task)
  BY DEF Spawn, Rename, Leave, ProbeForceSigFault, SendSignal, Generate
<1> QED BY <1>1, <1>2, <1>3, QuietEffect DEF KernelEffect

LEMMA DeliverEffect ==
    ASSUME Typing, Order, NEW t \in Tasks, HandleSignalDeliver(t)
    PROVE  KernelEffect
<1>1. Live(t) /\ task[t] = "signalled" /\ ~Over(Current(Leader[t]))
  BY LiveNotOver DEF HandleSignalDeliver, Live
<1>2. UNCHANGED <<run, exitCode, death, daemon>>
  BY DEF HandleSignalDeliver
<1>3. PICK v \in {"running", "fatal"} : task' = [task EXCEPT ![t] = v]
  BY DEF HandleSignalDeliver
<1>4. /\ \A x \in Incarnation : Over(x) => /\ Over(x)'
                                          /\ death'[x] = death[x]
      /\ UNCHANGED daemon
      /\ DeathInv'
  BY <1>1, <1>2, <1>3, QuietEffect
<1>5. CASE TracedGroup(t)
  <2>1. PICK b \in Buckets :
          ring' = Submitted([type |-> "signal", inc |-> Current(Leader[t]),
                             sig |-> pending[t].sig, id |-> pending[t].id,
                             addr |-> IF pending_signals[Leader[t]].sig = pending[t].sig
                                        THEN pending_signals[Leader[t]].addr ELSE 0,
                             stack_id |-> Captured(b, pending[t].id)])
    BY <1>5 DEF HandleSignalDeliver
  <2> DEFINE r == [type |-> "signal", inc |-> Current(Leader[t]),
                   sig |-> pending[t].sig, id |-> pending[t].id,
                   addr |-> IF pending_signals[Leader[t]].sig = pending[t].sig
                              THEN pending_signals[Leader[t]].addr ELSE 0,
                   stack_id |-> Captured(b, pending[t].id)]
  <2>2. r \in Records
    BY <1>1, DeliveredRecord
  <2>3. r.inc = Current(Leader[t]) /\ r.type # "exit" /\ ring' = Submitted(r)
    BY <2>1
  <2> HIDE DEF r
  <2> QED BY <1>1, <1>4, <2>2, <2>3 DEF KernelEffect
<1>6. CASE ~TracedGroup(t)
  BY <1>4, <1>6 DEF KernelEffect, HandleSignalDeliver
<1> QED BY <1>5, <1>6

LEMMA GroupExitEffect ==
    ASSUME Typing, Order, NEW t \in Tasks, BeginGroupExit(t)
    PROVE  KernelEffect
<1> DEFINE p == Leader[t]
<1>1. /\ Live(t) /\ task[t] # "none" /\ ~Over(Current(p)) /\ p \in Processes
      /\ Current(p) \in Incarnation /\ pending[t].sig \in Crashes
  BY LiveNotOver, CurrentIsIncarnation, ProcessOf
     DEF BeginGroupExit, Live, Typing, LiveInv
<1>2. /\ run' = run /\ task' = task /\ ring' = ring /\ UNCHANGED daemon
      /\ exitCode' = [exitCode EXCEPT ![p] = pending[t].sig]
      /\ death' = [death EXCEPT ![Current(p)] = pending[t]]
      /\ run \in [Processes -> 0..MaxRuns] /\ MaxRuns \in Nat
      /\ exitCode \in [Processes -> Crashes \cup {NoSignal, Exited}]
      /\ death \in [Incarnation -> SignalContext]
  BY Constants DEF BeginGroupExit, Typing, TypeOK
<1> HIDE DEF p
<1>3. \A x \in Incarnation : Over(x) => Over(x)' /\ death'[x] = death[x]
  BY <1>1, <1>2 DEF Over, Gone, Live, Threads
<1>4. ASSUME NEW x \in Incarnation, x[2] > run'[x[1]] PROVE death'[x].sig = NoSignal
  <2>1. x # Current(p)
    BY <1>1, <1>2, <1>4 DEF Current
  <2> QED BY <1>2, <1>4, <2>1 DEF Order, DeathInv
<1>5. ASSUME NEW q \in Processes, run'[q] > 0
      PROVE  /\ exitCode'[q] = NoSignal => death'[Current(q)'].sig = NoSignal
             /\ exitCode'[q] \in Crashes => death'[Current(q)'].sig = exitCode'[q]
  <2>1. Current(q)' = Current(q)
    BY <1>2 DEF Current
  <2>2. CASE q = p
    BY <1>1, <1>2, <2>1, <2>2, Constants
  <2>3. CASE q # p
    <3>1. Current(q) # Current(p) /\ Current(q) \in Incarnation
      BY <2>3, <1>2, <1>5 DEF Current, Incarnation
    <3> QED BY <1>2, <1>5, <2>1, <2>3, <3>1 DEF Order, DeathInv
  <2> QED BY <2>2, <2>3
<1>6. DeathInv'
  BY <1>4, <1>5 DEF DeathInv
<1> QED BY <1>2, <1>3, <1>6 DEF KernelEffect

LEMMA ExitEffect ==
    ASSUME Typing, Order, NEW t \in Tasks, HandleExit(t)
    PROVE  KernelEffect
<1>1. /\ Live(t) /\ task[t] # "none" /\ ~Over(Current(Leader[t]))
      /\ Leader[t] \in Processes
  BY LiveNotOver, ProcessOf DEF HandleExit, Live
<1>2. UNCHANGED <<run, exitCode, death, daemon>> /\ task' = [task EXCEPT ![t] = "dead"]
  BY DEF HandleExit, history
<1>3. /\ \A x \in Incarnation : Over(x) => /\ Over(x)'
                                          /\ death'[x] = death[x]
      /\ UNCHANGED daemon
      /\ DeathInv'
  BY <1>1, <1>2, QuietEffect
<1>4. CASE TracedTask(t) /\ GroupDead(t)
  <2>1. PICK r \in Records :
          r = [type |-> "exit", inc |-> Current(Leader[t]),
               sig |-> OwnSignal(t), comm |-> comm[t]]
    BY <1>1, ExitedRecord
  <2>2. /\ r.inc = Current(Leader[t]) /\ r.sig = OwnSignal(t)
        /\ ring' = Submitted(r)
    BY <1>4, <2>1 DEF HandleExit
  <2>3. Gone(Leader[t])'
    BY <1>2, <1>4 DEF GroupDead, Gone, Threads, Live, Typing, TypeOK
  <2>4. Over(r.inc)'
    BY <2>2, <2>3, <1>2 DEF Over, Current
  <2>5. r.sig \in Crashes => r.sig = death'[r.inc].sig
    <3>1. run[Leader[t]] > 0
      BY <1>1 DEF Typing, LiveInv
    <3> QED BY <2>2, <3>1, <1>1, <1>2, Constants DEF OwnSignal, Order, DeathInv
  <2>6. ring' = Submitted(r) /\ ~Over(r.inc)
    BY <1>1, <2>2
  <2> QED BY <1>3, <2>4, <2>5, <2>6 DEF KernelEffect
<1>5. CASE ~(TracedTask(t) /\ GroupDead(t))
  BY <1>3, <1>5 DEF KernelEffect, HandleExit
<1> QED BY <1>4, <1>5

LEMMA KernelStep == ASSUME Typing, Order, Kernel PROVE KernelEffect
<1>1. ASSUME NEW p \in Processes, Start(p) \/ Terminate(p) PROVE KernelEffect
  BY <1>1, StartEffect, TerminateEffect
<1>2. ASSUME NEW u \in Tasks, NEW t \in Tasks, Spawn(u, t) PROVE KernelEffect
  BY <1>2, QuietSteps
<1>3. ASSUME NEW t \in Tasks,
             Rename(t) \/ Leave(t) \/ ProbeForceSigFault(t) \/ SendSignal(t)
      PROVE  KernelEffect
  BY <1>3, QuietSteps
<1>4. ASSUME NEW t \in Tasks, TraceOpenatExit(t) \/ HandleConnectExit(t)
      PROVE  KernelEffect
  BY <1>4, EmitEffect DEF TraceOpenatExit, HandleConnectExit
<1>5. ASSUME NEW t \in Tasks, HandleSignalDeliver(t) \/ BeginGroupExit(t) \/ HandleExit(t)
      PROVE  KernelEffect
  BY <1>5, DeliverEffect, GroupExitEffect, ExitEffect
<1> QED BY <1>1, <1>2, <1>3, <1>4, <1>5 DEF Kernel
-----------------------------------------------------------------------------
(* The queue between the kernel and the daemon.                            *)

LEMMA RecordsHaveOwners == \A r \in Records : r.inc \in Incarnation
BY DEF Records, SyscallRecord, SignalRecord, ExitRecord

LEMMA RingType == Typing => ring \in Seq(Records) /\ Len(ring) \in Nat
BY DEF Typing, TypeOK, Records

\* What the kernel adds never comes after the exit record of its incarnation.
LEMMA QueueGrows ==
    ASSUME Typing, Order, KernelEffect
    PROVE  Order'
<1>1. /\ \A x \in Incarnation : Over(x) => Over(x)' /\ death'[x] = death[x]
      /\ registry' = registry /\ reports' = reports /\ closed' = closed
      /\ DeathInv'
  BY DEF KernelEffect, daemon
<1>2. /\ ring \in Seq(Records) /\ Len(ring) \in Nat /\ closed \subseteq Incarnation
      /\ \A j \in DOMAIN ring : ring[j].inc \in Incarnation
  <2>1. ring \in Seq(Records) /\ Len(ring) \in Nat
    BY RingType
  <2>2. \A j \in DOMAIN ring : ring[j] \in Records
    BY <2>1, ElementOfSeq, LenProperties
  <2>3. closed \subseteq Incarnation
    BY DEF Typing, TypeOK
  <2> QED BY <2>1, <2>2, <2>3, RecordsHaveOwners
<1>3. ReportInv'
  BY <1>1 DEF Order, ReportInv, ClosedInv, Typing, TypeOK
<1>4. CASE ring' = ring
  <2>1. QueueInv'
    BY <1>1, <1>2, <1>4 DEF Order, QueueInv
  <2>2. ClosedInv'
    BY <1>1, <1>2, <1>4 DEF Order, ClosedInv
  <2> QED BY <1>1, <1>3, <2>1, <2>2 DEF Order
<1>5. ASSUME NEW r \in Records, ring' = Append(ring, r), ~Over(r.inc),
             r.type = "exit" => /\ Over(r.inc)'
                                /\ r.sig \in Crashes => r.sig = death'[r.inc].sig
      PROVE  Order'
  <2>1. /\ DOMAIN ring = 1..Len(ring) /\ DOMAIN ring' = 1..(Len(ring) + 1)
        /\ \A j \in DOMAIN ring : ring'[j] = ring[j]
        /\ ring'[Len(ring) + 1] = r
    BY <1>2, <1>5, AppendProperties
  <2>2. ASSUME NEW j \in DOMAIN ring', ring'[j].type = "exit"
        PROVE  /\ Over(ring[j].inc)'
               /\ \A k \in DOMAIN ring' : k > j => ring'[k].inc # ring'[j].inc
               /\ ring'[j].sig \in Crashes => ring'[j].sig = death'[ring'[j].inc].sig
    <3>1. CASE j \in DOMAIN ring
      <4>1. /\ Over(ring[j].inc) /\ ring'[j] = ring[j]
            /\ \A k \in DOMAIN ring : k > j => ring[k].inc # ring[j].inc
            /\ ring[j].sig \in Crashes => ring[j].sig = death[ring[j].inc].sig
        BY <2>1, <2>2, <3>1 DEF Order, QueueInv
      <4>2. \E x \in Incarnation : x = ring[j].inc
        BY <1>2, <3>1
      <4>3. Over(ring[j].inc)' /\ death'[ring[j].inc] = death[ring[j].inc]
        BY <1>1, <4>1, <4>2
      <4>4. \A k \in DOMAIN ring' : k > j => ring'[k].inc # ring'[j].inc
        BY <1>2, <1>5, <2>1, <4>1
      <4> QED BY <4>1, <4>3, <4>4
    <3>2. CASE j = Len(ring) + 1
      BY <1>2, <1>5, <2>1, <2>2, <3>2
    <3> QED BY <1>2, <2>1, <3>1, <3>2
  <2>3. QueueInv'
    BY <2>2 DEF QueueInv
  <2>4. ASSUME NEW x \in closed
        PROVE  /\ Over(x)' /\ x[2] \notin registry'[x[1]]
               /\ \A k \in DOMAIN ring' : ring'[k].inc # x
    <3>1. Over(x) /\ x[2] \notin registry[x[1]] /\ \A k \in DOMAIN ring : ring[k].inc # x
      BY DEF Order, ClosedInv
    <3> QED BY <1>1, <1>2, <1>5, <2>1, <3>1
  <2>5. ClosedInv'
    BY <1>1, <2>4 DEF ClosedInv
  <2> QED BY <1>1, <1>3, <2>3, <2>5 DEF Order
<1> QED BY <1>4, <1>5 DEF KernelEffect, Submitted

\* What every handler of the daemon does.
LEMMA QueueShrinks ==
    ASSUME Typing, Order, ring # << >>, ring' = Tail(ring),
           UNCHANGED <<run, task, exitCode, death>>
    PROVE  /\ QueueInv' /\ DeathInv'
           /\ Head(ring) = ring[1] /\ 1 \in DOMAIN ring
           /\ Head(ring).inc \in Incarnation
           /\ \A x \in Incarnation : Over(x) => Over(x)'
           /\ \A k \in DOMAIN ring' : k + 1 \in DOMAIN ring /\ ring'[k] = ring[k + 1]
<1>1. ring \in Seq(Records) /\ Len(ring) \in Nat
  BY RingType
<1>2. /\ Head(ring) = ring[1] /\ 1 \in DOMAIN ring /\ DOMAIN ring = 1..Len(ring)
      /\ DOMAIN ring' = 1..(Len(ring) - 1)
      /\ \A k \in DOMAIN ring' : k + 1 \in DOMAIN ring /\ ring'[k] = ring[k + 1]
  BY <1>1, HeadTailProperties, EmptySeq
<1>3. Head(ring).inc \in Incarnation
  BY <1>1, <1>2, RecordsHaveOwners
<1>4. \A x : Over(x)' <=> Over(x)
  BY DEF Over, Gone, Live, Threads
<1>5. ASSUME NEW j \in DOMAIN ring', ring'[j].type = "exit"
      PROVE  /\ Over(ring[j].inc)'
             /\ \A k \in DOMAIN ring' : k > j => ring'[k].inc # ring'[j].inc
             /\ ring'[j].sig \in Crashes => ring'[j].sig = death'[ring'[j].inc].sig
  <2>1. ring'[j] = ring[j + 1] /\ j + 1 \in DOMAIN ring
    BY <1>2
  <2>2. /\ Over(ring[j + 1].inc)
        /\ \A k \in DOMAIN ring : k > j + 1 => ring[k].inc # ring[j + 1].inc
        /\ ring[j + 1].sig \in Crashes => ring[j + 1].sig = death[ring[j + 1].inc].sig
    BY <1>5, <2>1 DEF Order, QueueInv
  <2>3. \A k \in DOMAIN ring' : k > j => ring'[k].inc # ring'[j].inc
    BY <1>1, <1>2, <2>1, <2>2
  <2>4. PICK x : x = ring[j + 1].inc
    OBVIOUS
  <2>5. Over(x)' /\ ring'[j].inc = x
    BY <1>4, <2>1, <2>2, <2>4
  <2>6. Over(ring[j].inc)'
    BY <2>5 DEF Over
  <2> QED BY <2>1, <2>2, <2>3, <2>6
<1>6. QueueInv'
  BY <1>5 DEF QueueInv
<1>7. DeathInv'
  BY DEF Order, DeathInv, Current
<1> QED BY <1>2, <1>3, <1>4, <1>6, <1>7

\* A record of a system call opens a buffer, but never of a closed incarnation.
LEMMA BufferStep ==
    ASSUME Typing, Order, HandleOpenatEvent \/ HandleConnectEvent
    PROVE  Order'
<1> DEFINE e == Head(ring)
<1>1. /\ ring # << >> /\ ring' = Tail(ring) /\ reports' = reports /\ closed' = closed
      /\ UNCHANGED <<run, task, exitCode, death>>
      /\ registry' = [registry EXCEPT ![e.inc[1]] = @ \cup {e.inc[2]}]
      /\ registry \in [Processes -> SUBSET (1..MaxRuns)]
  BY DEF HandleOpenatEvent, HandleConnectEvent, Receive, Buffer, kernel, history,
         Typing, TypeOK
<1>2. /\ QueueInv' /\ DeathInv' /\ e = ring[1] /\ 1 \in DOMAIN ring
      /\ e.inc \in Incarnation /\ closed \subseteq Incarnation
      /\ \A x \in Incarnation : Over(x) => Over(x)'
      /\ \A k \in DOMAIN ring' : k + 1 \in DOMAIN ring /\ ring'[k] = ring[k + 1]
  BY <1>1, QueueShrinks DEF Typing, TypeOK
<1> HIDE DEF e
<1>3. ASSUME NEW x \in closed
      PROVE  /\ Over(x)' /\ x[2] \notin registry'[x[1]]
             /\ \A k \in DOMAIN ring' : ring'[k].inc # x
  <2>1. Over(x) /\ x[2] \notin registry[x[1]] /\ \A k \in DOMAIN ring : ring[k].inc # x
    BY DEF Order, ClosedInv
  <2>2. x # e.inc /\ x \in Incarnation
    BY <1>2, <2>1
  <2>3. x[2] \notin registry'[x[1]]
    BY <1>1, <1>2, <2>1, <2>2 DEF Incarnation
  <2> QED BY <1>2, <2>1, <2>2, <2>3
<1>4. ClosedInv'
  BY <1>1, <1>3 DEF ClosedInv
<1>5. ReportInv'
  BY <1>1 DEF Order, ReportInv
<1> QED BY <1>2, <1>4, <1>5 DEF Order

LEMMA SignalStep ==
    ASSUME Typing, Order, HandleSignalEvent
    PROVE  Order'
<1>1. /\ ring # << >> /\ ring' = Tail(ring) /\ registry' = registry
      /\ reports' = reports /\ closed' = closed
      /\ UNCHANGED <<run, task, exitCode, death>>
  BY DEF HandleSignalEvent, Receive, kernel, history
<1>2. /\ QueueInv' /\ DeathInv' /\ closed \subseteq Incarnation
      /\ \A x \in Incarnation : Over(x) => Over(x)'
      /\ \A k \in DOMAIN ring' : k + 1 \in DOMAIN ring /\ ring'[k] = ring[k + 1]
  BY <1>1, QueueShrinks DEF Typing, TypeOK
<1>3. ClosedInv'
  BY <1>1, <1>2 DEF Order, ClosedInv
<1>4. ReportInv'
  BY <1>1 DEF Order, ReportInv
<1> QED BY <1>2, <1>3, <1>4 DEF Order

\* What a handled exit record does, as far as the invariant goes.
LEMMA ExitEventEffect ==
    ASSUME Typing, Order, HandleExitEvent, NEW e, e = Head(ring)
    PROVE  /\ ring # << >> /\ ring' = Tail(ring) /\ e = ring[1] /\ 1 \in DOMAIN ring
           /\ e.inc \in Incarnation /\ UNCHANGED <<kernel, bpf, history>>
           /\ e.inc \notin closed /\ reports[e.inc] = << >> /\ Over(e.inc)
           /\ \A k \in DOMAIN ring' : ring'[k].inc # e.inc
           /\ e.sig \in Crashes => e.sig = death[e.inc].sig
<1>1. /\ ring # << >> /\ ring' = Tail(ring) /\ e.type = "exit"
      /\ UNCHANGED <<kernel, bpf, history>>
  BY DEF HandleExitEvent, Receive
<1>2. UNCHANGED <<run, task, exitCode, death>>
  BY <1>1 DEF kernel, history
<1>3. /\ e = ring[1] /\ 1 \in DOMAIN ring /\ e.inc \in Incarnation
      /\ \A k \in DOMAIN ring' : k + 1 \in DOMAIN ring /\ ring'[k] = ring[k + 1]
  BY <1>1, <1>2, QueueShrinks
<1>4. /\ Over(e.inc)
      /\ e.sig \in Crashes => e.sig = death[e.inc].sig
      /\ \A k \in DOMAIN ring : k > 1 => ring[k].inc # e.inc
  BY <1>1, <1>3 DEF Order, QueueInv
<1>5. DOMAIN ring' \subseteq Nat \ {0}
  <2>1. Tail(ring) \in Seq(Records)
    BY <1>1, TailType
  <2> QED BY <1>1, <2>1
<1>6. \A k \in DOMAIN ring' : ring'[k].inc # e.inc
  BY <1>3, <1>4, <1>5
<1>7. e.inc \notin closed
  BY <1>3 DEF Order, ClosedInv
<1>8. reports[e.inc] = << >>
  BY <1>3, <1>7 DEF Order, ReportInv
<1> QED BY <1>1, <1>3, <1>4, <1>6, <1>7, <1>8

LEMMA ExitStep ==
    ASSUME Typing, Order, HandleExitEvent
    PROVE  Order'
<1>1. PICK e : e = Head(ring)
  OBVIOUS
<1>2. /\ ring # << >> /\ ring' = Tail(ring) /\ e.inc \in Incarnation
      /\ e.inc \notin closed /\ reports[e.inc] = << >> /\ Over(e.inc)
      /\ \A k \in DOMAIN ring' : ring'[k].inc # e.inc
      /\ e.sig \in Crashes => e.sig = death[e.inc].sig
      /\ UNCHANGED <<kernel, bpf, history>>
  BY <1>1, ExitEventEffect
<1>3. UNCHANGED <<run, task, exitCode, death>>
  BY <1>2 DEF kernel, history
<1>4. /\ QueueInv' /\ DeathInv' /\ closed \subseteq Incarnation
      /\ \A x \in Incarnation : Over(x) => Over(x)'
      /\ \A k \in DOMAIN ring' : k + 1 \in DOMAIN ring /\ ring'[k] = ring[k + 1]
  BY <1>2, <1>3, QueueShrinks DEF Typing, TypeOK
<1>5. CASE e.sig \in Crashes
  <2>1. /\ closed' = closed \cup {e.inc}
        /\ registry' = [registry EXCEPT ![e.inc[1]] = {}]
        /\ \/ reports' = reports
           \/ reports' = [reports EXCEPT ![e.inc] = Append(@, Report(e))]
        /\ registry \in [Processes -> SUBSET (1..MaxRuns)] /\ DOMAIN reports = Incarnation
    BY <1>1, <1>5 DEF HandleExitEvent, IsCrash, Freed, Typing, TypeOK
  <2>2. ASSUME NEW x \in closed'
        PROVE  /\ Over(x)' /\ x[2] \notin registry'[x[1]]
               /\ \A k \in DOMAIN ring' : ring'[k].inc # x
    <3>1. CASE x \in closed
      <4>1. Over(x) /\ x[2] \notin registry[x[1]] /\ \A k \in DOMAIN ring : ring[k].inc # x
        BY <3>1 DEF Order, ClosedInv
      <4>2. x[2] \notin registry'[x[1]]
        BY <2>1, <3>1, <4>1, <1>4 DEF Incarnation
      <4> QED BY <1>4, <3>1, <4>1, <4>2
    <3>2. CASE x = e.inc
      <4>1. x[2] \notin registry'[x[1]]
        BY <1>2, <2>1, <3>2 DEF Incarnation
      <4> QED BY <1>2, <1>4, <3>2, <4>1
    <3> QED BY <2>1, <2>2, <3>1, <3>2
  <2>3. ClosedInv'
    BY <2>2 DEF ClosedInv
  <2>4. ASSUME NEW x \in Incarnation, reports'[x] # << >>
        PROVE  /\ x \in closed' /\ Len(reports'[x]) = 1
               /\ reports'[x][1].sig \in Crashes /\ reports'[x][1].sig = death'[x].sig
    <3>1. CASE reports'[x] = reports[x]
      BY <2>1, <2>4, <3>1, <1>3 DEF Order, ReportInv
    <3>2. CASE reports'[x] # reports[x]
      <4>1. x = e.inc /\ reports'[x] = Append(<< >>, Report(e))
        BY <1>2, <2>1, <3>2
      <4>2. reports'[x] = <<Report(e)>> /\ Report(e).sig = e.sig
        BY <4>1 DEF Report
      <4>3. Len(reports'[x]) = 1 /\ reports'[x][1].sig = e.sig
        BY <4>2
      <4> QED BY <4>1, <4>3, <1>2, <1>3, <1>5, <2>1
    <3> QED BY <3>1, <3>2
  <2>5. ReportInv'
    BY <2>4 DEF ReportInv
  <2> QED BY <1>4, <2>3, <2>5 DEF Order
<1>6. CASE e.sig \notin Crashes
  <2>1. UNCHANGED <<closed, registry, reports>>
    BY <1>1, <1>6 DEF HandleExitEvent, IsCrash
  <2>2. ClosedInv'
    BY <2>1, <1>4 DEF Order, ClosedInv
  <2>3. ReportInv'
    BY <2>1, <1>3 DEF Order, ReportInv
  <2> QED BY <1>4, <2>2, <2>3 DEF Order
<1> QED BY <1>5, <1>6

LEMMA OrderInit == Init => Order
BY Constants DEF Init, Order, QueueInv, ClosedInv, ReportInv, DeathInv, Nothing, Over,
                 Incarnation

LEMMA OrderStep == Typing /\ Order /\ [Next]_vars => Order'
<1> SUFFICES ASSUME Typing, Order, [Next]_vars PROVE Order'
  OBVIOUS
<1>1. CASE Kernel
  BY <1>1, KernelStep, QueueGrows
<1>2. CASE Daemon
  BY <1>2, BufferStep, SignalStep, ExitStep DEF Daemon
<1>3. CASE UNCHANGED vars
  <2>1. UNCHANGED <<run, task, exitCode, death, ring, registry, reports, closed>>
    BY <1>3 DEF vars, kernel, daemon, history
  <2> QED BY <2>1 DEF Order, QueueInv, ClosedInv, ReportInv, DeathInv, Over, Gone,
                      Live, Threads, Current
<1> QED BY <1>1, <1>2, <1>3 DEF Next

LEMMA Invariance == Spec => [](Typing /\ Order)
<1>1. Init => Typing /\ Order
  BY TypeInit, OrderInit
<1>2. Typing /\ Order /\ [Next]_vars => (Typing /\ Order)'
  BY TypeStep, OrderStep
<1> QED BY <1>1, <1>2, PTL DEF Spec

\* No incarnation is reported twice.
THEOREM OneReport == Spec => []ReportedOnce
<1>1. Typing /\ Order => ReportedOnce
  <2>1. ASSUME Typing, Order, NEW x \in Incarnation PROVE Len(reports[x]) \in {0, 1}
    <3>1. CASE reports[x] = << >>
      BY <3>1, EmptySeq
    <3>2. CASE reports[x] # << >>
      BY <2>1, <3>2 DEF Order, ReportInv
    <3> QED BY <3>1, <3>2
  <2>2. \A n \in {0, 1} : n <= 1
    OBVIOUS
  <2> QED BY <2>1, <2>2 DEF ReportedOnce
<1> QED BY Invariance, <1>1, PTL

\* Once the crash of an incarnation was handled, no event of it is buffered.
THEOREM NothingLeftBehind == Spec => []NothingAfterCrash
<1>1. Typing /\ Order => NothingAfterCrash
  BY DEF Order, ClosedInv, NothingAfterCrash
<1> QED BY Invariance, <1>1, PTL
-----------------------------------------------------------------------------
(* The refinement: BeginGroupExit is Die, HandleExitEvent that submits a   *)
(* report is Report, and every other step is a stutter.                    *)

Died == [x \in Incarnation |-> death[x].sig]
Reported == [x \in Incarnation |-> IF reports[x] = << >> THEN NoSignal
                                                       ELSE reports[x][1].sig]

LEMMA PromiseInit == Init => Promise!Init
BY DEF Init, Promise!Init, Nothing

LEMMA KernelPromise ==
    ASSUME Typing, Order, Kernel
    PROVE  [Promise!Next]_(Promise!vars)
<1>1. CASE \E t \in Tasks : BeginGroupExit(t)
  <2>1. PICK t \in Tasks : BeginGroupExit(t)
    BY <1>1
  <2>2. PICK x : x = Current(Leader[t])
    OBVIOUS
  <2>3. PICK s : s = pending[t].sig
    OBVIOUS
  <2>4. /\ x \in Incarnation /\ s \in Crashes /\ run[Leader[t]] > 0
        /\ Leader[t] \in Processes /\ exitCode[Leader[t]] = NoSignal
        /\ death' = [death EXCEPT ![x] = pending[t]] /\ reports' = reports
        /\ death \in [Incarnation -> SignalContext]
    BY <2>1, <2>2, <2>3, CurrentIsIncarnation, ProcessOf
       DEF BeginGroupExit, Typing, TypeOK, LiveInv, daemon
  <2>5. death[x].sig = NoSignal
    BY <2>2, <2>4 DEF Order, DeathInv
  <2>6. Died[x] = NoSignal /\ Died' = [Died EXCEPT ![x] = s] /\ Reported' = Reported
    BY <2>3, <2>4, <2>5 DEF Died, Reported
  <2>7. Promise!Die(x, s)
    BY <2>6 DEF Promise!Die, Died, Reported
  <2> QED BY <2>4, <2>7 DEF Promise!Next
<1>2. CASE ~\E t \in Tasks : BeginGroupExit(t)
  <2>1. death' = death /\ reports' = reports
    BY <1>2 DEF Kernel, Start, Terminate, Spawn, Rename, Leave, TraceOpenatExit,
                HandleConnectExit, Emit, ProbeForceSigFault, SendSignal, Generate,
                HandleSignalDeliver, HandleExit, daemon, history
  <2>2. UNCHANGED Promise!vars
    BY <2>1 DEF Promise!vars
  <2> QED BY <2>2
<1> QED BY <1>1, <1>2

LEMMA DaemonPromise ==
    ASSUME Typing, Order, Daemon
    PROVE  [Promise!Next]_(Promise!vars)
<1>1. CASE reports' = reports
  <2>1. death' = death
    BY DEF Daemon, HandleOpenatEvent, HandleConnectEvent, HandleSignalEvent,
           HandleExitEvent, history
  <2> QED BY <1>1, <2>1 DEF Promise!vars
<1>2. CASE reports' # reports
  <2>1. HandleExitEvent
    BY <1>2 DEF Daemon, HandleOpenatEvent, HandleConnectEvent, HandleSignalEvent
  <2>2. PICK e : e = Head(ring)
    OBVIOUS
  <2>3. PICK x : x = e.inc
    OBVIOUS
  <2>4. /\ x \in Incarnation /\ reports[x] = << >>
        /\ e.sig \in Crashes => e.sig = death[x].sig
        /\ death' = death
    BY <2>1, <2>2, <2>3, ExitEventEffect DEF history
  <2>5. /\ e.sig \in Crashes
        /\ reports' = [reports EXCEPT ![x] = Append(@, Report(e))]
        /\ DOMAIN reports = Incarnation
    BY <1>2, <2>1, <2>2, <2>3 DEF HandleExitEvent, IsCrash, Typing, TypeOK
  <2>6. PICK r : r = Report(e)
    OBVIOUS
  <2>7. r.sig = e.sig /\ reports'[x] = <<r>>
    BY <2>4, <2>5, <2>6 DEF Report
  <2>8. reports'[x] # << >> /\ reports'[x][1].sig = death[x].sig
    BY <2>4, <2>5, <2>7
  <2>9. /\ Died[x] # NoSignal /\ Reported[x] = NoSignal /\ Died' = Died
        /\ Reported' = [Reported EXCEPT ![x] = Died[x]]
    BY <2>4, <2>5, <2>8, Constants DEF Died, Reported
  <2>10. Promise!Report(x)
    BY <2>9 DEF Promise!Report, Died, Reported
  <2> QED BY <2>4, <2>10 DEF Promise!Next
<1> QED BY <1>1, <1>2

\* The pipeline reports real deaths only, with the right signal, and once.
THEOREM KeepsPromise == Spec => PromiseSpec
<1>1. Init => Promise!Init
  BY PromiseInit
<1>2. Typing /\ Order /\ [Next]_vars => [Promise!Next]_(Promise!vars)
  <2> SUFFICES ASSUME Typing, Order, [Next]_vars PROVE [Promise!Next]_(Promise!vars)
    OBVIOUS
  <2>1. CASE Kernel
    BY <2>1, KernelPromise
  <2>2. CASE Daemon
    BY <2>2, DaemonPromise
  <2>3. CASE UNCHANGED vars
    BY <2>3 DEF vars, daemon, history, Promise!vars
  <2> QED BY <2>1, <2>2, <2>3 DEF Next
<1> QED BY <1>1, <1>2, Invariance, PTL DEF Spec, PromiseSpec, Promise!Spec
-----------------------------------------------------------------------------
(* What a report says of the signal.  A delivery submits a record right    *)
(* when a thread takes the signal it dies of, and until the exit record    *)
(* of its process no other record that could replace it is submitted: the  *)
(* last thing to be said about the PID, in the ring or in signalInfoMap,   *)
(* is that delivery.  The ring keeps it before the exit record, and behind *)
(* the exit records of earlier processes, which would erase it.            *)

\* Threads with a crash signal, and incarnations of which the probes saw all.
Taking == {"signalled", "fatal"}
Clean(x) == x \notin missed /\ x \notin overlapped

\* A signal record, or what was stored of one, is about that signal and has
\* the address the probe recorded of it; if there is none, and the process is
\* free to take a context an earlier one has left, any.
Tells(r, d, free) == /\ r.id = d.id /\ r.sig = d.sig
                     /\ r.addr = d.addr \/ (d.addr = 0 /\ free)

\* Between two places of a queue, only system calls of a PID.
Quiet(q, p, k, n) ==
    \A j \in DOMAIN q : k < j /\ j < n /\ q[j].inc[1] = p => q[j].type \in {"openat", "connect"}

\* When the daemon gets to place n, it knows of the signal d of x.
Awaited(x, d, free, n, q, info) ==
    \/ \E k \in DOMAIN q : /\ k < n /\ q[k].type = "signal" /\ q[k].inc = x
                           /\ Tells(q[k], d, free) /\ Quiet(q, x[1], k, n)
    \/ Tells(info[x[1]], d, free) /\ Quiet(q, x[1], 0, n)

\* A captured stack is that of the signal it was captured for.
StackInv ==
    /\ \A t \in Tasks : task[t] \in Taking => pending[t].id # 0
    /\ \A j \in DOMAIN ring : ring[j].type = "signal" =>
         /\ ring[j].id # 0
         /\ ring[j].stack_id # NoStackId => stack_traces[ring[j].stack_id] = ring[j].id
    /\ \A p \in Processes : signalInfoMap[p].stack \in {0, signalInfoMap[p].id}

\* Two threads with a signal at a time are on record.
AloneInv ==
    \A t, u \in Tasks :
        t # u /\ Leader[t] = Leader[u] /\ task[t] \in Taking /\ task[u] \in Taking
            => Current(Leader[t]) \in overlapped

\* The probe's context waits for the delivery.
FaultInv ==
    \A t \in Tasks :
        task[t] = "signalled" /\ pending[t].addr # 0 /\ Current(Leader[t]) \notin overlapped
            => pending_signals[Leader[t]] = pending[t]

\* A context waits for a delivery, unless one has passed without a trace.
Waited(p) ==
    \E t \in Threads(p) : task[t] = "signalled" /\ pending[t] = pending_signals[p]

ContextInv ==
    \A p \in Processes :
        run[p] > 0 /\ exitCode[p] = NoSignal
          /\ Current(p) \notin leftover /\ pending_signals[p] # Nothing
            => Waited(p)

\* The delivery waits for the death, and for the exit record.
FatalInv ==
    \A t \in Tasks :
        task[t] = "fatal" /\ exitCode[Leader[t]] = NoSignal /\ Clean(Current(Leader[t]))
            => Awaited(Current(Leader[t]), pending[t], Current(Leader[t]) \in leftover,
                       Len(ring) + 1, ring, signalInfoMap)

DyingInv ==
    \A p \in Processes :
        run[p] > 0 /\ ~Gone(p) /\ exitCode[p] \in Crashes /\ Clean(Current(p))
            => Awaited(Current(p), death[Current(p)], Current(p) \in leftover, Len(ring) + 1,
                       ring, signalInfoMap)

ExitInv ==
    \A j \in DOMAIN ring :
        ring[j].type = "exit" /\ ring[j].sig \in Crashes /\ Clean(ring[j].inc)
            => Awaited(ring[j].inc, death[ring[j].inc], ring[j].inc \in leftover, j,
                       ring, signalInfoMap)

SignalInv ==
    StackInv /\ AloneInv /\ FaultInv /\ ContextInv /\ FatalInv /\ DyingInv /\ ExitInv

\* Being free to take another context weakens what is awaited.
LEMMA AwaitedFree ==
    ASSUME NEW x, NEW d, NEW I, NEW J, I \subseteq J,
           NEW n, NEW q, NEW info, Awaited(x, d, x \in I, n, q, info)
    PROVE  Awaited(x, d, x \in J, n, q, info)
<1>1. \A r : Tells(r, d, x \in I) => Tells(r, d, x \in J)
  BY DEF Tells
<1> QED BY <1>1 DEF Awaited

\* Records that are submitted later change nothing.
LEMMA AwaitedAppend ==
    ASSUME NEW x, NEW d, NEW free, NEW q \in Seq(Records), NEW info, NEW r \in Records,
           NEW n \in Nat, n <= Len(q) + 1, Awaited(x, d, free, n, q, info)
    PROVE  Awaited(x, d, free, n, Append(q, r), info)
<1> DEFINE a == Append(q, r)
<1>1. /\ DOMAIN q = 1..Len(q) /\ DOMAIN a = 1..(Len(q) + 1) /\ Len(q) \in Nat
      /\ \A j \in DOMAIN q : a[j] = q[j]
  BY AppendProperties, LenProperties
<1> HIDE DEF a
<1>2. \A p, k : k \in Nat /\ Quiet(q, p, k, n) => Quiet(a, p, k, n)
  BY <1>1 DEF Quiet
<1>3. CASE \E k \in DOMAIN q : /\ k < n /\ q[k].type = "signal" /\ q[k].inc = x
                              /\ Tells(q[k], d, free) /\ Quiet(q, x[1], k, n)
  <2>1. PICK k \in DOMAIN q : /\ k < n /\ q[k].type = "signal" /\ q[k].inc = x
                              /\ Tells(q[k], d, free) /\ Quiet(q, x[1], k, n)
    BY <1>3
  <2>2. k \in DOMAIN a /\ a[k] = q[k] /\ k \in Nat
    BY <1>1
  <2>3. Quiet(a, x[1], k, n)
    BY <1>2, <2>1, <2>2
  <2> QED BY <2>1, <2>2, <2>3 DEF Awaited, a
<1>4. CASE Tells(info[x[1]], d, free) /\ Quiet(q, x[1], 0, n)
  BY <1>2, <1>4 DEF Awaited, a
<1> QED BY <1>3, <1>4 DEF Awaited

\* Nor does what else is said about a PID, as long as it is of another one or
\* of a system call.
LEMMA AwaitedLater ==
    ASSUME NEW x, NEW d, NEW free, NEW q \in Seq(Records), NEW info, NEW r \in Records,
           r.inc[1] # x[1] \/ r.type \in {"openat", "connect"},
           Awaited(x, d, free, Len(q) + 1, q, info)
    PROVE  Awaited(x, d, free, Len(Append(q, r)) + 1, Append(q, r), info)
<1> DEFINE a == Append(q, r)
           n == Len(q) + 1
<1>1. /\ DOMAIN q = 1..Len(q) /\ DOMAIN a = 1..(Len(q) + 1) /\ Len(q) \in Nat
      /\ \A j \in DOMAIN q : a[j] = q[j]
      /\ Len(a) = n /\ a[n] = r
  BY AppendProperties, LenProperties
<1>2. Awaited(x, d, free, n, a, info)
  BY <1>1, AwaitedAppend
<1> HIDE DEF a
<1>3. ASSUME NEW k \in Nat, Quiet(a, x[1], k, n) PROVE Quiet(a, x[1], k, n + 1)
  <2> SUFFICES ASSUME NEW j \in DOMAIN a, k < j, a[j].inc[1] = x[1]
               PROVE  a[j].type \in {"openat", "connect"}
    BY DEF Quiet
  <2>1. CASE j = n
    BY <1>1, <2>1
  <2>2. CASE j < n
    BY <1>3, <2>2 DEF Quiet
  <2> QED BY <1>1, <2>1, <2>2
<1>4. Awaited(x, d, free, n + 1, a, info)
  <2>1. CASE \E k \in DOMAIN a : /\ k < n /\ a[k].type = "signal" /\ a[k].inc = x
                                /\ Tells(a[k], d, free) /\ Quiet(a, x[1], k, n)
    <3>1. PICK k \in DOMAIN a : /\ k < n /\ a[k].type = "signal" /\ a[k].inc = x
                                /\ Tells(a[k], d, free) /\ Quiet(a, x[1], k, n)
      BY <2>1
    <3>2. k \in Nat /\ k < n + 1
      BY <1>1, <3>1
    <3>3. Quiet(a, x[1], k, n + 1)
      BY <1>3, <3>1, <3>2
    <3> QED BY <3>1, <3>2, <3>3 DEF Awaited
  <2>2. CASE Tells(info[x[1]], d, free) /\ Quiet(a, x[1], 0, n)
    BY <1>3, <2>2 DEF Awaited
  <2> QED BY <1>2, <2>1, <2>2 DEF Awaited
<1> QED BY <1>1, <1>4 DEF a

\* The daemon takes a record: what it says moves from the ring to
\* signalInfoMap, and an exit record that would erase it comes too early.
LEMMA AwaitedTaken ==
    ASSUME NEW x, NEW d, NEW free, NEW q \in Seq(Records), q # << >>,
           NEW info, NEW info2,
           NEW n \in Nat, n >= 1, Awaited(x, d, free, n + 1, q, info),
           Head(q).inc[1] # x[1] \/ Head(q).type \in {"openat", "connect"} =>
               info2[x[1]] = info[x[1]],
           Head(q).inc[1] = x[1] /\ Head(q).type = "signal" /\ Tells(Head(q), d, free) =>
               Tells(info2[x[1]], d, free)
    PROVE  Awaited(x, d, free, n, Tail(q), info2)
<1> DEFINE rest == Tail(q)
           h == Head(q)
<1>1. /\ DOMAIN q = 1..Len(q) /\ Len(q) \in Nat /\ 1 \in DOMAIN q /\ h = q[1]
      /\ DOMAIN rest = 1..(Len(q) - 1)
      /\ \A j \in DOMAIN rest : rest[j] = q[j + 1]
  BY HeadTailProperties, LenProperties, EmptySeq
<1> HIDE DEF rest, h
<1>2. ASSUME NEW k \in Nat, Quiet(q, x[1], k + 1, n + 1) PROVE Quiet(rest, x[1], k, n)
  <2> SUFFICES ASSUME NEW j \in DOMAIN rest, k < j, j < n, rest[j].inc[1] = x[1]
               PROVE  rest[j].type \in {"openat", "connect"}
    BY DEF Quiet
  <2>1. j + 1 \in DOMAIN q /\ k + 1 < j + 1 /\ j + 1 < n + 1 /\ rest[j] = q[j + 1]
    BY <1>1
  <2> QED BY <1>2, <2>1 DEF Quiet
<1>3. CASE \E k \in DOMAIN q : /\ k < n + 1 /\ q[k].type = "signal" /\ q[k].inc = x
                              /\ Tells(q[k], d, free) /\ Quiet(q, x[1], k, n + 1)
  <2>1. PICK k \in DOMAIN q : /\ k < n + 1 /\ q[k].type = "signal" /\ q[k].inc = x
                              /\ Tells(q[k], d, free) /\ Quiet(q, x[1], k, n + 1)
    BY <1>3
  <2>2. CASE k = 1
    <3>1. Tells(info2[x[1]], d, free)
      BY <1>1, <2>1, <2>2 DEF h
    <3>2. Quiet(rest, x[1], 0, n)
      BY <1>2, <2>1, <2>2
    <3> QED BY <3>1, <3>2 DEF Awaited, rest
  <2>3. CASE k # 1
    <3>1. k - 1 \in DOMAIN rest /\ k - 1 \in Nat /\ k - 1 < n /\ (k - 1) + 1 = k
      BY <1>1, <2>1, <2>3
    <3>2. rest[k - 1] = q[k]
      BY <1>1, <3>1
    <3>3. Quiet(rest, x[1], k - 1, n)
      BY <1>2, <2>1, <3>1
    <3> QED BY <2>1, <3>1, <3>2, <3>3 DEF Awaited, rest
  <2> QED BY <2>2, <2>3
<1>4. CASE Tells(info[x[1]], d, free) /\ Quiet(q, x[1], 0, n + 1)
  <2>1. h.inc[1] # x[1] \/ h.type \in {"openat", "connect"}
    BY <1>1, <1>4 DEF Quiet
  <2>2. Tells(info2[x[1]], d, free)
    BY <1>4, <2>1 DEF h
  <2>3. Quiet(q, x[1], 0 + 1, n + 1)
    BY <1>1, <1>4 DEF Quiet
  <2>4. Quiet(rest, x[1], 0, n)
    BY <1>2, <2>3
  <2> QED BY <2>2, <2>4 DEF Awaited, rest
<1> QED BY <1>3, <1>4 DEF Awaited

LEMMA RecordTypes ==
    \A r \in Records : r.type \in {"openat", "connect", "signal", "exit"}
BY DEF Records, SyscallRecord, SignalRecord, ExitRecord

\* What is awaited for a process is still awaited after a step that submits
\* nothing, or only a system call or a record of another process.
LEMMA LaterKept ==
    ASSUME Typing, NEW x, NEW d, NEW free, signalInfoMap' = signalInfoMap,
           \/ ring' = ring
           \/ \E r \in Records : /\ ring' = Submitted(r)
                                 /\ r.inc[1] # x[1] \/ r.type \in {"openat", "connect"},
           Awaited(x, d, free, Len(ring) + 1, ring, signalInfoMap)
    PROVE  Awaited(x, d, free, Len(ring') + 1, ring', signalInfoMap')
<1>1. ring \in Seq(Records)
  BY RingType
<1>2. CASE ring' = ring
  BY <1>2
<1>3. ASSUME NEW r \in Records, ring' = Append(ring, r),
             r.inc[1] # x[1] \/ r.type \in {"openat", "connect"}
      PROVE  Awaited(x, d, free, Len(ring') + 1, ring', signalInfoMap')
  BY <1>1, <1>3, AwaitedLater
<1> QED BY <1>2, <1>3 DEF Submitted

\* What is awaited for the exit records in the ring stays; a new one may be
\* submitted when its signal was.
LEMMA ExitKept ==
    ASSUME Typing, Order, ExitInv, signalInfoMap' = signalInfoMap,
           overlapped \subseteq overlapped', leftover \subseteq leftover',
           \A x \in Incarnation : Over(x) => /\ death'[x] = death[x]
                                             /\ x \in missed => x \in missed',
           \/ ring' = ring
           \/ \E r \in Records :
                /\ ring' = Submitted(r)
                /\ r.type = "exit" /\ r.sig \in Crashes /\ Clean(r.inc)' =>
                     Awaited(r.inc, death'[r.inc], r.inc \in leftover, Len(ring) + 1,
                             ring, signalInfoMap)
    PROVE  ExitInv'
<1>1. /\ ring \in Seq(Records) /\ Len(ring) \in Nat /\ DOMAIN ring = 1..Len(ring)
      /\ \A j \in DOMAIN ring : ring[j] \in Records
  BY RingType, LenProperties
<1>2. ASSUME NEW j \in DOMAIN ring, ring[j].type = "exit", ring[j].sig \in Crashes,
             ring[j].inc \notin missed', ring[j].inc \notin overlapped'
      PROVE  Awaited(ring[j].inc, death'[ring[j].inc], ring[j].inc \in leftover', j,
                     ring, signalInfoMap)
  <2>1. Over(ring[j].inc) /\ ring[j].inc \in Incarnation
    BY <1>1, <1>2, RecordsHaveOwners DEF Order, QueueInv
  <2>2. Clean(ring[j].inc) /\ death'[ring[j].inc] = death[ring[j].inc]
    BY <1>2, <2>1 DEF Clean
  <2>3. Awaited(ring[j].inc, death'[ring[j].inc], ring[j].inc \in leftover, j, ring, signalInfoMap)
    BY <1>2, <2>2 DEF ExitInv
  <2> QED BY <2>3, AwaitedFree
<1>4. CASE ring' = ring
  BY <1>2, <1>4 DEF ExitInv, Clean
<1>5. ASSUME NEW r \in Records, ring' = Append(ring, r),
             r.type = "exit" /\ r.sig \in Crashes /\ Clean(r.inc)' =>
                 Awaited(r.inc, death'[r.inc], r.inc \in leftover, Len(ring) + 1,
                         ring, signalInfoMap)
      PROVE  ExitInv'
  <2>1. /\ DOMAIN ring' = 1..(Len(ring) + 1) /\ ring'[Len(ring) + 1] = r
        /\ \A i \in DOMAIN ring : ring'[i] = ring[i]
    <3>1. /\ Append(ring, r) \in Seq(Records) /\ Len(Append(ring, r)) = Len(ring) + 1
          /\ \A i \in 1..Len(ring) : Append(ring, r)[i] = ring[i]
          /\ Append(ring, r)[Len(ring) + 1] = r
      BY <1>1, AppendProperties
    <3>2. DOMAIN Append(ring, r) = 1..(Len(ring) + 1)
      BY <3>1, LenProperties
    <3> QED BY <1>1, <1>5, <3>1, <3>2
  <2> SUFFICES ASSUME NEW j \in DOMAIN ring', ring'[j].type = "exit",
                      ring'[j].sig \in Crashes, ring'[j].inc \notin missed',
                      ring'[j].inc \notin overlapped'
               PROVE  Awaited(ring'[j].inc, death'[ring'[j].inc], ring'[j].inc \in leftover', j,
                              ring', signalInfoMap')
    BY DEF ExitInv, Clean
  <2>2. CASE j \in DOMAIN ring
    <3>1. Awaited(ring'[j].inc, death'[ring'[j].inc], ring'[j].inc \in leftover', j,
                  ring, signalInfoMap)
      BY <1>2, <2>1, <2>2 DEF Clean
    <3>2. j \in Nat /\ j <= Len(ring) + 1
      BY <1>1, <2>2
    <3> QED BY <1>1, <1>5, <3>1, <3>2, AwaitedAppend
  <2>3. CASE j = Len(ring) + 1
    <3>1. Awaited(ring'[j].inc, death'[ring'[j].inc], ring'[j].inc \in leftover', j,
                  ring, signalInfoMap)
      <4>1. Awaited(ring'[j].inc, death'[ring'[j].inc], ring'[j].inc \in leftover, j,
                    ring, signalInfoMap)
        BY <1>5, <2>1, <2>3 DEF Clean
      <4> QED BY <4>1, AwaitedFree
    <3>2. j \in Nat /\ j <= Len(ring) + 1
      BY <1>1, <2>3
    <3> QED BY <1>1, <1>5, <3>1, <3>2, AwaitedAppend
  <2> QED BY <1>1, <2>1, <2>2, <2>3
<1> QED BY <1>4, <1>5 DEF Submitted

\* A step that gives no thread a signal and takes none: who has one had it
\* before, a process that dies of one was dying of it, and what is submitted is
\* a system call, or the exit record of a process that is gone.
Calm ==
    /\ UNCHANGED <<pending_signals, stack_traces, signalInfoMap, death, missed, overlapped>>
    /\ leftover \subseteq leftover'
    /\ \A t \in Tasks : task'[t] \in Taking =>
         /\ task'[t] = task[t] /\ pending'[t] = pending[t]
         /\ run'[Leader[t]] = run[Leader[t]]
         /\ exitCode'[Leader[t]] = NoSignal => exitCode[Leader[t]] = NoSignal
    /\ \A p \in Processes : run'[p] > 0 /\ ~Gone(p)' /\ exitCode'[p] \in Crashes =>
         run'[p] = run[p] /\ ~Gone(p) /\ exitCode'[p] = exitCode[p]
    /\ \A p \in Processes :
         run'[p] > 0 /\ exitCode'[p] = NoSignal
           /\ <<p, run'[p]>> \notin leftover' /\ pending_signals[p] # Nothing
           => /\ run'[p] = run[p] /\ exitCode[p] = NoSignal
              /\ \A t \in Threads(p) : task[t] = "signalled" =>
                   task'[t] = "signalled" /\ pending'[t] = pending[t]
    /\ \/ ring' = ring
       \/ \E r \in Records :
            /\ ring' = Submitted(r) /\ r.type # "signal"
            /\ r.type = "exit" =>
                 /\ Gone(r.inc[1])'
                 /\ r.sig \in Crashes /\ Clean(r.inc) =>
                      Awaited(r.inc, death[r.inc], r.inc \in leftover, Len(ring) + 1,
                              ring, signalInfoMap)

LEMMA CalmKeeps ==
    ASSUME Typing, Order, SignalInv, Calm
    PROVE  SignalInv'
<1>1. /\ ring \in Seq(Records) /\ Len(ring) \in Nat /\ DOMAIN ring = 1..Len(ring)
  BY RingType, LenProperties
<1>2. /\ UNCHANGED <<pending_signals, stack_traces, signalInfoMap, death, missed, overlapped>>
      /\ \A t \in Tasks : task'[t] \in Taking =>
           /\ task'[t] = task[t] /\ pending'[t] = pending[t]
           /\ Current(Leader[t])' = Current(Leader[t])
           /\ exitCode'[Leader[t]] = NoSignal => exitCode[Leader[t]] = NoSignal
  BY DEF Calm, Current
<1>3. StackInv'
  <2>1. ASSUME NEW j \in DOMAIN ring', ring'[j].type = "signal"
        PROVE  j \in DOMAIN ring /\ ring'[j] = ring[j]
    <3>1. CASE ring' = ring
      BY <2>1, <3>1
    <3>2. ASSUME NEW r \in Records, ring' = Append(ring, r), r.type # "signal"
          PROVE  j \in DOMAIN ring /\ ring'[j] = ring[j]
      BY <1>1, <2>1, <3>2, AppendProperties, LenProperties
    <3> QED BY <3>1, <3>2 DEF Calm, Submitted
  <2> QED BY <1>2, <2>1 DEF SignalInv, StackInv
<1>4. AloneInv'
  BY <1>2 DEF SignalInv, AloneInv
<1>5. FaultInv'
  BY <1>2 DEF SignalInv, FaultInv, Taking
<1>6. ASSUME NEW x, NEW d, NEW free, ~Gone(x[1])', Awaited(x, d, free, Len(ring) + 1,
                                                                       ring, signalInfoMap)
      PROVE  Awaited(x, d, free, Len(ring') + 1, ring', signalInfoMap')
  <2>1. CASE ring' = ring
    BY <1>2, <1>6, <2>1
  <2>2. ASSUME NEW r \in Records, ring' = Submitted(r), r.type # "signal",
               r.type = "exit" => Gone(r.inc[1])'
        PROVE  Awaited(x, d, free, Len(ring') + 1, ring', signalInfoMap')
    <3>1. r.inc[1] # x[1] \/ r.type \in {"openat", "connect"}
      BY <1>6, <2>2, RecordTypes
    <3> QED BY <1>2, <1>6, <2>2, <3>1, LaterKept
  <2> QED BY <2>1, <2>2 DEF Calm
<1>7. FatalInv'
  <2> SUFFICES ASSUME NEW t \in Tasks, task'[t] = "fatal", exitCode'[Leader[t]] = NoSignal,
                      Clean(Current(Leader[t]))'
               PROVE  Awaited(Current(Leader[t]), pending[t], Current(Leader[t]) \in leftover',
                              Len(ring') + 1, ring', signalInfoMap')
    BY <1>2 DEF FatalInv, Taking
  <2>1. Awaited(Current(Leader[t]), pending[t], Current(Leader[t]) \in leftover, Len(ring) + 1,
                ring, signalInfoMap)
    BY <1>2 DEF SignalInv, FatalInv, Taking, Clean
  <2>2. ~Gone(Leader[t])' /\ Current(Leader[t])[1] = Leader[t]
    BY DEF Gone, Threads, Live, Current
  <2>3. Awaited(Current(Leader[t]), pending[t], Current(Leader[t]) \in leftover', Len(ring) + 1,
                ring, signalInfoMap)
    BY <2>1, AwaitedFree DEF Calm
  <2> QED BY <1>6, <2>2, <2>3
<1>8. DyingInv'
  <2> SUFFICES ASSUME NEW p \in Processes, run'[p] > 0, ~Gone(p)', exitCode'[p] \in Crashes,
                      Clean(Current(p))'
               PROVE  Awaited(Current(p), death[Current(p)], Current(p) \in leftover',
                              Len(ring') + 1, ring', signalInfoMap')
    BY <1>2 DEF DyingInv, Calm, Current
  <2>1. /\ Awaited(Current(p), death[Current(p)], Current(p) \in leftover, Len(ring) + 1,
                   ring, signalInfoMap)
        /\ Current(p)[1] = p
    BY <1>2 DEF SignalInv, DyingInv, Calm, Clean, Current
  <2>2. Awaited(Current(p), death[Current(p)], Current(p) \in leftover', Len(ring) + 1,
                ring, signalInfoMap)
    BY <2>1, AwaitedFree DEF Calm
  <2> QED BY <1>6, <2>1, <2>2
<1>9. ExitInv'
  BY <1>2, ExitKept DEF SignalInv, Calm, Clean
<1>10. ContextInv'
  <2> SUFFICES ASSUME NEW p \in Processes, run'[p] > 0, exitCode'[p] = NoSignal,
                      Current(p)' \notin leftover',
                      pending_signals[p] # Nothing
               PROVE  Waited(p)'
    BY <1>2 DEF ContextInv
  <2>1. /\ run'[p] = run[p] /\ exitCode[p] = NoSignal
        /\ \A t \in Threads(p) : task[t] = "signalled" =>
             task'[t] = "signalled" /\ pending'[t] = pending[t]
    BY DEF Calm, Current
  <2>2. Current(p)' = Current(p) /\ Current(p) \notin leftover
    BY <1>2, <2>1 DEF Calm, Current
  <2>3. Waited(p)
    BY <2>1, <2>2 DEF SignalInv, ContextInv
  <2> QED BY <1>2, <2>1, <2>3 DEF Waited, Threads
<1> QED BY <1>3, <1>4, <1>5, <1>7, <1>8, <1>9, <1>10 DEF SignalInv

LEMMA StartCalm == ASSUME Typing, NEW p \in Processes, Start(p) PROVE Calm
<1>1. /\ run' = [run EXCEPT ![p] = run[p] + 1] /\ run \in [Processes -> 0..MaxRuns]
      /\ exitCode' = [exitCode EXCEPT ![p] = NoSignal]
      /\ exitCode \in [Processes -> Crashes \cup {NoSignal, Exited}]
      /\ task' = [t \in Tasks |-> IF t = p THEN "running"
                                  ELSE IF Leader[t] = p THEN "none" ELSE task[t]]
      /\ pending' = [t \in Tasks |-> IF Leader[t] = p THEN Nothing ELSE pending[t]]
      /\ ring' = ring
      /\ UNCHANGED <<pending_signals, stack_traces, signalInfoMap, death, missed, overlapped>>
  BY DEF Start, Typing, TypeOK, daemon, history
<1>2. ASSUME NEW t \in Tasks, task'[t] \in Taking
      PROVE  /\ task'[t] = task[t] /\ pending'[t] = pending[t]
             /\ run'[Leader[t]] = run[Leader[t]]
             /\ exitCode'[Leader[t]] = NoSignal => exitCode[Leader[t]] = NoSignal
  <2>1. t # p /\ Leader[t] # p
    BY <1>1, <1>2 DEF Taking
  <2> QED BY <1>1, <2>1, ProcessOf
<1>3. ASSUME NEW q \in Processes, ~Gone(q)', exitCode'[q] \in Crashes
      PROVE  run'[q] = run[q] /\ ~Gone(q) /\ exitCode'[q] = exitCode[q]
  <2>1. q # p
    BY <1>1, <1>3, Constants
  <2>2. \A t \in Threads(q) : task'[t] = task[t]
    BY <1>1, <2>1, PipelineAssumption DEF Threads, Processes
  <2> QED BY <1>1, <1>3, <2>1, <2>2 DEF Gone, Live, Threads
<1>4. leftover' = IF pending_signals[p] = Nothing THEN leftover
                   ELSE leftover \cup {<<p, run[p] + 1>>}
  BY DEF Start
<1>5. ASSUME NEW q \in Processes, exitCode'[q] = NoSignal, <<q, run'[q]>> \notin leftover',
             pending_signals[q] # Nothing
      PROVE  /\ run'[q] = run[q] /\ exitCode[q] = NoSignal
             /\ \A t \in Threads(q) : task'[t] = task[t] /\ pending'[t] = pending[t]
  <2>1. q # p
    BY <1>1, <1>4, <1>5
  <2>2. \A t \in Threads(q) : t # p /\ Leader[t] # p
    BY <2>1, PipelineAssumption DEF Threads, Processes
  <2> QED BY <1>1, <1>5, <2>1, <2>2 DEF Threads
<1> QED BY <1>1, <1>2, <1>3, <1>4, <1>5 DEF Calm

LEMMA TerminateCalm == ASSUME Typing, NEW p \in Processes, Terminate(p) PROVE Calm
<1>1. /\ exitCode' = [exitCode EXCEPT ![p] = Exited] /\ exitCode[p] = NoSignal
      /\ exitCode \in [Processes -> Crashes \cup {NoSignal, Exited}]
      /\ UNCHANGED <<run, task, pending, ring>>
      /\ UNCHANGED <<pending_signals, stack_traces, signalInfoMap, death, missed,
                     leftover, overlapped>>
  BY DEF Terminate, Typing, TypeOK, bpf, daemon, history
<1>2. \A q : Gone(q)' <=> Gone(q)
  BY <1>1 DEF Gone, Live, Threads
<1>3. Exited \notin Crashes
  BY Constants
<1> QED BY <1>1, <1>2, <1>3, ProcessOf DEF Calm

\* One live thread moves, or a new one of its process begins to run.
LEMMA MoveCalm ==
    ASSUME Typing, NEW t \in Tasks, Live(t), NEW u \in Tasks, Leader[u] = Leader[t],
           NEW v \in {"running", "leaving", "dead"}, task' = [task EXCEPT ![u] = v],
           task[u] # "signalled" \/ exitCode[Leader[u]] # NoSignal,
           UNCHANGED <<run, pending, exitCode, pending_signals, stack_traces, signalInfoMap,
                       death, missed, leftover, overlapped>>,
           \/ ring' = ring
           \/ \E r \in Records :
                /\ ring' = Submitted(r) /\ r.type # "signal"
                /\ r.type = "exit" =>
                     /\ Gone(r.inc[1])'
                     /\ r.sig \in Crashes /\ Clean(r.inc) =>
                          Awaited(r.inc, death[r.inc], r.inc \in leftover, Len(ring) + 1,
                                  ring, signalInfoMap)
    PROVE  Calm
<1>1. \A w \in Tasks : task'[w] \in Taking => task'[w] = task[w]
  BY DEF Taking, Typing, TypeOK
<1>2. ASSUME NEW p \in Processes, ~Gone(p)' PROVE ~Gone(p)
  <2>1. CASE p = Leader[t]
    BY <2>1 DEF Gone, Threads
  <2>2. CASE p # Leader[t]
    <3>1. \A w \in Threads(p) : task'[w] = task[w]
      BY <2>2 DEF Threads, Typing, TypeOK
    <3> QED BY <1>2, <3>1 DEF Gone, Live, Threads
  <2> QED BY <2>1, <2>2
<1>3. ASSUME NEW p \in Processes, exitCode[p] = NoSignal, NEW w \in Threads(p),
             task[w] = "signalled"
      PROVE  task'[w] = "signalled"
  <2>1. w # u
    BY <1>3 DEF Threads
  <2> QED BY <1>3, <2>1 DEF Threads
<1> QED BY <1>1, <1>2, <1>3 DEF Calm

LEMMA QuietCalm ==
    ASSUME Typing, NEW t \in Tasks, Rename(t) \/ Leave(t) \/ \E u \in Tasks : Spawn(t, u)
    PROVE  Calm
<1>1. /\ UNCHANGED <<run, pending, exitCode, pending_signals, stack_traces, signalInfoMap,
                     death, missed, leftover, overlapped, ring>>
      /\ Live(t) /\ task[t] = "running"
  BY DEF Rename, Leave, Spawn, bpf, daemon, history, Live
<1>2. CASE Rename(t)
  <2>1. task' = [task EXCEPT ![t] = "running"]
    BY <1>1, <1>2 DEF Rename, Typing, TypeOK
  <2> QED BY <1>1, <2>1, MoveCalm
<1>3. CASE Leave(t)
  <2>1. task' = [task EXCEPT ![t] = "leaving"]
    BY <1>3 DEF Leave
  <2> QED BY <1>1, <2>1, MoveCalm
<1>4. CASE \E u \in Tasks : Spawn(t, u)
  <2>1. PICK u \in Tasks : /\ Leader[t] = Leader[u] /\ task' = [task EXCEPT ![u] = "running"]
                           /\ task[u] # "signalled"
    BY <1>4 DEF Spawn
  <2> QED BY <1>1, <2>1, MoveCalm
<1> QED BY <1>2, <1>3, <1>4

LEMMA EmitCalm ==
    ASSUME Typing, NEW t \in Tasks, NEW kind \in {"openat", "connect"}, Emit(t, kind)
    PROVE  Calm
<1> DEFINE r == [type |-> kind, inc |-> Current(Leader[t])]
<1>1. /\ UNCHANGED <<run, pending, exitCode, pending_signals, stack_traces, signalInfoMap,
                     death, missed, leftover, overlapped>>
      /\ Live(t) /\ task[t] = "running" /\ task' = [task EXCEPT ![t] = "running"]
  BY DEF Emit, kernel, bpf, daemon, Live, Typing, TypeOK
<1>2. r \in Records /\ r.type = kind /\ ring' = Submitted(r)
  BY <1>1, CurrentIsIncarnation DEF Emit, Records, SyscallRecord
<1> HIDE DEF r
<1>3. r.type # "signal" /\ r.type # "exit"
  BY <1>2
<1> QED BY <1>1, <1>2, <1>3, MoveCalm

\* The last thread submits the exit record while the delivery is still awaited.
LEMMA ExitCalm == ASSUME Typing, SignalInv, NEW t \in Tasks, HandleExit(t) PROVE Calm
<1>1. /\ UNCHANGED <<run, pending, exitCode, pending_signals, stack_traces, signalInfoMap,
                     death, missed, leftover, overlapped>>
      /\ Live(t) /\ task[t] # "none" /\ task' = [task EXCEPT ![t] = "dead"]
      /\ task[t] # "signalled" \/ exitCode[Leader[t]] # NoSignal
      /\ Leader[t] \in Processes
  BY ProcessOf DEF HandleExit, bpf, daemon, history, Live
<1>2. CASE TracedTask(t) /\ GroupDead(t)
  <2>1. PICK r \in Records :
          r = [type |-> "exit", inc |-> Current(Leader[t]),
               sig |-> OwnSignal(t), comm |-> comm[t]]
    BY <1>1, ExitedRecord
  <2>2. /\ r.inc = Current(Leader[t]) /\ r.inc[1] = Leader[t] /\ r.sig = OwnSignal(t)
        /\ r.type # "signal" /\ ring' = Submitted(r)
    BY <1>2, <2>1 DEF HandleExit, Current
  <2>3. Gone(Leader[t])'
    BY <1>1, <1>2 DEF GroupDead, Gone, Threads, Live, Typing, TypeOK
  <2>4. ASSUME r.sig \in Crashes, Clean(r.inc)
        PROVE  Awaited(r.inc, death[r.inc], r.inc \in leftover, Len(ring) + 1, ring, signalInfoMap)
    <3>1. exitCode[Leader[t]] \in Crashes
      BY <2>2, <2>4, Constants DEF OwnSignal
    <3>2. run[Leader[t]] > 0 /\ ~Gone(Leader[t])
      BY <1>1 DEF Typing, LiveInv, Gone, Threads
    <3> QED BY <1>1, <2>2, <2>4, <3>1, <3>2 DEF SignalInv, DyingInv
  <2>5. Gone(r.inc[1])'
    BY <2>2, <2>3
  <2> QED BY <1>1, <2>2, <2>4, <2>5, MoveCalm
<1>3. CASE ~(TracedTask(t) /\ GroupDead(t))
  BY <1>1, <1>3, MoveCalm DEF HandleExit
<1> QED BY <1>2, <1>3

\* A new signal: if another thread of the process has one, that is on record.
LEMMA GenerateKeeps ==
    ASSUME Typing, Order, SignalInv, NEW t \in Tasks, NEW s \in Crashes, NEW a \in {0, signals + 1},
           Generate(t, [sig |-> s, id |-> signals + 1, addr |-> a]),
           \A p \in Processes \ {Leader[t]} : pending_signals'[p] = pending_signals[p],
           pending_signals'[Leader[t]] =
             IF a # 0 THEN [sig |-> s, id |-> signals + 1, addr |-> a]
             ELSE pending_signals[Leader[t]]
    PROVE  SignalInv'
<1> DEFINE ctx == [sig |-> s, id |-> signals + 1, addr |-> a]
<1>1. /\ UNCHANGED <<run, exitCode, stack_traces, ring, signalInfoMap, death, missed, leftover>>
      /\ task[t] = "running" /\ task' = [task EXCEPT ![t] = "signalled"]
      /\ pending' = [pending EXCEPT ![t] = ctx]
      /\ overlapped' = IF \E u \in Threads(Leader[t]) \ {t} : task[u] \in Taking
                         THEN overlapped \cup {Current(Leader[t])} ELSE overlapped
      /\ task \in [Tasks -> {"none", "running", "leaving", "signalled", "fatal", "dead"}]
      /\ pending \in [Tasks -> SignalContext] /\ signals \in Nat
  BY Constants DEF Generate, daemon, Typing, TypeOK, Taking
<1>2. /\ ctx.id # 0 /\ ctx.addr = a
      /\ pending_signals'[Leader[t]] = IF a # 0 THEN ctx ELSE pending_signals[Leader[t]]
  BY <1>1
<1> HIDE DEF ctx
<1>3. /\ task'[t] = "signalled" /\ pending'[t] = ctx
      /\ \A u \in Tasks \ {t} : task'[u] = task[u] /\ pending'[u] = pending[u]
      /\ overlapped \subseteq overlapped'
      /\ \A p : Current(p)' = Current(p)
  BY <1>1 DEF Current
<1>4. ASSUME NEW u \in Tasks, u # t, Leader[u] = Leader[t], task[u] \in Taking
      PROVE  Current(Leader[t]) \in overlapped'
  BY <1>1, <1>4 DEF Threads
<1>5. StackInv'
  BY <1>1, <1>2, <1>3 DEF SignalInv, StackInv
<1>6. AloneInv'
  <2> SUFFICES ASSUME NEW u \in Tasks, NEW w \in Tasks, u # w, Leader[u] = Leader[w],
                      task'[u] \in Taking, task'[w] \in Taking
               PROVE  Current(Leader[u]) \in overlapped'
    BY <1>3 DEF AloneInv
  <2>1. CASE u = t
    BY <1>3, <1>4, <2>1
  <2>2. CASE w = t
    BY <1>3, <1>4, <2>2
  <2>3. CASE u # t /\ w # t
    BY <1>3, <2>3 DEF SignalInv, AloneInv
  <2> QED BY <2>1, <2>2, <2>3
<1>7. FaultInv'
  <2> SUFFICES ASSUME NEW u \in Tasks, task'[u] = "signalled", pending'[u].addr # 0,
                      Current(Leader[u]) \notin overlapped'
               PROVE  pending_signals'[Leader[u]] = pending'[u]
    BY <1>1, <1>3 DEF FaultInv
  <2>1. CASE u = t
    BY <1>2, <1>3, <2>1
  <2>2. CASE u # t
    <3>1. /\ task[u] = "signalled" /\ pending'[u] = pending[u]
          /\ Current(Leader[u]) \notin overlapped
      BY <1>3, <2>2
    <3>2. pending_signals[Leader[u]] = pending[u]
      BY <1>3, <2>2, <3>1 DEF SignalInv, FaultInv
    <3>3. Leader[u] # Leader[t]
      BY <1>4, <2>2, <3>1 DEF Taking
    <3> QED BY <3>1, <3>2, <3>3, ProcessOf
  <2> QED BY <2>1, <2>2
<1>8. FatalInv'
  <2> SUFFICES ASSUME NEW u \in Tasks, task'[u] = "fatal", exitCode[Leader[u]] = NoSignal,
                      Current(Leader[u]) \notin missed, Current(Leader[u]) \notin overlapped'
               PROVE  Awaited(Current(Leader[u]), pending'[u], Current(Leader[u]) \in leftover,
                              Len(ring) + 1, ring, signalInfoMap)
    BY <1>1, <1>3 DEF FatalInv, Clean
  <2>1. u # t
    BY <1>3
  <2>2. task[u] = "fatal" /\ pending'[u] = pending[u] /\ Clean(Current(Leader[u]))
    BY <1>3, <2>1 DEF Clean
  <2> QED BY <2>2 DEF SignalInv, FatalInv
<1>9. DyingInv'
  <2> SUFFICES ASSUME NEW p \in Processes, run[p] > 0, ~Gone(p)', exitCode[p] \in Crashes,
                      Current(p) \notin missed, Current(p) \notin overlapped'
               PROVE  Awaited(Current(p), death[Current(p)], Current(p) \in leftover,
                              Len(ring) + 1, ring, signalInfoMap)
    BY <1>1, <1>3 DEF DyingInv, Clean
  <2>1. ~Gone(p)
    BY <1>1, <1>3 DEF Gone, Live, Threads
  <2>2. Clean(Current(p))
    BY <1>3 DEF Clean
  <2> QED BY <2>1, <2>2 DEF SignalInv, DyingInv
<1>10. ExitInv'
  BY <1>1, <1>3, ExitKept DEF SignalInv
<1>11. ContextInv'
  <2> SUFFICES ASSUME NEW p \in Processes, run[p] > 0, exitCode[p] = NoSignal,
                      Current(p) \notin leftover, pending_signals'[p] # Nothing
               PROVE  Waited(p)'
    BY <1>1, <1>3 DEF ContextInv
  <2>1. CASE p = Leader[t] /\ a # 0
    BY <1>2, <1>3, <2>1 DEF Waited, Threads
  <2>2. CASE p # Leader[t] \/ a = 0
    <3>1. pending_signals'[p] = pending_signals[p]
      BY <1>2, <1>3, <2>2
    <3>2. PICK u \in Threads(p) : task[u] = "signalled" /\ pending[u] = pending_signals[p]
      BY <3>1 DEF SignalInv, ContextInv, Waited
    <3> QED BY <1>1, <1>3, <3>1, <3>2 DEF Waited, Threads
  <2> QED BY <2>1, <2>2
<1> QED BY <1>5, <1>6, <1>7, <1>8, <1>9, <1>10, <1>11 DEF SignalInv

LEMMA FaultKeeps ==
    ASSUME Typing, Order, SignalInv, NEW t \in Tasks, ProbeForceSigFault(t) PROVE SignalInv'
<1>1. PICK s \in MemoryFaults, a \in {0, signals + 1} :
         LET ctx == [sig |-> s, id |-> signals + 1, addr |-> a] IN
           /\ Generate(t, ctx)
           /\ pending_signals' = IF a # 0 THEN [pending_signals EXCEPT ![Leader[t]] = ctx]
                                 ELSE pending_signals
  <2>1. signals + 1 # 0
    BY DEF Typing, TypeOK
  <2> QED BY <2>1 DEF ProbeForceSigFault
<1>2. s \in Crashes /\ Leader[t] \in Processes /\ pending_signals \in [Processes -> SignalContext]
  BY Constants, ProcessOf DEF Typing, TypeOK
<1> QED BY <1>1, <1>2, GenerateKeeps

LEMMA SendKeeps ==
    ASSUME Typing, Order, SignalInv, NEW t \in Tasks, SendSignal(t) PROVE SignalInv'
<1>1. PICK s \in Crashes : Generate(t, [sig |-> s, id |-> signals + 1, addr |-> 0])
  BY DEF SendSignal
<1>2. UNCHANGED pending_signals
  BY DEF SendSignal
<1> QED BY <1>1, <1>2, GenerateKeeps

LEMMA GroupExitKeeps ==
    ASSUME Typing, Order, SignalInv, NEW t \in Tasks, BeginGroupExit(t) PROVE SignalInv'
<1> DEFINE p == Leader[t]
<1>1. /\ UNCHANGED <<run, task, pending, pending_signals, stack_traces, ring, signalInfoMap,
                     missed, leftover, overlapped>>
      /\ exitCode' = [exitCode EXCEPT ![p] = pending[t].sig]
      /\ death' = [death EXCEPT ![Current(p)] = pending[t]]
      /\ task[t] = "fatal" /\ exitCode[p] = NoSignal
      /\ exitCode \in [Processes -> Crashes \cup {NoSignal, Exited}]
      /\ death \in [Incarnation -> SignalContext] /\ run \in [Processes -> 0..MaxRuns]
  BY DEF BeginGroupExit, bpf, daemon, Typing, TypeOK
<1>2. /\ pending[t].sig \in Crashes /\ p \in Processes /\ Current(p) \in Incarnation
      /\ ~Over(Current(p)) /\ NoSignal \notin Crashes /\ MaxRuns \in Nat
  BY <1>1, Constants, ProcessOf, CurrentIsIncarnation, LiveNotOver DEF Typing, LiveInv, Live
<1> HIDE DEF p
<1>3. \A q : Current(q)' = Current(q) /\ (Gone(q)' <=> Gone(q))
  BY <1>1 DEF Current, Gone, Live, Threads
<1>4. StackInv' /\ AloneInv' /\ FaultInv'
  BY <1>1 DEF SignalInv, StackInv, AloneInv, FaultInv, Clean, Current
<1>5. FatalInv'
  <2> SUFFICES ASSUME NEW u \in Tasks, task[u] = "fatal", exitCode'[Leader[u]] = NoSignal,
                      Clean(Current(Leader[u]))
               PROVE  Awaited(Current(Leader[u]), pending[u], Current(Leader[u]) \in leftover,
                              Len(ring) + 1, ring, signalInfoMap)
    BY <1>1, <1>3 DEF FatalInv, Clean
  <2>1. Leader[u] # p
    BY <1>1, <1>2
  <2> QED BY <1>1, <2>1, ProcessOf DEF SignalInv, FatalInv
<1>6. DyingInv'
  <2> SUFFICES ASSUME NEW q \in Processes, run[q] > 0, ~Gone(q), exitCode'[q] \in Crashes,
                      Clean(Current(q))
               PROVE  Awaited(Current(q), death'[Current(q)], Current(q) \in leftover,
                              Len(ring) + 1, ring, signalInfoMap)
    BY <1>1, <1>3 DEF DyingInv, Clean
  <2>1. CASE q = p
    BY <1>1, <1>2, <2>1 DEF SignalInv, FatalInv, p
  <2>2. CASE q # p
    <3>1. Current(q) # Current(p) /\ Current(q) \in Incarnation
      BY <1>1, <1>2, <2>2 DEF Current, Incarnation
    <3> QED BY <1>1, <2>2, <3>1 DEF SignalInv, DyingInv
  <2> QED BY <2>1, <2>2
<1>7. ExitInv'
  <2>1. \A x \in Incarnation : Over(x) => death'[x] = death[x]
    BY <1>1, <1>2
  <2> QED BY <1>1, <2>1, ExitKept DEF SignalInv
<1>8. ContextInv'
  <2> SUFFICES ASSUME NEW q \in Processes, run[q] > 0, exitCode'[q] = NoSignal,
                      Current(q) \notin leftover, pending_signals[q] # Nothing
               PROVE  Waited(q)'
    BY <1>1, <1>3 DEF ContextInv
  <2>1. exitCode[q] = NoSignal
    BY <1>1, <1>2
  <2>2. Waited(q)
    BY <2>1 DEF SignalInv, ContextInv
  <2> QED BY <1>1, <2>2 DEF Waited, Threads
<1> QED BY <1>4, <1>5, <1>6, <1>7, <1>8 DEF SignalInv

\* What a delivery submits, if it can: the signal, the probe's address if it
\* is about the same signal, and a bucket that holds the stack or none.
LEMMA Delivery ==
    ASSUME Typing, NEW t \in Tasks, HandleSignalDeliver(t)
    PROVE  \/ /\ Current(Leader[t]) \in missed' /\ ring' = ring
              /\ \A b \in Buckets : stack_traces[b] # 0 => stack_traces'[b] = stack_traces[b]
           \/ \E r \in Records :
                /\ ring' = Append(ring, r)
                /\ r.type = "signal" /\ r.inc = Current(Leader[t])
                /\ r.id = pending[t].id /\ r.sig = pending[t].sig
                /\ pending_signals[Leader[t]] = pending[t] => r.addr = pending[t].addr
                /\ pending_signals[Leader[t]] = Nothing => r.addr = 0
                /\ r.stack_id # NoStackId => stack_traces'[r.stack_id] = r.id
                /\ \A b \in Buckets : stack_traces[b] # 0 => stack_traces'[b] = stack_traces[b]
<1>1. /\ task[t] = "signalled" /\ stack_traces \in [Buckets -> Ids]
      /\ Nothing.sig # pending[t].sig
  BY Constants DEF HandleSignalDeliver, Typing, TypeOK, LiveInv, Nothing
<1>2. CASE ~TracedGroup(t)
  BY <1>2 DEF HandleSignalDeliver
<1>3. CASE TracedGroup(t)
  <2>1. PICK b \in Buckets :
          /\ stack_traces' = IF stack_traces[b] = 0
                               THEN [stack_traces EXCEPT ![b] = pending[t].id]
                               ELSE stack_traces
          /\ ring' = Submitted([type |-> "signal", inc |-> Current(Leader[t]),
                                sig |-> pending[t].sig, id |-> pending[t].id,
                                addr |-> IF pending_signals[Leader[t]].sig = pending[t].sig
                                           THEN pending_signals[Leader[t]].addr ELSE 0,
                                stack_id |-> Captured(b, pending[t].id)])
          /\ missed' = IF HasRoom THEN missed \ {Current(Leader[t])}
                       ELSE missed \cup {Current(Leader[t])}
    BY <1>3 DEF HandleSignalDeliver
  <2> DEFINE r == [type |-> "signal", inc |-> Current(Leader[t]),
                   sig |-> pending[t].sig, id |-> pending[t].id,
                   addr |-> IF pending_signals[Leader[t]].sig = pending[t].sig
                              THEN pending_signals[Leader[t]].addr ELSE 0,
                   stack_id |-> Captured(b, pending[t].id)]
  <2>2. r \in Records
    BY <1>1, DeliveredRecord
  <2>3. /\ r.type = "signal" /\ r.inc = Current(Leader[t])
        /\ r.id = pending[t].id /\ r.sig = pending[t].sig
        /\ pending_signals[Leader[t]] = pending[t] => r.addr = pending[t].addr
        /\ pending_signals[Leader[t]] = Nothing => r.addr = 0
        /\ r.stack_id = Captured(b, pending[t].id) /\ ring' = Submitted(r)
    BY <1>1, <2>1
  <2> HIDE DEF r
  <2>4. \A c \in Buckets : stack_traces[c] # 0 => stack_traces'[c] = stack_traces[c]
    BY <1>1, <2>1
  <2>5. r.stack_id # NoStackId => stack_traces'[r.stack_id] = r.id
    BY <1>1, <2>1, <2>3 DEF Captured
  <2>6. CASE HasRoom
    BY <2>2, <2>3, <2>4, <2>5, <2>6 DEF Submitted
  <2>7. CASE ~HasRoom
    BY <2>1, <2>3, <2>4, <2>7 DEF Submitted
  <2> QED BY <2>6, <2>7
<1> QED BY <1>2, <1>3

LEMMA DeliverKeeps ==
    ASSUME Typing, Order, SignalInv, NEW t \in Tasks, HandleSignalDeliver(t) PROVE SignalInv'
<1> DEFINE p == Leader[t]
<1>1. /\ UNCHANGED <<run, pending, exitCode, signalInfoMap, death, overlapped>>
      /\ task[t] = "signalled" /\ exitCode[p] = NoSignal
      /\ missed \ {Current(p)} \subseteq missed' /\ leftover \subseteq leftover'
      /\ \E v \in {"running", "fatal"} : task' = [task EXCEPT ![t] = v]
      /\ task \in [Tasks -> {"none", "running", "leaving", "signalled", "fatal", "dead"}]
      /\ \A q \in Processes \ {p} : pending_signals'[q] = pending_signals[q]
      /\ p \in Processes /\ Current(p)[1] = p
      /\ ring \in Seq(Records) /\ Len(ring) \in Nat /\ DOMAIN ring = 1..Len(ring)
      /\ \A j \in DOMAIN ring : ring[j] \in Records
  <2>1. /\ UNCHANGED <<run, pending, exitCode, signalInfoMap, death, overlapped>>
        /\ task[t] = "signalled" /\ exitCode[p] = NoSignal
        /\ missed \ {Current(p)} \subseteq missed' /\ leftover \subseteq leftover'
        /\ \E v \in {"running", "fatal"} : task' = [task EXCEPT ![t] = v]
    BY DEF HandleSignalDeliver, daemon
  <2>2. p \in Processes /\ Current(p)[1] = p
    BY ProcessOf DEF Current
  <2>3. \A q \in Processes \ {p} : pending_signals'[q] = pending_signals[q]
    BY <2>2 DEF HandleSignalDeliver, Consumed, Typing, TypeOK
  <2>4. task \in [Tasks -> {"none", "running", "leaving", "signalled", "fatal", "dead"}]
    BY DEF Typing, TypeOK
  <2>5. /\ ring \in Seq(Records) /\ Len(ring) \in Nat /\ DOMAIN ring = 1..Len(ring)
        /\ \A j \in DOMAIN ring : ring[j] \in Records
    BY RingType, LenProperties
  <2> HIDE DEF p
  <2> QED BY <2>1, <2>2, <2>3, <2>4, <2>5
<1> HIDE DEF p
<1>2. /\ task'[t] \in {"running", "fatal"}
      /\ \A u \in Tasks \ {t} : task'[u] = task[u]
      /\ \A q : Current(q)' = Current(q)
      /\ \A x : x # Current(p) /\ Clean(x)' => Clean(x)
  BY <1>1 DEF Current, Clean
<1>3. ASSUME NEW u \in Tasks, u # t, Leader[u] = p, task[u] \in Taking
      PROVE  Current(p) \in overlapped'
  BY <1>1, <1>3 DEF SignalInv, AloneInv, Taking, p
<1>4. /\ \A b \in Buckets : stack_traces[b] # 0 => stack_traces'[b] = stack_traces[b]
      /\ \/ Current(p) \in missed' /\ ring' = ring
         \/ \E r \in Records :
              /\ ring' = Append(ring, r)
              /\ r.type = "signal" /\ r.inc = Current(p)
              /\ r.id = pending[t].id /\ r.sig = pending[t].sig
              /\ pending_signals[p] = pending[t] => r.addr = pending[t].addr
              /\ pending_signals[p] = Nothing => r.addr = 0
              /\ r.stack_id # NoStackId => stack_traces'[r.stack_id] = r.id
  BY Delivery DEF p
<1>5. StackInv'
  <2>1. \A u \in Tasks : task'[u] \in Taking => pending[u].id # 0
    BY <1>1, <1>2 DEF SignalInv, StackInv, Taking
  <2>2. ASSUME NEW j \in DOMAIN ring, ring[j].type = "signal"
        PROVE  /\ ring[j].id # 0
               /\ ring[j].stack_id # NoStackId => stack_traces'[ring[j].stack_id] = ring[j].id
    <3>1. /\ ring[j].id # 0
          /\ ring[j].stack_id # NoStackId => stack_traces[ring[j].stack_id] = ring[j].id
      BY <2>2 DEF SignalInv, StackInv
    <3>2. ring[j].stack_id \in Buckets \cup {NoStackId}
      BY <1>1, <2>2 DEF Records, SyscallRecord, SignalRecord, ExitRecord
    <3> QED BY <1>4, <3>1, <3>2
  <2>3. ASSUME NEW j \in DOMAIN ring', ring'[j].type = "signal"
        PROVE  /\ ring'[j].id # 0
               /\ ring'[j].stack_id # NoStackId => stack_traces'[ring'[j].stack_id] = ring'[j].id
    <3>1. CASE ring' = ring
      BY <2>2, <2>3, <3>1
    <3>2. ASSUME NEW r \in Records, ring' = Append(ring, r), r.id = pending[t].id,
                 r.stack_id # NoStackId => stack_traces'[r.stack_id] = r.id
          PROVE  /\ ring'[j].id # 0
                 /\ ring'[j].stack_id # NoStackId => stack_traces'[ring'[j].stack_id] = ring'[j].id
      <4>1. r.id # 0
        BY <1>1, <3>2 DEF SignalInv, StackInv, Taking
      <4>2. ring'[j] = r \/ (j \in DOMAIN ring /\ ring'[j] = ring[j])
        BY <1>1, <2>3, <3>2, AppendProperties, LenProperties
      <4> QED BY <2>2, <2>3, <3>2, <4>1, <4>2
    <3> QED BY <1>4, <3>1, <3>2
  <2>4. \A q \in Processes : signalInfoMap[q].stack \in {0, signalInfoMap[q].id}
    BY DEF SignalInv, StackInv
  <2> QED BY <1>1, <2>1, <2>3, <2>4 DEF StackInv
<1>6. AloneInv'
  BY <1>1, <1>2 DEF SignalInv, AloneInv, Taking
<1>7. FaultInv'
  <2> SUFFICES ASSUME NEW u \in Tasks, task'[u] = "signalled", pending[u].addr # 0,
                      Current(Leader[u]) \notin overlapped'
               PROVE  pending_signals'[Leader[u]] = pending[u]
    BY <1>1, <1>2 DEF FaultInv
  <2>1. u # t /\ task[u] = "signalled"
    BY <1>2
  <2>2. Leader[u] # p
    BY <1>3, <2>1 DEF Taking
  <2> QED BY <1>1, <2>1, <2>2, ProcessOf DEF SignalInv, FaultInv
<1>8. ASSUME NEW x, NEW d, NEW free, x[1] # p, Awaited(x, d, free, Len(ring) + 1,
                                                                   ring, signalInfoMap)
      PROVE  Awaited(x, d, free, Len(ring') + 1, ring', signalInfoMap')
  <2>1. CASE ring' = ring
    BY <1>1, <1>8, <2>1
  <2>2. ASSUME NEW r \in Records, ring' = Append(ring, r), r.inc = Current(p)
        PROVE  Awaited(x, d, free, Len(ring') + 1, ring', signalInfoMap')
    BY <1>1, <1>8, <2>2, AwaitedLater
  <2> QED BY <1>4, <2>1, <2>2
<1>9. FatalInv'
  <2> SUFFICES ASSUME NEW u \in Tasks, task'[u] = "fatal", exitCode[Leader[u]] = NoSignal,
                      Current(Leader[u]) \notin missed', Current(Leader[u]) \notin overlapped'
               PROVE  Awaited(Current(Leader[u]), pending[u], Current(Leader[u]) \in leftover',
                              Len(ring') + 1, ring', signalInfoMap')
    BY <1>1, <1>2 DEF FatalInv, Clean
  <2>1. Current(Leader[u]) \notin overlapped
    BY <1>1
  <2>2. CASE u = t
    <3>1. PICK r \in Records :
            /\ ring' = Append(ring, r)
            /\ r.type = "signal" /\ r.inc = Current(p)
            /\ r.id = pending[t].id /\ r.sig = pending[t].sig
            /\ pending_signals[p] = pending[t] => r.addr = pending[t].addr
            /\ pending_signals[p] = Nothing => r.addr = 0
      BY <1>4, <2>2 DEF p
    <3>2. Tells(r, pending[t], Current(p) \in leftover)
      <4>1. Current(p) \notin overlapped /\ t \in Threads(p) /\ run[p] > 0
        BY <1>1, <2>1, <2>2 DEF Threads, Typing, LiveInv, p
      <4>2. CASE pending[t].addr # 0
        <5>1. pending_signals[p] = pending[t]
          BY <1>1, <4>1, <4>2 DEF SignalInv, FaultInv, p
        <5> QED BY <3>1, <5>1 DEF Tells
      <4>3. CASE pending[t].addr = 0 /\ Current(p) \notin leftover
        <5>1. CASE pending_signals[p] = Nothing
          BY <3>1, <4>3, <5>1 DEF Tells
        <5>2. CASE pending_signals[p] # Nothing
          <6>1. PICK w \in Threads(p) : task[w] = "signalled" /\ pending[w] = pending_signals[p]
            BY <1>1, <4>1, <4>3, <5>2 DEF SignalInv, ContextInv, Waited
          <6>2. w = t
            BY <1>1, <1>3, <4>1, <6>1 DEF Taking, Clean, Threads
          <6> QED BY <3>1, <6>1, <6>2 DEF Tells
        <5> QED BY <5>1, <5>2
      <4>4. CASE pending[t].addr = 0 /\ Current(p) \in leftover
        BY <3>1, <4>4 DEF Tells
      <4> QED BY <4>2, <4>3, <4>4
    <3>3. Len(ring') = Len(ring) + 1 /\ Len(ring') \in DOMAIN ring' /\ ring'[Len(ring')] = r
      BY <1>1, <3>1, AppendProperties, LenProperties
    <3>4. Quiet(ring', p, Len(ring'), Len(ring') + 1)
      <4>1. DOMAIN ring' = 1..Len(ring') /\ Len(ring') \in Nat
        BY <1>1, <3>1, AppendProperties, LenProperties
      <4> QED BY <4>1 DEF Quiet
    <3>5. Len(ring') < Len(ring') + 1
      BY <1>1, <3>3
    <3>6. Awaited(Current(p), pending[t], Current(p) \in leftover, Len(ring') + 1,
                  ring', signalInfoMap')
      BY <1>1, <3>1, <3>2, <3>3, <3>4, <3>5 DEF Awaited
    <3> QED BY <1>1, <2>2, <3>6, AwaitedFree DEF p
  <2>3. CASE u # t
    <3>1. task[u] = "fatal" /\ Leader[u] # p
      BY <1>1, <1>2, <1>3, <2>1, <2>3 DEF Taking
    <3>2. Current(Leader[u])[1] # p /\ Current(Leader[u]) # Current(p)
      BY <1>1, <3>1 DEF Current
    <3>3. Awaited(Current(Leader[u]), pending[u], Current(Leader[u]) \in leftover,
                  Len(ring) + 1, ring, signalInfoMap)
      BY <1>2, <3>1, <3>2 DEF SignalInv, FatalInv, Clean
    <3>4. Awaited(Current(Leader[u]), pending[u], Current(Leader[u]) \in leftover',
                  Len(ring) + 1, ring, signalInfoMap)
      BY <1>1, <3>3, AwaitedFree
    <3> QED BY <1>8, <3>2, <3>4
  <2> QED BY <2>2, <2>3
<1>10. DyingInv'
  <2> SUFFICES ASSUME NEW q \in Processes, run[q] > 0, ~Gone(q)', exitCode[q] \in Crashes,
                      Clean(Current(q))'
               PROVE  Awaited(Current(q), death[Current(q)], Current(q) \in leftover',
                              Len(ring') + 1, ring', signalInfoMap')
    BY <1>1, <1>2 DEF DyingInv
  <2>1. q # p /\ Current(q)[1] = q /\ Current(q) # Current(p) /\ Clean(Current(q))
    BY <1>1, <1>2, Constants DEF Current
  <2>2. \A u \in Threads(q) : task'[u] = task[u]
    BY <1>2, <2>1 DEF Threads, p
  <2>3. ~Gone(q)
    BY <2>2 DEF Gone, Live, Threads
  <2>4. Awaited(Current(q), death[Current(q)], Current(q) \in leftover', Len(ring) + 1,
                ring, signalInfoMap)
    BY <1>1, <2>1, <2>3, AwaitedFree DEF SignalInv, DyingInv
  <2> QED BY <1>8, <2>1, <2>4
<1>11. ExitInv'
  <2>1. \/ ring' = ring
        \/ \E r \in Records : ring' = Submitted(r) /\ r.type = "signal"
    <3>1. CASE ~TracedGroup(t)
      BY <3>1 DEF HandleSignalDeliver
    <3>2. CASE TracedGroup(t)
      BY <1>1, <3>2, DeliveredRecord DEF HandleSignalDeliver
    <3> QED BY <3>1, <3>2
  <2>2. ~Over(Current(p))
    BY <1>1, LiveNotOver DEF Live, p
  <2> QED BY <1>1, <2>1, <2>2, ExitKept DEF SignalInv
<1>12. ContextInv'
  <2> SUFFICES ASSUME NEW q \in Processes, run[q] > 0, exitCode[q] = NoSignal,
                      Current(q) \notin leftover', pending_signals'[q] # Nothing
               PROVE  Waited(q)'
    BY <1>1, <1>2 DEF ContextInv
  <2>1. /\ pending_signals'[q] = pending_signals[q] /\ Current(q) \notin leftover
        /\ q = p => pending[t] # pending_signals[q]
    <3>1. CASE q # p
      BY <1>1, <3>1
    <3>2. CASE q = p
      <4>1. TracedGroup(t)
        BY <3>2 DEF HandleSignalDeliver, p
      <4>2. pending_signals' = IF pending_signals[p].sig = pending[t].sig
                                 THEN [pending_signals EXCEPT ![p] = Nothing]
                                 ELSE pending_signals
        BY <4>1 DEF HandleSignalDeliver, Consumed, p
      <4> QED BY <1>1, <3>2, <4>2 DEF Typing, TypeOK
    <3> QED BY <3>1, <3>2
  <2>2. PICK u \in Threads(q) : task[u] = "signalled" /\ pending[u] = pending_signals[q]
    BY <2>1 DEF SignalInv, ContextInv, Waited
  <2>3. u # t
    BY <2>1, <2>2 DEF Threads, p
  <2> QED BY <1>1, <1>2, <2>1, <2>2, <2>3 DEF Waited, Threads
<1> QED BY <1>5, <1>6, <1>7, <1>9, <1>10, <1>11, <1>12 DEF SignalInv

\* A handler that takes the first record and leaves of it, in signalInfoMap,
\* what AwaitedTaken asks for.
LEMMA TakenKeeps ==
    ASSUME Typing, Order, SignalInv, ring # << >>, ring' = Tail(ring),
           UNCHANGED <<kernel, bpf, history>>,
           \A p \in Processes :
               /\ (Head(ring).inc[1] # p \/ Head(ring).type \in {"openat", "connect"}) =>
                    signalInfoMap'[p] = signalInfoMap[p]
               /\ Head(ring).inc[1] = p /\ Head(ring).type = "signal" =>
                    /\ signalInfoMap'[p].id = Head(ring).id
                    /\ signalInfoMap'[p].sig = Head(ring).sig
                    /\ signalInfoMap'[p].addr = Head(ring).addr
               /\ signalInfoMap'[p].stack \in {0, signalInfoMap'[p].id}
    PROVE  SignalInv'
<1>1. /\ ring \in Seq(Records) /\ Len(ring) \in Nat /\ DOMAIN ring = 1..Len(ring)
      /\ \A j \in DOMAIN ring : ring[j] \in Records
  BY RingType, LenProperties
<1>2. /\ Len(ring') + 1 = Len(ring) /\ Len(ring) >= 1
      /\ DOMAIN ring' \subseteq Nat \ {0}
      /\ \A j \in DOMAIN ring' : j + 1 \in DOMAIN ring /\ ring'[j] = ring[j + 1]
  <2>1. Len(Tail(ring)) = Len(ring) - 1 /\ Tail(ring) \in Seq(Records)
    BY <1>1, HeadTailProperties
  <2>2. Len(ring) # 0
    BY <1>1, EmptySeq
  <2>3. DOMAIN Tail(ring) = 1..(Len(ring) - 1)
    BY <1>1, <2>1, LenProperties
  <2>4. \A j \in 1..(Len(ring) - 1) : Tail(ring)[j] = ring[j + 1]
    BY <1>1, HeadTailProperties
  <2> QED BY <1>1, <2>1, <2>2, <2>3, <2>4
<1>3. UNCHANGED <<run, task, pending, exitCode, pending_signals, stack_traces, death,
                  missed, leftover, overlapped>>
  BY DEF kernel, bpf, history
<1>4. ASSUME NEW x, x[1] \in Processes, NEW d, NEW free, NEW n \in Nat, n >= 1,
             Awaited(x, d, free, n + 1, ring, signalInfoMap)
      PROVE  Awaited(x, d, free, n, ring', signalInfoMap')
  <2>1. Head(ring).inc[1] # x[1] \/ Head(ring).type \in {"openat", "connect"} =>
            signalInfoMap'[x[1]] = signalInfoMap[x[1]]
    BY <1>4
  <2>2. Head(ring).inc[1] = x[1] /\ Head(ring).type = "signal" /\ Tells(Head(ring), d, free) =>
            Tells(signalInfoMap'[x[1]], d, free)
    BY <1>4 DEF Tells
  <2> QED BY <1>1, <1>4, <2>1, <2>2, AwaitedTaken
<1>5. \A p : Current(p)' = Current(p) /\ Current(p)[1] = p /\ (Gone(p)' <=> Gone(p))
  BY <1>3 DEF Current, Gone, Live, Threads
<1>6. StackInv'
  BY <1>2, <1>3 DEF SignalInv, StackInv
<1>7. AloneInv' /\ FaultInv' /\ ContextInv'
  BY <1>3 DEF SignalInv, AloneInv, FaultInv, ContextInv, Waited, Threads, Clean, Current
<1>8. FatalInv'
  <2> SUFFICES ASSUME NEW t \in Tasks, task[t] = "fatal", exitCode[Leader[t]] = NoSignal,
                      Clean(Current(Leader[t]))
               PROVE  Awaited(Current(Leader[t]), pending[t], Current(Leader[t]) \in leftover,
                              Len(ring') + 1, ring', signalInfoMap')
    BY <1>3, <1>5 DEF FatalInv, Clean
  <2>1. Awaited(Current(Leader[t]), pending[t], Current(Leader[t]) \in leftover, Len(ring) + 1,
                ring, signalInfoMap)
    BY DEF SignalInv, FatalInv
  <2>2. Current(Leader[t])[1] \in Processes
    BY <1>5, ProcessOf
  <2> QED BY <1>1, <1>2, <1>4, <2>1, <2>2
<1>9. DyingInv'
  <2> SUFFICES ASSUME NEW p \in Processes, run[p] > 0, ~Gone(p), exitCode[p] \in Crashes,
                      Clean(Current(p))
               PROVE  Awaited(Current(p), death[Current(p)], Current(p) \in leftover,
                              Len(ring') + 1, ring', signalInfoMap')
    BY <1>3, <1>5 DEF DyingInv, Clean
  <2>1. Awaited(Current(p), death[Current(p)], Current(p) \in leftover, Len(ring) + 1,
                ring, signalInfoMap)
    BY DEF SignalInv, DyingInv
  <2> QED BY <1>1, <1>2, <1>4, <1>5, <2>1
<1>10. ExitInv'
  <2> SUFFICES ASSUME NEW j \in DOMAIN ring', ring'[j].type = "exit",
                      ring'[j].sig \in Crashes, Clean(ring'[j].inc)
               PROVE  Awaited(ring'[j].inc, death[ring'[j].inc], ring'[j].inc \in leftover, j,
                              ring', signalInfoMap')
    BY <1>3 DEF ExitInv, Clean
  <2>1. j \in Nat /\ j >= 1 /\ j + 1 \in DOMAIN ring /\ ring'[j] = ring[j + 1]
    BY <1>2
  <2>2. Awaited(ring'[j].inc, death[ring'[j].inc], ring'[j].inc \in leftover, j + 1,
                ring, signalInfoMap)
    BY <2>1 DEF SignalInv, ExitInv
  <2>3. ring'[j].inc[1] \in Processes
    BY <1>1, <2>1, RecordsHaveOwners DEF Incarnation
  <2> QED BY <1>4, <2>1, <2>2, <2>3
<1> QED BY <1>6, <1>7, <1>8, <1>9, <1>10 DEF SignalInv

LEMMA SyscallEventKeeps ==
    ASSUME Typing, Order, SignalInv, HandleOpenatEvent \/ HandleConnectEvent
    PROVE  SignalInv'
<1>1. /\ ring # << >> /\ ring' = Tail(ring) /\ signalInfoMap' = signalInfoMap
      /\ UNCHANGED <<kernel, bpf, history>> /\ Head(ring).type \in {"openat", "connect"}
  BY DEF HandleOpenatEvent, HandleConnectEvent, Receive
<1>2. \A p \in Processes : signalInfoMap[p].stack \in {0, signalInfoMap[p].id}
  BY DEF SignalInv, StackInv
<1> QED BY <1>1, <1>2, TakenKeeps

LEMMA SignalEventKeeps ==
    ASSUME Typing, Order, SignalInv, HandleSignalEvent
    PROVE  SignalInv'
<1> DEFINE e == Head(ring)
           info == [id |-> e.id, sig |-> e.sig, addr |-> e.addr,
                    stack |-> IF e.stack_id = NoStackId THEN 0 ELSE stack_traces[e.stack_id]]
<1>1. /\ ring # << >> /\ ring' = Tail(ring) /\ e.type = "signal"
      /\ UNCHANGED <<kernel, bpf, history>>
      /\ signalInfoMap' = [signalInfoMap EXCEPT ![e.inc[1]] = info]
      /\ signalInfoMap \in [Processes -> SignalInfo]
  BY DEF HandleSignalEvent, Receive, Stored, Typing, TypeOK
<1>2. e.inc[1] \in Processes /\ e = ring[1] /\ 1 \in DOMAIN ring
  <2>1. ring \in Seq(Records)
    BY RingType
  <2> QED BY <1>1, <2>1, HeadRecord, HeadTailProperties, EmptySeq, LenProperties
          DEF HandleSignalEvent
<1>3. info.stack \in {0, e.id}
  BY <1>1, <1>2 DEF SignalInv, StackInv
<1>4. info.id = e.id /\ info.sig = e.sig /\ info.addr = e.addr
  OBVIOUS
<1> HIDE DEF info, e
<1>5. \A p \in Processes : signalInfoMap[p].stack \in {0, signalInfoMap[p].id}
  BY DEF SignalInv, StackInv
<1>6. ASSUME NEW p \in Processes
      PROVE  /\ (e.inc[1] # p \/ e.type \in {"openat", "connect"}) => signalInfoMap'[p] = signalInfoMap[p]
             /\ e.inc[1] = p /\ e.type = "signal" =>
                  /\ signalInfoMap'[p].id = e.id
                  /\ signalInfoMap'[p].sig = e.sig
                  /\ signalInfoMap'[p].addr = e.addr
             /\ signalInfoMap'[p].stack \in {0, signalInfoMap'[p].id}
  <2>1. CASE p = e.inc[1]
    BY <1>1, <1>2, <1>3, <1>4, <2>1
  <2>2. CASE p # e.inc[1]
    BY <1>1, <1>2, <1>5, <2>2
  <2> QED BY <2>1, <2>2
<1> QED BY <1>1, <1>6, TakenKeeps DEF e

LEMMA ExitEventKeeps ==
    ASSUME Typing, Order, SignalInv, HandleExitEvent
    PROVE  SignalInv'
<1> DEFINE e == Head(ring)
<1>1. /\ ring # << >> /\ ring' = Tail(ring) /\ e.type = "exit"
      /\ UNCHANGED <<kernel, bpf, history>>
      /\ signalInfoMap' \in {signalInfoMap, [signalInfoMap EXCEPT ![e.inc[1]] = NoInfo]}
      /\ signalInfoMap \in [Processes -> SignalInfo]
  BY DEF HandleExitEvent, Receive, Typing, TypeOK
<1> HIDE DEF e
<1>2. ASSUME NEW p \in Processes
      PROVE  /\ (e.inc[1] # p \/ e.type \in {"openat", "connect"}) => signalInfoMap'[p] = signalInfoMap[p]
             /\ signalInfoMap'[p].stack \in {0, signalInfoMap'[p].id}
  <2>1. signalInfoMap[p].stack \in {0, signalInfoMap[p].id}
    BY DEF SignalInv, StackInv
  <2>2. CASE p = e.inc[1]
    BY <1>1, <2>1, <2>2 DEF NoInfo
  <2>3. CASE p # e.inc[1]
    BY <1>1, <2>1, <2>3
  <2> QED BY <2>2, <2>3
<1>3. e.type # "signal"
  BY <1>1
<1> QED BY <1>1, <1>2, <1>3, TakenKeeps DEF e

LEMMA SignalInit == Init => SignalInv
<1> SUFFICES ASSUME Init PROVE SignalInv
  OBVIOUS
<1>1. /\ \A t \in Tasks : task[t] = "none"
      /\ \A p \in Processes : run[p] = 0 /\ signalInfoMap[p] = NoInfo
      /\ ring = << >>
  BY DEF Init
<1> QED BY <1>1 DEF SignalInv, StackInv, AloneInv, FaultInv, ContextInv, FatalInv,
                    DyingInv, ExitInv, Taking, NoInfo

LEMMA SignalKept == Typing /\ Order /\ SignalInv /\ [Next]_vars => SignalInv'
<1> SUFFICES ASSUME Typing, Order, SignalInv, [Next]_vars PROVE SignalInv'
  OBVIOUS
<1>1. ASSUME NEW p \in Processes, Start(p) \/ Terminate(p) PROVE SignalInv'
  BY <1>1, StartCalm, TerminateCalm, CalmKeeps
<1>2. ASSUME NEW u \in Tasks, NEW t \in Tasks, Spawn(u, t) PROVE SignalInv'
  BY <1>2, QuietCalm, CalmKeeps
<1>3. ASSUME NEW t \in Tasks,
             \/ Rename(t) \/ Leave(t) \/ TraceOpenatExit(t) \/ HandleConnectExit(t)
             \/ HandleExit(t)
      PROVE  SignalInv'
  BY <1>3, QuietCalm, EmitCalm, ExitCalm, CalmKeeps DEF TraceOpenatExit, HandleConnectExit
<1>4. ASSUME NEW t \in Tasks,
             \/ ProbeForceSigFault(t) \/ SendSignal(t)
             \/ HandleSignalDeliver(t) \/ BeginGroupExit(t)
      PROVE  SignalInv'
  BY <1>4, FaultKeeps, SendKeeps, DeliverKeeps, GroupExitKeeps
<1>5. CASE Kernel
  BY <1>1, <1>2, <1>3, <1>4, <1>5 DEF Kernel
<1>6. CASE Daemon
  BY <1>6, SyscallEventKeeps, SignalEventKeeps, ExitEventKeeps DEF Daemon
<1>7. CASE UNCHANGED vars
  BY <1>7 DEF vars, kernel, bpf, daemon, history, SignalInv, StackInv, AloneInv, FaultInv,
              ContextInv, Waited, FatalInv, DyingInv, ExitInv, Clean, Current, Gone, Live, Threads
<1> QED BY <1>5, <1>6, <1>7 DEF Next

\* What is excepted stays so, once the incarnation is over.
LEMMA HistoryGrows ==
    ASSUME Typing, [Next]_vars
    PROVE  /\ overlapped \subseteq overlapped' /\ leftover \subseteq leftover'
           /\ \A x \in Incarnation : Over(x) /\ x \in missed => x \in missed'
<1>1. CASE \E t \in Tasks : HandleSignalDeliver(t)
  <2>1. PICK t \in Tasks : HandleSignalDeliver(t)
    BY <1>1
  <2>2. ~Over(Current(Leader[t]))
    BY <2>1, LiveNotOver DEF HandleSignalDeliver, Live
  <2>3. missed \ {Current(Leader[t])} \subseteq missed' /\ leftover \subseteq leftover'
    BY <2>1 DEF HandleSignalDeliver
  <2> QED BY <2>1, <2>2, <2>3 DEF HandleSignalDeliver
<1>2. CASE Kernel /\ ~\E t \in Tasks : HandleSignalDeliver(t)
  BY <1>2 DEF Kernel, Start, Terminate, Spawn, Rename, Leave, TraceOpenatExit,
              HandleConnectExit, Emit, ProbeForceSigFault, SendSignal, Generate,
              BeginGroupExit, HandleExit, history
<1>3. CASE Daemon
  BY <1>3 DEF Daemon, HandleOpenatEvent, HandleConnectEvent, HandleSignalEvent,
              HandleExitEvent, history
<1>4. CASE UNCHANGED vars
  BY <1>4 DEF vars, history
<1> QED BY <1>1, <1>2, <1>3, <1>4 DEF Next

\* A report that was written stays, and what it is about as well.
LEMMA CoherentKept ==
    ASSUME Typing, Order, CoherentReport, [Next]_vars, reports' = reports
    PROVE  CoherentReport'
<1>1. ASSUME NEW x \in Incarnation, reports[x] # << >> PROVE death'[x] = death[x]
  <2>1. x \in Incarnation /\ Over(x)
    BY <1>1 DEF Order, ReportInv, ClosedInv
  <2>2. CASE Kernel
    BY <2>1, <2>2, KernelStep DEF KernelEffect
  <2>3. CASE ~Kernel
    BY <2>3 DEF Next, Daemon, HandleOpenatEvent, HandleConnectEvent, HandleSignalEvent,
                HandleExitEvent, vars, history
  <2> QED BY <2>2, <2>3
<1>2. ASSUME NEW x \in Incarnation, NEW k \in DOMAIN reports[x] PROVE reports[x] # << >>
  <2>1. DOMAIN << >> = {}
    OBVIOUS
  <2> QED BY <1>2, <2>1
<1>3. \A x \in Incarnation : reports[x] # << >> => Over(x)
  BY DEF Order, ReportInv, ClosedInv
<1> QED BY <1>1, <1>2, <1>3, HistoryGrows DEF CoherentReport

\* The exit record at the head of the ring finds the signal in signalInfoMap.
LEMMA CoherentExit ==
    ASSUME Typing, Order, SignalInv, CoherentReport, HandleExitEvent, reports' # reports
    PROVE  CoherentReport'
<1>1. PICK e : e = Head(ring)
  OBVIOUS
<1>2. /\ e = ring[1] /\ 1 \in DOMAIN ring /\ e.inc \in Incarnation
      /\ reports[e.inc] = << >> /\ UNCHANGED <<death, missed, leftover, overlapped>>
  BY <1>1, ExitEventEffect DEF history
<1>3. /\ e.type = "exit" /\ e.sig \in Crashes
      /\ reports' = [reports EXCEPT ![e.inc] = Append(@, Report(e))]
      /\ DOMAIN reports = Incarnation
  BY <1>1 DEF HandleExitEvent, IsCrash, Receive, Typing, TypeOK
<1>4. PICK r : r = Report(e)
  OBVIOUS
<1>5. r.info = signalInfoMap[e.inc[1]] /\ reports'[e.inc] = <<r>>
  BY <1>2, <1>3, <1>4 DEF Report
<1>6. ASSUME Clean(e.inc)
      PROVE  /\ Tells(r.info, death[e.inc], e.inc \in leftover)
             /\ r.info.stack \in {0, r.info.id}
  <2>1. Awaited(e.inc, death[e.inc], e.inc \in leftover, 1, ring, signalInfoMap)
    BY <1>2, <1>3, <1>6 DEF SignalInv, ExitInv
  <2>2. \A k \in DOMAIN ring : ~(k < 1)
    BY RingType, LenProperties
  <2>3. Tells(signalInfoMap[e.inc[1]], death[e.inc], e.inc \in leftover)
    BY <2>1, <2>2 DEF Awaited
  <2>4. e.inc[1] \in Processes
    BY <1>2 DEF Incarnation
  <2> QED BY <1>5, <2>3, <2>4 DEF SignalInv, StackInv
<1>7. ASSUME NEW x \in Incarnation, x \notin missed, x \notin overlapped,
             NEW k \in DOMAIN reports'[x]
      PROVE  /\ reports'[x][k].info.id = death[x].id /\ reports'[x][k].info.sig = death[x].sig
             /\ reports'[x][k].info.stack \in {0, death[x].id}
             /\ \/ reports'[x][k].info.addr = death[x].addr
                \/ death[x].addr = 0 /\ x \in leftover
  <2>1. CASE x = e.inc
    <3>1. DOMAIN <<r>> = {1} /\ <<r>>[1] = r
      OBVIOUS
    <3>2. reports'[x][k] = r
      BY <1>5, <1>7, <2>1, <3>1
    <3> QED BY <1>6, <1>7, <2>1, <3>2 DEF Tells, Clean
  <2>2. CASE x # e.inc
    <3>1. reports'[x] = reports[x]
      BY <1>3, <2>2
    <3> QED BY <1>7, <3>1 DEF CoherentReport
  <2> QED BY <2>1, <2>2
<1> QED BY <1>2, <1>7 DEF CoherentReport

\* A report combines the death of its incarnation with the stack of that
\* delivery and the address the probe recorded of that fault, or none, unless
\* two threads had signals at a time or the record of the very signal was lost;
\* a death without a recorded address may show that of a context whose delivery
\* went unseen (signalInfoMap and pending_signals, by the order of the ring).
THEOREM ReportsCoherent == Spec => []CoherentReport
<1>1. Init => CoherentReport
  BY DEF Init, CoherentReport
<1>2. Typing /\ Order /\ SignalInv /\ CoherentReport /\ [Next]_vars => CoherentReport'
  <2> SUFFICES ASSUME Typing, Order, SignalInv, CoherentReport, [Next]_vars
               PROVE  CoherentReport'
    OBVIOUS
  <2>1. CASE reports' = reports
    BY <2>1, CoherentKept
  <2>2. CASE reports' # reports
    <3>1. ~Kernel /\ ~UNCHANGED vars
      BY <2>2, KernelStep DEF KernelEffect, daemon, vars
    <3>2. HandleExitEvent
      BY <2>2, <3>1 DEF Next, Daemon, HandleOpenatEvent, HandleConnectEvent, HandleSignalEvent
    <3> QED BY <2>2, <3>2, CoherentExit
  <2> QED BY <2>1, <2>2
<1> QED BY <1>1, <1>2, SignalInit, SignalKept, Invariance, PTL DEF Spec
=============================================================================
