---------------------------- MODULE DaemonProofs ----------------------------
(* What holds of the daemon for any number of instances, records, edits and *)
(* hooks, and for any set of names and configurations.                      *)
EXTENDS Daemon, TLAPS

\* TypeOK in three parts, and the fields of a buffer.
SharedTypes ==
    /\ pin \in 0..MaxStarts /\ ended \in 0..MaxStarts
    /\ config \in Config \cup {EmptyConfig, NoConfig}
    /\ edits \in 0..MaxEdits /\ emptied \in BOOLEAN
    /\ overlapped \subseteq Instance
    /\ received \in 0..MaxRecords

OwnTypes ==
    /\ phase \in [Instance -> Phases]
    /\ attached \in [Instance -> 0..Hooks]
    /\ pinned \in [Instance -> BOOLEAN]
    /\ tracked \in [Instance -> SUBSET Names]

Steps == {"off", "reading", "txt", "jsonl", "announce", "clean"}
Written == {"none", "partial", "complete"}
Files == [txt : Written, jsonl : Written, announced : BOOLEAN]
Buffers == {NoBuffer} \cup [size : Nat \ {0}, gen : Nat]

LoopTypes ==
    /\ loop \in [Instance -> Steps]
    /\ ring \in [Instance -> Seq({"call", "crash", "child"})]
    /\ gen \in [Instance -> Nat]
    /\ buffer \in [Instance -> Buffers]
    /\ files \in [Instance -> Files]

Types == SharedTypes /\ OwnTypes /\ LoopTypes

LEMMA Constants ==
    /\ MaxStarts \in Nat /\ MaxRecords \in Nat /\ MaxEdits \in Nat /\ Hooks \in Nat
    /\ DefaultThreshold \in Nat \ {0}
    /\ \A c \in Config : c.tracked \in SUBSET Names /\ c.threshold \in Int
BY DaemonAssumption

LEMMA FileTypes ==
    /\ NoFiles \in Files
    /\ \A f \in Files, w \in Written :
          [f EXCEPT !.txt = w] \in Files /\ [f EXCEPT !.jsonl = w] \in Files
    /\ \A f \in Files : [f EXCEPT !.announced = TRUE] \in Files
BY DEF NoFiles, Files, Written

LEMMA TypesGiveTypeOK == Types => TypeOK
<1> SUFFICES ASSUME Types PROVE TypeOK
  OBVIOUS
<1>1. \A i \in Instance : buffer[i] # NoBuffer => buffer[i].size \in Nat \ {0}
  BY DEF Types, LoopTypes, Buffers
<1> QED
  BY <1>1 DEF Types, SharedTypes, OwnTypes, LoopTypes, Steps, Written, Files, TypeOK

LEMMA InitTypes == Init => Types
<1> SUFFICES ASSUME Init PROVE Types
  OBVIOUS
<1>1. SharedTypes
  <2>1. pin \in 0..MaxStarts /\ ended \in 0..MaxStarts /\ edits \in 0..MaxEdits
        /\ received \in 0..MaxRecords
    BY Constants DEF Init
  <2>2. emptied \in BOOLEAN /\ overlapped \subseteq Instance
    BY DEF Init
  <2>3. config \in Config \cup {EmptyConfig, NoConfig}
    BY DEF Init
  <2> QED
    BY <2>1, <2>2, <2>3 DEF SharedTypes
<1>2. OwnTypes
  BY Constants DEF Init, OwnTypes, Phases
<1>3. LoopTypes
  BY Constants DEF Init, LoopTypes, Steps, Written, Files, Buffers, NoFiles
<1> QED
  BY <1>1, <1>2, <1>3 DEF Types

LEMMA AbortTypes ==
    ASSUME Types, NEW i \in Instance, NEW how \in {"aborted", "panicked"},
           Abort(i, how), UNCHANGED files
    PROVE  Types'
<1>1. SharedTypes'
  BY Constants DEF Abort, Types, SharedTypes, edit, Instance
<1>2. OwnTypes'
  BY Constants DEF Abort, To, Types, OwnTypes, Phases
<1>3. LoopTypes'
  BY DEF Abort, Types, LoopTypes, Steps, Buffers
<1> QED
  BY <1>1, <1>2, <1>3 DEF Types

LEMMA NextTypes == Types /\ [Next]_vars => Types'
<1> SUFFICES ASSUME Types, [Next]_vars PROVE Types'
  OBVIOUS
<1> USE Constants DEF Types
<1>1. CASE Edit \/ Write
  <2>1. SharedTypes'
    <3>1. edits' \in 0..MaxEdits
      BY <1>1 DEF Edit, Write, SharedTypes
    <3>2. emptied' \in BOOLEAN
      BY <1>1, Zenon DEF Edit, Write, SharedTypes
    <3>3. config' \in Config \cup {EmptyConfig, NoConfig}
      BY <1>1 DEF Edit, Write
    <3> QED
      BY <1>1, <3>1, <3>2, <3>3 DEF Edit, Write, SharedTypes, shared, work
  <2> QED
    BY <1>1, <2>1 DEF Edit, Write, OwnTypes, LoopTypes, own, work
<1>2. ASSUME NEW i \in Instance, Fail(i) \/ Kill(i) \/ Panic(i) PROVE Types'
  BY <1>2, AbortTypes DEF Fail, Kill, Panic
<1>3. ASSUME NEW i \in Instance, Load(i) PROVE Types'
  <2>1. SharedTypes'
    <3>1. overlapped' \subseteq Instance
      BY <1>3 DEF Load, SharedTypes
    <3> QED
      BY <1>3, <3>1 DEF Load, SharedTypes, edit, work
  <2>2. OwnTypes'
    BY <1>3 DEF Load, OwnTypes, To, Phases
  <2>3. LoopTypes'
    BY <1>3 DEF Load, LoopTypes, work
  <2> QED
    BY <2>1, <2>2, <2>3
<1>4. ASSUME NEW i \in Instance, Pin(i) PROVE Types'
  <2>1. SharedTypes'
    <3>1. pin' \in 0..MaxStarts
      BY <1>4 DEF Pin, SharedTypes, Instance
    <3> QED
      BY <1>4, <3>1 DEF Pin, SharedTypes, edit, work
  <2>2. OwnTypes'
    BY <1>4 DEF Pin, OwnTypes, To, Phases, PinSucceeds
  <2>3. LoopTypes'
    BY <1>4 DEF Pin, LoopTypes, work
  <2> QED
    BY <2>1, <2>2, <2>3
<1>5. ASSUME NEW i \in Instance, LoadConfig(i) PROVE Types'
  <2>1. SharedTypes'
    BY <1>5 DEF LoadConfig, SharedTypes, edit, shared, work
  <2>2. OwnTypes'
    <3>1. config.tracked \in SUBSET Names
      BY <1>5 DEF LoadConfig, SharedTypes, EmptyConfig
    <3> QED
      BY <1>5, <3>1 DEF LoadConfig, To, Phases, OwnTypes
  <2>3. LoopTypes'
    BY <1>5 DEF LoadConfig, LoopTypes, work
  <2> QED
    BY <2>1, <2>2, <2>3
<1>6. ASSUME NEW i \in Instance, Attach(i) PROVE Types'
  <2>1. SharedTypes'
    BY <1>6 DEF Attach, SharedTypes, edit, shared, work
  <2>2. OwnTypes'
    BY <1>6 DEF Attach, OwnTypes
  <2>3. LoopTypes'
    BY <1>6 DEF Attach, LoopTypes, work
  <2> QED
    BY <2>1, <2>2, <2>3
<1>7. ASSUME NEW i \in Instance, Run(i) PROVE Types'
  <2>1. SharedTypes'
    BY <1>7 DEF Run, SharedTypes, edit, shared
  <2>2. OwnTypes'
    BY <1>7 DEF Run, OwnTypes, To, Phases
  <2>3. LoopTypes'
    BY <1>7 DEF Run, LoopTypes, Steps
  <2> QED
    BY <2>1, <2>2, <2>3
<1>8. ASSUME NEW i \in Instance, Stop(i) PROVE Types'
  <2>1. SharedTypes'
    BY <1>8 DEF Stop, SharedTypes, edit, shared, work
  <2>2. OwnTypes'
    BY <1>8 DEF Stop, OwnTypes, To, Phases
  <2>3. LoopTypes'
    BY <1>8 DEF Stop, LoopTypes, work
  <2> QED
    BY <2>1, <2>2, <2>3
<1>9. ASSUME NEW i \in Instance, Unpin(i) PROVE Types'
  <2>1. SharedTypes'
    BY <1>9 DEF Unpin, SharedTypes, edit, work
  <2>2. OwnTypes'
    BY <1>9 DEF Unpin, OwnTypes, To, Phases
  <2>3. LoopTypes'
    BY <1>9 DEF Unpin, LoopTypes, work
  <2> QED
    BY <2>1, <2>2, <2>3
<1>10. ASSUME NEW i \in Instance, Return(i) PROVE Types'
  <2>1. SharedTypes'
    BY <1>10 DEF Return, SharedTypes, edit, Removed, Instance
  <2>2. OwnTypes'
    BY <1>10 DEF Return, OwnTypes, To, Phases
  <2>3. LoopTypes'
    BY <1>10 DEF Return, LoopTypes, Steps, Buffers
  <2> QED
    BY <2>1, <2>2, <2>3
<1>11. ASSUME NEW i \in Instance, Submit(i) PROVE Types'
  <2>1. SharedTypes'
    BY <1>11 DEF Submit, SharedTypes, edit, shared
  <2>2. OwnTypes'
    BY <1>11 DEF Submit, OwnTypes, own
  <2>3. LoopTypes'
    BY <1>11 DEF Submit, LoopTypes
  <2> QED
    BY <2>1, <2>2, <2>3
<1>12. ASSUME NEW i \in Instance, HandleCall(i) PROVE Types'
  <2>1. SharedTypes'
    BY <1>12 DEF HandleCall, SharedTypes, edit, shared
  <2>2. OwnTypes'
    BY <1>12 DEF HandleCall, OwnTypes, own
  <2>3. LoopTypes'
    <3>1. buffer[i] = NoBuffer => NewBuffer(i) \in [size : Nat \ {0}, gen : Nat]
      <4>1. GetEventThreshold \in Int
        BY DEF GetEventThreshold, SharedTypes, EmptyConfig
      <4> QED
        BY <1>12, <4>1 DEF HandleCall, NewBuffer, LoopTypes
    <3>2. buffer' \in [Instance -> Buffers]
      BY <1>12, <3>1 DEF HandleCall, LoopTypes, Buffers
    <3> QED
      BY <1>12, <3>2 DEF HandleCall, Reading, Read, LoopTypes
  <2> QED
    BY <2>1, <2>2, <2>3
<1>13. ASSUME NEW i \in Instance, HandleCrash(i) PROVE Types'
  <2>1. SharedTypes'
    BY <1>13 DEF HandleCrash, SharedTypes, edit, shared
  <2>2. OwnTypes'
    BY <1>13 DEF HandleCrash, OwnTypes, own
  <2>3. LoopTypes'
    <3>1. files' \in [Instance -> Files]
      BY <1>13, FileTypes DEF HandleCrash, LoopTypes
    <3>2. loop' \in [Instance -> Steps]
      <4>1. loop' = loop \/ loop' = [loop EXCEPT ![i] = "txt"]
        BY <1>13 DEF HandleCrash
      <4> QED
        BY <4>1 DEF LoopTypes, Steps
    <3>4. gen' \in [Instance -> Nat]
      <4>1. gen' = gen \/ gen' = [gen EXCEPT ![i] = @ + 1]
        BY <1>13 DEF HandleCrash
      <4>2. gen \in [Instance -> Nat] /\ gen[i] \in Nat
        BY DEF LoopTypes
      <4>3. gen[i] + 1 \in Nat
        BY <4>2
      <4>4. gen' = [gen EXCEPT ![i] = gen[i] + 1] => gen' \in [Instance -> Nat]
        BY <4>2, <4>3, Zenon
      <4> QED
        BY <4>1, <4>2, <4>4
    <3>3. ring' \in [Instance -> Seq({"call", "crash", "child"})]
      BY <1>13 DEF HandleCrash, LoopTypes, Reading, Read
    <3> QED
      BY <1>13, <3>1, <3>2, <3>3, <3>4 DEF HandleCrash, LoopTypes
  <2> QED
    BY <2>1, <2>2, <2>3
<1>14. ASSUME NEW i \in Instance, ReadError(i) PROVE Types'
  <2>1. SharedTypes'
    BY <1>14 DEF ReadError, SharedTypes, edit, shared
  <2>2. OwnTypes'
    BY <1>14 DEF ReadError, OwnTypes, own
  <2>3. LoopTypes'
    BY <1>14 DEF ReadError, LoopTypes, Steps
  <2> QED
    BY <2>1, <2>2, <2>3
<1>15. ASSUME NEW i \in Instance, WriteTxtReport(i) PROVE Types'
  <2>1. SharedTypes'
    BY <1>15 DEF WriteTxtReport, SharedTypes, edit, shared
  <2>2. OwnTypes'
    BY <1>15 DEF WriteTxtReport, OwnTypes, own
  <2>3. LoopTypes'
    <3>1. files' \in [Instance -> Files]
      <4>1. CASE UNCHANGED files
        BY <4>1 DEF LoopTypes
      <4>2. ASSUME NEW txt \in {"partial", "complete"},
                   files' = [files EXCEPT ![i].txt = txt]
            PROVE  files' \in [Instance -> Files]
        BY <4>2, FileTypes DEF LoopTypes, Written
      <4> QED
        BY <1>15, <4>1, <4>2 DEF WriteTxtReport
    <3>2. loop' \in [Instance -> Steps]
      BY <1>15 DEF WriteTxtReport, LoopTypes, Steps
    <3> QED
      BY <1>15, <3>1, <3>2 DEF WriteTxtReport, LoopTypes
  <2> QED
    BY <2>1, <2>2, <2>3
<1>16. ASSUME NEW i \in Instance, WriteJsonlReport(i) PROVE Types'
  <2>1. SharedTypes'
    BY <1>16 DEF WriteJsonlReport, SharedTypes, edit, shared
  <2>2. OwnTypes'
    BY <1>16 DEF WriteJsonlReport, OwnTypes, own
  <2>3. LoopTypes'
    <3>1. files' \in [Instance -> Files]
      <4>1. PICK jsonl \in {"none", "partial", "complete"} :
                files' = [files EXCEPT ![i].jsonl = jsonl]
        BY <1>16 DEF WriteJsonlReport
      <4> QED
        BY <4>1, FileTypes DEF LoopTypes, Written
    <3>2. loop' \in [Instance -> Steps]
      BY <1>16 DEF WriteJsonlReport, LoopTypes, AfterJsonl, Steps
    <3> QED
      BY <1>16, <3>1, <3>2 DEF WriteJsonlReport, LoopTypes
  <2> QED
    BY <2>1, <2>2, <2>3
<1>17. ASSUME NEW i \in Instance, Announce(i) PROVE Types'
  <2>1. SharedTypes'
    BY <1>17 DEF Announce, SharedTypes, edit, shared
  <2>2. OwnTypes'
    BY <1>17 DEF Announce, OwnTypes, own
  <2>3. LoopTypes'
    BY <1>17 DEF Announce, LoopTypes, Steps, Files
  <2> QED
    BY <2>1, <2>2, <2>3
<1>18. ASSUME NEW i \in Instance, DeleteBuffer(i) PROVE Types'
  <2>1. SharedTypes'
    BY <1>18 DEF DeleteBuffer, SharedTypes, edit, shared
  <2>2. OwnTypes'
    BY <1>18 DEF DeleteBuffer, OwnTypes, own
  <2>3. LoopTypes'
    BY <1>18 DEF DeleteBuffer, LoopTypes, Freed, Steps, Buffers
  <2> QED
    BY <2>1, <2>2, <2>3
<1>19. ASSUME NEW i \in Instance, LoopEnds(i) PROVE Types'
  <2>1. SharedTypes'
    BY <1>19 DEF LoopEnds, SharedTypes, edit, shared
  <2>2. OwnTypes'
    BY <1>19 DEF LoopEnds, OwnTypes, own
  <2>3. LoopTypes'
    BY <1>19 DEF LoopEnds, LoopTypes, Steps
  <2> QED
    BY <2>1, <2>2, <2>3
<1>20. ASSUME NEW i \in Instance, HandleChild(i) PROVE Types'
  <2>1. SharedTypes'
    BY <1>20 DEF HandleChild, SharedTypes, edit, shared
  <2>2. OwnTypes'
    BY <1>20 DEF HandleChild, OwnTypes, own
  <2>3. LoopTypes'
    BY <1>20 DEF HandleChild, LoopTypes, Freed, Buffers, Reading, Read
  <2> QED
    BY <2>1, <2>2, <2>3
<1>21. CASE UNCHANGED vars
  BY <1>21 DEF vars, SharedTypes, OwnTypes, LoopTypes, edit, shared, own, work
<1> QED
  BY <1>1, <1>2, <1>3, <1>4, <1>5, <1>6, <1>7, <1>8, <1>9, <1>10, <1>11, <1>12, <1>13, <1>14, <1>15, <1>16, <1>17, <1>18, <1>19, <1>20, <1>21
     DEF Next, Main, Clean, Handle

LEMMA TypesHold == Spec => []Types
BY InitTypes, NextTypes, PTL DEF Spec

\* Every variable of the daemon keeps its type, and a buffer is never made
\* without slots, whatever the configuration says at that moment.
THEOREM TypeCorrect == Spec => []TypeOK
BY TypesHold, TypesGiveTypeOK, PTL
-----------------------------------------------------------------------------
(* A stop removes the pin.  Inductive as it stands, given the types: an     *)
(* instance that ends by returning has just removed it, and from then on    *)
(* only one that is live can pin.                                           *)

LEMMA CleanSlateStep == Types /\ CleanSlate /\ [Next]_vars => CleanSlate'
<1> SUFFICES ASSUME Types, CleanSlate, [Next]_vars PROVE CleanSlate'
  OBVIOUS
<1> USE DEF Types, SharedTypes, OwnTypes, Instance, To
<1>1. CASE Edit \/ Write
  BY <1>1 DEF Edit, Write, CleanSlate, Live, shared, own
<1>2. ASSUME NEW i \in Instance, NEW how \in {"aborted", "panicked"}, Abort(i, how)
      PROVE  CleanSlate'
  <2>1. ended' = i /\ phase'[i] = how
    BY <1>2 DEF Abort
  <2> QED
    BY <2>1 DEF CleanSlate
<1>3. ASSUME NEW i \in Instance,
             Load(i) \/ Pin(i) \/ LoadConfig(i) \/ Run(i) \/ Stop(i) \/ Unpin(i)
      PROVE  CleanSlate'
  <2>1. phase'[i] \in {"loaded", "pinned", "configured", "running", "closing", "unpinned"}
    BY <1>3 DEF Load, Pin, LoadConfig, Run, Stop, Unpin
  <2>2. Live(i)'
    BY <2>1 DEF Live
  <2> QED
    BY <2>2 DEF CleanSlate
<1>4. ASSUME NEW i \in Instance, Return(i) PROVE CleanSlate'
  BY <1>4 DEF Return, Removed, CleanSlate
<1>5. ASSUME UNCHANGED <<pin, ended, phase>> PROVE CleanSlate'
  BY <1>5 DEF CleanSlate, Live
<1>6. ASSUME NEW i \in Instance, Attach(i) \/ Submit(i) \/ HandleCall(i) \/ HandleCrash(i)
             \/ HandleChild(i) \/ WriteTxtReport(i) \/ WriteJsonlReport(i) \/ Announce(i) \/ DeleteBuffer(i)
             \/ LoopEnds(i) \/ ReadError(i)
      PROVE  CleanSlate'
  BY <1>5, <1>6 DEF Attach, Submit, HandleCall, HandleCrash, HandleChild, WriteTxtReport,
     WriteJsonlReport, Announce, DeleteBuffer, LoopEnds, ReadError, shared, own
<1>7. CASE UNCHANGED vars
  BY <1>5, <1>7 DEF vars, shared, own
<1> QED
  BY <1>1, <1>2, <1>3, <1>4, <1>6, <1>7
     DEF Next, Main, Clean, Handle, Fail, Kill, Panic

\* When the instance that ended last was stopped cleanly and none is left, the
\* path of the pinned map is free, whatever the others left there.
THEOREM PathFreed == Spec => []CleanSlate
<1>1. Init => CleanSlate
  BY DEF Init, CleanSlate
<1> QED
  BY <1>1, CleanSlateStep, TypesHold, PTL DEF Spec
-----------------------------------------------------------------------------
(* The pair of files.  What the steps of the writer may assume of the files *)
(* of the report they are at.                                               *)

Pair(i) ==
    /\ files[i].announced => files[i].jsonl = "complete"
    /\ files[i].jsonl # "none" => files[i].txt # "none"

AtStep(i) ==
    /\ loop[i] = "txt" => files[i] = NoFiles
    /\ loop[i] = "jsonl" => files[i].txt # "none" /\ ~files[i].announced
    /\ loop[i] = "announce" => files[i].jsonl = "complete"

PairInv == \A i \in Instance : Pair(i) /\ AtStep(i)

LEMMA PairStep == Types /\ PairInv /\ [Next]_vars => PairInv'
<1> SUFFICES ASSUME Types, PairInv, [Next]_vars, NEW k \in Instance
             PROVE  (Pair(k) /\ AtStep(k))'
  BY DEF PairInv
<1> USE DEF Types, LoopTypes
<1>0. Pair(k) /\ AtStep(k)
  BY DEF PairInv
<1>1. ASSUME files'[k] = files[k], loop'[k] = loop[k] \/ loop'[k] \in {"off", "reading", "clean"}
      PROVE  (Pair(k) /\ AtStep(k))'
  BY <1>0, <1>1 DEF Pair, AtStep
<1>2. ASSUME NEW i \in Instance, HandleCrash(i) PROVE (Pair(k) /\ AtStep(k))'
  <2>1. CASE files' = files /\ loop' = loop
    BY <1>1, <2>1
  <2>2. CASE files' = [files EXCEPT ![i] = NoFiles] /\ loop' = [loop EXCEPT ![i] = "txt"]
    <3>1. CASE i = k
      BY <2>2, <3>1 DEF Pair, AtStep, NoFiles
    <3> QED
      BY <1>1, <2>2, <3>1
  <2> QED
    BY <1>2, <2>1, <2>2 DEF HandleCrash
<1>3. ASSUME NEW i \in Instance, WriteTxtReport(i) PROVE (Pair(k) /\ AtStep(k))'
  <2>1. CASE i = k /\ files' # files
    <3>1. PICK txt \in {"partial", "complete"} :
              files' = [files EXCEPT ![i].txt = txt] /\ loop' = [loop EXCEPT ![i] = "jsonl"]
      BY <1>3, <2>1 DEF WriteTxtReport
    <3>2. files[k] = NoFiles
      BY <1>0, <1>3, <2>1 DEF WriteTxtReport, AtStep
    <3>3. files'[k] = [NoFiles EXCEPT !.txt = txt] /\ loop'[k] = "jsonl"
      BY <2>1, <3>1, <3>2
    <3> QED
      BY <3>3 DEF Pair, AtStep, NoFiles
  <2>2. CASE i = k /\ files' = files
    <3>1. loop'[k] \in {"clean", "jsonl"}
      BY <1>3, <2>2 DEF WriteTxtReport
    <3>2. CASE loop'[k] = "clean"
      BY <1>1, <2>2, <3>2
    <3>3. CASE loop'[k] = "jsonl"
      <4>1. PICK txt \in {"partial", "complete"} : files' = [files EXCEPT ![i].txt = txt]
        BY <1>3, <2>2, <3>3 DEF WriteTxtReport
      <4>2. files[k] = NoFiles
        BY <1>0, <1>3, <2>2 DEF WriteTxtReport, AtStep
      <4>3. files'[k].txt = txt
        BY <2>2, <4>1, <4>2 DEF NoFiles
      <4> QED
        BY <2>2, <4>2, <4>3 DEF NoFiles
    <3> QED
      BY <3>1, <3>2, <3>3
  <2>3. CASE i # k
    BY <1>1, <1>3, <2>3 DEF WriteTxtReport
  <2> QED
    BY <2>1, <2>2, <2>3
<1>4. ASSUME NEW i \in Instance, WriteJsonlReport(i) PROVE (Pair(k) /\ AtStep(k))'
  <2>1. PICK jsonl \in {"none", "partial", "complete"} :
            files' = [files EXCEPT ![i].jsonl = jsonl]
            /\ loop' = [loop EXCEPT ![i] = AfterJsonl(jsonl)]
    BY <1>4 DEF WriteJsonlReport
  <2>2. CASE i = k
    <3>1. files[k].txt # "none" /\ ~files[k].announced /\ files[k] \in Files
      BY <1>0, <1>4, <2>2 DEF WriteJsonlReport, AtStep
    <3>2. files'[k].jsonl = jsonl /\ files'[k].txt = files[k].txt
          /\ files'[k].announced = files[k].announced
      BY <2>1, <2>2, <3>1 DEF Files
    <3>3. loop'[k] = AfterJsonl(jsonl)
      BY <2>1, <2>2
    <3> QED
      BY <3>1, <3>2, <3>3 DEF AfterJsonl, Pair, AtStep
  <2>3. CASE i # k
    BY <1>1, <2>1, <2>3
  <2> QED
    BY <2>2, <2>3
<1>5. ASSUME NEW i \in Instance, Announce(i) PROVE (Pair(k) /\ AtStep(k))'
  <2>1. CASE i = k
    <3>1. files[k].jsonl = "complete" /\ files[k] \in Files
      BY <1>0, <1>5, <2>1 DEF Announce, AtStep
    <3>2. files'[k].jsonl = files[k].jsonl /\ files'[k].txt = files[k].txt
          /\ loop'[k] = "clean"
      BY <1>5, <2>1, <3>1 DEF Announce, Files
    <3> QED
      BY <1>0, <3>1, <3>2 DEF Pair, AtStep
  <2>2. CASE i # k
    BY <1>1, <1>5, <2>2 DEF Announce
  <2> QED
    BY <2>1, <2>2
<1>6. CASE files' = files /\ loop' = loop
  BY <1>1, <1>6
<1>7. ASSUME NEW i \in Instance, Fail(i) \/ Kill(i) \/ Panic(i) \/ Return(i) \/ Run(i)
             \/ ReadError(i) \/ LoopEnds(i) \/ DeleteBuffer(i)
      PROVE  (Pair(k) /\ AtStep(k))'
  <2>1. files' = files /\ \E to \in {"off", "reading"} : loop' = [loop EXCEPT ![i] = to]
    BY <1>7 DEF Fail, Kill, Panic, Abort, Return, Run, ReadError, LoopEnds, DeleteBuffer
  <2> QED
    BY <1>1, <2>1
<1>8. ASSUME NEW i \in Instance, Load(i) \/ Pin(i) \/ LoadConfig(i) \/ Attach(i) \/ Stop(i)
             \/ Unpin(i) \/ Submit(i) \/ HandleCall(i) \/ HandleChild(i)
      PROVE  (Pair(k) /\ AtStep(k))'
  BY <1>6, <1>8 DEF Load, Pin, LoadConfig, Attach, Stop, Unpin, Submit, HandleCall, HandleChild, work
<1>9. CASE Edit \/ Write \/ UNCHANGED vars
  BY <1>6, <1>9 DEF Edit, Write, vars, work
<1> QED
  BY <1>2, <1>3, <1>4, <1>5, <1>7, <1>8, <1>9 DEF Next, Main, Clean, Handle

\* What is announced has its machine-readable file complete and no such file
\* is without the text, at every step, wherever writing fails and the daemon
\* is stopped or killed.
THEOREM PairKept == Spec => []ReportPair
<1>1. Init => PairInv
  BY DEF Init, PairInv, Pair, AtStep, NoFiles
<1>2. PairInv => ReportPair
  BY DEF PairInv, ReportPair, Pair
<1> QED
  BY <1>1, <1>2, PairStep, TypesHold, PTL DEF Spec
-----------------------------------------------------------------------------
(* The buffer.  It is of the process that is being recorded at every step   *)
(* of the loop, not only when the loop reads.                               *)

OfThisProcess == \A i \in Instance : buffer[i] # NoBuffer => buffer[i].gen = gen[i]

\* A crash is counted in a step after which there is no buffer.
LEMMA OfThisProcessStep == Types /\ OfThisProcess /\ [Next]_vars => OfThisProcess'
<1> SUFFICES ASSUME Types, OfThisProcess, [Next]_vars PROVE OfThisProcess'
  OBVIOUS
<1> USE DEF Types, LoopTypes
<1>1. ASSUME UNCHANGED <<buffer, gen>> PROVE OfThisProcess'
  BY <1>1 DEF OfThisProcess
<1>2. ASSUME NEW i \in Instance, buffer' = [buffer EXCEPT ![i] = NoBuffer],
             gen' = gen \/ gen' = [gen EXCEPT ![i] = @ + 1]
      PROVE  OfThisProcess'
  BY <1>2 DEF OfThisProcess
<1>3. ASSUME NEW i \in Instance, Fail(i) \/ Kill(i) \/ Panic(i) \/ Return(i) \/ DeleteBuffer(i)
             \/ HandleChild(i)
      PROVE  OfThisProcess'
  BY <1>2, <1>3 DEF Fail, Kill, Panic, Abort, Return, DeleteBuffer, HandleChild, Freed
<1>4. ASSUME NEW i \in Instance, HandleCall(i) PROVE OfThisProcess'
  BY <1>1, <1>4 DEF HandleCall, NewBuffer, OfThisProcess
<1>5. ASSUME NEW i \in Instance, HandleCrash(i) PROVE OfThisProcess'
  <2>1. CASE buffer[i] = NoBuffer
    BY <1>5, <2>1 DEF HandleCrash, OfThisProcess
  <2> QED
    BY <1>1, <1>5, <2>1 DEF HandleCrash
<1>6. ASSUME NEW i \in Instance, Load(i) \/ Pin(i) \/ LoadConfig(i) \/ Attach(i) \/ Stop(i)
             \/ Unpin(i) \/ Submit(i) \/ Run(i) \/ ReadError(i) \/ LoopEnds(i)
             \/ WriteTxtReport(i) \/ WriteJsonlReport(i) \/ Announce(i)
      PROVE  OfThisProcess'
  BY <1>1, <1>6 DEF Load, Pin, LoadConfig, Attach, Stop, Unpin, Submit, Run, ReadError,
     LoopEnds, WriteTxtReport, WriteJsonlReport, Announce, work
<1>7. CASE Edit \/ Write \/ UNCHANGED vars
  BY <1>1, <1>7 DEF Edit, Write, vars, work
<1> QED
  BY <1>3, <1>4, <1>5, <1>6, <1>7 DEF Next, Main, Clean, Handle

\* A process that gets the PID of one that crashed never finds the buffer of
\* that one, also when the report failed or there was none.
THEOREM BufferIsFresh == Spec => []FreshBuffer
<1>1. Init => OfThisProcess
  BY DEF Init, OfThisProcess
<1>2. OfThisProcess => FreshBuffer
  BY DEF OfThisProcess, FreshBuffer
<1> QED
  BY <1>1, <1>2, OfThisProcessStep, TypesHold, PTL DEF Spec
-----------------------------------------------------------------------------
(* The pinned map.                                                          *)

\* Two that live at the same time know of it, and only an instance that has
\* reached its Pin has pinned.
PinInv ==
    /\ PinKept
    /\ \A i \in Instance, j \in Instance :
          i # j /\ Live(i) /\ Live(j) => i \in overlapped
    /\ \A i \in Instance : phase[i] \in {"none", "loaded"} => ~pinned[i]

LEMMA PinInvStep == Types /\ PinInv /\ [Next]_vars => PinInv'
<1> SUFFICES ASSUME Types, PinInv, [Next]_vars PROVE PinInv'
  OBVIOUS
<1> USE DEF Types, SharedTypes, OwnTypes, To, Live, Instance
<1>1. ASSUME UNCHANGED <<pin, overlapped, pinned, phase>> PROVE PinInv'
  BY <1>1 DEF PinInv, PinKept
<1>2. ASSUME NEW i \in Instance, Load(i) PROVE PinInv'
  <2>1. phase[i] = "none" /\ phase' = [phase EXCEPT ![i] = "loaded"]
        /\ pin' = pin /\ pinned' = pinned /\ ~pinned[i]
    BY <1>2 DEF Load, PinInv
  <2>2. overlapped \subseteq overlapped'
        /\ \A j \in Instance : Live(j) => i \in overlapped' /\ j \in overlapped'
    BY <1>2 DEF Load
  <2>3. PinKept'
    BY <2>1, <2>2 DEF PinInv, PinKept
  <2>4. \A j \in Instance, k \in Instance :
            j # k /\ Live(j)' /\ Live(k)' => j \in overlapped'
    BY <2>1, <2>2 DEF PinInv
  <2>5. \A j \in Instance : phase'[j] \in {"none", "loaded"} => ~pinned'[j]
    BY <2>1 DEF PinInv
  <2> QED
    BY <2>3, <2>4, <2>5 DEF PinInv
<1>3. ASSUME NEW i \in Instance, Pin(i) PROVE PinInv'
  <2>1. phase[i] = "loaded" /\ phase' = [phase EXCEPT ![i] = "pinned"]
        /\ overlapped' = overlapped /\ pinned' = [pinned EXCEPT ![i] = (pin = 0)]
        /\ pin' = IF pin = 0 THEN i ELSE pin
    BY <1>3 DEF Pin, PinSucceeds
  <2>2. \A j \in Instance : Live(j)' <=> Live(j)
    BY <2>1
  <2>3. \A j \in Instance : phase'[j] \in {"none", "loaded"} => ~pinned'[j]
    BY <2>1 DEF PinInv
  <2>4. ASSUME NEW j \in Instance \ overlapped', Live(j)', pinned'[j], phase'[j] # "unpinned"
        PROVE  pin' = j
    <3>1. CASE j = i
      BY <2>1, <2>4, <3>1
    <3>2. CASE j # i
      <4>1. Live(j) /\ Live(i) /\ j \notin overlapped
        BY <2>1, <2>4, <3>2
      <4> QED
        BY <3>2, <4>1 DEF PinInv
    <3> QED
      BY <3>1, <3>2
  <2> QED
    BY <2>1, <2>2, <2>3, <2>4 DEF PinInv, PinKept
<1>4. ASSUME NEW i \in Instance, Unpin(i) \/ Return(i) PROVE PinInv'
  <2>1. Live(i) /\ overlapped' = overlapped /\ pinned' = pinned
        /\ \E to \in {"unpinned", "ended"} : phase' = [phase EXCEPT ![i] = to]
    BY <1>4 DEF Unpin, Return
  <2>2. \A j \in Instance : Live(j)' => Live(j)
    BY <2>1
  <2>3. \A j \in Instance : phase'[j] \in {"none", "loaded"} => ~pinned'[j]
    BY <2>1 DEF PinInv
  <2>4. ASSUME NEW j \in Instance \ overlapped', Live(j)', pinned'[j], phase'[j] # "unpinned"
        PROVE  FALSE
    <3>1. j # i
      BY <1>4, <2>4 DEF Unpin, Return
    <3> QED
      BY <2>1, <2>2, <2>4, <3>1 DEF PinInv
  <2> QED
    BY <2>1, <2>2, <2>3, <2>4 DEF PinInv, PinKept
<1>5. ASSUME NEW i \in Instance, pin' = pin, overlapped' = overlapped, pinned' = pinned,
             NEW to \in Phases \ {"none", "loaded", "unpinned"},
             phase' = [phase EXCEPT ![i] = to],
             phase[i] # "unpinned" \/ to = "aborted",
             Live(i)
      PROVE  PinInv'
  BY <1>5 DEF PinInv, PinKept
<1>6. ASSUME NEW i \in Instance, LoadConfig(i) \/ Run(i) \/ Stop(i) PROVE PinInv'
  <2>1. \E to \in {"configured", "running", "closing"} : phase' = [phase EXCEPT ![i] = to]
    BY <1>6 DEF LoadConfig, Run, Stop
  <2>2. Live(i) /\ phase[i] # "unpinned" /\ UNCHANGED <<pin, overlapped, pinned>>
    BY <1>6 DEF LoadConfig, Run, Stop, shared
  <2> QED
    BY <1>5, <2>1, <2>2 DEF Phases
<1>7. ASSUME NEW i \in Instance, Fail(i) \/ Kill(i) PROVE PinInv'
  <2>1. phase' = [phase EXCEPT ![i] = "aborted"] /\ UNCHANGED <<pin, overlapped, pinned>>
        /\ Live(i)
    BY <1>7 DEF Fail, Kill, Abort
  <2> QED
    BY <1>5, <2>1 DEF Phases
<1>8. ASSUME NEW i \in Instance, Panic(i) PROVE PinInv'
  <2>1. phase' = [phase EXCEPT ![i] = "panicked"] /\ UNCHANGED <<pin, overlapped, pinned>>
        /\ Live(i) /\ phase[i] # "unpinned"
    BY <1>8 DEF Panic, Abort, Reading
  <2> QED
    BY <1>5, <2>1 DEF Phases
<1>9. ASSUME NEW i \in Instance, Attach(i) \/ Submit(i) \/ HandleCall(i) \/ HandleCrash(i)
             \/ HandleChild(i) \/ WriteTxtReport(i) \/ WriteJsonlReport(i) \/ Announce(i) \/ DeleteBuffer(i)
             \/ LoopEnds(i) \/ ReadError(i)
      PROVE  PinInv'
  BY <1>1, <1>9 DEF Attach, Submit, HandleCall, HandleCrash, HandleChild, WriteTxtReport,
     WriteJsonlReport, Announce, DeleteBuffer, LoopEnds, ReadError, shared, own
<1>10. CASE Edit \/ Write \/ UNCHANGED vars
  BY <1>1, <1>10 DEF Edit, Write, vars, shared, own
<1> QED
  BY <1>2, <1>3, <1>4, <1>6, <1>7, <1>8, <1>9, <1>10 DEF Next, Main, Clean, Handle

\* An instance that pinned its map and was never beside another finds it in
\* its place until it removes it.
THEOREM PinStays == Spec => []PinKept
<1>1. Init => PinInv
  BY DEF Init, PinInv, PinKept, Live
<1>2. PinInv => PinKept
  BY DEF PinInv
<1> QED
  BY <1>1, <1>2, PinInvStep, TypesHold, PTL DEF Spec
-----------------------------------------------------------------------------
(* The configuration.                                                       *)

EndedByEmpty ==
    /\ SurvivesRemoval
    /\ config = EmptyConfig => emptied

LEMMA EndedByEmptyStep ==
    ASSUME \A c \in Config : c.threshold > 0
    PROVE  Types /\ EndedByEmpty /\ [Next]_vars => EndedByEmpty'
<1> SUFFICES ASSUME Types, EndedByEmpty, [Next]_vars PROVE EndedByEmpty'
  OBVIOUS
<1> USE DEF Types, SharedTypes, OwnTypes, To
<1>0. EmptyConfig \notin Config
  BY DEF EmptyConfig
<1>1. CASE Edit \/ Write
  <2>1. phase' = phase /\ (emptied => emptied')
    BY <1>1, Zenon DEF Edit, Write, own
  <2>2. config' = EmptyConfig => emptied'
    BY <1>0, <1>1, Zenon DEF Edit, Write
  <2> QED
    BY <2>1, <2>2 DEF EndedByEmpty, SurvivesRemoval
<1>2. ASSUME UNCHANGED edit,
             \A i \in Instance : phase'[i] = "panicked" => phase[i] = "panicked"
      PROVE  EndedByEmpty'
  BY <1>2 DEF EndedByEmpty, SurvivesRemoval, edit
<1>3. ASSUME NEW i \in Instance, Panic(i) PROVE EndedByEmpty'
  <2>1. GetEventThreshold <= 0 /\ UNCHANGED edit
    BY <1>3 DEF Panic, Abort
  <2>2. config = EmptyConfig
    BY <2>1, Constants DEF GetEventThreshold
  <2> QED
    BY <2>1, <2>2 DEF EndedByEmpty, SurvivesRemoval, edit
<1>4. ASSUME NEW i \in Instance,
             Load(i) \/ Pin(i) \/ LoadConfig(i) \/ Run(i) \/ Stop(i) \/ Unpin(i)
             \/ Return(i) \/ Fail(i) \/ Kill(i)
      PROVE  EndedByEmpty'
  <2>1. \E to \in Phases \ {"panicked"} : phase' = [phase EXCEPT ![i] = to]
    BY <1>4 DEF Load, Pin, LoadConfig, Run, Stop, Unpin, Return, Fail, Kill, Abort, Phases
  <2>2. UNCHANGED edit
    BY <1>4 DEF Load, Pin, LoadConfig, Run, Stop, Unpin, Return, Fail, Kill, Abort
  <2> QED
    BY <1>2, <2>1, <2>2
<1>5. ASSUME NEW i \in Instance, Attach(i) \/ Submit(i) \/ HandleCall(i) \/ HandleCrash(i)
             \/ HandleChild(i) \/ WriteTxtReport(i) \/ WriteJsonlReport(i) \/ Announce(i) \/ DeleteBuffer(i)
             \/ LoopEnds(i) \/ ReadError(i)
      PROVE  EndedByEmpty'
  BY <1>2, <1>5 DEF Attach, Submit, HandleCall, HandleCrash, HandleChild, WriteTxtReport,
     WriteJsonlReport, Announce, DeleteBuffer, LoopEnds, ReadError, own
<1>6. CASE UNCHANGED vars
  BY <1>2, <1>6 DEF vars, own
<1> QED
  BY <1>1, <1>3, <1>4, <1>5, <1>6 DEF Next, Main, Clean, Handle

\* Where every configuration people write has a threshold above zero, a
\* daemon panics only if the file was left empty at some time: a file that is
\* missing or cannot be parsed is no reason.
THEOREM RemovalSurvived ==
    ASSUME \A c \in Config : c.threshold > 0
    PROVE  Spec => []SurvivesRemoval
<1>1. Init => EndedByEmpty
  <2>1. EmptyConfig \notin Config
    BY DEF EmptyConfig
  <2>2. EmptyConfig # NoConfig
    BY DaemonAssumption
  <2> QED
    BY <2>1, <2>2 DEF Init, EndedByEmpty, SurvivesRemoval
<1>2. EndedByEmpty => SurvivesRemoval
  BY DEF EndedByEmpty
<1> QED
  BY <1>1, <1>2, EndedByEmptyStep, TypesHold, PTL DEF Spec
=============================================================================
