------------------------- MODULE ProcessTreeProofs -------------------------
(***************************************************************************)
(* For every set of task ids and names and every capacity of child_root:   *)
(* the types, and that the family of a tracked task is known, which is     *)
(* inductive with the types: at a fork the parent is live, so its own      *)
(* entry is right, or its name is a tracked one.                           *)
(***************************************************************************)
EXTENDS ProcessTree, TLAPS

LEMMA TypeInit == Init => TypeOK
BY TreeAssumption DEF Init, TypeOK

\* A task is recorded exactly when its entry is a real process_info.
LEMMA RecordedEntry ==
    ASSUME TypeOK, NEW t \in Pids
    PROVE  Recorded(t) <=> child_root[t] \in ProcessInfo
BY TreeAssumption DEF TypeOK, Recorded, NoEntry, ProcessInfo

LEMMA EntryType ==
    ASSUME TypeOK, NEW u \in Pids, Allowed(u) \/ Recorded(u)
    PROVE  Entry(u) \in ProcessInfo
BY RecordedEntry DEF TypeOK, Entry, RootFor, ProcessInfo

LEMMA ForkType ==
    ASSUME TypeOK, NEW u \in Pids, NEW t \in Pids, HandleFork(u, t)
    PROVE  TypeOK'
<1>1. child_root' \in [Pids -> ProcessInfo \cup {NoEntry}]
  BY EntryType DEF HandleFork, Stored, TypeOK
<1>2. forks' \in 0..MaxForks
  BY TreeAssumption DEF HandleFork, TypeOK
<1> QED BY <1>1, <1>2 DEF HandleFork, TypeOK

LEMMA TypeStep == TypeOK /\ [Next]_vars => TypeOK'
<1> SUFFICES ASSUME TypeOK, [Next]_vars PROVE TypeOK'
  OBVIOUS
<1>1. ASSUME NEW t \in Pids, HandleExecve(t) PROVE TypeOK'
  <2>1. CASE Recorded(t)
    <3>1. child_root[t] \in ProcessInfo /\ comm[t] \in Comms
      BY <2>1, RecordedEntry DEF TypeOK
    <3>2. [child_root[t] EXCEPT !.current_comm = comm[t]] \in ProcessInfo
      BY <3>1 DEF ProcessInfo
    <3>3. child_root' = [child_root EXCEPT ![t] =
                           [child_root[t] EXCEPT !.current_comm = comm[t]]]
      BY <1>1, <2>1 DEF HandleExecve
    <3>4. child_root' \in [Pids -> ProcessInfo \cup {NoEntry}]
      BY <3>2, <3>3 DEF TypeOK
    <3> QED BY <1>1, <3>4 DEF HandleExecve, TypeOK
  <2>2. CASE ~Recorded(t)
    BY <1>1, <2>2 DEF HandleExecve, TypeOK
  <2> QED BY <2>1, <2>2
<1>2. ASSUME NEW t \in Pids, FinishExec(t) \/ Exit(t) PROVE TypeOK'
  BY <1>2 DEF FinishExec, Exit, TypeOK
<1>3. CASE UNCHANGED vars
  BY <1>3 DEF vars, TypeOK
<1> QED BY <1>1, <1>2, <1>3, ForkType DEF Next

\* Every variable keeps its type.
THEOREM TypeCorrect == Spec => []TypeOK
BY TypeInit, TypeStep, PTL DEF Spec
-----------------------------------------------------------------------------
\* The entry of task t, if its lineage is tracked, is right.
KnownTask(t) ==
    (Live(t) /\ root[t] # NoPid /\ t \notin refused) =>
        /\ Recorded(t)
        /\ child_root[t].rpid = root[t]
        /\ child_root[t].ppid = parent[t]

LEMMA ForkKnown ==
    ASSUME TypeOK, FamilyKnown, NEW u \in Pids, NEW t \in Pids, HandleFork(u, t)
    PROVE  FamilyKnown'
<1> SUFFICES ASSUME NEW w \in Pids,
                    Live(w)', root'[w] # NoPid, w \notin refused'
             PROVE  /\ Recorded(w)'
                    /\ child_root'[w].rpid = root'[w]
                    /\ child_root'[w].ppid = parent'[w]
  BY DEF FamilyKnown
<1>1. CASE w # t
  <2>1. /\ Live(w) /\ root'[w] = root[w] /\ parent'[w] = parent[w]
        /\ child_root'[w] = child_root[w] /\ w \notin refused
    BY <1>1 DEF HandleFork, Stored, Live, TypeOK
  <2> QED BY <2>1 DEF FamilyKnown, Recorded
<1>2. CASE w = t
  <2>1. /\ root'[t] = IF Allowed(u) THEN u ELSE root[u]
        /\ parent'[t] = u /\ Live(u)
        /\ (Allowed(u) \/ Recorded(u)) => HasRoom(t)
        /\ Allowed(u) \/ u \notin refused
    BY <1>2 DEF HandleFork, TypeOK, Live
  <2>2. (Allowed(u) \/ Recorded(u)) /\ RootFor(u) = root'[t]
    <3>1. CASE Allowed(u)
      BY <2>1, <3>1 DEF RootFor
    <3>2. CASE ~Allowed(u)
      BY <1>2, <2>1, <3>2 DEF RootFor, FamilyKnown
    <3> QED BY <3>1, <3>2
  <2>3. child_root' = [child_root EXCEPT ![t] = Entry(u)]
    BY <2>1, <2>2 DEF HandleFork, Stored
  <2>4. child_root'[t] = Entry(u) /\ Entry(u).rpid = root'[t] /\ Entry(u).ppid = u
    BY <2>2, <2>3 DEF TypeOK, Entry
  <2>5. u # NoPid
    BY TreeAssumption
  <2> QED BY <1>2, <2>1, <2>4, <2>5 DEF Recorded, NoEntry
<1> QED BY <1>1, <1>2

LEMMA KnownStep == TypeOK /\ FamilyKnown /\ [Next]_vars => FamilyKnown'
<1> SUFFICES ASSUME TypeOK, FamilyKnown, [Next]_vars PROVE FamilyKnown'
  OBVIOUS
<1>1. ASSUME NEW t \in Pids, HandleExecve(t) PROVE FamilyKnown'
  <2> SUFFICES ASSUME NEW w \in Pids PROVE KnownTask(w)'
    BY DEF FamilyKnown, KnownTask
  <2>1. /\ Live(w)' => Live(w)
        /\ UNCHANGED <<root, parent, refused>>
    BY <1>1 DEF HandleExecve, Live, TypeOK
  <2>2. KnownTask(w)
    BY DEF FamilyKnown, KnownTask
  <2>3. /\ Recorded(w) => Recorded(w)' /\ child_root'[w].rpid = child_root[w].rpid
                                       /\ child_root'[w].ppid = child_root[w].ppid
    <3>1. CASE w = t /\ Recorded(t)
      <4>1. child_root[t] \in ProcessInfo
        BY <3>1, RecordedEntry
      <4>2. child_root' = [child_root EXCEPT ![t].current_comm = comm[t]]
        BY <1>1, <3>1 DEF HandleExecve
      <4>3. child_root'[t].rpid = child_root[t].rpid /\ child_root'[t].ppid = child_root[t].ppid
        BY <4>1, <4>2 DEF TypeOK, ProcessInfo
      <4> QED BY <3>1, <4>1, <4>3, TreeAssumption DEF Recorded, NoEntry, ProcessInfo
    <3>2. CASE ~(w = t /\ Recorded(t))
      <4>1. child_root'[w] = child_root[w]
        BY <1>1, <3>2 DEF HandleExecve, TypeOK
      <4> QED BY <4>1 DEF Recorded
    <3> QED BY <3>1, <3>2
  <2> QED BY <2>1, <2>2, <2>3 DEF KnownTask
<1>2. ASSUME NEW t \in Pids, FinishExec(t) \/ Exit(t) PROVE FamilyKnown'
  BY <1>2 DEF FinishExec, Exit, TypeOK, FamilyKnown, Live, Recorded
<1>3. CASE UNCHANGED vars
  BY <1>3 DEF vars, FamilyKnown, Live, Recorded
<1> QED BY <1>1, <1>2, <1>3, ForkKnown DEF Next

\* A live task below a tracked one is recorded with its true parent and root.
THEOREM TreeCorrect == Spec => []FamilyKnown
<1>1. Init => FamilyKnown
  BY DEF Init, FamilyKnown
<1> QED BY <1>1, TypeInit, TypeStep, KnownStep, PTL DEF Spec
=============================================================================
