---------------------------- MODULE MCPipeline ----------------------------
(* The run "pipeline": three cases of CrashPipeline in one.  case is which, *)
(* and a behaviour stays in it.                                             *)
EXTENDS MCCrashPipeline

VARIABLE case

\* The cases; names that are not tracked, and a tracked parent, are in the second.

AllTracked == \A t \in Tasks : comm[t] \in TrackedCommands

TwoThreads == /\ run["p"] <= 1 /\ run["q"] = 0
              /\ AllTracked /\ "p" \notin child_root
OneAfterAnother == run["q"] = 0 /\ task["t"] = "none"
TwoProcesses == /\ run["p"] <= 1 /\ run["q"] <= run["p"] /\ task["t"] = "none"
                /\ AllTracked /\ child_root = {}
                /\ \A t \in Tasks : task[t] # "leaving"

Confined == CASE case = 1 -> TwoThreads
              [] case = 2 -> OneAfterAnother
              [] case = 3 -> TwoProcesses

\* Two calls and a signal, or a call and two signals.
FewSteps == syscalls + signals <= 3

\* FairSpec, confined to these states: the daemon's steps stay in each case.
CaseSpec ==
    /\ case \in 1..3 /\ Init
    /\ [][Next /\ case' = case /\ (FewSteps /\ Confined)']_<<vars, case>>
    /\ WF_vars(Daemon)
=============================================================================
