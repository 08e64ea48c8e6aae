--------------------------- MODULE CrashReporting ---------------------------
(***************************************************************************)
(* What the crash pipeline promises to the reader of the reports: there is *)
(* a report only of an incarnation that did die by a crash signal, it      *)
(* names that signal, and no death is reported twice.                      *)
(***************************************************************************)
CONSTANTS Incarnation,  \* one life of a process
          Signal,       \* the crash signals
          NoSignal      \* stands for "has not died of one", "not reported"

VARIABLES died,         \* the signal that killed each incarnation
          reported      \* the signal named by the report of each incarnation

vars == <<died, reported>>

Init == /\ died = [x \in Incarnation |-> NoSignal]
        /\ reported = [x \in Incarnation |-> NoSignal]

Die(x, s) == /\ died[x] = NoSignal
             /\ died' = [died EXCEPT ![x] = s]
             /\ UNCHANGED reported

Report(x) == /\ died[x] # NoSignal
             /\ reported[x] = NoSignal
             /\ reported' = [reported EXCEPT ![x] = died[x]]
             /\ UNCHANGED died

Next == \E x \in Incarnation : Report(x) \/ \E s \in Signal : Die(x, s)

Spec == Init /\ [][Next]_vars
=============================================================================
