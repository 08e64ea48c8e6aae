--------------------------- MODULE SlidingWindow ---------------------------
(***************************************************************************)
(* What the circular storage of one process promises, without indices: a   *)
(* bounded window onto the newest events.  Pushing onto a full window      *)
(* forgets the oldest event and nothing else.                              *)
(***************************************************************************)
EXTENDS Naturals, Sequences

CONSTANT Item

VARIABLES window,     \* the retained items, oldest first
          capacity    \* fixed when the buffer is made

vars == <<window, capacity>>

Init == /\ window = << >>
        /\ capacity \in Nat \ {0}

Push(e) ==
    /\ window' = IF Len(window) < capacity
                   THEN Append(window, e)
                   ELSE Append(Tail(window), e)
    /\ UNCHANGED capacity

Next == \E e \in Item : Push(e)

Spec == Init /\ [][Next]_vars
=============================================================================
