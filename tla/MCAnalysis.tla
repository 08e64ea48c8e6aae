----------------------------- MODULE MCAnalysis -----------------------------
(* A program and two libraries, one of which keeps the look of a library   *)
(* when it is replaced; two layouts of memory; two contents of the files:  *)
(* one with and without sizes, with data and with a function that has no   *)
(* name, one that is stripped and linked to a fixed address.               *)
EXTENDS Analysis

Sym(n, v, s) == [name |-> n, value |-> v, size |-> s, func |-> n # "data"]

MCBinaries ==
    {[symtab |-> {Sym("main", 1, 1), Sym("", 2, 1), Sym("end", 3, 0), Sym("data", 3, 1)},
      dynsym |-> NoTable, bias |-> 0],
     [symtab |-> NoTable, dynsym |-> {Sym("api", 6, 1), Sym("run", 7, 2)}, bias |-> 5]}

MCDeleted == [f \in Files |-> CASE f = "app" -> "app (deleted)"
                              [] f = "lib.so" -> "lib.so (deleted)"
                              [] f = "libc.so.6" -> "libc.so.6 (deleted)"]

At(s, e, o, p) == [start |-> s, end |-> e, offset |-> o, path |-> p]

MCLow == {At(4, 7, 1, "app"), At(7, 9, 0, "lib.so"), At(9, 10, 0, "[heap]"), At(10, 11, 0, "")}

MCHigh(library) == {At(4, 5, 0, "[heap]"), At(5, 7, 1, "app"), At(7, 9, 1, library),
                    At(9, 10, 0, "[stack]")}

MCFrameSpaces == {MCLow, MCHigh("lib.so")}
MCPlaceSpaces == {MCLow, MCHigh("libc.so.6")}
MCSpaces == MCFrameSpaces \cup MCPlaceSpaces

MCFrames == {<<5, 8>>, <<6, 4>>}
MCNoFrames == {<< >>}
MCStacks == MCFrames \cup MCNoFrames

\* For the question where a fault was, one content and no frames.
Stripped == [symtab |-> NoTable, dynsym |-> NoTable, bias |-> 0]
MCStripped == {Stripped}
MCAllBinaries == MCBinaries \cup MCStripped

\* The two cases the run "analysis" joins: where the fault was, for every signal
\* and address and three files; and where the frames are, for one fault and two
\* files with symbols.
Places == /\ \A f \in Files : files[f] \in {Stripped, NoFile}
          /\ space \in MCPlaceSpaces \cup {{}}
          /\ \A i \in DOMAIN queue : queue[i].crash.pcs \in MCNoFrames

Frames == /\ \A f \in Files : (files[f] = Stripped) <=> (f = "libc.so.6")
          /\ space \in MCFrameSpaces \cup {{}}
          /\ \A i \in DOMAIN queue : LET c == queue[i].crash
                                    IN  c.pcs \in MCFrames /\ c.sig = 11 /\ c.addr = 7

CaseSpec == Init /\ (Places \/ Frames) /\ [][Next /\ (Places \/ Frames)']_vars
=============================================================================
