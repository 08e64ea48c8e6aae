------------------------------ MODULE Forensics ------------------------------
(***************************************************************************)
(* src/internal/forensics/analysis.go: what an address says of a crash.    *)
(* The mappings of a process are a set of disjoint regions [start, end,    *)
(* offset, path]; a process whose memory is gone has none, and NoMaps is   *)
(* the error of a PID that is gone itself.  Causes and recommendations are *)
(* sentences fixed by signal and memory type and are left out.             *)
(***************************************************************************)
EXTENDS Naturals

CONSTANTS NoMaps,
          LowMemory,      \* addresses below are offsets from NULL  (0x10000)
          MemoryFaults,   \* SIGSEGV, SIGBUS
          SharedObjects,  \* paths that end in ".so" or contain ".so."
          Named           \* paths that are neither empty nor in brackets

\* Mutant of In: the end of a region is taken to belong to it.
InOrAtEnd(addr, r) == r.start <= addr /\ addr <= r.end

In(addr, r) == r.start <= addr /\ addr < r.end

TypeOfPath(path) ==
    CASE path \in {"[stack]", "[heap]"} -> path
      [] path \in SharedObjects -> "library"
      [] path \in Named \ SharedObjects -> "executable"
      [] OTHER -> "mapped"

ClassifyAddress(maps, addr) ==
    CASE addr = 0 -> "null"
      [] 0 < addr /\ addr < LowMemory -> "low"
      [] OTHER -> LET hit == {r \in maps : In(addr, r)}
                  IN  IF hit = {} THEN "unmapped"
                      ELSE TypeOfPath((CHOOSE r \in hit : TRUE).path)

\* Mutant of Fallback: only the NULL pointer itself is recognised.
FallbackNull(addr) == IF addr = 0 THEN "null" ELSE ""

\* "Fallback analysis without memory map".
Fallback(addr) == IF addr = 0 THEN "null" ELSE IF addr < LowMemory THEN "low" ELSE ""

\* The memory type of AnalyzeCrash, "" for none.
AnalyzeCrash(signal, addr, maps) ==
    IF signal \notin MemoryFaults THEN ""
    ELSE IF maps = NoMaps THEN Fallback(addr)
    ELSE ClassifyAddress(maps, addr)
=============================================================================
