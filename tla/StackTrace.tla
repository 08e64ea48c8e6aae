----------------------------- MODULE StackTrace -----------------------------
(***************************************************************************)
(* src/internal/stacktrace/resolver.go: from a program counter to a module *)
(* and a function.  A binary is [symtab, dynsym, bias]: its two tables of  *)
(* symbols [name, value, size, func], either may be NoTable, and the       *)
(* distance of its virtual addresses from its file offsets, which is not 0 *)
(* for a program linked to a fixed address.  The ELF reader is external.   *)
(***************************************************************************)
EXTENDS Forensics

CONSTANTS NoTable,
          NoFile,    \* the content of a path without a file
          NoSymbol,
          Reach      \* how far a symbol without a size is followed (4096)

\* f.Symbols(), and f.DynamicSymbols() when that fails.
SymbolsOf(binary) ==
    IF binary.symtab # NoTable THEN binary.symtab
    ELSE IF binary.dynsym # NoTable THEN binary.dynsym ELSE {}

\* "Skip non-function symbols", "Skip symbols with no name".
IsFunction(sym) == sym.func /\ sym.name # ""

\* Mutant of Covers: the size is not looked at.
CoversAfter(sym, offset) == IsFunction(sym) /\ sym.value <= offset

Covers(sym, offset) ==
    /\ IsFunction(sym) /\ sym.value <= offset
    /\ offset - sym.value < IF sym.size > 0 THEN sym.size ELSE Reach

\* "closest but not exceeding offset", with the distance shown as +0x...
BestSymbol(content, offset) ==
    LET near == IF content = NoFile THEN {}
                ELSE {s \in SymbolsOf(content) : Covers(s, offset)}
    IN  IF near = {} THEN NoSymbol
        ELSE LET s == CHOOSE s \in near : \A t \in near : t.value <= s.value
             IN  [name |-> s.name, dist |-> offset - s.value]

\* Mutant of LookupSymbol: what is cached answers for any offset of the file.
LookupSymbolOfPath(cache, path, offset, content) ==
    IF cache[path] # << >> THEN cache[path][CHOOSE o \in DOMAIN cache[path] : TRUE]
    ELSE BestSymbol(content, offset)

\* A hit, or the file as it is now.
LookupSymbol(cache, path, offset, content) ==
    IF offset \in DOMAIN cache[path] THEN cache[path][offset]
    ELSE BestSymbol(content, offset)

\* Mutant of CacheAfter: that there is no symbol is remembered as well.
CacheAfterAnswer(cache, path, offset, symbol) ==
    [cache EXCEPT ![path] = [o \in {offset} |-> symbol]]

\* The entry of a binary is replaced by one that knows a single offset.
CacheAfter(cache, path, offset, symbol) ==
    IF offset \in DOMAIN cache[path] \/ symbol = NoSymbol THEN cache
    ELSE [cache EXCEPT ![path] = [o \in {offset} |-> symbol]]

RawFrame(pc) == [pc |-> pc, path |-> "unknown", function |-> NoSymbol]

FileOffset(pc, r) == pc - r.start + r.offset
=============================================================================
