--------------------------- MODULE ReportContent ---------------------------
(***************************************************************************)
(* What a crash report says of the system calls of the process: the buffer *)
(* is drained, known startup noise is taken out (forensics/noise_filter),  *)
(* and the rest is summarised and listed (reports.go).  The report is a    *)
(* function of the buffer, so every state stands for a crash right then.   *)
(***************************************************************************)
EXTENDS CircularBuffer

CONSTANTS
    ENOENT, ECONNREFUSED, ETIMEDOUT,  \* 2, 111, 110
    BenignNames                       \* names with one of KnownBenignPatterns in them

\* Mutant of IsNoiseEvent: any failed open of such a name.
IsNoiseWhenFailed(e) == e.kind = "openat" /\ e.ret < 0 /\ e.name \in BenignNames

\* A startup probe for a file that is not there.  Only openat has a file.
IsNoiseEvent(e) == e.ret = -ENOENT /\ e.kind = "openat" /\ e.name \in BenignNames

FilterNoise(s) ==
    LET kept[n \in 0..Len(s)] ==
          IF n = 0 THEN << >>
          ELSE IF IsNoiseEvent(s[n]) THEN kept[n - 1]
          ELSE Append(kept[n - 1], s[n])
    IN  kept[Len(s)]

\* report.Events
Shown == FilterNoise(Drain)

Connections == {i \in DOMAIN Shown : Shown[i].kind = "connect"}

\* "Failed:" in the network summary.
NetworkErrors == Cardinality({i \in Connections : IsError(Shown[i])})

Status(e) ==
    CASE e.ret = -ECONNREFUSED -> "ECONNREFUSED"
      [] e.ret = -ETIMEDOUT    -> "ETIMEDOUT"
      [] e.ret = -EINPROGRESS  -> "ASYNC"
      [] IsError(e) /\ e.ret \notin {-ECONNREFUSED, -ETIMEDOUT} -> "ERROR"
      [] OTHER -> "SUCCESS"

\* Mutant of StatusOf: the first call decides (if _, ok := destinations[ip]; !ok).
FirstStatusOf(calls) == Status(Shown[CHOOSE i \in calls : \A j \in calls : i <= j])

\* The entries of one destination overwrite each other in the map.
StatusOf(calls) == Status(Shown[CHOOSE i \in calls : \A j \in calls : j <= i])

\* The list of unique destinations.
Destinations ==
    [d \in {Shown[i].name : i \in Connections} |->
        StatusOf({i \in Connections : Shown[i].name = d})]

\* GetOrCreate gets the time of the record that made the buffer.
StartTime == log[1].ts

\* Mutant of Offset: the subtraction of unsigned numbers without its test.
OffsetWrapped(t) == (t - StartTime) % 256

\* "Calculate relative time from process start".
Offset(t) == IF t > StartTime THEN t - StartTime ELSE 0
-----------------------------------------------------------------------------
(* Properties.                                                             *)

\* The report lists every failed call of the process that is not noise, as
\* long as the error list has not met its cap: neither the ring, the merge
\* nor the filter loses one, however long ago it was.
FailuresShown ==
    ErrorCount <= MaxErrors =>
        \A i \in DOMAIN log :
            IsError(log[i]) /\ ~(log[i].ret = -ENOENT /\ log[i].name \in BenignNames)
                => \E k \in DOMAIN Shown : Shown[k] = log[i]

\* A destination whose last connection failed is not shown as reachable, or
\* with the error of an earlier call: although the recent calls are gathered
\* behind the failed ones and the last entry wins, it is the last in time.
LastFailureStands ==
    ErrorCount <= MaxErrors =>
        \A i \in DOMAIN log :
            /\ log[i].kind = "connect" /\ IsError(log[i])
            /\ \A j \in DOMAIN log \ {i} :
                  log[j].kind = "connect" /\ log[j].name = log[i].name
                      => log[j].ts < log[i].ts
            => Destinations[log[i].name] = Status(log[i])

\* With priority events the offsets of the detailed list never go back, also
\* for calls that are older than the record that made the buffer.
OffsetsInOrder ==
    HasPriority =>
        \A i, j \in DOMAIN Shown : i < j => Offset(Shown[i].ts) <= Offset(Shown[j].ts)

\* What the test of the connections expects of the report, "5 failed
\* connections" of a program that made five: no more of them are counted than
\* there were, although a failed call may be in all three lists of the buffer.
FailedOnce ==
    NetworkErrors <=
        Cardinality({i \in DOMAIN log : log[i].kind = "connect" /\ IsError(log[i])})
=============================================================================
