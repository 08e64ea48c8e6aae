-------------------------- MODULE MCReportContent --------------------------
(* Small buffers and all they can report: rings of one to three slots,     *)
(* caps and context sizes below and above the ring size.                   *)
EXTENDS ReportContent

MCEvent ==
    LET C(t, r, l) == [kind |-> "connect", name |-> "db", ts |-> t, ret |-> r, latency |-> l]
        O(t, r) == [kind |-> "openat", name |-> "/etc/ld.so", ts |-> t, ret |-> r, latency |-> 0]
    IN  {C(1, 0, 0), C(2, 0, 0),          \* two quick successes
         C(1, -111, 0),                   \* failed, possibly behind a later one
         C(1, 0, 3),                      \* slow
         C(2, -110, 3),                   \* failed and slow: gathered twice
         C(1, -115, 3),                   \* EINPROGRESS: neither
         O(2, -2), O(2, -13)}             \* noise, and a failure that is not
=============================================================================
