-------------------------- MODULE MCCrashPipeline --------------------------
(* Small instances of CrashPipeline: one process of two threads, a PID that *)
(* is used twice, and two processes at a time.                              *)
EXTENDS CrashPipeline

MCLeader == [t \in Tasks |-> IF t \in {"p", "t"} THEN "p" ELSE t]
=============================================================================
