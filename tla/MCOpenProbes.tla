---------------------------- MODULE MCOpenProbes ----------------------------
(* Two threads of one process, fewer map entries than threads, and a file   *)
(* of each sort: one that matters, one under /dev, and one like             *)
(* /devel/main.c, whose path only begins with the same letters.             *)
EXTENDS OpenProbes

MCProcess == [x \in Threads |-> "p"]
=============================================================================
