-------------------------- MODULE MCConnectProbes --------------------------
(* A traced process of two threads and an untraced one.                     *)
EXTENDS ConnectProbes

MCProcess == [x \in Threads |-> IF x = "t" THEN "p" ELSE x]
=============================================================================
