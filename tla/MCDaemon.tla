------------------------------ MODULE MCDaemon ------------------------------
(* Two instances of the daemon, one after the other or side by side, and a *)
(* configuration that is rewritten or removed under them.                  *)
EXTENDS Daemon

MCConfig == {[tracked |-> {"my_long_progra", "my_long_program"}, threshold |-> 1],
             [tracked |-> {"my_long_program_name"}, threshold |-> 1]}

\* What the documentation says to write for my_long_program_name.
MCAdvised == {[tracked |-> {"my_long_progra"}, threshold |-> 1]}
=============================================================================
