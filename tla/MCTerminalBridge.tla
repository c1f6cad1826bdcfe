-------------------------- MODULE MCTerminalBridge --------------------------
(* The terminal bridge with two slots and three process IDs, so that a     *)
(* session can be refused and an ID can be used again.                     *)
EXTENDS TerminalBridge

=============================================================================
