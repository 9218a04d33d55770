------------------------------- MODULE MCStdio -------------------------------
(* A terminal-like process, a child, one thread each, and three streams, one *)
(* more than the processes' own, for the one a redirection creates.          *)
EXTENDS Stdio

CONSTANTS terminal, child, terminalThread, childThread

MCProcess == {terminal, child}
MCThread == {terminalThread, childThread}
MCParent == [t \in MCThread |-> IF t = terminalThread THEN terminal ELSE child]
=============================================================================
