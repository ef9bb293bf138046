------------------------ MODULE MCTerminalProcesses ------------------------
(* A small instance of TerminalProcesses: background commands of one chat  *)
(* and a foreground command of another.                                    *)
EXTENDS TerminalProcesses

CONSTANTS b1, b2, f1, s1, s2

MCOwner      == [c \in Cmds |-> IF c = f1 THEN s2 ELSE s1]
MCBackground == Cmds \ {f1}
=============================================================================
