---------------------------- MODULE MCAgentLoop ----------------------------
(* Small instances of AgentLoop: a plain read; the two kinds of one tool   *)
(* (cronjob list and create); a terminal start, which always asks and      *)
(* takes no "always"; and reading a terminal process.                      *)
EXTENDS AgentLoop

Op(t, k, f, a, p, r) ==
    [tool |-> t, kind |-> k, force |-> f, always |-> a, prepare |-> p, revalidate |-> r]

Read     == Op("read_note", "standard", FALSE, TRUE, FALSE, FALSE)
CronList == Op("cronjob", "standard", FALSE, TRUE, FALSE, FALSE)
CronSet  == Op("cronjob", "scheduling", FALSE, TRUE, FALSE, FALSE)
Terminal == Op("terminal", "destructive", TRUE, FALSE, TRUE, TRUE)
Process  == Op("process", "standard", FALSE, FALSE, TRUE, TRUE)

MCTools     == {"read_note", "cronjob", "terminal", "process"}
ApprovalOps == {CronList, CronSet, Terminal, Process}
SteerOps    == {Read}
=============================================================================
