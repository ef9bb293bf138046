-------------------------- MODULE MCCronScheduler --------------------------
(***************************************************************************)
(* A small instance of CronScheduler: two policies show the target notes,  *)
(* one hides them.                                                         *)
(***************************************************************************)
EXTENDS CronScheduler

CONSTANT Hidden
MCSees  == [s \in Scopes |-> IF s = Hidden THEN {} ELSE Ids]
MCKinds == {"noAgent", "scriptMonitor"}
=============================================================================
