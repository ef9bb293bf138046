---------------------------- MODULE MCChatRuns ----------------------------
(***************************************************************************)
(* Small instances of ChatRuns: two calls of runAgent at once.  The calls  *)
(* are interchangeable, which the runs that check no liveness use.         *)
(***************************************************************************)
EXTENDS ChatRuns, TLC

SlotSymmetry == Permutations(Slots)
=============================================================================
