--------------------------- MODULE MCPromptQueue ---------------------------
(* Small instances of PromptQueue: views, sessions and prompts are          *)
(* interchangeable.                                                         *)
EXTENDS PromptQueue

MCSymmetry == Permutations(Views) \cup Permutations(Sessions) \cup Permutations(Entries)
=============================================================================
