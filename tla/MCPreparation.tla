----------------------------- MODULE MCPreparation -----------------------------
(* Small instances of Preparation.                                          *)
EXTENDS Preparation, TLC

(* The run ids are alike, and so are the processes.  The safety runs only.  *)
Alike == Permutations(RunIds) \cup Permutations(Workers)
==============================================================================
