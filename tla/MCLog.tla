------------------------------- MODULE MCLog -------------------------------
(***************************************************************************)
(* Instances of the log for TLC.  Processes are interchangeable in every   *)
(* run, and so are blocks: mkfs gives all of them the same contents.       *)
(***************************************************************************)
EXTENDS Log, TLC

Sym == Permutations(Procs) \cup Permutations(Blocks)
=============================================================================
