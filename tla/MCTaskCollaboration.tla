-------------------------- MODULE MCTaskCollaboration --------------------------
(* Finite values for TaskCollaboration.                                     *)
EXTENDS TaskCollaboration, TLC

CONSTANTS ann, bob

\* A task is private to its owner or shared with bob as well.
MCSharedSets == {{}, {bob}}

\* Requests and task ids are interchangeable (used by safety runs only).
MCSymmetry == Permutations(Requests) \cup Permutations(Ids)
================================================================================
