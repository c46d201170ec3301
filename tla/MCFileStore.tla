---------------------------- MODULE MCFileStore ----------------------------
(***************************************************************************)
(* Two processes that both run workflows on one directory, small enough    *)
(* for TLC.                                                                *)
(***************************************************************************)
EXTENDS FileStore

CONSTANTS p1, p2

\* The processes differ in nothing but their names
ProcessSymmetry == Permutations(Processes)
=============================================================================
