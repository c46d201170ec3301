----------------------------- MODULE MCTriggerWatch ---------------------------
(***************************************************************************)
(* TriggerWatch for TLC: the upstreams are model values, interchangeable   *)
(* because the rules only look at the set of states they are in.           *)
(***************************************************************************)
EXTENDS TriggerWatch, TLC

UpstreamSymmetry == Permutations(Upstreams)
===============================================================================
