---------------------------- MODULE MCFlagFetch ----------------------------
(* FlagFetch for TLC: the calls of a service are interchangeable. *)
EXTENDS FlagFetch, TLC

CallSymmetry == Permutations(Calls)
============================================================================
