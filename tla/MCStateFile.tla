---------------------------- MODULE MCStateFile ----------------------------
EXTENDS StateFile, TLC

StateFileSymmetry == Permutations(Clients) \cup Permutations(Procs)

\* An environment that says nothing, one that opts out of a toggle, and one
\* that forces submission on the first run.
SomeEnvironments ==
  {[off |-> o, force |-> FALSE] : o \in {{}, {"metrics"}}}
    \cup {[off |-> {}, force |-> TRUE]}
============================================================================
