------------------------- MODULE MCClientLifecycle -------------------------
EXTENDS ClientLifecycle, TLC

ClientLifecycleSymmetry == Permutations(Clients) \cup Permutations(Procs)

\* An environment that opts out of the errors, and one that forces submission on
\* the first run; the config of a builder is that of its environment.
ClientEnvironments == {[off |-> {"errors"}, force |-> FALSE], [off |-> {}, force |-> TRUE]}
============================================================================
