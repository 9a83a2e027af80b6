--------------------------- MODULE MCEventStream ---------------------------
EXTENDS EventStream, TLC
CONSTANTS a, b
Symmetric == Permutations({a, b})
=============================================================================
