--------------------------- MODULE MCTrafficWrites ---------------------------
EXTENDS TrafficWrites, TLC

MCMinute == {1, 2}
OneMinute == {1}

Symmetry == Permutations(Flush) \union Permutations(Camera)
=============================================================================
