------------------------------- MODULE MCApp -------------------------------
EXTENDS App, TLC

CONSTANTS s1, s2, n1, n2, k1, k2, k3

\* The second name is registered on the first server, from another machine.
MCElsewhere == {<<s1, n2, k3>>}

\* Connections, and the keys this machine will make.
AppSymmetry == Permutations(Conns) \cup Permutations({k1, k2})
=============================================================================
