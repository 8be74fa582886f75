---------------------------- MODULE MCConnections ----------------------------
(* Two connections and two other channels, fewer numbers than objects.     *)
EXTENDS Connections, TLC

CONSTANTS c1, c2, x1, x2

Symmetry == Permutations({c1, c2}) \union Permutations({x1, x2})

=============================================================================
