---------------------------- MODULE MCMigrations ----------------------------
(* Two games, two model versions and a category with two live sources.     *)
EXTENDS Migrations

CONSTANTS g1, g2, m1, m2, feed, other

Symmetric == Permutations({g1, g2}) \cup Permutations({m1, m2})
             \cup Permutations({feed, other})

=============================================================================
