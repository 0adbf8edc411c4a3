-------------------------- MODULE MCModelRegistry ---------------------------
(***************************************************************************)
(* The registry with two trainers that may overlap.                        *)
(***************************************************************************)
EXTENDS ModelRegistry

TwoTrainers == {"nightly", "manual"}
TwoC == {1, 3}
TwoSets == {"fs_v1", "fs_v9"}

=============================================================================
