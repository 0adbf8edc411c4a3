------------------------ MODULE MCPredictionLedger --------------------------
(***************************************************************************)
(* The ledger on small slates.                                             *)
(***************************************************************************)
EXTENDS PredictionLedger

MCSlots == {2, 4}
OneSlot == {3}
OneJob == {"scheduler"}
TwoJobs == {"scheduler", "manual"}
OneSet == {"fs_v9"}
TwoSets == {"fs_v8", "fs_v9"}
TwoGames == {"g1", "g2"}

=============================================================================
