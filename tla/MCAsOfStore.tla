---------------------------- MODULE MCAsOfStore ----------------------------
(* A regular-season game and a postseason game the next day, one player.   *)
EXTENDS AsOfStore, TLC

CONSTANTS night, final, batter

FirstPitch == night :> 0 @@ final :> 3
Types == night :> "R" @@ final :> "F"
Boxes == night :> {batter} @@ final :> {batter}

=============================================================================
