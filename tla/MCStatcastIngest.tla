-------------------------- MODULE MCStatcastIngest --------------------------
(* Two games on one date, one on the next, and one the schedule lacks.  Of  *)
(* game a one pitch of 290 may be missing, which is tolerated, or the rest.  *)
(* The box score of b has no pitches, and no source knows who struck out.    *)
EXTENDS StatcastIngest, TLC

CONSTANTS a, b, c, foreign, regular, callup, ghost

Dates == a :> 1 @@ b :> 1 @@ c :> 2 @@ foreign :> 1

RowGame == 1 :> a @@ 2 :> a @@ 3 :> b @@ 4 :> c @@ 5 :> foreign @@ 6 :> b @@ 7 :> b
RowBy == 1 :> regular @@ 2 :> callup @@ 3 :> regular @@ 4 :> regular @@ 5 :> regular
           @@ 6 :> ghost @@ 7 :> ghost
RowThrown == 1 :> 289 @@ 2 :> 1 @@ 3 :> 4 @@ 4 :> 3 @@ 5 :> 1 @@ 6 :> 3 @@ 7 :> 3

Boxes ==
    a :> [pitch_count |-> 290, strikeouts |-> 0, home_runs |-> 1, balls_in_play |-> 1]
    @@ b :> [pitch_count |-> 0, strikeouts |-> 2, home_runs |-> 0, balls_in_play |-> 1]
    @@ c :> [balls_in_play |-> 0]
    @@ foreign :> [x \in {} |-> 0]

=============================================================================
