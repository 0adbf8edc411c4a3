----------------------------- MODULE MCTeamForm -----------------------------
(* A season of three days: an exhibition, four games, one of the postseason. *)
EXTENDS TeamForm

CONSTANTS t1, t2, t3

\* What some of the theorems are proved from holds of this calendar.
ASSUME MCOvernight == Overnight /\ InSeason

MCTypeAt == <<"S", "R", "R", "R", "R", "F">>
MCFixtures == {<<t1, t2>>, <<t3, t1>>}

=============================================================================
