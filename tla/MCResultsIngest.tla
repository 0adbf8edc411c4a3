-------------------------- MODULE MCResultsIngest ---------------------------
(***************************************************************************)
(* The daily ingest over three games on two days.                          *)
(***************************************************************************)
EXTENDS ResultsIngest

Pitchers == {"p1", "p2"}
TwoDays == <<0, 0, 1>>
Boxes == <<{"p1"}, {"p2"}, {"p1", "p2"}>>
Starters == <<{"p1"}, {}, {"p1"}>>
SecondBad == {2}

=============================================================================
