---------------------------- MODULE SerialStore -----------------------------
(***************************************************************************)
(* What the data store promises its writers: as if each had run alone.     *)
(* The store changes by one writer's work at a time, added to everything   *)
(* that was there.                                                         *)
(***************************************************************************)

CONSTANT Origin  \* what a store that was seeded before holds

VARIABLE value

Init == value \in {{}, Origin}

Commit == \E unit \in value' : unit \notin value /\ value' = value \cup {unit}

Spec == Init /\ [][Commit]_value

=============================================================================
