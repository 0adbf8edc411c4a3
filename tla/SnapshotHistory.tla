-------------------------- MODULE SnapshotHistory ---------------------------
(***************************************************************************)
(* What the prediction ledger promises its readers: each game has a        *)
(* history of snapshots that only ever grows at its end, one snapshot at a *)
(* time, and what is served for the game is the last one.  A publication   *)
(* covers any part of the slate in one step: a reader never sees half of   *)
(* a run.                                                                  *)
(***************************************************************************)
EXTENDS Naturals, Sequences

CONSTANT Games

VARIABLES
    history,  \* the snapshots of each game, oldest first
    served    \* the snapshots served for each game: none, or one

hvars == <<history, served>>

Init ==
    /\ history = [g \in Games |-> <<>>]
    /\ served = [g \in Games |-> {}]

\* The game gets one more snapshot, which becomes the one served.
Extended(g) ==
    /\ Len(history'[g]) = Len(history[g]) + 1
    /\ SubSeq(history'[g], 1, Len(history[g])) = history[g]
    /\ served'[g] = {history'[g][Len(history'[g])]}

Untouched(g) == history'[g] = history[g] /\ served'[g] = served[g]

Publish == \A g \in Games : Extended(g) \/ Untouched(g)

Spec == Init /\ [][Publish]_hvars

=============================================================================
