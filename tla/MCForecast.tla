----------------------------- MODULE MCForecast -----------------------------
(* The fifth season of four teams: a doubleheader, a night game and the day *)
(* after it, behind one of several pasts.                                  *)
EXTENDS Forecast

CONSTANTS a, b, c, d

G(id, season, day, slot, home, away) ==
    [id |-> id, season |-> season, day |-> day, slot |-> slot, home |-> home, away |-> away,
     type |-> "R", off |-> FALSE, names |-> {[t \in {home, away} |-> {<<t, day % 2>>}]}]

\* As long as nobody is named, and with the other starter of one side.
NobodyYet(g) == [g EXCEPT !.names = @ \cup {[t \in Plays(g) |-> {}]}]
Replaced(g) == [g EXCEPT !.names = @ \cup {[n EXCEPT ![g.home] = {<<g.home, (g.day + 1) % 2>>}] : n \in @}]

MCSchedules ==
    LET old == G(1, 0, 0, 1, a, b)
        third == G(2, 1, 0, 1, b, a)
        second == G(3, 2, 1, 1, a, c)
        last1 == {G(4, 3, 0, 1, a, b), G(5, 3, 1, 1, b, a)}
        last2 == {G(6, 3, 0, 2, c, d), G(7, 3, 1, 2, d, c)}
        october == [G(8, 3, 2, 2, b, c) EXCEPT !.type = "F"]
        short == {old, G(5, 3, 1, 1, b, a), G(9, 3, 1, 2, b, a)}
        long == {third, second, october} \cup last1 \cup last2
        full == {old, third} \cup last1 \cup last2
        \* The season in progress.
        first == G(11, 4, 0, 1, a, b)
        double == G(12, 4, 0, 2, a, b)
        night == G(13, 4, 0, 3, c, d)
        next == G(14, 4, 1, 1, b, c)
        evening == G(15, 4, 1, 3, a, d)
        card == {first, double, night, next}
        unnamed == {first, night, NobodyYet(evening)}
        renamed == {first, night, Replaced(G(16, 4, 2, 2, a, d))}
        rained == {[first EXCEPT !.off = TRUE], night, next, [evening EXCEPT !.type = "F"]}
    IN {renamed \cup {next}, short \cup renamed, short \cup (card \ {night}), full \cup (card \ {next}),
        short \cup unnamed, short \cup rained, long \cup rained}

\* The past and the first day, whatever of it is over.
MCBackfills == {<<0, 12>>}
MCSlotTick == <<2, 5, 9>>
MCTeamWeights == <<60, 30>>
MCPitcherWeights == <<60, 35, 20>>
MCTransactions == {[team |-> a, at |-> 97, status |-> "IL"], [team |-> a, at |-> 103, status |-> "ACTIVE"],
                   [team |-> c, at |-> 106, status |-> "IL"]}

\* What the theorems on Forecast take for granted holds here.
ASSUME MCCalendar == SlateOnOneDay /\ SlateInYear /\ InItsYear /\ LookbackCovers

=============================================================================
