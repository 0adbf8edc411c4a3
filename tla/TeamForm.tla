------------------------------ MODULE TeamForm ------------------------------
(***************************************************************************)
(* What the record of finished games says of a team: its streak and what   *)
(* followed streaks like it (services/streaks.py, features/streaks.py), its *)
(* Elo rating at any moment (features/elo.py), and how the games are cut   *)
(* into training and test windows (modeling/dataset.py,                    *)
(* backtest/walkforward.py, modeling/train.py).                            *)
(*                                                                         *)
(* The one variable is the record, in the order of first pitch, which is   *)
(* the order the code sorts it into.  Everything else is computed from it, *)
(* often twice, by code that must agree.  A rating is not a number but the *)
(* list of what moved it: games, and the offseasons it was regressed in.   *)
(***************************************************************************)
EXTENDS Integers, Sequences, FiniteSets, FiniteSetsExt

CONSTANTS
    Teams,
    Fixtures,      \* who meets whom, as <<home, away>>
    TypeAt,        \* the game type of each slot of a season, two slots a day
    DayTicks, FirstTick, SecondTick,   \* ticks in a day, and its two first pitches
    Lag,           \* ticks from first pitch to the result being known
    Ahead,         \* ticks a forecast is made ahead of first pitch
    MinLength, MaxLength, Pooled,   \* MIN_LENGTH, MAX_LENGTH, previous seasons
    Cap, MinLeague,   \* WIN_CAP and LOSS_CAP, MIN_LEAGUE_OCCURRENCES
    StepDays, ValidationDays, MinRows, MinCalibration,
    MaxGames, MaxOff   \* bounds: games on record, those not finished

ASSUME FormAssumption ==
    /\ Fixtures \subseteq Teams \X Teams /\ \A f \in Fixtures : f[1] # f[2]
    /\ TypeAt \in Seq({"S", "R", "F"}) /\ TypeAt # <<>>
    /\ {DayTicks, Lag, Ahead, StepDays, ValidationDays} \subseteq Nat \ {0}
    /\ {FirstTick, SecondTick} \subseteq Nat
    /\ FirstTick < SecondTick /\ SecondTick < DayTicks
    /\ MinLength \in Nat /\ MaxLength \in Nat /\ 2 <= MinLength /\ MinLength <= MaxLength
    /\ {Pooled, Cap, MinLeague, MinRows, MinCalibration, MaxGames, MaxOff} \subseteq Nat

VARIABLE games   \* the games on record, by first pitch

-----------------------------------------------------------------------------
(* The calendar: first pitches on two ticks of a day.                      *)

Days == (Len(TypeAt) + 1) \div 2
Year == DayTicks * Days
OfficialDate(g) == Days * g.season + (g.slot - 1) \div 2
Pitch(g) == DayTicks * OfficialDate(g) + (IF g.slot % 2 = 1 THEN FirstTick ELSE SecondTick)
SeasonAt(T) == T \div Year
Known(g) == Pitch(g) + Lag
AsOf(g) == Pitch(g) - Ahead
Type(g) == TypeAt[g.slot]
Plays(g) == {g.home, g.away}
Final(g) == g.winner # "none"

\* The results of a day are known before the first forecast of the next.
Overnight == SecondTick + Lag <= DayTicks + FirstTick - Ahead

\* A forecast is made in the season of its game.
InSeason == Ahead <= FirstTick

\* Where the next game may be: the next slot, the next day, the next season.
After(g) ==
    {[season |-> g.season + 1, slot |-> 1]} \cup
    {[season |-> g.season, slot |-> s] :
        s \in {g.slot + 1, 2 * ((g.slot + 1) \div 2) + 1} \cap DOMAIN TypeAt}

Opening == {[season |-> 0, slot |-> s] : s \in {1, 2} \cap DOMAIN TypeAt}

Init == games = <<>>

Play(home, away, winner) ==
    /\ Len(games) < MaxGames
    /\ <<home, away>> \in Fixtures
    /\ winner = "none" => Cardinality({i \in DOMAIN games : ~ Final(games[i])}) < MaxOff
    /\ \E at \in IF games = <<>> THEN Opening ELSE After(games[Len(games)]) :
           games' = Append(games, [season |-> at.season, slot |-> at.slot,
                                   home |-> home, away |-> away, winner |-> winner])

Next == \E home, away \in Teams, winner \in {"home", "away", "none"} : Play(home, away, winner)

Spec == Init /\ [][Next]_games

\* The finished games of some types, as their places on the record.
Done(gs, types) == {i \in DOMAIN gs : Final(gs[i]) /\ Type(gs[i]) \in types}

Competitive == {"R", "F"}

\* What is on record at a time: a later result is not known yet.
KnownBy(gs, T) ==
    [i \in DOMAIN gs |-> IF Known(gs[i]) <= T THEN gs[i] ELSE [gs[i] EXCEPT !.winner = "none"]]

\* The last of some rows, each of a game of its own.
Latest(rows) == CHOOSE r \in rows : \A o \in rows : o.id <= r.id

-----------------------------------------------------------------------------
(* Elo.                                                                    *)

NoSeason == -1
EloStart == [season |-> NoSeason, rating |-> [t \in Teams |-> <<>>]]

\* A team nobody has rated stands at the base and stays there.
Regressed(rating) == IF rating = <<>> THEN <<>> ELSE Append(rating, "off")

\* The ratings a game of a season finds.
Opened(elo, season) ==
    IF elo.season \in {NoSeason, season} THEN elo.rating
    ELSE [t \in Teams |-> Regressed(elo.rating[t])]

Observe(elo, g, i) ==
    LET found == Opened(elo, g.season)
    IN [season |-> g.season,
        rating |-> [t \in Teams |-> IF t \in Plays(g) THEN Append(found[t], i) ELSE found[t]]]

\* The engine after each game of the record.
EloHistory(gs, types) ==
    LET elo[n \in 0..Len(gs)] ==
            IF n = 0 THEN EloStart
            ELSE IF n \in Done(gs, types) THEN Observe(elo[n - 1], gs[n], n)
            ELSE elo[n - 1]
    IN elo

\* The ratings a game found.
Pregame(elo, gs, i) == Opened(elo[i - 1], gs[i].season)

\* The snapshots taken after each rated game.
Snapshots(gs) ==
    LET elo == EloHistory(gs, Competitive)
    IN {[id |-> i, known |-> Known(gs[i]), season |-> gs[i].season,
         teams |-> Plays(gs[i]), rating |-> elo[i].rating] : i \in Done(gs, Competitive)}

\* Mutant: only for the seasons that have opened.
RegressionsOpened(snaps, season, T) ==
    Cardinality({s.season : s \in {x \in snaps : x.known <= T /\ x.season > season}})

\* One for every season the league has opened since, and one for a season
\* that has begun without a rated game.
RegressionsSince(snaps, season, T) ==
    LET opened == {s.season : s \in {x \in snaps : x.known <= T}}
    IN IF opened = {} THEN 0
       ELSE Cardinality({s \in opened : s > season})
            + (IF SeasonAt(T) > Max(opened) THEN 1 ELSE 0)

RatingAt(gs, t, T) ==
    LET snaps == Snapshots(gs)
        own == {s \in snaps : t \in s.teams /\ s.known <= T}
    IN IF own = {} THEN <<>>
       ELSE Latest(own).rating[t] \o
            [n \in 1..RegressionsSince(snaps, Latest(own).season, T) |-> "off"]

-----------------------------------------------------------------------------
(* The team log: two rows for each finished regular-season game.           *)

Signed(current, won) ==
    IF won THEN IF current > 0 THEN current + 1 ELSE 1
    ELSE IF current < 0 THEN current - 1 ELSE -1

NoRest == -1

\* Mutant: a streak is carried over the winter.
LastRowEver(rows, t, season) ==
    LET own == {r \in rows : r.team = t}
    IN IF own = {} THEN [after |-> 0, date |-> NoRest] ELSE Latest(own)

\* The last row of a team, when it is of this season.
LastRow(rows, t, season) ==
    LET own == {r \in rows : r.team = t /\ r.season = season}
    IN IF own = {} THEN [after |-> 0, date |-> NoRest] ELSE Latest(own)

LogRow(g, i, rating, before, t) ==
    LET won == (g.winner = "home") = (t = g.home)
        other == IF t = g.home THEN g.away ELSE g.home
    IN [id |-> i, team |-> t, season |-> g.season, date |-> OfficialDate(g), known |-> Known(g),
        home |-> t = g.home, won |-> won,
        entering |-> before.after, after |-> Signed(before.after, won),
        rest |-> IF before.date = NoRest THEN NoRest
                 ELSE Max({OfficialDate(g) - before.date - 1, 0}),
        own |-> rating[t], opponent |-> rating[other]]

\* The log of the first n games.
Logs(gs) ==
    LET elo == EloHistory(gs, {"R"})
        log[n \in 0..Len(gs)] ==
            IF n = 0 THEN {}
            ELSE IF n \in Done(gs, {"R"})
            THEN log[n - 1] \cup
                 {LogRow(gs[n], n, Pregame(elo, gs, n), LastRow(log[n - 1], t, gs[n].season), t) :
                     t \in Plays(gs[n])}
            ELSE log[n - 1]
    IN log

TeamLog(gs) == Logs(gs)[Len(gs)]

Of(log, t) == {r \in log : r.team = t}

-----------------------------------------------------------------------------
(* The page: what followed a streak.                                       *)

Abs(n) == IF n < 0 THEN -n ELSE n
Sign(n) == IF n > 0 THEN 1 ELSE IF n < 0 THEN -1 ELSE 0
LengthBucket(n) == Min({Abs(n), MaxLength})
CurrentSeason(log) == Max({r.season : r \in log})

Windows(log, rows) ==
    LET now == CurrentSeason(log)
        entered == {r \in rows : Abs(r.entering) >= MinLength}
    IN [current |-> {r \in entered : r.season = now},
        previous |-> {r \in entered : r.season \in (now - Pooled)..(now - 1)},
        combined |-> entered]

Bucket(rows, sign, length) ==
    {r \in rows : Sign(r.entering) = sign /\ LengthBucket(r.entering) = length}

Splits(rows) ==
    [home |-> {r \in rows : r.home}, away |-> {r \in rows : ~ r.home},
     rest |-> {r \in rows : r.rest >= 1}, no_rest |-> {r \in rows : r.rest = 0}]

\* Mutant: a streak goes on by winning, whatever its sign.
CellOfWins(rows, sign) ==
    [n |-> Cardinality(rows), continued |-> Cardinality({r \in rows : r.won}),
     expected |-> {<<r.own, r.opponent, r.home>> : r \in rows}]

\* A losing streak goes on by losing.
Cell(rows, sign) ==
    LET wins == Cardinality({r \in rows : r.won})
    IN [n |-> Cardinality(rows),
        continued |-> IF sign > 0 THEN wins ELSE Cardinality(rows) - wins,
        expected |-> {<<r.own, r.opponent, r.home>> : r \in rows}]

\* The streak a team stood at before a game, in whatever season.
Previous(rows, r) ==
    LET past == {x \in rows : x.id < r.id}
    IN IF past = {} THEN 0 ELSE Latest(past).after

\* How many distinct runs reached a length: the games on which one first did.
ReachCounts(rows, sign, length) ==
    Cardinality({r \in rows :
        /\ r.after = sign * length
        /\ Sign(Previous(rows, r)) # sign \/ Abs(Previous(rows, r)) < length})

\* The rows at the end of a list from which on every result is the same.
Run(rows, won) == {r \in rows : \A x \in rows : x.id >= r.id => x.won = won}

\* The run of results at the end of a list of rows.
Streak(rows) ==
    IF rows = {} THEN 0
    ELSE LET end == Latest(rows).won
         IN IF end THEN Cardinality(Run(rows, end)) ELSE -Cardinality(Run(rows, end))

\* The last n rows.
LastOf(rows, n) == {r \in rows : Cardinality({x \in rows : x.id > r.id}) < n}

CurrentBlock(log, t, season) ==
    LET rows == {r \in log : r.team = t /\ r.season = season}
        current == Latest(rows).after
    IN [current |-> current,
        inside |-> LastOf(rows, Abs(current)),
        at_home |-> Streak({r \in rows : r.home}),
        away |-> Streak({r \in rows : ~ r.home}),
        longest |-> Max({0} \cup {r.after : r \in rows}),
        worst |-> Max({0} \cup {-r.after : r \in rows})]

\* What today's card says of a side.
SideContext(log, t) ==
    LET now == {r \in Of(log, t) : r.season = CurrentSeason(log)}
        current == IF now = {} THEN 0 ELSE Latest(now).after
        alike == {r \in Of(log, t) :
                     /\ Abs(r.entering) >= MinLength /\ Sign(r.entering) = Sign(current)
                     /\ LengthBucket(r.entering) = LengthBucket(current)}
    IN IF Abs(current) < MinLength THEN [current |-> current, history |-> Cell({}, 1)]
       ELSE [current |-> current, history |-> Cell(alike, Sign(current))]

-----------------------------------------------------------------------------
(* The features: the same log, read as of a time.                          *)

\* Mutant: a game is counted from its first pitch.
Started(log, T) == {r \in log : r.known - Lag <= T}

InIndex(log, T) == {r \in log : r.known <= T}

State(log, t, season, T) ==
    LET rows == {r \in InIndex(log, T) : r.team = t /\ r.season = season}
    IN IF rows = {} THEN [streak |-> 0, inside |-> {}]
       ELSE [streak |-> Latest(rows).after, inside |-> LastOf(rows, Abs(Latest(rows).after))]

\* Occurrences of a streak that are known: how many, and how many were won.
Before(log, T, of, sign, length) ==
    LET seen == {r \in InIndex(log, T) :
                    /\ r.team \in of /\ Abs(r.entering) >= MinLength
                    /\ Sign(r.entering) = sign /\ LengthBucket(r.entering) = length}
    IN [n |-> Cardinality(seen), won |-> Cardinality({r \in seen : r.won}),
        expected |-> {<<r.own, r.opponent, r.home>> : r \in seen}]

SideValues(log, t, season, T) ==
    LET now == State(log, t, season, T)
        league == Before(log, T, Teams, Sign(now.streak), LengthBucket(now.streak))
        own == Before(log, T, {t}, Sign(now.streak), LengthBucket(now.streak))
    IN [win_streak |-> Min({Max({now.streak, 0}), Cap}),
        loss_streak |-> Min({Max({-now.streak, 0}), Cap}),
        inside |-> {r.id : r \in now.inside},
        history |-> IF Abs(now.streak) < MinLength \/ league.n < MinLeague THEN {}
                    ELSE {[league |-> league, own |-> own,
                           expected |-> IF own.n > 0 THEN own.expected ELSE league.expected]}]

-----------------------------------------------------------------------------
(* The windows: trained before, tested after.                              *)

Rows(gs) == Done(gs, {"R"})
Dates(gs) == {OfficialDate(gs[i]) : i \in Rows(gs)}
On(gs, rows, from, to) == {i \in rows : OfficialDate(gs[i]) \in from..to}

\* Mutant: the day of the first test game is trained on.
StepAbutting(first, last, c) ==
    [train_end |-> c, validation |-> Max({first, c - ValidationDays}),
     test |-> c, test_end |-> Min({c + StepDays - 1, last})]

\* The step whose test begins at c.
Step(first, last, c) ==
    [train_end |-> c - 1, validation |-> Max({first, c - ValidationDays}),
     test |-> c, test_end |-> Min({c + StepDays - 1, last})]

\* The loop from a cursor on.  A step without a day to train on is left out.
MakeSteps(first, last) ==
    LET from[c \in first..(last + 1)] ==
            IF c > last THEN {}
            ELSE LET step == Step(first, last, c)
                 IN {s \in {step} : s.train_end >= first} \cup from[step.test_end + 1]
    IN from[first]

Steps(gs) == IF Rows(gs) = {} THEN {} ELSE MakeSteps(Min(Dates(gs)), Max(Dates(gs)))

\* The classifier whose output the calibrator is fitted on, and on what.
Calibration(core, validation, train, least) ==
    IF Cardinality(core) < least \/ Cardinality(validation) < MinCalibration
    THEN [core |-> train, validation |-> {}]
    ELSE [core |-> core, validation |-> validation]

Skipped == [train |-> {}, test |-> {}, core |-> {}, validation |-> {}]

\* What one step of the walk-forward trains, calibrates and tests on.
StepFit(gs, step) ==
    LET first == Min(Dates(gs))
        train == On(gs, Rows(gs), first, step.train_end)
        test == On(gs, Rows(gs), step.test, step.test_end)
        fit == Calibration(On(gs, train, first, step.validation - 1),
                           On(gs, train, step.validation, step.train_end), train, MinRows \div 2)
    IN IF Cardinality(train) < MinRows \/ test = {} THEN Skipped
       ELSE [train |-> train, test |-> test, core |-> fit.core, validation |-> fit.validation]

FinalFit(gs) ==
    LET last == Max(Dates(gs))
    IN Calibration(On(gs, Rows(gs), Min(Dates(gs)), last - ValidationDays - 1),
                   On(gs, Rows(gs), last - ValidationDays, last), Rows(gs), MinRows)

-----------------------------------------------------------------------------
(* Properties.                                                             *)

\* The streak a team takes into a game is the longest run of equal results
\* among its finished regular-season games of that season before that game,
\* and what stands on the card and the page is the same number.
EnteringIsRun ==
    LET log == TeamLog(games)
        PastOf(r) == {x \in log : x.team = r.team /\ x.season = r.season /\ x.id < r.id}
    IN /\ \A r \in log :
            r.entering = Cardinality(Run(PastOf(r), TRUE)) - Cardinality(Run(PastOf(r), FALSE))
       /\ \A r \in log :
            (\A x \in Of(log, r.team) : x.id <= r.id) =>
                LET block == CurrentBlock(log, r.team, r.season)
                IN /\ block.current = Streak({x \in log : x.team = r.team /\ x.season = r.season})
                   /\ \A x \in block.inside : x.season = r.season /\ x.won = r.won
                   /\ -block.worst <= block.current /\ block.current <= block.longest

\* The tables agree: a run that reached one more is a streak that went on, the
\* windows and the splits add up, and the card of today shows the table's cell.
TablesAgree ==
    LET log == TeamLog(games)
    IN log # {} =>
        \A t \in Teams :
            LET own == Windows(log, Of(log, t))
                side == SideContext(log, t)
            IN /\ \A sign \in {1, -1}, length \in MinLength..MaxLength :
                    LET all == Bucket(own.combined, sign, length)
                    IN /\ length < MaxLength =>
                            Cell(all, sign).continued = ReachCounts(Of(log, t), sign, length + 1)
                       /\ Cell(all, sign).n =
                            Cell(Splits(all).home, sign).n + Cell(Splits(all).away, sign).n
                       /\ Cell(all, sign).n =
                            Cell(Splits(all).rest, sign).n + Cell(Splits(all).no_rest, sign).n
                       /\ CurrentSeason(log) <= Pooled =>
                            Cell(all, sign).n = Cell(Bucket(own.current, sign, length), sign).n
                                              + Cell(Bucket(own.previous, sign, length), sign).n
               /\ Abs(side.current) >= MinLength =>
                    side.history = Cell(Bucket(own.combined, Sign(side.current),
                                               LengthBucket(side.current)),
                                        Sign(side.current))

Moments == {AsOf(games[i]) : i \in DOMAIN games} \cup {Known(games[i]) : i \in DOMAIN games}

\* What a reading as of a time gives does not depend on any result that was
\* not known then: neither the streak, nor its history, nor the rating.
NoLookAhead ==
    LET log == TeamLog(games)
    IN \A T \in Moments :
        LET then == KnownBy(games, T)
        IN /\ \A t \in Teams : RatingAt(games, t, T) = RatingAt(then, t, T)
           /\ \A t \in Teams : SideValues(log, t, SeasonAt(T), T) =
                               SideValues(TeamLog(then), t, SeasonAt(T), T)

\* The rating read before a game is the one the engine carries into it, over
\* a winter and over any number of them, once the team's results are known.
RatingIsPregame ==
    LET elo == EloHistory(games, Competitive)
        rated == Done(games, Competitive)
    IN \A i \in rated : \A t \in Plays(games[i]) :
        (\A j \in rated : j < i /\ t \in Plays(games[j]) => Known(games[j]) <= AsOf(games[i]))
        => RatingAt(games, t, AsOf(games[i])) = Pregame(elo, games, i)[t]

\* No forecast of the walk-forward knows more than one made that day did:
\* every game trained on was known when any game tested was forecast, every
\* game is tested at most once, and a calibrator only sees games that the
\* classifier under it has not seen.
StepsSound ==
    /\ \A step \in Steps(games) :
        LET fit == StepFit(games, step)
        IN /\ \A i \in fit.train, j \in fit.test : Known(games[i]) <= AsOf(games[j])
           /\ fit.core \cap fit.validation = {}
    /\ \A k, l \in Steps(games) :
        k # l => StepFit(games, k).test \cap StepFit(games, l).test = {}
    /\ Rows(games) # {} => FinalFit(games).core \cap FinalFit(games).validation = {}
=============================================================================
