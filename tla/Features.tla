------------------------------ MODULE Features ------------------------------
(***************************************************************************)
(* The feature builder (features/builder.py and the modules it calls): what *)
(* a forecast of one game, made at one time, reads from the record.        *)
(*                                                                         *)
(* A value is not a number but what it was computed from: the games, each  *)
(* tagged with the table it was read in, or nothing where the code reports *)
(* a missing value.  Two builds with equal values read the same rows.      *)
(* Features that read alike share a key: "record" stands for win           *)
(* percentage, run differential and Pythagorean expectation, "sp_rates"    *)
(* for ERA, FIP, WHIP and the rates per batter, and so on; one window,     *)
(* Recent, for all the trailing windows.  features/streaks.py and the Elo  *)
(* engine are followed result by result in TeamForm.                       *)
(*                                                                         *)
(* rec is the record: the games finished when the store was loaded.        *)
(* tracked is another: the games whose Statcast rows are stored, which come *)
(* from a job of their own.  A game is asked about through its context, the *)
(* row of games as it reads when the store is loaded: who is named to start *)
(* is whoever the last schedule ingest named.                               *)
(***************************************************************************)
EXTENDS Integers, Sequences, FiniteSets, FiniteSetsExt

CONSTANTS
    Teams,
    DayTicks,       \* ticks in a UTC day
    SlotTick,       \* first pitch of each slot of an official date, in ticks
    SeasonDays,
    Lag, Ahead,     \* RESULT_KNOWLEDGE_LAG, the T_MINUS_3H policy
    Recent,         \* the trailing windows
    TeamWeights, PitcherWeights,   \* the seasons pooled, in hundredths
    LookbackSeasons,
    MinForm, MinCorps,             \* three games, MIN_APPEARANCES_FOR_CORPS
    Leads,          \* how long before first pitch forecasts of its weather arrive
    Transactions,   \* moves of a team's best player on and off the injured list
    Recency         \* IL_RECENCY_DAYS

ASSUME FeaturesAssumption ==
    /\ {DayTicks, SeasonDays, Lag, Ahead, Recent, MinForm, MinCorps} \subseteq Nat \ {0}
    /\ SlotTick \in Seq(Nat)
    /\ TeamWeights \in Seq(0..100) /\ PitcherWeights \in Seq(0..100)
    /\ LookbackSeasons \in Nat /\ Recency \in Nat
    /\ Leads \subseteq Nat \ {0}
    /\ Transactions \subseteq [team : Teams, at : Nat, status : {"IL", "ACTIVE"}]

-----------------------------------------------------------------------------
(* The calendar.  A season starts with its year; a game late in the evening *)
(* is played on the next UTC day.                                          *)

Year == DayTicks * SeasonDays
SeasonStart(s) == Year * s
DayStart(T) == T - (T % DayTicks)
OfficialDate(g) == SeasonDays * g.season + g.day
Pitch(g) == DayTicks * OfficialDate(g) + SlotTick[g.slot]
Known(g) == Pitch(g) + Lag
AsOf(g) == Pitch(g) - Ahead
Plays(g) == {g.home, g.away}
Other(g, t) == IF t = g.home THEN g.away ELSE g.home

\* A team has two starters who take turns, one of each hand.
Starter(g, t) == <<t, g.day % 2>>
Hand(p) == p[2]

\* The row of a game, and who is named to start for each side: nobody, or one.
GameContext(g, starters) ==
    [id |-> g.id, season |-> g.season, day |-> g.day, slot |-> g.slot,
     home |-> g.home, away |-> g.away, starters |-> starters]

Probable(g, t) == g.starters[t]

-----------------------------------------------------------------------------
(* Reads of the as-of store.  The rate tables carry regular-season games.  *)

\* Mutant: a game is on record from its first pitch.
SliceByPitch(rec, T, from) ==
    {g \in rec : g.type = "R" /\ Pitch(g) <= T /\ Pitch(g) >= from}

Slice(rec, T, from) ==
    {g \in rec : g.type = "R" /\ Known(g) <= T /\ Pitch(g) < T /\ Pitch(g) >= from}

Team(rows, t) == {g \in rows : t \in Plays(g)}
Starts(rows, ps) == {g \in rows : ps \cap {Starter(g, t) : t \in Plays(g)} # {}}
Season(rec, g, t, T) == Team(Slice(rec, T, SeasonStart(g.season)), t)
Trailing(rec, t, T) == Team(Slice(rec, T, T - Recent), t)

\* Mutant: one season too few is loaded.
LoadedShort(rec, season) == {g \in rec : g.season > season - LookbackSeasons}

\* What a store loaded to score one season holds.
Loaded(rec, season) == {g \in rec : g.season >= season - LookbackSeasons}

-----------------------------------------------------------------------------
(* Values.                                                                 *)

Missing == [missing |-> TRUE, n |-> 0, of |-> {}]
Value(n, of) == [missing |-> FALSE, n |-> n, of |-> of]
Tagged(table, rows) == {<<table, g.id>> : g \in rows}
Constant == {<<"constant", 0>>}

\* shrink, shrink_mean: nothing only where there are neither rows nor a prior.
Shrunk(rows, table, prior) ==
    IF rows = {} /\ prior = {} THEN Missing
    ELSE Value(Cardinality(rows), Tagged(table, rows) \cup prior)

Unless(cond, value) == IF cond THEN Missing ELSE value

-----------------------------------------------------------------------------
(* League baselines: the priors, cut where as_of's UTC day starts.         *)

\* Mutant: the priors are cut at the moment of the forecast.
LeagueBaselineAsOf(rec, season, T) ==
    Tagged("league", Slice(rec, T, SeasonStart(season))
                     \cup Slice(rec, SeasonStart(season), SeasonStart(season - 1)))

LeagueBaseline(rec, season, T) ==
    Tagged("league", Slice(rec, DayStart(T), SeasonStart(season))
                     \cup Slice(rec, SeasonStart(season), SeasonStart(season - 1)))

StatcastLeague(tracked, season, T) ==
    Tagged("statcast_league", Slice(tracked, DayStart(T), SeasonStart(season)))

TeamSeasonRates(rec, season, T, ts) ==
    {g \in Slice(rec, DayStart(T), SeasonStart(season)) : Plays(g) \cap ts # {}}

-----------------------------------------------------------------------------
(* The groups of one side: t of game g, at T.                              *)

\* The games behind an Elo rating, and the winters it was regressed in.
Rated(rec, t, T) ==
    LET known == {g \in rec : Known(g) <= T}
        own == Team(known, t)
        behind == {g \in known : Pitch(g) <= Max({Pitch(o) : o \in own})}
    IN IF own = {} THEN {}
       ELSE Tagged("elo", behind) \cup {<<"winter", g.season>> : g \in known}

TeamStrength(rec, g, t, T, league) ==
    LET season == Season(rec, g, t, T)
        faced == {Other(x, t) : x \in season}
        rates == TeamSeasonRates(rec, g.season, T, faced)
    IN [elo |-> Value(Cardinality({x \in rec : Known(x) <= T /\ t \in Plays(x)}), Rated(rec, t, T)),
        record |-> Shrunk(season, "team", Constant),
        split |-> Unless(season = {},
                    Shrunk({x \in season : (t = x.home) = (t = g.home)}, "team", Constant)),
        sos |-> Unless(season = {},
                    Value(Cardinality(season), UNION {Rated(rec, o, T) : o \in faced})),
        opp_adj |-> Unless(season = {} \/ league = {} \/ rates = {},
                    Value(Cardinality(season), Tagged("team", season \cup rates) \cup league))]

Offense(rec, g, t, T, league) ==
    LET season == Season(rec, g, t, T)
        trailing == Trailing(rec, t, T)
        hands == {Hand(p) : p \in Probable(g, Other(g, t))}
        off == Shrunk(season, "team", league)
    IN [off |-> off,
        off_recent |-> Shrunk(trailing, "team", league),
        form |-> Unless(off.missing \/ Cardinality(trailing) < MinForm,
                    Value(Cardinality(trailing), Tagged("team", trailing) \cup off.of)),
        vs_hand |-> Unless(hands = {} \/ season = {},
                    Shrunk({x \in season : Hand(Starter(x, Other(x, t))) \in hands},
                           "team", off.of))]

Defense(rec, g, t, T, league) == [def |-> Shrunk(Season(rec, g, t, T), "team", league)]

\* Days running on which the relievers pitched, ending the day before T's.
ConsecutiveDays(rows, T) ==
    LET days == {Pitch(x) \div DayTicks : x \in rows}
        today == T \div DayTicks
    IN Max({k \in 0..Cardinality(days) : \A j \in 1..k : (today - j) \in days})

\* The relievers seen of late, and what each has left.
BullpenStatus(season, T, league) ==
    LET corps == {x \in season : Pitch(x) >= T - Recent}
    IN [corps |-> corps,
        of |-> Tagged("relief", season) \cup league \cup {<<"running", ConsecutiveDays(corps, T)>>}]

\* What the pen has left; too small a pen is not measured.
Summarize(status) ==
    Unless(Cardinality(status.corps) < MinCorps, Value(Cardinality(status.corps), status.of))

\* His last start, however long ago.
StarterRest(career) ==
    Unless(career = {}, Value(Cardinality(career), {<<"last_start", Max({Pitch(x) : x \in career})>>}))

Pitching(rec, g, t, T, league) ==
    LET p == Probable(g, t)
        starts == Starts(Season(rec, g, t, T), p)
        career == Starts(Slice(rec, T, 0), p)
        trailing == Trailing(rec, t, T)
    IN [sp_identified |-> Value(1, {<<"named", Cardinality(p)>>}),
        sp_rates |-> Unless(p = {}, Shrunk(starts, "start", league)),
        sp_depth |-> Unless(p = {}, Shrunk(starts, "start", Constant)),
        sp_rest |-> Unless(p = {}, StarterRest(career)),
        sp_experience |-> Unless(p = {}, Value(Cardinality(career), Tagged("start", career))),
        bp_recent |-> Shrunk(trailing, "relief", league),
        bp_load |-> Value(Cardinality(trailing), Tagged("relief", Season(rec, g, t, T) \cup trailing)),
        bp_available |-> Summarize(BullpenStatus(Season(rec, g, t, T), T, league))]

\* The velocity of late against the season's.
VelocityTrend(recent, season) ==
    Unless(recent = {}, Value(Cardinality(recent), Tagged("statcast", recent \cup season)))

\* Last season is the prior of this one, once he has pitched in it.
StatcastValues(season, prior, recent, league) ==
    IF season = {} THEN [sc_rates |-> Missing, sc_trend |-> Missing]
    ELSE [sc_rates |-> Shrunk(season, "statcast", Tagged("statcast", prior) \cup league),
          sc_trend |-> VelocityTrend(recent, season)]

\* With none stored every slice is empty, and so the values are missing.
StatcastStarter(tracked, g, t, T) ==
    LET p == Probable(g, t)
        since == Starts(Slice(tracked, T, SeasonStart(g.season - 1)), p)
        season == Starts(Slice(tracked, T, SeasonStart(g.season)), p)
        recent == Starts(Slice(tracked, T, T - Recent), p)
    IN StatcastValues(season, {x \in since : Pitch(x) < SeasonStart(g.season)}, recent,
                      StatcastLeague(tracked, g.season, T))

\* How the nine fare against the pitches he throws.
ArsenalEdges(profiles, of, usage) ==
    Unless(profiles = {} \/ usage = {},
           Value(Cardinality(profiles), of \cup Tagged("arsenal", usage)))

LineupValues(orders, profiles, hands, usage, league) ==
    LET of == Tagged("order", orders) \cup Tagged("batter", profiles) \cup league
        covered == Value(Cardinality(profiles), of)
        none == orders = {} \/ profiles = {}
    IN [lineup |-> Unless(none, covered),
        lineup_hand |-> Unless(none, [covered EXCEPT !.of = @ \cup {<<"hand", h>> : h \in hands}]),
        arsenal |-> Unless(orders = {}, ArsenalEdges(profiles, of, usage))]

\* The nine are those of the club's recent box scores, never the posted ones.
Lineup(rec, g, t, T, tracked) ==
    LET facing == Probable(g, Other(g, t))
        usage == Starts(Slice(tracked, T, SeasonStart(g.season)), facing)
    IN LineupValues(Trailing(rec, t, T), Season(tracked, g, t, T),
                    {Hand(p) : p \in facing}, usage, StatcastLeague(tracked, g.season, T))

\* The schedule is cut by first pitch, and finished means finished when loaded.
Schedule(rec, t, T) ==
    LET played == {x \in rec : t \in Plays(x) /\ Pitch(x) < T}
    IN [sched |-> Unless(played = {},
                    Value(Cardinality(played), {<<"last_game", Max({Pitch(x) : x \in played})>>})),
        sched_7d |-> Value(Cardinality(played),
                    Tagged("schedule", {x \in played : Pitch(x) >= T - Recent}))]

History(rec, g, t, T) ==
    LET met == {x \in Season(rec, g, t, T) : Plays(x) = Plays(g)}
    IN [h2h |-> Unless(met = {}, Shrunk(met, "team", Constant))]

\* The last move of each player in the window, where it is onto the list.
Unavailable(T) ==
    LET moves == {m \in Transactions : m.at \in (T - Recency)..T}
    IN {m.team : m \in {x \in moves : /\ x.status = "IL"
                                      /\ \A y \in moves : y.team = x.team => y.at <= x.at}}

\* What a club is without: nothing where it has not played of late.
AvailabilityLoss(rows, t, out) ==
    Unless(rows = {}, Value(Cardinality(rows), Tagged("player", rows)
                            \cup (IF t \in out THEN {<<"lost", 1>>} ELSE {})))

Availability(rec, t, T) ==
    [il_lost |-> Unless(Transactions = {}, AvailabilityLoss(Trailing(rec, t, T), t, Unavailable(T)))]

StreakValues(rec, g, t, T) ==
    LET log == Slice(rec, T, 0)
    IN [streak |-> Value(Cardinality(Season(rec, g, t, T)), Tagged("log", log))]

-----------------------------------------------------------------------------
(* Multi-season projections.                                               *)

\* A completed season's league rates.
SeasonRates(rec, s, T) == Slice(rec, Min({T, SeasonStart(s + 1)}), SeasonStart(s))

Since(rec, season, weights, T) == Slice(rec, T, SeasonStart(season - Len(weights)))

\* The weighted games behind a pooled rate, as the code rounds them.
PriorEvidence(rows, season, weights) ==
    MapThenSumSet(LAMBDA k : weights[k] * Cardinality({g \in rows : g.season = season - k}),
                  DOMAIN weights)

Evidence(rows, season, weights) ==
    IF rows = {} THEN 0
    ELSE (PriorEvidence(rows, season, weights)
          + 100 * Cardinality({g \in rows : g.season = season})) \div 100

Pooled(rec, rows, table, season, weights, T, league) ==
    Value(Evidence(rows, season, weights),
          Tagged(table, rows) \cup league
          \cup Tagged("rates", UNION {SeasonRates(rec, x.season, T) :
                                         x \in {y \in rows : y.season # season}}))

TeamProjection(rec, g, t, T, league) ==
    Unless(league = {},
           Pooled(rec, Team(Since(rec, g.season, TeamWeights, T), t), "team",
                  g.season, TeamWeights, T, league))

StarterProjection(rec, g, t, T, league) ==
    Unless(Probable(g, t) = {} \/ league = {},
           Pooled(rec, Starts(Since(rec, g.season, PitcherWeights, T), Probable(g, t)), "start",
                  g.season, PitcherWeights, T, league))

Projection(rec, g, t, T, league) ==
    [proj_team |-> TeamProjection(rec, g, t, T, league),
     proj_sp |-> StarterProjection(rec, g, t, T, league)]

-----------------------------------------------------------------------------
(* The weather of the game.                                                *)

\* The latest forecast known at T, by how long before first pitch it came.
WeatherAsOf(g, T) ==
    LET known == {l \in Leads : Pitch(g) - l <= T}
    IN IF known = {} THEN {} ELSE {<<"forecast", Min(known)>>}

\* How the air carries.
CarryIndex(air) == Unless(air = {}, Value(1, air))

\* How many balls in the air two staffs allow.
FlyballTendency(staffs) ==
    Unless({} \in staffs, Value(1, Tagged("relief", UNION staffs)))

Weather(rec, g, T) ==
    LET carry == CarryIndex(WeatherAsOf(g, T))
        flyball == FlyballTendency({Season(rec, g, t, T) : t \in Plays(g)})
    IN [wx |-> carry,
        wx_flyball |-> Unless(carry.missing \/ flyball.missing,
                              Value(1, carry.of \cup flyball.of))]

-----------------------------------------------------------------------------
(* Feature sets.                                                           *)

FsV1 == {"elo", "record", "split", "sos", "opp_adj", "off", "off_recent", "form", "vs_hand",
         "sp_identified", "sp_rates", "sp_depth", "sp_rest", "sp_experience",
         "bp_recent", "bp_load", "def", "sched", "sched_7d", "h2h"}
ScSp == {"sc_rates", "sc_trend"}
ArsenalOnly == {"arsenal"}
LineupKeys == {"lineup", "lineup_hand"} \cup ArsenalOnly
BullpenAvailability == {"bp_available"}
WeatherKeys == {"wx", "wx_flyball"}
AvailabilityKeys == {"il_lost"}
Streaks == {"streak"}
Projections == {"proj_team", "proj_sp"}

FeatureSets ==
    [fs_v1 |-> FsV1, fs_v2 |-> FsV1 \cup ScSp, fs_v3 |-> FsV1 \cup LineupKeys,
     fs_v4 |-> FsV1 \cup ArsenalOnly, fs_v5 |-> FsV1 \cup BullpenAvailability,
     fs_v6 |-> FsV1 \cup WeatherKeys, fs_v7 |-> FsV1 \cup AvailabilityKeys,
     fs_v8 |-> FsV1 \cup Streaks, fs_v9 |-> FsV1 \cup Projections]

FeatureKeys(version) == FeatureSets[version]

-----------------------------------------------------------------------------
(* A build.                                                                *)

\* values.update.
values ++ more ==
    [k \in DOMAIN values \cup DOMAIN more |->
        IF k \in DOMAIN more THEN more[k] ELSE values[k]]

BuildSide(rec, g, t, T, tracked) ==
    LET league == LeagueBaseline(rec, g.season, T)
    IN TeamStrength(rec, g, t, T, league) ++ Offense(rec, g, t, T, league)
       ++ Defense(rec, g, t, T, league) ++ Pitching(rec, g, t, T, league)
       ++ StatcastStarter(tracked, g, t, T) ++ Lineup(rec, g, t, T, tracked)
       ++ Schedule(rec, t, T) ++ History(rec, g, t, T) ++ Availability(rec, t, T)
       ++ StreakValues(rec, g, t, T) ++ Projection(rec, g, t, T, league)

\* A difference of the two sides: missing where either is.
Diff(home, away) ==
    IF home.missing \/ away.missing THEN <<>> ELSE <<home.of, away.of>>

\* Every feature of the game.  Built only before first pitch.
CanBuild(g, T) == T < Pitch(g)
Build(rec, g, T, tracked) ==
    LET home == BuildSide(rec, g, g.home, T, tracked)
        away == BuildSide(rec, g, g.away, T, tracked)
        air == Weather(rec, g, T)
    IN [k \in DOMAIN home |-> Diff(home[k], away[k])] ++ [k \in DOMAIN air |-> Diff(air[k], air[k])]

HasHistory(rec, g, t, T) ==
    \/ Season(rec, g, t, T) # {}
    \/ TeamProjection(rec, g, t, T, LeagueBaseline(rec, g.season, T)).n > 0

IsUsable(rec, g, T) == \A t \in Plays(g) : HasHistory(rec, g, t, T)

=============================================================================
