------------------------------ MODULE Forecast ------------------------------
(***************************************************************************)
(* Forecasts served and forecasts scored.                                  *)
(*                                                                         *)
(* The product forecasts a card as the day goes on                         *)
(* (services/prediction.py, modeling/serving.py), on whatever record it    *)
(* finds.  Later the backtest replays the same games from the whole record *)
(* (modeling/dataset.py, modeling/simulation.py, backtest/served.py) and   *)
(* reports the score as the product's.  That is only true if the replay    *)
(* reads, for each game, what the product could read.                      *)
(*                                                                         *)
(* What a build reads arrives on its own: a result when the game has ended, *)
(* its Statcast rows when somebody asks for that range of dates, with the   *)
(* game's end for their knowledge time, and the named starters with every   *)
(* schedule ingest, which writes over those it finds.  Only the first two   *)
(* are cut at the moment of a forecast.                                     *)
(*                                                                         *)
(* The state is the clock, what has arrived, and what was served.          *)
(***************************************************************************)
EXTENDS Features

CONSTANTS
    Schedules,    \* the schedules to explore, each a set of games
    ThisSeason,   \* the season in which the clock runs
    MinGames,     \* MIN_GAMES
    MinSample,    \* MIN_DISPERSION_SAMPLE, in games
    Backfills,    \* ranges of official dates Statcast is asked for
    MaxCalls,     \* bound: cards served
    MaxBehind     \* bound: results overdue

ASSUME ForecastAssumption ==
    /\ {ThisSeason, MaxCalls, MaxBehind} \subseteq Nat
    /\ {MinGames, MinSample} \subseteq Nat \ {0}
    /\ \A games \in Schedules : IsFiniteSet(games)
    /\ \A games \in Schedules : \A g \in games :
          /\ g.season \in 0..ThisSeason /\ g.day \in 0..(SeasonDays - 1)
          /\ g.slot \in DOMAIN SlotTick /\ Plays(g) \subseteq Teams /\ g.type \in {"R", "F"}
          /\ g.names # {} /\ g.names \subseteq [Plays(g) -> SUBSET (Teams \X {0, 1})]
          /\ g.off \in BOOLEAN
          /\ \A h \in games : g.id = h.id => g = h

VARIABLES
    sched,      \* the games on the schedule
    named,      \* who is named to start each game, for each side
    now,        \* the clock
    final,      \* the record: the games on it as finished
    tracked,    \* those whose Statcast rows are stored
    served      \* the snapshots, each with what it was made from

vars == <<sched, named, now, final, tracked, served>>

Current == {g \in sched : g.season = ThisSeason}
Card(d) == {g \in sched : OfficialDate(g) = d}
Row(g) == GameContext(g, named[g.id])
Moments == UNION {{AsOf(g), Pitch(g) + 1, Known(g)} : g \in Current}
Overdue(rec, T) == {g \in sched : ~ g.off /\ Known(g) <= T /\ g \notin rec}

-----------------------------------------------------------------------------
(* Expected runs.                                                          *)

NoMeans == [kind |-> "none", of |-> {}]

\* From the season to date.
ExpectedRuns(rec, g, T) ==
    LET league == LeagueBaseline(rec, g.season, T)
    IN IF league = {} \/ \E t \in Plays(g) : Cardinality(Season(rec, g, t, T)) < MinGames
       THEN NoMeans
       ELSE [kind |-> "base",
             of |-> league \cup Tagged("team", UNION {Season(rec, g, t, T) : t \in Plays(g)})]

\* From the projections.
ProjectedRuns(rec, g, T) ==
    LET p == [t \in Plays(g) |->
                 TeamProjection(rec, g, t, T, LeagueBaseline(rec, g.season, T))]
    IN IF \E t \in Plays(g) : p[t].n < MinGames THEN NoMeans
       ELSE [kind |-> "projected", of |-> UNION {p[t].of : t \in Plays(g)}]

\* The named starter against his rotation; nothing where it is not measured.
StarterEdge(rec, g, t, T) ==
    LET starts == Starts(Since(rec, g.season, PitcherWeights, T), Probable(g, t))
        last == SeasonRates(rec, g.season - 1, T)
        rotation == Team(Since(rec, g.season, TeamWeights, T), t)
        pooled == UNION {SeasonRates(rec, x.season, T) :
                            x \in {y \in starts \cup rotation : y.season # g.season}}
    IN IF Probable(g, t) = {} \/ LeagueBaseline(rec, g.season, T) = {} \/ last = {} \/ starts = {}
       THEN {}
       ELSE Tagged("start", starts) \cup Tagged("rotation", rotation) \cup Tagged("rates", last \cup pooled)

StarterAdjustments(rec, g, T, projected) ==
    IF projected = NoMeans THEN {} ELSE UNION {StarterEdge(rec, g, t, T) : t \in Plays(g)}

\* The named starter against his team's staff this season.
PitchingSplit(rec, g, t, T) ==
    LET staff == Season(rec, g, t, T)
        starts == Starts(staff, Probable(g, t))
    IN IF Cardinality(staff) < MinGames \/ starts = {} THEN {}
       ELSE Tagged("staff", staff) \cup Tagged("start", starts)

-----------------------------------------------------------------------------
(* What is served.                                                         *)

LiveAsOf(g, T) == Min({T, Pitch(g) - 1})

\* Mutant: fitted on whatever is loaded.
DispersionInSample(rec, T) == Tagged("runs", {g \in rec : g.type = "R"})

\* All history; nothing where there is too little of it.
DispersionAsOf(rec, T) ==
    LET rows == Slice(rec, T, 0)
    IN IF Cardinality(rows) < MinSample THEN {} ELSE Tagged("runs", rows)

\* The logistic alone, or blended with a simulation of these means.
ServeProbability(rec, g, T, fit) ==
    LET projected == ProjectedRuns(rec, g, T)
    IN IF fit = {} THEN NoMeans
       ELSE IF projected = NoMeans THEN ExpectedRuns(rec, g, T)
       ELSE [projected EXCEPT !.of = @ \cup StarterAdjustments(rec, g, T, projected)]

-----------------------------------------------------------------------------
(* What is scored.                                                         *)

\* The variants; those that differ by the park alone are left out.
RunModels ==
    [base |-> [projected |-> FALSE, pitching |-> FALSE, starter |-> FALSE],
     pitching |-> [projected |-> FALSE, pitching |-> TRUE, starter |-> FALSE],
     projected |-> [projected |-> TRUE, pitching |-> FALSE, starter |-> FALSE],
     served |-> [projected |-> TRUE, pitching |-> FALSE, starter |-> TRUE]]

RunComponents(rec, g, T) ==
    LET projected == ProjectedRuns(rec, g, T)
    IN [base |-> ExpectedRuns(rec, g, T), projected |-> projected,
        pitching |-> UNION {PitchingSplit(rec, g, t, T) : t \in Plays(g)},
        starter |-> StarterAdjustments(rec, g, T, projected)]

\* Mutant: a variant that places a starter needs one measured.
MeansMeasured(c, model) ==
    LET used == IF model.projected /\ c.projected # NoMeans THEN c.projected ELSE c.base
    IN IF used = NoMeans \/ (model.starter /\ c.starter = {}) THEN NoMeans
       ELSE [used EXCEPT !.of = @ \cup (IF model.pitching THEN c.pitching ELSE {})
                                  \cup (IF model.starter THEN c.starter ELSE {})]

\* The means of one variant: the projected ones fall back on the base.
Means(c, model) ==
    LET used == IF model.projected /\ c.projected # NoMeans THEN c.projected ELSE c.base
    IN IF used = NoMeans THEN NoMeans
       ELSE [used EXCEPT !.of = @ \cup (IF model.pitching THEN c.pitching ELSE {})
                                  \cup (IF model.starter THEN c.starter ELSE {})]

SimulateGame(rec, g, T, fit, model) ==
    IF fit = {} THEN NoMeans ELSE Means(RunComponents(rec, g, T), RunModels[model])

\* The rows of a season's games, at the moments the policy gives.
BuildDataset(rec, season) ==
    {[game |-> g, as_of |-> AsOf(g)] :
        g \in {x \in rec : /\ x.type = "R" /\ x.season = season
                           /\ CanBuild(x, AsOf(x)) /\ IsUsable(rec, x, AsOf(x))}}

\* Mutant: one fit for each moment.
AsOfSizesEach(rec, frame) == [r \in frame |-> DispersionAsOf(rec, r.as_of)]

\* One fit for each slate, at its earliest moment.
AsOfSizes(rec, frame) ==
    [r \in frame |->
        DispersionAsOf(rec, Min({x.as_of : x \in {y \in frame :
                                    OfficialDate(y.game) = OfficialDate(r.game)}}))]

EvaluateServed(rec, frame) ==
    LET sizes == AsOfSizes(rec, frame)
    IN [r \in frame |-> [fit |-> sizes[r],
                         run |-> SimulateGame(rec, Row(r.game), r.as_of, sizes[r], "served")]]

\* The games a comparison with this reference is made on, under a variant.
CompareRunModels(rec, frame, reference) ==
    {r \in frame : Means(RunComponents(rec, Row(r.game), r.as_of), RunModels[reference]) # NoMeans}

-----------------------------------------------------------------------------
(* The day.                                                                *)

Init ==
    /\ sched \in Schedules
    /\ named = [id \in {g.id : g \in sched} |->
                  CHOOSE names \in UNION {g.names : g \in {x \in sched : x.id = id}} : TRUE]
    /\ now = Min(Moments)
    /\ final = {g \in sched : ~ g.off /\ g.season < ThisSeason}
    /\ tracked = {}
    /\ served = {}

Advance ==
    /\ \E T \in Moments :
          /\ T > now /\ \A m \in Moments : m > now => T <= m
          /\ Cardinality(Overdue(final, T)) <= MaxBehind
          /\ now' = T
    /\ UNCHANGED <<sched, named, final, tracked, served>>

\* A game ends after its first pitch, and its result reaches the record.
EndGame(g) ==
    /\ g \in Current \ final /\ ~ g.off /\ now > Pitch(g)
    /\ final' = final \cup {g}
    /\ UNCHANGED <<sched, named, now, tracked, served>>

\* A schedule ingest writes over the names on the row of a game.
IngestSchedule(g) ==
    /\ \E names \in g.names \ {named[g.id]} : named' = [named EXCEPT ![g.id] = names]
    /\ UNCHANGED <<sched, now, final, tracked, served>>

\* A backfill stores the Statcast rows of the games that are over.
IngestStatcast(from, to) ==
    /\ tracked' = tracked \cup {g \in final : g.type = "R" /\ OfficialDate(g) \in from..to}
    /\ tracked' # tracked
    /\ UNCHANGED <<sched, named, now, final, served>>

\* generate_predictions_for_date.
Serve(d) ==
    /\ Cardinality({<<s.at, OfficialDate(s.game)>> : s \in served}) < MaxCalls
    /\ LET fit == DispersionAsOf(final, Min({LiveAsOf(g, now) : g \in Card(d)}))
           made == {g \in Card(d) : /\ CanBuild(g, LiveAsOf(g, now))
                                    /\ IsUsable(final, g, LiveAsOf(g, now))}
       IN served' = served \cup
            {[game |-> g, starters |-> named[g.id], at |-> now, as_of |-> LiveAsOf(g, now),
              record |-> final, tracked |-> tracked, fit |-> fit,
              run |-> ServeProbability(final, Row(g), LiveAsOf(g, now), fit)] : g \in made}
    /\ UNCHANGED <<sched, named, now, final, tracked>>

Next ==
    \/ Advance
    \/ \E g \in sched : EndGame(g) \/ IngestSchedule(g)
    \/ \E range \in Backfills : IngestStatcast(range[1], range[2])
    \/ \E d \in {OfficialDate(g) : g \in Current} : Serve(d)

Spec == Init /\ [][Next]_vars

-----------------------------------------------------------------------------
(* What the policy, the windows and the calendar are like, where a property *)
(* depends on it.                                                          *)

\* The policy puts the forecasts of one official date on its UTC day.
SlateOnOneDay == \A i \in DOMAIN SlotTick : SlotTick[i] - Ahead \in 0..(DayTicks - 1)

\* Its lead never reaches into the year before.
SlateInYear == \A i \in DOMAIN SlotTick : Ahead <= SlotTick[i]

\* A game is played in the calendar year of its season.
InItsYear == \A games \in Schedules : \A g \in games : Pitch(g) < SeasonStart(g.season + 1)

\* Every window and every season pooled lies within the lookback.
LookbackCovers ==
    /\ 1 <= LookbackSeasons /\ Recent <= Year
    /\ Len(TeamWeights) <= LookbackSeasons /\ Len(PitcherWeights) <= LookbackSeasons

-----------------------------------------------------------------------------
(* Properties.                                                             *)

Keys == UNION {FeatureKeys(v) : v \in DOMAIN FeatureSets}

\* The keys that read the schedule, who is named to start, and Statcast.
Scheduled == {"sched", "sched_7d"}
StarterKeys == {"vs_hand", "sp_identified", "sp_rates", "sp_depth", "sp_rest", "sp_experience",
                "lineup_hand", "arsenal", "proj_sp"} \cup ScSp
StatcastKeys == ScSp \cup LineupKeys

Differ(one, two) == {k \in Keys : one[k] # two[k]}

\* The build behind a snapshot, and the same build from what is stored today.
AsServed(s) == Build(s.record, GameContext(s.game, s.starters), s.as_of, s.tracked)
Replayed(s) == Build(final, Row(s.game), s.as_of, tracked)

\* Statcast rows of games that were over, stored only since.
Backfilled(s) == {g \in tracked \ s.tracked : Known(g) <= s.as_of}

\* Where no result was overdue, a build at the moment served, replayed from
\* what is stored today, reads what was read then.  It may differ in the
\* schedule; in what reads the starter, and only if another has been named;
\* in what reads Statcast, and only if a backfill came behind it.
LiveIsReplayed ==
    \A s \in served :
        Overdue(s.record, s.as_of) = {} =>
            Differ(AsServed(s), Replayed(s)) \subseteq
                Scheduled \cup (IF s.starters = named[s.game.id] THEN {} ELSE StarterKeys)
                          \cup (IF Backfilled(s) = {} THEN {} ELSE StatcastKeys)

\* LEAKAGE_PREVENTION.md:13: a prediction "may read a fact only if that fact
\* was knowable strictly before" it; test_leakage.py:259: game 1 of a
\* doubleheader is visible to game 2 once it has finished.  The schedule too.
ScheduleIsReplayed ==
    \A s \in served :
        Overdue(s.record, s.as_of) = {} => Differ(AsServed(s), Replayed(s)) \cap Scheduled = {}

\* What a backtest started now would score.  Serving changes nothing it reads,
\* so the states in which nothing is served yet stand for the others.
Backtested == IF served = {} THEN BuildDataset(final, ThisSeason) ELSE {}

\* The games a set of values was computed from.
GameTables == {"team", "league", "elo", "relief", "start", "statcast", "statcast_league", "order",
               "batter", "arsenal", "player", "log", "rates", "rotation", "staff", "runs"}
Read(of) == {x[2] : x \in {y \in of : y[1] \in GameTables}}

\* No result and no Statcast row that a training row, or its simulation, is
\* computed from became known after the moment it stands for: not those of its
\* own game, nor of one in progress.  Two things a row is made of are not cut
\* and not spoken of: the schedule's keys (see ScheduleIsReplayed), and who
\* was named to start.
NoFutureFact ==
    \A r \in Backtested :
        LET built == Build(final, Row(r.game), r.as_of, tracked)
            scored == EvaluateServed(final, {r})[r]
            read == Read(scored.fit) \cup Read(scored.run.of)
                    \cup UNION {Read(UNION {built[k][i] : i \in DOMAIN built[k]}) :
                                   k \in Keys \ Scheduled}
        IN \A g \in final : g.id \in read => Known(g) <= r.as_of /\ g # r.game

\* The games of one official date are measured against one set of priors, and
\* no game of that date is among them.
SlatePriors ==
    LET prior(g) == LeagueBaseline(final, g.season, AsOf(g)) \cup
                    StatcastLeague(tracked, g.season, AsOf(g))
    IN \A g, h \in Current \cap final : OfficialDate(g) = OfficialDate(h) =>
          prior(g) = prior(h) /\ h.id \notin Read(prior(g))

\* The keys that go back as far as the record does.
Remembering == {"elo", "sos", "streak", "sp_rest", "sp_experience"}

\* A backtest of one season loads a few before it.  It reads what the whole
\* record would have given but for these, and no more: a rating, a streak's
\* history and a starter's career, and the fit of the dispersion, made on
\* fewer games.  Where they are enough for a fit, each game is simulated with
\* the means it would have had.
LookbackEnough ==
    \A r \in Backtested :
        LET few == Loaded(final, ThisSeason)
            fewTracked == Loaded(tracked, ThisSeason)
            part == EvaluateServed(few, {r})[r]
            whole == EvaluateServed(final, {r})[r]
        IN /\ Differ(Build(few, Row(r.game), r.as_of, fewTracked),
                     Build(final, Row(r.game), r.as_of, tracked)) \subseteq Remembering
           /\ RunComponents(few, Row(r.game), r.as_of) = RunComponents(final, Row(r.game), r.as_of)
           /\ part.fit \subseteq whole.fit /\ (part.fit # {} => part.run = whole.run)

\* A card served whole, all of whose games counted and none of whose starters
\* has been named anew, is scored as it was served, at the moments it was
\* served: the same fit of the dispersion, and for each game the same means
\* or none.  So it is at the policy's moments, for a game served at its own,
\* the earliest of its date.
ServedAsScored ==
    \A s \in served :
        LET call == {x \in served : x.at = s.at /\ OfficialDate(x.game) = OfficialDate(s.game)}
            live == {[game |-> x.game, as_of |-> x.as_of] : x \in call}
            policy == {[game |-> x.game, as_of |-> AsOf(x.game)] : x \in call}
            mine == [game |-> s.game, as_of |-> s.as_of]
            earliest == s.as_of = AsOf(s.game) /\ \A x \in call : s.as_of <= AsOf(x.game)
        IN (/\ {x.game : x \in call} = Card(OfficialDate(s.game))
            /\ \A x \in call : /\ x.game \in final /\ x.game.type = "R"
                               /\ Overdue(x.record, x.as_of) = {}
                               /\ x.starters = named[x.game.id])
           => \A frame \in {live} \cup (IF earliest THEN {policy} ELSE {}) :
                 EvaluateServed(final, frame)[mine] = [fit |-> s.fit, run |-> s.run]

\* Against the base run model, every variant is compared on the same games.
VariantsCovered ==
    \A model \in DOMAIN RunModels :
        CompareRunModels(final, Backtested, "base")
            \subseteq CompareRunModels(final, Backtested, model)

=============================================================================
