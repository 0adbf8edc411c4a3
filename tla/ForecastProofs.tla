--------------------------- MODULE ForecastProofs ---------------------------
(***************************************************************************)
(* That a replay reads what the forecast read, for any schedule, any       *)
(* policy and any weights: the reads of the builder and of the run model   *)
(* that are cut at the moment of the forecast, and two records that agree   *)
(* on what was known then are the same record to them.  What is not cut is  *)
(* confined to the keys that read it.                                      *)
(***************************************************************************)
EXTENDS Forecast, FiniteSetTheorems, NaturalsInduction, WellFoundedInduction, TLAPS

-----------------------------------------------------------------------------
(* The calendar.                                                           *)

\* The games a schedule may hold.
Scheduleds == UNION Schedules

LEMMA Times ==
  ASSUME NEW a \in Nat, NEW b \in Nat, NEW c \in Nat, a <= b
  PROVE  /\ c * a <= c * b /\ c * a \in Nat /\ c * b \in Nat
  OBVIOUS

\* A game has its place in the calendar, inside its season.
LEMMA Pitched ==
  ASSUME NEW g \in Scheduleds
  PROVE  /\ Pitch(g) \in Nat /\ Known(g) \in Nat /\ AsOf(g) \in Int
         /\ Pitch(g) < Known(g) /\ AsOf(g) < Pitch(g)
         /\ OfficialDate(g) \in Nat
         /\ g.season \in 0..ThisSeason
         /\ SeasonStart(g.season) \in Nat /\ SeasonStart(g.season) <= Pitch(g)
<1>1. /\ g.season \in 0..ThisSeason /\ g.day \in 0..(SeasonDays - 1)
      /\ g.slot \in DOMAIN SlotTick
  BY ForecastAssumption DEF Scheduleds
<1>2. /\ DayTicks \in Nat /\ SeasonDays \in Nat /\ Lag \in Nat \ {0} /\ Ahead \in Nat \ {0}
      /\ SlotTick \in Seq(Nat) /\ ThisSeason \in Nat
  BY FeaturesAssumption, ForecastAssumption
<1>3. SlotTick[g.slot] \in Nat
  BY <1>1, <1>2
<1> DEFINE s == g.season
<1>4. s \in Nat /\ g.day \in Nat
  BY <1>1, <1>2
<1>5. SeasonDays * s \in Nat /\ OfficialDate(g) \in Nat /\ SeasonDays * s <= OfficialDate(g)
  BY <1>2, <1>4 DEF OfficialDate
<1>6. /\ DayTicks * (SeasonDays * s) <= DayTicks * OfficialDate(g)
      /\ DayTicks * OfficialDate(g) \in Nat /\ DayTicks * (SeasonDays * s) \in Nat
  BY <1>2, <1>5, Times
<1>7. SeasonStart(s) = DayTicks * (SeasonDays * s)
  BY <1>2, <1>4 DEF SeasonStart, Year
<1>8. Pitch(g) \in Nat /\ SeasonStart(s) <= Pitch(g) /\ SeasonStart(s) \in Nat
  <2> DEFINE p == DayTicks * OfficialDate(g)
             q == DayTicks * (SeasonDays * s)
  <2>1. Pitch(g) = p + SlotTick[g.slot]
    BY DEF Pitch
  <2>2. p \in Nat /\ q \in Nat /\ q <= p
    BY <1>6
  <2>3. SeasonStart(s) = q
    BY <1>7
  <2> HIDE DEF p, q
  <2> QED BY <1>3, <2>1, <2>2, <2>3
<1>9. Known(g) = Pitch(g) + Lag /\ AsOf(g) = Pitch(g) - Ahead
  BY DEF Known, AsOf
<1>10. /\ Known(g) \in Nat /\ AsOf(g) \in Int
       /\ Pitch(g) < Known(g) /\ AsOf(g) < Pitch(g)
  BY <1>2, <1>8, <1>9
<1> QED
  BY <1>1, <1>5, <1>8, <1>10

\* The context of a game has its place, its sides and the starters named.
LEMMA Contexts ==
  ASSUME NEW g, NEW starters
  PROVE  LET c == GameContext(g, starters)
         IN /\ c.season = g.season /\ c.home = g.home /\ c.away = g.away /\ c.id = g.id
            /\ Plays(c) = Plays(g) /\ Pitch(c) = Pitch(g)
            /\ \A t : Probable(c, t) = starters[t]
  BY DEF GameContext, Plays, Pitch, OfficialDate, Probable

\* The UTC day of a moment starts no later.
LEMMA DayStarted ==
  ASSUME NEW T \in Int
  PROVE  DayStart(T) \in Int /\ DayStart(T) <= T
<1>1. DayTicks \in Nat \ {0}
  BY FeaturesAssumption
<1>2. T % DayTicks \in 0..(DayTicks - 1)
  BY <1>1
<1> QED BY <1>1, <1>2 DEF DayStart

LEMMA MinOfTwo ==
  ASSUME NEW a \in Int, NEW b \in Int
  PROVE  Min({a, b}) = IF a <= b THEN a ELSE b
<1>1. CASE a <= b
  <2>1. \A x \in {a, b} : (\A y \in {a, b} : x <= y) <=> x = a
    BY <1>1
  <2>2. Min({a, b}) = a
    BY <2>1 DEF Min
  <2> QED BY <1>1, <2>2
<1>2. CASE ~ (a <= b)
  <2>1. \A x \in {a, b} : (\A y \in {a, b} : x <= y) <=> x = b
    BY <1>2
  <2>2. Min({a, b}) = b
    BY <2>1 DEF Min
  <2> QED BY <1>2, <2>2
<1> QED BY <1>1, <1>2

\* A set of moments that is bounded below has an earliest.
LEMMA Earliest ==
  ASSUME NEW M \in SUBSET Int, M # {}, NEW b \in Int, \A m \in M : m >= b
  PROVE  Min(M) \in M /\ \A m \in M : Min(M) <= m
<1> DEFINE S == {m - b : m \in M}
           R == {ss \in Nat \X Nat : ss[1] < ss[2]}
<1>1. S \in SUBSET Nat /\ S # {}
  <2>1. \A m \in M : m - b \in Nat
    OBVIOUS
  <2> QED BY <2>1
<1>2. IsWellFoundedOn(R, Nat)
  BY NatLessThanWellFounded, Zenon DEF OpToRel
<1>3. PICK n \in S : \A k \in S : ~ (<<k, n>> \in R)
  <2> HIDE DEF R, S
  <2> QED BY <1>1, <1>2, WFMin, Zenon
<1>4. PICK m \in M : n = m - b
  BY <1>3
<1>5. ASSUME NEW k \in M PROVE m <= k
  <2>1. k - b \in S /\ <<k - b, n>> \in Nat \X Nat
    BY <1>1, <1>3
  <2>2. ~ (k - b < n)
    BY <1>3, <2>1
  <2> QED BY <1>4, <2>2
<1> QED BY <1>5 DEF Min

-----------------------------------------------------------------------------
(* Two records that agree.                                                 *)

\* They differ only in games of the season in progress whose results were not
\* known at T.
Agree(rec, other, T) ==
    /\ rec \subseteq Scheduleds /\ other \subseteq Scheduleds
    /\ \A g \in (rec \ other) \cup (other \ rec) : g.season = ThisSeason /\ T < Known(g)

\* A cut at T or before gives the same games of either.
LEMMA SameSlice ==
  ASSUME NEW rec, NEW other, NEW T \in Int, Agree(rec, other, T),
         NEW U \in Int, U <= T, NEW from
  PROVE  Slice(rec, U, from) = Slice(other, U, from)
<1>1. \A g \in rec \cup other : Known(g) \in Nat
  BY Pitched DEF Agree
<1>2. \A g \in rec \cup other : Known(g) <= U => (g \in rec <=> g \in other)
  BY <1>1 DEF Agree
<1> QED BY <1>2 DEF Slice

\* So does the cut at the start of the season in progress.
LEMMA SamePast ==
  ASSUME NEW rec, NEW other, NEW T \in Int, Agree(rec, other, T), NEW from
  PROVE  Slice(rec, SeasonStart(ThisSeason), from) = Slice(other, SeasonStart(ThisSeason), from)
<1>1. \A g \in rec \cup other :
        Pitch(g) < SeasonStart(ThisSeason) => (g \in rec <=> g \in other)
  <2> SUFFICES ASSUME NEW g \in rec \cup other, Pitch(g) < SeasonStart(ThisSeason)
               PROVE  g \in rec <=> g \in other
    OBVIOUS
  <2>1. g.season # ThisSeason
    BY Pitched DEF Agree
  <2> QED BY <2>1 DEF Agree
<1> QED BY <1>1 DEF Slice

LEMMA SameCuts ==
  ASSUME NEW rec, NEW other, NEW T \in Int, Agree(rec, other, T)
  PROVE  /\ \A from : Slice(rec, T, from) = Slice(other, T, from)
         /\ \A from : Slice(rec, DayStart(T), from) = Slice(other, DayStart(T), from)
         /\ \A s \in Int : SeasonRates(rec, s, T) = SeasonRates(other, s, T)
<1>1. \A from : Slice(rec, T, from) = Slice(other, T, from)
  BY SameSlice
<1>2. \A from : Slice(rec, DayStart(T), from) = Slice(other, DayStart(T), from)
  BY SameSlice, DayStarted
<1>3. ASSUME NEW s \in Int PROVE SeasonRates(rec, s, T) = SeasonRates(other, s, T)
  <2>1. SeasonStart(s + 1) \in Int
    BY FeaturesAssumption DEF SeasonStart, Year
  <2>2. Min({T, SeasonStart(s + 1)}) \in Int /\ Min({T, SeasonStart(s + 1)}) <= T
    BY <2>1, MinOfTwo
  <2> QED BY <2>2, SameSlice DEF SeasonRates
<1> QED BY <1>1, <1>2, <1>3

\* Two records that a build of game g at T reads alike, but for what goes back
\* further than the seasons pooled: ratings, careers and streaks.
Near(rec, other, g, T) ==
    /\ rec \subseteq Scheduleds /\ other \subseteq Scheduleds /\ g.season \in Int
    /\ \A from \in {SeasonStart(g.season - 1), SeasonStart(g.season), T - Recent} :
          Slice(rec, T, from) = Slice(other, T, from)
    /\ \A from \in {SeasonStart(g.season)} :
          Slice(rec, DayStart(T), from) = Slice(other, DayStart(T), from)
    /\ LeagueBaseline(rec, g.season, T) = LeagueBaseline(other, g.season, T)
    /\ \A w \in {TeamWeights, PitcherWeights} :
          Since(rec, g.season, w, T) = Since(other, g.season, w, T)
    /\ \A s \in {x.season : x \in rec} \cup {g.season - 1} :
          SeasonRates(rec, s, T) = SeasonRates(other, s, T)

\* Records that agree are read alike for a game of the season in progress.
LEMMA AgreeNear ==
  ASSUME NEW rec, NEW other, NEW T \in Int, Agree(rec, other, T),
         NEW g, g.season = ThisSeason
  PROVE  Near(rec, other, g, T)
<1>1. /\ \A from : Slice(rec, T, from) = Slice(other, T, from)
      /\ \A from : Slice(rec, DayStart(T), from) = Slice(other, DayStart(T), from)
      /\ \A s \in Int : SeasonRates(rec, s, T) = SeasonRates(other, s, T)
  BY SameCuts
<1>2. \A from : Slice(rec, SeasonStart(g.season), from) = Slice(other, SeasonStart(g.season), from)
  BY SamePast
<1>3. LeagueBaseline(rec, g.season, T) = LeagueBaseline(other, g.season, T)
  BY <1>1, <1>2 DEF LeagueBaseline
<1>4. \A w : Since(rec, g.season, w, T) = Since(other, g.season, w, T)
  BY <1>1 DEF Since
<1>5. g.season \in Int /\ {x.season : x \in rec} \cup {g.season - 1} \subseteq Int
  BY Pitched, ForecastAssumption DEF Agree
<1> QED BY <1>1, <1>3, <1>4, <1>5 DEF Near, Agree

\* Statcast rows that a build of a game of the season at T reads alike.
NearTracked(rows, more, season, T) ==
    /\ \A from \in {SeasonStart(season - 1), SeasonStart(season), T - Recent} :
          Slice(rows, T, from) = Slice(more, T, from)
    /\ Slice(rows, DayStart(T), SeasonStart(season)) = Slice(more, DayStart(T), SeasonStart(season))

\* Rows stored since of games that were not over are not read.
LEMMA LaterNear ==
  ASSUME NEW rows, NEW more, rows \subseteq more, more \subseteq Scheduleds, NEW T \in Int,
         \A g \in more \ rows : ~ (Known(g) <= T), NEW season
  PROVE  NearTracked(rows, more, season, T)
<1>1. ASSUME NEW U \in Int, U <= T, NEW from PROVE Slice(rows, U, from) = Slice(more, U, from)
  <2>1. \A g \in more : Known(g) \in Nat
    BY Pitched
  <2>2. \A g \in more : Known(g) <= U => g \in rows
    BY <1>1, <2>1
  <2> QED BY <2>2 DEF Slice
<1>2. DayStart(T) \in Int /\ DayStart(T) <= T
  BY DayStarted
<1> QED BY <1>1, <1>2 DEF NearTracked

\* The reads of one side.
LEMMA SameReads ==
  ASSUME NEW rec, NEW other, NEW T, NEW g, Near(rec, other, g, T)
  PROVE  /\ \A t : Season(rec, g, t, T) = Season(other, g, t, T)
         /\ \A t : Trailing(rec, t, T) = Trailing(other, t, T)
         /\ \A ts : TeamSeasonRates(rec, g.season, T, ts) = TeamSeasonRates(other, g.season, T, ts)
<1>1. \A t : Season(rec, g, t, T) = Season(other, g, t, T)
  BY DEF Near, Season
<1>2. \A t : Trailing(rec, t, T) = Trailing(other, t, T)
  BY DEF Near, Trailing
<1>3. \A ts : TeamSeasonRates(rec, g.season, T, ts) = TeamSeasonRates(other, g.season, T, ts)
  BY DEF Near, TeamSeasonRates
<1> QED BY <1>1, <1>2, <1>3

\* What a rating is made of.
LEMMA SameRated ==
  ASSUME NEW rec, NEW other, NEW T \in Int, Agree(rec, other, T)
  PROVE  /\ \A t : Rated(rec, t, T) = Rated(other, t, T)
         /\ \A t : {x \in rec : Known(x) <= T /\ t \in Plays(x)} =
                   {x \in other : Known(x) <= T /\ t \in Plays(x)}
<1>1. \A x \in rec \cup other : Known(x) \in Nat
  BY Pitched DEF Agree
<1>2. {x \in rec : Known(x) <= T} = {x \in other : Known(x) <= T}
  BY <1>1 DEF Agree
<1>3. \A t : Rated(rec, t, T) = Rated(other, t, T)
  BY <1>2 DEF Rated
<1>4. \A t : {x \in rec : Known(x) <= T /\ t \in Plays(x)} =
             {x \in other : Known(x) <= T /\ t \in Plays(x)}
  BY <1>2
<1> QED BY <1>3, <1>4

-----------------------------------------------------------------------------
(* The groups of one side.                                                 *)

\* Two dictionaries with the same keys whose values, but for some of them,
\* were computed from the same.
Alike(one, two, S) ==
    /\ DOMAIN one = DOMAIN two
    /\ \A k \in DOMAIN one \ S : one[k].missing = two[k].missing /\ one[k].of = two[k].of

LEMMA SameStrength ==
  ASSUME NEW rec, NEW other, NEW T, NEW g, Near(rec, other, g, T), NEW t, NEW league
  PROVE  Alike(TeamStrength(rec, g, t, T, league), TeamStrength(other, g, t, T, league), Remembering)
<1>1. Season(rec, g, t, T) = Season(other, g, t, T)
  BY SameReads
<1>2. \A ts : TeamSeasonRates(rec, g.season, T, ts) = TeamSeasonRates(other, g.season, T, ts)
  BY SameReads
<1> DEFINE one == TeamStrength(rec, g, t, T, league)
           two == TeamStrength(other, g, t, T, league)
<1>3. DOMAIN one = {"elo", "record", "split", "sos", "opp_adj"} /\ DOMAIN two = DOMAIN one
  BY DEF TeamStrength
<1>4. one.record = two.record /\ one.split = two.split
  BY <1>1 DEF TeamStrength
<1>5. one.opp_adj = two.opp_adj
  BY <1>1, <1>2 DEF TeamStrength
<1> HIDE DEF one, two
<1>6. Alike(one, two, Remembering)
  BY <1>3, <1>4, <1>5 DEF Alike, Remembering
<1> QED BY <1>6 DEF one, two

LEMMA SameOffense ==
  ASSUME NEW rec, NEW other, NEW T, NEW g, Near(rec, other, g, T), NEW t, NEW league
  PROVE  Offense(rec, g, t, T, league) = Offense(other, g, t, T, league)
<1>1. Season(rec, g, t, T) = Season(other, g, t, T) /\ Trailing(rec, t, T) = Trailing(other, t, T)
  BY SameReads
<1> QED BY <1>1 DEF Offense

LEMMA SamePitching ==
  ASSUME NEW rec, NEW other, NEW T, NEW g, Near(rec, other, g, T), NEW t, NEW league
  PROVE  Alike(Pitching(rec, g, t, T, league), Pitching(other, g, t, T, league), Remembering)
<1>1. Season(rec, g, t, T) = Season(other, g, t, T) /\ Trailing(rec, t, T) = Trailing(other, t, T)
  BY SameReads
<1> QED BY <1>1 DEF Pitching, Alike, Remembering

LEMMA SameStreak ==
  ASSUME NEW rec, NEW other, NEW T, NEW g, NEW t
  PROVE  Alike(StreakValues(rec, g, t, T), StreakValues(other, g, t, T), Remembering)
  BY DEF StreakValues, Alike, Remembering

\* Records that agree give those that go back further, too.
LEMMA SameMemory ==
  ASSUME NEW rec, NEW other, NEW T \in Int, Agree(rec, other, T),
         NEW g, g.season = ThisSeason, NEW t, NEW league
  PROVE  /\ TeamStrength(rec, g, t, T, league) = TeamStrength(other, g, t, T, league)
         /\ Pitching(rec, g, t, T, league) = Pitching(other, g, t, T, league)
         /\ StreakValues(rec, g, t, T) = StreakValues(other, g, t, T)
<1>1. Near(rec, other, g, T)
  BY AgreeNear
<1>2. Season(rec, g, t, T) = Season(other, g, t, T) /\ Trailing(rec, t, T) = Trailing(other, t, T)
  BY <1>1, SameReads
<1>3. \A ts : TeamSeasonRates(rec, g.season, T, ts) = TeamSeasonRates(other, g.season, T, ts)
  BY <1>1, SameReads
<1>4. \A o : Rated(rec, o, T) = Rated(other, o, T)
  BY SameRated
<1>5. {x \in rec : Known(x) <= T /\ t \in Plays(x)} = {x \in other : Known(x) <= T /\ t \in Plays(x)}
  BY SameRated
<1>6. Slice(rec, T, 0) = Slice(other, T, 0)
  BY SameCuts
<1>7. TeamStrength(rec, g, t, T, league) = TeamStrength(other, g, t, T, league)
  BY <1>2, <1>3, <1>4, <1>5 DEF TeamStrength
<1>8. Pitching(rec, g, t, T, league) = Pitching(other, g, t, T, league)
  BY <1>2, <1>6 DEF Pitching
<1>9. StreakValues(rec, g, t, T) = StreakValues(other, g, t, T)
  BY <1>2, <1>6 DEF StreakValues
<1> QED BY <1>7, <1>8, <1>9

LEMMA SameStatcast ==
  ASSUME NEW rows, NEW more, NEW T, NEW g, NearTracked(rows, more, g.season, T), NEW t
  PROVE  /\ StatcastStarter(rows, g, t, T) = StatcastStarter(more, g, t, T)
         /\ \A rec : Lineup(rec, g, t, T, rows) = Lineup(rec, g, t, T, more)
<1>1. StatcastLeague(rows, g.season, T) = StatcastLeague(more, g.season, T)
  BY DEF NearTracked, StatcastLeague
<1>2. /\ Slice(rows, T, SeasonStart(g.season)) = Slice(more, T, SeasonStart(g.season))
      /\ Slice(rows, T, SeasonStart(g.season - 1)) = Slice(more, T, SeasonStart(g.season - 1))
      /\ Slice(rows, T, T - Recent) = Slice(more, T, T - Recent)
  BY DEF NearTracked
<1>3. Season(rows, g, t, T) = Season(more, g, t, T)
  BY <1>2 DEF Season
<1>4. StatcastStarter(rows, g, t, T) = StatcastStarter(more, g, t, T)
  BY <1>1, <1>2 DEF StatcastStarter
<1>5. \A rec : Lineup(rec, g, t, T, rows) = Lineup(rec, g, t, T, more)
  BY <1>1, <1>2, <1>3 DEF Lineup
<1> QED BY <1>4, <1>5

\* The nine come from the record.
LEMMA SameNine ==
  ASSUME NEW rec, NEW other, NEW T, NEW g, Near(rec, other, g, T), NEW t, NEW rows
  PROVE  Lineup(rec, g, t, T, rows) = Lineup(other, g, t, T, rows)
<1>1. Trailing(rec, t, T) = Trailing(other, t, T)
  BY SameReads
<1> QED BY <1>1 DEF Lineup

LEMMA SameProjection ==
  ASSUME NEW rec, NEW other, NEW T, NEW g, Near(rec, other, g, T), NEW t, NEW league
  PROVE  /\ TeamProjection(rec, g, t, T, league) = TeamProjection(other, g, t, T, league)
         /\ StarterProjection(rec, g, t, T, league) = StarterProjection(other, g, t, T, league)
         /\ Projection(rec, g, t, T, league) = Projection(other, g, t, T, league)
<1>1. \A w \in {TeamWeights, PitcherWeights} :
         Since(rec, g.season, w, T) = Since(other, g.season, w, T)
  BY DEF Near
<1>2. \A x \in rec : SeasonRates(rec, x.season, T) = SeasonRates(other, x.season, T)
  BY DEF Near
<1>3. ASSUME NEW rows \in SUBSET rec, NEW table, NEW weights
      PROVE  Pooled(rec, rows, table, g.season, weights, T, league)
             = Pooled(other, rows, table, g.season, weights, T, league)
  <2>1. {SeasonRates(rec, x.season, T) : x \in {y \in rows : y.season # g.season}}
        = {SeasonRates(other, x.season, T) : x \in {y \in rows : y.season # g.season}}
    BY <1>2
  <2> QED BY <2>1 DEF Pooled
<1>4. \A w, u : /\ Team(Since(rec, g.season, w, T), u) \in SUBSET rec
                /\ Starts(Since(rec, g.season, w, T), u) \in SUBSET rec
  BY DEF Team, Starts, Since, Slice
<1>5. TeamProjection(rec, g, t, T, league) = TeamProjection(other, g, t, T, league)
  BY <1>1, <1>3, <1>4 DEF TeamProjection
<1>6. StarterProjection(rec, g, t, T, league) = StarterProjection(other, g, t, T, league)
  BY <1>1, <1>3, <1>4 DEF StarterProjection
<1> QED BY <1>5, <1>6 DEF Projection

LEMMA SameRest ==
  ASSUME NEW rec, NEW other, NEW T, NEW g, Near(rec, other, g, T), NEW t, NEW league
  PROVE  /\ Defense(rec, g, t, T, league) = Defense(other, g, t, T, league)
         /\ History(rec, g, t, T) = History(other, g, t, T)
         /\ Availability(rec, t, T) = Availability(other, t, T)
         /\ Weather(rec, g, T) = Weather(other, g, T)
<1>1. /\ \A u : Season(rec, g, u, T) = Season(other, g, u, T)
      /\ Trailing(rec, t, T) = Trailing(other, t, T)
  BY SameReads
<1>2. Defense(rec, g, t, T, league) = Defense(other, g, t, T, league)
  BY <1>1 DEF Defense
<1>3. History(rec, g, t, T) = History(other, g, t, T)
  BY <1>1 DEF History
<1>4. Availability(rec, t, T) = Availability(other, t, T)
  BY <1>1 DEF Availability
<1>5. Weather(rec, g, T) = Weather(other, g, T)
  BY <1>1 DEF Weather
<1> QED BY <1>2, <1>3, <1>4, <1>5

-----------------------------------------------------------------------------
(* A build.                                                                *)

\* values.update keeps dictionaries alike.
LEMMA AlikeUpdated ==
  ASSUME NEW f, NEW h, NEW S, Alike(f, h, S), NEW d, NEW e, Alike(d, e, S)
  PROVE  Alike(f ++ d, h ++ e, S)
<1>1. DOMAIN (f ++ d) = DOMAIN (h ++ e)
  BY DEF Alike, ++
<1>2. ASSUME NEW k \in DOMAIN (f ++ d) \ S
      PROVE  /\ (f ++ d)[k].missing = (h ++ e)[k].missing
             /\ (f ++ d)[k].of = (h ++ e)[k].of
  <2>1. CASE k \in DOMAIN d
    <3>1. (f ++ d)[k] = d[k] /\ (h ++ e)[k] = e[k]
      BY <2>1, Zenon DEF Alike, ++
    <3> QED BY <1>2, <2>1, <3>1 DEF Alike
  <2>2. CASE k \notin DOMAIN d
    <3>1. k \in DOMAIN f /\ k \in DOMAIN h /\ k \notin DOMAIN e
      BY <1>2, <2>2 DEF Alike, ++
    <3>2. (f ++ d)[k] = f[k] /\ (h ++ e)[k] = h[k]
      BY <2>2, <3>1, Zenon DEF ++
    <3> QED BY <1>2, <3>1, <3>2 DEF Alike
  <2> QED BY <2>1, <2>2
<1> QED BY <1>1, <1>2 DEF Alike

LEMMA Itself == \A f, S : Alike(f, f, S)
  BY DEF Alike

\* Two sides are alike where their groups are.
LEMMA SameSide ==
  ASSUME NEW rec, NEW g, NEW rows, NEW other, NEW e, NEW more, NEW T, NEW t, NEW S, NEW league,
         league = LeagueBaseline(rec, g.season, T), league = LeagueBaseline(other, e.season, T),
         Alike(TeamStrength(rec, g, t, T, league), TeamStrength(other, e, t, T, league), S),
         Alike(Offense(rec, g, t, T, league), Offense(other, e, t, T, league), S),
         Alike(Defense(rec, g, t, T, league), Defense(other, e, t, T, league), S),
         Alike(Pitching(rec, g, t, T, league), Pitching(other, e, t, T, league), S),
         Alike(StatcastStarter(rows, g, t, T), StatcastStarter(more, e, t, T), S),
         Alike(Lineup(rec, g, t, T, rows), Lineup(other, e, t, T, more), S),
         Alike(Schedule(rec, t, T), Schedule(other, t, T), S),
         Alike(History(rec, g, t, T), History(other, e, t, T), S),
         Alike(Availability(rec, t, T), Availability(other, t, T), S),
         Alike(StreakValues(rec, g, t, T), StreakValues(other, e, t, T), S),
         Alike(Projection(rec, g, t, T, league), Projection(other, e, t, T, league), S)
  PROVE  Alike(BuildSide(rec, g, t, T, rows), BuildSide(other, e, t, T, more), S)
<1> DEFINE b1 == TeamStrength(rec, g, t, T, league)
           b2 == TeamStrength(other, e, t, T, league)
           o1 == Offense(rec, g, t, T, league)
           o2 == Offense(other, e, t, T, league)
           d1 == Defense(rec, g, t, T, league)
           d2 == Defense(other, e, t, T, league)
           p1 == Pitching(rec, g, t, T, league)
           p2 == Pitching(other, e, t, T, league)
           c1 == StatcastStarter(rows, g, t, T)
           c2 == StatcastStarter(more, e, t, T)
           l1 == Lineup(rec, g, t, T, rows)
           l2 == Lineup(other, e, t, T, more)
           s1 == Schedule(rec, t, T)
           s2 == Schedule(other, t, T)
           h1 == History(rec, g, t, T)
           h2 == History(other, e, t, T)
           a1 == Availability(rec, t, T)
           a2 == Availability(other, t, T)
           k1 == StreakValues(rec, g, t, T)
           k2 == StreakValues(other, e, t, T)
           j1 == Projection(rec, g, t, T, league)
           j2 == Projection(other, e, t, T, league)
<1>1. /\ BuildSide(rec, g, t, T, rows) =
           b1 ++ o1 ++ d1 ++ p1 ++ c1 ++ l1 ++ s1 ++ h1 ++ a1 ++ k1 ++ j1
      /\ BuildSide(other, e, t, T, more) =
           b2 ++ o2 ++ d2 ++ p2 ++ c2 ++ l2 ++ s2 ++ h2 ++ a2 ++ k2 ++ j2
  BY DEF BuildSide
<1>2. /\ Alike(b1, b2, S) /\ Alike(o1, o2, S) /\ Alike(d1, d2, S) /\ Alike(p1, p2, S)
      /\ Alike(c1, c2, S) /\ Alike(l1, l2, S) /\ Alike(s1, s2, S) /\ Alike(h1, h2, S)
      /\ Alike(a1, a2, S) /\ Alike(k1, k2, S) /\ Alike(j1, j2, S)
  OBVIOUS
<1> HIDE DEF b1, b2, o1, o2, d1, d2, p1, p2, c1, c2, l1, l2, s1, s2, h1, h2, a1, a2, k1, k2, j1, j2
<1>3. Alike(b1 ++ o1 ++ d1 ++ p1, b2 ++ o2 ++ d2 ++ p2, S)
  <2>1. Alike(b1 ++ o1, b2 ++ o2, S)
    BY <1>2, AlikeUpdated
  <2>2. Alike(b1 ++ o1 ++ d1, b2 ++ o2 ++ d2, S)
    BY <1>2, <2>1, AlikeUpdated
  <2> QED BY <1>2, <2>2, AlikeUpdated
<1> DEFINE x1 == b1 ++ o1 ++ d1 ++ p1
           x2 == b2 ++ o2 ++ d2 ++ p2
<1>4. Alike(x1 ++ c1 ++ l1 ++ s1 ++ h1, x2 ++ c2 ++ l2 ++ s2 ++ h2, S)
  <2> HIDE DEF x1, x2
  <2>1. Alike(x1 ++ c1, x2 ++ c2, S)
    BY <1>2, <1>3, AlikeUpdated DEF x1, x2
  <2>2. Alike(x1 ++ c1 ++ l1, x2 ++ c2 ++ l2, S)
    BY <1>2, <2>1, AlikeUpdated
  <2>3. Alike(x1 ++ c1 ++ l1 ++ s1, x2 ++ c2 ++ l2 ++ s2, S)
    BY <1>2, <2>2, AlikeUpdated
  <2> QED BY <1>2, <2>3, AlikeUpdated
<1> DEFINE y1 == x1 ++ c1 ++ l1 ++ s1 ++ h1
           y2 == x2 ++ c2 ++ l2 ++ s2 ++ h2
<1>5. Alike(y1 ++ a1 ++ k1 ++ j1, y2 ++ a2 ++ k2 ++ j2, S)
  <2> HIDE DEF y1, y2
  <2>1. Alike(y1 ++ a1, y2 ++ a2, S)
    BY <1>2, <1>4, AlikeUpdated DEF y1, y2
  <2>2. Alike(y1 ++ a1 ++ k1, y2 ++ a2 ++ k2, S)
    BY <1>2, <2>1, AlikeUpdated
  <2> QED BY <1>2, <2>2, AlikeUpdated
<1> QED BY <1>1, <1>5

\* The keys of a side.
SideKeys == FsV1 \cup ScSp \cup LineupKeys \cup BullpenAvailability \cup AvailabilityKeys
            \cup Streaks \cup Projections

LEMMA Updated == \A f, e : DOMAIN (f ++ e) = DOMAIN f \cup DOMAIN e
  BY DEF ++

LEMMA SideDomain ==
  ASSUME NEW rec, NEW g, NEW t, NEW T, NEW rows
  PROVE  DOMAIN BuildSide(rec, g, t, T, rows) = SideKeys
<1> DEFINE league == LeagueBaseline(rec, g.season, T)
           b == TeamStrength(rec, g, t, T, league)
           o == Offense(rec, g, t, T, league)
           d == Defense(rec, g, t, T, league)
           p == Pitching(rec, g, t, T, league)
           c == StatcastStarter(rows, g, t, T)
           l == Lineup(rec, g, t, T, rows)
           s == Schedule(rec, t, T)
           h == History(rec, g, t, T)
           a == Availability(rec, t, T)
           k == StreakValues(rec, g, t, T)
           j == Projection(rec, g, t, T, league)
<1>1. DOMAIN b = {"elo", "record", "split", "sos", "opp_adj"}
  BY DEF TeamStrength
<1>2. DOMAIN o = {"off", "off_recent", "form", "vs_hand"}
  BY DEF Offense
<1>3. DOMAIN d = {"def"}
  BY DEF Defense
<1>4. DOMAIN p = {"sp_identified", "sp_rates", "sp_depth", "sp_rest", "sp_experience",
                  "bp_recent", "bp_load", "bp_available"}
  BY DEF Pitching
<1>5. DOMAIN c = {"sc_rates", "sc_trend"}
  <2>1. \A season, prior, recent, lg :
          DOMAIN StatcastValues(season, prior, recent, lg) = {"sc_rates", "sc_trend"}
    BY DEF StatcastValues
  <2> QED BY <2>1 DEF StatcastStarter
<1>6. DOMAIN l = {"lineup", "lineup_hand", "arsenal"}
  BY DEF Lineup, LineupValues
<1>7. DOMAIN s = {"sched", "sched_7d"}
  BY DEF Schedule
<1>8. DOMAIN h = {"h2h"}
  BY DEF History
<1>9. DOMAIN a = {"il_lost"}
  BY DEF Availability
<1>10. DOMAIN k = {"streak"}
  BY DEF StreakValues
<1>11. DOMAIN j = {"proj_team", "proj_sp"}
  BY DEF Projection
<1>12. BuildSide(rec, g, t, T, rows) =
         b ++ o ++ d ++ p ++ c ++ l ++ s ++ h ++ a ++ k ++ j
  BY DEF BuildSide
<1> HIDE DEF b, o, d, p, c, l, s, h, a, k, j
<1> DEFINE y2 == b ++ o    y3 == y2 ++ d   y4 == y3 ++ p   y5 == y4 ++ c   y6 == y5 ++ l
           y7 == y6 ++ s   y8 == y7 ++ h   y9 == y8 ++ a   y10 == y9 ++ k  y11 == y10 ++ j
<1>13. /\ DOMAIN y2 = DOMAIN b \cup DOMAIN o
       /\ DOMAIN y3 = DOMAIN y2 \cup DOMAIN d
       /\ DOMAIN y4 = DOMAIN y3 \cup DOMAIN p
       /\ DOMAIN y5 = DOMAIN y4 \cup DOMAIN c
       /\ DOMAIN y6 = DOMAIN y5 \cup DOMAIN l
       /\ DOMAIN y7 = DOMAIN y6 \cup DOMAIN s
       /\ DOMAIN y8 = DOMAIN y7 \cup DOMAIN h
       /\ DOMAIN y9 = DOMAIN y8 \cup DOMAIN a
       /\ DOMAIN y10 = DOMAIN y9 \cup DOMAIN k
       /\ DOMAIN y11 = DOMAIN y10 \cup DOMAIN j
  BY Updated, Zenon
<1>14. BuildSide(rec, g, t, T, rows) = y11
  BY <1>12
<1> HIDE DEF y2, y3, y4, y5, y6, y7, y8, y9, y10, y11
<1>15. DOMAIN BuildSide(rec, g, t, T, rows) =
         DOMAIN b \cup DOMAIN o \cup DOMAIN d \cup DOMAIN p \cup DOMAIN c \cup DOMAIN l
         \cup DOMAIN s \cup DOMAIN h \cup DOMAIN a \cup DOMAIN k \cup DOMAIN j
  BY <1>13, <1>14
<1> QED
  BY <1>1, <1>2, <1>3, <1>4, <1>5, <1>6, <1>7, <1>8, <1>9, <1>10, <1>11, <1>15
  DEF SideKeys, FsV1, ScSp, LineupKeys, ArsenalOnly, BullpenAvailability, AvailabilityKeys,
      Streaks, Projections

LEMMA KeysBuilt == Keys \subseteq SideKeys \cup WeatherKeys
<1>1. DOMAIN FeatureSets = {"fs_v1", "fs_v2", "fs_v3", "fs_v4", "fs_v5", "fs_v6", "fs_v7",
                            "fs_v8", "fs_v9"}
  BY DEF FeatureSets
<1>2. \A v \in DOMAIN FeatureSets : FeatureKeys(v) \subseteq SideKeys \cup WeatherKeys
  BY <1>1 DEF FeatureKeys, FeatureSets, SideKeys, LineupKeys
<1> QED BY <1>2 DEF Keys

\* A difference of values computed from the same is the same.
LEMMA SameDiff ==
  ASSUME NEW v, NEW w, NEW x, NEW y, v.missing = x.missing, v.of = x.of,
         w.missing = y.missing, w.of = y.of
  PROVE  Diff(v, w) = Diff(x, y)
  BY DEF Diff

\* Builds of the same two clubs give the same features where their sides do.
LEMMA SameBuild ==
  ASSUME NEW rec, NEW g, NEW rows, NEW other, NEW e, NEW more, NEW T, NEW S,
         e.home = g.home, e.away = g.away, Weather(rec, g, T) = Weather(other, e, T),
         \A t \in Plays(g) : Alike(BuildSide(rec, g, t, T, rows), BuildSide(other, e, t, T, more), S)
  PROVE  \A k \in Keys \ S : Build(rec, g, T, rows)[k] = Build(other, e, T, more)[k]
<1> DEFINE h1 == BuildSide(rec, g, g.home, T, rows)
           h2 == BuildSide(other, e, g.home, T, more)
           a1 == BuildSide(rec, g, g.away, T, rows)
           a2 == BuildSide(other, e, g.away, T, more)
           air == Weather(rec, g, T)
           side1 == [k \in DOMAIN h1 |-> Diff(h1[k], a1[k])]
           side2 == [k \in DOMAIN h2 |-> Diff(h2[k], a2[k])]
           both == [k \in DOMAIN air |-> Diff(air[k], air[k])]
<1>1. Alike(h1, h2, S) /\ Alike(a1, a2, S)
  BY DEF Plays
<1>2. /\ DOMAIN h1 = SideKeys /\ DOMAIN a1 = SideKeys
      /\ DOMAIN h2 = SideKeys /\ DOMAIN a2 = SideKeys
  BY SideDomain
<1>3. DOMAIN air = WeatherKeys
  BY DEF Weather, WeatherKeys
<1>4. Build(rec, g, T, rows) = side1 ++ both /\ Build(other, e, T, more) = side2 ++ both
  BY DEF Build
<1> HIDE DEF h1, h2, a1, a2, air
<1>5. ASSUME NEW k \in Keys \ S PROVE (side1 ++ both)[k] = (side2 ++ both)[k]
  <2>1. CASE k \in WeatherKeys
    <3>1. /\ (side1 ++ both)[k] = Diff(air[k], air[k])
          /\ (side2 ++ both)[k] = Diff(air[k], air[k])
      BY <1>3, <2>1, Zenon DEF ++
    <3> QED BY <3>1
  <2>2. CASE k \notin WeatherKeys
    <3>1. k \in SideKeys
      BY <2>2, KeysBuilt
    <3>2. /\ (side1 ++ both)[k] = Diff(h1[k], a1[k])
          /\ (side2 ++ both)[k] = Diff(h2[k], a2[k])
      BY <1>2, <1>3, <2>2, <3>1, Zenon DEF ++
    <3>3. /\ h1[k].missing = h2[k].missing /\ h1[k].of = h2[k].of
          /\ a1[k].missing = a2[k].missing /\ a1[k].of = a2[k].of
      BY <1>1, <1>2, <3>1 DEF Alike
    <3>4. Diff(h1[k], a1[k]) = Diff(h2[k], a2[k])
      BY <3>3, SameDiff
    <3> QED BY <3>2, <3>4
  <2> QED BY <2>1, <2>2
<1> QED BY <1>4, <1>5

\* Near records give the same but for what the schedule, a rating, a career
\* and a streak make of what is further back.
LEMMA NearSide ==
  ASSUME NEW rec, NEW other, NEW T, NEW g, Near(rec, other, g, T), NEW t, NEW rows, NEW more,
         NearTracked(rows, more, g.season, T), NEW S,
         \A league :
            /\ Alike(TeamStrength(rec, g, t, T, league), TeamStrength(other, g, t, T, league), S)
            /\ Alike(Pitching(rec, g, t, T, league), Pitching(other, g, t, T, league), S),
         Alike(StreakValues(rec, g, t, T), StreakValues(other, g, t, T), S),
         Alike(Schedule(rec, t, T), Schedule(other, t, T), S)
  PROVE  Alike(BuildSide(rec, g, t, T, rows), BuildSide(other, g, t, T, more), S)
<1> DEFINE league == LeagueBaseline(rec, g.season, T)
<1>1. league = LeagueBaseline(other, g.season, T)
  BY DEF Near
<1> HIDE DEF league
<1>2. /\ Offense(rec, g, t, T, league) = Offense(other, g, t, T, league)
      /\ Defense(rec, g, t, T, league) = Defense(other, g, t, T, league)
      /\ Projection(rec, g, t, T, league) = Projection(other, g, t, T, league)
  BY SameOffense, SameProjection, SameRest
<1>3. /\ History(rec, g, t, T) = History(other, g, t, T)
      /\ Availability(rec, t, T) = Availability(other, t, T)
  BY SameRest
<1>4. /\ StatcastStarter(rows, g, t, T) = StatcastStarter(more, g, t, T)
      /\ Lineup(rec, g, t, T, rows) = Lineup(other, g, t, T, more)
  BY SameStatcast, SameNine
<1>5. \A f : Alike(f, f, S)
  BY Itself
<1> QED BY <1>1, <1>2, <1>3, <1>4, <1>5, SameSide DEF league

\* Records that agree give the same features, the schedule apart.
LEMMA AgreeBuild ==
  ASSUME NEW rec, NEW other, NEW T \in Int, Agree(rec, other, T),
         NEW g, g.season = ThisSeason, NEW rows
  PROVE  \A k \in Keys \ Scheduled : Build(rec, g, T, rows)[k] = Build(other, g, T, rows)[k]
<1>1. Near(rec, other, g, T)
  BY AgreeNear
<1>2. ASSUME NEW t
      PROVE  Alike(BuildSide(rec, g, t, T, rows), BuildSide(other, g, t, T, rows), Scheduled)
  <2>1. \A league :
          /\ Alike(TeamStrength(rec, g, t, T, league), TeamStrength(other, g, t, T, league), Scheduled)
          /\ Alike(Pitching(rec, g, t, T, league), Pitching(other, g, t, T, league), Scheduled)
    BY SameMemory, Itself
  <2>2. Alike(StreakValues(rec, g, t, T), StreakValues(other, g, t, T), Scheduled)
    BY SameMemory, Itself
  <2>3. Alike(Schedule(rec, t, T), Schedule(other, t, T), Scheduled)
    BY DEF Schedule, Scheduled, Alike
  <2>4. NearTracked(rows, rows, g.season, T)
    BY DEF NearTracked
  <2> QED BY <1>1, <2>1, <2>2, <2>3, <2>4, NearSide
<1>3. Weather(rec, g, T) = Weather(other, g, T)
  BY <1>1, SameRest
<1> QED BY <1>2, <1>3, SameBuild

\* Other Statcast rows touch only what reads them, and near ones nothing.
LEMMA TrackedBuild ==
  ASSUME NEW rec, NEW T, NEW g, NEW rows, NEW more
  PROVE  /\ \A k \in Keys \ StatcastKeys : Build(rec, g, T, rows)[k] = Build(rec, g, T, more)[k]
         /\ NearTracked(rows, more, g.season, T)
               => \A k \in Keys : Build(rec, g, T, rows)[k] = Build(rec, g, T, more)[k]
<1> DEFINE league == LeagueBaseline(rec, g.season, T)
<1>1. ASSUME NEW S,
             \A t : /\ Alike(StatcastStarter(rows, g, t, T), StatcastStarter(more, g, t, T), S)
                    /\ Alike(Lineup(rec, g, t, T, rows), Lineup(rec, g, t, T, more), S)
      PROVE  \A k \in Keys \ S : Build(rec, g, T, rows)[k] = Build(rec, g, T, more)[k]
  <2>1. ASSUME NEW t
        PROVE  Alike(BuildSide(rec, g, t, T, rows), BuildSide(rec, g, t, T, more), S)
    <3>1. \A f : Alike(f, f, S)
      BY Itself
    <3> QED BY <1>1, <3>1, SameSide
  <2> QED BY <2>1, SameBuild
<1>2. ASSUME NEW t
      PROVE  /\ Alike(StatcastStarter(rows, g, t, T), StatcastStarter(more, g, t, T), StatcastKeys)
             /\ Alike(Lineup(rec, g, t, T, rows), Lineup(rec, g, t, T, more), StatcastKeys)
  <2>1. \A x : DOMAIN StatcastStarter(x, g, t, T) = {"sc_rates", "sc_trend"}
    <3>1. \A season, prior, recent, lg :
            DOMAIN StatcastValues(season, prior, recent, lg) = {"sc_rates", "sc_trend"}
      BY DEF StatcastValues
    <3> QED BY <3>1 DEF StatcastStarter
  <2>2. \A x : DOMAIN Lineup(rec, g, t, T, x) = {"lineup", "lineup_hand", "arsenal"}
    BY DEF Lineup, LineupValues
  <2>3. {"sc_rates", "sc_trend", "lineup", "lineup_hand", "arsenal"} \subseteq StatcastKeys
    BY DEF StatcastKeys, ScSp, LineupKeys, ArsenalOnly
  <2> QED BY <2>1, <2>2, <2>3 DEF Alike
<1>3. ASSUME NearTracked(rows, more, g.season, T)
      PROVE  \A k \in Keys : Build(rec, g, T, rows)[k] = Build(rec, g, T, more)[k]
  <2>1. \A t : /\ Alike(StatcastStarter(rows, g, t, T), StatcastStarter(more, g, t, T), {})
               /\ Alike(Lineup(rec, g, t, T, rows), Lineup(rec, g, t, T, more), {})
    BY <1>3, SameStatcast, Itself
  <2>2. \A k \in Keys \ {} : Build(rec, g, T, rows)[k] = Build(rec, g, T, more)[k]
    BY <1>1, <2>1, Zenon
  <2> QED BY <2>2
<1> QED BY <1>1, <1>2, <1>3

\* Other starters named touch only what reads who starts.
LEMMA StartersBuild ==
  ASSUME NEW rec, NEW T, NEW g, NEW rows, NEW one, NEW two
  PROVE  \A k \in Keys \ StarterKeys :
            Build(rec, GameContext(g, one), T, rows)[k] = Build(rec, GameContext(g, two), T, rows)[k]
<1> DEFINE c == GameContext(g, one)
           e == GameContext(g, two)
           league == LeagueBaseline(rec, g.season, T)
           S == StarterKeys
<1>1. /\ c.season = g.season /\ c.home = g.home /\ c.away = g.away /\ Plays(c) = Plays(g)
      /\ e.season = g.season /\ e.home = g.home /\ e.away = g.away /\ Plays(e) = Plays(g)
      /\ Pitch(c) = Pitch(e)
  BY Contexts
<1> HIDE DEF c, e, league, S
<1>2. \A t : Season(rec, c, t, T) = Season(rec, e, t, T)
  BY <1>1 DEF Season
<1>3. S = {"vs_hand", "sp_identified", "sp_rates", "sp_depth", "sp_rest", "sp_experience",
           "lineup_hand", "arsenal", "proj_sp", "sc_rates", "sc_trend"}
  BY DEF S, StarterKeys, ScSp
<1>4. ASSUME NEW t
      PROVE  Alike(BuildSide(rec, c, t, T, rows), BuildSide(rec, e, t, T, rows), S)
  <2>1. TeamStrength(rec, c, t, T, league) = TeamStrength(rec, e, t, T, league)
    BY <1>1, <1>2 DEF TeamStrength
  <2>2. Alike(Offense(rec, c, t, T, league), Offense(rec, e, t, T, league), S)
    <3> DEFINE o == Offense(rec, c, t, T, league)
               u == Offense(rec, e, t, T, league)
    <3>1. /\ DOMAIN o = {"off", "off_recent", "form", "vs_hand"}
          /\ DOMAIN u = {"off", "off_recent", "form", "vs_hand"}
      BY DEF Offense
    <3>2. o.off = u.off /\ o.off_recent = u.off_recent /\ o.form = u.form
      BY <1>2 DEF Offense
    <3> HIDE DEF o, u
    <3>3. Alike(o, u, S)
      BY <1>3, <3>1, <3>2 DEF Alike
    <3> QED BY <3>3 DEF o, u
  <2>3. Defense(rec, c, t, T, league) = Defense(rec, e, t, T, league)
    BY <1>2 DEF Defense
  <2>4. Alike(Pitching(rec, c, t, T, league), Pitching(rec, e, t, T, league), S)
    <3> DEFINE p == Pitching(rec, c, t, T, league)
               u == Pitching(rec, e, t, T, league)
               names == {"sp_identified", "sp_rates", "sp_depth", "sp_rest", "sp_experience",
                         "bp_recent", "bp_load", "bp_available"}
    <3>1. DOMAIN p = names /\ DOMAIN u = names
      BY DEF Pitching
    <3>2. /\ p.bp_recent = u.bp_recent /\ p.bp_load = u.bp_load
          /\ p.bp_available = u.bp_available
      BY <1>2 DEF Pitching
    <3> HIDE DEF p, u
    <3>3. Alike(p, u, S)
      BY <1>3, <3>1, <3>2 DEF Alike
    <3> QED BY <3>3 DEF p, u
  <2>5. Alike(StatcastStarter(rows, c, t, T), StatcastStarter(rows, e, t, T), S)
    <3>1. \A season, prior, recent, lg :
            DOMAIN StatcastValues(season, prior, recent, lg) = {"sc_rates", "sc_trend"}
      BY DEF StatcastValues
    <3>2. /\ DOMAIN StatcastStarter(rows, c, t, T) = {"sc_rates", "sc_trend"}
          /\ DOMAIN StatcastStarter(rows, e, t, T) = {"sc_rates", "sc_trend"}
      BY <3>1 DEF StatcastStarter
    <3> QED BY <1>3, <3>2 DEF Alike
  <2>6. Alike(Lineup(rec, c, t, T, rows), Lineup(rec, e, t, T, rows), S)
    <3>1. Season(rows, c, t, T) = Season(rows, e, t, T)
      BY <1>1 DEF Season
    <3> QED BY <1>1, <1>3, <3>1 DEF Lineup, LineupValues, Alike
  <2>7. History(rec, c, t, T) = History(rec, e, t, T)
    BY <1>1, <1>2 DEF History
  <2>8. StreakValues(rec, c, t, T) = StreakValues(rec, e, t, T)
    BY <1>2 DEF StreakValues
  <2>9. Alike(Projection(rec, c, t, T, league), Projection(rec, e, t, T, league), S)
    <3>1. TeamProjection(rec, c, t, T, league) = TeamProjection(rec, e, t, T, league)
      BY <1>1 DEF TeamProjection
    <3> QED BY <1>3, <3>1 DEF Projection, Alike
  <2>10. \A f : Alike(f, f, S)
    BY Itself
  <2>11. league = LeagueBaseline(rec, c.season, T) /\ league = LeagueBaseline(rec, e.season, T)
    BY <1>1 DEF league
  <2> QED BY <2>1, <2>2, <2>3, <2>4, <2>5, <2>6, <2>7, <2>8, <2>9, <2>10, <2>11, SameSide
<1>5. Weather(rec, c, T) = Weather(rec, e, T)
  BY <1>1, <1>2 DEF Weather, WeatherAsOf
<1>6. \A k \in Keys \ S : Build(rec, c, T, rows)[k] = Build(rec, e, T, rows)[k]
  BY <1>1, <1>4, <1>5, SameBuild
<1> QED BY <1>6 DEF c, e, S

-----------------------------------------------------------------------------
(* The record and what was served.                                         *)

\* The games that may reach the record.
Counted(sch) == {g \in sch : ~ g.off}

\* Moments of the schedule.
TimesOf(sch) ==
    UNION {{AsOf(g), Pitch(g) + 1, Known(g)} : g \in {x \in sch : x.season = ThisSeason}}

\* The earliest moment, where there is one, is a number.
LEMMA FirstMoment ==
  ASSUME NEW sch \in Schedules, TimesOf(sch) # {}
  PROVE  Min(TimesOf(sch)) \in TimesOf(sch) /\ TimesOf(sch) \subseteq Int
<1>1. Ahead \in Nat
  BY FeaturesAssumption
<1>2. ASSUME NEW m \in TimesOf(sch) PROVE m \in Int /\ m >= -Ahead
  <2>1. PICK g \in sch : m \in {AsOf(g), Pitch(g) + 1, Known(g)}
    BY DEF TimesOf
  <2>2. g \in Scheduleds
    BY DEF Scheduleds
  <2>3. Pitch(g) \in Nat /\ Known(g) \in Nat
    BY <2>2, Pitched
  <2>4. AsOf(g) = Pitch(g) - Ahead
    BY DEF AsOf
  <2> QED BY <1>1, <2>1, <2>3, <2>4
<1>3. TimesOf(sch) \in SUBSET Int /\ -Ahead \in Int
  BY <1>1, <1>2
<1> QED BY <1>2, <1>3, Earliest

\* A record: all of the seasons before, and of the season in progress what has
\* been played.
RecordOK(rec) ==
    /\ rec \subseteq {g \in sched : ~ g.off}
    /\ {g \in sched : ~ g.off /\ g.season < ThisSeason} \subseteq rec

\* What holds of a snapshot served: what it was made from only grew.
SnapshotOK(s) ==
    /\ RecordOK(s.record) /\ s.record \subseteq final /\ s.tracked \subseteq tracked
    /\ s.game \in sched /\ s.game.season = ThisSeason
    /\ s.as_of \in Int

FInv ==
    /\ sched \in Schedules
    /\ Current # {} => now \in Int
    /\ RecordOK(final) /\ tracked \subseteq final
    /\ \A s \in served : SnapshotOK(s)

\* An official date belongs to one season.
LEMMA OneSeason ==
  ASSUME NEW g \in Scheduleds, NEW h \in Scheduleds, OfficialDate(g) = OfficialDate(h),
         h.season = ThisSeason
  PROVE  g.season = ThisSeason
<1>1. /\ g.season \in Nat /\ g.season <= ThisSeason /\ g.day \in Nat /\ g.day < SeasonDays
      /\ h.day \in Nat /\ ThisSeason \in Nat /\ SeasonDays \in Nat
  <2>1. \A x \in Scheduleds : x.season \in 0..ThisSeason /\ x.day \in 0..(SeasonDays - 1)
    BY ForecastAssumption DEF Scheduleds
  <2>2. ThisSeason \in Nat /\ SeasonDays \in Nat
    BY ForecastAssumption, FeaturesAssumption
  <2>3. /\ g.season \in 0..ThisSeason /\ g.day \in 0..(SeasonDays - 1)
        /\ h.day \in 0..(SeasonDays - 1)
    BY <2>1
  <2> QED BY <2>2, <2>3
<1>2. SeasonDays * g.season + g.day = SeasonDays * ThisSeason + h.day
  BY DEF OfficialDate
<1>3. ASSUME g.season < ThisSeason PROVE FALSE
  <2>1. SeasonDays * (g.season + 1) <= SeasonDays * ThisSeason
    BY <1>1, <1>3, Times
  <2>2. SeasonDays * (g.season + 1) = SeasonDays * g.season + SeasonDays
    BY <1>1
  <2>3. SeasonDays * g.season \in Nat /\ SeasonDays * ThisSeason \in Nat
    BY <1>1, Times
  <2> QED BY <1>1, <1>2, <2>1, <2>2, <2>3
<1> QED BY <1>1, <1>3

LEMMA LiveAsOfIsNumber ==
  ASSUME NEW g \in Scheduleds, NEW T \in Int
  PROVE  LiveAsOf(g, T) \in Int /\ LiveAsOf(g, T) <= T /\ LiveAsOf(g, T) < Pitch(g)
<1>1. Pitch(g) - 1 \in Int
  BY Pitched
<1> QED BY <1>1, Pitched, MinOfTwo DEF LiveAsOf

LEMMA MomentsOfSchedule == Moments = TimesOf(sched)
  BY DEF Moments, TimesOf, Current

\* The games of a card served are of the season in progress.
LEMMA CardServed ==
  ASSUME FInv, NEW d \in {OfficialDate(g) : g \in Current}, NEW g \in Card(d)
  PROVE  g \in sched /\ g.season = ThisSeason /\ LiveAsOf(g, now) \in Int
<1>1. PICK h \in sched : h.season = ThisSeason /\ d = OfficialDate(h)
  BY DEF Current
<1>2. g \in Scheduleds /\ h \in Scheduleds /\ OfficialDate(g) = OfficialDate(h) /\ g \in sched
  BY <1>1 DEF FInv, Scheduleds, Card
<1>3. now \in Int
  BY <1>1 DEF FInv, Current
<1> QED BY <1>1, <1>2, <1>3, OneSeason, LiveAsOfIsNumber

\* What a snapshot served says.
MadeBy(s, g) ==
    /\ s.game = g /\ s.at = now /\ s.as_of = LiveAsOf(g, now)
    /\ s.record = final /\ s.tracked = tracked
    /\ s.fit = DispersionAsOf(final, Min({LiveAsOf(x, now) : x \in Card(OfficialDate(g))}))
    /\ s.run = ServeProbability(final, GameContext(g, s.starters), LiveAsOf(g, now), s.fit)

LEMMA ServeView ==
  ASSUME NEW d, Serve(d), NEW s \in served', s \notin served
  PROVE  \E g \in Card(d) : MadeBy(s, g)
<1> DEFINE fit == DispersionAsOf(final, Min({LiveAsOf(g, now) : g \in Card(d)}))
           made == {g \in Card(d) : /\ CanBuild(g, LiveAsOf(g, now))
                                    /\ IsUsable(final, g, LiveAsOf(g, now))}
           snapshot(g) ==
              [game |-> g, starters |-> named[g.id], at |-> now, as_of |-> LiveAsOf(g, now),
               record |-> final, tracked |-> tracked, fit |-> fit,
               run |-> ServeProbability(final, Row(g), LiveAsOf(g, now), fit)]
<1>1. served' = served \cup {snapshot(g) : g \in made}
  BY DEF Serve
<1>2. s \in {snapshot(g) : g \in made}
  BY <1>1
<1>3. PICK g \in made : s = snapshot(g)
  BY <1>2
<1>4. g \in Card(d) /\ OfficialDate(g) = d
  BY DEF Card
<1>5. /\ snapshot(g).game = g /\ snapshot(g).at = now /\ snapshot(g).as_of = LiveAsOf(g, now)
      /\ snapshot(g).record = final /\ snapshot(g).tracked = tracked /\ snapshot(g).fit = fit
      /\ snapshot(g).starters = named[g.id]
      /\ snapshot(g).run = ServeProbability(final, Row(g), LiveAsOf(g, now), fit)
  OBVIOUS
<1> HIDE DEF snapshot
<1>6. MadeBy(s, g)
  BY <1>3, <1>4, <1>5 DEF MadeBy, Row
<1> QED BY <1>4, <1>6

LEMMA ForecastInductive ==
  ASSUME FInv, [Next]_vars
  PROVE  FInv'
<1>1. CASE Advance
  <2>1. now' \in Moments /\ UNCHANGED <<sched, final, tracked, served>>
    BY <1>1 DEF Advance
  <2>2. now' \in Int
    BY <2>1, MomentsOfSchedule, FirstMoment DEF FInv
  <2> QED BY <2>1, <2>2 DEF FInv, SnapshotOK, RecordOK, Current
<1>2. ASSUME NEW g \in sched, EndGame(g) PROVE FInv'
  <2>1. /\ g \in sched /\ ~ g.off /\ final' = final \cup {g}
        /\ UNCHANGED <<sched, now, tracked, served>>
    BY <1>2 DEF EndGame, Current
  <2>2. RecordOK(final)' /\ (tracked \subseteq final)'
    BY <2>1 DEF FInv, RecordOK
  <2>3. ASSUME NEW s \in served' PROVE SnapshotOK(s)'
    <3>1. SnapshotOK(s)
      BY <2>1, <2>3 DEF FInv
    <3> QED BY <2>1, <3>1 DEF SnapshotOK, RecordOK
  <2> QED BY <2>1, <2>2, <2>3 DEF FInv, Current
<1>3. ASSUME NEW g \in sched, IngestSchedule(g) PROVE FInv'
  <2>1. UNCHANGED <<sched, now, final, tracked, served>>
    BY <1>3 DEF IngestSchedule
  <2> QED BY <2>1 DEF FInv, SnapshotOK, RecordOK, Current
<1>4. ASSUME NEW from, NEW to, IngestStatcast(from, to) PROVE FInv'
  <2>1. /\ UNCHANGED <<sched, now, final, served>>
        /\ tracked \subseteq tracked' /\ tracked' \subseteq tracked \cup final
    BY <1>4 DEF IngestStatcast
  <2>2. ASSUME NEW s \in served' PROVE SnapshotOK(s)'
    <3>1. SnapshotOK(s)
      BY <2>1, <2>2 DEF FInv
    <3> QED BY <2>1, <3>1 DEF SnapshotOK, RecordOK
  <2> QED BY <2>1, <2>2 DEF FInv, RecordOK, Current
<1>5. ASSUME NEW d \in {OfficialDate(g) : g \in Current}, Serve(d) PROVE FInv'
  <2>1. UNCHANGED <<sched, now, final, tracked>>
    BY <1>5 DEF Serve
  <2>2. ASSUME NEW s \in served' PROVE SnapshotOK(s)'
    <3>1. CASE s \in served
      <4>1. SnapshotOK(s)
        BY <3>1 DEF FInv
      <4> QED BY <2>1, <4>1 DEF SnapshotOK, RecordOK
    <3>2. CASE s \notin served
      <4>1. PICK g \in Card(d) : /\ s.game = g /\ s.as_of = LiveAsOf(g, now)
                                 /\ s.record = final /\ s.tracked = tracked
        BY <1>5, <2>2, <3>2, ServeView DEF MadeBy
      <4>2. g \in sched /\ g.season = ThisSeason /\ LiveAsOf(g, now) \in Int
        BY <4>1, CardServed
      <4>3. RecordOK(s.record)
        BY <4>1 DEF FInv
      <4> QED BY <2>1, <4>1, <4>2, <4>3 DEF SnapshotOK, RecordOK
    <3> QED BY <3>1, <3>2
  <2> QED BY <2>1, <2>2 DEF FInv, RecordOK, Current
<1>6. CASE UNCHANGED vars
  BY <1>6 DEF vars, FInv, SnapshotOK, RecordOK, Current
<1> QED BY <1>1, <1>2, <1>3, <1>4, <1>5, <1>6 DEF Next

\* The inductive invariant: a record holds every past season and of this one
\* only games that count, Statcast rows are of games on record, and what a
\* snapshot was made from is still there.
THEOREM ForecastInvariant == Spec => []FInv
<1>1. Init => FInv
  <2> SUFFICES ASSUME Init PROVE FInv
    OBVIOUS
  <2>1. /\ sched \in Schedules /\ served = {} /\ now = Min(Moments) /\ tracked = {}
        /\ final = {g \in sched : ~ g.off /\ g.season < ThisSeason}
    BY DEF Init
  <2>2. Current # {} => Moments # {}
    BY DEF Current, Moments
  <2>3. Current # {} => now \in Int
    BY <2>1, <2>2, MomentsOfSchedule, FirstMoment
  <2> QED BY <2>1, <2>3 DEF FInv, RecordOK
<1>2. FInv /\ [Next]_vars => FInv'
  BY ForecastInductive
<1> QED BY <1>1, <1>2, PTL DEF Spec

\* With no result overdue, the record of a snapshot and that of today agree.
LEMMA RecordsAgree ==
  ASSUME FInv, NEW s \in served, NEW T \in Int, Overdue(s.record, T) = {}
  PROVE  Agree(s.record, final, T)
<1>1. RecordOK(s.record) /\ s.record \subseteq final /\ RecordOK(final) /\ sched \in Schedules
  BY DEF FInv, SnapshotOK
<1>2. \A g \in sched : g \in Scheduleds
  BY <1>1 DEF Scheduleds
<1>3. ASSUME NEW g \in final \ s.record PROVE g.season = ThisSeason /\ T < Known(g)
  <2>1. g \in sched /\ ~ g.off /\ g \in Scheduleds
    BY <1>1, <1>2 DEF RecordOK
  <2>2. g.season \in 0..ThisSeason /\ Known(g) \in Nat
    BY <2>1, Pitched
  <2>3. ~ (g.season < ThisSeason)
    BY <1>1, <2>1 DEF RecordOK
  <2>4. ~ (Known(g) <= T)
    BY <2>1 DEF Overdue
  <2> QED BY <2>2, <2>3, <2>4, ForecastAssumption
<1> QED BY <1>1, <1>2, <1>3 DEF Agree, RecordOK

\* Where no result was overdue, a build at the moment served, replayed from
\* what is stored on any later day, reads what was read then: the schedule
\* apart, what reads the starter where another has been named, and what reads
\* Statcast where a backfill came behind it.  For any schedule, feature set,
\* window and weights.
THEOREM ReplayedCorrect == Spec => []LiveIsReplayed
<1>1. FInv => LiveIsReplayed
  <2> SUFFICES ASSUME FInv, NEW s \in served, Overdue(s.record, s.as_of) = {},
                      NEW k \in Differ(AsServed(s), Replayed(s)), k \notin Scheduled,
                      ~ (s.starters # named[s.game.id] /\ k \in StarterKeys),
                      ~ (Backfilled(s) # {} /\ k \in StatcastKeys)
               PROVE  FALSE
    BY DEF LiveIsReplayed
  <2> DEFINE T == s.as_of
             c == GameContext(s.game, s.starters)
             e == Row(s.game)
  <2>1. T \in Int /\ s.game.season = ThisSeason /\ c.season = ThisSeason
    BY Contexts DEF FInv, SnapshotOK
  <2>2. k \in Keys /\ AsServed(s)[k] # Replayed(s)[k]
    BY DEF Differ
  <2>3. Build(s.record, c, T, s.tracked)[k] = Build(final, c, T, s.tracked)[k]
    <3>1. Agree(s.record, final, T)
      BY <2>1, RecordsAgree
    <3> HIDE DEF c, T
    <3> QED BY <2>1, <2>2, <3>1, AgreeBuild
  <2>4. Build(final, c, T, s.tracked)[k] = Build(final, c, T, tracked)[k]
    <3>1. CASE k \notin StatcastKeys
      BY <2>2, <3>1, TrackedBuild
    <3>2. CASE Backfilled(s) = {}
      <4>1. s.tracked \subseteq tracked /\ tracked \subseteq Scheduleds
        BY DEF FInv, SnapshotOK, RecordOK, Scheduleds
      <4>2. \A g \in tracked \ s.tracked : ~ (Known(g) <= T)
        BY <3>2 DEF Backfilled
      <4>3. NearTracked(s.tracked, tracked, c.season, T)
        BY <2>1, <4>1, <4>2, LaterNear
      <4> QED BY <2>2, <4>3, TrackedBuild
    <3> QED BY <3>1, <3>2
  <2>5. Build(final, c, T, tracked)[k] = Build(final, e, T, tracked)[k]
    <3>1. CASE s.starters = named[s.game.id]
      BY <3>1 DEF Row
    <3>2. CASE k \notin StarterKeys
      BY <2>2, <3>2, StartersBuild DEF Row
    <3> QED BY <3>1, <3>2
  <2> QED BY <2>2, <2>3, <2>4, <2>5 DEF AsServed, Replayed
<1> QED BY <1>1, ForecastInvariant, PTL

-----------------------------------------------------------------------------
(* What is served and what is scored.                                      *)

\* What is served is what a simulation of the variant of that name gives.
LEMMA ServedIsSimulated ==
  ASSUME NEW rec, NEW g, NEW T, NEW fit
  PROVE  ServeProbability(rec, g, T, fit) = SimulateGame(rec, g, T, fit, "served")
<1> DEFINE proj == ProjectedRuns(rec, g, T)
           base == ExpectedRuns(rec, g, T)
           start == StarterAdjustments(rec, g, T, proj)
           c == RunComponents(rec, g, T)
           m == RunModels["served"]
<1>1. /\ m.projected = TRUE /\ m.pitching = FALSE /\ m.starter = TRUE
  BY DEF RunModels
<1>2. c.base = base /\ c.projected = proj /\ c.starter = start
  BY DEF RunComponents
<1>3. SimulateGame(rec, g, T, fit, "served") = IF fit = {} THEN NoMeans ELSE Means(c, m)
  BY DEF SimulateGame
<1>4. ServeProbability(rec, g, T, fit) =
        IF fit = {} THEN NoMeans
        ELSE IF proj = NoMeans THEN base ELSE [proj EXCEPT !.of = @ \cup start]
  BY DEF ServeProbability
<1> DEFINE used == IF proj # NoMeans THEN proj ELSE base
<1>5. Means(c, m) = IF used = NoMeans THEN NoMeans
                    ELSE [used EXCEPT !.of = @ \cup {} \cup start]
  <2> HIDE DEF c, m, proj, base, start
  <2> QED BY <1>1, <1>2 DEF Means
<1>6. proj = NoMeans => start = {}
  BY DEF StarterAdjustments
<1>7. base = [kind |-> base.kind, of |-> base.of]
  BY DEF ExpectedRuns, NoMeans
<1>8. proj = [kind |-> proj.kind, of |-> proj.of]
  BY DEF ProjectedRuns, NoMeans
<1> HIDE DEF c, m, proj, base, start
<1>9. CASE proj = NoMeans
  <2>1. [base EXCEPT !.of = @ \cup {} \cup start] = base
    BY <1>6, <1>7, <1>9
  <2> QED BY <1>3, <1>4, <1>5, <1>9, <2>1
<1>10. CASE proj # NoMeans
  <2>1. [proj EXCEPT !.of = @ \cup {} \cup start] = [proj EXCEPT !.of = @ \cup start]
    BY <1>8
  <2> QED BY <1>3, <1>4, <1>5, <1>10, <2>1
<1> QED BY <1>9, <1>10

\* The means of two records read alike.
LEMMA SameMeans ==
  ASSUME NEW rec, NEW other, NEW T, NEW g, Near(rec, other, g, T)
  PROVE  /\ ExpectedRuns(rec, g, T) = ExpectedRuns(other, g, T)
         /\ ProjectedRuns(rec, g, T) = ProjectedRuns(other, g, T)
         /\ \A p : StarterAdjustments(rec, g, T, p) = StarterAdjustments(other, g, T, p)
         /\ \A t : PitchingSplit(rec, g, t, T) = PitchingSplit(other, g, t, T)
<1>1. \A t : Season(rec, g, t, T) = Season(other, g, t, T)
  BY SameReads
<1>2. LeagueBaseline(rec, g.season, T) = LeagueBaseline(other, g.season, T)
  BY DEF Near
<1>3. ExpectedRuns(rec, g, T) = ExpectedRuns(other, g, T)
  BY <1>1, <1>2 DEF ExpectedRuns
<1>4. \A t, league : TeamProjection(rec, g, t, T, league) = TeamProjection(other, g, t, T, league)
  BY SameProjection
<1>5. ProjectedRuns(rec, g, T) = ProjectedRuns(other, g, T)
  BY <1>2, <1>4 DEF ProjectedRuns
<1>6. /\ Since(rec, g.season, PitcherWeights, T) = Since(other, g.season, PitcherWeights, T)
      /\ Since(rec, g.season, TeamWeights, T) = Since(other, g.season, TeamWeights, T)
      /\ SeasonRates(rec, g.season - 1, T) = SeasonRates(other, g.season - 1, T)
  BY DEF Near
<1>7. ASSUME NEW t PROVE StarterEdge(rec, g, t, T) = StarterEdge(other, g, t, T)
  <2> DEFINE starts == Starts(Since(rec, g.season, PitcherWeights, T), Probable(g, t))
             rotation == Team(Since(rec, g.season, TeamWeights, T), t)
             before == {y \in starts \cup rotation : y.season # g.season}
  <2>1. before \subseteq rec
    BY DEF Starts, Team, Since, Slice
  <2>2. \A x \in before : SeasonRates(rec, x.season, T) = SeasonRates(other, x.season, T)
    BY <2>1 DEF Near
  <2>3. {SeasonRates(rec, x.season, T) : x \in before} = {SeasonRates(other, x.season, T) : x \in before}
    BY <2>2
  <2> QED BY <1>2, <1>6, <2>3 DEF StarterEdge
<1>8. \A p : StarterAdjustments(rec, g, T, p) = StarterAdjustments(other, g, T, p)
  BY <1>7 DEF StarterAdjustments
<1>9. \A t : PitchingSplit(rec, g, t, T) = PitchingSplit(other, g, t, T)
  BY <1>1 DEF PitchingSplit
<1> QED BY <1>3, <1>5, <1>8, <1>9

LEMMA SameServed ==
  ASSUME NEW rec, NEW other, NEW T \in Int, Agree(rec, other, T),
         NEW g, g.season = ThisSeason, NEW fit
  PROVE  ServeProbability(rec, g, T, fit) = ServeProbability(other, g, T, fit)
<1>1. Near(rec, other, g, T)
  BY AgreeNear
<1> QED BY <1>1, SameMeans DEF ServeProbability

LEMMA SameDispersion ==
  ASSUME NEW rec, NEW other, NEW T \in Int, Agree(rec, other, T), NEW U \in Int, U <= T
  PROVE  DispersionAsOf(rec, U) = DispersionAsOf(other, U)
<1>1. Slice(rec, U, 0) = Slice(other, U, 0)
  BY SameSlice
<1> QED BY <1>1 DEF DispersionAsOf

\* A snapshot served says when and from what it was computed.
Faithful(s) ==
    /\ s.at \in Int /\ s.as_of = LiveAsOf(s.game, s.at)
    /\ s.fit = DispersionAsOf(s.record,
                   Min({LiveAsOf(x, s.at) : x \in Card(OfficialDate(s.game))}))
    /\ s.run = ServeProbability(s.record, GameContext(s.game, s.starters), s.as_of, s.fit)

AllFaithful == \A s \in served : Faithful(s)

LEMMA StayFaithful ==
  ASSUME FInv, AllFaithful, [Next]_vars
  PROVE  AllFaithful'
<1>1. sched' = sched
  BY DEF Next, Advance, EndGame, IngestSchedule, IngestStatcast, Serve, vars
<1>2. \A s : Faithful(s)' <=> Faithful(s)
  BY <1>1 DEF Faithful, Card
<1>3. CASE served' = served
  BY <1>2, <1>3 DEF AllFaithful
<1>4. ASSUME NEW d \in {OfficialDate(g) : g \in Current}, Serve(d) PROVE AllFaithful'
  <2> SUFFICES ASSUME NEW s \in served' PROVE Faithful(s)
    BY <1>2 DEF AllFaithful
  <2>1. CASE s \in served
    BY <2>1 DEF AllFaithful
  <2>2. CASE s \notin served
    <3>1. PICK g \in Card(d) : MadeBy(s, g)
      BY <1>4, <2>2, ServeView
    <3>2. now \in Int
      BY DEF FInv
    <3> QED BY <3>1, <3>2 DEF MadeBy, Faithful
  <2> QED BY <2>1, <2>2
<1> QED BY <1>3, <1>4 DEF Next, Advance, EndGame, IngestSchedule, IngestStatcast, vars

\* The simulation of a row, where the slate's earliest moment is known.
LEMMA ScoredRow ==
  ASSUME NEW rec, NEW frame, NEW r \in frame, NEW m,
         Min({x.as_of : x \in {y \in frame : OfficialDate(y.game) = OfficialDate(r.game)}}) = m
  PROVE  EvaluateServed(rec, frame)[r] =
           [fit |-> DispersionAsOf(rec, m),
            run |-> SimulateGame(rec, Row(r.game), r.as_of, DispersionAsOf(rec, m), "served")]
<1>1. AsOfSizes(rec, frame)[r] = DispersionAsOf(rec, m)
  BY DEF AsOfSizes
<1>2. EvaluateServed(rec, frame)[r] =
        [fit |-> AsOfSizes(rec, frame)[r],
         run |-> SimulateGame(rec, Row(r.game), r.as_of, AsOfSizes(rec, frame)[r], "served")]
  BY DEF EvaluateServed
<1> QED BY <1>1, <1>2

\* A card served whole, all of whose games counted and none of whose starters
\* has been named anew, is scored as it was served, at the moments it was
\* served and, for a game served at its own and the earliest of its date, at
\* the policy's: the same fit of the dispersion and the same means, on any
\* schedule and whatever has arrived since.
THEOREM ScoredCorrect == Spec => []ServedAsScored
<1>1. FInv /\ AllFaithful => ServedAsScored
  <2> DEFINE call(s) == {x \in served : x.at = s.at /\ OfficialDate(x.game) = OfficialDate(s.game)}
             live(s) == {[game |-> x.game, as_of |-> x.as_of] : x \in call(s)}
             policy(s) == {[game |-> x.game, as_of |-> AsOf(x.game)] : x \in call(s)}
             mine(s) == [game |-> s.game, as_of |-> s.as_of]
             earliest(s) == s.as_of = AsOf(s.game) /\ \A x \in call(s) : s.as_of <= AsOf(x.game)
             slate(s) == {LiveAsOf(x, s.at) : x \in Card(OfficialDate(s.game))}
  <2> SUFFICES ASSUME FInv, AllFaithful, NEW s \in served,
                      {x.game : x \in call(s)} = Card(OfficialDate(s.game)),
                      \A x \in call(s) : /\ x.game \in final /\ x.game.type = "R"
                                         /\ Overdue(x.record, x.as_of) = {}
                                         /\ x.starters = named[x.game.id],
                      NEW frame \in {live(s)} \cup (IF earliest(s) THEN {policy(s)} ELSE {})
               PROVE  EvaluateServed(final, frame)[mine(s)] = [fit |-> s.fit, run |-> s.run]
    BY DEF ServedAsScored
  <2> DEFINE date == OfficialDate(s.game)
             m == Min(slate(s))
  <2>1. s \in call(s) /\ \A x \in call(s) : OfficialDate(x.game) = date
    OBVIOUS
  <2>2. Faithful(s) /\ SnapshotOK(s) /\ \A x \in call(s) : Faithful(x) /\ SnapshotOK(x)
    BY DEF FInv, AllFaithful
  <2>3. /\ Agree(s.record, final, s.as_of) /\ s.as_of \in Int /\ s.game.season = ThisSeason
        /\ GameContext(s.game, s.starters) = Row(s.game)
    BY <2>1, <2>2, RecordsAgree DEF SnapshotOK, Row
  <2>4. {x.as_of : x \in call(s)} = slate(s)
    <3>1. \A x \in call(s) : x.as_of = LiveAsOf(x.game, s.at)
      BY <2>2 DEF Faithful
    <3>2. {x.as_of : x \in call(s)} = {LiveAsOf(x, s.at) : x \in {y.game : y \in call(s)}}
      BY <3>1
    <3> QED BY <3>2
  <2>5. m \in slate(s) /\ (\A x \in slate(s) : m <= x) /\ slate(s) \subseteq Int /\ s.as_of \in slate(s)
    <3>1. s.at \in Int /\ s.as_of \in slate(s)
      BY <2>1, <2>2, <2>4 DEF Faithful
    <3> DEFINE low == IF s.at <= -1 THEN s.at ELSE -1
    <3>2. ASSUME NEW x \in Card(OfficialDate(s.game))
          PROVE  LiveAsOf(x, s.at) \in Int /\ LiveAsOf(x, s.at) >= low
      <4>1. x \in Scheduleds
        BY DEF Card, FInv, Scheduleds
      <4>2. Pitch(x) - 1 \in Int /\ Pitch(x) - 1 >= -1
        BY <4>1, Pitched
      <4> QED BY <3>1, <4>2, MinOfTwo DEF LiveAsOf
    <3>3. slate(s) \in SUBSET Int /\ \A x \in slate(s) : x >= low
      BY <3>2
    <3>4. low \in Int
      BY <3>1
    <3> HIDE DEF slate, low
    <3> QED BY <3>1, <3>3, <3>4, Earliest
  <2>6. m \in Int /\ m <= s.as_of
    BY <2>5
  <2>7. mine(s) \in frame
        /\ Min({x.as_of : x \in {y \in frame : OfficialDate(y.game) = date}}) = m
    <3>1. CASE frame = live(s)
      <4>1. mine(s) \in frame
        BY <2>1, <3>1
      <4>2. {x.as_of : x \in {y \in frame : OfficialDate(y.game) = date}} = {x.as_of : x \in call(s)}
        <5> DEFINE row(x) == [game |-> x.game, as_of |-> x.as_of]
        <5>1. \A x \in call(s) : /\ row(x).as_of = x.as_of /\ row(x).game = x.game
                                 /\ OfficialDate(x.game) = date
          OBVIOUS
        <5>2. frame = {row(x) : x \in call(s)}
          BY <3>1
        <5> HIDE DEF row, call, date
        <5>3. {y \in frame : OfficialDate(y.game) = date} = frame
          BY <5>1, <5>2
        <5>4. {x.as_of : x \in frame} = {x.as_of : x \in call(s)}
          BY <5>1, <5>2
        <5> QED BY <5>3, <5>4
      <4> QED BY <2>4, <4>1, <4>2
    <3>2. CASE earliest(s) /\ frame = policy(s)
      <4> DEFINE moments == {AsOf(x.game) : x \in call(s)}
      <4>1. mine(s) \in frame
        BY <2>1, <3>2
      <4>2. {x.as_of : x \in {y \in frame : OfficialDate(y.game) = date}} = moments
        <5> DEFINE row(x) == [game |-> x.game, as_of |-> AsOf(x.game)]
        <5>1. \A x \in call(s) : /\ row(x).as_of = AsOf(x.game) /\ row(x).game = x.game
                                 /\ OfficialDate(x.game) = date
          OBVIOUS
        <5>2. frame = {row(x) : x \in call(s)}
          BY <3>2
        <5> HIDE DEF row, call, date
        <5>3. {y \in frame : OfficialDate(y.game) = date} = frame
          BY <5>1, <5>2
        <5>4. {x.as_of : x \in frame} = moments
          BY <5>1, <5>2
        <5> QED BY <5>3, <5>4
      <4>3. s.as_of \in moments /\ \A x \in moments : s.as_of <= x
        BY <2>1, <3>2
      <4>4. ASSUME NEW x \in call(s) PROVE AsOf(x.game) \in Int /\ s.as_of <= x.as_of
        <5>1. x.game \in Scheduleds
          BY <2>2 DEF SnapshotOK, FInv, Scheduleds
        <5>2. /\ AsOf(x.game) \in Int /\ Pitch(x.game) \in Nat /\ AsOf(x.game) < Pitch(x.game)
          BY <5>1, Pitched
        <5>3. s.as_of <= s.at /\ s.at \in Int
          <6>1. s.game \in Scheduleds
            BY <2>2 DEF SnapshotOK, FInv, Scheduleds
          <6> QED BY <2>2, <6>1, LiveAsOfIsNumber DEF Faithful
        <5>4. s.as_of <= AsOf(x.game)
          BY <3>2
        <5>5. x.as_of = LiveAsOf(x.game, s.at)
          BY <2>2 DEF Faithful
        <5>6. x.as_of = IF s.at <= Pitch(x.game) - 1 THEN s.at ELSE Pitch(x.game) - 1
          BY <5>2, <5>3, <5>5, MinOfTwo DEF LiveAsOf
        <5> QED BY <2>3, <5>2, <5>3, <5>4, <5>6
      <4>5. moments \subseteq Int
        BY <4>4
      <4>6. Min(moments) = s.as_of
        <5> HIDE DEF moments
        <5>1. ASSUME NEW x \in moments, \A y \in moments : x <= y PROVE x = s.as_of
          <6>1. x <= s.as_of /\ s.as_of <= x /\ x \in Int
            BY <4>3, <4>5, <5>1
          <6> QED BY <2>3, <6>1
        <5> QED BY <4>3, <5>1 DEF Min
      <4>7. m = s.as_of
        <5>1. \A x \in slate(s) : s.as_of <= x
          BY <2>4, <4>4
        <5> HIDE DEF slate, m
        <5> QED BY <2>3, <2>5, <2>6, <5>1
      <4> QED BY <4>1, <4>2, <4>6, <4>7
    <3> QED BY <3>1, <3>2
  <2>8. s.fit = DispersionAsOf(final, m)
    <3>1. s.fit = DispersionAsOf(s.record, m)
      BY <2>2 DEF Faithful
    <3> HIDE DEF m
    <3> QED BY <2>3, <2>6, <3>1, SameDispersion
  <2>9. s.run = SimulateGame(final, Row(s.game), s.as_of, s.fit, "served")
    <3>1. s.run = ServeProbability(s.record, Row(s.game), s.as_of, s.fit)
      BY <2>2, <2>3 DEF Faithful
    <3>2. Row(s.game).season = ThisSeason
      BY <2>3, Contexts DEF Row
    <3>3. s.run = ServeProbability(final, Row(s.game), s.as_of, s.fit)
      BY <2>3, <3>1, <3>2, SameServed
    <3> QED BY <3>3, ServedIsSimulated
  <2>10. mine(s).game = s.game /\ mine(s).as_of = s.as_of
    OBVIOUS
  <2> HIDE DEF mine, m
  <2> QED BY <2>7, <2>8, <2>9, <2>10, ScoredRow
<1>2. Init => AllFaithful
  BY DEF Init, AllFaithful
<1>3. FInv /\ AllFaithful /\ [Next]_vars => AllFaithful'
  BY StayFaithful
<1> QED BY <1>1, <1>2, <1>3, ForecastInvariant, PTL DEF Spec

\* Against the base run model, every variant is compared on the same games:
\* where the base has means, so does each.
THEOREM CoveredCorrect == Spec => []VariantsCovered
<1>1. VariantsCovered
  <2> SUFFICES ASSUME NEW model \in DOMAIN RunModels, NEW g, NEW T,
                      Means(RunComponents(final, g, T), RunModels["base"]) # NoMeans
               PROVE  Means(RunComponents(final, g, T), RunModels[model]) # NoMeans
    BY DEF VariantsCovered, CompareRunModels
  <2> DEFINE c == RunComponents(final, g, T)
             b == RunModels["base"]
             m == RunModels[model]
  <2>1. b.projected = FALSE /\ b.pitching = FALSE /\ b.starter = FALSE
    BY DEF RunModels
  <2>0. Means(c, b) # NoMeans
    OBVIOUS
  <2>2. c.base # NoMeans
    <3> HIDE DEF c, b
    <3> QED BY <2>0, <2>1 DEF Means
  <2>3. c.base = [kind |-> c.base.kind, of |-> c.base.of]
        /\ c.projected = [kind |-> c.projected.kind, of |-> c.projected.of]
    BY DEF RunComponents, ExpectedRuns, ProjectedRuns, NoMeans
  <2>4. c.base.kind = "base"
    <3>1. c.base = ExpectedRuns(final, g, T)
      BY DEF RunComponents
    <3> HIDE DEF c
    <3> QED BY <2>2, <3>1 DEF ExpectedRuns
  <2>5. c.projected # NoMeans => c.projected.kind = "projected"
    <3>1. c.projected = ProjectedRuns(final, g, T)
      BY DEF RunComponents
    <3> HIDE DEF c
    <3> QED BY <3>1 DEF ProjectedRuns
  <2> DEFINE used == IF m.projected /\ c.projected # NoMeans THEN c.projected ELSE c.base
             more == (IF m.pitching THEN c.pitching ELSE {}) \cup (IF m.starter THEN c.starter ELSE {})
  <2>6. used.kind # "none" /\ used = [kind |-> used.kind, of |-> used.of] /\ used # NoMeans
    <3> HIDE DEF c, m
    <3> QED BY <2>2, <2>3, <2>4, <2>5
  <2>7. Means(c, m) = [used EXCEPT !.of = @ \cup (IF m.pitching THEN c.pitching ELSE {})
                                           \cup (IF m.starter THEN c.starter ELSE {})]
    <3> HIDE DEF c, m
    <3> QED BY <2>6 DEF Means
  <2>8. Means(c, m).kind = used.kind
    <3> HIDE DEF c, m, used
    <3> QED BY <2>6, <2>7
  <2>9. NoMeans.kind = "none"
    BY DEF NoMeans
  <2>10. Means(c, m) # NoMeans
    <3> HIDE DEF c, m, used
    <3> QED BY <2>6, <2>8, <2>9
  <2> QED BY <2>10
<1> QED BY <1>1, PTL

-----------------------------------------------------------------------------
(* One day, one set of priors.                                             *)

LEMMA Remainder ==
  ASSUME NEW n \in Nat \ {0}, NEW d \in Nat, NEW r \in 0..(n - 1)
  PROVE  (n * d + r) % n = r
  OBVIOUS

\* The day of a forecast starts with its official date, inside the season.
LEMMA ForecastDay ==
  ASSUME SlateOnOneDay, NEW g \in Scheduleds
  PROVE  /\ DayStart(AsOf(g)) = DayTicks * OfficialDate(g)
         /\ SeasonStart(g.season) <= DayStart(AsOf(g))
<1>1. /\ g.slot \in DOMAIN SlotTick /\ g.season \in 0..ThisSeason /\ g.day \in 0..(SeasonDays - 1)
  BY ForecastAssumption DEF Scheduleds
<1>2. /\ DayTicks \in Nat \ {0} /\ SeasonDays \in Nat \ {0} /\ Ahead \in Nat /\ ThisSeason \in Nat
      /\ SlotTick \in Seq(Nat)
  BY FeaturesAssumption, ForecastAssumption
<1> DEFINE d == OfficialDate(g)
           r == SlotTick[g.slot] - Ahead
           p == DayTicks * d
<1>3. d \in Nat /\ r \in 0..(DayTicks - 1)
  BY <1>1, Pitched DEF SlateOnOneDay
<1>4. p \in Nat
  BY <1>2, <1>3
<1>5. SlotTick[g.slot] \in Nat
  BY <1>1, <1>2
<1>6. AsOf(g) = p + r
  <2> HIDE DEF p
  <2>1. Pitch(g) = p + SlotTick[g.slot]
    BY DEF Pitch, p
  <2> QED BY <1>2, <1>4, <1>5, <2>1 DEF AsOf
<1>7. (p + r) % DayTicks = r
  BY <1>2, <1>3, Remainder
<1>8. DayStart(AsOf(g)) = p
  <2> HIDE DEF p, r
  <2> QED BY <1>3, <1>4, <1>6, <1>7 DEF DayStart
<1>9. SeasonStart(g.season) <= p
  <2>1. g.season \in Nat /\ SeasonDays * g.season \in Nat /\ SeasonDays * g.season <= d
    BY <1>1, <1>2 DEF OfficialDate
  <2>2. DayTicks * (SeasonDays * g.season) <= DayTicks * d
    BY <1>2, <1>3, <2>1, Times
  <2>3. SeasonStart(g.season) = DayTicks * (SeasonDays * g.season)
    BY <1>2, <2>1 DEF SeasonStart, Year
  <2> QED BY <2>2, <2>3
<1> QED BY <1>8, <1>9

\* A read speaks only of games of the record that were known at T.
KnownOnly(of, rec, T) ==
    \A x \in of : x[1] \in GameTables => \E y \in rec : Known(y) <= T /\ x[2] = y.id

LEMMA KnownTagged ==
  ASSUME NEW rec, NEW T, NEW table, NEW rows, \A y \in rows : y \in rec /\ Known(y) <= T
  PROVE  KnownOnly(Tagged(table, rows), rec, T)
  BY DEF KnownOnly, Tagged

LEMMA KnownSlice ==
  ASSUME NEW rec, rec \subseteq Scheduleds, NEW T \in Int, NEW U \in Int, U <= T, NEW from
  PROVE  \A y \in Slice(rec, U, from) : y \in rec /\ Known(y) <= T
<1>1. \A y \in rec : Known(y) \in Nat
  BY Pitched
<1> QED BY <1>1 DEF Slice

\* The priors of a game were known when its day started.
LEMMA PriorsKnown ==
  ASSUME SlateOnOneDay, NEW rec, rec \subseteq Scheduleds, NEW rows \in SUBSET rec,
         NEW g \in Scheduleds
  PROVE  /\ KnownOnly(LeagueBaseline(rec, g.season, AsOf(g)), rec, DayStart(AsOf(g)))
         /\ KnownOnly(StatcastLeague(rows, g.season, AsOf(g)), rec, DayStart(AsOf(g)))
<1> DEFINE D == DayStart(AsOf(g))
           start == SeasonStart(g.season)
<1>1. D \in Int /\ start \in Int /\ start <= D
  BY Pitched, DayStarted, ForecastDay
<1>2. \A from : \A y \in Slice(rec, D, from) \cup Slice(rec, start, from) : y \in rec /\ Known(y) <= D
  <2> HIDE DEF D, start
  <2> QED BY <1>1, KnownSlice
<1>3. KnownOnly(LeagueBaseline(rec, g.season, AsOf(g)), rec, D)
  BY <1>2, KnownTagged DEF LeagueBaseline
<1>4. \A from : \A y \in Slice(rows, D, from) : y \in rec /\ Known(y) <= D
  <2> HIDE DEF D
  <2> QED BY <1>1, KnownSlice
<1>5. KnownOnly(StatcastLeague(rows, g.season, AsOf(g)), rec, D)
  BY <1>4, KnownTagged DEF StatcastLeague
<1> QED BY <1>3, <1>5

\* The games of one official date are measured against one set of priors, and
\* no game of that date is among them, where the policy puts the forecasts of
\* a date on one UTC day.
THEOREM PriorsCorrect ==
  ASSUME SlateOnOneDay
  PROVE  Spec => []SlatePriors
<1>1. FInv => SlatePriors
  <2> DEFINE prior(g) == LeagueBaseline(final, g.season, AsOf(g)) \cup
                         StatcastLeague(tracked, g.season, AsOf(g))
  <2> SUFFICES ASSUME FInv, NEW g \in Current \cap final, NEW h \in Current \cap final,
                      OfficialDate(g) = OfficialDate(h)
               PROVE  prior(g) = prior(h) /\ h.id \notin Read(prior(g))
    BY DEF SlatePriors
  <2>1. /\ final \subseteq sched /\ sched \in Schedules /\ final \subseteq Scheduleds
        /\ g \in Scheduleds /\ h \in Scheduleds /\ g \in sched /\ h \in sched
        /\ g.season = ThisSeason /\ h.season = ThisSeason /\ tracked \in SUBSET final
    BY DEF FInv, RecordOK, Scheduleds, Current
  <2>2. DayStart(AsOf(g)) = DayStart(AsOf(h))
    BY <2>1, ForecastDay
  <2>3. prior(g) = prior(h)
    BY <2>1, <2>2 DEF LeagueBaseline, StatcastLeague
  <2>4. KnownOnly(prior(g), final, DayStart(AsOf(h)))
    <3>1. /\ KnownOnly(LeagueBaseline(final, g.season, AsOf(g)), final, DayStart(AsOf(g)))
          /\ KnownOnly(StatcastLeague(tracked, g.season, AsOf(g)), final, DayStart(AsOf(g)))
      BY <2>1, PriorsKnown
    <3>2. KnownOnly(prior(g), final, DayStart(AsOf(g)))
      BY <3>1 DEF KnownOnly
    <3> HIDE DEF prior
    <3> QED BY <2>2, <3>2
  <2>5. ASSUME h.id \in Read(prior(g)) PROVE FALSE
    <3>1. PICK x \in prior(g) : x[1] \in GameTables /\ x[2] = h.id
      BY <2>5 DEF Read
    <3>2. PICK y \in final : Known(y) <= DayStart(AsOf(h)) /\ y.id = h.id
      BY <2>4, <3>1 DEF KnownOnly
    <3>3. y = h
      BY <2>1, <3>2, ForecastAssumption
    <3> QED BY <2>1, <3>2, <3>3, Pitched, DayStarted
  <2> QED BY <2>3, <2>5
<1> QED BY <1>1, ForecastInvariant, PTL

-----------------------------------------------------------------------------
(* Nothing from the future: what a build speaks of was known when it was    *)
(* made.                                                                    *)

\* A record of scheduled games, read for a game of a season that has begun.
Asked(rec, g, T) ==
    /\ rec \subseteq Scheduleds
    /\ g.season \in Int /\ SeasonStart(g.season) \in Int
    /\ T \in Int /\ SeasonStart(g.season) <= T

KnownRows(rows, rec, T) == \A y \in rows : y \in rec /\ Known(y) <= T
AllKnown(values, rec, T) == \A k \in DOMAIN values : KnownOnly(values[k].of, rec, T)

\* The rows of every read were known.
LEMMA RowsKnown ==
  ASSUME NEW rec, NEW g, NEW T, Asked(rec, g, T)
  PROVE  /\ \A from : KnownRows(Slice(rec, T, from), rec, T)
         /\ \A from : KnownRows(Slice(rec, DayStart(T), from), rec, T)
         /\ \A from : KnownRows(Slice(rec, SeasonStart(g.season), from), rec, T)
         /\ \A t : KnownRows(Season(rec, g, t, T), rec, T)
         /\ \A t : KnownRows(Trailing(rec, t, T), rec, T)
         /\ \A ts : KnownRows(TeamSeasonRates(rec, g.season, T, ts), rec, T)
         /\ \A s \in Int : KnownRows(SeasonRates(rec, s, T), rec, T)
<1>1. /\ T \in Int /\ DayStart(T) \in Int /\ DayStart(T) <= T
      /\ SeasonStart(g.season) \in Int /\ SeasonStart(g.season) <= T /\ rec \subseteq Scheduleds
  BY DayStarted DEF Asked
<1>2. \A from : KnownRows(Slice(rec, T, from), rec, T)
  BY <1>1, KnownSlice DEF KnownRows
<1>3. \A from : KnownRows(Slice(rec, DayStart(T), from), rec, T)
  BY <1>1, KnownSlice DEF KnownRows
<1>4. \A from : KnownRows(Slice(rec, SeasonStart(g.season), from), rec, T)
  BY <1>1, KnownSlice DEF KnownRows
<1>5. \A t : KnownRows(Season(rec, g, t, T), rec, T)
  BY <1>2 DEF KnownRows, Season, Team
<1>6. \A t : KnownRows(Trailing(rec, t, T), rec, T)
  BY <1>2 DEF KnownRows, Trailing, Team
<1>7. \A ts : KnownRows(TeamSeasonRates(rec, g.season, T, ts), rec, T)
  BY <1>3 DEF KnownRows, TeamSeasonRates
<1>8. ASSUME NEW s \in Int PROVE KnownRows(SeasonRates(rec, s, T), rec, T)
  <2>1. SeasonStart(s + 1) \in Int
    BY FeaturesAssumption DEF SeasonStart, Year
  <2>2. Min({T, SeasonStart(s + 1)}) \in Int /\ Min({T, SeasonStart(s + 1)}) <= T
    BY <1>1, <2>1, MinOfTwo
  <2> QED BY <1>1, <2>2, KnownSlice DEF KnownRows, SeasonRates
<1> QED BY <1>2, <1>3, <1>4, <1>5, <1>6, <1>7, <1>8

\* The rows Statcast is stored for are on record, and so known.
LEMMA TrackedKnown ==
  ASSUME NEW rec, NEW g, NEW T, Asked(rec, g, T), NEW rows \in SUBSET rec
  PROVE  /\ \A from : KnownRows(Slice(rows, T, from), rec, T)
         /\ \A from : KnownRows(Slice(rows, DayStart(T), from), rec, T)
         /\ \A t : KnownRows(Season(rows, g, t, T), rec, T)
<1>1. Asked(rows, g, T)
  BY DEF Asked
<1>2. \A all : KnownRows(all, rows, T) => KnownRows(all, rec, T)
  BY DEF KnownRows
<1> QED BY <1>1, <1>2, RowsKnown

\* Sets of values put together from known ones.
LEMMA KnownTogether ==
  ASSUME NEW rec, NEW T
  PROVE  /\ KnownOnly({}, rec, T) /\ KnownOnly(Constant, rec, T)
         /\ \A one, two : KnownOnly(one, rec, T) /\ KnownOnly(two, rec, T)
                             => KnownOnly(one \cup two, rec, T)
         /\ \A all : (\A one \in all : KnownOnly(one, rec, T)) => KnownOnly(UNION all, rec, T)
         /\ \A rows, table : KnownRows(rows, rec, T) => KnownOnly(Tagged(table, rows), rec, T)
<1>1. KnownOnly({}, rec, T)
  BY DEF KnownOnly
<1>2. KnownOnly(Constant, rec, T)
  BY DEF KnownOnly, Constant, GameTables
<1>3. \A rows, table : KnownRows(rows, rec, T) => KnownOnly(Tagged(table, rows), rec, T)
  BY KnownTagged DEF KnownRows
<1> QED BY <1>1, <1>2, <1>3 DEF KnownOnly

\* A value kept, refused or shrunk towards a prior.
LEMMA KnownValues ==
  ASSUME NEW rec, NEW T
  PROVE  /\ KnownOnly(Missing.of, rec, T)
         /\ \A n, of : KnownOnly(of, rec, T) => KnownOnly(Value(n, of).of, rec, T)
         /\ \A rows, table, prior : KnownRows(rows, rec, T) /\ KnownOnly(prior, rec, T)
                => KnownOnly(Shrunk(rows, table, prior).of, rec, T)
         /\ \A cond, value : KnownOnly(value.of, rec, T)
                => KnownOnly(Unless(cond, value).of, rec, T)
<1>1. KnownOnly(Missing.of, rec, T)
  BY KnownTogether DEF Missing
<1>2. \A n, of : KnownOnly(of, rec, T) => KnownOnly(Value(n, of).of, rec, T)
  BY DEF Value
<1>3. \A rows, table, prior : KnownRows(rows, rec, T) /\ KnownOnly(prior, rec, T)
                => KnownOnly(Shrunk(rows, table, prior).of, rec, T)
  BY <1>1, <1>2, KnownTogether DEF Shrunk
<1>4. \A cond, value : KnownOnly(value.of, rec, T)
                => KnownOnly(Unless(cond, value).of, rec, T)
  BY <1>1 DEF Unless
<1> QED BY <1>1, <1>2, <1>3, <1>4

\* The priors were known.
LEMMA KnownPriors ==
  ASSUME NEW rec, NEW g, NEW T, Asked(rec, g, T)
  PROVE  /\ KnownOnly(LeagueBaseline(rec, g.season, T), rec, T)
         /\ \A rows \in SUBSET rec : KnownOnly(StatcastLeague(rows, g.season, T), rec, T)
<1>1. KnownRows(Slice(rec, DayStart(T), SeasonStart(g.season)) \cup
                Slice(rec, SeasonStart(g.season), SeasonStart(g.season - 1)), rec, T)
  BY RowsKnown DEF KnownRows
<1>2. \A rows \in SUBSET rec : KnownRows(Slice(rows, DayStart(T), SeasonStart(g.season)), rec, T)
  BY TrackedKnown
<1> QED BY <1>1, <1>2, KnownTogether DEF LeagueBaseline, StatcastLeague

-----------------------------------------------------------------------------
(* The groups of one side.                                                 *)

\* The games behind a rating.
LEMMA KnownRated ==
  ASSUME NEW rec, NEW T, NEW t
  PROVE  KnownOnly(Rated(rec, t, T), rec, T)
<1> DEFINE known == {g \in rec : Known(g) <= T}
           own == Team(known, t)
           behind == {g \in known : Pitch(g) <= Max({Pitch(o) : o \in own})}
           winters == {<<"winter", g.season>> : g \in known}
<1>1. KnownRows(behind, rec, T)
  BY DEF KnownRows
<1>2. KnownOnly(winters, rec, T)
  BY DEF KnownOnly, GameTables
<1>3. KnownOnly(Tagged("elo", behind) \cup winters, rec, T)
  <2> HIDE DEF behind, winters
  <2> QED BY <1>1, <1>2, KnownTogether
<1>4. Rated(rec, t, T) = IF own = {} THEN {} ELSE Tagged("elo", behind) \cup winters
  BY DEF Rated
<1> HIDE DEF known, own, behind, winters
<1> QED BY <1>3, <1>4, KnownTogether

LEMMA KnownStrength ==
  ASSUME NEW rec, NEW g, NEW T, Asked(rec, g, T), NEW t, NEW league, KnownOnly(league, rec, T)
  PROVE  AllKnown(TeamStrength(rec, g, t, T, league), rec, T)
<1> DEFINE season == Season(rec, g, t, T)
           faced == {Other(x, t) : x \in season}
           rates == TeamSeasonRates(rec, g.season, T, faced)
           elo == Value(Cardinality({x \in rec : Known(x) <= T /\ t \in Plays(x)}), Rated(rec, t, T))
           record == Shrunk(season, "team", Constant)
           split == Unless(season = {},
                    Shrunk({x \in season : (t = x.home) = (t = g.home)}, "team", Constant))
           sos == Unless(season = {},
                    Value(Cardinality(season), UNION {Rated(rec, o, T) : o \in faced}))
           opp == Unless(season = {} \/ league = {} \/ rates = {},
                    Value(Cardinality(season), Tagged("team", season \cup rates) \cup league))
<1>1. KnownOnly(elo.of, rec, T)
  BY KnownRated, KnownValues
<1>2. KnownRows(season, rec, T) /\ KnownRows(rates, rec, T)
  BY RowsKnown
<1>3. KnownOnly(record.of, rec, T)
  BY <1>2, KnownTogether, KnownValues
<1>4. KnownOnly(split.of, rec, T)
  <2>1. KnownRows({x \in season : (t = x.home) = (t = g.home)}, rec, T)
    BY <1>2 DEF KnownRows
  <2> QED BY <2>1, KnownTogether, KnownValues
<1>5. KnownOnly(sos.of, rec, T)
  <2>1. KnownOnly(UNION {Rated(rec, o, T) : o \in faced}, rec, T)
    BY KnownRated DEF KnownOnly
  <2> QED BY <2>1, KnownValues
<1>6. KnownOnly(opp.of, rec, T)
  <2>1. KnownRows(season \cup rates, rec, T)
    BY <1>2 DEF KnownRows
  <2>2. KnownOnly(Tagged("team", season \cup rates) \cup league, rec, T)
    BY <2>1, KnownTogether
  <2> QED BY <2>2, KnownValues
<1>7. TeamStrength(rec, g, t, T, league) =
        [elo |-> elo, record |-> record, split |-> split, sos |-> sos, opp_adj |-> opp]
  BY DEF TeamStrength
<1> HIDE DEF elo, record, split, sos, opp
<1> QED BY <1>1, <1>3, <1>4, <1>5, <1>6, <1>7 DEF AllKnown

LEMMA KnownOffense ==
  ASSUME NEW rec, NEW g, NEW T, Asked(rec, g, T), NEW t, NEW league, KnownOnly(league, rec, T)
  PROVE  AllKnown(Offense(rec, g, t, T, league), rec, T)
<1> DEFINE season == Season(rec, g, t, T)
           trailing == Trailing(rec, t, T)
           hands == {Hand(p) : p \in Probable(g, Other(g, t))}
           off == Shrunk(season, "team", league)
           recent == Shrunk(trailing, "team", league)
           form == Unless(off.missing \/ Cardinality(trailing) < MinForm,
                     Value(Cardinality(trailing), Tagged("team", trailing) \cup off.of))
           facing == {x \in season : Hand(Starter(x, Other(x, t))) \in hands}
           vs == Unless(hands = {} \/ season = {}, Shrunk(facing, "team", off.of))
<1>1. KnownRows(season, rec, T) /\ KnownRows(trailing, rec, T) /\ KnownRows(facing, rec, T)
  BY RowsKnown DEF KnownRows
<1>2. KnownOnly(off.of, rec, T) /\ KnownOnly(recent.of, rec, T)
  <2> HIDE DEF season, trailing
  <2> QED BY <1>1, KnownValues
<1>3. KnownOnly(form.of, rec, T)
  <2> HIDE DEF off, trailing
  <2>1. KnownOnly(Tagged("team", trailing) \cup off.of, rec, T)
    BY <1>1, <1>2, KnownTogether
  <2> QED BY <2>1, KnownValues
<1>4. KnownOnly(vs.of, rec, T)
  <2> HIDE DEF off, facing, hands, season
  <2> QED BY <1>1, <1>2, KnownValues
<1>5. Offense(rec, g, t, T, league) =
        [off |-> off, off_recent |-> recent, form |-> form, vs_hand |-> vs]
  BY DEF Offense
<1> HIDE DEF off, recent, form, vs
<1> QED BY <1>2, <1>3, <1>4, <1>5 DEF AllKnown

\* Starts and teams narrow a read; an unlisted table never names a game.
LEMMA KnownNarrowed ==
  ASSUME NEW rec, NEW T
  PROVE  /\ \A rows, ps : KnownRows(rows, rec, T) => KnownRows(Starts(rows, ps), rec, T)
         /\ \A rows, t : KnownRows(rows, rec, T) => KnownRows(Team(rows, t), rec, T)
         /\ \A one, two : KnownRows(one, rec, T) /\ KnownRows(two, rec, T)
                            => KnownRows(one \cup two, rec, T)
         /\ \A table, x : table \notin GameTables => KnownOnly({<<table, x>>}, rec, T)
<1>1. ASSUME NEW table, NEW x, table \notin GameTables PROVE KnownOnly({<<table, x>>}, rec, T)
  <2>1. \A y \in {<<table, x>>} : y[1] = table
    OBVIOUS
  <2> QED BY <1>1, <2>1 DEF KnownOnly
<1> QED BY <1>1 DEF KnownRows, Starts, Team

LEMMA KnownPitching ==
  ASSUME NEW rec, NEW g, NEW T, Asked(rec, g, T), NEW t, NEW league, KnownOnly(league, rec, T)
  PROVE  AllKnown(Pitching(rec, g, t, T, league), rec, T)
<1> DEFINE p == Probable(g, t)
           season == Season(rec, g, t, T)
           starts == Starts(season, p)
           career == Starts(Slice(rec, T, 0), p)
           trailing == Trailing(rec, t, T)
           status == BullpenStatus(season, T, league)
           identified == Value(1, {<<"named", Cardinality(p)>>})
           rates == Unless(p = {}, Shrunk(starts, "start", league))
           depth == Unless(p = {}, Shrunk(starts, "start", Constant))
           rest == Unless(p = {}, StarterRest(career))
           experience == Unless(p = {}, Value(Cardinality(career), Tagged("start", career)))
           recent == Shrunk(trailing, "relief", league)
           load == Value(Cardinality(trailing), Tagged("relief", season \cup trailing))
           available == Summarize(status)
<1>1. /\ KnownRows(season, rec, T) /\ KnownRows(trailing, rec, T)
      /\ KnownRows(starts, rec, T) /\ KnownRows(career, rec, T)
  BY RowsKnown, KnownNarrowed
<1>2. KnownOnly(identified.of, rec, T)
  <2>1. KnownOnly({<<"named", Cardinality(p)>>}, rec, T)
    BY KnownNarrowed DEF GameTables
  <2> QED BY <2>1, KnownValues
<1>3. KnownOnly(rates.of, rec, T) /\ KnownOnly(depth.of, rec, T)
  <2> HIDE DEF starts, p
  <2> QED BY <1>1, KnownTogether, KnownValues
<1>4. KnownOnly(rest.of, rec, T)
  <2> HIDE DEF career, p
  <2>1. KnownOnly({<<"last_start", Max({Pitch(x) : x \in career})>>}, rec, T)
    BY KnownNarrowed DEF GameTables
  <2>2. KnownOnly(StarterRest(career).of, rec, T)
    BY <2>1, KnownValues DEF StarterRest
  <2> QED BY <2>2, KnownValues
<1>5. KnownOnly(experience.of, rec, T)
  <2> HIDE DEF career, p
  <2> QED BY <1>1, KnownTogether, KnownValues
<1>6. KnownOnly(recent.of, rec, T)
  <2> HIDE DEF trailing
  <2> QED BY <1>1, KnownValues
<1>7. KnownOnly(load.of, rec, T)
  <2> HIDE DEF season, trailing
  <2>1. KnownRows(season \cup trailing, rec, T)
    BY <1>1, KnownNarrowed
  <2> QED BY <2>1, KnownTogether, KnownValues
<1>8. KnownOnly(available.of, rec, T)
  <2>1. PICK days : status.of = Tagged("relief", season) \cup league \cup {<<"running", days>>}
    BY DEF BullpenStatus
  <2> HIDE DEF season, status
  <2>2. KnownOnly({<<"running", days>>}, rec, T)
    BY KnownNarrowed DEF GameTables
  <2>3. KnownOnly(Tagged("relief", season), rec, T)
    BY <1>1, KnownTogether
  <2>4. KnownOnly(Tagged("relief", season) \cup league, rec, T)
    BY <2>3, KnownTogether
  <2>5. KnownOnly(status.of, rec, T)
    BY <2>1, <2>2, <2>4, Zenon DEF KnownOnly
  <2> QED BY <2>5, KnownValues DEF Summarize
<1>9. Pitching(rec, g, t, T, league) =
        [sp_identified |-> identified, sp_rates |-> rates, sp_depth |-> depth, sp_rest |-> rest,
         sp_experience |-> experience, bp_recent |-> recent, bp_load |-> load,
         bp_available |-> available]
  BY DEF Pitching
<1> HIDE DEF identified, rates, depth, rest, experience, recent, load, available
<1> QED BY <1>2, <1>3, <1>4, <1>5, <1>6, <1>7, <1>8, <1>9 DEF AllKnown

LEMMA KnownStatcast ==
  ASSUME NEW rec, NEW g, NEW T, Asked(rec, g, T), NEW t, NEW rows \in SUBSET rec
  PROVE  AllKnown(StatcastStarter(rows, g, t, T), rec, T)
<1> DEFINE p == Probable(g, t)
           since == Starts(Slice(rows, T, SeasonStart(g.season - 1)), p)
           season == Starts(Slice(rows, T, SeasonStart(g.season)), p)
           recent == Starts(Slice(rows, T, T - Recent), p)
           prior == {x \in since : Pitch(x) < SeasonStart(g.season)}
           league == StatcastLeague(rows, g.season, T)
           none == [sc_rates |-> Missing, sc_trend |-> Missing]
<1>1. /\ KnownRows(season, rec, T) /\ KnownRows(recent, rec, T) /\ KnownRows(prior, rec, T)
  <2>1. KnownRows(since, rec, T) /\ KnownRows(season, rec, T) /\ KnownRows(recent, rec, T)
    BY TrackedKnown, KnownNarrowed
  <2> QED BY <2>1 DEF KnownRows
<1>2. KnownOnly(league, rec, T)
  BY KnownPriors
<1>3. AllKnown(none, rec, T)
  BY KnownValues DEF AllKnown
<1>4. StatcastStarter(rows, g, t, T) = StatcastValues(season, prior, recent, league)
  BY DEF StatcastStarter
<1> HIDE DEF p, since, season, recent, prior, league
<1>5. AllKnown(StatcastValues(season, prior, recent, league), rec, T)
  <2> DEFINE rates == Shrunk(season, "statcast", Tagged("statcast", prior) \cup league)
             trend == VelocityTrend(recent, season)
  <2>1. KnownOnly(Tagged("statcast", prior) \cup league, rec, T)
    BY <1>1, <1>2, KnownTogether
  <2>2. KnownOnly(rates.of, rec, T)
    BY <1>1, <2>1, KnownValues
  <2>3. KnownOnly(Tagged("statcast", recent \cup season), rec, T)
    BY <1>1, KnownNarrowed, KnownTogether
  <2>4. KnownOnly(trend.of, rec, T)
    BY <2>3, KnownValues DEF VelocityTrend
  <2>5. StatcastValues(season, prior, recent, league) =
          IF season = {} THEN none ELSE [sc_rates |-> rates, sc_trend |-> trend]
    BY DEF StatcastValues
  <2> HIDE DEF rates, trend
  <2>6. AllKnown([sc_rates |-> rates, sc_trend |-> trend], rec, T)
    BY <2>2, <2>4 DEF AllKnown
  <2> QED BY <1>3, <2>5, <2>6
<1> QED BY <1>3, <1>4, <1>5

LEMMA KnownLineup ==
  ASSUME NEW rec, NEW g, NEW T, Asked(rec, g, T), NEW t, NEW rows \in SUBSET rec
  PROVE  AllKnown(Lineup(rec, g, t, T, rows), rec, T)
<1> DEFINE facing == Probable(g, Other(g, t))
           usage == Starts(Slice(rows, T, SeasonStart(g.season)), facing)
           orders == Trailing(rec, t, T)
           profiles == Season(rows, g, t, T)
           hands == {Hand(p) : p \in facing}
           league == StatcastLeague(rows, g.season, T)
           of == Tagged("order", orders) \cup Tagged("batter", profiles) \cup league
           covered == Value(Cardinality(profiles), of)
           handed == [covered EXCEPT !.of = @ \cup {<<"hand", h>> : h \in hands}]
           none == orders = {} \/ profiles = {}
           edges == ArsenalEdges(profiles, of, usage)
<1>1. KnownRows(usage, rec, T) /\ KnownRows(orders, rec, T) /\ KnownRows(profiles, rec, T)
  BY RowsKnown, TrackedKnown, KnownNarrowed
<1>2. KnownOnly(league, rec, T)
  BY KnownPriors
<1>3. Lineup(rec, g, t, T, rows) = LineupValues(orders, profiles, hands, usage, league)
  BY DEF Lineup
<1>4. LineupValues(orders, profiles, hands, usage, league) =
        [lineup |-> Unless(none, covered), lineup_hand |-> Unless(none, handed),
         arsenal |-> Unless(orders = {}, edges)]
  BY DEF LineupValues
<1> HIDE DEF usage, orders, profiles, league
<1>5. KnownOnly(of, rec, T)
  BY <1>1, <1>2, KnownTogether
<1>6. covered.of = of /\ handed.of = of \cup {<<"hand", h>> : h \in hands}
  BY DEF Value
<1>7. KnownOnly({<<"hand", h>> : h \in hands}, rec, T)
  BY DEF KnownOnly, GameTables
<1> HIDE DEF of, hands, covered, handed
<1>8. KnownOnly(handed.of, rec, T)
  BY <1>5, <1>6, <1>7, Zenon DEF KnownOnly
<1>9. KnownOnly(edges.of, rec, T)
  <2>1. KnownOnly(of \cup Tagged("arsenal", usage), rec, T)
    BY <1>1, <1>5, KnownTogether
  <2> QED BY <2>1, KnownValues DEF ArsenalEdges
<1> HIDE DEF edges, none
<1>10. /\ KnownOnly(Unless(none, covered).of, rec, T)
       /\ KnownOnly(Unless(none, handed).of, rec, T)
       /\ KnownOnly(Unless(orders = {}, edges).of, rec, T)
  BY <1>5, <1>6, <1>8, <1>9, KnownValues
<1> QED BY <1>3, <1>4, <1>10 DEF AllKnown

\* A pooled rate speaks of its rows, and of the leagues of their seasons.
LEMMA KnownPooled ==
  ASSUME NEW rec, NEW g, NEW T, Asked(rec, g, T), NEW rows, KnownRows(rows, rec, T),
         NEW table, NEW season, NEW weights, NEW league, KnownOnly(league, rec, T)
  PROVE  KnownOnly(Pooled(rec, rows, table, season, weights, T, league).of, rec, T)
<1> DEFINE rates == UNION {SeasonRates(rec, x.season, T) : x \in {y \in rows : y.season # season}}
<1>1. KnownRows(rates, rec, T)
  <2>1. ASSUME NEW x \in rows PROVE KnownRows(SeasonRates(rec, x.season, T), rec, T)
    <3>1. x.season \in Int
      BY Pitched DEF KnownRows, Asked
    <3> QED BY <3>1, RowsKnown
  <2> QED BY <2>1 DEF KnownRows
<1>2. Pooled(rec, rows, table, season, weights, T, league).of =
        Tagged(table, rows) \cup league \cup Tagged("rates", rates)
  BY DEF Pooled, Value
<1> HIDE DEF rates
<1>3. KnownOnly(Tagged("rates", rates), rec, T) /\ KnownOnly(Tagged(table, rows), rec, T)
  BY <1>1, KnownTogether
<1> QED BY <1>2, <1>3, Zenon DEF KnownOnly

LEMMA KnownProjection ==
  ASSUME NEW rec, NEW g, NEW T, Asked(rec, g, T), NEW t, NEW league, KnownOnly(league, rec, T)
  PROVE  /\ KnownOnly(TeamProjection(rec, g, t, T, league).of, rec, T)
         /\ KnownOnly(StarterProjection(rec, g, t, T, league).of, rec, T)
         /\ AllKnown(Projection(rec, g, t, T, league), rec, T)
<1> DEFINE played == Team(Since(rec, g.season, TeamWeights, T), t)
           started == Starts(Since(rec, g.season, PitcherWeights, T), Probable(g, t))
           team == Pooled(rec, played, "team", g.season, TeamWeights, T, league)
           starter == Pooled(rec, started, "start", g.season, PitcherWeights, T, league)
<1>1. KnownRows(played, rec, T) /\ KnownRows(started, rec, T)
  BY RowsKnown, KnownNarrowed DEF Since
<1>2. KnownOnly(team.of, rec, T) /\ KnownOnly(starter.of, rec, T)
  <2> HIDE DEF played, started
  <2> QED BY <1>1, KnownPooled
<1>3. /\ TeamProjection(rec, g, t, T, league) = Unless(league = {}, team)
      /\ StarterProjection(rec, g, t, T, league) =
           Unless(Probable(g, t) = {} \/ league = {}, starter)
  BY DEF TeamProjection, StarterProjection
<1> HIDE DEF team, starter
<1>4. /\ KnownOnly(TeamProjection(rec, g, t, T, league).of, rec, T)
      /\ KnownOnly(StarterProjection(rec, g, t, T, league).of, rec, T)
  BY <1>2, <1>3, KnownValues
<1>5. AllKnown(Projection(rec, g, t, T, league), rec, T)
  BY <1>4 DEF AllKnown, Projection
<1> QED BY <1>4, <1>5

\* The other groups of a side.
LEMMA KnownRest ==
  ASSUME NEW rec, NEW g, NEW T, Asked(rec, g, T), NEW t, NEW league, KnownOnly(league, rec, T)
  PROVE  /\ AllKnown(Defense(rec, g, t, T, league), rec, T)
         /\ AllKnown(Schedule(rec, t, T), rec, T)
         /\ AllKnown(History(rec, g, t, T), rec, T)
         /\ AllKnown(Availability(rec, t, T), rec, T)
         /\ AllKnown(StreakValues(rec, g, t, T), rec, T)
<1> DEFINE season == Season(rec, g, t, T)
           trailing == Trailing(rec, t, T)
<1>1. KnownRows(season, rec, T) /\ KnownRows(trailing, rec, T)
  BY RowsKnown
<1>2. AllKnown(Defense(rec, g, t, T, league), rec, T)
  <2>1. KnownOnly(Shrunk(season, "team", league).of, rec, T)
    BY <1>1, KnownValues
  <2> QED BY <2>1 DEF AllKnown, Defense
<1>3. AllKnown(Schedule(rec, t, T), rec, T)
  <2> DEFINE played == {x \in rec : t \in Plays(x) /\ Pitch(x) < T}
             recent == {x \in played : Pitch(x) >= T - Recent}
             last == Value(Cardinality(played), {<<"last_game", Max({Pitch(x) : x \in played})>>})
             week == Value(Cardinality(played), Tagged("schedule", recent))
  <2>1. KnownOnly(last.of, rec, T)
    <3> HIDE DEF played
    <3>1. KnownOnly({<<"last_game", Max({Pitch(x) : x \in played})>>}, rec, T)
      BY KnownNarrowed DEF GameTables
    <3> QED BY <3>1, KnownValues
  <2>2. KnownOnly(week.of, rec, T)
    <3> HIDE DEF recent
    <3>1. KnownOnly(Tagged("schedule", recent), rec, T)
      BY DEF KnownOnly, Tagged, GameTables
    <3> QED BY <3>1, KnownValues
  <2>3. Schedule(rec, t, T) = [sched |-> Unless(played = {}, last), sched_7d |-> week]
    BY DEF Schedule
  <2> HIDE DEF last, week
  <2>4. KnownOnly(Unless(played = {}, last).of, rec, T)
    BY <2>1, KnownValues
  <2> QED BY <2>2, <2>3, <2>4 DEF AllKnown
<1>4. AllKnown(History(rec, g, t, T), rec, T)
  <2> DEFINE met == {x \in season : Plays(x) = Plays(g)}
  <2>1. KnownRows(met, rec, T)
    BY <1>1 DEF KnownRows
  <2>2. History(rec, g, t, T) = [h2h |-> Unless(met = {}, Shrunk(met, "team", Constant))]
    BY DEF History
  <2> HIDE DEF met
  <2>3. KnownOnly(Unless(met = {}, Shrunk(met, "team", Constant)).of, rec, T)
    BY <2>1, KnownTogether, KnownValues
  <2> QED BY <2>2, <2>3 DEF AllKnown
<1>5. AllKnown(Availability(rec, t, T), rec, T)
  <2> DEFINE out == Unavailable(T)
             lost == IF t \in out THEN {<<"lost", 1>>} ELSE {}
             loss == AvailabilityLoss(trailing, t, out)
  <2>1. KnownOnly(lost, rec, T)
    <3>1. KnownOnly({<<"lost", 1>>}, rec, T)
      BY KnownNarrowed DEF GameTables
    <3> QED BY <3>1, KnownTogether
  <2>2. AvailabilityLoss(trailing, t, out) =
          Unless(trailing = {}, Value(Cardinality(trailing), Tagged("player", trailing) \cup lost))
    BY DEF AvailabilityLoss
  <2>3. KnownOnly(loss.of, rec, T)
    <3> HIDE DEF lost, trailing, out
    <3>1. KnownOnly(Tagged("player", trailing) \cup lost, rec, T)
      BY <1>1, <2>1, KnownTogether
    <3> QED BY <2>2, <3>1, KnownValues
  <2>4. Availability(rec, t, T) = [il_lost |-> Unless(Transactions = {}, loss)]
    BY DEF Availability
  <2> HIDE DEF loss
  <2>5. KnownOnly(Unless(Transactions = {}, loss).of, rec, T)
    BY <2>3, KnownValues
  <2> QED BY <2>4, <2>5 DEF AllKnown
<1>6. AllKnown(StreakValues(rec, g, t, T), rec, T)
  <2>1. KnownRows(Slice(rec, T, 0), rec, T)
    BY RowsKnown
  <2>2. KnownOnly(Value(Cardinality(season), Tagged("log", Slice(rec, T, 0))).of, rec, T)
    BY <2>1, KnownTogether, KnownValues
  <2> QED BY <2>2 DEF AllKnown, StreakValues
<1> QED BY <1>2, <1>3, <1>4, <1>5, <1>6

\* The weather is of the game, the balls in the air of games known.
LEMMA KnownWeather ==
  ASSUME NEW rec, NEW g, NEW T, Asked(rec, g, T)
  PROVE  AllKnown(Weather(rec, g, T), rec, T)
<1> DEFINE air == WeatherAsOf(g, T)
           carry == CarryIndex(air)
           staffs == {Season(rec, g, t, T) : t \in Plays(g)}
           flyball == FlyballTendency(staffs)
           both == Value(1, carry.of \cup flyball.of)
<1>1. KnownOnly(carry.of, rec, T)
  <2>1. KnownOnly(air, rec, T)
    <3> DEFINE leads == {l \in Leads : Pitch(g) - l <= T}
    <3>1. air = IF leads = {} THEN {} ELSE {<<"forecast", Min(leads)>>}
      BY DEF WeatherAsOf
    <3> HIDE DEF air, leads
    <3>2. KnownOnly({<<"forecast", Min(leads)>>}, rec, T)
      BY KnownNarrowed DEF GameTables
    <3> QED BY <3>1, <3>2, KnownTogether
  <2> HIDE DEF air
  <2> QED BY <2>1, KnownValues DEF CarryIndex
<1>2. KnownOnly(flyball.of, rec, T)
  <2>1. KnownRows(UNION staffs, rec, T)
    BY RowsKnown DEF KnownRows
  <2> HIDE DEF staffs
  <2> QED BY <2>1, KnownTogether, KnownValues DEF FlyballTendency
<1>3. Weather(rec, g, T) =
        [wx |-> carry, wx_flyball |-> Unless(carry.missing \/ flyball.missing, both)]
  BY DEF Weather
<1> HIDE DEF carry, flyball
<1>4. KnownOnly(both.of, rec, T)
  BY <1>1, <1>2, KnownTogether, KnownValues
<1> HIDE DEF both
<1>5. KnownOnly(Unless(carry.missing \/ flyball.missing, both).of, rec, T)
  BY <1>4, KnownValues
<1> QED BY <1>1, <1>3, <1>5 DEF AllKnown

\* values.update keeps what both sides know.
LEMMA KnownUpdated ==
  ASSUME NEW rec, NEW T, NEW f, NEW e, AllKnown(f, rec, T), AllKnown(e, rec, T)
  PROVE  AllKnown(f ++ e, rec, T)
  BY DEF AllKnown, ++

\* Every value of a side speaks of games known when it was built.
LEMMA KnownSide ==
  ASSUME NEW rec, NEW g, NEW T, Asked(rec, g, T), NEW t, NEW rows \in SUBSET rec
  PROVE  AllKnown(BuildSide(rec, g, t, T, rows), rec, T)
<1> DEFINE league == LeagueBaseline(rec, g.season, T)
           b == TeamStrength(rec, g, t, T, league)
           o == Offense(rec, g, t, T, league)
           d == Defense(rec, g, t, T, league)
           p == Pitching(rec, g, t, T, league)
           c == StatcastStarter(rows, g, t, T)
           l == Lineup(rec, g, t, T, rows)
           s == Schedule(rec, t, T)
           h == History(rec, g, t, T)
           a == Availability(rec, t, T)
           k == StreakValues(rec, g, t, T)
           j == Projection(rec, g, t, T, league)
<1>1. KnownOnly(league, rec, T)
  BY KnownPriors
<1>2. AllKnown(b, rec, T)
  BY <1>1, KnownStrength
<1>3. AllKnown(o, rec, T)
  BY <1>1, KnownOffense
<1>4. AllKnown(p, rec, T)
  BY <1>1, KnownPitching
<1>5. AllKnown(c, rec, T)
  BY KnownStatcast
<1>6. AllKnown(l, rec, T)
  BY KnownLineup
<1>7. /\ AllKnown(d, rec, T) /\ AllKnown(s, rec, T) /\ AllKnown(h, rec, T)
      /\ AllKnown(a, rec, T) /\ AllKnown(k, rec, T)
  BY <1>1, KnownRest
<1>8. AllKnown(j, rec, T)
  BY <1>1, KnownProjection
<1>9. BuildSide(rec, g, t, T, rows) = b ++ o ++ d ++ p ++ c ++ l ++ s ++ h ++ a ++ k ++ j
  BY DEF BuildSide
<1> HIDE DEF b, o, d, p, c, l, s, h, a, k, j
<1>10. AllKnown(b ++ o, rec, T)
  BY <1>2, <1>3, KnownUpdated
<1>11. AllKnown(b ++ o ++ d, rec, T)
  BY <1>7, <1>10, KnownUpdated
<1>12. AllKnown(b ++ o ++ d ++ p, rec, T)
  BY <1>4, <1>11, KnownUpdated
<1>13. AllKnown(b ++ o ++ d ++ p ++ c, rec, T)
  BY <1>5, <1>12, KnownUpdated
<1>14. AllKnown(b ++ o ++ d ++ p ++ c ++ l, rec, T)
  BY <1>6, <1>13, KnownUpdated
<1>15. AllKnown(b ++ o ++ d ++ p ++ c ++ l ++ s, rec, T)
  BY <1>7, <1>14, KnownUpdated
<1>16. AllKnown(b ++ o ++ d ++ p ++ c ++ l ++ s ++ h, rec, T)
  BY <1>7, <1>15, KnownUpdated
<1>17. AllKnown(b ++ o ++ d ++ p ++ c ++ l ++ s ++ h ++ a, rec, T)
  BY <1>7, <1>16, KnownUpdated
<1>18. AllKnown(b ++ o ++ d ++ p ++ c ++ l ++ s ++ h ++ a ++ k, rec, T)
  BY <1>7, <1>17, KnownUpdated
<1>19. AllKnown(b ++ o ++ d ++ p ++ c ++ l ++ s ++ h ++ a ++ k ++ j, rec, T)
  BY <1>8, <1>18, KnownUpdated
<1> QED BY <1>9, <1>19

\* A difference of two values speaks of what they speak of.
LEMMA KnownDiff ==
  ASSUME NEW rec, NEW T, NEW v, NEW w, KnownOnly(v.of, rec, T), KnownOnly(w.of, rec, T)
  PROVE  \A i \in DOMAIN Diff(v, w) : KnownOnly(Diff(v, w)[i], rec, T)
<1>1. CASE v.missing \/ w.missing
  <2>1. Diff(v, w) = <<>>
    BY <1>1 DEF Diff
  <2> QED BY <2>1
<1>2. CASE ~ (v.missing \/ w.missing)
  <2>1. Diff(v, w) = <<v.of, w.of>>
    BY <1>2 DEF Diff
  <2>2. DOMAIN <<v.of, w.of>> = {1, 2}
    OBVIOUS
  <2> QED BY <2>1, <2>2
<1> QED BY <1>1, <1>2

\* And so does every feature of the game.
LEMMA KnownBuild ==
  ASSUME NEW rec, NEW g, NEW T, Asked(rec, g, T), NEW rows \in SUBSET rec
  PROVE  \A k \in Keys : \A i \in DOMAIN Build(rec, g, T, rows)[k] :
            KnownOnly(Build(rec, g, T, rows)[k][i], rec, T)
<1> DEFINE home == BuildSide(rec, g, g.home, T, rows)
           away == BuildSide(rec, g, g.away, T, rows)
           air == Weather(rec, g, T)
           sides == [k \in DOMAIN home |-> Diff(home[k], away[k])]
           airs == [k \in DOMAIN air |-> Diff(air[k], air[k])]
<1>1. AllKnown(home, rec, T) /\ AllKnown(away, rec, T) /\ AllKnown(air, rec, T)
  BY KnownSide, KnownWeather
<1>2. DOMAIN home = SideKeys /\ DOMAIN away = SideKeys /\ DOMAIN air = WeatherKeys
  BY SideDomain DEF Weather, WeatherKeys
<1>3. Build(rec, g, T, rows) = sides ++ airs
  BY DEF Build
<1> HIDE DEF home, away, air
<1>4. ASSUME NEW k \in Keys
      PROVE  \A i \in DOMAIN (sides ++ airs)[k] : KnownOnly((sides ++ airs)[k][i], rec, T)
  <2>1. CASE k \in WeatherKeys
    <3>1. (sides ++ airs)[k] = Diff(air[k], air[k])
      BY <1>2, <2>1, Zenon DEF ++
    <3> QED BY <1>1, <1>2, <2>1, <3>1, KnownDiff DEF AllKnown
  <2>2. CASE k \notin WeatherKeys
    <3>1. k \in SideKeys
      BY <2>2, KeysBuilt
    <3>2. (sides ++ airs)[k] = Diff(home[k], away[k])
      BY <1>2, <2>2, <3>1, Zenon DEF ++
    <3> QED BY <1>1, <1>2, <3>1, <3>2, KnownDiff DEF AllKnown
  <2> QED BY <2>1, <2>2
<1> QED BY <1>3, <1>4

\* The means of a game, and the fit of its dispersion.
LEMMA KnownMeans ==
  ASSUME NEW rec, NEW g, NEW T, Asked(rec, g, T), NEW fit
  PROVE  KnownOnly(ServeProbability(rec, g, T, fit).of, rec, T)
<1> DEFINE league == LeagueBaseline(rec, g.season, T)
           both == UNION {Season(rec, g, t, T) : t \in Plays(g)}
           p == [t \in Plays(g) |-> TeamProjection(rec, g, t, T, league)]
           proj == ProjectedRuns(rec, g, T)
           base == ExpectedRuns(rec, g, T)
           start == StarterAdjustments(rec, g, T, proj)
<1>1. KnownOnly(league, rec, T)
  BY KnownPriors
<1>2. KnownOnly(NoMeans.of, rec, T)
  BY KnownTogether DEF NoMeans
<1>3. KnownOnly(base.of, rec, T)
  <2>1. KnownRows(both, rec, T)
    BY RowsKnown DEF KnownRows
  <2>2. base = NoMeans \/ base = [kind |-> "base", of |-> league \cup Tagged("team", both)]
    BY DEF ExpectedRuns
  <2> HIDE DEF both, league, base
  <2>3. KnownOnly(league \cup Tagged("team", both), rec, T)
    BY <1>1, <2>1, KnownTogether
  <2> QED BY <1>2, <2>2, <2>3
<1>4. KnownOnly(proj.of, rec, T)
  <2>1. proj = NoMeans \/ proj = [kind |-> "projected", of |-> UNION {p[t].of : t \in Plays(g)}]
    BY DEF ProjectedRuns
  <2>2. \A t \in Plays(g) : KnownOnly(p[t].of, rec, T)
    BY <1>1, KnownProjection
  <2> DEFINE all == UNION {p[t].of : t \in Plays(g)}
  <2> HIDE DEF p, proj
  <2>3. KnownOnly(all, rec, T)
    BY <2>2 DEF KnownOnly
  <2>4. proj.of = NoMeans.of \/ proj.of = all
    BY <2>1
  <2> HIDE DEF all
  <2> QED BY <1>2, <2>3, <2>4
<1>5. \A t : KnownOnly(StarterEdge(rec, g, t, T), rec, T)
  <2> TAKE t
  <2> DEFINE starts == Starts(Since(rec, g.season, PitcherWeights, T), Probable(g, t))
             last == SeasonRates(rec, g.season - 1, T)
             rotation == Team(Since(rec, g.season, TeamWeights, T), t)
             pooled == UNION {SeasonRates(rec, x.season, T) :
                                 x \in {y \in starts \cup rotation : y.season # g.season}}
  <2>1. KnownRows(starts, rec, T) /\ KnownRows(rotation, rec, T)
    BY RowsKnown, KnownNarrowed DEF Since
  <2>2. KnownRows(last \cup pooled, rec, T)
    <3>1. KnownRows(last, rec, T)
      <4>1. g.season - 1 \in Int
        BY DEF Asked
      <4> QED BY <4>1, RowsKnown
    <3>2. KnownRows(pooled, rec, T)
      <4>1. ASSUME NEW x \in starts \cup rotation PROVE KnownRows(SeasonRates(rec, x.season, T), rec, T)
        <5>1. x.season \in Int
          BY <2>1, Pitched DEF KnownRows, Asked
        <5> QED BY <5>1, RowsKnown
      <4> HIDE DEF starts, rotation
      <4> QED BY <4>1 DEF KnownRows
    <3> HIDE DEF last, pooled
    <3> QED BY <3>1, <3>2, KnownNarrowed
  <2>3. \/ StarterEdge(rec, g, t, T) = {}
        \/ StarterEdge(rec, g, t, T) =
             Tagged("start", starts) \cup Tagged("rotation", rotation)
             \cup Tagged("rates", last \cup pooled)
    BY DEF StarterEdge
  <2> DEFINE rates == last \cup pooled
  <2> HIDE DEF starts, rates, rotation
  <2>4. /\ KnownOnly(Tagged("start", starts), rec, T) /\ KnownOnly(Tagged("rates", rates), rec, T)
        /\ KnownOnly(Tagged("rotation", rotation), rec, T)
    BY <2>1, <2>2, KnownTogether DEF rates
  <2>5. KnownOnly(Tagged("start", starts) \cup Tagged("rotation", rotation)
                  \cup Tagged("rates", rates), rec, T)
    BY <2>4, Zenon DEF KnownOnly
  <2> QED BY <2>3, <2>5, KnownTogether DEF rates
<1>6. KnownOnly(start, rec, T)
  <2>1. KnownOnly(UNION {StarterEdge(rec, g, t, T) : t \in Plays(g)}, rec, T)
    BY <1>5 DEF KnownOnly
  <2>2. start = {} \/ start = UNION {StarterEdge(rec, g, t, T) : t \in Plays(g)}
    BY DEF StarterAdjustments
  <2> HIDE DEF start
  <2> QED BY <2>1, <2>2, KnownTogether
<1>7. ServeProbability(rec, g, T, fit) =
        IF fit = {} THEN NoMeans
        ELSE IF proj = NoMeans THEN base ELSE [proj EXCEPT !.of = @ \cup start]
  BY DEF ServeProbability
<1>8. proj = NoMeans \/ [proj EXCEPT !.of = @ \cup start].of = proj.of \cup start
  BY DEF ProjectedRuns
<1> HIDE DEF proj, base, start
<1>9. KnownOnly(proj.of \cup start, rec, T)
  BY <1>4, <1>6, KnownTogether
<1> QED BY <1>2, <1>3, <1>7, <1>8, <1>9

LEMMA KnownDispersion ==
  ASSUME NEW rec, NEW g, NEW T, Asked(rec, g, T)
  PROVE  KnownOnly(DispersionAsOf(rec, T), rec, T)
<1>1. KnownOnly(Tagged("runs", Slice(rec, T, 0)), rec, T)
  BY RowsKnown, KnownTogether
<1> QED BY <1>1, KnownTogether DEF DispersionAsOf

\* A forecast at the policy's moment is made in its season.
LEMMA PolicyAsks ==
  ASSUME SlateInYear, NEW rec, rec \subseteq Scheduleds, NEW g \in Scheduleds, NEW starters
  PROVE  Asked(rec, g, AsOf(g)) /\ Asked(rec, GameContext(g, starters), AsOf(g))
<1>1. g.slot \in DOMAIN SlotTick
  BY ForecastAssumption DEF Scheduleds
<1>2. SlotTick[g.slot] \in Nat /\ Ahead \in Nat /\ Ahead <= SlotTick[g.slot]
  BY <1>1, FeaturesAssumption DEF SlateInYear
<1>3. /\ g.season \in Nat /\ g.day \in Nat /\ DayTicks \in Nat /\ SeasonDays \in Nat
  <2>1. g.season \in 0..ThisSeason /\ g.day \in 0..(SeasonDays - 1)
    BY ForecastAssumption DEF Scheduleds
  <2>2. ThisSeason \in Nat /\ DayTicks \in Nat /\ SeasonDays \in Nat
    BY ForecastAssumption, FeaturesAssumption
  <2> QED BY <2>1, <2>2
<1> DEFINE p == DayTicks * OfficialDate(g)
           q == DayTicks * (SeasonDays * g.season)
<1>4. p \in Nat /\ q \in Nat /\ q <= p
  <2>1. /\ SeasonDays * g.season \in Nat /\ OfficialDate(g) \in Nat
        /\ SeasonDays * g.season <= OfficialDate(g)
    BY <1>3 DEF OfficialDate
  <2> QED BY <1>3, <2>1, Times
<1>5. SeasonStart(g.season) = q
  BY <1>3 DEF SeasonStart, Year
<1>6. AsOf(g) = p + SlotTick[g.slot] - Ahead
  <2>1. Pitch(g) = p + SlotTick[g.slot]
    BY DEF Pitch
  <2> HIDE DEF p
  <2> QED BY <1>2, <1>4, <2>1 DEF AsOf
<1> HIDE DEF p, q
<1>7. /\ AsOf(g) \in Int /\ SeasonStart(g.season) \in Int
      /\ SeasonStart(g.season) <= AsOf(g)
  BY <1>2, <1>4, <1>5, <1>6
<1> QED BY <1>3, <1>7, Contexts DEF Asked

\* A row on its own, simulated: one fit at its moment, and what is served.
LEMMA RowAlone ==
  ASSUME NEW rec, NEW r, r.as_of \in Int
  PROVE  /\ EvaluateServed(rec, {r})[r].fit = DispersionAsOf(rec, r.as_of)
         /\ EvaluateServed(rec, {r})[r].run =
               SimulateGame(rec, Row(r.game), r.as_of, DispersionAsOf(rec, r.as_of), "served")
<1> DEFINE slate == {x.as_of : x \in {y \in {r} : OfficialDate(y.game) = OfficialDate(r.game)}}
<1>1. slate = {r.as_of, r.as_of}
  OBVIOUS
<1>2. Min(slate) = r.as_of
  BY <1>1, MinOfTwo
<1>3. EvaluateServed(rec, {r})[r] =
        [fit |-> DispersionAsOf(rec, r.as_of),
         run |-> SimulateGame(rec, Row(r.game), r.as_of, DispersionAsOf(rec, r.as_of), "served")]
  BY <1>2, ScoredRow
<1> QED BY <1>3

\* No result and no Statcast row a training row, or its simulation, is computed
\* from became known after the moment it stands for, where the lead of the
\* policy does not reach into the year before.
THEOREM FutureCorrect ==
  ASSUME SlateInYear
  PROVE  Spec => []NoFutureFact
<1>1. FInv => NoFutureFact
  <2> SUFFICES ASSUME FInv, NEW r \in BuildDataset(final, ThisSeason)
               PROVE  LET built == Build(final, Row(r.game), r.as_of, tracked)
                          scored == EvaluateServed(final, {r})[r]
                          read == Read(scored.fit) \cup Read(scored.run.of)
                             \cup UNION {Read(UNION {built[k][i] : i \in DOMAIN built[k]}) :
                                            k \in Keys \ Scheduled}
                      IN \A g \in final : g.id \in read => Known(g) <= r.as_of /\ g # r.game
    BY DEF NoFutureFact, Backtested
  <2> DEFINE T == r.as_of
             c == Row(r.game)
             built == Build(final, c, T, tracked)
             scored == EvaluateServed(final, {r})[r]
             fit == DispersionAsOf(final, T)
             run == ServeProbability(final, c, T, fit)
  <2>1. r.game \in final /\ T = AsOf(r.game)
    BY DEF BuildDataset
  <2>2. /\ final \subseteq sched /\ sched \in Schedules /\ final \subseteq Scheduleds
        /\ r.game \in Scheduleds /\ tracked \in SUBSET final
    BY <2>1 DEF FInv, RecordOK, Scheduleds
  <2>3. Asked(final, c, T)
    BY <2>1, <2>2, PolicyAsks DEF Row
  <2>4. scored.fit = fit /\ scored.run = run
    <3>1. T \in Int
      BY <2>3 DEF Asked
    <3>2. scored.fit = fit /\ scored.run = SimulateGame(final, c, T, fit, "served")
      BY <3>1, RowAlone
    <3> QED BY <3>2, ServedIsSimulated
  <2>5. KnownOnly(scored.fit, final, T) /\ KnownOnly(scored.run.of, final, T)
    BY <2>3, <2>4, KnownDispersion, KnownMeans
  <2>6. \A k \in Keys : \A i \in DOMAIN built[k] : KnownOnly(built[k][i], final, T)
    <3> HIDE DEF c
    <3> QED BY <2>2, <2>3, KnownBuild
  <2> HIDE DEF built, scored, T
  <2>7. \A k \in Keys : KnownOnly(UNION {built[k][i] : i \in DOMAIN built[k]}, final, T)
    BY <2>6 DEF KnownOnly
  <2>8. ASSUME NEW of, KnownOnly(of, final, T), NEW g \in final, g.id \in Read(of)
        PROVE  Known(g) <= T /\ g # r.game
    <3>1. PICK x \in of : x[1] \in GameTables /\ x[2] = g.id
      BY <2>8 DEF Read
    <3>2. PICK y \in final : Known(y) <= T /\ y.id = g.id
      BY <2>8, <3>1 DEF KnownOnly
    <3>3. y = g
      BY <2>2, <3>2, ForecastAssumption
    <3>4. Known(r.game) \in Int /\ T \in Int /\ T < Known(r.game)
      BY <2>1, <2>2, Pitched
    <3> QED BY <3>2, <3>3, <3>4
  <2> QED BY <2>5, <2>7, <2>8 DEF T, built, scored
<1> QED BY <1>1, ForecastInvariant, PTL

-----------------------------------------------------------------------------
(* A few seasons loaded give what the whole record does.                   *)

LEMMA SeasonsInOrder ==
  ASSUME NEW a \in Int, NEW b \in Int, a <= b
  PROVE  /\ SeasonStart(a) \in Int /\ SeasonStart(b) \in Int
         /\ SeasonStart(a) <= SeasonStart(b)
<1>1. Year \in Nat
  BY FeaturesAssumption DEF Year
<1>2. \A y \in Nat : y * a \in Int /\ y * b \in Int /\ y * a <= y * b
  OBVIOUS
<1> QED BY <1>1, <1>2 DEF SeasonStart

\* What is played since a season is loaded with it.
LEMMA LoadedSince ==
  ASSUME InItsYear, NEW rec, rec \subseteq Scheduleds, NEW season \in Int,
         NEW back \in Int, back >= season - LookbackSeasons,
         NEW g \in rec, Pitch(g) >= SeasonStart(back)
  PROVE  g \in Loaded(rec, season)
<1>1. LookbackSeasons \in Nat
  BY FeaturesAssumption
<1>2. g.season \in Int /\ Pitch(g) \in Int /\ Pitch(g) < SeasonStart(g.season + 1)
  BY Pitched DEF InItsYear, Scheduleds
<1>3. SeasonStart(g.season + 1) \in Int /\ SeasonStart(back) \in Int
  BY <1>2, SeasonsInOrder
<1>4. ~ (g.season + 1 <= back)
  BY <1>2, <1>3, SeasonsInOrder
<1> QED BY <1>1, <1>2, <1>4 DEF Loaded

LEMMA LoadedSlice ==
  ASSUME InItsYear, NEW rec, rec \subseteq Scheduleds, NEW season \in Int,
         NEW back \in Int, back >= season - LookbackSeasons,
         NEW U, NEW from \in Int, SeasonStart(back) <= from
  PROVE  Slice(Loaded(rec, season), U, from) = Slice(rec, U, from)
<1>1. ASSUME NEW g \in rec, Pitch(g) >= from PROVE g \in Loaded(rec, season)
  <2>1. Pitch(g) \in Int /\ SeasonStart(back) \in Int
    BY Pitched, SeasonsInOrder
  <2>2. Pitch(g) >= SeasonStart(back)
    BY <1>1, <2>1
  <2> QED BY <2>2, LoadedSince
<1> QED BY <1>1 DEF Slice, Loaded

\* The seasons a build looks back on.
LEMMA LookedBack ==
  ASSUME LookbackCovers, NEW rec, NEW g, NEW T, Asked(rec, g, T)
  PROVE  /\ g.season - 1 \in Int /\ g.season - 1 >= g.season - LookbackSeasons
         /\ SeasonStart(g.season) \in Int /\ SeasonStart(g.season - 1) \in Int
         /\ SeasonStart(g.season - 1) <= SeasonStart(g.season)
         /\ T - Recent \in Int /\ SeasonStart(g.season - 1) <= T - Recent
<1> DEFINE S == g.season
<1>1. /\ S \in Int /\ T \in Int /\ SeasonStart(S) \in Int /\ SeasonStart(S) <= T
  BY DEF Asked
<1>2. /\ LookbackSeasons \in Nat /\ 1 <= LookbackSeasons /\ Recent \in Nat /\ Year \in Nat
      /\ Recent <= Year
  BY FeaturesAssumption DEF LookbackCovers, Year
<1>3. \A y \in Nat : y * S - y = y * (S - 1)
  BY <1>1
<1>4. SeasonStart(S) - Year = SeasonStart(S - 1)
  BY <1>2, <1>3 DEF SeasonStart
<1>5. SeasonStart(S - 1) \in Int /\ SeasonStart(S - 1) <= SeasonStart(S)
  BY <1>1, SeasonsInOrder
<1> HIDE DEF S
<1>6. T - Recent \in Int /\ SeasonStart(S - 1) <= T - Recent
  BY <1>1, <1>2, <1>4, <1>5
<1> QED BY <1>1, <1>2, <1>5, <1>6 DEF S

\* A store loaded to score a season reads its games as the whole record does,
\* but for what goes back further.
LEMMA LoadedNear ==
  ASSUME InItsYear, LookbackCovers, NEW rec, NEW g, NEW T, Asked(rec, g, T)
  PROVE  Near(Loaded(rec, g.season), rec, g, T)
<1> DEFINE L == Loaded(rec, g.season)
           S == g.season
<1>1. /\ rec \subseteq Scheduleds /\ T \in Int /\ SeasonStart(S) <= T
      /\ L \subseteq rec /\ S \in Int
  BY DEF Asked, Loaded
<1>2. LookbackSeasons \in Nat /\ 1 <= LookbackSeasons
  BY FeaturesAssumption DEF LookbackCovers
<1>3. /\ S - 1 \in Int /\ S - 1 >= S - LookbackSeasons
      /\ SeasonStart(S) \in Int /\ SeasonStart(S - 1) \in Int
      /\ SeasonStart(S - 1) <= SeasonStart(S)
      /\ T - Recent \in Int /\ SeasonStart(S - 1) <= T - Recent
  BY LookedBack
<1>5. ASSUME NEW U, NEW from \in Int, SeasonStart(S - 1) <= from
      PROVE  Slice(L, U, from) = Slice(rec, U, from)
  BY <1>1, <1>3, <1>5, LoadedSlice
<1>6. \A from \in {SeasonStart(S - 1), SeasonStart(S), T - Recent} :
         Slice(L, T, from) = Slice(rec, T, from)
  BY <1>3, <1>5
<1>7. /\ Slice(L, DayStart(T), SeasonStart(S)) = Slice(rec, DayStart(T), SeasonStart(S))
      /\ Slice(L, SeasonStart(S), SeasonStart(S - 1)) = Slice(rec, SeasonStart(S), SeasonStart(S - 1))
  BY <1>3, <1>5
<1>8. LeagueBaseline(L, S, T) = LeagueBaseline(rec, S, T)
  BY <1>7 DEF LeagueBaseline
<1>9. \A w \in {TeamWeights, PitcherWeights} : Since(L, S, w, T) = Since(rec, S, w, T)
  <2> SUFFICES ASSUME NEW w \in {TeamWeights, PitcherWeights}
               PROVE  Since(L, S, w, T) = Since(rec, S, w, T)
    OBVIOUS
  <2>1. Len(w) \in Nat /\ Len(w) <= LookbackSeasons
    <3>1. w \in Seq(0..100)
      BY FeaturesAssumption
    <3> QED BY <3>1 DEF LookbackCovers
  <2>2. S - Len(w) \in Int /\ S - Len(w) >= S - LookbackSeasons
    BY <1>1, <1>2, <2>1
  <2>3. SeasonStart(S - Len(w)) \in Int /\ SeasonStart(S - Len(w)) <= SeasonStart(S - Len(w))
    BY <2>2, SeasonsInOrder
  <2>4. Slice(L, T, SeasonStart(S - Len(w))) = Slice(rec, T, SeasonStart(S - Len(w)))
    BY <1>1, <2>2, <2>3, LoadedSlice
  <2> QED BY <2>4 DEF Since
<1>10. ASSUME NEW s \in {x.season : x \in L} \cup {S - 1}
       PROVE  SeasonRates(L, s, T) = SeasonRates(rec, s, T)
  <2>1. s \in Int /\ s >= S - LookbackSeasons
    <3>1. CASE s = S - 1
      BY <1>1, <1>2, <3>1
    <3>2. CASE s \in {x.season : x \in L}
      BY <1>1, <3>2, Pitched DEF Loaded
    <3> QED BY <3>1, <3>2
  <2>2. SeasonStart(s) \in Int /\ SeasonStart(s) <= SeasonStart(s)
    BY <2>1, SeasonsInOrder
  <2>3. \A U : Slice(L, U, SeasonStart(s)) = Slice(rec, U, SeasonStart(s))
    BY <1>1, <2>1, <2>2, LoadedSlice
  <2> QED BY <2>3 DEF SeasonRates
<1> HIDE DEF L
<1> QED BY <1>1, <1>6, <1>7, <1>8, <1>9, <1>10 DEF Near, L

\* So do the Statcast rows loaded with it.
LEMMA LoadedTracked ==
  ASSUME InItsYear, LookbackCovers, NEW rec, NEW g, NEW T, Asked(rec, g, T)
  PROVE  NearTracked(Loaded(rec, g.season), rec, g.season, T)
<1> DEFINE L == Loaded(rec, g.season)
           S == g.season
<1>1. rec \subseteq Scheduleds /\ S \in Int
  BY DEF Asked
<1>2. /\ S - 1 \in Int /\ S - 1 >= S - LookbackSeasons
      /\ SeasonStart(S) \in Int /\ SeasonStart(S - 1) \in Int
      /\ SeasonStart(S - 1) <= SeasonStart(S)
      /\ T - Recent \in Int /\ SeasonStart(S - 1) <= T - Recent
  BY LookedBack
<1>3. ASSUME NEW U, NEW from \in Int, SeasonStart(S - 1) <= from
      PROVE  Slice(L, U, from) = Slice(rec, U, from)
  BY <1>1, <1>2, <1>3, LoadedSlice
<1>4. SeasonStart(S - 1) <= SeasonStart(S - 1)
  BY <1>2
<1> HIDE DEF L, S
<1>5. NearTracked(L, rec, S, T)
  BY <1>2, <1>3, <1>4 DEF NearTracked
<1> QED BY <1>5 DEF L, S

\* A club that a forecast can say something of has played within the lookback.
LEMMA PlayedSince ==
  ASSUME InItsYear, LookbackCovers, NEW rec, NEW g, NEW T, Asked(rec, g, T),
         NEW t, HasHistory(rec, g, t, T)
  PROVE  \E y \in Loaded(rec, g.season) :
            /\ t \in Plays(y) /\ Pitch(y) < T
            /\ SeasonStart(g.season - LookbackSeasons) <= Pitch(y)
<1> DEFINE S == g.season
           far == S - LookbackSeasons
<1>1. /\ rec \subseteq Scheduleds /\ S \in Int /\ T \in Int
      /\ LookbackSeasons \in Nat /\ 1 <= LookbackSeasons
  BY FeaturesAssumption DEF Asked, LookbackCovers
<1>2. far \in Int /\ SeasonStart(far) \in Int /\ far >= S - LookbackSeasons
  BY <1>1, SeasonsInOrder
<1>3. ASSUME NEW back \in Int, far <= back, NEW y \in Team(Slice(rec, T, SeasonStart(back)), t)
      PROVE  \E x \in Loaded(rec, S) : /\ t \in Plays(x) /\ Pitch(x) < T
                                       /\ SeasonStart(far) <= Pitch(x)
  <2>1. y \in rec /\ t \in Plays(y) /\ Pitch(y) < T /\ Pitch(y) >= SeasonStart(back)
    BY <1>3 DEF Team, Slice
  <2>2. Pitch(y) \in Int /\ SeasonStart(back) \in Int /\ SeasonStart(far) <= SeasonStart(back)
    BY <1>1, <1>2, <1>3, <2>1, Pitched, SeasonsInOrder
  <2>3. SeasonStart(far) <= Pitch(y)
    BY <1>2, <2>1, <2>2
  <2>4. y \in Loaded(rec, S)
    BY <1>1, <1>2, <2>1, <2>3, <2>2, LoadedSince
  <2> QED BY <2>1, <2>3, <2>4
<1>4. CASE Season(rec, g, t, T) # {}
  <2>1. PICK y \in Team(Slice(rec, T, SeasonStart(S)), t) : TRUE
    BY <1>4 DEF Season
  <2>2. far <= S
    BY <1>1
  <2> HIDE DEF S, far
  <2>3. \E x \in Loaded(rec, S) : t \in Plays(x) /\ Pitch(x) < T /\ SeasonStart(far) <= Pitch(x)
    BY <1>1, <1>3, <2>1, <2>2
  <2> QED BY <2>3 DEF S, far
<1>5. CASE Season(rec, g, t, T) = {}
  <2> DEFINE league == LeagueBaseline(rec, S, T)
             rows == Team(Since(rec, S, TeamWeights, T), t)
             back == S - Len(TeamWeights)
  <2>1. TeamProjection(rec, g, t, T, league).n > 0
    BY <1>5 DEF HasHistory
  <2>2. rows # {}
    <3>1. SUFFICES ASSUME rows = {} PROVE FALSE
      OBVIOUS
    <3>2. Evidence(rows, S, TeamWeights) = 0
      BY <3>1 DEF Evidence
    <3>3. Missing.n = 0 /\ \A n, of : Value(n, of).n = n
      BY DEF Missing, Value
    <3>4. Pooled(rec, rows, "team", S, TeamWeights, T, league).n = 0
      BY <3>2, <3>3 DEF Pooled
    <3>5. \/ TeamProjection(rec, g, t, T, league) = Missing
          \/ TeamProjection(rec, g, t, T, league) = Pooled(rec, rows, "team", S, TeamWeights, T, league)
      BY DEF TeamProjection, Unless
    <3>6. TeamProjection(rec, g, t, T, league).n = 0
      BY <3>3, <3>4, <3>5
    <3> QED BY <2>1, <3>6
  <2>3. back \in Int /\ far <= back
    <3>1. Len(TeamWeights) \in Nat /\ Len(TeamWeights) <= LookbackSeasons
      <4>1. TeamWeights \in Seq(0..100)
        BY FeaturesAssumption
      <4> QED BY <4>1 DEF LookbackCovers
    <3> QED BY <1>1, <3>1
  <2>4. PICK y \in Team(Slice(rec, T, SeasonStart(back)), t) : TRUE
    BY <2>2 DEF Since
  <2> HIDE DEF S, far, back
  <2>5. \E x \in Loaded(rec, S) : t \in Plays(x) /\ Pitch(x) < T /\ SeasonStart(far) <= Pitch(x)
    BY <1>3, <2>3, <2>4
  <2> QED BY <2>5 DEF S, far
<1> QED BY <1>4, <1>5

\* Leaving out what is behind one of them keeps the latest moment.
LEMMA SameLatest ==
  ASSUME NEW M \in SUBSET Int, NEW N \in SUBSET M, NEW y \in N, \A m \in M \ N : m < y
  PROVE  Max(N) = Max(M)
<1>1. \A x : (x \in N /\ \A k \in N : x >= k) <=> (x \in M /\ \A k \in M : x >= k)
  <2>1. ASSUME NEW x \in N, \A k \in N : x >= k, NEW k \in M PROVE x >= k
    BY <2>1
  <2>2. ASSUME NEW x \in M, \A k \in M : x >= k PROVE x \in N
    BY <2>2
  <2> QED BY <2>1, <2>2
<1> QED BY <1>1 DEF Max

\* The last game of such a club, and those of its last days, are loaded.
LEMMA SameSchedule ==
  ASSUME InItsYear, LookbackCovers, NEW rec, NEW g, NEW T, Asked(rec, g, T),
         NEW t, HasHistory(rec, g, t, T)
  PROVE  Alike(Schedule(Loaded(rec, g.season), t, T), Schedule(rec, t, T), {})
<1> DEFINE L == Loaded(rec, g.season)
           few == {x \in L : t \in Plays(x) /\ Pitch(x) < T}
           all == {x \in rec : t \in Plays(x) /\ Pitch(x) < T}
           far == SeasonStart(g.season - LookbackSeasons)
<1>1. /\ rec \subseteq Scheduleds /\ g.season \in Int /\ T \in Int /\ LookbackSeasons \in Nat
  BY FeaturesAssumption DEF Asked
<1>2. PICK y \in few : far <= Pitch(y)
  BY PlayedSince
<1>3. few \subseteq all /\ all \subseteq rec /\ (\A x \in all : Pitch(x) \in Int)
  BY <1>1, Pitched DEF Loaded
<1>4. far \in Int /\ Pitch(y) \in Int /\ y \in all
  BY <1>1, <1>2, <1>3, SeasonsInOrder
<1>5. ASSUME NEW x \in all, x \notin few PROVE Pitch(x) < far
  <2>1. x \in rec /\ x \notin L
    BY <1>5
  <2>2. g.season - LookbackSeasons \in Int /\ g.season - LookbackSeasons >= g.season - LookbackSeasons
    BY <1>1
  <2>3. ~ (Pitch(x) >= far)
    BY <1>1, <2>1, <2>2, LoadedSince
  <2> QED BY <1>3, <1>4, <2>3
<1>6. ASSUME NEW x \in all, Pitch(x) >= T - Recent PROVE x \in few
  <2>1. SeasonStart(g.season - 1) \in Int /\ SeasonStart(g.season - 1) <= T - Recent /\ T - Recent \in Int
        /\ g.season - 1 \in Int /\ g.season - 1 >= g.season - LookbackSeasons
    BY LookedBack
  <2>2. Pitch(x) >= SeasonStart(g.season - 1)
    BY <1>3, <1>6, <2>1
  <2>3. x \in L
    BY <1>1, <1>3, <2>1, <2>2, LoadedSince
  <2> QED BY <2>3
<1> HIDE DEF few, all, far
<1>7. Max({Pitch(x) : x \in few}) = Max({Pitch(x) : x \in all})
  <2> DEFINE M == {Pitch(x) : x \in all}
             N == {Pitch(x) : x \in few}
  <2>1. M \in SUBSET Int /\ N \in SUBSET M /\ Pitch(y) \in N
    BY <1>2, <1>3
  <2>2. \A m \in M \ N : m < Pitch(y)
    BY <1>2, <1>3, <1>4, <1>5
  <2> HIDE DEF M, N
  <2>3. Max(N) = Max(M)
    BY <2>1, <2>2, SameLatest
  <2> QED BY <2>3 DEF M, N
<1>8. {x \in few : Pitch(x) >= T - Recent} = {x \in all : Pitch(x) >= T - Recent}
  BY <1>3, <1>6
<1>9. few # {} /\ all # {}
  BY <1>2, <1>4
<1>10. /\ Schedule(L, t, T) =
            [sched |-> Unless(few = {},
                Value(Cardinality(few), {<<"last_game", Max({Pitch(x) : x \in few})>>})),
             sched_7d |-> Value(Cardinality(few),
                Tagged("schedule", {x \in few : Pitch(x) >= T - Recent}))]
       /\ Schedule(rec, t, T) =
            [sched |-> Unless(all = {},
                Value(Cardinality(all), {<<"last_game", Max({Pitch(x) : x \in all})>>})),
             sched_7d |-> Value(Cardinality(all),
                Tagged("schedule", {x \in all : Pitch(x) >= T - Recent}))]
  BY DEF Schedule, few, all
<1> HIDE DEF L
<1>11. Alike(Schedule(L, t, T), Schedule(rec, t, T), {})
  <2> DEFINE one == Schedule(L, t, T)
             two == Schedule(rec, t, T)
             last == {<<"last_game", Max({Pitch(x) : x \in all})>>}
             week == Tagged("schedule", {x \in all : Pitch(x) >= T - Recent})
  <2>1. /\ DOMAIN one = {"sched", "sched_7d"} /\ DOMAIN two = {"sched", "sched_7d"}
        /\ one.sched = Value(Cardinality(few), last) /\ one.sched_7d = Value(Cardinality(few), week)
        /\ two.sched = Value(Cardinality(all), last) /\ two.sched_7d = Value(Cardinality(all), week)
    <3> HIDE DEF last, week
    <3>1. \A v : Unless(FALSE, v) = v
      BY DEF Unless
    <3>2. /\ Max({Pitch(x) : x \in few}) = Max({Pitch(x) : x \in all})
          /\ {x \in few : Pitch(x) >= T - Recent} = {x \in all : Pitch(x) >= T - Recent}
      BY <1>7, <1>8
    <3>3. /\ (few = {}) = FALSE /\ (all = {}) = FALSE
      BY <1>9
    <3>4. /\ one = [sched |-> Value(Cardinality(few), last), sched_7d |-> Value(Cardinality(few), week)]
          /\ two = [sched |-> Value(Cardinality(all), last), sched_7d |-> Value(Cardinality(all), week)]
      BY <1>10, <3>1, <3>2, <3>3, Zenon DEF last, week
    <3> HIDE DEF one, two
    <3> QED BY <3>4
  <2> HIDE DEF one, two, last, week
  <2>2. \A n, m, of : /\ Value(n, of).missing = Value(m, of).missing
                     /\ Value(n, of).of = Value(m, of).of
    BY DEF Value
  <2>3. /\ one.sched.missing = two.sched.missing /\ one.sched.of = two.sched.of
        /\ one.sched_7d.missing = two.sched_7d.missing /\ one.sched_7d.of = two.sched_7d.of
    <3> DEFINE n == Cardinality(few)
               m == Cardinality(all)
    <3> HIDE DEF n, m
    <3>1. /\ one.sched = Value(n, last) /\ one.sched_7d = Value(n, week)
          /\ two.sched = Value(m, last) /\ two.sched_7d = Value(m, week)
      BY <2>1 DEF n, m
    <3> QED BY <2>2, <3>1
  <2>4. Alike(one, two, {})
    <3>1. DOMAIN one = DOMAIN two /\ \A k \in DOMAIN one : k = "sched" \/ k = "sched_7d"
      BY <2>1
    <3> QED BY <2>3, <3>1 DEF Alike
  <2> QED BY <2>4 DEF one, two
<1> QED BY <1>11 DEF L

\* Fewer games give no other fit than fewer of them.
LEMMA FewerFit ==
  ASSUME NEW rec, IsFiniteSet(rec), NEW few \in SUBSET rec, NEW T
  PROVE  DispersionAsOf(few, T) \subseteq DispersionAsOf(rec, T)
<1> DEFINE A == Slice(few, T, 0)
           B == Slice(rec, T, 0)
<1>1. A \subseteq B /\ B \subseteq rec
  BY DEF Slice
<1>2. IsFiniteSet(B) /\ IsFiniteSet(A) /\ Cardinality(A) <= Cardinality(B)
  BY <1>1, FS_Subset
<1>3. Cardinality(A) \in Nat /\ Cardinality(B) \in Nat /\ MinSample \in Nat
  BY <1>2, FS_CardinalityType, ForecastAssumption
<1>4. Tagged("runs", A) \subseteq Tagged("runs", B)
  BY <1>1 DEF Tagged
<1> HIDE DEF A, B
<1>5. (IF Cardinality(A) < MinSample THEN {} ELSE Tagged("runs", A)) \subseteq
      (IF Cardinality(B) < MinSample THEN {} ELSE Tagged("runs", B))
  BY <1>2, <1>3, <1>4
<1> QED BY <1>5 DEF DispersionAsOf, A, B

\* A backtest of one season, which loads a few before it, reads what the whole
\* record would have given, apart from a rating, a streak's history and a
\* starter's career, and a fit on fewer games; where they are enough for a fit,
\* each game has the means it would have had.  This is so where windows and
\* weights lie within the lookback.
THEOREM LookbackCorrect ==
  ASSUME SlateInYear, InItsYear, LookbackCovers
  PROVE  Spec => []LookbackEnough
<1>1. FInv => LookbackEnough
  <2> SUFFICES ASSUME FInv, NEW r \in BuildDataset(final, ThisSeason)
               PROVE  LET few == Loaded(final, ThisSeason)
                          fewTracked == Loaded(tracked, ThisSeason)
                          part == EvaluateServed(few, {r})[r]
                          whole == EvaluateServed(final, {r})[r]
                      IN /\ Differ(Build(few, Row(r.game), r.as_of, fewTracked),
                                   Build(final, Row(r.game), r.as_of, tracked)) \subseteq Remembering
                         /\ RunComponents(few, Row(r.game), r.as_of)
                              = RunComponents(final, Row(r.game), r.as_of)
                         /\ part.fit \subseteq whole.fit /\ (part.fit # {} => part.run = whole.run)
    BY DEF LookbackEnough, Backtested
  <2> DEFINE L == Loaded(final, ThisSeason)
             K == Loaded(tracked, ThisSeason)
             g == Row(r.game)
             T == r.as_of
  <2>1. /\ r.game \in final /\ T = AsOf(r.game) /\ r.game.season = ThisSeason
        /\ IsUsable(final, r.game, T)
    BY DEF BuildDataset
  <2>2. /\ final \subseteq sched /\ sched \in Schedules /\ final \subseteq Scheduleds
        /\ r.game \in Scheduleds /\ tracked \in SUBSET final
    BY <2>1 DEF FInv, RecordOK, Scheduleds
  <2>3. /\ g.season = ThisSeason /\ Plays(g) = Plays(r.game) /\ Asked(final, g, T)
        /\ Asked(tracked, g, T)
    <3>1. g.season = ThisSeason /\ Plays(g) = Plays(r.game) /\ Asked(final, g, T)
      BY <2>1, <2>2, Contexts, PolicyAsks DEF Row
    <3> QED BY <2>2, <3>1 DEF Asked
  <2>4. Near(L, final, g, T) /\ NearTracked(K, tracked, g.season, T)
    <3>1. Near(Loaded(final, g.season), final, g, T)
      BY <2>3, LoadedNear
    <3>2. NearTracked(Loaded(tracked, g.season), tracked, g.season, T)
      BY <2>3, LoadedTracked
    <3> QED BY <2>3, <3>1, <3>2
  <2>5. \A t \in Plays(g) : HasHistory(final, g, t, T)
    <3>1. \A t : /\ Season(final, g, t, T) = Season(final, r.game, t, T)
                 /\ \A league : TeamProjection(final, g, t, T, league)
                                  = TeamProjection(final, r.game, t, T, league)
      BY <2>1, <2>3 DEF Season, TeamProjection
    <3>2. \A t \in Plays(r.game) : HasHistory(final, r.game, t, T)
      BY <2>1 DEF IsUsable
    <3> QED BY <2>1, <2>3, <3>1, <3>2 DEF HasHistory
  <2>6. \A t \in Plays(g) : Alike(Schedule(L, t, T), Schedule(final, t, T), Remembering)
    <3>1. \A t \in Plays(g) :
             Alike(Schedule(Loaded(final, g.season), t, T), Schedule(final, t, T), {})
      BY <2>3, <2>5, SameSchedule
    <3> QED BY <2>3, <3>1 DEF Alike
  <2>7. IsFiniteSet(final) /\ L \in SUBSET final
    <3>1. IsFiniteSet(sched)
      BY <2>2, ForecastAssumption
    <3> QED BY <2>2, <3>1, FS_Subset DEF Loaded
  <2>8. T \in Int
    BY <2>3 DEF Asked
  <2> HIDE DEF L, K, g, T
  <2>9. ASSUME NEW t \in Plays(g)
        PROVE  Alike(BuildSide(L, g, t, T, K), BuildSide(final, g, t, T, tracked), Remembering)
    <3>1. \A league :
            /\ Alike(TeamStrength(L, g, t, T, league), TeamStrength(final, g, t, T, league), Remembering)
            /\ Alike(Pitching(L, g, t, T, league), Pitching(final, g, t, T, league), Remembering)
      BY <2>4, SameStrength, SamePitching
    <3>2. Alike(StreakValues(L, g, t, T), StreakValues(final, g, t, T), Remembering)
      BY SameStreak
    <3> QED BY <2>4, <2>6, <3>1, <3>2, NearSide
  <2>10. Differ(Build(L, g, T, K), Build(final, g, T, tracked)) \subseteq Remembering
    <3>1. Weather(L, g, T) = Weather(final, g, T)
      BY <2>4, SameRest
    <3>2. \A k \in Keys \ Remembering : Build(L, g, T, K)[k] = Build(final, g, T, tracked)[k]
      BY <2>9, <3>1, SameBuild
    <3> QED BY <3>2 DEF Differ
  <2>11. RunComponents(L, g, T) = RunComponents(final, g, T)
    <3>1. /\ ExpectedRuns(L, g, T) = ExpectedRuns(final, g, T)
          /\ ProjectedRuns(L, g, T) = ProjectedRuns(final, g, T)
          /\ \A p : StarterAdjustments(L, g, T, p) = StarterAdjustments(final, g, T, p)
      BY <2>4, SameMeans
    <3>2. \A t : PitchingSplit(L, g, t, T) = PitchingSplit(final, g, t, T)
      BY <2>4, SameMeans
    <3>3. UNION {PitchingSplit(L, g, t, T) : t \in Plays(g)}
          = UNION {PitchingSplit(final, g, t, T) : t \in Plays(g)}
      BY <3>2
    <3> QED BY <3>1, <3>3 DEF RunComponents
  <2> DEFINE part == EvaluateServed(L, {r})[r]
             whole == EvaluateServed(final, {r})[r]
             fit == DispersionAsOf(L, T)
             more == DispersionAsOf(final, T)
  <2>12. /\ part.fit = fit /\ part.run = SimulateGame(L, g, T, fit, "served")
         /\ whole.fit = more /\ whole.run = SimulateGame(final, g, T, more, "served")
    BY <2>8, RowAlone DEF g, T
  <2>13. fit \subseteq more
    BY <2>7, FewerFit
  <2> HIDE DEF part, whole, fit, more
  <2>14. fit # {} => SimulateGame(L, g, T, fit, "served") = SimulateGame(final, g, T, more, "served")
    <3>1. fit # {} => more # {}
      BY <2>13
    <3> QED BY <2>11, <3>1 DEF SimulateGame
  <2>15. part.fit \subseteq whole.fit /\ (part.fit # {} => part.run = whole.run)
    BY <2>12, <2>13, <2>14
  <2> QED BY <2>10, <2>11, <2>15 DEF L, K, g, T, part, whole
<1> QED BY <1>1, ForecastInvariant, PTL

=============================================================================
