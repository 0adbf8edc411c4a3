----------------------------- MODULE Migrations -----------------------------
(***************************************************************************)
(* The schema of the database, as the Alembic revisions build it up and    *)
(* take it down, and the rows two of them repair on the way.               *)
(*                                                                         *)
(* A schema maps each table to the tables it references, its indexes and   *)
(* the columns added since the first revision.  An index is a name with    *)
(* the columns it makes unique (none for a plain one).  A revision is a    *)
(* sequence of steps; one `alembic` command runs any number of revisions   *)
(* in one transaction, so either all of its steps are taken or none.       *)
(***************************************************************************)
EXTENDS Integers, Sequences, FiniteSets, SequencesExt, TLC

CONSTANTS
    Game, Model,     \* the games and model versions of the predictions
    Source,          \* the names a feed of one category reports under
    MaxRows,         \* bound: predictions issued
    MaxRecords       \* bound: reports of a source

ASSUME MigrationsAssumption ==
    /\ MaxRows \in Nat /\ MaxRecords \in Nat
    /\ "placeholder" \notin Source

VARIABLES
    version,  \* how many revisions are applied
    schema,
    preds,    \* the predictions, by id
    status,   \* the rows of data_source_status of one category
    refused   \* history: a command was refused by the database

mvars == <<version, schema, preds, status, refused>>

-----------------------------------------------------------------------------
(* Tables, steps and what they do.                                         *)

Unique(name, columns) == <<name, columns>>
Plain(names) == {<<n, {}>> : n \in names}

\* What every sourced table has.
KnowledgeTime == Plain({"knowledge_time"})

Table(refs, indexes) == [refs |-> refs, indexes |-> indexes, columns |-> {}]

Create(table, as) == [do |-> "create", on |-> table, as |-> as]
DropTable(table) == [do |-> "drop", on |-> table]
AddIndexes(table, indexes) == [do |-> "add", on |-> table, indexes |-> indexes]
DropIndexes(table, names) == [do |-> "remove", on |-> table, names |-> names]
AddColumns(table, names) == [do |-> "add columns", on |-> table, names |-> names]
DropColumns(table, names) == [do |-> "drop columns", on |-> table, names |-> names]
\* CREATE INDEX IF NOT EXISTS and DROP INDEX IF EXISTS.
Ensure(table, name) == [do |-> "ensure", on |-> table, name |-> name]
Discard(table, name) == [do |-> "discard", on |-> table, name |-> name]

NamesOf(indexes) == {i[1] : i \in indexes}

\* Whether the database takes the step.
Accepts(s, step) ==
    LET t == step.on IN
    IF step.do = "create"
    THEN t \notin DOMAIN s /\ step.as.refs \subseteq DOMAIN s \cup {t}
    ELSE /\ t \in DOMAIN s
         /\ CASE step.do = "drop" -> \A u \in DOMAIN s \ {t} : t \notin s[u].refs
              [] step.do = "add" ->
                     NamesOf(step.indexes) \cap NamesOf(s[t].indexes) = {}
              [] step.do = "remove" -> step.names \subseteq NamesOf(s[t].indexes)
              [] step.do = "add columns" -> step.names \cap s[t].columns = {}
              [] step.do = "drop columns" -> step.names \subseteq s[t].columns
              [] OTHER -> TRUE

Without(indexes, names) == {i \in indexes : i[1] \notin names}

Effect(s, step) ==
    LET t == step.on IN
    CASE step.do = "create" ->
            [u \in DOMAIN s \cup {t} |-> IF u = t THEN step.as ELSE s[u]]
      [] step.do = "drop" -> [u \in DOMAIN s \ {t} |-> s[u]]
      [] step.do = "add" -> [s EXCEPT ![t].indexes = @ \cup step.indexes]
      [] step.do = "remove" -> [s EXCEPT ![t].indexes = Without(@, step.names)]
      [] step.do = "add columns" -> [s EXCEPT ![t].columns = @ \cup step.names]
      [] step.do = "drop columns" -> [s EXCEPT ![t].columns = @ \ step.names]
      [] step.do = "ensure" ->
            [s EXCEPT ![t].indexes = IF step.name \in NamesOf(@) THEN @
                                     ELSE @ \cup Plain({step.name})]
      [] step.do = "discard" -> [s EXCEPT ![t].indexes = Without(@, {step.name})]

\* A transaction over schemas: refused at the first step that is.
After(tx, step) ==
    IF tx.ok /\ Accepts(tx.schema, step)
    THEN [ok |-> TRUE, schema |-> Effect(tx.schema, step)]
    ELSE [tx EXCEPT !.ok = FALSE]

Taken(s, steps) == FoldLeft(After, [ok |-> TRUE, schema |-> s], steps)

EmptySchema == [t \in {} |-> Table({}, {})]

-----------------------------------------------------------------------------
(* 0001_initial, in the order it creates the tables.                       *)

CreateRoots == <<
    Create("backtest_runs", Table({}, {})),
    Create("ballparks", Table({}, KnowledgeTime)),
    Create("data_source_status", Table({},
        {Unique("uq_source_category", {"source_name", "category"})})),
    Create("job_runs", Table({}, Plain({"ix_job_runs_name_started"}))),
    Create("model_versions", Table({},
        {Unique("uq_model_version", {"name", "version"}),
         Unique("uq_model_version_active", {"name"})})),
    Create("players", Table({}, KnowledgeTime)),
    Create("raw_source_payloads", Table({},
        {Unique("uq_raw_payload", {"source_name", "endpoint", "content_hash"})}
        \cup Plain({"ix_raw_retrieved"})))
    >>

CreateReference == <<
    Create("backtest_results", Table({"model_versions", "backtest_runs"},
        {Unique("uq_backtest_slice", {"run_id", "slice_type", "slice_key"})}
        \cup Plain({"ix_btr_run_slice"}))),
    Create("park_factors", Table({"ballparks"},
        {Unique("uq_park_factor", {"venue_id", "season", "factor_type", "handedness"})}
        \cup KnowledgeTime)),
    Create("teams", Table({"ballparks"}, KnowledgeTime)),
    Create("games", Table({"players", "teams", "ballparks"},
        Plain({"ix_games_away_date", "ix_games_final_date", "ix_games_home_date",
               "ix_games_official_date", "ix_games_season_type"})
        \cup KnowledgeTime)),
    Create("injuries", Table({"players", "teams"},
        Plain({"ix_injuries_player_effective"}) \cup KnowledgeTime)),
    Create("rosters", Table({"players", "teams"},
        Plain({"ix_rosters_player", "ix_rosters_team_season"}) \cup KnowledgeTime))
    >>

CreatePregame == <<
    Create("backtest_predictions", Table({"games", "backtest_runs"},
        {Unique("uq_backtest_pred", {"run_id", "game_id"})} \cup Plain({"ix_btp_run"}))),
    Create("bullpen_availability", Table({"games", "players", "teams"},
        {Unique("uq_bullpen_avail", {"game_id", "team_id", "pitcher_id", "as_of"})}
        \cup KnowledgeTime)),
    Create("game_officials", Table({"games"},
        {Unique("uq_game_official", {"game_id", "official_type"})} \cup KnowledgeTime)),
    Create("lineups", Table({"games", "players", "teams"},
        {Unique("uq_lineup_snapshot",
                {"game_id", "team_id", "batting_order", "knowledge_time"})}
        \cup Plain({"ix_lineups_game_team"}) \cup KnowledgeTime)),
    Create("model_features", Table({"games"},
        {Unique("uq_model_feature",
                {"game_id", "team_side", "as_of", "feature_set_version"})}
        \cup Plain({"ix_mf_features", "ix_mf_game"}))),
    Create("odds_snapshots", Table({"games"},
        Plain({"ix_odds_game_time"}) \cup KnowledgeTime))
    >>

CreateLines == <<
    Create("pitches", Table({"players", "games"},
        Plain({"ix_pitches_batter", "ix_pitches_game", "ix_pitches_pitcher"})
        \cup KnowledgeTime)),
    Create("player_game_stats", Table({"games", "players", "teams"},
        {Unique("uq_player_game_role", {"game_id", "player_id", "role"})}
        \cup Plain({"ix_pgs_player_role_date", "ix_pgs_starter", "ix_pgs_team_date",
                    "ix_pgs_team_role_starter_date"}) \cup KnowledgeTime))
    >>

CreatePredictions == <<
    Create("predictions", Table({"games", "model_versions", "predictions"},
        {Unique("uq_prediction_asof", {"game_id", "model_version_id", "as_of"}),
         Unique("uq_prediction_latest", {"game_id", "model_version_id"})}
        \cup Plain({"ix_pred_created", "ix_pred_game"}))),
    Create("starting_pitcher_projections", Table({"games", "players", "teams"},
        {Unique("uq_sp_projection", {"game_id", "team_id", "as_of"})}
        \cup Plain({"ix_spp_game"}) \cup KnowledgeTime)),
    Create("team_game_stats", Table({"games", "teams"},
        {Unique("uq_team_game", {"game_id", "team_id"})}
        \cup Plain({"ix_tgs_team_date"}) \cup KnowledgeTime))
    >>

CreateDependents == <<
    Create("weather", Table({"games", "ballparks"},
        Plain({"ix_weather_game"}) \cup KnowledgeTime)),
    Create("batted_ball_events", Table({"players", "games", "pitches"},
        Plain({"ix_bbe_batter", "ix_bbe_pitcher"}) \cup KnowledgeTime)),
    Create("prediction_explanations", Table({"predictions"},
        Plain({"ix_pexp_prediction"}))),
    Create("simulation_results", Table({"predictions"}, {}))
    >>

CreateAll == CreateRoots \o CreateReference \o CreatePregame \o CreateLines
             \o CreatePredictions \o CreateDependents

\* Mutant: the tables go in the order they came.
DropInOrder == [i \in 1..Len(CreateAll) |-> DropTable(CreateAll[i].on)]

\* The tables go in the opposite order, each after its own indexes.
DropAll == [i \in 1..Len(CreateAll) |-> DropTable(Reverse(CreateAll)[i].on)]

-----------------------------------------------------------------------------
(* The revisions after it.                                                 *)

StatcastKey(name) == {Unique(name, {"game_id", "at_bat_index", "pitch_number"})}

BattedBallColumns ==
    {"at_bat_index", "pitch_number", "launch_speed_angle", "estimated_slg",
     "woba_value", "woba_denom", "spray_angle", "field_direction"}

PitchColumns ==
    {"pitch_name", "effective_speed", "spin_axis", "batter_stands",
     "pitcher_throws", "is_pitch", "is_swing", "is_whiff", "is_called_strike",
     "is_in_zone", "times_through_order", "pitcher_days_since_prev",
     "bat_speed", "swing_length", "pa_event", "woba_value", "woba_denom"}

AddStatcast == <<
    AddColumns("batted_ball_events", BattedBallColumns),
    DropIndexes("batted_ball_events", {"ix_bbe_batter", "ix_bbe_pitcher"}),
    AddIndexes("batted_ball_events",
        Plain({"ix_bbe_batter_known", "ix_bbe_game", "ix_bbe_pitcher_known"})
        \cup StatcastKey("uq_bbe")),
    AddColumns("pitches", PitchColumns),
    DropIndexes("pitches", {"ix_pitches_batter", "ix_pitches_pitcher"}),
    AddIndexes("pitches", Plain({"ix_pitches_batter_known", "ix_pitches_pitcher_known"})
                   \cup StatcastKey("uq_pitch"))
    >>

\* Mutant: the old indexes are not put back.
DropStatcastShort == <<
    DropIndexes("pitches", {"uq_pitch", "ix_pitches_pitcher_known", "ix_pitches_batter_known"}),
    DropColumns("pitches", PitchColumns),
    DropIndexes("batted_ball_events", {"uq_bbe", "ix_bbe_pitcher_known", "ix_bbe_game",
                                  "ix_bbe_batter_known"}),
    DropColumns("batted_ball_events", BattedBallColumns)
    >>

DropStatcast == <<
    DropIndexes("pitches", {"uq_pitch", "ix_pitches_pitcher_known", "ix_pitches_batter_known"}),
    AddIndexes("pitches", Plain({"ix_pitches_pitcher", "ix_pitches_batter"})),
    DropColumns("pitches", PitchColumns),
    DropIndexes("batted_ball_events", {"uq_bbe", "ix_bbe_pitcher_known", "ix_bbe_game",
                                  "ix_bbe_batter_known"}),
    AddIndexes("batted_ball_events", Plain({"ix_bbe_pitcher", "ix_bbe_batter"})),
    DropColumns("batted_ball_events", BattedBallColumns)
    >>

WeatherKey == Unique("uq_weather_game_type_knowledge",
                     {"game_id", "observation_type", "knowledge_time"})

AddWeatherKey == <<AddIndexes("weather", {WeatherKey})>>
DropWeatherKey == <<DropIndexes("weather", {WeatherKey[1]})>>

\* The append-only tables that take a BRIN index in place of a B-tree.
Brin == <<"player_game_stats", "team_game_stats", "pitches",
          "batted_ball_events", "lineups", "game_officials">>

ToBrin ==
    FlattenSeq([i \in 1..Len(Brin) |-> <<Ensure(Brin[i], "knowledge_time_brin"),
                                         Discard(Brin[i], "knowledge_time")>>])
    \o <<Discard("player_game_stats", "brin_pgs_kt")>>

FromBrin ==
    FlattenSeq([i \in 1..Len(Brin) |-> <<Ensure(Brin[i], "knowledge_time"),
                                         Discard(Brin[i], "knowledge_time_brin")>>])

InjuryKey == Unique("uq_injury_player_effective_status",
                    {"player_id", "effective_from", "status"})

AddInjuryKey == <<AddIndexes("injuries", {InjuryKey})>>
DropInjuryKey == <<DropIndexes("injuries", {InjuryKey[1]})>>

AddArtifact == <<AddColumns("model_versions", {"artifact_blob"})>>
DropArtifact == <<DropColumns("model_versions", {"artifact_blob"})>>

CategoryKey == Unique("uq_data_source_status_category", {"category"})

AddCategoryKey == <<AddIndexes("data_source_status", {CategoryKey})>>
DropCategoryKey == <<DropIndexes("data_source_status", {CategoryKey[1]})>>

ServedColumns == {"served_home_win_prob", "simulated_home_win_prob"}

AddServed == <<AddColumns("backtest_predictions", ServedColumns)>>
DropServed == <<DropColumns("backtest_predictions", ServedColumns)>>

LatestPerGame == Unique("uq_prediction_latest", {"game_id"})
LatestPerModel == Unique("uq_prediction_latest", {"game_id", "model_version_id"})

AddLatestPerGame ==
    <<DropIndexes("predictions", {LatestPerGame[1]}), AddIndexes("predictions", {LatestPerGame})>>
DropLatestPerGame ==
    <<DropIndexes("predictions", {LatestPerGame[1]}), AddIndexes("predictions", {LatestPerModel})>>

\* The chain of down_revision.
Up == <<CreateAll, AddStatcast, AddWeatherKey, ToBrin, AddInjuryKey,
        AddArtifact, AddCategoryKey, AddServed, AddLatestPerGame>>
Down == <<DropAll, DropStatcast, DropWeatherKey, FromBrin, DropInjuryKey,
          DropArtifact, DropCategoryKey, DropServed, DropLatestPerGame>>

HeadRevision == Len(Up)
CategoryRevision == 7
LatestRevision == 9

\* The steps from one version to another.
Path(from, to) ==
    IF from <= to THEN FlattenSeq(SubSeq(Up, from + 1, to))
    ELSE FlattenSeq(Reverse(SubSeq(Down, to + 1, from)))

-----------------------------------------------------------------------------
(* The tables as the models of the code declare them.                      *)

Wide(table, columns) == [table EXCEPT !.columns = columns]

\* SourcedMixin.
Sourced(refs, indexes) == Table(refs, indexes \cup KnowledgeTime)

ModelsReference == [
    ballparks |-> Sourced({}, {}),
    teams |-> Sourced({"ballparks"}, {}),
    park_factors |-> Sourced({"ballparks"},
        {Unique("uq_park_factor", {"venue_id", "season", "factor_type", "handedness"})}),
    players |-> Sourced({}, {}),
    rosters |-> Sourced({"players", "teams"},
        Plain({"ix_rosters_team_season", "ix_rosters_player"}))]

ModelsGames == [
    games |-> Sourced({"ballparks", "players", "teams"},
        Plain({"ix_games_official_date", "ix_games_season_type", "ix_games_home_date",
               "ix_games_away_date", "ix_games_final_date"})),
    team_game_stats |-> Sourced({"games", "teams"},
        {Unique("uq_team_game", {"game_id", "team_id"})} \cup Plain({"ix_tgs_team_date"}))]

ModelsLines == [
    player_game_stats |-> Sourced({"games", "players", "teams"},
        {Unique("uq_player_game_role", {"game_id", "player_id", "role"})}
        \cup Plain({"ix_pgs_player_role_date", "ix_pgs_team_date", "ix_pgs_starter",
                    "ix_pgs_team_role_starter_date"})),
    lineups |-> Sourced({"games", "players", "teams"},
        {Unique("uq_lineup_snapshot",
                {"game_id", "team_id", "batting_order", "knowledge_time"})}
        \cup Plain({"ix_lineups_game_team"}))]

ModelsStatcast == [
    pitches |-> Wide(Sourced({"games", "players"},
        StatcastKey("uq_pitch") \cup Plain({"ix_pitches_game",
            "ix_pitches_pitcher_known", "ix_pitches_batter_known"})), PitchColumns),
    batted_ball_events |-> Wide(Sourced({"games", "pitches", "players"},
        StatcastKey("uq_bbe") \cup Plain({"ix_bbe_batter_known",
            "ix_bbe_pitcher_known", "ix_bbe_game"})), BattedBallColumns),
    game_officials |-> Sourced({"games"},
        {Unique("uq_game_official", {"game_id", "official_type"})})]

ModelsPregame == [
    starting_pitcher_projections |-> Sourced({"games", "players", "teams"},
        {Unique("uq_sp_projection", {"game_id", "team_id", "as_of"})}
        \cup Plain({"ix_spp_game"})),
    bullpen_availability |-> Sourced({"games", "players", "teams"},
        {Unique("uq_bullpen_avail", {"game_id", "team_id", "pitcher_id", "as_of"})}),
    injuries |-> Sourced({"players", "teams"},
        {InjuryKey} \cup Plain({"ix_injuries_player_effective"})),
    weather |-> Sourced({"ballparks", "games"},
        {WeatherKey} \cup Plain({"ix_weather_game"})),
    odds_snapshots |-> Sourced({"games"}, Plain({"ix_odds_game_time"}))]

ModelsServing == [
    model_features |-> Table({"games"},
        {Unique("uq_model_feature",
                {"game_id", "team_side", "as_of", "feature_set_version"})}
        \cup Plain({"ix_mf_game", "ix_mf_features"})),
    model_versions |-> Wide(Table({},
        {Unique("uq_model_version", {"name", "version"}),
         Unique("uq_model_version_active", {"name"})}), {"artifact_blob"}),
    predictions |-> Table({"games", "model_versions", "predictions"},
        {Unique("uq_prediction_asof", {"game_id", "model_version_id", "as_of"}),
         LatestPerGame} \cup Plain({"ix_pred_game", "ix_pred_created"}))]

ModelsOutput == [
    prediction_explanations |-> Table({"predictions"}, Plain({"ix_pexp_prediction"})),
    simulation_results |-> Table({"predictions"}, {}),
    backtest_runs |-> Table({}, {}),
    backtest_results |-> Table({"backtest_runs", "model_versions"},
        {Unique("uq_backtest_slice", {"run_id", "slice_type", "slice_key"})}
        \cup Plain({"ix_btr_run_slice"})),
    backtest_predictions |-> Wide(Table({"backtest_runs", "games"},
        {Unique("uq_backtest_pred", {"run_id", "game_id"})}
        \cup Plain({"ix_btp_run"})), ServedColumns)]

ModelsOps == [
    data_source_status |-> Table({},
        {Unique("uq_source_category", {"source_name", "category"})}),
    raw_source_payloads |-> Table({},
        {Unique("uq_raw_payload", {"source_name", "endpoint", "content_hash"})}
        \cup Plain({"ix_raw_retrieved"})),
    job_runs |-> Table({}, Plain({"ix_job_runs_name_started"}))]

Metadata == ModelsReference @@ ModelsGames @@ ModelsLines @@ ModelsStatcast
            @@ ModelsPregame @@ ModelsServing @@ ModelsOutput @@ ModelsOps

Keys(table) == {i \in table.indexes : i[2] # {}}

-----------------------------------------------------------------------------
(* The rows.                                                               *)

Prediction == [game : Game, model : Model, created : Int, latest : BOOLEAN,
               by : 0..MaxRows]

SourceRow == [source : Source \cup {"placeholder"}, updated : 1..MaxRecords]

SchemaInit ==
    /\ version = 0
    /\ schema = EmptySchema
    /\ preds = <<>>
    /\ status = {}
    /\ refused = FALSE

\* Rows are written only while their table stands.
Exists(table) == table \in DOMAIN schema

\* Whether row i comes before row j among the snapshots of their game.
Before(rows, i, j) ==
    \/ rows[i].created < rows[j].created
    \/ rows[i].created = rows[j].created /\ i < j

\* LEAD over the snapshots of a game: the one after row i, or 0.
NextOf(rows, i) ==
    LET later == {j \in DOMAIN rows : rows[j].game = rows[i].game /\ Before(rows, i, j)}
    IN IF later = {} THEN 0
       ELSE CHOOSE j \in later : \A k \in later : k = j \/ Before(rows, j, k)

\* Mutant: a retired row is not pointed at its successor.
RetireOnly(rows) ==
    [i \in DOMAIN rows |->
        IF rows[i].latest /\ NextOf(rows, i) # 0
        THEN [rows[i] EXCEPT !.latest = FALSE] ELSE rows[i]]

\* Every latest row but the newest of its game is retired and pointed at the
\* one that follows it, unless it points somewhere already.
RepairPredictions(rows) ==
    [i \in DOMAIN rows |->
        LET next == NextOf(rows, i) IN
        IF rows[i].latest /\ next # 0
        THEN [rows[i] EXCEPT !.latest = FALSE, !.by = IF @ = 0 THEN next ELSE @]
        ELSE rows[i]]

\* A placeholder beside a live row goes; then the last updated row stays.
RepairStatus(rows) ==
    LET live == {r \in rows : r.source # "placeholder"}
        rest == IF live = {} THEN rows ELSE live
    IN {r \in rest : \A q \in rest : q.updated <= r.updated}

\* What the revisions up to a version make of an empty database.
SchemaAt(v) == FoldLeft(Effect, EmptySchema, Path(0, v))

Holds(s, table, key) == table \in DOMAIN s /\ key \in s[table].indexes

\* The rows keep the keys of the schema that could refuse them.
Satisfies(s, ps, st) ==
    LET latest == {i \in DOMAIN ps : ps[i].latest}
        clash(i, j) == i # j /\ ps[i].game = ps[j].game
    IN /\ Holds(s, "predictions", LatestPerGame) =>
            \A i, j \in latest : ~ clash(i, j)
       /\ Holds(s, "predictions", LatestPerModel) =>
            \A i, j \in latest : clash(i, j) => ps[i].model # ps[j].model
       /\ Holds(s, "data_source_status", CategoryKey) => Cardinality(st) <= 1

\* `alembic upgrade` or `downgrade`: the steps and repairs of the revisions
\* between, in one transaction.
Migrate(to) ==
    /\ to # version
    /\ LET crosses(revision) == version < revision /\ revision <= to
           done == Taken(schema, Path(version, to))
           ps == IF to = 0 THEN <<>>
                 ELSE IF crosses(LatestRevision) THEN RepairPredictions(preds) ELSE preds
           st == IF to = 0 THEN {}
                 ELSE IF crosses(CategoryRevision) THEN RepairStatus(status) ELSE status
       IN IF done.ok /\ Satisfies(done.schema, ps, st)
          THEN /\ version' = to /\ schema' = done.schema
               /\ preds' = ps /\ status' = st
               /\ UNCHANGED refused
          ELSE /\ refused' = TRUE
               /\ UNCHANGED <<version, schema, preds, status>>

\* A snapshot: created_at is when its transaction began, which is before that
\* of the row inserted last if the jobs overlap.  The code of LatestRevision
\* retires the latest row of the game, the code before it that of the game
\* and the model.
Issue(g, m, overlapped) ==
    /\ Exists("predictions")
    /\ Len(preds) < MaxRows
    /\ LET id == Len(preds) + 1
           retired(i) == /\ preds[i].latest /\ preds[i].game = g
                         /\ version >= LatestRevision \/ preds[i].model = m
       IN preds' = Append([i \in DOMAIN preds |->
                              IF retired(i)
                              THEN [preds[i] EXCEPT !.latest = FALSE, !.by = id]
                              ELSE preds[i]],
                          [game |-> g, model |-> m, latest |-> TRUE, by |-> 0,
                           created |-> 2 * id - IF overlapped THEN 3 ELSE 0])
    /\ UNCHANGED <<version, schema, status, refused>>

Updates == {r.updated : r \in status}

\* The next time of an update.
Now == IF status = {} THEN 1
       ELSE (CHOOSE u \in Updates : \A w \in Updates : w <= u) + 1

\* seed_source_status: a placeholder for a category that has no row.
Seed ==
    /\ Exists("data_source_status")
    /\ status = {}
    /\ status' = {[source |-> "placeholder", updated |-> Now]}
    /\ UNCHANGED <<version, schema, preds, refused>>

\* record_source_status: the row of the name, or the placeholder taken over,
\* or a new row, which the key on the category refuses beside another.  The
\* code before CategoryRevision knew no takeover.
Record(source) ==
    /\ Exists("data_source_status")
    /\ Now <= MaxRecords
    /\ LET named == {r \in status : r.source = source}
           placeholder == {r \in status : r.source = "placeholder"}
           replaced == IF named # {} THEN named
                       ELSE IF version >= CategoryRevision THEN placeholder ELSE {}
       IN /\ replaced = {} => version < CategoryRevision \/ status = {}
          /\ status' = (status \ replaced) \cup {[source |-> source, updated |-> Now]}
    /\ UNCHANGED <<version, schema, preds, refused>>

SchemaNext ==
    \/ \E to \in 0..HeadRevision : Migrate(to)
    \/ \E g \in Game, m \in Model, overlapped \in BOOLEAN : Issue(g, m, overlapped)
    \/ Seed
    \/ \E s \in Source : Record(s)

SchemaSpec == SchemaInit /\ [][SchemaNext]_mvars

-----------------------------------------------------------------------------
(* Properties.                                                             *)

SchemaTypeOK ==
    /\ version \in 0..HeadRevision
    /\ \A t \in DOMAIN schema : schema[t].refs \subseteq DOMAIN schema
    /\ preds \in Seq(Prediction) /\ Len(preds) <= MaxRows
    /\ status \subseteq SourceRow
    /\ refused \in BOOLEAN

\* No command, from any version to any other and over whatever rows the code
\* of the versions passed through has written, is refused by the database.
NeverRefused == ~ refused

\* The revisions themselves, whatever the rows: every way from one version to
\* another is taken and ends in the schema of the other, and the two keys that
\* need a repair come with the revision that makes it.
RevisionsFit ==
    /\ SchemaAt(0) = EmptySchema
    /\ \A v, to \in 0..HeadRevision :
        Taken(SchemaAt(v), Path(v, to)) = [ok |-> TRUE, schema |-> SchemaAt(to)]
    /\ \A v \in 0..HeadRevision :
        /\ Holds(SchemaAt(v), "predictions", LatestPerGame) => v >= LatestRevision
        /\ Holds(SchemaAt(v), "data_source_status", CategoryKey) => v >= CategoryRevision

\* The database has the tables and columns the models declare, and every unique
\* key that an ON CONFLICT names or a test relies on.
ServesCode ==
    /\ DOMAIN schema = DOMAIN Metadata
    /\ \A t \in DOMAIN Metadata :
        /\ schema[t].refs = Metadata[t].refs
        /\ schema[t].columns = Metadata[t].columns
        /\ Keys(Metadata[t]) \subseteq Keys(schema[t])

\* The schema depends on the version alone and not on the way to it, every
\* downgrade undoing its upgrade, and that of the head serves the code.
SchemaOfVersion ==
    /\ schema = SchemaAt(version)
    /\ version = HeadRevision => ServesCode

\* Whether the snapshots of a game were created in the order they were
\* inserted, which those of jobs that overlap need not be.
InOrder(g) ==
    \A i, j \in DOMAIN preds :
        preds[i].game = g /\ preds[j].game = g /\ i < j =>
            preds[i].created <= preds[j].created

\* Past the repair no game has two latest snapshots.  One whose snapshots were
\* created in the order of their ids has exactly one, the one inserted last,
\* and from any other the links lead forward to it.
OneLatest ==
    version >= LatestRevision =>
        /\ \A i, j \in DOMAIN preds :
            preds[i].latest /\ preds[j].latest /\ preds[i].game = preds[j].game => i = j
        /\ \A i \in DOMAIN preds : InOrder(preds[i].game) =>
            /\ preds[i].latest <=>
                   (\A j \in DOMAIN preds : preds[j].game = preds[i].game => j <= i)
            /\ ~ preds[i].latest => /\ preds[i].by > i
                                    /\ preds[preds[i].by].game = preds[i].game

=============================================================================
