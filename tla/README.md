# Verification of MLBPredictionLab

TLA+ models of the parts of MLBPredictionLab whose correctness depends on the
order of steps, on failures and on what several processes do at the same time;
TLC configurations that check them on small instances; and proofs, checked by
TLAPS, that the most important properties hold for every value of the
constants. `src/...` paths are relative to the repository, written without the
`src/` from here on.

Contents: [the system](#the-system), [plan](#plan), [modules](#modules-and-code),
[runs](#runs), [proofs](#proofs), [findings](#findings),
[limits](#what-is-not-modelled).

## The system

A Python service predicts the outcome of baseball games, stores every
prediction for good, and publishes it on a static site. PostgreSQL holds
everything. It runs in two ways:

* **containers** (`docker-compose.yml`): a database that stays up, a scheduler
  container that repeats the `daily` command every 900 seconds for ever, a
  trainer container that trains once a day, an API and a frontend;
* **workflows** (`.github/workflows`): there is no database that stays up. Every
  workflow starts an empty PostgreSQL, restores a dump from a release asset,
  works, and saves a new dump over it.

### Components

| component | state it keeps | operations | talks to |
|---|---|---|---|
| Prediction ledger (`backend/app/services/prediction.py`) | `predictions`, `model_features` | issue a snapshot, supersede the latest, pass over a game, refuse a duplicate | reads the active model, the schedule and the facts; its rows are what the API, the site and the drift report read |
| Job transactions (`db/session.py`, `ingestion/status.py`) | `job_runs`, `data_source_status` | open a run, end it with SUCCESS, FAILED or nothing; commit or roll back the session | every job runs inside one |
| Data store (`.github/actions/db-save`, `db-restore`) | the release assets: the dump, the previous dump, a dump being uploaded | restore with three attempts; upload, retire, rename, rename | every workflow |
| Writer workflows (`refresh`, `pregame`, `seed`, `statcast`) | the concurrency group `jerry-data` and its one pending run | restore, work, save | the data store |
| Publish and watchdog (`pages.yml`, `uptime.yml`) | the published site | restore, build, deploy; look at the site's age, cancel and redispatch | the data store, outside the group |
| Model registry and promotion (`modeling/train.py`, `registry.py`, `promotion.py`) | `model_versions` | search, decide, number, register, activate | the ledger, through the active version |
| Schedule and results ingestion (`ingestion/schedule.py`, `results.py`, `runner.py`, `reference.py`) | `games`, `players`, team and player lines | upsert a window of days, look up players, backfill box scores in batches | providers; the features read what it stores |
| Pregame ingestion (`lineup_poller.py`, `injuries.py`, `weather.py`) | lineups, transactions, forecasts, each with the time it was known | append what changed | providers; the as-of features |
| Statcast ingestion (`statcast.py`) | pitches and daily aggregates | resume by date, reconcile | provider |
| As-of features (`features/`) | a store in memory, one cache entry per minute or day | load, cut everything at `as_of`, build a feature vector | ledger, training |
| Models, simulation, backtest (`modeling/`, `backtest/`) | none | fit, calibrate, simulate, serve, walk forward, replay what was served | registry, features |
| Schema (`db/models`, `alembic/versions`) | the tables and keys, rows two revisions repair | upgrade, downgrade | everything |
| Read services, API, cache (`services/`, `api/`, `core/cache.py`) | a cache with an expiry | read | all tables |
| Providers (`providers/`) | a rate limiter, a retry counter | fetch and map | the outside |
| Frontend (`frontend/lib`) | what the browser holds | retry, overlay live scores | API or static files |

`PROJECT.json` lists them all with what is and is not modelled.

### What is hard about it

* **Several jobs at READ COMMITTED.** The scheduler and a `predict` run by hand
  replace the same snapshot; two trainers count the same rows to get the next
  version number; what a trainer compared itself with may be gone when it
  activates.
* **Long transactions.** A slate is one transaction over many games. It reads
  the clock for a game, computes for seconds, and only then looks up and locks
  the snapshot it replaces. It takes its row locks in whatever order the query
  returned.
* **Partial failure.** One refused insert rolls back everything the transaction
  holds, with different consequences in the slate (one commit) and in the
  results backfill (a commit per batch, exceptions swallowed).
* **A store without transactions.** Replacing the dump takes an upload, a delete
  and two renames, each of which can be the last thing the run does. A restore
  outside the group can fall between any two of them.
* **Cancelled workflows.** Steps marked `always()` still run.
* **Boundaries.** `as_of` is capped one minute before first pitch, so snapshots
  collide there; a game leaves the schedule window after three days; an official
  date runs past midnight UTC; a season ends in a winter.
* **Two readings of one record.** What was served live from the record of that day
  is scored later from the record of today. Each feed stamps what it stores with a
  knowledge time by a rule of its own, every read cuts by the stamp, and any read
  that does not (or that reaches further back than a backtest loads) makes the
  score that of another product. Some inputs have no time of their own (who is named
  to start), or one that lies behind what was already served (a Statcast backfill).
* **A resumable backfill.** It commits date by date, asks only for games without a
  row, and is stopped by limits, failures and the queue of the workflows.
* **Repairs in migrations.** Two revisions delete or retire rows to make a unique
  index possible, in the one transaction of the whole command.

### What makes each component correct

* Ledger: the snapshots of a game are one chain that ends in its only latest
  one; an issued snapshot is never rewritten; each has a feature row of its own;
  the one served is the newest by `as_of`; a job always ends.
* Data store: writers behave as if they ran one at a time; the work saved so far
  is always under some name in the release; the previous dump is the one the
  primary replaced; the site never goes back.
* Registry: one version is served; numbers are in sequence; the configuration
  served changes only on evidence.
* Results: a stored game is whole; a run that reports no failure left nothing
  out; every game that is over is stored in the end.
* Feeds and as-of reads: no read sees a fact before it came about by more than its
  feed's known slack; a replay sees what the read saw.
* Team form: the streak on the card, on the page and in the features is one number;
  the rating read before a game is the one the engine carries into it; no fold of
  the walk-forward knows more than a forecast made that day did.
* Forecasts: a replay reads what the forecast read; a card is scored as it was
  served; the games of a slate share their priors; nothing read is from the future.
* Statcast: committed are whole dates; success leaves no game without a row and finds
  what disagrees with the box scores; a run ends.
* Schema: no command is refused, a downgrade undoes its upgrade, the head has
  what the models and the upserts name, and past the repair of the predictions no game has
  two latest snapshots; one whose snapshots were created in order has its newest.

`PROJECT.json` "hazards" lists what can go wrong, each at its line with the
properties that would show it. What no property can say of the code, because the
code does otherwise, is under [findings](#findings).

## Plan

The order is that of importance to what the program promises: an immutable
record of predictions first.

1. *(done)* `PredictionLedger`, its abstract specification `SnapshotHistory`, and
   `PredictionLedgerProofs`.
2. *(done)* `DataStore` and its abstract specification `SerialStore`.
3. *(done)* `ModelRegistry` and `ModelRegistryProofs`; `ResultsIngest`.
4. *(done)* `AsOfStore`: the feeds, their stamps and the cuts.
5. *(done)* `StatcastIngest`; `Migrations`.
6. *(done)* `TeamForm`: streaks, the rating and the walk-forward windows.
7. *(done)* `Features` and `Forecast`: what every feature reads, what is served, and
   what is scored.
8. *(done)* Proofs of the safety properties of the ledger, the store, the registry, both
   ingests, the as-of store, the record of games, the forecasts and the revisions, and of
   both refinements.
9. What the steps of the concrete revisions make of a schema (`SchemaOfVersion`), and
   liveness, stay with TLC: see [proofs](#proofs).

Runs that showed one disagreement each gave their place to runs of the modules 4
to 7. What they showed is kept under [findings](#findings), with the change of
constants that shows it again.

## Modules and code

Every definition that models code is listed in `PROJECT.json` "map" with the
lines it stands for. A definition marked *Mutant* in a comment is not part of the
model: it is what a plausible slip would make of the definition after it, and
exists to show that a property notices.

### PredictionLedger, SnapshotHistory

The `predictions` and `model_features` tables under any number of predict jobs.

* `pred` is the committed table by id, `features` the committed feature rows as `<<game,
  feature set, as_of>>`, the key of `uq_model_feature`. A release may change the feature
  set under any job (`Begin` takes it), so that two snapshots of a game and one `as_of`
  may both stand, each with a row of its own set. A job's uncommitted inserts are in
  `wrote[j]`; the rows they retire are in their `replaces`. `nextId` is the sequence,
  never rolled back.
* `Begin` is everything `generate_predictions_for_date` reads once: active version,
  schedule, facts. `Build` reads the clock for one game and builds its features.
  `Keep`/`ReadExisting` is the look-up of the latest snapshot and the comparison with it.
  `Write` retires it, inserts the new one and links the two.
* The three unique indexes are `LatestTaken` (`uq_prediction_latest`),
  `AsOfTaken` (`uq_prediction_asof`) and `FeatureTaken` (`uq_model_feature`). The
  feature row is merged without a primary key, so it is an INSERT, sent with the
  *next* flush: a refusal shows at the following game, or at the end of the run
  (`CommitFails`), where `job_run` records nothing.
* `Waiting` is PostgreSQL's lock wait: on the row the other job retired, or on its
  uncommitted entry in the index. `DeadlockAbort` is its deadlock detector.
* What a probability is computed from is a revision number: two computations are
  equal when the revisions are.
* `Tick`, `ReviseInputs`, `Reschedule`, `Train` are the other jobs, through what
  they change.

`SnapshotHistory` is what readers are promised: per game, a sequence of snapshots
that grows at its end, the last one being served, any part of the slate in one
step.

### DataStore, SerialStore

The release with its three asset names and every workflow that uses it. A
database is the set of work units it holds, so that lost work shows as a missing
unit. One action per API call of `db-save` (`Upload`, `Retire`, `Displace`,
`Promote`) and of `db-restore` (`Download`, `DownloadFails`, `Load`), with failed
calls inside the retry loops, and `Break` for a run that is cancelled, times out
or whose step fails, in any state. `StopBeforeWork` is the `always()` condition of
the Statcast save step. `Dispatch` and `Start` are the concurrency group: a
newer pending run replaces the one that waits. `SerialStore` is a set of work
units that grows by one unit at a time.

### ModelRegistry

The `model_versions` table under overlapping trainers. `Begin`, `Search`,
`Judge`, `Number`, `Register`, `Commit` are the phases of `train_model`, each of
which can be the last (`Fail`). `Decide` is `decide_promotion` with the numerical
comparison replaced by its outcome: better, worse, tie, or incomparable. The C of
a tie is the incumbent's, not the one the grid picked. `Blocked` is PostgreSQL
holding an insert back while another transaction's equal key is undecided.

### ResultsIngest

`daily_refresh`: the schedule window, the player look-ups, and the box score
backfill. `staged` is what the session holds since its last commit; `CommitBatch`
makes it visible, and a refused box score (`PersistRaises`) empties it for the
games before it too. `missed` is a history variable: the players some look-up did
not return.

### AsOfStore

What a read made as of `T` may see. `facts` is what came about in the world and
when; the database never learns that moment. `db` holds rows stamped by the rule
of each feed: a result a fixed lag after first pitch (`ResultKnown`: nothing stores
when a game ended), a roster move from the midnight UTC after its date
(`MoveKnown`), a lineup or a forecast with the clock read *before* the request
(`Ask`, `Answer`, `Lost`). `Key` is the conflict key of `db/upsert.py`. A move has an id
besides (`Ids`): a row that is there keeps its own, new ones take later ids in the order
the feed lists them, which may be any. Ids decide among the moves of one day
(`UnavailableAsOf`, which takes the last by knowledge time and id). `Cut` is the
comparison with the stamp that every read of `features/asof.py` begins with.
`cache` is the entry of `unavailable_asof` for one minute, `read` a history of one
live read, against which replays are compared.

### TeamForm

One variable: the games on record, in order of first pitch. `Play` explores every
record of a few games, with exhibitions, the postseason, games not finished, winters
and seasons without a game. Everything else is computed from it as the code does,
often twice: `TeamLog` in one pass over sorted rows, `Windows`, `Cell` and
`ReachCounts` from its columns, `CurrentBlock` for the page, `SideContext` for the
card, `State` and `SideValues` by bisection for the features; `EloHistory` by the
engine and `RatingAt` by bisection, a rating being the list of results and winters
that moved it; `MakeSteps`, `StepFit` and `FinalFit` for the windows of training,
calibration and test. Time is in ticks, with two first pitches a day (`FirstTick`,
`SecondTick`), a result `Lag` ticks after its own and a forecast `Ahead` ticks before it.
The buckets by opponent and starter are left out.

### Features, Forecast

`Features` is `features/builder.py` and the modules it calls: what a build of one game
at `T` reads. A value is not a number but the games it was computed from, each
tagged with the table it was read in, or nothing where the code reports a missing
value; builds with equal values read the same rows. Features that read alike share a
key (`record` stands for three), one trailing window stands for all of them, and a
team has two starters who take turns. `Slice` is the cut by knowledge time;
`Schedule` is the read that is cut by first pitch instead. `LeagueBaseline` and
`StatcastLeague` are cut where the UTC day of `T` starts. `Pooled` and `Evidence` are the
projections over several seasons, the evidence truncated as the code truncates it.
`Loaded` is the store of a backtest.

`Forecast` serves and scores. State: the clock, the record (`final`; a result may be
overdue by `MaxBehind` games), who is named to start each game (`named`), the games whose
Statcast rows are stored (`tracked`), and the snapshots served, each with what it was made
from. `IngestSchedule` writes over the names, which no read cuts; `IngestStatcast` is the
backfill of a range of dates, whose rows carry the knowledge time of their game and so may
appear behind an `as_of` already served. `Serve` is `generate_predictions_for_date` for a
card, with `LiveAsOf`, `DispersionAsOf` at the earliest moment of the slate, and
`ServeProbability`. `BuildDataset`, `RunComponents`, `Means`, `AsOfSizes` and
`EvaluateServed` are the replay from the record of any later state; the variants that
differ by the park alone are left out.

### StatcastIngest

One run of the backfill at a time: `Begin` (pending dates), `FetchNothing` or
`FetchRows`, `CommitDay`, `Reconcile` of every game touched, `Finish`; `Raise` for a
failure that `job_run` records, `Die` for one outside its `except`. `db` is committed,
`session` is what the process sees. Meanwhile games end, box scores are stored,
rows come out at the source, and the mappers are taught an unknown description.
A row stands for a number of pitches, so that the relative tolerance of the comparison is
met at its size: `Statcast` counts pitches, strikeouts, home runs and balls in play, `Off`
compares each as the code does (half a percent of the pitches, one event of the others),
and what a box score does not measure finds nothing (`Box`). `said` is the sentence the
workflow prints.

### Migrations

A schema maps tables to their references, indexes and later columns. `Up` and `Down` are
the steps of the nine revisions, `Migrate` one `alembic` command: all of its steps or
none. `Issue` and `Seed`/`Record` write predictions and source reports in between by the
code of the version, so that the two repairs (`RepairPredictions`, `RepairStatus`) meet
real rows. Predict jobs may overlap: a row's `created` is when its transaction began, and
need not follow the order of the ids. `Metadata` is what `db/models` declares.

### Assumptions about the environment

* A game is moved to an *earlier* start only while no slate run is in flight:
  such moves are announced far ahead of the seconds a run lasts.
* No two readings of the clock are equal (microseconds).
* Between two attempts of a restore (20 s) a save that is alive gets from its
  first rename to its second (`Waited`).
* The concurrency group keeps one running and one pending run, the newest; steps
  with `always()` run after a cancellation.
* Some ingest sees a result before the game's date leaves the window of three
  days (`NextDay`). Beyond it the code loses the game.
* One daily ingest at a time. `joblog` is the row of the last results run.
* The `data_source_status` rows exist (bootstrap).
* A game lasts at most `MaxLength` and a request at most `MaxDelay`; `HindsightBounded`
  names what each costs.
* Forecasts: properties of replay speak of cards at whose `as_of` no result was
  overdue. A result that reaches the record later than its knowledge time is read by
  the replay and was not by the forecast; nothing in the code could prevent it. Of a
  Statcast backfill behind a forecast, and of a starter named anew, the properties say
  exactly what may differ.

## Runs

Bounds are constants, named in each module. They are small because the hazards
are: a collision needs two runs, a chain three snapshots, a fork two jobs.

| run | constants | shows |
|---|---|---|
| `LedgerSlate` | 2 games, 1 job, 2 runs, 2 versions, 2 feature sets, 1 revision, starts at 2 or 4, clock up to 3 | with rescheduling on both sides of the clock, late facts, retraining, releases, refusals and kills: types, `AuditRowPerSnapshot`, `LatestIsNewestAsOf`, `SnapshotsImmutable`. Two runs are enough to meet each index, and the starts fall before, at and after the readings of the clock |
| `LedgerContention` | 2 games, 2 jobs, 3 runs | `ChainIntegrity`, `ImplementsHistory`, and `RunsEnd` under fairness. Two games and two jobs are the smallest deadlock; three runs make chains of three |
| `StoreScheduled` | refresh, pregame, publish; 3 writer runs, 2 lost calls, 2 interruptions | `Recoverable`, `ImplementsSerial`, `SiteNeverGoesBack`. Two interrupted saves in a row followed by a complete one are covered |
| `StoreAll` | refresh, seed, statcast; 3 runs, 3 lost calls, 2 interruptions | `RollbackIsPredecessor`, with the seeder's two saves and three failed attempts in one restore |
| `ResultsDaily` | 3 games on 2 days, 2 players, the second game refused, batches of 2, 2 faults, 1 kill | `StoredWhole`, `ReportTruthful`, and `SoundGamesStored` under fairness; deadlock is checked here. A batch holds a good game before the refused one, and the third game comes in a later batch or day |
| `RegistryGate` | 2 trainers, 2 values of C, 2 feature sets, 3 trainings | types, `OneServed`, `VersionsInSequence`, `ConfigurationEarned`. Three trainings are one incumbent and two that overlap |
| `AsOfReads` | 2 games (regular, postseason), 1 player, 3 facts, 2 polls, 5 ticks, days of 2 ticks, games up to 3 ticks against a lag of 2 | `HindsightBounded`, `ReplayKeeps`, `CacheKeepsCut`, `ReturnedIsBack`. Three facts are a placement, a return and a result, or a lineup changed twice; placement and return fall on one day or on two, and are stored in either order |
| `MigrationsAll` | 2 games, 2 models, 2 sources, 3 predictions of jobs that may overlap, 3 reports, symmetric | `NeverRefused`, `SchemaOfVersion`, `OneLatest`, from any version to any other. Three rows let a repair meet two latest rows of a game and one of another |
| `StatcastBackfill` | 3 games on 2 dates and one the schedule lacks, 7 rows of which 4 are out from the start, 3 players of whom one cannot be resolved, 2 runs, 1 failure | `StoredTogether`, `SuccessLeavesNothing`, `ShortGamesNamed`, and `RunEnds` under fairness. Two runs are one that is cut short or comes too early, and the next. One game of 290 pitches may lack one (tolerated) or more, the box score of another has no pitch count and two strikeouts that never arrive, a third measures balls in play only |
| `FormRecord` | 3 teams in 2 pairings, 4 games, seasons of three days with an exhibition and a postseason, days of 3 ticks with a result one tick after first pitch and a forecast one before, 1 game not finished | `EnteringIsRun`, `TablesAgree`, `NoLookAhead`, `RatingIsPregame`, `StepsSound`. Four games give streaks of three and a winter in the middle |
| `Forecast` | 4 teams, 7 schedules of 4 games in progress behind none to seven past ones, 1 card served, 1 result overdue, one backfill of the past and the first day at any time, starters named late or replaced | `LiveIsReplayed`, `NoFutureFact`, `SlatePriors`, `LookbackEnough`, `ServedAsScored`, `VariantsCovered`. The schedules hold a doubleheader, a night game past midnight UTC, a rainout, a starter named late, one replaced, a game of October, and seasons inside and outside of the lookback. Serving writes nothing that serving reads, so one card stands for many |
| `ForecastReplay` | the same | `ScheduleIsReplayed`, which fails, see [findings](#findings) |

`CHECK_DEADLOCK FALSE` is set where the system may rest: a predict job, a workflow, a
trainer, a backfill or a migration is started from outside, a bounded number of
times, and the record of games is bounded. The daily
ingest is an endless loop and is checked for deadlock.

`LatestIsNewestAsOf` is checked with one job, where it holds; with two it fails. Nothing
is promised of a single restore: with no lost call and no interruption its attempts bridge
the gap between the renames of a save, but one lost `gh release view` ends them at once.

The types of `PredictionLedger` and `ModelRegistry` are checked and proved. The `TypeOK` of
`DataStore`, `ResultsIngest`, `StatcastIngest` and `AsOfStore` is in no run, since the runs'
properties are about what the types leave open; it is part of the inductive invariants and
is proved.

### Fairness

* Ledger: weak fairness of each job's own steps. A running process goes on; a
  lock wait ends because its holder ends or because the deadlock detector, a
  timer, fires. Nothing makes a job start, and nothing makes one die.
* Results: weak fairness of `Begin`, because the scheduler container is an endless
  loop, and of the steps of a run. Faults and kills are bounded: an outage ends.
* Statcast: weak fairness of the run's own steps; nothing makes a run start, and
  nothing makes one die.
* The other specifications assume none and state no liveness.

## Proofs

TLAPS checks them for every value of the constants. What is assumed is the ASSUME of each
module (bounds are naturals, start times are positive, rosters and calendars have their
types, keys are unique), which TLC evaluates in the runs, and the hypotheses that some of
the theorems name:

| theorem | hypothesis | why the code justifies it |
|---|---|---|
| `NewestCorrect` | one predict job | with two it is false, see [findings](#findings) |
| `RecoverableCorrect` | the seeder is not a writer | it goes on when it finds no dump |
| `StoreIsSerial`, `SiteCorrect` | `Scheduled`: neither seeder nor backfill writes; one publish job | the backfill saves after a restore that was cancelled |
| `UpgradesCorrect` | `RevisionsFit`: the steps between any two versions are taken on the schema of the one and end in that of the other; the two keys that need a repair come with it | a formula without constants or variables: TLC evaluates it, see below |
| `PriorsCorrect` | `SlateOnOneDay` | three hours before the starts of a date fall on its UTC day |
| `FutureCorrect`, `LookbackCorrect` | `SlateInYear`: the lead never reaches into the year before | games start three hours into the UTC day of their date at the earliest |
| `LookbackCorrect` | `InItsYear`: a game is played in the calendar year of its season | no season crosses New Year |
| `LookbackCorrect` | `LookbackCovers`: the lookback is no shorter than a projection or a window | `LOOKBACK_SEASONS` is 3, the weights are 2 and 3, `asof.py:126` |
| `StepsCorrect`, `RatingCorrect` | `Overnight`: the results of a day are known before the first forecast of the next | 3 h 30 after a start late at night is hours before the forecast of a start at noon |
| `RatingCorrect` | `InSeason`: a forecast is made in the season of its game | a season opens months after New Year and a forecast is made hours ahead |

`MCForecast` and `MCTeamForm` assume the last six of their instances, so that TLC refutes
the run if they do not hold there; the cfgs show the others. `MigrationsAll` takes the
command between any two versions from empty tables, and finds each taken (`NeverRefused`)
and ending in the schema of its version (`SchemaOfVersion`): no bound cuts that part off,
and it is what `RevisionsFit` says of the commands; the two keys are added by
`AddLatestPerGame` and `AddCategoryKey` alone, the steps of `LatestRevision` and
`CategoryRevision`. `AsOfAssumption` holds that the calendar of a feed lags UTC by no more
than a day, and `ForecastAssumption` that a schedule is finite and names a game once.

**PredictionLedgerProofs.** `ChainIntegrity` speaks of committed rows and is not
inductive: the rows a job has inserted and not committed become part of the chain
at its commit, and nothing in it says they will fit. The inductive invariant is
`IInv == TypeOK /\ ChainIntegrity /\ InFlight`, where `InFlight` has five parts:
ids are fresh (`IdsFresh`), a game has one uncommitted snapshot among all jobs
(`OneWriter`, which is what the lock wait buys), a job does not come back to a game
(`WritesBehind`), the row an uncommitted snapshot retires is still the latest of
its game (`ReplacesLatest`, which is what `uq_prediction_latest` buys), and what a
job read is a real row (`InHand`). The step that matters is `Commit`: by
`ReplacesLatest` and `OneWriter` each committed snapshot takes the place of the
only latest row of its game. From it: `TypeCorrect`, `ChainCorrect`, and
`Immutable`, the action property that an issued row changes once at most, and only
to be superseded. Three more rest on it:

* `AuditCorrect` by `Recorded`: the feature row of an uncommitted snapshot is not in the
  table, or is the one still pending, which `FeatureTaken` compares before the commit.
* `NewestCorrect` by `InTime`: no row is as of a time to come or past the first pitch, and
  what the one job holds is as of no earlier than the rows of its game. The cap of
  `LiveAsOf` and the rule that no game moves forward under a run are both needed.
* `HistoryCorrect`: the ledger implements `SnapshotHistory`. The chain of a game counts
  its ids off by how many are no greater. An id greater than all the others takes the next
  position and moves none (`ChainGrows`), and the id of an insert is greater than all of its
  game, because what it replaces is the latest row and the latest row is the last
  (`LatestIsLast`, by the greatest id, which nothing can have superseded). So a commit
  maps to a publication and every other step to a stutter.

**ModelRegistryProofs.** `RInv` adds to the types and to `OneServed` and
`VersionsInSequence` that the rows are finitely many (`Counted`), that the number of
an uncommitted row is the one after the last committed (`NextInLine`), that only one
trainer has an uncommitted row (`Exclusive`: two would hold the same number, and the
unique index makes the second wait), and that a decision in hand still describes
the row it was reached against (`Decided`: configurations are never rewritten).
From it: `RegistryTypeCorrect`, `ServedCorrect`, `NumbersCorrect` and
`EvidenceCorrect`.

**DataStoreProofs.** A chain of invariants, each with fewer writers allowed. `StoreInv`
holds for all: one writer is at work (the concurrency group), the primary is the dump
issued last, there is none between the two renames. `RollbackCorrect` follows. `KeptInv`
adds that without a primary the last dump is the previous one (`LastIsKept`) and that only
a run that found a primary comes to a save (`FoundPrimary`, which the seeder breaks); this
is `RecoverableCorrect`. `SerialInv` adds that a run works on the dump issued last with its
own unit added (`WorksOnCurrent`, which the backfill breaks): `StoreIsSerial` maps the
promotion of a dump to the one step of `SerialStore` and all other steps to stutters.
`SiteInv` adds that the site and the dump a publish job holds are no further than the store.

**ResultsIngestProofs.** `StoredWhole` needs that what a batch has written and not
committed is whole by itself (`WholeInv`); `ReportTruthful` needs that, while no game has
failed, each game asked for is stored, staged, in the batch or in the queue (`ReportInv`).

**StatcastIngestProofs.** `TogetherInv` states `StoredTogether` of what is committed and of
what the process sees. `RunInv` carries the two action properties: what the process sees
extends what is committed (`Ahead`), a game that could be stored at the beginning still can
(`StillReady`) and is on a date to come, on an empty one, or has rows (`Pursued`), and a
game off its box score is named or still to be reconciled (`Named`). What it counts up to is
then what the run ends with, because a date that was reconciled is not worked on again
(`DatesDone`).

**AsOfStoreProofs.** `AsOfInv`: a game has one result and a player one move of a kind and
of a time (`FactsOnce`), facts are not of the future (`FactsPast`), the stamp of a row is
what its feed's rule makes of its fact (`Stamped`), a request in flight was stamped later
than what is stored (`InFlight`). The lemma behind `ReplayCorrect` and `CacheCorrect` is
`OnlyAdds`: no upsert ever meets the key of another fact and a move keeps its id, so rows
are added and never changed, and a cut in the past stays what it was.

**The predictions table under the revisions**, the last part of `PredictionLedgerProofs`.
`MInv` is about the rows between the revisions, whether or not the jobs behind them
overlapped: two latest rows are of different games, or before `LatestRevision` of
different models (`LatestApart` in `RowsApart`, which the repair turns from the one into
the other), a retired row has a link, and in a game whose rows were created in the order
of their ids the links lead forward and the newest row is latest (`Chained`). A downgrade
gives up nothing but the first, and that only as far as the older key, so the next upgrade
finds what the repair needs (`OneLatestCorrect`). `SInv` is about what a key could refuse:
the same `RowsApart`, and the reports of a category come one after another, past
`CategoryRevision` one in place of the other (`StatusApart`). The code of each version
keeps the rows of its version apart, a downgrade asks for less, and an upgrade repairs
what it asks for (`UpgradesCorrect`).

**ForecastProofs.** Two arguments over the operators of `Features`, for one read after
another up to `Build` and `Means`. *Agreement*: two records with the same games known by
`T` give the same build at `T`, but for the schedule keys; with `FInv` (the record only
grows, and that of a served snapshot is what was known by then, but for what was overdue)
this is `ReplayedCorrect`: a key that does not look at the starter does not change with
him, and one that does not read Statcast does not change with what is tracked. With what a
snapshot was made from (`Faithful`) it is `ScoredCorrect`. `LookbackCorrect` is the same
argument for a record cut to the seasons near `T` (`Near`, `NearTracked`). *Knowledge*:
the games a value names were known at `T` (`KnownOnly`); this is `FutureCorrect`, where
the fit of a policy uses games of earlier moments only. `PriorsCorrect` and
`CoveredCorrect` are direct.

**TeamFormProofs.** What is inductive is small: the record is in the order of first pitches,
of dates and of seasons (`RecordInvariant`). The rest says what recursive functions make of
any such record. The library's induction theorems take an operator, which the provers cannot
instantiate; `EveryNumber` takes a set instead (a set of numbers with 0 and the successor of
each of its members is all of them), and each argument collects in a set the lengths up to
which it holds.

* `SameElo`, `SameRating`, `SameLog`, `SameValues`: results become known in the order of the
  record (`KnownInOrder`), so the record as it was at `T` and the record of today have the
  same engine, the same snapshots and the same rows for the games known by then, and every
  reading as of `T` looks at these only (`NoLookAheadCorrect`).
* `EloOK`, where the engine stands after `n` games: in the season of the last rated one,
  each team as after its own last game, regressed once for each season rated since. The
  winters that the reading counts are then those the engine went through
  (`RatingCorrect`), where `Overnight` makes known what the league played in earlier
  seasons.
* `LogOK`: a row of the log is what its game and the last row of the same team and season
  make it, and there is one for each game and team (`LogIsTable`).
* `RowsCount` and `RunsApart`: of the two runs at the end of some rows, of wins and of
  losses, one is empty, and the streak is the length of the other with its sign
  (`EnteringCorrect`).
* `PreviousIsEntering`, `WentOn`, `AddUp` and `CardShowsCell`: a streak that goes on is one
  that reaches one more, counted from the two ends of a row (`TablesCorrect`).
* `StepsApart`: the steps from a cursor on begin at the cursor or later and end before the
  next begins (`StepsCorrect`).

**Only model-checked.** `RunsEnd`, `SoundGamesStored` and `RunEnds` are liveness under
fairness. `SchemaOfVersion` says what a fold makes of the concrete steps of nine revisions:
there is nothing in it to generalise over. `ScheduleIsReplayed` fails.

## Findings

With a run that ends in a counterexample:

* `ForecastReplay`: the schedule features are cut by first pitch and keep the games that
  were final when the store was loaded (`builder.py:800`, `asof.py:732`). A replay of
  game 2 of a doubleheader therefore counts game 1 as played (rest, travel, games in
  seven days) at a moment when it was still on, which the forecast served at that
  moment did not. LEAKAGE_PREVENTION.md:220 says that a game 1 "that had not finished
  is correctly excluded".

Seen while modelling; the first six had a run each and show again as described:

* Once the clock has passed the cap on `as_of`, a second snapshot of a game repeats
  `(game, version, as_of)`; an index refuses it and the whole slate is rolled back,
  although `generate_predictions_for_date` calls itself idempotent (`LedgerSlate` reaches
  `outcome[j] = "raised"`).
* Of two predict jobs, the one that read the clock first may commit last; the older
  `as_of` is then served, against ARCHITECTURE.md:147 (`LedgerSlate` with two jobs and
  `LatestIsNewestAsOf`).
* A save that ends between its renames leaves no primary, and no number of attempts
  finds one; the comment at `db-save/action.yml:61` says the retries cover it
  (`DownloadFails` ends in `notfound` although `issued` is not empty).
* A Statcast run cancelled while the dump is loading saves the half-loaded database,
  although `statcast.yml:8` says it is safe to cancel (`StoreAll`: `Current` shrinks).
* The rollback for one refused box score discards the games of its batch before it,
  every day again; they are never stored (`SoundGamesStored` without its premise).
* A trainer that overlaps another replaces a model its decision never looked at
  (`ConfigurationEarned` with `rows'[k].incumbent = i` moved to the conclusion).
* A game longer than the lag of 3 h 30 is visible before it is over, because nothing
  writes `game_end_utc` (`mappers.py:253`); LEAKAGE_PREVENTION.md:207 says the fallback
  "can only make a fact less available, never more" (`Slack("result")` is not zero).
* The repair of `7b3e9f1c2d40` orders the snapshots of a game by `created_at`, which is when
  a transaction began; where predict jobs overlapped, it may retire the only latest row, and
  the game has none until the next prediction (`OneLatest` without `InOrder`).
* `$?` after a pipe into `tee` is the status of `tee` (`statcast.yml:123`, `:150`): a failed
  backfill is reported as agreement (`Summary`).
* The docstring of `AsOfStore.load` (`asof.py:255`) says that with the lookback every
  feature that reads prior seasons "sees what production sees"; a rating, the history
  of a streak, a starter's career and the fit of the dispersion do not: `LookbackEnough`
  excludes exactly these.
* Who is named to start has no knowledge time: every schedule ingest writes over the name
  on the row of the game (`schedule.py:59`), and a replay reads the row as it is then
  (`context.py:47`). A forecast served before the change is scored with another starter's
  features and adjustment (`LiveIsReplayed`, `ServedAsScored` without their provisos).
* A Statcast backfill stamps its rows with the end of their game (`statcast.py:131`), so a
  replay reads what a forecast served before the backfill could not (`Backfilled`).
* Moves of one day have one knowledge time, and the one with the highest id decides who is
  out (`availability.py:130`): a day that the feed lists in reverse order leaves a player
  who returned on the injured list (`ReturnedIsBack` without its premise on ids).
* The key of `injuries` is player, `effective_from` and status: a second transaction of the
  same kind with the same effective date and a later date of its own writes over the first,
  and moves its knowledge time.
* After a release with another feature set, two snapshots of a game may share one `as_of`,
  each with a feature row of its own; the game page looks the row up by game, side and
  `as_of` (`services/game_view.py:719`) and may show either.
* `compare_run_models` with `reference=SERVED` (offered by `cli.py:376`) drops the games
  without means of the reference only; the base then has gaps, its interval is not a
  number and reads as no effect. `VariantsCovered` holds for the base as the reference.
* A game that the base means carry, the projections carry too, since
  the season in progress weighs one: the fallback of `serve_probability` on the season
  to date is only reached where a projected rate is not positive.
* The replay of a slate is fitted at the earliest of the games *scored*; one that
  was postponed, unusable or an exhibition counted when the slate was served, so
  `ServedAsScored` asks that the whole card counted.
* League priors use the UTC day of `as_of`. Under the policy of three hours before first
  pitch the games of one date fall on one day (`SlatePriors`); a live `as_of` past
  midnight UTC reads the afternoon's results.
* `_consecutive_days` of the bullpen counts UTC dates, so last night's outing on the West
  Coast falls on today and is not counted.
* Statcast features of a starter are missing at his first start of a season, although
  the docstring of `starter_values` has April lean on last year.
* `_resolve_extra_innings` (`modeling/runs.py:336`) leaves a tie after its last round
  counted for the away team.
* Statcast: after a commit in the middle of a run a RUNNING row stays beside the FAILED
  one; discrepancies found before a later failure are lost with the run; an unknown
  description stops its date and the later ones every time; dates that stay empty use
  up `--limit-dates`; `prune` may drop a payload that was just fetched again unchanged.
* The head has plain indexes on knowledge time as BRIN where the models declare B-tree,
  and the model of `data_source_status` lacks a unique key the database has.
* `ingestion/status.py:221` flushes in the `else` branch of `job_run`, outside the
  `except`: an error there is raised without the FAILED row the function is for.
  `CommitFails` models it.
* A rollback in the first batch of a results run removes its `job_runs` row too;
  the run succeeds and leaves no record (`PersistRaises`, `staged.opened`).
* When a player look-up fails, the box score is stored without that player's lines,
  and since it is no longer pending they are never added (`Known`, `missed`).
* `map_boxscore` is called outside the `try` of `fetch_boxscore`
  (`mlb_statsapi/provider.py:193`), so that an answer it cannot read ends the run
  (`FetchRaises`).
* The seeder restores with `required: false`: a failed download looks like a new
  repository, and it goes on from an empty database (`DownloadFails`). A seed run
  cancelled while it ingests saves nothing of that part.
* With trainers that overlap, a refreshed model may be trained on fewer games than
  the one it replaces.

## What is not modelled

* Floating-point arithmetic: the values of features, logistic and boosted models,
  calibration, the simulation itself, metrics. TLC works on integers. Modelled is what
  control depends on: which rows a value is computed from, when it is missing, and
  the outcome of a comparison as a free choice in `ModelRegistry`.
* Park factors and the aggregation of pitches (`park.py`, `aggregates.py`, `batter_agg.py`,
  `statcast_agg.py`): sums over the rows that `Features` names.
* The variants of `feature_set_compare.py` and `ablation.py`: repeated walk-forwards with
  other columns.
* The backfill of archived weather, whose stamps are the provider's, and the backfill
  of whole seasons.
* The watchdog (`uptime.yml`) and a pending run that another replaces for ever: they
  depend on the queue of GitHub Actions, which the repository says nothing of.
* Views that assemble and word a page (`services/` other than `prediction.py` and
  `streaks.py`), the API and its cache, the frontend.
* HTTP payload mapping, formatting, pages and components.
* The command line and container start-up: each command opens one session and
  calls one job.
* Retention (`maintenance.py`): a single delete by age.
