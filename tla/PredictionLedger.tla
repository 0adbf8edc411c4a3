-------------------------- MODULE PredictionLedger --------------------------
(***************************************************************************)
(* The `predictions` and `model_features` tables under the jobs that write *)
(* them: backend/app/services/prediction.py run through job_run            *)
(* (ingestion/status.py) and session_scope (db/session.py), against the    *)
(* unique indexes of db/models/modeling.py.                                *)
(*                                                                         *)
(* One process per predict job (the scheduler container's `daily` loop, a  *)
(* `predict` run by hand or by a workflow).  A job is one PostgreSQL       *)
(* transaction at READ COMMITTED over one slate: it reads the active       *)
(* model, the schedule and the facts once, then issues a snapshot for each *)
(* game, and commits everything or nothing.  Other jobs see nothing of it  *)
(* before the commit, but they wait on the rows and index entries it holds.*)
(* The trainer and the ingestion jobs appear through what they change:     *)
(* the active version, the schedule and the facts.                         *)
(***************************************************************************)
EXTENDS Integers, FiniteSets

CONSTANTS
    Games,        \* the games of the slate
    NoGame,       \* "no game in hand"
    Jobs,         \* the predict jobs that may run at the same time
    FeatureSets,  \* FEATURE_SET_VERSION, as releases and environments set it
    Slots,        \* first-pitch times the schedule may carry
    LastTick,     \* bound: idle time passes up to here
    MaxRuns,      \* bound: slate runs begun
    MaxVersions,  \* bound: model versions registered
    MaxRev        \* bound: changes to the facts behind one game

ASSUME LedgerAssumption ==
    /\ NoGame \notin Games
    /\ Slots \subseteq Nat \ {0}
    /\ {LastTick, MaxRuns, MaxVersions, MaxRev} \subseteq Nat

VARIABLES
    now,       \* the clock utcnow() reads
    pitch,     \* games.game_date_utc
    rev,       \* revision of the facts a game's features are computed from
    versions,  \* how many model versions are registered: ids 1..versions
    active,    \* the active version, 0 before the first
    pred,      \* the committed predictions, by id
    features,  \* the committed model_features rows, as <<game, set, as_of>>
    nextId,    \* the predictions id sequence (never rolled back)
    begun,     \* how many slate runs have begun
    job,       \* what each job holds in memory
    wrote,     \* each job's uncommitted prediction inserts
    outcome,   \* how each job's last run ended
    joblog     \* the job_runs row of each job's last run

tables == <<pred, features>>
world == <<now, pitch, rev, versions, active>>
vars == <<now, pitch, rev, versions, active, pred, features, nextId, begun,
          job, wrote, outcome, joblog>>

Row == [game : Games, version : Nat, set : FeatureSets, asOf : Nat, rev : Nat,
        latest : BOOLEAN, supersededBy : Nat]

\* An uncommitted insert and the id of the row it retires (0 for none).
Insert == [id : Nat, game : Games, version : Nat, set : FeatureSets, asOf : Nat,
           rev : Nat, replaces : Nat]

JobState == [pc : {"idle", "slate", "built", "compared"},
             force : BOOLEAN, version : Nat, set : FeatureSets \cup {"none"},
             sched : [Games -> Nat], seen : [Games -> Nat],
             todo : SUBSET Games, game : Games \cup {NoGame},
             asOf : Nat, existing : Nat,
             pending : SUBSET (Games \X FeatureSets \X Nat)]

Idle == [pc |-> "idle", force |-> FALSE, version |-> 0, set |-> "none",
         sched |-> [g \in Games |-> 0], seen |-> [g \in Games |-> 0],
         todo |-> {}, game |-> NoGame, asOf |-> 0, existing |-> 0,
         pending |-> {}]

Init ==
    /\ now = 0
    /\ pitch \in [Games -> Slots]
    /\ rev = [g \in Games |-> 0]
    /\ versions = 0
    /\ active = 0
    /\ pred = [i \in {} |-> 0]
    /\ features = {}
    /\ nextId = 1
    /\ begun = 0
    /\ job = [j \in Jobs |-> Idle]
    /\ wrote = [j \in Jobs |-> {}]
    /\ outcome = [j \in Jobs |-> "none"]
    /\ joblog = [j \in Jobs |-> "none"]

-----------------------------------------------------------------------------
(* The world the jobs read.                                                *)

Tick ==
    /\ now < LastTick
    /\ now' = now + 1
    /\ UNCHANGED <<pitch, rev, versions, active, tables, nextId, begun,
                   job, wrote, outcome, joblog>>

\* An ingest changes what the game's features are computed from: an earlier
\* result arrives late or is corrected, a probable starter is replaced.
ReviseInputs(g) ==
    /\ rev[g] < MaxRev
    /\ rev' = [rev EXCEPT ![g] = @ + 1]
    /\ UNCHANGED <<now, pitch, versions, active, tables, nextId, begun,
                   job, wrote, outcome, joblog>>

\* ingest_schedule overwrites the start time.  A game is moved to a time still
\* to come; a move to an EARLIER time is announced further ahead than a slate
\* run lasts, so no run is in flight with the old time when the new one comes.
Reschedule(g, t) ==
    /\ t # pitch[g]
    /\ t > now
    /\ t < pitch[g] => \A j \in Jobs : job[j].pc = "idle"
    /\ pitch' = [pitch EXCEPT ![g] = t]
    /\ UNCHANGED <<now, rev, versions, active, tables, nextId, begun,
                   job, wrote, outcome, joblog>>

\* train_model registers the next version and activates it or not, as the
\* promotion gate decides; with no incumbent it always activates.
Train(activate) ==
    /\ versions < MaxVersions
    /\ activate \/ active # 0
    /\ versions' = versions + 1
    /\ active' = IF activate THEN versions + 1 ELSE active
    /\ UNCHANGED <<now, pitch, rev, tables, nextId, begun,
                   job, wrote, outcome, joblog>>

-----------------------------------------------------------------------------
(* The slate run.                                                          *)

Min2(a, b) == IF a < b THEN a ELSE b

\* Mutant: the fixed offset a backtest uses, in place of the clock.
PolicyAsOf(firstPitch, t) == firstPitch - 1

\* The clock, kept one unit short of first pitch.
LiveAsOf(firstPitch, t) == Min2(t, firstPitch - 1)

\* The game's latest committed snapshot, whichever version issued it.
Latest(g) == {i \in DOMAIN pred : pred[i].game = g /\ pred[i].latest}

CurrentLatest(g) ==
    IF Latest(g) = {} THEN 0
    ELSE CHOOSE i \in Latest(g) : \A k \in Latest(g) : k <= i

\* The run begins: load_active_model, the schedule query, AsOfStore.load.
\* With no active version the call raises before any of this.  The features
\* are those of the process's own setting, whatever set the model was fitted on.
Begin(j, force, set) ==
    /\ job[j].pc = "idle"
    /\ begun < MaxRuns
    /\ active # 0
    /\ begun' = begun + 1
    /\ job' = [job EXCEPT ![j] = [Idle EXCEPT
                  !.pc = "slate", !.force = force, !.version = active, !.set = set,
                  !.sched = pitch, !.seen = rev, !.todo = Games]]
    /\ outcome' = [outcome EXCEPT ![j] = "none"]
    /\ joblog' = [joblog EXCEPT ![j] = "none"]
    /\ UNCHANGED <<world, tables, nextId, wrote>>

\* The feature build raised, or the vector was not usable: the game is passed
\* over.  The query has no ORDER BY, so the games come in any order.
Skip(j, g) ==
    /\ job[j].pc = "slate"
    /\ g \in job[j].todo
    /\ job' = [job EXCEPT ![j].todo = @ \ {g}]
    /\ UNCHANGED <<world, tables, nextId, begun, wrote, outcome, joblog>>

\* _live_as_of and builder.build: one reading of the clock per game, and no
\* two readings of it are equal.
Build(j, g) ==
    /\ job[j].pc = "slate"
    /\ g \in job[j].todo
    /\ now' = now + 1
    /\ job' = [job EXCEPT ![j].pc = "built", ![j].todo = @ \ {g},
                          ![j].game = g,
                          ![j].asOf = LiveAsOf(job[j].sched[g], now + 1)]
    /\ UNCHANGED <<pitch, rev, versions, active, tables, nextId, begun,
                   wrote, outcome, joblog>>

\* Same version, same features and probability, not forced.  The signature
\* names every feature of the set.
Unchanged(j, e) ==
    /\ e # 0
    /\ pred[e].version = job[j].version
    /\ pred[e].set = job[j].set
    /\ ~job[j].force
    /\ pred[e].rev = job[j].seen[job[j].game]

\* generate_prediction finds nothing new and returns None.
Keep(j) ==
    /\ job[j].pc = "built"
    /\ Unchanged(j, CurrentLatest(job[j].game))
    /\ job' = [job EXCEPT ![j].pc = "slate", ![j].game = NoGame, ![j].asOf = 0]
    /\ UNCHANGED <<world, tables, nextId, begun, wrote, outcome, joblog>>

\* generate_prediction reads the snapshot it is about to replace.
ReadExisting(j) ==
    /\ job[j].pc = "built"
    /\ ~Unchanged(j, CurrentLatest(job[j].game))
    /\ job' = [job EXCEPT ![j].pc = "compared",
                          ![j].existing = CurrentLatest(job[j].game)]
    /\ UNCHANGED <<world, tables, nextId, begun, wrote, outcome, joblog>>

\* Who holds a lock j needs: an uncommitted snapshot of the same game is both
\* a lock on the row it retires and an entry in the one-latest-per-game index.
Holders(j, g) == {k \in Jobs \ {j} : \E w \in wrote[k] : w.game = g}

Waiting(j) == job[j].pc = "compared" /\ Holders(j, job[j].game) # {}

\* Mutant: the index is not unique.
LatestNeverTaken(j) == FALSE

\* uq_prediction_latest: another row of the game is latest.
LatestTaken(j) ==
    \E i \in DOMAIN pred : /\ pred[i].game = job[j].game
                           /\ pred[i].latest
                           /\ i # job[j].existing

\* uq_prediction_asof: this version already spoke for this game at this as_of.
AsOfTaken(j) ==
    \E i \in DOMAIN pred : /\ pred[i].game = job[j].game
                           /\ pred[i].version = job[j].version
                           /\ pred[i].asOf = job[j].asOf

\* Mutant: the feature row is merged into the one already there.
FeatureMerged(j) == FALSE

\* uq_model_feature, when the feature row of the PREVIOUS game is flushed:
\* session.merge without a primary key is an INSERT, sent with the next flush.
FeatureTaken(j) == job[j].pending \cap features # {}

Refused(j) == LatestTaken(j) \/ AsOfTaken(j) \/ FeatureTaken(j)

\* The rest of generate_prediction: retire the existing row, insert the new
\* one and link the two.  Its feature row is left for the next flush.
Write(j) ==
    LET g == job[j].game
        w == [id |-> nextId, game |-> g, version |-> job[j].version,
              set |-> job[j].set, asOf |-> job[j].asOf, rev |-> job[j].seen[g],
              replaces |-> job[j].existing]
    IN  /\ job[j].pc = "compared"
        /\ ~Waiting(j)
        /\ ~Refused(j)
        /\ wrote' = [wrote EXCEPT ![j] = @ \cup {w}]
        /\ nextId' = nextId + 1
        /\ job' = [job EXCEPT ![j].pc = "slate", ![j].game = NoGame,
                              ![j].asOf = 0, ![j].existing = 0,
                              ![j].pending = {<<g, job[j].set, job[j].asOf>>}]
        /\ UNCHANGED <<world, tables, begun, outcome, joblog>>

\* Mutant: the failed job's inserts stay behind.
RollbackKeepsWrites(j) ==
    /\ job' = [job EXCEPT ![j] = Idle]
    /\ UNCHANGED <<world, tables, begun, wrote>>

\* The transaction is gone and the session closed.
Rollback(j) ==
    /\ job' = [job EXCEPT ![j] = Idle]
    /\ wrote' = [wrote EXCEPT ![j] = {}]
    /\ UNCHANGED <<world, tables, begun>>

\* Mutant: a refused insert is tried again from the comparison on.
RetryRefused(j) ==
    /\ job[j].pc = "compared"
    /\ ~Waiting(j)
    /\ Refused(j)
    /\ job' = [job EXCEPT ![j].pc = "built", ![j].existing = 0]
    /\ UNCHANGED <<world, tables, begun, wrote, nextId, outcome, joblog>>

\* An index refuses the insert inside the body of job_run: everything the run
\* wrote, for every game, is rolled back, a FAILED row is committed, and the
\* error is raised.  An id the insert drew is not given back.
WriteFails(j) ==
    /\ job[j].pc = "compared"
    /\ ~Waiting(j)
    /\ Refused(j)
    /\ Rollback(j)
    /\ nextId' = IF FeatureTaken(j) THEN nextId ELSE nextId + 1
    /\ outcome' = [outcome EXCEPT ![j] = "raised"]
    /\ joblog' = [joblog EXCEPT ![j] = "FAILED"]

\* Jobs each waiting on another of them: the database aborts one.
Deadlocked(j) ==
    \E S \in SUBSET Jobs :
        /\ j \in S
        /\ \A k \in S : /\ job[k].pc = "compared"
                        /\ Holders(k, job[k].game) \cap S # {}

DeadlockAbort(j) ==
    /\ Deadlocked(j)
    /\ Rollback(j)
    /\ outcome' = [outcome EXCEPT ![j] = "raised"]
    /\ joblog' = [joblog EXCEPT ![j] = "FAILED"]
    /\ UNCHANGED nextId

\* Mutant: the old row is linked to its successor and stays latest.
LinkOnly(row, id) == [row EXCEPT !.supersededBy = id]

\* Mutant: the old row is moved to its successor's revision of the facts.
RewriteRow(row, id) ==
    [row EXCEPT !.latest = FALSE, !.supersededBy = id, !.rev = @ + 1]

\* What a commit makes of a row that the transaction retired.
Supersede(row, id) == [row EXCEPT !.latest = FALSE, !.supersededBy = id]

Committed(W) ==
    [i \in DOMAIN pred \cup {w.id : w \in W} |->
        IF i \in DOMAIN pred
        THEN IF \E w \in W : w.replaces = i
             THEN Supersede(pred[i], (CHOOSE w \in W : w.replaces = i).id)
             ELSE pred[i]
        ELSE LET w == CHOOSE w \in W : w.id = i
             IN  [game |-> w.game, version |-> w.version, set |-> w.set,
                  asOf |-> w.asOf, rev |-> w.rev, latest |-> TRUE, supersededBy |-> 0]]

\* The slate is done: job_run flushes what is left and session_scope commits.
Commit(j) ==
    /\ job[j].pc = "slate"
    /\ job[j].todo = {}
    /\ ~FeatureTaken(j)
    /\ pred' = Committed(wrote[j])
    /\ features' = features \cup {<<w.game, w.set, w.asOf>> : w \in wrote[j]}
    /\ job' = [job EXCEPT ![j] = Idle]
    /\ wrote' = [wrote EXCEPT ![j] = {}]
    /\ outcome' = [outcome EXCEPT ![j] = "ok"]
    /\ joblog' = [joblog EXCEPT ![j] = "SUCCESS"]
    /\ UNCHANGED <<world, nextId, begun>>

\* The same flush is refused.  It stands in the ELSE branch of job_run, which
\* the except clause does not cover: the error is raised, nothing is recorded.
CommitFails(j) ==
    /\ job[j].pc = "slate"
    /\ job[j].todo = {}
    /\ FeatureTaken(j)
    /\ Rollback(j)
    /\ outcome' = [outcome EXCEPT ![j] = "raised"]
    /\ UNCHANGED <<nextId, joblog>>

\* The process dies: a cancelled workflow, a restarted container.
Kill(j) ==
    /\ job[j].pc # "idle"
    /\ Rollback(j)
    /\ outcome' = [outcome EXCEPT ![j] = "killed"]
    /\ UNCHANGED <<nextId, joblog>>

-----------------------------------------------------------------------------

Step(j) ==
    \/ \E g \in Games : Skip(j, g) \/ Build(j, g)
    \/ Keep(j)
    \/ ReadExisting(j)
    \/ Write(j)
    \/ WriteFails(j)
    \/ DeadlockAbort(j)
    \/ Commit(j)
    \/ CommitFails(j)

Next ==
    \/ Tick
    \/ \E g \in Games : ReviseInputs(g)
    \/ \E g \in Games, t \in Slots : Reschedule(g, t)
    \/ \E activate \in BOOLEAN : Train(activate)
    \/ \E j \in Jobs, force \in BOOLEAN, set \in FeatureSets : Begin(j, force, set)
    \/ \E j \in Jobs : Step(j) \/ Kill(j)

Spec == Init /\ [][Next]_vars

\* A running job keeps running, and PostgreSQL's deadlock detector is a timer
\* that always fires.  Nothing makes a job start, an ingest happen or a
\* process die.
FairSpec == Spec /\ \A j \in Jobs : WF_vars(Step(j))

-----------------------------------------------------------------------------
(* Properties.                                                             *)

\* Every variable has its type, and a job that is not running holds no
\* uncommitted rows (db/session.py closes the session on every path).
TypeOK ==
    /\ now \in Nat
    /\ pitch \in [Games -> Nat \ {0}]
    /\ rev \in [Games -> Nat]
    /\ versions \in Nat
    /\ active \in Nat
    /\ DOMAIN pred \subseteq Nat \ {0}
    /\ pred \in [DOMAIN pred -> Row]
    /\ features \subseteq Games \X FeatureSets \X Nat
    /\ nextId \in Nat \ {0}
    /\ begun \in Nat
    /\ job \in [Jobs -> JobState]
    /\ wrote \in [Jobs -> SUBSET Insert]
    /\ outcome \in [Jobs -> {"none", "ok", "raised", "killed"}]
    /\ joblog \in [Jobs -> {"none", "SUCCESS", "FAILED"}]
    /\ \A j \in Jobs : job[j].pc = "idle" => wrote[j] = {}

\* A game has at most one latest snapshot ...
OneLatestPerGame ==
    \A i, k \in DOMAIN pred :
        pred[i].game = pred[k].game /\ pred[i].latest /\ pred[k].latest => i = k

\* ... and one that was ever issued a snapshot is never without a latest.
EveryGameServed ==
    \A i \in DOMAIN pred :
        \E k \in DOMAIN pred : pred[k].game = pred[i].game /\ pred[k].latest

\* A snapshot is either latest or superseded by a later one of its own game.
SupersededByLater ==
    \A i \in DOMAIN pred :
        IF pred[i].latest
        THEN pred[i].supersededBy = 0
        ELSE /\ pred[i].supersededBy \in DOMAIN pred
             /\ pred[i].supersededBy > i
             /\ pred[pred[i].supersededBy].game = pred[i].game

\* No snapshot supersedes two others.
OneSuccessorEach ==
    \A i, k \in DOMAIN pred :
        pred[i].supersededBy = pred[k].supersededBy /\ pred[i].supersededBy # 0
            => i = k

\* The snapshots of a game form one chain that ends in the only latest one,
\* whatever the interleaving of jobs, refusals, deadlocks and kills
\* (prediction.py current_latest and its unique index).
ChainIntegrity ==
    /\ OneLatestPerGame
    /\ EveryGameServed
    /\ SupersededByLater
    /\ OneSuccessorEach

\* The row flagged latest is the one with the most recent as_of
\* (ARCHITECTURE.md section 5), so the history page, which orders by as_of,
\* and the card, which reads the flag, tell of the same snapshot.
LatestIsNewestAsOf ==
    \A i, k \in DOMAIN pred :
        pred[i].game = pred[k].game /\ pred[i].latest
            => pred[k].asOf <= pred[i].asOf

\* Every snapshot can be audited against a feature row of its own: the row at
\* its game, feature set and as_of exists and no other snapshot shares it,
\* whatever releases and retrainings lie between the runs.
AuditRowPerSnapshot ==
    /\ \A i \in DOMAIN pred : <<pred[i].game, pred[i].set, pred[i].asOf>> \in features
    /\ \A i, k \in DOMAIN pred :
        (/\ pred[i].game = pred[k].game
         /\ pred[i].set = pred[k].set
         /\ pred[i].asOf = pred[k].asOf) => i = k

\* A committed row never goes away, and nothing of it ever changes but the
\* one step from latest to superseded (DATABASE_SCHEMA.md `predictions`).
SnapshotsImmutable ==
    [][\A i \in DOMAIN pred :
        /\ i \in DOMAIN pred'
        /\ \/ pred'[i] = pred[i]
           \/ /\ pred[i].latest
              /\ pred'[i] = [pred[i] EXCEPT !.latest = FALSE,
                                !.supersededBy = pred'[i].supersededBy]]_pred

\* What a reader sees of a row: the snapshot, without the bookkeeping.
Snapshot(i) == [version |-> pred[i].version, set |-> pred[i].set,
                asOf |-> pred[i].asOf, rev |-> pred[i].rev]

\* The rows of a game, how many of them are no later than a row, and the n-th.
Issued(g) == {i \in DOMAIN pred : pred[i].game = g}
Position(g, i) == Cardinality({k \in Issued(g) : k <= i})
Nth(g, n) == {i \in Issued(g) : Position(g, i) = n}

\* The rows of a game in the order they were issued.
Chain(g) == [n \in 1..Cardinality(Issued(g)) |-> CHOOSE i \in Nth(g, n) : TRUE]

History == INSTANCE SnapshotHistory WITH
    history <- [g \in Games |-> [n \in DOMAIN Chain(g) |-> Snapshot(Chain(g)[n])]],
    served <- [g \in Games |-> {Snapshot(i) : i \in Latest(g)}]

\* The ledger implements the append-only history: the rows flagged latest are
\* always the last of each game's history, and rows appear at its end only.
ImplementsHistory == History!Spec

\* Every slate run comes to an end, whoever it has to wait for.
RunsEnd == \A j \in Jobs : job[j].pc # "idle" ~> job[j].pc = "idle"

=============================================================================
