--------------------------- MODULE StatcastIngest ---------------------------
(***************************************************************************)
(* The Statcast backfill (ingestion/statcast.py): date by date, one request *)
(* and one commit for each, then a comparison of every game stored with    *)
(* the box score of another source.                                        *)
(*                                                                         *)
(* The rows of a game come out at the source over time, its box score is   *)
(* stored by another job, and the backfill may be stopped or fail at any   *)
(* step.  A game with any row at all is never asked for on its own again.  *)
(***************************************************************************)
EXTENDS Integers, Sequences, FiniteSets, FiniteSetsExt

CONSTANTS
    Games, Rows, Players,
    InTable,      \* the regular-season games in the schedule
    DateOf,       \* the official date of each game
    GameOf, By,   \* the game of each row, and the player it names
    Thrown,       \* the pitches a row stands for; an awarded ball is none
    Strikeouts, HomeRuns, InPlay,   \* the rows with such an end
    Box,          \* what the box score of each game says of the checks it measures
    Odd,          \* the rows with a description the mappers do not know
    Resolvable,   \* the players the reference source knows
    Stored,       \* the players stored to begin with
    Over,         \* the games that are over to begin with
    Out,          \* the rows that the source gives out to begin with
    PitchTolerance,   \* PITCH_COUNT_TOLERANCE, per thousand
    EventTolerance,   \* EVENT_TOLERANCE
    Limit,        \* --limit-dates, 0 for none
    MaxJobs, MaxFaults   \* bounds: rows of job_runs, calls that fail

Checks == {"pitch_count", "strikeouts", "home_runs", "balls_in_play"}

ASSUME StatcastAssumption ==
    /\ {PitchTolerance, EventTolerance, Limit, MaxJobs, MaxFaults} \subseteq Nat
    /\ Over \subseteq InTable /\ InTable \subseteq Games
    /\ DateOf \in [Games -> Nat]
    /\ GameOf \in [Rows -> Games] /\ By \in [Rows -> Players]
    /\ Thrown \in [Rows -> Nat]
    /\ Strikeouts \cup HomeRuns \cup InPlay \cup Odd \subseteq Rows
    /\ \A g \in Games : /\ DOMAIN Box[g] \subseteq Checks
                        /\ \A c \in DOMAIN Box[g] : Box[g][c] \in Nat
    /\ Out \subseteq {r \in Rows : GameOf[r] \notin InTable \ Over}
    /\ Resolvable \cup Stored \subseteq Players

VARIABLES
    final,      \* the games that are over
    boxed,      \* the games whose box score is stored
    published,  \* the rows the source gives out
    taught,     \* whether the mappers have learnt the odd descriptions
    db,         \* what is committed
    session,    \* what the process sees: committed, and its own writes
    run,        \* the process
    said,       \* what the workflow's summary says of the last run
    faults

world == <<final, boxed, published, taught>>
svars == <<world, db, session, run, said, faults>>

OfGame(rows, g) == {r \in rows : GameOf[r] = g}

Job(status, touched, says) == [status |-> status, touched |-> touched, says |-> says]

\* boxed0, ready0: history, what could be compared and stored at the start.
Idle == [pc |-> "idle", days |-> {}, row |-> 0, touched |-> {}, fresh |-> {},
         says |-> {}, empty |-> {}, boxed0 |-> {}, ready0 |-> {}]

Init ==
    /\ final = Over /\ boxed = {} /\ taught = FALSE
    /\ published = Out
    /\ db = [pitches |-> {}, balls |-> {}, players |-> Stored,
             report |-> [status |-> "UNAVAILABLE", failures |-> 0], jobs |-> <<>>]
    /\ session = db
    /\ run = Idle
    /\ said = "nothing"
    /\ faults = 0

-----------------------------------------------------------------------------
(* The world and the other jobs.                                           *)

EndGame(g) ==
    /\ g \notin final
    /\ final' = final \cup {g}
    /\ UNCHANGED <<boxed, published, taught>>

StoreBox(g) ==
    /\ g \in final \ boxed
    /\ boxed' = boxed \cup {g}
    /\ UNCHANGED <<final, published, taught>>

Publish(r) ==
    /\ r \notin published
    /\ GameOf[r] \in final
    /\ published' = published \cup {r}
    /\ UNCHANGED <<final, boxed, taught>>

Teach ==
    /\ ~ taught
    /\ taught' = TRUE
    /\ UNCHANGED <<final, boxed, published>>

World ==
    /\ \/ \E g \in InTable : EndGame(g) \/ StoreBox(g)
       \/ \E r \in Rows : Publish(r)
       \/ Teach
    /\ UNCHANGED <<db, session, run, said, faults>>

-----------------------------------------------------------------------------
(* Parts of the job.                                                       *)

GamesOn(day) == {g \in InTable : DateOf[g] = day}

\* Mutant: one game with rows is enough for its date.
UntouchedDates ==
    {d \in {DateOf[g] : g \in InTable \cap final} :
        \A g \in GamesOn(d) \cap final : OfGame(session.pitches, g) = {}}

\* pending_statcast_dates: some final game of the date has no row.
PendingDates ==
    {d \in {DateOf[g] : g \in InTable \cap final} :
        \E g \in GamesOn(d) \cap final : OfGame(session.pitches, g) = {}}

\* ORDER BY official_date LIMIT.
Taken(dates) ==
    {d \in dates : Limit = 0 \/ Cardinality({e \in dates : e < d}) < Limit}

\* The export of one day, and its rows of games that are in the schedule: the
\* others are rejected, not invented.
Export(day) == {r \in published : DateOf[GameOf[r]] = day}

\* Mutant: all that the export holds.
AllMapped(day) == Export(day)

Mapped(day) == {r \in Export(day) : GameOf[r] \in InTable}

\* _resolve_players: the players missing are asked for, if the source answers.
PlayersFor(rows, answered) ==
    session.players
        \cup (IF answered THEN {By[r] : r \in rows} \cap Resolvable ELSE {})

\* record_source_status.
Report(outcome) ==
    LET n == Min({session.report.failures + 1, 3})
    IN IF outcome # "UNAVAILABLE"
       THEN [status |-> IF outcome = "PARTIAL" THEN "DEGRADED" ELSE "OK", failures |-> 0]
       ELSE [status |-> IF n = 3 THEN "UNAVAILABLE" ELSE "DEGRADED", failures |-> n]

Gap(a, b) == IF a < b THEN b - a ELSE a - b

\* What the stored rows s of a game count up to.
Statcast(s, g) ==
    LET pitches == OfGame(s.pitches, g)
    IN [pitch_count   |-> SumFunctionOnSet(Thrown, pitches),
        strikeouts    |-> Cardinality(pitches \cap Strikeouts),
        home_runs     |-> Cardinality(pitches \cap HomeRuns),
        balls_in_play |-> Cardinality(OfGame(s.balls, g))]

\* A relative tolerance for the pitches, where there is something to relate to,
\* and one of single events for the rest.
Off(check, statcast, expected) ==
    IF check = "pitch_count"
    THEN expected # 0 /\ 1000 * Gap(statcast, expected) >= PitchTolerance * expected
    ELSE Gap(statcast, expected) > EventTolerance

\* reconcile_game: a check that the box score does not measure finds nothing.
Discrepancies(s, g) == {c \in DOMAIN Box[g] : Off(c, Statcast(s, g)[c], Box[g][c])}

\* Mutant: a box score without a pitch count is not compared at all.
DisagreesOnPitches(g) ==
    /\ g \in boxed
    /\ "pitch_count" \in DOMAIN Box[g] /\ Box[g].pitch_count # 0
    /\ Discrepancies(session, g) # {}

\* Without a box score there is nothing to compare with.
Disagrees(g) == g \in boxed /\ Discrepancies(session, g) # {}

Day == Min(run.days)

-----------------------------------------------------------------------------
(* The job.                                                                *)

\* Nothing pending: no job, and the summary says that all agree.
Begin ==
    /\ run.pc = "idle"
    /\ Len(db.jobs) < MaxJobs
    /\ PendingDates # {}
    /\ run' = [Idle EXCEPT
                !.pc = "fetch", !.days = Taken(PendingDates),
                !.row = Len(db.jobs) + 1, !.boxed0 = boxed,
                !.ready0 = {g \in InTable \cap final :
                              \E r \in OfGame(published, g) : By[r] \in db.players}]
    /\ session' = [session EXCEPT !.jobs = Append(@, Job("RUNNING", {}, {}))]
    /\ said' = "nothing"
    /\ UNCHANGED <<world, db, faults>>

Reports(outcome) == session' = [session EXCEPT !.report = Report(outcome)]

EmptyDate ==
    /\ db' = session'
    /\ run' = [run EXCEPT !.empty = @ \cup {Day}, !.days = @ \ {Day}]

\* The source fails for good (unavailable), or has no row (partial).
FetchNothing ==
    /\ run.pc = "fetch" /\ run.days # {}
    /\ \/ /\ faults < MaxFaults
          /\ faults' = faults + 1
          /\ Reports("UNAVAILABLE")
       \/ /\ Export(Day) = {}
          /\ Reports("PARTIAL")
          /\ UNCHANGED faults
    /\ EmptyDate
    /\ UNCHANGED <<world, said>>

FetchRows ==
    /\ run.pc = "fetch" /\ run.days # {}
    /\ Export(Day) # {}
    /\ taught \/ Mapped(Day) \cap Odd = {}
    /\ \E answered \in BOOLEAN :
        LET players == PlayersFor(Mapped(Day), answered)
            kept    == {r \in Mapped(Day) : By[r] \in players}
        IN /\ IF answered THEN UNCHANGED faults
              ELSE /\ \E r \in Mapped(Day) : By[r] \notin session.players
                   /\ faults < MaxFaults
                   /\ faults' = faults + 1
           /\ session' = [session EXCEPT
                !.report = Report("OK"), !.players = players,
                !.pitches = @ \cup kept, !.balls = @ \cup (kept \cap InPlay)]
           /\ run' = [run EXCEPT !.pc = "store", !.fresh = {GameOf[r] : r \in kept}]
    /\ UNCHANGED <<world, db, said>>

CommitDay ==
    /\ run.pc = "store"
    /\ db' = session
    /\ run' = [run EXCEPT !.pc = "reconcile", !.touched = @ \cup run.fresh]
    /\ UNCHANGED <<world, session, said, faults>>

\* Mutant: the date stays on the list.
ReconcileAgain ==
    /\ run.pc = "reconcile"
    /\ run' = [run EXCEPT !.pc = "fetch", !.fresh = {}]
    /\ UNCHANGED <<world, db, session, said, faults>>

Reconcile ==
    /\ run.pc = "reconcile"
    /\ run' = [run EXCEPT !.pc = "fetch", !.days = @ \ {Day}, !.fresh = {},
                          !.says = @ \cup {g \in run.fresh : Disagrees(g)}]
    /\ UNCHANGED <<world, db, session, said, faults>>

\* The summary looks at the status of tee, not of the command.
Summary == "agreed"

\* Leaving job_run, and then session_scope.
Finish ==
    /\ run.pc = "fetch" /\ run.days = {}
    /\ session' = [session EXCEPT !.jobs[run.row] = Job("SUCCESS", run.touched, run.says)]
    /\ db' = session'
    /\ run' = Idle
    /\ said' = Summary
    /\ UNCHANGED <<world, faults>>

\* job_run rolls back what is not committed and records the failure; the row
\* of an earlier commit stays as it is.
AfterRollback == [db EXCEPT !.jobs = Append(@, Job("FAILED", {}, {}))]

Raise ==
    /\ run.pc \in {"fetch", "store"} /\ run.days # {}
    /\ \/ /\ run.pc = "fetch" /\ ~ taught /\ Mapped(Day) \cap Odd # {}
          /\ UNCHANGED faults
       \/ /\ run.pc = "store" /\ faults < MaxFaults
          /\ faults' = faults + 1
    /\ db' = AfterRollback
    /\ session' = AfterRollback
    /\ run' = Idle
    /\ said' = Summary
    /\ UNCHANGED world

\* The last flush is refused outside the try of job_run, or the process is
\* stopped.
Die ==
    /\ run.pc # "idle"
    /\ faults < MaxFaults
    /\ faults' = faults + 1
    /\ session' = db
    /\ run' = Idle
    /\ said' \in IF run.pc = "fetch" /\ run.days = {} THEN {"nothing", Summary}
                 ELSE {"nothing"}
    /\ UNCHANGED <<world, db>>

Steps == FetchNothing \/ FetchRows \/ CommitDay \/ Reconcile \/ Finish \/ Raise

Next == World \/ Begin \/ Steps \/ Die

Spec == Init /\ [][Next]_svars /\ WF_svars(Steps)

-----------------------------------------------------------------------------
(* Properties.                                                             *)

JobType == [status : {"RUNNING", "SUCCESS", "FAILED"},
            touched : SUBSET Games, says : SUBSET Games]

Store == [pitches : SUBSET Rows, balls : SUBSET Rows, players : SUBSET Players,
          report : [status : {"OK", "DEGRADED", "UNAVAILABLE"}, failures : 0..3],
          jobs : Seq(JobType)]

RunState == [pc : {"idle", "fetch", "store", "reconcile"}, row : Nat,
             days : SUBSET Nat, empty : SUBSET Nat,
             touched : SUBSET Games, fresh : SUBSET Games, says : SUBSET Games,
             boxed0 : SUBSET Games, ready0 : SUBSET Games]

TypeOK ==
    /\ final \subseteq InTable /\ boxed \subseteq final /\ published \subseteq Rows
    /\ taught \in BOOLEAN
    /\ db \in Store /\ session \in Store
    /\ run \in RunState
    /\ said \in {"nothing", "agreed"}
    /\ faults \in Nat

\* Committed are only whole dates: each ball in play has its pitch and the
\* other way round, each row its game and its player, and nothing is there
\* that the source did not give.
StoredTogether ==
    /\ db.balls = db.pitches \cap InPlay
    /\ db.pitches \subseteq published
    /\ \A r \in db.pitches : GameOf[r] \in InTable /\ By[r] \in db.players

\* A run without a limit that reports success leaves out no game which could
\* be stored when it began, other than those of the dates it reports empty.
SuccessLeavesNothing ==
    [][ (\E i \in DOMAIN db'.jobs :
            i \in DOMAIN session.jobs /\ session.jobs[i].status = "RUNNING"
            /\ db'.jobs[i].status = "SUCCESS")
        => \A g \in run.ready0 :
             Limit # 0 \/ DateOf[g] \in run.empty \/ OfGame(db'.pitches, g) # {} ]_svars

\* A run that reports success has found each game it stored which, as committed,
\* is off by more than the tolerances from a box score that was there when the
\* run began: in its pitches, strikeouts, home runs or balls in play (the row of
\* job_runs counts what was found, and names the first fifty).
ShortGamesNamed ==
    [][ \A i \in DOMAIN db'.jobs :
          (i \in DOMAIN session.jobs /\ session.jobs[i].status = "RUNNING"
           /\ db'.jobs[i].status = "SUCCESS")
          => \A g \in db'.jobs[i].touched \cap run.boxed0 :
               Discrepancies(db', g) # {} => g \in db'.jobs[i].says ]_svars

\* Whatever fails, a run that has begun ends.
RunEnds == run.pc # "idle" ~> run.pc = "idle"

=============================================================================
