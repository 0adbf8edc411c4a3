--------------------------- MODULE ResultsIngest ----------------------------
(***************************************************************************)
(* The daily ingest (ingestion/runner.py, daily_refresh): the schedule of  *)
(* a window of days around today, then the box scores of the final games   *)
(* that have none, in batches on one session.                              *)
(*                                                                         *)
(* Games are numbered in the order of their start times.  A box score is   *)
(* stored as the lines of the two teams, which come together, and a line   *)
(* for each player whose master record is known; records that are missing  *)
(* are looked up on the way.  What a batch has written is seen by nobody   *)
(* before its commit.  A box score may be one whose rows the database      *)
(* refuses: the exception is swallowed and the session rolled back.        *)
(***************************************************************************)
EXTENDS Integers, FiniteSets

CONSTANTS
    NumGames,   \* games are 1..NumGames
    Players,
    GameDay,    \* the official date of each game
    Roster,     \* who appears in each box score
    Probable,   \* the probable starters the schedule names for each game
    Bad,        \* games whose rows the database refuses
    DaysBack,   \* how far back the schedule window reaches
    DaysAhead,  \* and how far ahead
    BatchSize,
    LastDay,    \* bound: the last day
    MaxFaults,  \* bound: provider calls that fail or fall short
    MaxKills    \* bound: runs killed

Games == 1..NumGames

ASSUME ResultsAssumption ==
    /\ {NumGames, DaysBack, DaysAhead, LastDay, MaxFaults, MaxKills} \subseteq Nat
    /\ BatchSize \in Nat \ {0}
    /\ GameDay \in [Games -> 0..LastDay]
    /\ Roster \in [Games -> SUBSET Players]
    /\ Probable \in [Games -> SUBSET Players]
    /\ Bad \subseteq Games

VARIABLES
    day,     \* today
    played,  \* the games that are over
    final,   \* committed games with is_final
    teams,   \* games with committed team lines
    lines,   \* committed player lines, as <<game, player>>
    people,  \* committed player records
    missed,  \* history: the players some lookup did not return
    job,     \* the run in progress
    staged,  \* what it has written since its last commit
    report,  \* what the last run said when it ended
    joblog,  \* the job_runs row of the last ingest_results
    faults, kills  \* how much of each bound is used

calendar == <<day, played>>
stored == <<final, teams, lines, people>>
bounds == <<faults, kills>>
rvars == <<calendar, stored, missed, job, staged, report, joblog, bounds>>

Staged == [teams : SUBSET Games, lines : SUBSET (Games \X Players),
           people : SUBSET Players, opened : BOOLEAN]

Nothing == [teams |-> {}, lines |-> {}, people |-> {}, opened |-> FALSE]

\* asked: the games pending when the run began; queue: those not fetched yet;
\* batch: fetched and not persisted yet, arrived: those of them with an answer.
JobState == [pc : {"idle", "schedule", "pending", "fetch", "persist"},
             asked : SUBSET Games, queue : SUBSET Games,
             batch : SUBSET Games, arrived : SUBSET Games, failed : Nat]

Idle == [pc |-> "idle", asked |-> {}, queue |-> {}, batch |-> {},
         arrived |-> {}, failed |-> 0]

Report == [how : {"none", "ok", "raised", "killed"}, asked : SUBSET Games,
           failed : Nat]

Init ==
    /\ day = 0 /\ played = {}
    /\ final = {} /\ teams = {} /\ lines = {} /\ people = {}
    /\ missed = {}
    /\ job = Idle /\ staged = Nothing
    /\ report = [how |-> "none", asked |-> {}, failed |-> 0]
    /\ joblog = "none"
    /\ faults = 0 /\ kills = 0

-----------------------------------------------------------------------------
(* The world.                                                              *)

Finish(g) ==
    /\ g \notin played
    /\ day \in GameDay[g]..(GameDay[g] + DaysBack)
    /\ played' = played \cup {g}
    /\ UNCHANGED <<day, stored, missed, job, staged, report, joblog, bounds>>

\* Some run sees the result of a game before its date leaves the window.
NextDay ==
    /\ day < LastDay
    /\ \A g \in played \ final : day < GameDay[g] + DaysBack
    /\ day' = day + 1
    /\ UNCHANGED <<played, stored, missed, job, staged, report, joblog, bounds>>

-----------------------------------------------------------------------------
(* ingest_players.                                                         *)

\* Only records that are not there yet are asked for.
Missing(wanted) == wanted \ (people \cup staged.people)

\* Every one of them is returned, or the call failed or fell short.
Lookup(wanted, found) ==
    /\ found \subseteq Missing(wanted)
    /\ missed' = missed \cup (Missing(wanted) \ found)
    /\ IF found = Missing(wanted)
       THEN UNCHANGED faults
       ELSE faults < MaxFaults /\ faults' = faults + 1

-----------------------------------------------------------------------------
(* The schedule.                                                           *)

Begin ==
    /\ job.pc = "idle"
    /\ job' = [job EXCEPT !.pc = "schedule"]
    /\ UNCHANGED <<calendar, stored, missed, staged, report, joblog, bounds>>

\* Mutant: the games of today and later.
FromToday == {g \in Games : GameDay[g] \in day..(day + DaysAhead)}

Window == {g \in Games : GameDay[g] \in (day - DaysBack)..(day + DaysAhead)}

\* The games of the window are upserted, with the result of those that are
\* over, and their probable starters looked up; then daily_refresh commits.
IngestSchedule ==
    /\ job.pc = "schedule"
    /\ \E found \in SUBSET Players :
        /\ Lookup(UNION {Probable[g] : g \in Window}, found)
        /\ people' = people \cup found
    /\ final' = final \cup (Window \cap played)
    /\ job' = [job EXCEPT !.pc = "pending"]
    /\ UNCHANGED <<calendar, teams, lines, staged, report, joblog, kills>>

\* The provider is unavailable: nothing is written and the run goes on.
ScheduleUnavailable ==
    /\ job.pc = "schedule"
    /\ faults < MaxFaults
    /\ faults' = faults + 1
    /\ job' = [job EXCEPT !.pc = "pending"]
    /\ UNCHANGED <<calendar, stored, missed, staged, report, joblog, kills>>

-----------------------------------------------------------------------------
(* The box scores.                                                         *)

\* pending_boxscore_ids: final, and without team lines.
Pending == final \ teams

\* job_run adds its RUNNING row to the transaction of the first batch.
OpenRun ==
    /\ job.pc = "pending"
    /\ job' = [job EXCEPT !.pc = "fetch", !.asked = Pending, !.queue = Pending]
    /\ staged' = [staged EXCEPT !.opened = TRUE]
    /\ joblog' = "none"
    /\ UNCHANGED <<calendar, stored, missed, report, bounds>>

\* The first BatchSize games of the queue, by start time.
NextBatch ==
    {g \in job.queue : Cardinality({h \in job.queue : h < g}) < BatchSize}

\* The batch is requested from a thread pool, and all answers awaited.
FetchBatch ==
    /\ job.pc = "fetch"
    /\ job.queue # {}
    /\ \E lost \in SUBSET NextBatch :
        /\ faults + Cardinality(lost) <= MaxFaults
        /\ faults' = faults + Cardinality(lost)
        /\ job' = [job EXCEPT !.pc = "persist", !.queue = @ \ NextBatch,
                              !.batch = NextBatch, !.arrived = NextBatch \ lost]
    /\ UNCHANGED <<calendar, stored, missed, staged, report, joblog, kills>>

End(how) ==
    /\ job' = Idle
    /\ staged' = Nothing
    /\ report' = [how |-> how, asked |-> job.asked, failed |-> job.failed]

\* An answer that map_boxscore cannot read: the exception leaves the pool and
\* the body of job_run, which records the failure and ends the run.
FetchRaises ==
    /\ job.pc = "fetch"
    /\ job.queue # {}
    /\ faults < MaxFaults
    /\ faults' = faults + 1
    /\ End("raised")
    /\ joblog' = "FAILED"
    /\ UNCHANGED <<calendar, stored, missed, kills>>

\* The next game of the batch.
InHand(g) == job.pc = "persist" /\ g \in job.batch /\ \A h \in job.batch : g <= h

Taken(g, failures) ==
    job' = [job EXCEPT !.batch = @ \ {g}, !.failed = @ + failures]

\* No answer for this game: it counts as failed and stays pending.
Unavailable(g) ==
    /\ InHand(g)
    /\ g \notin job.arrived
    /\ Taken(g, 1)
    /\ UNCHANGED <<calendar, stored, missed, staged, report, joblog, bounds>>

\* Mutant: lines are written for every player of the box score.
EveryPlayer(wanted, found) == wanted

\* Whose lines may be written: the players with a record.
Known(wanted, found) == wanted \ (Missing(wanted) \ found)

\* persist_boxscore: look up the players, write the two team lines and the
\* lines of the players that are known.
Persist(g) ==
    /\ InHand(g)
    /\ g \in job.arrived \ Bad
    /\ \E found \in SUBSET Players :
        /\ Lookup(Roster[g], found)
        /\ staged' = [staged EXCEPT
              !.teams = @ \cup {g},
              !.lines = @ \cup {<<g, p>> : p \in Known(Roster[g], found)},
              !.people = @ \cup found]
    /\ Taken(g, 0)
    /\ UNCHANGED <<calendar, stored, report, joblog, kills>>

\* Mutant: the failure is not counted.
NoFailure == 0

OneFailure == 1

\* The database refuses: the exception is swallowed and the whole session is
\* rolled back, the games of the batch before this one with it, and the
\* RUNNING row if no batch was committed yet.
PersistRaises(g) ==
    /\ InHand(g)
    /\ g \in job.arrived \cap Bad
    /\ \E found \in SUBSET Players : Lookup(Roster[g], found)
    /\ staged' = Nothing
    /\ Taken(g, OneFailure)
    /\ UNCHANGED <<calendar, stored, report, joblog, kills>>

\* The batch is done.
CommitBatch ==
    /\ job.pc = "persist"
    /\ job.batch = {}
    /\ teams' = teams \cup staged.teams
    /\ lines' = lines \cup staged.lines
    /\ people' = people \cup staged.people
    /\ joblog' = IF staged.opened THEN "RUNNING" ELSE joblog
    /\ staged' = Nothing
    /\ job' = [job EXCEPT !.pc = "fetch"]
    /\ UNCHANGED <<calendar, final, missed, report, bounds>>

\* The row becomes SUCCESS, if the run still has one.
Finished ==
    /\ job.pc = "fetch"
    /\ job.queue = {}
    /\ End("ok")
    /\ joblog' = IF staged.opened \/ joblog = "RUNNING" THEN "SUCCESS" ELSE joblog
    /\ UNCHANGED <<calendar, stored, missed, bounds>>

\* The process dies.
Kill ==
    /\ job.pc # "idle"
    /\ kills < MaxKills
    /\ kills' = kills + 1
    /\ End("killed")
    /\ UNCHANGED <<calendar, stored, missed, joblog, faults>>

-----------------------------------------------------------------------------

Step ==
    \/ IngestSchedule \/ ScheduleUnavailable
    \/ OpenRun \/ FetchBatch \/ FetchRaises
    \/ \E g \in Games : Unavailable(g) \/ Persist(g) \/ PersistRaises(g)
    \/ CommitBatch \/ Finished

Next ==
    \/ NextDay
    \/ \E g \in Games : Finish(g)
    \/ Begin
    \/ Step
    \/ Kill

Spec == Init /\ [][Next]_rvars

\* The scheduler is an endless loop, and a run that is not killed goes on.
FairSpec == Spec /\ WF_rvars(Begin) /\ WF_rvars(Step)

-----------------------------------------------------------------------------
(* Properties.                                                             *)

TypeOK ==
    /\ day \in 0..LastDay
    /\ played \subseteq Games /\ final \subseteq Games /\ teams \subseteq Games
    /\ lines \subseteq Games \X Players
    /\ people \subseteq Players /\ missed \subseteq Players
    /\ job \in JobState
    /\ staged \in Staged
    /\ report \in Report
    /\ joblog \in {"none", "RUNNING", "SUCCESS", "FAILED"}
    /\ job.pc = "idle" => staged = Nothing
    /\ faults \in 0..MaxFaults /\ kills \in 0..MaxKills

\* A stored game is stored whole: a player's line is absent only if a lookup
\* once failed to return the player, and none is there without its team lines
\* or the player's record, whatever was rolled back or killed on the way.
StoredWhole ==
    /\ \A g \in teams, p \in Players :
        p \in Roster[g] /\ p \notin missed => <<g, p>> \in lines
    /\ \A l \in lines : l[1] \in teams /\ l[2] \in people

\* A run that ends well and reports no failure has stored every game that was
\* pending when it began.
ReportTruthful ==
    report.how = "ok" /\ report.failed = 0 => report.asked \subseteq teams

\* A game that is over is stored in the end, whatever fails in between, if no
\* game of its day or later is one the database refuses.
SoundGamesStored ==
    \A g \in Games :
        (\A h \in Bad : h < g) => (g \in played ~> g \in teams)

=============================================================================
