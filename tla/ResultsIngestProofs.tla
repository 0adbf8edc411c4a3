------------------------ MODULE ResultsIngestProofs -------------------------
(***************************************************************************)
(* What the daily ingest stores is whole, and what it reports is true, for *)
(* any schedule, any rosters and any succession of lost calls, refused box *)
(* scores and kills.                                                       *)
(*                                                                         *)
(* Neither is inductive: what a batch has written and not committed must   *)
(* be whole by itself (StagedWhole), and a run that has failed nothing yet *)
(* must hold every game it was asked for somewhere (Accounted).            *)
(***************************************************************************)
EXTENDS ResultsIngest, FiniteSetTheorems, TLAPS

\* What a batch has written is whole, with the records it wrote or found.
StagedWhole ==
    /\ \A g \in staged.teams, p \in Players :
        p \in Roster[g] /\ p \notin missed => <<g, p>> \in staged.lines
    /\ \A l \in staged.lines : l[1] \in staged.teams /\ l[2] \in people \cup staged.people

\* Only while a batch is persisted are there games in hand, or written.
BetweenBatches == job.pc # "persist" => staged.teams = {} /\ job.batch = {}

\* While no game failed, those the run was asked for are stored, written, in
\* the batch or still to be fetched.
Accounted ==
    job.pc \in {"fetch", "persist"} /\ job.failed = 0 =>
        job.asked \subseteq teams \cup staged.teams \cup job.queue \cup job.batch

WholeInv == TypeOK /\ StagedWhole /\ StoredWhole
ReportInv == TypeOK /\ BetweenBatches /\ Accounted /\ ReportTruthful

-----------------------------------------------------------------------------
(* Types.                                                                  *)

Pcs == {"idle", "schedule", "pending", "fetch", "persist"}
Hows == {"none", "ok", "raised", "killed"}

LEMMA IdleIsJobState == Idle \in JobState
BY DEF Idle, JobState

LEMMA NothingIsStaged == Nothing \in Staged
BY DEF Nothing, Staged

\* A run that goes on without touching its games.
LEMMA GoesTo ==
    ASSUME job \in JobState, NEW pc \in Pcs, job' = [job EXCEPT !.pc = pc]
    PROVE  /\ job' \in JobState /\ job'.pc = pc /\ job'.asked = job.asked
           /\ job'.queue = job.queue /\ job'.batch = job.batch
           /\ job'.arrived = job.arrived /\ job'.failed = job.failed
BY DEF JobState, Pcs

\* The games are finitely many, and a batch is some of the queue.
LEMMA BatchIsFinite ==
    ASSUME job \in JobState
    PROVE  /\ NextBatch \subseteq job.queue /\ NextBatch \subseteq Games
           /\ \A lost \in SUBSET NextBatch : Cardinality(lost) \in Nat
<1>1. NextBatch \subseteq job.queue /\ NextBatch \subseteq Games
    BY DEF NextBatch, JobState
<1>2. IsFiniteSet(Games)
    BY ResultsAssumption, FS_Interval DEF Games
<1> QED
    BY <1>1, <1>2, FS_Subset, FS_CardinalityType

\* What a lookup does: the records not returned are missed.
LEMMA LookupMisses ==
    ASSUME TypeOK, NEW wanted \in SUBSET Players, NEW found, Lookup(wanted, found)
    PROVE  /\ found \subseteq Players /\ missed' \subseteq Players
           /\ missed \subseteq missed' /\ Missing(wanted) \ found \subseteq missed'
           /\ faults' \in 0..MaxFaults
<1>1. found \subseteq Players /\ missed' \subseteq Players
        /\ missed \subseteq missed' /\ Missing(wanted) \ found \subseteq missed'
    BY DEF Lookup, Missing, TypeOK
<1>2. faults' \in 0..MaxFaults
    BY ResultsAssumption DEF Lookup, TypeOK
<1> QED
    BY <1>1, <1>2

\* What a game taken from the batch leaves of the run.
LEMMA TakenRun ==
    ASSUME job \in JobState, NEW g \in Games, NEW failures \in Nat, Taken(g, failures)
    PROVE  /\ job' \in JobState /\ job'.pc = job.pc /\ job'.asked = job.asked
           /\ job'.queue = job.queue /\ job'.batch = job.batch \ {g}
           /\ job'.failed = job.failed + failures
<1>1. job.failed + failures \in Nat /\ job.batch \ {g} \in SUBSET Games
    BY DEF JobState
<1> DEFINE batch == job.batch \ {g}
           failed == job.failed + failures
<1>2. job' = [job EXCEPT !.batch = batch, !.failed = failed]
    BY DEF Taken
<1> HIDE DEF batch, failed
<1>3. batch \in SUBSET Games /\ failed \in Nat
    BY <1>1 DEF batch, failed
<1>4. /\ job' \in JobState /\ job'.pc = job.pc /\ job'.asked = job.asked
      /\ job'.queue = job.queue /\ job'.batch = batch /\ job'.failed = failed
    BY <1>2, <1>3 DEF JobState
<1> QED
    BY <1>4 DEF batch, failed

\* A run that ends leaves nothing staged, and reports its games and failures.
LEMMA Ends ==
    ASSUME job \in JobState, NEW how \in Hows, End(how)
    PROVE  /\ job' \in JobState /\ job'.pc = "idle" /\ staged' \in Staged
           /\ job'.batch = {} /\ staged' = Nothing /\ staged'.teams = {}
           /\ report' \in Report /\ report'.how = how
           /\ report'.asked = job.asked /\ report'.failed = job.failed
BY IdleIsJobState, NothingIsStaged DEF End, Idle, Nothing, Report, Hows, JobState

\* The whole run of a batch taken from the queue.
LEMMA FetchRun ==
    ASSUME TypeOK, FetchBatch
    PROVE  /\ job' \in JobState /\ faults' \in 0..MaxFaults
           /\ job'.pc = "persist" /\ job'.asked = job.asked
           /\ job'.queue = job.queue \ NextBatch /\ job'.batch = NextBatch
           /\ job'.failed = job.failed /\ NextBatch \subseteq job.queue
<1>1. job \in JobState
    BY DEF TypeOK
<1>2. PICK lost \in SUBSET NextBatch :
        /\ faults + Cardinality(lost) <= MaxFaults
        /\ faults' = faults + Cardinality(lost)
        /\ job' = [job EXCEPT !.pc = "persist", !.queue = @ \ NextBatch,
                              !.batch = NextBatch, !.arrived = NextBatch \ lost]
    BY DEF FetchBatch
<1>3. /\ NextBatch \subseteq job.queue /\ NextBatch \subseteq Games
      /\ Cardinality(lost) \in Nat
    BY <1>1, BatchIsFinite
<1>4. faults' \in 0..MaxFaults
    BY <1>2, <1>3, ResultsAssumption DEF TypeOK
<1> DEFINE queue == job.queue \ NextBatch
           arrived == NextBatch \ lost
<1>5. queue \in SUBSET Games /\ arrived \in SUBSET Games
    BY <1>1, <1>3 DEF JobState
<1>6. job' = [job EXCEPT !.pc = "persist", !.queue = queue,
                         !.batch = NextBatch, !.arrived = arrived]
    BY <1>2
<1> HIDE DEF queue, arrived
<1>7. /\ job' \in JobState /\ job'.pc = "persist" /\ job'.asked = job.asked
      /\ job'.queue = queue /\ job'.batch = NextBatch /\ job'.failed = job.failed
    BY <1>1, <1>3, <1>5, <1>6 DEF JobState
<1> QED
    BY <1>3, <1>4, <1>7 DEF queue

\* What the persistence of a box score stages: the teams, the lines of the
\* players known, and the records found.
LEMMA PersistStages ==
    ASSUME TypeOK, NEW g \in Games, Persist(g)
    PROVE  /\ staged' \in Staged /\ faults' \in 0..MaxFaults
           /\ missed' \subseteq Players /\ missed \subseteq missed'
           /\ staged'.teams = staged.teams \cup {g}
           /\ staged.lines \subseteq staged'.lines
           /\ staged.people \subseteq staged'.people
           /\ \A p \in Roster[g] : p \notin missed' => <<g, p>> \in staged'.lines
           /\ \A l \in staged'.lines : l \notin staged.lines =>
                l[1] = g /\ l[2] \in people \cup staged'.people
<1>1. PICK found \in SUBSET Players :
        /\ Lookup(Roster[g], found)
        /\ staged' = [staged EXCEPT
              !.teams = @ \cup {g},
              !.lines = @ \cup {<<g, p>> : p \in Known(Roster[g], found)},
              !.people = @ \cup found]
    BY DEF Persist
<1>2. Roster[g] \subseteq Players /\ staged \in Staged
    BY ResultsAssumption DEF TypeOK
<1>3. /\ missed' \subseteq Players /\ missed \subseteq missed'
      /\ Missing(Roster[g]) \ found \subseteq missed'
      /\ faults' \in 0..MaxFaults
    BY <1>1, <1>2, LookupMisses
<1> DEFINE known == Known(Roster[g], found)
           ts == staged.teams \cup {g}
           ls == staged.lines \cup {<<g, p>> : p \in known}
           ps == staged.people \cup found
<1>4. /\ known \subseteq Roster[g]
      /\ \A p \in Roster[g] : p \notin missed' => p \in known
      /\ \A p \in known : p \in people \cup ps
    BY <1>2, <1>3 DEF Known, Missing
<1>5. ts \in SUBSET Games /\ ls \in SUBSET (Games \X Players) /\ ps \in SUBSET Players
    BY <1>2, <1>4 DEF Staged
<1>6. staged' = [staged EXCEPT !.teams = ts, !.lines = ls, !.people = ps]
    BY <1>1
<1> HIDE DEF known
<1>7. /\ \A p \in known : <<g, p>> \in ls
      /\ \A l \in ls : l \notin staged.lines => l[1] = g /\ l[2] \in known
      /\ staged.lines \subseteq ls /\ staged.people \subseteq ps
    OBVIOUS
<1> HIDE DEF ts, ls, ps
<1>8. staged' \in Staged /\ staged'.teams = ts /\ staged'.lines = ls /\ staged'.people = ps
    BY <1>2, <1>5, <1>6 DEF Staged
<1>9. staged'.teams = staged.teams \cup {g}
    BY <1>8 DEF ts
<1> QED
    BY <1>3, <1>4, <1>7, <1>8, <1>9

LEMMA InitTypeOK == Init => TypeOK
BY IdleIsJobState, NothingIsStaged, ResultsAssumption DEF Init, TypeOK, Report

\* Every step keeps the types.
LEMMA NextTypeOK == TypeOK /\ [Next]_rvars => TypeOK'
<1> SUFFICES ASSUME TypeOK, [Next]_rvars PROVE TypeOK'
    OBVIOUS
<1>0. /\ job \in JobState /\ staged \in Staged
      /\ staged.teams \subseteq Games /\ staged.lines \subseteq Games \X Players
      /\ staged.people \subseteq Players /\ faults \in Nat /\ kills \in Nat
      /\ MaxFaults \in Nat /\ MaxKills \in Nat /\ LastDay \in Nat /\ day \in Nat
    BY ResultsAssumption DEF TypeOK, Staged
<1>1. CASE UNCHANGED rvars
    BY <1>1 DEF TypeOK, rvars, calendar, stored, bounds
<1>2. CASE NextDay
    BY <1>0, <1>2 DEF TypeOK, NextDay, stored, bounds
<1>3. ASSUME NEW g \in Games, Finish(g) PROVE TypeOK'
    BY <1>3 DEF TypeOK, Finish, stored, bounds
<1>4. CASE Begin
    <2>1. job' \in JobState /\ job'.pc # "idle"
        BY <1>0, <1>4, GoesTo DEF Begin, Pcs
    <2> QED
        BY <1>4, <2>1 DEF TypeOK, Begin, calendar, stored, bounds
<1>5. CASE IngestSchedule
    <2>1. job' \in JobState /\ job'.pc # "idle"
        BY <1>0, <1>5, GoesTo DEF IngestSchedule, Pcs
    <2>2. UNION {Probable[g] : g \in Window} \subseteq Players
        BY ResultsAssumption DEF Window
    <2>3. /\ missed' \subseteq Players /\ people' \subseteq Players
          /\ faults' \in 0..MaxFaults
        <3>1. PICK found \in SUBSET Players :
                /\ Lookup(UNION {Probable[g] : g \in Window}, found)
                /\ people' = people \cup found
            BY <1>5 DEF IngestSchedule
        <3> QED
            BY <2>2, <3>1, LookupMisses DEF TypeOK
    <2>4. final' \subseteq Games
        BY <1>5 DEF IngestSchedule, TypeOK, Window
    <2> QED
        BY <1>5, <2>1, <2>3, <2>4 DEF TypeOK, IngestSchedule, calendar
<1>6. CASE ScheduleUnavailable
    <2>1. job' \in JobState /\ job'.pc # "idle"
        BY <1>0, <1>6, GoesTo DEF ScheduleUnavailable, Pcs
    <2> QED
        BY <1>0, <1>6, <2>1 DEF TypeOK, ScheduleUnavailable, calendar, stored
<1>7. CASE OpenRun
    <2>1. Pending \in SUBSET Games
        BY DEF TypeOK, Pending
    <2>2. job' \in JobState /\ job'.pc = "fetch"
        BY <1>0, <1>7, <2>1 DEF OpenRun, JobState, BetweenBatches
    <2>3. staged' \in Staged
        BY <1>0, <1>7 DEF OpenRun, Staged
    <2> QED
        BY <1>7, <2>2, <2>3 DEF TypeOK, OpenRun, calendar, stored, bounds
<1>8. CASE FetchBatch
    BY <1>8, FetchRun DEF TypeOK, FetchBatch, calendar, stored
<1>9. CASE FetchRaises
    BY <1>0, <1>9, Ends DEF TypeOK, FetchRaises, calendar, stored, Hows
<1>10. ASSUME NEW g \in Games, Unavailable(g) PROVE TypeOK'
    <2>1. job' \in JobState /\ job'.pc = "persist"
        BY <1>0, <1>10, TakenRun DEF Unavailable, InHand
    <2> QED
        BY <1>10, <2>1 DEF TypeOK, Unavailable, calendar, stored, bounds
<1>11. ASSUME NEW g \in Games, Persist(g) PROVE TypeOK'
    <2>1. job' \in JobState /\ job'.pc = "persist"
        BY <1>0, <1>11, TakenRun DEF Persist, InHand
    <2>2. staged' \in Staged /\ faults' \in 0..MaxFaults /\ missed' \subseteq Players
        BY <1>11, PersistStages
    <2> QED
        BY <1>11, <2>1, <2>2 DEF TypeOK, Persist, calendar, stored
<1>12. ASSUME NEW g \in Games, PersistRaises(g) PROVE TypeOK'
    <2>1. job' \in JobState /\ job'.pc = "persist"
        BY <1>0, <1>12, TakenRun DEF PersistRaises, InHand, OneFailure
    <2>2. missed' \subseteq Players /\ faults' \in 0..MaxFaults
        <3>1. Roster[g] \subseteq Players
            BY ResultsAssumption
        <3> QED
            BY <1>12, <3>1, LookupMisses DEF PersistRaises
    <2> QED
        BY <1>12, <2>1, <2>2, NothingIsStaged DEF TypeOK, PersistRaises, calendar, stored
<1>13. CASE CommitBatch
    <2>1. job' \in JobState /\ job'.pc = "fetch"
        BY <1>0, <1>13, GoesTo DEF CommitBatch, Pcs
    <2> QED
        BY <1>0, <1>13, <2>1, NothingIsStaged DEF TypeOK, CommitBatch, calendar, bounds
<1>14. CASE Finished
    BY <1>0, <1>14, Ends DEF TypeOK, Finished, calendar, stored, bounds, Hows
<1>15. CASE Kill
    BY <1>0, <1>15, Ends DEF TypeOK, Kill, calendar, stored, Hows
<1> QED
    BY <1>1, <1>2, <1>3, <1>4, <1>5, <1>6, <1>7, <1>8, <1>9, <1>10, <1>11, <1>12,
       <1>13, <1>14, <1>15 DEF Next, Step

\* Every variable has its type in every reachable state (results.py, runner.py).
THEOREM ResultsTypeCorrect == Spec => []TypeOK
<1> QED
    BY InitTypeOK, NextTypeOK, PTL DEF Spec

-----------------------------------------------------------------------------
(* Stored whole.                                                           *)

\* Nothing but the commit of a batch touches the stored box scores.
LEMMA OnlyCommitStores ==
    ASSUME [Next]_rvars
    PROVE  \/ CommitBatch
           \/ UNCHANGED <<teams, lines>>
BY DEF Next, Step, rvars, calendar, stored, NextDay, Finish, Begin, IngestSchedule,
       ScheduleUnavailable, OpenRun, FetchBatch, FetchRaises, Unavailable, Persist,
       PersistRaises, Finished, Kill

\* Records are kept and misses remembered.
LEMMA RecordsKept ==
    ASSUME TypeOK, [Next]_rvars
    PROVE  missed \subseteq missed' /\ people \subseteq people'
BY DEF Next, Step, rvars, calendar, stored, NextDay, Finish, Begin, IngestSchedule,
       ScheduleUnavailable, OpenRun, FetchBatch, FetchRaises, Unavailable, Persist,
       PersistRaises, CommitBatch, Finished, Kill, Lookup

\* The steps that add nothing to what is staged: they leave the lines alone or
\* drop them all.
LEMMA OnlyPersistStages ==
    ASSUME TypeOK, [Next]_rvars
    PROVE  \/ \E g \in Games : Persist(g)
           \/ staged' = Nothing
           \/ /\ staged'.teams = staged.teams /\ staged'.lines = staged.lines
              /\ staged'.people = staged.people
<1>1. CASE OpenRun
    BY <1>1 DEF OpenRun, TypeOK, Staged
<1>2. CASE ~ OpenRun
    BY <1>2 DEF Next, Step, rvars, calendar, stored, NextDay, Finish, Begin, IngestSchedule,
           ScheduleUnavailable, FetchBatch, FetchRaises, Unavailable,
           PersistRaises, CommitBatch, Finished, Kill, End
<1> QED
    BY <1>1, <1>2

\* Every step keeps what is staged, and what is stored, whole.
LEMMA NextWholeInv == WholeInv /\ [Next]_rvars => WholeInv'
<1> SUFFICES ASSUME WholeInv, [Next]_rvars PROVE WholeInv'
    OBVIOUS
<1>0. TypeOK /\ TypeOK' /\ missed \subseteq missed' /\ people \subseteq people'
    BY NextTypeOK, RecordsKept DEF WholeInv
<1>1. StagedWhole'
    <2>1. ASSUME NEW g \in Games, Persist(g) PROVE StagedWhole'
        <3>1. /\ missed \subseteq missed'
              /\ staged'.teams = staged.teams \cup {g}
              /\ staged.lines \subseteq staged'.lines
              /\ staged.people \subseteq staged'.people
              /\ \A p \in Roster[g] : p \notin missed' => <<g, p>> \in staged'.lines
              /\ \A l \in staged'.lines : l \notin staged.lines =>
                   l[1] = g /\ l[2] \in people \cup staged'.people
            BY <1>0, <2>1, PersistStages
        <3>2. ASSUME NEW h \in staged'.teams, NEW p \in Players,
                     p \in Roster[h], p \notin missed'
              PROVE  <<h, p>> \in staged'.lines
            BY <3>1, <3>2 DEF WholeInv, StagedWhole
        <3>3. ASSUME NEW l \in staged'.lines
              PROVE  l[1] \in staged'.teams /\ l[2] \in people' \cup staged'.people
            BY <1>0, <3>1, <3>3 DEF WholeInv, StagedWhole
        <3> QED
            BY <3>2, <3>3 DEF StagedWhole
    <2>2. CASE staged' = Nothing
        BY <2>2 DEF StagedWhole, Nothing
    <2>3. CASE /\ staged'.teams = staged.teams /\ staged'.lines = staged.lines
               /\ staged'.people = staged.people
        BY <1>0, <2>3 DEF WholeInv, StagedWhole
    <2> QED
        BY <1>0, <2>1, <2>2, <2>3, OnlyPersistStages
<1>2. StoredWhole'
    <2>1. CASE UNCHANGED <<teams, lines>>
        BY <1>0, <2>1 DEF WholeInv, StoredWhole
    <2>2. CASE CommitBatch
        <3>1. /\ teams' = teams \cup staged.teams /\ lines' = lines \cup staged.lines
              /\ people' = people \cup staged.people
            BY <2>2 DEF CommitBatch
        <3>2. ASSUME NEW g \in teams', NEW p \in Players, p \in Roster[g], p \notin missed'
              PROVE  <<g, p>> \in lines'
            BY <1>0, <3>1, <3>2 DEF WholeInv, StagedWhole, StoredWhole
        <3>3. ASSUME NEW l \in lines' PROVE l[1] \in teams' /\ l[2] \in people'
            BY <3>1, <3>3 DEF WholeInv, StagedWhole, StoredWhole
        <3> QED
            BY <3>2, <3>3 DEF StoredWhole
    <2> QED
        BY <2>1, <2>2, OnlyCommitStores
<1> QED
    BY <1>0, <1>1, <1>2 DEF WholeInv

\* A stored game is stored whole, whatever was rolled back, lost or killed on
\* the way (persist_boxscore, run_results_ingest).
THEOREM StoredWholeCorrect == Spec => []StoredWhole
<1>1. Init => WholeInv
    BY InitTypeOK DEF Init, WholeInv, StagedWhole, StoredWhole, Nothing
<1>2. WholeInv => StoredWhole
    BY DEF WholeInv
<1> QED
    BY <1>1, <1>2, NextWholeInv, PTL DEF Spec

-----------------------------------------------------------------------------
(* A true report.                                                          *)

\* A step that leaves the report alone keeps it true: what is stored stays.
LEMMA SameReport ==
    ASSUME ReportTruthful, teams \subseteq teams', report' = report
    PROVE  ReportTruthful'
BY DEF ReportTruthful

\* A run that ends well with no failure has every game it was asked for.
LEMMA FinishedHasAll ==
    ASSUME ReportInv, Finished
    PROVE  ReportTruthful'
<1>1. job \in JobState /\ job.pc = "fetch" /\ job.queue = {} /\ teams' = teams
    BY DEF ReportInv, TypeOK, Finished, stored
<1>2. report'.asked = job.asked /\ report'.failed = job.failed
    BY <1>1, Ends DEF Finished, Hows
<1>3. staged.teams = {} /\ job.batch = {}
    BY <1>1 DEF ReportInv, BetweenBatches
<1>4. job.failed = 0 => job.asked \subseteq teams
    BY <1>1, <1>3 DEF ReportInv, Accounted
<1> QED
    BY <1>1, <1>2, <1>4 DEF ReportTruthful

\* Every step keeps the account of the games.
LEMMA NextReportInv == ReportInv /\ [Next]_rvars => ReportInv'
<1> SUFFICES ASSUME ReportInv, [Next]_rvars PROVE ReportInv'
    OBVIOUS
<1>0. /\ TypeOK /\ TypeOK' /\ job \in JobState /\ staged \in Staged
      /\ BetweenBatches /\ Accounted /\ ReportTruthful
      /\ job.failed \in Nat
    BY NextTypeOK DEF ReportInv, TypeOK, JobState
<1> USE DEF ReportInv
<1>1. CASE UNCHANGED rvars
    BY <1>0, <1>1 DEF rvars, stored, BetweenBatches, Accounted, ReportTruthful
<1>2. CASE NextDay
    BY <1>0, <1>2 DEF NextDay, stored, BetweenBatches, Accounted, ReportTruthful
<1>3. ASSUME NEW g \in Games, Finish(g) PROVE ReportInv'
    BY <1>0, <1>3 DEF Finish, stored, BetweenBatches, Accounted, ReportTruthful
<1>4. CASE Begin
    <2>1. job'.pc = "schedule" /\ job.pc = "idle" /\ job'.batch = job.batch
        BY <1>0, <1>4, GoesTo DEF Begin, Pcs
    <2> QED
        BY <1>0, <1>4, <2>1, SameReport DEF Begin, stored, BetweenBatches, Accounted
<1>5. CASE IngestSchedule
    <2>1. job'.pc = "pending" /\ job.pc = "schedule" /\ job'.batch = job.batch
        BY <1>0, <1>5, GoesTo DEF IngestSchedule, Pcs
    <2> QED
        BY <1>0, <1>5, <2>1, SameReport DEF IngestSchedule, BetweenBatches, Accounted
<1>6. CASE ScheduleUnavailable
    <2>1. job'.pc = "pending" /\ job.pc = "schedule" /\ job'.batch = job.batch
        BY <1>0, <1>6, GoesTo DEF ScheduleUnavailable, Pcs
    <2> QED
        BY <1>0, <1>6, <2>1, SameReport
           DEF ScheduleUnavailable, stored, BetweenBatches, Accounted
<1>7. CASE OpenRun
    <2>1. /\ job.pc = "pending" /\ job'.pc = "fetch" /\ job'.asked = Pending
          /\ job'.queue = Pending
        BY <1>0, <1>7 DEF OpenRun, JobState
    <2>2. job'.batch = {}
        BY <1>0, <1>7, <2>1 DEF OpenRun, JobState, BetweenBatches
    <2>3. staged'.teams = {}
        BY <1>0, <1>7, <2>1 DEF OpenRun, Staged, BetweenBatches
    <2> QED
        BY <1>0, <1>7, <2>1, <2>2, <2>3, SameReport
           DEF OpenRun, stored, BetweenBatches, Accounted
<1>8. CASE FetchBatch
    <2>1. /\ job'.pc = "persist" /\ job'.asked = job.asked
          /\ job'.queue = job.queue \ NextBatch /\ job'.batch = NextBatch
          /\ job'.failed = job.failed /\ NextBatch \subseteq job.queue
          /\ job.pc = "fetch"
        BY <1>0, <1>8, FetchRun DEF FetchBatch
    <2>2. UNCHANGED <<teams, staged, report>>
        BY <1>8 DEF FetchBatch, stored
    <2>3. BetweenBatches' /\ Accounted'
        BY <1>0, <2>1, <2>2 DEF BetweenBatches, Accounted
    <2> QED
        BY <1>0, <2>2, <2>3, SameReport
<1>9. CASE FetchRaises
    BY <1>0, <1>9, Ends
       DEF FetchRaises, stored, Hows, BetweenBatches, Accounted, ReportTruthful
<1>10. ASSUME NEW g \in Games, Unavailable(g) PROVE ReportInv'
    <2>1. job'.pc = "persist" /\ job'.failed = job.failed + 1
        BY <1>0, <1>10, TakenRun DEF Unavailable, InHand
    <2>2. job'.failed # 0
        BY <1>0, <2>1
    <2> QED
        BY <1>0, <1>10, <2>1, <2>2, SameReport
           DEF Unavailable, stored, BetweenBatches, Accounted
<1>11. ASSUME NEW g \in Games, Persist(g) PROVE ReportInv'
    <2>1. /\ job'.pc = "persist" /\ job'.asked = job.asked /\ job'.queue = job.queue
          /\ job'.batch = job.batch \ {g} /\ job'.failed = job.failed /\ job.pc = "persist"
        BY <1>0, <1>11, TakenRun DEF Persist, InHand
    <2>2. staged'.teams = staged.teams \cup {g}
        BY <1>0, <1>11, PersistStages
    <2>3. UNCHANGED <<teams, report>>
        BY <1>11 DEF Persist, stored
    <2>4. BetweenBatches' /\ Accounted'
        BY <1>0, <2>1, <2>2, <2>3 DEF BetweenBatches, Accounted
    <2> QED
        BY <1>0, <2>3, <2>4, SameReport
<1>12. ASSUME NEW g \in Games, PersistRaises(g) PROVE ReportInv'
    <2>1. job'.pc = "persist" /\ job'.failed = job.failed + 1
        BY <1>0, <1>12, TakenRun DEF PersistRaises, InHand, OneFailure
    <2>2. job'.failed # 0
        BY <1>0, <2>1
    <2> QED
        BY <1>0, <1>12, <2>1, <2>2, SameReport
           DEF PersistRaises, stored, BetweenBatches, Accounted
<1>13. CASE CommitBatch
    <2>1. /\ job'.pc = "fetch" /\ job'.asked = job.asked /\ job'.queue = job.queue
          /\ job'.batch = {} /\ job'.failed = job.failed
          /\ job.pc = "persist" /\ job.batch = {}
        BY <1>0, <1>13, GoesTo DEF CommitBatch, Pcs
    <2>2. /\ staged'.teams = {} /\ teams' = teams \cup staged.teams /\ report' = report
        BY <1>13 DEF CommitBatch, Nothing
    <2>3. BetweenBatches' /\ Accounted'
        BY <1>0, <2>1, <2>2 DEF BetweenBatches, Accounted
    <2> QED
        BY <1>0, <2>2, <2>3, SameReport
<1>14. CASE Finished
    <2>1. job'.pc = "idle" /\ staged'.teams = {} /\ job'.batch = {}
        BY <1>0, <1>14, Ends DEF Finished, Hows
    <2> QED
        BY <1>0, <1>14, <2>1, FinishedHasAll DEF BetweenBatches, Accounted
<1>15. CASE Kill
    BY <1>0, <1>15, Ends
       DEF Kill, stored, Hows, BetweenBatches, Accounted, ReportTruthful
<1> QED
    BY <1>1, <1>2, <1>3, <1>4, <1>5, <1>6, <1>7, <1>8, <1>9, <1>10, <1>11, <1>12,
       <1>13, <1>14, <1>15 DEF Next, Step

\* A run that ends well and counts no failure has stored every game that was
\* pending when it began (run_results_ingest).
THEOREM ReportCorrect == Spec => []ReportTruthful
<1>1. Init => ReportInv
    BY InitTypeOK
       DEF Init, ReportInv, BetweenBatches, Accounted, ReportTruthful, Nothing, Idle
<1>2. ReportInv => ReportTruthful
    BY DEF ReportInv
<1> QED
    BY <1>1, <1>2, NextReportInv, PTL DEF Spec

=============================================================================
