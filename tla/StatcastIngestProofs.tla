------------------------ MODULE StatcastIngestProofs -------------------------
(***************************************************************************)
(* What the backfill commits belongs together, leaves out no game it could *)
(* have stored and finds every game that is off by more than the           *)
(* tolerances, for any schedule, exports, box scores and failures.         *)
(*                                                                         *)
(* Three things carry the proofs: what the process sees extends what is    *)
(* committed (Ahead); each game that could be stored when the run began is *)
(* on a date still to come, on an empty one, or has rows (Pursued); and a  *)
(* game that was compared gets no more rows, since its date is done with   *)
(* (DatesDone).                                                            *)
(***************************************************************************)
EXTENDS StatcastIngest, WellFoundedInduction, TLAPS

\* The rows of a state of the database belong together.
Together(s) ==
    /\ s.balls = s.pitches \cap InPlay
    /\ s.pitches \subseteq published
    /\ \A r \in s.pitches : GameOf[r] \in InTable /\ By[r] \in s.players

\* The rows of job_runs that are committed are those that the process sees,
\* and between two runs it sees nothing else.
Ahead ==
    /\ Len(db.jobs) <= Len(session.jobs)
    /\ \A i \in 1..Len(db.jobs) : session.jobs[i] = db.jobs[i]
    /\ run.pc = "idle" => session = db

\* A game that could be stored when the run began still can be.
StillReady ==
    run.pc # "idle" =>
        \A g \in run.ready0 :
            g \in InTable /\ \E r \in OfGame(published, g) : By[r] \in session.players

\* A game that could be stored when the run began is on a date to come, on one
\* reported empty, or has rows; and once the rows of a date are written the
\* games of that date have theirs.
Pursued ==
    run.pc # "idle" /\ Limit = 0 =>
        \A g \in run.ready0 :
            /\ \/ DateOf[g] \in run.days \cup run.empty
               \/ OfGame(session.pitches, g) # {}
            /\ run.pc \in {"store", "reconcile"} /\ DateOf[g] = Day =>
                OfGame(session.pitches, g) # {}

\* The rows at hand are of the first date to come, and the games stored before
\* them of dates that are not to come any more.
DatesDone ==
    run.pc # "idle" =>
        /\ run.pc \in {"store", "reconcile"} => \A g \in run.fresh : DateOf[g] = Day
        /\ run.pc \in {"fetch", "store"} => \A g \in run.touched : DateOf[g] \notin run.days
        /\ run.pc = "reconcile" => \A g \in run.touched : DateOf[g] \notin run.days \ {Day}

\* A game off its box score, if that was there, is named or about to be.
Named ==
    run.pc # "idle" =>
        /\ run.boxed0 \subseteq boxed
        /\ \A g \in run.touched \cap run.boxed0 :
            Discrepancies(session, g) # {} =>
                g \in run.says \/ (run.pc = "reconcile" /\ g \in run.fresh)

TogetherInv == TypeOK /\ Together(db) /\ Together(session)
RunInv == TypeOK /\ Ahead /\ StillReady /\ Pursued /\ DatesDone /\ Named

-----------------------------------------------------------------------------
(* Types.                                                                  *)

\* A date before another one.
LEMMA Earlier == \A x \in Nat, y \in Nat : x < y => <<x, y>> \in OpToRel(<, Nat)
BY DEF OpToRel

\* The first of some dates is one of them.
LEMMA FirstDate ==
    ASSUME NEW T \in SUBSET Nat, T # {}
    PROVE  Min(T) \in T
<1>1. T \subseteq Nat
    OBVIOUS
<1>2. \E x \in T : \A y \in T : ~ (<<y, x>> \in OpToRel(<, Nat))
    BY <1>1, NatLessThanWellFounded, WFMin
<1>3. PICK x \in T : \A y \in T : ~ (<<y, x>> \in OpToRel(<, Nat))
    BY <1>2
<1>4. ASSUME NEW y \in T PROVE x <= y
    <2>1. x \in Nat /\ y \in Nat
        BY <1>1
    <2>2. ~ (y < x)
        BY <1>3, <2>1, Earlier, Zenon
    <2> QED
        BY <2>1, <2>2
<1> QED
    BY <1>4 DEF Min

Reported == [status : {"OK", "DEGRADED", "UNAVAILABLE"}, failures : 0..3]

\* The status of the source after a call, whatever came of it.
LEMMA ReportType ==
    ASSUME session \in Store, NEW outcome
    PROVE  Report(outcome) \in Reported
<1>1. session.report.failures \in 0..3
    BY DEF Store
<1> DEFINE n == Min({session.report.failures + 1, 3})
<1>2. n \in 0..3
    <2>1. {session.report.failures + 1, 3} \in SUBSET Nat
        BY <1>1
    <2>2. n \in {session.report.failures + 1, 3}
        BY <2>1, FirstDate
    <2>3. \E x \in {session.report.failures + 1, 3} :
            \A y \in {session.report.failures + 1, 3} : x <= y
        BY <1>1
    <2>4. n <= 3
        BY <2>3 DEF Min
    <2> QED
        BY <1>1, <2>2, <2>4
<1>3. Report(outcome) =
        IF outcome # "UNAVAILABLE"
        THEN [status |-> IF outcome = "PARTIAL" THEN "DEGRADED" ELSE "OK", failures |-> 0]
        ELSE [status |-> IF n = 3 THEN "UNAVAILABLE" ELSE "DEGRADED", failures |-> n]
    BY DEF Report
<1> HIDE DEF n
<1> QED
    BY <1>2, <1>3 DEF Reported

\* A process that records the status changes nothing else.
LEMMA ReportsOnly ==
    ASSUME session \in Store, NEW outcome, Reports(outcome)
    PROVE  /\ session' \in Store /\ session'.pitches = session.pitches
           /\ session'.balls = session.balls /\ session'.players = session.players
           /\ session'.jobs = session.jobs
<1>1. session' = [session EXCEPT !.report = Report(outcome)]
    BY DEF Reports
<1>2. Report(outcome) \in Reported
    BY ReportType
<1> QED
    BY <1>1, <1>2 DEF Store, Reported

LEMMA IdleIsRunState == Idle \in RunState
BY DEF Idle, RunState

\* What the start of a run sets.
LEMMA BeginRun ==
    ASSUME TypeOK, Begin
    PROVE  /\ run' \in RunState /\ run'.pc = "fetch" /\ run'.days = Taken(PendingDates)
           /\ run'.empty = {} /\ run'.touched = {} /\ run'.says = {}
           /\ run'.boxed0 = boxed
           /\ run'.ready0 = {g \in InTable \cap final :
                               \E r \in OfGame(published, g) : By[r] \in db.players}
           /\ session' \in Store /\ session'.pitches = session.pitches
           /\ session'.balls = session.balls /\ session'.players = session.players
           /\ Len(session'.jobs) = Len(session.jobs) + 1
           /\ \A i \in 1..Len(session.jobs) : session'.jobs[i] = session.jobs[i]
<1>1. /\ session \in Store /\ session.jobs \in Seq(JobType) /\ db.jobs \in Seq(JobType)
      /\ boxed \subseteq Games /\ InTable \subseteq Games
    BY StatcastAssumption DEF TypeOK, Store
<1> DEFINE days == Taken(PendingDates)
           row == Len(db.jobs) + 1
           ready == {g \in InTable \cap final :
                       \E r \in OfGame(published, g) : By[r] \in db.players}
           jobs == Append(session.jobs, Job("RUNNING", {}, {}))
<1>2. days \in SUBSET Nat
    <2>1. PendingDates \subseteq Nat
        BY <1>1, StatcastAssumption DEF PendingDates
    <2> QED
        BY <2>1 DEF Taken
<1>3. row \in Nat /\ ready \in SUBSET Games
    BY <1>1
<1>4. Job("RUNNING", {}, {}) \in JobType
    BY DEF Job, JobType
<1>5. jobs \in Seq(JobType) /\ Len(jobs) = Len(session.jobs) + 1
        /\ \A i \in 1..Len(session.jobs) : jobs[i] = session.jobs[i]
    BY <1>1, <1>4
<1>6. /\ run' = [Idle EXCEPT !.pc = "fetch", !.days = days, !.row = row,
                             !.boxed0 = boxed, !.ready0 = ready]
      /\ session' = [session EXCEPT !.jobs = jobs]
    BY DEF Begin
<1> HIDE DEF days, row, ready, jobs
<1>7. session' \in Store /\ session'.pitches = session.pitches
        /\ session'.balls = session.balls /\ session'.players = session.players
        /\ session'.jobs = jobs
    BY <1>1, <1>5, <1>6 DEF Store
<1>8. /\ run' \in RunState /\ run'.pc = "fetch" /\ run'.days = days
      /\ run'.empty = {} /\ run'.touched = {} /\ run'.says = {}
      /\ run'.boxed0 = boxed /\ run'.ready0 = ready
    BY <1>1, <1>2, <1>3, <1>6 DEF RunState, Idle
<1> QED
    BY <1>5, <1>7, <1>8 DEF days, ready

\* A date without rows is put aside; only the status of the source is written.
LEMMA NothingRun ==
    ASSUME TypeOK, FetchNothing
    PROVE  /\ run' \in RunState /\ run'.pc = "fetch" /\ run.pc = "fetch"
           /\ run'.empty = run.empty \cup {Day} /\ run'.days = run.days \ {Day}
           /\ run'.touched = run.touched /\ run'.says = run.says
           /\ run'.fresh = run.fresh
           /\ run'.boxed0 = run.boxed0 /\ run'.ready0 = run.ready0
           /\ session' \in Store /\ session'.pitches = session.pitches
           /\ session'.balls = session.balls /\ session'.players = session.players
           /\ session'.jobs = session.jobs /\ db' = session' /\ faults' \in Nat
<1>1. run \in RunState /\ session \in Store /\ faults \in Nat
    BY DEF TypeOK
<1>2. Day \in Nat
    BY <1>1, FirstDate DEF Day, FetchNothing, RunState
<1> DEFINE days == run.days \ {Day}
           empty == run.empty \cup {Day}
<1>3. days \in SUBSET Nat /\ empty \in SUBSET Nat
    BY <1>1, <1>2 DEF RunState
<1>4. run' = [run EXCEPT !.empty = empty, !.days = days] /\ run.pc = "fetch"
    BY DEF FetchNothing, EmptyDate
<1> HIDE DEF days, empty
<1>5. /\ run' \in RunState /\ run'.pc = run.pc
      /\ run'.empty = empty /\ run'.days = days
      /\ run'.touched = run.touched /\ run'.says = run.says
      /\ run'.fresh = run.fresh
      /\ run'.boxed0 = run.boxed0 /\ run'.ready0 = run.ready0
    BY <1>1, <1>3, <1>4 DEF RunState
<1>6. /\ session' \in Store /\ session'.pitches = session.pitches
      /\ session'.balls = session.balls /\ session'.players = session.players
      /\ session'.jobs = session.jobs /\ faults' \in Nat
    BY <1>1, ReportsOnly DEF FetchNothing
<1> QED
    BY <1>4, <1>5, <1>6 DEF days, empty, FetchNothing, EmptyDate

\* The rows kept of an export: those of scheduled games whose player is stored.
Kept(day, players) == {r \in Mapped(day) : By[r] \in players}

\* The rows of a date are written, with the players they name.
LEMMA RowsRun ==
    ASSUME TypeOK, FetchRows
    PROVE  /\ run' \in RunState /\ run'.pc = "store" /\ run.pc = "fetch"
           /\ run'.empty = run.empty /\ run'.days = run.days
           /\ run'.touched = run.touched /\ run'.says = run.says
           /\ run'.boxed0 = run.boxed0 /\ run'.ready0 = run.ready0
           /\ session' \in Store /\ session'.jobs = session.jobs /\ faults' \in Nat
           /\ session.players \subseteq session'.players
           /\ run'.fresh = {GameOf[r] : r \in Kept(Day, session'.players)}
           /\ session'.pitches = session.pitches \cup Kept(Day, session'.players)
           /\ session'.balls = session.balls \cup (Kept(Day, session'.players) \cap InPlay)
           /\ UNCHANGED <<world, db, said>>
<1>1. run \in RunState /\ session \in Store /\ faults \in Nat /\ session.jobs \in Seq(JobType)
    BY DEF TypeOK, Store
<1>2. PICK answered \in BOOLEAN :
        /\ faults' \in {faults, faults + 1}
        /\ session' = [session EXCEPT
                !.report = Report("OK"), !.players = PlayersFor(Mapped(Day), answered),
                !.pitches = @ \cup Kept(Day, PlayersFor(Mapped(Day), answered)),
                !.balls = @ \cup (Kept(Day, PlayersFor(Mapped(Day), answered)) \cap InPlay)]
        /\ run' = [run EXCEPT !.pc = "store",
                !.fresh = {GameOf[r] : r \in Kept(Day, PlayersFor(Mapped(Day), answered))}]
    BY DEF FetchRows, Kept
<1> DEFINE players == PlayersFor(Mapped(Day), answered)
           kept == Kept(Day, players)
           fresh == {GameOf[r] : r \in kept}
           pitches == session.pitches \cup kept
           balls == session.balls \cup (kept \cap InPlay)
           report == Report("OK")
<1>3. Mapped(Day) \subseteq Rows
    BY DEF Mapped, Export, TypeOK
<1>4. players \in SUBSET Players /\ session.players \subseteq players
    BY <1>1, StatcastAssumption DEF PlayersFor, Store
<1>5. kept \subseteq Rows
    BY <1>3 DEF Kept
<1>6. fresh \in SUBSET Games /\ pitches \in SUBSET Rows /\ balls \in SUBSET Rows
    BY <1>1, <1>5, StatcastAssumption DEF Store
<1>7. report \in Reported
    BY <1>1, ReportType
<1>8. /\ session' = [session EXCEPT !.report = report, !.players = players,
                          !.pitches = pitches, !.balls = balls]
      /\ run' = [run EXCEPT !.pc = "store", !.fresh = fresh]
    BY <1>2
<1>9. run.pc = "fetch" /\ UNCHANGED <<world, db, said>>
    BY DEF FetchRows
<1> HIDE DEF players, kept, fresh, pitches, balls, report
<1>10. /\ session' \in Store /\ session'.jobs = session.jobs
       /\ session'.players = players /\ session'.pitches = pitches
       /\ session'.balls = balls
    BY <1>1, <1>4, <1>6, <1>7, <1>8 DEF Store, Reported
<1>11. /\ run' \in RunState /\ run'.pc = "store" /\ run'.fresh = fresh
       /\ run'.empty = run.empty /\ run'.days = run.days
       /\ run'.touched = run.touched /\ run'.says = run.says
       /\ run'.boxed0 = run.boxed0 /\ run'.ready0 = run.ready0
    BY <1>1, <1>6, <1>8 DEF RunState
<1>12. faults' \in Nat
    BY <1>1, <1>2
<1> QED
    BY <1>4, <1>9, <1>10, <1>11, <1>12 DEF kept, fresh, pitches, balls

\* The date is committed and compared.
LEMMA CommitRun ==
    ASSUME TypeOK, CommitDay
    PROVE  /\ run' \in RunState /\ run'.pc = "reconcile" /\ run.pc = "store"
           /\ run'.empty = run.empty /\ run'.days = run.days
           /\ run'.touched = run.touched \cup run.fresh /\ run'.says = run.says
           /\ run'.fresh = run.fresh
           /\ run'.boxed0 = run.boxed0 /\ run'.ready0 = run.ready0
<1>1. run \in RunState
    BY DEF TypeOK
<1> DEFINE touched == run.touched \cup run.fresh
<1>2. touched \in SUBSET Games
    BY <1>1 DEF RunState
<1>3. run' = [run EXCEPT !.pc = "reconcile", !.touched = touched] /\ run.pc = "store"
    BY DEF CommitDay
<1> HIDE DEF touched
<1>4. /\ run' \in RunState /\ run'.pc = "reconcile"
      /\ run'.empty = run.empty /\ run'.days = run.days
      /\ run'.touched = touched /\ run'.says = run.says /\ run'.fresh = run.fresh
      /\ run'.boxed0 = run.boxed0 /\ run'.ready0 = run.ready0
    BY <1>1, <1>2, <1>3 DEF RunState
<1> QED
    BY <1>3, <1>4 DEF touched

LEMMA ReconcileRun ==
    ASSUME TypeOK, Reconcile
    PROVE  /\ run' \in RunState /\ run'.pc = "fetch" /\ run.pc = "reconcile"
           /\ run'.empty = run.empty /\ run'.days = run.days \ {Day}
           /\ run'.touched = run.touched
           /\ run'.says = run.says \cup {g \in run.fresh : Disagrees(g)}
           /\ run'.boxed0 = run.boxed0 /\ run'.ready0 = run.ready0
<1>1. run \in RunState
    BY DEF TypeOK
<1> DEFINE days == run.days \ {Day}
           says == run.says \cup {g \in run.fresh : Disagrees(g)}
<1>2. days \in SUBSET Nat /\ says \in SUBSET Games
    BY <1>1 DEF RunState
<1>3. /\ run' = [run EXCEPT !.pc = "fetch", !.days = days, !.fresh = {}, !.says = says]
      /\ run.pc = "reconcile"
    BY DEF Reconcile
<1> HIDE DEF days, says
<1>4. /\ run' \in RunState /\ run'.pc = "fetch"
      /\ run'.empty = run.empty /\ run'.days = days
      /\ run'.touched = run.touched /\ run'.says = says
      /\ run'.boxed0 = run.boxed0 /\ run'.ready0 = run.ready0
    BY <1>1, <1>2, <1>3 DEF RunState
<1> QED
    BY <1>3, <1>4 DEF days, says

\* The row of the run becomes SUCCESS, and the others stay.
LEMMA FinishRun ==
    ASSUME TypeOK, Finish
    PROVE  /\ run' = Idle /\ run'.pc = "idle" /\ run' \in RunState
           /\ run.pc = "fetch" /\ run.days = {}
           /\ session' \in Store /\ db' = session'
           /\ session'.pitches = session.pitches /\ session'.balls = session.balls
           /\ session'.players = session.players
           /\ DOMAIN session'.jobs = DOMAIN session.jobs
           /\ \A i \in DOMAIN session.jobs : i # run.row =>
                session'.jobs[i] = session.jobs[i]
           /\ run.row \in DOMAIN session.jobs =>
                session'.jobs[run.row] = Job("SUCCESS", run.touched, run.says)
<1>1. run \in RunState /\ session \in Store /\ session.jobs \in Seq(JobType)
    BY DEF TypeOK, Store
<1> DEFINE job == Job("SUCCESS", run.touched, run.says)
           jobs == [session.jobs EXCEPT ![run.row] = job]
<1>2. job \in JobType
    BY <1>1 DEF Job, JobType, RunState
<1> HIDE DEF job
<1>3. /\ jobs \in Seq(JobType) /\ DOMAIN jobs = DOMAIN session.jobs
      /\ \A i \in DOMAIN session.jobs : i # run.row => jobs[i] = session.jobs[i]
      /\ run.row \in DOMAIN session.jobs => jobs[run.row] = job
    <2> DEFINE n == Len(session.jobs)
    <2>1. session.jobs \in [1..n -> JobType] /\ n \in Nat
        BY <1>1
    <2>2. jobs \in [1..n -> JobType]
        BY <1>2, <2>1
    <2>3. jobs \in Seq(JobType)
        BY <2>1, <2>2
    <2> QED
        BY <2>1, <2>2, <2>3
<1>4. session' = [session EXCEPT !.jobs = jobs]
    BY DEF Finish, job
<1> HIDE DEF jobs
<1>5. /\ session' \in Store /\ session'.jobs = jobs
      /\ session'.pitches = session.pitches /\ session'.balls = session.balls
      /\ session'.players = session.players
    BY <1>1, <1>3, <1>4 DEF Store
<1>6. /\ run' = Idle /\ run'.pc = "idle" /\ run' \in RunState
      /\ run.pc = "fetch" /\ run.days = {} /\ db' = session'
    BY IdleIsRunState DEF Finish, Idle
<1> QED
    BY <1>3, <1>5, <1>6 DEF job

\* The failure is recorded after what is committed, and nothing else is.
LEMMA RaiseRun ==
    ASSUME TypeOK, Raise
    PROVE  /\ run' = Idle /\ run'.pc = "idle" /\ run' \in RunState
           /\ db' \in Store /\ session' = db' /\ faults' \in Nat
           /\ db'.pitches = db.pitches /\ db'.balls = db.balls
           /\ db'.players = db.players
           /\ DOMAIN db.jobs = 1..Len(db.jobs)
           /\ DOMAIN db'.jobs = 1..(Len(db.jobs) + 1)
           /\ \A i \in 1..Len(db.jobs) : db'.jobs[i] = db.jobs[i]
           /\ db'.jobs[Len(db.jobs) + 1].status = "FAILED"
<1>1. db \in Store /\ db.jobs \in Seq(JobType) /\ faults \in Nat
    BY DEF TypeOK, Store
<1> DEFINE job == Job("FAILED", {}, {})
           jobs == Append(db.jobs, job)
<1>2. job \in JobType /\ job.status = "FAILED"
    BY DEF Job, JobType
<1> HIDE DEF job
<1>3. /\ jobs \in Seq(JobType) /\ DOMAIN jobs = 1..(Len(db.jobs) + 1)
      /\ DOMAIN db.jobs = 1..Len(db.jobs)
      /\ \A i \in 1..Len(db.jobs) : jobs[i] = db.jobs[i]
      /\ jobs[Len(db.jobs) + 1] = job
    <2>1. jobs \in Seq(JobType) /\ Len(jobs) = Len(db.jobs) + 1
        BY <1>1, <1>2
    <2>2. \A i \in 1..Len(db.jobs) : jobs[i] = db.jobs[i]
        BY <1>1, <1>2
    <2>3. jobs[Len(db.jobs) + 1] = job
        BY <1>1, <1>2
    <2> QED
        BY <1>1, <2>1, <2>2, <2>3
<1>4. db' = [db EXCEPT !.jobs = jobs] /\ session' = db'
    BY DEF Raise, AfterRollback, job
<1> HIDE DEF jobs
<1>5. /\ db' \in Store /\ db'.jobs = jobs
      /\ db'.pitches = db.pitches /\ db'.balls = db.balls
      /\ db'.players = db.players
    BY <1>1, <1>3, <1>4 DEF Store
<1>6. run' = Idle /\ run'.pc = "idle" /\ run' \in RunState /\ faults' \in Nat
    BY <1>1, IdleIsRunState DEF Raise, Idle
<1> QED
    BY <1>2, <1>3, <1>4, <1>5, <1>6

\* Before the backfill begins nothing of Statcast is stored.
LEMMA InitDb ==
    ASSUME Init
    PROVE  /\ db \in Store /\ session = db
           /\ db.pitches = {} /\ db.balls = {} /\ db.jobs = <<>>
<1> DEFINE report == [status |-> "UNAVAILABLE", failures |-> 0]
<1>1. report \in Reported
    BY DEF Reported
<1>2. <<>> \in Seq(JobType)
    OBVIOUS
<1>3. db = [pitches |-> {}, balls |-> {}, players |-> Stored, report |-> report,
            jobs |-> <<>>]
    BY DEF Init
<1> HIDE DEF report
<1>4. Stored \subseteq Players
    BY StatcastAssumption
<1> QED
    BY <1>1, <1>2, <1>3, <1>4 DEF Init, Store, Reported

LEMMA InitTypeOK == Init => TypeOK
<1> SUFFICES ASSUME Init PROVE TypeOK
    OBVIOUS
<1>1. db \in Store /\ session \in Store
    BY InitDb
<1>2. final \subseteq InTable /\ boxed \subseteq final /\ published \subseteq Rows
    BY StatcastAssumption DEF Init
<1> QED
    BY <1>1, <1>2, IdleIsRunState DEF Init, TypeOK

\* What the other jobs and the source do to the world.
LEMMA WorldType ==
    ASSUME TypeOK, World
    PROVE  /\ final' \subseteq InTable /\ boxed' \subseteq final' /\ published' \subseteq Rows
           /\ taught' \in BOOLEAN
           /\ boxed \subseteq boxed' /\ published \subseteq published'
           /\ UNCHANGED <<db, session, run, said, faults>>
BY DEF World, TypeOK, EndGame, StoreBox, Publish, Teach

\* Every step keeps the types.
LEMMA NextTypeOK == TypeOK /\ [Next]_svars => TypeOK'
<1> SUFFICES ASSUME TypeOK, [Next]_svars PROVE TypeOK'
    OBVIOUS
<1>1. CASE UNCHANGED svars
    BY <1>1 DEF TypeOK, svars, world
<1>2. CASE World
    BY <1>2, WorldType DEF TypeOK
<1>3. CASE Begin
    BY <1>3, BeginRun DEF TypeOK, Begin, world
<1>4. CASE FetchNothing
    BY <1>4, NothingRun DEF TypeOK, FetchNothing, world
<1>5. CASE FetchRows
    BY <1>5, RowsRun DEF TypeOK, world
<1>6. CASE CommitDay
    BY <1>6, CommitRun DEF TypeOK, CommitDay, world
<1>7. CASE Reconcile
    BY <1>7, ReconcileRun DEF TypeOK, Reconcile, world
<1>8. CASE Finish
    BY <1>8, FinishRun DEF TypeOK, Finish, Summary, world
<1>9. CASE Raise
    BY <1>9, RaiseRun DEF TypeOK, Raise, Summary, world
<1>10. CASE Die
    BY <1>10, IdleIsRunState DEF TypeOK, Die, Summary, world
<1> QED
    BY <1>1, <1>2, <1>3, <1>4, <1>5, <1>6, <1>7, <1>8, <1>9, <1>10 DEF Next, Steps

\* Every variable has its type in every reachable state (statcast.py).
THEOREM StatcastTypeCorrect == Spec => []TypeOK
<1> QED
    BY InitTypeOK, NextTypeOK, PTL DEF Spec

-----------------------------------------------------------------------------
(* Committed together.                                                     *)

\* Every step keeps what belongs together.
LEMMA NextTogetherInv == TogetherInv /\ [Next]_svars => TogetherInv'
<1> SUFFICES ASSUME TogetherInv, [Next]_svars PROVE TogetherInv'
    OBVIOUS
<1>0. TypeOK /\ TypeOK' /\ Together(db) /\ Together(session)
    BY NextTypeOK DEF TogetherInv
<1>1. CASE UNCHANGED svars
    BY <1>0, <1>1 DEF TogetherInv, Together, svars, world
<1>2. CASE World
    BY <1>0, <1>2, WorldType DEF TogetherInv, Together
<1>3. CASE Begin
    BY <1>0, <1>3, BeginRun DEF TogetherInv, Together, Begin, world
<1>4. CASE FetchNothing
    BY <1>0, <1>4, NothingRun DEF TogetherInv, Together, FetchNothing, world
<1>5. CASE FetchRows
    <2>1. /\ session'.pitches = session.pitches \cup Kept(Day, session'.players)
          /\ session'.balls = session.balls \cup (Kept(Day, session'.players) \cap InPlay)
          /\ session.players \subseteq session'.players
          /\ published' = published /\ db' = db
        BY <1>0, <1>5, RowsRun DEF world
    <2>2. \A r \in Kept(Day, session'.players) :
            r \in published /\ GameOf[r] \in InTable /\ By[r] \in session'.players
        BY DEF Kept, Mapped, Export
    <2>3. Together(session)'
        BY <1>0, <2>1, <2>2 DEF Together
    <2> QED
        BY <1>0, <2>1, <2>3 DEF TogetherInv, Together
<1>6. CASE CommitDay
    BY <1>0, <1>6 DEF TogetherInv, Together, CommitDay, world
<1>7. CASE Reconcile
    BY <1>0, <1>7 DEF TogetherInv, Together, Reconcile, world
<1>8. CASE Finish
    BY <1>0, <1>8, FinishRun DEF TogetherInv, Together, Finish, world
<1>9. CASE Raise
    BY <1>0, <1>9, RaiseRun DEF TogetherInv, Together, Raise, world
<1>10. CASE Die
    BY <1>0, <1>10 DEF TogetherInv, Together, Die, world
<1> QED
    BY <1>1, <1>2, <1>3, <1>4, <1>5, <1>6, <1>7, <1>8, <1>9, <1>10 DEF Next, Steps

\* What is committed belongs together: each ball in play with its pitch, each
\* row with its game and player (_store_rows, run_statcast_ingest).
THEOREM TogetherCorrect == Spec => []StoredTogether
<1>1. Init => TogetherInv
    BY InitTypeOK, InitDb DEF TogetherInv, Together
<1>2. TogetherInv => StoredTogether
    BY DEF TogetherInv, Together, StoredTogether
<1> QED
    BY <1>1, <1>2, NextTogetherInv, PTL DEF Spec

-----------------------------------------------------------------------------
(* What a successful run has done.                                         *)

\* More rows of a game are more of its rows.
LEMMA MoreRows ==
    ASSUME NEW s, NEW t, s \subseteq t, NEW g
    PROVE  OfGame(s, g) \subseteq OfGame(t, g)
BY DEF OfGame

LEMMA NextAhead == TypeOK /\ Ahead /\ [Next]_svars => Ahead'
<1> SUFFICES ASSUME TypeOK, Ahead, [Next]_svars PROVE Ahead'
    OBVIOUS
<1>0. Len(db.jobs) \in Nat /\ Len(session.jobs) \in Nat
    BY DEF TypeOK, Store
<1>1. CASE UNCHANGED svars
    BY <1>1 DEF Ahead, svars
<1>2. CASE World
    BY <1>2 DEF Ahead, World
<1>3. CASE Begin
    <2>1. /\ run'.pc = "fetch" /\ db' = db /\ Len(session'.jobs) = Len(session.jobs) + 1
          /\ \A i \in 1..Len(session.jobs) : session'.jobs[i] = session.jobs[i]
        BY <1>3, BeginRun DEF Begin
    <2> QED
        BY <1>0, <2>1 DEF Ahead
<1>4. CASE FetchNothing
    BY <1>0, <1>4, NothingRun DEF Ahead
<1>5. CASE FetchRows
    BY <1>5, RowsRun DEF Ahead
<1>6. CASE CommitDay
    BY <1>0, <1>6, CommitRun DEF Ahead, CommitDay
<1>7. CASE Reconcile
    BY <1>7, ReconcileRun DEF Ahead, Reconcile
<1>8. CASE Finish
    <2>1. db' = session' /\ session' \in Store
        BY <1>8, FinishRun
    <2>2. Len(db'.jobs) \in Nat
        BY <2>1 DEF Store
    <2> QED
        BY <2>1, <2>2 DEF Ahead
<1>9. CASE Raise
    <2>1. db' = session' /\ db' \in Store
        BY <1>9, RaiseRun
    <2>2. Len(db'.jobs) \in Nat
        BY <2>1 DEF Store
    <2> QED
        BY <2>1, <2>2 DEF Ahead
<1>10. CASE Die
    BY <1>0, <1>10 DEF Ahead, Die
<1> QED
    BY <1>1, <1>2, <1>3, <1>4, <1>5, <1>6, <1>7, <1>8, <1>9, <1>10 DEF Next, Steps

\* Only the end of a run makes its row a success.
LEMMA OnlyFinishSucceeds ==
    ASSUME TypeOK, Ahead, [Next]_svars, NEW i \in DOMAIN db'.jobs,
           i \in DOMAIN session.jobs, session.jobs[i].status = "RUNNING",
           db'.jobs[i].status = "SUCCESS"
    PROVE  Finish /\ i = run.row
<1>0. /\ db.jobs \in Seq(JobType) /\ session.jobs \in Seq(JobType)
      /\ DOMAIN db.jobs = 1..Len(db.jobs) /\ DOMAIN session.jobs = 1..Len(session.jobs)
    BY DEF TypeOK, Store
<1>1. db' # db
    BY <1>0 DEF Ahead
<1>2. db'.jobs # session.jobs
    OBVIOUS
<1>3. ~ FetchNothing
    BY <1>2, NothingRun
<1>4. ~ Raise
    <2> SUFFICES ASSUME Raise PROVE FALSE
        OBVIOUS
    <2>1. /\ DOMAIN db'.jobs = 1..(Len(db.jobs) + 1)
          /\ \A j \in 1..Len(db.jobs) : db'.jobs[j] = db.jobs[j]
          /\ db'.jobs[Len(db.jobs) + 1].status = "FAILED"
        BY RaiseRun
    <2>2. i \in 1..Len(db.jobs)
        BY <1>0, <2>1
    <2> QED
        BY <2>1, <2>2 DEF Ahead
<1>5. ~ CommitDay
    BY <1>2 DEF CommitDay
<1>6. Finish
    BY <1>1, <1>3, <1>4, <1>5
       DEF Next, Steps, World, Begin, FetchRows, Reconcile, Die, svars
<1>7. i = run.row
    BY <1>6, FinishRun
<1> QED
    BY <1>6, <1>7

LEMMA NextStillReady ==
    TypeOK /\ Ahead /\ StillReady /\ [Next]_svars => StillReady'
<1> SUFFICES ASSUME TypeOK, Ahead, StillReady, [Next]_svars PROVE StillReady'
    OBVIOUS
<1>1. CASE UNCHANGED svars
    BY <1>1 DEF StillReady, svars, world
<1>2. CASE World
    <2>1. published \subseteq published' /\ UNCHANGED <<session, run>>
        BY <1>2, WorldType
    <2> QED
        BY <2>1, MoreRows DEF StillReady
<1>3. CASE Begin
    <2>1. session = db /\ session'.players = session.players /\ published' = published
        BY <1>3, BeginRun DEF Ahead, Begin, world
    <2> QED
        BY <1>3, <2>1, BeginRun DEF StillReady
<1>4. CASE FetchNothing
    BY <1>4, NothingRun DEF StillReady, FetchNothing, world
<1>5. CASE FetchRows
    <2>1. /\ session.players \subseteq session'.players /\ published' = published
          /\ run'.ready0 = run.ready0 /\ run.pc # "idle"
        BY <1>5, RowsRun DEF world
    <2> QED
        BY <2>1 DEF StillReady
<1>6. CASE CommitDay
    BY <1>6, CommitRun DEF StillReady, CommitDay, world
<1>7. CASE Reconcile
    BY <1>7, ReconcileRun DEF StillReady, Reconcile, world
<1>8. CASE Finish \/ Raise \/ Die
    <2>1. run'.pc = "idle"
        BY <1>8 DEF Finish, Raise, Die, Idle
    <2> QED
        BY <2>1 DEF StillReady
<1> QED
    BY <1>1, <1>2, <1>3, <1>4, <1>5, <1>6, <1>7, <1>8 DEF Next, Steps

\* The games of a date that can be stored have rows once it is written.
LEMMA WrittenDate ==
    ASSUME TypeOK, StillReady, FetchRows, NEW g \in run.ready0, DateOf[g] = Day
    PROVE  OfGame(session'.pitches, g) # {}
<1>1. /\ session'.pitches = session.pitches \cup Kept(Day, session'.players)
      /\ session.players \subseteq session'.players /\ run.pc # "idle"
    BY RowsRun
<1>2. PICK r \in OfGame(published, g) : By[r] \in session.players /\ g \in InTable
    BY <1>1 DEF StillReady
<1>3. r \in published /\ GameOf[r] = g /\ g \in InTable
    BY <1>2 DEF OfGame
<1>4. r \in Kept(Day, session'.players)
    BY <1>1, <1>2, <1>3 DEF Kept, Mapped, Export
<1> QED
    BY <1>1, <1>3, <1>4 DEF OfGame

LEMMA NextPursued ==
    TypeOK /\ Ahead /\ StillReady /\ Pursued /\ [Next]_svars => Pursued'
<1> SUFFICES ASSUME TypeOK, Ahead, StillReady, Pursued, [Next]_svars PROVE Pursued'
    OBVIOUS
<1>1. CASE UNCHANGED svars
    BY <1>1 DEF Pursued, Day, svars
<1>2. CASE World
    BY <1>2 DEF Pursued, Day, World
<1>3. CASE Begin
    <2> SUFFICES ASSUME Limit = 0, NEW g \in run'.ready0, OfGame(session'.pitches, g) = {}
                 PROVE  DateOf[g] \in run'.days
        BY <1>3, BeginRun DEF Pursued
    <2>1. g \in InTable \cap final /\ OfGame(session.pitches, g) = {}
        BY <1>3, BeginRun
    <2>2. DateOf[g] \in PendingDates
        BY <2>1 DEF PendingDates, GamesOn
    <2>3. DateOf[g] \in Taken(PendingDates)
        BY <2>2 DEF Taken
    <2> QED
        BY <1>3, <2>3, BeginRun
<1>4. CASE FetchNothing
    <2>1. /\ run'.pc = "fetch" /\ run.pc = "fetch" /\ run'.ready0 = run.ready0
          /\ run'.days \cup run'.empty = run.days \cup run.empty \cup {Day}
          /\ session'.pitches = session.pitches
        BY <1>4, NothingRun
    <2> QED
        BY <2>1 DEF Pursued
<1>5. CASE FetchRows
    <2>1. /\ run'.pc = "store" /\ run.pc = "fetch" /\ run'.ready0 = run.ready0
          /\ run'.days = run.days /\ run'.empty = run.empty
          /\ session.pitches \subseteq session'.pitches
        BY <1>5, RowsRun
    <2>2. Day' = Day
        BY <2>1 DEF Day
    <2>3. \A g \in run.ready0 : DateOf[g] = Day => OfGame(session'.pitches, g) # {}
        BY <1>5, WrittenDate
    <2>4. \A g : OfGame(session.pitches, g) \subseteq OfGame(session'.pitches, g)
        BY <2>1, MoreRows
    <2> QED
        BY <2>1, <2>2, <2>3, <2>4 DEF Pursued
<1>6. CASE CommitDay
    <2>1. /\ run'.pc = "reconcile" /\ run.pc = "store" /\ run'.ready0 = run.ready0
          /\ run'.days = run.days /\ run'.empty = run.empty /\ session' = session
        BY <1>6, CommitRun DEF CommitDay
    <2>2. Day' = Day
        BY <2>1 DEF Day
    <2> QED
        BY <2>1, <2>2 DEF Pursued
<1>7. CASE Reconcile
    <2>1. /\ run'.pc = "fetch" /\ run.pc = "reconcile" /\ run'.ready0 = run.ready0
          /\ run'.days = run.days \ {Day} /\ run'.empty = run.empty
          /\ session' = session
        BY <1>7, ReconcileRun DEF Reconcile
    <2> QED
        BY <2>1 DEF Pursued
<1>8. CASE Finish \/ Raise \/ Die
    <2>1. run'.pc = "idle"
        BY <1>8 DEF Finish, Raise, Die, Idle
    <2> QED
        BY <2>1 DEF Pursued
<1> QED
    BY <1>1, <1>2, <1>3, <1>4, <1>5, <1>6, <1>7, <1>8 DEF Next, Steps

\* What is found of a game depends on its own rows only.
LEMMA SameRows ==
    ASSUME NEW s, NEW t, NEW g, OfGame(s.pitches, g) = OfGame(t.pitches, g),
           OfGame(s.balls, g) = OfGame(t.balls, g)
    PROVE  Discrepancies(s, g) = Discrepancies(t, g)
<1>1. Statcast(s, g) = Statcast(t, g)
    BY DEF Statcast
<1> QED
    BY <1>1 DEF Discrepancies

\* The rows of a date are rows of no game of another date.
LEMMA OtherDates ==
    ASSUME TypeOK, FetchRows, NEW g, DateOf[g] # Day
    PROVE  Discrepancies(session', g) = Discrepancies(session, g)
<1>1. /\ session'.pitches = session.pitches \cup Kept(Day, session'.players)
      /\ session'.balls = session.balls \cup (Kept(Day, session'.players) \cap InPlay)
    BY RowsRun
<1>2. OfGame(Kept(Day, session'.players), g) = {}
    BY DEF OfGame, Kept, Mapped, Export
<1>3. /\ OfGame(session'.pitches, g) = OfGame(session.pitches, g)
      /\ OfGame(session'.balls, g) = OfGame(session.balls, g)
    BY <1>1, <1>2 DEF OfGame
<1> QED
    BY <1>3, SameRows

LEMMA NextDatesDone == TypeOK /\ DatesDone /\ [Next]_svars => DatesDone'
<1> SUFFICES ASSUME TypeOK, DatesDone, [Next]_svars PROVE DatesDone'
    OBVIOUS
<1>1. CASE UNCHANGED svars
    BY <1>1 DEF DatesDone, Day, svars
<1>2. CASE World
    BY <1>2 DEF DatesDone, Day, World
<1>3. CASE Begin
    BY <1>3, BeginRun DEF DatesDone
<1>4. CASE FetchNothing
    BY <1>4, NothingRun DEF DatesDone
<1>5. CASE FetchRows
    <2>1. /\ run'.pc = "store" /\ run.pc = "fetch" /\ run'.days = run.days
          /\ run'.touched = run.touched
          /\ run'.fresh = {GameOf[r] : r \in Kept(Day, session'.players)}
        BY <1>5, RowsRun
    <2>2. Day' = Day
        BY <2>1 DEF Day
    <2>3. \A g \in run'.fresh : DateOf[g] = Day
        BY <2>1 DEF Kept, Mapped, Export
    <2> QED
        BY <2>1, <2>2, <2>3 DEF DatesDone
<1>6. CASE CommitDay
    <2>1. /\ run'.pc = "reconcile" /\ run.pc = "store" /\ run'.days = run.days
          /\ run'.touched = run.touched \cup run.fresh /\ run'.fresh = run.fresh
        BY <1>6, CommitRun
    <2>2. Day' = Day
        BY <2>1 DEF Day
    <2> QED
        BY <2>1, <2>2 DEF DatesDone
<1>7. CASE Reconcile
    <2>1. /\ run'.pc = "fetch" /\ run.pc = "reconcile" /\ run'.touched = run.touched
          /\ run'.days = run.days \ {Day}
        BY <1>7, ReconcileRun
    <2> QED
        BY <2>1 DEF DatesDone
<1>8. CASE Finish \/ Raise \/ Die
    <2>1. run'.pc = "idle"
        BY <1>8 DEF Finish, Raise, Die, Idle
    <2> QED
        BY <2>1 DEF DatesDone
<1> QED
    BY <1>1, <1>2, <1>3, <1>4, <1>5, <1>6, <1>7, <1>8 DEF Next, Steps

LEMMA NextNamed == TypeOK /\ DatesDone /\ Named /\ [Next]_svars => Named'
<1> SUFFICES ASSUME TypeOK, DatesDone, Named, [Next]_svars PROVE Named'
    OBVIOUS
<1>1. CASE UNCHANGED svars
    BY <1>1 DEF Named, svars, world
<1>2. CASE World
    <2>1. boxed \subseteq boxed' /\ UNCHANGED <<session, run>>
        BY <1>2, WorldType
    <2> QED
        BY <2>1 DEF Named
<1>3. CASE Begin
    BY <1>3, BeginRun DEF Named, Begin, world
<1>4. CASE FetchNothing
    <2>1. /\ run'.pc = "fetch" /\ run.pc = "fetch" /\ run'.touched = run.touched
          /\ run'.says = run.says /\ run'.boxed0 = run.boxed0 /\ boxed' = boxed
          /\ session'.pitches = session.pitches /\ session'.balls = session.balls
        BY <1>4, NothingRun DEF FetchNothing, world
    <2>2. \A g : Discrepancies(session', g) = Discrepancies(session, g)
        BY <2>1, SameRows
    <2> QED
        BY <2>1, <2>2 DEF Named
<1>5. CASE FetchRows
    <2>1. /\ run'.pc = "store" /\ run.pc = "fetch" /\ run'.touched = run.touched
          /\ run'.says = run.says /\ run'.boxed0 = run.boxed0 /\ boxed' = boxed
        BY <1>5, RowsRun DEF world
    <2>2. Day \in run.days
        BY <1>5, FirstDate DEF FetchRows, Day, TypeOK, RunState
    <2>3. \A g \in run.touched : Discrepancies(session', g) = Discrepancies(session, g)
        BY <1>5, <2>1, <2>2, OtherDates DEF DatesDone
    <2> QED
        BY <2>1, <2>3 DEF Named
<1>6. CASE CommitDay
    <2>1. /\ run'.pc = "reconcile" /\ run.pc = "store" /\ run'.fresh = run.fresh
          /\ run'.touched = run.touched \cup run.fresh /\ run'.says = run.says
          /\ run'.boxed0 = run.boxed0 /\ boxed' = boxed /\ session' = session
        BY <1>6, CommitRun DEF CommitDay, world
    <2> QED
        BY <2>1 DEF Named
<1>7. CASE Reconcile
    <2>1. /\ run'.pc = "fetch" /\ run.pc = "reconcile" /\ run'.touched = run.touched
          /\ run'.says = run.says \cup {g \in run.fresh : Disagrees(g)}
          /\ run'.boxed0 = run.boxed0 /\ boxed' = boxed /\ session' = session
        BY <1>7, ReconcileRun DEF Reconcile, world
    <2>2. \A g \in run.fresh \cap run.boxed0 :
            Discrepancies(session, g) # {} => Disagrees(g)
        BY <2>1 DEF Named, Disagrees
    <2> QED
        BY <2>1, <2>2 DEF Named
<1>8. CASE Finish \/ Raise \/ Die
    <2>1. run'.pc = "idle"
        BY <1>8 DEF Finish, Raise, Die, Idle
    <2> QED
        BY <2>1 DEF Named
<1> QED
    BY <1>1, <1>2, <1>3, <1>4, <1>5, <1>6, <1>7, <1>8 DEF Next, Steps

LEMMA InitRunInv == Init => RunInv
<1> SUFFICES ASSUME Init PROVE RunInv
    OBVIOUS
<1>1. TypeOK /\ session = db /\ db.jobs = <<>> /\ run.pc = "idle"
    BY InitTypeOK, InitDb DEF Init, Idle
<1>2. Ahead
    BY <1>1 DEF Ahead
<1> QED
    BY <1>1, <1>2 DEF RunInv, StillReady, Pursued, DatesDone, Named

LEMMA NextRunInv == RunInv /\ [Next]_svars => RunInv'
BY NextTypeOK, NextAhead, NextStillReady, NextPursued, NextDatesDone, NextNamed
   DEF RunInv

\* A run without a limit that reports success leaves out no game it could have
\* stored, but those of the dates it reports empty (run_statcast_ingest: every
\* date with a game that has no row at all is asked for, in order).
THEOREM SuccessCorrect == Spec => SuccessLeavesNothing
<1> DEFINE Step ==
      (\E i \in DOMAIN db'.jobs :
          i \in DOMAIN session.jobs /\ session.jobs[i].status = "RUNNING"
          /\ db'.jobs[i].status = "SUCCESS")
      => \A g \in run.ready0 :
           Limit # 0 \/ DateOf[g] \in run.empty \/ OfGame(db'.pitches, g) # {}
<1>1. RunInv /\ [Next]_svars => Step
    <2> SUFFICES ASSUME RunInv, [Next]_svars, NEW i \in DOMAIN db'.jobs,
                        i \in DOMAIN session.jobs, session.jobs[i].status = "RUNNING",
                        db'.jobs[i].status = "SUCCESS",
                        NEW g \in run.ready0, Limit = 0
                 PROVE  DateOf[g] \in run.empty \/ OfGame(db'.pitches, g) # {}
        OBVIOUS
    <2>1. TypeOK /\ Pursued /\ Finish
        BY OnlyFinishSucceeds DEF RunInv
    <2>2. run.pc = "fetch" /\ run.days = {} /\ db'.pitches = session.pitches
        BY <2>1, FinishRun
    <2> QED
        BY <2>1, <2>2 DEF Pursued
<1>2. SuccessLeavesNothing <=> [][Step]_svars
    BY DEF SuccessLeavesNothing
<1> HIDE DEF Step
<1>3. Spec => [][Step]_svars
    BY <1>1, InitRunInv, NextRunInv, PTL DEF Spec
<1> QED
    BY <1>2, <1>3

\* A run that reports success has found every game it stored which is off, by
\* more than the tolerances, from the box score that was there when it began
\* (reconcile_game, job_run).
THEOREM ShortGamesCorrect == Spec => ShortGamesNamed
<1> DEFINE Step ==
      \A i \in DOMAIN db'.jobs :
        (i \in DOMAIN session.jobs /\ session.jobs[i].status = "RUNNING"
         /\ db'.jobs[i].status = "SUCCESS")
        => \A g \in db'.jobs[i].touched \cap run.boxed0 :
             Discrepancies(db', g) # {} => g \in db'.jobs[i].says
<1>1. RunInv /\ [Next]_svars => Step
    <2> SUFFICES ASSUME RunInv, [Next]_svars, NEW i \in DOMAIN db'.jobs,
                        i \in DOMAIN session.jobs, session.jobs[i].status = "RUNNING",
                        db'.jobs[i].status = "SUCCESS",
                        NEW g \in db'.jobs[i].touched \cap run.boxed0,
                        Discrepancies(db', g) # {}
                 PROVE  g \in db'.jobs[i].says
        OBVIOUS
    <2>1. TypeOK /\ Named /\ Finish /\ i = run.row
        BY OnlyFinishSucceeds DEF RunInv
    <2>2. /\ run.pc = "fetch" /\ db'.pitches = session.pitches
          /\ db'.balls = session.balls
          /\ db'.jobs[i] = Job("SUCCESS", run.touched, run.says)
        BY <2>1, FinishRun
    <2>3. db'.jobs[i].touched = run.touched /\ db'.jobs[i].says = run.says
        BY <2>2 DEF Job
    <2>4. Discrepancies(db', g) = Discrepancies(session, g)
        BY <2>2, SameRows
    <2> QED
        BY <2>1, <2>2, <2>3, <2>4 DEF Named
<1>2. ShortGamesNamed <=> [][Step]_svars
    BY DEF ShortGamesNamed
<1> HIDE DEF Step
<1>3. Spec => [][Step]_svars
    BY <1>1, InitRunInv, NextRunInv, PTL DEF Spec
<1> QED
    BY <1>2, <1>3

=============================================================================
