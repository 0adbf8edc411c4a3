----------------------------- MODULE DataStore ------------------------------
(***************************************************************************)
(* The database as a release asset: every workflow that needs it starts an *)
(* empty PostgreSQL, restores the dump (.github/actions/db-restore), works *)
(* and, if it writes, saves a new dump (.github/actions/db-save).          *)
(*                                                                         *)
(* The release holds assets under three names.  Writers run one at a time, *)
(* in the concurrency group `jerry-data`; the publish job only restores    *)
(* and is outside the group, so its download may fall anywhere in a save.  *)
(* A run may be cancelled, time out or lose an API call between any two    *)
(* steps, and nothing cleans up after it.                                  *)
(*                                                                         *)
(* A database is the set of work units it holds: the run that wrote it,    *)
(* and which of the run's saves it was written for.                        *)
(***************************************************************************)
EXTENDS Naturals, Sequences

CONSTANTS
    Writers,    \* of "refresh", "pregame", "seed", "statcast"
    Readers,    \* "pages", or nothing
    NoRun,      \* no run pending
    Absent,     \* no asset of that name, nothing published
    NoSchema,   \* a database without tables
    MaxRuns,    \* bound: writer runs started
    MaxFaults,  \* bound: downloads and uploads that fail
    MaxBreaks   \* bound: runs cut short, and other steps that fail

Workflows == Writers \cup Readers

Units == Nat \X {0, 1}
Dumps == SUBSET Units

ASSUME StoreAssumption ==
    /\ Writers \cap Readers = {}
    /\ Readers \cap {"seed", "statcast"} = {}
    /\ NoRun \notin Workflows
    /\ Absent \notin Dumps /\ NoSchema \notin Dumps
    /\ {MaxRuns, MaxFaults, MaxBreaks} \subseteq Nat

VARIABLES
    created,  \* whether the `data` release exists
    release,  \* the assets of the release, by name
    issued,   \* the dumps that have been the primary asset, in order
    pending,  \* the run waiting for the group
    job,      \* each workflow's run
    result,   \* how each workflow's last run ended
    site,     \* the database the published site was built from
    runs, faults, breaks  \* how much of each bound is used

counters == <<runs, faults, breaks>>
svars == <<created, release, issued, pending, job, result, site, counters>>

Names == {"primary", "previous", "staging"}

Origin == {<<0, 0>>}

JobState == [pc : {"idle", "restore", "load", "work", "save", "uploaded",
                   "retired", "displaced"},
             tries : 0..2, db : Dumps \cup {NoSchema},
             run : Nat, saves : {0, 1}]

Idle == [pc |-> "idle", tries |-> 0, db |-> NoSchema, run |-> 0, saves |-> 0]

\* A new repository, or one whose store was seeded before.
Init ==
    /\ issued \in {<<>>, <<Origin>>}
    /\ created = (issued # <<>>)
    /\ release = [n \in Names |->
                    IF n = "primary" /\ issued # <<>> THEN Origin ELSE Absent]
    /\ pending = NoRun
    /\ job = [k \in Workflows |-> Idle]
    /\ result = [k \in Workflows |-> "none"]
    /\ site = Absent
    /\ runs = 0 /\ faults = 0 /\ breaks = 0

-----------------------------------------------------------------------------
(* The concurrency groups.                                                 *)

\* A run asked for while the group is busy replaces the one that was waiting.
Dispatch(k) ==
    /\ k \in Writers
    /\ runs < MaxRuns
    /\ pending' = k
    /\ UNCHANGED <<created, release, issued, job, result, site, counters>>

\* Mutant: a workflow that is not in the group waits for itself only.
OwnGroupFree(k) == job[k].pc = "idle"

GroupFree(k) == \A w \in Writers : job[w].pc = "idle"

Start(k) ==
    /\ pending = k
    /\ GroupFree(k)
    /\ runs < MaxRuns
    /\ runs' = runs + 1
    /\ pending' = NoRun
    /\ job' = [job EXCEPT ![k] = [Idle EXCEPT !.pc = "restore", !.run = runs + 1]]
    /\ result' = [result EXCEPT ![k] = "none"]
    /\ UNCHANGED <<created, release, issued, site, faults, breaks>>

\* The publish job has a group of its own.
StartReader(k) ==
    /\ k \in Readers
    /\ job[k].pc = "idle"
    /\ job' = [job EXCEPT ![k].pc = "restore"]
    /\ result' = [result EXCEPT ![k] = "none"]
    /\ UNCHANGED <<created, release, issued, pending, site, counters>>

-----------------------------------------------------------------------------
(* db-restore.                                                             *)

Required(k) == k # "seed"

\* The save step of statcast.yml runs whatever became of the steps before it,
\* unless it is the ingest itself that was cancelled.
SavesAnyway(k) == k = "statcast"

End(k, how) ==
    /\ job' = [job EXCEPT ![k] = Idle]
    /\ result' = [result EXCEPT ![k] = how]

\* A step before the ingest fails or is cancelled, leaving the database as db.
StopBeforeWork(k, db, how) ==
    IF SavesAnyway(k)
    THEN /\ job' = [job EXCEPT ![k].pc = "save", ![k].db = db, ![k].tries = 0]
         /\ UNCHANGED result
    ELSE End(k, how)

Attempts == 3

\* Twenty seconds pass between two attempts, which is longer than a save that
\* is alive takes between its two renames.
Waited(k) == job[k].tries > 0 => \A w \in Writers : job[w].pc # "displaced"

Download(k) ==
    /\ job[k].pc = "restore"
    /\ Waited(k)
    /\ release["primary"] # Absent
    /\ job' = [job EXCEPT ![k].pc = "load", ![k].db = release["primary"],
                          ![k].tries = 0]
    /\ UNCHANGED <<created, release, issued, pending, result, site, counters>>

\* No asset of that name at this instant, or the request failed: the two are
\* not told apart.  Before it tries again the action looks for the release
\* itself, and gives up at once if it is not there or that request is lost.
\* After the last attempt a required restore is an error and the other one
\* goes on with an empty database.
DownloadFails(k) ==
    /\ job[k].pc = "restore"
    /\ Waited(k)
    /\ \E broken, lost \in 0..1 :
        /\ faults + broken + lost <= MaxFaults
        /\ faults' = faults + broken + lost
        /\ broken = 1 \/ release["primary"] = Absent
        /\ lost = 1 => created /\ job[k].tries + 1 < Attempts
        /\ IF created /\ lost = 0 /\ job[k].tries + 1 < Attempts
           THEN /\ job' = [job EXCEPT ![k].tries = @ + 1]
                /\ UNCHANGED result
           ELSE IF Required(k)
                THEN StopBeforeWork(k, NoSchema, "notfound")
                ELSE /\ job' = [job EXCEPT ![k].pc = "work", ![k].db = {},
                                           ![k].tries = 0]
                     /\ UNCHANGED result
    /\ UNCHANGED <<created, release, issued, pending, site, runs, breaks>>

\* pg_restore, then the migrations.
Load(k) ==
    /\ job[k].pc = "load"
    /\ job' = [job EXCEPT ![k].pc = "work"]
    /\ UNCHANGED <<created, release, issued, pending, result, site, counters>>

-----------------------------------------------------------------------------
(* The work.                                                               *)

\* The steps between restore and save.  The exit status of the Statcast ingest
\* is lost in a pipe, so its save follows whether it wrote anything or not.
Work(k) ==
    /\ k \in Writers
    /\ job[k].pc = "work"
    /\ \/ job' = [job EXCEPT ![k].pc = "save",
                             ![k].db = @ \cup {<<job[k].run, job[k].saves>>}]
       \/ SavesAnyway(k) /\ job' = [job EXCEPT ![k].pc = "save"]
    /\ UNCHANGED <<created, release, issued, pending, result, site, counters>>

\* The site is built from the restored database and deployed.
Publish(k) ==
    /\ k \in Readers
    /\ job[k].pc = "work"
    /\ site' = job[k].db
    /\ End(k, "ok")
    /\ UNCHANGED <<created, release, issued, pending, counters>>

-----------------------------------------------------------------------------
(* db-save.                                                                *)

\* The row count is a query on `games`: without the table the step stops
\* before it has touched the release.
SaveRefused(k) ==
    /\ job[k].pc = "save"
    /\ job[k].db = NoSchema
    /\ End(k, "failed")
    /\ UNCHANGED <<created, release, issued, pending, site, counters>>

\* Mutant: the dump is uploaded over the primary, which --clobber deletes.
ClobberPrimary(rel, dump) == [rel EXCEPT !["primary"] = Absent]

\* What an upload that failed has done: --clobber removes what had the name.
Clobber(rel, dump) == [rel EXCEPT !["staging"] = Absent]

Upload(k) ==
    /\ job[k].pc = "save"
    /\ job[k].db # NoSchema
    /\ created' = TRUE
    /\ release' = [release EXCEPT !["staging"] = job[k].db]
    /\ job' = [job EXCEPT ![k].pc = "uploaded", ![k].tries = 0]
    /\ UNCHANGED <<issued, pending, result, site, counters>>

UploadFails(k) ==
    /\ job[k].pc = "save"
    /\ job[k].db # NoSchema
    /\ faults < MaxFaults
    /\ faults' = faults + 1
    /\ created' = TRUE
    /\ \/ release' = Clobber(release, job[k].db)
       \/ UNCHANGED release
    /\ IF job[k].tries + 1 < Attempts
       THEN /\ job' = [job EXCEPT ![k].tries = @ + 1]
            /\ UNCHANGED result
       ELSE End(k, "failed")
    /\ UNCHANGED <<issued, pending, site, runs, breaks>>

\* The old previous dump, if there is one, is deleted.
Retire(k) ==
    /\ job[k].pc = "uploaded"
    /\ release' = [release EXCEPT !["previous"] = Absent]
    /\ job' = [job EXCEPT ![k].pc = "retired"]
    /\ UNCHANGED <<created, issued, pending, result, site, counters>>

\* Mutant: the rename is sent to the asset just uploaded.
WrongAsset(rel) == [rel EXCEPT !["previous"] = rel["staging"], !["primary"] = Absent]

\* The first rename, if there is a primary: it becomes the previous dump.
Displaced(rel) ==
    IF rel["primary"] = Absent THEN rel
    ELSE [rel EXCEPT !["previous"] = rel["primary"], !["primary"] = Absent]

Displace(k) ==
    /\ job[k].pc = "retired"
    /\ release' = Displaced(release)
    /\ job' = [job EXCEPT ![k].pc = "displaced"]
    /\ UNCHANGED <<created, issued, pending, result, site, counters>>

\* The second rename, of the asset this save uploaded: the new dump is the
\* primary.  The seeder saves its history first and goes on.
Promote(k) ==
    /\ job[k].pc = "displaced"
    /\ release["staging"] = job[k].db
    /\ release' = [release EXCEPT !["primary"] = release["staging"],
                                  !["staging"] = Absent]
    /\ issued' = Append(issued, release["staging"])
    /\ IF k = "seed" /\ job[k].saves = 0
       THEN /\ job' = [job EXCEPT ![k].pc = "work", ![k].saves = 1]
            /\ UNCHANGED result
       ELSE End(k, "ok")
    /\ UNCHANGED <<created, pending, site, counters>>

-----------------------------------------------------------------------------
(* What cuts a run short.                                                  *)

\* What pg_restore has loaded when it is stopped: no table yet, or any part.
Partial(dump) == (SUBSET dump) \cup {NoSchema}

\* The run is cancelled, or times out, or the step in progress fails.
Break(k) ==
    /\ breaks < MaxBreaks
    /\ breaks' = breaks + 1
    /\ \/ /\ job[k].pc = "restore"
          /\ StopBeforeWork(k, NoSchema, "failed")
       \/ /\ job[k].pc = "load"
          /\ \E db \in Partial(job[k].db) : StopBeforeWork(k, db, "failed")
       \/ /\ job[k].pc \in {"work", "save", "uploaded", "retired", "displaced"}
          /\ End(k, "failed")
    /\ UNCHANGED <<created, release, issued, pending, site, runs, faults>>

-----------------------------------------------------------------------------

Step(k) ==
    \/ Download(k) \/ DownloadFails(k) \/ Load(k)
    \/ Work(k) \/ Publish(k)
    \/ SaveRefused(k) \/ Upload(k) \/ UploadFails(k)
    \/ Retire(k) \/ Displace(k) \/ Promote(k)

Next ==
    \E k \in Workflows :
        Dispatch(k) \/ Start(k) \/ StartReader(k) \/ Step(k) \/ Break(k)

Spec == Init /\ [][Next]_svars

-----------------------------------------------------------------------------
(* Properties.                                                             *)

TypeOK ==
    /\ created \in BOOLEAN
    /\ release \in [Names -> Dumps \cup {Absent}]
    /\ issued \in Seq(Dumps)
    /\ pending \in Writers \cup {NoRun}
    /\ job \in [Workflows -> JobState]
    /\ result \in [Workflows -> {"none", "ok", "failed", "notfound"}]
    /\ site \in Dumps \cup {Absent}
    /\ {runs, faults, breaks} \subseteq Nat

\* The dump last issued, nothing before the first.
Current == IF issued = <<>> THEN {} ELSE issued[Len(issued)]

\* The work of the store so far is always in the release under some name, so
\* that it can be recovered by hand wherever a save was interrupted (db-save:
\* the primary is never deleted before its replacement is safely up).
Recoverable ==
    issued # <<>> =>
        \E n \in Names : release[n] # Absent /\ Current \subseteq release[n]

\* The dump kept for a rollback is the one the current primary replaced; while
\* there is no primary it is the one that was the primary last.
RollbackIsPredecessor ==
    release["previous"] # Absent =>
        LET n == IF release["primary"] = Absent THEN Len(issued)
                 ELSE Len(issued) - 1
        IN  n > 0 /\ release["previous"] = issued[n]

\* The published site never goes back to an older state of the store.
SiteNeverGoesBack ==
    [][site # Absent => site \subseteq site']_site

Serial == INSTANCE SerialStore WITH value <- Current

\* The scheduled writers, whatever interrupts them, leave the store as if each
\* completed save had been one atomic addition to it.
ImplementsSerial == Serial!Spec

=============================================================================
