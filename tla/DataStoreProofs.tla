--------------------------- MODULE DataStoreProofs ---------------------------
(***************************************************************************)
(* What the data store keeps and what it promises its writers, for any     *)
(* workflows and any number of runs, lost calls and interruptions.         *)
(*                                                                         *)
(* One invariant holds for every writer (StoreInv): it is enough for the   *)
(* dump kept for a rollback.  Without the seeder, which goes on when it    *)
(* finds no dump, nothing is lost (KeptInv).  Without the backfill, which  *)
(* saves what a cancelled restore left, the store is serial (SerialInv)    *)
(* and the site follows it (SiteInv).                                      *)
(***************************************************************************)
EXTENDS DataStore, TLAPS

\* At most one writer is at work.
OneAtWork ==
    \A v, w \in Writers : job[v].pc # "idle" /\ job[w].pc # "idle" => v = w

\* A reader never comes to a save.
ReadersRead ==
    \A r \in Readers : job[r].pc \in {"idle", "restore", "load", "work"}

\* The primary asset is the dump issued last.
PrimaryIsLast ==
    release["primary"] # Absent => issued # <<>> /\ release["primary"] = Current

\* What a run has restored or uploaded is a dump.
HasDump ==
    \A k \in Workflows :
        job[k].pc \in {"load", "work", "uploaded", "retired", "displaced"} =>
            job[k].db \in Dumps

\* Between the two renames there is no primary.
InSave ==
    \A w \in Writers : job[w].pc = "displaced" => release["primary"] = Absent

TypeInv == TypeOK /\ HasDump

StoreInv ==
    /\ TypeInv /\ OneAtWork /\ ReadersRead /\ PrimaryIsLast /\ InSave
    /\ RollbackIsPredecessor

\* Where there is no primary, the dump issued last is the previous one.
LastIsKept ==
    issued # <<>> /\ release["primary"] = Absent => release["previous"] = Current

\* Only a writer that found a primary comes so far as to save a dump.
FoundPrimary ==
    \A w \in Writers :
        \/ job[w].pc \in {"load", "work", "uploaded", "retired"}
        \/ job[w].pc = "save" /\ job[w].db # NoSchema
        => release["primary"] # Absent

KeptInv == StoreInv /\ LastIsKept /\ FoundPrimary

\* The runs are numbered, and what is issued was written by runs up to now,
\* by earlier ones while a run is at work.
UnitsOfRuns ==
    /\ \A u \in Current : u[1] <= runs
    /\ \A w \in Writers : job[w].pc # "idle" =>
        /\ job[w].run = runs /\ job[w].saves = 0
        /\ \A u \in Current : u[1] < runs

\* What a run works on is the dump issued last, and what it saves is that dump
\* and its own unit.
WorksOnCurrent ==
    \A w \in Writers :
        /\ job[w].pc \in {"load", "work"} => job[w].db = Current
        /\ job[w].pc \in {"save", "uploaded", "retired", "displaced"} =>
            job[w].db = Current \cup {<<runs, 0>>}

SerialInv == KeptInv /\ UnitsOfRuns /\ WorksOnCurrent

\* The site, and what the publish job is about to make of it, are no further
\* than the store, and the publish job is no further back than the site.
SiteBehind ==
    /\ site # Absent => site \subseteq Current
    /\ \A r \in Readers : job[r].pc \in {"load", "work"} =>
        /\ job[r].db \in Dumps /\ job[r].db \subseteq Current
        /\ site # Absent => site \subseteq job[r].db

SiteInv == SerialInv /\ SiteBehind

-----------------------------------------------------------------------------
(* What each step does to its run.                                         *)

Pcs == {"idle", "restore", "load", "work", "save", "uploaded", "retired", "displaced"}
Hows == {"none", "ok", "failed", "notfound"}

\* A step of the run k leaves the other runs alone.
Others(k) ==
    /\ job' \in [Workflows -> JobState]
    /\ \A j \in Workflows : j # k => job'[j] = job[j]

LEMMA IdleIsJobState == Idle \in JobState
BY DEF Idle, JobState

\* A run that is put in another state.
LEMMA Becomes ==
    ASSUME TypeOK, NEW k \in Workflows, NEW q \in JobState, job' = [job EXCEPT ![k] = q]
    PROVE  Others(k) /\ job'[k] = q
BY DEF Others, TypeOK

\* The run k goes to pc.
LEMMA GoesTo ==
    ASSUME TypeOK, NEW k \in Workflows, NEW pc \in Pcs,
           job' = [job EXCEPT ![k].pc = pc]
    PROVE  /\ Others(k) /\ job'[k].pc = pc /\ job'[k].db = job[k].db
           /\ job'[k].run = job[k].run /\ job'[k].saves = job[k].saves
<1> DEFINE q == [job[k] EXCEPT !.pc = pc]
<1>1. job[k] \in JobState
    BY DEF TypeOK
<1>2. /\ q \in JobState /\ q.pc = pc /\ q.db = job[k].db
      /\ q.run = job[k].run /\ q.saves = job[k].saves
    BY <1>1 DEF JobState, Pcs
<1>3. job' = [job EXCEPT ![k] = q]
    OBVIOUS
<1> HIDE DEF q
<1> QED
    BY <1>2, <1>3, Becomes

\* The run k goes to pc with another database.
LEMMA GoesWith ==
    ASSUME TypeOK, NEW k \in Workflows, NEW pc \in Pcs, NEW db \in Dumps \cup {NoSchema},
           \/ job' = [job EXCEPT ![k].pc = pc, ![k].db = db]
           \/ job' = [job EXCEPT ![k].pc = pc, ![k].db = db, ![k].tries = 0]
    PROVE  /\ Others(k) /\ job'[k].pc = pc /\ job'[k].db = db
           /\ job'[k].run = job[k].run /\ job'[k].saves = job[k].saves
<1>1. job[k] \in JobState
    BY DEF TypeOK
<1>2. CASE job' = [job EXCEPT ![k].pc = pc, ![k].db = db]
    <2> DEFINE q == [job[k] EXCEPT !.pc = pc, !.db = db]
    <2>1. /\ q \in JobState /\ q.pc = pc /\ q.db = db
          /\ q.run = job[k].run /\ q.saves = job[k].saves
        BY <1>1 DEF JobState, Pcs
    <2>2. job' = [job EXCEPT ![k] = q]
        BY <1>2
    <2> HIDE DEF q
    <2> QED
        BY <2>1, <2>2, Becomes
<1>3. CASE job' = [job EXCEPT ![k].pc = pc, ![k].db = db, ![k].tries = 0]
    <2> DEFINE p == [job[k] EXCEPT !.pc = pc, !.db = db]
               q == [p EXCEPT !.tries = 0]
    <2>0. /\ p \in JobState /\ p.pc = pc /\ p.db = db
          /\ p.run = job[k].run /\ p.saves = job[k].saves
        BY <1>1 DEF JobState, Pcs
    <2> HIDE DEF p
    <2>1. /\ q \in JobState /\ q.pc = pc /\ q.db = db
          /\ q.run = job[k].run /\ q.saves = job[k].saves
        BY <2>0 DEF JobState
    <2>2. job' = [job EXCEPT ![k] = q]
        BY <1>3 DEF p
    <2> HIDE DEF q
    <2> QED
        BY <2>1, <2>2, Becomes
<1> QED
    BY <1>2, <1>3

\* The run k tries again.
LEMMA TriesAgain ==
    ASSUME TypeOK, NEW k \in Workflows, job[k].tries + 1 < Attempts,
           job' = [job EXCEPT ![k].tries = @ + 1]
    PROVE  /\ Others(k) /\ job'[k].pc = job[k].pc /\ job'[k].db = job[k].db
           /\ job'[k].run = job[k].run /\ job'[k].saves = job[k].saves
<1> DEFINE q == [job[k] EXCEPT !.tries = @ + 1]
<1>1. job[k] \in JobState
    BY DEF TypeOK
<1>2. job[k].tries + 1 \in 0..2
    BY <1>1 DEF JobState, Attempts
<1>3. /\ q \in JobState /\ q.pc = job[k].pc /\ q.db = job[k].db
      /\ q.run = job[k].run /\ q.saves = job[k].saves
    BY <1>1, <1>2 DEF JobState
<1>4. job' = [job EXCEPT ![k] = q]
    OBVIOUS
<1> HIDE DEF q
<1> QED
    BY <1>3, <1>4, Becomes

\* The run k ends.
LEMMA Ends ==
    ASSUME TypeOK, NEW k \in Workflows, NEW how \in Hows, End(k, how)
    PROVE  /\ Others(k) /\ job'[k] = Idle /\ job'[k].pc = "idle"
           /\ result' \in [Workflows -> Hows]
<1>1. Others(k) /\ job'[k] = Idle
    BY IdleIsJobState, Becomes DEF End
<1> QED
    BY <1>1 DEF End, Idle, TypeOK, Hows

\* A run stopped before its work ends, or is the backfill's and goes to save.
LEMMA Stops ==
    ASSUME TypeOK, NEW k \in Workflows, NEW db \in Dumps \cup {NoSchema},
           NEW how \in Hows, StopBeforeWork(k, db, how)
    PROVE  /\ Others(k) /\ result' \in [Workflows -> Hows]
           /\ \/ job'[k].pc = "idle"
              \/ /\ k = "statcast" /\ job'[k].pc = "save" /\ job'[k].db = db
                 /\ job'[k].run = job[k].run /\ job'[k].saves = job[k].saves
<1>1. CASE SavesAnyway(k)
    <2>1. job' = [job EXCEPT ![k].pc = "save", ![k].db = db, ![k].tries = 0]
            /\ UNCHANGED result
        BY <1>1 DEF StopBeforeWork
    <2>2. "save" \in Pcs
        BY DEF Pcs
    <2>3. /\ Others(k) /\ job'[k].pc = "save" /\ job'[k].db = db
          /\ job'[k].run = job[k].run /\ job'[k].saves = job[k].saves
        BY <2>1, <2>2, GoesWith
    <2> QED
        BY <1>1, <2>1, <2>3 DEF SavesAnyway, TypeOK, Hows
<1>2. CASE ~ SavesAnyway(k)
    BY <1>2, Ends DEF StopBeforeWork
<1> QED
    BY <1>1, <1>2

LEMMA StartRun ==
    ASSUME TypeOK, NEW k \in Workflows, Start(k)
    PROVE  /\ Others(k) /\ job'[k].pc = "restore"
           /\ job'[k].run = runs + 1 /\ job'[k].saves = 0
<1> DEFINE q == [Idle EXCEPT !.pc = "restore", !.run = runs + 1]
<1>1. runs + 1 \in Nat
    BY DEF TypeOK
<1>2. q \in JobState /\ q.pc = "restore" /\ q.run = runs + 1 /\ q.saves = 0
    BY <1>1, IdleIsJobState DEF JobState, Idle
<1>3. job' = [job EXCEPT ![k] = q]
    BY DEF Start
<1> HIDE DEF q
<1> QED
    BY <1>2, <1>3, Becomes

LEMMA StartReaderRun ==
    ASSUME TypeOK, NEW k \in Workflows, StartReader(k)
    PROVE  Others(k) /\ job'[k].pc = "restore"
BY GoesTo DEF StartReader, Pcs

LEMMA DownloadRun ==
    ASSUME TypeOK, NEW k \in Workflows, Download(k)
    PROVE  /\ release["primary"] \in Dumps
           /\ Others(k) /\ job'[k].pc = "load" /\ job'[k].db = release["primary"]
           /\ job'[k].run = job[k].run /\ job'[k].saves = job[k].saves
<1>1. release["primary"] \in Dumps
    BY DEF TypeOK, Download, Names
<1> QED
    BY <1>1, GoesWith DEF Download, Pcs

\* The run tries again, ends, saves if it is the backfill's, and goes on with
\* an empty database if it is the seeder's.
LEMMA DownloadFailsRun ==
    ASSUME TypeOK, NEW k \in Workflows, DownloadFails(k)
    PROVE  /\ Others(k) /\ result' \in [Workflows -> Hows] /\ faults' \in Nat
           /\ \/ job'[k].pc = "idle"
              \/ /\ job'[k].run = job[k].run /\ job'[k].saves = job[k].saves
                 /\ \/ job'[k].pc = "restore"
                    \/ k = "statcast" /\ job'[k].pc = "save" /\ job'[k].db = NoSchema
                    \/ k = "seed" /\ job'[k].pc = "work" /\ job'[k].db = {}
<1>1. PICK broken \in 0..1, lost \in 0..1 :
        /\ faults' = faults + broken + lost
        /\ IF created /\ lost = 0 /\ job[k].tries + 1 < Attempts
           THEN /\ job' = [job EXCEPT ![k].tries = @ + 1]
                /\ UNCHANGED result
           ELSE IF Required(k)
                THEN StopBeforeWork(k, NoSchema, "notfound")
                ELSE /\ job' = [job EXCEPT ![k].pc = "work", ![k].db = {},
                                           ![k].tries = 0]
                     /\ UNCHANGED result
    BY DEF DownloadFails
<1>2. faults' \in Nat
    BY <1>1 DEF TypeOK
<1>3. job[k].pc = "restore" /\ result \in [Workflows -> Hows] /\ {} \in Dumps
    BY DEF DownloadFails, TypeOK, Hows, Dumps
<1>4. CASE created /\ lost = 0 /\ job[k].tries + 1 < Attempts
    BY <1>1, <1>2, <1>3, <1>4, TriesAgain
<1>5. CASE ~ (created /\ lost = 0 /\ job[k].tries + 1 < Attempts) /\ Required(k)
    BY <1>1, <1>2, <1>5, Stops DEF Hows
<1>6. CASE ~ (created /\ lost = 0 /\ job[k].tries + 1 < Attempts) /\ ~ Required(k)
    <2>1. job' = [job EXCEPT ![k].pc = "work", ![k].db = {}, ![k].tries = 0]
          /\ UNCHANGED result
        BY <1>1, <1>6
    <2> QED
        BY <1>2, <1>3, <1>6, <2>1, GoesWith DEF Required, Pcs
<1> QED
    BY <1>4, <1>5, <1>6

LEMMA LoadRun ==
    ASSUME TypeOK, NEW k \in Workflows, Load(k)
    PROVE  /\ Others(k) /\ job'[k].pc = "work" /\ job'[k].db = job[k].db
           /\ job'[k].run = job[k].run /\ job'[k].saves = job[k].saves
BY GoesTo DEF Load, Pcs

\* The work adds the run's unit, except that the backfill may add nothing.
LEMMA WorkRun ==
    ASSUME TypeOK, NEW k \in Workflows, job[k].db \in Dumps, Work(k)
    PROVE  /\ Others(k) /\ job'[k].pc = "save" /\ job'[k].db \in Dumps
           /\ job'[k].run = job[k].run /\ job'[k].saves = job[k].saves
           /\ \/ job'[k].db = job[k].db \cup {<<job[k].run, job[k].saves>>}
              \/ k = "statcast"
<1> DEFINE db == job[k].db \cup {<<job[k].run, job[k].saves>>}
<1>1. db \in Dumps
    <2>1. job[k].run \in Nat /\ job[k].saves \in {0, 1}
        BY DEF TypeOK, JobState
    <2> QED
        BY <2>1 DEF Dumps, Units
<1>2. CASE SavesAnyway(k) /\ job' = [job EXCEPT ![k].pc = "save"]
    BY <1>2, GoesTo DEF SavesAnyway, Pcs
<1>3. CASE job' = [job EXCEPT ![k].pc = "save", ![k].db = db]
    <2> HIDE DEF db
    <2>1. /\ Others(k) /\ job'[k].pc = "save" /\ job'[k].db = db
          /\ job'[k].run = job[k].run /\ job'[k].saves = job[k].saves
        BY <1>1, <1>3, GoesWith DEF Pcs
    <2> QED
        BY <1>1, <2>1 DEF db
<1>4. \/ SavesAnyway(k) /\ job' = [job EXCEPT ![k].pc = "save"]
      \/ job' = [job EXCEPT ![k].pc = "save", ![k].db = db]
    BY DEF Work
<1> QED
    BY <1>2, <1>3, <1>4

LEMMA UploadRun ==
    ASSUME TypeOK, NEW k \in Workflows, Upload(k)
    PROVE  /\ job[k].db \in Dumps
           /\ Others(k) /\ job'[k].pc = "uploaded" /\ job'[k].db = job[k].db
           /\ job'[k].run = job[k].run /\ job'[k].saves = job[k].saves
<1> DEFINE p == [job[k] EXCEPT !.pc = "uploaded"]
           q == [p EXCEPT !.tries = 0]
<1>1. job[k] \in JobState
    BY DEF TypeOK
<1>2. job[k].db \in Dumps
    BY <1>1 DEF Upload, JobState
<1>3. /\ p \in JobState /\ p.pc = "uploaded" /\ p.db = job[k].db
      /\ p.run = job[k].run /\ p.saves = job[k].saves
    BY <1>1 DEF JobState
<1>4. job' = [job EXCEPT ![k] = q]
    BY DEF Upload
<1> HIDE DEF p
<1>5. /\ q \in JobState /\ q.pc = "uploaded" /\ q.db = job[k].db
      /\ q.run = job[k].run /\ q.saves = job[k].saves
    BY <1>3 DEF JobState
<1> HIDE DEF q
<1> QED
    BY <1>2, <1>4, <1>5, Becomes

LEMMA UploadFailsRun ==
    ASSUME TypeOK, NEW k \in Workflows, UploadFails(k)
    PROVE  /\ Others(k) /\ result' \in [Workflows -> Hows]
           /\ \/ job'[k].pc = "idle"
              \/ /\ job'[k].pc = "save" /\ job'[k].db = job[k].db
                 /\ job'[k].run = job[k].run /\ job'[k].saves = job[k].saves
<1>1. CASE job[k].tries + 1 < Attempts
    BY <1>1, TriesAgain DEF UploadFails, TypeOK, Hows
<1>2. CASE ~ (job[k].tries + 1 < Attempts)
    BY <1>2, Ends DEF UploadFails, Hows
<1> QED
    BY <1>1, <1>2

LEMMA RetireRun ==
    ASSUME TypeOK, NEW k \in Workflows, Retire(k)
    PROVE  /\ Others(k) /\ job'[k].pc = "retired" /\ job'[k].db = job[k].db
           /\ job'[k].run = job[k].run /\ job'[k].saves = job[k].saves
BY GoesTo DEF Retire, Pcs

LEMMA DisplaceRun ==
    ASSUME TypeOK, NEW k \in Workflows, Displace(k)
    PROVE  /\ Others(k) /\ job'[k].pc = "displaced" /\ job'[k].db = job[k].db
           /\ job'[k].run = job[k].run /\ job'[k].saves = job[k].saves
BY GoesTo DEF Displace, Pcs

\* A run that has saved ends, unless it is the seeder's first save.
LEMMA PromoteRun ==
    ASSUME TypeOK, NEW k \in Workflows, Promote(k)
    PROVE  /\ Others(k) /\ result' \in [Workflows -> Hows]
           /\ \/ job'[k].pc = "idle"
              \/ k = "seed" /\ job'[k].pc = "work" /\ job'[k].db = job[k].db
<1>1. CASE k = "seed" /\ job[k].saves = 0
    <2> DEFINE q == [job[k] EXCEPT !.pc = "work", !.saves = 1]
    <2>1. job[k] \in JobState
        BY DEF TypeOK
    <2>2. q \in JobState /\ q.pc = "work" /\ q.db = job[k].db
        BY <2>1 DEF JobState
    <2>3. job' = [job EXCEPT ![k] = q] /\ UNCHANGED result
        BY <1>1 DEF Promote
    <2> HIDE DEF q
    <2> QED
        BY <1>1, <2>2, <2>3, Becomes DEF TypeOK, Hows
<1>2. CASE ~ (k = "seed" /\ job[k].saves = 0)
    BY <1>2, Ends DEF Promote, Hows
<1> QED
    BY <1>1, <1>2

\* A run cut short ends, unless it is the backfill's.
LEMMA BreakRun ==
    ASSUME TypeInv, NEW k \in Workflows, Break(k)
    PROVE  /\ Others(k) /\ result' \in [Workflows -> Hows]
           /\ \/ job'[k].pc = "idle"
              \/ /\ k = "statcast" /\ job'[k].pc = "save"
                 /\ \/ job[k].pc = "restore" /\ job'[k].db = NoSchema
                    \/ job[k].pc = "load"
                 /\ job'[k].run = job[k].run /\ job'[k].saves = job[k].saves
<1>1. CASE job[k].pc = "restore" /\ StopBeforeWork(k, NoSchema, "failed")
    BY <1>1, Stops DEF TypeInv, Hows
<1>2. ASSUME job[k].pc = "load", NEW db \in Partial(job[k].db),
             StopBeforeWork(k, db, "failed")
      PROVE  /\ Others(k) /\ result' \in [Workflows -> Hows]
             /\ \/ job'[k].pc = "idle"
                \/ /\ k = "statcast" /\ job'[k].pc = "save"
                   /\ job'[k].run = job[k].run /\ job'[k].saves = job[k].saves
    <2>1. job[k].db \in Dumps
        BY <1>2 DEF TypeInv, HasDump
    <2>2. db \in Dumps \cup {NoSchema}
        <3>1. db = NoSchema \/ db \subseteq job[k].db
            BY <1>2 DEF Partial
        <3> QED
            BY <2>1, <3>1 DEF Dumps
    <2> QED
        BY <1>2, <2>2, Stops DEF TypeInv, Hows
<1>3. CASE End(k, "failed")
    BY <1>3, Ends DEF TypeInv, Hows
<1> QED
    BY <1>1, <1>2, <1>3 DEF Break

-----------------------------------------------------------------------------
(* Types.                                                                  *)

\* The initial state has the types.
LEMMA InitTypeInv == Init => TypeInv
<1> SUFFICES ASSUME Init PROVE TypeInv
    OBVIOUS
<1>1. Origin \in Dumps
    BY DEF Origin, Dumps, Units
<1>2. issued \in {<<>>, <<Origin>>}
    BY DEF Init
<1>3. <<>> \in Seq(Dumps) /\ <<Origin>> \in Seq(Dumps)
    BY <1>1
<1>4. release \in [Names -> Dumps \cup {Absent}]
    BY <1>1 DEF Init
<1>5. job \in [Workflows -> JobState]
    BY IdleIsJobState DEF Init
<1> QED
    <2>1. HasDump
        BY DEF Init, HasDump, Idle
    <2>2. issued \in Seq(Dumps) /\ created \in BOOLEAN
        BY <1>2, <1>3 DEF Init
    <2>3. pending \in Writers \cup {NoRun} /\ site \in Dumps \cup {Absent}
            /\ {runs, faults, breaks} \subseteq Nat
        BY DEF Init
    <2>4. result \in [Workflows -> {"none", "ok", "failed", "notfound"}]
        BY DEF Init
    <2> QED
        BY <1>4, <1>5, <2>1, <2>2, <2>3, <2>4 DEF TypeInv, TypeOK

\* What a step must show of the runs for the types to be kept.
LEMMA RunsTyped ==
    ASSUME TypeInv, NEW k \in Workflows, Others(k),
           job'[k].pc \in {"load", "work", "uploaded", "retired", "displaced"} =>
               job'[k].db \in Dumps
    PROVE  job' \in [Workflows -> JobState] /\ HasDump'
BY DEF TypeInv, HasDump, Others

\* Every step keeps the types.
LEMMA NextTypeInv == TypeInv /\ [Next]_svars => TypeInv'
<1> SUFFICES ASSUME TypeInv, [Next]_svars PROVE TypeInv'
    OBVIOUS
<1> USE DEF TypeInv, Hows
<1>1. CASE UNCHANGED svars
    BY <1>1 DEF TypeOK, HasDump, svars, counters
<1>2. ASSUME NEW k \in Workflows, Dispatch(k) PROVE TypeInv'
    BY <1>2 DEF TypeOK, HasDump, Dispatch, counters
<1>3. ASSUME NEW k \in Workflows, Start(k) PROVE TypeInv'
    <2>1. job' \in [Workflows -> JobState] /\ HasDump'
        BY <1>3, StartRun, RunsTyped DEF HasDump, Start
    <2> QED
        BY <1>3, <2>1 DEF TypeOK, Start, counters
<1>4. ASSUME NEW k \in Workflows, StartReader(k) PROVE TypeInv'
    <2>1. job' \in [Workflows -> JobState] /\ HasDump'
        BY <1>4, StartReaderRun, RunsTyped DEF HasDump, StartReader
    <2> QED
        BY <1>4, <2>1 DEF TypeOK, StartReader, counters
<1>5. ASSUME NEW k \in Workflows, Download(k) PROVE TypeInv'
    <2>1. job' \in [Workflows -> JobState] /\ HasDump'
        BY <1>5, DownloadRun, RunsTyped DEF HasDump, Download
    <2> QED
        BY <1>5, <2>1 DEF TypeOK, Download, counters
<1>6. ASSUME NEW k \in Workflows, DownloadFails(k) PROVE TypeInv'
    <2>1. {} \in Dumps
        BY DEF Dumps
    <2>2. job' \in [Workflows -> JobState] /\ HasDump'
        <3>1. /\ Others(k)
              /\ job'[k].pc \in {"load", "work", "uploaded", "retired", "displaced"} =>
                    job'[k].db \in Dumps
            BY <1>6, <2>1, DownloadFailsRun
        <3> QED
            BY <3>1, RunsTyped
    <2>3. result' \in [Workflows -> Hows] /\ faults' \in Nat
        BY <1>6, DownloadFailsRun
    <2> QED
        BY <1>6, <2>2, <2>3 DEF TypeOK, DownloadFails
<1>7. ASSUME NEW k \in Workflows, Load(k) PROVE TypeInv'
    <2>1. job' \in [Workflows -> JobState] /\ HasDump'
        BY <1>7, LoadRun, RunsTyped DEF HasDump, Load
    <2> QED
        BY <1>7, <2>1 DEF TypeOK, Load, counters
<1>8. ASSUME NEW k \in Workflows, Work(k) PROVE TypeInv'
    <2>1. job' \in [Workflows -> JobState] /\ HasDump'
        BY <1>8, WorkRun, RunsTyped DEF HasDump, Work
    <2> QED
        BY <1>8, <2>1 DEF TypeOK, Work, counters
<1>9. ASSUME NEW k \in Workflows, Publish(k) PROVE TypeInv'
    <2>1. job' \in [Workflows -> JobState] /\ HasDump'
        BY <1>9, Ends, RunsTyped DEF HasDump, Publish
    <2>2. job[k].db \in Dumps
        BY <1>9 DEF Publish, HasDump
    <2> QED
        BY <1>9, <2>1, <2>2, Ends DEF TypeOK, Publish, counters
<1>10. ASSUME NEW k \in Workflows, SaveRefused(k) PROVE TypeInv'
    <2>1. job' \in [Workflows -> JobState] /\ HasDump'
        BY <1>10, Ends, RunsTyped DEF HasDump, SaveRefused
    <2> QED
        BY <1>10, <2>1, Ends DEF TypeOK, SaveRefused, counters
<1>11. ASSUME NEW k \in Workflows, Upload(k) PROVE TypeInv'
    <2>1. job' \in [Workflows -> JobState] /\ HasDump'
        BY <1>11, UploadRun, RunsTyped DEF HasDump, Upload
    <2>2. release' \in [Names -> Dumps \cup {Absent}]
        BY <1>11, UploadRun DEF TypeOK, Upload
    <2> QED
        BY <1>11, <2>1, <2>2 DEF TypeOK, Upload, counters
<1>12. ASSUME NEW k \in Workflows, UploadFails(k) PROVE TypeInv'
    <2>1. job' \in [Workflows -> JobState] /\ HasDump'
        BY <1>12, UploadFailsRun, RunsTyped DEF HasDump, UploadFails
    <2>2. release' \in [Names -> Dumps \cup {Absent}]
        BY <1>12 DEF TypeOK, UploadFails, Clobber
    <2> QED
        BY <1>12, <2>1, <2>2, UploadFailsRun DEF TypeOK, UploadFails, counters
<1>13. ASSUME NEW k \in Workflows, Retire(k) PROVE TypeInv'
    <2>1. job' \in [Workflows -> JobState] /\ HasDump'
        BY <1>13, RetireRun, RunsTyped DEF HasDump, Retire
    <2>2. release' \in [Names -> Dumps \cup {Absent}]
        BY <1>13 DEF TypeOK, Retire
    <2> QED
        BY <1>13, <2>1, <2>2 DEF TypeOK, Retire, counters
<1>14. ASSUME NEW k \in Workflows, Displace(k) PROVE TypeInv'
    <2>1. job' \in [Workflows -> JobState] /\ HasDump'
        BY <1>14, DisplaceRun, RunsTyped DEF HasDump, Displace
    <2>2. release' \in [Names -> Dumps \cup {Absent}]
        BY <1>14 DEF TypeOK, Displace, Displaced, Names
    <2> QED
        BY <1>14, <2>1, <2>2 DEF TypeOK, Displace, counters
<1>15. ASSUME NEW k \in Workflows, Promote(k) PROVE TypeInv'
    <2>1. job' \in [Workflows -> JobState] /\ HasDump'
        BY <1>15, PromoteRun, RunsTyped DEF HasDump, Promote
    <2>2. release' \in [Names -> Dumps \cup {Absent}] /\ issued' \in Seq(Dumps)
        <3>1. release["staging"] \in Dumps
            BY <1>15 DEF Promote, HasDump
        <3>2. release' = [release EXCEPT !["primary"] = release["staging"],
                                        !["staging"] = Absent]
            BY <1>15 DEF Promote
        <3>3. issued' = Append(issued, release["staging"])
            BY <1>15 DEF Promote
        <3>4. release' \in [Names -> Dumps \cup {Absent}]
            BY <3>1, <3>2, Zenon DEF TypeOK, Names
        <3> QED
            BY <3>1, <3>3, <3>4 DEF TypeOK
    <2> QED
        BY <1>15, <2>1, <2>2, PromoteRun DEF TypeOK, Promote, counters
<1>16. ASSUME NEW k \in Workflows, Break(k) PROVE TypeInv'
    <2>1. job' \in [Workflows -> JobState] /\ HasDump'
        BY <1>16, BreakRun, RunsTyped DEF HasDump, Break
    <2> QED
        BY <1>16, <2>1, BreakRun DEF TypeOK, Break, counters
<1> QED
    BY <1>1, <1>2, <1>3, <1>4, <1>5, <1>6, <1>7, <1>8, <1>9, <1>10, <1>11, <1>12,
       <1>13, <1>14, <1>15, <1>16 DEF Next, Step

\* Every variable has its type in every reachable state (db-restore, db-save
\* and the concurrency groups of the workflows that call them).
THEOREM StoreTypeCorrect == Spec => []TypeOK
<1>1. Init => TypeInv
    BY InitTypeInv
<1>2. TypeInv /\ [Next]_svars => TypeInv'
    BY NextTypeInv
<1>3. TypeInv => TypeOK
    BY DEF TypeInv
<1> QED
    BY <1>1, <1>2, <1>3, PTL DEF Spec

-----------------------------------------------------------------------------
(* The dump kept for a rollback.                                           *)

\* A run goes on alone, and starts when no writer is at work.
LEMMA OneStays ==
    ASSUME OneAtWork, NEW k \in Workflows, Others(k),
           k \in Writers /\ job'[k].pc # "idle" => job[k].pc # "idle" \/ GroupFree(k)
    PROVE  OneAtWork'
BY DEF OneAtWork, Others, GroupFree, Workflows

\* While a writer is at work the others are idle.
LEMMA OthersIdle ==
    ASSUME OneAtWork, NEW k \in Writers, job[k].pc # "idle"
    PROVE  \A w \in Writers : w # k => job[w].pc = "idle"
BY DEF OneAtWork

\* A step that leaves the primary alone, and at most drops the previous dump,
\* keeps what is said of the release.
LEMMA QuietStep ==
    ASSUME StoreInv, TypeInv', NEW k \in Workflows, Others(k), issued' = issued,
           release'["primary"] = release["primary"],
           release'["previous"] \in {release["previous"], Absent},
           k \in Writers /\ job'[k].pc # "idle" => job[k].pc # "idle" \/ GroupFree(k),
           k \in Readers => job'[k].pc \in {"idle", "restore", "load", "work"},
           job'[k].pc # "displaced"
    PROVE  StoreInv'
<1> USE DEF StoreInv
<1>1. OneAtWork'
    BY OneStays
<1>2. ReadersRead'
    BY DEF ReadersRead, Others, Workflows
<1>3. PrimaryIsLast'
    BY DEF PrimaryIsLast, Current
<1>4. InSave'
    BY DEF InSave, Others, Workflows
<1>5. RollbackIsPredecessor'
    BY DEF RollbackIsPredecessor
<1> QED
    BY <1>1, <1>2, <1>3, <1>4, <1>5

LEMMA InitStoreInv == Init => StoreInv
<1> SUFFICES ASSUME Init PROVE StoreInv
    OBVIOUS
<1>1. TypeInv
    BY InitTypeInv
<1>2. \A k \in Workflows : job[k].pc = "idle"
    BY DEF Init, Idle
<1>3. OneAtWork /\ ReadersRead /\ InSave
    BY <1>2 DEF OneAtWork, ReadersRead, InSave, Workflows
<1>4. release["previous"] = Absent
    BY DEF Init, Names
<1>5. PrimaryIsLast
    <2>1. CASE issued = <<>>
        BY <2>1 DEF Init, Names, PrimaryIsLast
    <2>2. CASE issued = <<Origin>>
        <3>1. Current = Origin
            BY <2>2 DEF Current
        <3>2. issued # <<>> /\ release["primary"] = Origin
            BY <2>2 DEF Init, Names
        <3> QED
            BY <3>1, <3>2 DEF PrimaryIsLast
    <2> QED
        BY <2>1, <2>2 DEF Init
<1> QED
    BY <1>1, <1>3, <1>4, <1>5 DEF StoreInv, RollbackIsPredecessor

\* The first rename keeps the primary as the previous dump.
LEMMA DisplaceStep ==
    ASSUME StoreInv, NEW k \in Workflows, Displace(k)
    PROVE  /\ k \in Writers /\ release'["primary"] = Absent
           /\ IF release["primary"] = Absent
              THEN release'["previous"] = release["previous"]
              ELSE release'["previous"] = Current /\ issued # <<>>
<1>1. k \in Writers
    BY DEF StoreInv, ReadersRead, Displace, Workflows
<1>2. CASE release["primary"] = Absent
    BY <1>1, <1>2 DEF Displace, Displaced
<1>3. CASE release["primary"] # Absent
    <2>1. release' = [release EXCEPT !["previous"] = release["primary"],
                                     !["primary"] = Absent]
        BY <1>3 DEF Displace, Displaced
    <2>2. release \in [Names -> Dumps \cup {Absent}]
        BY DEF StoreInv, TypeInv, TypeOK
    <2>3. release'["previous"] = release["primary"] /\ release'["primary"] = Absent
        BY <2>1, <2>2 DEF Names
    <2> QED
        BY <1>1, <1>3, <2>3 DEF StoreInv, PrimaryIsLast
<1> QED
    BY <1>2, <1>3

\* The second rename issues the dump that was uploaded; there was no primary.
LEMMA PromoteStep ==
    ASSUME StoreInv, NEW k \in Workflows, Promote(k)
    PROVE  /\ k \in Writers /\ release["primary"] = Absent
           /\ job[k].db \in Dumps
           /\ release'["primary"] = job[k].db
           /\ release'["previous"] = release["previous"]
           /\ issued' = Append(issued, job[k].db)
           /\ issued' # <<>> /\ Current' = job[k].db
<1>1. k \in Writers
    BY DEF StoreInv, ReadersRead, Promote, Workflows
<1>2. release["primary"] = Absent /\ job[k].db \in Dumps
    BY <1>1 DEF StoreInv, InSave, TypeInv, HasDump, Promote, Workflows
<1>3. release \in [Names -> Dumps \cup {Absent}] /\ issued \in Seq(Dumps)
    BY DEF StoreInv, TypeInv, TypeOK
<1>4. release'["primary"] = job[k].db /\ release'["previous"] = release["previous"]
    BY <1>3 DEF Promote, Names
<1>5. issued' = Append(issued, job[k].db)
    BY DEF Promote
<1>6. Len(issued') = Len(issued) + 1 /\ issued'[Len(issued')] = job[k].db
    BY <1>2, <1>3, <1>5
<1>7. issued' # <<>>
    BY <1>2, <1>3, <1>5
<1> QED
    BY <1>1, <1>2, <1>4, <1>5, <1>6, <1>7 DEF Current

\* Every step keeps the invariant.
LEMMA NextStoreInv == StoreInv /\ [Next]_svars => StoreInv'
<1> SUFFICES ASSUME StoreInv, [Next]_svars PROVE StoreInv'
    OBVIOUS
<1>0. TypeOK /\ TypeInv /\ TypeInv'
    BY NextTypeInv DEF StoreInv, TypeInv
<1>1. CASE UNCHANGED svars
    BY <1>0, <1>1 DEF StoreInv, OneAtWork, ReadersRead, PrimaryIsLast, Current, InSave,
                RollbackIsPredecessor, svars
<1>2. ASSUME NEW k \in Workflows, Dispatch(k) PROVE StoreInv'
    BY <1>0, <1>2 DEF StoreInv, OneAtWork, ReadersRead, PrimaryIsLast, Current, InSave,
                RollbackIsPredecessor, Dispatch
<1>3. ASSUME NEW k \in Workflows, Start(k) PROVE StoreInv'
    BY <1>0, <1>3, StartRun, QuietStep, StoreAssumption DEF Start, Workflows
<1>4. ASSUME NEW k \in Workflows, StartReader(k) PROVE StoreInv'
    BY <1>0, <1>4, StartReaderRun, QuietStep, StoreAssumption DEF StartReader, Workflows
<1>5. ASSUME NEW k \in Workflows, Download(k) PROVE StoreInv'
    BY <1>0, <1>5, DownloadRun, QuietStep, StoreAssumption DEF Download, Workflows
<1>6. ASSUME NEW k \in Workflows, DownloadFails(k) PROVE StoreInv'
    BY <1>0, <1>6, DownloadFailsRun, QuietStep, StoreAssumption
       DEF DownloadFails, Workflows
<1>7. ASSUME NEW k \in Workflows, Load(k) PROVE StoreInv'
    BY <1>0, <1>7, LoadRun, QuietStep, StoreAssumption DEF Load, Workflows
<1>8. ASSUME NEW k \in Workflows, Work(k) PROVE StoreInv'
    BY <1>0, <1>8, WorkRun, QuietStep, StoreAssumption DEF Work, TypeInv, HasDump
<1>9. ASSUME NEW k \in Workflows, Publish(k) PROVE StoreInv'
    BY <1>0, <1>9, Ends, QuietStep, StoreAssumption DEF Publish, Hows
<1>10. ASSUME NEW k \in Workflows, SaveRefused(k) PROVE StoreInv'
    BY <1>0, <1>10, Ends, QuietStep, StoreAssumption DEF SaveRefused, Hows
<1>11. ASSUME NEW k \in Workflows, Upload(k) PROVE StoreInv'
    BY <1>0, <1>11, UploadRun, QuietStep, StoreAssumption
       DEF Upload, ReadersRead, StoreInv, Workflows, TypeOK, Names
<1>12. ASSUME NEW k \in Workflows, UploadFails(k) PROVE StoreInv'
    BY <1>0, <1>12, UploadFailsRun, QuietStep, StoreAssumption
       DEF UploadFails, Clobber, ReadersRead, StoreInv, Workflows, TypeOK, Names
<1>13. ASSUME NEW k \in Workflows, Retire(k) PROVE StoreInv'
    BY <1>0, <1>13, RetireRun, QuietStep, StoreAssumption
       DEF Retire, ReadersRead, StoreInv, Workflows, TypeOK, Names
<1>14. ASSUME NEW k \in Workflows, Break(k) PROVE StoreInv'
    BY <1>0, <1>14, BreakRun, QuietStep, StoreAssumption DEF Break, Workflows
<1>15. ASSUME NEW k \in Workflows, Displace(k) PROVE StoreInv'
    <2>1. /\ Others(k) /\ job'[k].pc = "displaced" /\ issued' = issued
          /\ job[k].pc = "retired"
        BY <1>0, <1>15, DisplaceRun DEF Displace
    <2>2. k \in Writers /\ release'["primary"] = Absent
        BY <1>15, DisplaceStep
    <2>3. OneAtWork'
        BY <2>1, OneStays DEF StoreInv
    <2>4. ReadersRead'
        BY <2>1, <2>2, StoreAssumption DEF StoreInv, ReadersRead, Others, Workflows
    <2>5. PrimaryIsLast' /\ InSave'
        BY <2>2 DEF PrimaryIsLast, InSave
    <2>6. RollbackIsPredecessor'
        <3>1. CASE release["primary"] = Absent
            BY <1>15, <2>1, <3>1, DisplaceStep DEF StoreInv, RollbackIsPredecessor
        <3>2. CASE release["primary"] # Absent
            <4>1. release'["previous"] = issued[Len(issued)] /\ issued # <<>>
                BY <1>15, <3>2, DisplaceStep DEF Current
            <4>2. Len(issued) > 0
                BY <1>0, <4>1 DEF TypeOK
            <4> QED
                BY <2>1, <2>2, <4>1, <4>2 DEF RollbackIsPredecessor
        <3> QED
            BY <3>1, <3>2
    <2> QED
        BY <1>0, <2>3, <2>4, <2>5, <2>6 DEF StoreInv
<1>16. ASSUME NEW k \in Workflows, Promote(k) PROVE StoreInv'
    <2>1. Others(k) /\ job'[k].pc \in {"idle", "work"} /\ job[k].pc = "displaced"
        BY <1>0, <1>16, PromoteRun DEF Promote
    <2>2. /\ k \in Writers /\ release["primary"] = Absent
          /\ job[k].db \in Dumps
          /\ release'["primary"] = job[k].db
          /\ release'["previous"] = release["previous"]
          /\ issued' = Append(issued, job[k].db)
          /\ issued' # <<>> /\ Current' = job[k].db
        BY <1>16, PromoteStep
    <2>3. OneAtWork'
        BY <2>1, OneStays DEF StoreInv
    <2>4. ReadersRead'
        BY <2>1, <2>2, StoreAssumption DEF StoreInv, ReadersRead, Others, Workflows
    <2>5. PrimaryIsLast'
        BY <2>2 DEF PrimaryIsLast
    <2>6. InSave'
        <3>1. \A w \in Writers : w # k => job[w].pc = "idle"
            BY <2>1, <2>2, OthersIdle DEF StoreInv
        <3> QED
            BY <2>1, <3>1 DEF InSave, Others, Workflows
    <2>7. RollbackIsPredecessor'
        <3>1. issued \in Seq(Dumps)
            BY <1>0 DEF TypeOK
        <3>2. Len(issued') = Len(issued) + 1 /\ \A n \in 1..Len(issued) : issued'[n] = issued[n]
            BY <2>2, <3>1
        <3>3. release["previous"] # Absent =>
                Len(issued) > 0 /\ release["previous"] = issued[Len(issued)]
            BY <2>2 DEF StoreInv, RollbackIsPredecessor
        <3>4. release'["primary"] # Absent
            BY <2>2, StoreAssumption
        <3>5. Len(issued) \in Nat
            BY <3>1
        <3> QED
            BY <2>2, <3>2, <3>3, <3>4, <3>5 DEF RollbackIsPredecessor
    <2> QED
        BY <1>0, <2>3, <2>4, <2>5, <2>6, <2>7 DEF StoreInv
<1> QED
    BY <1>1, <1>2, <1>3, <1>4, <1>5, <1>6, <1>7, <1>8, <1>9, <1>10, <1>11, <1>12,
       <1>13, <1>14, <1>15, <1>16 DEF Next, Step

\* The dump kept for a rollback is the one the primary replaced, whatever was
\* cancelled or lost between the steps of a save, for every writer (db-save).
THEOREM RollbackCorrect == Spec => []RollbackIsPredecessor
<1>1. StoreInv => RollbackIsPredecessor
    BY DEF StoreInv
<1> QED
    BY <1>1, InitStoreInv, NextStoreInv, PTL DEF Spec

-----------------------------------------------------------------------------
(* Nothing is lost.                                                        *)

LEMMA InitKeptInv == Init => KeptInv
<1> SUFFICES ASSUME Init PROVE KeptInv
    OBVIOUS
<1>1. StoreInv
    BY InitStoreInv
<1>2. LastIsKept
    BY StoreAssumption DEF Init, LastIsKept, Names, Origin, Dumps, Units
<1>3. FoundPrimary
    BY DEF Init, FoundPrimary, Idle, Workflows
<1> QED
    BY <1>1, <1>2, <1>3 DEF KeptInv

\* A step that leaves the primary alone, and drops the previous dump only while
\* there is a primary, keeps the last dump.
LEMMA KeptQuietStep ==
    ASSUME KeptInv, StoreInv', NEW k \in Workflows, Others(k), issued' = issued,
           release'["primary"] = release["primary"],
           \/ release'["previous"] = release["previous"]
           \/ release["primary"] # Absent,
           \/ release["primary"] # Absent
           \/ job'[k].pc \in {"idle", "restore", "displaced"}
           \/ job'[k].pc = "save" /\ job'[k].db = NoSchema
           \/ k \notin Writers
    PROVE  KeptInv'
<1>1. LastIsKept'
    BY DEF KeptInv, LastIsKept, Current
<1>2. FoundPrimary'
    BY DEF KeptInv, FoundPrimary, Others, Workflows
<1> QED
    BY <1>1, <1>2 DEF KeptInv

\* Without the seeder, every step keeps the last dump in the release.
LEMMA NextKeptInv ==
    ASSUME "seed" \notin Writers
    PROVE  KeptInv /\ [Next]_svars => KeptInv'
<1> SUFFICES ASSUME KeptInv, [Next]_svars PROVE KeptInv'
    OBVIOUS
<1>0. TypeOK /\ TypeInv /\ StoreInv /\ FoundPrimary /\ StoreInv' /\ TypeOK'
    BY NextStoreInv DEF StoreInv, TypeInv, KeptInv
<1>1. CASE UNCHANGED svars
    BY <1>0, <1>1 DEF KeptInv, LastIsKept, FoundPrimary, Current, svars
<1>2. ASSUME NEW k \in Workflows, Dispatch(k) PROVE KeptInv'
    BY <1>0, <1>2 DEF KeptInv, LastIsKept, FoundPrimary, Current, Dispatch
<1>3. ASSUME NEW k \in Workflows, Start(k) PROVE KeptInv'
    BY <1>0, <1>3, StartRun, KeptQuietStep, StoreAssumption DEF Start
<1>4. ASSUME NEW k \in Workflows, StartReader(k) PROVE KeptInv'
    BY <1>0, <1>4, StartReaderRun, KeptQuietStep, StoreAssumption DEF StartReader
<1>5. ASSUME NEW k \in Workflows, Download(k) PROVE KeptInv'
    BY <1>0, <1>5, DownloadRun, KeptQuietStep, StoreAssumption DEF Download
<1>6. ASSUME NEW k \in Workflows, DownloadFails(k) PROVE KeptInv'
    <2>1. UNCHANGED <<release, issued>>
        BY <1>6 DEF DownloadFails
    <2>2. /\ Others(k)
          /\ \/ job'[k].pc \in {"idle", "restore"}
             \/ job'[k].pc = "save" /\ job'[k].db = NoSchema
             \/ k \notin Writers
        BY <1>0, <1>6, DownloadFailsRun
    <2> QED
        BY <1>0, <2>1, <2>2, KeptQuietStep
<1>7. ASSUME NEW k \in Workflows, Load(k) PROVE KeptInv'
    BY <1>0, <1>7, LoadRun, KeptQuietStep, StoreAssumption
       DEF Load, FoundPrimary, Workflows
<1>8. ASSUME NEW k \in Workflows, Work(k) PROVE KeptInv'
    BY <1>0, <1>8, WorkRun, KeptQuietStep, StoreAssumption
       DEF Work, FoundPrimary, TypeInv, HasDump
<1>9. ASSUME NEW k \in Workflows, Publish(k) PROVE KeptInv'
    BY <1>0, <1>9, Ends, KeptQuietStep, StoreAssumption DEF Publish, Hows
<1>10. ASSUME NEW k \in Workflows, SaveRefused(k) PROVE KeptInv'
    BY <1>0, <1>10, Ends, KeptQuietStep, StoreAssumption DEF SaveRefused, Hows
<1>11. ASSUME NEW k \in Workflows, Upload(k) PROVE KeptInv'
    BY <1>0, <1>11, UploadRun, KeptQuietStep, StoreAssumption
       DEF Upload, FoundPrimary, TypeOK, Names
<1>12. ASSUME NEW k \in Workflows, UploadFails(k) PROVE KeptInv'
    BY <1>0, <1>12, UploadFailsRun, KeptQuietStep, StoreAssumption
       DEF UploadFails, Clobber, FoundPrimary, TypeOK, Names
<1>13. ASSUME NEW k \in Workflows, Retire(k) PROVE KeptInv'
    BY <1>0, <1>13, RetireRun, KeptQuietStep, StoreAssumption
       DEF Retire, FoundPrimary, StoreInv, ReadersRead, TypeOK, Names, Workflows
<1>14. ASSUME NEW k \in Workflows, Break(k) PROVE KeptInv'
    BY <1>0, <1>14, BreakRun, KeptQuietStep, StoreAssumption
       DEF Break, FoundPrimary, Workflows
<1>15. ASSUME NEW k \in Workflows, Displace(k) PROVE KeptInv'
    <2>1. /\ Others(k) /\ job'[k].pc = "displaced" /\ issued' = issued
          /\ job[k].pc = "retired" /\ k \in Writers
        BY <1>0, <1>15, DisplaceRun, DisplaceStep DEF Displace
    <2>2. release["primary"] # Absent
        BY <1>0, <2>1 DEF FoundPrimary
    <2>3. LastIsKept'
        BY <1>0, <1>15, <2>1, <2>2, DisplaceStep DEF LastIsKept, Current
    <2>4. \A w \in Writers : w # k => job[w].pc = "idle"
        BY <1>0, <2>1, OthersIdle DEF StoreInv
    <2>5. FoundPrimary'
        BY <2>1, <2>4 DEF FoundPrimary, Others, Workflows
    <2> QED
        BY <1>0, <2>3, <2>5 DEF KeptInv
<1>16. ASSUME NEW k \in Workflows, Promote(k) PROVE KeptInv'
    <2>1. release'["primary"] # Absent
        BY <1>0, <1>16, PromoteStep, StoreAssumption
    <2> QED
        BY <1>0, <2>1 DEF KeptInv, LastIsKept, FoundPrimary
<1> QED
    BY <1>1, <1>2, <1>3, <1>4, <1>5, <1>6, <1>7, <1>8, <1>9, <1>10, <1>11, <1>12,
       <1>13, <1>14, <1>15, <1>16 DEF Next, Step

\* Where the last dump is kept it can be recovered.
LEMMA KeptIsRecoverable == KeptInv => Recoverable
<1> SUFFICES ASSUME KeptInv, issued # <<>>
             PROVE  \E n \in Names : release[n] # Absent /\ Current \subseteq release[n]
    BY DEF Recoverable
<1>1. Current \in Dumps
    <2>1. issued \in Seq(Dumps) /\ issued # <<>>
        BY DEF KeptInv, StoreInv, TypeInv, TypeOK
    <2>2. Len(issued) \in 1..Len(issued)
        BY <2>1
    <2>3. issued[Len(issued)] \in Dumps
        BY <2>1, <2>2
    <2> QED
        BY <2>1, <2>3 DEF Current
<1>2. CASE release["primary"] # Absent
    BY <1>2 DEF KeptInv, StoreInv, PrimaryIsLast, Names
<1>3. CASE release["primary"] = Absent
    BY <1>1, <1>3, StoreAssumption DEF KeptInv, LastIsKept, Names
<1> QED
    BY <1>2, <1>3

\* Wherever a save is interrupted, the work of the store so far is in the
\* release under some name, for every writer but the seeder (db-save).
THEOREM RecoverableCorrect ==
    ASSUME "seed" \notin Writers
    PROVE  Spec => []Recoverable
<1>1. KeptInv /\ [Next]_svars => KeptInv'
    BY NextKeptInv
<1> QED
    BY <1>1, InitKeptInv, KeptIsRecoverable, PTL DEF Spec

-----------------------------------------------------------------------------
(* The scheduled writers are serial.                                       *)

Scheduled == {"seed", "statcast"} \cap Writers = {}

LEMMA InitSerialInv == Init => SerialInv
<1> SUFFICES ASSUME Init PROVE SerialInv
    OBVIOUS
<1>1. KeptInv
    BY InitKeptInv
<1>2. \A k \in Workflows : job[k].pc = "idle"
    BY DEF Init, Idle
<1>3. UnitsOfRuns
    BY <1>2 DEF Init, UnitsOfRuns, Current, Origin, Workflows
<1>4. WorksOnCurrent
    BY <1>2 DEF WorksOnCurrent, Workflows
<1> QED
    BY <1>1, <1>3, <1>4 DEF SerialInv

\* A step that issues nothing and starts nothing keeps the numbers of the runs.
LEMMA SameUnits ==
    ASSUME UnitsOfRuns, NEW k \in Workflows, Others(k), issued' = issued, runs' = runs,
           k \in Writers =>
               \/ job'[k].pc = "idle"
               \/ /\ job[k].pc # "idle"
                  /\ job'[k].run = job[k].run /\ job'[k].saves = job[k].saves
    PROVE  UnitsOfRuns'
BY DEF UnitsOfRuns, Others, Workflows, Current

\* A step that issues nothing keeps what the runs work on.
LEMMA SameWork ==
    ASSUME WorksOnCurrent, NEW k \in Workflows, Others(k), issued' = issued, runs' = runs,
           k \in Writers =>
               \/ job'[k].pc \in {"idle", "restore"}
               \/ job'[k].pc \in {"load", "work"} /\ job'[k].db = Current
               \/ /\ job'[k].pc \in {"save", "uploaded", "retired", "displaced"}
                  /\ job'[k].db = Current \cup {<<runs, 0>>}
    PROVE  WorksOnCurrent'
BY DEF WorksOnCurrent, Others, Workflows, Current

\* What the second rename makes of the store: the dump before it, and the unit
\* of the run.
LEMMA PromoteAdds ==
    ASSUME Scheduled, SerialInv, NEW k \in Workflows, Promote(k)
    PROVE  /\ Current' = Current \cup {<<runs, 0>>} /\ <<runs, 0>> \notin Current
           /\ \A u \in Current : u[1] < runs
           /\ runs \in Nat /\ runs' = runs
           /\ \A w \in Writers : job'[w].pc = "idle"
<1>1. /\ k \in Writers /\ Current' = job[k].db /\ TypeOK
      /\ job[k].pc = "displaced" /\ runs' = runs /\ runs \in Nat
    BY PromoteStep DEF SerialInv, KeptInv, StoreInv, TypeInv, TypeOK, Promote, counters
<1>2. job[k].db = Current \cup {<<runs, 0>>} /\ \A u \in Current : u[1] < runs
    BY <1>1 DEF SerialInv, UnitsOfRuns, WorksOnCurrent
<1>3. <<runs, 0>> \notin Current
    BY <1>1, <1>2
<1>4. \A w \in Writers : w # k => job[w].pc = "idle"
    BY <1>1, OthersIdle DEF SerialInv, KeptInv, StoreInv
<1>5. job'[k].pc = "idle" /\ Others(k)
    BY <1>1, PromoteRun DEF Scheduled
<1> QED
    BY <1>1, <1>2, <1>3, <1>4, <1>5 DEF Others, Workflows

\* Every step of the scheduled writers keeps the invariant.
LEMMA NextSerialInv ==
    ASSUME Scheduled
    PROVE  SerialInv /\ [Next]_svars => SerialInv'
<1> SUFFICES ASSUME SerialInv, [Next]_svars PROVE SerialInv'
    OBVIOUS
<1>0. TypeOK /\ TypeInv /\ StoreInv /\ KeptInv'
    BY NextKeptInv DEF Scheduled, StoreInv, TypeInv, KeptInv, SerialInv
<1>01. PrimaryIsLast /\ UnitsOfRuns /\ WorksOnCurrent
    BY <1>0 DEF StoreInv, SerialInv
<1>1. CASE UNCHANGED svars
    BY <1>0, <1>1 DEF SerialInv, UnitsOfRuns, WorksOnCurrent, Current, svars, counters
<1>2. ASSUME NEW k \in Workflows, Dispatch(k) PROVE SerialInv'
    BY <1>0, <1>2
       DEF SerialInv, UnitsOfRuns, WorksOnCurrent, Current, Dispatch, counters
<1>3. ASSUME NEW k \in Workflows, Start(k) PROVE SerialInv'
    <2>1. /\ Others(k) /\ job'[k].pc = "restore" /\ issued' = issued /\ runs' = runs + 1
          /\ job'[k].run = runs + 1 /\ job'[k].saves = 0 /\ runs \in Nat
        BY <1>0, <1>3, StartRun DEF Start, TypeOK
    <2>2. \A w \in Writers : w # k => job'[w].pc = "idle"
        BY <1>3, <2>1 DEF Start, GroupFree, Others, Workflows
    <2>3. \A u \in Current : u[1] \in Nat
        BY <1>0 DEF TypeOK, Current, Dumps, Units
    <2>4. \A u \in Current' : u[1] < runs' /\ u[1] <= runs'
        BY <1>01, <2>1, <2>3 DEF UnitsOfRuns, Current
    <2>5. UnitsOfRuns'
        BY <2>1, <2>2, <2>4 DEF UnitsOfRuns
    <2>6. WorksOnCurrent'
        BY <2>1, <2>2 DEF WorksOnCurrent
    <2> QED
        BY <1>0, <2>5, <2>6 DEF SerialInv
<1>4. ASSUME NEW k \in Workflows, StartReader(k) PROVE SerialInv'
    <2>1. UnitsOfRuns'
        BY <1>0, <1>01, <1>4, StartReaderRun, SameUnits, StoreAssumption
           DEF StartReader, counters
    <2>2. WorksOnCurrent'
        BY <1>0, <1>01, <1>4, StartReaderRun, SameWork, StoreAssumption
           DEF StartReader, WorksOnCurrent, counters
    <2> QED
        BY <1>0, <2>1, <2>2 DEF SerialInv
<1>5. ASSUME NEW k \in Workflows, Download(k) PROVE SerialInv'
    <2>1. UnitsOfRuns'
        BY <1>0, <1>01, <1>5, DownloadRun, SameUnits, StoreAssumption
           DEF Download, counters, PrimaryIsLast
    <2>2. WorksOnCurrent'
        BY <1>0, <1>01, <1>5, DownloadRun, SameWork, StoreAssumption
           DEF Download, WorksOnCurrent, counters, PrimaryIsLast
    <2> QED
        BY <1>0, <2>1, <2>2 DEF SerialInv
<1>6. ASSUME NEW k \in Workflows, DownloadFails(k) PROVE SerialInv'
    <2>1. UnitsOfRuns'
        BY <1>0, <1>01, <1>6, DownloadFailsRun, SameUnits, StoreAssumption
           DEF DownloadFails, Workflows, Scheduled
    <2>2. WorksOnCurrent'
        BY <1>0, <1>01, <1>6, DownloadFailsRun, SameWork, StoreAssumption
           DEF DownloadFails, WorksOnCurrent, Workflows, Scheduled
    <2> QED
        BY <1>0, <2>1, <2>2 DEF SerialInv
<1>7. ASSUME NEW k \in Workflows, Load(k) PROVE SerialInv'
    <2>1. UnitsOfRuns'
        BY <1>0, <1>01, <1>7, LoadRun, SameUnits, StoreAssumption
           DEF Load, counters
    <2>2. WorksOnCurrent'
        BY <1>0, <1>01, <1>7, LoadRun, SameWork, StoreAssumption
           DEF Load, WorksOnCurrent, counters
    <2> QED
        BY <1>0, <2>1, <2>2 DEF SerialInv
<1>8. ASSUME NEW k \in Workflows, Work(k) PROVE SerialInv'
    <2>1. UnitsOfRuns'
        BY <1>0, <1>01, <1>8, WorkRun, SameUnits, StoreAssumption
           DEF Work, counters, Scheduled, UnitsOfRuns, TypeInv, HasDump
    <2>2. WorksOnCurrent'
        BY <1>0, <1>01, <1>8, WorkRun, SameWork, StoreAssumption
           DEF Work, WorksOnCurrent, counters, Scheduled, UnitsOfRuns, TypeInv, HasDump
    <2> QED
        BY <1>0, <2>1, <2>2 DEF SerialInv
<1>9. ASSUME NEW k \in Workflows, Publish(k) PROVE SerialInv'
    <2>1. UnitsOfRuns'
        BY <1>0, <1>01, <1>9, Ends, SameUnits, StoreAssumption
           DEF Publish, counters, Hows
    <2>2. WorksOnCurrent'
        BY <1>0, <1>01, <1>9, Ends, SameWork, StoreAssumption
           DEF Publish, WorksOnCurrent, counters, Hows
    <2> QED
        BY <1>0, <2>1, <2>2 DEF SerialInv
<1>10. ASSUME NEW k \in Workflows, SaveRefused(k) PROVE SerialInv'
    <2>1. UnitsOfRuns'
        BY <1>0, <1>01, <1>10, Ends, SameUnits, StoreAssumption
           DEF SaveRefused, counters, Hows
    <2>2. WorksOnCurrent'
        BY <1>0, <1>01, <1>10, Ends, SameWork, StoreAssumption
           DEF SaveRefused, WorksOnCurrent, counters, Hows
    <2> QED
        BY <1>0, <2>1, <2>2 DEF SerialInv
<1>11. ASSUME NEW k \in Workflows, Upload(k) PROVE SerialInv'
    <2>1. UnitsOfRuns'
        BY <1>0, <1>01, <1>11, UploadRun, SameUnits, StoreAssumption
           DEF Upload, counters
    <2>2. WorksOnCurrent'
        BY <1>0, <1>01, <1>11, UploadRun, SameWork, StoreAssumption
           DEF Upload, WorksOnCurrent, counters
    <2> QED
        BY <1>0, <2>1, <2>2 DEF SerialInv
<1>12. ASSUME NEW k \in Workflows, UploadFails(k) PROVE SerialInv'
    <2>1. UnitsOfRuns'
        BY <1>0, <1>01, <1>12, UploadFailsRun, SameUnits, StoreAssumption
           DEF UploadFails, counters
    <2>2. WorksOnCurrent'
        BY <1>0, <1>01, <1>12, UploadFailsRun, SameWork, StoreAssumption
           DEF UploadFails, WorksOnCurrent, counters
    <2> QED
        BY <1>0, <2>1, <2>2 DEF SerialInv
<1>13. ASSUME NEW k \in Workflows, Retire(k) PROVE SerialInv'
    <2>1. UnitsOfRuns'
        BY <1>0, <1>01, <1>13, RetireRun, SameUnits, StoreAssumption
           DEF Retire, counters
    <2>2. WorksOnCurrent'
        BY <1>0, <1>01, <1>13, RetireRun, SameWork, StoreAssumption
           DEF Retire, WorksOnCurrent, counters
    <2> QED
        BY <1>0, <2>1, <2>2 DEF SerialInv
<1>14. ASSUME NEW k \in Workflows, Displace(k) PROVE SerialInv'
    <2>1. UnitsOfRuns'
        BY <1>0, <1>01, <1>14, DisplaceRun, SameUnits, StoreAssumption
           DEF Displace, counters
    <2>2. WorksOnCurrent'
        BY <1>0, <1>01, <1>14, DisplaceRun, SameWork, StoreAssumption
           DEF Displace, WorksOnCurrent, counters
    <2> QED
        BY <1>0, <2>1, <2>2 DEF SerialInv
<1>15. ASSUME NEW k \in Workflows, Break(k) PROVE SerialInv'
    <2>1. UnitsOfRuns'
        BY <1>0, <1>01, <1>15, BreakRun, SameUnits, StoreAssumption
           DEF Break, counters, Scheduled
    <2>2. WorksOnCurrent'
        BY <1>0, <1>01, <1>15, BreakRun, SameWork, StoreAssumption
           DEF Break, WorksOnCurrent, counters, Scheduled
    <2> QED
        BY <1>0, <2>1, <2>2 DEF SerialInv
<1>16. ASSUME NEW k \in Workflows, Promote(k) PROVE SerialInv'
    <2>1. /\ Current' = Current \cup {<<runs, 0>>} /\ runs' = runs /\ runs \in Nat
          /\ \A u \in Current : u[1] < runs
          /\ \A w \in Writers : job'[w].pc = "idle"
        BY <1>16, PromoteAdds
    <2>2. \A u \in Current' : u[1] <= runs'
        <3>1. \A u \in Current : u[1] \in Nat
            BY <1>0 DEF TypeOK, Current, Dumps, Units
        <3> QED
            BY <2>1, <3>1
    <2>3. UnitsOfRuns' /\ WorksOnCurrent'
        BY <2>1, <2>2 DEF UnitsOfRuns, WorksOnCurrent
    <2> QED
        BY <1>0, <2>3 DEF SerialInv
<1> QED
    BY <1>1, <1>2, <1>3, <1>4, <1>5, <1>6, <1>7, <1>8, <1>9, <1>10, <1>11, <1>12,
       <1>13, <1>14, <1>15, <1>16 DEF Next, Step

\* The store starts as the serial store does.
LEMMA InitIsSerial == Init => Serial!Init
BY DEF Init, Serial!Init, Current

\* A step of the scheduled writers is one writer's work added, or nothing.
LEMMA NextIsSerial ==
    ASSUME Scheduled
    PROVE  SerialInv /\ [Next]_svars => [Serial!Commit]_Current
<1> SUFFICES ASSUME SerialInv, [Next]_svars PROVE [Serial!Commit]_Current
    OBVIOUS
<1>1. CASE issued' = issued
    BY <1>1 DEF Current
<1>2. ASSUME NEW k \in Workflows, Promote(k) PROVE Serial!Commit
    <2>1. Current' = Current \cup {<<runs, 0>>} /\ <<runs, 0>> \notin Current
        BY <1>2, PromoteAdds
    <2> QED
        BY <2>1 DEF Serial!Commit
<1>3. issued' = issued \/ \E k \in Workflows : Promote(k)
    BY
       DEF Next, Step, svars, Dispatch, Start, StartReader, Download, DownloadFails, Load,
           Work, Publish, SaveRefused, Upload, UploadFails, Retire, Displace, Break
<1> QED
    BY <1>1, <1>2, <1>3

\* The scheduled writers, whatever interrupts them, leave the store as if each
\* completed save had been one atomic addition to it (refresh.yml and
\* pregame.yml through db-restore and db-save).
THEOREM StoreIsSerial ==
    ASSUME Scheduled
    PROVE  Spec => ImplementsSerial
<1>1. SerialInv /\ [Next]_svars => SerialInv'
    BY NextSerialInv
<1>2. SerialInv /\ [Next]_svars => [Serial!Commit]_Current
    BY NextIsSerial
<1> QED
    BY <1>1, <1>2, InitSerialInv, InitIsSerial, PTL
       DEF Spec, ImplementsSerial, Serial!Spec

-----------------------------------------------------------------------------
(* The site follows the store.                                             *)

LEMMA InitSiteInv == Init => SiteInv
<1>1. Init => SiteBehind
    BY DEF Init, SiteBehind, Idle, Workflows
<1> QED
    BY <1>1, InitSerialInv DEF SiteInv

\* A step that leaves the site alone and issues nothing keeps it behind, if a
\* reader that comes to load has the dump issued last.
LEMMA SiteQuietStep ==
    ASSUME SiteBehind, SerialInv', NEW k \in Workflows, Others(k),
           issued' = issued, site' = site,
           k \in Readers =>
               \/ job'[k].pc \notin {"load", "work"}
               \/ job[k].pc = "load" /\ job'[k].db = job[k].db
               \/ job'[k].db \in Dumps /\ job'[k].db = Current
    PROVE  SiteInv'
BY DEF SiteInv, SiteBehind, Others, Workflows, Current

\* Where the publish job runs one at a time, every step of it and of the
\* scheduled writers keeps the site behind the store.
LEMMA NextSiteInv ==
    ASSUME Scheduled, \A r, s \in Readers : r = s
    PROVE  SiteInv /\ [Next]_svars => SiteInv'
<1> SUFFICES ASSUME SiteInv, [Next]_svars PROVE SiteInv'
    OBVIOUS
<1>0. TypeOK /\ SiteBehind /\ PrimaryIsLast /\ SerialInv /\ SerialInv'
    BY NextSerialInv DEF SiteInv, StoreInv, TypeInv, KeptInv, SerialInv
<1>1. CASE UNCHANGED svars
    BY <1>0, <1>1 DEF SiteInv, SiteBehind, Current, svars
<1>2. ASSUME NEW k \in Workflows, Dispatch(k) PROVE SiteInv'
    BY <1>0, <1>2 DEF SiteInv, SiteBehind, Current, Dispatch
<1>3. ASSUME NEW k \in Workflows, Start(k) PROVE SiteInv'
    BY <1>0, <1>3, StartRun, SiteQuietStep, StoreAssumption DEF Start
<1>4. ASSUME NEW k \in Workflows, StartReader(k) PROVE SiteInv'
    BY <1>0, <1>4, StartReaderRun, SiteQuietStep, StoreAssumption DEF StartReader
<1>5. ASSUME NEW k \in Workflows, Download(k) PROVE SiteInv'
    BY <1>0, <1>5, DownloadRun, SiteQuietStep, StoreAssumption
       DEF Download, PrimaryIsLast
<1>6. ASSUME NEW k \in Workflows, DownloadFails(k) PROVE SiteInv'
    BY <1>0, <1>6, DownloadFailsRun, SiteQuietStep, StoreAssumption
       DEF DownloadFails, Scheduled, Workflows
<1>7. ASSUME NEW k \in Workflows, Load(k) PROVE SiteInv'
    BY <1>0, <1>7, LoadRun, SiteQuietStep, StoreAssumption DEF Load
<1>8. ASSUME NEW k \in Workflows, Work(k) PROVE SiteInv'
    BY <1>0, <1>8, WorkRun, SiteQuietStep, StoreAssumption
       DEF Work, SerialInv, KeptInv, StoreInv, TypeInv, HasDump, Workflows
<1>9. ASSUME NEW k \in Workflows, SaveRefused(k) PROVE SiteInv'
    BY <1>0, <1>9, Ends, SiteQuietStep, StoreAssumption DEF SaveRefused, Hows
<1>10. ASSUME NEW k \in Workflows, Upload(k) PROVE SiteInv'
    BY <1>0, <1>10, UploadRun, SiteQuietStep, StoreAssumption DEF Upload
<1>11. ASSUME NEW k \in Workflows, UploadFails(k) PROVE SiteInv'
    BY <1>0, <1>11, UploadFailsRun, SiteQuietStep, StoreAssumption DEF UploadFails
<1>12. ASSUME NEW k \in Workflows, Retire(k) PROVE SiteInv'
    BY <1>0, <1>12, RetireRun, SiteQuietStep, StoreAssumption DEF Retire
<1>13. ASSUME NEW k \in Workflows, Displace(k) PROVE SiteInv'
    BY <1>0, <1>13, DisplaceRun, SiteQuietStep, StoreAssumption DEF Displace
<1>14. ASSUME NEW k \in Workflows, Break(k) PROVE SiteInv'
    BY <1>0, <1>14, BreakRun, SiteQuietStep, StoreAssumption
       DEF Break, SerialInv, KeptInv, StoreInv
<1>15. ASSUME NEW k \in Workflows, Publish(k) PROVE SiteInv'
    <2>1. /\ k \in Readers /\ job'[k].pc = "idle" /\ site' = job[k].db /\ issued' = issued
          /\ job[k].db \in Dumps /\ job[k].db \subseteq Current
        BY <1>0, <1>15, Ends DEF Publish, Hows, SiteBehind
    <2>2. \A r \in Readers : job'[r].pc = "idle"
        BY <2>1
    <2> QED
        BY <1>0, <2>1, <2>2 DEF SiteInv, SiteBehind, Current
<1>16. ASSUME NEW k \in Workflows, Promote(k) PROVE SiteInv'
    <2>1. k \in Writers /\ Current \subseteq Current' /\ Others(k) /\ site' = site
        BY <1>0, <1>16, PromoteAdds, PromoteRun, PromoteStep
           DEF SerialInv, KeptInv, Promote
    <2>2. \A r \in Readers : job'[r] = job[r]
        BY <2>1, StoreAssumption DEF Others, Workflows
    <2> QED
        BY <1>0, <2>1, <2>2 DEF SiteInv, SiteBehind
<1> QED
    BY <1>1, <1>2, <1>3, <1>4, <1>5, <1>6, <1>7, <1>8, <1>9, <1>10, <1>11, <1>12,
       <1>13, <1>14, <1>15, <1>16 DEF Next, Step

\* What is published is no older than the site it replaces.
LEMMA PublishForward ==
    SiteInv /\ [Next]_svars => [site # Absent => site \subseteq site']_site
<1> SUFFICES ASSUME SiteInv, [Next]_svars, site' # site, site # Absent
             PROVE  site \subseteq site'
    OBVIOUS
<1>1. PICK k \in Workflows : Publish(k)
    BY
       DEF Next, Step, svars, Dispatch, Start, StartReader, Download, DownloadFails, Load,
           Work, SaveRefused, Upload, UploadFails, Retire, Displace, Promote, Break
<1> QED
    BY <1>1 DEF SiteInv, SiteBehind, Publish

\* The published site never goes back to an older state of the store, if the
\* writers are the scheduled ones and one publish job runs at a time: that its
\* download falls anywhere in a save does not matter (pages.yml).
THEOREM SiteCorrect ==
    ASSUME Scheduled, \A r, s \in Readers : r = s
    PROVE  Spec => SiteNeverGoesBack
<1>1. SiteInv /\ [Next]_svars => SiteInv'
    BY NextSiteInv
<1> QED
    BY <1>1, InitSiteInv, PublishForward, PTL DEF Spec, SiteNeverGoesBack

=============================================================================
