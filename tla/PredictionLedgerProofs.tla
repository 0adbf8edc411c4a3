----------------------- MODULE PredictionLedgerProofs -----------------------
(***************************************************************************)
(* What is proved of the predictions table: under the predict jobs, for    *)
(* every slate, every number of jobs and every value of the bounds; and    *)
(* under the revisions of the schema, whose repair rewrites its rows.      *)
(*                                                                         *)
(* ChainIntegrity is not inductive: it says nothing of the rows a job has  *)
(* inserted and not committed, and those become rows of the chain.  InFlight *)
(* says what makes them fit: each is the only uncommitted row of its game, *)
(* its id is new, and what it retires is still the latest row of its game  *)
(* when the commit comes.  On IInv rest the three that follow: Recorded,   *)
(* that a feature row not yet flushed is checked before its snapshot is    *)
(* committed; InTime, that one job at a time builds as of no earlier than  *)
(* what it replaces; Ranked, that the rows of a game can be counted off in *)
(* the order of their ids, which makes a commit an addition at the end.    *)
(*                                                                         *)
(* The last part is about the revisions (Migrations): the repair, and the  *)
(* code on either side of it, leave no game two latest snapshots on any    *)
(* way up and down, and where the order of created_at is that of the ids   *)
(* they leave its newest.  What the steps of a revision do to a schema is  *)
(* a fold over concrete sequences, which TLC evaluates: what is taken from *)
(* it is RevisionsFit.                                                     *)
(***************************************************************************)
EXTENDS PredictionLedger, Migrations, Sequences, FiniteSetTheorems, WellFoundedInduction, TLAPS

\* Every id in use came from the sequence, and no two inserts share one.
IdsFresh ==
    /\ \A i \in DOMAIN pred : i < nextId
    /\ \A j \in Jobs : \A w \in wrote[j] :
        /\ w.id # 0 /\ w.id < nextId /\ w.id \notin DOMAIN pred
        /\ w.replaces < w.id
    /\ \A j, k \in Jobs : \A w \in wrote[j], v \in wrote[k] :
        w.id = v.id => w = v

\* A game has one uncommitted snapshot at most, among all the jobs.
OneWriter ==
    \A j, k \in Jobs : \A w \in wrote[j], v \in wrote[k] :
        w.game = v.game => j = k /\ w = v

\* A job does not come back to a game it has written.
WritesBehind ==
    \A j \in Jobs : \A w \in wrote[j] :
        w.game \notin job[j].todo /\ w.game # job[j].game

\* What an uncommitted snapshot retires is the latest row of its game, and it
\* retires nothing only when the game has none.
ReplacesLatest ==
    \A j \in Jobs : \A w \in wrote[j] :
        IF w.replaces = 0
        THEN Latest(w.game) = {}
        ELSE w.replaces \in Latest(w.game)

\* The schedule a run read is a real one, and so are its feature set, the game
\* in hand and the row read for it, which may no longer be latest.
InHand ==
    \A j \in Jobs :
        /\ job[j].pc # "idle" =>
            job[j].set \in FeatureSets /\ \A g \in Games : job[j].sched[g] # 0
        /\ job[j].pc \in {"built", "compared"} =>
            job[j].game \in Games /\ job[j].game \notin job[j].todo
        /\ job[j].pc = "compared" /\ job[j].existing # 0 =>
            /\ job[j].existing \in DOMAIN pred
            /\ pred[job[j].existing].game = job[j].game

InFlight == IdsFresh /\ OneWriter /\ WritesBehind /\ ReplacesLatest /\ InHand

IInv == TypeOK /\ ChainIntegrity /\ InFlight

-----------------------------------------------------------------------------

LEMMA IdleIsJobState == Idle \in JobState
BY DEF Idle, JobState

LEMMA AfterWriteType ==
    ASSUME NEW s \in JobState, NEW q \in SUBSET (Games \X FeatureSets \X Nat)
    PROVE  [s EXCEPT !.pc = "slate", !.game = NoGame, !.asOf = 0,
                     !.existing = 0, !.pending = q] \in JobState
BY DEF JobState

LEMMA LiveAsOfType ==
    ASSUME NEW t \in Nat, NEW p \in Nat \ {0}
    PROVE  LiveAsOf(p, t) \in Nat
BY DEF LiveAsOf, Min2

\* What current_latest returns is the latest row of the game, or none.
LEMMA CurrentLatestIsRow ==
    ASSUME TypeOK, OneLatestPerGame, NEW g \in Games
    PROVE  /\ CurrentLatest(g) \in Nat
           /\ CurrentLatest(g) # 0 => CurrentLatest(g) \in Latest(g)
<1>1. CASE Latest(g) = {}
    BY <1>1 DEF CurrentLatest
<1>2. CASE Latest(g) # {}
    <2>1. PICK e \in Latest(g) : TRUE
        BY <1>2
    <2>2. e \in Nat /\ \A k \in Latest(g) : k = e
        BY <2>1 DEF Latest, OneLatestPerGame, TypeOK
    <2>3. \A k \in Latest(g) : k <= e
        BY <2>2
    <2>4. CurrentLatest(g) \in Latest(g)
        BY <1>2, <2>1, <2>3 DEF CurrentLatest
    <2> QED
        BY <2>2, <2>4
<1> QED
    BY <1>1, <1>2

\* The initial state satisfies the inductive invariant.
LEMMA InitIInv == Init => IInv
<1> SUFFICES ASSUME Init PROVE IInv
    OBVIOUS
<1>1. TypeOK
    <2>1. pitch \in [Games -> Nat \ {0}]
        BY LedgerAssumption DEF Init
    <2>2. DOMAIN pred \subseteq Nat \ {0} /\ pred \in [DOMAIN pred -> Row]
        BY DEF Init
    <2>3. job \in [Jobs -> JobState] /\ wrote \in [Jobs -> SUBSET Insert]
        BY IdleIsJobState DEF Init
    <2>4. \A j \in Jobs : wrote[j] = {}
        BY DEF Init
    <2> QED
        BY <2>1, <2>2, <2>3, <2>4 DEF Init, TypeOK
<1>2. ChainIntegrity
    BY DEF Init, ChainIntegrity, OneLatestPerGame, EveryGameServed,
           SupersededByLater, OneSuccessorEach
<1>3. InFlight
    BY DEF Init, InFlight, IdsFresh, OneWriter, WritesBehind, ReplacesLatest,
           InHand, Idle
<1> QED
    BY <1>1, <1>2, <1>3 DEF IInv

\* A step that leaves the tables, the inserts and the jobs alone.
LEMMA WorldStep ==
    ASSUME IInv, UNCHANGED <<tables, nextId, job, wrote>>, TypeOK'
    PROVE  IInv'
<1>1. ChainIntegrity'
    BY DEF IInv, tables, ChainIntegrity, OneLatestPerGame, EveryGameServed,
           SupersededByLater, OneSuccessorEach
<1>2. InFlight'
    BY DEF IInv, tables, InFlight, IdsFresh, OneWriter, WritesBehind,
           ReplacesLatest, InHand, Latest
<1> QED
    BY <1>1, <1>2 DEF IInv

\* A step of one job that leaves the tables and its inserts alone.
LEMMA MemoryStep ==
    ASSUME IInv, NEW j \in Jobs, NEW s,
           UNCHANGED <<tables, nextId, wrote>>,
           job'[j] = s, \A k \in Jobs : k # j => job'[k] = job[k],
           TypeOK',
           \A w \in wrote[j] : w.game \notin s.todo /\ w.game # s.game,
           s.pc # "idle" => s.set \in FeatureSets /\ \A g \in Games : s.sched[g] # 0,
           s.pc \in {"built", "compared"} => s.game \in Games /\ s.game \notin s.todo,
           s.pc = "compared" /\ s.existing # 0 =>
               s.existing \in DOMAIN pred /\ pred[s.existing].game = s.game
    PROVE  IInv'
<1>1. ChainIntegrity'
    BY DEF IInv, tables, ChainIntegrity, OneLatestPerGame, EveryGameServed,
           SupersededByLater, OneSuccessorEach
<1>2. job'[j] = s /\ \A k \in Jobs : k # j => job'[k] = job[k]
    OBVIOUS
<1>3. (IdsFresh /\ OneWriter /\ ReplacesLatest)'
    BY DEF IInv, tables, InFlight, IdsFresh, OneWriter, ReplacesLatest, Latest
<1>4. WritesBehind'
    BY <1>2 DEF IInv, InFlight, WritesBehind
<1>5. InHand'
    BY <1>2 DEF IInv, tables, InFlight, InHand
<1> QED
    BY <1>1, <1>3, <1>4, <1>5 DEF IInv, InFlight

\* A rollback, whatever the cause: the inserts of the job are forgotten.
LEMMA RollbackStep ==
    ASSUME IInv, NEW j \in Jobs, Rollback(j),
           nextId' \in {nextId, nextId + 1}, TypeOK'
    PROVE  IInv'
<1> USE DEF Rollback
<1>1. ChainIntegrity'
    BY DEF IInv, tables, ChainIntegrity, OneLatestPerGame, EveryGameServed,
           SupersededByLater, OneSuccessorEach
<1>2. /\ job'[j] = Idle /\ \A k \in Jobs : k # j => job'[k] = job[k]
      /\ wrote'[j] = {} /\ \A k \in Jobs : k # j => wrote'[k] = wrote[k]
    BY DEF IInv, TypeOK
<1>3. IdsFresh'
    <2>1. \A k \in Jobs : \A w \in wrote[k] : w.id \in Nat
        BY DEF IInv, TypeOK, Insert
    <2>2. nextId \in Nat /\ DOMAIN pred \subseteq Nat /\ pred' = pred
        BY DEF IInv, TypeOK, tables
    <2> QED
        BY <1>2, <2>1, <2>2 DEF IInv, InFlight, IdsFresh
<1>4. OneWriter'
    BY <1>2 DEF IInv, InFlight, OneWriter
<1>5. WritesBehind'
    BY <1>2 DEF IInv, InFlight, WritesBehind
<1>6. ReplacesLatest'
    BY <1>2 DEF IInv, InFlight, ReplacesLatest, Latest, tables
<1>7. InHand'
    BY <1>2 DEF IInv, InFlight, InHand, Idle, tables
<1> QED
    BY <1>1, <1>3, <1>4, <1>5, <1>6, <1>7 DEF IInv, InFlight

\* An insert: the ledger is as it was, and the new uncommitted row fits.
LEMMA WriteStep ==
    ASSUME IInv, NEW j \in Jobs, Write(j)
    PROVE  IInv'
<1> DEFINE g == job[j].game
           w == [id |-> nextId, game |-> g, version |-> job[j].version,
                 set |-> job[j].set, asOf |-> job[j].asOf, rev |-> job[j].seen[g],
                 replaces |-> job[j].existing]
<1>1. job[j].pc = "compared" /\ ~Waiting(j) /\ ~Refused(j)
    BY DEF Write
<1>2. /\ wrote' = [wrote EXCEPT ![j] = @ \cup {w}]
      /\ nextId' = nextId + 1
      /\ job' = [job EXCEPT ![j].pc = "slate", ![j].game = NoGame,
                            ![j].asOf = 0, ![j].existing = 0,
                            ![j].pending = {<<g, job[j].set, job[j].asOf>>}]
      /\ UNCHANGED <<world, tables, begun, outcome, joblog>>
    BY DEF Write
<1>3. /\ job[j] \in JobState
      /\ nextId \in Nat \ {0}
      /\ DOMAIN pred \subseteq Nat \ {0}
      /\ wrote \in [Jobs -> SUBSET Insert]
      /\ job \in [Jobs -> JobState]
    BY DEF IInv, TypeOK
<1>4. g \in Games /\ g \notin job[j].todo /\ job[j].set \in FeatureSets
    BY <1>1 DEF IInv, InFlight, InHand
<1>5. w \in Insert
    BY <1>3, <1>4 DEF Insert, JobState
<1>6. /\ job'[j] = [job[j] EXCEPT !.pc = "slate", !.game = NoGame,
                                  !.asOf = 0, !.existing = 0,
                                  !.pending = {<<g, job[j].set, job[j].asOf>>}]
      /\ \A k \in Jobs : k # j => job'[k] = job[k]
      /\ wrote'[j] = wrote[j] \cup {w}
      /\ \A k \in Jobs : k # j => wrote'[k] = wrote[k]
    BY <1>2, <1>3
<1>7. job'[j] \in JobState
    <2>1. {<<g, job[j].set, job[j].asOf>>} \in SUBSET (Games \X FeatureSets \X Nat)
        BY <1>3, <1>4 DEF JobState
    <2>2. job[j] \in JobState
        BY <1>3
    <2>3. [job[j] EXCEPT !.pc = "slate", !.game = NoGame, !.asOf = 0,
                         !.existing = 0, !.pending = {<<g, job[j].set, job[j].asOf>>}]
            \in JobState
        BY <2>1, <2>2, AfterWriteType
    <2> QED
        BY <1>6, <2>3
<1>8. TypeOK'
    <2>1. job' \in [Jobs -> JobState]
        BY <1>2, <1>3, <1>6, <1>7
    <2>2. wrote' \in [Jobs -> SUBSET Insert]
        BY <1>2, <1>3, <1>5
    <2>3. nextId' \in Nat \ {0}
        BY <1>2, <1>3
    <2>4. \A k \in Jobs : job'[k].pc = "idle" => wrote'[k] = {}
        BY <1>6, <1>3 DEF IInv, TypeOK, JobState
    <2> QED
        BY <1>2, <2>1, <2>2, <2>3, <2>4 DEF IInv, TypeOK, world, tables
<1>9. ChainIntegrity'
    BY <1>2 DEF IInv, tables, ChainIntegrity, OneLatestPerGame,
                EveryGameServed, SupersededByLater, OneSuccessorEach
<1>10. IdsFresh'
    <2>1. \A i \in DOMAIN pred : i < nextId /\ i \in Nat
        BY <1>3 DEF IInv, InFlight, IdsFresh
    <2>2. \A k \in Jobs : \A v \in wrote[k] : v.id \in Nat /\ v.id < nextId
        BY <1>3 DEF IInv, InFlight, IdsFresh, Insert
    <2>3. w.id = nextId
        OBVIOUS
    <2>4. w.id # 0 /\ w.id < nextId + 1 /\ w.id \notin DOMAIN pred
        BY <2>1, <2>3, <1>3
    <2>8. w.replaces < w.id
        <3>1. job[j].existing \in DOMAIN pred \cup {0}
            BY <1>1 DEF IInv, InFlight, InHand
        <3> QED
            BY <3>1, <2>1, <1>3
    <2>5. \A i \in DOMAIN pred' : i < nextId'
        BY <2>1, <1>2, <1>3 DEF tables
    <2>6. \A k \in Jobs : \A v \in wrote'[k] :
            /\ v.id # 0 /\ v.id < nextId' /\ v.id \notin DOMAIN pred'
            /\ v.replaces < v.id
        <3> SUFFICES ASSUME NEW k \in Jobs, NEW v \in wrote'[k]
                     PROVE  /\ v.id # 0 /\ v.id < nextId' /\ v.id \notin DOMAIN pred'
                            /\ v.replaces < v.id
            OBVIOUS
        <3>1. CASE v = w /\ k = j
            BY <3>1, <2>4, <2>8, <1>2 DEF tables
        <3>2. CASE v \in wrote[k]
            BY <3>2, <2>2, <1>2, <1>3 DEF IInv, InFlight, IdsFresh, tables
        <3> QED
            BY <3>1, <3>2, <1>6
    <2>7. \A k, l \in Jobs : \A u \in wrote'[k], v \in wrote'[l] :
            u.id = v.id => u = v
        <3> SUFFICES ASSUME NEW k \in Jobs, NEW l \in Jobs,
                            NEW u \in wrote'[k], NEW v \in wrote'[l],
                            u.id = v.id
                     PROVE  u = v
            OBVIOUS
        <3>1. (u = w \/ u \in wrote[k]) /\ (v = w \/ v \in wrote[l])
            BY <1>6
        <3>2. CASE u \in wrote[k] /\ v \in wrote[l]
            BY <3>2 DEF IInv, InFlight, IdsFresh
        <3>3. CASE u = w /\ v \in wrote[l]
            BY <3>3, <2>2, <2>3, <1>3
        <3>4. CASE u \in wrote[k] /\ v = w
            BY <3>4, <2>2, <2>3, <1>3
        <3> QED
            BY <3>1, <3>2, <3>3, <3>4
    <2> QED
        BY <2>5, <2>6, <2>7 DEF IdsFresh
<1>11. \A k \in Jobs : \A v \in wrote[k] : v.game # g
    <2>1. \A k \in Jobs \ {j} : \A v \in wrote[k] : v.game # g
        BY <1>1 DEF Waiting, Holders
    <2>2. \A v \in wrote[j] : v.game # g
        BY DEF IInv, InFlight, WritesBehind
    <2> QED
        BY <2>1, <2>2
<1>12. OneWriter'
    <2> SUFFICES ASSUME NEW k \in Jobs, NEW l \in Jobs,
                        NEW u \in wrote'[k], NEW v \in wrote'[l],
                        u.game = v.game
                 PROVE  k = l /\ u = v
        BY DEF OneWriter
    <2>0. w.game = g
        OBVIOUS
    <2>1. \/ u = w /\ k = j
          \/ u \in wrote[k]
        BY <1>6
    <2>2. \/ v = w /\ l = j
          \/ v \in wrote[l]
        BY <1>6
    <2>3. CASE u \in wrote[k] /\ v \in wrote[l]
        BY <2>3 DEF IInv, InFlight, OneWriter
    <2>4. CASE u = w /\ k = j /\ v \in wrote[l]
        BY <2>4, <2>0, <1>11
    <2>5. CASE u \in wrote[k] /\ v = w /\ l = j
        BY <2>5, <2>0, <1>11
    <2> QED
        BY <2>1, <2>2, <2>3, <2>4, <2>5
<1>13. WritesBehind'
    <2> SUFFICES ASSUME NEW k \in Jobs, NEW v \in wrote'[k]
                 PROVE  v.game \notin job'[k].todo /\ v.game # job'[k].game
        BY DEF WritesBehind
    <2>1. job'[j].todo = job[j].todo /\ job'[j].game = NoGame
        BY <1>6, <1>3 DEF JobState
    <2>2. v.game \in Games /\ v.game # NoGame
        BY <1>8, LedgerAssumption DEF TypeOK, Insert
    <2>3. CASE v = w /\ k = j
        BY <2>1, <2>2, <2>3, <1>4
    <2>4. CASE v \in wrote[k]
        <3>1. v.game \notin job[k].todo /\ v.game # job[k].game
            BY <2>4 DEF IInv, InFlight, WritesBehind
        <3>2. CASE k = j
            BY <3>1, <3>2, <2>1, <2>2
        <3>3. CASE k # j
            BY <3>1, <3>3, <1>6
        <3> QED
            BY <3>2, <3>3
    <2>5. (v = w /\ k = j) \/ v \in wrote[k]
        BY <1>6
    <2> QED
        BY <2>3, <2>4, <2>5
<1>14. ReplacesLatest'
    <2>1. \A i \in Latest(g) : i = job[j].existing
        BY <1>1 DEF Refused, LatestTaken, Latest
    <2>2. CASE job[j].existing = 0
        <3>1. Latest(g) = {}
            BY <2>1, <2>2, <1>3 DEF Latest
        <3> QED
            BY <3>1, <2>2, <1>2, <1>6
               DEF IInv, InFlight, ReplacesLatest, Latest, tables
    <2>3. CASE job[j].existing # 0
        <3>1. /\ job[j].existing \in DOMAIN pred
              /\ pred[job[j].existing].game = g
            BY <1>1, <2>3 DEF IInv, InFlight, InHand
        <3>2. PICK k \in DOMAIN pred : pred[k].game = g /\ pred[k].latest
            BY <3>1 DEF IInv, ChainIntegrity, EveryGameServed
        <3>3. job[j].existing \in Latest(g)
            BY <3>2, <2>1 DEF Latest
        <3> QED
            BY <3>3, <2>3, <1>2, <1>6
               DEF IInv, InFlight, ReplacesLatest, Latest, tables
    <2> QED
        BY <2>2, <2>3
<1>15. InHand'
    <2>1. /\ job'[j].pc = "slate" /\ job'[j].sched = job[j].sched
          /\ job'[j].set = job[j].set
        BY <1>3, <1>6 DEF JobState
    <2>2. job[j].set \in FeatureSets /\ \A h \in Games : job[j].sched[h] # 0
        BY <1>1 DEF IInv, InFlight, InHand
    <2>3. pred' = pred /\ \A k \in Jobs : k # j => job'[k] = job[k]
        BY <1>2, <1>6 DEF tables
    <2>4. InHand
        BY DEF IInv, InFlight
    <2> HIDE DEF w, g
    <2> QED
        BY <2>1, <2>2, <2>3, <2>4 DEF InHand
<1> QED
    BY <1>8, <1>9, <1>10, <1>12, <1>13, <1>14, <1>15 DEF IInv, InFlight

LEMMA FreshRow ==
    ASSUME NEW w \in Insert, NEW r,
           r = [game |-> w.game, version |-> w.version, set |-> w.set, asOf |-> w.asOf,
                rev |-> w.rev, latest |-> TRUE, supersededBy |-> 0]
    PROVE  r \in Row /\ r.game = w.game /\ r.latest = TRUE /\ r.supersededBy = 0
<1>1. r \in Row
    BY DEF Insert, Row
<1>2. r.game = w.game /\ r.supersededBy = 0
    OBVIOUS
<1>3. r.latest = TRUE
    OBVIOUS
<1> QED
    BY <1>1, <1>2, <1>3

\* The committed table, row by row: what was not retired is as it was, what
\* was retired points to the row that retired it, and the inserts are latest.
LEMMA CommittedRows ==
    ASSUME IInv, NEW j \in Jobs, NEW P, P = Committed(wrote[j])
    PROVE  /\ DOMAIN P = DOMAIN pred \cup {w.id : w \in wrote[j]}
           /\ \A i \in DOMAIN pred :
                (\A w \in wrote[j] : w.replaces # i) => P[i] = pred[i]
           /\ \A i \in DOMAIN pred : \A w \in wrote[j] :
                w.replaces = i => P[i] = Supersede(pred[i], w.id)
           /\ \A w \in wrote[j] :
                P[w.id] = [game |-> w.game, version |-> w.version, set |-> w.set,
                           asOf |-> w.asOf, rev |-> w.rev,
                           latest |-> TRUE, supersededBy |-> 0]
<1>1. DOMAIN P = DOMAIN pred \cup {w.id : w \in wrote[j]}
    BY DEF Committed
<1>2. \A i \in DOMAIN pred :
        (\A w \in wrote[j] : w.replaces # i) => P[i] = pred[i]
    BY DEF Committed
<1>3. \A i \in DOMAIN pred : \A w \in wrote[j] :
        w.replaces = i => P[i] = Supersede(pred[i], w.id)
    <2> SUFFICES ASSUME NEW i \in DOMAIN pred, NEW w \in wrote[j],
                        w.replaces = i
                 PROVE  P[i] = Supersede(pred[i], w.id)
        OBVIOUS
    <2>1. \A v \in wrote[j] : v.replaces = i => pred[i].game = v.game
        BY DEF IInv, TypeOK, InFlight, ReplacesLatest, Latest
    <2>2. \A v \in wrote[j] : v.replaces = i => v = w
        BY <2>1 DEF IInv, InFlight, OneWriter
    <2>3. (CHOOSE v \in wrote[j] : v.replaces = i) = w
        BY <2>2
    <2>4. P[i] = Supersede(pred[i], (CHOOSE v \in wrote[j] : v.replaces = i).id)
        BY DEF Committed
    <2> QED
        BY <2>3, <2>4
<1>4. \A w \in wrote[j] :
        P[w.id] = [game |-> w.game, version |-> w.version, set |-> w.set, asOf |-> w.asOf,
                   rev |-> w.rev, latest |-> TRUE, supersededBy |-> 0]
    <2> SUFFICES ASSUME NEW w \in wrote[j]
                 PROVE  P[w.id] = [game |-> w.game, version |-> w.version, set |-> w.set,
                                   asOf |-> w.asOf, rev |-> w.rev,
                                   latest |-> TRUE, supersededBy |-> 0]
        OBVIOUS
    <2>1. w.id \notin DOMAIN pred /\ w.id \in {v.id : v \in wrote[j]}
        BY DEF IInv, InFlight, IdsFresh
    <2>2. \A v \in wrote[j] : v.id = w.id => v = w
        BY DEF IInv, InFlight, IdsFresh
    <2>3. (CHOOSE v \in wrote[j] : v.id = w.id) = w
        BY <2>2
    <2> DEFINE u == CHOOSE v \in wrote[j] : v.id = w.id
    <2>4. P[w.id] = [game |-> u.game, version |-> u.version, set |-> u.set, asOf |-> u.asOf,
                     rev |-> u.rev, latest |-> TRUE, supersededBy |-> 0]
        BY <2>1 DEF Committed
    <2> QED
        BY <2>3, <2>4
<1> QED
    BY <1>1, <1>2, <1>3, <1>4

\* The same, as the fields the chain is made of: P is the table once the
\* inserts W are committed.
CommittedTable(P, W) ==
    /\ DOMAIN P = DOMAIN pred \cup {w.id : w \in W}
    /\ P \in [DOMAIN P -> Row]
    /\ DOMAIN P \subseteq Nat \ {0}
    /\ \A i \in DOMAIN pred :
        /\ P[i].game = pred[i].game
        /\ \/ /\ \A w \in W : w.replaces # i
              /\ P[i] = pred[i]
           \/ \E w \in W :
                /\ w.replaces = i
                /\ w.game = pred[i].game
                /\ pred[i].latest
                /\ ~P[i].latest
                /\ P[i].supersededBy = w.id
    /\ \A w \in W :
        P[w.id].game = w.game /\ P[w.id].latest /\ P[w.id].supersededBy = 0

LEMMA CommittedFields ==
    ASSUME IInv, NEW j \in Jobs
    PROVE  CommittedTable(Committed(wrote[j]), wrote[j])
<1> DEFINE P == Committed(wrote[j])
<1>1. /\ DOMAIN P = DOMAIN pred \cup {w.id : w \in wrote[j]}
      /\ \A i \in DOMAIN pred :
           (\A w \in wrote[j] : w.replaces # i) => P[i] = pred[i]
      /\ \A i \in DOMAIN pred : \A w \in wrote[j] :
           w.replaces = i => P[i] = Supersede(pred[i], w.id)
      /\ \A w \in wrote[j] :
           P[w.id] = [game |-> w.game, version |-> w.version, set |-> w.set, asOf |-> w.asOf,
                      rev |-> w.rev, latest |-> TRUE, supersededBy |-> 0]
    BY CommittedRows
<1> HIDE DEF P
<1>2. /\ wrote[j] \subseteq Insert
      /\ \A i \in DOMAIN pred : pred[i] \in Row
      /\ DOMAIN pred \subseteq Nat \ {0}
    BY DEF IInv, TypeOK
<1>3. \A i \in DOMAIN pred : \A n \in Nat :
        /\ Supersede(pred[i], n) \in Row
        /\ Supersede(pred[i], n).game = pred[i].game
        /\ ~Supersede(pred[i], n).latest
        /\ Supersede(pred[i], n).supersededBy = n
    BY <1>2 DEF Supersede, Row
<1>4. \A w \in wrote[j] : w.id \in Nat \ {0}
    BY <1>2 DEF IInv, InFlight, IdsFresh, Insert
<1>5. DOMAIN P \subseteq Nat \ {0}
    BY <1>1, <1>2, <1>4
<1>6. \A w \in wrote[j] :
        /\ P[w.id] \in Row /\ P[w.id].game = w.game
        /\ P[w.id].latest = TRUE /\ P[w.id].supersededBy = 0
    <2> SUFFICES ASSUME NEW w \in wrote[j]
                 PROVE  /\ P[w.id] \in Row /\ P[w.id].game = w.game
                        /\ P[w.id].latest = TRUE /\ P[w.id].supersededBy = 0
        OBVIOUS
    <2>1. P[w.id] = [game |-> w.game, version |-> w.version, set |-> w.set, asOf |-> w.asOf,
                     rev |-> w.rev, latest |-> TRUE, supersededBy |-> 0]
        BY <1>1
    <2>2. w \in Insert
        BY <1>2
    <2> QED
        BY <2>1, <2>2, FreshRow
<1>7. \A i \in DOMAIN pred : P[i] \in Row
    BY <1>1, <1>2, <1>3, <1>4
<1>8. P \in [DOMAIN P -> Row]
    <2>1. P = [i \in DOMAIN P |-> P[i]]
        BY DEF P, Committed
    <2>2. \A i \in DOMAIN P : P[i] \in Row
        BY <1>1, <1>6, <1>7
    <2> QED
        BY <2>1, <2>2
<1>9. \A i \in DOMAIN pred : \A w \in wrote[j] :
        w.replaces = i => w.game = pred[i].game /\ pred[i].latest
    BY <1>2 DEF IInv, InFlight, ReplacesLatest, Latest
<1>10. \A i \in DOMAIN pred :
        /\ P[i].game = pred[i].game
        /\ \/ /\ \A w \in wrote[j] : w.replaces # i
              /\ P[i] = pred[i]
           \/ \E w \in wrote[j] :
                /\ w.replaces = i
                /\ w.game = pred[i].game
                /\ pred[i].latest
                /\ ~P[i].latest
                /\ P[i].supersededBy = w.id
    <2> SUFFICES ASSUME NEW i \in DOMAIN pred
                 PROVE  /\ P[i].game = pred[i].game
                        /\ \/ /\ \A w \in wrote[j] : w.replaces # i
                              /\ P[i] = pred[i]
                           \/ \E w \in wrote[j] :
                                /\ w.replaces = i
                                /\ w.game = pred[i].game
                                /\ pred[i].latest
                                /\ ~P[i].latest
                                /\ P[i].supersededBy = w.id
        OBVIOUS
    <2>1. CASE \A w \in wrote[j] : w.replaces # i
        BY <1>1, <2>1
    <2>2. CASE \E w \in wrote[j] : w.replaces = i
        <3>1. PICK w \in wrote[j] : w.replaces = i
            BY <2>2
        <3>2. P[i] = Supersede(pred[i], w.id)
            BY <1>1, <3>1
        <3> QED
            BY <3>1, <3>2, <1>3, <1>4, <1>9
    <2> QED
        BY <2>1, <2>2
<1>11. \A w \in wrote[j] :
        P[w.id].game = w.game /\ P[w.id].latest /\ P[w.id].supersededBy = 0
    BY <1>6
<1> QED
    BY <1>1, <1>5, <1>8, <1>10, <1>11 DEF P, CommittedTable
\* A commit: the inserts become rows and the chain is still a chain.
LEMMA CommitStep ==
    ASSUME IInv, NEW j \in Jobs, Commit(j)
    PROVE  IInv'
<1> DEFINE W == wrote[j]
<1>1. /\ pred' = Committed(W)
      /\ features' = features \cup {<<w.game, w.set, w.asOf>> : w \in W}
      /\ job' = [job EXCEPT ![j] = Idle]
      /\ wrote' = [wrote EXCEPT ![j] = {}]
      /\ outcome' = [outcome EXCEPT ![j] = "ok"]
      /\ joblog' = [joblog EXCEPT ![j] = "SUCCESS"]
      /\ UNCHANGED <<world, nextId, begun>>
    BY DEF Commit
<1>2. /\ DOMAIN pred' = DOMAIN pred \cup {w.id : w \in W}
      /\ pred' \in [DOMAIN pred' -> Row]
      /\ DOMAIN pred' \subseteq Nat \ {0}
      /\ \A i \in DOMAIN pred :
           /\ pred'[i].game = pred[i].game
           /\ \/ /\ \A w \in W : w.replaces # i
                 /\ pred'[i] = pred[i]
              \/ \E w \in W :
                   /\ w.replaces = i
                   /\ w.game = pred[i].game
                   /\ pred[i].latest
                   /\ ~pred'[i].latest
                   /\ pred'[i].supersededBy = w.id
      /\ \A w \in W :
           pred'[w.id].game = w.game /\ pred'[w.id].latest
              /\ pred'[w.id].supersededBy = 0
    <2>1. CommittedTable(pred', W)
        BY <1>1, CommittedFields
    <2> QED
        BY <2>1 DEF CommittedTable
<1>3. /\ job'[j] = Idle /\ \A k \in Jobs : k # j => job'[k] = job[k]
      /\ wrote'[j] = {} /\ \A k \in Jobs : k # j => wrote'[k] = wrote[k]
    BY <1>1 DEF IInv, TypeOK
<1>4. W \subseteq Insert
    BY DEF IInv, TypeOK
<1>5. TypeOK'
    <2>1. features' \subseteq Games \X FeatureSets \X Nat
        BY <1>1, <1>4 DEF IInv, TypeOK, Insert
    <2>2. job' \in [Jobs -> JobState] /\ wrote' \in [Jobs -> SUBSET Insert]
        BY <1>1, IdleIsJobState DEF IInv, TypeOK
    <2>3. \A k \in Jobs : job'[k].pc = "idle" => wrote'[k] = {}
        BY <1>3 DEF IInv, TypeOK
    <2>4. /\ outcome' \in [Jobs -> {"none", "ok", "raised", "killed"}]
          /\ joblog' \in [Jobs -> {"none", "SUCCESS", "FAILED"}]
        BY <1>1 DEF IInv, TypeOK
    <2> QED
        BY <1>1, <1>2, <2>1, <2>2, <2>3, <2>4 DEF IInv, TypeOK, world
\* A game that the transaction wrote is written once, and its old latest row,
\* if it has one, is the row retired.
<1>6. \A w, v \in W : w.game = v.game => w = v
    BY DEF IInv, InFlight, OneWriter
<1>7. \A w \in W : \A i \in DOMAIN pred :
        pred[i].game = w.game /\ pred[i].latest => w.replaces = i
    BY DEF IInv, InFlight, ReplacesLatest, Latest, ChainIntegrity, OneLatestPerGame
<1>8. \A w \in W : w.id \notin DOMAIN pred
    BY DEF IInv, InFlight, IdsFresh
<1>9. OneLatestPerGame'
    <2> SUFFICES ASSUME NEW i \in DOMAIN pred', NEW k \in DOMAIN pred',
                        pred'[i].game = pred'[k].game,
                        pred'[i].latest, pred'[k].latest
                 PROVE  i = k
        BY DEF OneLatestPerGame
    <2>1. CASE i \in DOMAIN pred /\ k \in DOMAIN pred
        BY <2>1, <1>2 DEF IInv, ChainIntegrity, OneLatestPerGame
    <2>2. CASE i \in DOMAIN pred /\ k \notin DOMAIN pred
        <3>1. PICK w \in W : k = w.id
            BY <2>2, <1>2
        <3>2. pred[i].latest /\ pred[i].game = w.game /\ w.replaces # i
            BY <2>2, <3>1, <1>2
        <3> QED
            BY <2>2, <3>2, <1>7
    <2>3. CASE i \notin DOMAIN pred /\ k \in DOMAIN pred
        <3>1. PICK w \in W : i = w.id
            BY <2>3, <1>2
        <3>2. pred[k].latest /\ pred[k].game = w.game /\ w.replaces # k
            BY <2>3, <3>1, <1>2
        <3> QED
            BY <2>3, <3>2, <1>7
    <2>4. CASE i \notin DOMAIN pred /\ k \notin DOMAIN pred
        BY <2>4, <1>2, <1>6
    <2> QED
        BY <2>1, <2>2, <2>3, <2>4
<1>10. EveryGameServed'
    <2> SUFFICES ASSUME NEW i \in DOMAIN pred'
                 PROVE  \E k \in DOMAIN pred' :
                            pred'[k].game = pred'[i].game /\ pred'[k].latest
        BY DEF EveryGameServed
    <2>1. CASE i \in DOMAIN pred
        <3>1. PICK k \in DOMAIN pred : pred[k].game = pred[i].game /\ pred[k].latest
            BY <2>1 DEF IInv, ChainIntegrity, EveryGameServed
        <3>2. CASE pred'[k] = pred[k]
            BY <3>1, <3>2, <2>1, <1>2
        <3>3. CASE \E w \in W : w.replaces = k /\ w.game = pred[k].game
            BY <3>1, <3>3, <2>1, <1>2
        <3> QED
            BY <3>1, <3>2, <3>3, <1>2
    <2>2. CASE \E w \in W : i = w.id
        BY <2>2, <1>2
    <2> QED
        BY <2>1, <2>2, <1>2
<1>11. SupersededByLater'
    <2> SUFFICES ASSUME NEW i \in DOMAIN pred'
                 PROVE  IF pred'[i].latest
                        THEN pred'[i].supersededBy = 0
                        ELSE /\ pred'[i].supersededBy \in DOMAIN pred'
                             /\ pred'[i].supersededBy > i
                             /\ pred'[pred'[i].supersededBy].game = pred'[i].game
        BY DEF SupersededByLater
    <2>1. CASE i \in DOMAIN pred /\ pred'[i] = pred[i]
        <3>1. IF pred[i].latest
              THEN pred[i].supersededBy = 0
              ELSE /\ pred[i].supersededBy \in DOMAIN pred
                   /\ pred[i].supersededBy > i
                   /\ pred[pred[i].supersededBy].game = pred[i].game
            BY <2>1 DEF IInv, ChainIntegrity, SupersededByLater
        <3> QED
            BY <2>1, <3>1, <1>2
    <2>2. CASE i \in DOMAIN pred /\ pred'[i] # pred[i]
        <3>1. PICK w \in W : /\ w.replaces = i
                             /\ w.game = pred[i].game
                             /\ ~pred'[i].latest
                             /\ pred'[i].supersededBy = w.id
            BY <2>2, <1>2
        <3>2. w.id \in DOMAIN pred' /\ pred'[w.id].game = w.game
            BY <1>2
        <3>3. w.id > i
            \* The id was drawn from the sequence after the row was read.
            BY <3>1, <1>2 DEF IInv, TypeOK, Insert, InFlight, IdsFresh
        <3> QED
            BY <2>2, <3>1, <3>2, <3>3, <1>2
    <2>3. CASE \E w \in W : i = w.id
        BY <2>3, <1>2
    <2> QED
        BY <2>1, <2>2, <2>3, <1>2
<1>12. OneSuccessorEach'
    <2> SUFFICES ASSUME NEW i \in DOMAIN pred', NEW k \in DOMAIN pred',
                        pred'[i].supersededBy = pred'[k].supersededBy,
                        pred'[i].supersededBy # 0
                 PROVE  i = k
        BY DEF OneSuccessorEach
    <2>1. i \in DOMAIN pred /\ k \in DOMAIN pred
        BY <1>2
    <2>2. \A m \in DOMAIN pred :
            pred[m].supersededBy # 0 => pred[m].supersededBy \in DOMAIN pred
        BY DEF IInv, ChainIntegrity, SupersededByLater
    <2>3. CASE pred'[i] = pred[i] /\ pred'[k] = pred[k]
        BY <2>1, <2>3 DEF IInv, ChainIntegrity, OneSuccessorEach
    <2>4. CASE pred'[i] = pred[i] /\ \E w \in W : pred'[k].supersededBy = w.id
        BY <2>1, <2>2, <2>4, <1>8
    <2>5. CASE pred'[k] = pred[k] /\ \E w \in W : pred'[i].supersededBy = w.id
        BY <2>1, <2>2, <2>5, <1>8
    <2>6. CASE /\ \E w \in W : w.replaces = i /\ pred'[i].supersededBy = w.id
               /\ \E v \in W : v.replaces = k /\ pred'[k].supersededBy = v.id
        <3>1. PICK w \in W : w.replaces = i /\ pred'[i].supersededBy = w.id
            BY <2>6
        <3>2. PICK v \in W : v.replaces = k /\ pred'[k].supersededBy = v.id
            BY <2>6
        <3>3. w = v
            BY <3>1, <3>2 DEF IInv, InFlight, IdsFresh
        <3> QED
            BY <3>1, <3>2, <3>3
    <2> QED
        BY <2>1, <2>3, <2>4, <2>5, <2>6, <1>2
<1>13. IdsFresh'
    <2>1. \A i \in DOMAIN pred' : i < nextId
        BY <1>2 DEF IInv, InFlight, IdsFresh
    <2>2. \A k \in Jobs : \A v \in wrote'[k] : v \in wrote[k] /\ k # j
        BY <1>3
    <2>3. \A k \in Jobs : \A v \in wrote'[k] : v.id \notin DOMAIN pred'
        <3> SUFFICES ASSUME NEW k \in Jobs, NEW v \in wrote'[k],
                            v.id \in DOMAIN pred'
                     PROVE  FALSE
            OBVIOUS
        <3>1. v \in wrote[k] /\ k # j /\ v.id \notin DOMAIN pred
            BY <2>2 DEF IInv, InFlight, IdsFresh
        <3>2. PICK w \in W : v.id = w.id
            BY <3>1, <1>2
        <3>3. v = w
            BY <3>1, <3>2 DEF IInv, InFlight, IdsFresh
        <3> QED
            BY <3>1, <3>3 DEF IInv, InFlight, OneWriter
    <2> QED
        BY <1>1, <2>1, <2>2, <2>3 DEF IInv, InFlight, IdsFresh
<1>14. OneWriter'
    BY <1>3 DEF IInv, InFlight, OneWriter
<1>15. WritesBehind'
    BY <1>3 DEF IInv, InFlight, WritesBehind
\* The other jobs wrote other games, and of those nothing has changed.
<1>16. ReplacesLatest'
    <2> SUFFICES ASSUME NEW k \in Jobs, NEW v \in wrote'[k]
                 PROVE  IF v.replaces = 0
                        THEN Latest(v.game)' = {}
                        ELSE v.replaces \in Latest(v.game)'
        BY DEF ReplacesLatest
    <2>1. v \in wrote[k] /\ k # j
        BY <1>3
    <2>2. \A w \in W : w.game # v.game
        BY <2>1 DEF IInv, InFlight, OneWriter
    <2>3. \A i \in DOMAIN pred : pred[i].game = v.game => pred'[i] = pred[i]
        BY <2>2, <1>2
    <2>4. \A i \in DOMAIN pred' : pred'[i].game = v.game => i \in DOMAIN pred
        BY <2>2, <1>2
    <2>5. \A i \in DOMAIN pred : pred'[i].game = pred[i].game
        BY <1>2
    <2>6. Latest(v.game)' = Latest(v.game)
        BY <2>3, <2>4, <2>5, <1>2 DEF Latest
    <2> QED
        BY <2>1, <2>6 DEF IInv, InFlight, ReplacesLatest
<1>17. InHand'
    BY <1>2, <1>3 DEF IInv, InFlight, InHand, Idle
<1> QED
    BY <1>5, <1>9, <1>10, <1>11, <1>12, <1>13, <1>14, <1>15, <1>16, <1>17
       DEF IInv, ChainIntegrity, InFlight

-----------------------------------------------------------------------------
(* The steps of a slate run, one lemma per action.                         *)

\* The type of a step that touches one job's memory and, perhaps, the clock.
LEMMA JobStepType ==
    ASSUME TypeOK, NEW j \in Jobs, NEW s \in JobState,
           UNCHANGED <<pitch, rev, versions, active, tables, nextId, wrote>>,
           now' \in Nat, begun' \in Nat,
           job' \in [Jobs -> JobState],
           job'[j] = s, \A k \in Jobs : k # j => job'[k] = job[k],
           s.pc = "idle" => wrote[j] = {},
           outcome' \in [Jobs -> {"none", "ok", "raised", "killed"}],
           joblog' \in [Jobs -> {"none", "SUCCESS", "FAILED"}]
    PROVE  TypeOK'
<1>1. \A k \in Jobs : job'[k].pc = "idle" => wrote'[k] = {}
    BY DEF TypeOK
<1> QED
    BY <1>1 DEF TypeOK, tables

\* The records the actions leave in a job's memory: what their fields are.
BegunWith(s, f, v, z, p, r) ==
    s = [Idle EXCEPT !.pc = "slate", !.force = f, !.version = v, !.set = z,
                     !.sched = p, !.seen = r, !.todo = Games]

LEMMA BegunState ==
    ASSUME NEW f \in BOOLEAN, NEW v \in Nat, NEW z \in FeatureSets,
           NEW p \in [Games -> Nat], NEW r \in [Games -> Nat], NEW s,
           BegunWith(s, f, v, z, p, r)
    PROVE  s \in JobState /\ s.pc = "slate" /\ s.sched = p /\ s.set = z
BY DEF BegunWith, Idle, JobState

SkippedTo(s, m, t) == s = [m EXCEPT !.todo = t]

LEMMA SkippedState ==
    ASSUME NEW m \in JobState, NEW t \in SUBSET Games, NEW s, SkippedTo(s, m, t)
    PROVE  /\ s \in JobState /\ s.pc = m.pc /\ s.todo = t /\ s.game = m.game
           /\ s.sched = m.sched /\ s.set = m.set
BY DEF SkippedTo, JobState

BuiltFor(s, m, t, g, a) ==
    s = [m EXCEPT !.pc = "built", !.todo = t, !.game = g, !.asOf = a]

LEMMA BuiltState ==
    ASSUME NEW m \in JobState, NEW t \in SUBSET Games, NEW g \in Games,
           NEW a \in Nat, NEW s, BuiltFor(s, m, t, g, a)
    PROVE  /\ s \in JobState /\ s.pc = "built" /\ s.todo = t /\ s.game = g
           /\ s.sched = m.sched /\ s.set = m.set
BY DEF BuiltFor, JobState

KeptFrom(s, m) == s = [m EXCEPT !.pc = "slate", !.game = NoGame, !.asOf = 0]

LEMMA KeptState ==
    ASSUME NEW m \in JobState, NEW s, KeptFrom(s, m)
    PROVE  /\ s \in JobState /\ s.pc = "slate" /\ s.todo = m.todo
           /\ s.game = NoGame /\ s.sched = m.sched /\ s.set = m.set
BY DEF KeptFrom, JobState

ComparedWith(s, m, e) == s = [m EXCEPT !.pc = "compared", !.existing = e]

LEMMA ComparedState ==
    ASSUME NEW m \in JobState, NEW e \in Nat, NEW s, ComparedWith(s, m, e)
    PROVE  /\ s \in JobState /\ s.pc = "compared" /\ s.todo = m.todo
           /\ s.game = m.game /\ s.existing = e /\ s.sched = m.sched
           /\ s.set = m.set
BY DEF ComparedWith, JobState

LEMMA BeginStep ==
    ASSUME IInv, NEW j \in Jobs, NEW force \in BOOLEAN,
           NEW set \in FeatureSets, Begin(j, force, set)
    PROVE  IInv'
<1> DEFINE s == [Idle EXCEPT !.pc = "slate", !.force = force, !.version = active,
                             !.set = set, !.sched = pitch, !.seen = rev, !.todo = Games]
<1>1. s \in JobState /\ s.pc = "slate" /\ s.sched = pitch /\ s.set = set
    <2>1. active \in Nat /\ pitch \in [Games -> Nat] /\ rev \in [Games -> Nat]
        BY DEF IInv, TypeOK
    <2>2. BegunWith(s, force, active, set, pitch, rev)
        BY DEF BegunWith
    <2> QED
        BY <2>1, <2>2, BegunState
<1>2. /\ job' = [job EXCEPT ![j] = s]
      /\ wrote[j] = {}
      /\ UNCHANGED <<world, tables, nextId, wrote>>
      /\ begun' = begun + 1
      /\ outcome' = [outcome EXCEPT ![j] = "none"]
      /\ joblog' = [joblog EXCEPT ![j] = "none"]
    BY DEF Begin, IInv, TypeOK
<1> HIDE DEF s
<1>3. job' \in [Jobs -> JobState]
    BY <1>1, <1>2 DEF IInv, TypeOK
<1>4. job'[j] = s /\ \A k \in Jobs : k # j => job'[k] = job[k]
    BY <1>2 DEF IInv, TypeOK
<1>5. TypeOK'
    <2>1. /\ outcome' \in [Jobs -> {"none", "ok", "raised", "killed"}]
          /\ joblog' \in [Jobs -> {"none", "SUCCESS", "FAILED"}]
          /\ begun' \in Nat /\ now' \in Nat
          /\ UNCHANGED <<pitch, rev, versions, active>>
        BY <1>2 DEF IInv, TypeOK, world
    <2> QED
        BY <1>1, <1>2, <1>3, <1>4, <2>1, JobStepType DEF IInv
<1>6. s.set \in FeatureSets /\ \A g \in Games : s.sched[g] # 0
    BY <1>1 DEF IInv, TypeOK
<1> QED
    BY <1>1, <1>2, <1>4, <1>5, <1>6, MemoryStep

LEMMA SkipStep ==
    ASSUME IInv, NEW j \in Jobs, NEW g \in Games, Skip(j, g)
    PROVE  IInv'
<1> DEFINE s == [job[j] EXCEPT !.todo = job[j].todo \ {g}]
<1>1. /\ job[j] \in JobState /\ job[j].pc = "slate"
      /\ job[j].todo \ {g} \in SUBSET Games
    BY DEF IInv, TypeOK, Skip, JobState
<1>2. /\ s \in JobState /\ s.pc = "slate" /\ s.todo = job[j].todo \ {g}
      /\ s.game = job[j].game /\ s.sched = job[j].sched /\ s.set = job[j].set
    <2>1. SkippedTo(s, job[j], job[j].todo \ {g})
        BY DEF SkippedTo
    <2> QED
        BY <1>1, <2>1, SkippedState
<1>3. /\ job' = [job EXCEPT ![j] = s]
      /\ UNCHANGED <<world, tables, nextId, begun, wrote, outcome, joblog>>
    BY DEF Skip
<1> HIDE DEF s
<1>4. /\ job' \in [Jobs -> JobState]
      /\ job'[j] = s /\ \A k \in Jobs : k # j => job'[k] = job[k]
    BY <1>2, <1>3 DEF IInv, TypeOK
<1>5. TypeOK'
    BY <1>2, <1>3, <1>4, JobStepType DEF IInv, TypeOK, world
<1>6. \A w \in wrote[j] : w.game \notin s.todo /\ w.game # s.game
    BY <1>2 DEF IInv, InFlight, WritesBehind
<1>7. s.set \in FeatureSets /\ \A h \in Games : s.sched[h] # 0
    BY <1>1, <1>2 DEF IInv, InFlight, InHand
<1> QED
    BY <1>2, <1>3, <1>4, <1>5, <1>6, <1>7, MemoryStep

LEMMA BuildStep ==
    ASSUME IInv, NEW j \in Jobs, NEW g \in Games, Build(j, g)
    PROVE  IInv'
<1> DEFINE a == LiveAsOf(job[j].sched[g], now + 1)
           s == [job[j] EXCEPT !.pc = "built", !.todo = job[j].todo \ {g},
                               !.game = g, !.asOf = a]
<1>1. /\ job[j] \in JobState /\ job[j].pc = "slate" /\ g \in job[j].todo
      /\ job[j].todo \ {g} \in SUBSET Games
      /\ now \in Nat
    BY DEF IInv, TypeOK, Build, JobState
<1>2. /\ job[j].set \in FeatureSets
      /\ \A h \in Games : job[j].sched[h] \in Nat \ {0}
    BY <1>1 DEF IInv, InFlight, InHand, JobState
<1>3. a \in Nat
    BY <1>1, <1>2, LiveAsOfType
<1> HIDE DEF a
<1>4. /\ s \in JobState /\ s.pc = "built" /\ s.todo = job[j].todo \ {g}
      /\ s.game = g /\ s.sched = job[j].sched /\ s.set = job[j].set
    <2>1. BuiltFor(s, job[j], job[j].todo \ {g}, g, a)
        BY DEF BuiltFor
    <2> QED
        BY <1>1, <1>3, <2>1, BuiltState
<1>5. /\ job' = [job EXCEPT ![j] = s]
      /\ now' = now + 1
      /\ UNCHANGED <<pitch, rev, versions, active, tables, nextId, begun,
                     wrote, outcome, joblog>>
    BY DEF Build, a
<1> HIDE DEF s
<1>6. /\ job' \in [Jobs -> JobState]
      /\ job'[j] = s /\ \A k \in Jobs : k # j => job'[k] = job[k]
    BY <1>4, <1>5 DEF IInv, TypeOK
<1>7. TypeOK'
    <2>1. now' \in Nat /\ begun' \in Nat
        BY <1>1, <1>5 DEF IInv, TypeOK
    <2> QED
        BY <1>4, <1>5, <1>6, <2>1, JobStepType DEF IInv, TypeOK
<1>8. \A w \in wrote[j] : w.game \notin s.todo /\ w.game # s.game
    BY <1>1, <1>4 DEF IInv, InFlight, WritesBehind
<1> QED
    BY <1>2, <1>4, <1>5, <1>6, <1>7, <1>8, MemoryStep

LEMMA KeepStep ==
    ASSUME IInv, NEW j \in Jobs, Keep(j)
    PROVE  IInv'
<1> DEFINE s == [job[j] EXCEPT !.pc = "slate", !.game = NoGame, !.asOf = 0]
<1>1. job[j] \in JobState /\ job[j].pc = "built"
    BY DEF IInv, TypeOK, Keep
<1>2. /\ s \in JobState /\ s.pc = "slate" /\ s.todo = job[j].todo
      /\ s.game = NoGame /\ s.sched = job[j].sched /\ s.set = job[j].set
    <2>1. KeptFrom(s, job[j])
        BY DEF KeptFrom
    <2> QED
        BY <1>1, <2>1, KeptState
<1>3. /\ job' = [job EXCEPT ![j] = s]
      /\ UNCHANGED <<world, tables, nextId, begun, wrote, outcome, joblog>>
    BY DEF Keep
<1> HIDE DEF s
<1>4. /\ job' \in [Jobs -> JobState]
      /\ job'[j] = s /\ \A k \in Jobs : k # j => job'[k] = job[k]
    BY <1>2, <1>3 DEF IInv, TypeOK
<1>5. TypeOK'
    BY <1>2, <1>3, <1>4, JobStepType DEF IInv, TypeOK, world
<1>6. \A w \in wrote[j] : w.game \notin s.todo /\ w.game # s.game
    <2>1. \A w \in wrote[j] : w.game \in Games /\ w.game # NoGame
        BY LedgerAssumption DEF IInv, TypeOK, Insert
    <2> QED
        BY <1>2, <2>1 DEF IInv, InFlight, WritesBehind
<1>7. s.set \in FeatureSets /\ \A h \in Games : s.sched[h] # 0
    BY <1>1, <1>2 DEF IInv, InFlight, InHand
<1> QED
    BY <1>2, <1>3, <1>4, <1>5, <1>6, <1>7, MemoryStep

LEMMA ReadExistingStep ==
    ASSUME IInv, NEW j \in Jobs, ReadExisting(j)
    PROVE  IInv'
<1> DEFINE e == CurrentLatest(job[j].game)
           s == [job[j] EXCEPT !.pc = "compared", !.existing = e]
<1>1. /\ job[j] \in JobState /\ job[j].pc = "built"
      /\ job[j].game \in Games /\ job[j].game \notin job[j].todo
    BY DEF IInv, TypeOK, ReadExisting, InFlight, InHand
<1>2. e \in Nat /\ (e # 0 => e \in Latest(job[j].game))
    BY <1>1, CurrentLatestIsRow DEF IInv, ChainIntegrity
<1> HIDE DEF e
<1>3. /\ s \in JobState /\ s.pc = "compared" /\ s.todo = job[j].todo
      /\ s.game = job[j].game /\ s.existing = e /\ s.sched = job[j].sched
      /\ s.set = job[j].set
    <2>1. ComparedWith(s, job[j], e)
        BY DEF ComparedWith
    <2> QED
        BY <1>1, <1>2, <2>1, ComparedState
<1>4. /\ job' = [job EXCEPT ![j] = s]
      /\ UNCHANGED <<world, tables, nextId, begun, wrote, outcome, joblog>>
    BY DEF ReadExisting, e
<1> HIDE DEF s
<1>5. /\ job' \in [Jobs -> JobState]
      /\ job'[j] = s /\ \A k \in Jobs : k # j => job'[k] = job[k]
    BY <1>3, <1>4 DEF IInv, TypeOK
<1>6. TypeOK'
    BY <1>3, <1>4, <1>5, JobStepType DEF IInv, TypeOK, world
<1>7. \A w \in wrote[j] : w.game \notin s.todo /\ w.game # s.game
    BY <1>3 DEF IInv, InFlight, WritesBehind
<1>8. s.set \in FeatureSets /\ \A h \in Games : s.sched[h] # 0
    BY <1>1, <1>3 DEF IInv, InFlight, InHand
<1>9. s.existing # 0 => s.existing \in DOMAIN pred /\ pred[s.existing].game = s.game
    BY <1>2, <1>3 DEF Latest
<1> QED
    BY <1>1, <1>3, <1>4, <1>5, <1>6, <1>7, <1>8, <1>9, MemoryStep

\* The four ways a run loses its transaction.
LEMMA AbortStep ==
    ASSUME IInv, NEW j \in Jobs,
           WriteFails(j) \/ DeadlockAbort(j) \/ CommitFails(j) \/ Kill(j)
    PROVE  IInv'
<1>1. /\ Rollback(j)
      /\ nextId' \in {nextId, nextId + 1}
      /\ \/ outcome' = [outcome EXCEPT ![j] = "raised"]
         \/ outcome' = [outcome EXCEPT ![j] = "killed"]
      /\ joblog' = joblog \/ joblog' = [joblog EXCEPT ![j] = "FAILED"]
    BY DEF WriteFails, DeadlockAbort, CommitFails, Kill
<1>2. TypeOK'
    <2>1. job' \in [Jobs -> JobState] /\ wrote' \in [Jobs -> SUBSET Insert]
        BY <1>1, IdleIsJobState DEF IInv, TypeOK, Rollback
    <2>2. \A k \in Jobs : job'[k].pc = "idle" => wrote'[k] = {}
        BY <1>1 DEF IInv, TypeOK, Rollback
    <2>3. nextId' \in Nat \ {0}
        BY <1>1 DEF IInv, TypeOK
    <2>4. /\ outcome' \in [Jobs -> {"none", "ok", "raised", "killed"}]
          /\ joblog' \in [Jobs -> {"none", "SUCCESS", "FAILED"}]
        BY <1>1 DEF IInv, TypeOK
    <2>5. UNCHANGED <<world, tables, begun>>
        BY <1>1 DEF Rollback
    <2> QED
        BY <2>1, <2>2, <2>3, <2>4, <2>5 DEF IInv, TypeOK, world, tables
<1> QED
    BY <1>1, <1>2, RollbackStep

-----------------------------------------------------------------------------
(* The theorems.                                                           *)

LEMMA NextIInv == IInv /\ [Next]_vars => IInv'
<1> SUFFICES ASSUME IInv, [Next]_vars PROVE IInv'
    OBVIOUS
<1>1. CASE Tick
    <2>1. TypeOK'
        BY <1>1 DEF Tick, IInv, TypeOK, tables
    <2> QED
        BY <1>1, <2>1, WorldStep DEF Tick
<1>2. ASSUME NEW g \in Games, ReviseInputs(g) PROVE IInv'
    <2>1. rev' \in [Games -> Nat]
        BY <1>2 DEF ReviseInputs, IInv, TypeOK
    <2>2. TypeOK'
        BY <1>2, <2>1 DEF ReviseInputs, IInv, TypeOK, tables
    <2> QED
        BY <1>2, <2>2, WorldStep DEF ReviseInputs
<1>3. ASSUME NEW g \in Games, NEW t \in Slots, Reschedule(g, t) PROVE IInv'
    <2>1. pitch' \in [Games -> Nat \ {0}]
        BY <1>3, LedgerAssumption DEF Reschedule, IInv, TypeOK
    <2>2. TypeOK'
        BY <1>3, <2>1 DEF Reschedule, IInv, TypeOK, tables
    <2> QED
        BY <1>3, <2>2, WorldStep DEF Reschedule
<1>4. ASSUME NEW activate \in BOOLEAN, Train(activate) PROVE IInv'
    <2>1. versions' \in Nat /\ active' \in Nat
        BY <1>4 DEF Train, IInv, TypeOK
    <2>2. TypeOK'
        BY <1>4, <2>1 DEF Train, IInv, TypeOK, tables
    <2> QED
        BY <1>4, <2>2, WorldStep DEF Train
<1>5. ASSUME NEW j \in Jobs, NEW force \in BOOLEAN,
           NEW set \in FeatureSets, Begin(j, force, set) PROVE IInv'
    BY <1>5, BeginStep
<1>6. ASSUME NEW j \in Jobs, Step(j) \/ Kill(j) PROVE IInv'
    BY <1>6, SkipStep, BuildStep, KeepStep, ReadExistingStep, WriteStep,
       CommitStep, AbortStep DEF Step
<1>7. CASE UNCHANGED vars
    <2>1. TypeOK'
        BY <1>7 DEF vars, IInv, TypeOK, tables
    <2> QED
        BY <1>7, <2>1, WorldStep DEF vars, tables
<1> QED
    BY <1>1, <1>2, <1>3, <1>4, <1>5, <1>6, <1>7 DEF Next

\* The inductive invariant holds in every behaviour of the ledger.
THEOREM LedgerInvariant == Spec => []IInv
BY InitIInv, NextIInv, PTL DEF Spec

\* Type correctness, for any slate, any number of jobs and any bounds.
THEOREM TypeCorrect == Spec => []TypeOK
<1>1. IInv => TypeOK
    BY DEF IInv
<1> QED
    BY <1>1, LedgerInvariant, PTL

\* Whatever the predict jobs do at the same time, and wherever one of them is
\* refused, deadlocked or killed, the snapshots of each game form one chain
\* with exactly one latest row (current_latest, uq_prediction_latest).
THEOREM ChainCorrect == Spec => []ChainIntegrity
<1>1. IInv => ChainIntegrity
    BY DEF IInv
<1> QED
    BY <1>1, LedgerInvariant, PTL

\* Row i of the ledger is still there in P, as it was or superseded.
KeptIn(P, i) ==
    /\ i \in DOMAIN P
    /\ \/ P[i] = pred[i]
       \/ /\ pred[i].latest
          /\ P[i] = [pred[i] EXCEPT !.latest = FALSE,
                        !.supersededBy = P[i].supersededBy]

RowKept(i) == KeptIn(pred', i)

LinkedTo(q, r, n) == q = Supersede(r, n)

OwnLink(q, r) == q = [r EXCEPT !.latest = FALSE, !.supersededBy = q.supersededBy]

LEMMA SupersedeIsItsOwnLink ==
    ASSUME NEW r \in Row, NEW n \in Nat, NEW q, LinkedTo(q, r, n)
    PROVE  OwnLink(q, r)
<1>1. q.supersededBy = n
    BY DEF LinkedTo, Supersede, Row
<1>2. [r EXCEPT !.latest = FALSE, !.supersededBy = n]
        = [r EXCEPT !.latest = FALSE, !.supersededBy = q.supersededBy]
    BY <1>1
<1> QED
    BY <1>2 DEF LinkedTo, OwnLink, Supersede

LEMMA CommittedKeepsRows ==
    ASSUME IInv, NEW j \in Jobs, NEW i \in DOMAIN pred
    PROVE  KeptIn(Committed(wrote[j]), i)
<1> DEFINE P == Committed(wrote[j])
<1>1. /\ DOMAIN P = DOMAIN pred \cup {w.id : w \in wrote[j]}
      /\ (\A w \in wrote[j] : w.replaces # i) => P[i] = pred[i]
      /\ \A w \in wrote[j] : w.replaces = i => P[i] = Supersede(pred[i], w.id)
    BY CommittedRows
<1> HIDE DEF P
<1>2. /\ pred[i] \in Row
      /\ \A w \in wrote[j] : w \in Insert /\ w.id \in Nat
    BY DEF IInv, TypeOK, Insert
<1>3. CASE \A w \in wrote[j] : w.replaces # i
    BY <1>1, <1>3 DEF KeptIn, P
<1>4. CASE \E w \in wrote[j] : w.replaces = i
    <2>1. PICK w \in wrote[j] : w.replaces = i
        BY <1>4
    <2>2. LinkedTo(P[i], pred[i], w.id)
        BY <1>1, <2>1 DEF LinkedTo
    <2>3. OwnLink(P[i], pred[i])
        BY <1>2, <2>2, SupersedeIsItsOwnLink
    <2>4. i # 0 /\ i \in Latest(w.game)
        BY <2>1 DEF IInv, TypeOK, InFlight, ReplacesLatest
    <2>5. pred[i].latest
        BY <2>4 DEF Latest
    <2> QED
        BY <1>1, <2>3, <2>5 DEF KeptIn, OwnLink, P
<1> QED
    BY <1>3, <1>4

LEMMA CommitKeepsRows ==
    ASSUME IInv, NEW j \in Jobs, Commit(j), NEW i \in DOMAIN pred
    PROVE  RowKept(i)
<1>1. pred' = Committed(wrote[j])
    BY DEF Commit
<1> QED
    BY <1>1, CommittedKeepsRows DEF RowKept

LEMMA NextKeepsRows ==
    IInv /\ [Next]_vars => [\A i \in DOMAIN pred : RowKept(i)]_pred
<1> SUFFICES ASSUME IInv, [Next]_vars
             PROVE  (\A i \in DOMAIN pred : RowKept(i)) \/ pred' = pred
    OBVIOUS
<1>1. CASE \E j \in Jobs : Commit(j)
    BY <1>1, CommitKeepsRows
<1>2. CASE ~ \E j \in Jobs : Commit(j)
    <2>1. pred' = pred
        BY <1>2 DEF Next, vars, tables, Tick, ReviseInputs, Reschedule, Train,
           Begin, Step, Skip, Build, Keep, ReadExisting, Write, WriteFails,
           DeadlockAbort, CommitFails, Kill, Rollback
    <2> QED
        BY <2>1
<1> QED
    BY <1>1, <1>2

\* A snapshot that is committed is never altered or removed: all that can
\* happen to it is that a later one of its game supersedes it, once.
THEOREM Immutable == Spec => SnapshotsImmutable
<1>1. IInv /\ [Next]_vars =>
        [\A i \in DOMAIN pred :
            /\ i \in DOMAIN pred'
            /\ \/ pred'[i] = pred[i]
               \/ /\ pred[i].latest
                  /\ pred'[i] = [pred[i] EXCEPT !.latest = FALSE,
                                    !.supersededBy = pred'[i].supersededBy]]_pred
    BY NextKeepsRows DEF RowKept, KeptIn
<1> QED
    BY <1>1, LedgerInvariant, PTL DEF Spec, SnapshotsImmutable

-----------------------------------------------------------------------------
(* The audit rows, and the order of the snapshots by as_of.                *)

\* A committed snapshot has its own feature row, and the feature row of an
\* uncommitted one is new, or is still to be checked with the next flush.
Recorded ==
    /\ AuditRowPerSnapshot
    /\ \A j \in Jobs : \A w \in wrote[j] :
        <<w.game, w.set, w.asOf>> \notin features \/ <<w.game, w.set, w.asOf>> \in job[j].pending

\* Row i of the table is not of the future, nor of after the first pitch.
Pregame(i) == pred[i].asOf <= now /\ pred[i].asOf < pitch[pred[i].game]

\* What a run holds for game g is as of a time of before the first pitch, and
\* not before that of any committed row of the game.
Newer(j, g, asOf) ==
    /\ asOf <= now /\ asOf < job[j].sched[g]
    /\ \A i \in DOMAIN pred : pred[i].game = g => pred[i].asOf <= asOf

\* Since a run has read the schedule no game was moved forward.
RunInTime(j) ==
    job[j].pc # "idle" =>
        /\ \A g \in Games : job[j].sched[g] <= pitch[g]
        /\ \A i \in DOMAIN pred : pred[i].asOf < job[j].sched[pred[i].game]
        /\ job[j].pc \in {"built", "compared"} => Newer(j, job[j].game, job[j].asOf)
        /\ \A w \in wrote[j] : Newer(j, w.game, w.asOf)

InTime ==
    /\ \A i \in DOMAIN pred : Pregame(i)
    /\ LatestIsNewestAsOf
    /\ \A j \in Jobs : RunInTime(j)

\* What each step leaves in the memory of its job.
LEMMA BeginView ==
    ASSUME TypeOK, NEW j \in Jobs, NEW force \in BOOLEAN,
           NEW set \in FeatureSets, Begin(j, force, set)
    PROVE  /\ job'[j].pc = "slate" /\ job'[j].sched = pitch
           /\ \A k \in Jobs : k # j => job'[k] = job[k]
           /\ wrote[j] = {} /\ UNCHANGED <<world, tables, wrote>>
<1> DEFINE s == [Idle EXCEPT !.pc = "slate", !.force = force, !.version = active,
                             !.set = set, !.sched = pitch, !.seen = rev, !.todo = Games]
<1>1. s.pc = "slate" /\ s.sched = pitch
    BY DEF Idle
<1>2. job' = [job EXCEPT ![j] = s] /\ job \in [Jobs -> JobState]
      /\ job[j].pc = "idle" /\ UNCHANGED <<world, tables, wrote>>
    BY DEF Begin, TypeOK
<1> HIDE DEF s
<1> QED
    BY <1>1, <1>2 DEF TypeOK

\* The steps that change nothing but the memory of the job and the clock.
Thinks(j) ==
    /\ \A k \in Jobs : k # j => job'[k] = job[k]
    /\ job'[j].pending = job[j].pending /\ job'[j].sched = job[j].sched
    /\ job[j].pc # "idle"
    /\ UNCHANGED <<pitch, tables, wrote>>

LEMMA SkipView ==
    ASSUME TypeOK, NEW j \in Jobs, NEW g \in Games, Skip(j, g)
    PROVE  Thinks(j) /\ job'[j].pc = "slate" /\ now' = now
<1> DEFINE s == [job[j] EXCEPT !.todo = job[j].todo \ {g}]
<1>1. job[j] \in JobState /\ job[j].pc = "slate"
    BY DEF TypeOK, Skip
<1>2. s.pc = "slate" /\ s.pending = job[j].pending /\ s.sched = job[j].sched
    BY <1>1 DEF JobState
<1>3. job' = [job EXCEPT ![j] = s] /\ job \in [Jobs -> JobState]
      /\ UNCHANGED <<world, tables, wrote>>
    BY DEF Skip, TypeOK
<1> HIDE DEF s
<1> QED
    BY <1>1, <1>2, <1>3 DEF Thinks, world

LEMMA BuildView ==
    ASSUME TypeOK, NEW j \in Jobs, NEW g \in Games, Build(j, g)
    PROVE  /\ Thinks(j) /\ job'[j].pc = "built" /\ job'[j].game = g /\ now' = now + 1
           /\ job'[j].asOf = LiveAsOf(job[j].sched[g], now + 1)
<1> DEFINE a == LiveAsOf(job[j].sched[g], now + 1)
           s == [job[j] EXCEPT !.pc = "built", !.todo = job[j].todo \ {g},
                               !.game = g, !.asOf = a]
<1>1. job[j] \in JobState /\ job[j].pc = "slate"
    BY DEF TypeOK, Build
<1> HIDE DEF a
<1>2. /\ s.pc = "built" /\ s.pending = job[j].pending /\ s.sched = job[j].sched
      /\ s.game = g /\ s.asOf = a
    BY <1>1 DEF JobState
<1>3. job' = [job EXCEPT ![j] = s] /\ job \in [Jobs -> JobState]
      /\ now' = now + 1 /\ UNCHANGED <<pitch, tables, wrote>>
    BY DEF Build, TypeOK, a
<1> HIDE DEF s
<1> QED
    BY <1>1, <1>2, <1>3 DEF Thinks, a

LEMMA KeepView ==
    ASSUME TypeOK, NEW j \in Jobs, Keep(j)
    PROVE  Thinks(j) /\ job'[j].pc = "slate" /\ now' = now
<1> DEFINE s == [job[j] EXCEPT !.pc = "slate", !.game = NoGame, !.asOf = 0]
<1>1. job[j] \in JobState /\ job[j].pc = "built"
    BY DEF TypeOK, Keep
<1>2. s.pc = "slate" /\ s.pending = job[j].pending /\ s.sched = job[j].sched
    BY <1>1 DEF JobState
<1>3. job' = [job EXCEPT ![j] = s] /\ job \in [Jobs -> JobState]
      /\ UNCHANGED <<world, tables, wrote>>
    BY DEF Keep, TypeOK
<1> HIDE DEF s
<1> QED
    BY <1>1, <1>2, <1>3 DEF Thinks, world

LEMMA ReadExistingView ==
    ASSUME TypeOK, NEW j \in Jobs, ReadExisting(j)
    PROVE  /\ Thinks(j) /\ job[j].pc = "built" /\ job'[j].pc = "compared" /\ now' = now
           /\ job'[j].game = job[j].game /\ job'[j].asOf = job[j].asOf
<1> DEFINE s == [job[j] EXCEPT !.pc = "compared",
                               !.existing = CurrentLatest(job[j].game)]
<1>1. job[j] \in JobState /\ job[j].pc = "built"
    BY DEF TypeOK, ReadExisting
<1>2. /\ s.pc = "compared" /\ s.pending = job[j].pending /\ s.sched = job[j].sched
      /\ s.game = job[j].game /\ s.asOf = job[j].asOf
    BY <1>1 DEF JobState
<1>3. job' = [job EXCEPT ![j] = s] /\ job \in [Jobs -> JobState]
      /\ UNCHANGED <<world, tables, wrote>>
    BY DEF ReadExisting, TypeOK
<1> HIDE DEF s
<1> QED
    BY <1>1, <1>2, <1>3 DEF Thinks, world

LEMMA WriteView ==
    ASSUME TypeOK, NEW j \in Jobs, Write(j)
    PROVE  /\ \A k \in Jobs : k # j => job'[k] = job[k] /\ wrote'[k] = wrote[k]
           /\ job[j].pc = "compared" /\ job'[j].pc = "slate"
           /\ job'[j].sched = job[j].sched
           /\ job'[j].pending = {<<job[j].game, job[j].set, job[j].asOf>>}
           /\ ~ FeatureTaken(j)
           /\ \E w : /\ wrote'[j] = wrote[j] \cup {w}
                     /\ w.game = job[j].game /\ w.set = job[j].set
                     /\ w.asOf = job[j].asOf
           /\ UNCHANGED <<now, pitch, tables>>
<1> DEFINE s == [job[j] EXCEPT !.pc = "slate", !.game = NoGame, !.asOf = 0,
                               !.existing = 0,
                               !.pending = {<<job[j].game, job[j].set, job[j].asOf>>}]
           w == [id |-> nextId, game |-> job[j].game, version |-> job[j].version,
                 set |-> job[j].set, asOf |-> job[j].asOf, rev |-> job[j].seen[job[j].game],
                 replaces |-> job[j].existing]
<1>1. job[j] \in JobState /\ job[j].pc = "compared" /\ ~ FeatureTaken(j)
    BY DEF TypeOK, Write, Refused
<1>2. /\ s.pc = "slate" /\ s.sched = job[j].sched
      /\ s.pending = {<<job[j].game, job[j].set, job[j].asOf>>}
    BY <1>1 DEF JobState
<1>3. w.game = job[j].game /\ w.set = job[j].set /\ w.asOf = job[j].asOf
    OBVIOUS
<1>4. job' = [job EXCEPT ![j] = s] /\ wrote' = [wrote EXCEPT ![j] = @ \cup {w}]
      /\ job \in [Jobs -> JobState] /\ wrote \in [Jobs -> SUBSET Insert]
      /\ UNCHANGED <<world, tables>>
    BY DEF Write, TypeOK
<1> HIDE DEF s, w
<1> QED
    BY <1>1, <1>2, <1>3, <1>4 DEF world

\* The end of a run, however it comes.
Ends(j) ==
    /\ \A k \in Jobs : k # j => job'[k] = job[k] /\ wrote'[k] = wrote[k]
    /\ job'[j].pc = "idle" /\ wrote'[j] = {}
    /\ UNCHANGED <<now, pitch>>

LEMMA AbortView ==
    ASSUME TypeOK, NEW j \in Jobs,
           WriteFails(j) \/ DeadlockAbort(j) \/ CommitFails(j) \/ Kill(j)
    PROVE  Ends(j) /\ UNCHANGED tables
<1>1. Rollback(j)
    BY DEF WriteFails, DeadlockAbort, CommitFails, Kill
<1> QED
    BY <1>1 DEF Rollback, Ends, TypeOK, Idle, world

LEMMA CommitView ==
    ASSUME TypeOK, NEW j \in Jobs, Commit(j)
    PROVE  /\ Ends(j) /\ ~ FeatureTaken(j) /\ job[j].pc = "slate"
           /\ pred' = Committed(wrote[j])
           /\ features' = features \cup {<<w.game, w.set, w.asOf>> : w \in wrote[j]}
BY DEF Commit, Ends, TypeOK, Idle, world

\* A commit changes no as_of and no feature set: P is the table once the inserts W are committed.
SaysAsOf(P, W) ==
    /\ DOMAIN P = DOMAIN pred \cup {w.id : w \in W}
    /\ \A i \in DOMAIN pred :
        P[i].game = pred[i].game /\ P[i].set = pred[i].set /\ P[i].asOf = pred[i].asOf
    /\ \A w \in W : P[w.id].game = w.game /\ P[w.id].set = w.set /\ P[w.id].asOf = w.asOf

LEMMA CommittedSays ==
    ASSUME IInv, NEW j \in Jobs
    PROVE  SaysAsOf(Committed(wrote[j]), wrote[j])
<1> DEFINE P == Committed(wrote[j])
<1>1. /\ DOMAIN P = DOMAIN pred \cup {w.id : w \in wrote[j]}
      /\ \A i \in DOMAIN pred :
           (\A w \in wrote[j] : w.replaces # i) => P[i] = pred[i]
      /\ \A i \in DOMAIN pred : \A w \in wrote[j] :
           w.replaces = i => P[i] = Supersede(pred[i], w.id)
      /\ \A w \in wrote[j] :
           P[w.id] = [game |-> w.game, version |-> w.version, set |-> w.set, asOf |-> w.asOf,
                      rev |-> w.rev, latest |-> TRUE, supersededBy |-> 0]
    BY CommittedRows
<1> HIDE DEF P
<1>2. ASSUME NEW w \in wrote[j]
      PROVE  P[w.id].game = w.game /\ P[w.id].set = w.set /\ P[w.id].asOf = w.asOf
    <2>1. P[w.id] = [game |-> w.game, version |-> w.version, set |-> w.set, asOf |-> w.asOf,
                     rev |-> w.rev, latest |-> TRUE, supersededBy |-> 0]
        BY <1>1
    <2>2. P[w.id].game = w.game
        BY <2>1
    <2>3. P[w.id].asOf = w.asOf
        BY <2>1
    <2>4. P[w.id].set = w.set
        BY <2>1
    <2> QED
        BY <2>2, <2>3, <2>4
<1>3. ASSUME NEW i \in DOMAIN pred
      PROVE  P[i].game = pred[i].game /\ P[i].set = pred[i].set /\ P[i].asOf = pred[i].asOf
    <2>1. pred[i] \in Row
        BY DEF IInv, TypeOK
    <2>2. \A n : /\ Supersede(pred[i], n).game = pred[i].game
                 /\ Supersede(pred[i], n).set = pred[i].set
                 /\ Supersede(pred[i], n).asOf = pred[i].asOf
        BY <2>1 DEF Supersede, Row
    <2>3. CASE \A w \in wrote[j] : w.replaces # i
        BY <1>1, <2>3
    <2>4. CASE \E w \in wrote[j] : w.replaces = i
        <3>1. PICK w \in wrote[j] : w.replaces = i
            BY <2>4
        <3>2. P[i] = Supersede(pred[i], w.id)
            BY <1>1, <3>1
        <3> QED
            BY <2>2, <3>2
    <2> QED
        BY <2>3, <2>4
<1> QED
    BY <1>1, <1>2, <1>3 DEF SaysAsOf, P

\* A step keeps the record when the tables stay and each job either keeps what
\* it wrote and has to check, or gives all of it up.
LEMMA KeepsRecord ==
    ASSUME Recorded, UNCHANGED tables,
           \A k \in Jobs : wrote'[k] = {}
                           \/ (wrote'[k] = wrote[k] /\ job'[k].pending = job[k].pending)
    PROVE  Recorded'
BY DEF Recorded, AuditRowPerSnapshot, tables

LEMMA WriteKeepsRecord ==
    ASSUME IInv, Recorded, NEW j \in Jobs, Write(j)
    PROVE  Recorded'
<1>1. /\ \A k \in Jobs : k # j => job'[k] = job[k] /\ wrote'[k] = wrote[k]
      /\ job'[j].pending = {<<job[j].game, job[j].set, job[j].asOf>>}
      /\ pred' = pred /\ features' = features
    BY WriteView DEF IInv, tables
<1>2. PICK w : /\ wrote'[j] = wrote[j] \cup {w}
               /\ w.game = job[j].game /\ w.set = job[j].set /\ w.asOf = job[j].asOf
    BY WriteView DEF IInv
<1>3. job[j].pending \cap features = {}
    BY WriteView DEF IInv, FeatureTaken
<1>4. \A v \in wrote[j] : <<v.game, v.set, v.asOf>> \notin features
    BY <1>3 DEF Recorded
<1> QED
    BY <1>1, <1>2, <1>4 DEF Recorded, AuditRowPerSnapshot

LEMMA CommitKeepsRecord ==
    ASSUME IInv, Recorded, NEW j \in Jobs, Commit(j)
    PROVE  Recorded'
<1>1. /\ \A k \in Jobs : k # j => job'[k] = job[k] /\ wrote'[k] = wrote[k]
      /\ wrote'[j] = {} /\ pred' = Committed(wrote[j])
      /\ features' = features \cup {<<w.game, w.set, w.asOf>> : w \in wrote[j]}
    BY CommitView DEF IInv, Ends
<1>2. \A w \in wrote[j] : <<w.game, w.set, w.asOf>> \notin features
    BY CommitView DEF IInv, FeatureTaken, Recorded
<1>3. /\ DOMAIN pred' = DOMAIN pred \cup {w.id : w \in wrote[j]}
      /\ \A i \in DOMAIN pred : /\ pred'[i].game = pred[i].game
                                /\ pred'[i].set = pred[i].set
                                /\ pred'[i].asOf = pred[i].asOf
      /\ \A w \in wrote[j] : /\ pred'[w.id].game = w.game
                             /\ pred'[w.id].set = w.set
                             /\ pred'[w.id].asOf = w.asOf
    BY <1>1, CommittedSays DEF SaysAsOf
<1>4. \A i \in DOMAIN pred : <<pred[i].game, pred[i].set, pred[i].asOf>> \in features
    BY DEF Recorded, AuditRowPerSnapshot
<1>5. ASSUME NEW i \in DOMAIN pred'
      PROVE  <<pred'[i].game, pred'[i].set, pred'[i].asOf>> \in features'
    <2>1. CASE i \in DOMAIN pred
        <3>1. /\ pred'[i].game = pred[i].game /\ pred'[i].set = pred[i].set
              /\ pred'[i].asOf = pred[i].asOf
            BY <1>3, <2>1
        <3> QED
            BY <1>1, <1>4, <2>1, <3>1
    <2>2. ASSUME NEW w \in wrote[j], i = w.id
          PROVE  <<pred'[i].game, pred'[i].set, pred'[i].asOf>> \in features'
        <3>1. pred'[i].game = w.game /\ pred'[i].set = w.set /\ pred'[i].asOf = w.asOf
            BY <1>3, <2>2
        <3> QED
            BY <1>1, <3>1
    <2> QED
        BY <1>3, <2>1, <2>2
<1>6. ASSUME NEW i \in DOMAIN pred', NEW k \in DOMAIN pred',
             pred'[i].game = pred'[k].game, pred'[i].set = pred'[k].set,
             pred'[i].asOf = pred'[k].asOf
      PROVE  i = k
    <2>1. CASE i \in DOMAIN pred /\ k \in DOMAIN pred
        BY <1>3, <1>6, <2>1 DEF Recorded, AuditRowPerSnapshot
    <2>2. ASSUME NEW w \in wrote[j], NEW n \in DOMAIN pred,
                 w.game = pred[n].game, w.set = pred[n].set, w.asOf = pred[n].asOf
          PROVE  FALSE
        BY <1>2, <1>4, <2>2
    <2>3. ASSUME NEW w \in wrote[j], NEW v \in wrote[j], w.game = v.game
          PROVE  w.id = v.id
        BY <2>3 DEF IInv, InFlight, OneWriter
    <2> QED
        BY <1>3, <1>6, <2>1, <2>2, <2>3
<1>7. \A k \in Jobs : k # j => \A v \in wrote[k] : \A w \in wrote[j] : v.game # w.game
    BY DEF IInv, InFlight, OneWriter
<1>8. ASSUME NEW k \in Jobs, NEW v \in wrote'[k]
      PROVE  <<v.game, v.set, v.asOf>> \notin features' \/ <<v.game, v.set, v.asOf>> \in job'[k].pending
    <2>1. k # j /\ v \in wrote[k] /\ job'[k] = job[k]
        BY <1>1, <1>8
    <2>2. <<v.game, v.set, v.asOf>> \notin {<<w.game, w.set, w.asOf>> : w \in wrote[j]}
        BY <1>7, <2>1
    <2> QED
        BY <1>1, <2>1, <2>2 DEF Recorded
<1> QED
    BY <1>5, <1>6, <1>8 DEF Recorded, AuditRowPerSnapshot

LEMMA NextRecorded == IInv /\ Recorded /\ [Next]_vars => Recorded'
<1> SUFFICES ASSUME IInv, Recorded, [Next]_vars PROVE Recorded'
    OBVIOUS
<1>0. TypeOK
    BY DEF IInv
<1>1. CASE UNCHANGED vars
    BY <1>1, KeepsRecord DEF vars, tables
<1>2. CASE \/ Tick \/ \E g \in Games : ReviseInputs(g)
           \/ \E g \in Games, t \in Slots : Reschedule(g, t)
           \/ \E activate \in BOOLEAN : Train(activate)
    BY <1>2, KeepsRecord DEF Tick, ReviseInputs, Reschedule, Train
<1>3. ASSUME NEW j \in Jobs, NEW force \in BOOLEAN,
           NEW set \in FeatureSets, Begin(j, force, set) PROVE Recorded'
    <2>1. /\ \A k \in Jobs : k # j => job'[k] = job[k]
          /\ wrote[j] = {} /\ wrote' = wrote /\ UNCHANGED tables
        BY <1>0, <1>3, BeginView
    <2> QED
        BY <2>1, KeepsRecord
<1>4. ASSUME NEW j \in Jobs, NEW g \in Games, Skip(j, g) \/ Build(j, g) PROVE Recorded'
    <2>1. Thinks(j)
        BY <1>0, <1>4, SkipView, BuildView
    <2> QED
        BY <2>1, KeepsRecord DEF Thinks
<1>5. ASSUME NEW j \in Jobs, Keep(j) \/ ReadExisting(j) PROVE Recorded'
    <2>1. Thinks(j)
        BY <1>0, <1>5, KeepView, ReadExistingView
    <2> QED
        BY <2>1, KeepsRecord DEF Thinks
<1>6. ASSUME NEW j \in Jobs, Write(j) PROVE Recorded'
    BY <1>6, WriteKeepsRecord
<1>7. ASSUME NEW j \in Jobs, Commit(j) PROVE Recorded'
    BY <1>7, CommitKeepsRecord
<1>8. ASSUME NEW j \in Jobs,
             WriteFails(j) \/ DeadlockAbort(j) \/ CommitFails(j) \/ Kill(j)
      PROVE  Recorded'
    <2>1. Ends(j) /\ UNCHANGED tables
        BY <1>0, <1>8, AbortView
    <2> QED
        BY <2>1, KeepsRecord DEF Ends
<1> QED
    BY <1>1, <1>2, <1>3, <1>4, <1>5, <1>6, <1>7, <1>8 DEF Next, Step

\* Each snapshot can be audited against a feature row of its own, whatever jobs
\* overlap, are refused or die (generate_prediction, uq_model_feature).
THEOREM AuditCorrect == Spec => []AuditRowPerSnapshot
<1>1. Init => Recorded
    BY DEF Init, Recorded, AuditRowPerSnapshot
<1>2. Recorded => AuditRowPerSnapshot
    BY DEF Recorded
<1> QED
    BY <1>1, <1>2, InitIInv, NextIInv, NextRecorded, PTL DEF Spec

-----------------------------------------------------------------------------
(* One job at a time: the latest snapshot is the newest.                   *)

\* Types that the order of the as_of values needs.
LEMMA Clocks ==
    ASSUME IInv
    PROVE  /\ now \in Nat /\ \A g \in Games : pitch[g] \in Nat
           /\ \A i \in DOMAIN pred : pred[i].asOf \in Nat /\ pred[i].game \in Games
           /\ \A j \in Jobs : /\ \A g \in Games : job[j].sched[g] \in Nat
                              /\ job[j].asOf \in Nat
                              /\ \A w \in wrote[j] : w.asOf \in Nat /\ w.game \in Games
           /\ \A j \in Jobs : job[j].pc \in {"built", "compared"} => job[j].game \in Games
BY DEF IInv, TypeOK, Row, JobState, Insert, InFlight, InHand

\* The clock goes on.
LEMMA TickInTime ==
    ASSUME IInv, InTime, now' = now + 1, UNCHANGED <<pitch, pred, job, wrote>>
    PROVE  InTime'
<1>1. \A i \in DOMAIN pred : Pregame(i)'
    BY Clocks DEF InTime, Pregame
<1>2. ASSUME NEW j \in Jobs PROVE RunInTime(j)'
    <2>1. \A g \in Games, a \in Nat : Newer(j, g, a) => Newer(j, g, a)'
        BY Clocks DEF Newer
    <2>2. RunInTime(j)
        BY DEF InTime
    <2> QED
        BY <2>1, <2>2, Clocks DEF RunInTime, Newer
<1> QED
    BY <1>1, <1>2 DEF InTime, LatestIsNewestAsOf

\* A game is moved to a time still to come, and not forward under a run.
LEMMA RescheduleInTime ==
    ASSUME IInv, InTime, NEW g \in Games, NEW t \in Slots, Reschedule(g, t)
    PROVE  InTime'
<1>1. /\ t > now /\ t \in Nat /\ pitch' = [pitch EXCEPT ![g] = t]
      /\ t < pitch[g] => \A j \in Jobs : job[j].pc = "idle"
      /\ UNCHANGED <<now, pred, job, wrote>>
    BY LedgerAssumption DEF Reschedule, tables
<1>2. pitch'[g] = t /\ \A h \in Games : h # g => pitch'[h] = pitch[h]
    BY <1>1 DEF IInv, TypeOK
<1>3. ASSUME NEW i \in DOMAIN pred PROVE Pregame(i)'
    <2>1. pred[i].asOf <= now /\ pred[i].asOf < pitch[pred[i].game]
        BY DEF InTime, Pregame
    <2> QED
        BY <1>1, <1>2, <2>1, Clocks DEF Pregame
<1>4. ASSUME NEW j \in Jobs PROVE RunInTime(j)'
    <2> SUFFICES ASSUME job[j].pc # "idle" PROVE RunInTime(j)'
        BY <1>1 DEF RunInTime
    <2>1. t >= pitch[g]
        BY <1>1, Clocks
    <2>2. RunInTime(j)
        BY DEF InTime
    <2>3. \A h \in Games : job[j].sched[h] <= pitch'[h]
        BY <1>1, <1>2, <2>1, <2>2, Clocks DEF RunInTime
    <2> QED
        BY <1>1, <2>2, <2>3 DEF RunInTime, Newer
<1> QED
    BY <1>1, <1>3, <1>4 DEF InTime, LatestIsNewestAsOf

\* A step that leaves the tables and the time alone, by one job whose memory
\* it leaves in time.
LEMMA JobInTime ==
    ASSUME IInv, InTime, NEW j \in Jobs, UNCHANGED <<pred, pitch>>, now' \in {now, now + 1},
           \A k \in Jobs : k = j, RunInTime(j)'
    PROVE  InTime'
<1>1. \A i \in DOMAIN pred : Pregame(i)'
    BY Clocks DEF InTime, Pregame
<1>2. \A k \in Jobs : RunInTime(k)'
    OBVIOUS
<1> QED
    BY <1>1, <1>2 DEF InTime, LatestIsNewestAsOf

LEMMA BeginInTime ==
    ASSUME IInv, InTime, NEW j \in Jobs, NEW force \in BOOLEAN,
           NEW set \in FeatureSets, Begin(j, force, set),
           \A k \in Jobs : k = j
    PROVE  InTime'
<1>1. /\ job'[j].pc = "slate" /\ job'[j].sched = pitch
      /\ wrote[j] = {} /\ UNCHANGED <<now, pitch, pred, wrote>>
    BY BeginView DEF IInv, world, tables
<1>2. \A i \in DOMAIN pred : pred[i].asOf < pitch[pred[i].game]
    BY DEF InTime, Pregame
<1>3. \A g \in Games : pitch[g] <= pitch[g]
    BY Clocks
<1>4. RunInTime(j)'
    BY <1>1, <1>2, <1>3 DEF RunInTime
<1> QED
    BY <1>1, <1>4, JobInTime

LEMMA BuildInTime ==
    ASSUME IInv, InTime, NEW j \in Jobs, NEW g \in Games, Build(j, g),
           \A k \in Jobs : k = j
    PROVE  InTime'
<1> DEFINE a == LiveAsOf(job[j].sched[g], now + 1)
<1>1. /\ job'[j].pc = "built" /\ job'[j].game = g /\ now' = now + 1
      /\ job'[j].asOf = a /\ job'[j].sched = job[j].sched /\ job[j].pc # "idle"
      /\ UNCHANGED <<pitch, pred, wrote>>
    BY BuildView DEF IInv, Thinks, tables
<1>2. RunInTime(j) /\ now \in Nat /\ job[j].sched[g] \in Nat
    BY Clocks DEF InTime
<1>3. /\ a <= now + 1 /\ a < job[j].sched[g]
      /\ a = now + 1 \/ a = job[j].sched[g] - 1
    BY <1>2 DEF LiveAsOf, Min2
<1>4. ASSUME NEW i \in DOMAIN pred, pred[i].game = g PROVE pred[i].asOf <= a
    <2>1. pred[i].asOf <= now /\ pred[i].asOf < job[j].sched[g]
        BY <1>1, <1>2, <1>4 DEF RunInTime, InTime, Pregame
    <2> QED
        BY <1>2, <1>3, <2>1, Clocks
<1>5. \A h \in Games, b \in Nat : Newer(j, h, b) => Newer(j, h, b)'
    BY <1>1, Clocks DEF Newer
<1> HIDE DEF a
<1>6. Newer(j, job[j].game, job[j].asOf)'
    BY <1>1, <1>3, <1>4 DEF Newer
<1>7. \A w \in wrote[j] : Newer(j, w.game, w.asOf)'
    BY <1>1, <1>2, <1>5, Clocks DEF RunInTime
<1>8. RunInTime(j)'
    BY <1>1, <1>2, <1>6, <1>7 DEF RunInTime
<1> QED
    BY <1>1, <1>8, JobInTime

\* Passing a game over, keeping its snapshot, reading the one to replace.
LEMMA ThinkInTime ==
    ASSUME IInv, InTime, NEW j \in Jobs, Thinks(j), now' = now,
           \/ job'[j].pc = "slate"
           \/ /\ job[j].pc = "built" /\ job'[j].pc = "compared"
              /\ job'[j].game = job[j].game /\ job'[j].asOf = job[j].asOf,
           \A k \in Jobs : k = j
    PROVE  InTime'
<1>1. /\ job'[j].sched = job[j].sched /\ job[j].pc # "idle"
      /\ UNCHANGED <<pitch, pred, wrote>>
    BY DEF Thinks, tables
<1>2. RunInTime(j)
    BY DEF InTime
<1>3. \A h, b : Newer(j, h, b) => Newer(j, h, b)'
    BY <1>1 DEF Newer
<1>4. \A w \in wrote[j] : Newer(j, w.game, w.asOf)'
    BY <1>1, <1>2, <1>3 DEF RunInTime
<1>5. job'[j].pc \in {"built", "compared"} => Newer(j, job[j].game, job[j].asOf)'
    BY <1>1, <1>2 DEF RunInTime, Newer
<1>6. RunInTime(j)'
    BY <1>1, <1>2, <1>4, <1>5 DEF RunInTime
<1> QED
    BY <1>1, <1>6, JobInTime

LEMMA WriteInTime ==
    ASSUME IInv, InTime, NEW j \in Jobs, Write(j), \A k \in Jobs : k = j
    PROVE  InTime'
<1>1. /\ job[j].pc = "compared" /\ job'[j].pc = "slate"
      /\ job'[j].sched = job[j].sched /\ UNCHANGED <<now, pitch, pred>>
    BY WriteView DEF IInv, tables
<1>2. PICK w : /\ wrote'[j] = wrote[j] \cup {w}
               /\ w.game = job[j].game /\ w.asOf = job[j].asOf
    BY WriteView DEF IInv
<1>3. RunInTime(j)
    BY DEF InTime
<1>4. \A h, b : Newer(j, h, b) => Newer(j, h, b)'
    BY <1>1 DEF Newer
<1>5. \A v \in wrote'[j] : Newer(j, v.game, v.asOf)
    BY <1>1, <1>2, <1>3 DEF RunInTime
<1>6. RunInTime(j)'
    BY <1>1, <1>3, <1>4, <1>5 DEF RunInTime
<1> QED
    BY <1>1, <1>6, JobInTime

\* The rows committed are as of no earlier than those of their games, and
\* what they replace was the latest.
LEMMA CommitInTime ==
    ASSUME IInv, InTime, NEW j \in Jobs, Commit(j), \A k \in Jobs : k = j
    PROVE  InTime'
<1>1. /\ job'[j].pc = "idle" /\ job[j].pc = "slate" /\ UNCHANGED <<now, pitch>>
      /\ pred' = Committed(wrote[j])
    BY CommitView DEF IInv, Ends
<1>2. /\ DOMAIN pred' = DOMAIN pred \cup {w.id : w \in wrote[j]}
      /\ \A i \in DOMAIN pred : pred'[i].game = pred[i].game /\ pred'[i].asOf = pred[i].asOf
      /\ \A w \in wrote[j] : pred'[w.id].game = w.game /\ pred'[w.id].asOf = w.asOf
    BY <1>1, CommittedSays DEF SaysAsOf
<1>3. /\ \A i \in DOMAIN pred :
           \/ /\ \A w \in wrote[j] : w.replaces # i
              /\ pred'[i] = pred[i]
           \/ ~ pred'[i].latest
    BY <1>1, CommittedFields DEF CommittedTable
<1>4. \A w \in wrote[j] :
        /\ w.asOf <= now /\ w.asOf < job[j].sched[w.game]
        /\ job[j].sched[w.game] <= pitch[w.game]
        /\ \A i \in DOMAIN pred : pred[i].game = w.game => pred[i].asOf <= w.asOf
    BY <1>1, Clocks DEF InTime, RunInTime, Newer
<1>5. ASSUME NEW i \in DOMAIN pred' PROVE Pregame(i)'
    <2>1. CASE i \in DOMAIN pred
        BY <1>1, <1>2, <2>1 DEF InTime, Pregame
    <2>2. ASSUME NEW w \in wrote[j], i = w.id PROVE Pregame(i)'
        <3>1. w.asOf <= now /\ w.asOf < pitch[w.game]
            BY <1>4, Clocks
        <3> QED
            BY <1>1, <1>2, <2>2, <3>1 DEF Pregame
    <2> QED
        BY <1>2, <2>1, <2>2
<1>6. ASSUME NEW i \in DOMAIN pred', NEW k \in DOMAIN pred',
             pred'[i].game = pred'[k].game, pred'[i].latest
      PROVE  pred'[k].asOf <= pred'[i].asOf
    <2>1. CASE i \in DOMAIN pred /\ k \in DOMAIN pred
        <3>1. pred'[i] = pred[i]
            BY <1>3, <1>6, <2>1
        <3> QED
            BY <1>2, <1>6, <2>1, <3>1 DEF InTime, LatestIsNewestAsOf
    <2>2. ASSUME i \in DOMAIN pred, NEW w \in wrote[j], k = w.id PROVE FALSE
        <3>1. /\ pred'[i] = pred[i] /\ w.replaces # i /\ pred[i].latest
              /\ pred[i].game = w.game
            BY <1>2, <1>3, <1>6, <2>2
        <3>2. i \in Latest(w.game)
            BY <2>2, <3>1 DEF Latest
        <3>3. w.replaces \in Latest(w.game)
            BY <3>2 DEF IInv, InFlight, ReplacesLatest
        <3> QED
            BY <3>1, <3>2, <3>3 DEF IInv, ChainIntegrity, OneLatestPerGame, Latest
    <2>3. ASSUME NEW w \in wrote[j], i = w.id, k \in DOMAIN pred
          PROVE  pred'[k].asOf <= pred'[i].asOf
        BY <1>2, <1>4, <1>6, <2>3
    <2>4. ASSUME NEW w \in wrote[j], NEW v \in wrote[j], i = w.id, k = v.id
          PROVE  pred'[k].asOf <= pred'[i].asOf
        <3>1. w = v
            BY <1>2, <1>6, <2>4 DEF IInv, InFlight, OneWriter
        <3> QED
            BY <1>2, <2>4, <3>1, Clocks
    <2> QED
        BY <1>2, <2>1, <2>2, <2>3, <2>4
<1>7. \A k \in Jobs : RunInTime(k)'
    BY <1>1 DEF RunInTime
<1> QED
    BY <1>5, <1>6, <1>7 DEF InTime, LatestIsNewestAsOf

LEMMA NextInTime ==
    ASSUME \A j, k \in Jobs : j = k, IInv, InTime, [Next]_vars
    PROVE  InTime'
<1>0. TypeOK
    BY DEF IInv
<1>1. CASE Tick
    BY <1>1, TickInTime DEF Tick, tables
<1>2. ASSUME NEW g \in Games, NEW t \in Slots, Reschedule(g, t) PROVE InTime'
    BY <1>2, RescheduleInTime
<1>3. CASE \/ UNCHANGED vars \/ \E g \in Games : ReviseInputs(g)
           \/ \E activate \in BOOLEAN : Train(activate)
    <2>1. UNCHANGED <<now, pitch, pred, job, wrote>>
        BY <1>3 DEF vars, ReviseInputs, Train, tables
    <2> QED
        BY <2>1 DEF InTime, Pregame, LatestIsNewestAsOf, RunInTime, Newer
<1>4. ASSUME NEW j \in Jobs, NEW force \in BOOLEAN,
           NEW set \in FeatureSets, Begin(j, force, set) PROVE InTime'
    BY <1>4, BeginInTime
<1>5. ASSUME NEW j \in Jobs, NEW g \in Games, Build(j, g) PROVE InTime'
    BY <1>5, BuildInTime
<1>6. ASSUME NEW j \in Jobs,
             (\E g \in Games : Skip(j, g)) \/ Keep(j) \/ ReadExisting(j)
      PROVE  InTime'
    BY <1>0, <1>6, SkipView, KeepView, ReadExistingView, ThinkInTime
<1>7. ASSUME NEW j \in Jobs, Write(j) PROVE InTime'
    BY <1>7, WriteInTime
<1>8. ASSUME NEW j \in Jobs, Commit(j) PROVE InTime'
    BY <1>8, CommitInTime
<1>9. ASSUME NEW j \in Jobs,
             WriteFails(j) \/ DeadlockAbort(j) \/ CommitFails(j) \/ Kill(j)
      PROVE  InTime'
    <2>1. job'[j].pc = "idle" /\ UNCHANGED <<now, pitch, pred>>
        BY <1>0, <1>9, AbortView DEF Ends, tables
    <2>2. RunInTime(j)'
        BY <2>1 DEF RunInTime
    <2> QED
        BY <2>1, <2>2, JobInTime
<1> QED
    BY <1>1, <1>2, <1>3, <1>4, <1>5, <1>6, <1>7, <1>8, <1>9 DEF Next, Step

\* With one predict job at a time the row flagged latest is the one with the
\* most recent as_of, however games are moved and whatever is refused
\* (_live_as_of, current_latest); with two it need not be.
THEOREM NewestCorrect ==
    ASSUME \A j, k \in Jobs : j = k
    PROVE  Spec => []LatestIsNewestAsOf
<1>1. Init => InTime
    BY DEF Init, InTime, LatestIsNewestAsOf, RunInTime, Idle
<1>2. InTime => LatestIsNewestAsOf
    BY DEF InTime
<1>3. IInv /\ InTime /\ [Next]_vars => InTime'
    BY NextInTime
<1> QED
    BY <1>1, <1>2, <1>3, InitIInv, NextIInv, PTL DEF Spec

-----------------------------------------------------------------------------
(* The ledger implements the append-only history.                          *)

\* Every position of a game's chain is taken.
Ranked == \A g \in Games : \A n \in 1..Cardinality(Issued(g)) : Nth(g, n) # {}

\* The ids of a game are finitely many, whatever is left out of them.
LEMMA IssuedFinite ==
    ASSUME IInv, NEW g, NEW S \in SUBSET Issued(g)
    PROVE  IsFiniteSet(S) /\ Cardinality(S) \in Nat
<1>1. S \in SUBSET Nat /\ nextId \in Nat /\ \A i \in S : i <= nextId
    BY DEF IInv, TypeOK, InFlight, IdsFresh, Issued
<1>2. IsFiniteSet(S)
    BY <1>1, FS_BoundedSetOfNaturals
<1> QED
    BY <1>2, FS_CardinalityType

\* The latest row of a game is the last that was issued for it: the greatest
\* id is superseded by none.
LEMMA LatestIsLast ==
    ASSUME IInv, NEW g, NEW e \in Latest(g), NEW i \in Issued(g)
    PROVE  i <= e
<1> DEFINE T == {nextId - k : k \in Issued(g)}
<1>1. nextId \in Nat /\ \A k \in Issued(g) : k \in Nat /\ k < nextId
    BY DEF IInv, TypeOK, InFlight, IdsFresh, Issued
<1>2. T \subseteq Nat /\ nextId - i \in T
    BY <1>1
<1>3. \E x \in T : \A y \in T : ~ (<<y, x>> \in OpToRel(<, Nat))
    <2> HIDE DEF T
    <2> QED
        BY <1>2, WFMin, NatLessThanWellFounded
<1>4. PICK m \in Issued(g) :
        \A k \in Issued(g) : ~ (<<nextId - k, nextId - m>> \in OpToRel(<, Nat))
    BY <1>3
<1>5. \A k \in Issued(g) : nextId - k \in Nat
    BY <1>1
<1>6. \A k \in Issued(g) : ~ (nextId - k < nextId - m)
    BY <1>4, <1>5, Zenon DEF OpToRel
<1>7. \A k \in Issued(g) : k <= m
    BY <1>1, <1>6
<1>8. pred[m].latest
    <2> SUFFICES ASSUME ~ pred[m].latest PROVE FALSE
        OBVIOUS
    <2>1. /\ pred[m].supersededBy \in DOMAIN pred /\ pred[m].supersededBy > m
          /\ pred[pred[m].supersededBy].game = g
        BY DEF IInv, ChainIntegrity, SupersededByLater, Issued
    <2>2. pred[m].supersededBy \in Issued(g)
        BY <2>1 DEF Issued
    <2> QED
        BY <1>1, <1>7, <2>1, <2>2
<1>9. m = e
    BY <1>8 DEF IInv, ChainIntegrity, OneLatestPerGame, Latest, Issued
<1> QED
    BY <1>7, <1>9

\* An insert waiting for its commit comes after all the rows of its game.
LEMMA InsertIsLast ==
    ASSUME IInv, NEW j \in Jobs, NEW w \in wrote[j], NEW i \in Issued(w.game)
    PROVE  i < w.id
<1>1. CASE w.replaces = 0
    <2>1. Latest(w.game) = {}
        BY <1>1 DEF IInv, InFlight, ReplacesLatest
    <2>2. i \in DOMAIN pred /\ pred[i].game = w.game
        BY DEF Issued
    <2>3. PICK k \in DOMAIN pred : pred[k].game = w.game /\ pred[k].latest
        BY <2>2 DEF IInv, ChainIntegrity, EveryGameServed
    <2> QED
        BY <2>1, <2>3 DEF Latest
<1>2. CASE w.replaces # 0
    <2>1. w.replaces \in Latest(w.game)
        BY <1>2 DEF IInv, InFlight, ReplacesLatest
    <2>2. i <= w.replaces
        BY <2>1, LatestIsLast
    <2>3. w.replaces < w.id /\ w \in Insert /\ i \in Nat
        BY DEF IInv, TypeOK, InFlight, IdsFresh, Issued
    <2> QED
        BY <2>2, <2>3 DEF Insert
<1> QED
    BY <1>1, <1>2

\* What a commit does to a game it has a row for ...
LEMMA CommitIssues ==
    ASSUME IInv, NEW j \in Jobs, Commit(j), NEW w \in wrote[j]
    PROVE  Issued(w.game)' = Issued(w.game) \cup {w.id} /\ Latest(w.game)' = {w.id}
<1> DEFINE g == w.game
<1>0. CommittedTable(pred', wrote[j])
    BY CommittedFields, CommitView DEF IInv
<1>1. /\ DOMAIN pred' = DOMAIN pred \cup {v.id : v \in wrote[j]}
      /\ \A i \in DOMAIN pred : pred'[i].game = pred[i].game
      /\ \A i \in DOMAIN pred : (\A v \in wrote[j] : v.replaces # i) \/ ~ pred'[i].latest
      /\ \A v \in wrote[j] : pred'[v.id].game = v.game /\ pred'[v.id].latest
    BY <1>0 DEF CommittedTable
<1>7. \A i \in DOMAIN pred : pred'[i].latest => pred[i].latest
    BY <1>0 DEF CommittedTable
<1>2. \A v \in wrote[j] : v.game = g => v = w
    BY DEF IInv, InFlight, OneWriter
<1>3. Issued(g)' = Issued(g) \cup {w.id}
    BY <1>1, <1>2 DEF Issued
<1>4. ASSUME NEW i \in Latest(g), i \in DOMAIN pred PROVE ~ pred'[i].latest
    <2>1. w.replaces = i
        BY <1>4 DEF IInv, InFlight, ReplacesLatest, ChainIntegrity, OneLatestPerGame, Latest
    <2> QED
        BY <1>1, <1>4, <2>1
<1>5. \A i \in DOMAIN pred : pred[i].game = g => ~ pred'[i].latest
    BY <1>7, <1>4 DEF Latest
<1>6. Latest(g)' = {w.id}
    BY <1>1, <1>2, <1>5 DEF Latest
<1> QED
    BY <1>3, <1>6

\* ... and to one it has none for.
LEMMA CommitSpares ==
    ASSUME IInv, NEW j \in Jobs, Commit(j), NEW g, \A w \in wrote[j] : w.game # g
    PROVE  /\ Issued(g)' = Issued(g) /\ Latest(g)' = Latest(g)
<1>1. /\ DOMAIN pred' = DOMAIN pred \cup {v.id : v \in wrote[j]}
      /\ \A i \in DOMAIN pred :
           /\ pred'[i].game = pred[i].game
           /\ pred[i].game = g => pred'[i] = pred[i]
      /\ \A v \in wrote[j] : pred'[v.id].game # g
    BY CommittedFields, CommitView DEF IInv, CommittedTable
<1> QED
    BY <1>1 DEF Issued, Latest

\* What a reader sees of a committed row stays as it is.
LEMMA SnapshotStays ==
    ASSUME IInv, NEW j \in Jobs, Commit(j), NEW i \in DOMAIN pred
    PROVE  Snapshot(i)' = Snapshot(i)
<1>1. RowKept(i) /\ pred[i] \in Row
    BY CommitKeepsRows DEF IInv, TypeOK
<1>2. /\ pred'[i].version = pred[i].version /\ pred'[i].set = pred[i].set
      /\ pred'[i].asOf = pred[i].asOf /\ pred'[i].rev = pred[i].rev
    BY <1>1 DEF RowKept, KeptIn, Row
<1> QED
    BY <1>2 DEF Snapshot

\* A row added after all others takes the next position and moves none.
LEMMA ChainGrows ==
    ASSUME IInv, NEW g \in Games, NEW x \in Nat, NEW c, c = Cardinality(Issued(g)),
           Issued(g)' = Issued(g) \cup {x}, \A i \in Issued(g) : i < x
    PROVE  /\ c \in Nat /\ Cardinality(Issued(g))' = c + 1
           /\ \A n \in 1..c : Nth(g, n)' = Nth(g, n) /\ Chain(g)'[n] = Chain(g)[n]
           /\ Nth(g, c + 1)' = {x} /\ Chain(g)'[c + 1] = x
<1> DEFINE Below(i) == {k \in Issued(g) : k <= i}
<1>1. c \in Nat /\ IsFiniteSet(Issued(g)) /\ \A i \in Issued(g) : i \in Nat
    BY IssuedFinite DEF IInv, TypeOK, Issued
<1>2. x \notin Issued(g)
    BY <1>1
<1>3. Cardinality(Issued(g))' = c + 1
    BY <1>1, <1>2, FS_AddElement
<1>4. ASSUME NEW i \in Issued(g)
      PROVE  Position(g, i)' = Position(g, i) /\ Position(g, i) \in 0..c
    <2>1. {k \in Issued(g)' : k <= i} = Below(i)
        BY <1>1, <1>4
    <2>2. Cardinality(Below(i)) \in Nat
        BY IssuedFinite
    <2>3. Cardinality(Below(i)) <= c
        BY <1>1, FS_Subset
    <2> QED
        BY <1>1, <2>1, <2>2, <2>3 DEF Position
<1>5. Position(g, x)' = c + 1
    <2>1. {k \in Issued(g)' : k <= x} = Issued(g)'
        BY <1>1
    <2> QED
        BY <1>3, <2>1 DEF Position
<1>6. ASSUME NEW n \in 1..c PROVE Nth(g, n)' = Nth(g, n)
    <2>1. Nth(g, n)' = {i \in Issued(g) \cup {x} : Position(g, i)' = n}
        BY DEF Nth
    <2>2. Position(g, x)' # n
        BY <1>1, <1>5
    <2>3. {i \in Issued(g) \cup {x} : Position(g, i)' = n}
            = {i \in Issued(g) : Position(g, i) = n}
        BY <1>2, <1>4, <2>2
    <2> QED
        BY <2>1, <2>3 DEF Nth
<1>7. Nth(g, c + 1)' = {x}
    <2>1. Nth(g, c + 1)' = {i \in Issued(g) \cup {x} : Position(g, i)' = c + 1}
        BY DEF Nth
    <2>2. \A i \in Issued(g) : Position(g, i)' # c + 1
        BY <1>1, <1>4
    <2> QED
        BY <1>5, <2>1, <2>2
<1>8. ASSUME NEW n \in 1..c PROVE Chain(g)'[n] = Chain(g)[n]
    <2>1. n \in 1..(c + 1)
        BY <1>1
    <2>2. Chain(g)'[n] = CHOOSE i \in Nth(g, n)' : TRUE
        BY <1>3, <2>1 DEF Chain
    <2>3. Chain(g)[n] = CHOOSE i \in Nth(g, n) : TRUE
        BY DEF Chain
    <2> QED
        BY <1>6, <2>2, <2>3
<1>9. Chain(g)'[c + 1] = x
    <2>1. c + 1 \in 1..(c + 1)
        BY <1>1
    <2>2. Chain(g)'[c + 1] = CHOOSE i \in Nth(g, c + 1)' : TRUE
        BY <1>3, <2>1 DEF Chain
    <2> QED
        BY <1>7, <2>2
<1> QED
    BY <1>1, <1>3, <1>6, <1>7, <1>8, <1>9

LEMMA InitRanked == Init => Ranked
<1> SUFFICES ASSUME Init, NEW g \in Games PROVE 1..Cardinality(Issued(g)) = {}
    BY DEF Ranked
<1>1. Issued(g) = {}
    BY DEF Init, Issued
<1> QED
    BY <1>1, FS_EmptySet

LEMMA CommitRanked ==
    ASSUME IInv, Ranked, NEW j \in Jobs, Commit(j)
    PROVE  Ranked'
<1> SUFFICES ASSUME NEW g \in Games, NEW n \in 1..Cardinality(Issued(g))'
             PROVE  Nth(g, n)' # {}
    BY DEF Ranked
<1>1. CASE \A w \in wrote[j] : w.game # g
    <2>1. Issued(g)' = Issued(g)
        BY <1>1, CommitSpares
    <2>2. Nth(g, n)' = Nth(g, n) /\ Cardinality(Issued(g))' = Cardinality(Issued(g))
        BY <2>1 DEF Nth, Position
    <2> QED
        BY <2>2 DEF Ranked
<1>2. ASSUME NEW w \in wrote[j], w.game = g PROVE Nth(g, n)' # {}
    <2>1. PICK c : c = Cardinality(Issued(g))
        OBVIOUS
    <2>2. w.id \in Nat /\ \A i \in Issued(g) : i < w.id
        BY <1>2, InsertIsLast DEF IInv, TypeOK, Insert
    <2>3. Issued(g)' = Issued(g) \cup {w.id}
        BY <1>2, CommitIssues
    <2>4. /\ c \in Nat /\ Cardinality(Issued(g))' = c + 1
          /\ \A k \in 1..c : Nth(g, k)' = Nth(g, k)
          /\ Nth(g, c + 1)' = {w.id}
        BY <2>1, <2>2, <2>3, ChainGrows
    <2>5. n \in 1..c \/ n = c + 1
        BY <2>4
    <2> QED
        BY <2>1, <2>4, <2>5 DEF Ranked
<1> QED
    BY <1>1, <1>2

\* Who reads the history sees a commit add one snapshot to each game it has a
\* row for and nothing to the others.
LEMMA CommitPublishes ==
    ASSUME IInv, Ranked, NEW j \in Jobs, Commit(j)
    PROVE  History!Publish
<1> DEFINE H == [g \in Games |-> [n \in DOMAIN Chain(g) |-> Snapshot(Chain(g)[n])]]
           S == [g \in Games |-> {Snapshot(i) : i \in Latest(g)}]
<1> SUFFICES ASSUME NEW g \in Games
             PROVE  \/ /\ H'[g] = H[g] /\ S'[g] = S[g]
                    \/ /\ Len(H'[g]) = Len(H[g]) + 1
                       /\ SubSeq(H'[g], 1, Len(H[g])) = H[g]
                       /\ S'[g] = {H'[g][Len(H'[g])]}
    BY DEF History!Publish, History!Extended, History!Untouched
<1>1. PICK c : c = Cardinality(Issued(g))
    OBVIOUS
<1>2. c \in Nat
    BY <1>1, IssuedFinite
<1>3. DOMAIN Chain(g) = 1..c
    BY <1>1 DEF Chain
<1>4. ASSUME NEW n \in 1..c PROVE Chain(g)[n] \in Issued(g)
    <2>1. Nth(g, n) # {} /\ Nth(g, n) \subseteq Issued(g)
        BY <1>1 DEF Ranked, Nth
    <2> QED
        BY <1>1, <2>1 DEF Chain
<1>5. \A i \in Issued(g) : Snapshot(i)' = Snapshot(i)
    BY SnapshotStays DEF Issued
<1>6. Latest(g) \subseteq Issued(g)
    BY DEF Latest, Issued
<1>7. CASE \A w \in wrote[j] : w.game # g
    <2>1. Issued(g)' = Issued(g) /\ Latest(g)' = Latest(g)
        BY <1>7, CommitSpares
    <2>2. Chain(g)' = Chain(g)
        BY <2>1 DEF Chain, Nth, Position
    <2>3. H'[g] = H[g]
        BY <1>3, <1>4, <1>5, <2>2
    <2>4. S'[g] = S[g]
        BY <1>5, <1>6, <2>1
    <2> QED
        BY <2>3, <2>4
<1>8. ASSUME NEW w \in wrote[j], w.game = g
      PROVE  /\ Len(H'[g]) = Len(H[g]) + 1
             /\ SubSeq(H'[g], 1, Len(H[g])) = H[g]
             /\ S'[g] = {H'[g][Len(H'[g])]}
    <2>1. PICK x : x = w.id
        OBVIOUS
    <2>2. x \in Nat /\ \A i \in Issued(g) : i < x
        BY <1>8, <2>1, InsertIsLast DEF IInv, TypeOK, Insert
    <2>3. Issued(g)' = Issued(g) \cup {x} /\ Latest(g)' = {x}
        BY <1>8, <2>1, CommitIssues
    <2>4. /\ Cardinality(Issued(g))' = c + 1
          /\ \A n \in 1..c : Chain(g)'[n] = Chain(g)[n]
          /\ Chain(g)'[c + 1] = x
        <3>1. Cardinality(Issued(g))' = c + 1
            BY <1>1, <2>2, <2>3, ChainGrows
        <3>2. \A n \in 1..c : Chain(g)'[n] = Chain(g)[n]
            BY <1>1, <2>2, <2>3, ChainGrows
        <3>3. Chain(g)'[c + 1] = x
            BY <1>1, <2>2, <2>3, ChainGrows
        <3> QED
            BY <3>1, <3>2, <3>3
    <2>5. DOMAIN Chain(g)' = 1..(c + 1)
        BY <2>4 DEF Chain
    <2>6. H'[g] = [n \in 1..(c + 1) |-> Snapshot(Chain(g)[n])']
        BY <2>5
    <2>7. H[g] = [n \in 1..c |-> Snapshot(Chain(g)[n])]
        BY <1>3
    <2>8. \A n \in 1..c : H'[g][n] = H[g][n]
        <3> SUFFICES ASSUME NEW n \in 1..c PROVE H'[g][n] = H[g][n]
            OBVIOUS
        <3>1. H'[g][n] = Snapshot(Chain(g)[n])'
            BY <1>2, <2>6
        <3>2. Chain(g)'[n] = Chain(g)[n] /\ Chain(g)[n] \in Issued(g)
            BY <1>4, <2>4
        <3> QED
            BY <1>5, <2>7, <3>1, <3>2 DEF Snapshot
    <2>9. H'[g][c + 1] = Snapshot(x)'
        BY <1>2, <2>4, <2>6 DEF Snapshot
    <2>10. Len(H[g]) = c /\ Len(H'[g]) = c + 1
        BY <1>2, <2>6, <2>7
    <2>11. S'[g] = {Snapshot(x)'}
        BY <2>3 DEF Snapshot
    <2> HIDE DEF H, S
    <2>12. SubSeq(H'[g], 1, c) = H[g]
        BY <1>2, <2>7, <2>8, <2>10
    <2> QED
        BY <2>9, <2>10, <2>11, <2>12
<1> QED
    BY <1>7, <1>8

LEMMA NextRanked ==
    IInv /\ Ranked /\ [Next]_vars => Ranked' /\ [History!Publish]_History!hvars
<1> SUFFICES ASSUME IInv, Ranked, [Next]_vars
             PROVE  Ranked' /\ [History!Publish]_History!hvars
    OBVIOUS
<1>1. CASE \E j \in Jobs : Commit(j)
    BY <1>1, CommitRanked, CommitPublishes
<1>2. CASE ~ \E j \in Jobs : Commit(j)
    <2>1. pred' = pred
        BY <1>2 DEF Next, vars, tables, Tick, ReviseInputs, Reschedule, Train,
           Begin, Step, Skip, Build, Keep, ReadExisting, Write, WriteFails,
           DeadlockAbort, CommitFails, Kill, Rollback
    <2>2. Ranked'
        BY <2>1 DEF Ranked, Issued, Nth, Position
    <2>3. UNCHANGED History!hvars
        BY <2>1 DEF History!hvars, Snapshot, Chain, Issued, Nth, Position, Latest
    <2> QED
        BY <2>2, <2>3
<1> QED
    BY <1>1, <1>2

\* The ledger implements the append-only history for any slate and any number
\* of jobs: what a reader sees of a game only ever grows at its end, a run
\* appears whole, and the snapshot served is the last (generate_prediction
\* under session_scope).
THEOREM HistoryCorrect == Spec => ImplementsHistory
<1>1. Init => History!Init
    <2> SUFFICES ASSUME Init, NEW g \in Games
                 PROVE  /\ [n \in DOMAIN Chain(g) |-> Snapshot(Chain(g)[n])] = <<>>
                        /\ {Snapshot(i) : i \in Latest(g)} = {}
        BY DEF History!Init
    <2>1. Issued(g) = {} /\ Latest(g) = {}
        BY DEF Init, Issued, Latest
    <2>2. DOMAIN Chain(g) = {}
        BY <2>1, FS_EmptySet DEF Chain
    <2> QED
        BY <2>1, <2>2
<1> QED
    BY <1>1, InitRanked, NextRanked, InitIInv, NextIInv, PTL
       DEF Spec, ImplementsHistory, History!Spec

-----------------------------------------------------------------------------
(* The rows.  Whatever order the jobs created them in, the code and the     *)
(* repair leave no two latest snapshots that the keys of the version keep   *)
(* apart.                                                                   *)

\* No two latest snapshots are of one game, or before LatestRevision of one
\* game and model.
LatestApart(v, rows) ==
    \A i, j \in DOMAIN rows :
        /\ rows[i].latest /\ rows[j].latest /\ rows[i].game = rows[j].game
        /\ v >= LatestRevision \/ rows[i].model = rows[j].model
        => i = j

Created(rows) ==
    /\ rows \in Seq(Prediction)
    /\ \A i \in DOMAIN rows : rows[i].created >= -1

RowsApart(v, rows) == Created(rows) /\ Len(rows) <= MaxRows /\ LatestApart(v, rows)

\* A set of ids that is not empty has a least one.
LEMMA LeastId ==
  ASSUME NEW S \in SUBSET Nat, S # {}
  PROVE  \E m \in S : \A k \in S : m <= k
<1> DEFINE R == {ss \in Nat \X Nat : ss[1] < ss[2]}
<1>1. IsWellFoundedOn(R, Nat)
  BY NatLessThanWellFounded, Zenon DEF OpToRel
<1>2. \E m \in S : \A k \in S : ~ (<<k, m>> \in R)
  <2> HIDE DEF R
  <2> QED BY <1>1, WFMin, Zenon
<1>3. PICK m \in S : \A k \in S : ~ (<<k, m>> \in R)
  BY <1>2
<1>4. ASSUME NEW k \in S PROVE m <= k
  <2>1. <<k, m>> \in Nat \X Nat
    OBVIOUS
  <2>2. ~ (k < m)
    BY <1>3, <2>1
  <2> QED BY <2>2
<1> QED BY <1>4

Later(rows, i) == {j \in DOMAIN rows : rows[j].game = rows[i].game /\ Before(rows, i, j)}

\* The row after a row is one of its game that comes after it, if there is one.
LEMMA NextLast ==
  ASSUME NEW rows, Created(rows), NEW i \in DOMAIN rows
  PROVE  /\ NextOf(rows, i) = 0 => Later(rows, i) = {}
         /\ NextOf(rows, i) # 0 => NextOf(rows, i) \in Later(rows, i)
<1> DEFINE S == Later(rows, i)
           at(j) == rows[j].created + 1
           C == {at(j) : j \in S}
<1>0. \A j \in DOMAIN rows : j \in Nat /\ j # 0 /\ rows[j].created \in Int /\ at(j) \in Nat
  <2>1. DOMAIN rows = 1..Len(rows) /\ Len(rows) \in Nat
    BY DEF Created
  <2>2. \A j \in DOMAIN rows : rows[j] \in Prediction /\ rows[j].created >= -1
    BY DEF Created
  <2> QED BY <2>1, <2>2 DEF Prediction
<1>1. S \subseteq DOMAIN rows
  BY DEF Later
<1>2. CASE S = {}
  BY <1>2 DEF NextOf, Later
<1>3. CASE S # {}
  <2>1. PICK c \in C : \A x \in C : c <= x
    <3>1. C \in SUBSET Nat /\ C # {}
      BY <1>0, <1>1, <1>3
    <3> HIDE DEF C
    <3> QED BY <3>1, LeastId
  <2> DEFINE D == {j \in S : at(j) = c}
  <2>2. PICK m \in D : \A k \in D : m <= k
    <3>1. D \in SUBSET Nat /\ D # {}
      BY <1>0, <1>1, <2>1
    <3> HIDE DEF D
    <3> QED BY <3>1, LeastId
  <2>3. \A k \in S : k = m \/ Before(rows, m, k)
    <3> SUFFICES ASSUME NEW k \in S, k # m PROVE Before(rows, m, k)
      OBVIOUS
    <3>1. k \in Nat /\ m \in Nat /\ rows[k].created \in Int /\ rows[m].created \in Int
      BY <1>0, <1>1, <2>2
    <3>2. rows[m].created <= rows[k].created
      BY <2>1, <2>2, <3>1
    <3>3. CASE rows[m].created = rows[k].created
      BY <2>2, <3>1, <3>3 DEF Before
    <3> QED BY <3>1, <3>2, <3>3 DEF Before
  <2>4. NextOf(rows, i) = CHOOSE j \in S : \A k \in S : k = j \/ Before(rows, j, k)
    BY <1>3 DEF NextOf, Later
  <2>5. NextOf(rows, i) \in S
    <3>1. m \in S
      BY <2>2
    <3> HIDE DEF S, D
    <3> QED BY <2>3, <2>4, <3>1
  <2>6. NextOf(rows, i) # 0
    BY <1>0, <1>1, <2>5
  <2> QED BY <2>5, <2>6
<1> QED BY <1>2, <1>3

\* The repair leaves one latest row of a game, in whatever order the rows were
\* created.
LEMMA RepairApart ==
  ASSUME NEW rows, Created(rows), Len(rows) <= MaxRows
  PROVE  /\ Created(RepairPredictions(rows)) /\ Len(RepairPredictions(rows)) <= MaxRows
         /\ \A v : LatestApart(v, RepairPredictions(rows))
<1> DEFINE new == RepairPredictions(rows)
<1>0. /\ rows \in Seq(Prediction) /\ DOMAIN rows = 1..Len(rows) /\ Len(rows) \in Nat
      /\ \A i \in DOMAIN rows : rows[i] \in Prediction /\ rows[i].created >= -1
  BY DEF Created
<1>1. DOMAIN new = DOMAIN rows
  BY DEF RepairPredictions
<1>2. \A i \in DOMAIN rows :
        LET next == NextOf(rows, i) IN
        IF rows[i].latest /\ next # 0
        THEN new[i] = [rows[i] EXCEPT !.latest = FALSE, !.by = IF @ = 0 THEN next ELSE @]
        ELSE new[i] = rows[i]
  BY DEF RepairPredictions
<1>3. ASSUME NEW i \in DOMAIN rows
      PROVE  /\ new[i] \in Prediction /\ new[i].created = rows[i].created
             /\ new[i].game = rows[i].game
             /\ new[i].latest => NextOf(rows, i) = 0
  <2>1. NextOf(rows, i) # 0 => NextOf(rows, i) \in 0..MaxRows
    BY <1>0, <1>3, NextLast, MigrationsAssumption DEF Later
  <2> DEFINE next == NextOf(rows, i)
             row == rows[i]
             by == IF row.by = 0 THEN next ELSE row.by
  <2>2. /\ row \in Prediction /\ row.latest \in BOOLEAN
        /\ row.latest /\ next # 0 => new[i] = [row EXCEPT !.latest = FALSE, !.by = by]
        /\ ~ (row.latest /\ next # 0) => new[i] = row
    BY <1>0, <1>2 DEF Prediction
  <2> HIDE DEF new, next, row
  <2>3. CASE row.latest /\ next # 0
    <3>1. by \in 0..MaxRows
      BY <2>1, <2>2, <2>3 DEF Prediction, next
    <3> HIDE DEF by
    <3> QED BY <2>2, <2>3, <3>1 DEF Prediction, row
  <2>4. CASE ~ (row.latest /\ next # 0)
    BY <2>2, <2>4 DEF row, next
  <2> QED BY <2>3, <2>4
<1>4. new \in Seq(Prediction) /\ Len(new) = Len(rows)
  <2>1. new = [i \in 1..Len(rows) |-> new[i]]
    BY <1>0 DEF RepairPredictions
  <2> HIDE DEF new
  <2> QED BY <1>0, <1>1, <1>3, <2>1
<1>5. ASSUME NEW i \in DOMAIN new, NEW j \in DOMAIN new,
             new[i].latest, new[j].latest, new[i].game = new[j].game
      PROVE  i = j
  <2>1. /\ i \in DOMAIN rows /\ j \in DOMAIN rows /\ rows[i].game = rows[j].game
        /\ NextOf(rows, i) = 0 /\ NextOf(rows, j) = 0
    BY <1>1, <1>3, <1>5
  <2>2. ~ Before(rows, i, j) /\ ~ Before(rows, j, i)
    BY <2>1, NextLast DEF Later
  <2>3. /\ i \in Nat /\ j \in Nat
        /\ rows[i].created \in Int /\ rows[j].created \in Int
    <3>1. rows[i] \in Prediction /\ rows[j] \in Prediction
      BY <1>0, <2>1
    <3>2. i \in Nat /\ j \in Nat
      BY <1>0, <2>1
    <3> HIDE DEF new
    <3> QED BY <3>1, <3>2 DEF Prediction
  <2> HIDE DEF new
  <2> QED BY <2>2, <2>3 DEF Before
<1>6. Created(new)
  BY <1>0, <1>1, <1>3, <1>4 DEF Created
<1> HIDE DEF new
<1>7. \A v : LatestApart(v, new)
  BY <1>5 DEF LatestApart
<1> QED BY <1>0, <1>4, <1>6, <1>7 DEF new

\* The code of each version retires what the key of that version would refuse.
LEMMA IssuedApart ==
  ASSUME NEW g \in Game, NEW m \in Model, NEW overlapped \in BOOLEAN,
         RowsApart(version, preds), Issue(g, m, overlapped)
  PROVE  RowsApart(version, preds')
<1>0. /\ preds \in Seq(Prediction) /\ DOMAIN preds = 1..Len(preds) /\ Len(preds) \in Nat
      /\ Len(preds) < MaxRows /\ LatestApart(version, preds)
      /\ \A i \in DOMAIN preds : preds[i] \in Prediction /\ preds[i].created >= -1
  <2>1. Created(preds) /\ LatestApart(version, preds)
    BY DEF RowsApart
  <2>2. preds \in Seq(Prediction) /\ \A i \in DOMAIN preds : preds[i].created >= -1
    BY <2>1 DEF Created
  <2>3. Len(preds) < MaxRows
    BY DEF Issue
  <2> QED BY <2>1, <2>2, <2>3
<1> DEFINE id == Len(preds) + 1
           retired(i) == /\ preds[i].latest /\ preds[i].game = g
                         /\ version >= LatestRevision \/ preds[i].model = m
           old == [i \in DOMAIN preds |->
                      IF retired(i)
                      THEN [preds[i] EXCEPT !.latest = FALSE, !.by = id]
                      ELSE preds[i]]
           row == [game |-> g, model |-> m, latest |-> TRUE, by |-> 0,
                   created |-> 2 * id - IF overlapped THEN 3 ELSE 0]
<1>1. preds' = Append(old, row)
  BY Zenon DEF Issue
<1>2. id \in Nat /\ id \in 0..MaxRows /\ id >= 1
  BY <1>0, MigrationsAssumption
<1>3. ASSUME NEW i \in DOMAIN preds
      PROVE  /\ old[i] \in Prediction /\ old[i].created = preds[i].created
             /\ old[i].game = preds[i].game /\ old[i].model = preds[i].model
             /\ old[i].latest = (preds[i].latest /\ ~ retired(i))
  <2>1. CASE retired(i)
    BY <1>0, <1>2, <2>1 DEF Prediction
  <2>2. CASE ~ retired(i)
    BY <1>0, <2>2 DEF Prediction
  <2> QED BY <2>1, <2>2
<1>4. /\ row \in Prediction /\ row.created >= -1
      /\ row.game = g /\ row.model = m
  <2>1. CASE overlapped
    BY <1>2, <2>1, MigrationsAssumption DEF Prediction
  <2>2. CASE ~ overlapped
    BY <1>2, <2>2, MigrationsAssumption DEF Prediction
  <2> QED BY <2>1, <2>2
<1>5. old \in Seq(Prediction) /\ Len(old) = Len(preds)
  <2>1. old = [i \in 1..Len(preds) |-> old[i]]
    BY <1>0
  <2> HIDE DEF old
  <2> QED BY <1>0, <1>3, <2>1
<1> HIDE DEF old, row
<1>6. /\ preds' \in Seq(Prediction) /\ Len(preds') = id /\ DOMAIN preds' = 1..id
      /\ \A i \in DOMAIN preds : preds'[i] = old[i]
      /\ preds'[id] = row
      /\ \A i \in DOMAIN preds' : i \in DOMAIN preds \/ i = id
  <2>1. preds' \in Seq(Prediction) /\ Len(preds') = id
    BY <1>0, <1>1, <1>4, <1>5
  <2>2. \A i \in DOMAIN preds : preds'[i] = old[i]
    BY <1>0, <1>1, <1>5
  <2>3. preds'[id] = row
    BY <1>0, <1>1, <1>5
  <2> QED BY <1>0, <1>2, <2>1, <2>2, <2>3
<1>7. \A i \in DOMAIN preds' : preds'[i].created >= -1
  BY <1>0, <1>3, <1>4, <1>6
<1>8. ASSUME NEW i \in DOMAIN preds', NEW j \in DOMAIN preds',
             preds'[i].latest, preds'[j].latest, preds'[i].game = preds'[j].game,
             version >= LatestRevision \/ preds'[i].model = preds'[j].model
      PROVE  i = j
  <2>1. CASE i = id /\ j = id
    BY <2>1
  <2>2. \A k \in DOMAIN preds :
          /\ preds'[k].game = preds[k].game /\ preds'[k].model = preds[k].model
          /\ preds'[k].latest => preds[k].latest /\ ~ retired(k)
    BY <1>3, <1>6
  <2>3. CASE i \in DOMAIN preds /\ j \in DOMAIN preds
    <3>1. /\ preds[i].latest /\ preds[j].latest /\ preds[i].game = preds[j].game
          /\ version >= LatestRevision \/ preds[i].model = preds[j].model
      BY <1>8, <2>2, <2>3
    <3> QED BY <1>0, <2>3, <3>1 DEF LatestApart
  <2>4. ASSUME NEW k \in DOMAIN preds, preds'[k].latest, preds'[k].game = g,
               version >= LatestRevision \/ preds'[k].model = m
        PROVE  FALSE
    BY <2>2, <2>4
  <2>5. preds'[id].game = g /\ preds'[id].model = m
    BY <1>4, <1>6
  <2> QED BY <1>6, <1>8, <2>1, <2>3, <2>4, <2>5
<1>9. LatestApart(version, preds')
  BY <1>8 DEF LatestApart
<1> QED BY <1>0, <1>2, <1>6, <1>7, <1>9 DEF Created, RowsApart

\* A command empties the rows, repairs them, or leaves them as they are, and it
\* never passes LatestRevision upwards without the repair.
LEMMA RowsMigrated ==
  ASSUME NEW to \in 0..HeadRevision, version \in Nat, RowsApart(version, preds), Migrate(to)
  PROVE  /\ version' \in Nat /\ RowsApart(version', preds')
         /\ preds' \in {<<>>, RepairPredictions(preds), preds}
<1>1. to \in Nat /\ Created(preds) /\ Len(preds) <= MaxRows /\ LatestApart(version, preds)
  BY DEF RowsApart
<1>2. CASE version' = to
  <2> DEFINE crossed == version < LatestRevision /\ LatestRevision <= to
  <2>1. preds' = IF to = 0 THEN <<>>
                 ELSE IF crossed THEN RepairPredictions(preds) ELSE preds
    BY <1>2 DEF Migrate
  <2>2. CASE preds' = <<>>
    BY <1>1, <1>2, <2>2, MigrationsAssumption DEF RowsApart, Created, LatestApart
  <2>3. CASE preds' = RepairPredictions(preds)
    BY <1>1, <1>2, <2>3, RepairApart DEF RowsApart
  <2>4. CASE preds' = preds /\ ~ crossed
    <3>1. version' >= LatestRevision => version >= LatestRevision
      BY <1>1, <1>2, <2>4 DEF LatestRevision
    <3> QED BY <1>1, <1>2, <2>4, <3>1 DEF RowsApart, LatestApart
  <2> HIDE DEF crossed
  <2> QED BY <2>1, <2>2, <2>3, <2>4
<1>3. CASE UNCHANGED <<version, preds>>
  BY <1>3
<1> QED BY <1>2, <1>3 DEF Migrate

-----------------------------------------------------------------------------
(* The chain of a game whose rows were created in the order of their ids: a *)
(* link leads forward within the game, and the newest row is never retired. *)

Ordered(rows, g) ==
    \A i, j \in DOMAIN rows :
        rows[i].game = g /\ rows[j].game = g /\ i < j =>
            rows[i].created <= rows[j].created

LinkedForward(rows, g) ==
    \A i \in DOMAIN rows :
        rows[i].game = g /\ rows[i].by # 0 =>
            /\ rows[i].by \in DOMAIN rows /\ rows[i].by > i
            /\ rows[rows[i].by].game = g

\* A retired row has a link, in whatever order the rows were created.
RetiredLinked(rows) == \A i \in DOMAIN rows : rows[i].latest \/ rows[i].by # 0

Newest(rows, i) == \A j \in DOMAIN rows : rows[j].game = rows[i].game => j <= i

NewestLatest(rows, g) ==
    \A i \in DOMAIN rows : rows[i].game = g /\ Newest(rows, i) => rows[i].latest

Chained(rows) ==
    /\ RetiredLinked(rows)
    /\ \A g \in Game : Ordered(rows, g) => LinkedForward(rows, g) /\ NewestLatest(rows, g)

MInv == version \in Nat /\ RowsApart(version, preds) /\ Chained(preds)

\* NextOf is a later row of the game, and 0 only for its newest.
LEMMA NextRow ==
  ASSUME NEW rows, Created(rows), NEW i \in DOMAIN rows, Ordered(rows, rows[i].game)
  PROVE  /\ NextOf(rows, i) = 0 <=> Newest(rows, i)
         /\ NextOf(rows, i) # 0 => /\ NextOf(rows, i) \in DOMAIN rows
                                   /\ NextOf(rows, i) > i
                                   /\ rows[NextOf(rows, i)].game = rows[i].game
<1>1. \A j \in DOMAIN rows : j \in Nat /\ rows[j].created \in Int
  <2>1. \A j \in DOMAIN rows : j \in Nat /\ rows[j] \in Prediction
    BY DEF Created
  <2> QED BY <2>1 DEF Prediction
<1>2. \A j \in DOMAIN rows : j \in Later(rows, i) <=> rows[j].game = rows[i].game /\ i < j
  BY <1>1 DEF Later, Before, Ordered
<1>3. NextOf(rows, i) = 0 => Newest(rows, i)
  BY <1>1, <1>2, NextLast DEF Newest
<1>4. NextOf(rows, i) # 0 => /\ NextOf(rows, i) \in DOMAIN rows
                            /\ NextOf(rows, i) > i
                            /\ rows[NextOf(rows, i)].game = rows[i].game
  <2>1. Later(rows, i) \subseteq DOMAIN rows
    BY DEF Later
  <2> QED BY <1>1, <1>2, <2>1, NextLast
<1>5. NextOf(rows, i) # 0 => ~ Newest(rows, i)
  BY <1>1, <1>4 DEF Newest
<1> QED BY <1>3, <1>4, <1>5

\* The repair links every row it retires, and keeps the links and the newest
\* row of a game that is in order.
LEMMA Repaired ==
  ASSUME NEW rows, Created(rows), Chained(rows)
  PROVE  Chained(RepairPredictions(rows))
<1> DEFINE new == RepairPredictions(rows)
<1>1. /\ DOMAIN new = DOMAIN rows /\ \A i \in DOMAIN rows : i \in Nat /\ i # 0
      /\ \A i \in DOMAIN rows : rows[i] \in Prediction
  BY DEF Created, RepairPredictions
<1>2. \A i \in DOMAIN rows :
        LET next == NextOf(rows, i) IN
        IF rows[i].latest /\ next # 0
        THEN new[i] = [rows[i] EXCEPT !.latest = FALSE, !.by = IF @ = 0 THEN next ELSE @]
        ELSE new[i] = rows[i]
  BY DEF RepairPredictions
<1>3. ASSUME NEW i \in DOMAIN rows
      PROVE  /\ new[i].game = rows[i].game /\ new[i].created = rows[i].created
             /\ new[i].latest <=> rows[i].latest /\ NextOf(rows, i) = 0
             /\ new[i].by = IF rows[i].latest /\ NextOf(rows, i) # 0 /\ rows[i].by = 0
                            THEN NextOf(rows, i) ELSE rows[i].by
  BY <1>1, <1>2 DEF Prediction
<1> HIDE DEF new
<1>4. RetiredLinked(new)
  BY <1>1, <1>3 DEF Chained, RetiredLinked
<1>5. ASSUME NEW g \in Game, Ordered(new, g)
      PROVE  LinkedForward(new, g) /\ NewestLatest(new, g)
  <2>1. Ordered(rows, g)
    BY <1>1, <1>3, <1>5 DEF Ordered
  <2>2. LinkedForward(rows, g) /\ NewestLatest(rows, g)
    BY <2>1 DEF Chained
  <2>3. \A i \in DOMAIN rows : rows[i].game = g =>
          /\ NextOf(rows, i) = 0 <=> Newest(rows, i)
          /\ NextOf(rows, i) # 0 => /\ NextOf(rows, i) \in DOMAIN rows
                                    /\ NextOf(rows, i) > i
                                    /\ rows[NextOf(rows, i)].game = g
    BY <2>1, NextRow
  <2>4. \A i \in DOMAIN rows : Newest(new, i) <=> Newest(rows, i)
    BY <1>1, <1>3 DEF Newest
  <2>5. LinkedForward(new, g)
    BY <1>1, <1>3, <2>2, <2>3 DEF LinkedForward
  <2>6. NewestLatest(new, g)
    <3> SUFFICES ASSUME NEW i \in DOMAIN rows, rows[i].game = g, Newest(rows, i)
                 PROVE  new[i].latest
      BY <1>1, <1>3, <2>4 DEF NewestLatest
    <3>1. NextOf(rows, i) = 0
      BY <2>3
    <3>2. rows[i].latest
      BY <2>2 DEF NewestLatest
    <3> QED BY <1>3, <3>1, <3>2
  <2> QED BY <2>5, <2>6
<1> QED BY <1>4, <1>5 DEF Chained, new

\* A snapshot of a game: rows of it may be retired and point at the new one.
LEMMA RowIssued ==
  ASSUME NEW g \in Game, NEW m \in Model, NEW overlapped \in BOOLEAN,
         MInv, Issue(g, m, overlapped)
  PROVE  Chained(preds')
<1> DEFINE id == Len(preds) + 1
           retired(i) == /\ preds[i].latest /\ preds[i].game = g
                         /\ version >= LatestRevision \/ preds[i].model = m
           old == [i \in DOMAIN preds |->
                      IF retired(i)
                      THEN [preds[i] EXCEPT !.latest = FALSE, !.by = id]
                      ELSE preds[i]]
           row == [game |-> g, model |-> m, latest |-> TRUE, by |-> 0,
                   created |-> 2 * id - IF overlapped THEN 3 ELSE 0]
<1>0. /\ preds \in Seq(Prediction) /\ Chained(preds)
      /\ DOMAIN preds = 1..Len(preds) /\ Len(preds) \in Nat
      /\ \A i \in DOMAIN preds : preds[i] \in Prediction
  BY DEF MInv, RowsApart, Created
<1>1. preds' = Append(old, row)
  BY Zenon DEF Issue
<1>2. ASSUME NEW i \in DOMAIN preds
      PROVE  /\ old[i].game = preds[i].game /\ old[i].created = preds[i].created
             /\ old[i].latest <=> preds[i].latest /\ ~ retired(i)
             /\ old[i].by = IF retired(i) THEN id ELSE preds[i].by
  <2>1. CASE retired(i)
    BY <1>0, <2>1 DEF Prediction
  <2>2. CASE ~ retired(i)
    BY <1>0, <2>2 DEF Prediction
  <2> QED BY <2>1, <2>2
<1>3. row.game = g /\ row.latest = TRUE /\ row.by = 0
  OBVIOUS
<1>4. Len(old) = Len(preds) /\ DOMAIN old = DOMAIN preds /\ old = [i \in 1..Len(preds) |-> old[i]]
  BY <1>0
<1> HIDE DEF old, row
<1>5. /\ DOMAIN preds' = 1..id /\ preds'[id] = row
      /\ \A i \in DOMAIN preds : preds'[i] = old[i]
      /\ \A i \in DOMAIN preds' : i \in DOMAIN preds \/ i = id
  BY <1>0, <1>1, <1>4
<1>6. \A i \in DOMAIN preds : i \in Nat /\ i < id /\ i \in DOMAIN preds'
  BY <1>0, <1>5
<1>7. /\ id \in DOMAIN preds' /\ id # 0
      /\ preds'[id].game = g /\ preds'[id].latest = TRUE /\ preds'[id].by = 0
  BY <1>0, <1>3, <1>5
<1>8. ASSUME NEW i \in DOMAIN preds
      PROVE  /\ preds'[i].game = preds[i].game /\ preds'[i].created = preds[i].created
             /\ preds'[i].latest <=> preds[i].latest /\ ~ retired(i)
             /\ preds'[i].by = IF retired(i) THEN id ELSE preds[i].by
  BY <1>2, <1>5
<1>9. RetiredLinked(preds')
  <2>1. ASSUME NEW i \in DOMAIN preds PROVE preds'[i].latest \/ preds'[i].by # 0
    <3>1. CASE retired(i)
      BY <1>7, <1>8, <3>1
    <3>2. CASE ~ retired(i)
      BY <1>0, <1>8, <3>2 DEF Chained, RetiredLinked
    <3> QED BY <3>1, <3>2
  <2> QED BY <1>5, <1>7, <2>1 DEF RetiredLinked
<1>10. ASSUME NEW h \in Game, Ordered(preds', h)
       PROVE  LinkedForward(preds', h) /\ NewestLatest(preds', h)
  <2>1. Ordered(preds, h)
    BY <1>6, <1>8, <1>10 DEF Ordered
  <2>2. LinkedForward(preds, h) /\ NewestLatest(preds, h)
    BY <1>0, <2>1 DEF Chained
  <2>3. LinkedForward(preds', h)
    BY <1>5, <1>6, <1>7, <1>8, <2>2 DEF LinkedForward
  <2>4. \A i \in DOMAIN preds : Newest(preds', i) => Newest(preds, i) /\ preds[i].game # g
    BY <1>6, <1>7, <1>8, <1>0 DEF Newest
  <2>5. NewestLatest(preds', h)
    BY <1>5, <1>7, <1>8, <2>2, <2>4 DEF NewestLatest
  <2> QED BY <2>3, <2>5
<1> QED BY <1>9, <1>10 DEF Chained

\* A game with a row has a newest one.
LEMMA HasNewest ==
  ASSUME NEW rows, Created(rows), NEW i \in DOMAIN rows
  PROVE  \E n \in DOMAIN rows : rows[n].game = rows[i].game /\ Newest(rows, n)
<1> DEFINE S == {j \in DOMAIN rows : rows[j].game = rows[i].game}
           C == {Len(rows) - j : j \in S}
<1>1. DOMAIN rows = 1..Len(rows) /\ Len(rows) \in Nat
  BY DEF Created
<1>2. C \in SUBSET Nat /\ C # {}
  BY <1>1
<1>3. PICK c \in C : \A x \in C : c <= x
  <2> HIDE DEF C
  <2> QED BY <1>2, LeastId
<1>4. PICK n \in S : c = Len(rows) - n
  BY <1>3
<1>5. \A j \in S : Len(rows) - j \in C
  OBVIOUS
<1>6. ASSUME NEW j \in S PROVE j <= n
  <2>1. c <= Len(rows) - j
    BY <1>3, <1>5
  <2>2. j \in Int /\ n \in Int
    BY <1>1
  <2> HIDE DEF C, S
  <2> QED BY <1>1, <1>4, <2>1, <2>2
<1>7. n \in DOMAIN rows /\ rows[n].game = rows[i].game
  BY <1>4
<1>8. \A j \in DOMAIN rows : rows[j].game = rows[n].game => j \in S
  BY <1>7
<1> HIDE DEF S
<1> QED BY <1>6, <1>7, <1>8 DEF Newest

\* The inductive invariant: no two latest rows that the keys keep apart, a link
\* on every retired row, and in a game whose rows were created in order a chain
\* that leads forward to the newest.
THEOREM MigrationsInvariant == SchemaSpec => []MInv
<1>1. SchemaInit => MInv
  BY MigrationsAssumption
     DEF SchemaInit, MInv, RowsApart, Created, LatestApart, Chained, RetiredLinked,
         LinkedForward, NewestLatest
<1>2. MInv /\ [SchemaNext]_mvars => MInv'
  <2> SUFFICES ASSUME MInv, [SchemaNext]_mvars PROVE MInv'
    OBVIOUS
  <2>1. ASSUME NEW to \in 0..HeadRevision, Migrate(to) PROVE MInv'
    <3>1. /\ version' \in Nat /\ RowsApart(version', preds')
          /\ preds' \in {<<>>, RepairPredictions(preds), preds}
      BY <2>1, RowsMigrated DEF MInv
    <3>2. Chained(<<>>)
      BY DEF Chained, RetiredLinked, LinkedForward, NewestLatest
    <3>3. Chained(RepairPredictions(preds)) /\ Chained(preds)
      BY Repaired DEF MInv, RowsApart
    <3> QED BY <3>1, <3>2, <3>3 DEF MInv
  <2>2. ASSUME NEW g \in Game, NEW m \in Model, NEW overlapped \in BOOLEAN,
               Issue(g, m, overlapped)
        PROVE  MInv'
    <3>1. version' = version
      BY <2>2 DEF Issue
    <3>2. RowsApart(version, preds') /\ Chained(preds')
      BY <2>2, IssuedApart, RowIssued DEF MInv
    <3> QED BY <3>1, <3>2 DEF MInv
  <2>3. CASE Seed
    BY <2>3 DEF Seed, MInv
  <2>4. ASSUME NEW s \in Source, Record(s) PROVE MInv'
    BY <2>4 DEF Record, MInv
  <2>5. CASE UNCHANGED mvars
    BY <2>5 DEF mvars, MInv
  <2> QED BY <2>1, <2>2, <2>3, <2>4, <2>5 DEF SchemaNext
<1> QED BY <1>1, <1>2, PTL DEF SchemaSpec

\* Past the repair no game has two latest snapshots, whether or not the jobs
\* overlapped; and one whose snapshots were created in the order of their ids
\* has one, the last inserted, to which the links lead forward: whatever rows
\* the code of the versions before wrote, and however often the chain went
\* down and up (revision 7b3e9f1c2d40, the keys of predictions).
THEOREM OneLatestCorrect == SchemaSpec => []OneLatest
<1>1. MInv => OneLatest
  <2> SUFFICES ASSUME MInv, version >= LatestRevision PROVE OneLatest
    BY DEF OneLatest
  <2>1. /\ Created(preds) /\ LatestApart(version, preds) /\ Chained(preds)
        /\ \A i \in DOMAIN preds : preds[i] \in Prediction
    BY DEF MInv, RowsApart, Created
  <2>2. \A i, j \in DOMAIN preds :
          preds[i].latest /\ preds[j].latest /\ preds[i].game = preds[j].game => i = j
    BY <2>1 DEF LatestApart
  <2>3. ASSUME NEW i \in DOMAIN preds, InOrder(preds[i].game)
        PROVE  /\ preds[i].latest <=> Newest(preds, i)
               /\ ~ preds[i].latest => /\ preds[i].by > i
                                       /\ preds[preds[i].by].game = preds[i].game
    <3>1. preds[i].game \in Game /\ Ordered(preds, preds[i].game)
      BY <2>1, <2>3 DEF InOrder, Ordered, Prediction
    <3>2. LinkedForward(preds, preds[i].game) /\ NewestLatest(preds, preds[i].game)
      BY <2>1, <3>1 DEF Chained
    <3>3. PICK n \in DOMAIN preds : preds[n].game = preds[i].game /\ Newest(preds, n)
      BY <2>1, HasNewest
    <3>4. preds[n].latest
      BY <3>2, <3>3 DEF NewestLatest
    <3>5. preds[i].latest => i = n
      BY <2>2, <3>3, <3>4
    <3>6. preds[i].latest <=> Newest(preds, i)
      BY <3>2, <3>3, <3>5 DEF NewestLatest
    <3> QED BY <2>1, <3>2, <3>6 DEF Chained, RetiredLinked, LinkedForward
  <2> QED BY <2>2, <2>3 DEF OneLatest, Newest
<1> QED BY <1>1, MigrationsInvariant, PTL

-----------------------------------------------------------------------------
(* The commands.  No key refuses a migration the rows it meets: the repairs *)
(* leave one latest row of a game, and one row of a category.               *)

\* The rows of a status table were written one after another.
StatusRow == [source : Source \cup {"placeholder"}, updated : 1..(MaxRecords + 1)]

StatusApart(v, rows) ==
    /\ rows \subseteq StatusRow
    /\ \A r, q \in rows : r.updated = q.updated \/ v >= CategoryRevision => r = q

SInv ==
    /\ version \in 0..HeadRevision
    /\ schema = SchemaAt(version)
    /\ RowsApart(version, preds)
    /\ StatusApart(version, status)
    /\ ~ refused

\* The next time of an update is later than those of the table.
LEMMA NowIsLater ==
  ASSUME SInv
  PROVE  Now \in 1..(MaxRecords + 2) /\ \A r \in status : r.updated < Now
<1>0. MaxRecords \in Nat /\ \A r \in status : r.updated \in 1..(MaxRecords + 1)
  BY MigrationsAssumption DEF SInv, StatusApart, StatusRow
<1>1. CASE status = {}
  BY <1>0, <1>1 DEF Now
<1>2. CASE status # {}
  <2> DEFINE left == {MaxRecords + 1 - u : u \in Updates}
  <2>1. Updates \subseteq 1..(MaxRecords + 1) /\ Updates # {}
    BY <1>0, <1>2 DEF Updates
  <2>2. PICK l \in left : \A x \in left : l <= x
    <3>1. \A u \in Updates : MaxRecords + 1 - u \in Nat
      BY <1>0, <2>1
    <3>2. left \in SUBSET Nat /\ left # {}
      BY <2>1, <3>1
    <3> HIDE DEF left
    <3> QED BY <3>2, LeastId
  <2>3. PICK u \in Updates : l = MaxRecords + 1 - u
    BY <2>2
  <2>4. ASSUME NEW w \in Updates PROVE w <= u
    <3>1. MaxRecords + 1 - w \in left
      OBVIOUS
    <3>2. l <= MaxRecords + 1 - w
      BY <2>2, <3>1
    <3>3. u \in Int /\ w \in Int
      BY <2>1
    <3> HIDE DEF left
    <3> QED BY <1>0, <2>3, <3>2, <3>3
  <2> DEFINE top == CHOOSE x \in Updates : \A w \in Updates : w <= x
  <2>5. top \in Updates /\ \A w \in Updates : w <= top
    BY <2>3, <2>4
  <2>6. Now = top + 1
    BY <1>2 DEF Now
  <2> HIDE DEF top
  <2>7. \A r \in status : r.updated \in Updates
    BY DEF Updates
  <2> QED BY <1>0, <2>1, <2>5, <2>6, <2>7
<1> QED BY <1>1, <1>2

\* A report replaces a row or comes later than all, and past the revision of
\* the category it replaces the only one.
LEMMA RecordedApart ==
  ASSUME SInv, Seed \/ \E s \in Source : Record(s)
  PROVE  StatusApart(version, status')
<1>0. /\ StatusApart(version, status) /\ MaxRecords \in Nat
      /\ Now \in 1..(MaxRecords + 2) /\ \A r \in status : r.updated < Now
      /\ \A r \in status : r.updated \in 1..(MaxRecords + 1)
  BY NowIsLater, MigrationsAssumption DEF SInv, StatusApart, StatusRow
<1>1. CASE Seed
  <2>1. Now = 1 /\ status' = {[source |-> "placeholder", updated |-> 1]}
    BY <1>1 DEF Seed, Now
  <2> QED BY <1>0, <2>1 DEF StatusApart, StatusRow
<1>2. ASSUME NEW s \in Source, Record(s) PROVE StatusApart(version, status')
  <2> DEFINE named == {r \in status : r.source = s}
             placeholder == {r \in status : r.source = "placeholder"}
             replaced == IF named # {} THEN named
                         ELSE IF version >= CategoryRevision THEN placeholder ELSE {}
             row == [source |-> s, updated |-> Now]
  <2>1. /\ status' = (status \ replaced) \cup {row}
        /\ replaced = {} => version < CategoryRevision \/ status = {}
        /\ Now <= MaxRecords
    BY <1>2 DEF Record
  <2>2. row \in StatusRow /\ row.updated = Now
    BY <1>0, <2>1 DEF StatusRow
  <2>3. replaced \subseteq status
    OBVIOUS
  <2> HIDE DEF replaced, row
  <2>4. \A r, q \in status' : r.updated = q.updated => r = q
    BY <1>0, <2>1, <2>2 DEF StatusApart
  <2>5. ASSUME version >= CategoryRevision, NEW r \in status', NEW q \in status' PROVE r = q
    <3>1. \A x, y \in status : x = y
      BY <1>0, <2>5 DEF StatusApart
    <3>2. status \ replaced = {}
      <4>1. replaced # {} \/ status = {}
        <5>1. version \in Int /\ CategoryRevision \in Int
          BY DEF SInv, CategoryRevision
        <5> QED BY <2>1, <2>5, <5>1
      <4> QED BY <2>3, <3>1, <4>1
    <3> QED BY <2>1, <2>5, <3>2
  <2> QED BY <1>0, <2>1, <2>2, <2>4, <2>5 DEF StatusApart
<1> QED BY <1>1, <1>2

\* Rows that lie apart satisfy the keys of a version.
LEMMA KeysSatisfied ==
  ASSUME RevisionsFit, NEW v \in 0..HeadRevision, NEW ps, NEW st,
         LatestApart(v, ps), StatusApart(v, st)
  PROVE  Satisfies(SchemaAt(v), ps, st)
<1>1. /\ Holds(SchemaAt(v), "predictions", LatestPerGame) => v >= LatestRevision
      /\ Holds(SchemaAt(v), "data_source_status", CategoryKey) => v >= CategoryRevision
  BY DEF RevisionsFit
<1>2. ASSUME \A r, q \in st : r = q PROVE Cardinality(st) <= 1
  <2>1. CASE st = {}
    BY <2>1, FS_EmptySet
  <2>2. CASE st # {}
    <3>1. PICK r \in st : TRUE
      BY <2>2
    <3>2. st = {r}
      BY <1>2, <3>1
    <3>3. Cardinality({r}) = 1
      BY FS_Singleton
    <3> QED BY <3>2, <3>3
  <2> QED BY <2>1, <2>2
<1>3. v >= CategoryRevision => Cardinality(st) <= 1
  BY <1>2 DEF StatusApart
<1> QED BY <1>1, <1>3 DEF Satisfies, LatestApart

\* A command is taken, and the rows lie apart for the version it ends in.
LEMMA MigratedApart ==
  ASSUME RevisionsFit, SInv, NEW to \in 0..HeadRevision, Migrate(to)
  PROVE  SInv'
<1> DEFINE crosses(revision) == version < revision /\ revision <= to
           done == Taken(schema, Path(version, to))
           ps == IF to = 0 THEN <<>>
                 ELSE IF crosses(LatestRevision) THEN RepairPredictions(preds) ELSE preds
           st == IF to = 0 THEN {}
                 ELSE IF crosses(CategoryRevision) THEN RepairStatus(status) ELSE status
<1>0. /\ to \in Int /\ version \in Int /\ version \in 0..HeadRevision
      /\ LatestRevision \in Int /\ CategoryRevision \in Int
      /\ Created(preds) /\ Len(preds) <= MaxRows /\ LatestApart(version, preds)
      /\ StatusApart(version, status) /\ refused = FALSE
  BY DEF SInv, RowsApart, LatestRevision, CategoryRevision
<1>1. done.ok = TRUE /\ done.schema = SchemaAt(to)
  <2>1. done = [ok |-> TRUE, schema |-> SchemaAt(to)]
    BY <1>0 DEF SInv, RevisionsFit
  <2> HIDE DEF done
  <2> QED BY <2>1
<1>2. Created(ps) /\ Len(ps) <= MaxRows /\ LatestApart(to, ps)
  <2>1. CASE to = 0
    <3>1. ps = <<>>
      BY <2>1
    <3> HIDE DEF ps
    <3> QED BY <3>1, MigrationsAssumption DEF Created, LatestApart
  <2>2. CASE to # 0 /\ crosses(LatestRevision)
    <3>1. ps = RepairPredictions(preds)
      BY <2>2
    <3> HIDE DEF ps
    <3> QED BY <1>0, <3>1, RepairApart
  <2>3. CASE to # 0 /\ ~ crosses(LatestRevision)
    <3>1. ps = preds
      BY <2>3
    <3>2. to >= LatestRevision => version >= LatestRevision
      BY <1>0, <2>3
    <3> HIDE DEF ps
    <3> QED BY <1>0, <3>1, <3>2 DEF LatestApart
  <2> QED BY <2>1, <2>2, <2>3
<1>3. StatusApart(to, st)
  <2>1. CASE to = 0
    BY <2>1 DEF StatusApart
  <2>2. CASE to # 0 /\ crosses(CategoryRevision)
    <3>1. st = RepairStatus(status)
      BY <2>2
    <3>2. st \subseteq status /\ \A r, q \in st : q.updated <= r.updated
      BY <3>1 DEF RepairStatus
    <3> HIDE DEF st
    <3>3. \A r \in status : r \in StatusRow /\ r.updated \in Int
      BY <1>0 DEF StatusApart, StatusRow
    <3>4. ASSUME NEW r \in st, NEW q \in st PROVE r = q
      <4>1. r.updated = q.updated /\ r \in status /\ q \in status
        BY <3>2, <3>3
      <4> QED BY <1>0, <4>1 DEF StatusApart
    <3> QED BY <3>2, <3>3, <3>4 DEF StatusApart
  <2>3. CASE to # 0 /\ ~ crosses(CategoryRevision)
    <3>1. st = status
      BY <2>3
    <3>2. to >= CategoryRevision => version >= CategoryRevision
      BY <1>0, <2>3
    <3> HIDE DEF st
    <3> QED BY <1>0, <3>1, <3>2 DEF StatusApart
  <2> QED BY <2>1, <2>2, <2>3
<1>4. Satisfies(done.schema, ps, st)
  <2> HIDE DEF ps, st, done
  <2> QED BY <1>1, <1>2, <1>3, KeysSatisfied
<1>5. /\ version' = to /\ schema' = done.schema /\ preds' = ps /\ status' = st
      /\ refused' = refused
  <2>1. IF done.ok /\ Satisfies(done.schema, ps, st)
        THEN /\ version' = to /\ schema' = done.schema
             /\ preds' = ps /\ status' = st
             /\ UNCHANGED refused
        ELSE /\ refused' = TRUE
             /\ UNCHANGED <<version, schema, preds, status>>
    BY DEF Migrate
  <2> HIDE DEF ps, st, done
  <2> QED BY <1>1, <1>4, <2>1
<1> HIDE DEF ps, st, done
<1> QED BY <1>0, <1>1, <1>2, <1>3, <1>5 DEF SInv, RowsApart

\* No command, from any version to any other, is refused by the database for
\* the rows it meets: any games, models and sources, any number of rows, and
\* predict jobs that overlap.
THEOREM UpgradesCorrect ==
  ASSUME RevisionsFit
  PROVE  SchemaSpec => []NeverRefused
<1>1. SchemaInit => SInv
  <2> SUFFICES ASSUME SchemaInit PROVE SInv
    OBVIOUS
  <2>1. version = 0 /\ schema = SchemaAt(0) /\ preds = <<>> /\ status = {} /\ ~ refused
    BY DEF SchemaInit, RevisionsFit
  <2>2. 0 \in 0..HeadRevision
    BY DEF HeadRevision, Up
  <2>3. Created(<<>>) /\ Len(<<>>) <= MaxRows /\ LatestApart(0, <<>>) /\ StatusApart(0, {})
    BY MigrationsAssumption DEF Created, LatestApart, StatusApart
  <2> QED BY <2>1, <2>2, <2>3 DEF SInv, RowsApart
<1>2. SInv /\ [SchemaNext]_mvars => SInv'
  <2> SUFFICES ASSUME SInv, [SchemaNext]_mvars PROVE SInv'
    OBVIOUS
  <2>1. ASSUME NEW to \in 0..HeadRevision, Migrate(to) PROVE SInv'
    BY <2>1, MigratedApart
  <2>2. ASSUME NEW g \in Game, NEW m \in Model, NEW overlapped \in BOOLEAN,
               Issue(g, m, overlapped)
        PROVE  SInv'
    <3>1. RowsApart(version, preds')
      BY <2>2, IssuedApart DEF SInv
    <3>2. UNCHANGED <<version, schema, status, refused>>
      BY <2>2 DEF Issue
    <3> QED BY <3>1, <3>2 DEF SInv
  <2>3. CASE Seed \/ \E s \in Source : Record(s)
    <3>1. StatusApart(version, status')
      BY <2>3, RecordedApart
    <3>2. UNCHANGED <<version, schema, preds, refused>>
      BY <2>3 DEF Seed, Record
    <3> QED BY <3>1, <3>2 DEF SInv
  <2>4. CASE UNCHANGED mvars
    BY <2>4 DEF mvars, SInv
  <2> QED BY <2>1, <2>2, <2>3, <2>4 DEF SchemaNext
<1>3. SInv => NeverRefused
  BY DEF SInv, NeverRefused
<1> QED BY <1>1, <1>2, <1>3, PTL DEF SchemaSpec

=============================================================================
