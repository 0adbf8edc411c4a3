------------------------ MODULE ModelRegistryProofs -------------------------
(***************************************************************************)
(* One version served, numbers in sequence and configurations earned, for  *)
(* any number of trainers, any grid and any succession of feature sets.    *)
(*                                                                         *)
(* None of the three is inductive.  A row about to be committed must carry *)
(* the number after the last one, so of the trainers that hold a number    *)
(* only one may have inserted it (Exclusive, NextInLine), and the decision *)
(* it carries must still describe the row it was reached against (Decided).*)
(***************************************************************************)
EXTENDS ModelRegistry, FiniteSetTheorems, TLAPS

\* The rows are finitely many and numbered in sequence.
Counted == IsFiniteSet(DOMAIN rows) /\ VersionsInSequence

\* A number was next when it was taken, and is next while its row is
\* uncommitted; the id of such a row is its own.
NextInLine ==
    \A t \in Trainers :
        /\ job[t].pc \in {"numbered", "inserted"} =>
            job[t].version \in 1..(Cardinality(DOMAIN rows) + 1)
        /\ job[t].pc = "inserted" =>
            /\ job[t].version = Cardinality(DOMAIN rows) + 1
            /\ job[t].id \in 1..(nextId - 1)
            /\ job[t].id \notin DOMAIN rows

\* Only one trainer has an uncommitted row.
Exclusive ==
    \A t, u \in Trainers :
        job[t].pc = "inserted" /\ job[u].pc = "inserted" => t = u

\* What a decision in hand says of the version it was reached against.
Decided ==
    \A t \in Trainers :
        job[t].pc \in {"judged", "numbered", "inserted"} =>
            /\ job[t].verdict \in {"REFRESH", "PROMOTE"} =>
                job[t].activate /\ job[t].incumbent \in DOMAIN rows
            /\ job[t].verdict = "REFRESH" =>
                Config(job[t].incumbent) = <<job[t].set, job[t].C>>
            /\ job[t].verdict = "NO_INCUMBENT" => job[t].incumbent = 0

RInv == TypeOK /\ OneServed /\ Counted /\ NextInLine /\ Exclusive /\ Decided

-----------------------------------------------------------------------------

LEMMA IdleIsJobState == Idle \in JobState
BY RegistryAssumption DEF Idle, JobState, Verdicts

\* Every verdict is one of the five, the C fitted is one of the grid, and what
\* Decided asks of a decision holds when it is reached (promotion.py).
LEMMA DecideSound ==
    ASSUME TypeOK, NEW inc \in DOMAIN rows \cup {0}, NEW set \in Sets, NEW C \in Grid,
           NEW evidence \in Evidence
    PROVE  LET d == Decide(inc, set, C, evidence)
           IN  /\ d.verdict \in Verdicts /\ d.C \in Grid
               /\ d.verdict \in {"REFRESH", "PROMOTE"} => inc # 0
               /\ d.verdict = "REFRESH" => Config(inc) = <<set, d.C>>
               /\ d.verdict = "NO_INCUMBENT" => inc = 0
<1>1. CASE inc = 0
  <2>1. Decide(inc, set, C, evidence) = [verdict |-> "NO_INCUMBENT", C |-> C]
    BY <1>1 DEF Decide
  <2> QED BY <2>1, <1>1 DEF Verdicts
<1>2. CASE inc # 0
  <2>1. inc \in DOMAIN rows /\ rows[inc] \in Row
    BY <1>2 DEF TypeOK
  <2>2. rows[inc].C \in Grid /\ rows[inc].set \in Sets
    BY <2>1 DEF Row
  <2>3. CASE rows[inc].set = set /\ rows[inc].C = C
    <3>1. Decide(inc, set, C, evidence) = [verdict |-> "REFRESH", C |-> C]
      BY <1>2, <2>3 DEF Decide
    <3> QED BY <3>1, <1>2, <2>3 DEF Verdicts, Config
  <2>4. CASE ~(rows[inc].set = set /\ rows[inc].C = C)
    <3>0. inc # 0 /\ <<rows[inc].set, rows[inc].C>> # <<set, C>>
      BY <1>2, <2>4
    <3>1. Decide(inc, set, C, evidence) =
            CASE evidence = "better" -> [verdict |-> "PROMOTE", C |-> C]
              [] evidence = "worse" -> [verdict |-> "REJECT", C |-> C]
              [] evidence = "tie" /\ rows[inc].set = set ->
                    [verdict |-> "REFRESH", C |-> TieC(inc, C)]
              [] OTHER -> [verdict |-> "HOLD", C |-> C]
      BY <3>0, <2>4 DEF Decide
    <3>2. CASE evidence = "better"
      <4>1. Decide(inc, set, C, evidence) = [verdict |-> "PROMOTE", C |-> C]
        BY <3>1, <3>2
      <4> QED BY <4>1, <1>2 DEF Verdicts
    <3>3. CASE evidence = "worse"
      <4>1. Decide(inc, set, C, evidence) = [verdict |-> "REJECT", C |-> C]
        BY <3>1, <3>3
      <4> QED BY <4>1, <1>2 DEF Verdicts
    <3>4. CASE evidence = "tie" /\ rows[inc].set = set
      <4>1. Decide(inc, set, C, evidence) = [verdict |-> "REFRESH", C |-> rows[inc].C]
        BY <3>1, <3>4 DEF TieC
      <4> QED BY <4>1, <1>2, <2>2, <3>4 DEF Verdicts, Config
    <3>5. CASE evidence \notin {"better", "worse"} /\ ~(evidence = "tie" /\ rows[inc].set = set)
      <4>1. Decide(inc, set, C, evidence) = [verdict |-> "HOLD", C |-> C]
        BY <3>1, <3>5
      <4> QED BY <4>1, <1>2 DEF Verdicts
    <3> QED BY <3>2, <3>3, <3>4, <3>5
  <2> QED BY <2>3, <2>4
<1> QED BY <1>1, <1>2

\* The version read as the incumbent is one that is served, or none is.
LEMMA ActiveIsServed ==
    /\ Active = 0 \/ Active \in ActiveRows
    /\ ActiveRows \subseteq DOMAIN rows
BY DEF Active, ActiveRows

\* The row a trainer commits takes the number after the last, and a new id.
LEMMA CommitCounts ==
    ASSUME RInv, NEW t \in Trainers, Commit(t)
    PROVE  /\ DOMAIN rows' = DOMAIN rows \cup {job[t].id}
           /\ IsFiniteSet(DOMAIN rows')
           /\ Cardinality(DOMAIN rows) \in Nat
           /\ Cardinality(DOMAIN rows') = Cardinality(DOMAIN rows) + 1
           /\ \A i \in DOMAIN rows : rows'[i].version = rows[i].version
           /\ \A i \in DOMAIN rows : Config(i)' = Config(i)
           /\ rows'[job[t].id].version = Cardinality(DOMAIN rows) + 1
<1> USE DEF RInv
<1>1. job[t].id \notin DOMAIN rows /\ job[t].version = Cardinality(DOMAIN rows) + 1
  BY DEF NextInLine, Commit
<1>2. DOMAIN rows' = DOMAIN rows \cup {job[t].id}
  BY DEF Commit
<1>3. IsFiniteSet(DOMAIN rows)
  BY DEF Counted
<1>4. /\ IsFiniteSet(DOMAIN rows \cup {job[t].id})
      /\ Cardinality(DOMAIN rows \cup {job[t].id}) = Cardinality(DOMAIN rows) + 1
  BY <1>1, <1>3, FS_AddElement
<1>5. Cardinality(DOMAIN rows) \in Nat
  BY <1>3, FS_CardinalityType
<1>6. \A i \in DOMAIN rows :
        rows'[i].version = rows[i].version /\ rows'[i].set = rows[i].set
          /\ rows'[i].C = rows[i].C
  <2> TAKE i \in DOMAIN rows
  <2>1. rows[i] \in Row /\ i # job[t].id
    BY <1>1 DEF TypeOK
  <2>2. rows'[i] = rows[i] \/ rows'[i] = [rows[i] EXCEPT !.active = FALSE]
    BY <2>1 DEF Commit
  <2> QED BY <2>1, <2>2 DEF Row
<1>7. rows'[job[t].id].version = job[t].version
  BY <1>1 DEF Commit
<1> QED BY <1>1, <1>2, <1>4, <1>5, <1>6, <1>7 DEF Config

-----------------------------------------------------------------------------

LEMMA InitInvariant == Init => RInv
<1> SUFFICES ASSUME Init PROVE RInv OBVIOUS
<1>1. DOMAIN rows = {} BY DEF Init
<1>2. IsFiniteSet(DOMAIN rows) /\ Cardinality(DOMAIN rows) = 0
  BY <1>1, FS_EmptySet
<1>3. TypeOK
  BY <1>1, IdleIsJobState, RegistryAssumption DEF TypeOK, Init
<1>4. OneServed
  BY <1>1 DEF OneServed, ActiveRows
<1>5. Counted
  BY <1>1, <1>2 DEF Counted, VersionsInSequence
<1>6. NextInLine /\ Exclusive /\ Decided
  BY DEF Init, Idle, NextInLine, Exclusive, Decided
<1> QED BY <1>3, <1>4, <1>5, <1>6 DEF RInv

\* A step that touches no row and ends or begins no insert: the job of t
\* moves, and what NextInLine and Decided say of it holds.
LEMMA JobMoves ==
    ASSUME RInv, NEW t \in Trainers, NEW J \in JobState,
           job' = [job EXCEPT ![t] = J], UNCHANGED <<rows, nextId>>,
           J.pc # "inserted",
           J.pc = "numbered" => J.version \in 1..(Cardinality(DOMAIN rows) + 1),
           J.pc \in {"judged", "numbered"} =>
               /\ J.verdict \in {"REFRESH", "PROMOTE"} =>
                   J.activate /\ J.incumbent \in DOMAIN rows
               /\ J.verdict = "REFRESH" => Config(J.incumbent) = <<J.set, J.C>>
               /\ J.verdict = "NO_INCUMBENT" => J.incumbent = 0
    PROVE  /\ job' \in [Trainers -> JobState]
           /\ OneServed' /\ Counted' /\ NextInLine' /\ Exclusive' /\ Decided'
<1>1. job \in [Trainers -> JobState]
  BY DEF RInv, TypeOK
<1>2. job' \in [Trainers -> JobState]
  BY <1>1
<1>3. job'[t] = J /\ \A u \in Trainers \ {t} : job'[u] = job[u]
  BY <1>1
<1>4. OneServed' /\ Counted'
  BY DEF RInv, OneServed, Counted, VersionsInSequence, ActiveRows
<1>5. NextInLine'
  <2> SUFFICES ASSUME NEW u \in Trainers
               PROVE  /\ job'[u].pc \in {"numbered", "inserted"} =>
                          job'[u].version \in 1..(Cardinality(DOMAIN rows) + 1)
                      /\ job'[u].pc = "inserted" =>
                          /\ job'[u].version = Cardinality(DOMAIN rows) + 1
                          /\ job'[u].id \in 1..(nextId - 1)
                          /\ job'[u].id \notin DOMAIN rows
    BY DEF NextInLine
  <2>1. CASE u = t
    BY <2>1, <1>3
  <2>2. CASE u # t
    BY <2>2, <1>3 DEF RInv, NextInLine
  <2> QED BY <2>1, <2>2
<1>6. Exclusive'
  BY <1>3 DEF RInv, Exclusive
<1>7. Decided'
  <2> SUFFICES ASSUME NEW u \in Trainers,
                      job'[u].pc \in {"judged", "numbered", "inserted"}
               PROVE  /\ job'[u].verdict \in {"REFRESH", "PROMOTE"} =>
                          job'[u].activate /\ job'[u].incumbent \in DOMAIN rows
                      /\ job'[u].verdict = "REFRESH" =>
                          Config(job'[u].incumbent) = <<job'[u].set, job'[u].C>>
                      /\ job'[u].verdict = "NO_INCUMBENT" => job'[u].incumbent = 0
    BY DEF Decided, Config
  <2>1. CASE u = t
    BY <2>1, <1>3
  <2>2. CASE u # t
    BY <2>2, <1>3 DEF RInv, Decided
  <2> QED BY <2>1, <2>2
<1> QED BY <1>2, <1>4, <1>5, <1>6, <1>7

LEMMA WorldStep ==
    ASSUME RInv, NewGames \/ \E s \in Sets : Release(s)
    PROVE  RInv'
<1>1. UNCHANGED <<rows, nextId, begun, job>>
  BY DEF NewGames, Release
<1>2. TypeOK'
  BY <1>1, RegistryAssumption DEF RInv, TypeOK, NewGames, Release
<1>3. OneServed' /\ Counted' /\ NextInLine' /\ Exclusive' /\ Decided'
  BY <1>1 DEF RInv, OneServed, ActiveRows, Counted, VersionsInSequence,
              NextInLine, Exclusive, Decided, Config
<1> QED BY <1>2, <1>3 DEF RInv

LEMMA BeginStep ==
    ASSUME RInv, NEW t \in Trainers, NEW activate \in BOOLEAN, Begin(t, activate)
    PROVE  RInv'
<1> DEFINE J == [Idle EXCEPT !.pc = "loaded", !.activate = activate,
                             !.games = games, !.set = release]
<1>1. job' = [job EXCEPT ![t] = J] /\ UNCHANGED <<games, release, rows, nextId>>
  BY DEF Begin
<1>2. J \in JobState /\ J.pc = "loaded"
  <2>1. games \in Nat /\ release \in Sets
    BY RegistryAssumption DEF RInv, TypeOK
  <2> QED BY <2>1, IdleIsJobState DEF JobState
<1> HIDE DEF J
<1>3. /\ job' \in [Trainers -> JobState]
      /\ OneServed' /\ Counted' /\ NextInLine' /\ Exclusive' /\ Decided'
  BY <1>1, <1>2, JobMoves
<1>4. begun' \in 0..MaxRuns
  BY RegistryAssumption DEF RInv, TypeOK, Begin
<1> QED BY <1>1, <1>3, <1>4 DEF RInv, TypeOK

LEMMA SearchStep ==
    ASSUME RInv, NEW t \in Trainers, Search(t)
    PROVE  RInv'
<1>1. PICK C \in Grid : job' = [job EXCEPT ![t].pc = "searched", ![t].C = C]
  BY DEF Search
<1> DEFINE J == [job[t] EXCEPT !.pc = "searched", !.C = C]
<1>2. job[t] \in JobState /\ job \in [Trainers -> JobState]
  BY DEF RInv, TypeOK
<1>3. job' = [job EXCEPT ![t] = J]
  BY <1>1, <1>2 DEF JobState
<1>4. J \in JobState /\ J.pc = "searched"
  BY <1>2 DEF JobState
<1>5. UNCHANGED <<games, release, rows, nextId, begun>>
  BY DEF Search
<1> HIDE DEF J
<1>6. /\ job' \in [Trainers -> JobState]
      /\ OneServed' /\ Counted' /\ NextInLine' /\ Exclusive' /\ Decided'
  BY <1>3, <1>4, <1>5, JobMoves
<1> QED BY <1>5, <1>6 DEF RInv, TypeOK

LEMMA JudgeStep ==
    ASSUME RInv, NEW t \in Trainers, Judge(t)
    PROVE  RInv'
<1> DEFINE inc == IF job[t].activate THEN Active ELSE 0
<1>1. PICK evidence \in Evidence :
        job' = [job EXCEPT ![t].pc = "judged", ![t].incumbent = inc,
                   ![t].verdict = Decide(inc, job[t].set, job[t].C, evidence).verdict,
                   ![t].C = Decide(inc, job[t].set, job[t].C, evidence).C]
  BY DEF Judge
<1> DEFINE d == Decide(inc, job[t].set, job[t].C, evidence)
           J == [job[t] EXCEPT !.pc = "judged", !.incumbent = inc,
                               !.verdict = d.verdict, !.C = d.C]
<1>2. job[t] \in JobState /\ job \in [Trainers -> JobState]
  BY DEF RInv, TypeOK
<1>3. inc \in DOMAIN rows \cup {0} /\ (inc # 0 => job[t].activate)
  BY ActiveIsServed
<1>4. inc \in Nat
  BY <1>3 DEF RInv, TypeOK
<1>5. job[t].set \in Sets /\ job[t].C \in Grid /\ TypeOK
  BY <1>2 DEF JobState, RInv
<1> HIDE DEF inc
<1>6. /\ d.verdict \in Verdicts /\ d.C \in Grid
      /\ d.verdict \in {"REFRESH", "PROMOTE"} => inc # 0
      /\ d.verdict = "REFRESH" => Config(inc) = <<job[t].set, d.C>>
      /\ d.verdict = "NO_INCUMBENT" => inc = 0
  BY <1>3, <1>5, DecideSound
<1>7. job' = [job EXCEPT ![t] = [job[t] EXCEPT !.pc = "judged", !.incumbent = inc,
                               !.verdict = d.verdict, !.C = d.C]]
  BY <1>1, <1>2 DEF JobState
<1> HIDE DEF d
<1>8. /\ J \in JobState /\ J.pc = "judged" /\ J.verdict = d.verdict
      /\ J.incumbent = inc /\ J.C = d.C /\ J.set = job[t].set
      /\ J.activate = job[t].activate
  BY <1>2, <1>4, <1>6 DEF JobState
<1>9. UNCHANGED <<games, release, rows, nextId, begun>>
  BY DEF Judge
<1>10. job' = [job EXCEPT ![t] = J]
  BY <1>7
<1> HIDE DEF J
<1>11. /\ J.verdict \in {"REFRESH", "PROMOTE"} =>
           J.activate /\ J.incumbent \in DOMAIN rows
       /\ J.verdict = "REFRESH" => Config(J.incumbent) = <<J.set, J.C>>
       /\ J.verdict = "NO_INCUMBENT" => J.incumbent = 0
  BY <1>3, <1>6, <1>8
<1>12. /\ job' \in [Trainers -> JobState]
       /\ OneServed' /\ Counted' /\ NextInLine' /\ Exclusive' /\ Decided'
  BY <1>8, <1>9, <1>10, <1>11, JobMoves
<1> QED BY <1>9, <1>12 DEF RInv, TypeOK

LEMMA NumberStep ==
    ASSUME RInv, NEW t \in Trainers, Number(t)
    PROVE  RInv'
<1> DEFINE J == [job[t] EXCEPT !.pc = "numbered", !.version = NextVersion]
<1>1. job[t] \in JobState /\ job \in [Trainers -> JobState] /\ job[t].pc = "judged"
  BY DEF RInv, TypeOK, Number
<1>2. Cardinality(DOMAIN rows) \in Nat
  BY FS_CardinalityType DEF RInv, Counted
<1>3. job' = [job EXCEPT ![t] = J]
  BY <1>1 DEF Number, JobState
<1>next. NextVersion = Cardinality(DOMAIN rows) + 1 /\ NextVersion \in Nat
  BY <1>2 DEF NextVersion
<1>4. /\ J \in JobState /\ J.pc = "numbered"
      /\ J.version = Cardinality(DOMAIN rows) + 1
      /\ J.verdict = job[t].verdict /\ J.incumbent = job[t].incumbent
      /\ J.set = job[t].set /\ J.C = job[t].C /\ J.activate = job[t].activate
  BY <1>1, <1>next DEF JobState
<1>5. UNCHANGED <<games, release, rows, nextId, begun>>
  BY DEF Number
<1> HIDE DEF J
<1>6. /\ J.verdict \in {"REFRESH", "PROMOTE"} =>
          J.activate /\ J.incumbent \in DOMAIN rows
      /\ J.verdict = "REFRESH" => Config(J.incumbent) = <<J.set, J.C>>
      /\ J.verdict = "NO_INCUMBENT" => J.incumbent = 0
  BY <1>1, <1>4 DEF RInv, Decided
<1>7. J.version \in 1..(Cardinality(DOMAIN rows) + 1)
  BY <1>2, <1>4
<1>8. /\ job' \in [Trainers -> JobState]
      /\ OneServed' /\ Counted' /\ NextInLine' /\ Exclusive' /\ Decided'
  BY <1>3, <1>4, <1>5, <1>6, <1>7, JobMoves
<1> QED BY <1>5, <1>8 DEF RInv, TypeOK

\* The row is inserted under the number after the last: no other trainer has
\* one inserted, since it would have to be under the same number.
LEMMA RegisterStep ==
    ASSUME RInv, NEW t \in Trainers, Register(t)
    PROVE  RInv'
<1>1. /\ job \in [Trainers -> JobState] /\ job[t].pc = "numbered"
      /\ job' = [job EXCEPT ![t].pc = "inserted", ![t].id = nextId]
      /\ nextId' = nextId + 1 /\ nextId \in Nat \ {0}
      /\ UNCHANGED <<games, release, rows, begun>>
  BY DEF RInv, TypeOK, Register
<1>2. job[t] \in JobState
  BY <1>1
<1>3. job'[t] = [job[t] EXCEPT !.pc = "inserted", !.id = nextId]
  BY <1>1, <1>2 DEF JobState
<1>4. \A u \in Trainers \ {t} : job'[u] = job[u]
  BY <1>1
<1>5. /\ job'[t] \in JobState /\ job'[t].pc = "inserted" /\ job'[t].id = nextId
      /\ job'[t].version = job[t].version /\ job'[t].verdict = job[t].verdict
      /\ job'[t].incumbent = job[t].incumbent /\ job'[t].activate = job[t].activate
      /\ job'[t].set = job[t].set /\ job'[t].C = job[t].C
  BY <1>1, <1>2, <1>3 DEF JobState
<1>6. Cardinality(DOMAIN rows) \in Nat
  BY FS_CardinalityType DEF RInv, Counted
<1>7. job[t].version = Cardinality(DOMAIN rows) + 1
  <2>1. job[t].version \in 1..(Cardinality(DOMAIN rows) + 1)
    BY <1>1 DEF RInv, NextInLine
  <2>2. job[t].version \notin {rows[i].version : i \in DOMAIN rows}
    BY DEF Register, Taken
  <2>3. job[t].version \notin 1..Cardinality(DOMAIN rows)
    BY <2>2 DEF RInv, Counted, VersionsInSequence
  <2> QED BY <1>6, <2>1, <2>3
<1>8. \A u \in Trainers \ {t} : job[u].pc # "inserted"
  <2>1. \A u \in Trainers \ {t} : job[u].pc = "inserted" => job[u].version = job[t].version
    BY <1>7 DEF RInv, NextInLine
  <2> QED BY <2>1 DEF Register, Blocked
<1>9. TypeOK'
  <2>1. job' \in [Trainers -> JobState]
    BY <1>1, <1>4, <1>5
  <2>2. DOMAIN rows \subseteq 1..(nextId' - 1)
    BY <1>1 DEF RInv, TypeOK
  <2> QED BY <1>1, <2>1, <2>2 DEF RInv, TypeOK
<1>10. OneServed' /\ Counted'
  BY <1>1 DEF RInv, OneServed, Counted, VersionsInSequence, ActiveRows
<1>11. NextInLine'
  <2> SUFFICES ASSUME NEW u \in Trainers
               PROVE  /\ job'[u].pc \in {"numbered", "inserted"} =>
                          job'[u].version \in 1..(Cardinality(DOMAIN rows) + 1)
                      /\ job'[u].pc = "inserted" =>
                          /\ job'[u].version = Cardinality(DOMAIN rows) + 1
                          /\ job'[u].id \in 1..(nextId' - 1)
                          /\ job'[u].id \notin DOMAIN rows
    BY <1>1 DEF NextInLine
  <2>1. CASE u = t
    <3>1. nextId \notin DOMAIN rows /\ nextId \in 1..(nextId' - 1)
      BY <1>1 DEF RInv, TypeOK
    <3> QED BY <2>1, <3>1, <1>5, <1>6, <1>7
  <2>2. CASE u # t
    BY <2>2, <1>4, <1>8 DEF RInv, NextInLine
  <2> QED BY <2>1, <2>2
<1>12. Exclusive'
  BY <1>4, <1>8 DEF Exclusive
<1>13. Decided'
  <2> SUFFICES ASSUME NEW u \in Trainers,
                      job'[u].pc \in {"judged", "numbered", "inserted"}
               PROVE  /\ job'[u].verdict \in {"REFRESH", "PROMOTE"} =>
                          job'[u].activate /\ job'[u].incumbent \in DOMAIN rows
                      /\ job'[u].verdict = "REFRESH" =>
                          Config(job'[u].incumbent) = <<job'[u].set, job'[u].C>>
                      /\ job'[u].verdict = "NO_INCUMBENT" => job'[u].incumbent = 0
    BY <1>1 DEF Decided, Config
  <2>1. CASE u = t
    BY <2>1, <1>1, <1>5 DEF RInv, Decided
  <2>2. CASE u # t
    BY <2>2, <1>4 DEF RInv, Decided
  <2> QED BY <2>1, <2>2
<1> QED BY <1>9, <1>10, <1>11, <1>12, <1>13 DEF RInv

\* A trainer that ends without a row leaves everything to the others.
LEMMA EndStep ==
    ASSUME RInv, NEW t \in Trainers, RegisterFails(t) \/ Fail(t)
    PROVE  RInv'
<1>1. /\ job \in [Trainers -> JobState]
      /\ job' = [job EXCEPT ![t] = Idle]
      /\ nextId' \in {nextId, nextId + 1} /\ nextId \in Nat \ {0}
      /\ UNCHANGED <<games, release, rows, begun>>
  BY DEF RInv, TypeOK, RegisterFails, Fail
<1>2. job' \in [Trainers -> JobState] /\ job'[t] = Idle
  BY <1>1, IdleIsJobState
<1>3. \A u \in Trainers \ {t} : job'[u] = job[u]
  BY <1>1
<1>4. Idle.pc = "idle"
  BY DEF Idle
<1>5. TypeOK'
  <2>1. DOMAIN rows \subseteq 1..(nextId' - 1)
    BY <1>1 DEF RInv, TypeOK
  <2> QED BY <1>1, <1>2, <2>1 DEF RInv, TypeOK
<1>6. OneServed' /\ Counted'
  BY <1>1 DEF RInv, OneServed, Counted, VersionsInSequence, ActiveRows
<1>7. NextInLine'
  <2> SUFFICES ASSUME NEW u \in Trainers
               PROVE  /\ job'[u].pc \in {"numbered", "inserted"} =>
                          job'[u].version \in 1..(Cardinality(DOMAIN rows) + 1)
                      /\ job'[u].pc = "inserted" =>
                          /\ job'[u].version = Cardinality(DOMAIN rows) + 1
                          /\ job'[u].id \in 1..(nextId' - 1)
                          /\ job'[u].id \notin DOMAIN rows
    BY <1>1 DEF NextInLine
  <2>1. CASE u = t
    BY <2>1, <1>2, <1>4
  <2>2. CASE u # t
    BY <2>2, <1>1, <1>3 DEF RInv, NextInLine
  <2> QED BY <2>1, <2>2
<1>8. Exclusive'
  BY <1>2, <1>3, <1>4 DEF RInv, Exclusive
<1>9. Decided'
  <2> SUFFICES ASSUME NEW u \in Trainers,
                      job'[u].pc \in {"judged", "numbered", "inserted"}
               PROVE  /\ job'[u].verdict \in {"REFRESH", "PROMOTE"} =>
                          job'[u].activate /\ job'[u].incumbent \in DOMAIN rows
                      /\ job'[u].verdict = "REFRESH" =>
                          Config(job'[u].incumbent) = <<job'[u].set, job'[u].C>>
                      /\ job'[u].verdict = "NO_INCUMBENT" => job'[u].incumbent = 0
    BY <1>1 DEF Decided, Config
  <2>1. u # t
    BY <1>2, <1>4
  <2> QED BY <2>1, <1>3 DEF RInv, Decided
<1> QED BY <1>5, <1>6, <1>7, <1>8, <1>9 DEF RInv

\* The commit: what it makes of the old rows and of the new one.
LEMMA CommitRows ==
    ASSUME RInv, NEW t \in Trainers, Commit(t)
    PROVE  /\ rows'[job[t].id] =
                 [version |-> job[t].version, C |-> job[t].C, set |-> job[t].set,
                  games |-> job[t].games, verdict |-> job[t].verdict,
                  incumbent |-> job[t].incumbent,
                  active |-> job[t].activate /\ Activates(job[t].verdict)]
           /\ \A i \in DOMAIN rows :
                 rows'[i] = IF job[t].activate /\ Activates(job[t].verdict)
                            THEN [rows[i] EXCEPT !.active = FALSE] ELSE rows[i]
           /\ job[t].id \notin DOMAIN rows
<1>1. job[t].id \notin DOMAIN rows
  BY DEF RInv, NextInLine, Commit
<1> QED BY <1>1 DEF Commit, Deposed

LEMMA CommitStep ==
    ASSUME RInv, NEW t \in Trainers, Commit(t)
    PROVE  RInv'
<1> DEFINE serve == job[t].activate /\ Activates(job[t].verdict)
           new == job[t].id
<1>1. /\ job \in [Trainers -> JobState] /\ job[t].pc = "inserted"
      /\ job' = [job EXCEPT ![t] = Idle]
      /\ UNCHANGED <<games, release, nextId, begun>>
  BY DEF RInv, TypeOK, Commit
<1>2. /\ job[t] \in JobState /\ job[t].activate \in BOOLEAN
      /\ job[t].verdict \in Verdicts
  BY <1>1 DEF JobState
<1>3. /\ job' \in [Trainers -> JobState]
      /\ job'[t] = Idle /\ Idle.pc = "idle"
      /\ \A u \in Trainers \ {t} : job'[u] = job[u] /\ job[u].pc # "inserted"
  BY <1>1, IdleIsJobState DEF Idle, RInv, Exclusive
<1>4. /\ new \in 1..(nextId - 1) /\ new \notin DOMAIN rows
      /\ job[t].version = Cardinality(DOMAIN rows) + 1
  BY <1>1 DEF RInv, NextInLine
<1>5. /\ DOMAIN rows' = DOMAIN rows \cup {new}
      /\ IsFiniteSet(DOMAIN rows')
      /\ Cardinality(DOMAIN rows) \in Nat
      /\ Cardinality(DOMAIN rows') = Cardinality(DOMAIN rows) + 1
      /\ \A i \in DOMAIN rows : rows'[i].version = rows[i].version
      /\ \A i \in DOMAIN rows : Config(i)' = Config(i)
      /\ rows'[new].version = Cardinality(DOMAIN rows) + 1
  BY CommitCounts
<1>6. serve \in BOOLEAN
  BY DEF Activates
<1>7. /\ rows'[new].active = serve /\ rows'[new].verdict = job[t].verdict
      /\ \A i \in DOMAIN rows :
            rows'[i] = IF serve THEN [rows[i] EXCEPT !.active = FALSE] ELSE rows[i]
  <2>1. rows'[new] = [version |-> job[t].version, C |-> job[t].C, set |-> job[t].set,
                      games |-> job[t].games, verdict |-> job[t].verdict,
                      incumbent |-> job[t].incumbent, active |-> serve]
    BY CommitRows
  <2>2. \A i \in DOMAIN rows :
            rows'[i] = IF serve THEN [rows[i] EXCEPT !.active = FALSE] ELSE rows[i]
    BY CommitRows, Zenon
  <2> HIDE DEF serve, new
  <2> QED BY <2>1, <2>2
<1>8. \A i \in DOMAIN rows : rows[i] \in Row
  BY DEF RInv, TypeOK
<1>9. \A i \in DOMAIN rows :
          /\ rows'[i].active = (rows[i].active /\ ~serve)
          /\ rows'[i].verdict = rows[i].verdict /\ rows'[i] \in Row
  <2> HIDE DEF serve
  <2> TAKE i \in DOMAIN rows
  <2>1. CASE serve
    <3>1. rows'[i] = [rows[i] EXCEPT !.active = FALSE]
      BY <2>1, <1>7
    <3> QED BY <2>1, <3>1, <1>8 DEF Row
  <2>2. CASE ~serve
    BY <2>2, <1>7, <1>8 DEF Row
  <2> QED BY <2>1, <2>2, <1>6
<1>10. rows'[new] \in Row
  <2>1. /\ job[t].version \in Nat \ {0} /\ job[t].C \in Grid /\ job[t].set \in Sets
        /\ job[t].games \in Nat /\ job[t].incumbent \in Nat
    BY <1>2, <1>4, <1>5 DEF JobState
  <2>2. rows'[new] = [version |-> job[t].version, C |-> job[t].C, set |-> job[t].set,
                      games |-> job[t].games, verdict |-> job[t].verdict,
                      incumbent |-> job[t].incumbent, active |-> serve]
    BY CommitRows
  <2> HIDE DEF serve
  <2> QED BY <2>1, <2>2, <1>2, <1>6 DEF Row
<1>11. rows' \in [DOMAIN rows' -> Row]
  <2>1. rows' = [i \in DOMAIN rows' |-> rows'[i]]
    BY DEF Commit
  <2> QED BY <2>1, <1>5, <1>9, <1>10
<1>12. TypeOK'
  BY <1>1, <1>3, <1>4, <1>5, <1>11 DEF RInv, TypeOK
<1> HIDE DEF serve, new
<1>13. Counted'
  <2>1. {rows'[i].version : i \in DOMAIN rows'}
          = {rows[i].version : i \in DOMAIN rows} \cup {Cardinality(DOMAIN rows) + 1}
    BY <1>5
  <2>2. {rows[i].version : i \in DOMAIN rows} = 1..Cardinality(DOMAIN rows)
    BY DEF RInv, Counted, VersionsInSequence
  <2>3. 1..Cardinality(DOMAIN rows) \cup {Cardinality(DOMAIN rows) + 1}
          = 1..(Cardinality(DOMAIN rows) + 1)
    BY <1>5
  <2> QED BY <2>1, <2>2, <2>3, <1>5 DEF Counted, VersionsInSequence
<1>14. OneServed'
  <2>1. \A i \in DOMAIN rows' :
           rows'[i].active = IF i = new THEN serve ELSE rows[i].active /\ ~serve
    BY <1>4, <1>5, <1>7, <1>9 DEF new
  <2>2. \A i, k \in DOMAIN rows' : rows'[i].active /\ rows'[k].active => i = k
    <3>1. \A i, k \in DOMAIN rows : rows[i].active /\ rows[k].active => i = k
      BY DEF RInv, OneServed, ActiveRows
    <3> QED BY <2>1, <3>1, <1>5, <1>6
  <2>3. (\E i \in DOMAIN rows' : rows'[i].verdict \in {"REFRESH", "PROMOTE"})
           => \E i \in DOMAIN rows' : rows'[i].active
    <3>1. CASE serve
      BY <3>1, <1>5, <1>7
    <3>2. CASE ~serve
      <4>1. job[t].verdict \notin {"REFRESH", "PROMOTE"}
        <5>1. job[t].verdict \in {"REFRESH", "PROMOTE"} => job[t].activate
          BY <1>1 DEF RInv, Decided
        <5> QED BY <3>2, <5>1 DEF serve, Activates
      <4>2. \A i \in DOMAIN rows : rows'[i].active = rows[i].active
        BY <3>2, <1>8, <1>9 DEF Row
      <4>3. (\E i \in DOMAIN rows : rows[i].verdict \in {"REFRESH", "PROMOTE"})
              => \E i \in DOMAIN rows : rows[i].active
        BY DEF RInv, OneServed, ActiveRows
      <4> QED BY <4>1, <4>2, <4>3, <1>5, <1>7, <1>9
    <3> QED BY <3>1, <3>2, <1>6
  <2> QED BY <2>2, <2>3 DEF OneServed, ActiveRows
<1>15. NextInLine'
  <2> SUFFICES ASSUME NEW u \in Trainers
               PROVE  /\ job'[u].pc \in {"numbered", "inserted"} =>
                          job'[u].version \in 1..(Cardinality(DOMAIN rows') + 1)
                      /\ job'[u].pc # "inserted"
    BY DEF NextInLine
  <2>1. CASE u = t
    BY <2>1, <1>3
  <2>2. CASE u # t
    <3>1. job'[u] = job[u] /\ job[u].pc # "inserted"
      BY <2>2, <1>3
    <3>2. job[u].pc = "numbered" =>
             job[u].version \in 1..(Cardinality(DOMAIN rows) + 1)
      BY DEF RInv, NextInLine
    <3> QED BY <3>1, <3>2, <1>5
  <2> QED BY <2>1, <2>2
<1>16. Exclusive'
  BY <1>3 DEF Exclusive
<1>17. Decided'
  <2> SUFFICES ASSUME NEW u \in Trainers,
                      job'[u].pc \in {"judged", "numbered", "inserted"}
               PROVE  /\ job'[u].verdict \in {"REFRESH", "PROMOTE"} =>
                          job'[u].activate /\ job'[u].incumbent \in DOMAIN rows'
                      /\ job'[u].verdict = "REFRESH" =>
                          <<rows'[job'[u].incumbent].set, rows'[job'[u].incumbent].C>>
                            = <<job'[u].set, job'[u].C>>
                      /\ job'[u].verdict = "NO_INCUMBENT" => job'[u].incumbent = 0
    BY DEF Decided, Config
  <2>1. u # t /\ job'[u] = job[u]
    BY <1>3
  <2>2. \A i \in DOMAIN rows :
           <<rows'[i].set, rows'[i].C>> = <<rows[i].set, rows[i].C>>
    BY <1>5 DEF Config
  <2>3. /\ job[u].verdict \in {"REFRESH", "PROMOTE"} =>
               job[u].activate /\ job[u].incumbent \in DOMAIN rows
        /\ job[u].verdict = "REFRESH" =>
               <<rows[job[u].incumbent].set, rows[job[u].incumbent].C>>
                 = <<job[u].set, job[u].C>>
        /\ job[u].verdict = "NO_INCUMBENT" => job[u].incumbent = 0
    BY <2>1 DEF RInv, Decided, Config
  <2> QED BY <2>1, <2>2, <2>3, <1>5
<1> QED BY <1>12, <1>13, <1>14, <1>15, <1>16, <1>17 DEF RInv

-----------------------------------------------------------------------------

LEMMA StepInvariant == RInv /\ [Next]_mvars => RInv'
<1> SUFFICES ASSUME RInv, [Next]_mvars PROVE RInv' OBVIOUS
<1>1. CASE UNCHANGED mvars
  <2>1. UNCHANGED <<games, release, rows, nextId, begun, job>>
    BY <1>1 DEF mvars
  <2> QED BY <2>1 DEF RInv, TypeOK, OneServed, ActiveRows, Counted,
              VersionsInSequence, NextInLine, Exclusive, Decided, Config
<1>2. CASE NewGames \/ \E s \in Sets : Release(s)
  BY <1>2, WorldStep
<1>3. CASE \E t \in Trainers, activate \in BOOLEAN : Begin(t, activate)
  BY <1>3, BeginStep
<1>4. CASE \E t \in Trainers : Search(t)
  BY <1>4, SearchStep
<1>5. CASE \E t \in Trainers : Judge(t)
  BY <1>5, JudgeStep
<1>6. CASE \E t \in Trainers : Number(t)
  BY <1>6, NumberStep
<1>7. CASE \E t \in Trainers : Register(t)
  BY <1>7, RegisterStep
<1>8. CASE \E t \in Trainers : RegisterFails(t) \/ Fail(t)
  BY <1>8, EndStep
<1>9. CASE \E t \in Trainers : Commit(t)
  BY <1>9, CommitStep
<1> QED BY <1>1, <1>2, <1>3, <1>4, <1>5, <1>6, <1>7, <1>8, <1>9 DEF Next

\* RInv is an inductive invariant of the registry (train.py, registry.py).
THEOREM RegistryInvariant == Spec => []RInv
BY InitInvariant, StepInvariant, PTL DEF Spec

\* However trainers overlap and wherever they fail, one version at most is
\* served, and one is once a decision put it there (activate_version).
THEOREM ServedCorrect == Spec => []OneServed
<1>1. RInv => OneServed BY DEF RInv
<1> QED BY <1>1, RegistryInvariant, PTL

\* The numbers next_version hands out leave no gap and repeat none.
THEOREM NumbersCorrect == Spec => []VersionsInSequence
<1>1. RInv => VersionsInSequence BY DEF RInv, Counted
<1> QED BY <1>1, RegistryInvariant, PTL

\* The types of the registry's state (models.py, ModelVersion; train.py).
THEOREM RegistryTypeCorrect == Spec => []TypeOK
<1>1. RInv => TypeOK BY DEF RInv
<1> QED BY <1>1, RegistryInvariant, PTL

\* A commit that replaces what it was judged against has its configuration or
\* a measured win: the one row it puts into service is its own, and what the
\* gate decided still holds of the incumbent, whose configuration is final.
LEMMA CommitEarned ==
    ASSUME RInv, NEW t \in Trainers, Commit(t),
           NEW i \in DOMAIN rows, NEW k \in DOMAIN rows',
           Replaced(i, k), rows'[k].incumbent = i
    PROVE  Config(i) = <<rows'[k].set, rows'[k].C>> \/ rows'[k].verdict = "PROMOTE"
<1> DEFINE serve == job[t].activate /\ Activates(job[t].verdict)
           new == job[t].id
<1>1. DOMAIN rows' = DOMAIN rows \cup {new}
  BY CommitCounts
<1>2. \A o \in DOMAIN rows :
          rows'[o] = IF serve THEN [rows[o] EXCEPT !.active = FALSE] ELSE rows[o]
  BY CommitRows, Zenon
<1>3. rows'[new] = [version |-> job[t].version, C |-> job[t].C, set |-> job[t].set,
                    games |-> job[t].games, verdict |-> job[t].verdict,
                    incumbent |-> job[t].incumbent, active |-> serve]
  BY CommitRows
<1>4. job[t].pc = "inserted"
  BY DEF Commit
<1>5. serve => job[t].verdict \in {"REFRESH", "PROMOTE", "NO_INCUMBENT"}
  BY DEF Activates
<1> HIDE DEF serve, new
<1>6. /\ rows[i].active /\ rows'[k].active /\ k # i
      /\ rows[i] \in Row /\ i \in Nat \ {0}
  BY DEF Replaced, RInv, TypeOK
<1>7. k = new
  <2> SUFFICES ASSUME k # new PROVE FALSE OBVIOUS
  <2>1. k \in DOMAIN rows /\ rows[k] \in Row
    BY <1>1 DEF RInv, TypeOK
  <2>2. rows[k].active
    BY <2>1, <1>2, <1>6 DEF Row
  <2> QED BY <2>1, <2>2, <1>6 DEF RInv, OneServed, ActiveRows
<1>8. serve /\ rows'[k].verdict = job[t].verdict /\ job[t].incumbent = i
      /\ <<rows'[k].set, rows'[k].C>> = <<job[t].set, job[t].C>>
  BY <1>3, <1>6, <1>7
<1>9. job[t].verdict # "NO_INCUMBENT"
  BY <1>4, <1>6, <1>8 DEF RInv, Decided
<1>10. CASE job[t].verdict = "REFRESH"
  BY <1>10, <1>4, <1>8 DEF RInv, Decided
<1>11. CASE job[t].verdict = "PROMOTE"
  BY <1>11, <1>8
<1> QED BY <1>5, <1>8, <1>9, <1>10, <1>11

\* What is served changes its configuration only on evidence (promotion.py,
\* decide_promotion; registry.py, activate_version).
THEOREM EvidenceCorrect == Spec => ConfigurationEarned
<1> DEFINE Earned ==
        \A i \in DOMAIN rows, k \in DOMAIN rows' :
            Replaced(i, k) /\ rows'[k].incumbent = i
                => \/ Config(i) = <<rows'[k].set, rows'[k].C>>
                   \/ rows'[k].verdict = "PROMOTE"
<1>1. RInv /\ [Next]_mvars => [Earned]_rows
  <2> SUFFICES ASSUME RInv, [Next]_mvars, rows' # rows PROVE Earned
    OBVIOUS
  <2>1. PICK t \in Trainers : Commit(t)
    BY DEF Next, mvars, NewGames, Release, Begin, Search, Judge, Number,
           Register, RegisterFails, Fail
  <2> QED BY <2>1, CommitEarned
<1> QED BY <1>1, RegistryInvariant, PTL DEF Spec, ConfigurationEarned
=============================================================================
