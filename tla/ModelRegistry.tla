--------------------------- MODULE ModelRegistry ----------------------------
(***************************************************************************)
(* Training and promotion: modeling/train.py, registry.py and promotion.py *)
(* over the `model_versions` table of one model name.                      *)
(*                                                                         *)
(* One process per trainer (the trainer container's loop, a `train` run by *)
(* hand).  A trainer is one transaction at READ COMMITTED.  It loads the   *)
(* games, searches the grid for a C, reads the version being served, lets  *)
(* the gate compare the two, fits, takes the next version number and       *)
(* registers the model, active or not.  Minutes pass between these steps.  *)
(*                                                                         *)
(* A configuration is a feature set and a C.  What a comparison on paired  *)
(* games says is chosen freely: better, worse, inside the noise band, or   *)
(* nothing that can be compared.                                           *)
(***************************************************************************)
EXTENDS Integers, FiniteSets

CONSTANTS
    Trainers,
    Grid,       \* the values of C that are searched
    Sets,       \* the feature sets of the successive releases of the program
    LastGames,  \* bound: how often new games arrive
    MaxRuns     \* bound: trainings begun

ASSUME RegistryAssumption ==
    /\ Grid # {} /\ Sets # {}
    /\ {LastGames, MaxRuns} \subseteq Nat

VARIABLES
    games,    \* how much history the database holds
    release,  \* the feature set the program is configured with
    rows,     \* the committed model_versions rows, by id
    nextId,   \* the id sequence
    begun,    \* trainings begun
    job       \* each trainer

mvars == <<games, release, rows, nextId, begun, job>>

Verdicts == {"REFRESH", "PROMOTE", "HOLD", "REJECT", "NO_INCUMBENT"}

\* A registered version: its number, configuration and history, and the
\* decision stored with it: the verdict and the incumbent it was reached
\* against.
Row == [version : Nat \ {0}, C : Grid, set : Sets, games : Nat,
        verdict : Verdicts, incumbent : Nat, active : BOOLEAN]

JobState == [pc : {"idle", "loaded", "searched", "judged", "numbered",
                   "inserted"},
             activate : BOOLEAN, games : Nat, set : Sets, C : Grid,
             verdict : Verdicts, incumbent : Nat, version : Nat, id : Nat]

Idle == [pc |-> "idle", activate |-> FALSE, games |-> 0,
         set |-> CHOOSE s \in Sets : TRUE, C |-> CHOOSE c \in Grid : TRUE,
         verdict |-> "HOLD", incumbent |-> 0, version |-> 0, id |-> 0]

Init ==
    /\ games = 0
    /\ release \in Sets
    /\ rows = [i \in {} |-> 0]
    /\ nextId = 1
    /\ begun = 0
    /\ job = [t \in Trainers |-> Idle]

-----------------------------------------------------------------------------
(* The world.                                                              *)

NewGames ==
    /\ games < LastGames
    /\ games' = games + 1
    /\ UNCHANGED <<release, rows, nextId, begun, job>>

Release(s) ==
    /\ s # release
    /\ release' = s
    /\ UNCHANGED <<games, rows, nextId, begun, job>>

-----------------------------------------------------------------------------
(* The gate.                                                               *)

ActiveRows == {i \in DOMAIN rows : rows[i].active}

\* get_active_version; 0 is the first-run case.
Active == IF ActiveRows = {} THEN 0 ELSE CHOOSE i \in ActiveRows : TRUE

Evidence == {"better", "worse", "tie", "incomparable"}

\* Mutant: a tie is fitted at the C the grid picked.
GridC(inc, C) == C

\* The C a tie is fitted at.
TieC(inc, C) == rows[inc].C

\* decide_promotion: the verdict and the C to fit.
Decide(inc, set, C, evidence) ==
    CASE inc = 0 -> [verdict |-> "NO_INCUMBENT", C |-> C]
      [] inc # 0 /\ rows[inc].set = set /\ rows[inc].C = C ->
            [verdict |-> "REFRESH", C |-> C]
      [] inc # 0 /\ <<rows[inc].set, rows[inc].C>> # <<set, C>> ->
            CASE evidence = "better" -> [verdict |-> "PROMOTE", C |-> C]
              [] evidence = "worse" -> [verdict |-> "REJECT", C |-> C]
              [] evidence = "tie" /\ rows[inc].set = set ->
                    [verdict |-> "REFRESH", C |-> TieC(inc, C)]
              [] OTHER -> [verdict |-> "HOLD", C |-> C]

Activates(verdict) == verdict \in {"REFRESH", "PROMOTE", "NO_INCUMBENT"}

-----------------------------------------------------------------------------
(* train_model.                                                            *)

\* AsOfStore.load and build_dataset.
Begin(t, activate) ==
    /\ job[t].pc = "idle"
    /\ begun < MaxRuns
    /\ begun' = begun + 1
    /\ job' = [job EXCEPT ![t] = [Idle EXCEPT !.pc = "loaded",
                  !.activate = activate, !.games = games, !.set = release]]
    /\ UNCHANGED <<games, release, rows, nextId>>

\* select_hyperparameters.
Search(t) ==
    /\ job[t].pc = "loaded"
    /\ \E C \in Grid : job' = [job EXCEPT ![t].pc = "searched", ![t].C = C]
    /\ UNCHANGED <<games, release, rows, nextId, begun>>

\* The incumbent is read only by a run that may activate; another is judged as
\* if there were none.
Judge(t) ==
    /\ job[t].pc = "searched"
    /\ LET inc == IF job[t].activate THEN Active ELSE 0
       IN  \E evidence \in Evidence :
              LET d == Decide(inc, job[t].set, job[t].C, evidence)
              IN  job' = [job EXCEPT ![t].pc = "judged", ![t].incumbent = inc,
                                     ![t].verdict = d.verdict, ![t].C = d.C]
    /\ UNCHANGED <<games, release, rows, nextId, begun>>

\* Mutant: numbers from zero.
FromZero == Cardinality(DOMAIN rows)

NextVersion == Cardinality(DOMAIN rows) + 1

Number(t) ==
    /\ job[t].pc = "judged"
    /\ job' = [job EXCEPT ![t].pc = "numbered", ![t].version = NextVersion]
    /\ UNCHANGED <<games, release, rows, nextId, begun>>

\* Another transaction has inserted this number and not ended yet.
Blocked(t) ==
    \E u \in Trainers \ {t} :
        job[u].pc = "inserted" /\ job[u].version = job[t].version

\* Mutant: neither the check nor the index.
NeverTaken(t) == FALSE

Taken(t) == \E i \in DOMAIN rows : rows[i].version = job[t].version

\* register_model: the row is inserted.
Register(t) ==
    /\ job[t].pc = "numbered"
    /\ ~Blocked(t) /\ ~Taken(t)
    /\ job' = [job EXCEPT ![t].pc = "inserted", ![t].id = nextId]
    /\ nextId' = nextId + 1
    /\ UNCHANGED <<games, release, rows, begun>>

\* The number is taken: by its own check, or by the unique index.
RegisterFails(t) ==
    /\ job[t].pc = "numbered"
    /\ ~Blocked(t) /\ Taken(t)
    /\ job' = [job EXCEPT ![t] = Idle]
    /\ \/ UNCHANGED nextId
       \/ nextId' = nextId + 1
    /\ UNCHANGED <<games, release, rows, begun>>

\* Mutant: only the incumbent of the decision is taken out of service.
DeposeJudged(t) == {job[t].incumbent}

\* Whom activate_version takes out of service: every other row of the name.
Deposed(t) == DOMAIN rows

\* activate_version, if the gate says so, and the commit.
Commit(t) ==
    LET serve == job[t].activate /\ Activates(job[t].verdict)
        row == [version |-> job[t].version, C |-> job[t].C, set |-> job[t].set,
                games |-> job[t].games, verdict |-> job[t].verdict,
                incumbent |-> job[t].incumbent, active |-> serve]
    IN  /\ job[t].pc = "inserted"
        /\ rows' = [i \in DOMAIN rows \cup {job[t].id} |->
                       IF i = job[t].id THEN row
                       ELSE IF serve /\ i \in Deposed(t)
                            THEN [rows[i] EXCEPT !.active = FALSE]
                            ELSE rows[i]]
        /\ job' = [job EXCEPT ![t] = Idle]
        /\ UNCHANGED <<games, release, nextId, begun>>

\* The process dies, or any step of it raises.
Fail(t) ==
    /\ job[t].pc # "idle"
    /\ job' = [job EXCEPT ![t] = Idle]
    /\ UNCHANGED <<games, release, rows, nextId, begun>>

-----------------------------------------------------------------------------

Next ==
    \/ NewGames
    \/ \E s \in Sets : Release(s)
    \/ \E t \in Trainers, activate \in BOOLEAN : Begin(t, activate)
    \/ \E t \in Trainers :
          \/ Search(t) \/ Judge(t) \/ Number(t)
          \/ Register(t) \/ RegisterFails(t) \/ Commit(t) \/ Fail(t)

Spec == Init /\ [][Next]_mvars

-----------------------------------------------------------------------------
(* Properties.                                                             *)

TypeOK ==
    /\ games \in 0..LastGames
    /\ release \in Sets
    /\ DOMAIN rows \subseteq 1..(nextId - 1)
    /\ rows \in [DOMAIN rows -> Row]
    /\ nextId \in Nat \ {0}
    /\ begun \in 0..MaxRuns
    /\ job \in [Trainers -> JobState]

\* One version is served, from the first activation on; trainers that overlap
\* never leave two or none (registry.py, activate_version).
OneServed ==
    /\ \A i, k \in ActiveRows : i = k
    /\ (\E i \in DOMAIN rows : rows[i].verdict \in {"REFRESH", "PROMOTE"})
           => ActiveRows # {}

\* The numbers of the registered versions have neither gaps nor repetitions,
\* whatever failed between (registry.py, next_version).
VersionsInSequence ==
    {rows[i].version : i \in DOMAIN rows} = 1..Cardinality(DOMAIN rows)

Config(i) == <<rows[i].set, rows[i].C>>

\* Replaced(i, k): this step puts version k in the place of version i.
Replaced(i, k) ==
    i \in DOMAIN rows /\ rows[i].active /\ k \in DOMAIN rows' /\ rows'[k].active
        /\ k # i

\* What is served changes its configuration only on evidence: a version that
\* replaces the one it was judged against has either its feature set and C or
\* a measured win over it, after any number of refreshes (promotion.py).
ConfigurationEarned ==
    [][\A i \in DOMAIN rows, k \in DOMAIN rows' :
          Replaced(i, k) /\ rows'[k].incumbent = i
              => \/ Config(i) = <<rows'[k].set, rows'[k].C>>
                 \/ rows'[k].verdict = "PROMOTE"]_rows

=============================================================================
