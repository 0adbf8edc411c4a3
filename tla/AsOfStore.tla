------------------------------ MODULE AsOfStore ------------------------------
(***************************************************************************)
(* What a prediction made at time T may read.                              *)
(*                                                                         *)
(* Facts come about in the world at some moment: a game ends, a club posts *)
(* a lineup, a forecast is issued, a player goes on or off the injured     *)
(* list.  A feed stores a fact some time later as a row stamped with a     *)
(* knowledge time, and each feed has its own rule for the stamp.  Reads    *)
(* (features/asof.py) cut the rows by the stamp alone: the real moment is  *)
(* nowhere in the database.  The stamps are therefore what keeps a         *)
(* prediction, or its replay years later, from seeing the future.          *)
(*                                                                         *)
(* Time is counted in ticks from a midnight UTC.                           *)
(***************************************************************************)
EXTENDS Integers, FiniteSets, Functions

CONSTANTS
    Games, Players,
    Pitch,      \* the first pitch of each game
    GameType,   \* its type: "R" regular season, "F" postseason, "S" spring
    Roster,     \* the players each box score has a line for
    Located,    \* the games at a venue whose coordinates are on record
    Lag,        \* RESULT_KNOWLEDGE_LAG
    Day,        \* ticks in a day
    Shift,      \* how far the day of the transactions feed lags behind UTC
    Recency,    \* IL_RECENCY_DAYS, in ticks
    Window,     \* PRODUCTION_WINDOW_DAYS, in ticks
    Grain,      \* ticks that share an entry of the cache
    Offsets,    \* the as-of policies: ticks before first pitch
    MaxLength,  \* bound: how long a game lasts
    MaxDelay,   \* bound: how long a feed takes to answer
    MaxFacts,   \* bound: what comes about, and the ids of moves
    MaxPolls,   \* bound: rows of lineups and forecasts
    MaxTime     \* bound: the last tick

ASSUME AsOfAssumption ==
    /\ {Lag, Shift, Recency, Window, MaxDelay, MaxFacts, MaxPolls, MaxTime} \subseteq Nat
    /\ {Day, Grain, MaxLength} \subseteq Nat \ {0}
    /\ Offsets \subseteq Nat \ {0}
    /\ Pitch \in [Games -> Nat]
    /\ GameType \in [Games -> {"R", "F", "S"}]
    /\ Roster \in [Games -> SUBSET Players]
    /\ Located \subseteq Games
    /\ Day % Grain = 0 /\ Shift <= Day

VARIABLES
    now,    \* the clock
    facts,  \* what has come about
    db,     \* the rows stored
    fetch,  \* the request in flight of a feed that stamps with its own clock
    cache,  \* one entry of unavailable_asof's cache in the current process
    read    \* history: one live read, and what it saw

avars == <<now, facts, db, fetch, cache, read>>

Time == 0..MaxTime

\* about: a game, or the player of a move; says: a move's status.
Fact == [kind : {"result", "lineup", "forecast"}, about : Games,
         says : {""}, at : Time]
        \cup [kind : {"move"}, about : Players, says : {"IL", "ACTIVE"}, at : Time]

\* id: the order in which the moves were stored; 0 where no read looks at it.
Row == [fact : Fact, known : 0..(MaxTime + Lag + 2 * Day), id : Nat]

NoFetch == [kind |-> "none", at |-> 0, games |-> {}]
NoEntry == [grain |-> -1, out |-> {}]
NoRead == [at |-> -1, pending |-> -1, rows |-> {}]

Init ==
    /\ now = 0
    /\ facts = {}
    /\ db = {}
    /\ fetch = NoFetch
    /\ cache = NoEntry
    /\ read = NoRead

-----------------------------------------------------------------------------
(* The world.                                                              *)

Happened(kind, about) == {f \in facts : f.kind = kind /\ f.about = about}

\* A game under way ends within MaxLength and a request within MaxDelay.
Tick ==
    /\ now < MaxTime
    /\ \A g \in Games :
        Happened("result", g) = {} => now < Pitch[g] + MaxLength
    /\ fetch # NoFetch => now < fetch.at + MaxDelay
    /\ now' = now + 1
    /\ UNCHANGED <<facts, db, fetch, cache, read>>

Comes(kind, about, says) ==
    /\ Cardinality(facts) < MaxFacts
    /\ facts' = facts \cup
            {[kind |-> kind, about |-> about, says |-> says, at |-> now]}
    /\ UNCHANGED <<now, db, fetch, cache, read>>

EndGame(g) ==
    /\ now > Pitch[g]
    /\ Happened("result", g) = {}
    /\ Comes("result", g, "")

\* A lineup may be changed; so may a forecast.
News(kind, g) ==
    /\ \A f \in Happened(kind, g) : f.at # now
    /\ Comes(kind, g, "")

Post(g) == now < Pitch[g] /\ News("lineup", g)

Issue(g) == g \in Located /\ now <= Pitch[g] /\ News("forecast", g)

\* Each status at most once for a player, in either order.
Announce(p, status) ==
    /\ \A f \in Happened("move", p) : f.says # status /\ f.at # now
    /\ Comes("move", p, status)

-----------------------------------------------------------------------------
(* The feeds.                                                              *)

\* Mutant: from the first pitch.
AtPitch(g) == Pitch[g]

\* result_knowledge_time: nothing ever writes the end of a game, so this is
\* the fallback for all of them.
ResultKnown(g) == Pitch[g] + Lag

\* Mutant: from noon of the next day.
NextNoon(f) == ((f.at - Shift) \div Day) * Day + Day + (Day \div 2)

\* The date of a transaction is a day of the feed's calendar; the move counts
\* as known from the midnight UTC that ends the day of the same date.
MoveKnown(f) == ((f.at - Shift) \div Day) * Day + Day

\* Mutant: one row for each game.
KeyWithoutTime(row) == <<row.fact.kind, row.fact.about, row.fact.says, 0>>

\* The conflict columns of each table.
Key(row) ==
    <<row.fact.kind, row.fact.about, row.fact.says,
      IF row.fact.kind \in {"lineup", "forecast"} THEN row.known ELSE 0>>

\* INSERT ... ON CONFLICT DO UPDATE.  A job that writes is a process of its
\* own; a store loaded after it starts with an empty cache.
Upsert(rows) ==
    /\ db' = {r \in db : \A n \in rows : Key(r) # Key(n)} \cup rows
    /\ cache' = NoEntry

\* Box scores of games that are over; a batch may fail, so any of them.
IngestResults ==
    /\ \E S \in SUBSET {f \in facts : f.kind = "result"} :
        /\ S # {}
        /\ Upsert({[fact |-> f, known |-> ResultKnown(f.about), id |-> 0] : f \in S})
    /\ UNCHANGED <<now, facts, fetch, read>>

Moves == {f \in facts : f.kind = "move"}

Of(rows, kind) == {r \in rows : r.fact.kind = kind}

\* The ids of an upsert of moves: a row that is there keeps its own, and those
\* which are new take later ones, in the order the feed happens to list them.
\* Only the order of ids is read, so they are numbered without gaps.
Ids(S) ==
    {id \in Injection(S, 1..MaxFacts) :
       \A f \in S :
         /\ \A r \in Of(db, "move") :
              /\ r.fact = f => id[f] = r.id
              /\ (\A q \in db : q.fact # f) => id[f] > r.id
         /\ \A n \in 1..(id[f] - 1) :
              n \in {r.id : r \in Of(db, "move")} \cup {id[e] : e \in S}}

\* ingest_injuries goes through its window in chunks of whole days and skips
\* one that fails.
IngestMoves ==
    /\ \E days \in SUBSET {MoveKnown(f) : f \in Moves} :
        LET S == {f \in Moves : MoveKnown(f) \in days}
        IN /\ days # {}
           /\ \E id \in Ids(S) :
                Upsert({[fact |-> f, known |-> MoveKnown(f), id |-> id[f]] : f \in S})
    /\ UNCHANGED <<now, facts, fetch, read>>

Upcoming == {g \in Games : Pitch[g] > now}

\* poll_lineups and the live weather ingest read the clock, then ask.  The
\* first asks about games that have not begun, the second about all of its
\* dates.  No two runs of one feed read the same time.
Ask(kind) ==
    /\ fetch = NoFetch
    /\ Cardinality({r \in db : r.fact.kind \in {"lineup", "forecast"}}) < MaxPolls
    /\ \A r \in db : r.fact.kind = kind => r.known < now
    /\ fetch' = [kind |-> kind, at |-> now,
                 games |-> IF kind = "lineup" THEN Upcoming ELSE Located]
    /\ UNCHANGED <<now, facts, db, cache, read>>

Latest(fs) == {f \in fs : \A e \in fs : e.at <= f.at}

Stamp == fetch.at

\* The answer holds what is current when it is given.
Answer ==
    /\ fetch # NoFetch
    /\ Upsert({[fact |-> f, known |-> Stamp, id |-> 0] :
                 f \in UNION {Latest(Happened(fetch.kind, g)) : g \in fetch.games}})
    /\ fetch' = NoFetch
    /\ UNCHANGED <<now, facts, read>>

\* The request fails: job_run records it and nothing is written.
Lost ==
    /\ fetch # NoFetch
    /\ fetch' = NoFetch
    /\ UNCHANGED <<now, facts, db, cache, read>>

-----------------------------------------------------------------------------
(* The reads.                                                              *)

\* RATE_GAME_TYPES.
RateTypes == {"R"}

\* _slice: the rows known by T, of games of the past.  Only results carry the
\* date of their game.
Cut(rows, T) ==
    {r \in rows : r.known <= T
                  /\ (r.fact.kind = "result" => Pitch[r.fact.about] < T)}

\* team_games_asof and its siblings, over a window that starts at `start`.
LinesAsOf(rows, T, start) ==
    {r \in Of(Cut(rows, T), "result") :
        /\ GameType[r.fact.about] \in RateTypes
        /\ Pitch[r.fact.about] >= start}

\* weather_asof, and the posted lineup: the last row for the game.
LastRow(rows, kind, g, T) ==
    LET usable == {r \in Of(Cut(rows, T), kind) : r.fact.about = g}
    IN {r \in usable : \A q \in usable : q.known <= r.known}

\* Mutant: any placement of the window counts.
EverPlaced(rows, T) ==
    {r.fact.about : r \in {r \in Of(Cut(rows, T), "move") :
                               r.known >= T - Recency /\ r.fact.says = "IL"}}

\* unavailable_as_of: the last move of the window by (knowledge_time, id),
\* that is, of the moves of one day the one which was stored last.
UnavailableAsOf(rows, T) ==
    LET moves == {r \in Of(Cut(rows, T), "move") : r.known >= T - Recency}
        after(q, r) == q.known > r.known \/ (q.known = r.known /\ q.id > r.id)
    IN {p \in Players :
          \E r \in moves :
            /\ r.fact.about = p /\ r.fact.says = "IL"
            /\ \A q \in moves : q.fact.about = p => ~ after(q, r)}

\* unavailable_asof: what the first call in a Grain answered, all of it get.
Unavailable(T) ==
    IF T \div Grain = cache.grain THEN cache.out
    ELSE UnavailableAsOf(db, T)

\* availability_loss: the lines of the window whose player is out.
LostLines(T) ==
    UNION {{<<r.fact.about, p>> : p \in Roster[r.fact.about] \cap Unavailable(T)} :
              r \in LinesAsOf(db, T, T - Window)}

\* as_of_for_game.
AsOf(g, offset) == Pitch[g] - offset

\* Features are computed as of T, which is the time now or that of a policy,
\* in whatever order a backtest takes the games.  The entries of the cache do
\* not touch each other, so one of them is followed.
Compute(T) ==
    /\ T = now \/ T \in {AsOf(g, o) : g \in Games, o \in Offsets}
    /\ cache = NoEntry
    /\ Of(db, "move") # {}
    /\ cache' = [grain |-> T \div Grain, out |-> UnavailableAsOf(db, T)]
    /\ UNCHANGED <<now, facts, db, fetch, read>>

\* A prediction is made when its as-of time has come.
Predict(g, offset) ==
    /\ read = NoRead
    /\ now = AsOf(g, offset)
    /\ read' = [at |-> now, rows |-> Cut(db, now),
                pending |-> IF fetch = NoFetch THEN -1 ELSE fetch.at]
    /\ UNCHANGED <<now, facts, db, fetch, cache>>

-----------------------------------------------------------------------------

Next ==
    \/ Tick
    \/ \E g \in Games : EndGame(g) \/ Post(g) \/ Issue(g)
    \/ \E p \in Players, s \in {"IL", "ACTIVE"} : Announce(p, s)
    \/ IngestResults
    \/ IngestMoves
    \/ \E kind \in {"lineup", "forecast"} : Ask(kind)
    \/ Answer
    \/ Lost
    \/ \E T \in Time : Compute(T)
    \/ \E g \in Games, o \in Offsets : Predict(g, o)

Spec == Init /\ [][Next]_avars

-----------------------------------------------------------------------------
(* Properties.                                                             *)

TypeOK ==
    /\ now \in Time
    /\ facts \subseteq Fact
    /\ db \subseteq Row
    /\ fetch \in [kind : {"none", "lineup", "forecast"}, at : Time, games : SUBSET Games]
    /\ cache \in [grain : Time \cup {-1}, out : SUBSET Players]
    /\ read \in [at : Time \cup {-1}, pending : Time \cup {-1}, rows : SUBSET Row]

\* How long before a fact came about a read may see it: the overrun of a game
\* past the lag, the time a request takes, the offset of the two calendars.
Slack(kind) ==
    CASE kind = "result" -> IF MaxLength > Lag THEN MaxLength - Lag ELSE 0
      [] kind = "move"   -> Shift
      [] OTHER           -> MaxDelay

\* No read, made then or replayed at any later time, sees a fact earlier than
\* its feed's slack before the fact came about.
HindsightBounded ==
    \A T \in Time : \A r \in Cut(db, T) : r.fact.at <= T + Slack(r.fact.kind)

\* What a live read saw, a replay of it as of the same time still sees,
\* whatever has been stored since; and it takes the same lineup and the same
\* forecast, or that of a request which was in flight at the time.
ReplayKeeps ==
    /\ read.rows \subseteq Cut(db, read.at)
    /\ \A kind \in {"lineup", "forecast"}, g \in Games :
        \A r \in LastRow(db, kind, g, read.at) :
            r \in read.rows \/ r.known \in {read.at, read.pending}

\* The cache never answers with a placement that was not known at the time
\* asked about, whichever call of the Grain filled it.
CacheKeepsCut ==
    \A T \in Time : T \div Grain = cache.grain =>
        \A p \in Unavailable(T) :
            \E r \in Of(Cut(db, T), "move") : r.fact.about = p /\ r.fact.says = "IL"

\* A player whose latest move known at the time was a return is never out,
\* and so none of his lines is counted as lost production, in whatever order
\* the days were ingested.  His other moves of the same day must have been
\* stored before it: nothing else tells their order.
ReturnedIsBack ==
    \A T \in Time : \A r \in Of(Cut(db, T), "move") :
        LET others == {q \in Of(Cut(db, T), "move") \ {r} : q.fact.about = r.fact.about}
        IN /\ r.fact.says = "ACTIVE"
           /\ \A q \in others : q.fact.at <= r.fact.at
                                /\ (q.known = r.known => q.id < r.id)
           => \A l \in LostLines(T) : l[2] # r.fact.about

=============================================================================
