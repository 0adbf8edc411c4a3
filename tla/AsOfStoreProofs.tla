--------------------------- MODULE AsOfStoreProofs ---------------------------
(***************************************************************************)
(* The stamps bound what a prediction may see, for any schedule, any order *)
(* of the feeds and any as-of time.                                        *)
(*                                                                         *)
(* A row once stored is never lost or changed: the key of a result or of a *)
(* move belongs to one fact, and the stamp of a new lineup or forecast is  *)
(* later than all those stored (OnlyAdds).  Everything else follows from   *)
(* what the stamp of each feed says of the moment of the fact (Stamped).   *)
(***************************************************************************)
EXTENDS AsOfStore, TLAPS

Polled == {"lineup", "forecast"}

\* A game has one result, and a player one move of each status and at a time.
FactsOnce ==
    \A e, f \in facts :
        e.kind = f.kind /\ e.about = f.about =>
            /\ e.kind = "result" => e = f
            /\ e.kind = "move" /\ (e.says = f.says \/ e.at = f.at) => e = f

\* A fact is not of the future; a game ends after its first pitch and in time.
FactsPast ==
    /\ \A f \in facts :
        /\ f.at <= now
        /\ f.kind = "result" =>
             Pitch[f.about] < f.at /\ f.at <= Pitch[f.about] + MaxLength
    /\ \A g \in Games : Happened("result", g) = {} => now <= Pitch[g] + MaxLength

\* What the stamp of a row says of the moment of its fact.
WellStamped(r) ==
    /\ r.fact \in facts
    /\ r.fact.kind = "result" => r.known = ResultKnown(r.fact.about)
    /\ r.fact.kind = "move" => r.known = MoveKnown(r.fact)
    /\ r.fact.kind # "move" => r.id = 0
    /\ r.fact.kind \in Polled => r.known \in Time /\ r.fact.at <= r.known + MaxDelay

Stamped == \A r \in db : WellStamped(r)

\* The stamp of a request is later than those of the rows of its feed.
InFlight ==
    fetch # NoFetch =>
        /\ fetch.kind \in Polled
        /\ fetch.at <= now /\ now <= fetch.at + MaxDelay
        /\ \A r \in db : r.fact.kind = fetch.kind => r.known < fetch.at

\* What was read is still there, and what was not was asked for since, or was
\* being asked for.
ReadKept ==
    read # NoRead =>
        /\ read.at \in Time /\ read.at <= now
        /\ read.rows \subseteq Cut(db, read.at)
        /\ \A r \in db : r.fact.kind \in Polled /\ r.known <= read.at =>
             r \in read.rows \/ r.known \in {read.at, read.pending}
        /\ fetch # NoFetch => fetch.at = read.pending \/ fetch.at >= read.at

\* The entry of the cache is the answer for some time of its Grain.
CacheFilled ==
    cache # NoEntry =>
        \E T \in Time : cache = [grain |-> T \div Grain, out |-> UnavailableAsOf(db, T)]

AsOfInv == TypeOK /\ FactsOnce /\ FactsPast /\ Stamped /\ InFlight /\ ReadKept /\ CacheFilled

-----------------------------------------------------------------------------
(* Days and grains.                                                        *)

LEMMA ConstTypes ==
    /\ Lag \in Nat /\ Shift \in Nat /\ MaxDelay \in Nat /\ MaxTime \in Nat
    /\ Recency \in Nat /\ Window \in Nat
    /\ Day \in Nat \ {0} /\ Grain \in Nat \ {0} /\ MaxLength \in Nat \ {0}
    /\ Time \subseteq Nat /\ 0 \in Time
    /\ Shift <= Day /\ Day % Grain = 0
    /\ \A g \in Games : Pitch[g] \in Nat
BY AsOfAssumption DEF Time

\* The quotient of a division is the last multiple that is reached.
LEMMA Quotient ==
    ASSUME NEW a \in Int, NEW n \in Nat \ {0}
    PROVE  a \div n \in Int /\ (a \div n) * n <= a /\ a < (a \div n) * n + n
OBVIOUS

LEMMA QuotientKeepsOrder ==
    ASSUME NEW a \in Int, NEW b \in Int, NEW n \in Nat \ {0}, a <= b
    PROVE  a \div n <= b \div n
OBVIOUS

LEMMA Times ==
    ASSUME NEW i \in Int, NEW j \in Int, NEW n \in Nat \ {0}
    PROVE  /\ i * n \in Int
           /\ i <= j => i * n <= j * n
           /\ i * n < j * n => i < j
           /\ i * n + n = (i + 1) * n
OBVIOUS

\* A move counts as known within a day of the moment it is announced, less the
\* shift of the calendars; from a midnight; and in the order of the moves.
LEMMA MoveStamp ==
    ASSUME NEW f, f.at \in Nat
    PROVE  /\ MoveKnown(f) \in Nat
           /\ f.at - Shift < MoveKnown(f) /\ MoveKnown(f) <= f.at - Shift + Day
           /\ \E k \in Int : MoveKnown(f) = k * Day
<1> DEFINE a == f.at - Shift
           q == a \div Day
<1>1. a \in Int /\ - Day <= a /\ Day \in Nat \ {0}
    BY ConstTypes
<1>2. q \in Int /\ q * Day <= a /\ a < q * Day + Day
    BY <1>1, Quotient
<1>3. MoveKnown(f) = q * Day + Day
    BY DEF MoveKnown
<1> HIDE DEF q
<1>4. q * Day \in Int /\ q * Day + Day = (q + 1) * Day
    BY <1>1, <1>2, Times
<1>5. q * Day + Day \in Nat
    <2>1. -1 * Day < (q + 1) * Day
        BY <1>1, <1>2, <1>4
    <2>2. -1 < q + 1
        BY <1>1, <1>2, <2>1, Times
    <2>3. 0 * Day <= (q + 1) * Day
        BY <1>1, <1>2, <2>2, Times
    <2> QED
        BY <1>1, <1>4, <2>3
<1> QED
    BY <1>1, <1>2, <1>3, <1>4, <1>5

LEMMA MovesInOrder ==
    ASSUME NEW e, NEW f, e.at \in Nat, f.at \in Nat, e.at <= f.at
    PROVE  MoveKnown(e) <= MoveKnown(f)
<1> DEFINE i == (e.at - Shift) \div Day
           j == (f.at - Shift) \div Day
<1>1. e.at - Shift \in Int /\ f.at - Shift \in Int /\ Day \in Nat \ {0}
        /\ e.at - Shift <= f.at - Shift
    BY ConstTypes
<1>2. i \in Int /\ j \in Int /\ i <= j
    BY <1>1, Quotient, QuotientKeepsOrder
<1>3. MoveKnown(e) = i * Day + Day /\ MoveKnown(f) = j * Day + Day
    BY DEF MoveKnown
<1> HIDE DEF i, j
<1>4. i * Day \in Int /\ j * Day \in Int /\ i * Day <= j * Day
    BY <1>1, <1>2, Times
<1> QED
    BY <1>1, <1>3, <1>4

\* A midnight falls on both sides of two times of a Grain alike.
LEMMA SameGrain ==
    ASSUME NEW k \in Int, NEW T \in Time, NEW U \in Time,
           T \div Grain = U \div Grain, k * Day <= T
    PROVE  k * Day <= U
<1>1. Grain \in Nat \ {0} /\ Day \in Nat /\ T \in Nat /\ U \in Nat
    BY ConstTypes
<1> DEFINE m == Day \div Grain
           q == T \div Grain
<1>2. m \in Int /\ Day = m * Grain
    BY <1>1, ConstTypes, Quotient
<1>3. q \in Int /\ T < q * Grain + Grain /\ q * Grain <= U
    BY <1>1, Quotient
<1> HIDE DEF m, q
<1>4. k * m \in Int /\ k * Day = (k * m) * Grain
    BY <1>1, <1>2
<1>5. (k * m) * Grain < (q + 1) * Grain
    BY <1>1, <1>3, <1>4, Times
<1>6. k * m <= q
    BY <1>1, <1>3, <1>4, <1>5, Times
<1>7. (k * m) * Grain <= q * Grain
    BY <1>1, <1>3, <1>4, <1>6, Times
<1> QED
    BY <1>1, <1>3, <1>4, <1>7, Times

-----------------------------------------------------------------------------
(* Rows are only ever added.                                               *)

LEMMA FactTypes ==
    ASSUME NEW f \in Fact
    PROVE  /\ f.kind \in {"result", "lineup", "forecast", "move"} /\ f.at \in Time
           /\ f.kind # "move" => f.about \in Games
           /\ f.kind = "move" => f.about \in Players
BY DEF Fact

LEMMA SameKey ==
    ASSUME NEW r, NEW n, Key(r) = Key(n)
    PROVE  /\ r.fact.kind = n.fact.kind /\ r.fact.about = n.fact.about
           /\ r.fact.says = n.fact.says
           /\ r.fact.kind \in Polled => r.known = n.known
BY DEF Key, Polled

LEMMA OnlyAdds ==
    ASSUME NEW rows, Upsert(rows), \A r \in db, n \in rows : Key(r) = Key(n) => r = n
    PROVE  db' = db \cup rows
BY DEF Upsert

\* Two rows are the same when their fact, their stamp and their id are.
LEMMA SameRow ==
    ASSUME NEW r \in Row, NEW n \in Row, r.fact = n.fact, r.known = n.known, r.id = n.id
    PROVE  r = n
BY DEF Row

\* What a feed writes: new rows, well stamped; those of a poll with the time
\* at which it was sent.
Added(rows) ==
    /\ rows \subseteq Row
    /\ db' = db \cup rows
    /\ cache' = NoEntry
    /\ \A n \in rows :
        /\ WellStamped(n)
        /\ n.fact.kind \in Polled =>
             fetch # NoFetch /\ n.known = fetch.at /\ n.fact.kind = fetch.kind
    /\ UNCHANGED <<now, facts, read>>

\* The rows of a feed whose stamp depends on the fact alone, and which leaves
\* a stored row its id.
LEMMA StampedAdds ==
    ASSUME AsOfInv, NEW rows, Upsert(rows), UNCHANGED <<now, facts, read>>,
           rows \subseteq Row,
           \A n \in rows : WellStamped(n) /\ n.fact.kind \in {"result", "move"},
           \A n \in rows, r \in db : r.fact = n.fact => r.id = n.id
    PROVE  Added(rows)
<1>1. ASSUME NEW r \in db, NEW n \in rows, Key(r) = Key(n) PROVE r = n
    <2>1. /\ r.fact.kind = n.fact.kind /\ r.fact.about = n.fact.about
          /\ r.fact.says = n.fact.says
        BY <1>1, SameKey
    <2>2. WellStamped(r) /\ WellStamped(n) /\ n.fact.kind \in {"result", "move"}
            /\ r \in Row /\ n \in Row
        BY DEF AsOfInv, Stamped, TypeOK
    <2>3. r.fact = n.fact
        BY <2>1, <2>2 DEF AsOfInv, FactsOnce, WellStamped
    <2>4. r.known = n.known /\ r.id = n.id
        BY <2>2, <2>3 DEF WellStamped
    <2> QED
        BY <2>2, <2>3, <2>4, SameRow
<1>2. db' = db \cup rows /\ cache' = NoEntry
    BY <1>1, OnlyAdds DEF Upsert
<1> QED
    BY <1>2 DEF Added, Polled

LEMMA ResultsAdd ==
    AsOfInv /\ IngestResults =>
        \E rows : /\ Added(rows) /\ fetch' = fetch
                  /\ \A n \in rows : n.fact.kind \notin Polled
<1> SUFFICES ASSUME AsOfInv, IngestResults
             PROVE  \E rows : /\ Added(rows) /\ fetch' = fetch
                              /\ \A n \in rows : n.fact.kind \notin Polled
    OBVIOUS
<1>1. PICK S \in SUBSET {f \in facts : f.kind = "result"} :
        Upsert({[fact |-> f, known |-> ResultKnown(f.about), id |-> 0] : f \in S})
    BY DEF IngestResults
<1> DEFINE rows == {[fact |-> f, known |-> ResultKnown(f.about), id |-> 0] : f \in S}
<1>2. ASSUME NEW n \in rows
      PROVE  n \in Row /\ WellStamped(n) /\ n.fact.kind \in {"result", "move"}
    <2>1. PICK f \in S : n = [fact |-> f, known |-> ResultKnown(f.about), id |-> 0]
        OBVIOUS
    <2>2. f \in facts /\ f.kind = "result" /\ f \in Fact
        BY DEF AsOfInv, TypeOK
    <2>3. f.about \in Games /\ Pitch[f.about] < f.at /\ f.at \in 0..MaxTime
        BY <2>2, FactTypes DEF AsOfInv, FactsPast, Time
    <2>4. ResultKnown(f.about) \in 0..(MaxTime + Lag + 2 * Day)
        BY <2>3, ConstTypes DEF ResultKnown
    <2>5. n.fact = f /\ n.known = ResultKnown(f.about) /\ n.id = 0
        BY <2>1
    <2>6. n \in Row
        BY <2>1, <2>2, <2>4 DEF Row
    <2>7. n.fact.kind = "result"
        BY <2>2, <2>5
    <2> QED
        BY <2>2, <2>5, <2>6, <2>7 DEF WellStamped, Polled
<1>3. Upsert(rows) /\ UNCHANGED <<now, facts, read, fetch>>
    BY <1>1 DEF IngestResults
<1>4. \A n \in rows : n.fact.kind = "result" /\ n.id = 0
    OBVIOUS
<1> HIDE DEF rows
<1>5. ASSUME NEW n \in rows, NEW r \in db, r.fact = n.fact PROVE r.id = n.id
    BY <1>4, <1>5 DEF AsOfInv, Stamped, WellStamped
<1>6. Added(rows) /\ \A n \in rows : n.fact.kind \notin Polled
    BY <1>2, <1>3, <1>5, StampedAdds DEF Polled
<1> QED
    BY <1>3, <1>6

LEMMA MovesAdd ==
    AsOfInv /\ IngestMoves =>
        \E rows : /\ Added(rows) /\ fetch' = fetch
                  /\ \A n \in rows : n.fact.kind \notin Polled
<1> SUFFICES ASSUME AsOfInv, IngestMoves
             PROVE  \E rows : /\ Added(rows) /\ fetch' = fetch
                              /\ \A n \in rows : n.fact.kind \notin Polled
    OBVIOUS
<1>1. PICK S \in SUBSET Moves : \E id \in Ids(S) :
        Upsert({[fact |-> f, known |-> MoveKnown(f), id |-> id[f]] : f \in S})
    BY DEF IngestMoves
<1>2. PICK id \in Ids(S) :
        Upsert({[fact |-> f, known |-> MoveKnown(f), id |-> id[f]] : f \in S})
    BY <1>1
<1>3. \A f \in S : /\ id[f] \in Nat
                   /\ \A r \in Of(db, "move") : r.fact = f => id[f] = r.id
    BY AsOfAssumption DEF Ids, Injection
<1> DEFINE rows == {[fact |-> f, known |-> MoveKnown(f), id |-> id[f]] : f \in S}
<1>4. ASSUME NEW n \in rows
      PROVE  /\ n \in Row /\ WellStamped(n) /\ n.fact.kind \in {"result", "move"}
             /\ \A r \in db : r.fact = n.fact => r.id = n.id
    <2>1. PICK f \in S : n = [fact |-> f, known |-> MoveKnown(f), id |-> id[f]]
        OBVIOUS
    <2>2. f \in facts /\ f.kind = "move" /\ f \in Fact
        BY DEF AsOfInv, TypeOK, Moves
    <2>3. f.at \in 0..MaxTime /\ f.at \in Nat
        BY <2>2, FactTypes DEF Time
    <2>4. MoveKnown(f) \in 0..(MaxTime + Lag + 2 * Day)
        BY <2>3, MoveStamp, ConstTypes
    <2>5. n.fact = f /\ n.known = MoveKnown(f) /\ n.id = id[f]
        BY <2>1
    <2>6. n \in Row
        BY <1>3, <2>1, <2>2, <2>4 DEF Row
    <2>7. n.fact.kind = "move"
        BY <2>2, <2>5
    <2>8. \A r \in db : r.fact = n.fact => r.id = n.id
        BY <1>3, <2>2, <2>5 DEF Of
    <2> QED
        BY <2>2, <2>5, <2>6, <2>7, <2>8 DEF WellStamped, Polled
<1>5. Upsert(rows) /\ UNCHANGED <<now, facts, read, fetch>>
    BY <1>2 DEF IngestMoves
<1> HIDE DEF rows
<1>6. Added(rows) /\ \A n \in rows : n.fact.kind \notin Polled
    <2>1. \A n \in rows, r \in db : r.fact = n.fact => r.id = n.id
        BY <1>4
    <2>2. rows \subseteq Row
            /\ \A n \in rows : WellStamped(n) /\ n.fact.kind \in {"result", "move"}
        BY <1>4
    <2>3. Added(rows)
        BY <1>5, <2>1, <2>2, StampedAdds
    <2> QED
        BY <2>2, <2>3 DEF Polled
<1> QED
    BY <1>5, <1>6

LEMMA AnswerAdds == AsOfInv /\ Answer => \E rows : Added(rows) /\ fetch' = NoFetch
<1> SUFFICES ASSUME AsOfInv, Answer
             PROVE  \E rows : Added(rows) /\ fetch' = NoFetch
    OBVIOUS
<1> DEFINE current == UNION {Latest(Happened(fetch.kind, g)) : g \in fetch.games}
           rows == {[fact |-> f, known |-> Stamp, id |-> 0] : f \in current}
<1>1. /\ fetch # NoFetch /\ fetch.kind \in Polled /\ fetch.at \in Time
      /\ now <= fetch.at + MaxDelay /\ now \in Nat
      /\ \A r \in db : r.fact.kind = fetch.kind => r.known < fetch.at
    BY ConstTypes DEF Answer, AsOfInv, InFlight, TypeOK
<1>2. ASSUME NEW n \in rows
      PROVE  /\ n \in Row /\ WellStamped(n) /\ n.known = fetch.at
             /\ n.fact.kind = fetch.kind
    <2>1. PICK f \in current : n = [fact |-> f, known |-> Stamp, id |-> 0]
        OBVIOUS
    <2>2. f \in facts /\ f.kind = fetch.kind /\ f \in Fact
        BY DEF AsOfInv, TypeOK, Latest, Happened
    <2>3. n.fact = f /\ n.known = fetch.at /\ n.id = 0
        BY <2>1 DEF Stamp
    <2>4. f.at <= now /\ f.at \in Nat /\ fetch.at \in Nat
        BY <1>1, <2>2, FactTypes, ConstTypes DEF AsOfInv, FactsPast
    <2>5. n \in Row
        <3>1. fetch.at \in 0..(MaxTime + Lag + 2 * Day)
            BY <1>1, ConstTypes DEF Time
        <3> QED
            BY <2>1, <2>2, <3>1 DEF Row, Stamp
    <2>6. f.at <= fetch.at + MaxDelay
        BY <1>1, <2>4, ConstTypes
    <2> QED
        BY <1>1, <2>2, <2>3, <2>5, <2>6 DEF WellStamped, Polled
<1>3. Upsert(rows) /\ UNCHANGED <<now, facts, read>> /\ fetch' = NoFetch
    BY DEF Answer
<1> HIDE DEF rows
<1>4. ASSUME NEW r \in db, NEW n \in rows, Key(r) = Key(n) PROVE FALSE
    <2>1. r.fact.kind = n.fact.kind /\ r.known = n.known
        BY <1>1, <1>2, <1>4, SameKey
    <2>2. r.known < fetch.at /\ n.known = fetch.at /\ fetch.at \in Nat
        BY <1>1, <1>2, <2>1, ConstTypes
    <2> QED
        BY <2>1, <2>2
<1>5. db' = db \cup rows /\ cache' = NoEntry
    BY <1>3, <1>4, OnlyAdds DEF Upsert
<1> QED
    BY <1>1, <1>2, <1>3, <1>5 DEF Added

-----------------------------------------------------------------------------
(* Each step keeps the invariant.                                          *)

\* What holds of a row holds when more has come about.
LEMMA StillStamped ==
    ASSUME NEW r, WellStamped(r), facts \subseteq facts'
    PROVE  WellStamped(r)'
BY DEF WellStamped

LEMMA CacheStays == CacheFilled /\ UNCHANGED <<db, cache>> => CacheFilled'
<1> SUFFICES ASSUME CacheFilled, UNCHANGED <<db, cache>>, cache # NoEntry
             PROVE  CacheFilled'
    BY DEF CacheFilled, NoEntry
<1>1. PICK T \in Time :
        cache = [grain |-> T \div Grain, out |-> UnavailableAsOf(db, T)]
    BY DEF CacheFilled
<1> QED
    BY <1>1 DEF CacheFilled

LEMMA TickKeeps == AsOfInv /\ Tick => AsOfInv'
<1> SUFFICES ASSUME AsOfInv, Tick PROVE AsOfInv'
    OBVIOUS
<1>0. /\ now \in Nat /\ now' = now + 1 /\ now < MaxTime
      /\ UNCHANGED <<facts, db, fetch, cache, read>>
    BY ConstTypes DEF AsOfInv, TypeOK, Tick
<1>1. TypeOK'
    <2>1. now' \in Time
        BY <1>0, ConstTypes DEF Time
    <2> QED
        BY <1>0, <2>1 DEF AsOfInv, TypeOK
<1>2. FactsOnce' /\ Stamped'
    BY <1>0, StillStamped DEF AsOfInv, FactsOnce, Stamped
<1>3. FactsPast'
    <2>1. ASSUME NEW f \in facts
          PROVE  /\ f.at <= now + 1
                 /\ f.kind = "result" =>
                      Pitch[f.about] < f.at /\ f.at <= Pitch[f.about] + MaxLength
        <3>1. f \in Fact /\ f.at <= now
            BY DEF AsOfInv, TypeOK, FactsPast
        <3>2. f.at \in Nat
            BY <3>1, FactTypes, ConstTypes
        <3> QED
            BY <1>0, <3>1, <3>2 DEF AsOfInv, FactsPast
    <2>2. ASSUME NEW g \in Games, Happened("result", g) = {}
          PROVE  now + 1 <= Pitch[g] + MaxLength
        BY <1>0, <2>2, ConstTypes DEF Tick
    <2> QED
        BY <1>0, <2>1, <2>2 DEF FactsPast, Happened
<1>4. InFlight'
    <2>1. ASSUME fetch # NoFetch
          PROVE  fetch.at <= now + 1 /\ now + 1 <= fetch.at + MaxDelay
        <3>1. fetch.at \in Nat /\ fetch.at <= now /\ now < fetch.at + MaxDelay
            BY <2>1, ConstTypes DEF AsOfInv, TypeOK, InFlight, Tick
        <3> QED
            BY <1>0, <3>1, ConstTypes
    <2> QED
        BY <1>0, <2>1 DEF AsOfInv, InFlight, NoFetch
<1>5. ReadKept'
    <2>1. ASSUME read # NoRead PROVE read.at <= now + 1
        <3>1. read.at \in Nat /\ read.at <= now
            BY <2>1, ConstTypes DEF AsOfInv, ReadKept
        <3> QED
            BY <1>0, <3>1
    <2> QED
        BY <1>0, <2>1 DEF AsOfInv, ReadKept, Cut, NoRead, NoFetch
<1>6. CacheFilled'
    BY <1>0, CacheStays DEF AsOfInv
<1> QED
    BY <1>1, <1>2, <1>3, <1>4, <1>5, <1>6 DEF AsOfInv

\* A new fact that keeps what the facts promise keeps everything.
LEMMA FactKeeps ==
    ASSUME AsOfInv, NEW f \in Fact, facts' = facts \cup {f},
           UNCHANGED <<now, db, fetch, cache, read>>, FactsOnce', FactsPast'
    PROVE  AsOfInv'
<1>1. TypeOK'
    BY DEF AsOfInv, TypeOK
<1>2. Stamped'
    BY StillStamped DEF AsOfInv, Stamped
<1>3. InFlight' /\ ReadKept' /\ CacheFilled'
    BY DEF AsOfInv, InFlight, ReadKept, CacheFilled, UnavailableAsOf, Of, Cut,
           NoEntry, NoRead, NoFetch
<1> QED
    BY <1>1, <1>2, <1>3 DEF AsOfInv

LEMMA EndGameKeeps == \A g \in Games : AsOfInv /\ EndGame(g) => AsOfInv'
<1> SUFFICES ASSUME NEW g \in Games, AsOfInv, EndGame(g) PROVE AsOfInv'
    OBVIOUS
<1> DEFINE f == [kind |-> "result", about |-> g, says |-> "", at |-> now]
<1>1. /\ facts' = facts \cup {f} /\ UNCHANGED <<now, db, fetch, cache, read>>
      /\ now > Pitch[g] /\ Happened("result", g) = {}
    BY DEF EndGame, Comes
<1>2. now \in Time /\ now \in Nat
    BY ConstTypes DEF AsOfInv, TypeOK
<1>3. f \in Fact /\ f.kind = "result" /\ f.about = g /\ f.at = now
    BY <1>2 DEF Fact
<1>4. Pitch[g] \in Nat /\ now <= Pitch[g] + MaxLength
    BY <1>1, ConstTypes DEF AsOfInv, FactsPast
<1> HIDE DEF f
<1>5. FactsOnce'
    <2>1. \A e \in facts : ~ (e.kind = f.kind /\ e.about = f.about)
        BY <1>1, <1>3 DEF Happened
    <2> QED
        BY <1>1, <2>1 DEF AsOfInv, FactsOnce
<1>6. FactsPast'
    BY <1>1, <1>2, <1>3, <1>4 DEF AsOfInv, FactsPast, Happened
<1> QED
    BY <1>1, <1>3, <1>5, <1>6, FactKeeps

LEMMA NewsKeeps ==
    ASSUME AsOfInv, NEW kind \in Polled, NEW g \in Games, News(kind, g)
    PROVE  AsOfInv'
<1> DEFINE f == [kind |-> kind, about |-> g, says |-> "", at |-> now]
<1>1. facts' = facts \cup {f} /\ UNCHANGED <<now, db, fetch, cache, read>>
    BY DEF News, Comes
<1>2. now \in Time /\ now \in Nat
    BY ConstTypes DEF AsOfInv, TypeOK
<1>3. f \in Fact /\ f.kind \in Polled /\ f.at = now
    BY <1>2 DEF Fact, Polled
<1> HIDE DEF f
<1>4. FactsOnce'
    BY <1>1, <1>3 DEF AsOfInv, FactsOnce, Polled
<1>5. FactsPast'
    BY <1>1, <1>2, <1>3 DEF AsOfInv, FactsPast, Happened, Polled
<1> QED
    BY <1>1, <1>3, <1>4, <1>5, FactKeeps

LEMMA AnnounceKeeps ==
    ASSUME AsOfInv, NEW p \in Players, NEW s \in {"IL", "ACTIVE"}, Announce(p, s)
    PROVE  AsOfInv'
<1> DEFINE f == [kind |-> "move", about |-> p, says |-> s, at |-> now]
<1>1. /\ facts' = facts \cup {f} /\ UNCHANGED <<now, db, fetch, cache, read>>
      /\ \A e \in facts : e.kind = "move" /\ e.about = p => e.says # s /\ e.at # now
    BY DEF Announce, Comes, Happened
<1>2. now \in Time /\ now \in Nat
    BY ConstTypes DEF AsOfInv, TypeOK
<1>3. f \in Fact /\ f.kind = "move" /\ f.about = p /\ f.says = s /\ f.at = now
    BY <1>2 DEF Fact
<1> HIDE DEF f
<1>4. FactsOnce'
    <2>1. \A e \in facts : e.kind = f.kind /\ e.about = f.about =>
                e.says # f.says /\ e.at # f.at
        BY <1>1, <1>3
    <2> QED
        BY <1>1, <1>3, <2>1 DEF AsOfInv, FactsOnce
<1>5. FactsPast'
    BY <1>1, <1>2, <1>3 DEF AsOfInv, FactsPast, Happened
<1> QED
    BY <1>1, <1>3, <1>4, <1>5, FactKeeps

LEMMA AddedKeeps ==
    ASSUME AsOfInv, NEW rows, Added(rows), fetch' \in {fetch, NoFetch},
           fetch' = NoFetch \/ \A n \in rows : n.fact.kind \notin Polled
    PROVE  AsOfInv'
<1>0. /\ rows \subseteq Row /\ db' = db \cup rows /\ cache' = NoEntry
      /\ UNCHANGED <<now, facts, read>>
      /\ \A n \in rows :
            /\ WellStamped(n)
            /\ n.fact.kind \in Polled =>
                 fetch # NoFetch /\ n.known = fetch.at /\ n.fact.kind = fetch.kind
    BY DEF Added
<1>1. TypeOK'
    <2>1. NoFetch \in [kind : {"none", "lineup", "forecast"}, at : Time, games : SUBSET Games]
        BY ConstTypes DEF NoFetch
    <2>2. NoEntry \in [grain : Time \cup {-1}, out : SUBSET Players]
        BY DEF NoEntry
    <2> QED
        BY <1>0, <2>1, <2>2 DEF AsOfInv, TypeOK
<1>2. FactsOnce' /\ FactsPast'
    BY <1>0 DEF AsOfInv, FactsOnce, FactsPast, Happened
<1>3. Stamped'
    BY <1>0, StillStamped DEF AsOfInv, Stamped
<1>4. InFlight'
    BY <1>0 DEF AsOfInv, InFlight
<1>5. ReadKept'
    <2> SUFFICES ASSUME read # NoRead PROVE ReadKept'
        BY <1>0 DEF ReadKept, NoRead
    <2>1. read.at \in Nat /\ read.at \in Time
        BY ConstTypes DEF AsOfInv, ReadKept
    <2>2. ASSUME NEW n \in rows, n.fact.kind \in Polled, n.known <= read.at
          PROVE  n.known \in {read.at, read.pending}
        <3>1. n.known = fetch.at /\ fetch # NoFetch /\ fetch.at \in Nat
            BY <1>0, <2>2, ConstTypes DEF AsOfInv, TypeOK
        <3>2. fetch.at = read.pending \/ fetch.at >= read.at
            BY <3>1 DEF AsOfInv, ReadKept
        <3> QED
            BY <2>1, <2>2, <3>1, <3>2
    <2>3. read.rows \subseteq Cut(db, read.at)'
        BY <1>0 DEF AsOfInv, ReadKept, Cut
    <2> QED
        BY <1>0, <2>2, <2>3 DEF AsOfInv, ReadKept
<1>6. CacheFilled'
    BY <1>0 DEF CacheFilled, NoEntry
<1> QED
    BY <1>1, <1>2, <1>3, <1>4, <1>5, <1>6 DEF AsOfInv

LEMMA FeedKeeps == AsOfInv /\ (IngestResults \/ IngestMoves \/ Answer) => AsOfInv'
<1>1. ASSUME AsOfInv, IngestResults \/ IngestMoves PROVE AsOfInv'
    <2>1. PICK rows : Added(rows) /\ fetch' = fetch
                      /\ \A n \in rows : n.fact.kind \notin Polled
        BY <1>1, ResultsAdd, MovesAdd
    <2> QED
        BY <1>1, <2>1, AddedKeeps
<1>2. ASSUME AsOfInv, Answer PROVE AsOfInv'
    <2>1. PICK rows : Added(rows) /\ fetch' = NoFetch
        BY <1>2, AnswerAdds
    <2> QED
        BY <1>2, <2>1, AddedKeeps
<1> QED
    BY <1>1, <1>2

LEMMA AskKeeps == AsOfInv /\ (\E kind \in Polled : Ask(kind)) => AsOfInv'
<1> SUFFICES ASSUME AsOfInv, NEW kind \in Polled, Ask(kind) PROVE AsOfInv'
    OBVIOUS
<1> DEFINE games == IF kind = "lineup" THEN Upcoming ELSE Located
<1>0. /\ fetch' = [kind |-> kind, at |-> now, games |-> games]
      /\ UNCHANGED <<now, facts, db, cache, read>> /\ fetch = NoFetch
      /\ \A r \in db : r.fact.kind = kind => r.known < now
      /\ games \in SUBSET Games /\ now \in Time /\ now \in Nat
    BY ConstTypes, AsOfAssumption DEF Ask, AsOfInv, TypeOK, Upcoming
<1> HIDE DEF games
<1>1. fetch'.kind = kind /\ fetch'.at = now
    BY <1>0
<1>2. TypeOK'
    BY <1>0 DEF AsOfInv, TypeOK, Polled
<1>3. FactsOnce' /\ FactsPast' /\ Stamped'
    BY <1>0, StillStamped DEF AsOfInv, FactsOnce, FactsPast, Happened, Stamped
<1>4. InFlight'
    BY <1>0, <1>1, ConstTypes DEF InFlight
<1>5. ReadKept'
    <2> SUFFICES ASSUME read # NoRead PROVE ReadKept'
        BY <1>0 DEF ReadKept, NoRead
    <2>1. read.at \in Nat /\ read.at \in Time /\ read.at <= now
        BY ConstTypes DEF AsOfInv, ReadKept
    <2>2. fetch'.at >= read.at
        BY <1>0, <1>1, <2>1
    <2>3. /\ read.rows \subseteq Cut(db, read.at)'
          /\ \A r \in db : r.fact.kind \in Polled /\ r.known <= read.at =>
               r \in read.rows \/ r.known \in {read.at, read.pending}
        BY <1>0 DEF AsOfInv, ReadKept, Cut
    <2> QED
        BY <1>0, <2>1, <2>2, <2>3 DEF ReadKept
<1>6. CacheFilled'
    BY <1>0, CacheStays DEF AsOfInv
<1> QED
    BY <1>2, <1>3, <1>4, <1>5, <1>6 DEF AsOfInv

LEMMA LostKeeps == AsOfInv /\ Lost => AsOfInv'
<1> SUFFICES ASSUME AsOfInv, Lost PROVE AsOfInv'
    OBVIOUS
<1>0. fetch' = NoFetch /\ UNCHANGED <<now, facts, db, cache, read>>
    BY DEF Lost
<1>1. NoFetch \in [kind : {"none", "lineup", "forecast"}, at : Time, games : SUBSET Games]
    BY ConstTypes DEF NoFetch
<1>2. TypeOK'
    BY <1>0, <1>1 DEF AsOfInv, TypeOK
<1>3. FactsOnce' /\ FactsPast' /\ Stamped'
    BY <1>0, StillStamped DEF AsOfInv, FactsOnce, FactsPast, Happened, Stamped
<1>4. InFlight'
    BY <1>0 DEF InFlight
<1>5. ReadKept'
    BY <1>0 DEF AsOfInv, ReadKept, Cut, NoRead, NoFetch
<1>6. CacheFilled'
    BY <1>0, CacheStays DEF AsOfInv
<1> QED
    BY <1>2, <1>3, <1>4, <1>5, <1>6 DEF AsOfInv

LEMMA ComputeKeeps ==
    ASSUME AsOfInv, NEW T \in Time, Compute(T)
    PROVE  AsOfInv'
<1> DEFINE out == UnavailableAsOf(db, T)
<1>0. /\ cache' = [grain |-> T \div Grain, out |-> out]
      /\ UNCHANGED <<now, facts, db, fetch, read>>
    BY DEF Compute
<1>1. out \subseteq Players
    BY DEF UnavailableAsOf
<1>2. T \div Grain \in Time
    <2>1. T \in Nat /\ T <= MaxTime /\ MaxTime \in Nat /\ Grain \in Nat \ {0}
        BY ConstTypes DEF Time
    <2>2. T \div Grain \in Nat /\ T \div Grain <= T
        BY <2>1
    <2> QED
        BY <2>1, <2>2 DEF Time
<1>3. CacheFilled'
    <2>1. cache' = [grain |-> T \div Grain, out |-> UnavailableAsOf(db', T)]
        BY <1>0
    <2> QED
        BY <2>1 DEF CacheFilled
<1> HIDE DEF out
<1>4. TypeOK'
    BY <1>0, <1>1, <1>2 DEF AsOfInv, TypeOK
<1>5. FactsOnce' /\ FactsPast' /\ Stamped'
    BY <1>0, StillStamped DEF AsOfInv, FactsOnce, FactsPast, Happened, Stamped
<1>6. InFlight' /\ ReadKept'
    BY <1>0 DEF AsOfInv, InFlight, ReadKept, Cut, NoRead, NoFetch
<1> QED
    BY <1>3, <1>4, <1>5, <1>6 DEF AsOfInv

LEMMA PredictKeeps ==
    ASSUME AsOfInv, NEW g, NEW offset, Predict(g, offset)
    PROVE  AsOfInv'
<1> DEFINE rows == Cut(db, now)
           pending == IF fetch = NoFetch THEN -1 ELSE fetch.at
<1>0. /\ read' = [at |-> now, rows |-> rows, pending |-> pending]
      /\ UNCHANGED <<now, facts, db, fetch, cache>>
      /\ now \in Time /\ now \in Nat
    BY ConstTypes DEF Predict, AsOfInv, TypeOK
<1>1. rows \subseteq Row /\ pending \in Time \cup {-1}
    BY DEF AsOfInv, TypeOK, Cut
<1>2. \A r \in db : r.fact.kind \in Polled /\ r.known <= now => r \in rows
    BY DEF Cut, Polled
<1>3. rows \subseteq Cut(db, now)' /\ (fetch # NoFetch => fetch.at = pending)
    BY <1>0 DEF Cut
<1> HIDE DEF rows, pending
<1>4. read'.at = now /\ read'.rows = rows /\ read'.pending = pending
    BY <1>0
<1>5. TypeOK'
    BY <1>0, <1>1 DEF AsOfInv, TypeOK
<1>6. FactsOnce' /\ FactsPast' /\ Stamped' /\ InFlight'
    BY <1>0, StillStamped
       DEF AsOfInv, FactsOnce, FactsPast, Happened, Stamped, InFlight, NoFetch
<1>7. ReadKept'
    BY <1>0, <1>2, <1>3, <1>4 DEF ReadKept, Cut, NoFetch
<1>8. CacheFilled'
    BY <1>0, CacheStays DEF AsOfInv
<1> QED
    BY <1>5, <1>6, <1>7, <1>8 DEF AsOfInv

LEMMA NextAsOfInv == AsOfInv /\ [Next]_avars => AsOfInv'
<1> SUFFICES ASSUME AsOfInv, [Next]_avars PROVE AsOfInv'
    OBVIOUS
<1>1. CASE UNCHANGED avars
    <2>1. UNCHANGED <<now, facts, db, fetch, cache, read>>
        BY <1>1 DEF avars
    <2>2. TypeOK' /\ FactsOnce' /\ FactsPast' /\ InFlight'
        BY <2>1 DEF AsOfInv, TypeOK, FactsOnce, FactsPast, Happened, InFlight, NoFetch
    <2>3. Stamped' /\ CacheFilled'
        BY <2>1, StillStamped, CacheStays DEF AsOfInv, Stamped
    <2>4. ReadKept'
        BY <2>1 DEF AsOfInv, ReadKept, Cut, NoRead, NoFetch
    <2> QED
        BY <2>2, <2>3, <2>4 DEF AsOfInv
<1>2. CASE Tick \/ IngestResults \/ IngestMoves \/ Answer \/ Lost
    BY <1>2, TickKeeps, FeedKeeps, LostKeeps
<1>3. ASSUME NEW g \in Games, EndGame(g) \/ Post(g) \/ Issue(g) PROVE AsOfInv'
    BY <1>3, EndGameKeeps, NewsKeeps DEF Post, Issue, Polled
<1>4. ASSUME NEW p \in Players, NEW s \in {"IL", "ACTIVE"}, Announce(p, s)
      PROVE  AsOfInv'
    BY <1>4, AnnounceKeeps
<1>5. ASSUME NEW kind \in Polled, Ask(kind) PROVE AsOfInv'
    BY <1>5, AskKeeps
<1>6. ASSUME NEW T \in Time, Compute(T) PROVE AsOfInv'
    BY <1>6, ComputeKeeps
<1>7. ASSUME NEW g \in Games, NEW o \in Offsets, Predict(g, o) PROVE AsOfInv'
    BY <1>7, PredictKeeps
<1> QED
    BY <1>1, <1>2, <1>3, <1>4, <1>5, <1>6, <1>7 DEF Next, Polled

LEMMA InitAsOfInv == Init => AsOfInv
<1> SUFFICES ASSUME Init PROVE AsOfInv
    OBVIOUS
<1>1. /\ NoFetch \in [kind : {"none", "lineup", "forecast"}, at : Time, games : SUBSET Games]
      /\ NoEntry \in [grain : Time \cup {-1}, out : SUBSET Players]
      /\ NoRead \in [at : Time \cup {-1}, pending : Time \cup {-1}, rows : SUBSET Row]
    BY ConstTypes DEF NoFetch, NoEntry, NoRead
<1>2. TypeOK
    BY <1>1, ConstTypes DEF Init, TypeOK
<1>3. FactsOnce /\ Stamped /\ InFlight /\ ReadKept /\ CacheFilled
    BY DEF Init, FactsOnce, Stamped, InFlight, ReadKept, CacheFilled
<1>4. FactsPast
    BY ConstTypes DEF Init, FactsPast
<1> QED
    BY <1>2, <1>3, <1>4 DEF AsOfInv

LEMMA AsOfInvariant == Spec => []AsOfInv
<1> QED
    BY InitAsOfInv, NextAsOfInv, PTL DEF Spec

\* Every variable has its type in every reachable state (features/asof.py).
THEOREM AsOfTypeCorrect == Spec => []TypeOK
<1>1. AsOfInv => TypeOK
    BY DEF AsOfInv
<1> QED
    BY <1>1, AsOfInvariant, PTL

-----------------------------------------------------------------------------
(* What the stamps promise.                                                *)

\* A row of the database, with the moment of its fact and its stamp.
LEMMA RowTypes ==
    ASSUME AsOfInv, NEW r \in db
    PROVE  /\ r \in Row /\ WellStamped(r) /\ r.fact \in facts /\ r.fact \in Fact
           /\ r.fact.at \in Nat /\ r.known \in Nat /\ r.id \in Nat
           /\ r.fact.kind \in {"result", "lineup", "forecast", "move"}
<1>1. r \in Row /\ WellStamped(r) /\ r.fact \in facts
    BY DEF AsOfInv, TypeOK, Stamped, WellStamped
<1>2. r.fact \in Fact /\ r.known \in Nat /\ r.id \in Nat
    BY <1>1, ConstTypes DEF Row
<1>3. r.fact.at \in Time /\ r.fact.kind \in {"result", "lineup", "forecast", "move"}
    BY <1>2, FactTypes
<1> QED
    BY <1>1, <1>2, <1>3, ConstTypes

\* No read sees a fact earlier than the slack of its feed allows, whatever the
\* schedule and the feeds do (result_knowledge_time, ingest_injuries,
\* poll_lineups and the weather ingest, cut by _slice).
THEOREM HindsightCorrect == Spec => []HindsightBounded
<1>1. AsOfInv => HindsightBounded
    <2> SUFFICES ASSUME AsOfInv, NEW T \in Time, NEW r \in Cut(db, T)
                 PROVE  r.fact.at <= T + Slack(r.fact.kind)
        BY DEF HindsightBounded
    <2>1. r \in db /\ r.known <= T /\ T \in Nat
        BY ConstTypes DEF Cut
    <2>2. /\ WellStamped(r) /\ r.fact \in facts /\ r.fact \in Fact
          /\ r.fact.at \in Nat /\ r.known \in Nat
          /\ r.fact.kind \in {"result", "lineup", "forecast", "move"}
        BY <2>1, RowTypes
    <2>3. CASE r.fact.kind = "result"
        <3> DEFINE pitch == Pitch[r.fact.about]
        <3>1. r.fact.about \in Games /\ pitch \in Nat /\ r.known = pitch + Lag
            BY <2>2, <2>3, FactTypes, ConstTypes DEF WellStamped, ResultKnown
        <3>2. r.fact.at <= pitch + MaxLength
            BY <2>2, <2>3 DEF AsOfInv, FactsPast
        <3>3. Slack(r.fact.kind) = IF MaxLength > Lag THEN MaxLength - Lag ELSE 0
            BY <2>3 DEF Slack
        <3> HIDE DEF pitch
        <3> QED
            BY <2>1, <2>2, <3>1, <3>2, <3>3, ConstTypes
    <2>4. CASE r.fact.kind = "move"
        <3>1. r.known = MoveKnown(r.fact) /\ r.fact.at - Shift < MoveKnown(r.fact)
            BY <2>2, <2>4, MoveStamp DEF WellStamped
        <3>2. Slack(r.fact.kind) = Shift
            BY <2>4 DEF Slack
        <3> QED
            BY <2>1, <2>2, <3>1, <3>2, ConstTypes
    <2>5. CASE r.fact.kind \in Polled
        <3>1. r.fact.at <= r.known + MaxDelay
            BY <2>2, <2>5 DEF WellStamped
        <3>2. Slack(r.fact.kind) = MaxDelay
            BY <2>5 DEF Slack, Polled
        <3> QED
            BY <2>1, <2>2, <3>1, <3>2, ConstTypes
    <2> QED
        BY <2>2, <2>3, <2>4, <2>5 DEF Polled
<1> QED
    BY <1>1, AsOfInvariant, PTL

\* What a live read saw its replay still sees, with the same lineup and the
\* same forecast but for those of its own time or in flight (AsOfStore._slice,
\* the conflict columns of each table).
THEOREM ReplayCorrect == Spec => []ReplayKeeps
<1>1. AsOfInv => ReplayKeeps
    <2> SUFFICES ASSUME AsOfInv PROVE ReplayKeeps
        OBVIOUS
    <2>1. CASE read = NoRead
        <3>1. Cut(db, -1) = {}
            BY RowTypes DEF Cut
        <3> QED
            BY <2>1, <3>1 DEF ReplayKeeps, NoRead, LastRow, Of
    <2>2. CASE read # NoRead
        <3>1. /\ read.rows \subseteq Cut(db, read.at)
              /\ \A r \in db : r.fact.kind \in Polled /\ r.known <= read.at =>
                   r \in read.rows \/ r.known \in {read.at, read.pending}
            BY <2>2 DEF AsOfInv, ReadKept
        <3>2. \A kind, g : \A r \in LastRow(db, kind, g, read.at) :
                r \in db /\ r.known <= read.at /\ r.fact.kind = kind
            BY DEF LastRow, Of, Cut
        <3> QED
            BY <3>1, <3>2 DEF ReplayKeeps, Polled
    <2> QED
        BY <2>1, <2>2
<1> QED
    BY <1>1, AsOfInvariant, PTL

\* The moves known at two times of one Grain are the same.
LEMMA SameMoves ==
    ASSUME AsOfInv, NEW T \in Time, NEW U \in Time, T \div Grain = U \div Grain
    PROVE  Of(Cut(db, T), "move") = Of(Cut(db, U), "move")
<1>1. ASSUME NEW r \in db, r.fact.kind = "move"
      PROVE  r.known <= T <=> r.known <= U
    <2>1. r.known = MoveKnown(r.fact) /\ r.fact.at \in Nat
        BY <1>1, RowTypes DEF WellStamped
    <2>2. PICK k \in Int : r.known = k * Day
        BY <2>1, MoveStamp
    <2> QED
        BY <2>2, SameGrain
<1> QED
    BY <1>1 DEF Of, Cut

\* Who is out, by the cache or by the rows, is out by the rows of some time of
\* the same Grain.
LEMMA OutBySomeTime ==
    ASSUME AsOfInv, NEW T \in Time, NEW p \in Unavailable(T)
    PROVE  \E U \in Time : T \div Grain = U \div Grain /\ p \in UnavailableAsOf(db, U)
<1>1. CASE T \div Grain # cache.grain
    BY <1>1 DEF Unavailable
<1>2. CASE T \div Grain = cache.grain
    <2>1. T \div Grain \in Nat
        BY ConstTypes
    <2>2. cache # NoEntry
        BY <1>2, <2>1 DEF NoEntry
    <2>3. PICK U \in Time :
            cache = [grain |-> U \div Grain, out |-> UnavailableAsOf(db, U)]
        BY <2>2 DEF AsOfInv, CacheFilled
    <2>4. cache.grain = U \div Grain /\ cache.out = UnavailableAsOf(db, U)
        BY <2>3
    <2> QED
        BY <1>2, <2>4 DEF Unavailable
<1> QED
    BY <1>1, <1>2

\* The cache never answers with a placement that was not known at the time
\* asked about (unavailable_asof: moves are known from a midnight, and no
\* midnight is inside a Grain).
THEOREM CacheCorrect == Spec => []CacheKeepsCut
<1>1. AsOfInv => CacheKeepsCut
    <2> SUFFICES ASSUME AsOfInv, NEW T \in Time, NEW p \in Unavailable(T)
                 PROVE  \E r \in Of(Cut(db, T), "move") :
                            r.fact.about = p /\ r.fact.says = "IL"
        BY DEF CacheKeepsCut
    <2>1. PICK U \in Time : T \div Grain = U \div Grain /\ p \in UnavailableAsOf(db, U)
        BY OutBySomeTime
    <2>2. \E r \in Of(Cut(db, U), "move") : r.fact.about = p /\ r.fact.says = "IL"
        BY <2>1 DEF UnavailableAsOf
    <2> QED
        BY <2>1, <2>2, SameMoves
<1> QED
    BY <1>1, AsOfInvariant, PTL

\* A player whose latest move known at a time was a return, stored after his
\* other moves of its day, is not out at it.
LEMMA LatestMoveCounts ==
    ASSUME AsOfInv, NEW U \in Time, NEW p,
           NEW r \in Of(Cut(db, U), "move"), r.fact.about = p, r.fact.says = "ACTIVE",
           \A q \in Of(Cut(db, U), "move") \ {r} : q.fact.about = p =>
                q.fact.at <= r.fact.at /\ (q.known = r.known => q.id < r.id)
    PROVE  p \notin UnavailableAsOf(db, U)
<1> SUFFICES ASSUME p \in UnavailableAsOf(db, U) PROVE FALSE
    OBVIOUS
<1>1. PICK i \in Of(Cut(db, U), "move") :
        /\ i.known >= U - Recency /\ i.fact.about = p /\ i.fact.says = "IL"
        /\ \A q \in Of(Cut(db, U), "move") :
             q.known >= U - Recency /\ q.fact.about = p =>
                ~ (q.known > i.known \/ (q.known = i.known /\ q.id > i.id))
    BY DEF UnavailableAsOf
<1>2. /\ i \in db /\ i.fact.kind = "move" /\ r \in db /\ r.fact.kind = "move"
      /\ i # r /\ i.fact.at <= r.fact.at /\ (i.known = r.known => i.id < r.id)
    BY <1>1 DEF Of, Cut
<1>3. /\ i.fact.at \in Nat /\ i.known = MoveKnown(i.fact) /\ i.known \in Nat
      /\ r.fact.at \in Nat /\ r.known = MoveKnown(r.fact) /\ r.known \in Nat
      /\ i.id \in Nat /\ r.id \in Nat
    BY <1>2, RowTypes DEF WellStamped
<1>4. i.known <= r.known
    BY <1>2, <1>3, MovesInOrder
<1>5. r.known >= U - Recency
    BY <1>1, <1>3, <1>4, ConstTypes
<1> QED
    BY <1>1, <1>2, <1>3, <1>4, <1>5

\* None of the lines of a player who was last known to have returned counts as
\* lost (unavailable_as_of, availability_loss), with or without the cache and
\* in whatever order the days were ingested, if his return was stored after
\* his other moves of its day.
THEOREM ReturnedCorrect == Spec => []ReturnedIsBack
<1>1. AsOfInv => ReturnedIsBack
    <2> SUFFICES ASSUME AsOfInv, NEW T \in Time,
                        NEW r \in Of(Cut(db, T), "move"), r.fact.says = "ACTIVE",
                        \A q \in Of(Cut(db, T), "move") \ {r} :
                            q.fact.about = r.fact.about =>
                               q.fact.at <= r.fact.at /\ (q.known = r.known => q.id < r.id),
                        NEW l \in LostLines(T)
                 PROVE  l[2] # r.fact.about
        BY DEF ReturnedIsBack
    <2>1. l[2] \in Unavailable(T)
        BY DEF LostLines
    <2>2. r.fact.about \notin Unavailable(T)
        <3> SUFFICES ASSUME r.fact.about \in Unavailable(T) PROVE FALSE
            OBVIOUS
        <3>1. PICK U \in Time :
                T \div Grain = U \div Grain /\ r.fact.about \in UnavailableAsOf(db, U)
            BY OutBySomeTime
        <3>2. Of(Cut(db, T), "move") = Of(Cut(db, U), "move")
            BY <3>1, SameMoves
        <3> QED
            BY <3>1, <3>2, LatestMoveCounts
    <2> QED
        BY <2>1, <2>2
<1> QED
    BY <1>1, AsOfInvariant, PTL

=============================================================================
