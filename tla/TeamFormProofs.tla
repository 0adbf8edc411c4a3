--------------------------- MODULE TeamFormProofs ---------------------------
(***************************************************************************)
(* That what is said of a team is right, for any record of games, any      *)
(* calendar and any lag: the streak in the log is the run it stands for,   *)
(* the tables agree, the rating and the features read at a time see only   *)
(* what was known then, the rating is the one the engine carries, and the  *)
(* walk-forward never trains on its tests.                                 *)
(*                                                                         *)
(* One invariant is inductive, that the record is in the order of its      *)
(* first pitches, dates and seasons (RecordOK).  The rest follows from it  *)
(* by induction along the record: over the engine (EloOK), the log (LogOK, *)
(* RowsCount) and the loop of the windows (StepsApart).                    *)
(***************************************************************************)
EXTENDS TeamForm, FiniteSetTheorems, NaturalsInduction, WellFoundedInduction, TLAPS

-----------------------------------------------------------------------------
(* Numbers.                                                                *)

\* A set of numbers that is not empty has a least one.
LEMMA LeastNumber ==
  ASSUME NEW S \in SUBSET Nat, S # {}
  PROVE  \E m \in S : \A k \in S : m <= k
<1> DEFINE R == {ss \in Nat \X Nat : ss[1] < ss[2]}
<1>1. IsWellFoundedOn(R, Nat)
  BY NatLessThanWellFounded, Zenon DEF OpToRel
<1>2. \E m \in S : \A k \in S : ~ (<<k, m>> \in R)
  <2> HIDE DEF R
  <2> QED BY <1>1, WFMin, Zenon
<1>3. PICK m \in S : \A k \in S : ~ (<<k, m>> \in R)
  BY <1>2
<1>4. ASSUME NEW k \in S PROVE m <= k
  <2>1. <<k, m>> \in Nat \X Nat
    OBVIOUS
  <2>2. ~ (k < m)
    BY <1>3, <2>1
  <2> QED BY <2>2
<1> QED BY <1>4

\* Induction, over a set of numbers.
LEMMA EveryNumber ==
  ASSUME NEW S \in SUBSET Nat, 0 \in S, \A n \in S : n + 1 \in S
  PROVE  S = Nat
<1> DEFINE Left == Nat \ S
<1>1. SUFFICES ASSUME Left # {} PROVE FALSE
  OBVIOUS
<1>2. PICK m \in Left : \A k \in Left : m <= k
  <2>1. Left \in SUBSET Nat
    OBVIOUS
  <2> QED BY <1>1, <2>1, LeastNumber
<1>3. m # 0 /\ m - 1 \in Nat /\ m - 1 \in S
  BY <1>2
<1> QED BY <1>2, <1>3

\* The least of some numbers that do not fall below a bound.
LEMMA MinOf ==
  ASSUME NEW S \in SUBSET Int, S # {}, NEW low \in Int, \A x \in S : low <= x
  PROVE  Min(S) \in S /\ \A x \in S : Min(S) <= x
<1> DEFINE D == {x - low : x \in S}
<1>1. D \in SUBSET Nat /\ D # {}
  <2>1. \A x \in S : x \in Int /\ x - low \in Nat
    OBVIOUS
  <2> QED BY <2>1
<1>2. PICK d \in D : \A k \in D : d <= k
  <2> HIDE DEF D
  <2> QED BY <1>1, LeastNumber
<1>3. PICK m \in S : d = m - low
  BY <1>2
<1>4. ASSUME NEW x \in S PROVE m <= x
  <2>1. x - low \in D
    OBVIOUS
  <2>2. m - low <= x - low
    BY <1>2, <1>3, <2>1
  <2>3. m \in Int /\ x \in Int
    OBVIOUS
  <2> QED BY <2>2, <2>3
<1> QED BY <1>3, <1>4 DEF Min

\* The greatest of some numbers that do not pass a bound.
LEMMA MaxOf ==
  ASSUME NEW S \in SUBSET Int, S # {}, NEW high \in Int, \A x \in S : x <= high
  PROVE  Max(S) \in S /\ \A x \in S : x <= Max(S)
<1> DEFINE D == {high - x : x \in S}
<1>1. D \in SUBSET Nat /\ D # {}
  <2>1. \A x \in S : x \in Int /\ high - x \in Nat
    OBVIOUS
  <2> QED BY <2>1
<1>2. PICK d \in D : \A k \in D : d <= k
  <2> HIDE DEF D
  <2> QED BY <1>1, LeastNumber
<1>3. PICK m \in S : d = high - m
  BY <1>2
<1>4. ASSUME NEW x \in S PROVE x <= m
  <2>1. high - x \in D
    OBVIOUS
  <2>2. high - m <= high - x
    BY <1>2, <1>3, <2>1
  <2>3. m \in Int /\ x \in Int
    OBVIOUS
  <2> QED BY <2>2, <2>3
<1> QED BY <1>3, <1>4 DEF Max

\* The greater and the lesser of two.
LEMMA OfTwo ==
  ASSUME NEW a \in Int, NEW b \in Int
  PROVE  /\ Max({a, b}) = IF a >= b THEN a ELSE b
         /\ Min({a, b}) = IF a <= b THEN a ELSE b
BY DEF Max, Min

-----------------------------------------------------------------------------
(* The calendar.                                                           *)

\* Games of the record.
Game == [season : Nat, slot : DOMAIN TypeAt, home : Teams, away : Teams,
         winner : {"home", "away", "none"}]

\* The record is in the order of its first pitches, seasons and dates.
Ordered(gs) ==
    \A i, j \in DOMAIN gs : i < j =>
        /\ Pitch(gs[i]) < Pitch(gs[j])
        /\ OfficialDate(gs[i]) <= OfficialDate(gs[j]) /\ gs[i].season <= gs[j].season

RecordOK(gs) ==
    /\ gs \in Seq(Game) /\ Ordered(gs)
    /\ \A i \in DOMAIN gs : gs[i].home # gs[i].away

\* What is assumed of the constants, one by one.
LEMMA Numbers ==
  /\ DayTicks \in Nat \ {0} /\ FirstTick \in Nat /\ SecondTick \in Nat
  /\ FirstTick < SecondTick /\ SecondTick < DayTicks
  /\ Lag \in Nat \ {0} /\ Ahead \in Nat \ {0}
  /\ StepDays \in Nat \ {0} /\ ValidationDays \in Nat \ {0}
  /\ MinLength \in Nat /\ MaxLength \in Nat /\ 2 <= MinLength /\ MinLength <= MaxLength
  /\ Pooled \in Nat /\ Cap \in Nat /\ MinLeague \in Nat
  /\ MinRows \in Nat /\ MinCalibration \in Nat
  /\ Len(TypeAt) \in Nat \ {0} /\ DOMAIN TypeAt = 1..Len(TypeAt)
  /\ Days \in Nat \ {0}
BY FormAssumption DEF Days

\* A later day begins a day later, at least.
LEMMA LaterDay ==
  ASSUME NEW d \in Int, NEW e \in Int, d < e
  PROVE  DayTicks * d \in Int /\ DayTicks * e \in Int /\ DayTicks * d + DayTicks <= DayTicks * e
<1>1. DayTicks \in Nat /\ e - d - 1 \in Nat
  BY Numbers
<1>2. DayTicks * (e - d - 1) >= 0
  BY <1>1
<1>3. DayTicks * e = DayTicks * d + DayTicks + DayTicks * (e - d - 1)
  BY <1>1
<1> QED BY <1>1, <1>2, <1>3

\* Where a game stands on the calendar.
LEMMA Placed ==
  ASSUME NEW g \in Game
  PROVE  /\ OfficialDate(g) \in Nat /\ Pitch(g) \in Nat
         /\ (g.slot - 1) \div 2 \in 0..(Days - 1)
         /\ OfficialDate(g) = Days * g.season + (g.slot - 1) \div 2
         /\ Days * g.season \in Nat
         /\ DayTicks * OfficialDate(g) \in Nat
         /\ DayTicks * OfficialDate(g) + FirstTick <= Pitch(g)
         /\ Pitch(g) <= DayTicks * OfficialDate(g) + SecondTick
         /\ Known(g) = Pitch(g) + Lag /\ AsOf(g) = Pitch(g) - Ahead
<1>1. g.season \in Nat /\ g.slot \in 1..Len(TypeAt)
  BY Numbers DEF Game
<1>2. (g.slot - 1) \div 2 \in 0..(Days - 1)
  BY <1>1, Numbers DEF Days
<1>3. Days * g.season \in Nat
  BY <1>1, Numbers
<1>4. OfficialDate(g) \in Nat /\ OfficialDate(g) = Days * g.season + (g.slot - 1) \div 2
  BY <1>2, <1>3 DEF OfficialDate
<1>5. DayTicks * OfficialDate(g) \in Nat
  BY <1>4, Numbers
<1>6. /\ Pitch(g) \in Nat /\ DayTicks * OfficialDate(g) + FirstTick <= Pitch(g)
      /\ Pitch(g) <= DayTicks * OfficialDate(g) + SecondTick
  BY <1>5, Numbers DEF Pitch
<1>7. Known(g) = Pitch(g) + Lag /\ AsOf(g) = Pitch(g) - Ahead
  BY DEF Known, AsOf
<1> QED BY <1>2, <1>3, <1>4, <1>5, <1>6, <1>7

\* On the same date a pitch is early or late, by its slot.
LEMMA EarlyOrLate ==
  ASSUME NEW g \in Game
  PROVE  Pitch(g) = DayTicks * OfficialDate(g) + (IF g.slot % 2 = 1 THEN FirstTick ELSE SecondTick)
BY DEF Pitch

\* Two slots a day.
LEMMA Halves ==
  ASSUME NEW s \in Nat \ {0}
  PROVE  /\ s % 2 = 1 => /\ ((s + 1) - 1) \div 2 = (s - 1) \div 2
                         /\ (s + 1) % 2 # 1
         /\ s % 2 # 1 => ((s + 1) - 1) \div 2 = (s - 1) \div 2 + 1
         /\ ((2 * ((s + 1) \div 2) + 1) - 1) \div 2 = (s - 1) \div 2 + 1
<1>1. PICK k \in Nat : s = 2 * k + 1 \/ s = 2 * k + 2
  <2>1. (s - 1) \div 2 \in Nat /\ (s = 2 * ((s - 1) \div 2) + 1 \/ s = 2 * ((s - 1) \div 2) + 2)
    OBVIOUS
  <2> QED BY <2>1
<1>2. CASE s = 2 * k + 1
  BY <1>2
<1>3. CASE s = 2 * k + 2
  BY <1>3
<1> QED BY <1>1, <1>2, <1>3

\* The game that follows is pitched later.
LEMMA Follows ==
  ASSUME NEW g \in Game, NEW h \in Game, NEW at \in After(g),
         h.season = at.season, h.slot = at.slot
  PROVE  Pitch(g) < Pitch(h) /\ OfficialDate(g) <= OfficialDate(h) /\ g.season <= h.season
<1>1. g.season \in Nat /\ g.slot \in 1..Len(TypeAt) /\ Len(TypeAt) \in Nat
  BY Numbers DEF Game
<1> DEFINE dg == (g.slot - 1) \div 2
           dh == (h.slot - 1) \div 2
           bg == DayTicks * OfficialDate(g)
           bh == DayTicks * OfficialDate(h)
           sg == Days * g.season
           sh == Days * h.season
<1>2. /\ OfficialDate(g) \in Nat /\ OfficialDate(h) \in Nat
      /\ Pitch(g) \in Nat /\ Pitch(h) \in Nat
      /\ OfficialDate(g) = sg + dg /\ OfficialDate(h) = sh + dh
      /\ dg \in 0..(Days - 1) /\ dh \in 0..(Days - 1)
      /\ sg \in Nat /\ sh \in Nat
      /\ Pitch(g) <= bg + SecondTick
      /\ bh + FirstTick <= Pitch(h)
      /\ bg \in Nat /\ bh \in Nat
  BY Placed
<1>0. /\ h.slot = g.slot + 1 /\ g.slot % 2 = 1 => dh = dg /\ h.slot % 2 # 1
      /\ h.slot = g.slot + 1 /\ g.slot % 2 # 1 => dh = dg + 1
      /\ h.slot = 2 * ((g.slot + 1) \div 2) + 1 => dh = dg + 1
  <2>1. g.slot \in Nat \ {0}
    BY <1>1
  <2>2. /\ g.slot % 2 = 1 => /\ ((g.slot + 1) - 1) \div 2 = dg
                             /\ (g.slot + 1) % 2 # 1
        /\ g.slot % 2 # 1 => ((g.slot + 1) - 1) \div 2 = dg + 1
        /\ ((2 * ((g.slot + 1) \div 2) + 1) - 1) \div 2 = dg + 1
    BY <2>1, Halves
  <2>3. ASSUME h.slot = g.slot + 1
        PROVE  dh = ((g.slot + 1) - 1) \div 2 /\ h.slot % 2 = (g.slot + 1) % 2
    BY <2>3, Zenon
  <2>4. ASSUME h.slot = 2 * ((g.slot + 1) \div 2) + 1
        PROVE  dh = ((2 * ((g.slot + 1) \div 2) + 1) - 1) \div 2
    BY <2>4, Zenon
  <2> HIDE DEF dg, dh
  <2> QED BY <2>2, <2>3, <2>4
<1>9. OfficialDate(g) < OfficialDate(h) => bg + DayTicks <= bh
  BY <1>2, LaterDay
<1>10. h.season = g.season + 1 => sh = sg + Days
  BY <1>1, Numbers
<1>11. h.season = g.season => sh = sg
  OBVIOUS
<1>12. /\ Pitch(g) = bg + (IF g.slot % 2 = 1 THEN FirstTick ELSE SecondTick)
       /\ Pitch(h) = bh + (IF h.slot % 2 = 1 THEN FirstTick ELSE SecondTick)
  BY EarlyOrLate
<1>13. OfficialDate(h) = OfficialDate(g) => bh = bg
  OBVIOUS
<1> HIDE DEF dg, dh, bg, bh, sg, sh
<1>3. ASSUME OfficialDate(g) < OfficialDate(h) PROVE Pitch(g) < Pitch(h)
  <2> QED BY <1>2, <1>3, <1>9, Numbers
<1>4. CASE at = [season |-> g.season + 1, slot |-> 1]
  <2>1. h.season = g.season + 1
    BY <1>4
  <2>3. OfficialDate(g) < OfficialDate(h)
    BY <1>2, <1>10, <2>1, Numbers
  <2> QED BY <1>1, <1>2, <1>3, <2>1, <2>3
<1>5. CASE h.season = g.season /\ h.slot = g.slot + 1
  <2>1. CASE g.slot % 2 = 1
    <3>1. dh = dg /\ h.slot % 2 # 1
      BY <1>0, <1>5, <2>1
    <3>2. OfficialDate(h) = OfficialDate(g)
      BY <1>2, <1>5, <1>11, <3>1
    <3>3. Pitch(g) = bg + FirstTick /\ Pitch(h) = bg + SecondTick
      BY <1>12, <1>13, <2>1, <3>1, <3>2
    <3> QED BY <1>1, <1>2, <1>5, <3>2, <3>3, Numbers
  <2>2. CASE g.slot % 2 # 1
    <3>1. dh = dg + 1
      BY <1>0, <1>5, <2>2
    <3> QED BY <1>1, <1>2, <1>3, <1>5, <1>11, <3>1
  <2> QED BY <2>1, <2>2
<1>6. CASE h.season = g.season /\ h.slot = 2 * ((g.slot + 1) \div 2) + 1
  <2>1. dh = dg + 1
    BY <1>0, <1>6
  <2> QED BY <1>1, <1>2, <1>3, <1>6, <1>11, <2>1
<1> QED BY <1>4, <1>5, <1>6 DEF After

\* The record is well formed.
THEOREM RecordInvariant == Spec => []RecordOK(games)
<1>1. Init => RecordOK(games)
  BY DEF Init, RecordOK, Ordered
<1>2. RecordOK(games) /\ [Next]_games => RecordOK(games)'
  <2> SUFFICES ASSUME RecordOK(games), Next PROVE RecordOK(games')
    BY DEF RecordOK, Ordered
  <2>1. PICK home \in Teams, away \in Teams, winner \in {"home", "away", "none"} :
          Play(home, away, winner)
    BY DEF Next
  <2>2. home # away
    BY <2>1, FormAssumption DEF Play
  <2>3. PICK at \in IF games = <<>> THEN Opening ELSE After(games[Len(games)]) :
          games' = Append(games, [season |-> at.season, slot |-> at.slot,
                                  home |-> home, away |-> away, winner |-> winner])
    BY <2>1 DEF Play
  <2> DEFINE g == [season |-> at.season, slot |-> at.slot,
                   home |-> home, away |-> away, winner |-> winner]
             N == Len(games)
  <2>4. /\ games \in Seq(Game) /\ N \in Nat /\ DOMAIN games = 1..N
        /\ \A i \in 1..N : games[i] \in Game
    BY DEF RecordOK
  <2>5. at.season \in Nat /\ at.slot \in DOMAIN TypeAt
    <3>1. CASE games = <<>>
      BY <2>3, <3>1 DEF Opening
    <3>2. CASE games # <<>>
      <4>1. games[N] \in Game
        BY <2>4, <3>2
      <4>2. at \in After(games[N])
        BY <2>3, <3>2
      <4>3. 1 \in DOMAIN TypeAt
        BY Numbers
      <4> QED BY <4>1, <4>2, <4>3 DEF After, Game
    <3> QED BY <3>1, <3>2
  <2>6. g \in Game
    BY <2>1, <2>5 DEF Game
  <2>7. /\ games' \in Seq(Game) /\ Len(games') = N + 1 /\ DOMAIN games' = 1..(N + 1)
        /\ \A i \in 1..N : games'[i] = games[i]
        /\ games'[N + 1] = g
    BY <2>3, <2>4, <2>6
  <2>8. ASSUME NEW i \in 1..N
        PROVE  /\ Pitch(games[i]) < Pitch(g) /\ OfficialDate(games[i]) <= OfficialDate(g)
               /\ games[i].season <= g.season
    <3>1. games # <<>> /\ games[N] \in Game /\ games[i] \in Game /\ N \in DOMAIN games
      BY <2>4, <2>8
    <3>2. at \in After(games[N]) /\ g.season = at.season /\ g.slot = at.slot
      BY <2>3, <3>1
    <3>3. /\ Pitch(games[N]) < Pitch(g) /\ OfficialDate(games[N]) <= OfficialDate(g)
          /\ games[N].season <= g.season
      BY <2>6, <3>1, <3>2, Follows
    <3>4. i = N \/ (/\ Pitch(games[i]) < Pitch(games[N])
                    /\ OfficialDate(games[i]) <= OfficialDate(games[N])
                    /\ games[i].season <= games[N].season)
      <4>1. Ordered(games)
        BY DEF RecordOK
      <4>2. i \in DOMAIN games /\ N \in DOMAIN games /\ (i = N \/ i < N)
        <5> HIDE DEF N
        <5> QED BY <2>4
      <4> HIDE DEF N
      <4> QED BY <4>1, <4>2 DEF Ordered
    <3>5. /\ \A x \in {games[i], games[N], g} : Pitch(x) \in Nat /\ OfficialDate(x) \in Nat
          /\ games[i].season \in Nat /\ games[N].season \in Nat /\ g.season \in Nat
      BY <2>6, <3>1, Placed DEF Game
    <3> HIDE DEF g
    <3> QED BY <3>3, <3>4, <3>5
  <2> HIDE DEF g
  <2>9. Ordered(games')
    <3> SUFFICES ASSUME NEW i \in 1..(N + 1), NEW j \in 1..(N + 1), i < j
                 PROVE  /\ Pitch(games'[i]) < Pitch(games'[j])
                        /\ OfficialDate(games'[i]) <= OfficialDate(games'[j])
                        /\ games'[i].season <= games'[j].season
      BY <2>7 DEF Ordered
    <3>1. i \in 1..N
      BY <2>4
    <3>2. CASE j = N + 1
      BY <2>7, <2>8, <3>1, <3>2
    <3>3. CASE j \in 1..N
      BY <2>4, <2>7, <3>1, <3>3 DEF RecordOK, Ordered
    <3> QED BY <2>4, <3>2, <3>3
  <2>10. \A i \in DOMAIN games' : games'[i].home # games'[i].away
    <3>1. g.home # g.away
      BY <2>2 DEF g
    <3> QED BY <2>4, <2>7, <3>1 DEF RecordOK
  <2> QED BY <2>7, <2>9, <2>10 DEF RecordOK
<1> QED BY <1>1, <1>2, PTL DEF Spec

-----------------------------------------------------------------------------
(* The walk-forward.                                                       *)

\* What the loop leaves, from a cursor on: windows that begin no earlier, each
\* trained up to the day before, and no two of them over the same day.
Apart(steps, c) ==
    /\ \A s \in steps :
        /\ s.test \in Int /\ s.test_end \in Int /\ s.validation \in Int
        /\ c <= s.test /\ s.train_end = s.test - 1
    /\ \A s, u \in steps : s # u => s.test_end < u.test \/ u.test_end < s.test

\* One step of the loop ends before it begins again.
LEMMA StepOf ==
  ASSUME NEW first \in Int, NEW last \in Int, NEW c \in Int, c <= last
  PROVE  LET s == Step(first, last, c)
         IN /\ s.test = c /\ s.train_end = c - 1 /\ s.validation \in Int
            /\ s.test_end \in Int /\ c <= s.test_end /\ s.test_end <= last
<1>1. /\ c - ValidationDays \in Int /\ c + StepDays - 1 \in Int
      /\ c <= c + StepDays - 1
  BY Numbers
<1>2. /\ Max({first, c - ValidationDays}) \in Int
      /\ Min({c + StepDays - 1, last}) \in Int
      /\ c <= Min({c + StepDays - 1, last}) /\ Min({c + StepDays - 1, last}) <= last
  <2> DEFINE a == c - ValidationDays
             b == c + StepDays - 1
  <2>1. a \in Int /\ b \in Int /\ c <= b
    BY <1>1
  <2> HIDE DEF a, b
  <2>2. Max({first, a}) \in Int
    BY <2>1, OfTwo
  <2>3. Min({b, last}) \in Int /\ c <= Min({b, last}) /\ Min({b, last}) <= last
    BY <2>1, OfTwo
  <2> QED BY <2>2, <2>3 DEF a, b
<1> QED BY <1>2 DEF Step

\* The loop, as a function of its cursor.
LEMMA StepsLoop ==
  ASSUME NEW first \in Int, NEW last \in Int, first <= last
  PROVE  \E from :
            /\ MakeSteps(first, last) = from[first]
            /\ \A c \in first..(last + 1) :
                from[c] = IF c > last THEN {}
                          ELSE {s \in {Step(first, last, c)} : s.train_end >= first}
                               \cup from[Step(first, last, c).test_end + 1]
<1> DEFINE Body(f, c) == IF c > last THEN {}
                         ELSE LET step == Step(first, last, c)
                              IN {s \in {step} : s.train_end >= first} \cup f[step.test_end + 1]
           Good == {m \in Nat : \E f : f = [c \in (last + 1 - m)..(last + 1) |-> Body(f, c)]}
<1>1. 0 \in Good
  <2> DEFINE f == [c \in (last + 1)..(last + 1) |-> {}]
  <2>1. f = [c \in (last + 1 - 0)..(last + 1) |-> Body(f, c)]
    OBVIOUS
  <2> HIDE DEF f
  <2> QED BY <2>1
<1>2. ASSUME NEW m \in Good PROVE m + 1 \in Good
  <2>1. m \in Nat
    OBVIOUS
  <2>2. PICK f : f = [c \in (last + 1 - m)..(last + 1) |-> Body(f, c)]
    OBVIOUS
  <2> DEFINE g == [c \in (last - m)..(last + 1) |-> IF c = last - m THEN Body(f, c) ELSE f[c]]
  <2>3. ASSUME NEW c \in (last - m)..(last + 1) PROVE Body(g, c) = Body(f, c)
    <3>1. CASE c > last
      BY <3>1
    <3>2. CASE c <= last
      <4> DEFINE n == Step(first, last, c).test_end + 1
      <4>1. n \in (last + 1 - m)..(last + 1)
        <5>1. c \in Int
          BY <2>1
        <5>2. /\ Step(first, last, c).test_end \in Int
              /\ c <= Step(first, last, c).test_end /\ Step(first, last, c).test_end <= last
          BY <3>2, <5>1, StepOf
        <5> QED BY <2>1, <5>2
      <4>2. g[n] = f[n]
        BY <2>1, <4>1
      <4> HIDE DEF g
      <4> QED BY <4>2, Zenon
    <3> QED BY <3>1, <3>2
  <2>4. ASSUME NEW c \in (last - m)..(last + 1) PROVE g[c] = Body(g, c)
    <3>1. CASE c = last - m
      BY <2>3, <3>1
    <3>2. CASE c # last - m
      <4>1. c \in (last + 1 - m)..(last + 1)
        BY <2>1, <3>2
      <4>2. f[c] = Body(f, c)
        <5> HIDE DEF Body
        <5> QED BY <2>2, <4>1
      <4>3. g[c] = f[c]
        BY <3>2
      <4> QED BY <2>3, <4>2, <4>3
    <3> QED BY <3>1, <3>2
  <2>5. g = [c \in (last + 1 - (m + 1))..(last + 1) |-> Body(g, c)]
    <3>1. last + 1 - (m + 1) = last - m
      BY <2>1
    <3>2. g = [c \in (last - m)..(last + 1) |-> g[c]]
      OBVIOUS
    <3> HIDE DEF g, Body
    <3> QED BY <2>4, <3>1, <3>2
  <2> HIDE DEF g, Body
  <2> QED BY <2>1, <2>5
<1>3. Good = Nat
  <2> HIDE DEF Good
  <2>1. Good \in SUBSET Nat
    BY DEF Good
  <2> QED BY <1>1, <1>2, <2>1, EveryNumber
<1>4. \E f : f = [c \in first..(last + 1) |-> Body(f, c)]
  <2>1. last + 1 - first \in Good /\ last + 1 - (last + 1 - first) = first
    <3> HIDE DEF Good
    <3> QED BY <1>3
  <2> HIDE DEF Body
  <2> QED BY <2>1
<1> DEFINE from == CHOOSE f : f = [c \in first..(last + 1) |-> Body(f, c)]
<1>5. from = [c \in first..(last + 1) |-> Body(from, c)]
  <2> HIDE DEF Body
  <2> QED BY <1>4
<1>6. MakeSteps(first, last) = from[first]
  BY DEF MakeSteps
<1>7. \A c \in first..(last + 1) : from[c] = Body(from, c)
  <2> HIDE DEF Body, from
  <2> QED BY <1>5
<1> HIDE DEF from
<1> QED BY <1>6, <1>7

\* The loop leaves windows apart, by induction on the days left.
LEMMA StepsApart ==
  ASSUME NEW first \in Int, NEW last \in Int, first <= last
  PROVE  Apart(MakeSteps(first, last), first)
<1>1. PICK from :
        /\ MakeSteps(first, last) = from[first]
        /\ \A c \in first..(last + 1) :
            from[c] = IF c > last THEN {}
                      ELSE {s \in {Step(first, last, c)} : s.train_end >= first}
                           \cup from[Step(first, last, c).test_end + 1]
  BY StepsLoop
<1> DEFINE Good == {m \in Nat : \A c \in first..(last + 1) : last + 1 - c <= m => Apart(from[c], c)}
<1>2. 0 \in Good
  <2> SUFFICES ASSUME NEW c \in first..(last + 1), last + 1 - c <= 0 PROVE Apart(from[c], c)
    OBVIOUS
  <2>1. c > last
    OBVIOUS
  <2>2. from[c] = {}
    BY <1>1, <2>1
  <2> QED BY <2>2 DEF Apart
<1>3. ASSUME NEW m \in Good PROVE m + 1 \in Good
  <2> SUFFICES ASSUME NEW c \in first..(last + 1), last + 1 - c <= m + 1
               PROVE  Apart(from[c], c)
    OBVIOUS
  <2>0. m \in Nat
    OBVIOUS
  <2>1. CASE c > last
    <3>1. from[c] = {}
      BY <1>1, <2>1
    <3> QED BY <3>1 DEF Apart
  <2>2. CASE c <= last
    <3> DEFINE step == Step(first, last, c)
               n == step.test_end + 1
    <3>1. /\ step.test = c /\ step.train_end = c - 1 /\ step.validation \in Int
          /\ step.test_end \in Int /\ c <= step.test_end /\ step.test_end <= last
      BY <2>2, StepOf
    <3>2. from[c] = {s \in {step} : s.train_end >= first} \cup from[n]
      <4>1. ~ (c > last)
        BY <2>2
      <4> QED BY <1>1, <4>1
    <3>3. n \in first..(last + 1) /\ last + 1 - n <= m
      BY <2>0, <3>1
    <3>4. Apart(from[n], n)
      BY <3>3
    <3> HIDE DEF step
    <3>5. \A s \in from[c] : s = step \/ s \in from[n]
      BY <3>2
    <3>6. n \in Int /\ c < n /\ step.test_end < n
      BY <3>1
    <3> HIDE DEF n
    <3>7. \A s \in from[c] : /\ s.test \in Int /\ s.test_end \in Int /\ s.validation \in Int
                             /\ c <= s.test /\ s.train_end = s.test - 1
      BY <3>1, <3>4, <3>5, <3>6 DEF Apart
    <3>8. \A s, u \in from[c] : s # u => s.test_end < u.test \/ u.test_end < s.test
      BY <3>1, <3>4, <3>5, <3>6 DEF Apart
    <3> QED BY <3>7, <3>8 DEF Apart
  <2> QED BY <2>1, <2>2
<1>4. Good = Nat
  <2> HIDE DEF Good
  <2>1. Good \in SUBSET Nat
    BY DEF Good
  <2> QED BY <1>2, <1>3, <2>1, EveryNumber
<1>5. last + 1 - first \in Good /\ first \in first..(last + 1)
  <2> HIDE DEF Good
  <2> QED BY <1>4
<1> QED BY <1>1, <1>5

\* The first and the last day of the rows.
LEMMA DatesOf ==
  ASSUME NEW gs, RecordOK(gs), Rows(gs) # {}
  PROVE  /\ Min(Dates(gs)) \in Int /\ Max(Dates(gs)) \in Int
         /\ Min(Dates(gs)) <= Max(Dates(gs))
         /\ \A i \in Rows(gs) : /\ OfficialDate(gs[i]) \in Int
                                /\ Min(Dates(gs)) <= OfficialDate(gs[i])
                                /\ OfficialDate(gs[i]) <= Max(Dates(gs))
<1>1. /\ gs \in Seq(Game) /\ Len(gs) \in Nat /\ DOMAIN gs = 1..Len(gs)
      /\ \A i \in DOMAIN gs : gs[i] \in Game
  BY DEF RecordOK
<1>2. Rows(gs) \subseteq DOMAIN gs
  BY DEF Rows, Done
<1>3. \A i \in DOMAIN gs : OfficialDate(gs[i]) \in Nat
  BY <1>1, Placed
<1>4. Dates(gs) \in SUBSET Int /\ Dates(gs) # {} /\ \A d \in Dates(gs) : 0 <= d
  BY <1>2, <1>3 DEF Dates
<1>5. Min(Dates(gs)) \in Dates(gs) /\ \A d \in Dates(gs) : Min(Dates(gs)) <= d
  BY <1>4, MinOf
<1>6. \A d \in Dates(gs) : d <= OfficialDate(gs[Len(gs)])
  <2> SUFFICES ASSUME NEW i \in Rows(gs) PROVE OfficialDate(gs[i]) <= OfficialDate(gs[Len(gs)])
    BY DEF Dates
  <2>1. i \in DOMAIN gs /\ Len(gs) \in DOMAIN gs /\ (i = Len(gs) \/ i < Len(gs))
    BY <1>1, <1>2
  <2>2. OfficialDate(gs[Len(gs)]) \in Nat
    BY <1>3, <2>1
  <2> QED BY <2>1, <2>2 DEF RecordOK, Ordered
<1>7. OfficialDate(gs[Len(gs)]) \in Int
  BY <1>1, <1>2, <1>3
<1>8. Max(Dates(gs)) \in Dates(gs) /\ \A d \in Dates(gs) : d <= Max(Dates(gs))
  BY <1>4, <1>6, <1>7, MaxOf
<1>9. \A i \in Rows(gs) : OfficialDate(gs[i]) \in Dates(gs)
  BY DEF Dates
<1> QED BY <1>4, <1>5, <1>8, <1>9

\* Core and validation are apart, or there is no validation.
LEMMA CalibrationApart ==
  ASSUME NEW gs, NEW rows, NEW from, NEW to, NEW cut \in Int, NEW train, NEW least,
         \A i \in rows : OfficialDate(gs[i]) \in Int
  PROVE  LET c == Calibration(On(gs, rows, from, cut - 1), On(gs, rows, cut, to), train, least)
         IN c.core \cap c.validation = {}
<1>1. On(gs, rows, from, cut - 1) \cap On(gs, rows, cut, to) = {}
  <2> SUFFICES ASSUME NEW i \in rows, OfficialDate(gs[i]) \in from..(cut - 1),
                      OfficialDate(gs[i]) \in cut..to
               PROVE  FALSE
    BY DEF On
  <2> QED BY DEF On
<1> QED BY <1>1 DEF Calibration

\* A game of an earlier day is known when one of a later day is forecast.
LEMMA KnownOvernight ==
  ASSUME Overnight, NEW g \in Game, NEW h \in Game, OfficialDate(g) < OfficialDate(h)
  PROVE  Known(g) <= AsOf(h)
<1> DEFINE bg == DayTicks * OfficialDate(g)
           bh == DayTicks * OfficialDate(h)
<1>1. /\ OfficialDate(g) \in Nat /\ OfficialDate(h) \in Nat
      /\ Pitch(g) \in Nat /\ Pitch(h) \in Nat /\ bg \in Nat /\ bh \in Nat
      /\ Pitch(g) <= bg + SecondTick /\ bh + FirstTick <= Pitch(h)
      /\ Known(g) = Pitch(g) + Lag /\ AsOf(h) = Pitch(h) - Ahead
  BY Placed
<1>2. bg + DayTicks <= bh
  BY <1>1, LaterDay
<1> HIDE DEF bg, bh
<1> QED BY <1>1, <1>2, Numbers DEF Overnight

\* The walk-forward over any record is sound.
LEMMA Sound ==
  ASSUME Overnight, RecordOK(games)
  PROVE  StepsSound
<1>1. \A i \in DOMAIN games : games[i] \in Game
  BY DEF RecordOK
<1>2. Rows(games) \subseteq DOMAIN games
  BY DEF Rows, Done
<1>3. CASE Rows(games) = {}
  BY <1>3 DEF StepsSound, Steps
<1>4. CASE Rows(games) # {}
  <2> DEFINE first == Min(Dates(games))
             last == Max(Dates(games))
  <2>1. /\ first \in Int /\ last \in Int /\ first <= last
        /\ \A i \in Rows(games) : OfficialDate(games[i]) \in Int
    BY <1>4, DatesOf
  <2>2. Apart(Steps(games), first)
    <3>1. Apart(MakeSteps(first, last), first)
      <4> HIDE DEF first, last
      <4> QED BY <2>1, StepsApart
    <3> QED BY <1>4, <3>1 DEF Steps
  <2>3. ASSUME NEW step \in Steps(games)
        PROVE  LET fit == StepFit(games, step)
               IN /\ \A i \in fit.train : i \in Rows(games) /\ OfficialDate(games[i]) < step.test
                  /\ \A j \in fit.test : /\ j \in Rows(games)
                                         /\ step.test <= OfficialDate(games[j])
                                         /\ OfficialDate(games[j]) <= step.test_end
                  /\ fit.core \cap fit.validation = {}
    <3>1. /\ step.test \in Int /\ step.test_end \in Int /\ step.validation \in Int
          /\ step.train_end = step.test - 1
      BY <2>2 DEF Apart
    <3> DEFINE train == On(games, Rows(games), first, step.train_end)
               test == On(games, Rows(games), step.test, step.test_end)
               fit == Calibration(On(games, train, first, step.validation - 1),
                                  On(games, train, step.validation, step.train_end), train,
                                  MinRows \div 2)
    <3>2. StepFit(games, step) =
            IF Cardinality(train) < MinRows \/ test = {} THEN Skipped
            ELSE [train |-> train, test |-> test, core |-> fit.core, validation |-> fit.validation]
      BY Zenon DEF StepFit
    <3>3. \A i \in train : i \in Rows(games) /\ OfficialDate(games[i]) < step.test
      BY <2>1, <3>1 DEF On
    <3>4. \A j \in test : /\ j \in Rows(games) /\ step.test <= OfficialDate(games[j])
                          /\ OfficialDate(games[j]) <= step.test_end
      BY <2>1, <3>1 DEF On
    <3>5. fit.core \cap fit.validation = {}
      <4>1. \A i \in train : OfficialDate(games[i]) \in Int
        BY <2>1, <3>3
      <4> HIDE DEF train
      <4> QED BY <3>1, <4>1, CalibrationApart
    <3> HIDE DEF train, test, fit
    <3>6. CASE Cardinality(train) < MinRows \/ test = {}
      BY <3>2, <3>6 DEF Skipped
    <3>7. CASE ~ (Cardinality(train) < MinRows \/ test = {})
      BY <3>2, <3>3, <3>4, <3>5, <3>7
    <3> QED BY <3>6, <3>7
  <2>4. ASSUME NEW step \in Steps(games), NEW i \in StepFit(games, step).train,
               NEW j \in StepFit(games, step).test
        PROVE  Known(games[i]) <= AsOf(games[j])
    <3>1. /\ i \in Rows(games) /\ j \in Rows(games)
          /\ OfficialDate(games[i]) < step.test /\ step.test <= OfficialDate(games[j])
      BY <2>3
    <3>2. step.test \in Int
      BY <2>2 DEF Apart
    <3>3. games[i] \in Game /\ games[j] \in Game /\ OfficialDate(games[i]) < OfficialDate(games[j])
      BY <1>1, <1>2, <2>1, <3>1, <3>2
    <3> QED BY <3>3, KnownOvernight
  <2>5. ASSUME NEW k \in Steps(games), NEW l \in Steps(games), k # l
        PROVE  StepFit(games, k).test \cap StepFit(games, l).test = {}
    <3> SUFFICES ASSUME NEW j \in StepFit(games, k).test, j \in StepFit(games, l).test
                 PROVE  FALSE
      OBVIOUS
    <3>1. /\ j \in Rows(games)
          /\ k.test <= OfficialDate(games[j]) /\ OfficialDate(games[j]) <= k.test_end
      BY <2>3
    <3>2. l.test <= OfficialDate(games[j]) /\ OfficialDate(games[j]) <= l.test_end
      BY <2>3
    <3>3. /\ k.test \in Int /\ k.test_end \in Int /\ l.test \in Int /\ l.test_end \in Int
          /\ k.test_end < l.test \/ l.test_end < k.test
      BY <2>2, <2>5 DEF Apart
    <3> QED BY <2>1, <3>1, <3>2, <3>3
  <2>6. FinalFit(games).core \cap FinalFit(games).validation = {}
    <3>1. last - ValidationDays \in Int /\ last - ValidationDays - 1 = (last - ValidationDays) - 1
      BY <2>1, Numbers
    <3> DEFINE cut == last - ValidationDays
    <3>2. FinalFit(games) = Calibration(On(games, Rows(games), first, cut - 1),
                                        On(games, Rows(games), cut, last), Rows(games), MinRows)
      BY <3>1, Zenon DEF FinalFit
    <3> HIDE DEF cut, first
    <3>3. cut \in Int
      BY <3>1 DEF cut
    <3> QED BY <2>1, <3>2, <3>3, CalibrationApart
  <2>7. \A step \in Steps(games) : StepFit(games, step).core \cap StepFit(games, step).validation = {}
    BY <2>3
  <2> QED BY <2>4, <2>5, <2>6, <2>7, Zenon DEF StepsSound
<1> QED BY <1>3, <1>4

\* A walk-forward is trained on nothing that was not known when the first game
\* it is tested on was forecast, tests no game twice, and calibrates on games
\* the classifier underneath has not seen (make_steps, run_walk_forward,
\* fit_final_model).
THEOREM StepsCorrect ==
  ASSUME Overnight
  PROVE  Spec => []StepsSound
<1>1. RecordOK(games) => StepsSound
  BY Sound
<1> QED BY <1>1, RecordInvariant, PTL

-----------------------------------------------------------------------------
(* The engine.                                                             *)

\* What a record gives of each of its games.
LEMMA RecordGames ==
  ASSUME NEW gs, RecordOK(gs)
  PROVE  /\ Len(gs) \in Nat /\ DOMAIN gs = 1..Len(gs)
         /\ \A i \in DOMAIN gs :
              /\ gs[i] \in Game /\ gs[i].season \in Nat
              /\ gs[i].home \in Teams /\ gs[i].away \in Teams /\ gs[i].home # gs[i].away
              /\ OfficialDate(gs[i]) \in Nat /\ Pitch(gs[i]) \in Nat
              /\ Known(gs[i]) = Pitch(gs[i]) + Lag /\ AsOf(gs[i]) = Pitch(gs[i]) - Ahead
<1>1. gs \in Seq(Game)
  BY DEF RecordOK
<1>2. \A i \in DOMAIN gs : gs[i] \in Game
  BY <1>1
<1>3. \A i \in DOMAIN gs : /\ OfficialDate(gs[i]) \in Nat /\ Pitch(gs[i]) \in Nat
                           /\ Known(gs[i]) = Pitch(gs[i]) + Lag
                           /\ AsOf(gs[i]) = Pitch(gs[i]) - Ahead
  BY <1>2, Placed
<1>4. \A i \in DOMAIN gs : gs[i].season \in Nat /\ gs[i].home \in Teams /\ gs[i].away \in Teams
  BY <1>2 DEF Game
<1> QED BY <1>1, <1>2, <1>3, <1>4 DEF RecordOK

\* A later game is known later.
LEMMA KnownInOrder ==
  ASSUME NEW gs, RecordOK(gs), NEW i \in DOMAIN gs, NEW j \in DOMAIN gs, i <= j
  PROVE  /\ Pitch(gs[i]) <= Pitch(gs[j]) /\ Known(gs[i]) <= Known(gs[j])
         /\ gs[i].season <= gs[j].season
         /\ OfficialDate(gs[i]) <= OfficialDate(gs[j])
<1>1. i = j \/ i < j
  BY RecordGames
<1>2. /\ Pitch(gs[i]) \in Nat /\ Pitch(gs[j]) \in Nat
      /\ Known(gs[i]) = Pitch(gs[i]) + Lag /\ Known(gs[j]) = Pitch(gs[j]) + Lag
      /\ gs[i].season \in Nat /\ gs[j].season \in Nat
      /\ OfficialDate(gs[i]) \in Nat /\ OfficialDate(gs[j]) \in Nat
  BY RecordGames
<1>3. i < j => /\ Pitch(gs[i]) < Pitch(gs[j]) /\ gs[i].season <= gs[j].season
               /\ OfficialDate(gs[i]) <= OfficialDate(gs[j])
  BY DEF RecordOK, Ordered
<1> QED BY <1>1, <1>2, <1>3, Numbers

\* The pass over the record, as a function of the games passed.
LEMMA EloLoop ==
  ASSUME NEW gs, Len(gs) \in Nat, NEW types
  PROVE  LET elo == EloHistory(gs, types)
         IN /\ elo[0] = EloStart
            /\ \A n \in 1..Len(gs) :
                elo[n] = IF n \in Done(gs, types) THEN Observe(elo[n - 1], gs[n], n)
                         ELSE elo[n - 1]
<1> DEFINE Body(f, n) == IF n = 0 THEN EloStart
                         ELSE IF n \in Done(gs, types) THEN Observe(f[n - 1], gs[n], n)
                         ELSE f[n - 1]
           Good == {m \in Nat : \E f : f = [n \in 0..m |-> Body(f, n)]}
<1>1. 0 \in Good
  <2> DEFINE f == [n \in 0..0 |-> EloStart]
  <2>1. f = [n \in 0..0 |-> Body(f, n)]
    OBVIOUS
  <2> HIDE DEF f
  <2> QED BY <2>1
<1>2. ASSUME NEW m \in Good PROVE m + 1 \in Good
  <2>1. m \in Nat
    OBVIOUS
  <2>2. PICK f : f = [n \in 0..m |-> Body(f, n)]
    OBVIOUS
  <2> DEFINE g == [n \in 0..(m + 1) |-> IF n = m + 1 THEN Body(f, n) ELSE f[n]]
  <2>3. ASSUME NEW n \in 0..(m + 1) PROVE Body(g, n) = Body(f, n)
    <3>1. CASE n = 0
      BY <3>1
    <3>2. CASE n # 0
      <4>1. n - 1 \in 0..m
        BY <2>1, <3>2
      <4>2. g[n - 1] = f[n - 1]
        BY <2>1, <4>1
      <4> HIDE DEF g
      <4> QED BY <4>2, Zenon
    <3> QED BY <3>1, <3>2
  <2>4. ASSUME NEW n \in 0..(m + 1) PROVE g[n] = Body(g, n)
    <3>1. CASE n = m + 1
      BY <2>3, <3>1
    <3>2. CASE n # m + 1
      <4>1. n \in 0..m
        BY <2>1, <3>2
      <4>2. f[n] = Body(f, n)
        <5> HIDE DEF Body
        <5> QED BY <2>2, <4>1
      <4>3. g[n] = f[n]
        BY <3>2
      <4> QED BY <2>3, <4>2, <4>3
    <3> QED BY <3>1, <3>2
  <2>5. g = [n \in 0..(m + 1) |-> Body(g, n)]
    <3>1. g = [n \in 0..(m + 1) |-> g[n]]
      OBVIOUS
    <3> HIDE DEF g, Body
    <3> QED BY <2>4, <3>1
  <2> HIDE DEF g, Body
  <2> QED BY <2>1, <2>5
<1>3. Good = Nat
  <2> HIDE DEF Good
  <2>1. Good \in SUBSET Nat
    BY DEF Good
  <2> QED BY <1>1, <1>2, <2>1, EveryNumber
<1>4. \E f : f = [n \in 0..Len(gs) |-> Body(f, n)]
  <2>1. Len(gs) \in Good
    <3> HIDE DEF Good
    <3> QED BY <1>3
  <2> HIDE DEF Body
  <2> QED BY <2>1
<1> DEFINE elo == CHOOSE f : f = [n \in 0..Len(gs) |-> Body(f, n)]
<1>5. elo = [n \in 0..Len(gs) |-> Body(elo, n)]
  <2> HIDE DEF Body
  <2> QED BY <1>4
<1>6. EloHistory(gs, types) = elo
  BY DEF EloHistory
<1>7. \A n \in 0..Len(gs) : elo[n] = Body(elo, n)
  <2> HIDE DEF Body, elo
  <2> QED BY <1>5
<1> HIDE DEF elo
<1>8. elo[0] = EloStart
  BY <1>7
<1>9. ASSUME NEW n \in 1..Len(gs)
      PROVE  elo[n] = IF n \in Done(gs, types) THEN Observe(elo[n - 1], gs[n], n) ELSE elo[n - 1]
  <2>1. n \in 0..Len(gs) /\ n # 0
    OBVIOUS
  <2> QED BY <1>7, <2>1
<1> QED BY <1>6, <1>8, <1>9

-----------------------------------------------------------------------------
(* What is known at a time.                                                *)

\* A record as known at a time keeps its games and loses results.
LEMMA KnownRecord ==
  ASSUME NEW gs, RecordOK(gs), NEW T \in Int
  PROVE  LET then == KnownBy(gs, T)
         IN /\ DOMAIN then = DOMAIN gs /\ Len(then) = Len(gs)
            /\ \A i \in DOMAIN gs : Known(gs[i]) <= T => then[i] = gs[i]
            /\ \A types : Done(then, types) = {i \in Done(gs, types) : Known(gs[i]) <= T}
<1> DEFINE then == KnownBy(gs, T)
<1>1. then = [i \in 1..Len(gs) |-> then[i]] /\ DOMAIN then = DOMAIN gs
  BY RecordGames DEF KnownBy
<1>2. Len(then) = Len(gs)
  <2> HIDE DEF then
  <2> QED BY <1>1, RecordGames
<1>3. \A i \in DOMAIN gs : Known(gs[i]) <= T => then[i] = gs[i]
  BY DEF KnownBy
<1>4. ASSUME NEW i \in DOMAIN gs, ~ (Known(gs[i]) <= T) PROVE ~ Final(then[i])
  <2>1. gs[i] \in Game
    BY RecordGames
  <2>2. then[i] = [gs[i] EXCEPT !.winner = "none"]
    BY <1>4 DEF KnownBy
  <2>3. then[i].winner = "none"
    BY <2>1, <2>2 DEF Game
  <2> QED BY <2>3 DEF Final
<1> HIDE DEF then
<1>5. \A types : Done(then, types) = {i \in Done(gs, types) : Known(gs[i]) <= T}
  BY <1>1, <1>3, <1>4 DEF Done
<1> QED BY <1>1, <1>2, <1>3, <1>5 DEF then

\* The engine stands the same after a game that is known.
LEMMA SameElo ==
  ASSUME NEW gs, RecordOK(gs), NEW T \in Int, NEW types
  PROVE  \A n \in 0..Len(gs) :
           (n # 0 => Known(gs[n]) <= T) =>
             EloHistory(KnownBy(gs, T), types)[n] = EloHistory(gs, types)[n]
<1> DEFINE then == KnownBy(gs, T)
           a == EloHistory(gs, types)
           b == EloHistory(then, types)
           Good == {n \in Nat : n <= Len(gs) => ((n # 0 => Known(gs[n]) <= T) => b[n] = a[n])}
<1>0. /\ Len(then) = Len(gs) /\ Len(gs) \in Nat
      /\ \A i \in DOMAIN gs : Known(gs[i]) <= T => then[i] = gs[i]
      /\ Done(then, types) = {i \in Done(gs, types) : Known(gs[i]) <= T}
  BY KnownRecord, RecordGames
<1>1. /\ a[0] = EloStart
      /\ \A n \in 1..Len(gs) :
           a[n] = IF n \in Done(gs, types) THEN Observe(a[n - 1], gs[n], n) ELSE a[n - 1]
  BY <1>0, EloLoop
<1>2. /\ b[0] = EloStart
      /\ \A n \in 1..Len(gs) :
           b[n] = IF n \in Done(then, types) THEN Observe(b[n - 1], then[n], n) ELSE b[n - 1]
  <2> HIDE DEF then
  <2>1. /\ b[0] = EloStart
        /\ \A n \in 1..Len(then) :
             b[n] = IF n \in Done(then, types) THEN Observe(b[n - 1], then[n], n) ELSE b[n - 1]
    BY <1>0, EloLoop
  <2> QED BY <1>0, <2>1
<1> HIDE DEF a, b, then
<1>3. 0 \in Good
  BY <1>1, <1>2
<1>4. ASSUME NEW n \in Good PROVE n + 1 \in Good
  <2> SUFFICES ASSUME n + 1 <= Len(gs), Known(gs[n + 1]) <= T PROVE b[n + 1] = a[n + 1]
    OBVIOUS
  <2>1. n \in Nat /\ n + 1 \in DOMAIN gs /\ n + 1 \in 1..Len(gs) /\ (n + 1) - 1 = n
    BY RecordGames
  <2>2. n # 0 => Known(gs[n]) <= T
    <3> SUFFICES ASSUME n # 0 PROVE Known(gs[n]) <= T
      OBVIOUS
    <3>1. n \in DOMAIN gs /\ n <= n + 1
      BY <2>1, RecordGames
    <3>2. Known(gs[n]) <= Known(gs[n + 1])
      BY <2>1, <3>1, KnownInOrder
    <3>3. Known(gs[n]) \in Int /\ Known(gs[n + 1]) \in Int
      BY <2>1, <3>1, RecordGames, Numbers
    <3> QED BY <3>2, <3>3
  <2>3. b[n] = a[n]
    BY <2>1, <2>2, RecordGames
  <2>4. then[n + 1] = gs[n + 1] /\ (n + 1 \in Done(then, types) <=> n + 1 \in Done(gs, types))
    BY <1>0, <2>1
  <2> QED BY <1>1, <1>2, <2>1, <2>3, <2>4
<1>5. Good = Nat
  <2> HIDE DEF Good
  <2>1. Good \in SUBSET Nat
    BY DEF Good
  <2> QED BY <1>3, <1>4, <2>1, EveryNumber
<1>6. ASSUME NEW n \in 0..Len(gs), n # 0 => Known(gs[n]) <= T PROVE b[n] = a[n]
  <2>1. n \in Good
    <3> HIDE DEF Good
    <3> QED BY <1>5, RecordGames
  <2> QED BY <1>6, <2>1, RecordGames
<1> QED BY <1>6 DEF a, b, then

\* The snapshots at a time are those of the games that are known.
LEMMA SameSnapshots ==
  ASSUME NEW gs, RecordOK(gs), NEW T \in Int
  PROVE  Snapshots(KnownBy(gs, T)) = {s \in Snapshots(gs) : s.known <= T}
<1> DEFINE then == KnownBy(gs, T)
           a == EloHistory(gs, Competitive)
           b == EloHistory(then, Competitive)
           Of1(i) == [id |-> i, known |-> Known(gs[i]), season |-> gs[i].season,
                      teams |-> Plays(gs[i]), rating |-> a[i].rating]
           Of2(i) == [id |-> i, known |-> Known(then[i]), season |-> then[i].season,
                      teams |-> Plays(then[i]), rating |-> b[i].rating]
           known == {i \in Done(gs, Competitive) : Known(gs[i]) <= T}
<1>1. /\ \A i \in DOMAIN gs : Known(gs[i]) <= T => then[i] = gs[i]
      /\ Done(then, Competitive) = known
      /\ DOMAIN gs = 1..Len(gs) /\ Len(gs) \in Nat
  BY KnownRecord, RecordGames
<1>2. \A i \in known : b[i] = a[i] /\ then[i] = gs[i]
  <2>1. \A i \in known : i \in DOMAIN gs /\ i \in 0..Len(gs)
    BY <1>1 DEF Done
  <2> QED BY <1>1, <2>1, SameElo
<1>3. Snapshots(gs) = {Of1(i) : i \in Done(gs, Competitive)}
  BY DEF Snapshots
<1>4. Snapshots(then) = {Of2(i) : i \in known}
  BY <1>1, Zenon DEF Snapshots
<1>5. \A i \in known : Of2(i) = Of1(i)
  <2> HIDE DEF a, b, then
  <2> QED BY <1>2
<1>6. \A i : Of1(i).known = Known(gs[i])
  OBVIOUS
<1> HIDE DEF Of1, Of2
<1> QED BY <1>3, <1>4, <1>5, <1>6

\* A rating read at a time rests on what was known then.
LEMMA SameRating ==
  ASSUME NEW gs, RecordOK(gs), NEW T \in Int, NEW t
  PROVE  RatingAt(KnownBy(gs, T), t, T) = RatingAt(gs, t, T)
<1> DEFINE a == Snapshots(gs)
           b == Snapshots(KnownBy(gs, T))
<1>1. b = {s \in a : s.known <= T}
  BY SameSnapshots
<1> HIDE DEF a, b
<1>2. {s \in b : t \in s.teams /\ s.known <= T} = {s \in a : t \in s.teams /\ s.known <= T}
  BY <1>1
<1>3. {x \in b : x.known <= T} = {x \in a : x.known <= T}
  BY <1>1
<1>4. \A season : RegressionsSince(b, season, T) = RegressionsSince(a, season, T)
  BY <1>3, Zenon DEF RegressionsSince
<1> QED BY <1>2, <1>4, Zenon DEF RatingAt, a, b

-----------------------------------------------------------------------------
(* The log.                                                                *)

\* The row of one side of a game, by what stood before it.
RowOf(gs, log, i, t) ==
    LogRow(gs[i], i, Pregame(EloHistory(gs, {"R"}), gs, i), LastRow(log, t, gs[i].season), t)

\* The log, as a function of the games passed.
LEMMA LogLoop ==
  ASSUME NEW gs, Len(gs) \in Nat
  PROVE  LET log == Logs(gs)
         IN /\ log[0] = {}
            /\ \A n \in 1..Len(gs) :
                log[n] = IF n \in Done(gs, {"R"})
                         THEN log[n - 1] \cup {RowOf(gs, log[n - 1], n, t) : t \in Plays(gs[n])}
                         ELSE log[n - 1]
<1> DEFINE elo == EloHistory(gs, {"R"})
           Body(f, n) ==
              IF n = 0 THEN {}
              ELSE IF n \in Done(gs, {"R"})
              THEN f[n - 1] \cup
                   {LogRow(gs[n], n, Pregame(elo, gs, n), LastRow(f[n - 1], t, gs[n].season), t) :
                       t \in Plays(gs[n])}
              ELSE f[n - 1]
           Good == {m \in Nat : \E f : f = [n \in 0..m |-> Body(f, n)]}
<1>1. 0 \in Good
  <2> DEFINE f == [n \in 0..0 |-> {}]
  <2>1. f = [n \in 0..0 |-> Body(f, n)]
    OBVIOUS
  <2> HIDE DEF f
  <2> QED BY <2>1
<1>2. ASSUME NEW m \in Good PROVE m + 1 \in Good
  <2>1. m \in Nat
    OBVIOUS
  <2>2. PICK f : f = [n \in 0..m |-> Body(f, n)]
    OBVIOUS
  <2> DEFINE g == [n \in 0..(m + 1) |-> IF n = m + 1 THEN Body(f, n) ELSE f[n]]
  <2>3. ASSUME NEW n \in 0..(m + 1) PROVE Body(g, n) = Body(f, n)
    <3>1. CASE n = 0
      BY <3>1
    <3>2. CASE n # 0
      <4>1. n - 1 \in 0..m
        BY <2>1, <3>2
      <4>2. g[n - 1] = f[n - 1]
        BY <2>1, <4>1
      <4> HIDE DEF g
      <4> QED BY <4>2, Zenon
    <3> QED BY <3>1, <3>2
  <2>4. ASSUME NEW n \in 0..(m + 1) PROVE g[n] = Body(g, n)
    <3>1. CASE n = m + 1
      <4> HIDE DEF Body
      <4> QED BY <2>3, <3>1
    <3>2. CASE n # m + 1
      <4>1. n \in 0..m
        BY <2>1, <3>2
      <4>2. f[n] = Body(f, n)
        <5> HIDE DEF Body
        <5> QED BY <2>2, <4>1
      <4>3. g[n] = f[n]
        BY <3>2
      <4> HIDE DEF Body, g
      <4> QED BY <2>3, <4>2, <4>3
    <3> QED BY <3>1, <3>2
  <2>5. g = [n \in 0..(m + 1) |-> Body(g, n)]
    <3>1. g = [n \in 0..(m + 1) |-> g[n]]
      OBVIOUS
    <3> HIDE DEF g, Body
    <3> QED BY <2>4, <3>1
  <2> HIDE DEF g, Body
  <2> QED BY <2>1, <2>5
<1>3. Good = Nat
  <2> HIDE DEF Good
  <2>1. Good \in SUBSET Nat
    BY DEF Good
  <2> QED BY <1>1, <1>2, <2>1, EveryNumber
<1>4. \E f : f = [n \in 0..Len(gs) |-> Body(f, n)]
  <2>1. Len(gs) \in Good
    <3> HIDE DEF Good
    <3> QED BY <1>3
  <2> HIDE DEF Body
  <2> QED BY <2>1
<1> DEFINE log == CHOOSE f : f = [n \in 0..Len(gs) |-> Body(f, n)]
<1>5. log = [n \in 0..Len(gs) |-> Body(log, n)]
  <2> HIDE DEF Body
  <2> QED BY <1>4
<1>6. Logs(gs) = log
  BY DEF Logs
<1>7. \A n \in 0..Len(gs) : log[n] = Body(log, n)
  <2> HIDE DEF Body, log
  <2> QED BY <1>5
<1> HIDE DEF log
<1>8. log[0] = {}
  <2>1. log[0] = Body(log, 0)
    <3> HIDE DEF Body
    <3> QED BY <1>7
  <2> QED BY <2>1
<1>9. ASSUME NEW n \in 1..Len(gs)
      PROVE  log[n] = IF n \in Done(gs, {"R"})
                      THEN log[n - 1] \cup {RowOf(gs, log[n - 1], n, t) : t \in Plays(gs[n])}
                      ELSE log[n - 1]
  <2>1. n \in 0..Len(gs) /\ n # 0
    OBVIOUS
  <2>2. log[n] = Body(log, n)
    <3> HIDE DEF Body
    <3> QED BY <1>7, <2>1
  <2> QED BY <2>1, <2>2, Zenon DEF RowOf
<1> QED BY <1>6, <1>8, <1>9

\* The rows of a game stand in every log from that game on, and no others do.
LEMMA LogRows ==
  ASSUME NEW gs, RecordOK(gs)
  PROVE  \A n \in 0..Len(gs) :
           Logs(gs)[n] = UNION {{RowOf(gs, Logs(gs)[i - 1], i, t) : t \in Plays(gs[i])} :
                                   i \in {k \in Done(gs, {"R"}) : k <= n}}
<1> DEFINE log == Logs(gs)
           Pair(i) == {RowOf(gs, log[i - 1], i, t) : t \in Plays(gs[i])}
           Upto(n) == {k \in Done(gs, {"R"}) : k <= n}
           Good == {n \in Nat : n <= Len(gs) => log[n] = UNION {Pair(i) : i \in Upto(n)}}
<1>0. Len(gs) \in Nat /\ DOMAIN gs = 1..Len(gs) /\ Done(gs, {"R"}) \subseteq 1..Len(gs)
  BY RecordGames DEF Done
<1>1. /\ log[0] = {}
      /\ \A n \in 1..Len(gs) :
           log[n] = IF n \in Done(gs, {"R"}) THEN log[n - 1] \cup Pair(n) ELSE log[n - 1]
  BY <1>0, LogLoop, Zenon
<1> HIDE DEF log, Pair
<1>2. 0 \in Good
  <2>1. Upto(0) = {}
    BY <1>0
  <2> QED BY <1>1, <2>1
<1>3. ASSUME NEW n \in Good PROVE n + 1 \in Good
  <2> SUFFICES ASSUME n + 1 <= Len(gs)
               PROVE  log[n + 1] = UNION {Pair(i) : i \in Upto(n + 1)}
    OBVIOUS
  <2>1. n \in Nat /\ n + 1 \in 1..Len(gs) /\ (n + 1) - 1 = n /\ n <= Len(gs)
    BY <1>0
  <2>2. log[n] = UNION {Pair(i) : i \in Upto(n)}
    BY <2>1
  <2>3. CASE n + 1 \in Done(gs, {"R"})
    <3>1. Upto(n + 1) = Upto(n) \cup {n + 1}
      BY <1>0, <2>1, <2>3
    <3>2. log[n + 1] = log[n] \cup Pair(n + 1)
      BY <1>1, <2>1, <2>3
    <3> HIDE DEF Upto
    <3> QED BY <2>2, <3>1, <3>2
  <2>4. CASE n + 1 \notin Done(gs, {"R"})
    <3>1. Upto(n + 1) = Upto(n)
      BY <1>0, <2>1, <2>4
    <3>2. log[n + 1] = log[n]
      BY <1>1, <2>1, <2>4
    <3> HIDE DEF Upto
    <3> QED BY <2>2, <3>1, <3>2
  <2> QED BY <2>3, <2>4
<1>4. Good = Nat
  <2> HIDE DEF Good
  <2>1. Good \in SUBSET Nat
    BY DEF Good
  <2> QED BY <1>2, <1>3, <2>1, EveryNumber
<1>5. ASSUME NEW n \in 0..Len(gs) PROVE log[n] = UNION {Pair(i) : i \in Upto(n)}
  <2>1. n \in Good /\ n <= Len(gs)
    <3> HIDE DEF Good
    <3> QED BY <1>0, <1>4
  <2> QED BY <2>1
<1> QED BY <1>5 DEF log, Pair

\* What a row says of its game.
LEMMA RowKey ==
  ASSUME NEW gs, NEW log, NEW i, NEW t
  PROVE  /\ RowOf(gs, log, i, t).id = i /\ RowOf(gs, log, i, t).team = t
         /\ RowOf(gs, log, i, t).season = gs[i].season
         /\ RowOf(gs, log, i, t).date = OfficialDate(gs[i])
         /\ RowOf(gs, log, i, t).known = Known(gs[i])
         /\ RowOf(gs, log, i, t).won \in BOOLEAN /\ RowOf(gs, log, i, t).home \in BOOLEAN
BY DEF RowOf, LogRow

\* The log at a time is the log of what is known then.
LEMMA SameLog ==
  ASSUME NEW gs, RecordOK(gs), NEW T \in Int
  PROVE  InIndex(TeamLog(gs), T) = TeamLog(KnownBy(gs, T))
<1> DEFINE then == KnownBy(gs, T)
           a == Logs(gs)
           b == Logs(then)
           Good == {n \in Nat : n <= Len(gs) => b[n] = InIndex(a[n], T)}
<1>0. /\ Len(then) = Len(gs) /\ Len(gs) \in Nat /\ DOMAIN gs = 1..Len(gs)
      /\ \A i \in DOMAIN gs : Known(gs[i]) <= T => then[i] = gs[i]
      /\ Done(then, {"R"}) = {i \in Done(gs, {"R"}) : Known(gs[i]) <= T}
  BY KnownRecord, RecordGames
<1>1. /\ a[0] = {}
      /\ \A n \in 1..Len(gs) :
           a[n] = IF n \in Done(gs, {"R"})
                  THEN a[n - 1] \cup {RowOf(gs, a[n - 1], n, t) : t \in Plays(gs[n])}
                  ELSE a[n - 1]
  BY <1>0, LogLoop
<1>2. /\ b[0] = {}
      /\ \A n \in 1..Len(gs) :
           b[n] = IF n \in Done(then, {"R"})
                  THEN b[n - 1] \cup {RowOf(then, b[n - 1], n, t) : t \in Plays(then[n])}
                  ELSE b[n - 1]
  <2> HIDE DEF then
  <2>1. Len(then) \in Nat
    BY <1>0
  <2>2. /\ b[0] = {}
        /\ \A n \in 1..Len(then) :
             b[n] = IF n \in Done(then, {"R"})
                    THEN b[n - 1] \cup {RowOf(then, b[n - 1], n, t) : t \in Plays(then[n])}
                    ELSE b[n - 1]
    BY <2>1, LogLoop
  <2> QED BY <1>0, <2>2
<1>3. ASSUME NEW n \in 1..Len(gs), Known(gs[n]) <= T, NEW log, NEW t
      PROVE  RowOf(then, log, n, t) = RowOf(gs, log, n, t)
  <2>1. then[n] = gs[n]
    BY <1>0, <1>3
  <2>2. EloHistory(then, {"R"})[n - 1] = EloHistory(gs, {"R"})[n - 1]
    <3>1. n - 1 \in 0..Len(gs)
      BY <1>0
    <3>2. n - 1 # 0 => Known(gs[n - 1]) <= T
      <4> SUFFICES ASSUME n - 1 # 0 PROVE Known(gs[n - 1]) <= T
        OBVIOUS
      <4>1. n - 1 \in DOMAIN gs /\ n \in DOMAIN gs /\ n - 1 <= n
        BY <1>0
      <4>2. Known(gs[n - 1]) <= Known(gs[n])
        BY <4>1, KnownInOrder
      <4>3. Known(gs[n - 1]) \in Int /\ Known(gs[n]) \in Int
        BY <4>1, RecordGames, Numbers
      <4> QED BY <1>3, <4>2, <4>3
    <3> QED BY <3>1, <3>2, SameElo
  <2>3. Pregame(EloHistory(then, {"R"}), then, n) = Pregame(EloHistory(gs, {"R"}), gs, n)
    BY <2>1, <2>2 DEF Pregame
  <2> HIDE DEF then
  <2> QED BY <2>1, <2>3 DEF RowOf
<1>4. ASSUME NEW n \in 0..Len(gs), NEW r \in a[n]
      PROVE  \E i \in 1..Len(gs) : i <= n /\ r.known = Known(gs[i])
  <2>0. PICK i \in Done(gs, {"R"}) :
          i <= n /\ r \in {RowOf(gs, Logs(gs)[i - 1], i, t) : t \in Plays(gs[i])}
    <3>1. Logs(gs)[n] = UNION {{RowOf(gs, Logs(gs)[i - 1], i, t) : t \in Plays(gs[i])} :
                                   i \in {k \in Done(gs, {"R"}) : k <= n}}
      BY LogRows
    <3> QED BY <3>1
  <2>1. PICK t \in Plays(gs[i]) : r = RowOf(gs, Logs(gs)[i - 1], i, t)
    BY <2>0
  <2>2. r.known = Known(gs[i])
    <3> DEFINE log == Logs(gs)[i - 1]
    <3>1. r = RowOf(gs, log, i, t)
      BY <2>1
    <3> HIDE DEF log
    <3> QED BY <3>1, RowKey
  <2> QED BY <1>0, <2>0, <2>2 DEF Done
<1> HIDE DEF a, b, then
<1>5. 0 \in Good
  BY <1>1, <1>2 DEF InIndex
<1>6. ASSUME NEW n \in Good PROVE n + 1 \in Good
  <2> SUFFICES ASSUME n + 1 <= Len(gs) PROVE b[n + 1] = InIndex(a[n + 1], T)
    OBVIOUS
  <2> DEFINE m == n + 1
  <2>1. n \in Nat /\ m \in 1..Len(gs) /\ m - 1 = n /\ n \in 0..Len(gs) /\ n <= m
    BY <1>0
  <2>2. b[n] = InIndex(a[n], T)
    BY <2>1
  <2> HIDE DEF m
  <2>3. CASE m \notin Done(gs, {"R"})
    BY <1>0, <1>1, <1>2, <2>1, <2>2, <2>3 DEF m
  <2>4. CASE m \in Done(gs, {"R"}) /\ ~ (Known(gs[m]) <= T)
    <3>1. b[m] = InIndex(a[n], T)
      BY <1>0, <1>2, <2>1, <2>2, <2>4
    <3>2. a[m] = a[n] \cup {RowOf(gs, a[n], m, t) : t \in Plays(gs[m])}
      BY <1>1, <2>1, <2>4
    <3>3. \A t : ~ (RowOf(gs, a[n], m, t).known <= T)
      BY <2>4, RowKey
    <3> QED BY <3>1, <3>2, <3>3 DEF InIndex, m
  <2>5. CASE m \in Done(gs, {"R"}) /\ Known(gs[m]) <= T
    <3>1. m \in DOMAIN gs /\ Known(gs[m]) \in Int
      BY <1>0, <2>1, RecordGames, Numbers
    <3>2. ASSUME NEW r \in a[n] PROVE r.known <= T
      <4>1. PICK i \in 1..Len(gs) : i <= n /\ r.known = Known(gs[i])
        BY <1>4, <2>1
      <4>2. i \in DOMAIN gs /\ i <= m
        BY <1>0, <2>1, <4>1
      <4>3. Known(gs[i]) <= Known(gs[m]) /\ Known(gs[i]) \in Int
        BY <3>1, <4>2, KnownInOrder, RecordGames, Numbers
      <4> QED BY <2>5, <3>1, <4>1, <4>3
    <3>3. b[n] = a[n]
      BY <2>2, <3>2 DEF InIndex
    <3>4. then[m] = gs[m] /\ m \in Done(then, {"R"})
      BY <1>0, <2>5, <3>1
    <3>5. a[m] = a[n] \cup {RowOf(gs, a[n], m, t) : t \in Plays(gs[m])}
      BY <1>1, <2>1, <2>5
    <3>6. b[m] = a[n] \cup {RowOf(then, a[n], m, t) : t \in Plays(gs[m])}
      BY <1>2, <2>1, <3>3, <3>4
    <3>7. \A t : RowOf(then, a[n], m, t) = RowOf(gs, a[n], m, t)
      BY <1>3, <2>1, <2>5
    <3>8. \A t : RowOf(gs, a[n], m, t).known <= T
      BY <2>5, RowKey
    <3>9. b[m] = a[m]
      BY <3>5, <3>6, <3>7
    <3>10. InIndex(a[m], T) = a[m]
      BY <3>2, <3>5, <3>8 DEF InIndex
    <3> QED BY <3>9, <3>10 DEF m
  <2> QED BY <2>3, <2>4, <2>5
<1>7. Good = Nat
  <2> HIDE DEF Good
  <2>1. Good \in SUBSET Nat
    BY DEF Good
  <2> QED BY <1>5, <1>6, <2>1, EveryNumber
<1>8. b[Len(gs)] = InIndex(a[Len(gs)], T)
  <2>1. Len(gs) \in Good
    <3> HIDE DEF Good
    <3> QED BY <1>0, <1>7
  <2> QED BY <1>0, <2>1
<1> QED BY <1>0, <1>8 DEF TeamLog, a, b, then

\* The features read a log through its index.
LEMMA SameValues ==
  ASSUME NEW a, NEW b, NEW T, InIndex(a, T) = InIndex(b, T), NEW t, NEW season
  PROVE  SideValues(a, t, season, T) = SideValues(b, t, season, T)
<1>1. State(a, t, season, T) = State(b, t, season, T)
  BY Zenon DEF State
<1>2. \A of, sign, length : Before(a, T, of, sign, length) = Before(b, T, of, sign, length)
  BY Zenon DEF Before
<1> QED BY <1>1, <1>2, Zenon DEF SideValues

\* Neither the ratings nor the features of a streak at a time see a result
\* that was not known then, whatever the record (AsOfElo.rating_at,
\* StreakIndex.side_values).
THEOREM NoLookAheadCorrect == Spec => []NoLookAhead
<1>1. RecordOK(games) => NoLookAhead
  <2> SUFFICES ASSUME RecordOK(games), NEW T \in Moments, NEW t \in Teams
               PROVE  /\ RatingAt(games, t, T) = RatingAt(KnownBy(games, T), t, T)
                      /\ SideValues(TeamLog(games), t, SeasonAt(T), T) =
                         SideValues(TeamLog(KnownBy(games, T)), t, SeasonAt(T), T)
    BY Zenon DEF NoLookAhead
  <2>1. T \in Int
    BY RecordGames, Numbers DEF Moments
  <2>2. RatingAt(games, t, T) = RatingAt(KnownBy(games, T), t, T)
    BY <2>1, SameRating
  <2> DEFINE a == TeamLog(games)
             b == TeamLog(KnownBy(games, T))
  <2>3. InIndex(a, T) = b
    BY <2>1, SameLog
  <2> HIDE DEF a, b
  <2>4. InIndex(b, T) = InIndex(a, T)
    BY <2>3 DEF InIndex
  <2>5. SideValues(a, t, SeasonAt(T), T) = SideValues(b, t, SeasonAt(T), T)
    BY <2>4, SameValues
  <2> QED BY <2>2, <2>5 DEF a, b
<1> QED BY <1>1, RecordInvariant, PTL

-----------------------------------------------------------------------------
(* The rating read and the rating carried.                                 *)

Mark == Nat \cup {"off"}

Offs(n) == [x \in 1..n |-> "off"]

\* One more regression at the end of a rating.
LEMMA OneMore ==
  ASSUME NEW r \in Seq(Mark), NEW n \in Nat
  PROVE  /\ r \o Offs(n) \in Seq(Mark)
         /\ Append(r \o Offs(n), "off") = r \o Offs(n + 1)
         /\ r \o Offs(0) = r
<1>1. Offs(n) \in Seq(Mark) /\ Offs(n + 1) \in Seq(Mark) /\ Offs(0) \in Seq(Mark)
  BY DEF Offs, Mark
<1>2. Len(Offs(n)) = n /\ Len(Offs(n + 1)) = n + 1 /\ Len(Offs(0)) = 0
  BY DEF Offs
<1>3. \A x \in 1..n : Offs(n)[x] = "off"
  BY DEF Offs
<1>4. \A x \in 1..(n + 1) : Offs(n + 1)[x] = "off"
  BY DEF Offs
<1>5. r \o Offs(n) \in Seq(Mark)
  BY <1>1
<1> DEFINE a == Append(r \o Offs(n), "off")
           b == r \o Offs(n + 1)
<1>6. a \in Seq(Mark) /\ b \in Seq(Mark) /\ Len(a) = Len(r) + n + 1 /\ Len(b) = Len(r) + n + 1
  <2>0. "off" \in Mark
    BY DEF Mark
  <2>1. Len(r) \in Nat /\ Len(r \o Offs(n)) = Len(r) + n
    BY <1>1, <1>2
  <2>2. a \in Seq(Mark) /\ Len(a) = Len(r \o Offs(n)) + 1
    BY <1>5, <2>0
  <2>3. b \in Seq(Mark) /\ Len(b) = Len(r) + Len(Offs(n + 1))
    BY <1>1
  <2>4. Len(a) = Len(r) + n + 1
    BY <2>1, <2>2
  <2>5. Len(b) = Len(r) + n + 1
    BY <1>2, <2>1, <2>3
  <2> QED BY <2>2, <2>3, <2>4, <2>5
<1>10. Len(r) \in Nat /\ Len(r \o Offs(n)) = Len(r) + n
  BY <1>1, <1>2
<1>7. ASSUME NEW x \in 1..(Len(r) + n + 1) PROVE a[x] = b[x]
  <2>1. CASE x \in 1..Len(r)
    BY <1>1, <1>2, <1>5, <2>1
  <2>2. CASE x \in (Len(r) + 1)..(Len(r) + n)
    <3>1. x - Len(r) \in 1..n /\ x - Len(r) \in 1..(n + 1)
      BY <2>2
    <3>2. a[x] = Offs(n)[x - Len(r)] /\ b[x] = Offs(n + 1)[x - Len(r)]
      BY <1>1, <1>2, <1>5, <2>2
    <3> QED BY <1>3, <1>4, <3>1, <3>2
  <2>3. CASE x = Len(r) + n + 1
    <3>1. x - Len(r) = n + 1 /\ n + 1 \in 1..(n + 1)
      BY <2>3
    <3>2. a[x] = "off"
      BY <1>5, <1>10, <2>3
    <3>3. b[x] = Offs(n + 1)[n + 1]
      BY <1>1, <1>2, <2>3, <3>1
    <3> HIDE DEF a, b
    <3> QED BY <1>4, <3>1, <3>2, <3>3
  <2> HIDE DEF a, b
  <2> QED BY <1>10, <2>1, <2>2, <2>3
<1>8. a = b
  <2> HIDE DEF a, b
  <2> QED BY <1>6, <1>7
<1>9. r \o Offs(0) = r
  BY <1>1, <1>2
<1> QED BY <1>5, <1>8, <1>9

Rated(gs, n) == {k \in Done(gs, Competitive) : k <= n}

Last(gs, n, t, j) ==
    /\ j \in Rated(gs, n) /\ t \in Plays(gs[j])
    /\ \A k \in Rated(gs, n) : t \in Plays(gs[k]) => k <= j

Played(gs, n, t) == \E k \in Rated(gs, n) : t \in Plays(gs[k])

SeasonsTo(gs, n) == {gs[k].season : k \in Rated(gs, n)}

Later(seasons, s) == {x \in seasons : x > s}

\* Where the engine stands after n games: in the season of the last that was
\* rated, each team as after its own last, regressed in every season since.
EloOK(gs, n) ==
    LET elo == EloHistory(gs, Competitive)
    IN /\ elo[n].season \in Int
       /\ Rated(gs, n) = {} => elo[n].season = NoSeason
       /\ Rated(gs, n) # {} => elo[n].season \in SeasonsTo(gs, n)
       /\ \A s \in SeasonsTo(gs, n) : s <= elo[n].season
       /\ \A t \in Teams :
            /\ elo[n].rating[t] \in Seq(Mark)
            /\ ~ Played(gs, n, t) => elo[n].rating[t] = <<>>
            /\ Played(gs, n, t) => elo[n].rating[t] # <<>>
            /\ \A j : Last(gs, n, t, j) =>
                 /\ elo[j].rating[t] \in Seq(Mark)
                 /\ elo[n].rating[t] = elo[j].rating[t]
                                       \o Offs(Cardinality(Later(SeasonsTo(gs, n), gs[j].season)))

\* The seasons after a season are finitely many.
LEMMA SeasonsFinite ==
  ASSUME NEW gs, RecordOK(gs), NEW n \in 0..Len(gs), NEW top \in Int,
         \A s \in SeasonsTo(gs, n) : s <= top
  PROVE  /\ SeasonsTo(gs, n) \subseteq Nat
         /\ \A s : /\ IsFiniteSet(Later(SeasonsTo(gs, n), s))
                   /\ Cardinality(Later(SeasonsTo(gs, n), s)) \in Nat
<1>1. SeasonsTo(gs, n) \subseteq Nat
  BY RecordGames DEF SeasonsTo, Rated, Done
<1>2. ASSUME NEW s PROVE IsFiniteSet(Later(SeasonsTo(gs, n), s))
  <2>1. Later(SeasonsTo(gs, n), s) \in SUBSET (0..top)
    BY <1>1 DEF Later
  <2>2. IsFiniteSet(0..top)
    BY FS_Interval
  <2> QED BY <2>1, <2>2, FS_Subset
<1> QED BY <1>1, <1>2, FS_CardinalityType

\* What a game of a season finds: each team regressed in that season too.
LEMMA OpenedOK ==
  ASSUME NEW gs, RecordOK(gs), NEW n \in 0..Len(gs), EloOK(gs, n), NEW s \in Nat,
         EloHistory(gs, Competitive)[n].season <= s
  PROVE  LET elo == EloHistory(gs, Competitive)
             found == Opened(elo[n], s)
         IN \A t \in Teams :
              /\ found[t] \in Seq(Mark)
              /\ ~ Played(gs, n, t) => found[t] = <<>>
              /\ Played(gs, n, t) => found[t] # <<>>
              /\ \A j : Last(gs, n, t, j) =>
                   found[t] = elo[j].rating[t]
                              \o Offs(Cardinality(Later(SeasonsTo(gs, n) \cup {s}, gs[j].season)))
<1> DEFINE elo == EloHistory(gs, Competitive)
           found == Opened(elo[n], s)
           all == SeasonsTo(gs, n)
<1>1. /\ elo[n].season \in Int /\ \A x \in all : x <= elo[n].season
      /\ Rated(gs, n) = {} => elo[n].season = NoSeason
      /\ Rated(gs, n) # {} => elo[n].season \in all
  BY DEF EloOK
<1>2. /\ all \subseteq Nat
      /\ \A x : IsFiniteSet(Later(all, x)) /\ Cardinality(Later(all, x)) \in Nat
  BY <1>1, SeasonsFinite
<1> SUFFICES ASSUME NEW t \in Teams
             PROVE  /\ found[t] \in Seq(Mark)
                    /\ ~ Played(gs, n, t) => found[t] = <<>>
                    /\ Played(gs, n, t) => found[t] # <<>>
                    /\ \A j : Last(gs, n, t, j) =>
                         found[t] = elo[j].rating[t]
                                    \o Offs(Cardinality(Later(all \cup {s}, gs[j].season)))
  BY DEF elo, found, all
<1>3. /\ elo[n].rating[t] \in Seq(Mark)
      /\ ~ Played(gs, n, t) => elo[n].rating[t] = <<>>
      /\ Played(gs, n, t) => elo[n].rating[t] # <<>>
      /\ \A j : Last(gs, n, t, j) =>
           /\ elo[j].rating[t] \in Seq(Mark)
           /\ elo[n].rating[t] = elo[j].rating[t] \o Offs(Cardinality(Later(all, gs[j].season)))
  BY DEF EloOK
<1>4. ASSUME NEW j, Last(gs, n, t, j)
      PROVE  /\ Rated(gs, n) # {} /\ Played(gs, n, t) /\ gs[j].season \in all
             /\ gs[j].season \in Nat
  BY <1>2, <1>4 DEF Last, Played, SeasonsTo
<1>5. Played(gs, n, t) => Rated(gs, n) # {}
  BY DEF Played
<1>6. NoSeason \notin Nat
  BY DEF NoSeason
<1>7. CASE elo[n].season \in {NoSeason, s}
  <2>1. found = elo[n].rating
    BY <1>7 DEF Opened
  <2>2. ASSUME NEW j, Last(gs, n, t, j) PROVE all \cup {s} = all
    BY <1>1, <1>2, <1>4, <1>6, <1>7, <2>2
  <2> HIDE DEF elo, found, all
  <2>3. ASSUME NEW j, Last(gs, n, t, j)
        PROVE  found[t] = elo[j].rating[t]
                          \o Offs(Cardinality(Later(all \cup {s}, gs[j].season)))
    BY <1>3, <2>1, <2>2, <2>3, Zenon
  <2> QED BY <1>3, <2>1, <2>3
<1>8. CASE elo[n].season \notin {NoSeason, s}
  <2>1. found[t] = Regressed(elo[n].rating[t])
    BY <1>8 DEF Opened
  <2>2. ~ Played(gs, n, t) => found[t] = <<>>
    BY <1>3, <2>1 DEF Regressed
  <2>3. Played(gs, n, t) => found[t] = Append(elo[n].rating[t], "off")
    BY <1>3, <2>1 DEF Regressed
  <2>4. Append(elo[n].rating[t], "off") \in Seq(Mark) /\ Append(elo[n].rating[t], "off") # <<>>
    <3> DEFINE r == elo[n].rating[t]
    <3>1. r \in Seq(Mark) /\ "off" \in Mark
      BY <1>3 DEF Mark
    <3> HIDE DEF r
    <3>2. Append(r, "off") \in Seq(Mark) /\ Len(Append(r, "off")) = Len(r) + 1 /\ Len(r) \in Nat
      BY <3>1
    <3>3. Append(r, "off") # <<>>
      BY <3>2
    <3> QED BY <3>2, <3>3 DEF r
  <2>5. ASSUME NEW j, Last(gs, n, t, j)
        PROVE  found[t] = elo[j].rating[t]
                          \o Offs(Cardinality(Later(all \cup {s}, gs[j].season)))
    <3> DEFINE sj == gs[j].season
               c == Cardinality(Later(all, sj))
    <3>1. sj \in all /\ sj \in Nat /\ Played(gs, n, t)
      BY <1>4, <2>5
    <3>2. elo[n].season < s /\ sj < s /\ s \notin all
      BY <1>1, <1>8, <3>1
    <3>3. Later(all \cup {s}, sj) = Later(all, sj) \cup {s} /\ s \notin Later(all, sj)
      BY <3>2 DEF Later
    <3>4. Cardinality(Later(all \cup {s}, sj)) = c + 1 /\ c \in Nat
      <4>1. IsFiniteSet(Later(all, sj)) /\ c \in Nat
        BY <1>2
      <4>2. Cardinality(Later(all, sj) \cup {s}) = c + 1
        BY <3>3, <4>1, FS_AddElement
      <4> QED BY <3>3, <4>1, <4>2
    <3>5. elo[j].rating[t] \in Seq(Mark)
      BY <1>3, <2>5
    <3>6. elo[n].rating[t] = elo[j].rating[t] \o Offs(c)
      BY <1>3, <2>5
    <3> HIDE DEF sj, c
    <3>7. Append(elo[j].rating[t] \o Offs(c), "off") = elo[j].rating[t] \o Offs(c + 1)
      BY <3>4, <3>5, OneMore
    <3> QED BY <2>3, <3>1, <3>4, <3>6, <3>7 DEF sj
  <2> HIDE DEF elo, found, all
  <2>6. <<>> \in Seq(Mark)
    OBVIOUS
  <2>7. CASE Played(gs, n, t)
    BY <2>3, <2>4, <2>5, <2>7
  <2>8. CASE ~ Played(gs, n, t)
    BY <2>2, <2>5, <2>6, <2>8
  <2> QED BY <2>7, <2>8
<1> QED BY <1>7, <1>8

\* A team that was never rated is found at the base.
LEMMA OpenedNew ==
  ASSUME NEW gs, RecordOK(gs), NEW n \in 0..Len(gs), EloOK(gs, n), NEW s \in Nat,
         EloHistory(gs, Competitive)[n].season <= s, NEW t \in Teams, ~ Played(gs, n, t)
  PROVE  Opened(EloHistory(gs, Competitive)[n], s)[t] = <<>>
BY OpenedOK

\* The engine as it starts.
LEMMA EloFirst ==
  ASSUME NEW gs, RecordOK(gs)
  PROVE  EloOK(gs, 0)
<1>1. EloHistory(gs, Competitive)[0] = EloStart
  BY RecordGames, EloLoop
<1>2. Rated(gs, 0) = {}
  BY RecordGames DEF Rated, Done
<1>3. SeasonsTo(gs, 0) = {} /\ (\A t : ~ Played(gs, 0, t)) /\ (\A t, j : ~ Last(gs, 0, t, j))
  BY <1>2 DEF SeasonsTo, Played, Last
<1>4. NoSeason \in Int /\ EloStart.season = NoSeason /\ \A t \in Teams : EloStart.rating[t] = <<>>
  BY DEF NoSeason, EloStart
<1>5. <<>> \in Seq(Mark)
  OBVIOUS
<1> QED BY <1>1, <1>2, <1>3, <1>4, <1>5 DEF EloOK

\* A game that is not rated leaves the engine as it was.
LEMMA EloPasses ==
  ASSUME NEW gs, RecordOK(gs), NEW n \in Nat, n + 1 <= Len(gs), EloOK(gs, n),
         n + 1 \notin Done(gs, Competitive)
  PROVE  EloOK(gs, n + 1)
<1>1. n + 1 \in 1..Len(gs) /\ (n + 1) - 1 = n
  BY RecordGames
<1>2. EloHistory(gs, Competitive)[n + 1] = EloHistory(gs, Competitive)[n]
  BY <1>1, RecordGames, EloLoop
<1>3. Rated(gs, n + 1) = Rated(gs, n)
  BY RecordGames DEF Rated, Done
<1>4. SeasonsTo(gs, n + 1) = SeasonsTo(gs, n)
  BY <1>3 DEF SeasonsTo
<1>5. \A t : Played(gs, n + 1, t) = Played(gs, n, t)
  BY <1>3, Zenon DEF Played
<1>6. \A t, j : Last(gs, n + 1, t, j) = Last(gs, n, t, j)
  BY <1>3, Zenon DEF Last
<1> DEFINE elo == EloHistory(gs, Competitive)
<1>7. /\ elo[n].season \in Int
      /\ Rated(gs, n) = {} => elo[n].season = NoSeason
      /\ Rated(gs, n) # {} => elo[n].season \in SeasonsTo(gs, n)
      /\ \A s \in SeasonsTo(gs, n) : s <= elo[n].season
  BY DEF EloOK
<1>8. ASSUME NEW t \in Teams
      PROVE  /\ elo[n].rating[t] \in Seq(Mark)
             /\ ~ Played(gs, n, t) => elo[n].rating[t] = <<>>
             /\ Played(gs, n, t) => elo[n].rating[t] # <<>>
             /\ \A j : Last(gs, n, t, j) =>
                  /\ elo[j].rating[t] \in Seq(Mark)
                  /\ elo[n].rating[t] = elo[j].rating[t]
                                        \o Offs(Cardinality(Later(SeasonsTo(gs, n), gs[j].season)))
  BY DEF EloOK
<1> HIDE DEF elo
<1>9. ASSUME NEW t \in Teams
      PROVE  /\ elo[n + 1].rating[t] \in Seq(Mark)
             /\ ~ Played(gs, n + 1, t) => elo[n + 1].rating[t] = <<>>
             /\ Played(gs, n + 1, t) => elo[n + 1].rating[t] # <<>>
             /\ \A j : Last(gs, n + 1, t, j) =>
                  /\ elo[j].rating[t] \in Seq(Mark)
                  /\ elo[n + 1].rating[t] =
                       elo[j].rating[t]
                       \o Offs(Cardinality(Later(SeasonsTo(gs, n + 1), gs[j].season)))
  <2>1. elo[n + 1] = elo[n]
    BY <1>2 DEF elo
  <2>4. Played(gs, n + 1, t) = Played(gs, n, t)
    BY <1>5
  <2>5. /\ elo[n].rating[t] \in Seq(Mark)
        /\ ~ Played(gs, n, t) => elo[n].rating[t] = <<>>
        /\ Played(gs, n, t) => elo[n].rating[t] # <<>>
    BY <1>8
  <2>2. /\ elo[n + 1].rating[t] \in Seq(Mark)
        /\ ~ Played(gs, n + 1, t) => elo[n + 1].rating[t] = <<>>
        /\ Played(gs, n + 1, t) => elo[n + 1].rating[t] # <<>>
    BY <2>1, <2>4, <2>5, Zenon
  <2>3. ASSUME NEW j, Last(gs, n + 1, t, j)
        PROVE  /\ elo[j].rating[t] \in Seq(Mark)
               /\ elo[n + 1].rating[t] =
                    elo[j].rating[t]
                    \o Offs(Cardinality(Later(SeasonsTo(gs, n + 1), gs[j].season)))
    <3>1. Last(gs, n, t, j)
      BY <1>6, <2>3
    <3>2. /\ elo[j].rating[t] \in Seq(Mark)
          /\ elo[n].rating[t] =
               elo[j].rating[t] \o Offs(Cardinality(Later(SeasonsTo(gs, n), gs[j].season)))
      BY <1>8, <3>1
    <3> QED BY <1>4, <2>1, <3>2, Zenon
  <2> QED BY <2>2, <2>3
<1>10. /\ elo[n + 1].season \in Int
       /\ Rated(gs, n + 1) = {} => elo[n + 1].season = NoSeason
       /\ Rated(gs, n + 1) # {} => elo[n + 1].season \in SeasonsTo(gs, n + 1)
       /\ \A s \in SeasonsTo(gs, n + 1) : s <= elo[n + 1].season
  BY <1>2, <1>3, <1>4, <1>7, Zenon DEF elo
<1> QED BY <1>9, <1>10 DEF EloOK, elo

\* A rating that was moved is not the base.
LEMMA Longer ==
  ASSUME NEW r \in Seq(Mark), NEW x \in Mark
  PROVE  Append(r, x) \in Seq(Mark) /\ Append(r, x) # <<>>
<1>1. Append(r, x) \in Seq(Mark) /\ Len(Append(r, x)) = Len(r) + 1 /\ Len(r) \in Nat
  OBVIOUS
<1> QED BY <1>1

\* A rated game moves its two teams, and opens its season.
LEMMA EloMoves ==
  ASSUME NEW gs, RecordOK(gs), NEW n \in Nat, n + 1 <= Len(gs), EloOK(gs, n),
         n + 1 \in Done(gs, Competitive)
  PROVE  EloOK(gs, n + 1)
<1> DEFINE elo == EloHistory(gs, Competitive)
           m == n + 1
           g == gs[n + 1]
           s == g.season
           found == Opened(elo[n], s)
<1>0. m \in 1..Len(gs) /\ m \in DOMAIN gs /\ m - 1 = n /\ m \in Nat /\ n < m /\ s \in Nat /\ n \in 0..Len(gs)
  BY RecordGames
<1>1. elo[m] = Observe(elo[n], g, m)
  BY <1>0, RecordGames, EloLoop
<1>2. Rated(gs, m) = Rated(gs, n) \cup {m} /\ m \notin Rated(gs, n)
  BY <1>0, RecordGames DEF Rated, Done
<1>3. SeasonsTo(gs, m) = SeasonsTo(gs, n) \cup {s}
  BY <1>2 DEF SeasonsTo
<1>4. /\ elo[n].season \in Int
      /\ Rated(gs, n) = {} => elo[n].season = NoSeason
      /\ Rated(gs, n) # {} => elo[n].season \in SeasonsTo(gs, n)
  BY DEF EloOK
<1>5. \A x \in SeasonsTo(gs, n) : x <= s
  <2> SUFFICES ASSUME NEW k \in Rated(gs, n) PROVE gs[k].season <= s
    BY DEF SeasonsTo
  <2>1. k \in DOMAIN gs /\ k <= m
    BY <1>0, RecordGames DEF Rated, Done
  <2> QED BY <1>0, <2>1, KnownInOrder
<1>6. elo[n].season <= s
  BY <1>0, <1>4, <1>5 DEF NoSeason
<1>7. \A t \in Teams :
        /\ found[t] \in Seq(Mark)
        /\ ~ Played(gs, n, t) => found[t] = <<>>
        /\ Played(gs, n, t) => found[t] # <<>>
        /\ \A j : Last(gs, n, t, j) =>
             found[t] = elo[j].rating[t]
                        \o Offs(Cardinality(Later(SeasonsTo(gs, n) \cup {s}, gs[j].season)))
  BY <1>0, <1>6, OpenedOK
<1>8. /\ elo[m].season = s
      /\ \A t \in Teams :
           elo[m].rating[t] = IF t \in Plays(g) THEN Append(found[t], m) ELSE found[t]
  BY <1>1 DEF Observe
<1> HIDE DEF elo, m, g, s, found
<1>9. ASSUME NEW t \in Teams, t \in Plays(g)
      PROVE  /\ elo[m].rating[t] \in Seq(Mark) /\ elo[m].rating[t] # <<>>
             /\ Played(gs, m, t)
             /\ \A j : Last(gs, m, t, j) =>
                  /\ elo[j].rating[t] \in Seq(Mark)
                  /\ elo[m].rating[t] = elo[j].rating[t]
                                        \o Offs(Cardinality(Later(SeasonsTo(gs, m), gs[j].season)))
  <2> DEFINE r == found[t]
  <2>1. elo[m].rating[t] = Append(r, m) /\ r \in Seq(Mark) /\ m \in Mark
    BY <1>0, <1>7, <1>8, <1>9 DEF Mark
  <2> HIDE DEF r
  <2>2. Append(r, m) \in Seq(Mark)
    BY <2>1, Longer
  <2>3. Append(r, m) # <<>>
    BY <2>1, Longer
  <2>4. Played(gs, m, t)
    BY <1>2, <1>9 DEF Played, g, m
  <2>5. ASSUME NEW j, Last(gs, m, t, j)
        PROVE  /\ elo[j].rating[t] \in Seq(Mark)
               /\ elo[m].rating[t] = elo[j].rating[t]
                                     \o Offs(Cardinality(Later(SeasonsTo(gs, m), gs[j].season)))
    <3>1. m \in Rated(gs, m) /\ t \in Plays(gs[m])
      BY <1>2, <1>9 DEF g, m
    <3>2. m <= j /\ j \in Rated(gs, m)
      BY <2>5, <3>1 DEF Last
    <3>3. j = m
      BY <1>0, <3>2, RecordGames DEF Rated, Done
    <3>4. gs[j].season = s
      BY <3>3 DEF s, g, m
    <3>5. Later(SeasonsTo(gs, m), s) = {}
      <4>1. \A x \in SeasonsTo(gs, m) : x <= s
        BY <1>0, <1>3, <1>5
      <4>2. SeasonsTo(gs, m) \subseteq Nat
        BY RecordGames DEF SeasonsTo, Rated, Done
      <4> QED BY <1>0, <4>1, <4>2 DEF Later
    <3>6. Offs(Cardinality(Later(SeasonsTo(gs, m), gs[j].season))) = Offs(0)
      BY <3>4, <3>5, FS_EmptySet
    <3>7. Append(r, m) \o Offs(0) = Append(r, m)
      BY <2>2, OneMore
    <3> QED BY <2>1, <2>2, <3>3, <3>6, <3>7
  <2> QED BY <2>1, <2>2, <2>3, <2>4, <2>5
<1>10. ASSUME NEW t \in Teams, t \notin Plays(g)
       PROVE  /\ Played(gs, m, t) = Played(gs, n, t)
              /\ \A j : Last(gs, m, t, j) => Last(gs, n, t, j)
              /\ elo[m].rating[t] = found[t]
  <2>1. t \notin Plays(gs[m])
    BY <1>10 DEF g, m
  <2>2. Played(gs, m, t) = Played(gs, n, t)
    BY <1>2, <2>1 DEF Played
  <2>3. ASSUME NEW j, Last(gs, m, t, j) PROVE Last(gs, n, t, j)
    BY <1>2, <2>1, <2>3 DEF Last
  <2> QED BY <1>8, <1>10, <2>2, <2>3
<1>11. ASSUME NEW t \in Teams, t \notin Plays(g), NEW j, Last(gs, m, t, j)
       PROVE  /\ elo[j].rating[t] \in Seq(Mark)
              /\ elo[m].rating[t] = elo[j].rating[t]
                                    \o Offs(Cardinality(Later(SeasonsTo(gs, m), gs[j].season)))
  <2>1. Last(gs, n, t, j)
    BY <1>10, <1>11
  <2>2. elo[j].rating[t] \in Seq(Mark)
    BY <2>1 DEF EloOK, elo
  <2>3. found[t] = elo[j].rating[t] \o Offs(Cardinality(Later(SeasonsTo(gs, m), gs[j].season)))
    BY <1>3, <1>7, <2>1
  <2> QED BY <1>10, <1>11, <2>2, <2>3
<1>12. \A x \in SeasonsTo(gs, m) : x <= s
  BY <1>0, <1>3, <1>5
<1>13. Rated(gs, m) # {} /\ s \in SeasonsTo(gs, m) /\ s \in Int
  BY <1>0, <1>2, <1>3
<1>14. ASSUME NEW t \in Teams
       PROVE  /\ elo[m].rating[t] \in Seq(Mark)
              /\ ~ Played(gs, m, t) => elo[m].rating[t] = <<>>
              /\ Played(gs, m, t) => elo[m].rating[t] # <<>>
              /\ \A j : Last(gs, m, t, j) =>
                   /\ elo[j].rating[t] \in Seq(Mark)
                   /\ elo[m].rating[t] = elo[j].rating[t]
                                         \o Offs(Cardinality(Later(SeasonsTo(gs, m), gs[j].season)))
  <2>1. CASE t \in Plays(g)
    BY <1>9, <2>1
  <2>2. CASE t \notin Plays(g)
    <3>0. elo[m].rating[t] = found[t] /\ Played(gs, m, t) = Played(gs, n, t)
      BY <1>10, <2>2
    <3>1. /\ elo[m].rating[t] \in Seq(Mark)
          /\ ~ Played(gs, m, t) => elo[m].rating[t] = <<>>
          /\ Played(gs, m, t) => elo[m].rating[t] # <<>>
      BY <1>7, <3>0, Zenon
    <3> QED BY <1>11, <2>2, <3>1
  <2> QED BY <2>1, <2>2
<1>15. EloOK(gs, m)
  BY <1>8, <1>12, <1>13, <1>14 DEF EloOK, elo
<1> QED BY <1>15 DEF m

\* The engine stands right after every game of the record.
LEMMA EloEvery ==
  ASSUME NEW gs, RecordOK(gs)
  PROVE  \A n \in 0..Len(gs) : EloOK(gs, n)
<1> DEFINE Good == {n \in Nat : n <= Len(gs) => EloOK(gs, n)}
<1>1. 0 \in Good
  BY EloFirst
<1>2. ASSUME NEW n \in Good PROVE n + 1 \in Good
  <2> SUFFICES ASSUME n + 1 <= Len(gs) PROVE EloOK(gs, n + 1)
    OBVIOUS
  <2>1. n \in Nat /\ EloOK(gs, n)
    BY RecordGames
  <2> HIDE DEF Good
  <2> QED BY <2>1, EloPasses, EloMoves
<1>3. Good = Nat
  <2> HIDE DEF Good
  <2>1. Good \in SUBSET Nat
    BY DEF Good
  <2> QED BY <1>1, <1>2, <2>1, EveryNumber
<1>4. ASSUME NEW n \in 0..Len(gs) PROVE EloOK(gs, n)
  <2>1. n \in Good /\ n <= Len(gs)
    <3> HIDE DEF Good
    <3> QED BY <1>3, RecordGames
  <2> QED BY <2>1
<1> QED BY <1>4

\* The last of some rows of a record.
LEMMA LatestOf ==
  ASSUME NEW rows, rows # {}, NEW high \in Int,
         \A r \in rows : r.id \in Int /\ r.id <= high
  PROVE  Latest(rows) \in rows /\ \A o \in rows : o.id <= Latest(rows).id
<1> DEFINE ids == {r.id : r \in rows}
<1>1. ids \in SUBSET Int /\ ids # {} /\ \A x \in ids : x <= high
  OBVIOUS
<1>2. Max(ids) \in ids /\ \A x \in ids : x <= Max(ids)
  <2> HIDE DEF ids
  <2> QED BY <1>1, MaxOf
<1>3. PICK r \in rows : r.id = Max(ids)
  BY <1>2
<1>4. \A o \in rows : o.id <= r.id
  BY <1>2, <1>3
<1> QED BY <1>4 DEF Latest

\* Products of a larger number are larger by a factor, at least.
LEMMA Products ==
  ASSUME NEW a \in Nat, NEW b \in Int, NEW c \in Int, b < c
  PROVE  a * b \in Int /\ a * c \in Int /\ a * b + a <= a * c
<1>1. a * c = a * b + a + a * (c - b - 1)
  OBVIOUS
<1>2. a * (c - b - 1) >= 0 /\ a * (c - b - 1) \in Int /\ a * b \in Int
  OBVIOUS
<1> QED BY <1>1, <1>2

\* Multiplication distributes.
LEMMA Distribute ==
  ASSUME NEW a \in Int, NEW b \in Int, NEW c \in Int
  PROVE  a * (b + c) = a * b + a * c
OBVIOUS

\* The quotient, from the product that bounds it.
LEMMA Division ==
  ASSUME NEW a \in Nat, NEW b \in Nat \ {0}, NEW q \in Nat, b * q <= a, a < b * q + b
  PROVE  a \div b = q
<1> DEFINE d == a \div b
<1>1. d \in Int /\ b * d \in Int /\ b * d <= a /\ a < b * d + b
  OBVIOUS
<1> HIDE DEF d
<1>2. ASSUME d < q PROVE FALSE
  <2> DEFINE x == b * d
             y == b * q
  <2>1. x + b <= y
    BY <1>1, <1>2, Products
  <2>2. x \in Int /\ y \in Int /\ y <= a /\ a < x + b
    BY <1>1
  <2> HIDE DEF x, y
  <2> QED BY <2>1, <2>2
<1>3. ASSUME q < d PROVE FALSE
  <2> DEFINE x == b * d
             y == b * q
  <2>1. y + b <= x
    BY <1>1, <1>3, Products
  <2>2. x \in Int /\ y \in Int /\ x <= a /\ a < y + b
    BY <1>1
  <2> HIDE DEF x, y
  <2> QED BY <2>1, <2>2
<1> QED BY <1>1, <1>2, <1>3 DEF d

\* The season read off the moment of a forecast is the season of its game.
LEMMA SeasonAtForecast ==
  ASSUME InSeason, NEW g \in Game
  PROVE  SeasonAt(AsOf(g)) = g.season
<1> DEFINE s == g.season
           f == (g.slot - 1) \div 2
           p == Days * s
           d == OfficialDate(g)
           b == DayTicks * d
           u == DayTicks * p
           T == AsOf(g)
<1>1. /\ d \in Nat /\ f \in 0..(Days - 1) /\ d = p + f /\ p \in Nat /\ b \in Nat
      /\ b + FirstTick <= Pitch(g) /\ Pitch(g) <= b + SecondTick
      /\ Pitch(g) \in Nat /\ T = Pitch(g) - Ahead
  BY Placed
<1>2. s \in Nat
  BY DEF Game
<1>8. /\ DayTicks \in Nat \ {0} /\ Days \in Nat \ {0} /\ Year = DayTicks * Days
      /\ Year \in Nat \ {0}
  <2>1. DayTicks \in Nat \ {0} /\ Days \in Nat \ {0}
    BY Numbers
  <2> HIDE DEF s, f, p, d, b, u, T
  <2> QED BY <2>1 DEF Year
<1> HIDE DEF s, f, p, d, T
<1>3. u \in Nat /\ u <= b
  <2>1. DayTicks * f \in Nat /\ DayTicks * p \in Nat
    BY <1>1, <1>8
  <2>2. b = DayTicks * p + DayTicks * f
    BY <1>1, <1>8, Distribute
  <2> QED BY <2>1, <2>2
<1>4. b + DayTicks <= u + Year
  <2>1. d < p + Days /\ p + Days \in Int
    BY <1>1, <1>8
  <2>2. b + DayTicks <= DayTicks * (p + Days)
    BY <1>1, <1>8, <2>1, Products
  <2>3. DayTicks * (p + Days) = u + Year
    BY <1>1, <1>8, Distribute
  <2> QED BY <2>2, <2>3
<1>5. u = Year * s
  BY <1>2, <1>8 DEF p
<1>6. T \in Nat /\ u <= T /\ T < u + Year
  <2> HIDE DEF u, b, T
  <2> QED BY <1>1, <1>3, <1>4, <1>8, Numbers DEF InSeason
<1>7. T \div Year = s
  <2>1. Year * s <= T /\ T < Year * s + Year
    BY <1>5, <1>6
  <2> HIDE DEF u
  <2> QED BY <1>2, <1>6, <1>8, <2>1, Division
<1> QED BY <1>7 DEF SeasonAt, T, s

\* The games of an earlier season are known.
LEMMA EarlierKnown ==
  ASSUME NEW gs, RecordOK(gs), Overnight, NEW i \in DOMAIN gs, NEW k \in DOMAIN gs,
         gs[k].season < gs[i].season
  PROVE  Known(gs[k]) <= AsOf(gs[i])
<1>1. gs[i] \in Game /\ gs[k] \in Game /\ gs[i].season \in Nat /\ gs[k].season \in Nat
  BY RecordGames
<1>2. OfficialDate(gs[k]) < OfficialDate(gs[i])
  <2> DEFINE a == Days * gs[k].season
             b == Days * gs[i].season
             f == (gs[k].slot - 1) \div 2
             g == (gs[i].slot - 1) \div 2
  <2>1. a + Days <= b
    BY <1>1, Numbers, Products
  <2>2. /\ OfficialDate(gs[k]) = a + f /\ f \in 0..(Days - 1) /\ a \in Nat
        /\ OfficialDate(gs[i]) = b + g /\ g \in 0..(Days - 1) /\ b \in Nat
    BY <1>1, Placed
  <2> HIDE DEF a, b, f, g
  <2> QED BY <2>1, <2>2, Numbers
<1> QED BY <1>1, <1>2, KnownOvernight

\* What a reading finds of a game's team, when its earlier games are known.
LEMMA RatingCarried ==
  ASSUME NEW gs, RecordOK(gs), Overnight, InSeason,
         NEW i \in Done(gs, Competitive), NEW t \in Plays(gs[i]),
         \A j \in Done(gs, Competitive) :
            j < i /\ t \in Plays(gs[j]) => Known(gs[j]) <= AsOf(gs[i])
  PROVE  RatingAt(gs, t, AsOf(gs[i])) = Pregame(EloHistory(gs, Competitive), gs, i)[t]
<1> DEFINE elo == EloHistory(gs, Competitive)
           C == Done(gs, Competitive)
           T == AsOf(gs[i])
           n == i - 1
           s == gs[i].season
           all == SeasonsTo(gs, n)
           snaps == Snapshots(gs)
           own == {x \in snaps : t \in x.teams /\ x.known <= T}
           opened == {x.season : x \in {y \in snaps : y.known <= T}}
           found == Opened(elo[n], s)
<1>0. /\ i \in DOMAIN gs /\ DOMAIN gs = 1..Len(gs) /\ Len(gs) \in Nat /\ C \subseteq DOMAIN gs
      /\ n \in 0..Len(gs) /\ n \in Nat /\ n < i /\ \A k \in Nat : k <= n <=> k < i
      /\ s \in Nat /\ T \in Int /\ Known(gs[i]) \in Int /\ T < Known(gs[i])
      /\ t \in Teams /\ gs[i] \in Game
  <2>1. i \in DOMAIN gs /\ C \subseteq DOMAIN gs
    BY DEF Done
  <2>2. t \in Teams
    BY <2>1, RecordGames DEF Plays
  <2>3. /\ s \in Nat /\ Pitch(gs[i]) \in Nat /\ gs[i] \in Game
        /\ Known(gs[i]) = Pitch(gs[i]) + Lag /\ T = Pitch(gs[i]) - Ahead
    BY <2>1, RecordGames
  <2>4. T \in Int /\ Known(gs[i]) \in Int /\ T < Known(gs[i])
    <3> HIDE DEF T
    <3> QED BY <2>3, Numbers
  <2> QED BY <2>1, <2>2, <2>3, <2>4, RecordGames
\* The games known then are games before it.
<1>1. ASSUME NEW k \in C
      PROVE  /\ k \in DOMAIN gs /\ k \in Nat /\ Known(gs[k]) \in Int /\ gs[k].season \in Nat
             /\ Known(gs[k]) <= T => k < i
             /\ gs[k].season < s => Known(gs[k]) <= T
             /\ k < i => gs[k].season <= s
  <2>1. k \in DOMAIN gs /\ k \in Nat /\ gs[k].season \in Nat /\ Known(gs[k]) \in Int
    <3>1. k \in DOMAIN gs
      BY <1>0
    <3>2. gs[k].season \in Nat /\ Pitch(gs[k]) \in Nat /\ Known(gs[k]) = Pitch(gs[k]) + Lag
      BY <3>1, RecordGames
    <3> QED BY <1>0, <3>1, <3>2, Numbers
  <2>2. ASSUME Known(gs[k]) <= T PROVE k < i
    <3>1. i <= k => Known(gs[i]) <= Known(gs[k])
      BY <1>0, <2>1, KnownInOrder
    <3> HIDE DEF T
    <3> QED BY <1>0, <2>1, <2>2, <3>1
  <2>3. ASSUME gs[k].season < s PROVE Known(gs[k]) <= T
    BY <1>0, <2>1, <2>3, EarlierKnown
  <2>4. ASSUME k < i PROVE gs[k].season <= s
    <3>1. k <= i
      BY <1>0, <2>1, <2>4
    <3> QED BY <1>0, <2>1, <3>1, KnownInOrder
  <2> QED BY <2>1, <2>2, <2>3, <2>4
\* The snapshots are of rated games.
<1>2. /\ \A k \in C : \E x \in snaps : /\ x.id = k /\ x.known = Known(gs[k])
                                       /\ x.season = gs[k].season /\ x.teams = Plays(gs[k])
                                       /\ x.rating = elo[k].rating
      /\ \A x \in snaps : /\ x.id \in C /\ x.known = Known(gs[x.id])
                          /\ x.season = gs[x.id].season /\ x.teams = Plays(gs[x.id])
                          /\ x.rating = elo[x.id].rating
  <2> DEFINE Snap(k) == [id |-> k, known |-> Known(gs[k]), season |-> gs[k].season,
                         teams |-> Plays(gs[k]), rating |-> elo[k].rating]
  <2>1. snaps = {Snap(k) : k \in C}
    BY DEF Snapshots
  <2>2. \A k : /\ Snap(k).id = k /\ Snap(k).known = Known(gs[k])
               /\ Snap(k).season = gs[k].season /\ Snap(k).teams = Plays(gs[k])
               /\ Snap(k).rating = elo[k].rating
    OBVIOUS
  <2> HIDE DEF Snap, snaps, elo, C
  <2> QED BY <2>1, <2>2
<1>3. SeasonAt(T) = s
  BY <1>0, SeasonAtForecast
<1>4. EloOK(gs, n)
  BY <1>0, EloEvery
<1>5. /\ \A x \in all : x <= elo[n].season
      /\ elo[n].season <= s
  <2>1. elo[n].season = NoSeason \/ elo[n].season \in all
    BY <1>4 DEF EloOK
  <2>2. \A x \in all : x <= s
    BY <1>0, <1>1 DEF SeasonsTo, Rated
  <2> QED BY <1>0, <1>4, <2>1, <2>2 DEF EloOK, NoSeason
<1>6. /\ ~ Played(gs, n, t) => found[t] = <<>>
      /\ \A j : Last(gs, n, t, j) =>
           found[t] = elo[j].rating[t]
                      \o Offs(Cardinality(Later(all \cup {s}, gs[j].season)))
  <2>1. n \in 0..Len(gs) /\ s \in Nat /\ t \in Teams
        /\ EloHistory(gs, Competitive)[n].season <= s
    BY <1>0, <1>5
  <2> HIDE DEF n, s
  <2>2. ASSUME ~ Played(gs, n, t) PROVE found[t] = <<>>
    <3>1. Opened(EloHistory(gs, Competitive)[n], s)[t] = <<>>
      BY <1>4, <2>1, <2>2, OpenedNew
    <3> QED BY <3>1
  <2>3. ASSUME NEW j, Last(gs, n, t, j)
        PROVE  found[t] = elo[j].rating[t]
                          \o Offs(Cardinality(Later(all \cup {s}, gs[j].season)))
    BY <1>4, <2>1, <2>3, OpenedOK
  <2> QED BY <2>2, <2>3
<1>7. Pregame(elo, gs, i)[t] = found[t]
  BY DEF Pregame
<1>8. /\ all \subseteq Nat
      /\ \A x : IsFiniteSet(Later(all, x)) /\ Cardinality(Later(all, x)) \in Nat
  BY <1>0, <1>4, <1>5, SeasonsFinite DEF EloOK
<1>9. opened \subseteq all /\ \A x \in all : x < s => x \in opened
  <2>1. ASSUME NEW x \in opened PROVE x \in all
    <3>1. PICK y \in snaps : y.known <= T /\ x = y.season
      BY <2>1
    <3>2. y.id \in C /\ Known(gs[y.id]) <= T /\ x = gs[y.id].season
      BY <1>2, <3>1
    <3>3. y.id \in Rated(gs, n)
      BY <1>0, <1>1, <3>2 DEF Rated
    <3> QED BY <3>2, <3>3 DEF SeasonsTo
  <2>2. ASSUME NEW x \in all, x < s PROVE x \in opened
    <3>1. PICK k \in C : k <= n /\ x = gs[k].season
      BY <2>2 DEF SeasonsTo, Rated
    <3>2. Known(gs[k]) <= T
      BY <1>1, <2>2, <3>1
    <3>3. PICK y \in snaps : y.known = Known(gs[k]) /\ y.season = gs[k].season
      BY <1>2
    <3> HIDE DEF snaps
    <3> QED BY <3>1, <3>2, <3>3
  <2> QED BY <2>1, <2>2
<1> HIDE DEF snaps, T, elo, all, s, C, n
<1>10. \A x \in own : x.id \in C /\ x.id <= n /\ t \in Plays(gs[x.id])
  BY <1>0, <1>1, <1>2
<1>11. ASSUME NEW k \in C, k <= n, t \in Plays(gs[k]) PROVE \E x \in own : x.id = k
  <2>1. k < i
    BY <1>0, <1>1, <1>11
  <2>2. Known(gs[k]) <= T
    BY <1>11, <2>1 DEF C, T
  <2>3. PICK x \in snaps : x.id = k /\ x.known = Known(gs[k]) /\ x.teams = Plays(gs[k])
    BY <1>2
  <2> QED BY <1>11, <2>2, <2>3
<1>12. CASE own = {}
  <2>1. ~ Played(gs, n, t)
    BY <1>11, <1>12 DEF Played, Rated, C
  <2>2. RatingAt(gs, t, T) = <<>>
    BY <1>12 DEF RatingAt, snaps
  <2> QED BY <1>6, <1>7, <2>1, <2>2 DEF elo, T
<1>13. CASE own # {}
  <2> DEFINE last == Latest(own)
             j == last.id
             sj == last.season
  <2>1. last \in own /\ \A o \in own : o.id <= last.id
    <3>1. \A x \in own : x.id \in Int /\ x.id <= n
      BY <1>1, <1>10
    <3> HIDE DEF own
    <3> QED BY <1>0, <1>13, <3>1, LatestOf
  <2>2. /\ j \in C /\ j <= n /\ t \in Plays(gs[j]) /\ sj = gs[j].season
        /\ last.rating = elo[j].rating /\ sj \in Nat
    BY <1>1, <1>2, <1>10, <2>1
  <2>3. sj \in opened
    BY <2>1
  <2> HIDE DEF last, own, opened
  <2>4. Last(gs, n, t, j)
    <3>1. ASSUME NEW k \in C, k <= n, t \in Plays(gs[k]) PROVE k <= j
      BY <1>11, <2>1, <3>1
    <3> QED BY <2>2, <3>1 DEF Last, Rated, C
  <2>5. found[t] = elo[j].rating[t] \o Offs(Cardinality(Later(all \cup {s}, sj)))
    BY <1>6, <2>2, <2>4
  <2>6. Max(opened) \in opened /\ \A x \in opened : x <= Max(opened)
    <3>1. opened \in SUBSET Int /\ opened # {} /\ \A x \in opened : x <= s
      <4>1. \A x \in all : x <= s
        BY <1>0, <1>1 DEF SeasonsTo, Rated, C, all
      <4> QED BY <1>8, <1>9, <2>3, <4>1
    <3>2. s \in Int
      BY <1>0
    <3> QED BY <3>1, <3>2, MaxOf
  <2>7. /\ \A x \in opened : x \in Nat /\ x <= s
        /\ Max(opened) \in Nat
    <3>1. \A x \in all : x <= s
      BY <1>0, <1>1 DEF SeasonsTo, Rated, C, all
    <3> QED BY <1>8, <1>9, <2>6, <3>1
  <2> DEFINE some == {x \in opened : x > sj}
  <2>8. Cardinality(some) + (IF s > Max(opened) THEN 1 ELSE 0)
          = Cardinality(Later(all \cup {s}, sj))
    <3>1. IsFiniteSet(some) /\ Cardinality(some) \in Nat
      <4>1. some \in SUBSET Later(all, sj)
        BY <1>9 DEF Later
      <4> HIDE DEF some
      <4> QED BY <1>8, <4>1, FS_Subset, FS_CardinalityType
    <3>2. CASE s > Max(opened)
      <4>1. s \notin opened /\ sj < s
        BY <1>0, <2>2, <2>3, <2>6, <2>7, <3>2
      <4>2. \A x \in all : x <= s /\ x \in Nat
        BY <1>0, <1>1, <1>8 DEF SeasonsTo, Rated, C, all
      <4>3. Later(all \cup {s}, sj) = some \cup {s} /\ s \notin some
        BY <1>0, <1>9, <4>1, <4>2 DEF Later
      <4> HIDE DEF some
      <4>4. Cardinality(some \cup {s}) = Cardinality(some) + 1
        BY <3>1, <4>3, FS_AddElement
      <4> QED BY <3>1, <3>2, <4>3, <4>4
    <3>3. CASE ~ (s > Max(opened))
      <4>1. s \in opened
        BY <1>0, <2>6, <2>7, <3>3
      <4>2. \A x \in all : x <= s /\ x \in Nat
        BY <1>0, <1>1, <1>8 DEF SeasonsTo, Rated, C, all
      <4>3. \A x \in all : x \in opened
        BY <1>0, <1>9, <4>1, <4>2
      <4>4. Later(all \cup {s}, sj) = some
        BY <1>9, <4>1, <4>3 DEF Later
      <4> HIDE DEF some
      <4> QED BY <3>1, <3>3, <4>4
    <3> QED BY <3>2, <3>3
  <2>9. RegressionsSince(snaps, sj, T) = Cardinality(Later(all \cup {s}, sj))
    <3>1. opened # {}
      BY <2>3
    <3>2. RegressionsSince(snaps, sj, T)
            = Cardinality(some) + (IF s > Max(opened) THEN 1 ELSE 0)
      BY <1>3, <3>1, Zenon DEF RegressionsSince, opened
    <3> HIDE DEF some
    <3> QED BY <2>8, <3>2
  <2>10. RatingAt(gs, t, T) = last.rating[t] \o Offs(RegressionsSince(snaps, sj, T))
    BY <1>13, Zenon DEF RatingAt, snaps, own, last, Offs
  <2>11. RatingAt(gs, t, T) = found[t]
    BY <2>2, <2>5, <2>9, <2>10, Zenon
  <2> QED BY <1>7, <2>11, Zenon DEF T, elo
<1> QED BY <1>12, <1>13

\* The rating read when a game is forecast is the one the engine carries into
\* it, whatever the record: regressed once for every season since the team's
\* last game, and never for one that has not begun (AsOfElo.rating_at,
\* _regressions_between, EloEngine.observe).
THEOREM RatingCorrect ==
  ASSUME Overnight, InSeason
  PROVE  Spec => []RatingIsPregame
<1>1. RecordOK(games) => RatingIsPregame
  BY RatingCarried, Zenon DEF RatingIsPregame
<1> QED BY <1>1, RecordInvariant, PTL

-----------------------------------------------------------------------------
(* The rows of a team.                                                     *)

\* The rows of a team in a season, before one of them.
PastOf(log, r) == {x \in log : x.team = r.team /\ x.season = r.season /\ x.id < r.id}

\* What stands in a row, of its game and of the rows before it.
RowOK(gs, log, r) ==
    /\ r.id \in Done(gs, {"R"}) /\ r.id \in Nat /\ r.id <= Len(gs)
    /\ r.team \in Plays(gs[r.id]) /\ r.season = gs[r.id].season /\ r.season \in Nat
    /\ r.won \in BOOLEAN /\ r.home \in BOOLEAN
    /\ PastOf(log, r) # {} => r.rest \in Nat
    /\ r.entering = IF PastOf(log, r) = {} THEN 0 ELSE Latest(PastOf(log, r)).after
    /\ r.after = Signed(r.entering, r.won)

\* The log is a table with one row for each game and team.
LogOK(gs, log) ==
    /\ \A r \in log : RowOK(gs, log, r)
    /\ \A r, x \in log : r.id = x.id /\ r.team = x.team => r = x

\* The log of the first games is what a log of more holds of them.
LEMMA LogPrefix ==
  ASSUME NEW gs, RecordOK(gs), NEW n \in 0..Len(gs), NEW m \in 0..n
  PROVE  Logs(gs)[m] = {x \in Logs(gs)[n] : x.id <= m}
<1> DEFINE Pair(i) == {RowOf(gs, Logs(gs)[i - 1], i, t) : t \in Plays(gs[i])}
           Upto(k) == {i \in Done(gs, {"R"}) : i <= k}
<1>1. m \in 0..Len(gs) /\ m \in Int /\ n \in Int /\ m <= n
  BY RecordGames
<1>2. Logs(gs)[n] = UNION {Pair(i) : i \in Upto(n)} /\ Logs(gs)[m] = UNION {Pair(i) : i \in Upto(m)}
  BY <1>1, LogRows
<1>3. \A i : \A x \in Pair(i) : x.id = i
  <2> SUFFICES ASSUME NEW i, NEW t \in Plays(gs[i]) PROVE RowOf(gs, Logs(gs)[i - 1], i, t).id = i
    OBVIOUS
  <2> DEFINE log == Logs(gs)[i - 1]
  <2> HIDE DEF log
  <2>1. RowOf(gs, log, i, t).id = i
    BY RowKey
  <2> QED BY <2>1 DEF log
<1>4. \A i \in Upto(n) : i \in Int
  BY RecordGames DEF Done
<1>5. Upto(m) = {i \in Upto(n) : i <= m}
  BY <1>1, RecordGames DEF Done
<1> HIDE DEF Pair, Upto
<1> QED BY <1>2, <1>3, <1>5

\* The log of a record is a table.
LEMMA LogIsTable ==
  ASSUME NEW gs, RecordOK(gs)
  PROVE  LogOK(gs, TeamLog(gs))
<1> DEFINE log == TeamLog(gs)
           N == Len(gs)
<1>0. N \in Nat /\ DOMAIN gs = 1..N /\ N \in 0..Len(gs) /\ log = Logs(gs)[N]
  BY RecordGames DEF TeamLog
<1>1. ASSUME NEW r \in log
      PROVE  /\ r.id \in Done(gs, {"R"}) /\ r.team \in Plays(gs[r.id])
             /\ r = RowOf(gs, Logs(gs)[r.id - 1], r.id, r.team)
  <2>1. log = UNION {{RowOf(gs, Logs(gs)[i - 1], i, t) : t \in Plays(gs[i])} :
                        i \in {k \in Done(gs, {"R"}) : k <= N}}
    BY <1>0, LogRows
  <2>2. PICK i \in Done(gs, {"R"}) : r \in {RowOf(gs, Logs(gs)[i - 1], i, t) : t \in Plays(gs[i])}
    BY <2>1
  <2>3. PICK t \in Plays(gs[i]) : r = RowOf(gs, Logs(gs)[i - 1], i, t)
    BY <2>2
  <2>4. r.id = i /\ r.team = t
    <3> DEFINE old == Logs(gs)[i - 1]
    <3>1. r = RowOf(gs, old, i, t)
      BY <2>3
    <3> HIDE DEF old
    <3> QED BY <3>1, RowKey
  <2> QED BY <2>3, <2>4
<1>4. ASSUME NEW r \in log PROVE r.id \in Nat /\ r.date = OfficialDate(gs[r.id]) /\ r.date \in Nat
  <2> DEFINE i == r.id
             t == r.team
             old == Logs(gs)[i - 1]
  <2>1. i \in DOMAIN gs /\ r = RowOf(gs, old, i, t)
    BY <1>1 DEF Done
  <2> HIDE DEF old, i, t, log
  <2>2. r.date = OfficialDate(gs[i])
    BY <2>1, RowKey
  <2>3. OfficialDate(gs[i]) \in Nat /\ i \in Nat
    BY <2>1, RecordGames
  <2> QED BY <2>2, <2>3 DEF i
<1>2. ASSUME NEW r \in log PROVE RowOK(gs, log, r)
  <2> DEFINE i == r.id
             t == r.team
             old == Logs(gs)[i - 1]
  <2>1. i \in Done(gs, {"R"}) /\ t \in Plays(gs[i]) /\ r = RowOf(gs, old, i, t)
    BY <1>1
  <2>2. i \in Nat /\ i \in 1..N /\ i - 1 \in 0..N /\ gs[i].season \in Nat
    BY <1>0, <2>1, RecordGames DEF Done
  <2>3. old = {x \in log : x.id <= i - 1}
    BY <1>0, <2>2, LogPrefix
  <2>4. \A x \in log : x.id \in Nat
    BY <1>0, <1>1 DEF Done
  <2>5. old = {x \in log : x.id < i}
    <3> HIDE DEF old, log, i
    <3> QED BY <2>2, <2>3, <2>4
  <2> HIDE DEF old, log, i, t
  <2>6. /\ r.season = gs[i].season /\ r.won \in BOOLEAN /\ r.home \in BOOLEAN
    BY <2>1, RowKey
  <2>7. r.entering = LastRow(old, t, gs[i].season).after /\ r.after = Signed(r.entering, r.won)
    BY <2>1, Zenon DEF RowOf, LogRow
  <2>8. {x \in old : x.team = t /\ x.season = gs[i].season} = PastOf(log, r)
    BY <2>5, <2>6 DEF PastOf, t, i
  <2>9. r.entering = IF PastOf(log, r) = {} THEN 0 ELSE Latest(PastOf(log, r)).after
    BY <2>7, <2>8 DEF LastRow
  <2>10. ASSUME PastOf(log, r) # {} PROVE r.rest \in Nat
    <3> DEFINE past == PastOf(log, r)
               before == LastRow(old, t, gs[i].season)
    <3>1. before = Latest(past)
      BY <2>8, <2>10 DEF LastRow
    <3>2. Latest(past) \in past
      <4>1. i \in Int /\ \A x \in past : x.id \in Int /\ x.id <= i
        BY <1>4, <2>2 DEF PastOf, i
      <4> HIDE DEF past
      <4> QED BY <2>10, <4>1, LatestOf DEF past
    <3>3. before.date \in Nat
      BY <1>4, <3>1, <3>2 DEF PastOf
    <3>4. r.rest = IF before.date = NoRest THEN NoRest
                   ELSE Max({OfficialDate(gs[i]) - before.date - 1, 0})
      BY <2>1, Zenon DEF RowOf, LogRow
    <3>5. OfficialDate(gs[i]) \in Nat
      BY <1>0, <2>2, RecordGames
    <3> DEFINE d == OfficialDate(gs[i]) - before.date - 1
    <3> HIDE DEF before
    <3>6. d \in Int
      BY <3>3, <3>5
    <3>7. r.rest = Max({d, 0})
      BY <3>3, <3>4 DEF NoRest
    <3> HIDE DEF d
    <3> QED BY <3>6, <3>7, OfTwo
  <2> QED BY <1>0, <2>1, <2>2, <2>6, <2>7, <2>9, <2>10 DEF RowOK, i, t
<1>3. ASSUME NEW r \in log, NEW x \in log, r.id = x.id, r.team = x.team PROVE r = x
  BY <1>1, <1>3
<1> QED BY <1>2, <1>3 DEF LogOK

\* Rows of one team: a list of results.
ListOK(rows) ==
    /\ IsFiniteSet(rows)
    /\ \A r \in rows : r.id \in Nat /\ r.won \in BOOLEAN
    /\ \A r, x \in rows : r.id = x.id => r = x

\* Some rows of a list are a list.
LEMMA SomeOf ==
  ASSUME NEW rows, ListOK(rows), NEW some \in SUBSET rows
  PROVE  ListOK(some) /\ Cardinality(some) \in Nat /\ Cardinality(some) <= Cardinality(rows)
         /\ Cardinality(rows) \in Nat
BY FS_Subset, FS_CardinalityType DEF ListOK

\* The rows of a team are a list.
LEMMA TeamRows ==
  ASSUME NEW gs, RecordOK(gs), NEW log, LogOK(gs, log), NEW t
  PROVE  ListOK(Of(log, t))
<1> DEFINE rows == Of(log, t)
           f == [r \in rows |-> r.id]
<1>1. \A r \in rows : /\ r \in log /\ r.team = t /\ r.id \in 1..Len(gs) /\ r.id \in Nat
                      /\ r.won \in BOOLEAN
  BY RecordGames DEF Of, LogOK, RowOK, Done
<1>2. \A r, x \in rows : r.id = x.id => r = x
  BY <1>1 DEF LogOK
<1>3. f \in Injection(rows, 1..Len(gs))
  <2> HIDE DEF rows
  <2>1. f \in [rows -> 1..Len(gs)]
    BY <1>1
  <2>2. \A r, x \in rows : f[r] = f[x] => r = x
    BY <1>2
  <2> HIDE DEF f
  <2> QED BY <2>1, <2>2 DEF Injection, IsInjective
<1>4. IsFiniteSet(rows)
  <2>1. IsFiniteSet(1..Len(gs))
    BY RecordGames, FS_Interval
  <2> HIDE DEF rows, f
  <2> QED BY <1>3, <2>1, FS_Injection
<1> QED BY <1>1, <1>2, <1>4 DEF ListOK

-----------------------------------------------------------------------------
(* Runs.                                                                   *)

\* The signed length of the run at the end of a list.
Count(rows) == Cardinality(Run(rows, TRUE)) - Cardinality(Run(rows, FALSE))

\* The count, from the two runs.
LEMMA Difference ==
  ASSUME NEW rows, NEW w \in Nat, NEW l \in Nat,
         Cardinality(Run(rows, TRUE)) = w, Cardinality(Run(rows, FALSE)) = l
  PROVE  Count(rows) \in Int /\ Count(rows) = w - l
<1>1. Count(rows) = w - l
  BY Zenon DEF Count
<1> HIDE DEF Count
<1> QED BY <1>1

\* A list that ends in wins.
LEMMA AllWins ==
  ASSUME NEW rows, NEW w \in Nat,
         Cardinality(Run(rows, TRUE)) = w, Cardinality(Run(rows, FALSE)) = 0
  PROVE  Count(rows) = w
<1>1. Count(rows) = w - 0
  BY Zenon DEF Count
<1> QED BY <1>1

\* A list that ends in losses.
LEMMA AllLosses ==
  ASSUME NEW rows, NEW l \in Nat,
         Cardinality(Run(rows, TRUE)) = 0, Cardinality(Run(rows, FALSE)) = l
  PROVE  Count(rows) = -l /\ -Count(rows) = l
<1>1. Count(rows) = 0 - l
  BY Zenon DEF Count
<1> QED BY <1>1

\* A list does not end in wins and in losses.
LEMMA RunsApart ==
  ASSUME NEW rows, ListOK(rows)
  PROVE  /\ Run(rows, TRUE) = {} \/ Run(rows, FALSE) = {}
         /\ \A won \in BOOLEAN : /\ Run(rows, won) \in SUBSET rows
                                 /\ IsFiniteSet(Run(rows, won))
                                 /\ Cardinality(Run(rows, won)) \in Nat
                                 /\ Cardinality(Run(rows, won)) <= Cardinality(rows)
                                 /\ (Cardinality(Run(rows, won)) = 0 <=> Run(rows, won) = {})
         /\ Cardinality(rows) \in Nat
<1>1. ASSUME NEW x \in Run(rows, TRUE), NEW y \in Run(rows, FALSE) PROVE FALSE
  <2>1. /\ x \in rows /\ y \in rows /\ x.id \in Nat /\ y.id \in Nat
        /\ \A z \in rows : z.id >= x.id => z.won = TRUE
        /\ \A z \in rows : z.id >= y.id => z.won = FALSE
    BY DEF Run, ListOK
  <2>2. CASE x.id >= y.id
    BY <2>1, <2>2
  <2>3. CASE ~ (x.id >= y.id)
    BY <2>1, <2>3
  <2> QED BY <2>2, <2>3
<1>2. ASSUME NEW won \in BOOLEAN
      PROVE  /\ Run(rows, won) \in SUBSET rows
             /\ IsFiniteSet(Run(rows, won))
             /\ Cardinality(Run(rows, won)) \in Nat
             /\ Cardinality(Run(rows, won)) <= Cardinality(rows)
             /\ (Cardinality(Run(rows, won)) = 0 <=> Run(rows, won) = {})
             /\ Cardinality(rows) \in Nat
  <2>1. Run(rows, won) \in SUBSET rows
    BY DEF Run
  <2>2. IsFiniteSet(rows)
    BY DEF ListOK
  <2> QED BY <2>1, <2>2, FS_Subset, FS_CardinalityType, FS_EmptySet
<1> QED BY <1>1, <1>2

\* A result more goes on with the run, or begins one.
LEMMA CountGrows ==
  ASSUME NEW rows, NEW r, ListOK(rows \cup {r}), \A x \in rows : x.id < r.id
  PROVE  /\ Count(rows \cup {r}) = Signed(Count(rows), r.won)
         /\ Count(rows) \in Int /\ Count(rows \cup {r}) \in Int
<1> DEFINE more == rows \cup {r}
<1>1. /\ r.won \in BOOLEAN /\ r.id \in Nat /\ ListOK(rows)
      /\ \A x \in rows : x.id \in Nat /\ x.won \in BOOLEAN
      /\ r \notin rows
  <2>1. ListOK(rows)
    BY SomeOf
  <2> QED BY <2>1 DEF ListOK
<1>2. ASSUME NEW won \in BOOLEAN
      PROVE  Run(more, won) = IF r.won = won THEN Run(rows, won) \cup {r} ELSE {}
  <2>1. CASE r.won = won
    <3>1. ASSUME NEW x \in rows
          PROVE  x \in Run(more, won) <=> x \in Run(rows, won)
      BY <1>1, <2>1 DEF Run
    <3>2. r \in Run(more, won)
      BY <1>1, <2>1 DEF Run
    <3>3. Run(more, won) \subseteq more /\ Run(rows, won) \subseteq rows
      BY DEF Run
    <3> QED BY <2>1, <3>1, <3>2, <3>3
  <2>2. CASE r.won # won
    <3>1. ASSUME NEW x \in Run(more, won) PROVE FALSE
      <4>1. x \in more /\ x.id <= r.id
        BY <1>1 DEF Run
      <4>2. r.id >= x.id /\ r \in more
        BY <1>1, <4>1
      <4>3. r.won = won
        BY <4>2 DEF Run
      <4> QED BY <2>2, <4>3
    <3> QED BY <2>2, <3>1
  <2> QED BY <2>1, <2>2
<1>3. /\ Run(rows, TRUE) = {} \/ Run(rows, FALSE) = {}
      /\ \A won \in BOOLEAN : /\ IsFiniteSet(Run(rows, won))
                              /\ Cardinality(Run(rows, won)) \in Nat
                              /\ (Cardinality(Run(rows, won)) = 0 <=> Run(rows, won) = {})
                              /\ r \notin Run(rows, won)
  <2>1. \A won \in BOOLEAN : r \notin Run(rows, won)
    BY <1>1 DEF Run
  <2> QED BY <1>1, <2>1, RunsApart
<1>4. \A won \in BOOLEAN :
        Cardinality(Run(rows, won) \cup {r}) = Cardinality(Run(rows, won)) + 1
  BY <1>3, FS_AddElement
<1>5. Cardinality({}) = 0
  BY FS_EmptySet
<1> DEFINE w == Cardinality(Run(rows, TRUE))
           l == Cardinality(Run(rows, FALSE))
<1>6. w \in Nat /\ l \in Nat /\ (w = 0 \/ l = 0) /\ Count(rows) = w - l
  BY <1>3, Difference
<1>7. Count(more) = IF r.won THEN w + 1 ELSE -(l + 1)
  <2>1. CASE r.won = TRUE
    <3>1. Run(more, TRUE) = Run(rows, TRUE) \cup {r} /\ Run(more, FALSE) = {}
      BY <1>2, <2>1
    <3>2. Cardinality(Run(more, TRUE)) = w + 1 /\ Cardinality(Run(more, FALSE)) = 0
      BY <1>4, <1>5, <3>1
    <3>3. Count(more) = w + 1
      <4>1. w + 1 \in Nat
        <5> HIDE DEF w, l
        <5> QED BY <1>6
      <4> QED BY <3>2, <4>1, AllWins
    <3> HIDE DEF more, w, l
    <3> QED BY <2>1, <3>3, Zenon
  <2>2. CASE r.won = FALSE
    <3>1. Run(more, FALSE) = Run(rows, FALSE) \cup {r} /\ Run(more, TRUE) = {}
      BY <1>2, <2>2
    <3>2. Cardinality(Run(more, FALSE)) = l + 1 /\ Cardinality(Run(more, TRUE)) = 0
      BY <1>4, <1>5, <3>1
    <3>3. Count(more) = -(l + 1)
      <4>1. l + 1 \in Nat
        <5> HIDE DEF w, l
        <5> QED BY <1>6
      <4> QED BY <3>2, <4>1, AllLosses
    <3> HIDE DEF more, w, l
    <3> QED BY <2>2, <3>3, Zenon
  <2> QED BY <1>1, <2>1, <2>2
<1> HIDE DEF w, l, more
<1>8. Count(more) = Signed(Count(rows), r.won) /\ Count(rows) \in Int /\ Count(more) \in Int
  BY <1>1, <1>6, <1>7 DEF Signed
<1> QED BY <1>8 DEF more

\* The streak of a list is its count.
LEMMA StreakIsCount ==
  ASSUME NEW rows, NEW r, ListOK(rows \cup {r}), \A x \in rows : x.id < r.id
  PROVE  /\ Latest(rows \cup {r}) = r
         /\ Streak(rows \cup {r}) = Count(rows \cup {r})
         /\ \A x \in LastOf(rows \cup {r},
                            IF r.won THEN Count(rows \cup {r}) ELSE -Count(rows \cup {r})) :
              x.won = r.won
<1> DEFINE more == rows \cup {r}
           run == Run(more, r.won)
           n == IF r.won THEN Count(more) ELSE -Count(more)
<1>1. r.won \in BOOLEAN /\ r.id \in Nat /\ \A x \in more : x.id \in Nat /\ x.id <= r.id
  BY DEF ListOK
<1>2. Latest(more) = r
  <2>1. Latest(more) \in more /\ \A x \in more : x.id <= Latest(more).id
    <3>1. more # {} /\ \A x \in more : x.id \in Int /\ x.id <= r.id
      BY <1>1
    <3> HIDE DEF more
    <3> QED BY <1>1, <3>1, LatestOf
  <2>2. Latest(more).id = r.id
    BY <1>1, <2>1
  <2> QED BY <2>1, <2>2 DEF ListOK
<1>3. r \in run
  <2>1. \A x \in more : x.id >= r.id => x = r
    <3> SUFFICES ASSUME NEW x \in rows, x.id >= r.id PROVE FALSE
      OBVIOUS
    <3>1. x.id < r.id /\ x.id \in Nat
      BY <1>1
    <3> QED BY <1>1, <3>1
  <2> QED BY <2>1 DEF Run
<1> HIDE DEF more
<1>4. /\ Run(more, TRUE) = {} \/ Run(more, FALSE) = {}
      /\ \A won \in BOOLEAN : Cardinality(Run(more, won)) \in Nat
      /\ IsFiniteSet(more)
  BY RunsApart DEF more, ListOK
<1>5. n = Cardinality(run) /\ n \in Nat
  <2>1. CASE r.won = TRUE
    <3>1. Run(more, FALSE) = {}
      BY <1>3, <1>4, <2>1
    <3>2. Cardinality(Run(more, FALSE)) = 0
      BY <3>1, FS_EmptySet
    <3>3. Cardinality(Run(more, TRUE)) \in Nat
      BY <1>4
    <3>4. Count(more) = Cardinality(Run(more, TRUE))
      BY <3>2, <3>3, AllWins
    <3>5. n = Count(more) /\ run = Run(more, TRUE)
      BY <2>1, Zenon
    <3> HIDE DEF n, run
    <3> QED BY <3>3, <3>4, <3>5, Zenon
  <2>2. CASE r.won = FALSE
    <3>1. Run(more, TRUE) = {}
      BY <1>3, <1>4, <2>2
    <3>2. Cardinality(Run(more, TRUE)) = 0
      BY <3>1, FS_EmptySet
    <3>3. Cardinality(Run(more, FALSE)) \in Nat
      BY <1>4
    <3>4. -Count(more) = Cardinality(Run(more, FALSE))
      BY <3>2, <3>3, AllLosses
    <3>5. n = -Count(more) /\ run = Run(more, FALSE)
      BY <2>2, Zenon
    <3> HIDE DEF n, run
    <3> QED BY <3>3, <3>4, <3>5, Zenon
  <2> QED BY <1>1, <2>1, <2>2
<1>6. Streak(more) = Count(more)
  <2>1. more # {}
    BY DEF more
  <2>2. Streak(more) = IF r.won THEN Cardinality(run) ELSE -Cardinality(run)
    BY <1>2, <2>1 DEF Streak
  <2>3. Count(more) \in Int
    <3>1. Cardinality(Run(more, TRUE)) \in Nat /\ Cardinality(Run(more, FALSE)) \in Nat
      BY <1>4
    <3> QED BY <3>1, Difference
  <2> QED BY <1>1, <1>5, <2>2, <2>3
<1>7. ASSUME NEW x \in LastOf(more, n) PROVE x.won = r.won
  <2> DEFINE past == {y \in more : y.id > x.id}
  <2>1. x \in more /\ Cardinality(past) < n
    BY DEF LastOf
  <2>2. SUFFICES ASSUME x \notin run PROVE FALSE
    BY <1>1, <2>1 DEF Run
  <2>3. PICK y \in more : y.id >= x.id /\ y.won # r.won
    BY <2>1, <2>2 DEF Run
  <2>4. run \in SUBSET past
    <3> SUFFICES ASSUME NEW z \in run PROVE z \in more /\ z.id > x.id
      OBVIOUS
    <3>1. z \in more /\ \A v \in more : v.id >= z.id => v.won = r.won
      BY DEF Run
    <3>2. ~ (y.id >= z.id)
      BY <2>3, <3>1
    <3>3. x.id \in Nat /\ y.id \in Nat /\ z.id \in Nat
      BY <1>1, <2>1, <3>1
    <3> HIDE DEF run
    <3> QED BY <2>3, <3>1, <3>2, <3>3
  <2>5. IsFiniteSet(past) /\ Cardinality(past) \in Nat
    BY <1>4, FS_Subset, FS_CardinalityType
  <2> HIDE DEF past, run, n
  <2>6. Cardinality(run) <= Cardinality(past)
    BY <2>4, <2>5, FS_Subset
  <2> QED BY <1>5, <2>1, <2>5, <2>6
<1> QED BY <1>2, <1>6, <1>7 DEF more

\* The rows before a row, and the row that stands last among them.
LEMMA PastRows ==
  ASSUME NEW gs, RecordOK(gs), NEW log, LogOK(gs, log), NEW r \in log
  PROVE  /\ ListOK(PastOf(log, r) \cup {r}) /\ ListOK(PastOf(log, r))
         /\ PastOf(log, r) \cup {r} \in SUBSET Of(log, r.team)
         /\ \A x \in PastOf(log, r) : x.id < r.id
         /\ PastOf(log, r) # {} =>
              LET l == Latest(PastOf(log, r))
              IN /\ l \in log /\ l.team = r.team /\ l.season = r.season /\ l.id < r.id
                 /\ PastOf(log, l) \cup {l} = PastOf(log, r)
<1> DEFINE past == PastOf(log, r)
           l == Latest(past)
<1>1. past \cup {r} \in SUBSET Of(log, r.team)
  BY DEF PastOf, Of
<1>2. ListOK(past \cup {r}) /\ ListOK(past)
  <2>1. ListOK(Of(log, r.team))
    BY TeamRows
  <2>2. past \in SUBSET Of(log, r.team)
    BY <1>1
  <2> HIDE DEF past
  <2> QED BY <1>1, <2>1, <2>2, SomeOf
<1>3. \A x \in past : x \in log /\ x.team = r.team /\ x.season = r.season /\ x.id < r.id
  BY DEF PastOf
<1>4. \A x \in log : x.id \in Nat
  BY DEF LogOK, RowOK
<1>5. ASSUME past # {}
      PROVE  /\ l \in log /\ l.team = r.team /\ l.season = r.season /\ l.id < r.id
             /\ PastOf(log, l) \cup {l} = past
  <2>1. l \in past /\ \A x \in past : x.id <= l.id
    <3>1. r.id \in Int /\ \A x \in past : x.id \in Int /\ x.id <= r.id
      BY <1>3, <1>4
    <3> HIDE DEF past
    <3> QED BY <1>5, <3>1, LatestOf
  <2> HIDE DEF l
  <2>2. l \in log /\ l.team = r.team /\ l.season = r.season /\ l.id < r.id
    BY <1>3, <2>1
  <2>3. ASSUME NEW x \in PastOf(log, l) PROVE x \in past
    <3>1. x \in log /\ x.team = r.team /\ x.season = r.season /\ x.id < l.id
      BY <2>2 DEF PastOf
    <3>2. x.id < r.id
      BY <1>4, <2>2, <3>1
    <3> QED BY <3>1, <3>2 DEF PastOf
  <2>4. ASSUME NEW x \in past, x # l PROVE x \in PastOf(log, l)
    <3>1. x \in log /\ x.team = l.team /\ x.season = l.season /\ x.id <= l.id
      BY <1>3, <2>1, <2>2
    <3>2. x.id # l.id
      BY <2>2, <2>4, <3>1 DEF LogOK
    <3>3. x.id < l.id
      BY <1>4, <2>2, <3>1, <3>2
    <3> QED BY <3>1, <3>3 DEF PastOf
  <2> QED BY <2>1, <2>2, <2>3, <2>4
<1> HIDE DEF past
<1> QED BY <1>1, <1>2, <1>3, <1>5 DEF past

\* The streak that enters a row is the count of the rows before it.
LEMMA RowsCount ==
  ASSUME NEW gs, RecordOK(gs), NEW log, LogOK(gs, log)
  PROVE  \A r \in log :
           /\ r.entering = Count(PastOf(log, r)) /\ r.entering \in Int
           /\ r.after = Count(PastOf(log, r) \cup {r}) /\ r.after \in Int
<1> DEFINE Right(r) == /\ r.entering = Count(PastOf(log, r)) /\ r.entering \in Int
                       /\ r.after = Count(PastOf(log, r) \cup {r}) /\ r.after \in Int
           Good == {n \in Nat : \A r \in log : r.id <= n => Right(r)}
<1>0. \A r \in log : /\ r.id \in Nat /\ r.id # 0
                     /\ r.entering = IF PastOf(log, r) = {} THEN 0
                                     ELSE Latest(PastOf(log, r)).after
                     /\ r.after = Signed(r.entering, r.won)
  BY RecordGames DEF LogOK, RowOK, Done
<1>1. 0 \in Good
  BY <1>0
<1>2. ASSUME NEW n \in Good PROVE n + 1 \in Good
  <2> SUFFICES ASSUME NEW r \in log, r.id = n + 1 PROVE Right(r)
    <3>1. \A x \in log : x.id <= n => Right(x)
      OBVIOUS
    <3> HIDE DEF Right
    <3>2. \A x \in log : x.id <= n + 1 => Right(x)
      BY <1>0, <3>1
    <3> QED BY <3>2
  <2>1. \A x \in log : x.id <= n => Right(x)
    OBVIOUS
  <2> DEFINE past == PastOf(log, r)
             l == Latest(past)
  <2>2. /\ ListOK(past \cup {r}) /\ \A x \in past : x.id < r.id
        /\ past # {} => /\ l \in log /\ l.id < r.id
                        /\ PastOf(log, l) \cup {l} = past
    BY PastRows
  <2>3. r.entering = Count(past)
    <3>1. CASE past = {}
      <4>1. \A won \in BOOLEAN : Run({}, won) = {}
        BY DEF Run
      <4>2. Cardinality(Run({}, TRUE)) = 0 /\ Cardinality(Run({}, FALSE)) = 0
        BY <4>1, FS_EmptySet
      <4>3. Count({}) = 0
        BY <4>2, AllWins
      <4>4. r.entering = 0
        BY <1>0, <3>1
      <4> HIDE DEF past
      <4> QED BY <3>1, <4>3, <4>4
    <3>2. CASE past # {}
      <4>1. l \in log /\ l.id <= n
        BY <1>0, <2>2, <3>2
      <4>2. l.after = Count(PastOf(log, l) \cup {l})
        BY <2>1, <4>1
      <4>3. r.entering = l.after
        BY <1>0, <3>2
      <4> HIDE DEF l, past
      <4> QED BY <2>2, <3>2, <4>2, <4>3
    <3> QED BY <3>1, <3>2
  <2> HIDE DEF past
  <2>4. /\ Count(past \cup {r}) = Signed(Count(past), r.won)
        /\ Count(past) \in Int /\ Count(past \cup {r}) \in Int
    BY <2>2, CountGrows
  <2>5. r.after = Count(past \cup {r})
    BY <1>0, <2>3, <2>4
  <2> QED BY <2>3, <2>4, <2>5 DEF past
<1>3. Good = Nat
  <2> HIDE DEF Good
  <2>1. Good \in SUBSET Nat
    BY DEF Good
  <2> QED BY <1>1, <1>2, <2>1, EveryNumber
<1>4. ASSUME NEW r \in log PROVE Right(r)
  <2>1. r.id \in Good
    <3> HIDE DEF Good
    <3> QED BY <1>0, <1>3
  <2>2. r.id <= r.id
    BY <1>0
  <2> HIDE DEF Right
  <2> QED BY <2>1, <2>2
<1> QED BY <1>4

\* A run is no longer than its list.
LEMMA CountBound ==
  ASSUME NEW rows, ListOK(rows)
  PROVE  /\ Count(rows) \in Int /\ Cardinality(rows) \in Nat
         /\ Count(rows) <= Cardinality(rows) /\ -Count(rows) <= Cardinality(rows)
<1> DEFINE w == Cardinality(Run(rows, TRUE))
           l == Cardinality(Run(rows, FALSE))
           c == Count(rows)
           n == Cardinality(rows)
<1>1. w \in Nat /\ l \in Nat /\ w <= n /\ l <= n /\ n \in Nat
  BY RunsApart
<1>2. c \in Int /\ c = w - l
  BY <1>1, Difference
<1> HIDE DEF w, l, c, n
<1>3. c <= n /\ -c <= n
  BY <1>1, <1>2
<1> QED BY <1>1, <1>2, <1>3 DEF c, n

\* What the page says of a team's season, at its last row.
LEMMA BlockRight ==
  ASSUME NEW gs, RecordOK(gs), NEW log, LogOK(gs, log), NEW r \in log,
         \A x \in Of(log, r.team) : x.id <= r.id
  PROVE  LET rows == {x \in log : x.team = r.team /\ x.season = r.season}
             block == CurrentBlock(log, r.team, r.season)
         IN /\ block.current = Streak(rows)
            /\ \A x \in block.inside : x.season = r.season /\ x.won = r.won
            /\ -block.worst <= block.current /\ block.current <= block.longest
<1> DEFINE rows == {x \in log : x.team = r.team /\ x.season = r.season}
           past == PastOf(log, r)
           block == CurrentBlock(log, r.team, r.season)
           c == Count(rows)
<1>1. ListOK(past \cup {r}) /\ \A x \in past : x.id < r.id
  BY PastRows
<1>2. rows = past \cup {r}
  <2>1. \A x \in log : x.id \in Nat
    BY DEF LogOK, RowOK
  <2>2. ASSUME NEW x \in rows, x # r PROVE x.id < r.id
    <3>1. x \in Of(log, r.team) /\ x.id <= r.id
      BY DEF Of
    <3>2. x.id # r.id
      BY <2>2 DEF LogOK
    <3> QED BY <2>1, <3>1, <3>2
  <2> QED BY <2>2 DEF PastOf
<1>3. /\ Latest(rows) = r /\ Streak(rows) = c
      /\ \A x \in LastOf(rows, IF r.won THEN c ELSE -c) : x.won = r.won
  <2> HIDE DEF rows, past
  <2> QED BY <1>1, <1>2, StreakIsCount
<1>4. r.after = c /\ c \in Int
  <2> HIDE DEF rows
  <2> QED BY <1>2, RowsCount
<1>5. r \in rows /\ \A x \in rows : x \in log /\ x.season = r.season
  OBVIOUS
<1>6. \A x \in rows : /\ x.after \in Int /\ x.after <= Cardinality(Of(log, r.team))
                      /\ -x.after <= Cardinality(Of(log, r.team))
  <2> SUFFICES ASSUME NEW x \in log, x.team = r.team
               PROVE  /\ x.after \in Int /\ x.after <= Cardinality(Of(log, r.team))
                      /\ -x.after <= Cardinality(Of(log, r.team))
    OBVIOUS
  <2> DEFINE some == PastOf(log, x) \cup {x}
             all == Of(log, r.team)
  <2>1. x.after = Count(some)
    BY RowsCount
  <2>2. ListOK(some) /\ some \in SUBSET all
    BY PastRows
  <2>3. ListOK(all)
    BY TeamRows
  <2> HIDE DEF some, all
  <2>4. /\ Count(some) \in Int /\ Cardinality(some) \in Nat
        /\ Count(some) <= Cardinality(some) /\ -Count(some) <= Cardinality(some)
    BY <2>2, CountBound
  <2>5. Cardinality(some) <= Cardinality(all) /\ Cardinality(all) \in Nat
    BY <2>2, <2>3, SomeOf
  <2>6. /\ Count(some) <= Cardinality(all) /\ -Count(some) <= Cardinality(all)
    BY <2>4, <2>5
  <2> QED BY <2>1, <2>4, <2>6 DEF all
<1>7. Cardinality(Of(log, r.team)) \in Nat
  BY TeamRows, SomeOf
<1>8. /\ block.current = r.after /\ block.inside = LastOf(rows, Abs(r.after))
      /\ block.longest = Max({0} \cup {x.after : x \in rows})
      /\ block.worst = Max({0} \cup {-x.after : x \in rows})
  <2>1. /\ block.current = Latest(rows).after
        /\ block.inside = LastOf(rows, Abs(Latest(rows).after))
        /\ block.longest = Max({0} \cup {x.after : x \in rows})
        /\ block.worst = Max({0} \cup {-x.after : x \in rows})
    BY DEF CurrentBlock
  <2> HIDE DEF rows, block
  <2> QED BY <1>3, <2>1
<1> HIDE DEF rows, past, block, c
<1>9. Abs(c) = IF r.won THEN c ELSE -c
  <2>1. Abs(r.after) = IF r.won THEN r.after ELSE -r.after
    <3>1. /\ r.after = Signed(r.entering, r.won) /\ r.entering \in Int /\ r.won \in BOOLEAN
      BY RowsCount DEF LogOK, RowOK
    <3> QED BY <3>1 DEF Signed, Abs
  <2> QED BY <1>4, <2>1
<1>10. \A x \in block.inside : x.season = r.season /\ x.won = r.won
  <2>1. block.inside \subseteq rows
    BY <1>8 DEF LastOf
  <2>2. block.inside = LastOf(rows, IF r.won THEN c ELSE -c)
    BY <1>4, <1>8, <1>9
  <2> QED BY <1>3, <1>5, <2>1, <2>2
<1>11. block.current <= block.longest
  <2> DEFINE S == {0} \cup {x.after : x \in rows}
             high == Cardinality(Of(log, r.team))
  <2>1. S \in SUBSET Int /\ r.after \in S /\ high \in Int /\ \A y \in S : y <= high
    BY <1>5, <1>6, <1>7
  <2> HIDE DEF S, high
  <2>2. r.after <= Max(S)
    BY <2>1, MaxOf
  <2> QED BY <1>8, <2>2 DEF S
<1>12. -block.worst <= block.current
  <2> DEFINE S == {0} \cup {-x.after : x \in rows}
             high == Cardinality(Of(log, r.team))
  <2>1. S \in SUBSET Int /\ -r.after \in S /\ high \in Int /\ \A y \in S : y <= high
    BY <1>5, <1>6, <1>7
  <2> HIDE DEF S, high
  <2>2. -r.after <= Max(S) /\ Max(S) \in Int
    BY <2>1, MaxOf
  <2>3. r.after \in Int
    BY <1>4
  <2>4. -Max(S) <= r.after
    BY <2>2, <2>3
  <2> QED BY <1>8, <2>4 DEF S
<1> QED BY <1>3, <1>4, <1>8, <1>10, <1>11, <1>12 DEF rows, block

\* The streak in the log, on the card and on the page is the length of the run
\* of results at the end of the team's season so far, whatever the record
\* (build_team_log, current_block, LeagueStreaks).
THEOREM EnteringCorrect == Spec => []EnteringIsRun
<1>1. RecordOK(games) => EnteringIsRun
  <2> SUFFICES ASSUME RecordOK(games) PROVE EnteringIsRun
    OBVIOUS
  <2> DEFINE log == TeamLog(games)
  <2>1. LogOK(games, log)
    BY LogIsTable
  <2> HIDE DEF log
  <2>2. ASSUME NEW r \in log
        PROVE  r.entering = Cardinality(Run(PastOf(log, r), TRUE))
                            - Cardinality(Run(PastOf(log, r), FALSE))
    <3>1. r.entering = Count(PastOf(log, r))
      BY <2>1, RowsCount
    <3> QED BY <3>1, Zenon DEF Count
  <2>3. ASSUME NEW r \in log, \A x \in Of(log, r.team) : x.id <= r.id
        PROVE  LET block == CurrentBlock(log, r.team, r.season)
               IN /\ block.current = Streak({x \in log : x.team = r.team /\ x.season = r.season})
                  /\ \A x \in block.inside : x.season = r.season /\ x.won = r.won
                  /\ -block.worst <= block.current /\ block.current <= block.longest
    BY <2>1, <2>3, BlockRight, Zenon
  <2> QED BY <2>2, <2>3, Zenon DEF EnteringIsRun, log, PastOf
<1> QED BY <1>1, RecordInvariant, PTL

-----------------------------------------------------------------------------
(* The tables.                                                             *)

\* A set in two parts has the elements of both.
LEMMA TwoParts ==
  ASSUME NEW all, IsFiniteSet(all), NEW a, NEW b, a \cup b = all, a \cap b = {}
  PROVE  /\ Cardinality(a) \in Nat /\ Cardinality(b) \in Nat /\ Cardinality(all) \in Nat
         /\ Cardinality(all) = Cardinality(a) + Cardinality(b)
         /\ Cardinality(all) - Cardinality(a) = Cardinality(b)
<1>1. IsFiniteSet(a) /\ IsFiniteSet(b)
  <2>1. a \in SUBSET all /\ b \in SUBSET all
    OBVIOUS
  <2> QED BY <2>1, FS_Subset
<1>2. Cardinality(a \cup b) = Cardinality(a) + Cardinality(b) - Cardinality(a \cap b)
  BY <1>1, FS_Union
<1>3. Cardinality(a \cap b) = 0
  BY FS_EmptySet
<1>4. /\ Cardinality(a) \in Nat /\ Cardinality(b) \in Nat /\ Cardinality(all) \in Nat
  BY <1>1, FS_CardinalityType
<1> DEFINE x == Cardinality(a)
           y == Cardinality(b)
           z == Cardinality(all)
           u == Cardinality(a \cap b)
<1>5. x \in Nat /\ y \in Nat /\ z \in Nat /\ u = 0 /\ z = x + y - u
  BY <1>2, <1>3, <1>4
<1> HIDE DEF x, y, z, u
<1>6. z = x + y /\ z - x = y
  BY <1>5
<1> QED BY <1>4, <1>6 DEF x, y, z

\* A streak that enters a game is the one the team stood at before.
LEMMA PreviousIsEntering ==
  ASSUME NEW gs, RecordOK(gs), NEW log, LogOK(gs, log), NEW r \in log, r.entering # 0
  PROVE  Previous(Of(log, r.team), r) = r.entering
<1> DEFINE past == PastOf(log, r)
           rows == Of(log, r.team)
           ever == {x \in rows : x.id < r.id}
           l == Latest(past)
           m == Latest(ever)
<1>1. past # {} /\ r.entering = l.after
  BY DEF LogOK, RowOK
<1>2. \A x \in log : /\ x.id \in Nat /\ x.id \in DOMAIN gs /\ x.season = gs[x.id].season
                     /\ x.season \in Nat
  BY DEF LogOK, RowOK, Done
<1>3. \A x, y \in log : x.id <= y.id => x.season <= y.season
  BY <1>2, KnownInOrder
<1>4. l \in past /\ \A x \in past : x.id <= l.id
  <2>1. r.id \in Int /\ \A x \in past : x.id \in Int /\ x.id <= r.id
    BY <1>2 DEF PastOf
  <2> HIDE DEF past
  <2> QED BY <1>1, <2>1, LatestOf
<1>5. past \subseteq ever
  BY DEF PastOf, Of
<1>6. m \in ever /\ \A x \in ever : x.id <= m.id
  <2>1. r.id \in Int /\ \A x \in ever : x.id \in Int /\ x.id <= r.id
    BY <1>2 DEF Of
  <2>2. ever # {}
    BY <1>1, <1>5
  <2> HIDE DEF ever
  <2> QED BY <2>1, <2>2, LatestOf
<1> HIDE DEF l, m
<1>7. l \in log /\ l.id < r.id /\ l.season = r.season /\ l.team = r.team
  BY <1>4 DEF PastOf
<1>8. m \in log /\ m.id < r.id /\ m.team = r.team
  BY <1>6 DEF Of
<1>9. m.season = r.season
  <2>1. l.id <= m.id
    BY <1>4, <1>5, <1>6
  <2>2. l.season <= m.season
    BY <1>3, <1>7, <1>8, <2>1
  <2>3. m.id <= r.id
    BY <1>2, <1>8
  <2>4. m.season <= r.season
    BY <1>3, <1>8, <2>3
  <2>5. m.season \in Nat /\ r.season \in Nat
    BY <1>2, <1>8
  <2> QED BY <1>7, <2>2, <2>4, <2>5
<1>10. m \in past
  BY <1>8, <1>9 DEF PastOf
<1>11. m = l
  <2>1. m.id <= l.id /\ l.id <= m.id
    BY <1>4, <1>5, <1>6, <1>10
  <2>2. m.id = l.id
    BY <1>2, <1>7, <1>8, <2>1
  <2> QED BY <1>7, <1>8, <2>2 DEF LogOK
<1>12. ever # {}
  BY <1>6
<1>13. Previous(rows, r) = m.after
  BY <1>12, Zenon DEF Previous, m
<1> QED BY <1>1, <1>11, <1>13 DEF l

\* A streak has a sign and a length.
LEMMA StreakOf ==
  ASSUME NEW e \in Int, NEW sign \in {1, -1}, NEW length \in Nat, 1 < length
  PROVE  Sign(e) = sign /\ Abs(e) = length <=> e = sign * length
<1>1. CASE sign = 1
  BY <1>1 DEF Sign, Abs
<1>2. CASE sign = -1
  BY <1>2 DEF Sign, Abs
<1> QED BY <1>1, <1>2

\* One step of a streak.
LEMMA OneStep ==
  ASSUME NEW e \in Int, NEW won \in BOOLEAN, NEW sign \in {1, -1}, NEW length \in Nat, 1 < length
  PROVE  /\ Signed(e, won) = sign * (length + 1) <=> e = sign * length /\ won = (sign > 0)
         /\ Abs(sign * length) = length
<1>1. CASE sign = 1
  BY <1>1 DEF Signed, Abs
<1>2. CASE sign = -1
  BY <1>2 DEF Signed, Abs
<1> QED BY <1>1, <1>2

\* The bucket of a streak is its length, up to the last.
LEMMA Lengths ==
  ASSUME NEW e \in Int
  PROVE  /\ Abs(e) \in Nat /\ (Abs(e) = 0 <=> e = 0)
         /\ LengthBucket(e) = IF Abs(e) <= MaxLength THEN Abs(e) ELSE MaxLength
<1>1. Abs(e) \in Nat /\ (Abs(e) = 0 <=> e = 0)
  BY DEF Abs
<1>2. Min({Abs(e), MaxLength}) = IF Abs(e) <= MaxLength THEN Abs(e) ELSE MaxLength
  <2> DEFINE a == Abs(e)
  <2>1. a \in Int /\ MaxLength \in Int
    BY <1>1, Numbers
  <2> HIDE DEF a
  <2>2. Min({a, MaxLength}) = IF a <= MaxLength THEN a ELSE MaxLength
    BY <2>1, OfTwo
  <2> QED BY <2>2 DEF a
<1> QED BY <1>1, <1>2 DEF LengthBucket

\* The rows of a cell of the table.
CellRows(log, t, sign, length) ==
    Bucket({r \in Of(log, t) : Abs(r.entering) >= MinLength}, sign, length)

\* The rows of a cell are finished games a streak was taken into.
LEMMA CellRowsAre ==
  ASSUME NEW gs, RecordOK(gs), NEW log, LogOK(gs, log), NEW t,
         NEW sign \in {1, -1}, NEW length \in MinLength..MaxLength
  PROVE  LET all == CellRows(log, t, sign, length)
         IN /\ ListOK(Of(log, t)) /\ all \in SUBSET Of(log, t) /\ IsFiniteSet(all)
            /\ all \subseteq log /\ length \in Nat /\ 1 < length
            /\ \A r \in all : /\ r.entering \in Int /\ r.entering # 0
                              /\ r.won \in BOOLEAN /\ r.home \in BOOLEAN /\ r.rest \in Nat
                              /\ r.season \in Nat
            /\ length < MaxLength =>
                 all = {r \in Of(log, t) : r.entering = sign * length}
<1> DEFINE all == CellRows(log, t, sign, length)
           rows == Of(log, t)
<1>1. ListOK(rows) /\ all \in SUBSET rows /\ rows \subseteq log
  <2>1. ListOK(rows)
    BY TeamRows
  <2>2. all \in SUBSET rows /\ rows \subseteq log
    BY DEF CellRows, Bucket, Of
  <2> QED BY <2>1, <2>2
<1>2. IsFiniteSet(all)
  <2> HIDE DEF all, rows
  <2> QED BY <1>1, SomeOf DEF ListOK
<1>3. length \in Nat /\ 1 < length /\ MinLength \in Nat /\ MaxLength \in Nat /\ length >= MinLength
  BY Numbers
<1>4. \A r \in rows : r.entering \in Int
  <2> HIDE DEF rows
  <2> QED BY <1>1, RowsCount
<1>5. ASSUME NEW r \in all
      PROVE  /\ r.entering \in Int /\ r.entering # 0
             /\ r.won \in BOOLEAN /\ r.home \in BOOLEAN /\ r.rest \in Nat /\ r.season \in Nat
  <2>1. r \in rows /\ r \in log /\ Abs(r.entering) >= MinLength
    BY DEF CellRows, Bucket, Of
  <2>2. r.entering \in Int /\ r.entering # 0
    <3>1. r.entering \in Int
      BY <1>4, <2>1
    <3> DEFINE e == r.entering
    <3>2. Abs(e) \in Nat /\ (Abs(e) = 0 <=> e = 0)
      <4> HIDE DEF e
      <4> QED BY <3>1, Lengths DEF e
    <3>3. MinLength \in Nat /\ 2 <= MinLength /\ Abs(e) >= MinLength
      BY <2>1, Numbers
    <3> HIDE DEF e
    <3>4. e # 0
      BY <3>2, <3>3
    <3> QED BY <3>1, <3>4 DEF e
  <2>3. RowOK(gs, log, r)
    BY <2>1 DEF LogOK
  <2> QED BY <2>2, <2>3 DEF RowOK
<1>6. ASSUME length < MaxLength PROVE all = {r \in rows : r.entering = sign * length}
  <2>1. ASSUME NEW r \in rows
        PROVE  r \in all <=> r.entering = sign * length
    <3> DEFINE e == r.entering
    <3>1. r \in all <=> Abs(e) >= MinLength /\ Sign(e) = sign /\ LengthBucket(e) = length
      BY DEF CellRows, Bucket
    <3>2. e \in Int
      BY <1>4
    <3> HIDE DEF e
    <3>3. Abs(e) \in Nat /\ LengthBucket(e) = IF Abs(e) <= MaxLength THEN Abs(e) ELSE MaxLength
      BY <3>2, Lengths
    <3>4. LengthBucket(e) = length <=> Abs(e) = length
      BY <1>3, <1>6, <3>3
    <3>5. Sign(e) = sign /\ Abs(e) = length <=> e = sign * length
      BY <1>3, <3>2, StreakOf
    <3>6. Abs(e) = length => Abs(e) >= MinLength
      BY <1>3
    <3>7. r \in all <=> e = sign * length
      BY <3>1, <3>4, <3>5, <3>6
    <3> QED BY <3>7 DEF e
  <2> HIDE DEF rows
  <2>2. all \subseteq rows
    BY <1>1
  <2> HIDE DEF all
  <2> QED BY <2>1, <2>2
<1> QED BY <1>1, <1>2, <1>3, <1>5, <1>6

\* The runs that reached one more are the streaks that went on.
LEMMA WentOn ==
  ASSUME NEW gs, RecordOK(gs), NEW log, LogOK(gs, log), NEW t,
         NEW sign \in {1, -1}, NEW length \in MinLength..MaxLength, length < MaxLength
  PROVE  Cell(CellRows(log, t, sign, length), sign).continued
           = ReachCounts(Of(log, t), sign, length + 1)
<1> DEFINE all == CellRows(log, t, sign, length)
           rows == Of(log, t)
           won == {r \in all : r.won}
           lost == {r \in all : ~ r.won}
           reach == {r \in rows :
                        /\ r.after = sign * (length + 1)
                        /\ Sign(Previous(rows, r)) # sign \/ Abs(Previous(rows, r)) < length + 1}
           on == {r \in all : r.won = (sign > 0)}
<1>1. /\ IsFiniteSet(all) /\ all \subseteq log /\ length \in Nat /\ 1 < length
      /\ \A r \in all : r.entering \in Int /\ r.entering # 0 /\ r.won \in BOOLEAN
      /\ all = {r \in rows : r.entering = sign * length}
  BY CellRowsAre
<1>2. \A r \in rows : /\ r.entering \in Int /\ r.after = Signed(r.entering, r.won)
                      /\ r.won \in BOOLEAN /\ r \in log /\ r.team = t
  BY RowsCount DEF Of, LogOK, RowOK
<1> HIDE DEF all, rows
<1>3. reach = on
  <2>1. ASSUME NEW r \in rows PROVE r \in reach <=> r \in on
    <3> DEFINE e == r.entering
               w == r.won
    <3>1. e \in Int /\ w \in BOOLEAN /\ r.after = Signed(e, w)
      BY <1>2
    <3> HIDE DEF e, w
    <3>2. /\ Signed(e, w) = sign * (length + 1) <=> e = sign * length /\ w = (sign > 0)
          /\ Abs(sign * length) = length
      BY <1>1, <3>1, OneStep
    <3>3. r \in on <=> e = sign * length /\ w = (sign > 0)
      BY <1>1 DEF e, w
    <3>4. r.after = sign * (length + 1) <=> r \in on
      BY <3>1, <3>2, <3>3
    <3>5. r \in on => Abs(Previous(rows, r)) < length + 1
      <4> SUFFICES ASSUME r \in on PROVE Abs(Previous(rows, r)) < length + 1
        OBVIOUS
      <4>1. r \in log /\ r.team = t /\ r.entering # 0 /\ r.entering = sign * length
        BY <1>1, <1>2
      <4>2. Previous(Of(log, r.team), r) = r.entering
        BY <4>1, PreviousIsEntering
      <4>3. Previous(rows, r) = sign * length
        BY <4>1, <4>2 DEF rows
      <4> QED BY <1>1, <3>2, <4>3
    <3> QED BY <3>4, <3>5
  <2>2. on \subseteq rows
    BY <1>1
  <2> HIDE DEF on
  <2> QED BY <2>1, <2>2
<1>4. won \cup lost = all /\ won \cap lost = {}
  OBVIOUS
<1>5. Cardinality(all) - Cardinality(won) = Cardinality(lost)
  BY <1>1, <1>4, TwoParts
<1>6. Cell(all, sign).continued
        = IF sign > 0 THEN Cardinality(won) ELSE Cardinality(all) - Cardinality(won)
  BY DEF Cell
<1>7. ReachCounts(rows, sign, length + 1) = Cardinality(reach)
  BY DEF ReachCounts
<1>8. CASE sign = 1
  <2>1. on = won
    BY <1>1, <1>8
  <2>2. Cell(all, sign).continued = Cardinality(won)
    BY <1>6, <1>8
  <2> HIDE DEF on, won, reach
  <2> QED BY <1>3, <1>7, <2>1, <2>2, Zenon DEF all, rows
<1>9. CASE sign = -1
  <2>1. on = lost
    BY <1>1, <1>9
  <2>2. Cell(all, sign).continued = Cardinality(lost)
    BY <1>5, <1>6, <1>9
  <2> HIDE DEF on, lost, reach
  <2> QED BY <1>3, <1>7, <2>1, <2>2, Zenon DEF all, rows
<1> QED BY <1>8, <1>9

\* How many rows a cell counts.
LEMMA CellSize ==
  ASSUME NEW rows, NEW sign
  PROVE  Cell(rows, sign).n = Cardinality(rows)
BY DEF Cell

\* The splits and the windows of a cell add up to it.
LEMMA AddUp ==
  ASSUME NEW gs, RecordOK(gs), NEW log, LogOK(gs, log), NEW t,
         NEW sign \in {1, -1}, NEW length \in MinLength..MaxLength
  PROVE  LET all == CellRows(log, t, sign, length)
             own == Windows(log, Of(log, t))
         IN /\ Cell(all, sign).n
                 = Cell(Splits(all).home, sign).n + Cell(Splits(all).away, sign).n
            /\ Cell(all, sign).n
                 = Cell(Splits(all).rest, sign).n + Cell(Splits(all).no_rest, sign).n
            /\ CurrentSeason(log) <= Pooled =>
                 Cell(all, sign).n = Cell(Bucket(own.current, sign, length), sign).n
                                   + Cell(Bucket(own.previous, sign, length), sign).n
<1> DEFINE all == CellRows(log, t, sign, length)
           own == Windows(log, Of(log, t))
           now == CurrentSeason(log)
           home == {r \in all : r.home}
           away == {r \in all : ~ r.home}
           rest == {r \in all : r.rest >= 1}
           none == {r \in all : r.rest = 0}
           current == Bucket(own.current, sign, length)
           previous == Bucket(own.previous, sign, length)
<1>1. /\ IsFiniteSet(all) /\ all \subseteq log
      /\ \A r \in all : r.home \in BOOLEAN /\ r.rest \in Nat /\ r.season \in Nat
  BY CellRowsAre
<1>2. Splits(all).home = home /\ Splits(all).away = away
      /\ Splits(all).rest = rest /\ Splits(all).no_rest = none
  BY DEF Splits
<1>3. /\ current = {r \in all : r.season = now}
      /\ previous = {r \in all : r.season \in (now - Pooled)..(now - 1)}
  <2> DEFINE entered == {r \in Of(log, t) : Abs(r.entering) >= MinLength}
  <2>1. /\ own.current = {r \in entered : r.season = now}
        /\ own.previous = {r \in entered : r.season \in (now - Pooled)..(now - 1)}
    BY DEF Windows
  <2>2. all = {r \in entered : Sign(r.entering) = sign /\ LengthBucket(r.entering) = length}
    BY DEF CellRows, Bucket
  <2>3. /\ current = {r \in own.current : Sign(r.entering) = sign
                                          /\ LengthBucket(r.entering) = length}
        /\ previous = {r \in own.previous : Sign(r.entering) = sign
                                            /\ LengthBucket(r.entering) = length}
    BY DEF Bucket
  <2> HIDE DEF entered, own, all, current, previous, now
  <2> QED BY <2>1, <2>2, <2>3
<1>4. ASSUME all # {}, now <= Pooled
      PROVE  now \in Nat /\ \A r \in all : r.season \in 0..now
  <2> DEFINE S == {r.season : r \in log}
  <2>1. \A r \in log : /\ r.season = gs[r.id].season /\ r.season \in Nat
                       /\ r.id \in DOMAIN gs
    BY DEF LogOK, RowOK, Done
  <2>2. S \in SUBSET Int /\ S # {} /\ \A s \in S : s <= gs[Len(gs)].season
    <3>1. ASSUME NEW r \in log PROVE r.season <= gs[Len(gs)].season
      <4>1. r.id \in DOMAIN gs /\ Len(gs) \in DOMAIN gs /\ r.id <= Len(gs)
        BY <2>1, RecordGames
      <4>2. gs[r.id].season <= gs[Len(gs)].season
        BY <4>1, KnownInOrder
      <4> QED BY <2>1, <4>2
    <3> QED BY <1>1, <1>4, <2>1, <3>1
  <2>3. gs[Len(gs)].season \in Int
    <3>1. Len(gs) \in DOMAIN gs
      BY <1>1, <1>4, <2>1, RecordGames
    <3> QED BY <3>1, RecordGames
  <2>4. now = Max(S)
    BY DEF CurrentSeason
  <2>5. \A r \in log : r.season \in S
    OBVIOUS
  <2> HIDE DEF S, now, all
  <2>6. now \in S /\ \A s \in S : s <= now
    BY <2>2, <2>3, <2>4, MaxOf
  <2>7. \A s \in S : s \in Nat
    BY <2>1 DEF S
  <2> QED BY <1>1, <2>5, <2>6, <2>7
<1> HIDE DEF all, own, now, current, previous
<1>5. Cardinality(all) = Cardinality(home) + Cardinality(away)
  <2>1. home \cup away = all /\ home \cap away = {}
    OBVIOUS
  <2> HIDE DEF home, away
  <2> QED BY <1>1, <2>1, TwoParts
<1>6. Cardinality(all) = Cardinality(rest) + Cardinality(none)
  <2>1. rest \cup none = all /\ rest \cap none = {}
    BY <1>1
  <2> HIDE DEF rest, none
  <2> QED BY <1>1, <2>1, TwoParts
<1>7. ASSUME now <= Pooled
      PROVE  Cardinality(all) = Cardinality(current) + Cardinality(previous)
  <2>1. current \cup previous = all /\ current \cap previous = {}
    <3>1. CASE all = {}
      BY <1>3, <3>1
    <3>2. CASE all # {}
      <4>1. now \in Nat /\ Pooled \in Nat /\ \A r \in all : r.season \in 0..now
        BY <1>4, <1>7, <3>2, Numbers
      <4>2. \A r \in all : r.season = now \/ r.season \in (now - Pooled)..(now - 1)
        BY <1>7, <4>1
      <4>3. ~ (now \in (now - Pooled)..(now - 1))
        BY <4>1
      <4> QED BY <1>3, <4>2, <4>3
    <3> QED BY <3>1, <3>2
  <2> QED BY <1>1, <2>1, TwoParts
<1> HIDE DEF home, away, rest, none
<1>8. /\ Cell(all, sign).n = Cardinality(all)
      /\ Cell(Splits(all).home, sign).n = Cardinality(home)
      /\ Cell(Splits(all).away, sign).n = Cardinality(away)
      /\ Cell(Splits(all).rest, sign).n = Cardinality(rest)
      /\ Cell(Splits(all).no_rest, sign).n = Cardinality(none)
      /\ Cell(current, sign).n = Cardinality(current)
      /\ Cell(previous, sign).n = Cardinality(previous)
  BY <1>2, CellSize
<1> QED BY <1>5, <1>6, <1>7, <1>8 DEF all, own, now, current, previous

\* The card of a side shows the cell of its streak.
LEMMA CardShowsCell ==
  ASSUME NEW gs, RecordOK(gs), NEW log, LogOK(gs, log), NEW t,
         Abs(SideContext(log, t).current) >= MinLength
  PROVE  LET side == SideContext(log, t)
         IN side.history = Cell(CellRows(log, t, Sign(side.current), LengthBucket(side.current)),
                                Sign(side.current))
<1> DEFINE now == {r \in Of(log, t) : r.season = CurrentSeason(log)}
           c == IF now = {} THEN 0 ELSE Latest(now).after
           alike == {r \in Of(log, t) :
                        /\ Abs(r.entering) >= MinLength /\ Sign(r.entering) = Sign(c)
                        /\ LengthBucket(r.entering) = LengthBucket(c)}
<1>0. Abs(c) \in Int /\ MinLength \in Int
  <2>1. ASSUME now # {} PROVE Latest(now) \in log
    <3>1. Len(gs) \in Int /\ \A r \in now : r.id \in Int /\ r.id <= Len(gs)
      BY RecordGames DEF Of, LogOK, RowOK
    <3>2. now \subseteq log
      BY DEF Of
    <3> HIDE DEF now
    <3> QED BY <2>1, <3>1, <3>2, LatestOf
  <2>2. c \in Int
    <3> DEFINE l == Latest(now)
    <3>1. now # {} => l \in log
      BY <2>1
    <3> HIDE DEF l
    <3>2. now # {} => l.after \in Int
      BY <3>1, RowsCount
    <3> HIDE DEF now
    <3> QED BY <3>2 DEF l
  <2> HIDE DEF c
  <2> QED BY <2>2, Numbers, Lengths
<1>1. SideContext(log, t) = IF Abs(c) < MinLength THEN [current |-> c, history |-> Cell({}, 1)]
                            ELSE [current |-> c, history |-> Cell(alike, Sign(c))]
  BY Zenon DEF SideContext
<1> HIDE DEF c
<1>2. CellRows(log, t, Sign(c), LengthBucket(c)) = alike
  BY DEF CellRows, Bucket
<1>3. SideContext(log, t).current = c
  <2> HIDE DEF alike
  <2> QED BY <1>1
<1>4. ~ (Abs(c) < MinLength)
  BY <1>0, <1>3
<1> HIDE DEF alike
<1>5. SideContext(log, t).history = Cell(alike, Sign(c))
  BY <1>1, <1>4
<1> QED BY <1>2, <1>3, <1>5

\* The tables of the page agree with each other and with the card, whatever
\* the record (cell, reach_counts, window_rows, side_context).
THEOREM TablesCorrect == Spec => []TablesAgree
<1>1. RecordOK(games) => TablesAgree
  <2> SUFFICES ASSUME RecordOK(games) PROVE TablesAgree
    OBVIOUS
  <2> DEFINE log == TeamLog(games)
  <2>1. LogOK(games, log)
    BY LogIsTable
  <2> HIDE DEF log
  <2>2. ASSUME NEW t \in Teams
        PROVE  Windows(log, Of(log, t)).combined
                 = {r \in Of(log, t) : Abs(r.entering) >= MinLength}
    BY DEF Windows
  <2>3. ASSUME NEW t \in Teams, NEW sign, NEW length
        PROVE  Bucket(Windows(log, Of(log, t)).combined, sign, length)
                 = CellRows(log, t, sign, length)
    BY <2>2, Zenon DEF CellRows
  <2>4. ASSUME NEW t \in Teams, NEW sign \in {1, -1}, NEW length \in MinLength..MaxLength
        PROVE  LET own == Windows(log, Of(log, t))
                   all == Bucket(own.combined, sign, length)
               IN /\ length < MaxLength =>
                       Cell(all, sign).continued = ReachCounts(Of(log, t), sign, length + 1)
                  /\ Cell(all, sign).n =
                       Cell(Splits(all).home, sign).n + Cell(Splits(all).away, sign).n
                  /\ Cell(all, sign).n =
                       Cell(Splits(all).rest, sign).n + Cell(Splits(all).no_rest, sign).n
                  /\ CurrentSeason(log) <= Pooled =>
                       Cell(all, sign).n = Cell(Bucket(own.current, sign, length), sign).n
                                         + Cell(Bucket(own.previous, sign, length), sign).n
    <3> DEFINE own == Windows(log, Of(log, t))
               all == Bucket(own.combined, sign, length)
               rows == CellRows(log, t, sign, length)
    <3>1. all = rows
      BY <2>3
    <3>2. length < MaxLength =>
            Cell(rows, sign).continued = ReachCounts(Of(log, t), sign, length + 1)
      BY <2>1, WentOn
    <3>3. /\ Cell(rows, sign).n =
               Cell(Splits(rows).home, sign).n + Cell(Splits(rows).away, sign).n
          /\ Cell(rows, sign).n =
               Cell(Splits(rows).rest, sign).n + Cell(Splits(rows).no_rest, sign).n
      BY <2>1, AddUp
    <3>4. CurrentSeason(log) <= Pooled =>
            Cell(rows, sign).n = Cell(Bucket(own.current, sign, length), sign).n
                               + Cell(Bucket(own.previous, sign, length), sign).n
      BY <2>1, AddUp
    <3> HIDE DEF rows, all
    <3> QED BY <3>1, <3>2, <3>3, <3>4, Zenon DEF all
  <2>5. ASSUME NEW t \in Teams, Abs(SideContext(log, t).current) >= MinLength
        PROVE  LET own == Windows(log, Of(log, t))
                   side == SideContext(log, t)
               IN side.history = Cell(Bucket(own.combined, Sign(side.current),
                                             LengthBucket(side.current)),
                                      Sign(side.current))
    <3> DEFINE c == SideContext(log, t).current
    <3>1. SideContext(log, t).history
            = Cell(CellRows(log, t, Sign(c), LengthBucket(c)), Sign(c))
      BY <2>1, <2>5, CardShowsCell, Zenon
    <3>2. Bucket(Windows(log, Of(log, t)).combined, Sign(c), LengthBucket(c))
            = CellRows(log, t, Sign(c), LengthBucket(c))
      BY <2>3
    <3> QED BY <3>1, <3>2, Zenon
  <2> QED BY <2>4, <2>5, Zenon DEF TablesAgree, log
<1> QED BY <1>1, RecordInvariant, PTL

=============================================================================
