----------------------------- MODULE PlanningProofs -----------------------------
(***************************************************************************)
(* Proofs about the two parts that turn positions of trains into an order: *)
(* the rolling planner, for any number of trains, any times and settings,  *)
(* and the candidate builder, for any line and any trains.                 *)
(***************************************************************************)
EXTENDS AffectedLinePlanner, DispatchCandidateBuilder, FiniteSetTheorems, NaturalsInduction,
        WellFoundedInduction, TLAPS

-----------------------------------------------------------------------------
(* First elements.                                                         *)

\* Every set of naturals that is not empty has a least element.
LEMMA LeastNumber ==
    ASSUME NEW S \in SUBSET Nat, S # {}
    PROVE  \E m \in S : \A k \in S : m <= k
<1> DEFINE Less == {p \in Nat \X Nat : p[1] < p[2]}
<1>1. IsWellFoundedOn(Less, Nat)
  BY NatLessThanWellFounded DEF OpToRel
<1> HIDE DEF Less
<1>2. PICK m \in S : \A k \in S : ~(<<k, m>> \in Less)
  BY <1>1, WFMin
<1>3. ASSUME NEW k \in S PROVE m <= k
  <2>1. m \in Nat /\ k \in Nat /\ <<k, m>> \in Nat \X Nat
    OBVIOUS
  <2>2. ~(k < m)
    BY <1>2, <2>1 DEF Less
  <2> QED BY <2>1, <2>2
<1>4. m \in S /\ \A k \in S : m <= k
  BY <1>3
<1> QED BY <1>4

\* R is a strict order of the numbers up to n in which any two can be compared.
Orders(R, n) ==
    /\ \A i, j \in 1..n : i = j \/ <<i, j>> \in R \/ <<j, i>> \in R
    /\ \A i, j, k \in 1..n : (<<i, j>> \in R /\ <<j, k>> \in R) => <<i, k>> \in R

IsFirst(R, S, m) == m \in S /\ \A s \in S : s = m \/ <<m, s>> \in R

\* Some set of numbers up to k has no first element.
Undecided(R, k) == \E T \in SUBSET (1..k) : T # {} /\ \A m : ~IsFirst(R, T, m)

\* Every choice among finitely many trains has a result.
LEMMA FirstExists ==
    ASSUME NEW R, NEW n \in Nat, Orders(R, n), NEW S \in SUBSET (1..n), S # {}
    PROVE  \E m : IsFirst(R, S, m)
<1> DEFINE Bad == {k \in 0..n : Undecided(R, k)}
<1>1. ASSUME Bad # {} PROVE FALSE
  <2>1. PICK k \in Bad : \A j \in Bad : k <= j
    <3>1. Bad \in SUBSET Nat
      OBVIOUS
    <3> HIDE DEF Bad
    <3> QED BY <1>1, <3>1, LeastNumber
  <2>2. PICK T \in SUBSET (1..k) : T # {} /\ \A m : ~IsFirst(R, T, m)
    BY <2>1 DEF Undecided
  <2>3. k \in 1..n /\ k - 1 \in 0..n /\ k - 1 \notin Bad
    <3>0. k \in 0..n
      BY <2>1
    <3>1. k # 0
      <4>1. PICK x \in T : x \in 1..k
        BY <2>2
      <4> QED BY <3>0, <4>1
    <3>2. k - 1 \in 0..n /\ ~(k <= k - 1)
      BY <3>0, <3>1
    <3> HIDE DEF Bad
    <3> QED BY <2>1, <3>0, <3>1, <3>2
  <2>4. \A U \in SUBSET (1..(k - 1)) : U # {} => \E m : IsFirst(R, U, m)
    BY <2>3 DEF Undecided
  <2>5. T \ {k} \in SUBSET (1..(k - 1))
    BY <2>2, <2>3
  <2> HIDE DEF Bad
  <2>6. k \in T /\ T \ {k} # {}
    <3>1. k \notin T => T \in SUBSET (1..(k - 1))
      BY <2>5
    <3>2. k \in T
      BY <2>2, <2>4, <3>1
    <3>3. T \ {k} = {} => IsFirst(R, T, k)
      BY <3>2 DEF IsFirst
    <3> QED BY <2>2, <3>2, <3>3
  <2>7. PICK m : IsFirst(R, T \ {k}, m)
    BY <2>4, <2>5, <2>6
  <2>8. m \in 1..n /\ T \subseteq 1..n /\ m \in T
    BY <2>2, <2>3, <2>7 DEF IsFirst
  <2>9. CASE <<m, k>> \in R
    <3>1. IsFirst(R, T, m)
      BY <2>7, <2>8, <2>9 DEF IsFirst
    <3> QED BY <2>2, <3>1
  <2>10. CASE <<k, m>> \in R
    <3>1. ASSUME NEW s \in T, s # k PROVE <<k, s>> \in R
      <4>1. s = m \/ <<m, s>> \in R
        BY <2>7, <3>1 DEF IsFirst
      <4> QED BY <2>3, <2>8, <2>10, <3>1, <4>1 DEF Orders
    <3>2. IsFirst(R, T, k)
      BY <2>6, <3>1 DEF IsFirst
    <3> QED BY <2>2, <3>2
  <2>11. m # k
    BY <2>7 DEF IsFirst
  <2> QED BY <2>3, <2>8, <2>9, <2>10, <2>11 DEF Orders
<1>2. n \notin Bad /\ n \in 0..n
  BY <1>1
<1> QED BY <1>2 DEF Undecided

-----------------------------------------------------------------------------
(* The rolling planner.                                                    *)

\* The inputs of a plan.
InputsTyped ==
    /\ now \in 0..MaxTime /\ eta \in [PlannedTrain -> 0..MaxTime]
    /\ \A t \in PlannedTrain : eta[t] >= now

\* Whoever was put in order may go before those who still wait.
NobodyOvertakenTooFar ==
    \A s \in selected : \A t \in Waiting : eta[s] <= AddSaturated(eta[t], Tolerance)

\* The next rank and the next slot are behind all that are taken.
RanksFollow == \A s \in selected : rank[s] < Cardinality(selected)
SlotsFollow == \A s \in selected : planned[s] <= lastPlanned

\* The inductive invariant.
PlanInv ==
    /\ InputsTyped
    /\ PlannerTypeOK
    /\ lastPlanned \in 0..MaxTime
    /\ RanksFollow
    /\ SlotsFollow
    /\ NobodyOvertakenTooFar
    /\ BoundedOvertaking
    /\ SpacedEntries

\* Sums that do not exceed the largest time.
LEMMA SaturatedFacts ==
    ASSUME NEW a \in 0..MaxTime, NEW d \in Nat
    PROVE  /\ AddSaturated(a, d) \in 0..MaxTime /\ AddSaturated(a, d) >= a
           /\ AddSaturated(a, d) < MaxTime => AddSaturated(a, d) = a + d
           /\ \A b \in 0..MaxTime : a <= b => AddSaturated(a, d) <= AddSaturated(b, d)
BY PlannerAssumptions DEF AddSaturated

\* The order of arrival can be used to choose from any set of trains.
LEMMA ArrivalOrder ==
    ASSUME InputsTyped, NEW S \in SUBSET PlannedTrain, S # {}
    PROVE  /\ \E t \in S : \A s \in S : s = t \/ Before(t, s)
           /\ \E t \in S : \A s \in S : s = t \/ Before(s, t)
<1>0. TrainCount \in Nat /\ S \in SUBSET (1..TrainCount)
  BY PlannerAssumptions DEF PlannedTrain
<1>00. \A i \in 1..TrainCount : eta[i] \in Nat
  BY PlannerAssumptions DEF InputsTyped, PlannedTrain
<1> DEFINE R == {p \in (1..TrainCount) \X (1..TrainCount) : Before(p[1], p[2])}
           Q == {p \in (1..TrainCount) \X (1..TrainCount) : Before(p[2], p[1])}
<1>1. \A i, j \in 1..TrainCount : (<<i, j>> \in R <=> Before(i, j)) /\ (<<i, j>> \in Q <=> Before(j, i))
  OBVIOUS
<1> HIDE DEF R, Q
<1>2. \A i, j \in 1..TrainCount : i = j \/ Before(i, j) \/ Before(j, i)
  BY <1>0, <1>00 DEF Before
<1>3. \A i, j, k \in 1..TrainCount : Before(i, j) /\ Before(j, k) => Before(i, k)
  BY <1>0, <1>00 DEF Before
<1>4. Orders(R, TrainCount) /\ Orders(Q, TrainCount)
  BY <1>1, <1>2, <1>3 DEF Orders
<1>5. PICK t : IsFirst(R, S, t)
  BY <1>0, <1>4, FirstExists
<1>6. PICK u : IsFirst(Q, S, u)
  BY <1>0, <1>4, FirstExists
<1> QED BY <1>0, <1>1, <1>5, <1>6 DEF IsFirst

\* The need of a line lies within its headway, whatever the arrivals are.
LEMMA NeedTyped ==
    ASSUME InputsTyped, NEW t \in PlannedTrain
    PROVE  Need(t) \in Int
<1> DEFINE ahead == {s \in Neighbours(t) : Before(s, t)}
           behind == {s \in Neighbours(t) : Before(t, s)}
           previous == CHOOSE s \in ahead : \A r \in ahead : r = s \/ Before(r, s)
           next == CHOOSE s \in behind : \A r \in behind : r = s \/ Before(s, r)
           need == (IF behind = {} THEN 0 ELSE Missing(t, next))
                   - (IF ahead = {} THEN 0 ELSE Missing(previous, t))
<1>1. ahead \in SUBSET PlannedTrain /\ behind \in SUBSET PlannedTrain
  BY DEF Neighbours
<1>2. Need(t) = Larger(-Headway, Smaller(Headway, need))
  BY DEF Need
<1> HIDE DEF ahead, behind
<1>3. ahead # {} => previous \in ahead
  BY <1>1, ArrivalOrder
<1>4. behind # {} => next \in behind
  BY <1>1, ArrivalOrder
<1> HIDE DEF previous, next
<1>5. \A r, s \in PlannedTrain : Missing(r, s) \in Int
  BY PlannerAssumptions DEF Missing, InputsTyped
<1>6. (ahead # {} => Missing(previous, t) \in Int) /\ (behind # {} => Missing(t, next) \in Int)
  BY <1>1, <1>3, <1>4, <1>5
<1>7. need \in Int
  BY <1>6
<1> HIDE DEF need
<1> QED BY <1>2, <1>7, PlannerAssumptions DEF Larger, Smaller

\* The scores are numbers.
LEMMA ScoreTyped ==
    ASSUME InputsTyped, NEW t \in PlannedTrain
    PROVE  Score(t) \in Int
<1>1. PICK n \in Int : n = Need(t)
  BY NeedTyped
<1>2. PICK u \in Int : u = Horizon - Smaller(Horizon, eta[t] - now)
  BY PlannerAssumptions DEF InputsTyped, Smaller
<1>3. Horizon \in Int /\ Headway \in Int
  BY PlannerAssumptions
<1>4. 12 * u * Headway \in Int /\ 8 * n * Horizon \in Int /\ 5 * Horizon * Headway \in Int
  BY <1>3
<1>5. PICK a \in Int, b \in Int, c \in Int :
         a = 12 * u * Headway /\ b = 8 * n * Horizon /\ c = 5 * Horizon * Headway
  BY <1>4
<1>6. Score(t) = a + b - (IF line[t] = lastLine THEN c ELSE 0)
  BY <1>1, <1>2, <1>5 DEF Score
<1> QED BY <1>6

\* Of any trains one has the best score.
LEMMA BestExists ==
    ASSUME InputsTyped, NEW S \in SUBSET PlannedTrain, S # {}
    PROVE  \E t \in S : \A s \in S : Score(t) > Score(s) \/ (Score(t) = Score(s) /\ t <= s)
<1>0. TrainCount \in Nat /\ S \in SUBSET (1..TrainCount)
  BY PlannerAssumptions DEF PlannedTrain
<1>1. \A i \in 1..TrainCount : Score(i) \in Int
  BY ScoreTyped DEF PlannedTrain
<1> DEFINE Better(i, j) == Score(i) > Score(j) \/ (Score(i) = Score(j) /\ i < j)
           R == {p \in (1..TrainCount) \X (1..TrainCount) : Better(p[1], p[2])}
<1>2. \A i, j \in 1..TrainCount : <<i, j>> \in R <=> Better(i, j)
  OBVIOUS
<1> HIDE DEF R
<1>3. \A i, j \in 1..TrainCount : i = j \/ Better(i, j) \/ Better(j, i)
  BY <1>0, <1>1
<1>4. \A i, j, k \in 1..TrainCount : Better(i, j) /\ Better(j, k) => Better(i, k)
  BY <1>0, <1>1
<1>5. Orders(R, TrainCount)
  <2> HIDE DEF Better
  <2> QED BY <1>2, <1>3, <1>4 DEF Orders
<1>6. PICK t : IsFirst(R, S, t)
  BY <1>0, <1>5, FirstExists
<1>7. t \in S /\ \A s \in S : s = t \/ Better(t, s)
  <2> HIDE DEF Better
  <2> QED BY <1>0, <1>2, <1>6 DEF IsFirst
<1> QED BY <1>0, <1>1, <1>7

\* The train that is selected waits, and nobody who waits arrives more than
\* the tolerance before it.
LEMMA BestFacts ==
    ASSUME InputsTyped, Waiting # {}
    PROVE  /\ Best \in Waiting
           /\ \A t \in Waiting : eta[Best] <= AddSaturated(eta[t], Tolerance)
<1> DEFINE earliest == CHOOSE t \in Waiting : \A s \in Waiting : s = t \/ Before(t, s)
           W == Window(Waiting)
           scored == {[train |-> t, score |-> Score(t)] : t \in W}
           best == CHOOSE p \in scored : \A q \in scored :
                      p.score > q.score \/ (p.score = q.score /\ p.train <= q.train)
<1>0. Waiting \in SUBSET PlannedTrain
  BY DEF Waiting
<1>1. earliest \in Waiting /\ \A s \in Waiting : s = earliest \/ Before(earliest, s)
  BY <1>0, ArrivalOrder
<1>2. W = {t \in Waiting : eta[t] <= AddSaturated(eta[earliest], Tolerance)}
  BY DEF Window
<1> HIDE DEF earliest, W
<1>3. \A t \in Waiting : eta[t] \in 0..MaxTime /\ eta[earliest] <= eta[t] /\ eta[earliest] \in 0..MaxTime
  BY <1>0, <1>1, PlannerAssumptions DEF InputsTyped, Before
<1>4. earliest \in W /\ W \subseteq Waiting
  <2>1. AddSaturated(eta[earliest], Tolerance) >= eta[earliest]
    BY <1>1, <1>3, PlannerAssumptions, SaturatedFacts
  <2>2. AddSaturated(eta[earliest], Tolerance) \in 0..MaxTime
    BY <1>1, <1>3, PlannerAssumptions, SaturatedFacts
  <2> QED BY <1>1, <1>2, <1>3, <2>1, <2>2
<1>5. PICK t \in W : \A s \in W : Score(t) > Score(s) \/ (Score(t) = Score(s) /\ t <= s)
  BY <1>0, <1>4, BestExists
<1>6. \E p \in scored : \A q \in scored : p.score > q.score \/ (p.score = q.score /\ p.train <= q.train)
  <2>1. [train |-> t, score |-> Score(t)] \in scored
    OBVIOUS
  <2>2. ASSUME NEW q \in scored
        PROVE  Score(t) > q.score \/ (Score(t) = q.score /\ t <= q.train)
    BY <1>5
  <2> HIDE DEF scored
  <2>3. PICK p : p = [train |-> t, score |-> Score(t)]
    OBVIOUS
  <2>4. p.train = t /\ p.score = Score(t) /\ p \in scored
    BY <2>1, <2>3
  <2> QED BY <2>2, <2>4
<1>7. best \in scored
  BY <1>6
<1>8. Best = best.train
  BY DEF Best, W
<1> HIDE DEF best
<1>9. Best \in W
  BY <1>7, <1>8
<1>10. ASSUME NEW s \in Waiting PROVE eta[Best] <= AddSaturated(eta[s], Tolerance)
  <2>1. eta[Best] <= AddSaturated(eta[earliest], Tolerance)
    BY <1>2, <1>9
  <2>2. AddSaturated(eta[earliest], Tolerance) <= AddSaturated(eta[s], Tolerance)
    BY <1>3, <1>10, PlannerAssumptions, SaturatedFacts
  <2>3. /\ AddSaturated(eta[earliest], Tolerance) \in 0..MaxTime
        /\ AddSaturated(eta[s], Tolerance) \in 0..MaxTime
    BY <1>3, <1>10, PlannerAssumptions, SaturatedFacts
  <2>4. eta[Best] \in 0..MaxTime
    BY <1>3, <1>4, <1>9
  <2> QED BY <2>1, <2>2, <2>3, <2>4, PlannerAssumptions
<1> QED BY <1>4, <1>9, <1>10

\* A plan begins with nobody in order.
LEMMA PlanInitInv == PlanInit => PlanInv
<1> SUFFICES ASSUME PlanInit PROVE PlanInv
  OBVIOUS
<1>1. InputsTyped
  BY PlannerAssumptions DEF PlanInit, InputsTyped
<1>2. PlannerTypeOK /\ lastPlanned \in 0..MaxTime
  BY PlannerAssumptions DEF PlanInit, PlannerTypeOK, NoRank
<1>3. RanksFollow /\ SlotsFollow /\ NobodyOvertakenTooFar /\ BoundedOvertaking /\ SpacedEntries
  BY DEF PlanInit, RanksFollow, SlotsFollow, NobodyOvertakenTooFar, BoundedOvertaking, SpacedEntries
<1> QED BY <1>1, <1>2, <1>3 DEF PlanInv

\* Selecting the next train keeps the invariant.
LEMMA SelectNextInv ==
    ASSUME PlanInv, SelectNext
    PROVE  PlanInv'
<1>1. PICK t : t = Best
  OBVIOUS
<1>2. PICK slot : slot = EntrySlot(t)
  OBVIOUS
<1>3. /\ Waiting # {} /\ selected' = selected \cup {t}
      /\ rank' = [rank EXCEPT ![t] = NextRank] /\ planned' = [planned EXCEPT ![t] = slot]
      /\ lastPlanned' = slot /\ UNCHANGED <<now, eta, line>>
  BY <1>1, <1>2 DEF SelectNext, inputs
<1>4. /\ t \in Waiting /\ \A s \in Waiting : eta[t] <= AddSaturated(eta[s], Tolerance)
  BY <1>1, <1>3, BestFacts DEF PlanInv
<1>5. /\ t \in PlannedTrain /\ t \notin selected /\ WithinHorizon(t)
      /\ InputsTyped /\ PlannerTypeOK /\ lastPlanned \in 0..MaxTime
      /\ selected \subseteq PlannedTrain /\ rank \in [PlannedTrain -> 0..TrainCount]
      /\ planned \in [PlannedTrain -> 0..MaxTime]
      /\ now \in 0..MaxTime /\ eta \in [PlannedTrain -> 0..MaxTime]
      /\ \A s \in PlannedTrain : eta[s] >= now
      /\ MaxTime \in Nat /\ TrainCount \in Nat /\ Spacing \in Nat /\ Tolerance \in Nat /\ Spacing > 0
  BY <1>4, PlannerAssumptions DEF Waiting, PlanInv, InputsTyped, PlannerTypeOK
<1>6. /\ IsFiniteSet(selected) /\ Cardinality(selected) \in Nat
      /\ Cardinality(selected') = Cardinality(selected) + 1
      /\ Cardinality(selected') <= TrainCount
  <2>1. IsFiniteSet(1..TrainCount) /\ Cardinality(1..TrainCount) = TrainCount
    BY <1>5, FS_Interval
  <2>2. selected' \subseteq 1..TrainCount /\ selected \subseteq 1..TrainCount
    BY <1>3, <1>5 DEF PlannedTrain
  <2>3. /\ IsFiniteSet(selected) /\ Cardinality(selected) \in Nat
        /\ Cardinality(selected') <= TrainCount
    BY <2>1, <2>2, FS_Subset, FS_CardinalityType
  <2>4. Cardinality(selected') = Cardinality(selected) + 1
    BY <1>3, <1>5, <2>3, FS_AddElement
  <2> QED BY <2>3, <2>4
<1>7. /\ rank'[t] = Cardinality(selected) /\ planned'[t] = slot
      /\ \A s \in selected : rank'[s] = rank[s] /\ planned'[s] = planned[s] /\ s # t
      /\ rank' \in [PlannedTrain -> 0..TrainCount]
  BY <1>3, <1>5, <1>6 DEF NextRank
<1>8. /\ slot \in 0..MaxTime /\ slot >= eta[t]
      /\ lastPlanned # 0 => slot >= AddSaturated(lastPlanned, Spacing)
  <2>1. eta[t] \in 0..MaxTime /\ AddSaturated(lastPlanned, Spacing) \in 0..MaxTime
    BY <1>5, SaturatedFacts
  <2> QED BY <1>2, <1>5, <2>1 DEF EntrySlot, Larger
<1>9. \A s \in selected :
         /\ rank[s] < Cardinality(selected) /\ planned[s] <= lastPlanned /\ planned[s] \in 0..MaxTime
         /\ planned[s] >= eta[s] /\ WithinHorizon(s) /\ eta[s] <= AddSaturated(eta[t], Tolerance)
         /\ s \in PlannedTrain /\ rank[s] \in Nat /\ eta[s] \in Nat
  BY <1>4, <1>5 DEF PlanInv, RanksFollow, SlotsFollow, NobodyOvertakenTooFar, PlannerTypeOK
<1>10. InputsTyped' /\ PlannerTypeOK' /\ lastPlanned' \in 0..MaxTime
  <2>1. \A s \in selected' : WithinHorizon(s)' /\ planned'[s] >= eta'[s]
    BY <1>3, <1>5, <1>7, <1>8, <1>9 DEF WithinHorizon
  <2>2. planned' \in [PlannedTrain -> 0..MaxTime]
    BY <1>3, <1>5, <1>8
  <2> QED BY <1>3, <1>5, <1>7, <1>8, <2>1, <2>2 DEF InputsTyped, PlannerTypeOK
<1>11. RanksFollow'
  BY <1>3, <1>6, <1>7, <1>9 DEF RanksFollow
<1>12. \A s \in selected : lastPlanned <= slot /\ planned[s] <= slot
  <2>1. lastPlanned <= slot
    <3>1. lastPlanned # 0 => AddSaturated(lastPlanned, Spacing) >= lastPlanned
          /\ AddSaturated(lastPlanned, Spacing) \in 0..MaxTime
      BY <1>5, SaturatedFacts
    <3> QED BY <1>5, <1>8, <3>1
  <2> QED BY <1>5, <1>8, <1>9, <2>1
<1>13. SlotsFollow'
  BY <1>3, <1>7, <1>8, <1>12 DEF SlotsFollow
<1>14. Waiting' \subseteq Waiting
  BY <1>3 DEF Waiting, WithinHorizon
<1>15. NobodyOvertakenTooFar'
  <2> SUFFICES ASSUME NEW s \in selected', NEW u \in Waiting
               PROVE  eta[s] <= AddSaturated(eta[u], Tolerance)
    BY <1>3, <1>14 DEF NobodyOvertakenTooFar, AddSaturated
  <2>1. CASE s = t
    BY <1>4, <2>1
  <2>2. CASE s \in selected
    BY <2>2 DEF PlanInv, NobodyOvertakenTooFar
  <2> QED BY <1>3, <2>1, <2>2
<1>16. BoundedOvertaking'
  <2> SUFFICES ASSUME NEW s \in selected', NEW u \in selected', rank'[s] < rank'[u]
               PROVE  eta[s] <= AddSaturated(eta[u], Tolerance)
    BY <1>3 DEF BoundedOvertaking, AddSaturated
  <2>1. CASE s \in selected /\ u \in selected
    BY <1>7, <2>1 DEF PlanInv, BoundedOvertaking
  <2>2. CASE s \in selected /\ u = t
    BY <1>9, <2>2
  <2>3. s # t
    BY <1>3, <1>6, <1>7, <1>9
  <2> QED BY <1>3, <2>1, <2>2, <2>3
<1>17. SpacedEntries'
  <2> SUFFICES ASSUME NEW s \in selected', NEW u \in selected', now > 0, rank'[s] < rank'[u],
                      planned'[u] < MaxTime
               PROVE  planned'[u] >= planned'[s] + Spacing
    BY <1>3 DEF SpacedEntries
  <2>1. CASE s \in selected /\ u \in selected
    BY <1>7, <2>1 DEF PlanInv, SpacedEntries
  <2>2. CASE s \in selected /\ u = t
    <3>1. lastPlanned # 0
      BY <1>5, <1>9, <2>2
    <3>2. slot >= AddSaturated(lastPlanned, Spacing) /\ slot < MaxTime
      BY <1>7, <1>8, <2>2, <3>1
    <3>3. AddSaturated(lastPlanned, Spacing) \in 0..MaxTime
      BY <1>5, SaturatedFacts
    <3>4. AddSaturated(lastPlanned, Spacing) = lastPlanned + Spacing
      BY <1>5, <1>8, <3>2, <3>3, SaturatedFacts
    <3> QED BY <1>5, <1>7, <1>8, <1>9, <2>2, <3>2, <3>4
  <2>3. s # t
    BY <1>3, <1>6, <1>7, <1>9
  <2> QED BY <1>3, <2>1, <2>2, <2>3
<1> QED BY <1>10, <1>11, <1>13, <1>15, <1>16, <1>17 DEF PlanInv

\* Every step of the planner keeps it.
LEMMA PlanStepInv == PlanInv /\ [PlanNext]_plannerVars => PlanInv'
<1> SUFFICES ASSUME PlanInv, [PlanNext]_plannerVars PROVE PlanInv'
  OBVIOUS
<1>1. CASE SelectNext
  BY <1>1, SelectNextInv
<1>2. CASE UNCHANGED <<inputs, selected, rank, planned, lastLine, lastPlanned>>
  <2>1. UNCHANGED <<now, eta, line, selected, rank, planned, lastPlanned>>
    BY <1>2 DEF inputs
  <2>2. InputsTyped' /\ PlannerTypeOK' /\ Waiting' = Waiting
    BY <2>1 DEF PlanInv, InputsTyped, PlannerTypeOK, Waiting, WithinHorizon
  <2> QED BY <2>1, <2>2 DEF PlanInv, RanksFollow, SlotsFollow, NobodyOvertakenTooFar,
             BoundedOvertaking, SpacedEntries, AddSaturated
<1> QED BY <1>1, <1>2 DEF PlanNext, Publish, plannerVars

\* The plan is well typed, and no train is planned before it arrives.
THEOREM PlannerTypeCorrect == PlanSpec => []PlannerTypeOK
<1>1. PlanInv => PlannerTypeOK
  BY DEF PlanInv
<1> QED BY <1>1, PlanInitInv, PlanStepInv, PTL DEF PlanSpec

\* However many trains compete and however their scores fall, a train is put
\* before an earlier one only within the tolerance (reorder_tolerance_ms).
THEOREM OvertakingStaysBounded == PlanSpec => []BoundedOvertaking
<1>1. PlanInv => BoundedOvertaking
  BY DEF PlanInv
<1> QED BY <1>1, PlanInitInv, PlanStepInv, PTL DEF PlanSpec

\* All planned entries, not only neighbouring ones, are the minimum spacing
\* apart (planned_minimum_spacing_ms).
THEOREM EntriesStaySpaced == PlanSpec => []SpacedEntries
<1>1. PlanInv => SpacedEntries
  BY DEF PlanInv
<1> QED BY <1>1, PlanInitInv, PlanStepInv, PTL DEF PlanSpec


-----------------------------------------------------------------------------
(* The line.  The walk along it recurs on a smaller distance, so it is     *)
(* well defined; then a place that approaches a corridor has a nearest     *)
(* one, which lies ahead.                                                  *)

\* step computes the values in V of a function on 0..n, each from the values
\* at smaller numbers.
Causal(step, n, V) ==
    /\ step \in [0..n -> [[0..n -> V] -> V]]
    /\ \A k \in 0..n : \A f, g \in [0..n -> V] :
          (\A j \in 0..(k - 1) : f[j] = g[j]) => step[k][f] = step[k][g]
Computed(f, step, n) == \A k \in 0..n : f[k] = step[k][f]

\* A function whose values are computed from its values at smaller numbers
\* exists.
LEMMA CourseOfValues ==
    ASSUME NEW n \in Nat, NEW V, V # {}, NEW step, Causal(step, n, V)
    PROVE  \E f \in [0..n -> V] : Computed(f, step, n)
<1> USE DEF Causal, Computed
<1> PICK v \in V : TRUE
  OBVIOUS
<1> DEFINE Fixed(f, m) == \A k \in 0..m : f[k] = step[k][f]
           Bad == {m \in 0..n : \A f \in [0..n -> V] : ~Fixed(f, m)}
<1>1. ASSUME Bad # {} PROVE FALSE
  <2>1. PICK m \in Bad : \A j \in Bad : m <= j
    <3>1. Bad \in SUBSET Nat
      OBVIOUS
    <3> HIDE DEF Bad
    <3> QED BY <1>1, <3>1, LeastNumber
  <2>2. m \in 0..n /\ \A f \in [0..n -> V] : ~Fixed(f, m)
    BY <2>1
  <2>3. PICK f \in [0..n -> V] : Fixed(f, m - 1)
    <3>1. CASE m = 0
      <4> DEFINE f == [k \in 0..n |-> v]
      <4>1. f \in [0..n -> V] /\ Fixed(f, m - 1)
        BY <3>1
      <4> QED BY <4>1
    <3>2. CASE m # 0
      <4>1. m - 1 \in 0..n /\ ~(m <= m - 1)
        BY <2>2, <3>2
      <4>2. m - 1 \notin Bad
        <5> HIDE DEF Bad
        <5> QED BY <2>1, <4>1
      <4> HIDE DEF Fixed
      <4> QED BY <4>1, <4>2
    <3> QED BY <3>1, <3>2
  <2> DEFINE last == step[m][f]
             g == [f EXCEPT ![m] = last]
  <2>4. last \in V /\ g \in [0..n -> V]
    BY <2>2, <2>3
  <2>5. ASSUME NEW k \in 0..m PROVE g[k] = step[k][g]
    <3>1. k \in 0..n /\ \A j \in 0..(k - 1) : f[j] = g[j]
      BY <2>2, <2>3
    <3>2. step[k][f] = step[k][g]
      <4> HIDE DEF g
      <4> QED BY <2>3, <2>4, <3>1
    <3>3. CASE k = m
      BY <2>2, <2>3, <3>1, <3>2, <3>3
    <3>4. CASE k # m
      <4>1. k \in 0..(m - 1) /\ g[k] = f[k]
        BY <2>2, <2>3, <3>1, <3>4
      <4> HIDE DEF g
      <4> QED BY <2>3, <3>2, <4>1
    <3> QED BY <3>3, <3>4
  <2> HIDE DEF g
  <2> QED BY <2>2, <2>4, <2>5
<1>2. n \notin Bad
  BY <1>1
<1> QED BY <1>2

\* The smaller of two numbers.
LEMMA MinOfTwo ==
    ASSUME NEW a \in Int, NEW b \in Int
    PROVE  Min({a, b}) = IF a <= b THEN a ELSE b
BY DEF Min

\* One step of the walk stays on the line, in a segment of it.
LEMMA SegmentFacts ==
    ASSUME NEW p \in Place
    PROVE  /\ SegmentAt(p.dir, p.pos) \in 0..(Segments - 1)
           /\ TicksLeft(p.dir, p.pos) \in 1..Ticks
<1>1. /\ p.pos \in 0..End /\ p.dir \in Directions /\ End = Segments * Ticks
      /\ Segments \in Nat \ {0} /\ Ticks \in Nat \ {0} /\ End \in Nat
  BY BuilderAssumptions DEF Place, End
<1> PICK pos, q, r : pos = p.pos /\ q = p.pos \div Ticks /\ r = p.pos % Ticks
  OBVIOUS
<1>2. q \in Nat /\ r \in 0..(Ticks - 1) /\ pos = q * Ticks + r
  BY <1>1
<1>3. r = 0 => q <= Segments
  <2>1. ASSUME r = 0, q > Segments PROVE FALSE
    <3>1. q * Ticks > Segments * Ticks
      BY <1>1, <1>2, <2>1
    <3> QED BY <1>1, <1>2, <2>1, <3>1
  <2> QED BY <1>1, <1>2, <2>1
<1>4. (r = 0 /\ pos > 0) => q \in 1..Segments
  BY <1>1, <1>2, <1>3
<1>5. Min({Segments - 1, q}) \in 0..(Segments - 1)
  <2>1. Segments - 1 \in Nat
    BY <1>1
  <2> QED BY <1>2, <2>1, MinOfTwo
<1>6. SegmentAt(p.dir, p.pos) \in 0..(Segments - 1)
  BY <1>1, <1>4, <1>5 DEF SegmentAt
<1>7. TicksLeft(p.dir, p.pos) \in 1..Ticks
  <2>1. TicksLeft(p.dir, p.pos) = IF p.dir = Reverse /\ r # 0 THEN r ELSE Ticks - r
    BY DEF TicksLeft
  <2>2. r \in 0..(Ticks - 1) /\ Ticks \in Nat
    BY <1>1, <1>2
  <2> QED BY <2>1, <2>2
<1> QED BY <1>6, <1>7

\* The length of the first step of a walk of delta positions from p, and
\* what is left after it.
StepOf(delta, p) == Min({delta, TicksLeft(p.dir, p.pos)})
After(delta, p) ==
    [pos |-> Continue(IF p.dir = Forward THEN p.pos + StepOf(delta, p) ELSE p.pos - StepOf(delta, p),
                      delta - StepOf(delta, p)),
     dir |-> p.dir]
WalkFrom(f, delta, p) ==
    IF delta = 0 THEN 0
    ELSE StepOf(delta, p) * TickLength[SegmentAt(p.dir, p.pos)]
            + (IF delta = StepOf(delta, p) THEN 0
               ELSE f[delta - StepOf(delta, p)][After(delta, p)])

\* A step covers some positions and leaves a place of the line.
LEMMA StepFacts ==
    ASSUME NEW p \in Place, NEW delta \in 1..End
    PROVE  /\ StepOf(delta, p) \in 1..delta
           /\ StepOf(delta, p) # delta => After(delta, p) \in Place
<1>1. End \in Nat /\ p.pos \in 0..End /\ p.dir \in Directions
  BY BuilderAssumptions DEF Place, End
<1>2. StepOf(delta, p) \in 1..delta
  <2>1. Ticks \in Nat /\ TicksLeft(p.dir, p.pos) \in 1..Ticks
    BY BuilderAssumptions, SegmentFacts
  <2> QED BY <1>1, <2>1, MinOfTwo DEF StepOf
<1>3. ASSUME StepOf(delta, p) # delta PROVE After(delta, p) \in Place
  <2> PICK s : s = StepOf(delta, p)
    OBVIOUS
  <2> PICK next : next = IF p.dir = Forward THEN p.pos + s ELSE p.pos - s
    OBVIOUS
  <2>1. s \in 1..delta /\ delta - s > 0 /\ next \in Int
    BY <1>1, <1>2, <1>3
  <2>2. Continue(next, delta - s) \in 0..End
    BY <1>1, <2>1 DEF Continue
  <2>3. After(delta, p) = [pos |-> Continue(next, delta - s), dir |-> p.dir]
    BY DEF After
  <2> QED BY <1>1, <2>2, <2>3 DEF Place
<1> QED BY <1>2, <1>3

\* The walk has a length wherever it begins.
LEMMA WalkTyped == Walk \in [0..End -> [Place -> Nat]]
<1> DEFINE V == [Place -> Nat]
<1>0. End \in Nat
  BY BuilderAssumptions DEF End
<1>1. ASSUME NEW f, NEW delta \in 0..End, NEW p \in Place, \A j \in 0..(delta - 1) : f[j] \in V
      PROVE  WalkFrom(f, delta, p) \in Nat
  <2>1. CASE delta = 0
    BY <2>1 DEF WalkFrom
  <2>2. CASE delta # 0
    <3>1. delta \in 1..End
      BY <1>0, <2>2
    <3> PICK s, seg, q : s = StepOf(delta, p) /\ seg = SegmentAt(p.dir, p.pos) /\ q = After(delta, p)
      OBVIOUS
    <3>2. s \in 1..delta /\ TickLength[seg] \in Nat /\ (s # delta => q \in Place)
      BY <3>1, StepFacts, SegmentFacts, BuilderAssumptions
    <3>3. s # delta => f[delta - s][q] \in Nat
      <4>1. delta - s \in 0..(delta - 1)
        BY <1>0, <3>1, <3>2
      <4> QED BY <1>1, <3>2, <4>1
    <3>4. s * TickLength[seg] \in Nat
      BY <3>2
    <3> QED BY <2>2, <3>2, <3>3, <3>4 DEF WalkFrom
  <2> QED BY <2>1, <2>2
<1>2. ASSUME NEW f \in [0..End -> V], NEW g \in [0..End -> V], NEW delta \in 0..End, NEW p \in Place,
             \A j \in 0..(delta - 1) : f[j] = g[j]
      PROVE  WalkFrom(f, delta, p) = WalkFrom(g, delta, p)
  <2>1. CASE delta = 0
    BY <2>1 DEF WalkFrom
  <2>2. CASE delta # 0
    <3>1. delta \in 1..End
      BY <1>0, <2>2
    <3>2. StepOf(delta, p) \in 1..delta
      BY <3>1, StepFacts
    <3>3. f[delta - StepOf(delta, p)] = g[delta - StepOf(delta, p)]
      BY <1>0, <1>2, <3>1, <3>2
    <3> QED BY <3>3 DEF WalkFrom
  <2> QED BY <2>1, <2>2
<1> DEFINE step == [delta \in 0..End |-> [f \in [0..End -> V] |-> [p \in Place |-> WalkFrom(f, delta, p)]]]
<1>3. step \in [0..End -> [[0..End -> V] -> V]]
  <2>1. ASSUME NEW delta \in 0..End, NEW f \in [0..End -> V]
        PROVE  [p \in Place |-> WalkFrom(f, delta, p)] \in V
    <3>1. \A j \in 0..(delta - 1) : f[j] \in V
      BY <1>0
    <3> QED BY <1>1, <3>1
  <2> HIDE DEF V
  <2> QED BY <2>1
<1>4. \A k \in 0..End : \A f, g \in [0..End -> V] :
          (\A j \in 0..(k - 1) : f[j] = g[j]) => step[k][f] = step[k][g]
  <2> SUFFICES ASSUME NEW k \in 0..End, NEW f \in [0..End -> V], NEW g \in [0..End -> V],
                      \A j \in 0..(k - 1) : f[j] = g[j]
               PROVE  step[k][f] = step[k][g]
    OBVIOUS
  <2>1. \A p \in Place : WalkFrom(f, k, p) = WalkFrom(g, k, p)
    BY <1>2
  <2> HIDE DEF V
  <2>2. /\ step[k][f] = [p \in Place |-> WalkFrom(f, k, p)]
        /\ step[k][g] = [p \in Place |-> WalkFrom(g, k, p)]
    OBVIOUS
  <2> QED BY <2>1, <2>2
<1>5. [p \in Place |-> 0] \in V
  OBVIOUS
<1>6. PICK w \in [0..End -> V] : \A k \in 0..End : w[k] = step[k][w]
  <2>1. Causal(step, End, V) /\ V # {}
    BY <1>3, <1>4, <1>5 DEF Causal
  <2> HIDE DEF step, V
  <2>2. PICK w \in [0..End -> V] : Computed(w, step, End)
    BY <1>0, <2>1, CourseOfValues
  <2> QED BY <2>2 DEF Computed
<1>7. w = [delta \in 0..End |-> [p \in Place |-> WalkFrom(w, delta, p)]]
  BY <1>6
<1>8. Walk = [delta \in 0..End |-> [p \in Place |-> WalkFrom(Walk, delta, p)]]
  BY <1>7 DEF Walk, WalkFrom, StepOf, After
<1> DEFINE Bad == {delta \in 0..End : Walk[delta] \notin V}
<1>9. ASSUME Bad # {} PROVE FALSE
  <2>1. PICK m \in Bad : \A j \in Bad : m <= j
    <3>1. Bad \in SUBSET Nat
      BY <1>0
    <3> HIDE DEF Bad
    <3> QED BY <1>9, <3>1, LeastNumber
  <2>2. ASSUME NEW j \in 0..(m - 1) PROVE Walk[j] \in V
    <3>1. m \in 0..End
      BY <2>1
    <3>2. j \in 0..End /\ ~(m <= j)
      BY <1>0, <3>1
    <3>3. j \notin Bad
      <4> HIDE DEF Bad
      <4> QED BY <2>1, <3>2
    <3> QED BY <3>2, <3>3
  <2>3. \A p \in Place : WalkFrom(Walk, m, p) \in Nat
    BY <1>1, <2>1, <2>2
  <2>4. Walk[m] = [p \in Place |-> WalkFrom(Walk, m, p)]
    BY <1>8, <2>1
  <2>5. Walk[m] \in V
    BY <2>3, <2>4
  <2> QED BY <2>1, <2>5
<1> QED
  <2>1. \A delta \in 0..End : Walk[delta] \in V
    BY <1>9
  <2> HIDE DEF V
  <2>2. Walk = [delta \in 0..End |-> Walk[delta]]
    BY <1>8
  <2>3. Walk \in [0..End -> V]
    BY <2>1, <2>2
  <2> QED BY <2>3 DEF V


\* The entry of a corridor that is not behind has a distance.
LEMMA DistanceTyped ==
    ASSUME NEW p \in Place, NEW c \in Corridor, Delta(c, p) >= 0
    PROVE  DistanceToEntry(c, p) \in Nat
<1>1. /\ End \in Nat /\ p.pos \in 0..End /\ p.dir \in Directions
      /\ Low[c] \in 0..End /\ High[c] \in 0..End /\ At(p) \in Place
  BY BuilderAssumptions DEF Place, End, At
<1>2. Delta(c, p) \in 0..End
  BY <1>1 DEF Delta, Entry
<1> QED BY <1>1, <1>2, WalkTyped DEF DistanceToEntry

\* A place that approaches a corridor has a nearest one, and it lies ahead.
LEMMA NearestAhead ==
    ASSUME NEW p \in Place, ApproachedFrom[p] # {}
    PROVE  /\ NearestFrom[p] \in Corridor
           /\ Delta(NearestFrom[p], p) >= 0
<1> PICK A : A = ApproachedFrom[p]
  OBVIOUS
<1>1. A # {} /\ \A c \in A : c \in Corridor /\ Delta(c, p) >= 0
  BY DEF ApproachedFrom
<1> PICK D : D = [c \in A |-> DistanceToEntry(c, p)]
  OBVIOUS
<1>2. \A c \in A : D[c] = DistanceToEntry(c, p) /\ D[c] \in Nat
  BY <1>1, DistanceTyped
<1>3. PICK m \in {D[c] : c \in A} : \A k \in {D[c] : c \in A} : m <= k
  <2>1. {D[c] : c \in A} \in SUBSET Nat /\ {D[c] : c \in A} # {}
    BY <1>1, <1>2
  <2> QED BY <2>1, LeastNumber
<1>4. PICK c \in A : \A d \in A : DistanceToEntry(c, p) <= DistanceToEntry(d, p)
  BY <1>2, <1>3
<1>5. c \in Corridor
  BY <1>1
<1>6. NearestFrom[p] \in A
  BY <1>1, <1>4, <1>5 DEF NearestFrom
<1> QED BY <1>1, <1>6

-----------------------------------------------------------------------------
(* The candidate builder.  A candidate is a copy of what the last build    *)
(* saw of its train, and stays true of it: whoever changes the telemetry   *)
(* builds again, or removes the train.  While a train waits, its record    *)
(* holds the time its candidate shows.                                     *)

\* The corridor, the direction and the crossings a place asks for.
LEMMA AsksTyped ==
    ASSUME NEW m \in Telemetry, InZone(m)
    PROVE  /\ At(m) \in Place /\ Nearest(m) \in Corridor /\ Delta(Nearest(m), At(m)) >= 0
           /\ ResourceOf(m) \in Resource
           /\ RequiredFrom[At(m)] \in SUBSET Crossing
<1>1. At(m) \in Place /\ ApproachedFrom[At(m)] # {}
  BY DEF InZone, ControlZone
<1>2. Nearest(m) \in Corridor /\ Delta(Nearest(m), At(m)) >= 0
  BY <1>1, NearestAhead DEF Nearest
<1>3. ResourceOf(m) \in Resource
  BY <1>2 DEF ResourceOf, Resource, CorridorDirection, Directions
<1>4. RequiredFrom[At(m)] \in SUBSET Crossing
  BY <1>1 DEF RequiredFrom
<1> QED BY <1>1, <1>2, <1>3, <1>4

\* A train has one candidate.
OneCandidatePerTrain == \A c, d \in candidates : c.train = d.train => c = d

\* What a candidate asks for is what its train needs where it was last seen.
CandidatesCurrent ==
    \A c \in candidates : LET m == monitored[c.train] IN
        m # Absent => InZone(m) /\ c.resource = ResourceOf(m) /\ c.crossings = RequiredFrom[At(m)]

\* A waiting train is monitored, and its record is the time of its candidate.
WaitsRecorded ==
    /\ \A t \in RouteTrain : phase[t] = "WAITING_PERMISSION" => monitored[t] # Absent
    /\ \A c \in candidates : phase[c.train] = "WAITING_PERMISSION" =>
          waiting[c.train][c.resource] = c.arrived

\* The inductive invariant.
BuilderInv == BuilderTypeOK /\ OneCandidatePerTrain /\ CandidatesCurrent /\ WaitsRecorded

\* The telemetry of a train is never the mark of its absence.
LEMMA TelemetryPresent == Absent \notin Telemetry
BY BuilderAssumptions DEF Absent, Telemetry

\* It holds in the initial states.
LEMMA BuilderInitInv == BuilderInit => BuilderInv
BY DEF BuilderInit, BuilderInv, BuilderTypeOK, Phases, OneCandidatePerTrain, CandidatesCurrent,
       WaitsRecorded

\* What a build gives a competing train.
LEMMA BuildFacts ==
    ASSUME BuilderInv, NEW M \in [RouteTrain -> Telemetry \cup {Absent}], NEW P, NEW t \in Competing(M, P)
    PROVE  /\ t \in RouteTrain /\ M[t] \in Telemetry /\ InZone(M[t])
           /\ ResourceOf(M[t]) \in Resource /\ Arrived(t, M[t]) \in SimTime
           /\ CandidateFor(t, M[t]) \in [train : RouteTrain, resource : Resource, arrived : SimTime,
                                          crossings : SUBSET Crossing]
<1>1. t \in RouteTrain /\ M[t] \in Telemetry /\ InZone(M[t])
  BY DEF Competing
<1>2. ResourceOf(M[t]) \in Resource /\ RequiredFrom[At(M[t])] \in SUBSET Crossing
  BY <1>1, AsksTyped
<1>3. waiting[t][ResourceOf(M[t])] \in SimTime \cup {0} /\ M[t].time \in SimTime
  BY <1>1, <1>2 DEF BuilderInv, BuilderTypeOK, Telemetry
<1>4. Arrived(t, M[t]) \in SimTime
  BY <1>3 DEF Arrived
<1> QED BY <1>1, <1>2, <1>4 DEF CandidateFor


\* A report of a train and the build that follows it.
LEMMA UpdateTrainsInv ==
    ASSUME BuilderInv, NEW t \in RouteTrain, NEW m \in Telemetry,
           NEW stale \in SUBSET (RouteTrain \ {t}), UpdateTrains(t, m, stale)
    PROVE  BuilderInv'
<1> PICK M : M = [u \in RouteTrain |->
                     IF u = t THEN m ELSE IF u \in stale THEN Absent ELSE monitored[u]]
  OBVIOUS
<1> PICK P : P = [u \in RouteTrain |-> IF u \in stale THEN "MONITORED" ELSE phase[u]]
  OBVIOUS
<1> PICK C : C = Competing(M, P)
  OBVIOUS
<1>1. /\ M \in [RouteTrain -> Telemetry \cup {Absent}] /\ P \in [RouteTrain -> Phases]
  BY DEF BuilderInv, BuilderTypeOK, Phases
<1>2. PICK released \in SUBSET C :
          phase' = [u \in RouteTrain |-> IF u \in released THEN "RELEASE_PENDING" ELSE PhaseFor(M, P, u)]
  BY DEF UpdateTrains
<1>3. /\ monitored' = M /\ candidates' = {CandidateFor(u, M[u]) : u \in C}
      /\ waiting' = [u \in RouteTrain |-> [r \in Resource |->
             IF u \in C /\ r = ResourceOf(M[u]) THEN Arrived(u, M[u]) ELSE 0]]
  BY DEF UpdateTrains, Build, UpdateWaiting
<1>4. \A u \in C : /\ u \in RouteTrain /\ M[u] \in Telemetry /\ InZone(M[u])
                   /\ ResourceOf(M[u]) \in Resource /\ Arrived(u, M[u]) \in SimTime
                   /\ CandidateFor(u, M[u]) \in [train : RouteTrain, resource : Resource,
                                                  arrived : SimTime, crossings : SUBSET Crossing]
  BY <1>1, BuildFacts
<1>5. \A u \in C : /\ CandidateFor(u, M[u]).train = u
                   /\ CandidateFor(u, M[u]).resource = ResourceOf(M[u])
                   /\ CandidateFor(u, M[u]).arrived = Arrived(u, M[u])
                   /\ CandidateFor(u, M[u]).crossings = RequiredFrom[At(M[u])]
  BY DEF CandidateFor
<1>6. \A u \in RouteTrain : phase'[u] = "WAITING_PERMISSION" => u \in C
  <2> SUFFICES ASSUME NEW u \in RouteTrain, phase'[u] = "WAITING_PERMISSION" PROVE u \in C
    OBVIOUS
  <2>1. PhaseFor(M, P, u) = "WAITING_PERMISSION"
    BY <1>2
  <2>2. ~Controlled(P, u)
    BY <2>1 DEF PhaseFor, Controlled
  <2>3. M[u] # Absent /\ InZone(M[u])
    BY <2>1, <2>2 DEF PhaseFor
  <2> QED BY <2>2, <2>3 DEF Competing
<1>7. BuilderTypeOK'
  <2>1. monitored' \in [RouteTrain -> Telemetry \cup {Absent}]
    BY <1>1, <1>3
  <2>2. phase' \in [RouteTrain -> Phases]
    <3>1. \A u \in RouteTrain : PhaseFor(M, P, u) \in Phases
      <4> SUFFICES ASSUME NEW u \in RouteTrain PROVE PhaseFor(M, P, u) \in Phases
        OBVIOUS
      <4>1. CASE Controlled(P, u)
        BY <1>1, <4>1 DEF PhaseFor
      <4>2. CASE ~Controlled(P, u)
        BY <4>2 DEF PhaseFor, Phases
      <4> QED BY <4>1, <4>2
    <3> QED BY <1>2, <3>1 DEF Phases
  <2>3. waiting' \in [RouteTrain -> [Resource -> SimTime \cup {0}]]
    BY <1>3, <1>4
  <2>4. candidates' \subseteq [train : RouteTrain, resource : Resource, arrived : SimTime,
                                 crossings : SUBSET Crossing]
    BY <1>3, <1>4
  <2>5. ASSUME NEW u \in RouteTrain, NEW r \in Resource, NEW s \in Resource,
               waiting'[u][r] # 0, waiting'[u][s] # 0
        PROVE  r = s /\ monitored'[u] # Absent
    <3>1. u \in C /\ r = ResourceOf(M[u]) /\ s = ResourceOf(M[u])
      BY <1>3, <2>5
    <3> QED BY <1>3, <1>4, <3>1, TelemetryPresent
  <2> QED BY <2>1, <2>2, <2>3, <2>4, <2>5 DEF BuilderTypeOK
<1>8. OneCandidatePerTrain'
  BY <1>3, <1>5 DEF OneCandidatePerTrain
<1>9. CandidatesCurrent'
  BY <1>3, <1>4, <1>5 DEF CandidatesCurrent
<1>10. WaitsRecorded'
  <2>1. \A u \in RouteTrain : phase'[u] = "WAITING_PERMISSION" => monitored'[u] # Absent
    BY <1>3, <1>4, <1>6, TelemetryPresent
  <2>2. ASSUME NEW c \in candidates' PROVE waiting'[c.train][c.resource] = c.arrived
    <3>1. PICK u \in C : c = CandidateFor(u, M[u])
      BY <1>3
    <3>2. waiting'[u][ResourceOf(M[u])] = Arrived(u, M[u])
      BY <1>3, <1>4
    <3> QED BY <1>5, <3>1, <3>2
  <2> QED BY <2>1, <2>2 DEF WaitsRecorded
<1> QED BY <1>7, <1>8, <1>9, <1>10 DEF BuilderInv

\* The operations that do not build and keep the routes.
LEMMA KeptBetweenBuilds ==
    ASSUME BuilderInv, NEW stale \in SUBSET RouteTrain, NEW t \in RouteTrain,
           \/ RunMaintenance(stale) \/ Acknowledge(t, TRUE) \/ Acknowledge(t, FALSE)
           \/ MarkCleared(t)
    PROVE  BuilderInv' /\ candidates' \subseteq candidates
<1> USE DEF BuilderInv
<1>1. CASE RunMaintenance(stale)
  <2>1. BuilderTypeOK'
    BY <1>1 DEF RunMaintenance, BuilderTypeOK, Phases
  <2>2. OneCandidatePerTrain' /\ candidates' \subseteq candidates
    BY <1>1 DEF RunMaintenance, OneCandidatePerTrain
  <2>3. \A c \in candidates : c.train \in RouteTrain
    BY DEF BuilderTypeOK
  <2>4. CandidatesCurrent'
    BY <1>1, <2>3 DEF RunMaintenance, CandidatesCurrent
  <2>5. WaitsRecorded'
    BY <1>1, <2>3 DEF RunMaintenance, WaitsRecorded
  <2> QED BY <2>1, <2>2, <2>4, <2>5
<1>2. CASE Acknowledge(t, TRUE) \/ Acknowledge(t, FALSE)
  <2>1. BuilderTypeOK'
    BY <1>2 DEF Acknowledge, BuilderTypeOK, Phases
  <2>2. OneCandidatePerTrain' /\ candidates' \subseteq candidates
    BY <1>2 DEF Acknowledge, OneCandidatePerTrain
  <2>3. \A c \in candidates : c.train \in RouteTrain
    BY DEF BuilderTypeOK
  <2>4. CandidatesCurrent'
    BY <1>2, <2>3 DEF Acknowledge, CandidatesCurrent
  <2>5. WaitsRecorded'
    BY <1>2, <2>2, <2>3 DEF Acknowledge, WaitsRecorded, BuilderTypeOK
  <2> QED BY <2>1, <2>2, <2>4, <2>5
<1>3. CASE MarkCleared(t)
  <2>1. BuilderTypeOK'
    BY <1>3 DEF MarkCleared, BuilderTypeOK, Phases
  <2>2. OneCandidatePerTrain' /\ candidates' \subseteq candidates
    BY <1>3 DEF MarkCleared, OneCandidatePerTrain
  <2>3. \A c \in candidates : c.train \in RouteTrain
    BY DEF BuilderTypeOK
  <2>4. CandidatesCurrent'
    BY <1>3, <2>3 DEF MarkCleared, CandidatesCurrent
  <2>5. WaitsRecorded'
    BY <1>3, <2>3 DEF MarkCleared, WaitsRecorded, BuilderTypeOK
  <2> QED BY <2>1, <2>2, <2>4, <2>5
<1> QED BY <1>1, <1>2, <1>3

\* Every step is a build or one of these.
BuildStep ==
    \E t \in RouteTrain, m \in Telemetry : \E stale \in SUBSET (RouteTrain \ {t}) :
        UpdateTrains(t, m, stale)

\* Only a build adds candidates, and every step keeps the invariant.
LEMMA BuilderStepInv ==
    ASSUME BuilderInv, [BuilderNext]_builderVars
    PROVE  /\ BuilderInv'
           /\ BuildStep \/ candidates' \subseteq candidates
<1>1. CASE UNCHANGED builderVars
  BY <1>1 DEF builderVars, BuilderInv, BuilderTypeOK, OneCandidatePerTrain, CandidatesCurrent,
              WaitsRecorded
<1>2. CASE BuildStep
  BY <1>2, UpdateTrainsInv DEF BuildStep
<1>3. CASE ReplaceRoutes
  <2>1. BuilderInv' /\ candidates' \subseteq candidates
    BY <1>3 DEF ReplaceRoutes, BuilderInv, BuilderTypeOK, Phases, OneCandidatePerTrain,
                CandidatesCurrent, WaitsRecorded
  <2> QED BY <2>1
<1>4. CASE \E stale \in SUBSET RouteTrain : RunMaintenance(stale)
  <2>1. PICK stale \in SUBSET RouteTrain : RunMaintenance(stale)
    BY <1>4
  <2>2. PICK t \in RouteTrain : TRUE
    BY <2>1 DEF RunMaintenance
  <2> QED BY <2>1, <2>2, KeptBetweenBuilds
<1>5. CASE \E t \in RouteTrain : MarkCleared(t) \/ \E accepted \in BOOLEAN : Acknowledge(t, accepted)
  <2>1. PICK t \in RouteTrain : MarkCleared(t) \/ Acknowledge(t, TRUE) \/ Acknowledge(t, FALSE)
    BY <1>5
  <2> QED BY <2>1, KeptBetweenBuilds
<1> QED BY <1>1, <1>2, <1>3, <1>4, <1>5 DEF BuilderNext, BuildStep

\* The builder keeps its type, with one waiting record of a monitored train
\* at most (DispatchCandidateBuilder, build and forgetTrain).
THEOREM BuilderTypeCorrect == BuilderSpec => []BuilderTypeOK
<1>1. BuilderInv => BuilderTypeOK
  BY DEF BuilderInv
<1> QED BY <1>1, BuilderInitInv, BuilderStepInv, PTL DEF BuilderSpec

\* On an open line a candidate asks for every crossing up to the exit of its
\* corridor, whatever the segments, the corridors and the sampling (the loop
\* of build over the crossings, liesAheadThroughCorridor).  On a closed line
\* TLC refutes it: the comparison of segment numbers does not wrap.
THEOREM OpenLineCrossingsRequired == ~IsLoop => (BuilderSpec => []CrossingsToExitRequired)
<1> SUFFICES ASSUME ~IsLoop PROVE BuilderSpec => []CrossingsToExitRequired
  OBVIOUS
<1>1. ASSUME NEW m \in Telemetry, InZone(m), NEW x \in Crossing,
             NEW i \in TicksToExit(Nearest(m), m), i \div Ticks = CrossingSegment[x]
      PROVE  x \in RequiredFrom[At(m)]
  <2> PICK c, pos, low, high, T : /\ c = Nearest(m) /\ pos = m.pos /\ low = Low[c] /\ high = High[c]
                               /\ T = Ticks
    OBVIOUS
  <2>1. /\ c \in Corridor /\ At(m) \in Place /\ NearestFrom[At(m)] = c
        /\ m.dir \in Directions /\ pos \in Nat /\ low \in Nat /\ high \in Nat
        /\ low < high /\ T \in Nat \ {0}
    <3>1. End \in Nat
      BY BuilderAssumptions DEF End
    <3> QED BY <1>1, <3>1, AsksTyped, BuilderAssumptions DEF Telemetry, Nearest
  <2>2. Delta(c, At(m)) >= 0
    BY <1>1, AsksTyped
  <2>3. CASE m.dir = Forward
    <3>1. low >= pos
      BY <2>1, <2>2, <2>3 DEF Delta, Entry, At
    <3>2. i \in pos..(high - 1)
      BY <1>1, <2>1, <2>3, <3>1 DEF TicksToExit, Between, Entry
    <3>3. pos \div T <= i \div T /\ i \div T <= (high - 1) \div T
      BY <2>1, <3>2
    <3>4. LiesAheadThroughCorridor(x, c, At(m))
      BY <1>1, <2>3, <3>3 DEF LiesAheadThroughCorridor, HighSegment, At
    <3> QED BY <2>1, <3>4 DEF RequiredFrom
  <2>4. CASE m.dir # Forward
    <3>0. m.dir = Reverse /\ Reverse # Forward
      BY <2>1, <2>4 DEF Directions, Reverse, Forward
    <3>1. high <= pos
      BY <2>1, <2>2, <3>0 DEF Delta, Entry, At
    <3>2. i \in low..(pos - 1)
      BY <1>1, <2>1, <3>0, <3>1 DEF TicksToExit, Between, Entry
    <3>3. i \div T <= pos \div T /\ low \div T <= i \div T
      BY <2>1, <3>2
    <3>4. LiesAheadThroughCorridor(x, c, At(m))
      BY <1>1, <3>0, <3>3 DEF LiesAheadThroughCorridor, LowSegment, At
    <3> QED BY <2>1, <3>4 DEF RequiredFrom
  <2> QED BY <2>3, <2>4
<1>2. BuilderInv => CrossingsToExitRequired
  <2> SUFFICES ASSUME BuilderInv, NEW c \in candidates, monitored[c.train] # Absent,
                      NEW x \in Crossing, NEW i \in TicksToExit(c.resource[1], monitored[c.train]),
                      i \div Ticks = CrossingSegment[x]
               PROVE  x \in c.crossings
    BY DEF CrossingsToExitRequired
  <2> PICK m : m = monitored[c.train]
    OBVIOUS
  <2>1. m \in Telemetry /\ InZone(m) /\ c.resource = ResourceOf(m) /\ c.crossings = RequiredFrom[At(m)]
    BY DEF BuilderInv, BuilderTypeOK, CandidatesCurrent
  <2>2. c.resource[1] = Nearest(m)
    BY <2>1 DEF ResourceOf
  <2> QED BY <1>1, <2>1, <2>2
<1> QED BY <1>2, BuilderInitInv, BuilderStepInv, PTL DEF BuilderSpec

\* No batch of telemetry restarts the wait of a train that keeps waiting
\* before a resource (updateWaiting keeps the first arrival), for any trains,
\* times and line, loops included.
THEOREM WaitsNeverRestart == BuilderSpec => WaitNotRestarted
<1>1. ASSUME BuilderInv, [BuilderNext]_builderVars, NEW c \in candidates, NEW d \in candidates',
             c.train = d.train, c.resource = d.resource, phase[c.train] = "WAITING_PERMISSION"
      PROVE  d.arrived <= c.arrived
  <2>0. c.arrived \in SimTime /\ c.arrived \in Nat /\ c.arrived # 0
    BY <1>1, BuilderAssumptions DEF BuilderInv, BuilderTypeOK
  <2>1. CASE candidates' \subseteq candidates
    <3>1. c = d
      BY <1>1, <2>1 DEF BuilderInv, OneCandidatePerTrain
    <3> QED BY <2>0, <3>1
  <2>2. CASE BuildStep
    <3>1. PICK t \in RouteTrain, m \in Telemetry, stale \in SUBSET RouteTrain : UpdateTrains(t, m, stale)
      BY <2>2 DEF BuildStep
    <3> PICK M : M = [u \in RouteTrain |->
                         IF u = t THEN m ELSE IF u \in stale THEN Absent ELSE monitored[u]]
      OBVIOUS
    <3>2. M \in [RouteTrain -> Telemetry \cup {Absent}]
      BY <1>1 DEF BuilderInv, BuilderTypeOK
    <3> PICK P : P = [u \in RouteTrain |-> IF u \in stale THEN "MONITORED" ELSE phase[u]]
      OBVIOUS
    <3>3. candidates' = {CandidateFor(u, M[u]) : u \in Competing(M, P)}
      BY <3>1 DEF UpdateTrains, Build
    <3>4. PICK u \in Competing(M, P) : d = CandidateFor(u, M[u])
      BY <3>3
    <3>5. u \in RouteTrain /\ M[u] \in Telemetry
      BY <1>1, <3>2, BuildFacts
    <3>6. d.train = u /\ d.resource = ResourceOf(M[u]) /\ d.arrived = Arrived(u, M[u])
      BY <3>4 DEF CandidateFor
    <3>7. waiting[u][ResourceOf(M[u])] = c.arrived
      BY <1>1, <3>6 DEF BuilderInv, WaitsRecorded
    <3>8. M[u].time \in Nat
      BY <3>5, BuilderAssumptions DEF Telemetry
    <3> QED BY <2>0, <3>6, <3>7, <3>8 DEF Arrived
  <2> QED BY <1>1, <2>1, <2>2, BuilderStepInv
<1>2. BuilderInv /\ [BuilderNext]_builderVars =>
          [\A c \in candidates, d \in candidates' :
              (c.train = d.train /\ c.resource = d.resource /\ phase[c.train] = "WAITING_PERMISSION")
                  => d.arrived <= c.arrived]_builderVars
  BY <1>1
<1> QED BY <1>2, BuilderInitInv, BuilderStepInv, PTL DEF BuilderSpec, WaitNotRestarted

=============================================================================
