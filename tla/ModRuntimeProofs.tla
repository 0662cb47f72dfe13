---------------------------- MODULE ModRuntimeProofs ----------------------------
(***************************************************************************)
(* Proofs about ModRuntime, for any number of trains and commands.         *)
(*                                                                         *)
(* The work of a frame is three loops, each the value of a recursive       *)
(* function at the end of its domain.  RecursionExists and InductionUpTo   *)
(* turn them into an invariant rule: a set of states of the frame that     *)
(* holds its start and is kept by every round holds its end (FrameIn).     *)
(***************************************************************************)
EXTENDS ModRuntime, FiniteSetTheorems, NaturalsInduction, WellFoundedInduction, TLAPS

-----------------------------------------------------------------------------
(* Recursion over the numbers up to n.                                     *)

\* A set of naturals that is not empty has a least member.
LEMMA LeastNatural ==
    ASSUME NEW S \in SUBSET Nat, S # {}
    PROVE  \E m \in S : \A k \in S : m <= k
<1> DEFINE Before == {p \in Nat \X Nat : p[1] < p[2]}
<1>1. IsWellFoundedOn(Before, Nat)
  BY NatLessThanWellFounded DEF OpToRel
<1> HIDE DEF Before
<1>2. PICK m \in S : \A k \in S : ~(<<k, m>> \in Before)
  BY <1>1, WFMin
<1>3. ASSUME NEW k \in S PROVE m <= k
  <2>1. m \in Nat /\ k \in Nat /\ <<k, m>> \in Nat \X Nat
    OBVIOUS
  <2>2. ~(k < m)
    BY <1>2, <2>1 DEF Before
  <2> QED BY <2>1, <2>2
<1> QED BY <1>3

\* What holds at the start and is handed on by every round holds throughout.
LEMMA InductionUpTo ==
    ASSUME NEW S, NEW n \in Nat, NEW f, f[0] \in S,
           \A k \in 1..n : f[k - 1] \in S => f[k] \in S
    PROVE  \A k \in 0..n : f[k] \in S
<1> DEFINE Bad == {k \in 0..n : f[k] \notin S}
<1>1. ASSUME Bad # {} PROVE FALSE
  <2>0. Bad \in SUBSET Nat
    OBVIOUS
  <2>1. PICK m \in Bad : \A k \in Bad : m <= k
    BY <1>1, <2>0, LeastNatural
  <2>2. m \in 1..n /\ f[m] \notin S
    BY <2>1
  <2>3. m - 1 \in 0..n /\ m - 1 \notin Bad
    BY <2>1, <2>2
  <2>4. f[m - 1] \in S
    BY <2>3
  <2> QED BY <2>2, <2>4
<1> QED BY <1>1

\* A round that stays in S can be repeated n times.
LEMMA RecursionExists ==
    ASSUME NEW S, NEW base \in S, NEW n \in Nat, NEW step \in [1..n -> [S -> S]]
    PROVE  \E f \in [0..n -> S] :
              f[0] = base /\ \A k \in 1..n : f[k] = step[k][f[k - 1]]
<1> DEFINE Run(m, f) == /\ f \in [0..m -> S]
                        /\ f[0] = base
                        /\ \A k \in 1..m : f[k] = step[k][f[k - 1]]
           Bad == {m \in 0..n : \A f \in [0..m -> S] : ~Run(m, f)}
<1>1. ASSUME Bad # {} PROVE FALSE
  <2>1. PICK m \in Bad : \A k \in Bad : m <= k
    <3>1. Bad \in SUBSET Nat
      OBVIOUS
    <3> QED BY <1>1, <3>1, LeastNatural
  <2>2. m \in 0..n /\ \A f \in [0..m -> S] : ~Run(m, f)
    BY <2>1
  <2>3. CASE m = 0
    <3> DEFINE g == [k \in 0..m |-> base]
    <3>1. Run(m, g)
      BY <2>3
    <3> QED BY <3>1, <2>2
  <2>4. CASE m # 0
    <3>1. m \in 1..n /\ m - 1 \in 0..n /\ m - 1 \notin Bad
      <4>1. m \in 1..n /\ m - 1 \in 0..n /\ ~(m <= m - 1)
        BY <2>2, <2>4
      <4> HIDE DEF Bad
      <4> QED BY <4>1, <2>1
    <3>2. PICK f \in [0..(m - 1) -> S] : Run(m - 1, f)
      BY <3>1
    <3> DEFINE last == step[m][f[m - 1]]
               g == [k \in 0..m |-> IF k = m THEN last ELSE f[k]]
    <3>3. f[m - 1] \in S /\ last \in S
      BY <3>1, <3>2
    <3>4. g \in [0..m -> S]
      BY <3>1, <3>2, <3>3
    <3>5. g[0] = base
      BY <3>1, <3>2
    <3>6. ASSUME NEW k \in 1..m PROVE g[k] = step[k][g[k - 1]]
      <4>1. CASE k = m
        BY <4>1, <3>1
      <4>2. CASE k # m
        <5>1. k \in 1..(m - 1) /\ k - 1 \in 0..m /\ k - 1 # m /\ k \in 0..m
          BY <4>2, <3>1
        <5>2. f[k] = step[k][f[k - 1]]
          BY <5>1, <3>2
        <5> QED BY <5>1, <5>2, <4>2
      <4> QED BY <4>1, <4>2
    <3> HIDE DEF g
    <3> QED BY <3>4, <3>5, <3>6, <2>2
  <2> QED BY <2>3, <2>4
<1>2. n \notin Bad
  BY <1>1
<1>3. PICK f \in [0..n -> S] : Run(n, f)
  BY <1>2
<1> QED BY <1>3

-----------------------------------------------------------------------------
(* The loops of a frame.                                                   *)

\* The state in which a frame begins.
FrameStart == [passages |-> passages, finished |-> finished, posts |-> <<>>, held |-> {}]

\* S holds the start of a frame and is kept by every command of the queue.
KeptByDrain(S) ==
    /\ Len(inbox) \in Nat /\ FrameStart \in S
    /\ \A w \in S : \A k \in 1..Len(inbox) : DrainCommand(w, inbox[k]) \in S

\* S is kept by every train of the snapshot ...
KeptByTrains(S, elapsed) ==
    \A w \in S : \A t \in GameTrain :
        snapshot[t] # Absent => TickTrain(w, t, snapshot[t], elapsed) \in S

\* ... and by every train that is missing in it.
KeptByMissing(S) ==
    \A w \in S : \A t \in GameTrain : snapshot[t] = Absent => RemoveMissing(w, t) \in S

\* What every command of the queue keeps, DrainCommands keeps.
LEMMA DrainIn ==
    ASSUME NEW S, KeptByDrain(S)
    PROVE  DrainCommands \in S
<1>1. PICK n \in Nat : n = Len(inbox)
  BY DEF KeptByDrain
<1>2. PICK start \in S : start = FrameStart
  BY DEF KeptByDrain
<1> DEFINE IsRun(f) == f = [k \in 0..n |-> IF k = 0 THEN start
                                           ELSE DrainCommand(f[k - 1], inbox[k])]
<1>3. DrainCommands = (CHOOSE f : IsRun(f))[n]
  BY <1>1, <1>2 DEF DrainCommands, FrameStart
<1>4. PICK step \in [1..n -> [S -> S]] :
         \A k \in 1..n : \A w \in S : step[k][w] = DrainCommand(w, inbox[k])
  <2> DEFINE step == [k \in 1..n |-> [w \in S |-> DrainCommand(w, inbox[k])]]
  <2>1. step \in [1..n -> [S -> S]]
    BY <1>1 DEF KeptByDrain
  <2> QED BY <2>1
<1>5. PICK g \in [0..n -> S] : g[0] = start /\ \A k \in 1..n : g[k] = step[k][g[k - 1]]
  BY RecursionExists
<1>6. IsRun(g)
  <2>1. ASSUME NEW k \in 1..n PROVE g[k] = DrainCommand(g[k - 1], inbox[k])
    BY <1>4, <1>5
  <2>2. \A k \in 0..n : g[k] = IF k = 0 THEN start ELSE DrainCommand(g[k - 1], inbox[k])
    BY <1>5, <2>1
  <2> QED BY <2>2
<1>7. PICK h : IsRun(h) /\ DrainCommands = h[n]
  <2> HIDE DEF IsRun
  <2> QED BY <1>3, <1>6
<1>8. h[0] = start /\ \A k \in 1..n : h[k] = DrainCommand(h[k - 1], inbox[k])
  BY <1>7
<1> HIDE DEF IsRun
<1>9. h[0] \in S /\ \A k \in 1..n : h[k - 1] \in S => h[k] \in S
  BY <1>1, <1>8 DEF KeptByDrain
<1>10. \A k \in 0..n : h[k] \in S
  BY <1>9, InductionUpTo
<1> QED BY <1>7, <1>10

\* The order of the snapshot runs through the trains.
LEMMA OrderFacts ==
    Len(TrainOrder) \in Nat /\ \A k \in 1..Len(TrainOrder) : TrainOrder[k] \in GameTrain
BY RuntimeAssumptions

\* One round of the loop over the trains.
TrainRound(w, k, gone, elapsed) ==
    IF snapshot[TrainOrder[k]] = Absent \/ TrainOrder[k] \in gone THEN w
    ELSE TickTrain(w, TrainOrder[k], snapshot[TrainOrder[k]], elapsed)

\* The loop from v is the run h of n rounds inside of S.
IsTrainsRun(n, h, S, v, gone, elapsed) ==
    /\ n = Len(TrainOrder)
    /\ h[0] = v /\ \A k \in 1..n : h[k] = TrainRound(h[k - 1], k, gone, elapsed)
    /\ \A k \in 0..n : h[k] \in S
    /\ TickTrains(v, gone, elapsed) = h[n]

\* It is one inside of what every round keeps.
LEMMA TrainsRun ==
    ASSUME NEW S, NEW v \in S, NEW gone, NEW elapsed, KeptByTrains(S, elapsed)
    PROVE  \E n \in Nat : \E h : IsTrainsRun(n, h, S, v, gone, elapsed)
<1>1. PICK n \in Nat : n = Len(TrainOrder)
  BY OrderFacts
<1> DEFINE Round(w, k) == TrainRound(w, k, gone, elapsed)
           IsRun(f) == f = [k \in 0..n |-> IF k = 0 THEN v ELSE Round(f[k - 1], k)]
<1>2. \A w \in S : \A k \in 1..n : Round(w, k) \in S
  BY <1>1, OrderFacts DEF KeptByTrains, TrainRound
<1>3. TickTrains(v, gone, elapsed) = (CHOOSE f : IsRun(f))[n]
  BY <1>1 DEF TickTrains, TrainRound
<1>4. PICK step \in [1..n -> [S -> S]] : \A k \in 1..n : \A w \in S : step[k][w] = Round(w, k)
  <2> DEFINE step == [k \in 1..n |-> [w \in S |-> Round(w, k)]]
  <2>1. step \in [1..n -> [S -> S]]
    BY <1>2
  <2> QED BY <2>1
<1>5. PICK g \in [0..n -> S] : g[0] = v /\ \A k \in 1..n : g[k] = step[k][g[k - 1]]
  BY RecursionExists
<1>6. IsRun(g)
  <2>1. ASSUME NEW k \in 1..n PROVE g[k] = Round(g[k - 1], k)
    BY <1>4, <1>5
  <2>2. \A k \in 0..n : g[k] = IF k = 0 THEN v ELSE Round(g[k - 1], k)
    BY <1>5, <2>1
  <2> QED BY <2>2
<1>7. PICK h : IsRun(h) /\ TickTrains(v, gone, elapsed) = h[n]
  <2> HIDE DEF IsRun
  <2> QED BY <1>3, <1>6
<1>8. h[0] = v /\ \A k \in 1..n : h[k] = Round(h[k - 1], k)
  BY <1>7
<1> HIDE DEF IsRun
<1>9. h[0] \in S /\ \A k \in 1..n : h[k - 1] \in S => h[k] \in S
  BY <1>2, <1>8
<1>10. \A k \in 0..n : h[k] \in S
  BY <1>9, InductionUpTo
<1>11. IsTrainsRun(n, h, S, v, gone, elapsed)
  BY <1>1, <1>7, <1>8, <1>10 DEF IsTrainsRun
<1> QED BY <1>11

\* What every train of the snapshot keeps, the loop over them keeps.
LEMMA TrainsIn ==
    ASSUME NEW S, NEW v \in S, NEW gone, NEW elapsed, KeptByTrains(S, elapsed)
    PROVE  TickTrains(v, gone, elapsed) \in S
<1>0. PICK n \in Nat : \E h : IsTrainsRun(n, h, S, v, gone, elapsed)
  BY TrainsRun
<1>1. PICK h : IsTrainsRun(n, h, S, v, gone, elapsed)
  BY <1>0
<1>2. (\A k \in 0..n : h[k] \in S) /\ TickTrains(v, gone, elapsed) = h[n]
  BY <1>1 DEF IsTrainsRun
<1>3. n \in 0..n
  OBVIOUS
<1> QED BY <1>2, <1>3

\* What the round of one train brings about and every round keeps holds after
\* the loop, if the train is in the snapshot.
LEMMA TrainReached ==
    ASSUME NEW S, NEW v \in S, NEW elapsed, KeptByTrains(S, elapsed),
           NEW T, KeptByTrains(T, elapsed),
           NEW t \in GameTrain, snapshot[t] # Absent,
           \A w \in S : TickTrain(w, t, snapshot[t], elapsed) \in T
    PROVE  TickTrains(v, {}, elapsed) \in T
<1>1. PICK gone : gone = {}
  OBVIOUS
<1>0. PICK n \in Nat : \E h : IsTrainsRun(n, h, S, v, gone, elapsed)
  BY TrainsRun
<1>a. PICK h : IsTrainsRun(n, h, S, v, gone, elapsed)
  BY <1>0
<1>2. /\ n = Len(TrainOrder)
      /\ \A k \in 1..n : h[k] = TrainRound(h[k - 1], k, {}, elapsed)
      /\ \A k \in 0..n : h[k] \in S
      /\ TickTrains(v, {}, elapsed) = h[n]
  BY <1>1, <1>a DEF IsTrainsRun
<1>3. PICK m \in 1..n : TrainOrder[m] = t
  BY <1>2, RuntimeAssumptions DEF GameTrain, Range
<1>4. h[m] \in T
  <2>1. h[m] = TickTrain(h[m - 1], t, snapshot[t], elapsed) /\ h[m - 1] \in S
    BY <1>2, <1>3 DEF TrainRound
  <2> QED BY <2>1
<1> DEFINE Since == {x \in (0..n) \X S : x[1] >= m => x[2] \in T}
           f == [k \in 0..n |-> <<k, h[k]>>]
<1>5. f[0] \in Since
  BY <1>2, <1>3
<1>6. ASSUME NEW k \in 1..n, f[k - 1] \in Since PROVE f[k] \in Since
  <2>1. k - 1 \in 0..n /\ k \in 0..n /\ h[k] \in S
    BY <1>2
  <2>2. k - 1 >= m => h[k - 1] \in T
    BY <1>6, <2>1
  <2>3. k - 1 >= m => h[k] \in T
    BY <1>2, <2>2, OrderFacts DEF TrainRound, KeptByTrains
  <2>4. k >= m => k = m \/ k - 1 >= m
    BY <1>3
  <2>5. k >= m => h[k] \in T
    BY <1>4, <2>3, <2>4
  <2> QED BY <2>1, <2>5
<1> HIDE DEF Since
<1>7. \A k \in 0..n : f[k] \in Since
  BY <1>5, <1>6, InductionUpTo
<1>8. f[n] \in Since /\ n \in 0..n /\ n >= m
  BY <1>3, <1>7
<1> QED BY <1>2, <1>8 DEF Since

\* What every missing train keeps, RemoveMissingPassages keeps.
LEMMA MissingIn ==
    ASSUME NEW S, NEW v \in S, KeptByMissing(S)
    PROVE  RemoveMissingPassages(v) \in S
<1>1. PICK n \in Nat : n = Len(TrainOrder)
  BY OrderFacts
<1> DEFINE Round(w, k) == IF snapshot[TrainOrder[k]] = Absent
                            THEN RemoveMissing(w, TrainOrder[k]) ELSE w
           IsRun(f) == f = [k \in 0..n |-> IF k = 0 THEN v ELSE Round(f[k - 1], k)]
<1>2. \A w \in S : \A k \in 1..n : Round(w, k) \in S
  BY <1>1, OrderFacts DEF KeptByMissing
<1>3. RemoveMissingPassages(v) = (CHOOSE f : IsRun(f))[n]
  BY <1>1 DEF RemoveMissingPassages
<1> HIDE DEF Round
<1>4. PICK step \in [1..n -> [S -> S]] : \A k \in 1..n : \A w \in S : step[k][w] = Round(w, k)
  <2> DEFINE step == [k \in 1..n |-> [w \in S |-> Round(w, k)]]
  <2>1. step \in [1..n -> [S -> S]]
    BY <1>2
  <2> QED BY <2>1
<1>5. PICK g \in [0..n -> S] : g[0] = v /\ \A k \in 1..n : g[k] = step[k][g[k - 1]]
  BY RecursionExists
<1>6. IsRun(g)
  <2>1. ASSUME NEW k \in 1..n PROVE g[k] = Round(g[k - 1], k)
    BY <1>4, <1>5
  <2>2. \A k \in 0..n : g[k] = IF k = 0 THEN v ELSE Round(g[k - 1], k)
    BY <1>5, <2>1
  <2> QED BY <2>2
<1>7. PICK h : IsRun(h) /\ RemoveMissingPassages(v) = h[n]
  <2> HIDE DEF IsRun
  <2> QED BY <1>3, <1>6
<1>8. h[0] = v /\ \A k \in 1..n : h[k] = Round(h[k - 1], k)
  BY <1>7
<1> HIDE DEF IsRun
<1>9. h[0] \in S /\ \A k \in 1..n : h[k - 1] \in S => h[k] \in S
  BY <1>2, <1>8
<1>10. \A k \in 0..n : h[k] \in S
  BY <1>9, InductionUpTo
<1> QED BY <1>7, <1>10

\* A set that every round of the three loops keeps holds the state in which
\* the frame ends.
LEMMA FrameIn ==
    ASSUME NEW S, NEW gone, NEW elapsed,
           KeptByDrain(S), KeptByTrains(S, elapsed), KeptByMissing(S)
    PROVE  TickCore(gone, elapsed) \in S
<1>1. DrainCommands \in S
  BY DrainIn
<1>2. TickTrains(DrainCommands, gone, elapsed) \in S
  BY <1>1, TrainsIn
<1>3. RemoveMissingPassages(TickTrains(DrainCommands, gone, elapsed)) \in S
  BY <1>2, MissingIn
<1> QED BY <1>1, <1>3 DEF TickCore

-----------------------------------------------------------------------------
(* Types of a frame.  C is any set of commands of trains of the game.      *)

IdsOf(C) == {c.id : c \in C}
PostsOf(C) == {Report(kind, c) : kind \in {"accept", "reject", "cleared"}, c \in C}

PassagesOf(C) ==
    {P \in [GameTrain -> Passage(C) \cup {NoPassage}] :
        \A t \in GameTrain : P[t] # NoPassage => PassageOf(P[t], t)}

Work(C) == [passages : PassagesOf(C), finished : SUBSET IdsOf(C), posts : Seq(PostsOf(C)),
            held : SUBSET GameTrain]

\* The passage of a train that has one.
LEMMA PassageFacts ==
    ASSUME NEW C, NEW w \in Work(C), NEW t \in GameTrain, w.passages[t] # NoPassage
    PROVE  /\ w.passages[t] \in Passage(C)
           /\ w.passages[t].command \in C /\ w.passages[t].command.train = t
           /\ PassageOf(w.passages[t], t)
BY DEF Work, PassagesOf, Passage, PassageOf

\* One passage of a frame is replaced.
WithPassage(w, t, q) == [w EXCEPT !.passages[t] = q]

\* The frame keeps its types, and only that passage changes.
LEMMA PassageReplaced ==
    ASSUME NEW C, NEW w \in Work(C), NEW t \in GameTrain, NEW q \in Passage(C) \cup {NoPassage},
           q # NoPassage => PassageOf(q, t),
           NEW v, v = WithPassage(w, t, q)
    PROVE  /\ v \in Work(C)
           /\ v.passages = [w.passages EXCEPT ![t] = q]
           /\ v.finished = w.finished /\ v.posts = w.posts /\ v.held = w.held
<1>1. [w.passages EXCEPT ![t] = q] \in PassagesOf(C)
  BY DEF Work, PassagesOf
<1> QED BY <1>1 DEF Work, WithPassage

\* One report of a frame is queued.
LEMMA PostAppended ==
    ASSUME NEW C, NEW w \in Work(C), NEW c \in C, NEW kind \in {"accept", "reject", "cleared"},
           NEW v, v = [w EXCEPT !.posts = Append(@, Report(kind, c))]
    PROVE  /\ v \in Work(C)
           /\ v.passages = w.passages /\ v.finished = w.finished /\ v.held = w.held
           /\ v.posts = Append(w.posts, Report(kind, c))
<1>1. Report(kind, c) \in PostsOf(C)
  BY DEF PostsOf
<1>2. w.posts \in Seq(PostsOf(C))
  BY DEF Work
<1>3. Append(w.posts, Report(kind, c)) \in Seq(PostsOf(C))
  BY <1>1, <1>2
<1> QED BY <1>3 DEF Work

\* A cleared report of a frame is queued.
LEMMA ClearedAppended ==
    ASSUME NEW C, NEW w \in Work(C), NEW c \in C,
           NEW v, v = [w EXCEPT !.posts = Append(@, Report("cleared", c))]
    PROVE  /\ v \in Work(C)
           /\ v.passages = w.passages /\ v.finished = w.finished /\ v.held = w.held
           /\ v.posts = Append(w.posts, Report("cleared", c))
<1>1. PICK kind \in {"accept", "reject", "cleared"} : kind = "cleared"
  OBVIOUS
<1>2. v = [w EXCEPT !.posts = Append(@, Report(kind, c))]
  BY <1>1
<1>3. /\ v \in Work(C)
      /\ v.passages = w.passages /\ v.finished = w.finished /\ v.held = w.held
      /\ v.posts = Append(w.posts, Report(kind, c))
  BY <1>2, PostAppended
<1> QED BY <1>1, <1>3

\* What finishing a passage leaves of a frame.
LEMMA FinishFacts ==
    ASSUME NEW C, NEW w \in Work(C), NEW p \in Passage(C)
    PROVE  /\ Finish(w, p) \in Work(C)
           /\ Finish(w, p).passages = w.passages
           /\ Finish(w, p).posts = w.posts /\ Finish(w, p).held = w.held
           /\ Finish(w, p).finished = IF Cardinality(w.finished \cup {p.command.id}) > MaxFinished
                                        THEN {} ELSE w.finished \cup {p.command.id}
<1>1. p.command.id \in IdsOf(C)
  BY DEF Passage, IdsOf
<1>2. w.finished \cup {p.command.id} \in SUBSET IdsOf(C)
  BY <1>1 DEF Work
<1> DEFINE ids == IF Cardinality(w.finished \cup {p.command.id}) > MaxFinished
                    THEN {} ELSE w.finished \cup {p.command.id}
<1>3. Finish(w, p) = [w EXCEPT !.finished = ids]
  BY DEF Finish
<1>4. ids \in SUBSET IdsOf(C)
  BY <1>2
<1> HIDE DEF ids
<1>5. Finish(w, p).finished = ids
  BY <1>3 DEF Work
<1> QED BY <1>3, <1>4, <1>5 DEF Work, ids

\* In short.
LEMMA FinishLeaves ==
    ASSUME NEW C, NEW w \in Work(C), NEW p \in Passage(C), NEW x, x = Finish(w, p)
    PROVE  x \in Work(C) /\ x.passages = w.passages /\ x.posts = w.posts /\ x.held = w.held
BY FinishFacts

\* No id is forgotten while there are not more commands than the mod
\* remembers.
LEMMA FinishAdds ==
    ASSUME NEW C, NEW w \in Work(C), NEW p \in Passage(C), NEW n \in Nat, n <= MaxFinished,
           IdsOf(C) \subseteq 1..n
    PROVE  Finish(w, p).finished = w.finished \cup {p.command.id}
<1>1. p.command.id \in 1..n /\ w.finished \subseteq 1..n
  BY DEF Passage, Work, IdsOf
<1>2. PICK ids \in SUBSET (1..n) : ids = w.finished \cup {p.command.id}
  BY <1>1
<1>3. IsFiniteSet(1..n) /\ Cardinality(1..n) = n
  BY FS_Interval
<1>4. Cardinality(ids) <= n /\ Cardinality(ids) \in Nat
  BY <1>2, <1>3, FS_Subset, FS_CardinalityType
<1>5. ~(Cardinality(ids) > MaxFinished)
  BY <1>4, RuntimeAssumptions
<1>6. Finish(w, p).finished = IF Cardinality(w.finished \cup {p.command.id}) > MaxFinished
                                THEN {} ELSE w.finished \cup {p.command.id}
  BY FinishFacts
<1> QED BY <1>2, <1>5, <1>6

\* What rejecting and finishing a passage leaves of a frame.
LEMMA RejectFacts ==
    ASSUME NEW C, NEW w \in Work(C), NEW p \in Passage(C)
    PROVE  /\ RejectAndFinish(w, p) \in Work(C)
           /\ RejectAndFinish(w, p).passages = w.passages
           /\ RejectAndFinish(w, p).posts = IF p.acknowledged THEN w.posts
                                            ELSE Append(w.posts, Report("reject", p.command))
           /\ RejectAndFinish(w, p).finished = Finish(w, p).finished
           /\ RejectAndFinish(w, p).held = w.held
<1>1. p.command \in C
  BY DEF Passage
<1>2. CASE p.acknowledged
  BY <1>2, FinishFacts DEF RejectAndFinish
<1>3. CASE ~p.acknowledged
  <2>0. PICK v : v = [w EXCEPT !.posts = Append(@, Report("reject", p.command))]
    OBVIOUS
  <2>1. /\ v \in Work(C) /\ v.passages = w.passages /\ v.finished = w.finished
        /\ v.posts = Append(w.posts, Report("reject", p.command)) /\ v.held = w.held
    BY <1>1, <2>0, PostAppended
  <2>2. RejectAndFinish(w, p) = Finish(v, p)
    BY <1>3, <2>0 DEF RejectAndFinish
  <2>3. /\ Finish(v, p) \in Work(C)
        /\ Finish(v, p).passages = v.passages /\ Finish(v, p).posts = v.posts
        /\ Finish(v, p).held = v.held
    BY <2>1, FinishFacts
  <2>4. Finish(v, p).finished = Finish(w, p).finished
    <3>1. Finish(v, p).finished = IF Cardinality(v.finished \cup {p.command.id}) > MaxFinished
                                    THEN {} ELSE v.finished \cup {p.command.id}
      BY <2>1, FinishFacts
    <3>2. Finish(w, p).finished = IF Cardinality(w.finished \cup {p.command.id}) > MaxFinished
                                    THEN {} ELSE w.finished \cup {p.command.id}
      BY FinishFacts
    <3> QED BY <3>1, <3>2, <2>1
  <2> QED BY <1>3, <2>1, <2>2, <2>3, <2>4
<1> QED BY <1>2, <1>3

\* A new passage fits the train of its command.
LEMMA NewPassageFacts ==
    ASSUME NEW C, NEW c \in C
    PROVE  /\ NewPassage(c) \in Passage(C) /\ NewPassage(c).command = c
           /\ NewPassage(c).acknowledged = FALSE
           /\ PassageOf(NewPassage(c), c.train)
BY DEF NewPassage, Passage, PassageOf

\* The three outcomes of a command of the queue: it is known, it begins a
\* passage, or it takes the place of another one that is finished.
LEMMA DrainOutcome ==
    ASSUME NEW C, NEW w \in Work(C), NEW c \in C, c.train \in GameTrain, NEW v,
           v = DrainCommand(w, c), NEW p, p = w.passages[c.train]
    PROVE  /\ v \in Work(C)
           /\ \/ v = w
              \/ /\ p = NoPassage /\ c.id \notin w.finished
                 /\ v.passages = [w.passages EXCEPT ![c.train] = NewPassage(c)]
                 /\ v.finished = w.finished /\ v.posts = w.posts
              \/ /\ p # NoPassage /\ c.id \notin w.finished /\ p.command.id # c.id
                 /\ v.passages = [w.passages EXCEPT ![c.train] = NewPassage(c)]
                 /\ v.finished = Finish(w, p).finished
                 /\ v.posts = IF p.acknowledged THEN w.posts
                              ELSE Append(w.posts, Report("reject", p.command))
<1>0. PICK t \in GameTrain : t = c.train
  OBVIOUS
<1>1. CASE c.id \in w.finished \/ (p # NoPassage /\ p.command.id = c.id)
  BY <1>1 DEF DrainCommand
<1>2. CASE ~(c.id \in w.finished \/ (p # NoPassage /\ p.command.id = c.id))
  <2>1. PICK u : u = IF p = NoPassage THEN w ELSE RejectAndFinish(w, p)
    OBVIOUS
  <2>2. v = [u EXCEPT !.passages[t] = NewPassage(c)]
    BY <1>0, <1>2, <2>1 DEF DrainCommand
  <2>3. u \in Work(C) /\ u.passages = w.passages
    <3>1. CASE p = NoPassage
      BY <3>1, <2>1
    <3>2. CASE p # NoPassage
      <4>1. p \in Passage(C)
        BY <3>2, PassageFacts
      <4> QED BY <3>2, <4>1, <2>1, RejectFacts
    <3> QED BY <3>1, <3>2
  <2>4. PICK q \in Passage(C) : q = NewPassage(c) /\ PassageOf(q, t)
    BY <1>0, NewPassageFacts
  <2>5. /\ v \in Work(C) /\ v.passages = [w.passages EXCEPT ![t] = NewPassage(c)]
        /\ v.finished = u.finished /\ v.posts = u.posts
    <3>1. v = WithPassage(u, t, q)
      BY <2>2, <2>4 DEF WithPassage
    <3>2. /\ v \in Work(C) /\ v.passages = [u.passages EXCEPT ![t] = q]
          /\ v.finished = u.finished /\ v.posts = u.posts
      BY <2>3, <2>4, <3>1, PassageReplaced
    <3> QED BY <2>3, <2>4, <3>2
  <2>6. CASE p = NoPassage
    BY <1>0, <1>2, <2>1, <2>5, <2>6
  <2>7. CASE p # NoPassage
    <3>1. p \in Passage(C)
      BY <2>7, PassageFacts
    <3>2. /\ u.finished = Finish(w, p).finished
          /\ u.posts = IF p.acknowledged THEN w.posts
                       ELSE Append(w.posts, Report("reject", p.command))
      BY <2>1, <2>7, <3>1, RejectFacts
    <3> QED BY <1>0, <1>2, <2>5, <2>7, <3>2
  <2> QED BY <2>6, <2>7
<1> QED BY <1>1, <1>2

\* What the round of one train does to a frame w: nothing but perhaps a hold,
Kept(w, v) ==
    v.passages = w.passages /\ v.finished = w.finished /\ v.posts = w.posts

\* its passage is given up,
Rejected(w, v, t) ==
    LET p == w.passages[t]
    IN  /\ p # NoPassage
        /\ v.passages = [w.passages EXCEPT ![t] = NoPassage]
        /\ v.finished = Finish(w, p).finished
        /\ v.posts = IF p.acknowledged THEN w.posts
                     ELSE Append(w.posts, Report("reject", p.command))

\* its entry is or was reported,
Entered(C, w, v, t) ==
    LET p == w.passages[t]
    IN  /\ p # NoPassage
        /\ \E q \in Passage(C) : /\ q.command = p.command /\ q.acknowledged
                                 /\ q.wasInside
                                 /\ v.passages = [w.passages EXCEPT ![t] = q]
        /\ v.finished = w.finished
        /\ v.posts = IF p.acknowledged THEN w.posts
                     ELSE Append(w.posts, Report("accept", p.command))

\* or its passage is over.
Left(w, v, t) ==
    LET p == w.passages[t]
    IN  /\ p # NoPassage /\ p.acknowledged
        /\ v.passages = [w.passages EXCEPT ![t] = NoPassage]
        /\ v.finished = Finish(w, p).finished
        /\ v.posts = Append(w.posts, Report("cleared", p.command))

RoundOutcome(C, w, v, t) ==
    v \in Work(C) /\ (Kept(w, v) \/ Rejected(w, v, t) \/ Entered(C, w, v, t) \/ Left(w, v, t))

\* What of it depends on the view of the train: only an entry that is seen
\* is reported, and only an exit that is seen ends a passage.
UpdateOutcomes(C, w, v, t, view) ==
    LET p == w.passages[t]
    IN  /\ v.held = w.held
        /\ \/ Kept(w, v)
           \/ Entered(C, w, v, t) /\ (p.acknowledged \/ view.at = p.command.resource)
           \/ Left(w, v, t) /\ view.at # p.command.resource

\* An outdated passage is given up, no other one is, and a train near an
\* entry is held unless it has a passage that is not outdated.
TickOutcomes(C, w, v, t, view) ==
    LET p == w.passages[t]
    IN  /\ v \in Work(C) /\ w.held \subseteq v.held
        /\ \/ p = NoPassage /\ Kept(w, v)
           \/ p # NoPassage /\ Outdated(p, view) /\ Rejected(w, v, t)
           \/ /\ p # NoPassage /\ ~Outdated(p, view)
              /\ \/ Kept(w, v)
                 \/ Entered(C, w, v, t) /\ (p.acknowledged \/ view.at = p.command.resource)
                 \/ Left(w, v, t) /\ view.at # p.command.resource
        /\ (topology # 0 /\ view.near # NoResource /\ t \notin v.held) =>
              p # NoPassage /\ ~Outdated(p, view)

\* The outcomes of a round of UpdatePassage: nothing, the entry or the exit
\* is noted, or the passage is over.
LEMMA UpdateOutcome ==
    ASSUME NEW C, NEW w \in Work(C), NEW t \in GameTrain, NEW view, NEW elapsed,
           NEW v, v = UpdatePassage(w, t, view, elapsed),
           NEW p, p = w.passages[t], p # NoPassage
    PROVE  v \in Work(C) /\ UpdateOutcomes(C, w, v, t, view)
<1>a. p \in Passage(C)
  BY PassageFacts
<1>b. p.command \in C
  BY <1>a DEF Passage
<1>c. PassageOf(p, t)
  BY PassageFacts
<1>1. CASE view.at = p.command.resource
  <2>1. PICK q : q = [p EXCEPT !.acknowledged = TRUE, !.wasInside = TRUE, !.exitSeen = FALSE]
    OBVIOUS
  <2>2. q \in Passage(C) /\ q.command = p.command /\ q.acknowledged /\ q.wasInside
    BY <1>a, <2>1 DEF Passage
  <2>a. PassageOf(q, t)
    BY <1>a, <1>c, <2>1 DEF Passage, PassageOf
  <2>3. PICK x : x = IF p.acknowledged THEN w
                     ELSE [w EXCEPT !.posts = Append(@, Report("accept", p.command))]
    OBVIOUS
  <2>4. /\ x \in Work(C) /\ x.passages = w.passages /\ x.finished = w.finished
        /\ x.held = w.held
        /\ x.posts = IF p.acknowledged THEN w.posts
                     ELSE Append(w.posts, Report("accept", p.command))
    <3>1. CASE p.acknowledged
      BY <2>3, <3>1
    <3>2. CASE ~p.acknowledged
      BY <1>b, <2>3, <3>2, PostAppended
    <3> QED BY <3>1, <3>2
  <2>5. v = WithPassage(x, t, q)
    <3>1. v = [w EXCEPT !.passages[t] = q,
                        !.posts = IF p.acknowledged THEN @
                                  ELSE Append(@, Report("accept", p.command))]
      BY <1>1, <2>1 DEF UpdatePassage
    <3>2. w \in [passages : PassagesOf(C), finished : SUBSET IdsOf(C), posts : Seq(PostsOf(C)),
                 held : SUBSET GameTrain]
      BY DEF Work
    <3> QED BY <3>1, <3>2, <2>3 DEF WithPassage
  <2>6. /\ v \in Work(C) /\ v.passages = [w.passages EXCEPT ![t] = q]
        /\ v.finished = w.finished /\ v.posts = x.posts /\ v.held = w.held
    <3>1. q \in Passage(C) \cup {NoPassage} /\ x \in Work(C)
      BY <2>2, <2>4
    <3>2. /\ v \in Work(C) /\ v.passages = [x.passages EXCEPT ![t] = q]
          /\ v.finished = x.finished /\ v.posts = x.posts /\ v.held = x.held
      BY <2>a, <2>5, <3>1, PassageReplaced
    <3> QED BY <2>4, <3>2
  <2> QED BY <1>1, <2>2, <2>4, <2>6 DEF UpdateOutcomes, Entered
<1>2. CASE view.at # p.command.resource /\ (~p.acknowledged \/ ~p.wasInside)
  BY <1>2 DEF UpdatePassage, UpdateOutcomes, Kept
<1>3. CASE view.at # p.command.resource /\ p.acknowledged /\ p.wasInside /\ ~p.exitSeen
  <2>1. PICK q : q = [p EXCEPT !.exitSeen = TRUE]
    OBVIOUS
  <2>2. q \in Passage(C) /\ q.command = p.command /\ q.acknowledged /\ q.wasInside
    BY <1>a, <1>3, <2>1 DEF Passage
  <2>a. PassageOf(q, t)
    BY <1>a, <1>c, <1>3, <2>1 DEF Passage, PassageOf
  <2>3. v = WithPassage(w, t, q)
    BY <1>3, <2>1 DEF UpdatePassage, WithPassage
  <2>4. /\ v \in Work(C) /\ v.passages = [w.passages EXCEPT ![t] = q]
        /\ v.finished = w.finished /\ v.posts = w.posts /\ v.held = w.held
    <3>1. q \in Passage(C) \cup {NoPassage}
      BY <2>2
    <3> QED BY <2>a, <2>3, <3>1, PassageReplaced
  <2> QED BY <1>3, <2>2, <2>4 DEF UpdateOutcomes, Entered
<1>4. CASE /\ view.at # p.command.resource /\ p.acknowledged /\ p.wasInside /\ p.exitSeen
           /\ ~elapsed
  BY <1>4 DEF UpdatePassage, UpdateOutcomes, Kept
<1>5. CASE /\ view.at # p.command.resource /\ p.acknowledged /\ p.wasInside /\ p.exitSeen
           /\ elapsed
  <2>1. PICK x : x = Finish(w, p)
    OBVIOUS
  <2>2. x \in Work(C) /\ x.passages = w.passages /\ x.posts = w.posts /\ x.held = w.held
    BY <1>a, <2>1, FinishLeaves
  <2>3. PICK y : y = [x EXCEPT !.posts = Append(@, Report("cleared", p.command))]
    OBVIOUS
  <2>4. /\ y \in Work(C) /\ y.passages = w.passages /\ y.finished = x.finished
        /\ y.held = w.held
        /\ y.posts = Append(w.posts, Report("cleared", p.command))
    BY <1>b, <2>2, <2>3, ClearedAppended
  <2>5. v = WithPassage(y, t, NoPassage)
    <3>1. v = [x EXCEPT !.passages[t] = NoPassage,
                        !.posts = Append(@, Report("cleared", p.command))]
      BY <1>5, <2>1 DEF UpdatePassage
    <3>2. x \in [passages : PassagesOf(C), finished : SUBSET IdsOf(C), posts : Seq(PostsOf(C)),
                 held : SUBSET GameTrain]
      BY <2>2 DEF Work
    <3> QED BY <3>1, <3>2, <2>3 DEF WithPassage
  <2>6. PICK q \in Passage(C) \cup {NoPassage} : q = NoPassage
    OBVIOUS
  <2>7. /\ v \in Work(C) /\ v.passages = [w.passages EXCEPT ![t] = NoPassage]
        /\ v.finished = y.finished /\ v.posts = y.posts /\ v.held = w.held
    <3>1. q # NoPassage => PassageOf(q, t)
      BY <2>6
    <3>2. v = WithPassage(y, t, q) /\ y \in Work(C)
      BY <2>4, <2>5, <2>6
    <3>3. /\ v \in Work(C) /\ v.passages = [y.passages EXCEPT ![t] = q]
          /\ v.finished = y.finished /\ v.posts = y.posts /\ v.held = y.held
      BY <3>1, <3>2, PassageReplaced
    <3> QED BY <2>4, <2>6, <3>3
  <2> QED BY <1>5, <2>1, <2>4, <2>7 DEF UpdateOutcomes, Left
<1> QED BY <1>1, <1>2, <1>3, <1>4, <1>5

\* A passage is given up.
LEMMA GiveUpOutcome ==
    ASSUME NEW C, NEW w \in Work(C), NEW t \in GameTrain, w.passages[t] # NoPassage,
           NEW v, v = WithPassage(RejectAndFinish(w, w.passages[t]), t, NoPassage)
    PROVE  v \in Work(C) /\ Rejected(w, v, t) /\ v.held = w.held
<1>1. PICK p \in Passage(C) : p = w.passages[t]
  BY PassageFacts
<1>2. PICK u : u = RejectAndFinish(w, p)
  OBVIOUS
<1>3. /\ u \in Work(C) /\ u.passages = w.passages
      /\ u.posts = IF p.acknowledged THEN w.posts
                   ELSE Append(w.posts, Report("reject", p.command))
      /\ u.finished = Finish(w, p).finished /\ u.held = w.held
  BY <1>2, RejectFacts
<1>4. PICK q \in Passage(C) \cup {NoPassage} : q = NoPassage
  OBVIOUS
<1>5. (q # NoPassage => PassageOf(q, t)) /\ v = WithPassage(u, t, q) /\ u \in Work(C)
  BY <1>1, <1>2, <1>3, <1>4
<1>6. /\ v \in Work(C) /\ v.passages = [u.passages EXCEPT ![t] = q]
      /\ v.finished = u.finished /\ v.posts = u.posts /\ v.held = u.held
  BY <1>5, PassageReplaced
<1> QED BY <1>1, <1>3, <1>4, <1>6 DEF Rejected

\* The round of one train in the loop over the snapshot.
LEMMA TickOutcome ==
    ASSUME NEW C, NEW w \in Work(C), NEW t \in GameTrain, NEW view, NEW elapsed,
           NEW v, v = TickTrain(w, t, view, elapsed)
    PROVE  RoundOutcome(C, w, v, t) /\ TickOutcomes(C, w, v, t, view)
<1>1. PICK p : p = w.passages[t]
  OBVIOUS
<1>2. PICK u : u = IF p # NoPassage /\ Outdated(p, view)
                     THEN WithPassage(RejectAndFinish(w, p), t, NoPassage) ELSE w
  OBVIOUS
<1>3. PICK q : q = u.passages[t]
  OBVIOUS
<1>4. PICK x : x = IF q = NoPassage THEN u ELSE UpdatePassage(u, t, view, elapsed)
  OBVIOUS
<1>a. PICK gated : gated = (topology # 0 /\ view.near # NoResource)
  OBVIOUS
<1>b. PICK H : H = IF gated /\ (q = NoPassage \/ q.command.resource # view.near)
                     THEN x.held \cup {t} ELSE x.held
  OBVIOUS
<1>5. v = [x EXCEPT !.held = H]
  BY <1>1, <1>2, <1>3, <1>4, <1>a, <1>b DEF TickTrain, WithPassage
<1>6. /\ x \in Work(C) /\ x.held = w.held
      /\ \/ p = NoPassage /\ Kept(w, x)
         \/ p # NoPassage /\ Outdated(p, view) /\ Rejected(w, x, t)
         \/ /\ p # NoPassage /\ ~Outdated(p, view)
            /\ \/ Kept(w, x)
               \/ Entered(C, w, x, t) /\ (p.acknowledged \/ view.at = p.command.resource)
               \/ Left(w, x, t) /\ view.at # p.command.resource
      /\ q # NoPassage => p # NoPassage /\ ~Outdated(p, view)
  <2>1. CASE p # NoPassage /\ Outdated(p, view)
    <3>1. u \in Work(C) /\ Rejected(w, u, t) /\ u.held = w.held
      BY <1>1, <1>2, <2>1, GiveUpOutcome
    <3>2. u.passages = [w.passages EXCEPT ![t] = NoPassage]
      BY <3>1 DEF Rejected
    <3>3. w.passages \in [GameTrain -> Passage(C) \cup {NoPassage}]
      BY DEF Work, PassagesOf
    <3>4. q = NoPassage
      BY <1>3, <3>2, <3>3
    <3> QED BY <1>4, <2>1, <3>1, <3>4
  <2>2. CASE ~(p # NoPassage /\ Outdated(p, view)) /\ p = NoPassage
    <3>1. u = w /\ q = NoPassage /\ x = w
      BY <1>1, <1>2, <1>3, <1>4, <2>2
    <3> QED BY <2>2, <3>1 DEF Kept
  <2>3. CASE ~(p # NoPassage /\ Outdated(p, view)) /\ p # NoPassage
    <3>1. u = w /\ q # NoPassage /\ x = UpdatePassage(w, t, view, elapsed)
      BY <1>1, <1>2, <1>3, <1>4, <2>3
    <3>2. x \in Work(C) /\ UpdateOutcomes(C, w, x, t, view)
      BY <1>1, <2>3, <3>1, UpdateOutcome
    <3> QED BY <1>1, <2>3, <3>2 DEF UpdateOutcomes
  <2> QED BY <2>1, <2>2, <2>3
<1>7. /\ v \in Work(C) /\ v.passages = x.passages /\ v.finished = x.finished
      /\ v.posts = x.posts /\ v.held = H
  <2>1. H \in SUBSET GameTrain
    BY <1>6, <1>b DEF Work
  <2> QED BY <1>5, <1>6, <2>1 DEF Work
<1>8. RoundOutcome(C, w, v, t)
  BY <1>6, <1>7 DEF RoundOutcome, Kept, Rejected, Entered, Left
<1>9. w.held \subseteq v.held /\ (gated /\ t \notin v.held => p # NoPassage /\ ~Outdated(p, view))
  BY <1>6, <1>7, <1>b
<1>10. \/ p = NoPassage /\ Kept(w, v)
       \/ p # NoPassage /\ Outdated(p, view) /\ Rejected(w, v, t)
       \/ /\ p # NoPassage /\ ~Outdated(p, view)
          /\ \/ Kept(w, v)
             \/ Entered(C, w, v, t) /\ (p.acknowledged \/ view.at = p.command.resource)
             \/ Left(w, v, t) /\ view.at # p.command.resource
  <2>1. /\ Kept(w, x) => Kept(w, v)
        /\ Rejected(w, x, t) => Rejected(w, v, t)
        /\ Entered(C, w, x, t) => Entered(C, w, v, t)
        /\ Left(w, x, t) => Left(w, v, t)
    BY <1>7 DEF Kept, Rejected, Entered, Left
  <2> QED BY <1>6, <2>1
<1> QED BY <1>1, <1>7, <1>8, <1>9, <1>10, <1>a DEF TickOutcomes

\* A train that is missing in the snapshot.
LEMMA MissingOutcome ==
    ASSUME NEW C, NEW w \in Work(C), NEW t \in GameTrain, NEW v, v = RemoveMissing(w, t)
    PROVE  /\ RoundOutcome(C, w, v, t) /\ v.held = w.held
           /\ Kept(w, v) \/ Rejected(w, v, t) \/ Left(w, v, t)
<1>1. CASE w.passages[t] = NoPassage
  BY <1>1 DEF RemoveMissing, RoundOutcome, Kept
<1>2. CASE w.passages[t] # NoPassage
  <2>1. PICK p \in Passage(C) : p = w.passages[t] /\ p.command \in C
    BY <1>2, PassageFacts
  <2>2. CASE ~p.acknowledged
    <3>1. v = WithPassage(RejectAndFinish(w, w.passages[t]), t, NoPassage)
      BY <1>2, <2>1, <2>2 DEF RemoveMissing, WithPassage
    <3>2. v \in Work(C) /\ Rejected(w, v, t) /\ v.held = w.held
      BY <1>2, <3>1, GiveUpOutcome
    <3> QED BY <3>2 DEF RoundOutcome
  <2>3. CASE p.acknowledged
    <3>1. PICK x : x = Finish(w, p)
      OBVIOUS
    <3>2. x \in Work(C) /\ x.passages = w.passages /\ x.posts = w.posts /\ x.held = w.held
      BY <3>1, FinishLeaves
    <3>3. PICK y : y = [x EXCEPT !.posts = Append(@, Report("cleared", p.command))]
      OBVIOUS
    <3>4. /\ y \in Work(C) /\ y.passages = w.passages /\ y.finished = x.finished
          /\ y.posts = Append(w.posts, Report("cleared", p.command)) /\ y.held = w.held
      BY <2>1, <3>2, <3>3, ClearedAppended
    <3>5. v = WithPassage(y, t, NoPassage)
      BY <1>2, <2>1, <2>3, <3>1, <3>3 DEF RemoveMissing, WithPassage
    <3>6. PICK q \in Passage(C) \cup {NoPassage} : q = NoPassage
      OBVIOUS
    <3>7. (q # NoPassage => PassageOf(q, t)) /\ v = WithPassage(y, t, q) /\ y \in Work(C)
      BY <3>4, <3>5, <3>6
    <3>8. /\ v \in Work(C) /\ v.passages = [y.passages EXCEPT ![t] = q]
          /\ v.finished = y.finished /\ v.posts = y.posts /\ v.held = y.held
      BY <3>7, PassageReplaced
    <3>9. Left(w, v, t)
      BY <1>2, <2>1, <2>3, <3>1, <3>4, <3>6, <3>8 DEF Left
    <3> QED BY <3>4, <3>8, <3>9 DEF RoundOutcome
  <2> QED BY <2>2, <2>3
<1> QED BY <1>1, <1>2

\* A frame queues reports on the commands it has, and keeps the types.
LEMMA FrameTyped ==
    ASSUME NEW C, \A c \in C : c.train \in GameTrain, NEW gone, NEW elapsed,
           inbox \in Seq(C), passages \in PassagesOf(C), finished \subseteq IdsOf(C)
    PROVE  TickCore(gone, elapsed) \in Work(C)
<1>1. KeptByDrain(Work(C))
  <2>1. FrameStart \in Work(C)
    BY DEF FrameStart, Work
  <2>2. Len(inbox) \in Nat /\ \A k \in 1..Len(inbox) : inbox[k] \in C
    OBVIOUS
  <2>3. ASSUME NEW w \in Work(C), NEW c \in C PROVE DrainCommand(w, c) \in Work(C)
    <3>1. c.train \in GameTrain
      OBVIOUS
    <3> QED BY <3>1, DrainOutcome
  <2> QED BY <2>1, <2>2, <2>3 DEF KeptByDrain
<1>2. KeptByTrains(Work(C), elapsed)
  BY TickOutcome DEF KeptByTrains, RoundOutcome
<1>3. KeptByMissing(Work(C))
  BY MissingOutcome DEF KeptByMissing, RoundOutcome
<1> QED BY <1>1, <1>2, <1>3, FrameIn

-----------------------------------------------------------------------------
(* What the reports add up to.                                             *)

Standing == {"none", "accepted", "rejected", "cleared", "broken"}
Standings == [Ids -> Standing]
ObserveOne(r, post) == [r EXCEPT ![post.id] = Observed(@, post.kind)]

\* The commands and their ids determine each other.
LEMMA CommandIds ==
    /\ \A c \in Commands : /\ c.id \in Ids /\ c = CommandOf[c.id]
                           /\ c.train \in GameTrain
    /\ \A i \in Ids : CommandOf[i] \in Commands /\ CommandOf[i].id = i
    /\ IdsOf(Commands) = Ids
BY RuntimeAssumptions DEF Commands, IdsOf

\* A report is about a command.
LEMMA PostFacts ==
    ASSUME NEW post \in PostsOf(Commands)
    PROVE  post.id \in Ids
<1>1. PICK kind \in {"accept", "reject", "cleared"}, c \in Commands : post = Report(kind, c)
  BY DEF PostsOf
<1>2. post.id = c.id
  BY <1>1 DEF Report
<1> QED BY <1>2, CommandIds

\* Observing a report moves one command to another standing.
LEMMA ObserveTyped ==
    ASSUME NEW r \in Standings, NEW post \in PostsOf(Commands)
    PROVE  ObserveOne(r, post) \in Standings
<1>1. \A s, kind : Observed(s, kind) \in Standing
  BY DEF Observed, Standing
<1> QED BY <1>1, PostFacts DEF ObserveOne, Standings

\* f observes the n reports p one after the other.
ArePosts(p, n) == \A k \in 1..n : p[k] \in PostsOf(Commands)
Observes(f, p, n) == \A k \in 1..n : f[k] = ObserveOne(f[k - 1], p[k])

\* Reports can be observed one after the other ...
LEMMA ObservationsExist ==
    ASSUME NEW base \in Standings, NEW n \in Nat, NEW p, ArePosts(p, n)
    PROVE  \E f \in [0..n -> Standings] : f[0] = base /\ Observes(f, p, n)
<1>1. PICK step \in [1..n -> [Standings -> Standings]] :
         \A k \in 1..n : \A r \in Standings : step[k][r] = ObserveOne(r, p[k])
  <2> DEFINE step == [k \in 1..n |-> [r \in Standings |-> ObserveOne(r, p[k])]]
  <2>1. step \in [1..n -> [Standings -> Standings]]
    BY ObserveTyped DEF ArePosts
  <2> QED BY <2>1
<1>2. PICK g \in [0..n -> Standings] :
         g[0] = base /\ \A k \in 1..n : g[k] = step[k][g[k - 1]]
  BY RecursionExists
<1>3. ASSUME NEW k \in 1..n PROVE g[k] = ObserveOne(g[k - 1], p[k])
  BY <1>1, <1>2
<1> QED BY <1>2, <1>3 DEF Observes

\* ... with one result.
LEMMA ObservationsAgree ==
    ASSUME NEW n \in Nat, NEW p, NEW f, NEW g, f[0] = g[0],
           Observes(f, p, n), Observes(g, p, n)
    PROVE  f[n] = g[n]
<1>1. PICK differs : differs = [k \in 0..n |-> IF f[k] = g[k] THEN 0 ELSE 1]
  OBVIOUS
<1>2. differs[0] \in {0}
  BY <1>1
<1>3. ASSUME NEW k \in 1..n, differs[k - 1] \in {0} PROVE differs[k] \in {0}
  <2>1. k - 1 \in 0..n /\ f[k - 1] = g[k - 1]
    BY <1>1, <1>3
  <2>2. f[k] = g[k]
    BY <2>1 DEF Observes
  <2> QED BY <1>1, <2>2
<1>4. PICK same : same = {0}
  OBVIOUS
<1>5. differs[0] \in same /\ \A k \in 1..n : differs[k - 1] \in same => differs[k] \in same
  BY <1>2, <1>3, <1>4
<1>6. \A k \in 0..n : differs[k] \in same
  BY <1>5, InductionUpTo
<1> QED BY <1>1, <1>4, <1>6

\* ReportedAfter observes the reports one after the other.
LEMMA ReportedRun ==
    ASSUME reported \in Standings, NEW posts \in Seq(PostsOf(Commands))
    PROVE  \E f : /\ ReportedAfter(posts) = f[Len(posts)]
                  /\ f[0] = reported
                  /\ \A k \in 1..Len(posts) : f[k] = ObserveOne(f[k - 1], posts[k])
                  /\ \A k \in 0..Len(posts) : f[k] \in Standings
<1>1. PICK n \in Nat : n = Len(posts)
  OBVIOUS
<1>2. \A k \in 1..n : posts[k] \in PostsOf(Commands)
  BY <1>1
<1> DEFINE IsRun(f) == f = [k \in 0..n |-> IF k = 0 THEN reported
                                           ELSE ObserveOne(f[k - 1], posts[k])]
<1>3. ReportedAfter(posts) = (CHOOSE f : IsRun(f))[n]
  BY <1>1 DEF ReportedAfter, ObserveOne
<1>4. ArePosts(posts, n)
  BY <1>2 DEF ArePosts
<1>5. PICK g \in [0..n -> Standings] : g[0] = reported /\ Observes(g, posts, n)
  BY <1>4, ObservationsExist
<1>6. IsRun(g)
  <2>1. \A k \in 0..n : g[k] = IF k = 0 THEN reported ELSE ObserveOne(g[k - 1], posts[k])
    BY <1>5 DEF Observes
  <2> QED BY <2>1
<1>7. PICK h : IsRun(h) /\ ReportedAfter(posts) = h[n]
  <2> HIDE DEF IsRun
  <2> QED BY <1>3, <1>6
<1>8. h[0] = reported /\ \A k \in 1..n : h[k] = ObserveOne(h[k - 1], posts[k])
  BY <1>7
<1> HIDE DEF IsRun
<1>9. h[0] \in Standings /\ \A k \in 1..n : h[k - 1] \in Standings => h[k] \in Standings
  BY <1>2, <1>8, ObserveTyped
<1>10. \A k \in 0..n : h[k] \in Standings
  BY <1>9, InductionUpTo
<1> QED BY <1>1, <1>7, <1>8, <1>10

\* Nothing reported changes nothing.
LEMMA ReportedAfterNone ==
    ASSUME reported \in Standings
    PROVE  ReportedAfter(<<>>) = reported
<1>1. <<>> \in Seq(PostsOf(Commands)) /\ Len(<<>>) = 0
  OBVIOUS
<1>2. PICK f : ReportedAfter(<<>>) = f[Len(<<>>)] /\ f[0] = reported
  BY <1>1, ReportedRun
<1> QED BY <1>1, <1>2

\* One more report is observed after the others.
LEMMA ReportedAfterAppend ==
    ASSUME reported \in Standings, NEW posts \in Seq(PostsOf(Commands)),
           NEW post \in PostsOf(Commands)
    PROVE  /\ ReportedAfter(posts) \in Standings
           /\ ReportedAfter(Append(posts, post)) = ObserveOne(ReportedAfter(posts), post)
<1>1. PICK n \in Nat : n = Len(posts)
  OBVIOUS
<1>2. PICK more : more = Append(posts, post) /\ more \in Seq(PostsOf(Commands))
  <2>1. Append(posts, post) \in Seq(PostsOf(Commands))
    OBVIOUS
  <2> QED BY <2>1
<1>3. /\ Len(more) = n + 1 /\ more[n + 1] = post
      /\ \A k \in 1..n : more[k] = posts[k]
  BY <1>1, <1>2
<1>4. PICK f : /\ ReportedAfter(posts) = f[n]
               /\ f[0] = reported
               /\ \A k \in 1..n : f[k] = ObserveOne(f[k - 1], posts[k])
               /\ \A k \in 0..n : f[k] \in Standings
  BY <1>1, ReportedRun
<1>5. PICK g : /\ ReportedAfter(more) = g[n + 1]
               /\ g[0] = reported
               /\ \A k \in 1..(n + 1) : g[k] = ObserveOne(g[k - 1], more[k])
  <2>1. \E g : /\ ReportedAfter(more) = g[Len(more)]
               /\ g[0] = reported
               /\ \A k \in 1..Len(more) : g[k] = ObserveOne(g[k - 1], more[k])
               /\ \A k \in 0..Len(more) : g[k] \in Standings
    BY <1>2, ReportedRun
  <2> QED BY <2>1, <1>3
<1>8. f[n] = g[n]
  <2>1. /\ f[0] = g[0]
        /\ Observes(f, posts, n) /\ Observes(g, posts, n)
    BY <1>3, <1>4, <1>5 DEF Observes
  <2> QED BY <2>1, ObservationsAgree
<1>9. n + 1 \in 1..(n + 1) /\ (n + 1) - 1 = n
  OBVIOUS
<1>10. g[n + 1] = ObserveOne(g[n], post)
  BY <1>3, <1>5, <1>9
<1>11. n \in 0..n
  OBVIOUS
<1> QED BY <1>2, <1>4, <1>5, <1>8, <1>10, <1>11

-----------------------------------------------------------------------------
(* The protocol of the reports.                                            *)

\* P are the passages, F the finished commands, r what was reported.  A
\* command that is over is finished, an entered one is under way or
\* finished, and what is under way is not finished and its entry was
\* reported exactly if it is marked so.
OverIsFinished(F, r) == \A i \in Ids : r[i] \in {"rejected", "cleared"} => i \in F
EnteredIsKnown(P, F, r) ==
    \A i \in Ids : r[i] = "accepted" =>
        i \in F \/ (P[CommandOf[i].train] # NoPassage
                    /\ P[CommandOf[i].train].command = CommandOf[i])
UnderWay(P, F, r) ==
    \A t \in GameTrain : P[t] # NoPassage =>
        /\ P[t].command.id \notin F
        /\ P[t].acknowledged => r[P[t].command.id] = "accepted"
        /\ ~P[t].acknowledged => r[P[t].command.id] = "none"
NoneBroken(r) == r \in Standings /\ \A i \in Ids : r[i] # "broken"

Protocol(P, F, r) ==
    NoneBroken(r) /\ OverIsFinished(F, r) /\ EnteredIsKnown(P, F, r) /\ UnderWay(P, F, r)

\* A passage comes to its end: r becomes q.
LEMMA EndKeepsProtocol ==
    ASSUME NEW P \in PassagesOf(Commands), NEW F, NEW r, Protocol(P, F, r),
           NEW t \in GameTrain, P[t] # NoPassage, NEW i, i = P[t].command.id,
           NEW q \in Standings, \A j \in Ids : j # i => q[j] = r[j],
           q[i] \in {"accepted", "rejected", "cleared"}
    PROVE  Protocol([P EXCEPT ![t] = NoPassage], F \cup {i}, q)
<1>0. /\ r \in Standings /\ (\A j \in Ids : r[j] # "broken") /\ OverIsFinished(F, r)
      /\ EnteredIsKnown(P, F, r) /\ UnderWay(P, F, r)
  BY DEF Protocol, NoneBroken
<1>1. P \in [GameTrain -> Passage(Commands) \cup {NoPassage}]
  BY DEF PassagesOf
<1>2. \A u \in GameTrain : P[u] # NoPassage =>
         P[u].command \in Commands /\ P[u].command.train = u
  BY DEF PassagesOf, Passage, PassageOf
<1>3. i \in Ids /\ P[t].command = CommandOf[i]
  BY <1>2, CommandIds
<1>4. PICK Q : Q = [P EXCEPT ![t] = NoPassage]
  OBVIOUS
<1>5. Q[t] = NoPassage /\ \A u \in GameTrain : u # t => Q[u] = P[u]
  BY <1>1, <1>4
<1>6. NoneBroken(q)
  BY <1>0, <1>3 DEF NoneBroken
<1>7. OverIsFinished(F \cup {i}, q)
  BY <1>0, <1>3 DEF OverIsFinished
<1>8. EnteredIsKnown(Q, F \cup {i}, q)
  <2>1. ASSUME NEW j \in Ids, q[j] = "accepted", j \notin F, j # i
        PROVE  Q[CommandOf[j].train] # NoPassage /\ Q[CommandOf[j].train].command = CommandOf[j]
    <3>1. P[CommandOf[j].train] # NoPassage /\ P[CommandOf[j].train].command = CommandOf[j]
      BY <1>0, <2>1 DEF EnteredIsKnown
    <3>2. CommandOf[j].train \in GameTrain
      BY CommandIds
    <3>3. CommandOf[j].train # t
      BY <1>3, <2>1, <3>1, CommandIds
    <3> QED BY <1>5, <3>1, <3>2, <3>3
  <2> QED BY <2>1 DEF EnteredIsKnown
<1>9. UnderWay(Q, F \cup {i}, q)
  <2>1. ASSUME NEW u \in GameTrain, Q[u] # NoPassage
        PROVE  /\ Q[u] = P[u] /\ P[u] # NoPassage
               /\ P[u].command.id # i /\ P[u].command.id \in Ids
    <3>1. u # t /\ Q[u] = P[u] /\ P[u] # NoPassage
      BY <1>5, <2>1
    <3>2. P[u].command.train # P[t].command.train
      BY <1>2, <3>1
    <3>3. P[u].command \in Commands
      BY <1>2, <3>1
    <3> QED BY <1>3, <3>1, <3>2, <3>3, CommandIds
  <2>2. ASSUME NEW u \in GameTrain, Q[u] # NoPassage
        PROVE  /\ Q[u].command.id \notin F \cup {i}
               /\ Q[u].acknowledged => q[Q[u].command.id] = "accepted"
               /\ ~Q[u].acknowledged => q[Q[u].command.id] = "none"
    BY <1>0, <2>1, <2>2 DEF UnderWay
  <2> QED BY <2>2 DEF UnderWay
<1> QED BY <1>4, <1>6, <1>7, <1>8, <1>9 DEF Protocol

\* A passage begins with a command that is neither finished nor under way.
LEMMA BeginKeepsProtocol ==
    ASSUME NEW P \in PassagesOf(Commands), NEW F, NEW r, Protocol(P, F, r),
           NEW c \in Commands, c.id \notin F, P[c.train] = NoPassage
    PROVE  Protocol([P EXCEPT ![c.train] = NewPassage(c)], F, r)
<1>0. /\ NoneBroken(r) /\ OverIsFinished(F, r)
      /\ EnteredIsKnown(P, F, r) /\ UnderWay(P, F, r)
  BY DEF Protocol
<1>1. P \in [GameTrain -> Passage(Commands) \cup {NoPassage}]
  BY DEF PassagesOf
<1>2. c.id \in Ids /\ c = CommandOf[c.id] /\ c.train \in GameTrain
  BY CommandIds
<1>3. r[c.id] = "none"
  <2>1. r[c.id] \in Standing /\ r[c.id] # "broken"
    BY <1>0, <1>2 DEF NoneBroken, Standings
  <2>2. r[c.id] \notin {"rejected", "cleared"}
    BY <1>0, <1>2 DEF OverIsFinished
  <2>3. r[c.id] # "accepted"
    BY <1>0, <1>2 DEF EnteredIsKnown
  <2> QED BY <2>1, <2>2, <2>3 DEF Standing
<1>4. PICK Q : Q = [P EXCEPT ![c.train] = NewPassage(c)]
  OBVIOUS
<1>5. Q[c.train] = NewPassage(c) /\ \A u \in GameTrain : u # c.train => Q[u] = P[u]
  BY <1>1, <1>2, <1>4
<1>6. NewPassage(c).command = c /\ NewPassage(c).acknowledged = FALSE
  BY NewPassageFacts
<1>7. EnteredIsKnown(Q, F, r)
  <2>1. ASSUME NEW j \in Ids, r[j] = "accepted", j \notin F
        PROVE  Q[CommandOf[j].train] # NoPassage /\ Q[CommandOf[j].train].command = CommandOf[j]
    <3>1. P[CommandOf[j].train] # NoPassage /\ P[CommandOf[j].train].command = CommandOf[j]
      BY <1>0, <2>1 DEF EnteredIsKnown
    <3>2. CommandOf[j].train \in GameTrain /\ CommandOf[j].train # c.train
      BY <3>1, CommandIds
    <3> QED BY <1>5, <3>1, <3>2
  <2> QED BY <2>1 DEF EnteredIsKnown
<1>8. UnderWay(Q, F, r)
  <2>1. ASSUME NEW u \in GameTrain, Q[u] # NoPassage
        PROVE  /\ Q[u].command.id \notin F
               /\ Q[u].acknowledged => r[Q[u].command.id] = "accepted"
               /\ ~Q[u].acknowledged => r[Q[u].command.id] = "none"
    <3>1. CASE u = c.train
      BY <1>3, <1>5, <1>6, <3>1
    <3>2. CASE u # c.train
      BY <1>0, <1>5, <2>1, <3>2 DEF UnderWay
    <3> QED BY <3>1, <3>2
  <2> QED BY <2>1 DEF UnderWay
<1> QED BY <1>0, <1>4, <1>7, <1>8 DEF Protocol

\* The entry is noted: r becomes q.
LEMMA EntryKeepsProtocol ==
    ASSUME NEW P \in PassagesOf(Commands), NEW F, NEW r, Protocol(P, F, r),
           NEW t \in GameTrain, P[t] # NoPassage, NEW i, i = P[t].command.id,
           NEW p \in Passage(Commands), p.command = P[t].command, p.acknowledged,
           NEW q \in Standings, \A j \in Ids : j # i => q[j] = r[j], q[i] = "accepted"
    PROVE  Protocol([P EXCEPT ![t] = p], F, q)
<1>0. /\ r \in Standings /\ (\A j \in Ids : r[j] # "broken") /\ OverIsFinished(F, r)
      /\ EnteredIsKnown(P, F, r) /\ UnderWay(P, F, r)
  BY DEF Protocol, NoneBroken
<1>1. P \in [GameTrain -> Passage(Commands) \cup {NoPassage}]
  BY DEF PassagesOf
<1>2. \A u \in GameTrain : P[u] # NoPassage =>
         P[u].command \in Commands /\ P[u].command.train = u
  BY DEF PassagesOf, Passage, PassageOf
<1>3. i \in Ids /\ P[t].command = CommandOf[i] /\ CommandOf[i].train = t
  BY <1>2, CommandIds
<1>4. PICK Q : Q = [P EXCEPT ![t] = p]
  OBVIOUS
<1>5. Q[t] = p /\ \A u \in GameTrain : u # t => Q[u] = P[u]
  BY <1>1, <1>4
<1>6. p # NoPassage
  BY RuntimeAssumptions
<1>7. NoneBroken(q)
  BY <1>0, <1>3 DEF NoneBroken
<1>8. OverIsFinished(F, q)
  BY <1>0, <1>3 DEF OverIsFinished
<1>9. EnteredIsKnown(Q, F, q)
  <2>1. ASSUME NEW j \in Ids, q[j] = "accepted", j \notin F
        PROVE  Q[CommandOf[j].train] # NoPassage /\ Q[CommandOf[j].train].command = CommandOf[j]
    <3>1. CASE j = i
      BY <1>3, <1>5, <1>6, <3>1
    <3>2. CASE j # i
      <4>1. P[CommandOf[j].train] # NoPassage /\ P[CommandOf[j].train].command = CommandOf[j]
        BY <1>0, <2>1, <3>2 DEF EnteredIsKnown
      <4>2. CommandOf[j].train \in GameTrain
        BY CommandIds
      <4>3. CommandOf[j].train # t
        BY <1>3, <3>2, <4>1, CommandIds
      <4> QED BY <1>5, <4>1, <4>2, <4>3
    <3> QED BY <3>1, <3>2
  <2> QED BY <2>1 DEF EnteredIsKnown
<1>10. UnderWay(Q, F, q)
  <2>1. ASSUME NEW u \in GameTrain, Q[u] # NoPassage
        PROVE  /\ Q[u].command.id \notin F
               /\ Q[u].acknowledged => q[Q[u].command.id] = "accepted"
               /\ ~Q[u].acknowledged => q[Q[u].command.id] = "none"
    <3>1. CASE u = t
      <4>1. P[t].command.id \notin F
        BY <1>0 DEF UnderWay
      <4> QED BY <1>5, <3>1, <4>1
    <3>2. CASE u # t
      <4>1. Q[u] = P[u] /\ P[u] # NoPassage
        BY <1>5, <2>1, <3>2
      <4>2. P[u].command \in Commands /\ P[u].command.train = u
        BY <1>2, <4>1
      <4>3. P[u].command.id \in Ids /\ P[u].command.id # i
        BY <1>3, <3>2, <4>2, CommandIds
      <4> QED BY <1>0, <4>1, <4>3 DEF UnderWay
    <3> QED BY <3>1, <3>2
  <2> QED BY <2>1 DEF UnderWay
<1> QED BY <1>4, <1>7, <1>8, <1>9, <1>10 DEF Protocol

\* So few commands that none is forgotten (MaxFinished is 4096 in the code).
FewCommands == IsFiniteSet(Ids) /\ Cardinality(Ids) <= MaxFinished

\* The states of a frame in which the protocol is kept.
GoodFrames ==
    {w \in Work(Commands) : Protocol(w.passages, w.finished, ReportedAfter(w.posts))}

\* A finished command is remembered.
LEMMA FinishRemembers ==
    ASSUME FewCommands, NEW w \in Work(Commands), NEW p \in Passage(Commands)
    PROVE  Finish(w, p).finished = w.finished \cup {p.command.id}
<1>1. p.command.id \in Ids /\ w.finished \subseteq Ids
  BY CommandIds DEF Passage, Work
<1>2. PICK ids \in SUBSET Ids : ids = w.finished \cup {p.command.id}
  BY <1>1
<1>3. Cardinality(ids) <= Cardinality(Ids) /\ Cardinality(ids) \in Nat /\ Cardinality(Ids) \in Nat
  BY <1>2, FS_Subset, FS_CardinalityType DEF FewCommands
<1>4. ~(Cardinality(ids) > MaxFinished)
  BY <1>3, RuntimeAssumptions DEF FewCommands
<1>5. Finish(w, p).finished = IF Cardinality(w.finished \cup {p.command.id}) > MaxFinished
                                THEN {} ELSE w.finished \cup {p.command.id}
  BY FinishFacts
<1> QED BY <1>2, <1>4, <1>5

\* What one report does to the standing of its command.
LEMMA ObserveReport ==
    ASSUME reported \in Standings, NEW posts \in Seq(PostsOf(Commands)),
           NEW kind \in {"accept", "reject", "cleared"}, NEW c \in Commands,
           NEW q, q = ReportedAfter(Append(posts, Report(kind, c)))
    PROVE  /\ q \in Standings
           /\ \A j \in Ids : j # c.id => q[j] = ReportedAfter(posts)[j]
           /\ q[c.id] = Observed(ReportedAfter(posts)[c.id], kind)
<1>1. PICK post \in PostsOf(Commands) : post = Report(kind, c)
  BY DEF PostsOf
<1>2. post.id = c.id /\ post.kind = kind /\ c.id \in Ids
  BY <1>1, CommandIds DEF Report
<1>3. PICK r : r = ReportedAfter(posts)
  OBVIOUS
<1>4. r \in Standings /\ q = ObserveOne(r, post)
  BY <1>1, <1>3, ReportedAfterAppend
<1>5. q \in Standings
  BY <1>4, ObserveTyped
<1>6. (\A j \in Ids : j # c.id => q[j] = r[j]) /\ q[c.id] = Observed(r[c.id], kind)
  BY <1>2, <1>4 DEF ObserveOne, Standings
<1> QED BY <1>3, <1>5, <1>6

\* What the server is told in one round follows the protocol.
LEMMA RoundKeepsProtocol ==
    ASSUME FewCommands, reported \in Standings, NEW w \in GoodFrames, NEW t \in GameTrain,
           NEW v, RoundOutcome(Commands, w, v, t)
    PROVE  v \in GoodFrames
<1>0. w \in Work(Commands) /\ v \in Work(Commands)
  BY DEF GoodFrames, RoundOutcome
<1>1. PICK P \in PassagesOf(Commands) : P = w.passages
  BY <1>0 DEF Work
<1>2. PICK r : r = ReportedAfter(w.posts)
  OBVIOUS
<1>3. Protocol(P, w.finished, r)
  BY <1>1, <1>2 DEF GoodFrames
<1>4. w.posts \in Seq(PostsOf(Commands)) /\ r \in Standings
  BY <1>0, <1>3 DEF Work, Protocol, NoneBroken
<1>5. PICK q : q = ReportedAfter(v.posts)
  OBVIOUS
<1>6. SUFFICES Protocol(v.passages, v.finished, q)
  BY <1>0, <1>5 DEF GoodFrames
<1>7. CASE Kept(w, v)
  BY <1>1, <1>2, <1>3, <1>5, <1>7 DEF Kept
<1>8. ASSUME P[t] # NoPassage
      PROVE  /\ P[t] \in Passage(Commands) /\ P[t].command \in Commands
             /\ P[t].command.id \in Ids
             /\ P[t].acknowledged => r[P[t].command.id] = "accepted"
             /\ ~P[t].acknowledged => r[P[t].command.id] = "none"
  <2>1. P[t] \in Passage(Commands) /\ P[t].command \in Commands
    BY <1>0, <1>1, <1>8, PassageFacts
  <2>2. /\ P[t].acknowledged => r[P[t].command.id] = "accepted"
        /\ ~P[t].acknowledged => r[P[t].command.id] = "none"
    BY <1>3, <1>8 DEF Protocol, UnderWay
  <2> QED BY <2>1, <2>2, CommandIds
<1>9. CASE Rejected(w, v, t)
  <2>1. /\ P[t] # NoPassage /\ v.passages = [P EXCEPT ![t] = NoPassage]
        /\ v.finished = Finish(w, P[t]).finished
        /\ v.posts = IF P[t].acknowledged THEN w.posts
                     ELSE Append(w.posts, Report("reject", P[t].command))
    BY <1>1, <1>9 DEF Rejected
  <2>2. PICK i : i = P[t].command.id
    OBVIOUS
  <2>3. v.finished = w.finished \cup {i}
    BY <1>0, <1>8, <2>1, <2>2, FinishRemembers
  <2>4. /\ q \in Standings /\ \A j \in Ids : j # i => q[j] = r[j]
        /\ q[i] \in {"accepted", "rejected", "cleared"}
    <3>1. CASE P[t].acknowledged
      BY <1>2, <1>4, <1>5, <1>8, <2>1, <2>2, <3>1
    <3>2. CASE ~P[t].acknowledged
      <4>1. /\ q \in Standings /\ \A j \in Ids : j # i => q[j] = r[j]
            /\ q[i] = Observed(r[i], "reject")
        BY <1>2, <1>4, <1>5, <1>8, <2>1, <2>2, <3>2, ObserveReport
      <4>2. r[i] = "none"
        BY <1>8, <2>1, <2>2, <3>2
      <4> QED BY <4>1, <4>2 DEF Observed
    <3> QED BY <3>1, <3>2
  <2> QED BY <1>3, <2>1, <2>2, <2>3, <2>4, EndKeepsProtocol
<1>10. CASE Left(w, v, t)
  <2>1. /\ P[t] # NoPassage /\ P[t].acknowledged
        /\ v.passages = [P EXCEPT ![t] = NoPassage]
        /\ v.finished = Finish(w, P[t]).finished
        /\ v.posts = Append(w.posts, Report("cleared", P[t].command))
    BY <1>1, <1>10 DEF Left
  <2>2. PICK i : i = P[t].command.id
    OBVIOUS
  <2>3. v.finished = w.finished \cup {i}
    BY <1>0, <1>8, <2>1, <2>2, FinishRemembers
  <2>4. /\ q \in Standings /\ \A j \in Ids : j # i => q[j] = r[j]
        /\ q[i] = Observed(r[i], "cleared")
    BY <1>2, <1>4, <1>5, <1>8, <2>1, <2>2, ObserveReport
  <2>5. q[i] \in {"accepted", "rejected", "cleared"}
    <3>1. r[i] = "accepted"
      BY <1>8, <2>1, <2>2
    <3> QED BY <2>4, <3>1 DEF Observed
  <2> QED BY <1>3, <2>1, <2>2, <2>3, <2>4, <2>5, EndKeepsProtocol
<1>11. CASE Entered(Commands, w, v, t)
  <2>1. /\ P[t] # NoPassage /\ v.finished = w.finished
        /\ v.posts = IF P[t].acknowledged THEN w.posts
                     ELSE Append(w.posts, Report("accept", P[t].command))
    BY <1>1, <1>11 DEF Entered
  <2>2. PICK p \in Passage(Commands) : /\ p.command = P[t].command /\ p.acknowledged
                                       /\ v.passages = [P EXCEPT ![t] = p]
    BY <1>1, <1>11 DEF Entered
  <2>3. PICK i : i = P[t].command.id
    OBVIOUS
  <2>4. q \in Standings /\ (\A j \in Ids : j # i => q[j] = r[j]) /\ q[i] = "accepted"
    <3>1. CASE P[t].acknowledged
      BY <1>2, <1>4, <1>5, <1>8, <2>1, <2>3, <3>1
    <3>2. CASE ~P[t].acknowledged
      <4>1. /\ q \in Standings /\ \A j \in Ids : j # i => q[j] = r[j]
            /\ q[i] = Observed(r[i], "accept")
        BY <1>2, <1>4, <1>5, <1>8, <2>1, <2>3, <3>2, ObserveReport
      <4>2. r[i] = "none"
        BY <1>8, <2>1, <2>3, <3>2
      <4> QED BY <4>1, <4>2 DEF Observed
    <3> QED BY <3>1, <3>2
  <2>5. p.acknowledged /\ p.command = P[t].command
    BY <2>2
  <2>6. Protocol([P EXCEPT ![t] = p], w.finished, q)
    BY <1>3, <2>1, <2>3, <2>4, <2>5, EntryKeepsProtocol
  <2> QED BY <2>1, <2>2, <2>6
<1> QED BY <1>7, <1>9, <1>10, <1>11 DEF RoundOutcome

\* A command of the queue keeps the protocol.
LEMMA DrainKeepsProtocol ==
    ASSUME FewCommands, reported \in Standings, NEW w \in GoodFrames, NEW c \in Commands
    PROVE  DrainCommand(w, c) \in GoodFrames
<1>0. w \in Work(Commands) /\ c.train \in GameTrain /\ c.id \in Ids
  BY CommandIds DEF GoodFrames
<1>1. PICK P \in PassagesOf(Commands) : P = w.passages
  BY <1>0 DEF Work
<1>2. PICK r : r = ReportedAfter(w.posts)
  OBVIOUS
<1>3. Protocol(P, w.finished, r)
  BY <1>1, <1>2 DEF GoodFrames
<1>4. w.posts \in Seq(PostsOf(Commands)) /\ r \in Standings
  BY <1>0, <1>3 DEF Work, Protocol, NoneBroken
<1>5. PICK v : v = DrainCommand(w, c)
  OBVIOUS
<1>6. PICK t \in GameTrain : t = c.train
  BY <1>0
<1>7. PICK p : p = P[t]
  OBVIOUS
<1>8. /\ v \in Work(Commands)
      /\ \/ v = w
         \/ /\ p = NoPassage /\ c.id \notin w.finished
            /\ v.passages = [w.passages EXCEPT ![c.train] = NewPassage(c)]
            /\ v.finished = w.finished /\ v.posts = w.posts
         \/ /\ p # NoPassage /\ c.id \notin w.finished /\ p.command.id # c.id
            /\ v.passages = [w.passages EXCEPT ![c.train] = NewPassage(c)]
            /\ v.finished = Finish(w, p).finished
            /\ v.posts = IF p.acknowledged THEN w.posts
                         ELSE Append(w.posts, Report("reject", p.command))
  <2>1. p = w.passages[c.train]
    BY <1>1, <1>6, <1>7
  <2> QED BY <1>0, <1>5, <2>1, DrainOutcome
<1>9. CASE v = w
  BY <1>5, <1>9
<1>10. CASE /\ p = NoPassage /\ c.id \notin w.finished
            /\ v.passages = [w.passages EXCEPT ![c.train] = NewPassage(c)]
            /\ v.finished = w.finished /\ v.posts = w.posts
  <2>1. Protocol([P EXCEPT ![c.train] = NewPassage(c)], w.finished, r)
    BY <1>3, <1>6, <1>7, <1>10, BeginKeepsProtocol
  <2> QED BY <1>1, <1>2, <1>5, <1>8, <1>10, <2>1 DEF GoodFrames
<1>11. CASE /\ p # NoPassage /\ c.id \notin w.finished /\ p.command.id # c.id
            /\ v.passages = [w.passages EXCEPT ![c.train] = NewPassage(c)]
            /\ v.finished = Finish(w, p).finished
            /\ v.posts = IF p.acknowledged THEN w.posts
                         ELSE Append(w.posts, Report("reject", p.command))
  <2>1. PICK u : u = WithPassage(RejectAndFinish(w, w.passages[t]), t, NoPassage)
    OBVIOUS
  <2>2. u \in Work(Commands) /\ Rejected(w, u, t)
    BY <1>0, <1>1, <1>7, <1>11, <2>1, GiveUpOutcome
  <2>3. RoundOutcome(Commands, w, u, t)
    BY <2>2 DEF RoundOutcome
  <2>4. u \in GoodFrames
    BY <2>3, RoundKeepsProtocol
  <2>5. /\ u.passages = [P EXCEPT ![t] = NoPassage] /\ u.finished = v.finished
        /\ u.posts = v.posts
    BY <1>1, <1>7, <1>11, <2>2 DEF Rejected
  <2>6. p \in Passage(Commands)
    BY <1>0, <1>1, <1>7, <1>11, PassageFacts
  <2>7. c.id \notin v.finished
    BY <1>0, <1>11, <2>6, FinishRemembers
  <2>8. PICK Q \in PassagesOf(Commands) : Q = u.passages
    BY <2>2 DEF Work
  <2>9. Protocol(Q, v.finished, ReportedAfter(v.posts))
    BY <2>4, <2>5, <2>8 DEF GoodFrames
  <2>10. P \in [GameTrain -> Passage(Commands) \cup {NoPassage}]
    BY DEF PassagesOf
  <2>11. /\ Q[c.train] = NoPassage
         /\ [Q EXCEPT ![c.train] = NewPassage(c)] = v.passages
    BY <1>1, <1>6, <1>11, <2>5, <2>8, <2>10
  <2>12. Protocol([Q EXCEPT ![c.train] = NewPassage(c)], v.finished, ReportedAfter(v.posts))
    BY <2>7, <2>9, <2>11, BeginKeepsProtocol
  <2> QED BY <1>5, <1>8, <2>11, <2>12 DEF GoodFrames
<1> QED BY <1>8, <1>9, <1>10, <1>11

\* A whole frame keeps the protocol.
LEMMA FrameKeepsProtocol ==
    ASSUME FewCommands, NEW gone, NEW elapsed, reported \in Standings, inbox \in Seq(Commands),
           passages \in PassagesOf(Commands), finished \subseteq Ids,
           Protocol(passages, finished, reported)
    PROVE  TickCore(gone, elapsed) \in GoodFrames
<1>1. KeptByDrain(GoodFrames)
  <2>1. FrameStart \in GoodFrames
    BY ReportedAfterNone, CommandIds DEF FrameStart, Work, GoodFrames
  <2>2. Len(inbox) \in Nat /\ \A k \in 1..Len(inbox) : inbox[k] \in Commands
    OBVIOUS
  <2> QED BY <2>1, <2>2, DrainKeepsProtocol DEF KeptByDrain
<1>2. KeptByTrains(GoodFrames, elapsed)
  <2>1. ASSUME NEW w \in GoodFrames, NEW t \in GameTrain
        PROVE  TickTrain(w, t, snapshot[t], elapsed) \in GoodFrames
    <3>1. w \in Work(Commands)
      BY DEF GoodFrames
    <3>2. RoundOutcome(Commands, w, TickTrain(w, t, snapshot[t], elapsed), t)
      BY <3>1, TickOutcome
    <3> QED BY <3>2, RoundKeepsProtocol
  <2> QED BY <2>1 DEF KeptByTrains
<1>3. KeptByMissing(GoodFrames)
  <2>1. ASSUME NEW w \in GoodFrames, NEW t \in GameTrain
        PROVE  RemoveMissing(w, t) \in GoodFrames
    <3>1. w \in Work(Commands)
      BY DEF GoodFrames
    <3>2. RoundOutcome(Commands, w, RemoveMissing(w, t), t)
      BY <3>1, MissingOutcome
    <3> QED BY <3>2, RoundKeepsProtocol
  <2> QED BY <2>1 DEF KeptByMissing
<1> QED BY <1>1, <1>2, <1>3, FrameIn

-----------------------------------------------------------------------------
(* The theorems.                                                           *)

\* The inductive invariant: the types and the protocol.
RuntimeInv ==
    /\ inbox \in Seq(Commands)
    /\ passages \in PassagesOf(Commands)
    /\ finished \subseteq Ids
    /\ topology \in 0..MaxRevision
    /\ held \subseteq GameTrain
    /\ reported \in Standings
    /\ Protocol(passages, finished, reported)

\* The state after loading a level.
LEMMA FreshInv ==
    ASSUME NEW P, P = [t \in GameTrain |-> NoPassage], NEW r, r = [i \in Ids |-> "none"]
    PROVE  P \in PassagesOf(Commands) /\ r \in Standings /\ Protocol(P, {}, r)
<1>1. P \in PassagesOf(Commands)
  BY DEF PassagesOf
<1>2. r \in Standings
  BY DEF Standings, Standing
<1>3. \A t \in GameTrain : P[t] = NoPassage
  OBVIOUS
<1>4. \A i \in Ids : r[i] = "none"
  OBVIOUS
<1>5. NoneBroken(r) /\ OverIsFinished({}, r) /\ EnteredIsKnown(P, {}, r) /\ UnderWay(P, {}, r)
  BY <1>2, <1>3, <1>4 DEF NoneBroken, OverIsFinished, EnteredIsKnown, UnderWay
<1> QED BY <1>1, <1>2, <1>5 DEF Protocol

\* Init and every step keep the invariant.
LEMMA RuntimeInitInv == RuntimeAndReportsInit => RuntimeInv
<1> SUFFICES ASSUME RuntimeAndReportsInit PROVE RuntimeInv
  OBVIOUS
<1>1. /\ inbox = <<>> /\ finished = {} /\ topology = 0 /\ held = {}
      /\ passages = [t \in GameTrain |-> NoPassage] /\ reported = [i \in Ids |-> "none"]
  BY DEF RuntimeAndReportsInit, RuntimeInit
<1>2. /\ passages \in PassagesOf(Commands) /\ reported \in Standings
      /\ Protocol(passages, {}, reported)
  BY <1>1, FreshInv
<1>3. topology \in 0..MaxRevision
  BY <1>1, RuntimeAssumptions
<1> QED BY <1>1, <1>2, <1>3 DEF RuntimeInv

\* One step of the runtime.
LEMMA RuntimeStepInv ==
    ASSUME FewCommands, RuntimeInv, [RuntimeNext]_<<runtimeVars, reported>>
    PROVE  RuntimeInv'
<1>1. CASE UNCHANGED <<runtimeVars, reported>>
  BY <1>1 DEF RuntimeInv, runtimeVars
<1>2. ASSUME NEW gone \in SUBSET GameTrain, NEW elapsed \in BOOLEAN,
             Tick(gone, elapsed), reported' = ReportedAfter(TickCore(gone, elapsed).posts)
      PROVE  RuntimeInv'
  <2>1. PICK w : w = TickCore(gone, elapsed)
    OBVIOUS
  <2>2. w \in GoodFrames
    BY <2>1, FrameKeepsProtocol DEF RuntimeInv
  <2>3. /\ passages' = w.passages /\ finished' = w.finished /\ held' = w.held
        /\ inbox' = <<>> /\ topology' = topology /\ reported' = ReportedAfter(w.posts)
    BY <1>2, <2>1 DEF Tick
  <2>4. w \in Work(Commands) /\ Protocol(passages', finished', reported')
    BY <2>2, <2>3 DEF GoodFrames
  <2>5. /\ passages' \in PassagesOf(Commands) /\ finished' \subseteq Ids
        /\ held' \subseteq GameTrain
    BY <2>3, <2>4, CommandIds DEF Work
  <2>6. reported' \in Standings
    BY <2>4 DEF Protocol, NoneBroken
  <2>7. topology' \in 0..MaxRevision /\ inbox' \in Seq(Commands)
    BY <2>3 DEF RuntimeInv
  <2> QED BY <2>4, <2>5, <2>6, <2>7 DEF RuntimeInv
<1>3. ASSUME NEW s \in Snapshots, UpdateTrainSnapshot(s), UNCHANGED reported
      PROVE  RuntimeInv'
  BY <1>3 DEF RuntimeInv, UpdateTrainSnapshot
<1>4. ASSUME NEW i \in Ids, AcceptCommandResponse(<<CommandOf[i]>>), UNCHANGED reported
      PROVE  RuntimeInv'
  <2>1. CommandOf[i] \in Commands
    BY CommandIds
  <2>2. inbox' \in Seq(Commands)
    BY <1>4, <2>1 DEF RuntimeInv, AcceptCommandResponse
  <2> QED BY <1>4, <2>2 DEF RuntimeInv, AcceptCommandResponse
<1>5. ASSUME NEW rev \in 1..MaxRevision, AcceptTopologyResponse(rev), UNCHANGED reported
      PROVE  RuntimeInv'
  <2>1. topology' \in 0..MaxRevision
    BY <1>5, RuntimeAssumptions DEF AcceptTopologyResponse
  <2> QED BY <1>5, <2>1 DEF RuntimeInv, AcceptTopologyResponse
<1>6. ASSUME Reset, reported' = [i \in Ids |-> "none"]
      PROVE  RuntimeInv'
  <2>1. /\ inbox' = <<>> /\ finished' = {} /\ topology' = 0 /\ held' = {}
        /\ passages' = [t \in GameTrain |-> NoPassage]
    BY <1>6 DEF Reset
  <2>2. /\ passages' \in PassagesOf(Commands) /\ reported' \in Standings
        /\ Protocol(passages', {}, reported')
    BY <1>6, <2>1, FreshInv
  <2>3. topology' \in 0..MaxRevision
    BY <2>1, RuntimeAssumptions
  <2> QED BY <2>1, <2>2, <2>3 DEF RuntimeInv
<1> QED BY <1>1, <1>2, <1>3, <1>4, <1>5, <1>6 DEF RuntimeNext

\* The runtime keeps its types, for any number of trains and commands:
\* passages are filed under their trains, and an exit is noted only after
\* the entry.
THEOREM RuntimeTypeCorrect ==
    FewCommands => (RuntimeSpec => []RuntimeTypeOK)
<1> SUFFICES ASSUME FewCommands PROVE RuntimeSpec => []RuntimeTypeOK
  OBVIOUS
<1>1. RuntimeInv /\ [RuntimeNext]_<<runtimeVars, reported>> => RuntimeInv'
  BY RuntimeStepInv
<1>2. RuntimeInv => RuntimeTypeOK
  BY DEF RuntimeInv, RuntimeTypeOK, PassagesOf, Standings, Standing
<1> QED BY RuntimeInitInv, <1>1, <1>2, PTL DEF RuntimeSpec

\* Whatever the poller delivers, however often and in whatever order, and
\* however the trains move and the topology changes: the reports on a
\* command are one ACK, and one cleared report at most, after an accepting
\* ACK.  This needs that the runtime remembers every finished command.
THEOREM ReportsKeepProtocol ==
    FewCommands => (RuntimeSpec => []ReportsFollowProtocol)
<1> SUFFICES ASSUME FewCommands PROVE RuntimeSpec => []ReportsFollowProtocol
  OBVIOUS
<1>1. RuntimeInv /\ [RuntimeNext]_<<runtimeVars, reported>> => RuntimeInv'
  BY RuntimeStepInv
<1>2. RuntimeInv => ReportsFollowProtocol
  BY DEF RuntimeInv, Protocol, NoneBroken, ReportsFollowProtocol
<1> QED BY RuntimeInitInv, <1>1, <1>2, PTL DEF RuntimeSpec

=============================================================================
