----------------------------- MODULE RuleBookProofs -----------------------------
(***************************************************************************)
(* Proofs about the rules that keep no state: those of the revenue agents, *)
(* for every question and every property, the reports, for every house and *)
(* day, the plan of the house, for every list of tasks, the sales to       *)
(* agents, for every search, cancellation, table of rate plans and list of *)
(* properties, the taxes, for every table of profiles, charge and price,   *)
(* and the messages, for every list of attempts, items, plans and reports. *)
(***************************************************************************)
EXTENDS RuleBook, FiniteSetTheorems, SequenceTheorems, WellFoundedInduction, TLAPS

-----------------------------------------------------------------------------
(* Numbers and finite sets.                                                *)

LEMMA LeastNatural ==
  ASSUME NEW S \in SUBSET Nat, S # {}
  PROVE  \E m \in S : \A k \in S : m <= k
<1>1. PICK m \in S : \A k \in S : <<k, m>> \notin OpToRel(<, Nat)
  BY NatLessThanWellFounded, WFMin
<1>2. \A k \in S : ~(k < m)
  BY <1>1 DEF OpToRel
<1>3. QED
  BY <1>2

\* Induction, over a set of numbers.
LEMMA CountingUp ==
  ASSUME NEW T, 0 \in T, \A n \in Nat : n \in T => n + 1 \in T
  PROVE  \A n \in Nat : n \in T
<1> SUFFICES ASSUME NEW n \in Nat, n \notin T
             PROVE  FALSE
  OBVIOUS
<1> DEFINE R == {k \in Nat : k \notin T}
<1>1. PICK m \in R : \A k \in R : m <= k
  <2>1. R \in SUBSET Nat /\ R # {}
    OBVIOUS
  <2> HIDE DEF R
  <2>2. QED
    BY <2>1, LeastNatural
<1>2. m # 0 /\ m - 1 \in Nat /\ m - 1 \notin R
  BY <1>1
<1>3. QED
  BY <1>1, <1>2

\* Induction, over the subsets of a finite set: what holds of a set whenever it holds
\* without any one of its members, holds of them all.
LEMMA TakingAway ==
  ASSUME NEW S, IsFiniteSet(S), NEW T,
         \A s \in SUBSET S : (\A x \in s : s \ {x} \in T) => s \in T
  PROVE  \A s \in SUBSET S : s \in T
<1> DEFINE N == {n \in Nat : \A s \in SUBSET S : Cardinality(s) = n => s \in T}
<1>1. \A s \in SUBSET S : IsFiniteSet(s) /\ Cardinality(s) \in Nat
  BY FS_Subset, FS_CardinalityType
<1>2. 0 \in N
  BY <1>1, FS_EmptySet
<1>3. ASSUME NEW n \in Nat, n \in N
      PROVE  n + 1 \in N
  <2> SUFFICES ASSUME NEW s \in SUBSET S, Cardinality(s) = n + 1
               PROVE  s \in T
    OBVIOUS
  <2>1. ASSUME NEW x \in s
        PROVE  s \ {x} \in T
    <3>1. Cardinality(s \ {x}) = Cardinality(s) - 1
      BY <1>1, FS_RemoveElement
    <3>2. Cardinality(s \ {x}) = n
      BY <3>1
    <3>3. QED
      BY <1>3, <3>2
  <2>2. QED
    BY <2>1
<1>4. \A n \in Nat : n \in N
  <2> HIDE DEF N
  <2>1. QED
    BY <1>2, <1>3, CountingUp
<1>5. QED
  BY <1>1, <1>4

-----------------------------------------------------------------------------
(* Sums over finite sets.                                                  *)

Pick(s) == CHOOSE x \in s : TRUE

\* g is what FoldSet computes of every subset of S, if x counts v[x].
Sums(g, S, v) ==
  g = [s \in SUBSET S |-> IF s = {} THEN 0 ELSE g[s \ {Pick(s)}] + v[Pick(s)]]

\* The recursion has a solution.
LEMMA SumsExist ==
  ASSUME NEW S, IsFiniteSet(S), NEW v \in [S -> Int]
  PROVE  \E g \in [SUBSET S -> Int] : Sums(g, S, v)
<1> DEFINE small(n) == {s \in SUBSET S : Cardinality(s) <= n}
           next(g, s) == IF s = {} THEN 0 ELSE g[s \ {Pick(s)}] + v[Pick(s)]
           N == {n \in Nat : \E g \in [small(n) -> Int] : \A s \in small(n) : g[s] = next(g, s)}
<1>1. \A s \in SUBSET S : IsFiniteSet(s) /\ Cardinality(s) \in Nat
  BY FS_Subset, FS_CardinalityType
<1>2. \A s \in SUBSET S : s # {} => /\ Pick(s) \in s /\ v[Pick(s)] \in Int /\ s \ {Pick(s)} \in SUBSET S
                                    /\ Cardinality(s \ {Pick(s)}) = Cardinality(s) - 1
  BY <1>1, FS_RemoveElement DEF Pick
<1>3. 0 \in N
  <2>1. \A s \in small(0) : s = {}
    BY <1>1, FS_EmptySet
  <2>2. PICK g : g = [s \in small(0) |-> 0]
    OBVIOUS
  <2>3. g \in [small(0) -> Int] /\ \A s \in small(0) : g[s] = next(g, s)
    BY <2>1, <2>2
  <2>4. QED
    BY <2>3
<1>4. ASSUME NEW n \in Nat, n \in N
      PROVE  n + 1 \in N
  <2>1. PICK g \in [small(n) -> Int] : \A s \in small(n) : g[s] = next(g, s)
    BY <1>4
  <2>2. PICK h : h = [s \in small(n + 1) |-> next(g, s)]
    OBVIOUS
  <2>3. ASSUME NEW s \in small(n + 1), s # {}
        PROVE  s \ {Pick(s)} \in small(n)
    BY <1>1, <1>2, <2>3
  <2>4. h \in [small(n + 1) -> Int]
    <3>1. ASSUME NEW s \in small(n + 1)
          PROVE  next(g, s) \in Int
      <4>1. CASE s = {}
        BY <4>1
      <4>2. CASE s # {}
        <5>1. g[s \ {Pick(s)}] \in Int /\ v[Pick(s)] \in Int
          BY <1>2, <2>1, <2>3, <4>2
        <5>2. QED
          BY <4>2, <5>1
      <4>3. QED
        BY <4>1, <4>2
    <3> HIDE DEF small, next
    <3>2. QED
      BY <2>2, <3>1
  <2>5. ASSUME NEW s \in small(n)
        PROVE  s \in small(n + 1) /\ h[s] = g[s]
    BY <1>1, <2>1, <2>2, <2>5
  <2>6. ASSUME NEW s \in small(n + 1)
        PROVE  h[s] = next(h, s)
    BY <2>2, <2>3, <2>5, <2>6
  <2>7. \E k \in [small(n + 1) -> Int] : \A s \in small(n + 1) : k[s] = next(k, s)
    <3> HIDE DEF small, next
    <3>1. QED
      BY <2>4, <2>6
  <2> HIDE DEF small, next
  <2>8. QED
    BY <2>7
<1>5. Cardinality(S) \in N
  <2>1. \A n \in Nat : n \in N
    <3> HIDE DEF N
    <3>1. QED
      BY <1>3, <1>4, CountingUp
  <2>2. QED
    BY <2>1, <1>1
<1>6. small(Cardinality(S)) = SUBSET S
  BY <1>1, FS_Subset
<1>7. PICK g \in [SUBSET S -> Int] : \A s \in SUBSET S : g[s] = next(g, s)
  BY <1>5, <1>6
<1>8. g = [s \in SUBSET S |-> next(g, s)]
  BY <1>7
<1>9. QED
  BY <1>7, <1>8 DEF Sums

LEMMA SumOfNothing ==
  ASSUME NEW S, NEW v, NEW g, Sums(g, S, v)
  PROVE  g[{}] = 0
BY DEF Sums

LEMMA SumStep ==
  ASSUME NEW S, NEW v \in [S -> Int], NEW g, Sums(g, S, v), NEW s \in SUBSET S
  PROVE  s # {} => /\ Pick(s) \in s /\ v[Pick(s)] \in Int
                   /\ s \ {Pick(s)} \in SUBSET S /\ g[s] = g[s \ {Pick(s)}] + v[Pick(s)]
<1>1. g[s] = IF s = {} THEN 0 ELSE g[s \ {Pick(s)}] + v[Pick(s)]
  BY DEF Sums
<1>2. s # {} => Pick(s) \in s
  BY DEF Pick
<1>3. QED
  BY <1>1, <1>2

LEMMA SumTyped ==
  ASSUME NEW S, IsFiniteSet(S), NEW v \in [S -> Int], NEW g, Sums(g, S, v)
  PROVE  \A s \in SUBSET S : g[s] \in Int
<1> DEFINE T == {s \in SUBSET S : g[s] \in Int}
<1>1. ASSUME NEW s \in SUBSET S, \A x \in s : s \ {x} \in T
      PROVE  s \in T
  <2>1. CASE s = {}
    <3>1. g[{}] = 0
      BY SumOfNothing
    <3>2. QED
      BY <2>1, <3>1
  <2>2. CASE s # {}
    <3>1. PICK x \in s : x = Pick(s)
      BY <2>2, SumStep
    <3>2. g[s] = g[s \ {x}] + v[x]
      BY <2>2, <3>1, SumStep
    <3>3. g[s \ {x}] \in Int /\ v[x] \in Int
      BY <1>1
    <3>4. QED
      BY <3>2, <3>3
  <2>3. QED
    BY <2>1, <2>2
<1>2. \A s \in SUBSET S : s \in T
  <2> HIDE DEF T
  <2>1. QED
    BY <1>1, TakingAway
<1>3. QED
  BY <1>2

\* In whichever order the members are taken, each counts once.
LEMMA SumOfOneMore ==
  ASSUME NEW S, IsFiniteSet(S), NEW v \in [S -> Int], NEW g, Sums(g, S, v)
  PROVE  \A s \in SUBSET S : \A x \in s : g[s] = g[s \ {x}] + v[x]
<1> DEFINE T == {s \in SUBSET S : \A x \in s : g[s] = g[s \ {x}] + v[x]}
<1>0. \A s \in SUBSET S : g[s] \in Int
  BY SumTyped
<1>1. ASSUME NEW s \in SUBSET S, \A x \in s : s \ {x} \in T
      PROVE  s \in T
  <2> SUFFICES ASSUME NEW x \in s
               PROVE  g[s] = g[s \ {x}] + v[x]
    OBVIOUS
  <2>1. PICK y \in s : y = Pick(s)
    BY SumStep
  <2>2. g[s] = g[s \ {y}] + v[y]
    BY <2>1, SumStep
  <2>3. CASE x = y
    BY <2>2, <2>3
  <2>4. CASE x # y
    <3>1. g[s \ {y}] = g[(s \ {y}) \ {x}] + v[x]
      BY <1>1, <2>4
    <3>2. g[s \ {x}] = g[(s \ {x}) \ {y}] + v[y]
      BY <1>1, <2>4
    <3>3. (s \ {y}) \ {x} = (s \ {x}) \ {y}
      OBVIOUS
    <3>4. PICK i \in Int, j \in Int, k \in Int : i = g[(s \ {x}) \ {y}] /\ j = v[x] /\ k = v[y]
      BY <1>0
    <3>5. g[s] = (i + j) + k /\ g[s \ {x}] + v[x] = (i + k) + j
      BY <2>2, <3>1, <3>2, <3>3, <3>4
    <3>6. QED
      BY <3>5
  <2>5. QED
    BY <2>3, <2>4
<1>2. \A s \in SUBSET S : s \in T
  <2> HIDE DEF T
  <2>1. QED
    BY <1>1, TakingAway
<1>3. QED
  BY <1>2

\* The sum of two sets without a common member is that of their sums.
LEMMA SumOfParts ==
  ASSUME NEW S, IsFiniteSet(S), NEW v \in [S -> Int], NEW g, Sums(g, S, v),
         NEW a \in SUBSET S, NEW b \in SUBSET S, a \cap b = {}
  PROVE  g[a \cup b] = g[a] + g[b]
<1> DEFINE T == {s \in SUBSET S : s \cap a = {} => g[a \cup s] = g[a] + g[s]}
<1>0. \A s \in SUBSET S : g[s] \in Int
  BY SumTyped
<1>1. ASSUME NEW s \in SUBSET S, \A x \in s : s \ {x} \in T
      PROVE  s \in T
  <2> SUFFICES ASSUME s \cap a = {}
               PROVE  g[a \cup s] = g[a] + g[s]
    OBVIOUS
  <2>1. CASE s = {}
    <3>1. a \cup s = a
      BY <2>1
    <3>2. g[s] = 0
      BY <2>1, SumOfNothing
    <3>3. PICK k \in Int : k = g[a]
      BY <1>0
    <3>4. g[a \cup s] = k
      BY <3>1, <3>3
    <3>5. QED
      BY <3>2, <3>3, <3>4
  <2>2. CASE s # {}
    <3>1. PICK x \in s : TRUE
      BY <2>2
    <3>2. g[a \cup (s \ {x})] = g[a] + g[s \ {x}]
      BY <1>1
    <3>3. (a \cup s) \ {x} = a \cup (s \ {x}) /\ a \cup s \in SUBSET S /\ x \in a \cup s
      BY <3>1
    <3>4. g[a \cup s] = g[a \cup (s \ {x})] + v[x] /\ g[s] = g[s \ {x}] + v[x]
      BY <3>3, SumOfOneMore
    <3>5. g[a] \in Int /\ g[s \ {x}] \in Int /\ v[x] \in Int
      BY <1>0
    <3>6. QED
      BY <3>2, <3>4, <3>5
  <2>3. QED
    BY <2>1, <2>2
<1>2. \A s \in SUBSET S : s \in T
  <2> HIDE DEF T
  <2>1. QED
    BY <1>1, TakingAway
<1>3. QED
  BY <1>2

\* What is summed up does not depend on what else there is.
LEMMA SumsCoincide ==
  ASSUME NEW S, IsFiniteSet(S), NEW v \in [S -> Int], NEW g, Sums(g, S, v),
         NEW R, IsFiniteSet(R), NEW w \in [R -> Int], NEW h, Sums(h, R, w),
         R \subseteq S, \A x \in R : v[x] = w[x]
  PROVE  \A s \in SUBSET R : g[s] = h[s]
<1> DEFINE T == {s \in SUBSET R : g[s] = h[s]}
<1>1. ASSUME NEW s \in SUBSET R, \A x \in s : s \ {x} \in T
      PROVE  s \in T
  <2>0. s \in SUBSET S
    OBVIOUS
  <2>1. CASE s = {}
    <3>1. g[{}] = 0 /\ h[{}] = 0
      BY SumOfNothing
    <3>2. QED
      BY <2>1, <3>1
  <2>2. CASE s # {}
    <3>1. PICK x \in s : x = Pick(s)
      BY <2>2, SumStep
    <3>2. g[s] = g[s \ {x}] + v[x]
      BY <2>0, <2>2, <3>1, SumStep
    <3>3. h[s] = h[s \ {x}] + w[x]
      BY <2>2, <3>1, SumStep
    <3>4. QED
      BY <1>1, <3>2, <3>3
  <2>3. QED
    BY <2>1, <2>2
<1>2. \A s \in SUBSET R : s \in T
  <2> HIDE DEF T
  <2>1. QED
    BY <1>1, TakingAway
<1>3. QED
  BY <1>2

-----------------------------------------------------------------------------
(* The rules of the revenue agents.                                        *)

LEMMA PercentOf ==
  ASSUME NEW x \in Nat, NEW p \in Nat
  PROVE  Percent(x, p) \in Nat
<1>1. x * p \in Nat
  OBVIOUS
<1>2. QED
  BY <1>1 DEF Percent

LEMMA PercentGrows ==
  ASSUME NEW x \in Nat, NEW y \in Nat, NEW p \in Nat, NEW n \in Nat, x <= y, p <= n
  PROVE  Percent(x, p) <= Percent(y, n)
<1>1. x * p <= y * p /\ y * p <= y * n
  OBVIOUS
<1>2. x * p \in Nat /\ y * n \in Nat /\ y * p \in Nat
  OBVIOUS
<1>3. \A a, b \in Nat : a <= b => a \div 100 <= b \div 100
  OBVIOUS
<1>4. QED
  BY <1>1, <1>2, <1>3 DEF Percent

LEMMA HundredPercent ==
  ASSUME NEW x \in Nat
  PROVE  Percent(x, 100) = x
BY DEF Percent

LEMMA RoomsOfChannel ==
  ASSUME NEW c \in Nat, NEW o \in Nat, NEW n \in Nat
  PROVE  /\ AllocatedRooms(c + 1, o, n) <= AllocatedRooms(c, o, n)
         /\ AllocatedRooms(c, o + 1, n) <= AllocatedRooms(c, o, n)
         /\ c <= 10 => AllocatedRooms(c, o, n) = n
<1>1. 0 <= Percent(n, 30) /\ Percent(n, 30) <= Percent(n, 50) /\ Percent(n, 50) <= n
  <2>1. /\ Percent(n, 30) <= Percent(n, 50) /\ Percent(n, 50) <= Percent(n, 100)
        /\ Percent(n, 30) \in Nat
    BY PercentOf, PercentGrows
  <2>2. QED
    BY <2>1, HundredPercent
<1>2. Percent(n, 30) \in Int /\ Percent(n, 50) \in Int
  BY PercentOf
<1>3. QED
  BY <1>1, <1>2 DEF AllocatedRooms

\* Whatever the occupancy, a channel that costs more, or a night that is fuller, never
\* gets more of the rooms, and one for a tenth or less gets them all.
THEOREM DearChannelsAreCutFirst == \A q \in ChannelQuestions : DearChannelsFirst(q)
<1> SUFFICES ASSUME NEW q \in ChannelQuestions
             PROVE  DearChannelsFirst(q)
  OBVIOUS
<1>1. q.commission \in Nat /\ q.occupancy \in Nat /\ q.totalRooms \in Nat
  BY DEF ChannelQuestions
<1>2. QED
  BY <1>1, RoomsOfChannel DEF DearChannelsFirst

RiskQuestions ==
  [source : Sources, hasDeposit : BOOLEAN, isRepeat : BOOLEAN, isVip : BOOLEAN, leadTime : Nat, daysUntil : Nat]

LEMMA SourceRate ==
  ASSUME NEW s \in Sources
  PROVE  (IF s \in DOMAIN SourceRates THEN SourceRates[s] ELSE 15) \in 2..25
BY DEF SourceRates, Sources

\* What only lowers the risk of one question against another's lowers its probability;
\* and no probability is a high risk.
LEMMA RiskGrows ==
  ASSUME NEW p \in RiskQuestions, NEW q \in RiskQuestions, p.source = q.source,
         q.hasDeposit => p.hasDeposit, q.isRepeat => p.isRepeat, q.isVip => p.isVip,
         p.leadTime <= q.leadTime, p.daysUntil <= q.daysUntil
  PROVE  /\ CancelProbability(p) \in Nat /\ CancelProbability(q) \in Nat
         /\ CancelProbability(p) <= CancelProbability(q)
         /\ CancelProbability(q) < 40000
<1> DEFINE source(x) == 1000 * (IF x.source \in DOMAIN SourceRates THEN SourceRates[x.source] ELSE 15)
           visitor(x) == When(x.isVip, When(x.isRepeat, When(x.hasDeposit, source(x), 40), 60), 70)
           lead(x) == When(x.leadTime > 90, When(x.leadTime \in 31..90, visitor(x), 120), 140)
           near(x) == When(x.daysUntil <= 2, When(x.daysUntil \in 3..7, lead(x), 80), 50)
<1>1. source(p) = source(q) /\ source(q) \in Nat /\ source(q) <= 25000
  <2>1. q.source \in Sources
    BY DEF RiskQuestions
  <2>2. PICK n \in 2..25 : n = (IF q.source \in DOMAIN SourceRates THEN SourceRates[q.source] ELSE 15)
    BY <2>1, SourceRate
  <2>3. source(q) = 1000 * n /\ source(p) = source(q)
    BY <2>2
  <2>4. QED
    BY <2>3
<1>2. CancelProbability(p) = Least(95000, Most(1000, near(p)))
  BY DEF CancelProbability
<1>3. CancelProbability(q) = Least(95000, Most(1000, near(q)))
  BY DEF CancelProbability
<1>4. /\ p.hasDeposit \in BOOLEAN /\ p.isRepeat \in BOOLEAN /\ p.isVip \in BOOLEAN
      /\ q.hasDeposit \in BOOLEAN /\ q.isRepeat \in BOOLEAN /\ q.isVip \in BOOLEAN
      /\ p.leadTime \in Nat /\ p.daysUntil \in Nat /\ q.leadTime \in Nat /\ q.daysUntil \in Nat
  BY DEF RiskQuestions
<1> HIDE DEF source
<1>5. visitor(p) \in Nat /\ visitor(q) \in Nat /\ visitor(p) <= visitor(q) /\ visitor(q) <= source(q)
  BY <1>1, <1>4 DEF When, Percent
<1> HIDE DEF visitor
<1>6. lead(p) \in Nat /\ lead(q) \in Nat /\ lead(p) <= lead(q) /\ lead(q) <= 35000
  <2>1. PICK x \in Nat, y \in Nat : x = visitor(p) /\ y = visitor(q) /\ x <= y /\ y <= 25000
    BY <1>1, <1>5
  <2>2. PICK k \in Nat, l \in Nat : k = p.leadTime /\ l = q.leadTime /\ k <= l
    BY <1>4
  <2>3. QED
    BY <2>1, <2>2 DEF When, Percent
<1> HIDE DEF lead
<1>7. near(p) \in Nat /\ near(q) \in Nat /\ near(p) <= near(q) /\ near(q) <= 35000
  <2>1. PICK x \in Nat, y \in Nat : x = lead(p) /\ y = lead(q) /\ x <= y /\ y <= 35000
    BY <1>6
  <2>2. PICK m \in Nat, n \in Nat : m = p.daysUntil /\ n = q.daysUntil /\ m <= n
    BY <1>4
  <2>3. QED
    BY <2>1, <2>2 DEF When, Percent
<1> HIDE DEF near
<1>8. QED
  BY <1>2, <1>3, <1>7 DEF Least, Most

LEMMA RiskQuestionTyped ==
  ASSUME NEW r \in RiskReservations
  PROVE  RiskQuestion(r) \in RiskQuestions
<1>1. /\ r.source \in Sources /\ r.vip \in BOOLEAN /\ r.arrival \in Int /\ r.booked \in Int
  BY DEF RiskReservations
<1>2. Most(0, r.arrival - r.booked) \in Nat /\ Most(0, r.arrival) \in Nat
  BY <1>1 DEF Most
<1>3. (IF r.source = "none" THEN "direct" ELSE r.source) \in Sources
  BY <1>1 DEF Sources
<1>4. QED
  BY <1>1, <1>2, <1>3 DEF RiskQuestion, RiskQuestions

\* Whatever a reservation is like, a deposit, an earlier stay or a nearer arrival never makes
\* a cancellation likelier, a longer lead time never less likely; and none is a high risk.
THEOREM RiskOrdered == \A r \in RiskReservations : RiskIsOrdered(r)
<1> SUFFICES ASSUME NEW r \in RiskReservations
             PROVE  RiskIsOrdered(r)
  OBVIOUS
<1> DEFINE risk(x) == CancelProbability(RiskQuestion(x))
<1>1. ASSUME NEW x \in RiskReservations, NEW y \in RiskReservations, x.source = y.source, x.vip = y.vip,
             y.payments \subseteq x.payments, y.stays \subseteq x.stays,
             Most(0, x.arrival - x.booked) <= Most(0, y.arrival - y.booked),
             Most(0, x.arrival) <= Most(0, y.arrival)
      PROVE  risk(x) \in Nat /\ risk(y) \in Nat /\ risk(x) <= risk(y) /\ risk(y) < 40000
  <2>1. PICK p \in RiskQuestions, q \in RiskQuestions : p = RiskQuestion(x) /\ q = RiskQuestion(y)
    BY RiskQuestionTyped
  <2>2. p.source = q.source /\ (q.isVip => p.isVip)
    BY <1>1, <2>1 DEF RiskQuestion
  <2>3. (q.hasDeposit => p.hasDeposit) /\ (q.isRepeat => p.isRepeat)
    BY <1>1, <2>1 DEF RiskQuestion
  <2>4. p.leadTime <= q.leadTime /\ p.daysUntil <= q.daysUntil
    BY <1>1, <2>1 DEF RiskQuestion
  <2>5. QED
    BY <2>1, <2>2, <2>3, <2>4, RiskGrows
<1> HIDE DEF risk
<1>2. r.arrival \in Int /\ r.booked \in Int
  BY DEF RiskReservations
<1>3. \A z \in Nat : Most(0, z) = z
  BY DEF Most
<1>4. ASSUME NEW p \in {"captured", "authorized"}
      PROVE  risk([r EXCEPT !.payments = @ \cup {p}]) <= risk(r)
  <2> DEFINE x == [r EXCEPT !.payments = @ \cup {p}]
  <2>1. r.payments \cup {p} \in SUBSET PaymentStatuses
    BY DEF RiskReservations, PaymentStatuses
  <2>2. x \in RiskReservations
    BY <2>1 DEF RiskReservations
  <2>3. /\ x.source = r.source /\ x.vip = r.vip /\ x.stays = r.stays
        /\ x.arrival = r.arrival /\ x.booked = r.booked /\ r.payments \subseteq x.payments
    BY DEF RiskReservations
  <2> HIDE DEF x
  <2>4. risk(x) <= risk(r)
    BY <2>2, <2>3, <1>1, <1>2 DEF Most
  <2>5. QED
    BY <2>4 DEF x
<1>5. risk([r EXCEPT !.stays = @ \cup {"checked_out"}]) <= risk(r)
  <2> DEFINE x == [r EXCEPT !.stays = @ \cup {"checked_out"}]
  <2>1. r.stays \cup {"checked_out"} \in SUBSET StayStatuses
    BY DEF RiskReservations, StayStatuses
  <2>2. x \in RiskReservations
    BY <2>1 DEF RiskReservations
  <2>3. /\ x.source = r.source /\ x.vip = r.vip /\ x.payments = r.payments
        /\ x.arrival = r.arrival /\ x.booked = r.booked /\ r.stays \subseteq x.stays
    BY DEF RiskReservations
  <2> HIDE DEF x
  <2>4. risk(x) <= risk(r)
    BY <2>2, <2>3, <1>1, <1>2 DEF Most
  <2>5. QED
    BY <2>4 DEF x
<1>6. risk([r EXCEPT !.booked = @ - 30]) >= risk(r)
  <2> DEFINE x == [r EXCEPT !.booked = @ - 30]
  <2>1. x \in RiskReservations
    BY <1>2 DEF RiskReservations
  <2>2. /\ x.source = r.source /\ x.vip = r.vip /\ x.payments = r.payments /\ x.stays = r.stays
        /\ x.arrival = r.arrival /\ x.booked = r.booked - 30
    BY DEF RiskReservations
  <2> HIDE DEF x
  <2>3. Most(0, r.arrival - r.booked) <= Most(0, x.arrival - x.booked)
    BY <2>2, <1>2 DEF Most
  <2>4. Most(0, r.arrival) <= Most(0, x.arrival)
    BY <2>2, <1>2 DEF Most
  <2>5. risk(r) <= risk(x) /\ risk(r) \in Nat /\ risk(x) \in Nat
    BY <2>1, <2>2, <2>3, <2>4, <1>1
  <2>6. QED
    BY <2>5 DEF x
<1>7. ASSUME r.arrival > 0
      PROVE  risk([r EXCEPT !.arrival = @ - 1, !.booked = @ - 1]) <= risk(r)
  <2> DEFINE x == [r EXCEPT !.arrival = @ - 1, !.booked = @ - 1]
  <2>1. x \in RiskReservations
    <3>1. PICK a \in Int, b \in Int : a = r.arrival - 1 /\ b = r.booked - 1
      BY <1>2
    <3>2. PICK y : y = [r EXCEPT !.arrival = a]
      OBVIOUS
    <3>3. y \in RiskReservations
      BY <3>2 DEF RiskReservations
    <3>4. x = [y EXCEPT !.booked = b]
      BY <3>1, <3>2 DEF RiskReservations
    <3>5. QED
      BY <3>3, <3>4 DEF RiskReservations
  <2>2. /\ x.source = r.source /\ x.vip = r.vip /\ x.payments = r.payments /\ x.stays = r.stays
        /\ x.arrival = r.arrival - 1 /\ x.booked = r.booked - 1
    BY DEF RiskReservations
  <2> HIDE DEF x
  <2>3. Most(0, x.arrival - x.booked) <= Most(0, r.arrival - r.booked)
    BY <2>2, <1>2 DEF Most
  <2>4. Most(0, x.arrival) <= Most(0, r.arrival)
    BY <2>2, <1>2, <1>7 DEF Most
  <2>5. risk(x) <= risk(r)
    BY <2>1, <2>2, <2>3, <2>4, <1>1
  <2>6. QED
    BY <2>5 DEF x
<1>8. ClassifyRisk(risk(r)) # "high"
  <2>1. risk(r) \in Nat /\ risk(r) < 40000
    BY <1>1, <1>2 DEF Most
  <2>2. QED
    BY <2>1 DEF ClassifyRisk
<1>9. QED
  BY <1>4, <1>5, <1>6, <1>7, <1>8 DEF RiskIsOrdered, risk

\* The four agents that count what is sold count alike.
LEMMA AllCountAlike == \A rs \in StayTables, n \in Nat : CountsAgree(rs, n)
<1> SUFFICES ASSUME NEW rs \in StayTables, NEW n \in Nat, NEW d \in 0..14,
                    \A r \in rs : r.from >= 0 /\ r.to > r.from /\ r.status \in {"confirmed", "assigned", "cancelled"}
             PROVE  /\ DemandOnTheBooks(rs, d) = SoldTo(rs, d)
                    /\ OverbookingOnTheBooks(rs, d) = SoldTo(rs, d)
                    /\ d \in HistoricalDays(rs) <=> SoldTo(rs, d) > 0
                    /\ HistoricalOccupancy(rs, d, n) = Least(100, Booked(SoldTo(rs, d), n))
  BY DEF CountsAgree
<1> DEFINE taken == {r \in rs : /\ r.status \notin {"cancelled", "no_show", "checked_out"}
                               /\ r.from <= d /\ d < r.to}
<1>1. \A r \in rs : r.from \in Int /\ r.to \in Int
  BY DEF StayTables
<1>2. \A r \in rs : d \in OccupiedNights(r) <=> r.from <= d /\ d < r.to
  BY <1>1 DEF OccupiedNights, Most
<1>3. \A r \in rs : r \in taken <=> r.status # "cancelled" /\ d \in OccupiedNights(r)
  BY <1>2
<1>4. SoldTo(rs, d) = Cardinality(taken)
  BY DEF SoldTo
<1>5. {r \in rs : r.status # "cancelled" /\ 0 <= r.from /\ r.from <= 90 /\ d \in OccupiedNights(r)} = taken
  BY <1>1, <1>2, <1>3
<1>6. {r \in rs : r.status # "cancelled" /\ r.from <= 14 /\ 0 <= r.to
                  /\ d \in OccupiedNights(r) /\ 0 <= d /\ d <= 14} = taken
  BY <1>1, <1>2, <1>3
<1>7. {r \in Historical(rs) : d \in OccupiedNights(r)} = taken
  BY <1>1, <1>2, <1>3 DEF Historical
<1>8. IsFiniteSet(taken) /\ Cardinality(taken) \in Nat /\ (taken # {} <=> Cardinality(taken) > 0)
  <2>1. IsFiniteSet(rs) /\ taken \subseteq rs
    BY DEF StayTables
  <2> HIDE DEF taken
  <2>2. QED
    BY <2>1, FS_Subset, FS_CardinalityType, FS_EmptySet
<1>9. d \in HistoricalDays(rs) <=> taken # {}
  BY <1>7 DEF HistoricalDays, Historical
<1>10. DemandOnTheBooks(rs, d) = Cardinality(taken)
  BY <1>5 DEF DemandOnTheBooks
<1>11. OverbookingOnTheBooks(rs, d) = Cardinality(taken)
  BY <1>6 DEF OverbookingOnTheBooks
<1>12. HistoricalOccupancy(rs, d, n) = Least(100, Booked(Cardinality(taken), n))
  <2>1. HistoricalOccupancy(rs, d, n)
          = IF n = 0 THEN 0 ELSE Least(100, (100 * Cardinality(taken)) \div n)
    BY <1>7 DEF HistoricalOccupancy
  <2> HIDE DEF taken
  <2>2. QED
    BY <2>1 DEF Booked, Least
<1> HIDE DEF taken
<1>13. QED
  BY <1>4, <1>8, <1>9, <1>10, <1>11, <1>12

\* g adds up the first i of the numbers v[1], v[2], ...
Adds(g, n, v) == g = [i \in 0..n |-> IF i = 0 THEN 0 ELSE v[i] + g[i - 1]]

LEMMA AddsExist ==
  ASSUME NEW n \in Nat, NEW v \in [1..n -> Int]
  PROVE  \E g : Adds(g, n, v)
<1> DEFINE Added(k) == \E g \in [0..k -> Int] : g[0] = 0 /\ \A i \in 1..k : g[i] = v[i] + g[i - 1]
           T == {k \in Nat : k <= n => Added(k)}
<1>1. 0 \in T
  <2>1. PICK g : g = [i \in 0..0 |-> 0]
    OBVIOUS
  <2>2. g \in [0..0 -> Int] /\ g[0] = 0 /\ 1..0 = {}
    BY <2>1
  <2>3. QED
    BY <2>2
<1>2. ASSUME NEW k \in Nat, k \in T
      PROVE  k + 1 \in T
  <2> SUFFICES ASSUME k + 1 <= n
               PROVE  Added(k + 1)
    <3> HIDE DEF Added
    <3>1. QED
      OBVIOUS
  <2>1. PICK g \in [0..k -> Int] : g[0] = 0 /\ \A i \in 1..k : g[i] = v[i] + g[i - 1]
    BY <1>2
  <2>2. PICK h : h = [i \in 0..(k + 1) |-> IF i = k + 1 THEN v[i] + g[k] ELSE g[i]]
    OBVIOUS
  <2>3. v[k + 1] \in Int /\ g[k] \in Int /\ \A i \in 0..k : g[i] \in Int
    OBVIOUS
  <2>4. h \in [0..(k + 1) -> Int]
    <3>1. \A i \in 0..(k + 1) : i # k + 1 => i \in 0..k
      OBVIOUS
    <3>2. QED
      BY <2>2, <2>3, <3>1
  <2>5. h[0] = 0
    BY <2>1, <2>2
  <2>6. ASSUME NEW i \in 1..(k + 1)
        PROVE  h[i] = v[i] + h[i - 1]
    <3>1. CASE i = k + 1
      BY <2>2, <3>1
    <3>2. CASE i # k + 1
      BY <2>1, <2>2, <3>2
    <3>3. QED
      BY <3>1, <3>2
  <2>7. QED
    BY <2>4, <2>5, <2>6
<1>3. n \in T
  <2> HIDE DEF T
  <2>1. QED
    BY <1>1, <1>2, CountingUp
<1>4. PICK g \in [0..n -> Int] : g[0] = 0 /\ \A i \in 1..n : g[i] = v[i] + g[i - 1]
  BY <1>3
<1>5. \A i \in 0..n : g[i] = IF i = 0 THEN 0 ELSE v[i] + g[i - 1]
  BY <1>4
<1>6. QED
  BY <1>5 DEF Adds

\* The sums are integers, and, of naturals, at least as large as the first of them.
LEMMA AddsTyped ==
  ASSUME NEW n \in Nat, NEW v \in [1..n -> Int], NEW g, Adds(g, n, v)
  PROVE  /\ \A i \in 0..n : g[i] \in Int
         /\ (\A i \in 1..n : v[i] >= 0) => \A i \in 1..n : g[i] >= v[1]
<1> DEFINE T == {i \in Nat : i <= n => g[i] \in Int}
           U == {i \in Nat : 1 <= i /\ i <= n => g[i] >= v[1]}
<1>1. g[0] = 0 /\ \A i \in 1..n : g[i] = v[i] + g[i - 1]
  BY DEF Adds
<1>2. \A i \in Nat : i \in T
  <2>1. 0 \in T
    BY <1>1
  <2>2. ASSUME NEW i \in Nat, i \in T
        PROVE  i + 1 \in T
    <3> SUFFICES ASSUME i + 1 <= n
                 PROVE  g[i + 1] \in Int
      OBVIOUS
    <3>1. g[i + 1] = v[i + 1] + g[i] /\ g[i] \in Int /\ v[i + 1] \in Int
      BY <1>1, <2>2
    <3>2. QED
      BY <3>1
  <2> HIDE DEF T
  <2>3. QED
    BY <2>1, <2>2, CountingUp
<1>3. ASSUME \A i \in 1..n : v[i] >= 0
      PROVE  \A i \in Nat : i \in U
  <2>1. 0 \in U
    OBVIOUS
  <2>2. ASSUME NEW i \in Nat, i \in U
        PROVE  i + 1 \in U
    <3> SUFFICES ASSUME i + 1 <= n
                 PROVE  g[i + 1] >= v[1]
      OBVIOUS
    <3>1. g[i + 1] = v[i + 1] + g[i] /\ g[i] \in Int /\ v[i + 1] \in Int /\ v[1] \in Int /\ v[i + 1] >= 0
      BY <1>1, <1>2, <1>3
    <3>2. CASE i = 0
      BY <1>1, <3>1, <3>2
    <3>3. CASE i # 0
      <4>1. g[i] >= v[1]
        BY <2>2, <3>3
      <4>2. QED
        BY <3>1, <4>1
    <3>4. QED
      BY <3>2, <3>3
  <2> HIDE DEF U
  <2>3. QED
    BY <2>1, <2>2, CountingUp
<1>4. \A i \in 0..n : g[i] \in Int
  BY <1>2
<1>5. (\A i \in 1..n : v[i] >= 0) => \A i \in 1..n : g[i] >= v[1]
  BY <1>3
<1>6. QED
  BY <1>4, <1>5

LEMMA MeanIsInteger ==
  ASSUME NEW s \in Seq(Int)
  PROVE  Mean(s) \in Int
<1> DEFINE n == Len(s)
           F(g) == [i \in 0..Len(s) |-> IF i = 0 THEN 0 ELSE s[i] + g[i - 1]]
           total == CHOOSE g : g = F(g)
<1>1. n \in Nat /\ (s # <<>> => n > 0) /\ s \in [1..n -> Int]
  OBVIOUS
<1>2. \A g : Adds(g, n, s) <=> g = F(g)
  BY DEF Adds
<1>3. Mean(s) = IF s = <<>> THEN 0 ELSE total[n] \div n
  BY DEF Mean
<1>4. Adds(total, n, s)
  <2>1. PICK g : g = F(g)
    BY <1>1, <1>2, AddsExist
  <2> HIDE DEF F
  <2>2. total = F(total)
    BY <2>1
  <2>3. QED
    BY <1>2, <2>2
<1> HIDE DEF total
<1>5. total[n] \in Int
  BY <1>1, <1>4, AddsTyped
<1>6. QED
  BY <1>1, <1>3, <1>5

LEMMA WeightedMeanIsInteger ==
  ASSUME NEW s \in Seq(Int), s # <<>>
  PROVE  WeightedMean(s) \in Int
<1> DEFINE n == Len(s)
           F(g) == [i \in 0..Len(s) |-> IF i = 0 THEN 0 ELSE (60 * s[i]) \div i + g[i - 1]]
           G(g) == [i \in 0..Len(s) |-> IF i = 0 THEN 0 ELSE 60 \div i + g[i - 1]]
           occ == CHOOSE g : g = F(g)
           weight == CHOOSE g : g = G(g)
<1>1. n \in Nat /\ n > 0 /\ \A i \in 1..n : s[i] \in Int
  OBVIOUS
<1>2. PICK v : v = [i \in 1..n |-> (60 * s[i]) \div i]
  OBVIOUS
<1>3. PICK w : w = [i \in 1..n |-> 60 \div i]
  OBVIOUS
<1>4. v \in [1..n -> Int] /\ w \in [1..n -> Int] /\ (\A i \in 1..n : w[i] >= 0) /\ w[1] = 60
  <2>1. \A i \in 1..n : (60 * s[i]) \div i \in Int
    BY <1>1
  <2>2. \A i \in 1..n : 60 \div i \in Int /\ 60 \div i >= 0
    BY <1>1
  <2>3. QED
    BY <1>1, <1>2, <1>3, <2>1, <2>2
<1>5. \A g : (Adds(g, n, v) <=> g = F(g)) /\ (Adds(g, n, w) <=> g = G(g))
  <2>1. \A g : Adds(g, n, v) <=> g = F(g)
    <3>1. \A i \in 0..n : i # 0 => v[i] = (60 * s[i]) \div i
      BY <1>2
    <3>2. \A g : F(g) = [i \in 0..n |-> IF i = 0 THEN 0 ELSE v[i] + g[i - 1]]
      BY <3>1
    <3>3. QED
      BY <3>2 DEF Adds
  <2>2. \A g : Adds(g, n, w) <=> g = G(g)
    <3>1. \A i \in 0..n : i # 0 => w[i] = 60 \div i
      BY <1>3
    <3>2. \A g : G(g) = [i \in 0..n |-> IF i = 0 THEN 0 ELSE w[i] + g[i - 1]]
      BY <3>1
    <3>3. QED
      BY <3>2 DEF Adds
  <2>3. QED
    BY <2>1, <2>2
<1>6. WeightedMean(s) = occ[n] \div weight[n]
  BY DEF WeightedMean
<1>7. Adds(occ, n, v) /\ Adds(weight, n, w)
  <2>1. PICK g : g = F(g)
    BY <1>1, <1>4, <1>5, AddsExist
  <2>2. PICK h : h = G(h)
    BY <1>1, <1>4, <1>5, AddsExist
  <2> HIDE DEF F, G
  <2>3. occ = F(occ) /\ weight = G(weight)
    BY <2>1, <2>2
  <2>4. QED
    BY <1>5, <2>3
<1> HIDE DEF n, F, G, occ, weight
<1>8. occ[n] \in Int /\ weight[n] \in Int /\ weight[n] >= 60
  <2>1. occ[n] \in Int
    BY <1>1, <1>4, <1>7, AddsTyped
  <2>2. \A i \in 0..n : weight[i] \in Int
    BY <1>1, <1>4, <1>7, AddsTyped
  <2>3. \A i \in 1..n : weight[i] >= w[1]
    BY <1>1, <1>4, <1>7, AddsTyped, ZenonT(40)
  <2>4. QED
    BY <1>1, <1>4, <2>1, <2>2, <2>3
<1>9. QED
  BY <1>6, <1>8

LEMMA SameDays ==
  ASSUME NEW q \in RateQuestions
  PROVE  q.sameDay \in Seq(Int)
<1>1. PICK s \in Seq(Nat) : s = q.sameDay
  BY DEF RateQuestions
<1>2. \A i \in 1..Len(s) : s[i] \in Int
  OBVIOUS
<1>3. s \in Seq(Int)
  BY <1>2
<1>4. QED
  BY <1>1, <1>3

\* A forecast is a share, in hundredths of a percent.
Share == {x \in Int : 0 <= x /\ x <= 10000}

LEMMA BlendIsShare ==
  ASSUME NEW a \in Int, NEW w \in Int, NEW b \in Nat
  PROVE  Blend(a, b, w) \in Share
<1>1. PICK x \in Int : x = a * (100 - w) + b * w
  OBVIOUS
<1>2. Clamped(x) \in Share
  BY DEF Clamped, Least, Most, Share
<1>3. Blend(a, b, w) = Clamped(x)
  BY <1>1 DEF Blend
<1>4. QED
  BY <1>2, <1>3

LEMMA ForecastIsShare ==
  ASSUME NEW q \in RateQuestions, NEW b \in Nat
  PROVE  Forecast(q, b) \in Share
<1>0. PICK s \in Seq(Int) : s = q.sameDay
  BY SameDays
<1>1. \A k, n \in Nat : Least(n, k) \in Int
  BY DEF Least
<1>2. PICK v \in Int : v = Least(60, b)
  BY <1>1
<1>3. PICK a \in Int : a = IF s # <<>> THEN Mean(s) ELSE IF q.weekend THEN 70 ELSE 50
  BY MeanIsInteger
<1>4. HeuristicForecast(s, q.weekend, b) = Blend(a, b, v)
  BY <1>2, <1>3 DEF HeuristicForecast
<1>5. PICK k \in Nat : k = b + (IF q.daysOut < 14 THEN 20 ELSE 0)
  OBVIOUS
<1>6. PICK w \in Int : w = Least(70, k)
  BY <1>1
<1>7. PICK c \in Int : c = IF s # <<>> THEN WeightedMean(s) ELSE 50
  BY WeightedMeanIsInteger
<1>8. PICK d \in Int : d = (c * 60) \div 50
  OBVIOUS
<1>9. StatisticalForecast(s, 60, 50, q.daysOut, b) = Blend(d, b, w)
  BY <1>5, <1>6, <1>7, <1>8 DEF StatisticalForecast
<1>10. Forecast(q, b) \in {Blend(a, b, v), Blend(d, b, w)}
  BY <1>0, <1>4, <1>9 DEF Forecast
<1>11. QED
  BY <1>10, BlendIsShare

\* From half of the average on, another booking never lowers the blend.
LEMMA BlendGrows ==
  ASSUME NEW a \in Int, NEW b \in Nat, 2 * b >= a
  PROVE  Blend(a, b, Least(60, b)) <= Blend(a, b + 1, Least(60, b + 1))
<1> DEFINE x == a * (100 - Least(60, b)) + b * Least(60, b)
           y == a * (100 - Least(60, b + 1)) + (b + 1) * Least(60, b + 1)
<1>1. x \in Int /\ y \in Int /\ x <= y
  <2>1. CASE b >= 60
    BY <2>1 DEF Least
  <2>2. CASE b < 60
    <3>1. x = a * (100 - b) + b * b /\ y = a * (100 - (b + 1)) + (b + 1) * (b + 1)
      BY <2>2 DEF Least
    <3>2. a * (100 - b) \in Int /\ b * b \in Int /\ a * (100 - (b + 1)) = a * (100 - b) - a
      OBVIOUS
    <3>3. (b + 1) * (b + 1) = b * b + 2 * b + 1
      OBVIOUS
    <3>4. QED
      BY <3>1, <3>2, <3>3
  <2>3. QED
    BY <2>1, <2>2
<1> HIDE DEF x, y
<1>2. Clamped(x) <= Clamped(y)
  BY <1>1 DEF Clamped, Least, Most
<1>3. QED
  BY <1>2 DEF x, y, Blend

LEMMA ForecastGrows ==
  ASSUME NEW q \in RateQuestions, NEW b \in Nat, q.model = "heuristic",
         2 * b >= (IF q.sameDay = <<>> THEN 70 ELSE Mean(q.sameDay))
  PROVE  Forecast(q, b) <= Forecast(q, b + 1)
<1>1. PICK s \in Seq(Int) : s = q.sameDay
  BY SameDays
<1>2. PICK a \in Int : a = IF s # <<>> THEN Mean(s) ELSE IF q.weekend THEN 70 ELSE 50
  BY MeanIsInteger
<1>3. 2 * b >= a
  BY <1>1, <1>2
<1>4. Forecast(q, b) = Blend(a, b, Least(60, b)) /\ Forecast(q, b + 1) = Blend(a, b + 1, Least(60, b + 1))
  BY <1>1, <1>2 DEF Forecast, HeuristicForecast
<1>5. QED
  BY <1>3, <1>4, BlendGrows

LEMMA DemandGrows ==
  ASSUME NEW o \in 0..100, NEW p \in 0..100, o <= p
  PROVE  ByDemand(o) \in Nat /\ ByDemand(p) \in Nat /\ ByDemand(o) <= ByDemand(p)
BY DEF ByDemand

\* What the rate is before its bounds, per dollar of the base rate.
LEMMA MultiplierGrows ==
  ASSUME NEW o \in 0..100, NEW p \in 0..100, o <= p, NEW pace \in Nat, NEW days \in Nat
  PROVE  /\ ByLeadTime(ByPace(ByDemand(o), pace), o, days) \in Nat
         /\ ByLeadTime(ByPace(ByDemand(p), pace), p, days) \in Nat
         /\ ByLeadTime(ByPace(ByDemand(o), pace), o, days) <= ByLeadTime(ByPace(ByDemand(p), pace), p, days)
<1>1. PICK x \in Nat, y \in Nat : x = ByDemand(o) /\ y = ByDemand(p) /\ x <= y
  BY DemandGrows
<1>2. PICK v \in Nat, w \in Nat : v = ByPace(x, pace) /\ w = ByPace(y, pace) /\ v <= w
  BY <1>1 DEF ByPace, Percent
<1>3. ByLeadTime(v, o, days) \in Nat /\ ByLeadTime(w, p, days) \in Nat
      /\ ByLeadTime(v, o, days) <= ByLeadTime(w, p, days)
  BY <1>2 DEF ByLeadTime, Percent
<1>4. QED
  BY <1>1, <1>2, <1>3

LEMMA PercentExact ==
  ASSUME NEW b \in Nat, NEW p \in Int
  PROVE  Percent(100000 * b, p) = 1000 * (b * p)
<1>1. PICK k \in Int : k = b * p
  OBVIOUS
<1>2. (100000 * b) * p = 100 * (1000 * k)
  BY <1>1
<1>3. (100 * (1000 * k)) \div 100 = 1000 * k
  OBVIOUS
<1>4. QED
  BY <1>1, <1>2, <1>3 DEF Percent

\* A price in units, cut off at the largest adjustment, at the floor and at the ceiling.
Bounded(x, low, high, floor, ceiling) ==
  (Least(Most(Most(Least(x, high), low), 100000 * floor), 100000 * ceiling) + 50000) \div 100000

LEMMA BoundedRate ==
  ASSUME NEW x \in Nat, NEW low \in Int, NEW high \in Int, NEW f \in Nat, NEW c \in Nat
  PROVE  /\ Bounded(x, low, high, f, c) \in Int
         /\ \A y \in Nat : x <= y => Bounded(x, low, high, f, c) <= Bounded(y, low, high, f, c)
         /\ f <= c => Bounded(x, low, high, f, c) \in f..c
         /\ f <= c /\ low <= high =>
              /\ 100000 * Bounded(x, low, high, f, c) > high + 50000 => Bounded(x, low, high, f, c) = f
              /\ 100000 * Bounded(x, low, high, f, c) < low - 50000 => Bounded(x, low, high, f, c) = c
BY DEF Bounded, Least, Most

\* The rate a question is answered with, from its price before the bounds.
RateAt(q, o) == RecommendedRate([q EXCEPT !.occupancy = o])

LowestRate(q) == 1000 * (q.base * (100 - q.maxAdjust))

HighestRate(q) == 1000 * (q.base * (100 + q.maxAdjust))

LEMMA RateIsBounded ==
  ASSUME NEW q \in RateQuestions, NEW o \in 0..100, NEW p \in 0..100, o <= p
  PROVE  \E x \in Nat, y \in Nat :
           /\ x <= y
           /\ RateAt(q, o) = Bounded(x, LowestRate(q), HighestRate(q), q.floor, q.ceiling)
           /\ RateAt(q, p) = Bounded(y, LowestRate(q), HighestRate(q), q.floor, q.ceiling)
<1>1. PICK b \in Nat, m \in Nat, pr \in Nat, days \in Nat, pace \in Nat :
        b = q.base /\ m = q.maxAdjust /\ pr = q.premium /\ days = q.daysOut /\ pace = q.pace
  BY SMTT(30) DEF RateQuestions
<1> DEFINE demand(i) == ByLeadTime(ByPace(ByDemand(i), pace), i, days)
           wanted(i) == b * (IF q.weekend THEN Percent(demand(i), 100 + pr) ELSE demand(i))
<1>2. PICK d \in Nat, e \in Nat : d = demand(o) /\ e = demand(p) /\ d <= e
  BY MultiplierGrows
<1>3. PICK v \in Nat, w \in Nat : /\ v = IF q.weekend THEN Percent(d, 100 + pr) ELSE d
                                  /\ w = IF q.weekend THEN Percent(e, 100 + pr) ELSE e
                                  /\ v <= w
  <2>0. PICK k \in Nat : k = 100 + pr
    OBVIOUS
  <2>1. Percent(d, k) \in Nat /\ Percent(e, k) \in Nat /\ Percent(d, k) <= Percent(e, k)
    <3>1. d <= e /\ k <= k
      BY <1>2
    <3>2. QED
      BY <3>1, PercentOf, PercentGrows
  <2>2. CASE q.weekend
    BY <2>0, <2>1, <2>2
  <2>3. CASE ~q.weekend
    BY <1>2, <2>3
  <2>4. QED
    BY <2>2, <2>3
<1>4. b * v \in Nat /\ b * w \in Nat /\ b * v <= b * w
  BY <1>3
<1>5. Percent(100000 * b, 100 + m) = 1000 * (b * (100 + m)) /\ Percent(100000 * b, 100 - m) = 1000 * (b * (100 - m))
  BY PercentExact
<1>6. ASSUME NEW i \in 0..100
      PROVE  RateAt(q, i) = Bounded(wanted(i), LowestRate(q), HighestRate(q), q.floor, q.ceiling)
  <2> DEFINE x == [q EXCEPT !.occupancy = i]
  <2>1. /\ x.occupancy = i /\ x.base = b /\ x.maxAdjust = m /\ x.premium = pr /\ x.daysOut = days /\ x.pace = pace
        /\ x.floor = q.floor /\ x.ceiling = q.ceiling /\ x.weekend = q.weekend
    BY <1>1 DEF RateQuestions
  <2> HIDE DEF x
  <2>2. RecommendedRate(x)
          = Bounded(wanted(i), Percent(100000 * b, 100 - m), Percent(100000 * b, 100 + m), q.floor, q.ceiling)
    BY <2>1 DEF RecommendedRate, Bounded
  <2>3. LowestRate(q) = 1000 * (b * (100 - m)) /\ HighestRate(q) = 1000 * (b * (100 + m))
    BY <1>1 DEF LowestRate, HighestRate
  <2> HIDE DEF wanted, demand
  <2>4. QED
    BY <2>2, <2>3, <1>5 DEF RateAt, x
<1>7. wanted(o) = b * v /\ wanted(p) = b * w
  BY <1>2, <1>3
<1> HIDE DEF wanted, demand
<1>8. PICK x \in Nat, y \in Nat : x = wanted(o) /\ y = wanted(p) /\ x <= y
  BY <1>4, <1>7
<1>9. /\ RateAt(q, o) = Bounded(x, LowestRate(q), HighestRate(q), q.floor, q.ceiling)
      /\ RateAt(q, p) = Bounded(y, LowestRate(q), HighestRate(q), q.floor, q.ceiling)
  BY <1>6, <1>8
<1>10. x <= y
  BY <1>8, SMTT(30)
<1>11. QED
  BY <1>9, <1>10

\* Whatever the plan and the configuration, a forecast is a share, a rate keeps to its floor,
\* its ceiling and the largest adjustment, and once half of what is usual for the weekday is
\* booked another booking never lowers the rate of the heuristic model.
THEOREM RatesFollowBookings == \A q \in RateQuestions : RateFollowsBookings(q)
<1> SUFFICES ASSUME NEW q \in RateQuestions
             PROVE  RateFollowsBookings(q)
  OBVIOUS
<1>1. PICK n \in Nat, b \in Nat, m \in Nat, f \in Nat, c \in Nat :
        n = q.booked /\ b = q.base /\ m = q.maxAdjust /\ f = q.floor /\ c = q.ceiling
  BY SMTT(30) DEF RateQuestions
<1>2. PICK g \in Int : g = Forecast(q, n) /\ g \in Share
  BY ForecastIsShare DEF Share
<1>3. PICK h \in Int : h = Forecast(q, n + 1) /\ h \in Share
  <2>1. PICK k \in Nat : k = n + 1
    OBVIOUS
  <2>2. QED
    BY <2>1, ForecastIsShare DEF Share
<1>4. PICK o \in 0..100, p \in 0..100 : o = g \div 100 /\ p = h \div 100
  <2>1. g \in Share /\ h \in Share
    BY <1>2, <1>3
  <2>2. QED
    BY <2>1 DEF Share
<1>5. PICK low \in Int, high \in Int : low = LowestRate(q) /\ high = HighestRate(q)
  BY <1>1 DEF LowestRate, HighestRate
<1>6. /\ low <= high /\ b * m \in Nat
      /\ low = 1000 * (100 * b - b * m) /\ high = 1000 * (100 * b + b * m)
  BY <1>1, <1>5 DEF LowestRate, HighestRate
<1>7. ASSUME NEW i \in 0..100, NEW j \in 0..100, i <= j
      PROVE  \E x \in Nat, y \in Nat : /\ x <= y
                                     /\ RateAt(q, i) = Bounded(x, low, high, f, c)
                                     /\ RateAt(q, j) = Bounded(y, low, high, f, c)
  <2>1. PICK x \in Nat, y \in Nat :
          /\ x <= y
          /\ RateAt(q, i) = Bounded(x, LowestRate(q), HighestRate(q), q.floor, q.ceiling)
          /\ RateAt(q, j) = Bounded(y, LowestRate(q), HighestRate(q), q.floor, q.ceiling)
    BY <1>7, RateIsBounded
  <2>2. x <= y
    BY <2>1
  <2>3. RateAt(q, i) = Bounded(x, low, high, f, c) /\ RateAt(q, j) = Bounded(y, low, high, f, c)
    BY <2>1, <1>1, <1>5
  <2>4. QED
    BY <2>2, <2>3, SMTT(30)
<1>8. RateFor(q, n) = RateAt(q, o) /\ RateFor(q, n + 1) = RateAt(q, p)
  BY <1>2, <1>3, <1>4 DEF RateFor, RateAt
<1>9. PICK x \in Nat : RateFor(q, n) = Bounded(x, low, high, f, c)
  <2>1. o <= o
    OBVIOUS
  <2>2. QED
    BY <2>1, <1>7, <1>8
<1>10. PICK r \in Int : r = RateFor(q, n) /\ r = Bounded(x, low, high, f, c)
  <2>1. Bounded(x, low, high, f, c) \in Int
    BY BoundedRate
  <2>2. QED
    BY <1>9, <2>1
<1>11. ASSUME f <= c
       PROVE  /\ r \in f..c
              /\ 100 * (r - b) > m * b + 50 => r = f
              /\ 100 * (b - r) > m * b + 50 => r = c
  <2>1. r \in f..c /\ (100000 * r > high + 50000 => r = f) /\ (100000 * r < low - 50000 => r = c)
    <3>1. low <= high
      BY <1>6
    <3>2. LET k == Bounded(x, low, high, f, c)
          IN  k \in f..c /\ (100000 * k > high + 50000 => k = f) /\ (100000 * k < low - 50000 => k = c)
      BY <3>1, <1>11, BoundedRate, SMTT(30)
    <3>3. QED
      BY <1>10, <3>2
  <2>2. PICK a \in Nat : a = b * m /\ a = m * b
    BY <1>6
  <2>3. QED
    BY <2>1, <2>2, <1>6
<1>12. ASSUME q.model = "heuristic", 2 * n >= (IF q.sameDay = <<>> THEN 70 ELSE Mean(q.sameDay))
       PROVE  RateFor(q, n) <= RateFor(q, n + 1)
  <2>1. g <= h
    <3>1. Forecast(q, n) <= Forecast(q, n + 1)
      BY <1>12, ForecastGrows
    <3>2. QED
      BY <1>2, <1>3, <3>1
  <2>2. o <= p
    BY <2>1, <1>4
  <2>3. PICK y \in Nat, z \in Nat : y <= z /\ RateAt(q, o) = Bounded(y, low, high, f, c)
                                    /\ RateAt(q, p) = Bounded(z, low, high, f, c)
    BY <1>7, <2>2
  <2>4. Bounded(y, low, high, f, c) <= Bounded(z, low, high, f, c)
    <3>1. y <= z
      BY <2>3, SMTT(30)
    <3>2. QED
      BY <3>1, BoundedRate
  <2>5. QED
    BY <1>8, <2>3, <2>4
<1>13. Forecast(q, q.booked) \in 0..10000
  <2>1. g \in Share
    BY <1>2
  <2>2. g \in 0..10000
    BY <2>1, SMTT(30) DEF Share
  <2>3. QED
    BY <1>1, <1>2, <2>2
<1>14. QED
  BY <1>1, <1>10, <1>11, <1>12, <1>13 DEF RateFollowsBookings

LEMMA Dividing ==
  ASSUME NEW x \in Nat, NEW m \in Nat, NEW k \in Nat, k > 0, x <= m * k
  PROVE  x \div k <= m /\ x \div k \in Nat
<1>1. x = k * (x \div k) + (x % k) /\ x % k \in 0..(k - 1) /\ x \div k \in Int
  OBVIOUS
<1>2. PICK d \in Int, e \in Nat : d = x \div k /\ e = x % k
  BY <1>1
<1>3. ASSUME d > m PROVE FALSE
  <2>1. k * d >= k * (m + 1)
    BY <1>3
  <2>2. QED
    BY <2>1, <1>1, <1>2
<1>4. ASSUME d < 0 PROVE FALSE
  <2>1. k * d <= -k
    BY <1>4
  <2>2. QED
    BY <2>1, <1>1, <1>2
<1>5. QED
  BY <1>2, <1>3, <1>4

LEMMA ExcessIsNatural ==
  ASSUME NEW q \in OverbookingQuestions, NEW c \in Nat
  PROVE  Excess(q, c) \in Nat
<1>1. PICK a \in Nat, b \in Nat, n \in Nat, x \in Nat :
        a = q.onTheBooks /\ b = q.totalRooms /\ n = q.noShow /\ x = q.cancelled
  BY DEF OverbookingQuestions
<1>2. PICK v \in Nat : v = ExpectedVacancies(q)
  BY <1>1 DEF ExpectedVacancies
<1>3. QED
  BY <1>1, <1>2 DEF Excess, Most

LEMMA CountIsAcceptable ==
  ASSUME NEW q \in OverbookingQuestions
  PROVE  /\ OverbookCount(q) \in Nat
         /\ OverbookCount(q) # 0 => OverbookCount(q) \in Acceptable(q)
<1> DEFINE best == {c \in Acceptable(q) :
                      \A b \in Acceptable(q) : ExpectedValue(q, b) <= ExpectedValue(q, c)}
<1>1. best \subseteq Nat /\ best \subseteq Acceptable(q)
  BY DEF Acceptable, Counts
<1>2. OverbookCount(q) \in {0, Min(best)} /\ (best = {} => OverbookCount(q) = 0)
  BY DEF OverbookCount
<1> HIDE DEF best
<1>3. best # {} => Min(best) \in best
  BY <1>1, LeastNatural DEF Min
<1>4. CASE best = {}
  BY <1>2, <1>4
<1>5. CASE best # {}
  <2>1. Min(best) \in Nat /\ Min(best) \in Acceptable(q)
    BY <1>1, <1>3, <1>5
  <2>2. QED
    BY <1>2, <2>1
<1>6. QED
  BY <1>4, <1>5

\* Whatever a night is like, the agent never advises more overbookings than keep the risk
\* of walking a guest within what the property allows, and reports that risk.
THEOREM OverbookingIsBounded == \A q \in OverbookingQuestions : OverbookingWithinRisk(q)
<1> SUFFICES ASSUME NEW q \in OverbookingQuestions, OverbookCount(q) > 0
             PROVE  /\ WalkProbability(q, OverbookCount(q)) <= q.maxWalk
                    /\ WalkRisk(q) = WalkProbability(q, OverbookCount(q))
  BY DEF OverbookingWithinRisk
<1>1. PICK c \in Nat, m \in Nat : c = OverbookCount(q) /\ m = q.maxWalk
  BY CountIsAcceptable DEF OverbookingQuestions
<1>2. c \in Acceptable(q)
  BY <1>1, CountIsAcceptable
<1>3. PICK x \in Nat : x = Excess(q, c)
  BY ExcessIsNatural
<1>4. x <= m * (c + 1)
  BY <1>1, <1>2, <1>3 DEF Acceptable
<1>5. x \div (c + 1) <= m /\ x \div (c + 1) \in Nat
  BY <1>4, Dividing
<1>6. WalkProbability(q, c) <= m /\ WalkProbability(q, c) \in Nat
  BY <1>3, <1>5 DEF WalkProbability, Least
<1>7. QED
  BY <1>1, <1>6 DEF WalkRisk, Least

-----------------------------------------------------------------------------
(* Totals, counts and the tables they are made of.                         *)

\* SumFunction computes the sum over all of its domain.
LEMMA TotalIsSum ==
  ASSUME NEW S, IsFiniteSet(S), NEW v \in [S -> Int]
  PROVE  \E g : Sums(g, S, v) /\ SumFunction(v) = g[S]
<1> DEFINE F(g) == [s \in SUBSET S |->
                      IF s = {} THEN 0
                      ELSE LET x == CHOOSE y \in s : TRUE IN v[x] + g[s \ {x}]]
           it == CHOOSE g : g = F(g)
<1>1. PICK g \in [SUBSET S -> Int] : Sums(g, S, v)
  BY SumsExist
<1>2. g = F(g)
  <2>1. ASSUME NEW s \in SUBSET S, s # {}
        PROVE  g[s \ {Pick(s)}] + v[Pick(s)] = v[Pick(s)] + g[s \ {Pick(s)}]
    <3>1. Pick(s) \in s
      BY <2>1 DEF Pick
    <3>2. PICK i \in Int, j \in Int : i = v[Pick(s)] /\ j = g[s \ {Pick(s)}]
      BY <3>1
    <3>3. i + j = j + i
      OBVIOUS
    <3>4. QED
      BY <3>2, <3>3
  <2>2. g = [s \in SUBSET S |-> IF s = {} THEN 0 ELSE g[s \ {Pick(s)}] + v[Pick(s)]]
    BY <1>1 DEF Sums
  <2>3. \A s \in SUBSET S : g[s] = IF s = {} THEN 0 ELSE v[Pick(s)] + g[s \ {Pick(s)}]
    <3>1. \A s \in SUBSET S : g[s] = IF s = {} THEN 0 ELSE g[s \ {Pick(s)}] + v[Pick(s)]
      BY <2>2
    <3>2. QED
      BY <3>1, <2>1
  <2>4. QED
    BY <2>3 DEF Pick
<1>3. SumFunction(v) = it[S]
  <2>1. DOMAIN v = S
    OBVIOUS
  <2>2. QED
    BY <2>1 DEF SumFunction, SumFunctionOnSet, FoldFunctionOnSet, MapThenFoldSet
<1>4. it = F(it)
  <2> HIDE DEF F
  <2>1. QED
    BY <1>2
<1>5. \A s \in SUBSET S : it[s] = g[s]
  <2> DEFINE T == {s \in SUBSET S : it[s] = g[s]}
  <2>1. ASSUME NEW s \in SUBSET S, \A x \in s : s \ {x} \in T
        PROVE  s \in T
    <3>1. it[s] = (IF s = {} THEN 0 ELSE v[Pick(s)] + it[s \ {Pick(s)}])
      BY <1>4 DEF Pick
    <3>2. g[s] = (IF s = {} THEN 0 ELSE v[Pick(s)] + g[s \ {Pick(s)}])
      BY <1>2 DEF Pick
    <3>3. s # {} => it[s \ {Pick(s)}] = g[s \ {Pick(s)}]
      BY <2>1 DEF Pick
    <3>4. QED
      BY <3>1, <3>2, <3>3
  <2>2. \A s \in SUBSET S : s \in T
    <3> HIDE DEF T
    <3>1. QED
      BY <2>1, TakingAway
  <2>3. QED
    BY <2>2
<1>6. QED
  BY <1>1, <1>3, <1>5

\* One function gives the sums over all parts of a set.
LEMMA TotalOfPart ==
  ASSUME NEW S, IsFiniteSet(S), NEW v \in [S -> Int], NEW g, Sums(g, S, v), NEW R \in SUBSET S,
         NEW w \in [R -> Int], \A x \in R : v[x] = w[x]
  PROVE  SumFunction(w) = g[R]
<1>1. IsFiniteSet(R)
  BY FS_Subset
<1>2. PICK h : Sums(h, R, w) /\ SumFunction(w) = h[R]
  BY <1>1, TotalIsSum
<1>3. QED
  BY <1>1, <1>2, SumsCoincide

\* Of amounts that are not negative no sum is.
LEMMA SumOfNaturals ==
  ASSUME NEW S, IsFiniteSet(S), NEW v \in [S -> Nat], NEW g, Sums(g, S, v)
  PROVE  \A s \in SUBSET S : g[s] \in Nat
<1> DEFINE T == {s \in SUBSET S : g[s] \in Nat}
<1>1. ASSUME NEW s \in SUBSET S, \A x \in s : s \ {x} \in T
      PROVE  s \in T
  <2>1. CASE s = {}
    <3>1. g[{}] = 0
      BY SumOfNothing
    <3>2. QED
      BY <2>1, <3>1
  <2>2. CASE s # {}
    <3>0. v \in [S -> Int]
      OBVIOUS
    <3>1. PICK x \in s : x = Pick(s)
      BY <2>2, <3>0, SumStep
    <3>2. g[s] = g[s \ {x}] + v[x]
      BY <2>2, <3>0, <3>1, SumStep
    <3>3. g[s \ {x}] \in Nat /\ v[x] \in Nat
      BY <1>1
    <3>4. QED
      BY <3>2, <3>3
  <2>3. QED
    BY <2>1, <2>2
<1>2. \A s \in SUBSET S : s \in T
  <2> HIDE DEF T
  <2>1. QED
    BY <1>1, TakingAway
<1>3. QED
  BY <1>2

\* Counted one by one.
LEMMA SumOfOnes ==
  ASSUME NEW S, IsFiniteSet(S), NEW v \in [S -> Int], \A x \in S : v[x] = 1, NEW g, Sums(g, S, v)
  PROVE  \A s \in SUBSET S : g[s] = Cardinality(s)
<1> DEFINE T == {s \in SUBSET S : g[s] = Cardinality(s)}
<1>1. ASSUME NEW s \in SUBSET S, \A x \in s : s \ {x} \in T
      PROVE  s \in T
  <2>0. IsFiniteSet(s) /\ Cardinality(s) \in Nat
    BY FS_Subset, FS_CardinalityType
  <2>1. CASE s = {}
    <3>1. g[{}] = 0
      BY SumOfNothing
    <3>2. QED
      BY <2>1, <3>1, FS_EmptySet
  <2>2. CASE s # {}
    <3>1. PICK x \in s : x = Pick(s)
      BY <2>2, SumStep
    <3>2. g[s] = g[s \ {x}] + v[x]
      BY <2>2, <3>1, SumStep
    <3>3. g[s \ {x}] = Cardinality(s \ {x}) /\ v[x] = 1
      BY <1>1
    <3>4. Cardinality(s \ {x}) = Cardinality(s) - 1
      BY <2>0, FS_RemoveElement
    <3>5. QED
      BY <2>0, <3>2, <3>3, <3>4
  <2>3. QED
    BY <2>1, <2>2
<1>2. \A s \in SUBSET S : s \in T
  <2> HIDE DEF T
  <2>1. QED
    BY <1>1, TakingAway
<1>3. QED
  BY <1>2

\* What is summed up class by class is all of it.
LEMMA SumOfClasses ==
  ASSUME NEW S, IsFiniteSet(S), NEW v \in [S -> Int], NEW g, Sums(g, S, v),
         NEW K, IsFiniteSet(K), NEW block \in [K -> SUBSET S], NEW w \in [K -> Int],
         \A k \in K : w[k] = g[block[k]],
         \A x \in S : \E k \in K : x \in block[k],
         \A k, l \in K : \A x \in S : x \in block[k] /\ x \in block[l] => k = l
  PROVE  SumFunction(w) = g[S]
<1>1. PICK h : Sums(h, K, w) /\ SumFunction(w) = h[K]
  BY TotalIsSum
<1>0. \A a, b \in SUBSET S : a \cap b = {} => g[a \cup b] = g[a] + g[b]
  BY SumOfParts
<1> DEFINE of(s) == {x \in S : \E k \in s : x \in block[k]}
           T == {s \in SUBSET K : h[s] = g[of(s)]}
<1>2. ASSUME NEW s \in SUBSET K, \A k \in s : s \ {k} \in T
      PROVE  s \in T
  <2>1. CASE s = {}
    <3>1. h[{}] = 0 /\ g[{}] = 0
      BY <1>1, SumOfNothing
    <3>2. of(s) = {}
      BY <2>1
    <3>3. QED
      BY <2>1, <3>1, <3>2
  <2>2. CASE s # {}
    <3>1. PICK k \in s : TRUE
      BY <2>2
    <3>2. h[s] = h[s \ {k}] + w[k]
      BY <1>1, SumOfOneMore
    <3>3. h[s \ {k}] = g[of(s \ {k})]
      BY <1>2
    <3>4. g[of(s)] = g[of(s \ {k})] + g[block[k]]
      <4>1. PICK c \in SUBSET S, d \in SUBSET S : c = of(s \ {k}) /\ d = block[k]
        OBVIOUS
      <4>2. c \cap d = {} /\ of(s) = c \cup d
        BY <4>1
      <4>3. c \cap d = {}
        BY <4>2
      <4>4. g[c \cup d] = g[c] + g[d]
        BY <1>0, <4>3
      <4>5. QED
        BY <4>1, <4>2, <4>4
    <3>5. QED
      BY <3>2, <3>3, <3>4
  <2>3. QED
    BY <2>1, <2>2
<1>3. \A s \in SUBSET K : s \in T
  <2> HIDE DEF T
  <2>1. QED
    BY <1>2, TakingAway
<1>4. of(K) = S
  <2>1. \A x \in S : x \in of(K)
    OBVIOUS
  <2>2. \A x \in of(K) : x \in S
    OBVIOUS
  <2> HIDE DEF of
  <2>3. of(K) \subseteq S
    BY <2>2
  <2>4. QED
    BY <2>1, <2>3
<1>5. h[K] = g[of(K)]
  <2>1. K \in SUBSET K
    OBVIOUS
  <2> HIDE DEF of
  <2>2. QED
    BY <1>3, <2>1
<1> HIDE DEF of, T
<1>6. QED
  BY <1>1, <1>4, <1>5

\* g adds up the values v of the members of S, whatever the order.
Additive(g, S, v) == g[{}] = 0 /\ \A s \in SUBSET S : \A x \in s : g[s] = g[s \ {x}] + v[x]

\* What is summed up of other members, one for one, is the same.
LEMMA SumOneForOne ==
  ASSUME NEW S, NEW v, NEW g, Additive(g, S, v), NEW R, IsFiniteSet(R), NEW w, NEW h, Additive(h, R, w),
         NEW b \in Injection(R, S), \A x \in R : w[x] = v[b[x]],
         NEW image \in SUBSET S, \A y \in S : y \in image <=> \E x \in R : b[x] = y
  PROVE  h[R] = g[image]
<1>0. /\ g[{}] = 0 /\ \A s \in SUBSET S : \A x \in s : g[s] = g[s \ {x}] + v[x]
      /\ h[{}] = 0 /\ \A s \in SUBSET R : \A x \in s : h[s] = h[s \ {x}] + w[x]
      /\ b \in [R -> S] /\ \A x, y \in R : b[x] = b[y] => x = y
  BY DEF Additive, Injection, IsInjective
<1> DEFINE onto(s) == {y \in S : \E x \in s : b[x] = y}
           T == {s \in SUBSET R : h[s] = g[onto(s)]}
<1>1. ASSUME NEW s \in SUBSET R, \A x \in s : s \ {x} \in T
      PROVE  s \in T
  <2>1. CASE s = {}
    <3>1. onto(s) = {}
      BY <2>1
    <3>2. QED
      BY <1>0, <2>1, <3>1
  <2>2. CASE s # {}
    <3>1. PICK x \in s : TRUE
      BY <2>2
    <3>2. h[s] = h[s \ {x}] + w[x]
      BY <1>0
    <3>3. h[s \ {x}] = g[onto(s \ {x})]
      BY <1>1
    <3>4. onto(s) \in SUBSET S /\ b[x] \in onto(s) /\ onto(s) \ {b[x]} = onto(s \ {x})
      BY <1>0
    <3>5. g[onto(s)] = g[onto(s \ {x})] + v[b[x]]
      <4> HIDE DEF onto
      <4>1. PICK d \in SUBSET S, y \in S : d = onto(s) /\ y = b[x] /\ y \in d
        BY <3>4
      <4>2. y \in d
        BY <4>1
      <4>3. g[d] = g[d \ {y}] + v[y]
        BY <1>0, <4>2
      <4>4. QED
        BY <3>4, <4>1, <4>3
    <3>6. QED
      BY <3>2, <3>3, <3>5
  <2>3. QED
    BY <2>1, <2>2
<1>2. \A s \in SUBSET R : s \in T
  <2> HIDE DEF T
  <2>1. QED
    BY <1>1, TakingAway
<1>3. onto(R) = image
  BY <1>0
<1>4. QED
  BY <1>2, <1>3

\* Of rows, their amounts; and without their signs.
Amounts(S) == [x \in S |-> x.amount]

Magnitudes(S) == [x \in S |-> IF x.amount < 0 THEN -x.amount ELSE x.amount]

\* One function gives the amounts of all sets of rows of a table.
LEMMA AmountsOfTable ==
  ASSUME NEW S, IsFiniteSet(S), \A x \in S : x.amount \in Int
  PROVE  \E g : /\ Sums(g, S, Amounts(S)) /\ Amounts(S) \in [S -> Int]
                /\ \A s \in SUBSET S : AmountOf(s) = g[s] /\ g[s] \in Int
                /\ Additive(g, S, Amounts(S))
<1>1. Amounts(S) \in [S -> Int]
  BY DEF Amounts
<1>2. PICK g : Sums(g, S, Amounts(S))
  BY <1>1, SumsExist
<1>3. ASSUME NEW s \in SUBSET S
      PROVE  AmountOf(s) = g[s]
  <2>1. Amounts(s) \in [s -> Int] /\ \A x \in s : Amounts(S)[x] = Amounts(s)[x]
    BY DEF Amounts
  <2>2. SumFunction(Amounts(s)) = g[s]
    BY <1>1, <1>2, <2>1, TotalOfPart
  <2>3. QED
    BY <2>2 DEF AmountOf, Amounts
<1>4. \A s \in SUBSET S : g[s] \in Int
  BY <1>1, <1>2, SumTyped
<1>5. Additive(g, S, Amounts(S))
  BY <1>1, <1>2, SumOfNothing, SumOfOneMore DEF Additive
<1>6. QED
  BY <1>1, <1>2, <1>3, <1>4, <1>5

LEMMA FiniteClasses ==
  ASSUME NEW S, IsFiniteSet(S), NEW K, NEW f \in [S -> K], \A k \in K : \E x \in S : f[x] = k
  PROVE  IsFiniteSet(K)
<1>1. f \in Surjection(S, K)
  BY DEF Surjection
<1>2. QED
  BY <1>1, FS_Surjection

\* The amounts of all types of rows add up to that of all the rows.
LEMMA AmountsByType ==
  ASSUME NEW C \in SUBSET ChargeRows, IsFiniteSet(C)
  PROVE  SumFunction([t \in {c.type : c \in C} |-> AmountOf(OfType(C, t))]) = AmountOf(C)
<1> DEFINE K == {c.type : c \in C}
           w == [t \in K |-> AmountOf(OfType(C, t))]
<1>0. \A x \in C : x.amount \in Int
  BY DEF ChargeRows
<1>1. PICK g : /\ Sums(g, C, Amounts(C)) /\ Amounts(C) \in [C -> Int]
               /\ \A s \in SUBSET C : AmountOf(s) = g[s] /\ g[s] \in Int
  BY <1>0, AmountsOfTable
<1>2. PICK class : class = [c \in C |-> c.type]
  OBVIOUS
<1>3. class \in [C -> K] /\ (\A k \in K : \E x \in C : class[x] = k)
  BY <1>2
<1>4. PICK block : block = [k \in K |-> OfType(C, k)]
  OBVIOUS
<1>5. /\ block \in [K -> SUBSET C] /\ (\A x \in C : \E k \in K : x \in block[k])
      /\ \A k, l \in K : \A x \in C : x \in block[k] /\ x \in block[l] => k = l
  BY <1>4 DEF OfType
<1>6. w \in [K -> Int] /\ \A k \in K : w[k] = g[block[k]]
  BY <1>1, <1>4, <1>5
<1> HIDE DEF K, w
<1>7. IsFiniteSet(K)
  BY <1>3, FiniteClasses
<1>8. SumFunction(w) = g[C]
  <2>1. PICK v \in [C -> Int] : v = Amounts(C) /\ Sums(g, C, v)
    BY <1>1
  <2>2. Sums(g, C, v)
    BY <2>1
  <2>3. QED
    BY <1>5, <1>6, <1>7, <2>2, SumOfClasses
<1>9. QED
  BY <1>1, <1>8 DEF K, w

\* The amounts of two sets of rows without a common row.
LEMMA AmountsOfParts ==
  ASSUME NEW C \in SUBSET ChargeRows, IsFiniteSet(C), NEW a \in SUBSET C, NEW b \in SUBSET C, a \cap b = {}
  PROVE  AmountOf(a \cup b) = AmountOf(a) + AmountOf(b) /\ AmountOf(a) \in Int /\ AmountOf(b) \in Int
<1>0. \A x \in C : x.amount \in Int
  BY DEF ChargeRows
<1>1. PICK g : /\ Sums(g, C, Amounts(C)) /\ Amounts(C) \in [C -> Int]
               /\ \A s \in SUBSET C : AmountOf(s) = g[s] /\ g[s] \in Int
  BY <1>0, AmountsOfTable
<1>2. g[a \cup b] = g[a] + g[b]
  BY <1>1, SumOfParts
<1>3. a \cup b \in SUBSET C
  OBVIOUS
<1>4. QED
  BY <1>1, <1>2, <1>3

\* What reverses charges, one for one, comes to as much as they do.
LEMMA ReversedAmounts ==
  ASSUME NEW C \in SUBSET ChargeRows, IsFiniteSet(C), NEW V \in SUBSET ChargeRows, IsFiniteSet(V),
         \A c, d \in C : c.id = d.id => c = d,
         \A v \in V : \E c \in C : v.of = c.id /\ v.amount = -c.amount,
         \A v, w \in V : v.of = w.of => v = w, \A c \in C : c.amount >= 0
  PROVE  Magnitude(V) = AmountOf({c \in C : \E v \in V : v.of = c.id})
<1>0. \A x \in C \cup V : x.amount \in Int
  BY DEF ChargeRows
<1>1. PICK g : /\ Sums(g, C, Amounts(C)) /\ Amounts(C) \in [C -> Int]
               /\ \A s \in SUBSET C : AmountOf(s) = g[s] /\ g[s] \in Int
               /\ Additive(g, C, Amounts(C))
  BY <1>0, AmountsOfTable
<1>2. PICK w \in [V -> Int] : w = Magnitudes(V)
  <2>1. \A x \in V : (IF x.amount < 0 THEN -x.amount ELSE x.amount) \in Int
    BY <1>0
  <2>2. Magnitudes(V) \in [V -> Int]
    BY <2>1 DEF Magnitudes
  <2>3. QED
    BY <2>2
<1>3. PICK h : Additive(h, V, w) /\ SumFunction(w) = h[V]
  <2>1. PICK h : Sums(h, V, w) /\ SumFunction(w) = h[V]
    BY TotalIsSum
  <2>2. Additive(h, V, w)
    BY <2>1, SumOfNothing, SumOfOneMore DEF Additive
  <2>3. QED
    BY <2>1, <2>2
<1>4. PICK b : b = [v \in V |-> CHOOSE c \in C : v.of = c.id]
  OBVIOUS
<1>5. \A v \in V : b[v] \in C /\ v.of = b[v].id /\ v.amount = -b[v].amount
  BY <1>4
<1>6. b \in Injection(V, C)
  BY <1>4, <1>5 DEF Injection, IsInjective
<1>7. \A x \in V : w[x] = Amounts(C)[b[x]]
  <2> TAKE x \in V
  <2>1. PICK m \in Int : m = b[x].amount /\ m >= 0 /\ x.amount = -m
    BY <1>0, <1>5
  <2>2. w[x] = IF x.amount < 0 THEN -x.amount ELSE x.amount
    BY <1>2 DEF Magnitudes
  <2>3. Amounts(C)[b[x]] = m
    BY <1>5, <2>1 DEF Amounts
  <2>4. QED
    BY <2>1, <2>2, <2>3
<1>8. PICK image \in SUBSET C : image = {c \in C : \E v \in V : v.of = c.id}
  OBVIOUS
<1>9. \A y \in C : y \in image <=> \E x \in V : b[x] = y
  BY <1>5, <1>8
<1>10. h[V] = g[image]
  <2>1. PICK v \in [C -> Int] : v = Amounts(C)
    BY <1>1
  <2>2. \A x \in V : w[x] = v[b[x]]
    BY <1>1, <1>7, <2>1
  <2>3. Additive(g, C, v) /\ Additive(h, V, w)
    BY <1>1, <1>3, <2>1
  <2>4. QED
    BY <1>6, <1>9, <2>2, <2>3, SumOneForOne
<1>11. Magnitude(V) = SumFunction(w)
  BY <1>2 DEF Magnitude, Magnitudes
<1>12. QED
  BY <1>1, <1>3, <1>8, <1>10, <1>11

-----------------------------------------------------------------------------
(* The reports.                                                            *)

\* Every report of a day has the same revenue, the sum of its types, and a charge that is
\* reversed on its own day counts for nothing.
THEOREM RevenueAddsUp == \A h \in Houses, day \in Nat : RevenueAgrees(h, day)
<1> SUFFICES ASSUME NEW h \in Houses, NEW day \in Nat
             PROVE  RevenueAgrees(h, day)
  OBVIOUS
<1>1. PICK C \in SUBSET ChargeRows : C = ChargesOf(h, day) /\ IsFiniteSet(C) /\ \A c, d \in C : c.id = d.id => c = d
  <2>1. ChargesOf(h, day) \in SUBSET h.charges /\ h.charges \in SUBSET ChargeRows /\ IsFiniteSet(h.charges)
    BY DEF ChargesOf, Houses
  <2>2. \A c, d \in ChargesOf(h, day) : c.id = d.id => c = d
    BY DEF ChargesOf, Houses
  <2>3. QED
    BY <2>1, <2>2, FS_Subset
<1>2. PICK V \in SUBSET ChargeRows : V = ReversalsOf(h, day) /\ IsFiniteSet(V)
  <2>1. ReversalsOf(h, day) \in SUBSET h.charges /\ h.charges \in SUBSET ChargeRows /\ IsFiniteSet(h.charges)
    BY DEF ReversalsOf, Houses
  <2>2. QED
    BY <2>1, FS_Subset
<1> DEFINE room == OfType(C, "room")
           tax == OfType(C, "tax")
           food == OfType(C, "food_beverage")
           other == {c \in C : c.type \notin {"room", "tax", "food_beverage"}}
           gone == {c \in C : \E v \in V : v.of = c.id}
<1>3. AmountOf(room) + AmountOf(tax) + AmountOf(food) + AmountOf(other) = AmountOf(C)
  <2>1. /\ room \in SUBSET C /\ tax \in SUBSET C /\ food \in SUBSET C /\ other \in SUBSET C
        /\ room \cap tax = {} /\ (room \cup tax) \cap food = {} /\ (room \cup tax \cup food) \cap other = {}
        /\ C = room \cup tax \cup food \cup other
    BY DEF OfType
  <2> HIDE DEF room, tax, food, other
  <2>2. AmountOf(room \cup tax) = AmountOf(room) + AmountOf(tax) /\ AmountOf(room) \in Int /\ AmountOf(tax) \in Int
    BY <1>1, <2>1, AmountsOfParts
  <2>3. PICK a \in SUBSET C : a = room \cup tax /\ a \cap food = {}
    BY <2>1
  <2>4. AmountOf(a \cup food) = AmountOf(a) + AmountOf(food) /\ AmountOf(food) \in Int
    <3>1. food \in SUBSET C /\ a \cap food = {} /\ IsFiniteSet(C)
      BY <1>1, <2>1, <2>3
    <3>2. QED
      BY <3>1, AmountsOfParts, ZenonT(40)
  <2>5. PICK b \in SUBSET C : b = a \cup food /\ b \cap other = {}
    BY <2>1, <2>3
  <2>6. AmountOf(b \cup other) = AmountOf(b) + AmountOf(other) /\ AmountOf(other) \in Int
    BY <1>1, <2>1, <2>5, AmountsOfParts
  <2>7. C = b \cup other
    BY <2>1, <2>3, <2>5
  <2>8. QED
    BY <2>2, <2>3, <2>4, <2>5, <2>6, <2>7
<1>4. SumFunction([t \in {c.type : c \in C} |-> AmountOf(OfType(C, t))]) = AmountOf(C)
  BY <1>1, AmountsByType
<1>5. ASSUME \A v \in V : \E c \in gone : v.of = c.id /\ v.amount = -c.amount,
             \A v, w \in V : v.of = w.of => v = w, \A c \in C : c.amount >= 0
      PROVE  AmountOf(C) - Magnitude(V) = AmountOf(C \ gone)
  <2>1. Magnitude(V) = AmountOf(gone)
    <3>1. \A v \in V : \E c \in C : v.of = c.id /\ v.amount = -c.amount
      BY <1>5
    <3>2. \A c, d \in C : c.id = d.id => c = d
      BY <1>1
    <3> HIDE DEF gone
    <3>3. Magnitude(V) = AmountOf({c \in C : \E v \in V : v.of = c.id})
      BY <1>1, <1>2, <1>5, <3>1, <3>2, ReversedAmounts
    <3>4. QED
      BY <3>3 DEF gone
  <2>2. PICK a \in SUBSET C, b \in SUBSET C : a = gone /\ b = C \ gone
    OBVIOUS
  <2>3. a \cap b = {} /\ a \cup b = C
    BY <2>2
  <2>4. AmountOf(a \cup b) = AmountOf(a) + AmountOf(b) /\ AmountOf(a) \in Int /\ AmountOf(b) \in Int
    BY <1>1, <2>3, AmountsOfParts
  <2> HIDE DEF gone
  <2>5. PICK i \in Int, j \in Int : i = AmountOf(a) /\ j = AmountOf(b)
    BY <2>4
  <2>6. AmountOf(C) = i + j /\ Magnitude(V) = i /\ AmountOf(C \ gone) = j
    BY <2>1, <2>2, <2>3, <2>4, <2>5
  <2>7. (i + j) - i = j
    OBVIOUS
  <2>8. QED
    BY <2>6, <2>7
<1>6. UNION {OfType(ChargesOf(h, d), "room") : d \in day..day} = room
  <2>1. \A d : d \in day..day <=> d = day
    OBVIOUS
  <2>2. QED
    BY <1>1, <2>1
<1>7. RevenueSummary(h, day).total = AmountOf(C) /\ RevenueSummary(h, day).tax = AmountOf(tax)
      /\ RevenueSummary(h, day).kpis.revenue = AmountOf(room)
  BY <1>1 DEF RevenueSummary, Kpis
<1>8. FinancialSummary(h, day).total = AmountOf(C) /\ FinancialSummary(h, day).kpis.revenue = AmountOf(room)
      /\ FinancialSummary(h, day).byType = [t \in {c.type : c \in C} |-> AmountOf(OfType(C, t))]
      /\ FinancialSummary(h, day).payments = AmountOf(CapturedOn(h, day))
  BY <1>1 DEF FinancialSummary, Kpis
<1>9. LET daily == DailyRevenue(h, day)
      IN  /\ daily.total = AmountOf(C) /\ daily.room = AmountOf(room) /\ daily.tax = AmountOf(tax)
          /\ daily.foodBeverage = AmountOf(food) /\ daily.other = AmountOf(other)
          /\ daily.net = AmountOf(C) - Magnitude(V) /\ daily.payments = AmountOf(CapturedOn(h, day))
  BY <1>1, <1>2 DEF DailyRevenue
<1>10. OccupancyTrend(h, day, day).revenue = AmountOf(room)
  BY <1>6 DEF OccupancyTrend
<1>11. {c \in ChargesOf(h, day) : \E v \in ReversalsOf(h, day) : v.of = c.id} = gone
  BY <1>1, <1>2
<1> HIDE DEF room, tax, food, other, gone
<1>12. QED
  BY <1>1, <1>2, <1>3, <1>4, <1>5, <1>7, <1>8, <1>9, <1>10, <1>11 DEF RevenueAgrees

\* As long as nobody has overstayed or left early, the reports agree on the rooms sold.
LEMMA SoldAlike == \A h \in Houses, day \in Nat : RoomsSoldAgree(h, day)
<1> SUFFICES ASSUME NEW h \in Houses, NEW day \in Nat,
                    \A r \in h.reservations : /\ r.status \in InHouse => day < r.to
                                              /\ r.status = "checked_out" => r.to <= day
             PROVE  LET n == Cardinality(RoomsSoldOn(h, day))
                    IN /\ RevenueSummary(h, day).kpis = FinancialSummary(h, day).kpis
                       /\ FinancialSummary(h, day).kpis = OccupancyTrend(h, day, day).daily[day]
                       /\ Occupancy(h, day).stayovers = n
                       /\ RoomsSoldOn(h, day) \subseteq RoomsOccupiedOrBooked(h, day)
  BY DEF RoomsSoldAgree
<1>1. \A r \in h.reservations : r.from \in Nat /\ r.to \in Nat
  BY DEF Houses, StayRows
<1>2. RoomsSold(h, day) = RoomsSoldOn(h, day)
  BY <1>1 DEF RoomsSold, RoomsSoldOn
<1>3. RevenueSummary(h, day).kpis = FinancialSummary(h, day).kpis
  BY DEF RevenueSummary, FinancialSummary
<1>4. FinancialSummary(h, day).kpis = OccupancyTrend(h, day, day).daily[day]
  <2>1. day \in day..day
    OBVIOUS
  <2>2. QED
    BY <1>2, <2>1 DEF FinancialSummary, OccupancyTrend
<1>5. Occupancy(h, day).stayovers = Cardinality(RoomsSoldOn(h, day))
  BY <1>2 DEF Occupancy
<1>6. RoomsSoldOn(h, day) \subseteq RoomsOccupiedOrBooked(h, day)
  <2>1. \A r \in RoomsSoldOn(h, day) : r.status # "checked_out"
    BY <1>1, <1>2 DEF RoomsSold, InHouse
  <2>2. QED
    BY <2>1 DEF RoomsSoldOn, RoomsOccupiedOrBooked
<1>7. QED
  BY <1>3, <1>4, <1>5, <1>6

\* One mail a day at most.
LEMMA OneMailADay == \A h \in Houses, day \in Nat : OneTriggerADay(h, day)
<1> SUFFICES ASSUME NEW h \in Houses, NEW day \in Nat, NEW r \in h.reservations
             PROVE  /\ Cardinality(Triggers(r, day)) <= 1
                    /\ r.status \in {"cancelled", "no_show"} => Triggers(r, day) = {}
  BY DEF OneTriggerADay
<1>1. /\ r.from \in Nat /\ r.to \in Nat /\ r.out \in Nat
      /\ r.status \in {"pending", "confirmed", "assigned", "checked_in", "stayover", "due_out", "checked_out",
                       "cancelled", "no_show"}
  BY DEF Houses, StayRows, StayStatuses
<1>2. \E t : Triggers(r, day) \subseteq {t}
  <2>1. CASE r.status \in {"confirmed", "assigned"}
    <3>1. CASE r.from = day + 1
      <4>1. Triggers(r, day) \subseteq {"pre_arrival"}
        BY <1>1, <2>1, <3>1 DEF Triggers, InHouse
      <4>2. QED
        BY <4>1
    <3>2. CASE r.from # day + 1
      <4>1. Triggers(r, day) \subseteq {"check_in_ready"}
        BY <1>1, <2>1, <3>2 DEF Triggers, InHouse
      <4>2. QED
        BY <4>1
    <3>3. QED
      BY <3>1, <3>2
  <2>2. CASE r.status \in InHouse
    <3>1. CASE r.to = day + 1
      <4>1. Triggers(r, day) \subseteq {"pre_departure"}
        BY <1>1, <2>2, <3>1 DEF Triggers, InHouse
      <4>2. QED
        BY <4>1
    <3>2. CASE r.to # day + 1
      <4>1. Triggers(r, day) \subseteq {"in_stay_offer"}
        BY <1>1, <2>2, <3>2 DEF Triggers, InHouse
      <4>2. QED
        BY <4>1
    <3>3. QED
      BY <3>1, <3>2
  <2>3. CASE r.status \in {"pending", "checked_out", "cancelled", "no_show"}
    <3>1. Triggers(r, day) \subseteq {"post_stay"}
      BY <1>1, <2>3 DEF Triggers, InHouse
    <3>2. QED
      BY <3>1
  <2>4. QED
    BY <1>1, <2>1, <2>2, <2>3 DEF InHouse
<1>3. Cardinality(Triggers(r, day)) <= 1
  <2>1. PICK t : Triggers(r, day) \subseteq {t}
    BY <1>2
  <2>2. IsFiniteSet({t}) /\ Cardinality({t}) = 1
    BY FS_Singleton
  <2>3. QED
    BY <2>1, <2>2, FS_Subset, FS_CardinalityType
<1>4. r.status \in {"cancelled", "no_show"} => Triggers(r, day) = {}
  BY DEF Triggers, InHouse
<1>5. QED
  BY <1>3, <1>4

LEMMA DivisionBounds ==
  ASSUME NEW x \in Nat, NEW k \in Nat, k > 0
  PROVE  \E d \in Nat : d = x \div k /\ k * d <= x /\ x < k * d + k
<1>1. x = k * (x \div k) + (x % k) /\ x % k \in 0..(k - 1) /\ x \div k \in Int
  OBVIOUS
<1>2. PICK d \in Int, e \in Nat : d = x \div k /\ e = x % k
  BY <1>1
<1>3. x = k * d + e /\ e < k
  BY <1>1, <1>2
<1>4. ASSUME d < 0 PROVE FALSE
  <2>1. k * d <= -k
    BY <1>4
  <2>2. QED
    BY <2>1, <1>3
<1>5. d \in Nat
  BY <1>4
<1>6. k * d \in Int
  OBVIOUS
<1>7. k * d <= x /\ x < k * d + k
  BY <1>3, <1>6
<1>8. QED
  BY <1>2, <1>5, <1>7

LEMMA RatioTyped ==
  ASSUME NEW a \in Nat, NEW p \in Int
  PROVE  Ratio(a, p) \in Nat
<1>1. CASE p <= 0
  BY <1>1 DEF Ratio
<1>2. CASE p > 0
  <2>1. PICK x \in Nat, k \in Nat : x = 2 * a + p /\ k = 2 * p /\ k > 0
    BY <1>2
  <2>2. k > 0
    BY <2>1
  <2>3. x \div k \in Nat
    BY <2>2, DivisionBounds
  <2>4. QED
    BY <1>2, <2>1, <2>3 DEF Ratio
<1>3. QED
  BY <1>1, <1>2

\* Shared among more, there is not more for each.
LEMMA RatioFalls ==
  ASSUME NEW a \in Nat, NEW m \in Nat, NEW n \in Nat, 0 < m, m <= n
  PROVE  Ratio(a, n) <= Ratio(a, m)
<1>1. PICK x \in Nat, k \in Nat, y \in Nat, l \in Nat : x = 2 * a + n /\ k = 2 * n /\ y = 2 * a + m /\ l = 2 * m
  OBVIOUS
<1>2. k > 0 /\ l > 0
  BY <1>1
<1>3. PICK q \in Nat : q = x \div k /\ k * q <= x /\ x < k * q + k
  BY <1>2, DivisionBounds
<1>4. PICK r \in Nat : r = y \div l /\ l * r <= y /\ y < l * r + l
  BY <1>2, DivisionBounds
<1>5. 2 * (n * q) <= 2 * a + n /\ 2 * a + m < 2 * (m * r) + 2 * m
  <2>1. k * q <= x /\ y < l * r + l
    BY <1>3, <1>4
  <2>2. k * q = 2 * (n * q) /\ l * r = 2 * (m * r)
    BY <1>1
  <2>3. QED
    BY <1>1, <2>1, <2>2
<1>6. ASSUME q > r PROVE FALSE
  <2>1. PICK s \in Nat : s = q - r - 1
    BY <1>6
  <2>2. m * q = m * r + m + m * s /\ m * s >= 0
    <3>1. q = r + 1 + s
      BY <2>1
    <3>2. m * (r + 1 + s) = m * r + m + m * s
      OBVIOUS
    <3>3. QED
      BY <3>1, <3>2
  <2>3. PICK p \in Nat : p = 2 * q - 1
    BY <1>6
  <2>4. m * p <= n * p
    OBVIOUS
  <2>5. m * p = 2 * (m * q) - m /\ n * p = 2 * (n * q) - n
    BY <2>3
  <2>6. m * q \in Int /\ n * q \in Int /\ m * r \in Int /\ m * s \in Int
    OBVIOUS
  <2>7. 2 * (m * q) - m <= 2 * (n * q) - n
    BY <2>4, <2>5
  <2>8. QED
    BY <1>5, <2>2, <2>6, <2>7
<1>7. Ratio(a, n) = q /\ Ratio(a, m) = r
  BY <1>1, <1>3, <1>4 DEF Ratio
<1>8. QED
  BY <1>6, <1>7

\* A share of all of them is at most all of it, in hundredths of a percent.
LEMMA RatioOfShare ==
  ASSUME NEW s \in Nat, NEW n \in Int, s <= n
  PROVE  Ratio(10000 * s, n) \in Share
<1>1. CASE n <= 0
  BY <1>1 DEF Ratio, Share
<1>2. CASE n > 0
  <2>1. PICK x \in Nat, k \in Nat : x = 2 * (10000 * s) + n /\ k = 2 * n
    BY <1>2
  <2>2. k > 0
    BY <1>2, <2>1
  <2>3. PICK d \in Nat : d = x \div k /\ k * d <= x /\ x < k * d + k
    BY <2>2, DivisionBounds
  <2>4. k * d <= x
    BY <2>3
  <2>5. ASSUME d > 10000 PROVE FALSE
    <3>1. k * d >= k * 10001
      BY <2>5
    <3>2. k * d \in Int
      OBVIOUS
    <3>3. QED
      BY <1>2, <2>1, <2>4, <3>1, <3>2
  <2>6. d \in Share
    BY <2>5 DEF Share
  <2>7. Ratio(10000 * s, n) = d
    BY <1>2, <2>1, <2>3 DEF Ratio
  <2>8. QED
    BY <2>6, <2>7
<1>3. QED
  BY <1>1, <1>2

LEMMA HouseCounts ==
  ASSUME NEW h \in Houses, NEW day \in Nat
  PROVE  /\ AvailableRooms(h) \in Int /\ h.totalRooms \in Nat
         /\ Cardinality(RoomsSold(h, day)) \in Nat
         /\ IsFiniteSet(RoomsOccupiedOrBooked(h, day)) /\ Cardinality(RoomsOccupiedOrBooked(h, day)) \in Nat
<1>1. IsFiniteSet(h.reservations) /\ IsFiniteSet(h.rooms) /\ h.totalRooms \in Nat
  BY DEF Houses
<1>2. OutOfUse(h) \in Nat
  <2>1. {x \in ActiveRooms(h) : x.status \in {"out_of_order", "out_of_service"}} \in SUBSET h.rooms
    BY DEF ActiveRooms
  <2>2. QED
    BY <1>1, <2>1, FS_Subset, FS_CardinalityType DEF OutOfUse
<1>3. RoomsSold(h, day) \in SUBSET h.reservations /\ RoomsOccupiedOrBooked(h, day) \in SUBSET h.reservations
  BY SMTT(30) DEF RoomsSold, RoomsOccupiedOrBooked
<1>4. QED
  BY <1>1, <1>2, <1>3, FS_Subset, FS_CardinalityType DEF AvailableRooms

\* No share is more than the whole, no room earns more than one that is sold.
LEMMA SaneFigures == \A h \in Houses, day \in Nat : FiguresAreSane(h, day)
<1> SUFFICES ASSUME NEW h \in Houses, NEW day \in Nat
             PROVE  FiguresAreSane(h, day)
  OBVIOUS
<1> DEFINE k == FinancialSummary(h, day).kpis
           i == RevenueInsights(h, day)
           hints == Suggestions(i.occupancy, i.free, h.totalRooms)
<1>1. ASSUME k.sold <= AvailableRooms(h)
      PROVE  k.occupancy \in Share /\ (k.revenue >= 0 => k.revpar <= k.adr)
  <2>0. PICK x : x = AmountOf(OfType(ChargesOf(h, day), "room"))
    OBVIOUS
  <2>1. PICK n \in Nat, a \in Int : n = Cardinality(RoomsSold(h, day)) /\ a = AvailableRooms(h)
    BY HouseCounts
  <2>2. x \in Int
    <3>1. OfType(ChargesOf(h, day), "room") \in SUBSET h.charges /\ IsFiniteSet(h.charges)
          /\ \A c \in h.charges : c.amount \in Int
      BY DEF OfType, ChargesOf, Houses, ChargeRows
    <3>2. QED
      BY <2>0, <3>1, AmountsOfTable
  <2>3. /\ k.sold = n /\ k.occupancy = Ratio(10000 * n, a) /\ k.adr = Ratio(x, n) /\ k.revenue = x
        /\ k.revpar = IF n = 0 THEN 0 ELSE Ratio(x, a)
    BY <2>0, <2>1 DEF FinancialSummary, Kpis
  <2>4. n <= a
    BY <1>1, <2>1, <2>3
  <2>5. Ratio(10000 * n, a) \in Share
    BY <2>4, RatioOfShare
  <2>6. ASSUME x >= 0
        PROVE  (IF n = 0 THEN 0 ELSE Ratio(x, a)) <= Ratio(x, n)
    <3>1. CASE n = 0
      BY <3>1 DEF Ratio
    <3>2. CASE n # 0
      <4>1. PICK y \in Nat, b \in Nat : y = x /\ b = a
        BY <2>2, <2>4, <2>6
      <4>2. 0 < n /\ n <= b
        BY <2>4, <3>2, <4>1
      <4>3. Ratio(y, b) <= Ratio(y, n)
        BY <4>2, RatioFalls
      <4>4. QED
        BY <3>2, <4>1, <4>3
    <3>3. QED
      BY <3>1, <3>2
  <2> HIDE DEF k
  <2>7. QED
    BY <2>3, <2>5, <2>6
<1>2. ASSUME i.sold <= h.totalRooms
      PROVE  i.revpar <= i.adr /\ i.occupancy \in Share
  <2> DEFINE stays == RoomsOccupiedOrBooked(h, day)
             shares == [r \in stays |-> NightShare(r)]
  <2>1. IsFiniteSet(stays) /\ Cardinality(stays) \in Nat /\ h.totalRooms \in Nat
    BY HouseCounts
  <2>2. shares \in [stays -> Nat]
    <3>1. ASSUME NEW r \in stays
          PROVE  NightShare(r) \in Nat
      <4>1. r.amount \in Nat /\ r.from \in Nat /\ r.to \in Nat
        BY DEF RoomsOccupiedOrBooked, Houses, StayRows
      <4>2. PICK p \in Int : p = IF r.to = r.from THEN 1 ELSE r.to - r.from
        BY <4>1
      <4>3. PICK a \in Nat : a = r.amount
        BY <4>1
      <4>4. Ratio(a, p) \in Nat
        BY RatioTyped
      <4>5. QED
        BY <4>2, <4>3, <4>4 DEF NightShare
    <3> HIDE DEF stays
    <3>2. QED
      BY <3>1
  <2> HIDE DEF stays, shares
  <2>3. PICK g : Sums(g, stays, shares) /\ SumFunction(shares) = g[stays]
    <3>1. shares \in [stays -> Int]
      BY <2>2
    <3>2. QED
      BY <2>1, <3>1, TotalIsSum
  <2>4. g[stays] \in Nat /\ (stays = {} => g[stays] = 0)
    <3>1. Sums(g, stays, shares)
      BY <2>3
    <3>2. g[stays] \in Nat
      BY <2>1, <2>2, <3>1, SumOfNaturals
    <3>3. g[{}] = 0
      BY <3>1, SumOfNothing
    <3>4. QED
      BY <3>2, <3>3
  <2>5. PICK n \in Nat, a \in Nat, x \in Nat : n = Cardinality(stays) /\ a = h.totalRooms /\ x = SumFunction(shares)
    BY <2>1, <2>3, <2>4
  <2>6. n = 0 => x = 0
    BY <2>1, <2>3, <2>4, <2>5, FS_EmptySet
  <2>7. i.sold = n /\ i.occupancy = Ratio(10000 * n, a) /\ i.adr = Ratio(x, n) /\ i.revpar = Ratio(x, a)
    BY <2>5 DEF RevenueInsights, stays, shares
  <2>8. n <= a
    BY <1>2, <2>5, <2>7
  <2>9. Ratio(10000 * n, a) \in Share
    BY <2>8, RatioOfShare
  <2>10. Ratio(x, a) <= Ratio(x, n)
    <3>1. CASE n = 0
      <4>1. Ratio(0, a) = 0 /\ Ratio(0, 0) = 0
        <5>1. CASE a = 0
          BY <5>1 DEF Ratio
        <5>2. CASE a > 0
          <6>1. PICK b \in Nat : b = 2 * a /\ a < b
            BY <5>2
          <6>2. (2 * 0 + a) \div b = 0
            BY <6>1
          <6>3. QED
            BY <5>2, <6>1, <6>2 DEF Ratio
        <5>3. QED
          BY <5>1, <5>2
      <4>2. QED
        BY <2>6, <3>1, <4>1
    <3>2. CASE n # 0
      <4>1. 0 < n /\ n <= a
        BY <2>8, <3>2
      <4>2. QED
        BY <4>1, RatioFalls
    <3>3. QED
      BY <3>1, <3>2
  <2> HIDE DEF i
  <2>11. QED
    BY <2>7, <2>9, <2>10
<1>3. i.occupancy \in Nat
  <2>1. PICK n \in Nat, a \in Nat : n = Cardinality(RoomsOccupiedOrBooked(h, day)) /\ a = h.totalRooms
    BY HouseCounts
  <2>2. Ratio(10000 * n, a) \in Nat
    <3>1. PICK b \in Nat : b = 10000 * n
      OBVIOUS
    <3>2. Ratio(b, a) \in Nat
      BY RatioTyped
    <3>3. QED
      BY <3>1, <3>2
  <2>3. QED
    BY <2>1, <2>2 DEF RevenueInsights
<1>4. /\ "stop_sell" \in hints => "rate_increase" \in hints /\ "rate_decrease" \notin hints
      /\ "open_channel" \in hints => "rate_decrease" \in hints
  <2>0. PICK f, a : f = i.free /\ a = h.totalRooms
    OBVIOUS
  <2>1. PICK o \in Nat : o = i.occupancy
    BY <1>3
  <2>2. /\ "stop_sell" \in Suggestions(o, f, a) => o > 9500
        /\ o > 9000 => "rate_increase" \in Suggestions(o, f, a)
        /\ "rate_decrease" \in Suggestions(o, f, a) <=> o < 4000
        /\ "open_channel" \in Suggestions(o, f, a) => o < 4000
    BY DEF Suggestions
  <2>3. QED
    BY <2>0, <2>1, <2>2
<1> HIDE DEF k, i, hints
<1>5. FiguresAreSane(h, day)
        <=> /\ k.sold <= AvailableRooms(h) => k.occupancy \in 0..10000 /\ (k.revenue >= 0 => k.revpar <= k.adr)
            /\ i.sold <= h.totalRooms => i.revpar <= i.adr /\ i.occupancy \in 0..10000
            /\ "stop_sell" \in hints => "rate_increase" \in hints /\ "rate_decrease" \notin hints
            /\ "open_channel" \in hints => "rate_decrease" \in hints
  BY DEF FiguresAreSane, k, i, hints
<1>6. \A x : x \in Share => x \in 0..10000
  BY SMTT(30) DEF Share
<1>7. QED
  BY <1>1, <1>2, <1>4, <1>5, <1>6

\* Counted class by class, every member is counted once.
LEMMA CountedByClass ==
  ASSUME NEW S, IsFiniteSet(S), NEW K, IsFiniteSet(K), NEW block \in [K -> SUBSET S],
         \A x \in S : \E k \in K : x \in block[k],
         \A k, l \in K : \A x \in S : x \in block[k] /\ x \in block[l] => k = l
  PROVE  SumFunction([k \in K |-> Cardinality(block[k])]) = Cardinality(S)
<1>1. PICK v : v = [x \in S |-> 1]
  OBVIOUS
<1>2. v \in [S -> Int] /\ \A x \in S : v[x] = 1
  BY <1>1
<1>3. PICK g : Sums(g, S, v)
  BY <1>2, SumsExist
<1>4. \A s \in SUBSET S : g[s] = Cardinality(s)
  BY <1>2, <1>3, SumOfOnes
<1>5. PICK w : w = [k \in K |-> Cardinality(block[k])]
  OBVIOUS
<1>6. w \in [K -> Int] /\ \A k \in K : w[k] = g[block[k]]
  <2>1. ASSUME NEW k \in K
        PROVE  Cardinality(block[k]) \in Int /\ Cardinality(block[k]) = g[block[k]]
    <3>1. block[k] \in SUBSET S
      OBVIOUS
    <3>2. IsFiniteSet(block[k])
      BY <3>1, FS_Subset
    <3>3. QED
      BY <3>1, <3>2, <1>4, FS_CardinalityType
  <2>2. QED
    BY <1>5, <2>1
<1>7. SumFunction(w) = g[S]
  BY <1>2, <1>3, <1>6, SumOfClasses
<1>8. QED
  BY <1>4, <1>5, <1>7

\* Counted by a column, too.
LEMMA CountedByColumn ==
  ASSUME NEW S, IsFiniteSet(S), NEW K, NEW f \in [S -> K], \A k \in K : \E x \in S : f[x] = k
  PROVE  SumFunction([k \in K |-> Cardinality({x \in S : f[x] = k})]) = Cardinality(S)
<1>1. IsFiniteSet(K)
  BY FiniteClasses
<1>2. PICK block : block = [k \in K |-> {x \in S : f[x] = k}]
  OBVIOUS
<1>3. /\ block \in [K -> SUBSET S] /\ (\A x \in S : \E k \in K : x \in block[k])
      /\ \A k, l \in K : \A x \in S : x \in block[k] /\ x \in block[l] => k = l
  BY <1>2
<1>4. SumFunction([k \in K |-> Cardinality(block[k])]) = Cardinality(S)
  BY <1>1, <1>3, CountedByClass
<1>5. [k \in K |-> Cardinality(block[k])] = [k \in K |-> Cardinality({x \in S : f[x] = k})]
  BY <1>2
<1>6. QED
  BY <1>4, <1>5

LEMMA CountOfParts ==
  ASSUME NEW S, IsFiniteSet(S), NEW a \in SUBSET S, NEW b \in SUBSET S, a \cap b = {}
  PROVE  /\ Cardinality(a \cup b) = Cardinality(a) + Cardinality(b) /\ Cardinality(a) \in Nat /\ Cardinality(b) \in Nat
         /\ Cardinality(a) + Cardinality(b) <= Cardinality(S) /\ Cardinality(S) \in Nat
<1>1. IsFiniteSet(a) /\ IsFiniteSet(b) /\ Cardinality(a) \in Nat /\ Cardinality(b) \in Nat
  BY FS_Subset, FS_CardinalityType
<1>2. Cardinality(a \cup b) = Cardinality(a) + Cardinality(b) - Cardinality(a \cap b)
  BY <1>1, FS_Union
<1>3. Cardinality(a \cap b) = 0
  BY FS_EmptySet
<1>4. a \cup b \in SUBSET S
  OBVIOUS
<1>5. Cardinality(a \cup b) <= Cardinality(S) /\ Cardinality(S) \in Nat
  BY <1>4, FS_Subset, FS_CardinalityType
<1>6. QED
  BY <1>1, <1>2, <1>3, <1>5

\* The tasks of a day, and those of them that are done.
TaskStatuses == {"pending", "assigned", "in_progress", "completed", "inspected", "skipped"}

TasksOf(h, day) == {t \in h.tasks : t.day = day}

DoneOn(h, day) == {t \in TasksOf(h, day) : t.status \in {"completed", "inspected"}}

LEMMA TaskTables ==
  ASSUME NEW h \in Houses, NEW day \in Nat
  PROVE  /\ TasksOf(h, day) \in SUBSET TaskRows /\ IsFiniteSet(TasksOf(h, day)) /\ IsFiniteSet(TaskStatuses)
         /\ DoneOn(h, day) \in SUBSET TasksOf(h, day) /\ IsFiniteSet(DoneOn(h, day))
         /\ DoneOn(h, day) = {t \in h.tasks : t.day \in day..day /\ t.status \in {"completed", "inspected"}}
<1>1. h.tasks \in SUBSET TaskRows /\ IsFiniteSet(h.tasks)
  BY DEF Houses
<1>2. TasksOf(h, day) \in SUBSET h.tasks /\ DoneOn(h, day) \in SUBSET TasksOf(h, day)
  BY DEF TasksOf, DoneOn
<1>3. IsFiniteSet(TasksOf(h, day)) /\ IsFiniteSet(DoneOn(h, day))
  BY <1>1, <1>2, FS_Subset
<1>4. \A d : d \in day..day <=> d = day
  OBVIOUS
<1>5. DoneOn(h, day) = {t \in h.tasks : t.day \in day..day /\ t.status \in {"completed", "inspected"}}
  BY <1>4 DEF DoneOn, TasksOf
<1>6. IsFiniteSet(TaskStatuses)
  <2>1. /\ IsFiniteSet({"pending"}) /\ IsFiniteSet({"assigned"}) /\ IsFiniteSet({"in_progress"})
        /\ IsFiniteSet({"completed"}) /\ IsFiniteSet({"inspected"}) /\ IsFiniteSet({"skipped"})
    BY FS_Singleton
  <2>2. IsFiniteSet({"pending"} \cup {"assigned"}) /\ IsFiniteSet({"in_progress"} \cup {"completed"})
        /\ IsFiniteSet({"inspected"} \cup {"skipped"})
    BY <2>1, FS_Union
  <2>3. IsFiniteSet(({"pending"} \cup {"assigned"}) \cup ({"in_progress"} \cup {"completed"}))
    BY <2>2, FS_Union
  <2>4. IsFiniteSet((({"pending"} \cup {"assigned"}) \cup ({"in_progress"} \cup {"completed"}))
                      \cup ({"inspected"} \cup {"skipped"}))
    BY <2>2, <2>3, FS_Union
  <2>5. TaskStatuses = (({"pending"} \cup {"assigned"}) \cup ({"in_progress"} \cup {"completed"}))
                         \cup ({"inspected"} \cup {"skipped"})
    BY DEF TaskStatuses
  <2>6. QED
    BY <2>4, <2>5
<1>7. QED
  BY <1>1, <1>2, <1>3, <1>5, <1>6

\* Those of a set of tasks that are given to somebody, by housekeeper.
LEMMA CountedByHousekeeper ==
  ASSUME NEW S \in SUBSET TaskRows, IsFiniteSet(S)
  PROVE  LET staff == {t.by : t \in S} \ {"nobody"}
             given == {t \in S : t.by # "nobody"}
         IN  /\ SumFunction([k \in staff |-> Cardinality({t \in S : t.by = k})]) = Cardinality(given)
             /\ Cardinality(given) <= Cardinality(S)
<1> DEFINE staff == {t.by : t \in S} \ {"nobody"}
           given == {t \in S : t.by # "nobody"}
<1>1. IsFiniteSet(given) /\ Cardinality(given) <= Cardinality(S)
  <2>1. given \in SUBSET S
    OBVIOUS
  <2>2. QED
    BY <2>1, FS_Subset
<1>2. PICK f : f = [t \in given |-> t.by]
  OBVIOUS
<1>3. f \in [given -> staff] /\ \A k \in staff : \E x \in given : f[x] = k
  BY <1>2
<1>4. \A k \in staff : {x \in given : f[x] = k} = {t \in S : t.by = k}
  BY <1>2
<1> HIDE DEF staff, given
<1>5. SumFunction([k \in staff |-> Cardinality({x \in given : f[x] = k})]) = Cardinality(given)
  BY <1>1, <1>3, CountedByColumn
<1>6. [k \in staff |-> Cardinality({x \in given : f[x] = k})] = [k \in staff |-> Cardinality({t \in S : t.by = k})]
  BY <1>4
<1>7. QED
  BY <1>1, <1>5, <1>6 DEF staff, given

\* On the dashboards every task is counted once.
THEOREM TasksCountedOnce == \A h \in Houses, day \in Nat : TasksAreCounted(h, day)
<1> SUFFICES ASSUME NEW h \in Houses, NEW day \in Nat
             PROVE  TasksAreCounted(h, day)
  OBVIOUS
<1> DEFINE T == TasksOf(h, day)
           D == DoneOn(h, day)
           of(s) == {t \in T : t.status = s}
           board == Dashboard(h, day)
           stats == Analytics(h, day, day)
<1>0. /\ T \in SUBSET TaskRows /\ IsFiniteSet(T) /\ IsFiniteSet(TaskStatuses) /\ D \in SUBSET T /\ IsFiniteSet(D)
      /\ D = {t \in h.tasks : t.day \in day..day /\ t.status \in {"completed", "inspected"}}
  BY TaskTables
<1>1. /\ board.tasks = [s \in TaskStatuses |-> Cardinality(of(s))] /\ board.total = Cardinality(T)
      /\ board.staff = [k \in {t.by : t \in T} \ {"nobody"} |->
                          [assigned |-> Cardinality({t \in T : t.by = k}),
                           completed |-> Cardinality({t \in T : t.by = k /\ t.status \in {"completed", "inspected"}}),
                           inProgress |-> Cardinality({t \in T : t.by = k /\ t.status = "in_progress"})]]
  BY DEF Dashboard, TasksOf, TaskStatuses
<1>2. /\ stats.total = Cardinality(D)
      /\ stats.byType = [k \in {t.type : t \in D} |-> Cardinality({t \in D : t.type = k})]
      /\ stats.byStaff = [k \in {t.by : t \in D} \ {"nobody"} |-> Cardinality({t \in D : t.by = k})]
  <2> HIDE DEF D
  <2>1. QED
    BY <1>0 DEF Analytics
<1>3. SumFunction(board.tasks) = board.total
  <2>1. PICK block : block = [s \in TaskStatuses |-> of(s)]
    OBVIOUS
  <2>2. \A t \in T : t.status \in TaskStatuses
    BY <1>0 DEF TaskRows, TaskStatuses
  <2>3. /\ block \in [TaskStatuses -> SUBSET T] /\ (\A x \in T : \E k \in TaskStatuses : x \in block[k])
        /\ \A k, l \in TaskStatuses : \A x \in T : x \in block[k] /\ x \in block[l] => k = l
    <3> HIDE DEF T
    <3>1. QED
      BY <2>1, <2>2
  <2>4. SumFunction([k \in TaskStatuses |-> Cardinality(block[k])]) = Cardinality(T)
    <3> HIDE DEF T, of
    <3>1. QED
      BY <1>0, <2>3, CountedByClass
  <2>5. [k \in TaskStatuses |-> Cardinality(block[k])] = [s \in TaskStatuses |-> Cardinality(of(s))]
    BY <2>1
  <2> HIDE DEF T, of, board
  <2>6. QED
    BY <1>1, <2>4, <2>5
<1>4. SumFunction([k \in DOMAIN board.staff |-> board.staff[k].assigned])
        = Cardinality({t \in h.tasks : t.day = day /\ t.by # "nobody"})
  <2>1. {t \in T : t.by # "nobody"} = {t \in h.tasks : t.day = day /\ t.by # "nobody"}
    BY DEF TasksOf
  <2> HIDE DEF T, board
  <2>2. [k \in DOMAIN board.staff |-> board.staff[k].assigned]
          = [k \in {t.by : t \in T} \ {"nobody"} |-> Cardinality({t \in T : t.by = k})]
    BY <1>1
  <2>3. QED
    BY <1>0, <2>1, <2>2, CountedByHousekeeper
<1>5. stats.total = board.tasks["completed"] + board.tasks["inspected"]
  <2>1. /\ of("completed") \in SUBSET T /\ of("inspected") \in SUBSET T /\ of("completed") \cap of("inspected") = {}
        /\ of("completed") \cup of("inspected") = D
    BY DEF DoneOn
  <2>2. board.tasks["completed"] = Cardinality(of("completed")) /\ board.tasks["inspected"] = Cardinality(of("inspected"))
    <3> HIDE DEF board, of
    <3>1. QED
      BY <1>1 DEF TaskStatuses
  <2> HIDE DEF of, T, D, board, stats
  <2>3. Cardinality(of("completed") \cup of("inspected")) = Cardinality(of("completed")) + Cardinality(of("inspected"))
    BY <1>0, <2>1, CountOfParts
  <2>4. QED
    BY <1>2, <2>1, <2>2, <2>3
<1>6. SumFunction(stats.byType) = stats.total
  <2>1. PICK f, K : K = {t.type : t \in D} /\ f = [t \in D |-> t.type]
    OBVIOUS
  <2>2. f \in [D -> K] /\ \A k \in K : \E x \in D : f[x] = k
    BY <2>1
  <2> HIDE DEF D, stats
  <2>3. SumFunction([k \in K |-> Cardinality({x \in D : f[x] = k})]) = Cardinality(D)
    BY <1>0, <2>2, CountedByColumn
  <2>4. [k \in K |-> Cardinality({x \in D : f[x] = k})]
          = [k \in {t.type : t \in D} |-> Cardinality({t \in D : t.type = k})]
    <3>1. \A k : {x \in D : f[x] = k} = {t \in D : t.type = k}
      BY <2>1
    <3>2. QED
      BY <2>1, <3>1
  <2>5. QED
    BY <1>2, <2>3, <2>4
<1>7. SumFunction(stats.byStaff) <= stats.total
  <2>1. D \in SUBSET TaskRows
    BY <1>0
  <2>2. SumFunction([k \in {t.by : t \in D} \ {"nobody"} |-> Cardinality({t \in D : t.by = k})])
          = Cardinality({t \in D : t.by # "nobody"})
        /\ Cardinality({t \in D : t.by # "nobody"}) <= Cardinality(D)
    <3> HIDE DEF D
    <3>1. QED
      BY <1>0, <2>1, CountedByHousekeeper
  <2> HIDE DEF D, stats
  <2>3. QED
    BY <1>2, <2>2
<1>8. \A k \in DOMAIN stats.byStaff : board.staff[k].completed = stats.byStaff[k]
  <2>1. \A k : {t \in D : t.by = k} = {t \in T : t.by = k /\ t.status \in {"completed", "inspected"}}
    BY DEF DoneOn
  <2>2. D \in SUBSET T
    BY <1>0
  <2> HIDE DEF T, D, board, stats
  <2>3. ASSUME NEW k \in {t.by : t \in D} \ {"nobody"}
        PROVE  /\ k \in {t.by : t \in T} \ {"nobody"} /\ stats.byStaff[k] = Cardinality({t \in D : t.by = k})
               /\ board.staff[k].completed
                    = Cardinality({t \in T : t.by = k /\ t.status \in {"completed", "inspected"}})
    <3>1. k \in {t.by : t \in T} \ {"nobody"}
      BY <2>2
    <3>2. stats.byStaff[k] = Cardinality({t \in D : t.by = k})
      BY <1>2
    <3>3. board.staff[k].completed
            = Cardinality({t \in T : t.by = k /\ t.status \in {"completed", "inspected"}})
      BY <1>1, <3>1
    <3>4. QED
      BY <3>1, <3>2, <3>3
  <2>4. DOMAIN stats.byStaff = {t.by : t \in D} \ {"nobody"}
    BY <1>2
  <2>5. QED
    BY <2>1, <2>3, <2>4
<1>9. \A t, u \in h.tasks : (t.room \in ArrivalRooms(h, day) /\ u.room \notin ArrivalRooms(h, day)) =>
          HousekeepingPriority(h, t, day) < HousekeepingPriority(h, u, day)
  BY DEF HousekeepingPriority
<1> HIDE DEF T, D, of, board, stats
<1>10. QED
  BY <1>3, <1>4, <1>5, <1>6, <1>7, <1>8, <1>9 DEF TasksAreCounted, board, stats

LEMMA DecisionsAddUp == \A decisions \in Seq(Verdicts) : PerformanceAddsUp(decisions)
<1> SUFFICES ASSUME NEW decisions \in Seq(Verdicts)
             PROVE  PerformanceAddsUp(decisions)
  OBVIOUS
<1> DEFINE all == DOMAIN decisions
           seen == {i \in all : i <= 200}
           with(S) == {i \in seen : decisions[i] \in S}
           listed == {i \in all : i <= 5 /\ decisions[i] = "pending"}
           p == Performance(decisions)
<1>1. PICK n \in Nat : n = Len(decisions) /\ all = 1..n
  OBVIOUS
<1>2. IsFiniteSet(all) /\ Cardinality(all) = n
  <2>1. PICK b \in Int : b = n
    OBVIOUS
  <2>2. IsFiniteSet(1..b) /\ Cardinality(1..b) = IF 1 > b THEN 0 ELSE b - 1 + 1
    BY FS_Interval
  <2> HIDE DEF all
  <2>3. QED
    BY <1>1, <2>1, <2>2
<1>3. /\ p.total = Cardinality(seen) /\ p.approved = Cardinality(with({"approved", "auto_executed"}))
      /\ p.rejected = Cardinality(with({"rejected"})) /\ p.automatic = Cardinality(with({"auto_executed"}))
      /\ PendingDecisions(decisions) = Cardinality(listed)
  BY DEF Performance, PendingDecisions
<1>4. PICK a, r, m, l : /\ a = with({"approved", "auto_executed"}) /\ r = with({"rejected"})
                        /\ m = with({"auto_executed"}) /\ l = listed
  OBVIOUS
<1>5. /\ seen \in SUBSET all /\ a \in SUBSET seen /\ r \in SUBSET seen /\ a \cap r = {} /\ m \in SUBSET a
      /\ l \in SUBSET all /\ a \in SUBSET all /\ r \in SUBSET all /\ (a \cup r) \cap l = {}
  BY <1>4
<1> HIDE DEF all, seen, with, listed, p
<1>6. IsFiniteSet(seen) /\ IsFiniteSet(a)
  BY <1>2, <1>5, FS_Subset
<1>7. Cardinality(a) + Cardinality(r) <= Cardinality(seen)
  BY <1>5, <1>6, CountOfParts
<1>8. Cardinality(m) <= Cardinality(a)
  BY <1>5, <1>6, FS_Subset
<1>9. Cardinality(l) <= Cardinality(all) - Cardinality(a) - Cardinality(r)
  <2>1. PICK u \in SUBSET all : u = a \cup r /\ u \cap l = {}
    BY <1>5
  <2>2. Cardinality(a \cup r) = Cardinality(a) + Cardinality(r) /\ Cardinality(a) \in Nat /\ Cardinality(r) \in Nat
    <3>1. a \cap r = {}
      BY <1>5
    <3>2. QED
      BY <1>2, <1>5, <3>1, CountOfParts
  <2>3. Cardinality(u) + Cardinality(l) <= Cardinality(all) /\ Cardinality(l) \in Nat /\ Cardinality(all) \in Nat
    BY <1>2, <1>5, <2>1, CountOfParts
  <2>4. QED
    BY <2>1, <2>2, <2>3
<1>10. QED
  BY <1>3, <1>4, <1>7, <1>8, <1>9 DEF PerformanceAddsUp, p, all

\* The reports of whatever houses and days agree, and so do the figures of the agents.
THEOREM AllReportsHold == ReportsHold
<1>1. \A h \in Houses, day \in Nat : ReportsAgree(h, day)
  BY RevenueAddsUp, SoldAlike, SaneFigures, OneMailADay, TasksCountedOnce DEF ReportsAgree
<1>2. \A h \in AskedHouses, day \in AskedDays : ReportsAgree(h, day)
  BY <1>1, ReportsAssumption
<1>3. \A decisions \in AskedDecisions : PerformanceAddsUp(decisions)
  BY DecisionsAddUp, ReportsAssumption
<1>4. QED
  BY <1>2, <1>3 DEF ReportsHold

-----------------------------------------------------------------------------
(* The agents of a property, each starting from what another has stored.   *)

BookingTable(rs) == rs \subseteq PropertyBookings /\ IsFiniteSet(rs)

LEMMA PartsOfTable ==
  ASSUME NEW rs, BookingTable(rs)
  PROVE  \A s \in SUBSET rs : BookingTable(s) /\ Cardinality(s) \in Nat /\ Cardinality(s) <= Cardinality(rs)
BY FS_Subset, FS_CardinalityType DEF BookingTable

LEMMA BookingColumns ==
  ASSUME NEW rs, BookingTable(rs), NEW r \in rs
  PROVE  /\ r.from \in Int /\ r.to \in Int /\ r.amount \in Nat /\ r.source \in Sources
         /\ r.payments \in SUBSET PaymentStatuses /\ r.stays \in SUBSET StayStatuses
         /\ r.vip \in BOOLEAN /\ r.booked \in Int
BY DEF BookingTable, PropertyBookings

\* A share of a hundred.
LEMMA ShareOfHundred ==
  ASSUME NEW a \in Nat, NEW b \in Nat, b > 0, a <= b
  PROVE  (100 * a) \div b \in 0..100
<1>1. PICK hundred \in Nat : hundred = 100
  OBVIOUS
<1>2. PICK x \in Nat : x = hundred * a /\ x <= hundred * b
  BY <1>1
<1>3. x \div b <= hundred /\ x \div b \in Nat
  BY <1>2, Dividing
<1>4. QED
  BY <1>1, <1>2, <1>3

LEMMA SharesOfTable ==
  ASSUME NEW rs, BookingTable(rs), NEW status
  PROVE  ShareOf(rs, status) \in 0..100
<1>1. CASE rs = {}
  BY <1>1 DEF ShareOf
<1>2. CASE rs # {}
  <2>1. PICK a \in Nat, b \in Nat : a = Cardinality({r \in rs : r.status = status}) /\ b = Cardinality(rs) /\ a <= b
    <3>1. {r \in rs : r.status = status} \in SUBSET rs /\ rs \in SUBSET rs
      OBVIOUS
    <3>2. QED
      BY <3>1, PartsOfTable
  <2>2. b > 0
    BY <1>2, <2>1, FS_EmptySet DEF BookingTable
  <2>3. QED
    BY <1>2, <2>1, <2>2, ShareOfHundred DEF ShareOf
<1>3. QED
  BY <1>1, <1>2

\* The history has finitely many days.
LEMMA DaysAreFinite ==
  ASSUME NEW rs, BookingTable(rs)
  PROVE  IsFiniteSet(HistoricalDays(rs))
<1> DEFINE H == Historical(rs)
           N == {OccupiedNights(r) : r \in H}
<1>1. IsFiniteSet(H) /\ H \in SUBSET rs
  <2>1. H \in SUBSET rs
    BY DEF Historical
  <2> HIDE DEF H
  <2>2. QED
    BY <2>1, FS_Subset DEF BookingTable
<1>2. PICK f : f = [r \in H |-> OccupiedNights(r)]
  OBVIOUS
<1> HIDE DEF H
<1>3. f \in Surjection(H, N)
  BY <1>2 DEF Surjection
<1>4. IsFiniteSet(N)
  <2> HIDE DEF N
  <2>1. QED
    BY <1>1, <1>3, FS_Surjection
<1>5. ASSUME NEW n \in N
      PROVE  IsFiniteSet(n)
  <2>1. PICK r \in rs : n = OccupiedNights(r)
    BY <1>1
  <2>2. PICK a \in Int, b \in Int : n = a..b
    <3>1. r.from \in Int /\ Most(r.to, r.from + 1) - 1 \in Int
      BY BookingColumns DEF Most
    <3>2. QED
      BY <2>1, <3>1 DEF OccupiedNights
  <2>3. QED
    BY <2>2, FS_Interval
<1>6. HistoricalDays(rs) = UNION N
  BY DEF HistoricalDays, H
<1>7. QED
  <2> HIDE DEF N
  <2>1. QED
    BY <1>4, <1>5, <1>6, FS_UNION

\* What the models start from is what they can be asked.
LEMMA WeekdaysTyped ==
  ASSUME NEW rs, BookingTable(rs), NEW n \in Nat, NEW d
  PROVE  SameDay(rs, n, d) \in Seq(Int)
<1> DEFINE days == {h \in HistoricalDays(rs) : h % 7 = d % 7}
           latest(i) == CHOOSE h \in days : Cardinality({g \in days : g >= h}) = i
<1>1. PICK k \in Nat : k = Cardinality(days)
  <2>1. days \in SUBSET HistoricalDays(rs)
    OBVIOUS
  <2> HIDE DEF days
  <2>2. QED
    BY <2>1, DaysAreFinite, FS_Subset, FS_CardinalityType
<1>2. \A h : HistoricalOccupancy(rs, h, n) \in Int
  <2> TAKE h
  <2>1. PICK c \in Nat : c = Cardinality({r \in Historical(rs) : h \in OccupiedNights(r)})
    <3>1. {r \in Historical(rs) : h \in OccupiedNights(r)} \in SUBSET rs
      BY DEF Historical
    <3>2. QED
      BY <3>1, PartsOfTable
  <2>2. n > 0 => (100 * c) \div n \in Int
    OBVIOUS
  <2>3. QED
    BY <2>1, <2>2 DEF HistoricalOccupancy, Least
<1>3. SameDay(rs, n, d) = [i \in 1..k |-> HistoricalOccupancy(rs, latest(i), n)]
  BY <1>1 DEF SameDay
<1> HIDE DEF latest
<1>4. QED
  BY <1>1, <1>2, <1>3

LEMMA ForecastsAreShares ==
  ASSUME NEW rs, BookingTable(rs), NEW n \in Nat, NEW days \in Nat
  PROVE  /\ DOMAIN DemandForecast(rs, n, days) = 0..(days - 1)
         /\ \A d \in 0..(days - 1) : DemandForecast(rs, n, days)[d] \in Share
<1> SUFFICES ASSUME NEW d \in 0..(days - 1)
             PROVE  DemandForecast(rs, n, days)[d] \in Share
  BY DEF DemandForecast
<1>1. PICK b \in Nat : b = Booked(DemandOnTheBooks(rs, d), n)
  <2>1. PICK c \in Nat : c = DemandOnTheBooks(rs, d)
    <3>1. {r \in rs : /\ r.status # "cancelled" /\ 0 <= r.from /\ r.from <= 90 /\ d \in OccupiedNights(r)} \in SUBSET rs
      OBVIOUS
    <3>2. QED
      BY <3>1, PartsOfTable DEF DemandOnTheBooks
  <2>2. n > 0 => (100 * c) \div n \in Nat
    <3>1. PICK x \in Nat : x = 100 * c
      OBVIOUS
    <3>2. QED
      BY <3>1, DivisionBounds
  <2>3. QED
    BY <2>1, <2>2 DEF Booked
<1>2. PICK s \in Seq(Int) : s = SameDay(rs, n, d)
  BY WeekdaysTyped
<1>3. DemandForecast(rs, n, days)[d] = HeuristicForecast(s, IsWeekend(d), b)
  BY <1>1, <1>2 DEF DemandForecast
<1>4. PICK w \in Int : w = Least(60, b)
  BY DEF Least
<1>5. PICK a \in Int : a = IF s # <<>> THEN Mean(s) ELSE IF IsWeekend(d) THEN 70 ELSE 50
  BY MeanIsInteger
<1>6. HeuristicForecast(s, IsWeekend(d), b) = Blend(a, b, w)
  BY <1>4, <1>5 DEF HeuristicForecast
<1>7. QED
  BY <1>3, <1>6, BlendIsShare

\* A rate keeps to the floor and the ceiling of its plan.
LEMMA RateOfPlan ==
  ASSUME NEW p \in PropertyPlans, NEW config \in [premium : Nat, maxAdjust : Nat, horizon : Nat],
         NEW forecast, NEW d \in Nat, forecast[d] \in Share
  PROVE  LET o == PriceQuestion(p, config, forecast, d)
         IN o.floor <= o.ceiling => RecommendedRate(o) \in o.floor..o.ceiling
<1>1. PICK o : o = PriceQuestion(p, config, forecast, d)
  OBVIOUS
<1>2. PICK k \in 0..100 : k = forecast[d] \div 100
  BY DEF Share
<1>3. p.base \in Nat /\ p.floor \in Nat /\ p.ceiling \in Nat /\ config.premium \in Nat /\ config.maxAdjust \in Nat
  BY DEF PropertyPlans
<1>4. PICK f \in Nat, c \in Nat, days \in Nat :
        /\ f = (IF p.floor = 0 THEN Percent(p.base, 60) ELSE p.floor)
        /\ c = (IF p.ceiling = 0 THEN 3 * p.base ELSE p.ceiling)
        /\ days = Most(1, d)
  <2>1. Percent(p.base, 60) \in Nat
    BY <1>3, PercentOf
  <2>2. Most(1, d) \in Nat
    BY DEF Most
  <2>3. QED
    BY <1>3, <2>1, <2>2
<1>5. PICK w \in BOOLEAN : w = IsWeekend(d)
  <2>1. IsWeekend(d) \in BOOLEAN
    BY DEF IsWeekend
  <2>2. QED
    BY <2>1
<1>6. /\ o.base = p.base /\ o.occupancy = k /\ o.pace = 100 /\ o.daysOut = days /\ o.weekend = w
      /\ o.premium = config.premium /\ o.maxAdjust = config.maxAdjust /\ o.floor = f /\ o.ceiling = c
  BY <1>1, <1>2, <1>4, <1>5 DEF PriceQuestion
<1>7. PICK q : q = [model |-> "heuristic", sameDay |-> <<>>, booked |-> 0, weekend |-> w, daysOut |-> days, pace |-> 100,
                    base |-> p.base, premium |-> config.premium, maxAdjust |-> config.maxAdjust,
                    floor |-> f, ceiling |-> c, occupancy |-> k]
  OBVIOUS
<1>8. q \in RateQuestions
  <2>1. <<>> \in Seq(Nat) /\ k \in Int /\ 100 \in Nat /\ 0 \in Nat
    OBVIOUS
  <2>2. "heuristic" \in {"heuristic", "statistical"}
    OBVIOUS
  <2>3. QED
    BY <1>3, <1>7, <2>1, <2>2, Zenon DEF RateQuestions
<1>9. PICK x : x = [q EXCEPT !.occupancy = k]
  OBVIOUS
<1>10. RateAt(q, k) = RecommendedRate(x)
  BY <1>9 DEF RateAt
<1>11. RecommendedRate(x) = RecommendedRate(o)
  <2>1. /\ x.base = o.base /\ x.occupancy = o.occupancy /\ x.pace = o.pace /\ x.daysOut = o.daysOut
        /\ x.weekend = o.weekend /\ x.premium = o.premium /\ x.maxAdjust = o.maxAdjust
        /\ x.floor = o.floor /\ x.ceiling = o.ceiling
    BY <1>6, <1>7, <1>9
  <2>2. QED
    BY <2>1 DEF RecommendedRate
<1>12. PICK y \in Nat : RateAt(q, k) = Bounded(y, LowestRate(q), HighestRate(q), q.floor, q.ceiling)
  <2>1. k <= k
    OBVIOUS
  <2>2. QED
    BY <1>8, <2>1, RateIsBounded
<1>13. PICK low \in Int, high \in Int : low = LowestRate(q) /\ high = HighestRate(q)
  BY <1>3, <1>7, SMTT(30) DEF LowestRate, HighestRate
<1>14. RecommendedRate(o) = Bounded(y, low, high, f, c)
  BY <1>7, <1>10, <1>11, <1>12, <1>13
<1>15. f <= c => RecommendedRate(o) \in f..c
  BY <1>14, BoundedRate, SMTT(30)
<1>16. QED
  BY <1>1, <1>6, <1>15

\* Rates: one for a plan and a day, within the bounds of the plan.
RatesHold(q, forecast) ==
  \A a \in RateAdjustments(q.plans, q.config, forecast) :
    /\ a.day \in DOMAIN forecast /\ a.day < q.config.horizon
    /\ \A b \in RateAdjustments(q.plans, q.config, forecast) : a.plan = b.plan /\ a.day = b.day => a = b
    /\ \A p \in q.plans : p.id = a.plan =>
         LET o == PriceQuestion(p, q.config, forecast, a.day)
         IN o.floor <= o.ceiling => a.rate \in o.floor..o.ceiling

LEMMA RatesOfPlans ==
  ASSUME NEW q, PropertyTables(q), NEW forecast, NEW n \in Nat, DOMAIN forecast = 0..(n - 1),
         \A d \in 0..(n - 1) : forecast[d] \in Share
  PROVE  RatesHold(q, forecast)
<1>1. /\ \A p \in q.plans : p \in PropertyPlans
      /\ \A p, o \in q.plans : p.id = o.id => p = o
      /\ q.config \in [premium : Nat, maxAdjust : Nat, horizon : Nat]
  BY DEF PropertyTables
<1>2. ASSUME NEW a \in RateAdjustments(q.plans, q.config, forecast)
      PROVE  \E p \in q.plans, d \in DOMAIN forecast :
               /\ d < q.config.horizon
               /\ a = [plan |-> p.id, day |-> d, rate |-> RecommendedRate(PriceQuestion(p, q.config, forecast, d))]
  BY DEF RateAdjustments, AdjustmentsOf
<1>3. ASSUME NEW a \in RateAdjustments(q.plans, q.config, forecast)
      PROVE  /\ a.day \in DOMAIN forecast /\ a.day < q.config.horizon
             /\ \A b \in RateAdjustments(q.plans, q.config, forecast) : a.plan = b.plan /\ a.day = b.day => a = b
             /\ \A p \in q.plans : p.id = a.plan =>
                  LET o == PriceQuestion(p, q.config, forecast, a.day)
                  IN o.floor <= o.ceiling => a.rate \in o.floor..o.ceiling
  <2>1. PICK p \in q.plans, d \in DOMAIN forecast :
          /\ d < q.config.horizon
          /\ a = [plan |-> p.id, day |-> d, rate |-> RecommendedRate(PriceQuestion(p, q.config, forecast, d))]
    BY <1>2
  <2>2. a.plan = p.id /\ a.day = d /\ a.rate = RecommendedRate(PriceQuestion(p, q.config, forecast, d))
    BY <2>1
  <2>3. ASSUME NEW b \in RateAdjustments(q.plans, q.config, forecast), a.plan = b.plan, a.day = b.day
        PROVE  a = b
    <3>1. PICK o \in q.plans, e \in DOMAIN forecast :
            b = [plan |-> o.id, day |-> e, rate |-> RecommendedRate(PriceQuestion(o, q.config, forecast, e))]
      BY <1>2
    <3>2. b.plan = o.id /\ b.day = e
      BY <3>1
    <3>3. o = p /\ e = d
      BY <1>1, <2>2, <2>3, <3>2
    <3>4. QED
      BY <2>1, <3>1, <3>3
  <2>4. ASSUME NEW o \in q.plans, o.id = a.plan
        PROVE  LET x == PriceQuestion(o, q.config, forecast, a.day)
               IN x.floor <= x.ceiling => a.rate \in x.floor..x.ceiling
    <3>1. o = p
      BY <1>1, <2>2, <2>4
    <3>2. p \in PropertyPlans /\ d \in Nat /\ forecast[d] \in Share
      BY <1>1
    <3>3. LET x == PriceQuestion(p, q.config, forecast, d)
          IN x.floor <= x.ceiling => RecommendedRate(x) \in x.floor..x.ceiling
      BY <1>1, <3>2, RateOfPlan
    <3>4. QED
      BY <2>2, <3>1, <3>3
  <2>5. QED
    BY <2>1, <2>2, <2>3, <2>4
<1>4. QED
  BY <1>3 DEF RatesHold

\* Overbooking: on days that are nearly full, and within what may be expected.
LevelsHold(q) ==
  \A d \in DOMAIN OverbookingLevels(q.rs, q.rooms, q.limits, q.adrs) :
    LET o == OverbookingQuestion(q.rs, q.rooms, q.limits, q.adrs, d)
        level == OverbookingLevels(q.rs, q.rooms, q.limits, q.adrs)[d]
    IN /\ 100 * o.onTheBooks >= q.limits.minOccupancy * q.rooms
       /\ 200 * level < 3 * ExpectedVacancies(o) + 200
       /\ WalkProbability(o, level) <= q.limits.maxWalk

LEMMA LevelsOfDays ==
  ASSUME NEW q, PropertyTables(q)
  PROVE  LevelsHold(q)
<1>1. /\ BookingTable(q.rs) /\ q.rooms \in Nat
      /\ q.limits.walkCost \in Nat /\ q.limits.maxWalk \in Nat /\ q.limits.minOccupancy \in Nat
      /\ \A d \in DOMAIN q.adrs : q.adrs[d] \in Nat
  BY DEF PropertyTables, BookingTable
<1> SUFFICES ASSUME NEW d \in DOMAIN OverbookingLevels(q.rs, q.rooms, q.limits, q.adrs),
                    NEW o, o = OverbookingQuestion(q.rs, q.rooms, q.limits, q.adrs, d),
                    NEW c, c = OverbookingLevels(q.rs, q.rooms, q.limits, q.adrs)[d]
             PROVE  /\ 100 * o.onTheBooks >= q.limits.minOccupancy * q.rooms
                    /\ 200 * c < 3 * ExpectedVacancies(o) + 200
                    /\ WalkProbability(o, c) <= q.limits.maxWalk
  BY DEF LevelsHold
<1>2. c = OverbookCount(o) /\ c > 0
  BY DEF OverbookingLevels
<1>3. o \in OverbookingQuestions
  <2>1. PICK books \in Nat : books = OverbookingOnTheBooks(q.rs, d)
    <3>1. {r \in q.rs : /\ r.status # "cancelled" /\ r.from <= 14 /\ 0 <= r.to
                        /\ d \in OccupiedNights(r) /\ 0 <= d /\ d <= 14} \in SUBSET q.rs
      OBVIOUS
    <3>2. QED
      BY <1>1, <3>1, PartsOfTable DEF OverbookingOnTheBooks
  <2>2. PICK noShow \in Nat, cancelled \in Nat : noShow = ShareOf(q.rs, "no_show") /\ cancelled = ShareOf(q.rs, "cancelled")
    BY <1>1, SharesOfTable, SMTT(30)
  <2>3. PICK adr \in Nat : adr = IF d \in DOMAIN q.adrs THEN q.adrs[d] ELSE 150
    BY <1>1
  <2>4. o = [totalRooms |-> q.rooms, onTheBooks |-> books, noShow |-> noShow, cancelled |-> cancelled, adr |-> adr,
             walkCost |-> q.limits.walkCost, maxWalk |-> q.limits.maxWalk, minOccupancy |-> q.limits.minOccupancy]
    BY <2>1, <2>2, <2>3 DEF OverbookingQuestion
  <2>5. QED
    BY <1>1, <2>4 DEF OverbookingQuestions
<1>4. o.totalRooms = q.rooms /\ o.maxWalk = q.limits.maxWalk /\ o.minOccupancy = q.limits.minOccupancy
  BY DEF OverbookingQuestion
<1>5. WalkProbability(o, c) <= q.limits.maxWalk
  BY <1>2, <1>3, <1>4, OverbookingIsBounded DEF OverbookingWithinRisk
<1>6. c \in Nat /\ c \in Acceptable(o)
  <2>1. c \in Nat /\ c # 0
    BY <1>2, <1>3, CountIsAcceptable
  <2>2. QED
    BY <1>2, <1>3, <2>1, CountIsAcceptable
<1>7. PICK books \in Nat, v \in Nat : books = o.onTheBooks /\ v = ExpectedVacancies(o)
  <2>1. PICK books \in Nat, a \in Nat, b \in Nat : books = o.onTheBooks /\ a = o.noShow /\ b = o.cancelled
    BY <1>3 DEF OverbookingQuestions
  <2>2. PICK s \in Nat : s = a + b
    OBVIOUS
  <2>3. books * s \in Nat
    OBVIOUS
  <2>4. QED
    BY <2>1, <2>2, <2>3 DEF ExpectedVacancies
<1>8. 200 * c < 3 * v + 200
  <2>1. c <= (v * 3 + 199) \div 200
    BY <1>6, <1>7 DEF Acceptable, Counts
  <2>2. QED
    BY <1>6, <2>1
<1>9. 100 * books >= o.minOccupancy * o.totalRooms
  <2>1. ~(100 * o.onTheBooks < o.minOccupancy * o.totalRooms)
    BY <1>2 DEF OverbookCount
  <2>2. PICK m \in Nat : m = o.minOccupancy * o.totalRooms
    BY <1>3 DEF OverbookingQuestions
  <2>3. QED
    BY <1>7, <2>1, <2>2
<1>10. QED
  BY <1>4, <1>5, <1>7, <1>8, <1>9

\* Cancellations: the risks of all dates are those of all guests expected.
LEMMA RisksTyped ==
  ASSUME NEW rs, BookingTable(rs), NEW r \in rs
  PROVE  RiskOf(r) \in Nat
<1>1. PICK x : x = [source |-> r.source, payments |-> r.payments, stays |-> r.stays, vip |-> r.vip,
                    arrival |-> r.from, booked |-> r.booked]
  OBVIOUS
<1>2. x \in RiskReservations
  BY <1>1, BookingColumns DEF RiskReservations
<1>3. PICK p \in RiskQuestions : p = RiskQuestion(x)
  BY <1>2, RiskQuestionTyped
<1>4. CancelProbability(p) \in Nat
  <2>1. p.leadTime <= p.leadTime /\ p.daysUntil <= p.daysUntil
    BY DEF RiskQuestions
  <2>2. QED
    BY <2>1, RiskGrows
<1>5. QED
  BY <1>1, <1>3, <1>4 DEF RiskOf

DatesHold(q) ==
  LET dates == DateAggregates(q.rs)
      counts == [d \in DOMAIN dates |-> dates[d].count]
  IN /\ SumFunction(counts) = Cardinality(Expected(q.rs))
     /\ SumFunction([d \in DOMAIN dates |-> dates[d].expected]) = RiskIn(Expected(q.rs))
     /\ SumFunction(counts) = SumFunction(RiskSummary(q.rs))
     /\ \A d \in DOMAIN dates : d <= 90 => counts[d] <= DemandOnTheBooks(q.rs, d)

LEMMA DatesAddUp ==
  ASSUME NEW q, BookingTable(q.rs)
  PROVE  DatesHold(q)
<1>1. PICK rs : rs = q.rs /\ BookingTable(rs)
  OBVIOUS
<1>2. PICK E : E = Expected(rs) /\ E \in SUBSET rs /\ IsFiniteSet(E) /\ BookingTable(E)
  <2>1. Expected(rs) \in SUBSET rs
    BY DEF Expected
  <2>2. QED
    BY <1>1, <2>1, PartsOfTable DEF BookingTable
<1>3. PICK dates : dates = DateAggregates(rs)
  OBVIOUS
<1> DEFINE K == {r.from : r \in E}
           On(d) == {r \in E : r.from = d}
<1>4. /\ DOMAIN dates = K
      /\ \A d \in K : dates[d].count = Cardinality(On(d)) /\ dates[d].expected = RiskIn(On(d))
  BY <1>2, <1>3 DEF DateAggregates
<1>5. PICK from : from = [r \in E |-> r.from]
  OBVIOUS
<1>6. from \in [E -> K] /\ \A k \in K : \E x \in E : from[x] = k
  BY <1>5
<1>7. \A d \in K : On(d) = {x \in E : from[x] = d}
  BY <1>5
<1>8. IsFiniteSet(K)
  <2> HIDE DEF K
  <2>1. QED
    BY <1>2, <1>6, FiniteClasses
<1>9. PICK counts : counts = [d \in K |-> Cardinality(On(d))]
  OBVIOUS
<1>10. counts = [d \in DOMAIN dates |-> dates[d].count]
  <2> HIDE DEF K, On
  <2>1. QED
    BY <1>4, <1>9
<1>11. SumFunction(counts) = Cardinality(E)
  <2>1. counts = [k \in K |-> Cardinality({x \in E : from[x] = k})]
    <3> HIDE DEF K
    <3>1. QED
      BY <1>7, <1>9
  <2> HIDE DEF K
  <2>2. QED
    BY <1>2, <1>6, <2>1, CountedByColumn
<1>12. PICK block : block = [d \in K |-> On(d)]
  OBVIOUS
<1>13. /\ block \in [K -> SUBSET E] /\ (\A x \in E : \E k \in K : x \in block[k])
       /\ \A k, l \in K : \A x \in E : x \in block[k] /\ x \in block[l] => k = l
  BY <1>12
<1>14. PICK v : v = [r \in E |-> RiskOf(r)]
  OBVIOUS
<1>15. v \in [E -> Int] /\ \A r \in E : RiskOf(r) \in Int
  BY <1>2, <1>14, RisksTyped
<1>16. PICK g : Sums(g, E, v) /\ SumFunction(v) = g[E]
  BY <1>2, <1>15, TotalIsSum
<1>17. \A s \in SUBSET E : RiskIn(s) = g[s] /\ RiskIn(s) \in Int
  <2> TAKE s \in SUBSET E
  <2>1. PICK w : w = [r \in s |-> RiskOf(r)]
    OBVIOUS
  <2>2. w \in [s -> Int] /\ \A x \in s : v[x] = w[x]
    BY <1>14, <1>15, <2>1
  <2>3. SumFunction(w) = g[s]
    BY <1>2, <1>15, <1>16, <2>2, TotalOfPart
  <2>4. g[s] \in Int
    BY <1>2, <1>15, <1>16, SumTyped
  <2>5. QED
    BY <2>1, <2>3, <2>4 DEF RiskIn
<1>18. PICK risks : risks = [d \in K |-> RiskIn(On(d))]
  OBVIOUS
<1>19. risks = [d \in DOMAIN dates |-> dates[d].expected]
  <2> HIDE DEF K, On
  <2>1. QED
    BY <1>4, <1>18
<1>20. SumFunction(risks) = RiskIn(E)
  <2>1. \A k \in K : block[k] \in SUBSET E /\ risks[k] = RiskIn(block[k])
    BY <1>12, <1>18
  <2>2. risks \in [K -> Int] /\ \A k \in K : risks[k] = g[block[k]]
    <3> HIDE DEF K, On
    <3>1. QED
      BY <1>17, <1>18, <2>1
  <2>3. SumFunction(risks) = g[E]
    <3> HIDE DEF K
    <3>1. QED
      BY <1>2, <1>8, <1>13, <1>15, <1>16, <2>2, SumOfClasses
  <2>4. E \in SUBSET E
    OBVIOUS
  <2>5. QED
    BY <1>17, <2>3, <2>4
<1>21. SumFunction(RiskSummary(rs)) = Cardinality(E)
  <2>1. PICK L : L = {"high", "medium", "low"}
    OBVIOUS
  <2>2. IsFiniteSet(L)
    <3>1. IsFiniteSet({"high"}) /\ IsFiniteSet({"high"} \cup {"medium"})
      BY FS_Singleton, FS_AddElement
    <3>2. IsFiniteSet(({"high"} \cup {"medium"}) \cup {"low"})
      BY <3>1, FS_AddElement
    <3>3. L = ({"high"} \cup {"medium"}) \cup {"low"}
      BY <2>1
    <3>4. QED
      BY <3>2, <3>3
  <2>3. PICK class : class = [l \in L |-> {r \in E : ClassifyRisk(RiskOf(r)) = l}]
    OBVIOUS
  <2>4. \A r \in E : ClassifyRisk(RiskOf(r)) \in L
    BY <2>1 DEF ClassifyRisk
  <2>5. class \in [L -> SUBSET E] /\ (\A x \in E : \E k \in L : x \in class[k])
    BY <2>3, <2>4
  <2>6. \A k, l \in L : \A x \in E : x \in class[k] /\ x \in class[l] => k = l
    BY <2>3
  <2>7. SumFunction([k \in L |-> Cardinality(class[k])]) = Cardinality(E)
    BY <1>2, <2>2, <2>5, <2>6, CountedByClass
  <2>8. RiskSummary(rs) = [k \in L |-> Cardinality(class[k])]
    BY <1>2, <2>1, <2>3 DEF RiskSummary
  <2>9. QED
    BY <2>7, <2>8
<1>22. ASSUME NEW d \in K, d <= 90
       PROVE  counts[d] <= DemandOnTheBooks(rs, d)
  <2>1. On(d) \subseteq {r \in rs : /\ r.status # "cancelled" /\ 0 <= r.from /\ r.from <= 90
                                   /\ d \in OccupiedNights(r)}
    <3> SUFFICES ASSUME NEW r \in On(d)
                 PROVE  /\ r \in rs /\ r.status # "cancelled" /\ 0 <= r.from /\ r.from <= 90
                        /\ d \in OccupiedNights(r)
      OBVIOUS
    <3>1. r \in rs /\ r.from = d /\ r.from >= 0 /\ r.status # "cancelled"
      BY <1>2 DEF Expected
    <3>2. r.from \in Int /\ r.to \in Int
      BY <1>1, <3>1, BookingColumns
    <3>3. r.from \in OccupiedNights(r)
      BY <3>2 DEF OccupiedNights, Most
    <3>4. QED
      BY <1>22, <3>1, <3>2, <3>3
  <2>2. PICK D : /\ D = {r \in rs : /\ r.status # "cancelled" /\ 0 <= r.from /\ r.from <= 90
                                   /\ d \in OccupiedNights(r)}
                 /\ D \in SUBSET rs
    OBVIOUS
  <2>3. BookingTable(D) /\ On(d) \in SUBSET D
    BY <1>1, <2>1, <2>2, PartsOfTable
  <2>4. Cardinality(On(d)) <= Cardinality(D)
    BY <2>3, PartsOfTable
  <2>5. counts[d] = Cardinality(On(d)) /\ DemandOnTheBooks(rs, d) = Cardinality(D)
    BY <1>9, <2>2 DEF DemandOnTheBooks
  <2>6. QED
    BY <2>4, <2>5
<1> HIDE DEF K, On
<1>23. QED
  BY <1>1, <1>2, <1>3, <1>4, <1>10, <1>11, <1>19, <1>20, <1>21, <1>22 DEF DatesHold

\* The channel mix: what a booking brings is never negative, and nothing once it is off.
LEMMA AmountsTyped ==
  ASSUME NEW rows, BookingTable(rows)
  PROVE  AmountIn(rows) \in Nat
<1>1. PICK v : v = [r \in rows |-> r.amount]
  OBVIOUS
<1>2. v \in [rows -> Nat] /\ v \in [rows -> Int] /\ IsFiniteSet(rows)
  BY <1>1, BookingColumns DEF BookingTable
<1>3. PICK g : Sums(g, rows, v) /\ SumFunction(v) = g[rows]
  BY <1>2, TotalIsSum
<1>4. rows \in SUBSET rows
  OBVIOUS
<1>5. g[rows] \in Nat
  BY <1>2, <1>3, <1>4, SumOfNaturals
<1>6. QED
  BY <1>1, <1>3, <1>5 DEF AmountIn

NetOf(rs, c, rate, share) ==
  /\ \A commission : ChannelMetrics(rs, c, commission).net = NetRevenue(rate, commission, share)
  /\ (BookingsOf(rs, c) # {} /\ \A r \in BookingsOf(rs, c) : r.status = "cancelled") => share = 100

LEMMA NetIsNatural ==
  ASSUME NEW rs, BookingTable(rs), NEW c
  PROVE  \E rate \in Nat, share \in 0..100 : NetOf(rs, c, rate, share)
<1>1. PICK B : B = BookingsOf(rs, c) /\ B \in SUBSET rs
  BY DEF BookingsOf
<1>2. PICK X : X = {r \in B : r.status = "cancelled"} /\ X \in SUBSET B /\ X \in SUBSET rs
  BY <1>1
<1>3. PICK n \in Nat, m \in Nat, a \in Nat : n = Cardinality(B) /\ m = Cardinality(X) /\ a = AmountIn(B) /\ m <= n
  <2>1. BookingTable(B)
    BY <1>1, PartsOfTable
  <2>2. Cardinality(B) \in Nat /\ Cardinality(X) \in Nat /\ Cardinality(X) <= Cardinality(B)
    BY <1>1, <1>2, <2>1, PartsOfTable
  <2>3. QED
    BY <2>1, <2>2, AmountsTyped
<1>4. CASE B = {}
  <2>1. PICK s \in 0..100 : s = IF c = "direct" THEN 3 ELSE 10
    OBVIOUS
  <2>2. \A commission : ChannelMetrics(rs, c, commission).net = NetRevenue(150, commission, s)
    BY <1>1, <1>4, <2>1 DEF ChannelMetrics
  <2>3. 150 \in Nat
    OBVIOUS
  <2>4. QED
    BY <1>1, <1>4, <2>2, <2>3 DEF NetOf
<1>5. CASE B # {}
  <2>1. n > 0
    <3>1. IsFiniteSet(B)
      BY <1>1, PartsOfTable DEF BookingTable
    <3>2. QED
      BY <1>3, <1>5, <3>1, FS_EmptySet
  <2>2. PICK s \in 0..100 : s = (100 * m) \div n
    BY <1>3, <2>1, ShareOfHundred
  <2>3. PICK rate \in Nat : rate = a \div n
    BY <1>3, <2>1, DivisionBounds
  <2>4. \A commission : ChannelMetrics(rs, c, commission).net = NetRevenue(rate, commission, s)
    BY <1>1, <1>2, <1>3, <1>5, <2>2, <2>3 DEF ChannelMetrics
  <2>5. (\A r \in B : r.status = "cancelled") => s = 100
    <3> SUFFICES ASSUME \A r \in B : r.status = "cancelled"
                 PROVE  s = 100
      OBVIOUS
    <3>1. X = B
      BY <1>2
    <3>2. s = (100 * n) \div n
      BY <1>3, <2>2, <3>1
    <3>3. PICK d \in Nat : d = s /\ n * d <= 100 * n /\ 100 * n < n * d + n
      <4>1. PICK x \in Nat : x = 100 * n
        OBVIOUS
      <4>2. QED
        BY <2>1, <3>2, <4>1, DivisionBounds
    <3>4. ASSUME d < 100 PROVE FALSE
      <4>1. n * d + n = n * (d + 1)
        OBVIOUS
      <4>2. n * (d + 1) <= n * 100
        BY <3>4
      <4>3. QED
        BY <3>3, <4>1, <4>2
    <3>5. QED
      BY <3>3, <3>4
  <2>6. QED
    BY <1>1, <2>4, <2>5 DEF NetOf
<1>6. QED
  BY <1>4, <1>5

LEMMA NetFalls ==
  ASSUME NEW rate \in Nat, NEW commission \in 0..100, NEW share \in 0..100
  PROVE  /\ NetRevenue(rate, commission, share) \in Nat
         /\ NetRevenue(rate, commission + 5, share) <= NetRevenue(rate, commission, share)
         /\ NetRevenue(rate, commission, 100) = 0
<1>1. PICK a \in Nat, b \in Nat : a = 100 - commission /\ b = 100 - share
  OBVIOUS
<1>2. rate * a \in Nat /\ (rate * a) * b \in Nat
  OBVIOUS
<1>3. (rate * (a - 5)) * b <= (rate * a) * b
  <2>1. PICK x \in Int, y \in Nat : x = rate * (a - 5) /\ y = rate * a /\ x <= y
    <3>1. rate * (a - 5) = rate * a - 5 * rate
      OBVIOUS
    <3>2. QED
      BY <3>1
  <2>2. x * b <= y * b
    BY <2>1
  <2>3. QED
    BY <2>1, <2>2
<1>4. 100 - (commission + 5) = a - 5
  BY <1>1
<1>5. (rate * (100 - commission)) * (100 - 100) = 0
  BY <1>1, <1>2
<1>6. QED
  BY <1>1, <1>2, <1>3, <1>4, <1>5 DEF NetRevenue

\* The metrics of channels can be ranked.
IsRanking(order, n, s) ==
  /\ order \in [1..n -> s] /\ (\A m \in s : \E i \in 1..n : order[i] = m)
  /\ \A i, j \in 1..n : i < j => order[i].net >= order[j].net

LEMMA RankingExists ==
  ASSUME NEW metrics, IsFiniteSet(metrics), \A m \in metrics : m.net \in Nat
  PROVE  \E order : IsRanking(order, Cardinality(metrics), metrics)
<1> DEFINE T == {s \in SUBSET metrics : \E order : IsRanking(order, Cardinality(s), s)}
<1>1. \A s \in SUBSET metrics : IsFiniteSet(s) /\ Cardinality(s) \in Nat
  BY FS_Subset, FS_CardinalityType
<1>2. ASSUME NEW s \in SUBSET metrics, \A x \in s : s \ {x} \in T
      PROVE  s \in T
  <2>1. CASE s = {}
    <3>1. PICK order : order = [i \in {} |-> {}]
      OBVIOUS
    <3>2. 1..0 = {} /\ Cardinality(s) = 0
      BY <2>1, FS_EmptySet
    <3>3. IsRanking(order, 0, s)
      BY <2>1, <3>1, <3>2 DEF IsRanking
    <3>4. QED
      BY <3>2, <3>3
  <2>2. CASE s # {}
    <3> DEFINE N == {m.net : m \in s}
    <3>1. PICK least \in N : \A k \in N : least <= k
      <4>1. N \in SUBSET Nat /\ N # {}
        BY <2>2
      <4> HIDE DEF N
      <4>2. QED
        BY <4>1, LeastNatural
    <3>2. PICK x \in s : x.net = least
      BY <3>1
    <3>3. \A m \in s : x.net <= m.net /\ m.net \in Nat
      BY <3>1, <3>2
    <3>4. PICK n \in Nat : n = Cardinality(s \ {x}) /\ Cardinality(s) = n + 1
      <4>1. s \ {x} \in SUBSET metrics /\ Cardinality(s \ {x}) = Cardinality(s) - 1
        BY <1>1, FS_RemoveElement
      <4>2. PICK n \in Nat, k \in Nat : n = Cardinality(s \ {x}) /\ k = Cardinality(s) /\ n = k - 1
        BY <1>1, <4>1
      <4>3. QED
        BY <4>2
    <3>5. PICK rest : IsRanking(rest, n, s \ {x})
      BY <1>2, <3>4
    <3>6. PICK order : order = [i \in 1..(n + 1) |-> IF i = n + 1 THEN x ELSE rest[i]]
      OBVIOUS
    <3>7. order[n + 1] = x /\ \A i \in 1..n : order[i] = rest[i] /\ rest[i] \in s
      BY <3>5, <3>6 DEF IsRanking
    <3>8. \A i \in 1..(n + 1) : i = n + 1 \/ i \in 1..n
      OBVIOUS
    <3>9. order \in [1..(n + 1) -> s]
      BY <3>6, <3>7, <3>8
    <3>10. \A m \in s : \E i \in 1..(n + 1) : order[i] = m
      <4> TAKE m \in s
      <4>1. CASE m = x
        BY <3>7, <4>1
      <4>2. CASE m # x
        <5>1. PICK i \in 1..n : rest[i] = m
          BY <3>5, <4>2 DEF IsRanking
        <5>2. i \in 1..(n + 1)
          OBVIOUS
        <5>3. QED
          BY <3>7, <5>1, <5>2
      <4>3. QED
        BY <4>1, <4>2
    <3>11. ASSUME NEW i \in 1..(n + 1), NEW j \in 1..(n + 1), i < j
           PROVE  order[i].net >= order[j].net
      <4>1. i \in 1..n /\ order[i] = rest[i] /\ rest[i] \in s
        BY <3>7, <3>11
      <4>2. CASE j = n + 1
        BY <3>3, <3>7, <4>1, <4>2
      <4>3. CASE j \in 1..n
        BY <3>5, <3>7, <3>11, <4>1, <4>3 DEF IsRanking
      <4>4. QED
        BY <3>8, <4>2, <4>3
    <3>12. IsRanking(order, n + 1, s)
      BY <3>9, <3>10, <3>11 DEF IsRanking
    <3>13. QED
      BY <3>4, <3>12
  <2>3. QED
    BY <2>1, <2>2
<1>3. \A s \in SUBSET metrics : s \in T
  <2> HIDE DEF T
  <2>1. QED
    BY <1>2, TakingAway
<1>4. QED
  BY <1>3

MixHolds(q, mix) ==
  /\ \A i, j \in DOMAIN mix : i < j => mix[i].net >= mix[j].net
  /\ \E i \in DOMAIN mix : mix[i].channel = "direct" /\ mix[i].rooms = 100

LEMMA MixIsRanked ==
  ASSUME NEW q, PropertyTables(q), NEW forecast
  PROVE  MixHolds(q, Allocations(q.rs, q.commissions, forecast))
<1>1. /\ BookingTable(q.rs) /\ IsFiniteSet(DOMAIN q.commissions)
      /\ \A c \in DOMAIN q.commissions : q.commissions[c] \in 0..100
  BY DEF PropertyTables, BookingTable
<1>2. PICK direct : direct = ChannelMetrics(q.rs, "direct", 0)
  OBVIOUS
<1> DEFINE others == {ChannelMetrics(q.rs, c, q.commissions[c]) : c \in DOMAIN q.commissions}
<1>3. PICK metrics : metrics = others \cup {direct}
  OBVIOUS
<1>4. IsFiniteSet(metrics)
  <2>1. PICK f : f = [c \in DOMAIN q.commissions |-> ChannelMetrics(q.rs, c, q.commissions[c])]
    OBVIOUS
  <2>2. f \in Surjection(DOMAIN q.commissions, others)
    BY <2>1 DEF Surjection
  <2> HIDE DEF others
  <2>3. IsFiniteSet(others)
    BY <1>1, <2>2, FS_Surjection
  <2>4. QED
    BY <1>3, <2>3, FS_AddElement
<1>5. ASSUME NEW c, NEW commission \in 0..100
      PROVE  ChannelMetrics(q.rs, c, commission).net \in Nat
  <2>1. PICK rate \in Nat, share \in 0..100 : NetOf(q.rs, c, rate, share)
    BY <1>1, NetIsNatural
  <2>2. ChannelMetrics(q.rs, c, commission).net = NetRevenue(rate, commission, share)
    BY <2>1 DEF NetOf
  <2>3. QED
    BY <2>2, NetFalls, ZenonT(40)
<1>6. \A m \in metrics : m.net \in Nat
  <2>1. 0 \in 0..100
    OBVIOUS
  <2>2. QED
    BY <1>1, <1>2, <1>3, <1>5, <2>1
<1>7. PICK n \in Nat : n = Cardinality(metrics)
  BY <1>4, FS_CardinalityType
<1>8. PICK order : order = Ranked(metrics)
  OBVIOUS
<1>9. IsRanking(order, n, metrics)
  <2>1. PICK o : IsRanking(o, n, metrics)
    BY <1>4, <1>6, <1>7, RankingExists
  <2>2. \A x \in [1..n -> metrics] : DOMAIN x = 1..n
    OBVIOUS
  <2>3. /\ o \in [1..n -> metrics] /\ (\A m \in metrics : \E i \in DOMAIN o : o[i] = m)
        /\ \A i, j \in DOMAIN o : i < j => o[i].net >= o[j].net
    BY <2>1, <2>2 DEF IsRanking
  <2>4. /\ order \in [1..n -> metrics] /\ (\A m \in metrics : \E i \in DOMAIN order : order[i] = m)
        /\ \A i, j \in DOMAIN order : i < j => order[i].net >= order[j].net
    BY <1>7, <1>8, <2>3 DEF Ranked
  <2>5. QED
    BY <2>2, <2>4 DEF IsRanking
<1>10. PICK mix : mix = Allocations(q.rs, q.commissions, forecast)
  OBVIOUS
<1>11. /\ DOMAIN mix = 1..n
       /\ \A i \in 1..n : /\ mix[i].net = order[i].net /\ mix[i].channel = order[i].channel
                          /\ mix[i].rooms = AllocatedRooms(order[i].commission, NextWeek(forecast), 100)
  <2>1. DOMAIN order = 1..n
    BY <1>9 DEF IsRanking
  <2>2. mix = [i \in DOMAIN order |->
                 [channel |-> order[i].channel, net |-> order[i].net, commission |-> order[i].commission,
                  rooms |-> AllocatedRooms(order[i].commission, NextWeek(forecast), 100)]]
    BY <1>2, <1>3, <1>8, <1>10 DEF Allocations
  <2>3. QED
    BY <2>1, <2>2
<1>12. PICK i \in 1..n : order[i] = direct
  BY <1>3, <1>9 DEF IsRanking
<1>13. direct.channel = "direct" /\ direct.commission = 0
  BY <1>2 DEF ChannelMetrics
<1>14. AllocatedRooms(0, NextWeek(forecast), 100) = 100
  BY DEF AllocatedRooms
<1>15. QED
  BY <1>9, <1>10, <1>11, <1>12, <1>13, <1>14, SMTT(30) DEF MixHolds, IsRanking

\* A channel that costs more or cancels more is worth less.
WorthLess(q, c) ==
  LET m(commission, rs) == ChannelMetrics(rs, c, commission).net
      lost == {[r EXCEPT !.status = "cancelled"] : r \in BookingsOf(q.rs, c)} \cup (q.rs \ BookingsOf(q.rs, c))
  IN /\ m(q.commissions[c] + 5, q.rs) <= m(q.commissions[c], q.rs)
     /\ m(q.commissions[c], lost) <= m(q.commissions[c], q.rs)
     /\ BookingsOf(q.rs, c) # {} => m(q.commissions[c], lost) = 0

LEMMA DearerIsWorthLess ==
  ASSUME NEW q, PropertyTables(q), NEW c \in DOMAIN q.commissions
  PROVE  WorthLess(q, c)
<1>1. PICK rs : rs = q.rs /\ BookingTable(rs)
  BY DEF PropertyTables, BookingTable
<1>2. PICK k \in 0..100 : k = q.commissions[c]
  BY DEF PropertyTables
<1>3. PICK B : B = BookingsOf(rs, c)
  OBVIOUS
<1>4. B \in SUBSET rs /\ \A r \in rs : r \in B <=> r.channel = c
  BY <1>3 DEF BookingsOf
<1> DEFINE off == {[r EXCEPT !.status = "cancelled"] : r \in B}
<1>5. PICK lost : lost = off \cup (rs \ B)
  OBVIOUS
<1>6. \A x \in off : x \in PropertyBookings /\ x.channel = c /\ x.status = "cancelled"
  <2> SUFFICES ASSUME NEW r \in B
               PROVE  LET x == [r EXCEPT !.status = "cancelled"]
                      IN x \in PropertyBookings /\ x.channel = c /\ x.status = "cancelled"
    OBVIOUS
  <2>1. r \in PropertyBookings /\ r.channel = c
    BY <1>1, <1>4 DEF BookingTable
  <2>2. "cancelled" \in StayStatuses
    BY DEF StayStatuses
  <2>3. QED
    BY <2>1, <2>2 DEF PropertyBookings
<1>7. BookingTable(lost)
  <2>1. PICK f : f = [r \in B |-> [r EXCEPT !.status = "cancelled"]]
    OBVIOUS
  <2>2. f \in Surjection(B, off)
    BY <2>1 DEF Surjection
  <2>3. IsFiniteSet(B) /\ IsFiniteSet(rs \ B)
    BY <1>1, <1>4, FS_Subset DEF BookingTable
  <2>4. IsFiniteSet(off)
    <3> HIDE DEF off
    <3>1. QED
      BY <2>2, <2>3, FS_Surjection
  <2>5. IsFiniteSet(lost)
    <3> HIDE DEF off
    <3>1. QED
      BY <1>5, <2>3, <2>4, FS_Union
  <2>6. lost \subseteq PropertyBookings
    BY <1>1, <1>5, <1>6 DEF BookingTable
  <2>7. QED
    BY <2>5, <2>6 DEF BookingTable
<1>8. BookingsOf(lost, c) = off
  BY <1>5, <1>6, <1>4 DEF BookingsOf
<1>9. PICK rate \in Nat, share \in 0..100 : NetOf(rs, c, rate, share)
  BY <1>1, NetIsNatural, SMTT(30)
<1>10. PICK x \in Nat : x = ChannelMetrics(rs, c, k).net /\ ChannelMetrics(rs, c, k + 5).net <= x
  <2>1. /\ ChannelMetrics(rs, c, k).net = NetRevenue(rate, k, share)
        /\ ChannelMetrics(rs, c, k + 5).net = NetRevenue(rate, k + 5, share)
    BY <1>9 DEF NetOf
  <2>2. NetRevenue(rate, k, share) \in Nat /\ NetRevenue(rate, k + 5, share) <= NetRevenue(rate, k, share)
    BY NetFalls
  <2>3. QED
    BY <2>1, <2>2
<1>11. B # {} => ChannelMetrics(lost, c, k).net = 0
  <2> SUFFICES ASSUME B # {}
               PROVE  ChannelMetrics(lost, c, k).net = 0
    OBVIOUS
  <2>1. BookingsOf(lost, c) # {} /\ \A r \in BookingsOf(lost, c) : r.status = "cancelled"
    BY <1>6, <1>8
  <2>2. PICK y \in Nat, s \in 0..100 : NetOf(lost, c, y, s)
    BY <1>7, NetIsNatural
  <2>3. s = 100 /\ ChannelMetrics(lost, c, k).net = NetRevenue(y, k, s)
    BY <2>1, <2>2 DEF NetOf
  <2>4. QED
    BY <2>3, NetFalls
<1>12. B = {} => lost = rs
  <2>1. B = {} => off = {}
    OBVIOUS
  <2> HIDE DEF off
  <2>2. QED
    BY <1>5, <2>1
<1>13. ChannelMetrics(lost, c, k).net <= x
  BY <1>10, <1>11, <1>12
<1>14. QED
  BY <1>1, <1>2, <1>3, <1>5, <1>10, <1>11, <1>13 DEF WorthLess

\* Whatever bookings, plans, settings and channels a property has, the agents build on
\* each other the way they promise.
LEMMA AgentsBuild == \A q \in AskedProperties : AgentsBuildOnEachOther(q)
<1> SUFFICES ASSUME NEW q \in AskedProperties
             PROVE  AgentsBuildOnEachOther(q)
  OBVIOUS
<1>1. PropertyTables(q) /\ BookingTable(q.rs) /\ q.rooms \in Nat /\ q.days \in Nat
  BY RevenueAssumption DEF PropertyTables, BookingTable
<1>2. PICK forecast : forecast = DemandForecast(q.rs, q.rooms, q.days)
  OBVIOUS
<1>3. DOMAIN forecast = 0..(q.days - 1) /\ \A d \in 0..(q.days - 1) : forecast[d] \in Share
  BY <1>1, <1>2, ForecastsAreShares
<1>4. RatesHold(q, forecast)
  BY <1>1, <1>3, RatesOfPlans
<1>5. LevelsHold(q)
  BY <1>1, LevelsOfDays
<1>6. DatesHold(q)
  BY <1>1, DatesAddUp
<1>7. PICK mix : mix = Allocations(q.rs, q.commissions, forecast) /\ MixHolds(q, mix)
  BY <1>1, MixIsRanked
<1>8. \A c \in DOMAIN q.commissions : WorthLess(q, c)
  BY <1>1, DearerIsWorthLess
<1>9. QED
  BY <1>2, <1>4, <1>5, <1>6, <1>7, <1>8, ZenonT(40) DEF AgentsBuildOnEachOther, RatesHold, LevelsHold, DatesHold, MixHolds, WorthLess

\* The rules of the revenue agents hold of whatever they are asked.
THEOREM AllRevenueRulesHold == RevenueRulesHold
<1>1. \A rs \in AskedTables, totalRooms \in AskedSizes : CountsAgree(rs, totalRooms)
  BY AllCountAlike, RevenueAssumption
<1>2. \A q \in AskedRates : RateFollowsBookings(q)
  BY RatesFollowBookings, RevenueAssumption
<1>3. \A q \in AskedLevels : OverbookingWithinRisk(q)
  BY OverbookingIsBounded, RevenueAssumption
<1>4. \A r \in AskedRisks : RiskIsOrdered(r)
  BY RiskOrdered, RevenueAssumption
<1>5. \A q \in AskedChannels : DearChannelsFirst(q)
  BY DearChannelsAreCutFirst, RevenueAssumption
<1>6. \A q \in AskedProperties : AgentsBuildOnEachOther(q)
  BY AgentsBuild
<1>7. QED
  BY <1>1, <1>2, <1>3, <1>4, <1>5, <1>6 DEF RevenueRulesHold

-----------------------------------------------------------------------------
(* The agents of the house.                                                *)

\* Anomalies: nothing is found where nothing is wrong, and what is critical is.
LEMMA AnomaliesFound == \A s \in AuditedStays : AnomaliesAreFound(s)
<1> SUFFICES ASSUME NEW s \in AuditedStays
             PROVE  AnomaliesAreFound(s)
  OBVIOUS
<1> DEFINE critical == {a \in Anomalies(s) : Severity(a) = "critical"}
           inHouse == s.status \in {"checked_in", "stayover", "due_out"}
<1>1. /\ s.departure \in Int /\ s.profile.mean \in Int /\ s.profile.deviation \in Nat
      /\ \A f \in OpenFolios(s) : /\ f.room \in Nat /\ f.tax \in Nat /\ f.charges \in Int /\ f.payments \in Int
                                  /\ f.amount \in Int
  BY DEF AuditedStays, AuditedFolios, OpenFolios
<1>2. inHouse \/ s.status = "checked_out" => Anomalies(s) = StayAnomalies(s)
  BY DEF Anomalies
<1>3. ASSUME inHouse, s.departure >= 0, Cardinality(OpenFolios(s)) = 1,
             \A f \in OpenFolios(s) : f.room > 0 /\ f.tax > 0 /\ f.charges = f.payments /\ f.amount = s.profile.mean
      PROVE  Anomalies(s) = {}
  <2>1. OpenFolios(s) # {}
    BY <1>3, FS_EmptySet
  <2>2. ASSUME NEW f \in OpenFolios(s)
        PROVE  FolioAnomalies(s, f) = {}
    <3>1. f.room # 0 /\ f.tax # 0 /\ DiffersBy(f.charges, f.payments) = 0 /\ DiffersBy(f.amount, s.profile.mean) = 0
      BY <1>1, <1>3, <2>2 DEF DiffersBy
    <3>2. ~IsOutlier(f.amount, s.profile)
      BY <1>1, <3>1 DEF IsOutlier
    <3>3. QED
      BY <3>1, <3>2 DEF FolioAnomalies
  <2>3. ~(s.departure < 0) /\ ~(Cardinality(OpenFolios(s)) > 1)
    BY <1>1, <1>3
  <2>4. StayAnomalies(s) = {}
    BY <2>1, <2>2, <2>3 DEF StayAnomalies
  <2>5. QED
    BY <1>2, <1>3, <2>4
<1>4. ASSUME inHouse \/ s.status = "checked_out", NEW f \in OpenFolios(s),
             \/ f.room > 0 /\ f.tax = 0
             \/ s.status = "checked_out" /\ f.charges > 0 /\ f.payments = 0 /\ f.charges > 1
      PROVE  critical # {}
  <2>1. FolioAnomalies(s, f) \subseteq Anomalies(s)
    BY <1>2, <1>4 DEF StayAnomalies
  <2>2. CASE f.room > 0 /\ f.tax = 0
    <3>1. "missing_tax" \in FolioAnomalies(s, f)
      BY <2>2 DEF FolioAnomalies
    <3>2. QED
      BY <2>1, <3>1 DEF Severity
  <2>3. CASE s.status = "checked_out" /\ f.charges > 0 /\ f.payments = 0 /\ f.charges > 1
    <3>1. DiffersBy(f.charges, f.payments) > 1
      BY <1>1, <2>3 DEF DiffersBy
    <3>2. "payment_mismatch" \in FolioAnomalies(s, f)
      BY <2>3, <3>1 DEF FolioAnomalies
    <3>3. QED
      BY <2>1, <3>2 DEF Severity
  <2>4. QED
    BY <1>4, <2>2, <2>3
<1>5. inHouse /\ s.status # "due_out" /\ s.departure < 0 => "stale_checked_in" \in critical
  BY <1>2 DEF StayAnomalies, Severity
<1>6. QED
  BY <1>3, <1>4, <1>5 DEF AnomaliesAreFound

\* Mails: what is due is not sent yet, is enabled, and is consented to or a confirmation.
LEMMA MailsWelcome ==
  ASSUME NEW r \in MailRecipients, NEW event, NEW config \in [enabled : SUBSET STRING, daysBefore : Nat]
  PROVE  MailsAreWelcome(r, event, config)
<1> SUFFICES ASSUME NEW t \in EmailsDue(r, event, config)
             PROVE  /\ t \notin r.sent /\ t \in config.enabled
                    /\ r.consent \/ (t = "confirmation" /\ event = "reservation.created")
                    /\ event = "none" => r.status \notin {"cancelled", "no_show"} /\ r.arrival >= 0
  BY DEF MailsAreWelcome
<1>1. /\ t \in TypesToGenerate(r, event, config) /\ t \notin r.sent
      /\ r.consent \/ t = "confirmation"
  BY DEF EmailsDue
<1>2. t \in config.enabled
  BY <1>1 DEF TypesToGenerate
<1>3. t = "confirmation" => event = "reservation.created"
  BY <1>1 DEF TypesToGenerate, EmailTypeFor
<1>4. ASSUME event = "none"
      PROVE  r.status \notin {"cancelled", "no_show"} /\ r.arrival >= 0
  <2>1. r.arrival \in Int
    BY DEF MailRecipients
  <2>2. EmailTypeFor(event) = "none"
    BY <1>4 DEF EmailTypeFor
  <2>3. ~(r.arrival < 0 \/ r.status \in {"cancelled", "no_show"})
    BY <1>1, <2>2 DEF TypesToGenerate
  <2>4. QED
    BY <2>1, <2>3
<1>5. QED
  BY <1>1, <1>2, <1>3, <1>4

\* Drafts: no more than four topics are addressed, none that is not raised.
AllTopics == {Topics[i] : i \in DOMAIN Topics}

LEMMA TopicsAreFinite == IsFiniteSet(AllTopics) /\ IsFiniteSet(1..10) /\ DOMAIN Topics = 1..10
<1>1. DOMAIN Topics = 1..10
  BY DEF Topics
<1>2. IsFiniteSet(1..10)
  <2>1. PICK b \in Int : b = 10
    OBVIOUS
  <2>2. IsFiniteSet(1..b)
    BY FS_Interval
  <2>3. QED
    BY <2>1, <2>2
<1>3. PICK f : f = [i \in 1..10 |-> Topics[i]]
  OBVIOUS
<1>4. f \in Surjection(1..10, AllTopics)
  BY <1>1, <1>3 DEF Surjection, AllTopics
<1>5. QED
  BY <1>1, <1>2, <1>4, FS_Surjection

\* Of those of a set of numbers that have fewer than four before them there are four.
LEMMA FirstFour ==
  ASSUME NEW S \in SUBSET (1..10)
  PROVE  Cardinality({j \in S : Cardinality({k \in S : k < j}) < 4}) <= 4
<1> DEFINE before(j) == {k \in S : k < j}
           F == {j \in S : Cardinality(before(j)) < 4}
<1>1. \A T \in SUBSET S : IsFiniteSet(T) /\ Cardinality(T) \in Nat
  BY TopicsAreFinite, FS_Subset, FS_CardinalityType
<1>2. PICK rank : rank = [j \in F |-> Cardinality(before(j))]
  OBVIOUS
<1>3. ASSUME NEW i \in F, NEW j \in F, i < j
      PROVE  rank[i] < rank[j]
  <2>0. i \in 1..10 /\ j \in 1..10 /\ i \in S /\ j \in S
    OBVIOUS
  <2>1. before(i) \subseteq before(j) /\ i \in before(j) /\ i \notin before(i) /\ before(j) \in SUBSET S
    <3>1. \A k \in S : k \in 1..10
      OBVIOUS
    <3>2. \A k \in S : k < i => k < j
      BY <1>3, <2>0, <3>1
    <3>3. i < j /\ ~(i < i)
      BY <1>3, <2>0
    <3>4. QED
      BY <2>0, <3>2, <3>3
  <2>2. before(i) \cup {i} \subseteq before(j) /\ before(i) \in SUBSET S
    BY <2>1
  <2>3. Cardinality(before(i) \cup {i}) = Cardinality(before(i)) + 1
    BY <1>1, <2>1, <2>2, FS_AddElement
  <2>4. Cardinality(before(i) \cup {i}) <= Cardinality(before(j))
    BY <1>1, <2>1, <2>2, FS_Subset
  <2>5. PICK a, b : a = Cardinality(before(i)) /\ b = Cardinality(before(j))
    OBVIOUS
  <2>6. a \in Nat /\ b \in Nat
    BY <1>1, <2>1, <2>2, <2>5
  <2>7. rank[i] = a /\ rank[j] = b /\ a + 1 <= b
    BY <1>2, <2>3, <2>4, <2>5
  <2>8. QED
    BY <2>6, <2>7
<1>4. rank \in [F -> 0..3]
  <2>1. ASSUME NEW j \in F
        PROVE  Cardinality(before(j)) \in 0..3
    <3>1. PICK n : n = Cardinality(before(j))
      OBVIOUS
    <3>2. before(j) \in SUBSET S
      OBVIOUS
    <3>3. n \in Nat /\ n < 4
      BY <1>1, <3>1, <3>2
    <3>4. QED
      BY <3>1, <3>3
  <2> HIDE DEF F
  <2>2. QED
    BY <1>2, <2>1
<1>5. rank \in Injection(F, 0..3)
  <2>1. ASSUME NEW i \in F, NEW j \in F, rank[i] = rank[j]
        PROVE  i = j
    <3>1. i \in Nat /\ j \in Nat /\ rank[i] \in 0..3 /\ rank[j] \in 0..3
      BY <1>4
    <3>2. ~(i < j) /\ ~(j < i)
      BY <1>3, <2>1, <3>1
    <3>3. QED
      BY <3>1, <3>2
  <2> HIDE DEF F
  <2>2. QED
    BY <1>4, <2>1 DEF Injection, IsInjective
<1>6. IsFiniteSet(0..3) /\ Cardinality(0..3) = 4
  <2>1. PICK b \in Int : b = 3
    OBVIOUS
  <2>2. IsFiniteSet(0..b) /\ Cardinality(0..b) = IF 0 > b THEN 0 ELSE b - 0 + 1
    BY FS_Interval
  <2>3. QED
    BY <2>1, <2>2
<1>7. Cardinality(F) <= 4
  <2> HIDE DEF F
  <2>1. QED
    BY <1>5, <1>6, FS_Injection
<1>8. QED
  BY <1>7

LEMMA AddressedTopics ==
  ASSUME NEW rating \in 1..5, NEW topics \in SUBSET AllTopics
  PROVE  /\ IsFiniteSet(topics) /\ Cardinality(topics) \in Nat /\ Addressed(rating, topics) \subseteq topics
         /\ Cardinality(Addressed(rating, topics)) \in Nat
         /\ Cardinality(Addressed(rating, topics)) <= 4
         /\ Cardinality(Addressed(rating, topics)) <= Cardinality(topics)
<1> DEFINE found == {i \in DOMAIN Topics : Topics[i] \in topics}
           first == {j \in found : Cardinality({k \in found : k < j}) < 4}
           named == {Topics[i] : i \in first}
           addressed == Addressed(rating, topics)
<1>1. IsFiniteSet(topics) /\ Cardinality(topics) \in Nat
  BY TopicsAreFinite, FS_Subset, FS_CardinalityType
<1>2. addressed \subseteq named /\ addressed \subseteq topics
  BY DEF Addressed
<1>3. found \in SUBSET (1..10) /\ first \in SUBSET (1..10) /\ IsFiniteSet(first)
  <2>1. found \in SUBSET (1..10) /\ first \in SUBSET (1..10)
    BY TopicsAreFinite
  <2>2. QED
    BY <2>1, TopicsAreFinite, FS_Subset
<1>4. Cardinality(first) <= 4
  BY <1>3, FirstFour
<1>5. IsFiniteSet(named) /\ Cardinality(named) <= Cardinality(first)
  <2>1. PICK f : f = [i \in first |-> Topics[i]]
    OBVIOUS
  <2>2. f \in Surjection(first, named)
    BY <2>1 DEF Surjection
  <2> HIDE DEF first, named
  <2>3. QED
    BY <1>3, <2>2, FS_Surjection
<1>6. Cardinality(addressed) <= Cardinality(named) /\ Cardinality(addressed) <= Cardinality(topics)
      /\ Cardinality(addressed) \in Nat
  <2> HIDE DEF named, addressed
  <2>1. QED
    BY <1>1, <1>2, <1>5, FS_Subset, FS_CardinalityType
<1>7. Cardinality(named) \in Nat /\ Cardinality(first) \in Nat
  BY <1>3, <1>5, FS_CardinalityType
<1>8. PICK a \in Nat, b \in Nat, c \in Nat : a = Cardinality(addressed) /\ b = Cardinality(named) /\ c = Cardinality(first)
  BY <1>6, <1>7
<1>9. a <= 4
  BY <1>4, <1>5, <1>6, <1>8
<1>10. QED
  BY <1>1, <1>2, <1>6, <1>8, <1>9

LEMMA CoverOf ==
  ASSUME NEW c \in Nat, NEW n \in Nat, n > 0, c <= n, c <= 4
  PROVE  /\ (20 * c) \div n \in 0..20
         /\ n > 5 => (20 * c) \div n < 15
<1>1. PICK d \in Nat : d = (20 * c) \div n /\ n * d <= 20 * c /\ 20 * c < n * d + n
  BY DivisionBounds
<1>2. n * d <= 20 * n
  BY <1>1
<1>3. d <= 20
  <2> SUFFICES ASSUME d >= 21
               PROVE  FALSE
    BY <1>1
  <2>1. n * d >= n * 21
    OBVIOUS
  <2>2. QED
    BY <1>2, <2>1
<1>4. ASSUME n > 5, d >= 15
      PROVE  FALSE
  <2>1. n * d >= n * 15
    BY <1>4
  <2>2. n * d <= 80
    BY <1>1
  <2>3. QED
    BY <1>4, <2>1, <2>2
<1>5. QED
  BY <1>1, <1>3, <1>4

LEMMA DraftsModest ==
  ASSUME NEW rating \in 1..5, NEW topics \in SUBSET AllTopics
  PROVE  DraftsStayModest(rating, topics)
<1>1. PICK c \in Nat, n \in Nat : /\ c = Cardinality(Addressed(rating, topics)) /\ n = Cardinality(topics)
                                  /\ c <= 4 /\ c <= n
  BY AddressedTopics
<1>2. n = 0 <=> topics = {}
  BY <1>1, AddressedTopics, FS_EmptySet
<1>3. DraftConfidence(rating, topics) = 70 + (IF topics = {} THEN 20 ELSE (20 * c) \div n)
  BY <1>1 DEF DraftConfidence
<1>4. DraftConfidence(rating, topics) \in 70..90 /\ (n > 5 => DraftConfidence(rating, topics) < 85)
  <2>1. CASE topics = {}
    BY <1>2, <1>3, <2>1
  <2>2. CASE topics # {}
    <3>1. (20 * c) \div n \in 0..20 /\ (n > 5 => (20 * c) \div n < 15)
      BY <1>1, <1>2, <2>2, CoverOf
    <3>2. PICK d \in 0..20 : d = (20 * c) \div n
      BY <3>1
    <3>3. QED
      BY <1>3, <2>2, <3>1, <3>2
  <2>3. QED
    BY <2>1, <2>2
<1>5. ASSUME rating >= 3, topics # {}, topics \subseteq {"noise", "parking", "wifi"}
      PROVE  DraftConfidence(rating, topics) = 70
  <2>1. Sentiment(rating) # "negative"
    BY <1>5 DEF Sentiment
  <2>2. Addressed(rating, topics) \cap topics = {}
    BY <1>5, <2>1 DEF Addressed, WithText
  <2>3. Addressed(rating, topics) = {}
    BY <2>2, AddressedTopics
  <2>4. c = 0 /\ n > 0
    <3>1. Cardinality({}) = 0
      BY FS_EmptySet
    <3>2. n # 0
      BY <1>2, <1>5
    <3>3. QED
      BY <1>1, <2>3, <3>1, <3>2
  <2>5. (20 * c) \div n = 0
    BY <2>4
  <2>6. DraftConfidence(rating, topics) = 70 + (20 * c) \div n
    BY <1>3, <1>5
  <2>7. QED
    BY <2>5, <2>6
<1>6. QED
  BY <1>1, <1>4, <1>5 DEF DraftsStayModest

\* The housekeepers' plan: of two tasks one goes before the other.
HouseTasks == [id : Nat, type : STRING, priority : Int, room : Nat, floor : Int, vip : BOOLEAN, status : STRING]

LEMMA UrgencyTyped ==
  ASSUME NEW t \in HouseTasks
  PROVE  /\ \A i \in 1..6 : Urgency(t)[i] \in Int
         /\ Urgency(t)[6] = t.id /\ Urgency(t)[1] = IF t.vip THEN 0 ELSE 1
<1>1. t.id \in Nat /\ t.priority \in Int /\ t.room \in Nat /\ t.floor \in Int /\ t.vip \in BOOLEAN
  BY DEF HouseTasks
<1>2. PICK u1 \in Int, u2 \in Int, u3 \in Int :
        /\ u1 = (IF t.vip THEN 0 ELSE 1) /\ u2 = -t.priority
        /\ u3 = (IF t.type = "checkout" THEN 0 ELSE 1)
  BY <1>1
<1>3. Urgency(t) = <<u1, u2, u3, t.floor, t.room, t.id>>
  BY <1>2 DEF Urgency
<1>4. QED
  BY <1>1, <1>2, <1>3

LEMMA OneGoesBefore ==
  ASSUME NEW a \in HouseTasks, NEW b \in HouseTasks
  PROVE  /\ ~Before(a, a)
         /\ a.id # b.id => Before(a, b) \/ Before(b, a)
         /\ a.vip /\ ~b.vip => Before(a, b)
<1>1. PICK u, v : u = Urgency(a) /\ v = Urgency(b)
  OBVIOUS
<1>2. /\ \A i \in 1..6 : u[i] \in Int /\ v[i] \in Int
      /\ u[6] = a.id /\ v[6] = b.id
      /\ u[1] = (IF a.vip THEN 0 ELSE 1) /\ v[1] = (IF b.vip THEN 0 ELSE 1)
  BY <1>1, UrgencyTyped
<1>3. ~Before(a, a)
  BY <1>1, <1>2 DEF Before
<1>4. ASSUME a.id # b.id
      PROVE  Before(a, b) \/ Before(b, a)
  <2> DEFINE D == {i \in 1..6 : u[i] # v[i]}
  <2>1. PICK m \in D : \A k \in D : m <= k
    <3>1. D \in SUBSET Nat /\ 6 \in D
      BY <1>2, <1>4
    <3> HIDE DEF D
    <3>2. QED
      BY <3>1, LeastNatural
  <2>2. \A j \in 1..(m - 1) : u[j] = v[j]
    <3> TAKE j \in 1..(m - 1)
    <3>1. j \in 1..6 /\ ~(m <= j)
      OBVIOUS
    <3>2. QED
      BY <2>1, <3>1
  <2>3. m \in 1..6 /\ (u[m] < v[m] \/ v[m] < u[m])
    BY <1>2
  <2>4. QED
    BY <1>1, <2>2, <2>3 DEF Before
<1>5. ASSUME a.vip, ~b.vip
      PROVE  Before(a, b)
  <2>1. 1 \in 1..6 /\ u[1] < v[1] /\ 1..(1 - 1) = {}
    BY <1>2, <1>5
  <2>2. QED
    BY <1>1, <2>1 DEF Before
<1>6. QED
  BY <1>3, <1>4, <1>5

LEMMA BeforeGoesOn ==
  ASSUME NEW a \in HouseTasks, NEW b \in HouseTasks, NEW c \in HouseTasks, Before(a, b), Before(b, c)
  PROVE  Before(a, c)
<1>1. PICK u, v, w : u = Urgency(a) /\ v = Urgency(b) /\ w = Urgency(c)
  OBVIOUS
<1>2. \A i \in 1..6 : u[i] \in Int /\ v[i] \in Int /\ w[i] \in Int
  BY <1>1, UrgencyTyped
<1>3. PICK i \in 1..6 : u[i] < v[i] /\ \A j \in 1..(i - 1) : u[j] = v[j]
  BY <1>1 DEF Before
<1>4. PICK k \in 1..6 : v[k] < w[k] /\ \A j \in 1..(k - 1) : v[j] = w[j]
  BY <1>1 DEF Before
<1>5. PICK m \in 1..6 : m = IF i <= k THEN i ELSE k
  OBVIOUS
<1>6. u[m] < w[m]
  <2>1. CASE i < k
    <3>1. m = i /\ i \in 1..(k - 1)
      BY <1>5, <2>1
    <3>2. QED
      BY <1>2, <1>3, <1>4, <3>1
  <2>2. CASE i = k
    BY <1>2, <1>3, <1>4, <1>5, <2>2
  <2>3. CASE k < i
    <3>1. m = k /\ k \in 1..(i - 1)
      BY <1>5, <2>3
    <3>2. QED
      BY <1>2, <1>3, <1>4, <3>1
  <2>4. QED
    BY <2>1, <2>2, <2>3
<1>7. \A j \in 1..(m - 1) : u[j] = w[j]
  <2> TAKE j \in 1..(m - 1)
  <2>1. j \in 1..(i - 1) /\ j \in 1..(k - 1)
    BY <1>5
  <2>2. QED
    BY <1>3, <1>4, <2>1
<1>8. QED
  BY <1>1, <1>6, <1>7 DEF Before

\* Of the tasks of a list one goes before all others.
LEMMA OneIsMostUrgent ==
  ASSUME NEW tasks, TaskList(tasks), tasks # {}
  PROVE  /\ MostUrgent(tasks) \in tasks
         /\ \A u \in tasks : u = MostUrgent(tasks) \/ Before(MostUrgent(tasks), u)
<1> DEFINE First(s, t) == \A u \in s : u = t \/ Before(t, u)
           T == {s \in SUBSET tasks : s # {} => \E t \in s : First(s, t)}
<1>1. /\ IsFiniteSet(tasks) /\ \A t \in tasks : t \in HouseTasks
      /\ \A t, u \in tasks : t.id = u.id => t = u
  BY DEF TaskList, HouseTasks
<1>2. ASSUME NEW s \in SUBSET tasks, \A x \in s : s \ {x} \in T
      PROVE  s \in T
  <2> SUFFICES ASSUME s # {}
               PROVE  \E t \in s : First(s, t)
    OBVIOUS
  <2>1. PICK x \in s : TRUE
    OBVIOUS
  <2>2. CASE s \ {x} = {}
    <3>1. First(s, x)
      BY <2>2
    <3>2. QED
      BY <3>1
  <2>3. CASE s \ {x} # {}
    <3>1. PICK t \in s \ {x} : First(s \ {x}, t)
      BY <1>2, <2>3
    <3>2. t \in HouseTasks /\ x \in HouseTasks /\ t.id # x.id
      BY <1>1
    <3>3. CASE Before(t, x)
      <4>1. First(s, t)
        BY <3>1, <3>3
      <4>2. QED
        BY <4>1
    <3>4. CASE Before(x, t)
      <4>1. \A u \in s : u = x \/ Before(x, u)
        <5> TAKE u \in s
        <5>1. u \in HouseTasks /\ (u = x \/ u = t \/ Before(t, u))
          BY <1>1, <3>1
        <5>2. QED
          BY <3>2, <3>4, <5>1, BeforeGoesOn
      <4>2. QED
        BY <4>1
    <3>5. QED
      BY <3>2, <3>3, <3>4, OneGoesBefore
  <2>4. QED
    BY <2>2, <2>3
<1>3. \A s \in SUBSET tasks : s \in T
  <2> HIDE DEF T
  <2>1. QED
    BY <1>1, <1>2, TakingAway
<1>4. \E t \in tasks : \A u \in tasks : u = t \/ Before(t, u)
  BY <1>3
<1>5. QED
  BY <1>4 DEF MostUrgent

LEMMA MarkedList ==
  ASSUME NEW tasks, TaskList(tasks), NEW arrivals
  PROVE  TaskList(Actionable(MarkVips(tasks, arrivals)))
<1> DEFINE marked == MarkVips(tasks, arrivals)
           open == Actionable(marked)
<1>1. \A t \in tasks : t \in HouseTasks
  BY DEF TaskList, HouseTasks
<1>2. PICK f : f = [t \in tasks |-> [t EXCEPT !.vip = t.room \in VipRooms(arrivals)]]
  OBVIOUS
<1>3. f \in Surjection(tasks, marked)
  <2>1. \A t \in tasks : f[t] \in marked
    BY <1>2 DEF MarkVips
  <2>2. \A m \in marked : \E t \in tasks : m = f[t]
    BY <1>2 DEF MarkVips
  <2>3. f \in [tasks -> marked]
    BY <1>2, <2>1
  <2>4. QED
    BY <2>2, <2>3 DEF Surjection
<1>4. IsFiniteSet(marked)
  <2> HIDE DEF marked
  <2>1. QED
    BY <1>3, FS_Surjection DEF TaskList
<1>5. open \subseteq marked
  BY DEF Actionable
<1>6. IsFiniteSet(open)
  <2> HIDE DEF open, marked
  <2>1. QED
    BY <1>4, <1>5, FS_Subset
<1>7. \A t \in tasks : f[t] \in HouseTasks /\ f[t].id = t.id
  <2> TAKE t \in tasks
  <2>1. t \in HouseTasks
    BY <1>1
  <2>2. PICK m : m = [t EXCEPT !.vip = t.room \in VipRooms(arrivals)]
    OBVIOUS
  <2>3. PICK b \in BOOLEAN : b = (t.room \in VipRooms(arrivals))
    <3>1. (t.room \in VipRooms(arrivals)) = TRUE \/ (t.room \in VipRooms(arrivals)) = FALSE
      OBVIOUS
    <3>2. TRUE \in BOOLEAN /\ FALSE \in BOOLEAN
      OBVIOUS
    <3>3. QED
      BY <3>1, <3>2, Zenon
  <2>4. m = [t EXCEPT !.vip = b]
    BY <2>2, <2>3
  <2>5. m \in HouseTasks /\ m.id = t.id
    BY <2>1, <2>4 DEF HouseTasks
  <2>6. f[t] = m
    BY <1>2, <2>2
  <2>7. QED
    BY <2>5, <2>6
<1>8. \A m \in open : \E t \in tasks : m = f[t]
  BY <1>3, <1>5 DEF Surjection
<1>9. open \subseteq HouseTasks
  BY <1>7, <1>8
<1>10. ASSUME NEW a \in open, NEW b \in open, a.id = b.id
       PROVE  a = b
  <2>1. PICK t \in tasks : a = f[t]
    BY <1>8
  <2>2. PICK u \in tasks : b = f[u]
    BY <1>8
  <2>3. t.id = u.id
    BY <1>7, <1>10, <2>1, <2>2
  <2>4. QED
    BY <2>1, <2>2, <2>3 DEF TaskList
<1>11. TaskList(open)
  <2> HIDE DEF open
  <2>1. QED
    BY <1>6, <1>9, <1>10 DEF TaskList, HouseTasks
<1>12. QED
  BY <1>11

\* What is on a list takes the time of its tasks.
Minutes(L) == SumFunction([x \in L |-> CleaningMinutes(x.type)])

LEMMA MinutesTyped ==
  ASSUME NEW L, IsFiniteSet(L)
  PROVE  Minutes(L) \in Nat
<1>1. PICK v : v = [x \in L |-> CleaningMinutes(x.type)]
  OBVIOUS
<1>2. v \in [L -> Nat] /\ v \in [L -> Int]
  BY <1>1 DEF CleaningMinutes
<1>3. PICK g : Sums(g, L, v) /\ SumFunction(v) = g[L]
  BY <1>2, TotalIsSum
<1>4. L \in SUBSET L
  OBVIOUS
<1>5. g[L] \in Nat
  BY <1>2, <1>3, <1>4, SumOfNaturals
<1>6. QED
  BY <1>1, <1>3, <1>5 DEF Minutes

LEMMA MinutesOfOneMore ==
  ASSUME NEW L, IsFiniteSet(L), NEW t, t \notin L
  PROVE  /\ Minutes(L) \in Nat /\ CleaningMinutes(t.type) \in Nat
         /\ Minutes(L \cup {t}) = Minutes(L) + CleaningMinutes(t.type)
<1> DEFINE M == L \cup {t}
<1>1. IsFiniteSet(M) /\ L \in SUBSET M /\ M \in SUBSET M /\ M \ {t} = L /\ t \in M
  BY FS_AddElement
<1>2. PICK v : v = [x \in M |-> CleaningMinutes(x.type)]
  OBVIOUS
<1>3. PICK w : w = [x \in L |-> CleaningMinutes(x.type)]
  OBVIOUS
<1>4. \A x : CleaningMinutes(x.type) \in Nat
  BY DEF CleaningMinutes
<1>5. v \in [M -> Nat] /\ v \in [M -> Int] /\ w \in [L -> Int] /\ \A x \in L : v[x] = w[x]
  BY <1>1, <1>2, <1>3, <1>4
<1>6. v[t] = CleaningMinutes(t.type)
  BY <1>1, <1>2
<1> HIDE DEF M
<1>7. PICK g : Sums(g, M, v) /\ SumFunction(v) = g[M]
  BY <1>1, <1>5, TotalIsSum
<1>8. SumFunction(w) = g[L]
  BY <1>1, <1>5, <1>7, TotalOfPart
<1>9. Minutes(L) \in Nat
  BY MinutesTyped
<1>10. g[M] = g[M \ {t}] + v[t]
  BY <1>1, <1>5, <1>7, SumOfOneMore
<1>11. Minutes(L) = g[L] /\ Minutes(M) = g[M]
  BY <1>2, <1>3, <1>7, <1>8 DEF Minutes
<1>12. QED
  BY <1>1, <1>4, <1>6, <1>9, <1>10, <1>11 DEF M

\* A plan of some of the open tasks.
IsPlan(plan, open, staff) ==
  /\ DOMAIN plan \subseteq open
  /\ \A t \in DOMAIN plan : plan[t].to \in 1..staff /\ plan[t].place \in 1..Cardinality(ListOf(plan, plan[t].to))

\* The most urgent are in it, and come first on their lists.
InOrder(plan, open) ==
  /\ \A t \in DOMAIN plan : \A u \in open \ DOMAIN plan : Before(t, u)
  /\ \A t, u \in DOMAIN plan :
       plan[t].to = plan[u].to /\ t # u =>
         plan[t].place # plan[u].place /\ (plan[t].place < plan[u].place => Before(t, u))

\* Nobody has more to do than another by more than his last task.
Shared(plan, staff) ==
  \A t \in DOMAIN plan : \A o \in 1..staff :
    plan[t].place = Cardinality(ListOf(plan, plan[t].to))
      => Workload(plan, plan[t].to) - CleaningMinutes(t.type) <= Workload(plan, o)

LEMMA ListsAreFinite ==
  ASSUME NEW plan, NEW open, IsFiniteSet(open), DOMAIN plan \subseteq open, NEW s
  PROVE  /\ IsFiniteSet(ListOf(plan, s)) /\ Cardinality(ListOf(plan, s)) \in Nat
         /\ Workload(plan, s) \in Nat /\ Workload(plan, s) = Minutes(ListOf(plan, s))
<1> DEFINE L == ListOf(plan, s)
<1>1. L \in SUBSET open
  BY DEF ListOf
<1>2. IsFiniteSet(L) /\ Cardinality(L) \in Nat
  <2> HIDE DEF L
  <2>1. QED
    BY <1>1, FS_Subset, FS_CardinalityType
<1>4. Minutes(L) \in Nat
  <2> HIDE DEF L
  <2>1. QED
    BY <1>2, MinutesTyped
<1>5. Workload(plan, s) = Minutes(L)
  BY DEF Workload, Minutes
<1>6. QED
  BY <1>2, <1>4, <1>5

\* Somebody has the least to do.
LEMMA OneHasLeast ==
  ASSUME NEW plan, NEW open, IsFiniteSet(open), DOMAIN plan \subseteq open, NEW staff \in Nat, staff > 0
  PROVE  /\ LeastLoaded(plan, staff) \in 1..staff
         /\ \A o \in 1..staff : Workload(plan, LeastLoaded(plan, staff)) <= Workload(plan, o)
<1> DEFINE Less(s, o) == Workload(plan, s) < Workload(plan, o) \/ (Workload(plan, s) = Workload(plan, o) /\ s <= o)
           W == {Workload(plan, s) : s \in 1..staff}
<1>1. \A s : Workload(plan, s) \in Nat
  BY ListsAreFinite
<1>2. PICK m \in W : \A k \in W : m <= k
  <2>1. 1 \in 1..staff
    OBVIOUS
  <2>2. W \in SUBSET Nat /\ W # {}
    BY <1>1, <2>1
  <2> HIDE DEF W
  <2>3. QED
    BY <2>2, LeastNatural
<1> DEFINE C == {s \in 1..staff : Workload(plan, s) = m}
<1>3. PICK c \in C : \A k \in C : c <= k
  <2>1. C \in SUBSET Nat /\ C # {}
    BY <1>2
  <2> HIDE DEF C
  <2>2. QED
    BY <2>1, LeastNatural
<1>4. c \in 1..staff /\ \A o \in 1..staff : Less(c, o)
  <2>1. c \in 1..staff /\ Workload(plan, c) = m
    BY <1>3
  <2>2. ASSUME NEW o \in 1..staff
        PROVE  Less(c, o)
    <3>1. m <= Workload(plan, o) /\ (Workload(plan, o) = m => c <= o)
      BY <1>2, <1>3
    <3>2. Workload(plan, o) \in Nat /\ m \in Nat
      BY <1>1, <1>2
    <3>3. QED
      BY <2>1, <3>1, <3>2
  <2>3. QED
    BY <2>1, <2>2
<1>5. PICK l : l = LeastLoaded(plan, staff)
  OBVIOUS
<1>6. l \in 1..staff /\ \A o \in 1..staff : Less(l, o)
  <2> HIDE DEF Less
  <2>1. l = CHOOSE s \in 1..staff : \A o \in 1..staff : Less(s, o)
    BY <1>5 DEF LeastLoaded, Less
  <2>2. QED
    BY <1>4, <2>1
<1>7. \A o \in 1..staff : Workload(plan, l) <= Workload(plan, o)
  BY <1>1, <1>6
<1>8. QED
  BY <1>5, <1>6, <1>7

\* q is the plan with one task more, at the end of the list of the one it is given to.
Given(open, plan, t, s, q) ==
  /\ DOMAIN q = DOMAIN plan \cup {t} /\ DOMAIN q \subseteq open
  /\ q[t].to = s /\ q[t].place = Cardinality(ListOf(plan, s)) + 1
  /\ \A u \in DOMAIN plan : q[u] = plan[u]
  /\ \A o : o # s => ListOf(q, o) = ListOf(plan, o) /\ Workload(q, o) = Workload(plan, o)
  /\ Cardinality(ListOf(q, s)) = Cardinality(ListOf(plan, s)) + 1
  /\ Workload(q, s) = Workload(plan, s) + CleaningMinutes(t.type)

LEMMA OneMoreGiven ==
  ASSUME NEW open, IsFiniteSet(open), NEW plan, DOMAIN plan \subseteq open, NEW t \in open \ DOMAIN plan, NEW s, NEW q,
         q = GiveTo(plan, t, s)
  PROVE  Given(open, plan, t, s, q)
<1>1. DOMAIN q = DOMAIN plan \cup {t} /\ DOMAIN q \subseteq open
  BY DEF GiveTo
<1>2. q[t] = [to |-> s, place |-> Cardinality(ListOf(plan, s)) + 1] /\ \A u \in DOMAIN plan : q[u] = plan[u]
  BY DEF GiveTo
<1>3. q[t].to = s /\ q[t].place = Cardinality(ListOf(plan, s)) + 1
  BY <1>2
<1>4. \A o : o # s => ListOf(q, o) = ListOf(plan, o)
  BY <1>1, <1>2, <1>3 DEF ListOf
<1>5. ListOf(q, s) = ListOf(plan, s) \cup {t} /\ t \notin ListOf(plan, s)
  BY <1>1, <1>2, <1>3 DEF ListOf
<1>6. \A o : /\ IsFiniteSet(ListOf(plan, o)) /\ Workload(plan, o) = Minutes(ListOf(plan, o))
             /\ Workload(q, o) = Minutes(ListOf(q, o))
  BY <1>1, ListsAreFinite
<1>7. Cardinality(ListOf(q, s)) = Cardinality(ListOf(plan, s)) + 1
  BY <1>5, <1>6, FS_AddElement
<1>8. Workload(q, s) = Workload(plan, s) + CleaningMinutes(t.type)
  BY <1>5, <1>6, MinutesOfOneMore
<1>9. QED
  BY <1>1, <1>2, <1>3, <1>4, <1>6, <1>7, <1>8 DEF Given

LEMMA NextIsGiven ==
  ASSUME NEW open, TaskList(open), NEW staff \in Nat, staff > 0,
         NEW plan, IsPlan(plan, open, staff), InOrder(plan, open), Shared(plan, staff), open \ DOMAIN plan # {},
         NEW q, q = GiveTo(plan, MostUrgent(open \ DOMAIN plan), LeastLoaded(plan, staff))
  PROVE  /\ IsPlan(q, open, staff) /\ InOrder(q, open) /\ Shared(q, staff)
         /\ Cardinality(DOMAIN q) = Cardinality(DOMAIN plan) + 1
<1>1. IsFiniteSet(open) /\ open \subseteq HouseTasks /\ DOMAIN plan \subseteq open
  BY DEF TaskList, HouseTasks, IsPlan
<1>2. TaskList(open \ DOMAIN plan)
  <2>1. IsFiniteSet(open \ DOMAIN plan)
    BY <1>1, FS_Subset
  <2>2. QED
    BY <2>1 DEF TaskList
<1>3. PICK t : t = MostUrgent(open \ DOMAIN plan)
  OBVIOUS
<1>4. t \in open \ DOMAIN plan /\ \A u \in open \ DOMAIN plan : u = t \/ Before(t, u)
  <2>1. PICK rest : rest = open \ DOMAIN plan
    OBVIOUS
  <2>2. QED
    BY <1>2, <1>3, <2>1, OneIsMostUrgent
<1>5. PICK s : s = LeastLoaded(plan, staff)
  OBVIOUS
<1>6. s \in 1..staff /\ \A o \in 1..staff : Workload(plan, s) <= Workload(plan, o)
  BY <1>1, <1>5, OneHasLeast
<1>7. q = GiveTo(plan, t, s)
  BY <1>3, <1>5
<1>8. /\ DOMAIN q = DOMAIN plan \cup {t} /\ DOMAIN q \subseteq open
      /\ q[t].to = s /\ q[t].place = Cardinality(ListOf(plan, s)) + 1
      /\ \A u \in DOMAIN plan : q[u] = plan[u]
      /\ \A o : o # s => ListOf(q, o) = ListOf(plan, o) /\ Workload(q, o) = Workload(plan, o)
      /\ Cardinality(ListOf(q, s)) = Cardinality(ListOf(plan, s)) + 1
      /\ Workload(q, s) = Workload(plan, s) + CleaningMinutes(t.type)
  <2>1. Given(open, plan, t, s, q)
    BY <1>1, <1>4, <1>7, OneMoreGiven
  <2>2. QED
    BY <2>1 DEF Given
<1>9. \A o : Cardinality(ListOf(plan, o)) \in Nat /\ Workload(plan, o) \in Nat /\ CleaningMinutes(t.type) \in Nat
  BY <1>1, ListsAreFinite DEF CleaningMinutes
<1>10. \A u \in DOMAIN plan : plan[u].to \in 1..staff /\ plan[u].place \in 1..Cardinality(ListOf(plan, plan[u].to))
  BY DEF IsPlan
<1>11. \A u \in DOMAIN q : q[u].to \in 1..staff /\ q[u].place \in 1..Cardinality(ListOf(q, q[u].to))
  <2> TAKE u \in DOMAIN q
  <2>1. CASE u = t
    BY <1>6, <1>8, <1>9, <2>1
  <2>2. CASE u # t
    <3>1. u \in DOMAIN plan /\ q[u] = plan[u]
      BY <1>8, <2>2
    <3>2. PICK o, p, m, k : /\ o = plan[u].to /\ p = plan[u].place
                            /\ m = Cardinality(ListOf(plan, o)) /\ k = Cardinality(ListOf(q, o))
      OBVIOUS
    <3>3. o \in 1..staff /\ p \in 1..m /\ m \in Nat /\ (k = m \/ k = m + 1)
      BY <1>8, <1>9, <1>10, <3>1, <3>2
    <3>4. QED
      BY <3>1, <3>2, <3>3
  <2>3. QED
    BY <2>1, <2>2
<1>12. InOrder(q, open)
  <2>1. \A u \in DOMAIN q : \A x \in open \ DOMAIN q : Before(u, x)
    BY <1>4, <1>8 DEF InOrder
  <2>2. ASSUME NEW u \in DOMAIN plan, q[u].to = s
        PROVE  q[u].place < q[t].place /\ Before(u, t)
    <3>1. q[u] = plan[u] /\ plan[u].to = s /\ plan[u].place \in 1..Cardinality(ListOf(plan, s))
      BY <1>8, <1>10, <2>2
    <3>2. PICK p, m : p = plan[u].place /\ m = Cardinality(ListOf(plan, s))
      OBVIOUS
    <3>3. p \in 1..m /\ m \in Nat /\ q[t].place = m + 1 /\ q[u].place = p
      BY <1>8, <1>9, <3>1, <3>2
    <3>4. QED
      BY <1>4, <3>3 DEF InOrder
  <2>3. ASSUME NEW u \in DOMAIN q, NEW x \in DOMAIN q, q[u].to = q[x].to, u # x
        PROVE  q[u].place # q[x].place /\ (q[u].place < q[x].place => Before(u, x))
    <3>0. \A y \in DOMAIN q : q[y].place \in Int
      BY <1>11, SMTT(30)
    <3>1. CASE u = t
      <4>1. x \in DOMAIN plan /\ q[x].to = s
        BY <1>8, <2>3, <3>1
      <4>2. PICK a \in Int, b \in Int : a = q[u].place /\ b = q[x].place
        BY <3>0
      <4>3. b < a
        BY <2>2, <3>1, <4>1, <4>2
      <4>4. a # b /\ ~(a < b)
        BY <4>3
      <4>5. QED
        BY <4>2, <4>4
    <3>2. CASE x = t
      <4>1. u \in DOMAIN plan /\ q[u].to = s
        BY <1>8, <2>3, <3>2
      <4>2. PICK a \in Int, b \in Int : a = q[u].place /\ b = q[x].place
        BY <3>0
      <4>3. a < b /\ Before(u, x)
        BY <2>2, <3>2, <4>1, <4>2
      <4>4. a # b
        BY <4>3
      <4>5. QED
        BY <4>2, <4>3, <4>4
    <3>3. CASE u # t /\ x # t
      <4>1. u \in DOMAIN plan /\ x \in DOMAIN plan /\ q[u] = plan[u] /\ q[x] = plan[x]
        BY <1>8, <3>3
      <4>2. QED
        BY <2>3, <4>1 DEF InOrder
    <3>4. QED
      BY <3>1, <3>2, <3>3
  <2>4. QED
    BY <2>1, <2>3 DEF InOrder
<1>13. Shared(q, staff)
  <2> SUFFICES ASSUME NEW u \in DOMAIN q, NEW o \in 1..staff, q[u].place = Cardinality(ListOf(q, q[u].to))
               PROVE  Workload(q, q[u].to) - CleaningMinutes(u.type) <= Workload(q, o)
    BY DEF Shared
  <2>1. Workload(plan, o) <= Workload(q, o)
    BY <1>8, <1>9, SMTT(30)
  <2>2. PICK w \in Nat, v \in Nat, c \in Nat : w = Workload(plan, o) /\ v = Workload(q, o) /\ c = CleaningMinutes(u.type)
    <3>1. Workload(q, o) \in Nat /\ CleaningMinutes(u.type) \in Nat
      BY <1>8, <1>9 DEF CleaningMinutes
    <3>2. QED
      BY <1>9, <3>1
  <2>3. CASE u = t
    <3>1. Workload(q, q[u].to) = Workload(plan, s) + c /\ Workload(plan, s) <= w
      BY <1>6, <1>8, <2>2, <2>3
    <3>2. Workload(plan, s) \in Nat /\ w <= v
      BY <1>9, <2>1, <2>2
    <3>3. QED
      BY <2>2, <3>1, <3>2
  <2>4. CASE u # t
    <3>1. u \in DOMAIN plan /\ q[u] = plan[u]
      BY <1>8, <2>4
    <3>2. plan[u].to # s
      <4> SUFFICES ASSUME plan[u].to = s
                   PROVE  FALSE
        OBVIOUS
      <4>1. PICK p, m : p = plan[u].place /\ m = Cardinality(ListOf(plan, s))
        OBVIOUS
      <4>2. p \in 1..m /\ m \in Nat /\ p = m + 1
        BY <1>8, <1>9, <1>10, <3>1, <4>1
      <4>3. QED
        BY <4>2
    <3>3. /\ ListOf(q, q[u].to) = ListOf(plan, plan[u].to)
          /\ Workload(q, q[u].to) = Workload(plan, plan[u].to)
      BY <1>8, <3>1, <3>2
    <3>4. plan[u].place = Cardinality(ListOf(plan, plan[u].to))
      BY <3>1, <3>3
    <3>5. Workload(plan, plan[u].to) - c <= w
      BY <2>2, <3>1, <3>4 DEF Shared
    <3>6. Workload(plan, plan[u].to) \in Nat /\ w <= v
      BY <1>9, <2>1, <2>2
    <3>7. QED
      BY <2>2, <3>3, <3>5, <3>6
  <2>5. QED
    BY <2>3, <2>4
<1>14. Cardinality(DOMAIN q) = Cardinality(DOMAIN plan) + 1
  <2>1. IsFiniteSet(DOMAIN plan) /\ t \notin DOMAIN plan
    BY <1>1, <1>4, FS_Subset
  <2>2. QED
    BY <1>8, <2>1, FS_AddElement
<1>15. QED
  BY <1>8, <1>11, <1>12, <1>13, <1>14 DEF IsPlan


\* The plan grows task by task.
Grows(plan, open, staff, n) ==
  \A k \in 0..n :
    /\ IsPlan(plan[k], open, staff) /\ InOrder(plan[k], open) /\ Shared(plan[k], staff)
    /\ Cardinality(DOMAIN plan[k]) = k

LEMMA PlanGrows ==
  ASSUME NEW open, TaskList(open), NEW staff \in Nat, staff > 0
  PROVE  Grows(Planned(open, staff), open, staff, Cardinality(open))
<1> DEFINE empty == [t \in {} |-> {}]
           after(p) == GiveTo(p, MostUrgent(open \ DOMAIN p), LeastLoaded(p, staff))
           next(g, k) == IF k = 0 THEN empty ELSE after(g[k - 1])
<1>1. PICK n \in Nat : n = Cardinality(open)
  BY FS_CardinalityType DEF TaskList
<1> DEFINE F(g) == [k \in 0..n |-> next(g, k)]
           it == CHOOSE g : g = F(g)
           T == {m \in Nat : \E g : g = [k \in 0..m |-> next(g, k)]}
<1>2. Planned(open, staff) = it
  BY <1>1 DEF Planned
<1>3. 0 \in T
  <2>1. PICK g : g = [k \in 0..0 |-> empty]
    OBVIOUS
  <2>2. g = [k \in 0..0 |-> next(g, k)]
    BY <2>1
  <2>3. QED
    BY <2>2
<1>4. ASSUME NEW m \in Nat, m \in T
      PROVE  m + 1 \in T
  <2>1. PICK g : g = [k \in 0..m |-> next(g, k)]
    BY <1>4
  <2>2. PICK h : h = [k \in 0..(m + 1) |-> IF k = m + 1 THEN next(g, m + 1) ELSE g[k]]
    OBVIOUS
  <2>3. \A k \in 0..m : h[k] = g[k] /\ g[k] = next(g, k)
    <3> HIDE DEF next
    <3>1. QED
      BY <2>1, <2>2
  <2>4. h[m + 1] = next(g, m + 1)
    <3> HIDE DEF next
    <3>1. QED
      BY <2>2
  <2>5. ASSUME NEW k \in 0..(m + 1)
        PROVE  h[k] = next(h, k)
    <3>1. k # 0 => k - 1 \in 0..m
      OBVIOUS
    <3>2. next(h, k) = next(g, k)
      <4> HIDE DEF after
      <4>1. QED
        BY <2>3, <3>1
    <3>3. CASE k = m + 1
      BY <2>4, <3>2, <3>3
    <3>4. CASE k # m + 1
      <4>1. k \in 0..m
        BY <3>4
      <4> HIDE DEF next
      <4>2. QED
        BY <2>3, <3>2, <4>1
    <3>5. QED
      BY <3>3, <3>4
  <2>6. h = [k \in 0..(m + 1) |-> next(h, k)]
    <3> HIDE DEF next
    <3>1. QED
      BY <2>2, <2>5
  <2> HIDE DEF next
  <2>7. QED
    BY <2>6
<1>5. n \in T
  <2> HIDE DEF T
  <2>1. QED
    BY <1>3, <1>4, CountingUp
<1>6. it = F(it)
  <2>1. PICK g : g = F(g)
    BY <1>5
  <2> HIDE DEF F
  <2>2. QED
    BY <2>1
<1> HIDE DEF it
<1>7. it[0] = empty /\ \A k \in 1..n : it[k] = after(it[k - 1])
  <2>1. \A k \in 0..n : it[k] = next(it, k)
    <3> HIDE DEF next
    <3>1. QED
      BY <1>6
  <2> HIDE DEF after
  <2>2. QED
    BY <2>1
<1> DEFINE Good(k) == /\ IsPlan(it[k], open, staff) /\ InOrder(it[k], open) /\ Shared(it[k], staff)
                      /\ Cardinality(DOMAIN it[k]) = k
           U == {k \in Nat : k <= n => Good(k)}
<1>8. 0 \in U
  <2>1. DOMAIN it[0] = {}
    BY <1>7
  <2>2. QED
    BY <2>1, FS_EmptySet DEF IsPlan, InOrder, Shared
<1>9. ASSUME NEW k \in Nat, k \in U
      PROVE  k + 1 \in U
  <2> SUFFICES ASSUME k + 1 <= n
               PROVE  Good(k + 1)
    OBVIOUS
  <2>1. PICK p, q : p = it[k] /\ q = it[k + 1]
    OBVIOUS
  <2>2. IsPlan(p, open, staff) /\ InOrder(p, open) /\ Shared(p, staff) /\ Cardinality(DOMAIN p) = k
    BY <1>9, <2>1
  <2>3. q = GiveTo(p, MostUrgent(open \ DOMAIN p), LeastLoaded(p, staff))
    <3>1. k + 1 \in 1..n /\ (k + 1) - 1 = k
      OBVIOUS
    <3>2. QED
      BY <1>7, <2>1, <3>1
  <2>4. open \ DOMAIN p # {}
    <3>1. DOMAIN p # open
      BY <1>1, <2>2
    <3>2. QED
      BY <2>2, <3>1 DEF IsPlan
  <2>5. /\ IsPlan(q, open, staff) /\ InOrder(q, open) /\ Shared(q, staff)
        /\ Cardinality(DOMAIN q) = Cardinality(DOMAIN p) + 1
    BY <2>2, <2>3, <2>4, NextIsGiven
  <2>6. QED
    BY <2>1, <2>2, <2>5
<1>10. \A k \in Nat : k \in U
  <2> HIDE DEF U
  <2>1. QED
    BY <1>8, <1>9, CountingUp
<1>11. \A k \in 0..n : Good(k)
  <2> HIDE DEF Good
  <2>1. QED
    BY <1>10
<1>12. QED
  BY <1>1, <1>2, <1>11 DEF Grows

\* A route is as good as it gets, or worse: the first room of a list is no change of floor.
LEMMA RoutesAreRated ==
  ASSUME NEW open, TaskList(open), NEW staff \in Nat, NEW plan, IsPlan(plan, open, staff), NEW s
  PROVE  RouteEfficiency(plan, s) \in 0..100
<1> DEFINE L == ListOf(plan, s)
           C == FloorChanges(plan, s)
<1>1. IsFiniteSet(open) /\ DOMAIN plan \subseteq open
  BY DEF TaskList, IsPlan
<1>2. IsFiniteSet(L) /\ Cardinality(L) \in Nat
  BY <1>1, ListsAreFinite
<1>3. PICK hundred \in Nat : hundred = 100
  OBVIOUS
<1>4. PICK r \in Nat : r = Cardinality(L)
  BY <1>2
<1>5. CASE r <= 1
  <2>1. RouteEfficiency(plan, s) = 100
    BY <1>4, <1>5 DEF RouteEfficiency
  <2>2. QED
    BY <2>1
<1>6. CASE r > 1
  <2> DEFINE P == {plan[t].place : t \in L}
  <2>1. \A t \in L : plan[t].place \in Nat
    <3> TAKE t \in L
    <3>1. t \in DOMAIN plan /\ plan[t].to = s
      BY DEF ListOf
    <3>2. plan[t].place \in 1..Cardinality(L)
      BY <3>1 DEF IsPlan
    <3>3. QED
      BY <1>2, <3>2
  <2>2. L # {}
    BY <1>4, <1>6, FS_EmptySet
  <2>3. PICK m \in P : \A k \in P : m <= k
    <3>1. P \in SUBSET Nat /\ P # {}
      BY <2>1, <2>2
    <3> HIDE DEF P
    <3>2. QED
      BY <3>1, LeastNatural
  <2>4. PICK t \in L : plan[t].place = m
    BY <2>3
  <2>5. t \notin C
    <3> SUFFICES ASSUME NEW u \in L, plan[u].place = plan[t].place - 1
                 PROVE  FALSE
      BY DEF FloorChanges
    <3>1. m <= plan[u].place /\ plan[u].place = m - 1 /\ m \in Nat
      BY <2>1, <2>3, <2>4
    <3>2. QED
      BY <3>1
  <2>6. C \subseteq L \ {t}
    BY <2>5 DEF FloorChanges
  <2>7. IsFiniteSet(L \ {t}) /\ Cardinality(L \ {t}) = r - 1
    <3> HIDE DEF L
    <3>1. QED
      BY <1>2, <1>4, <2>4, FS_RemoveElement
  <2>8. Cardinality(C) \in Nat /\ Cardinality(C) <= r - 1
    <3> HIDE DEF L, C
    <3>1. QED
      BY <2>6, <2>7, FS_Subset, FS_CardinalityType
  <2>9. PICK c \in Nat : c = Cardinality(C)
    BY <2>8
  <2>10. PICK k \in Nat : k = r - 1 /\ k > 0 /\ c <= k
    BY <1>6, <2>8, <2>9
  <2>11. PICK x \in Nat : x = hundred * c /\ x <= hundred * k
    BY <1>3, <2>10
  <2>12. PICK d \in Nat : d = x \div k /\ k * d <= x
    BY <2>10, <2>11, DivisionBounds
  <2>13. d <= hundred
    <3> SUFFICES ASSUME d >= hundred + 1
                 PROVE  FALSE
      OBVIOUS
    <3>1. k * d >= k * (hundred + 1)
      BY <2>10
    <3>2. k * (hundred + 1) = hundred * k + k
      OBVIOUS
    <3>3. QED
      BY <2>10, <2>11, <2>12, <3>1, <3>2
  <2>14. RouteEfficiency(plan, s) = 100 - d
    BY <1>3, <1>4, <1>6, <2>9, <2>10, <2>11, <2>12 DEF RouteEfficiency
  <2>15. QED
    BY <1>3, <2>13, <2>14
<1>7. QED
  BY <1>5, <1>6

LEMMA PlansAreFair ==
  ASSUME NEW tasks, TaskList(tasks), NEW arrivals, NEW staff \in Nat
  PROVE  PlanIsFair(tasks, arrivals, staff)
<1>1. PICK open : open = Actionable(MarkVips(tasks, arrivals)) /\ TaskList(open)
  BY MarkedList
<1>2. PICK plan : plan = HousePlan(tasks, arrivals, staff)
  OBVIOUS
<1>3. PICK n \in Nat : n = Cardinality(open)
  BY <1>1, FS_CardinalityType DEF TaskList
<1>4. staff = 0 => DOMAIN plan = {}
  BY <1>2 DEF HousePlan
<1>5. staff > 0 => /\ IsPlan(plan, open, staff) /\ InOrder(plan, open) /\ Shared(plan, staff)
                   /\ Cardinality(DOMAIN plan) = n
  <2> SUFFICES ASSUME staff > 0
               PROVE  /\ IsPlan(plan, open, staff) /\ InOrder(plan, open) /\ Shared(plan, staff)
                      /\ Cardinality(DOMAIN plan) = n
    OBVIOUS
  <2>1. plan = Planned(open, staff)[n]
    BY <1>1, <1>2, <1>3 DEF HousePlan
  <2>2. Grows(Planned(open, staff), open, staff, n)
    BY <1>1, <1>3, PlanGrows
  <2>3. n \in 0..n
    OBVIOUS
  <2>4. QED
    BY <2>1, <2>2, <2>3 DEF Grows
<1>6. IsPlan(plan, open, staff) /\ InOrder(plan, open) /\ Shared(plan, staff)
  <2>1. CASE staff = 0
    BY <1>4, <2>1 DEF IsPlan, InOrder, Shared
  <2>2. QED
    BY <1>5, <2>1
<1>7. IsFiniteSet(open) /\ DOMAIN plan \subseteq open /\ \A t \in open : t \in HouseTasks
  BY <1>1, <1>6 DEF TaskList, HouseTasks, IsPlan
<1>8. staff > 0 => DOMAIN plan = open
  <2>1. staff > 0 => Cardinality(DOMAIN plan) = Cardinality(open)
    BY <1>3, <1>5
  <2>2. QED
    BY <1>7, <2>1, FS_Subset
<1>9. \A t \in DOMAIN plan :
        plan[t].to \in 1..staff /\ plan[t].place \in 1..Cardinality(ListOf(plan, plan[t].to))
  BY <1>6 DEF IsPlan
<1>10. \A t \in DOMAIN plan : \A u \in ListOf(plan, plan[t].to) : u = t \/ plan[u].place # plan[t].place
  BY <1>6 DEF InOrder, ListOf
<1>11. ASSUME NEW t \in DOMAIN plan, NEW u \in ListOf(plan, plan[t].to), t.vip, ~u.vip
       PROVE  plan[t].place < plan[u].place
  <2>1. u \in DOMAIN plan /\ plan[u].to = plan[t].to /\ t # u
    BY <1>11 DEF ListOf
  <2>2. t \in HouseTasks /\ u \in HouseTasks
    BY <1>7, <2>1
  <2>3. ~Before(u, t)
    <3>1. Before(t, u) /\ ~Before(t, t)
      BY <1>11, <2>2, OneGoesBefore
    <3>2. QED
      BY <2>2, <3>1, BeforeGoesOn
  <2>4. plan[u].place # plan[t].place /\ ~(plan[u].place < plan[t].place)
    BY <1>6, <2>1, <2>3 DEF InOrder
  <2>5. plan[u].place \in Int /\ plan[t].place \in Int
    BY <1>9, <2>1
  <2>6. QED
    BY <2>4, <2>5
<1>12. \A s \in 1..staff : RouteEfficiency(plan, s) \in 0..100
  BY <1>1, <1>6, RoutesAreRated
<1>13. \A t \in DOMAIN plan, o \in 1..staff :
         plan[t].place = Cardinality(ListOf(plan, plan[t].to))
           => Workload(plan, plan[t].to) - CleaningMinutes(t.type) <= Workload(plan, o)
  BY <1>6 DEF Shared
<1>14. QED
  <2>1. HousePlan(tasks, arrivals, staff) = plan /\ Actionable(MarkVips(tasks, arrivals)) = open
    BY <1>1, <1>2
  <2>2. QED
    BY <1>8, <1>9, <1>10, <1>11, <1>12, <1>13, <2>1 DEF PlanIsFair

\* The plan of the house is fair, the anomalies of the night are found, mails are welcome
\* and drafts modest, whatever the agents of the house are asked.
THEOREM AllHousePlansHold == HousePlanHolds
<1>1. \A tasks \in AskedTasks, arrivals \in AskedArrivals, staff \in AskedStaff : PlanIsFair(tasks, arrivals, staff)
  BY PlansAreFair, HouseAssumption
<1>2. \A s \in AskedStays : AnomaliesAreFound(s)
  BY AnomaliesFound, HouseAssumption
<1>3. \A r \in AskedRecipients, event \in AskedEvents, config \in AskedMailings : MailsAreWelcome(r, event, config)
  BY MailsWelcome, HouseAssumption
<1>4. \A rating \in AskedRatings, topics \in AskedTopics : DraftsStayModest(rating, topics)
  BY DraftsModest, HouseAssumption DEF AllTopics
<1>5. QED
  BY <1>1, <1>2, <1>3, <1>4 DEF HousePlanHolds

-----------------------------------------------------------------------------
(* Sales to agents.                                                        *)

\* Division by a positive number, of numbers that may be negative.
LEMMA DivisionOf ==
  ASSUME NEW x \in Int, NEW k \in Nat, k > 0
  PROVE  \E d \in Int : d = x \div k /\ k * d <= x /\ x < k * d + k
<1>1. x = k * (x \div k) + (x % k) /\ x % k \in 0..(k - 1) /\ x \div k \in Int
  OBVIOUS
<1>2. PICK d \in Int, e \in Nat : d = x \div k /\ e = x % k
  BY <1>1
<1>3. x = k * d + e /\ e < k
  BY <1>1, <1>2
<1>4. k * d \in Int
  OBVIOUS
<1>5. k * d <= x /\ x < k * d + k
  BY <1>3, <1>4
<1>6. QED
  BY <1>2, <1>5

\* A rounded amount is half of one off at most.
LEMMA RoundedToCent ==
  ASSUME NEW y \in Int
  PROVE  \E h \in Int : h = Half(y, 100) /\ 200 * h <= 2 * y + 100 /\ 2 * y < 200 * h + 100
<1>1. PICK d \in Int : d = (2 * y + 100) \div 200 /\ 200 * d <= 2 * y + 100 /\ 2 * y + 100 < 200 * d + 200
  BY DivisionOf
<1>2. Half(y, 100) = (2 * y + 100) \div 200
  BY DEF Half
<1>3. QED
  BY <1>1, <1>2

\* Of the amounts v, each times k, w has the rounded hundredths.
RoundedOff(S, v, w, k) ==
  \E a \in Int, b \in Int, n \in Nat :
    /\ a = SumFunction(v) /\ b = SumFunction(w) /\ n = Cardinality(S)
    /\ 200 * b <= 2 * (a * k) + 100 * n /\ 2 * (a * k) <= 200 * b + 100 * n

\* Amounts that are rounded one by one add up to their sum, but for half of one each.
LEMMA RoundedSums ==
  ASSUME NEW S, IsFiniteSet(S), NEW v \in [S -> Int], NEW w \in [S -> Int], NEW k \in Int,
         \A x \in S : w[x] = Half(v[x] * k, 100)
  PROVE  RoundedOff(S, v, w, k)
<1>1. PICK g : Sums(g, S, v) /\ SumFunction(v) = g[S]
  BY TotalIsSum
<1>2. PICK h : Sums(h, S, w) /\ SumFunction(w) = h[S]
  BY TotalIsSum
<1>3. \A s \in SUBSET S : g[s] \in Int
  BY <1>1, SumTyped
<1>4. \A s \in SUBSET S : h[s] \in Int
  BY <1>2, SumTyped
<1>5. \A s \in SUBSET S : IsFiniteSet(s) /\ Cardinality(s) \in Nat
  BY FS_Subset, FS_CardinalityType
<1> DEFINE T == {s \in SUBSET S : /\ 200 * h[s] <= 2 * (g[s] * k) + 100 * Cardinality(s)
                                  /\ 2 * (g[s] * k) <= 200 * h[s] + 100 * Cardinality(s)}
<1>6. ASSUME NEW s \in SUBSET S, \A x \in s : s \ {x} \in T
      PROVE  s \in T
  <2>1. CASE s = {}
    <3>1. g[{}] = 0 /\ h[{}] = 0
      BY <1>1, <1>2, SumOfNothing
    <3>2. Cardinality(s) = 0
      BY <2>1, FS_EmptySet
    <3>3. QED
      BY <2>1, <3>1, <3>2
  <2>2. CASE s # {}
    <3>1. PICK x \in s : TRUE
      BY <2>2
    <3>2. g[s] = g[s \ {x}] + v[x]
      BY <1>1, SumOfOneMore
    <3>3. h[s] = h[s \ {x}] + w[x]
      BY <1>2, SumOfOneMore
    <3>4. Cardinality(s \ {x}) = Cardinality(s) - 1
      BY <1>5, FS_RemoveElement
    <3>5. PICK i \in Int, j \in Int, u \in Int, c \in Nat :
            i = g[s \ {x}] /\ j = h[s \ {x}] /\ u = v[x] /\ c = Cardinality(s \ {x})
      BY <1>3, <1>4, <1>5
    <3>6. 200 * j <= 2 * (i * k) + 100 * c /\ 2 * (i * k) <= 200 * j + 100 * c
      BY <1>6, <3>5
    <3>7. u * k \in Int /\ i * k \in Int
      OBVIOUS
    <3>8. PICK r \in Int : r = Half(u * k, 100) /\ 200 * r <= 2 * (u * k) + 100 /\ 2 * (u * k) < 200 * r + 100
      BY <3>7, RoundedToCent
    <3>9. w[x] = r
      BY <3>5, <3>8
    <3>10. (i + u) * k = i * k + u * k
      OBVIOUS
    <3>11. g[s] = i + u /\ h[s] = j + r /\ Cardinality(s) = c + 1
      BY <1>5, <3>2, <3>3, <3>4, <3>5, <3>9
    <3>12. /\ 200 * (j + r) <= 2 * ((i + u) * k) + 100 * (c + 1)
           /\ 2 * ((i + u) * k) <= 200 * (j + r) + 100 * (c + 1)
      BY <3>6, <3>7, <3>8, <3>10
    <3>13. QED
      BY <3>11, <3>12
  <2>3. QED
    BY <2>1, <2>2
<1>7. \A s \in SUBSET S : s \in T
  <2> HIDE DEF T
  <2>1. QED
    BY <1>6, TakingAway
<1>8. S \in T
  BY <1>7
<1>9. QED
  <2>1. PICK a \in Int, b \in Int, n \in Nat : a = g[S] /\ b = h[S] /\ n = Cardinality(S)
    BY <1>3, <1>4, <1>5
  <2>2. 200 * b <= 2 * (a * k) + 100 * n /\ 2 * (a * k) <= 200 * b + 100 * n
    BY <1>8, <2>1
  <2>3. QED
    BY <1>1, <1>2, <2>1, <2>2, SMTT(30) DEF RoundedOff

\* If every night costs the base amount, the stay does so many times; if none costs less,
\* the stay does not.
LEMMA SumOfAlike ==
  ASSUME NEW S, IsFiniteSet(S), NEW v \in [S -> Int], NEW b \in Nat
  PROVE  \E a \in Int, n \in Nat : /\ a = SumFunction(v) /\ n = Cardinality(S)
                                   /\ (\A x \in S : v[x] = b) => a = b * n
                                   /\ (\A x \in S : v[x] >= b) => a >= b * n
<1>1. PICK g : Sums(g, S, v) /\ SumFunction(v) = g[S]
  BY TotalIsSum
<1>2. \A s \in SUBSET S : g[s] \in Int
  BY <1>1, SumTyped
<1>3. \A s \in SUBSET S : IsFiniteSet(s) /\ Cardinality(s) \in Nat
  BY FS_Subset, FS_CardinalityType
<1> DEFINE T == {s \in SUBSET S : /\ (\A x \in S : v[x] = b) => g[s] = b * Cardinality(s)
                                  /\ (\A x \in S : v[x] >= b) => g[s] >= b * Cardinality(s)}
<1>4. ASSUME NEW s \in SUBSET S, \A x \in s : s \ {x} \in T
      PROVE  s \in T
  <2>1. CASE s = {}
    <3>1. g[{}] = 0
      BY <1>1, SumOfNothing
    <3>2. Cardinality(s) = 0
      BY <2>1, FS_EmptySet
    <3>3. b * 0 = 0
      OBVIOUS
    <3>4. QED
      BY <2>1, <3>1, <3>2, <3>3
  <2>2. CASE s # {}
    <3>1. PICK x \in s : TRUE
      BY <2>2
    <3>2. g[s] = g[s \ {x}] + v[x]
      BY <1>1, SumOfOneMore
    <3>4. Cardinality(s \ {x}) = Cardinality(s) - 1
      BY <1>3, FS_RemoveElement
    <3>5. PICK i \in Int, u \in Int, c \in Nat : i = g[s \ {x}] /\ u = v[x] /\ c = Cardinality(s \ {x})
      BY <1>2, <1>3
    <3>6. g[s] = i + u /\ Cardinality(s) = c + 1
      BY <1>3, <3>2, <3>4, <3>5
    <3>7. b * (c + 1) = b * c + b /\ b * c \in Int
      OBVIOUS
    <3>8. ASSUME \A y \in S : v[y] = b
          PROVE  g[s] = b * Cardinality(s)
      <4>1. i = b * c /\ u = b
        BY <1>4, <3>5, <3>8
      <4>2. QED
        BY <3>6, <3>7, <4>1
    <3>9. ASSUME \A y \in S : v[y] >= b
          PROVE  g[s] >= b * Cardinality(s)
      <4>1. i >= b * c /\ u >= b
        BY <1>4, <3>5, <3>9
      <4>2. i + u >= b * (c + 1)
        BY <3>7, <4>1
      <4>3. QED
        BY <3>6, <4>2
    <3>10. QED
      BY <3>8, <3>9
  <2>3. QED
    BY <2>1, <2>2
<1>5. \A s \in SUBSET S : s \in T
  <2> HIDE DEF T
  <2>1. QED
    BY <1>4, TakingAway
<1>6. S \in T
  BY <1>5
<1>7. QED
  BY <1>1, <1>2, <1>3, <1>6

\* A finite set of numbers has a largest one.
LEMMA LargestOf ==
  ASSUME NEW S \in SUBSET Int, IsFiniteSet(S), S # {}
  PROVE  Max(S) \in S /\ \A x \in S : Max(S) >= x
<1> DEFINE T == {s \in SUBSET S : s = {} \/ \E m \in s : \A x \in s : m >= x}
<1>1. ASSUME NEW s \in SUBSET S, \A x \in s : s \ {x} \in T
      PROVE  s \in T
  <2>1. CASE s = {}
    BY <2>1
  <2>2. CASE s # {}
    <3>1. PICK x \in s : TRUE
      BY <2>2
    <3>2. CASE s \ {x} = {}
      <4>1. \A y \in s : y = x
        BY <3>2
      <4>2. QED
        BY <3>1, <4>1
    <3>3. CASE s \ {x} # {}
      <4>1. PICK m \in s \ {x} : \A y \in s \ {x} : m >= y
        BY <1>1, <3>1, <3>3
      <4>2. CASE m >= x
        BY <4>1, <4>2
      <4>3. CASE ~(m >= x)
        <5>1. \A y \in s : x >= y
          BY <3>1, <4>1, <4>3
        <5>2. QED
          BY <3>1, <5>1
      <4>4. QED
        BY <4>2, <4>3
    <3>4. QED
      BY <3>2, <3>3
  <2>3. QED
    BY <2>1, <2>2
<1>2. \A s \in SUBSET S : s \in T
  <2> HIDE DEF T
  <2>1. QED
    BY <1>1, TakingAway
<1>3. \E m \in S : \A x \in S : m >= x
  BY <1>2
<1>4. QED
  BY <1>3 DEF Max

LEMMA TouchingIsFinite ==
  ASSUME NEW plan, plan.restrictions \in Seq(SaleLimits), NEW stay
  PROVE  /\ Touching(plan, stay) \in SUBSET Nat /\ IsFiniteSet(Touching(plan, stay))
         /\ \A i \in Touching(plan, stay) : plan.restrictions[i] \in SaleLimits
<1>1. PICK n \in Nat : DOMAIN plan.restrictions = 1..n
  <2>1. DOMAIN plan.restrictions = 1..Len(plan.restrictions) /\ Len(plan.restrictions) \in Nat
    OBVIOUS
  <2>2. QED
    BY <2>1
<1>2. IsFiniteSet(1..n)
  BY FS_Interval
<1>3. Touching(plan, stay) \in SUBSET (1..n)
  BY <1>1 DEF Touching
<1>4. IsFiniteSet(Touching(plan, stay))
  BY <1>2, <1>3, FS_Subset
<1>5. QED
  BY <1>1, <1>3, <1>4

\* A rate that is offered is open, and the stay keeps every limit of every restriction.
LEMMA ForSaleKeepsLimits ==
  ASSUME NEW plan, plan.restrictions \in Seq(SaleLimits), NEW stay, stay.from \in Int, stay.to \in Int,
         ForSale(plan, stay), NEW i \in Touching(plan, stay)
  PROVE  LET r == plan.restrictions[i]
             nights == stay.to - stay.from
         IN ~r.closed /\ nights >= r.minLos /\ (r.maxLos = 0 \/ nights <= r.maxLos)
<1> DEFINE touching == Touching(plan, stay)
           rs == {plan.restrictions[j] : j \in touching}
           nights == stay.to - stay.from
           least == {0} \cup {r.minLos : r \in rs}
           limits == {r.maxLos : r \in rs} \ {0}
<1>1. /\ touching \in SUBSET Nat /\ IsFiniteSet(touching) /\ i \in touching
      /\ \A j \in touching : /\ plan.restrictions[j].minLos \in Nat /\ plan.restrictions[j].maxLos \in Nat
                             /\ plan.restrictions[j].closed \in BOOLEAN
  BY TouchingIsFinite DEF SaleLimits
<1>2. /\ \A r \in rs : ~r.closed
      /\ nights >= Max(least)
      /\ (IF limits = {} THEN 0 ELSE Min(limits)) = 0 \/ nights <= (IF limits = {} THEN 0 ELSE Min(limits))
  BY DEF ForSale, MinStay, MaxStay
<1> HIDE DEF touching
<1>3. nights >= plan.restrictions[i].minLos
  <2>1. IsFiniteSet(least)
    <3>1. PICK f : f = [j \in touching |-> plan.restrictions[j].minLos]
      OBVIOUS
    <3>2. PICK K : K = {r.minLos : r \in rs}
      OBVIOUS
    <3>3. f \in [touching -> K] /\ \A k \in K : \E j \in touching : f[j] = k
      BY <3>1, <3>2
    <3>4. IsFiniteSet(K)
      BY <1>1, <3>3, FiniteClasses, ZenonT(40)
    <3>5. IsFiniteSet(K \cup {0})
      BY <3>4, FS_AddElement
    <3>6. least = K \cup {0}
      BY <3>2
    <3> HIDE DEF least
    <3>7. QED
      BY <3>5, <3>6
  <2>2. least \in SUBSET Int /\ plan.restrictions[i].minLos \in least
    BY <1>1
  <2> HIDE DEF least
  <2>3. Max(least) >= plan.restrictions[i].minLos /\ Max(least) \in Int /\ plan.restrictions[i].minLos \in Int
    BY <2>1, <2>2, LargestOf
  <2>4. nights \in Int
    OBVIOUS
  <2> HIDE DEF nights
  <2>5. QED
    BY <1>2, <2>3, <2>4
<1>4. plan.restrictions[i].maxLos = 0 \/ nights <= plan.restrictions[i].maxLos
  <2> SUFFICES ASSUME plan.restrictions[i].maxLos # 0
               PROVE  nights <= plan.restrictions[i].maxLos
    OBVIOUS
  <2>1. limits \subseteq Nat /\ plan.restrictions[i].maxLos \in limits /\ 0 \notin limits
    BY <1>1
  <2>2. nights \in Int
    OBVIOUS
  <2> HIDE DEF limits, nights
  <2>3. Min(limits) \in limits /\ \A x \in limits : Min(limits) <= x
    BY <2>1, LeastNatural DEF Min
  <2>4. Min(limits) # 0 /\ limits # {} /\ Min(limits) \in Nat
    BY <2>1, <2>3
  <2>5. nights <= Min(limits)
    BY <1>2, <2>4
  <2>6. PICK m \in Nat, x \in Nat : m = Min(limits) /\ x = plan.restrictions[i].maxLos
    BY <2>1, <2>4
  <2>7. m <= x /\ nights <= m
    BY <2>1, <2>3, <2>5, <2>6
  <2>8. QED
    BY <2>2, <2>6, <2>7
<1>5. ~plan.restrictions[i].closed
  BY <1>1, <1>2
<1>6. QED
  BY <1>3, <1>4, <1>5

\* A night costs the base amount, and no less if no extra takes anything off.
LEMMA NightRateTyped ==
  ASSUME NEW plan, plan.restrictions \in Seq(SaleLimits), plan.base \in Nat, NEW stay, NEW day \in Int
  PROVE  LET rate == NightRate(plan, stay, day)
             limits == {plan.restrictions[i] : i \in DOMAIN plan.restrictions}
         IN /\ rate \in Int
            /\ (\A r \in limits : r.extra = 0) => rate = plan.base
            /\ (\A r \in limits : r.extra >= 0) => rate >= plan.base
<1> DEFINE touching == Touching(plan, stay)
           dear == {i \in touching : plan.restrictions[i].extra # 0 /\ plan.restrictions[i].weekday = day % 7}
           limits == {plan.restrictions[i] : i \in DOMAIN plan.restrictions}
<1>1. /\ touching \in SUBSET Nat /\ IsFiniteSet(touching)
      /\ \A j \in touching : plan.restrictions[j].extra \in Int /\ plan.restrictions[j] \in limits
  BY TouchingIsFinite DEF SaleLimits, Touching
<1>2. NightRate(plan, stay, day) = plan.base + (IF dear = {} THEN 0 ELSE plan.restrictions[Max(dear)].extra)
  BY DEF NightRate
<1> HIDE DEF touching, limits
<1>3. CASE dear = {}
  BY <1>2, <1>3 DEF limits
<1>4. CASE dear # {}
  <2>1. \A i \in dear : i \in touching /\ plan.restrictions[i].extra # 0
    OBVIOUS
  <2> HIDE DEF dear
  <2>2. dear \in SUBSET Int /\ IsFiniteSet(dear)
    <3>1. dear \in SUBSET touching
      BY <2>1
    <3>2. dear \in SUBSET Int
      BY <1>1, <3>1
    <3>3. IsFiniteSet(dear)
      BY <1>1, <3>1, FS_Subset
    <3>4. QED
      BY <3>2, <3>3
  <2>3. Max(dear) \in dear
    BY <1>4, <2>2, LargestOf
  <2>4. PICK e \in Int : e = plan.restrictions[Max(dear)].extra
    BY <1>1, <2>1, <2>3
  <2>5. e # 0 /\ plan.restrictions[Max(dear)] \in limits
    BY <1>1, <2>1, <2>3, <2>4
  <2>6. NightRate(plan, stay, day) = plan.base + e
    BY <1>2, <1>4, <2>4
  <2>7. ~(\A r \in limits : r.extra = 0)
    BY <2>4, <2>5
  <2>8. (\A r \in limits : r.extra >= 0) => e >= 0
    BY <2>4, <2>5
  <2>9. QED
    BY <2>6, <2>7, <2>8 DEF limits
<1>5. QED
  BY <1>3, <1>4

\* What the search offers can be booked at once, is open and within its limits on every
\* day of the stay, and costs what its nights do, but for a cent each.
THEOREM OffersCanBeBooked ==
  ASSUME NEW q, Askable(q)
  PROVE  OffersHold(q)
<1> SUFFICES ASSUME NEW o \in Results(q)
             PROVE  LET plan == o[2]
                        rs == {plan.restrictions[i] : i \in DOMAIN plan.restrictions}
                        nights == q.stay.to - q.stay.from
                        quote == Quote(plan, q.stay, q.tax)
                        sum == SumFunction(NightlyTotals(plan, q.stay, q.tax))
                    IN /\ Accepted(q, o[1], plan)
                       /\ \A r \in rs, d \in q.stay.from..q.stay.to :
                            r.from <= d /\ d <= r.to => /\ ~r.closed /\ nights >= r.minLos
                                                        /\ r.maxLos = 0 \/ nights <= r.maxLos
                       /\ Apart(sum, quote) <= nights
                       /\ (\A r \in rs : r.extra = 0) =>
                            quote = Half(BookedTotal(plan, q.stay) * (100 + q.tax), 100)
                       /\ (\A r \in rs : r.extra >= 0) => quote >= BookedTotal(plan, q.stay)
  BY DEF OffersHold
<1>1. PICK plan, stay : plan = o[2] /\ stay = q.stay
  OBVIOUS
<1>2. /\ plan \in q.plans /\ FreeThroughout(q.free, o[1], stay) > 0 /\ ForSale(plan, stay)
      /\ stay.from \in Int /\ stay.to \in Int /\ stay.from < stay.to /\ q.tax \in Nat
      /\ plan.base \in Nat /\ plan.restrictions \in Seq(SaleLimits)
  BY <1>1 DEF Results, Askable
<1> DEFINE rs == {plan.restrictions[i] : i \in DOMAIN plan.restrictions}
           S == StayNights(stay)
           v == NightRates(plan, stay)
           w == NightlyTotals(plan, stay, q.tax)
<1>3. PICK n \in Nat, k \in Nat : n = stay.to - stay.from /\ n > 0 /\ k = 100 + q.tax
  BY <1>2
<1>4. IsFiniteSet(S) /\ Cardinality(S) = n
  <2>0. PICK a \in Int, c \in Int : a = stay.from /\ c = stay.to
    BY <1>2
  <2>1. PICK b \in Int : b = c - 1 /\ a <= b /\ n = b - a + 1
    BY <1>2, <1>3, <2>0, SMTT(30)
  <2>2. IsFiniteSet(a..b) /\ Cardinality(a..b) = IF a > b THEN 0 ELSE b - a + 1
    BY FS_Interval
  <2>3. S = a..b
    BY <2>0, <2>1 DEF StayNights
  <2> HIDE DEF S
  <2>4. QED
    BY <2>1, <2>2, <2>3
<1>5. S \subseteq Int
  BY <1>2 DEF StayNights
<1>6. v \in [S -> Int]
  BY <1>2, <1>5, NightRateTyped DEF NightRates
<1>7. w \in [S -> Int] /\ \A d \in S : w[d] = Half(v[d] * k, 100)
  <2>1. \A d \in S : w[d] = Half(v[d] * k, 100)
    BY <1>3 DEF NightlyTotals
  <2>2. w = [d \in S |-> Half(v[d] * k, 100)]
    BY <1>3 DEF NightlyTotals
  <2> HIDE DEF S, v, w
  <2>3. ASSUME NEW d \in S
        PROVE  Half(v[d] * k, 100) \in Int
    <3>1. v[d] * k \in Int
      BY <1>6
    <3>2. QED
      BY <3>1, RoundedToCent
  <2>4. QED
    BY <2>1, <2>2, <2>3
<1>8. Accepted(q, o[1], plan)
  BY <1>1, <1>2 DEF Accepted, ForSale
<1>9. ASSUME NEW r \in rs, NEW d \in stay.from..stay.to, r.from <= d, d <= r.to
      PROVE  ~r.closed /\ n >= r.minLos /\ (r.maxLos = 0 \/ n <= r.maxLos)
  <2>1. PICK i \in DOMAIN plan.restrictions : r = plan.restrictions[i]
    OBVIOUS
  <2>2. r \in SaleLimits
    BY <1>2, <2>1
  <2>3. r.from <= stay.to /\ r.to >= stay.from
    <3>1. d \in Int /\ stay.from <= d /\ d <= stay.to
      BY <1>2
    <3>2. r.from \in Int /\ r.to \in Int
      BY <2>2 DEF SaleLimits
    <3>3. PICK f \in Int, t \in Int, a \in Int, b \in Int : f = r.from /\ t = r.to /\ a = stay.from /\ b = stay.to
      BY <1>2, <3>2
    <3>4. f <= b /\ t >= a
      BY <1>9, <3>1, <3>3
    <3>5. QED
      BY <3>3, <3>4
  <2>4. i \in Touching(plan, stay)
    BY <2>1, <2>3 DEF Touching
  <2>5. QED
    BY <1>2, <1>3, <2>1, <2>4, ForSaleKeepsLimits
<1> HIDE DEF S, v, w
<1>10. PICK a \in Int, b \in Int :
         /\ a = SumFunction(v) /\ b = SumFunction(w)
         /\ 200 * b <= 2 * (a * k) + 100 * n /\ 2 * (a * k) <= 200 * b + 100 * n
  <2>1. PICK a \in Int, b \in Int, m \in Nat :
          /\ a = SumFunction(v) /\ b = SumFunction(w) /\ m = Cardinality(S)
          /\ 200 * b <= 2 * (a * k) + 100 * m /\ 2 * (a * k) <= 200 * b + 100 * m
    <3>1. RoundedOff(S, v, w, k)
      BY <1>4, <1>6, <1>7, RoundedSums
    <3>2. QED
      BY <3>1 DEF RoundedOff
  <2>2. m = n
    BY <1>4, <2>1
  <2>3. QED
    BY <2>1, <2>2
<1>11. a * k \in Int
  OBVIOUS
<1>12. PICK h \in Int : h = Half(a * k, 100) /\ 200 * h <= 2 * (a * k) + 100 /\ 2 * (a * k) < 200 * h + 100
  BY <1>11, RoundedToCent
<1>13. Quote(plan, stay, q.tax) = h
  BY <1>3, <1>10, <1>12 DEF Quote, v
<1>14. Apart(b, h) <= n
  <2>1. PICK y \in Int : y = a * k
    BY <1>11
  <2>2. b - h <= n /\ h - b <= n
    BY <1>3, <1>10, <1>12, <2>1
  <2>3. QED
    BY <2>2 DEF Apart
<1>15. PICK x \in Nat : x = BookedTotal(plan, stay) /\ x = plan.base * n
  BY <1>2, <1>3 DEF BookedTotal
<1>16. PICK c \in Int : /\ c = SumFunction(v)
                        /\ (\A d \in S : v[d] = plan.base) => c = plan.base * n
                        /\ (\A d \in S : v[d] >= plan.base) => c >= plan.base * n
  <2>1. PICK p \in Nat : p = plan.base
    BY <1>2
  <2>2. PICK c \in Int, m \in Nat : /\ c = SumFunction(v) /\ m = Cardinality(S)
                                    /\ (\A d \in S : v[d] = p) => c = p * m
                                    /\ (\A d \in S : v[d] >= p) => c >= p * m
    BY <1>4, <1>6, SumOfAlike
  <2>3. QED
    BY <1>4, <2>1, <2>2
<1>17. /\ (\A r \in rs : r.extra = 0) => \A d \in S : v[d] = plan.base
       /\ (\A r \in rs : r.extra >= 0) => \A d \in S : v[d] >= plan.base
  <2>1. \A d \in S : v[d] = NightRate(plan, stay, d)
    BY DEF NightRates, v, S
  <2> HIDE DEF rs
  <2>2. \A d \in S : /\ (\A r \in rs : r.extra = 0) => NightRate(plan, stay, d) = plan.base
                     /\ (\A r \in rs : r.extra >= 0) => NightRate(plan, stay, d) >= plan.base
    BY <1>2, <1>5, NightRateTyped DEF rs
  <2>3. QED
    BY <2>1, <2>2
<1>18. ASSUME \A r \in rs : r.extra = 0
       PROVE  h = Half(x * (100 + q.tax), 100)
  <2>1. c = x
    BY <1>15, <1>16, <1>17, <1>18
  <2>2. QED
    BY <1>3, <1>10, <1>12, <1>16, <2>1
<1>19. ASSUME \A r \in rs : r.extra >= 0
       PROVE  h >= x
  <2>1. a >= x
    BY <1>10, <1>15, <1>16, <1>17, <1>19
  <2>2. a * k >= 100 * a
    <3>1. PICK t \in Nat : t = q.tax /\ k = 100 + t
      BY <1>2, <1>3
    <3>2. a \in Nat
      BY <2>1
    <3>3. a * (100 + t) = 100 * a + a * t /\ a * t >= 0 /\ a * t \in Int
      BY <3>2
    <3>4. QED
      BY <3>1, <3>3
  <2>3. PICK y \in Int : y = a * k
    BY <1>11
  <2>4. QED
    BY <1>12, <2>1, <2>2, <2>3
<1>20. SumFunction(NightlyTotals(plan, stay, q.tax)) = b
  BY <1>10 DEF w
<1> HIDE DEF rs
<1>21. QED
  <2> DEFINE nights == q.stay.to - q.stay.from
  <2>1. nights = n
    BY <1>1, <1>3
  <2>2. \A r \in rs, d \in q.stay.from..q.stay.to :
          r.from <= d /\ d <= r.to => /\ ~r.closed /\ nights >= r.minLos
                                      /\ r.maxLos = 0 \/ nights <= r.maxLos
    BY <1>1, <1>9, <2>1
  <2> HIDE DEF nights
  <2>3. QED
    BY <1>1, <1>8, <1>13, <1>14, <1>15, <1>18, <1>19, <1>20, <2>1, <2>2 DEF rs, nights

\* The first night's share of an amount and the rest of it, each rounded for itself, make
\* up the amount or one more.
LEMMA SharesAddUp ==
  ASSUME NEW x \in Nat, NEW n \in Nat, n > 0
  PROVE  \E a \in Nat, b \in Nat : /\ a = Half(x, n) /\ b = Half(x * (n - 1), n)
                                   /\ a <= x /\ b <= x /\ a + b - x \in {0, 1}
<1>1. x * n \in Nat /\ x * (n - 1) = x * n - x /\ x * (n - 1) \in Nat
  <2>1. x * (n - 1) = x * n - x
    OBVIOUS
  <2>2. n - 1 \in Nat
    OBVIOUS
  <2>3. PICK m \in Nat : m = n - 1
    BY <2>2
  <2>4. x * m \in Nat
    OBVIOUS
  <2>5. QED
    BY <2>1, <2>3, <2>4
<1>2. PICK y \in Nat, z \in Nat : y = x * n /\ z = x * (n - 1) /\ z = y - x
  BY <1>1
<1>3. PICK k \in Nat : k = 2 * n
  OBVIOUS
<1>4. PICK a \in Int : a = (2 * x + n) \div k /\ k * a <= 2 * x + n /\ 2 * x + n < k * a + k
  BY <1>3, DivisionOf
<1>5. PICK b \in Int : b = (2 * z + n) \div k /\ k * b <= 2 * z + n /\ 2 * z + n < k * b + k
  BY <1>3, DivisionOf
<1>6. k * (a + b) = k * a + k * b /\ k * a \in Int /\ k * b \in Int
  OBVIOUS
<1>7. k * x = 2 * y
  BY <1>2, <1>3
<1>8. k * (a + b) <= k * x + k /\ k * x < k * (a + b) + k
  BY <1>2, <1>3, <1>4, <1>5, <1>6, <1>7
<1>9. a + b <= x + 1
  <2> SUFFICES ASSUME ~(a + b <= x + 1)
               PROVE  FALSE
    OBVIOUS
  <2>1. PICK e \in Nat : a + b = x + 2 + e
    <3>1. a + b - x - 2 \in Nat
      OBVIOUS
    <3>2. QED
      BY <3>1
  <2>2. k * (x + 2 + e) = k * x + 2 * k + k * e /\ k * e >= 0 /\ k * e \in Int /\ k * x \in Int
    OBVIOUS
  <2>3. k * (a + b) >= k * x + 2 * k
    BY <2>1, <2>2
  <2>4. QED
    BY <1>3, <1>8, <2>2, <2>3
<1>10. x <= a + b
  <2> SUFFICES ASSUME ~(x <= a + b)
               PROVE  FALSE
    OBVIOUS
  <2>1. PICK e \in Nat : x = a + b + 1 + e
    <3>1. x - a - b - 1 \in Nat
      OBVIOUS
    <3>2. QED
      BY <3>1
  <2>2. k * (a + b + 1 + e) = k * (a + b) + k + k * e /\ k * e >= 0 /\ k * e \in Int /\ k * (a + b) \in Int
    OBVIOUS
  <2>3. k * x >= k * (a + b) + k
    BY <2>1, <2>2
  <2>4. QED
    BY <1>6, <1>8, <2>2, <2>3
<1>11. a >= 0 /\ b >= 0
  <2>1. ASSUME NEW c \in Int, c < 0, NEW u \in Nat, u + n < k * c + k
        PROVE  FALSE
    <3>1. PICK e \in Nat : c = -1 - e
      <4>1. -1 - c \in Nat
        BY <2>1
      <4>2. QED
        BY <4>1
    <3>2. k * (-1 - e) = -k - k * e /\ k * e >= 0 /\ k * e \in Int
      OBVIOUS
    <3>3. k * c + k <= 0
      BY <3>1, <3>2
    <3>4. k * c \in Int
      OBVIOUS
    <3>5. QED
      BY <2>1, <3>3, <3>4
  <2>2. 2 * x \in Nat /\ 2 * z \in Nat
    OBVIOUS
  <2>3. a >= 0
    BY <1>4, <2>1, <2>2
  <2>4. b >= 0
    BY <1>5, <2>1, <2>2
  <2>5. QED
    BY <2>3, <2>4
<1>12. a <= x /\ b <= x
  <2>1. ASSUME NEW c \in Int, c > x, k * c <= 2 * y + n
        PROVE  FALSE
    <3>1. PICK e \in Nat : c = x + 1 + e
      <4>1. c - x - 1 \in Nat
        BY <2>1
      <4>2. QED
        BY <4>1
    <3>2. k * (x + 1 + e) = k * x + k + k * e /\ k * e >= 0 /\ k * e \in Int /\ k * x \in Int
      OBVIOUS
    <3>3. QED
      BY <1>3, <1>7, <2>1, <3>1, <3>2
  <2>2. x <= y /\ z <= y
    <3>1. PICK m \in Nat : n = m + 1
      <4>1. n - 1 \in Nat
        OBVIOUS
      <4>2. QED
        BY <4>1
    <3>2. x * (m + 1) = x * m + x /\ x * m \in Nat
      OBVIOUS
    <3>3. QED
      BY <1>2, <3>1, <3>2
  <2>3. k * a <= 2 * y + n /\ k * b <= 2 * y + n
    BY <1>4, <1>5, <1>6, <2>2
  <2>4. a <= x
    BY <2>1, <2>3
  <2>5. b <= x
    BY <2>1, <2>3
  <2>6. QED
    BY <2>4, <2>5
<1>13. Half(x, n) = a /\ Half(x * (n - 1), n) = b
  BY <1>2, <1>3, <1>4, <1>5 DEF Half
<1>14. a + b - x \in {0, 1}
  BY <1>9, <1>10
<1>15. a \in Nat /\ b \in Nat
  BY <1>11
<1>16. QED
  BY <1>12, <1>13, <1>14, <1>15

\* The penalty and the refund make up what was paid or a cent more, and neither is more
\* than that; to cancel earlier never costs more; and moving a stay there and back costs
\* nothing.
THEOREM PenaltyAndRefundAddUp ==
  ASSUME NEW q, Cancellable(q)
  PROVE  CancellationAddsUp(q)
<1> DEFINE penalty(h) == Penalty(q.type, q.total, q.nights, h)
           refund(h) == Refund(q.type, q.total, q.nights, h)
           first == [from |-> 0, to |-> q.nights]
           other == [from |-> 3, to |-> 4]
           plan == [base |-> q.base]
           moved == ModifiedTotal(BookedTotal(plan, first), plan, other, TRUE)
<1>0. PICK t : t = q.type
  OBVIOUS
<1>1. PICK x \in Nat, n \in Nat : x = q.total /\ n = (IF q.nights = 0 THEN 1 ELSE q.nights) /\ n > 0
  <2>1. PICK m \in Nat : m = q.nights
    BY DEF Cancellable
  <2>2. (IF m = 0 THEN 1 ELSE m) \in Nat /\ (IF m = 0 THEN 1 ELSE m) > 0
    OBVIOUS
  <2>3. QED
    BY <2>1, <2>2 DEF Cancellable
<1>2. PICK a \in Nat, b \in Nat : /\ a = Half(x, n) /\ b = Half(x * (n - 1), n)
                                  /\ a <= x /\ b <= x /\ a + b - x \in {0, 1}
  BY <1>1, SharesAddUp
<1>3. ASSUME NEW h \in Int
      PROVE  /\ penalty(h) = IF t = "promotional" THEN x ELSE IF h >= 24 THEN 0 ELSE a
             /\ refund(h) = IF t = "promotional" THEN 0 ELSE IF h >= 24 THEN x ELSE b
  BY <1>0, <1>1, <1>2 DEF Penalty, Refund
<1>4. PICK h \in Int : h = q.hours
  BY DEF Cancellable
<1> HIDE DEF penalty, refund
<1>5. penalty(h) + refund(h) - x \in {0, 1} /\ penalty(h) \in 0..x /\ refund(h) \in 0..x
  BY <1>2, <1>3
<1>6. penalty(h + 1) <= penalty(h)
  <2>1. h + 1 \in Int
    OBVIOUS
  <2>2. /\ penalty(h) = IF t = "promotional" THEN x ELSE IF h >= 24 THEN 0 ELSE a
        /\ penalty(h + 1) = IF t = "promotional" THEN x ELSE IF h + 1 >= 24 THEN 0 ELSE a
    BY <1>3, <2>1
  <2>3. QED
    BY <1>2, <2>2
<1>7. CostDifference(moved, plan, first, TRUE) = - CostDifference(BookedTotal(plan, first), plan, other, TRUE)
  <2>1. PICK c \in Int, d \in Int : c = BookedTotal(plan, first) /\ d = BookedTotal(plan, other)
    <3>1. q.base * (q.nights - 0) \in Int /\ q.base * (4 - 3) \in Int
      BY DEF Cancellable
    <3>2. QED
      BY <3>1 DEF BookedTotal
  <2>2. moved = d
    BY <2>1 DEF ModifiedTotal
  <2>3. CostDifference(moved, plan, first, TRUE) = c - d
    BY <2>1, <2>2 DEF CostDifference, ModifiedTotal
  <2>4. CostDifference(BookedTotal(plan, first), plan, other, TRUE) = d - c
    BY <2>1 DEF CostDifference, ModifiedTotal
  <2>5. c - d = - (d - c)
    OBVIOUS
  <2> HIDE DEF moved, plan, first, other
  <2>6. QED
    BY <2>3, <2>4, <2>5
<1>8. QED
  BY <1>1, <1>4, <1>5, <1>6, <1>7 DEF CancellationAddsUp, penalty, refund

\* A derived rate is never negative, and is that of its parent with the adjustment, as long
\* as the parent is not derived itself.
THEOREM DerivedRatesFollow ==
  ASSUME NEW plans, PlanTable(plans)
  PROVE  DerivedRatesAreSound(plans)
<1> SUFFICES ASSUME NEW p \in DOMAIN plans
             PROVE  LET plan == plans[p]
                        applied(amount) == IF plan.percentage THEN Half(amount * (100 + plan.value), 100)
                                           ELSE amount + plan.value
                    IN /\ DerivedRate(plans, p) >= 0
                       /\ (plan.type = "derived" /\ ParentAccepted(plans, plan.parent)
                             /\ plans[plan.parent].type # "derived") =>
                            DerivedRate(plans, p) = Larger(0, applied(DerivedRate(plans, plan.parent)))
  BY DEF DerivedRatesAreSound
<1> DEFINE plan == plans[p]
           applied(amount) == IF plan.percentage THEN Half(amount * (100 + plan.value), 100) ELSE amount + plan.value
<1>1. /\ plan.base \in Nat /\ plan.value \in Int /\ plan.percentage \in BOOLEAN
      /\ plan.parent \in DOMAIN plans \cup {"none"}
  BY DEF PlanTable
<1>2. ASSUME NEW amount \in Int
      PROVE  applied(amount) \in Int
  <2>1. PICK v \in Int : v = plan.value
    BY <1>1
  <2>2. amount * (100 + v) \in Int
    OBVIOUS
  <2>3. Half(amount * (100 + v), 100) \in Int
    BY <2>2, RoundedToCent
  <2>4. QED
    BY <2>1, <2>3
<1>3. CASE plan.type # "derived" \/ plan.parent = "none"
  <2>1. DerivedRate(plans, p) = plan.base
    BY <1>3 DEF DerivedRate
  <2>2. ParentAccepted(plans, plan.parent) => plan.parent # "none"
    BY DEF ParentAccepted, PlanTable
  <2>3. QED
    BY <1>1, <1>3, <2>1, <2>2
<1>4. CASE plan.type = "derived" /\ plan.parent # "none"
  <2>1. plan.parent \in DOMAIN plans
    BY <1>1, <1>4
  <2>2. PICK b \in Nat : b = plans[plan.parent].base
    BY <2>1 DEF PlanTable
  <2>3. DerivedRate(plans, p) = Larger(0, applied(b))
    BY <1>4, <2>2 DEF DerivedRate
  <2>4. plans[plan.parent].type # "derived" => DerivedRate(plans, plan.parent) = b
    BY <2>2 DEF DerivedRate
  <2>5. applied(b) \in Int
    BY <1>2
  <2> HIDE DEF applied
  <2>6. Larger(0, applied(b)) >= 0
    BY <2>5 DEF Larger
  <2>7. QED
    BY <2>3, <2>4, <2>6 DEF applied
<1>5. QED
  BY <1>3, <1>4

\* The active properties are ranked in the order of the list.
LEMMA Ranks ==
  ASSUME NEW list \in PropertyLists
  PROVE  /\ \A i \in DOMAIN list : list[i].active => Rank(list, i) \in 1..Len(list)
         /\ \A i, j \in DOMAIN list : i < j /\ list[j].active => Rank(list, i) < Rank(list, j)
<1>1. PICK n \in Nat : n = Len(list) /\ DOMAIN list = 1..n
  BY DEF PropertyLists
<1> DEFINE upTo(i) == {j \in 1..i : list[j].active}
<1>2. ASSUME NEW i \in 1..n
      PROVE  /\ IsFiniteSet(upTo(i)) /\ Rank(list, i) = Cardinality(upTo(i))
             /\ Cardinality(upTo(i)) \in Nat /\ Cardinality(upTo(i)) <= n
  <2>1. i \in Int /\ i <= n /\ 1 <= i
    OBVIOUS
  <2>2. IsFiniteSet(1..i) /\ Cardinality(1..i) = IF 1 > i THEN 0 ELSE i - 1 + 1
    BY <2>1, FS_Interval
  <2>3. Cardinality(1..i) = i
    BY <2>1, <2>2
  <2>4. upTo(i) \in SUBSET (1..i)
    OBVIOUS
  <2>5. Rank(list, i) = Cardinality(upTo(i))
    BY DEF Rank
  <2> HIDE DEF upTo
  <2>6. IsFiniteSet(upTo(i)) /\ Cardinality(upTo(i)) <= Cardinality(1..i) /\ Cardinality(upTo(i)) \in Nat
    BY <2>2, <2>4, FS_Subset, FS_CardinalityType
  <2>7. QED
    BY <2>1, <2>3, <2>5, <2>6
<1>3. ASSUME NEW i \in 1..n, list[i].active
      PROVE  Rank(list, i) \in 1..n
  <2>1. i \in upTo(i)
    BY <1>3
  <2> HIDE DEF upTo
  <2>2. Cardinality(upTo(i)) # 0
    BY <1>2, <2>1, FS_EmptySet
  <2>3. QED
    BY <1>2, <2>2
<1>4. ASSUME NEW i \in 1..n, NEW j \in 1..n, i < j, list[j].active
      PROVE  Rank(list, i) < Rank(list, j)
  <2>1. upTo(i) \subseteq upTo(j) \ {j} /\ j \in upTo(j)
    BY <1>4
  <2> HIDE DEF upTo
  <2>2. IsFiniteSet(upTo(j) \ {j}) /\ Cardinality(upTo(j) \ {j}) = Cardinality(upTo(j)) - 1
    BY <1>2, <2>1, FS_RemoveElement
  <2>3. Cardinality(upTo(i)) <= Cardinality(upTo(j) \ {j})
    BY <2>1, <2>2, FS_Subset
  <2>4. QED
    BY <1>2, <2>2, <2>3
<1>5. QED
  BY <1>1, <1>3, <1>4

\* Page after page of a list shows each active property once, in order, a hundred at most
\* to a page.
THEOREM PagesCoverTheList ==
  ASSUME NEW list \in PropertyLists, NEW limit \in Int
  PROVE  PagesCover(list, limit)
<1> DEFINE size == Smaller(Larger(limit, 1), 100)
           pages == [n \in 1..(Len(list) + 1) |-> ListPage(list, limit, (n - 1) * size)]
<1>1. PICK n \in Nat, k \in Nat : n = Len(list) /\ DOMAIN list = 1..n /\ k = size /\ k > 0
  <2>1. size \in Nat /\ size > 0
    BY DEF Smaller, Larger
  <2>2. PICK n \in Nat : n = Len(list) /\ DOMAIN list = 1..n
    BY DEF PropertyLists
  <2> HIDE DEF size
  <2>3. QED
    BY <2>1, <2>2
<1>2. /\ \A i \in 1..n : list[i].active => Rank(list, i) \in 1..n
      /\ \A i, j \in 1..n : i < j /\ list[j].active => Rank(list, i) < Rank(list, j)
  BY <1>1, Ranks
<1>3. ASSUME NEW m \in 1..(n + 1)
      PROVE  \E off \in Nat : /\ off = (m - 1) * k
                              /\ pages[m] = {i \in 1..n : list[i].active /\ off < Rank(list, i) /\ Rank(list, i) <= off + k}
  <2>1. PICK c \in Nat : c = m - 1
    <3>1. m - 1 \in Nat
      OBVIOUS
    <3>2. QED
      BY <3>1
  <2>2. PICK off \in Nat : off = (m - 1) * k
    <3>1. c * k \in Nat
      OBVIOUS
    <3>2. QED
      BY <2>1, <3>1
  <2>3. pages[m] = ListPage(list, limit, off)
    BY <1>1, <2>2
  <2>4. Larger(off, 0) = off
    BY DEF Larger
  <2>5. ListPage(list, limit, off) =
          {i \in 1..n : list[i].active /\ off < Rank(list, i) /\ Rank(list, i) <= off + k}
    BY <1>1, <2>4 DEF ListPage, Page
  <2>6. QED
    BY <2>2, <2>3, <2>5
<1>4. DOMAIN pages = 1..(n + 1)
  BY <1>1
<1> HIDE DEF pages
<1>5. ASSUME NEW m \in 1..(n + 1), NEW l \in 1..(n + 1), m < l, NEW i \in pages[m], NEW j \in pages[l]
      PROVE  i < j
  <2>1. PICK off \in Nat : /\ off = (m - 1) * k
                           /\ pages[m] = {x \in 1..n : list[x].active /\ off < Rank(list, x) /\ Rank(list, x) <= off + k}
    BY <1>3
  <2>2. PICK far \in Nat : /\ far = (l - 1) * k
                           /\ pages[l] = {x \in 1..n : list[x].active /\ far < Rank(list, x) /\ Rank(list, x) <= far + k}
    BY <1>3
  <2>3. off + k <= far
    <3>1. PICK e \in Nat : l = m + 1 + e
      <4>1. l - m - 1 \in Nat
        BY <1>5
      <4>2. QED
        BY <4>1
    <3>2. (m + 1 + e - 1) * k = (m - 1) * k + k + e * k /\ e * k \in Nat
      OBVIOUS
    <3>3. QED
      BY <2>1, <2>2, <3>1, <3>2
  <2>4. i \in 1..n /\ list[i].active /\ Rank(list, i) <= off + k /\ j \in 1..n /\ list[j].active /\ far < Rank(list, j)
    BY <1>5, <2>1, <2>2
  <2>5. PICK x \in Nat, y \in Nat : x = Rank(list, i) /\ y = Rank(list, j)
    BY <1>2, <2>4
  <2>6. x < y
    BY <2>3, <2>4, <2>5
  <2>7. i # j /\ ~(j < i)
    BY <1>2, <2>4, <2>5, <2>6
  <2>8. QED
    BY <2>4, <2>7
<1>6. ASSUME NEW m \in 1..(n + 1)
      PROVE  Cardinality(pages[m]) <= k
  <2>1. PICK off \in Nat : pages[m] = {x \in 1..n : list[x].active /\ off < Rank(list, x) /\ Rank(list, x) <= off + k}
    BY <1>3
  <2>2. PICK f : f = [x \in pages[m] |-> Rank(list, x) - off]
    OBVIOUS
  <2>3. \A x \in pages[m] : f[x] \in 1..k
    <3>1. ASSUME NEW x \in pages[m]
          PROVE  f[x] \in 1..k
      <4>1. PICK r \in Nat : r = Rank(list, x) /\ off < r /\ r <= off + k
        BY <1>2, <2>1
      <4>2. f[x] = r - off
        BY <2>2, <4>1
      <4>3. QED
        BY <4>1, <4>2
    <3>2. QED
      BY <3>1
  <2>4. \A x, y \in pages[m] : f[x] = f[y] => x = y
    <3>1. ASSUME NEW x \in pages[m], NEW y \in pages[m], x < y
          PROVE  f[x] # f[y]
      <4>1. x \in 1..n /\ y \in 1..n /\ list[x].active /\ list[y].active
        BY <2>1
      <4>2. PICK r \in Nat, s \in Nat : r = Rank(list, x) /\ s = Rank(list, y) /\ r < s
        BY <1>2, <3>1, <4>1
      <4>3. f[x] = r - off /\ f[y] = s - off
        BY <2>2, <4>2
      <4>4. QED
        BY <4>2, <4>3
    <3>2. \A x \in pages[m] : x \in Int
      BY <2>1
    <3>3. ASSUME NEW x \in pages[m], NEW y \in pages[m], f[x] = f[y]
          PROVE  x = y
      <4>1. ~(x < y) /\ ~(y < x)
        BY <3>1, <3>3
      <4>2. QED
        BY <3>2, <4>1
    <3>4. QED
      BY <3>3
  <2>5. IsFiniteSet(1..k) /\ Cardinality(1..k) = k
    <3>1. IsFiniteSet(1..k) /\ Cardinality(1..k) = IF 1 > k THEN 0 ELSE k - 1 + 1
      BY FS_Interval
    <3>2. QED
      BY <1>1, <3>1
  <2>6. f \in Injection(pages[m], 1..k)
    <3>1. f \in [pages[m] -> 1..k]
      BY <2>2, <2>3
    <3>2. QED
      BY <2>4, <3>1 DEF Injection, IsInjective
  <2>7. Cardinality(pages[m]) <= Cardinality(1..k)
    BY <2>5, <2>6, FS_Injection
  <2>8. QED
    BY <2>5, <2>7
<1>7. ASSUME NEW i \in 1..n
      PROVE  Cardinality({m \in 1..(n + 1) : i \in pages[m]}) = IF list[i].active THEN 1 ELSE 0
  <2>1. CASE ~list[i].active
    <3>1. {m \in 1..(n + 1) : i \in pages[m]} = {}
      BY <1>3, <2>1
    <3>2. QED
      BY <2>1, <3>1, FS_EmptySet
  <2>2. CASE list[i].active
    <3>1. PICK r \in Nat : r = Rank(list, i) /\ 1 <= r /\ r <= n
      BY <1>2, <2>2
    <3>2. PICK s \in Nat : s = r - 1
      <4>1. r - 1 \in Nat
        BY <3>1
      <4>2. QED
        BY <4>1
    <3>3. PICK d \in Nat : k * d <= s /\ s < k * d + k
      BY <1>1, DivisionBounds
    <3>4. d <= s
      <4>1. PICK e \in Nat : k = 1 + e
        <5>1. k - 1 \in Nat
          BY <1>1
        <5>2. QED
          BY <5>1
      <4>2. (1 + e) * d = d + e * d /\ e * d \in Nat
        OBVIOUS
      <4>3. QED
        BY <3>3, <4>1, <4>2
    <3>5. PICK m \in 1..(n + 1) : m = d + 1
      <4>1. d + 1 \in 1..(n + 1)
        BY <3>1, <3>2, <3>4
      <4>2. QED
        BY <4>1
    <3>6. i \in pages[m]
      <4>1. PICK off \in Nat : /\ off = (m - 1) * k
                               /\ pages[m] = {x \in 1..n : list[x].active /\ off < Rank(list, x) /\ Rank(list, x) <= off + k}
        BY <1>3
      <4>2. (m - 1) * k = k * d
        BY <3>5
      <4>3. off < r /\ r <= off + k
        BY <3>1, <3>2, <3>3, <4>1, <4>2
      <4>4. QED
        BY <2>2, <3>1, <4>1, <4>3
    <3>7. \A l \in 1..(n + 1) : i \in pages[l] => l = m
      <4>1. ASSUME NEW l \in 1..(n + 1), i \in pages[l]
            PROVE  l = m
        <5>1. ~(l < m) /\ ~(m < l)
          <6>1. ~(i < i)
            OBVIOUS
          <6>2. QED
            BY <1>5, <3>6, <4>1, <6>1
        <5>2. QED
          BY <5>1
      <4>2. QED
        BY <4>1
    <3>8. {l \in 1..(n + 1) : i \in pages[l]} = {m}
      BY <3>6, <3>7
    <3>9. Cardinality({m}) = 1
      BY FS_Singleton
    <3>10. QED
      BY <2>2, <3>8, <3>9
  <2>3. QED
    BY <2>1, <2>2
<1>8. /\ \A i \in DOMAIN list : Cardinality({m \in DOMAIN pages : i \in pages[m]}) = IF list[i].active THEN 1 ELSE 0
      /\ \A m \in DOMAIN pages : Cardinality(pages[m]) <= size
      /\ \A m, l \in DOMAIN pages : m < l => \A i \in pages[m], j \in pages[l] : i < j
  BY <1>1, <1>4, <1>5, <1>6, <1>7
<1>9. QED
  BY <1>8 DEF PagesCover, pages, size

\* The rules of sales hold of whatever is asked, cancelled, derived and listed.
THEOREM AllSalesHold == SalesHold
<1>1. \A q \in AskedSearches : OffersHold(q)
  BY OffersCanBeBooked, SalesAssumption
<1>2. \A q \in AskedCancellations : CancellationAddsUp(q)
  BY PenaltyAndRefundAddUp, SalesAssumption
<1>3. \A plans \in AskedPlans : DerivedRatesAreSound(plans)
  BY DerivedRatesFollow, SalesAssumption
<1>4. \A list \in AskedLists, limit \in AskedLimits : PagesCover(list, limit)
  BY PagesCoverTheList, SalesAssumption
<1>5. QED
  BY <1>1, <1>2, <1>3, <1>4 DEF SalesHold

-----------------------------------------------------------------------------
(* Taxes.                                                                  *)

\* Division by one positive number keeps the order.
LEMMA DivisionGrows ==
  ASSUME NEW x \in Int, NEW y \in Int, x <= y, NEW k \in Nat, k > 0
  PROVE  x \div k <= y \div k
<1>1. PICK d \in Int : d = x \div k /\ k * d <= x /\ x < k * d + k
  BY DivisionOf
<1>2. PICK e \in Int : e = y \div k /\ k * e <= y /\ y < k * e + k
  BY DivisionOf
<1> SUFFICES ASSUME ~(d <= e)
             PROVE  FALSE
  BY <1>1, <1>2
<1>3. PICK f \in Nat : d = e + 1 + f
  <2>1. d - e - 1 \in Nat
    OBVIOUS
  <2>2. QED
    BY <2>1
<1>4. k * (e + 1 + f) = k * e + k + k * f /\ k * f \in Nat /\ k * e \in Int
  OBVIOUS
<1>5. QED
  BY <1>1, <1>2, <1>3, <1>4

LEMMA RoundingGrows ==
  ASSUME NEW x \in Int, NEW y \in Int, x <= y, NEW k \in Nat, k > 0
  PROVE  Rounded(x, k) \in Int /\ Rounded(x, k) <= Rounded(y, k)
<1>1. PICK n \in Nat : n = 2 * k /\ n > 0
  OBVIOUS
<1>2. (2 * x + k) \div n <= (2 * y + k) \div n /\ (2 * x + k) \div n \in Int
  BY <1>1, DivisionGrows
<1>3. QED
  BY <1>1, <1>2 DEF Rounded

\* A tax is an integer, and of more it is no less.
LEMMA TaxGrows ==
  ASSUME NEW r, TaxRule(r), NEW q, q.nights \in Nat, NEW a \in Int, NEW b \in Int, NEW c \in Int, b <= c
  PROVE  TaxOf(r, a, b, q) \in Int /\ TaxOf(r, a, b, q) <= TaxOf(r, a, c, q)
<1>1. PICK rate \in Nat, split \in Nat, n \in Nat : rate = r.rate /\ split = r.split /\ n = q.nights
  BY DEF TaxRule
<1>2. PICK x \in Int, y \in Int : /\ x = (IF r.compounding THEN b ELSE a)
                                  /\ y = (IF r.compounding THEN c ELSE a) /\ x <= y
  <2>1. CASE r.compounding
    BY <2>1
  <2>2. CASE ~r.compounding
    BY <2>2
  <2>3. QED
    BY <2>1, <2>2
<1>3. x * rate \in Int /\ y * rate \in Int /\ x * rate <= y * rate
  <2>1. PICK d \in Nat : y = x + d
    <3>1. y - x \in Nat
      BY <1>2
    <3>2. QED
      BY <3>1
  <2>2. (x + d) * rate = x * rate + d * rate /\ d * rate \in Nat /\ x * rate \in Int
    OBVIOUS
  <2>3. QED
    BY <2>1, <2>2
<1>4. /\ x * split * rate \in Int /\ y * split * rate \in Int /\ x * split * rate <= y * split * rate
  <2>1. PICK d \in Nat : y = x + d
    <3>1. y - x \in Nat
      BY <1>2
    <3>2. QED
      BY <3>1
  <2>2. PICK m \in Nat : m = split * rate
    OBVIOUS
  <2>3. x * split * rate = x * m /\ y * split * rate = y * m
    BY <2>2
  <2>4. (x + d) * m = x * m + d * m /\ d * m \in Nat /\ x * m \in Int
    OBVIOUS
  <2>5. QED
    BY <2>1, <2>3, <2>4
<1>5. /\ Rounded(x * rate, 100) \in Int /\ Rounded(x * rate, 100) <= Rounded(y * rate, 100)
      /\ Rounded(x * split * rate, 10000) \in Int
      /\ Rounded(x * split * rate, 10000) <= Rounded(y * split * rate, 10000)
  <2>1. \A k \in Nat : k > 0 => \A u, v \in Int : u <= v => Rounded(u, k) \in Int /\ Rounded(u, k) <= Rounded(v, k)
    BY RoundingGrows
  <2>2. /\ \A u, v \in Int : u <= v => Rounded(u, 100) \in Int /\ Rounded(u, 100) <= Rounded(v, 100)
        /\ \A u, v \in Int : u <= v => Rounded(u, 10000) \in Int /\ Rounded(u, 10000) <= Rounded(v, 10000)
    <3>1. 100 \in Nat /\ 100 > 0 /\ 10000 \in Nat /\ 10000 > 0
      OBVIOUS
    <3>2. QED
      BY <2>1, <3>1
  <2>3. PICK u \in Int, v \in Int : u = x * rate /\ v = y * rate /\ u <= v
    BY <1>3
  <2>4. Rounded(u, 100) \in Int /\ Rounded(u, 100) <= Rounded(v, 100)
    <3>1. u <= v
      BY <2>3
    <3>2. QED
      BY <2>2, <3>1
  <2>5. PICK s \in Int, t \in Int : s = x * split * rate /\ t = y * split * rate /\ s <= t
    BY <1>4
  <2>6. Rounded(s, 10000) \in Int /\ Rounded(s, 10000) <= Rounded(t, 10000)
    <3>1. s <= t
      BY <2>5
    <3>2. QED
      BY <2>2, <3>1
  <2>7. QED
    BY <2>3, <2>4, <2>5, <2>6
<1>6. PICK m \in Nat : m = rate * (IF n = 0 THEN 1 ELSE n)
  OBVIOUS
<1>7. CASE r.type = "percentage"
  BY <1>1, <1>2, <1>5, <1>7 DEF TaxOf
<1>8. CASE r.type = "split_component"
  BY <1>1, <1>2, <1>5, <1>8 DEF TaxOf
<1>9. CASE r.type = "flat_per_night"
  BY <1>1, <1>6, <1>9 DEF TaxOf
<1>10. CASE r.type = "flat_per_stay"
  BY <1>1, <1>10 DEF TaxOf
<1>11. CASE r.type \notin {"percentage", "split_component", "flat_per_night", "flat_per_stay"}
  BY <1>11 DEF TaxOf
<1>12. QED
  BY <1>7, <1>8, <1>9, <1>10, <1>11

\* What a rule adds is never negative.
LEMMA TaxedTyped ==
  ASSUME NEW rules, TaxRules(rules), NEW i \in DOMAIN rules, NEW q, q.nights \in Nat, NEW a \in Int, NEW b \in Int
  PROVE  /\ Taxed(rules, i, a, b, q) \in Nat
         /\ (i \in RulesFor(rules, q) /\ ~Exempted(rules[i], q)) => Taxed(rules, i, a, b, q) >= TaxOf(rules[i], a, b, q)
         /\ ~(i \in RulesFor(rules, q) /\ ~Exempted(rules[i], q)) => Taxed(rules, i, a, b, q) = 0
<1>1. PICK t \in Int : t = TaxOf(rules[i], a, b, q)
  <2>1. TaxRule(rules[i]) /\ b <= b
    BY DEF TaxRules
  <2>2. QED
    BY <2>1, TaxGrows
<1>2. QED
  BY <1>1 DEF Taxed

\* The running base is what its recursion says.
LEMMA RunningBaseSteps ==
  ASSUME NEW rules, TaxRules(rules), NEW q, q.nights \in Nat, NEW a \in Int
  PROVE  /\ RunningBase(rules, a, q)[0] = a
         /\ \A i \in 0..Len(rules) : RunningBase(rules, a, q)[i] \in Int /\ RunningBase(rules, a, q)[i] >= a
         /\ \A i \in 1..Len(rules) : RunningBase(rules, a, q)[i] =
              RunningBase(rules, a, q)[i - 1] + Taxed(rules, i, a, RunningBase(rules, a, q)[i - 1], q)
<1>1. PICK n \in Nat : n = Len(rules) /\ DOMAIN rules = 1..n
  BY DEF TaxRules
<1> DEFINE next(g, i) == IF i = 0 THEN a ELSE g[i - 1] + Taxed(rules, i, a, g[i - 1], q)
           F(g) == [i \in 0..n |-> next(g, i)]
           base == CHOOSE g : g = F(g)
           T == {m \in Nat : m <= n => \E g \in [0..m -> Int] : \A i \in 0..m : g[i] = next(g, i) /\ g[i] >= a}
<1>2. RunningBase(rules, a, q) = base
  BY <1>1 DEF RunningBase
<1>3. 0 \in T
  <2>1. PICK g : g = [i \in 0..0 |-> a]
    OBVIOUS
  <2>2. g \in [0..0 -> Int] /\ \A i \in 0..0 : g[i] = next(g, i) /\ g[i] >= a
    BY <2>1
  <2>3. QED
    BY <2>2
<1>4. ASSUME NEW m \in Nat, m \in T
      PROVE  m + 1 \in T
  <2> SUFFICES ASSUME m + 1 <= n
               PROVE  \E g \in [0..(m + 1) -> Int] : \A i \in 0..(m + 1) : g[i] = next(g, i) /\ g[i] >= a
    OBVIOUS
  <2>1. PICK g \in [0..m -> Int] : \A i \in 0..m : g[i] = next(g, i) /\ g[i] >= a
    BY <1>4
  <2>2. PICK t \in Nat : t = Taxed(rules, m + 1, a, g[m], q)
    <3>1. m + 1 \in DOMAIN rules /\ g[m] \in Int
      BY <1>1, <2>1
    <3>2. QED
      BY <3>1, TaxedTyped
  <2>3. PICK h : h = [i \in 0..(m + 1) |-> IF i = m + 1 THEN g[m] + t ELSE g[i]]
    OBVIOUS
  <2>4. h \in [0..(m + 1) -> Int] /\ h[m + 1] = g[m] + t /\ \A i \in 0..m : h[i] = g[i]
    BY <2>1, <2>3
  <2>5. ASSUME NEW i \in 0..(m + 1)
        PROVE  h[i] = next(h, i) /\ h[i] >= a
    <3>1. CASE i = m + 1
      <4>1. h[i - 1] = g[m] /\ g[m] >= a /\ g[m] \in Int /\ i # 0
        BY <2>1, <2>4, <3>1
      <4>2. QED
        BY <2>2, <2>4, <3>1, <4>1
    <3>2. CASE i # m + 1
      <4>1. i \in 0..m /\ (i # 0 => i - 1 \in 0..m)
        BY <3>2
      <4>2. h[i] = g[i] /\ (i # 0 => h[i - 1] = g[i - 1]) /\ g[i] = next(g, i) /\ g[i] >= a
        BY <2>1, <2>4, <4>1
      <4>3. QED
        BY <4>2
    <3>3. QED
      BY <3>1, <3>2
  <2> HIDE DEF next
  <2>6. QED
    BY <2>4, <2>5
<1>5. n \in T
  <2>1. \A m \in Nat : m \in T
    <3> HIDE DEF T
    <3>1. QED
      BY <1>3, <1>4, CountingUp
  <2>2. QED
    BY <2>1
<1>6. PICK g \in [0..n -> Int] : \A i \in 0..n : g[i] = next(g, i) /\ g[i] >= a
  BY <1>5
<1>7. base = F(base)
  <2>1. g = F(g)
    <3> HIDE DEF next
    <3>1. QED
      BY <1>6
  <2> HIDE DEF F
  <2>2. QED
    BY <2>1
<1> HIDE DEF base
<1>8. base[0] = a /\ \A i \in 1..n : base[i] = base[i - 1] + Taxed(rules, i, a, base[i - 1], q)
  <2>1. \A i \in 0..n : base[i] = next(base, i)
    <3> HIDE DEF next
    <3>1. QED
      BY <1>7
  <2>2. QED
    BY <2>1
<1> DEFINE U == {m \in Nat : m <= n => base[m] \in Int /\ base[m] >= a}
<1>9. \A m \in Nat : m \in U
  <2>1. 0 \in U
    BY <1>8
  <2>2. ASSUME NEW m \in Nat, m \in U
        PROVE  m + 1 \in U
    <3> SUFFICES ASSUME m + 1 <= n
                 PROVE  base[m + 1] \in Int /\ base[m + 1] >= a
      OBVIOUS
    <3>1. base[m] \in Int /\ base[m] >= a /\ m + 1 \in DOMAIN rules
      BY <1>1, <2>2
    <3>2. Taxed(rules, m + 1, a, base[m], q) \in Nat
      BY <3>1, TaxedTyped
    <3>3. base[m + 1] = base[m] + Taxed(rules, m + 1, a, base[m], q)
      BY <1>8
    <3>4. QED
      BY <3>1, <3>2, <3>3
  <2> HIDE DEF U
  <2>3. QED
    BY <2>1, <2>2, CountingUp
<1>10. QED
  BY <1>1, <1>2, <1>8, <1>9, SMTT(30)

LEMMA ActiveRules ==
  ASSUME NEW table, TaxTable(table), NEW date
  PROVE  TaxRules(ActiveTaxProfile(table, date))
<1> DEFINE found == {i \in DOMAIN table : InForce(table[i], date)}
<1>1. CASE found = {}
  <2>1. TaxRules(<<>>)
    BY DEF TaxRules
  <2>2. QED
    BY <1>1, <2>1 DEF ActiveTaxProfile
<1>2. CASE found # {}
  <2>1. found \in SUBSET Nat /\ found \subseteq DOMAIN table
    BY DEF TaxTable
  <2>2. ActiveTaxProfile(table, date) = table[Min(found)].rules
    BY <1>2 DEF ActiveTaxProfile
  <2> HIDE DEF found
  <2>3. Min(found) \in found
    BY <1>2, <2>1, LeastNatural DEF Min
  <2>4. QED
    BY <2>1, <2>2, <2>3 DEF TaxTable
<1>3. QED
  BY <1>1, <1>2

\* The taxes of a charge are what its running base has grown by.
LEMMA TotalOfTaxes ==
  ASSUME NEW table, TaxTable(table), NEW q, q.nights \in Nat, NEW a \in Int
  PROVE  LET rules == ActiveTaxProfile(table, q.date)
         IN TaxTotal(CalculateTaxes(table, a, q)) = RunningBase(rules, a, q)[Len(rules)] - a
<1>1. PICK rules : rules = ActiveTaxProfile(table, q.date) /\ TaxRules(rules)
  BY ActiveRules
<1>2. PICK n \in Nat : n = Len(rules) /\ DOMAIN rules = 1..n
  BY <1>1 DEF TaxRules
<1>3. PICK base : base = RunningBase(rules, a, q)
  OBVIOUS
<1>4. /\ base[0] = a
      /\ \A i \in 0..n : base[i] \in Int
      /\ \A i \in 1..n : base[i] = base[i - 1] + Taxed(rules, i, a, base[i - 1], q)
  BY <1>1, <1>2, <1>3, RunningBaseSteps
<1>5. PICK tax : tax = [i \in 1..n |-> Taxed(rules, i, a, base[i - 1], q)]
  OBVIOUS
<1>6. \A i \in 1..n : tax[i] \in Int /\ base[i] = base[i - 1] + tax[i]
  <2>1. ASSUME NEW i \in 1..n
        PROVE  tax[i] \in Int
    <3>1. i - 1 \in 0..n
      OBVIOUS
    <3>2. base[i - 1] \in Int
      BY <1>4, <3>1
    <3>3. Taxed(rules, i, a, base[i - 1], q) \in Nat
      BY <1>1, <1>2, <3>2, TaxedTyped
    <3>4. QED
      BY <1>5, <3>3
  <2>2. QED
    BY <1>4, <1>5, <2>1
<1>7. PICK D : D = {i \in 1..n : tax[i] # 0}
  OBVIOUS
<1>8. PICK w : w = [i \in D |-> tax[i]]
  OBVIOUS
<1>9. TaxTotal(CalculateTaxes(table, a, q)) = SumFunction(w)
  <2>1. CalculateTaxes(table, a, q) = [i \in D |-> [rule |-> rules[i], amount |-> tax[i]]]
    BY <1>1, <1>2, <1>3, <1>5, <1>7 DEF CalculateTaxes
  <2>2. PICK items : items = [i \in D |-> [rule |-> rules[i], amount |-> tax[i]]]
    OBVIOUS
  <2>3. [i \in DOMAIN items |-> items[i].amount] = w
    BY <1>8, <2>2
  <2>4. TaxTotal(items) = SumFunction(w)
    BY <2>3 DEF TaxTotal
  <2>5. QED
    BY <2>1, <2>2, <2>4
<1>10. IsFiniteSet(D) /\ w \in [D -> Int]
  <2>1. IsFiniteSet(1..n)
    BY FS_Interval
  <2>2. D \in SUBSET (1..n)
    BY <1>7
  <2>3. QED
    BY <1>6, <1>7, <1>8, <2>1, <2>2, FS_Subset
<1>11. PICK g : Sums(g, D, w) /\ SumFunction(w) = g[D]
  BY <1>10, TotalIsSum
<1>12. /\ g[{}] = 0 /\ \A s \in SUBSET D : \A x \in s : g[s] = g[s \ {x}] + w[x]
       /\ \A s \in SUBSET D : g[s] \in Int
  <2>1. g[{}] = 0
    BY <1>11, SumOfNothing
  <2>2. \A s \in SUBSET D : \A x \in s : g[s] = g[s \ {x}] + w[x]
    <3>1. ASSUME NEW s \in SUBSET D, NEW x \in s
          PROVE  g[s] = g[s \ {x}] + w[x]
      BY <1>10, <1>11, SumOfOneMore
    <3>2. QED
      BY <3>1
  <2>3. \A s \in SUBSET D : g[s] \in Int
    BY <1>10, <1>11, SumTyped
  <2>4. QED
    BY <2>1, <2>2, <2>3
<1> DEFINE upTo(m) == {i \in D : i <= m}
           T == {m \in Nat : m <= n => g[upTo(m)] = base[m] - a}
<1>13. 0 \in T
  <2>1. upTo(0) = {}
    BY <1>7
  <2>2. base[0] - a = 0
    BY <1>4
  <2>3. g[upTo(0)] = 0
    BY <1>12, <2>1
  <2>4. QED
    BY <2>2, <2>3
<1>14. ASSUME NEW m \in Nat, m \in T
       PROVE  m + 1 \in T
  <2> SUFFICES ASSUME m + 1 <= n
               PROVE  g[upTo(m + 1)] = base[m + 1] - a
    OBVIOUS
  <2>1. g[upTo(m)] = base[m] - a /\ m \in 0..n /\ m + 1 \in 1..n
    BY <1>14
  <2>2. PICK b \in Int, t \in Int : b = base[m] /\ t = tax[m + 1] /\ base[m + 1] = b + t
    <3>1. m + 1 - 1 = m
      OBVIOUS
    <3>2. QED
      BY <1>4, <1>6, <2>1, <3>1
  <2>3. CASE t = 0
    <3>1. m + 1 \notin D
      BY <1>7, <2>2, <2>3
    <3>2. \A i \in D : i \in Int
      BY <1>7
    <3>3. upTo(m + 1) = upTo(m)
      BY <3>1, <3>2
    <3> HIDE DEF upTo
    <3>4. QED
      BY <2>1, <2>2, <2>3, <3>3
  <2>4. CASE t # 0
    <3>1. upTo(m + 1) \ {m + 1} = upTo(m) /\ m + 1 \in upTo(m + 1) /\ upTo(m + 1) \in SUBSET D /\ w[m + 1] = t
      BY <1>7, <1>8, <2>1, <2>2, <2>4
    <3> HIDE DEF upTo
    <3>2. PICK s \in SUBSET D : s = upTo(m + 1)
      BY <3>1
    <3>3. g[s] = g[s \ {m + 1}] + w[m + 1]
      BY <1>12, <3>1, <3>2
    <3>4. g[upTo(m + 1)] = (b - a) + t
      BY <2>1, <2>2, <3>1, <3>2, <3>3
    <3>5. QED
      BY <2>2, <3>4
  <2>5. QED
    BY <2>3, <2>4
<1>15. n \in T
  <2>1. \A m \in Nat : m \in T
    <3> HIDE DEF T
    <3>1. QED
      BY <1>13, <1>14, CountingUp
  <2>2. QED
    BY <2>1
<1>16. upTo(n) = D
  BY <1>7
<1>17. g[D] = base[n] - a
  BY <1>15, <1>16
<1>18. QED
  BY <1>1, <1>2, <1>3, <1>9, <1>11, <1>17

\* p is asked about the same rules as q, and exempted from no more of them.
NoMoreExempt(rules, a, p, q) ==
  /\ RulesFor(rules, p) = RulesFor(rules, q)
  /\ \A i \in DOMAIN rules : /\ \A x \in Int : TaxOf(rules[i], a, x, p) = TaxOf(rules[i], a, x, q)
                             /\ Exempted(rules[i], p) => Exempted(rules[i], q)

LEMMA ExemptionsTakeOff ==
  ASSUME NEW rules, TaxRules(rules), NEW p, p.nights \in Nat, NEW q, q.nights \in Nat, NEW a \in Int,
         NoMoreExempt(rules, a, p, q)
  PROVE  RunningBase(rules, a, q)[Len(rules)] <= RunningBase(rules, a, p)[Len(rules)]
<1>1. PICK n \in Nat : n = Len(rules) /\ DOMAIN rules = 1..n
  BY DEF TaxRules
<1>2. PICK low : /\ low = RunningBase(rules, a, q)
                 /\ low[0] = a
                 /\ \A i \in 0..n : low[i] \in Int
                 /\ \A i \in 1..n : low[i] = low[i - 1] + Taxed(rules, i, a, low[i - 1], q)
  BY <1>1, RunningBaseSteps
<1>3. PICK high : /\ high = RunningBase(rules, a, p)
                  /\ high[0] = a
                  /\ \A i \in 0..n : high[i] \in Int
                  /\ \A i \in 1..n : high[i] = high[i - 1] + Taxed(rules, i, a, high[i - 1], p)
  BY <1>1, RunningBaseSteps
<1>4. ASSUME NEW i \in 1..n, NEW b \in Int, NEW c \in Int, b <= c
      PROVE  Taxed(rules, i, a, b, q) <= Taxed(rules, i, a, c, p)
  <2>1. TaxRule(rules[i]) /\ i \in DOMAIN rules
    BY <1>1 DEF TaxRules
  <2>2. PICK t \in Int, u \in Int : t = TaxOf(rules[i], a, b, p) /\ u = TaxOf(rules[i], a, c, p) /\ t <= u
    <3>1. TaxOf(rules[i], a, b, p) \in Int /\ TaxOf(rules[i], a, b, p) <= TaxOf(rules[i], a, c, p)
      BY <1>4, <2>1, TaxGrows
    <3>2. TaxOf(rules[i], a, c, p) \in Int
      <4>1. c <= c
        OBVIOUS
      <4>2. QED
        BY <2>1, <4>1, TaxGrows
    <3>3. QED
      BY <3>1, <3>2
  <2>3. TaxOf(rules[i], a, b, q) = t
    BY <2>1, <2>2 DEF NoMoreExempt
  <2>4. /\ i \in RulesFor(rules, p) <=> i \in RulesFor(rules, q)
        /\ Exempted(rules[i], p) => Exempted(rules[i], q)
    BY <2>1 DEF NoMoreExempt
  <2>5. QED
    BY <2>2, <2>3, <2>4 DEF Taxed
<1> DEFINE T == {m \in Nat : m <= n => low[m] <= high[m]}
<1>5. 0 \in T
  BY <1>2, <1>3
<1>6. ASSUME NEW m \in Nat, m \in T
      PROVE  m + 1 \in T
  <2> SUFFICES ASSUME m + 1 <= n
               PROVE  low[m + 1] <= high[m + 1]
    OBVIOUS
  <2>1. PICK b \in Int, c \in Int : b = low[m] /\ c = high[m] /\ b <= c
    BY <1>2, <1>3, <1>6
  <2>2. PICK i \in 1..n : i = m + 1 /\ i - 1 = m
    OBVIOUS
  <2>3. low[i] = b + Taxed(rules, i, a, b, q) /\ high[i] = c + Taxed(rules, i, a, c, p)
    BY <1>2, <1>3, <2>1, <2>2
  <2>4. PICK t \in Nat, u \in Nat : t = Taxed(rules, i, a, b, q) /\ u = Taxed(rules, i, a, c, p)
    BY <1>1, TaxedTyped
  <2>5. t <= u
    BY <1>4, <2>1, <2>4
  <2>6. QED
    BY <2>1, <2>2, <2>3, <2>4, <2>5
<1>7. \A m \in Nat : m \in T
  <2> HIDE DEF T
  <2>1. QED
    BY <1>5, <1>6, CountingUp
<1>8. n \in T
  BY <1>7
<1>9. QED
  BY <1>1, <1>2, <1>3, <1>8, SMTT(30)

\* The same charge, without a VIP level.
LEMMA AskedOfAnybody ==
  ASSUME NEW types, NEW vips, NEW q \in TaxCharges(types, vips)
  PROVE  \E p : p = [q EXCEPT !.vip = "none"] /\ p.type = q.type /\ p.vip = "none" /\ p.nights = q.nights /\ p.night = q.night /\ p.date = q.date
<1>1. PICK p : p = [q EXCEPT !.vip = "none"]
  OBVIOUS
<1>2. p.type = q.type /\ p.vip = "none" /\ p.nights = q.nights /\ p.night = q.night /\ p.date = q.date
  BY <1>1 DEF TaxCharges
<1>3. QED
  BY <1>1, <1>2

\* The same charge, of the night after.
LEMMA AskedLater ==
  ASSUME NEW types, NEW vips, NEW q \in TaxCharges(types, vips)
  PROVE  \E p : p = [q EXCEPT !.night = q.night + 1] /\ p.type = q.type /\ p.vip = q.vip /\ p.nights = q.nights /\ p.night = q.night + 1 /\ p.date = q.date
<1>1. PICK p : p = [q EXCEPT !.night = q.night + 1]
  OBVIOUS
<1>2. p.type = q.type /\ p.vip = q.vip /\ p.nights = q.nights /\ p.night = q.night + 1 /\ p.date = q.date
  BY <1>1 DEF TaxCharges
<1>3. QED
  BY <1>1, <1>2

\* The same charge, as the night audit asks.
LEMMA AskedByAudit ==
  ASSUME NEW types, NEW vips, NEW q \in TaxCharges(types, vips)
  PROVE  \E p : p = [q EXCEPT !.nights = 0, !.night = 0] /\ p.type = q.type /\ p.vip = q.vip /\ p.nights = 0 /\ p.night = 0 /\ p.date = q.date
<1>1. PICK p : p = [q EXCEPT !.nights = 0, !.night = 0]
  OBVIOUS
<1>2. p.type = q.type /\ p.vip = q.vip /\ p.nights = 0 /\ p.night = 0 /\ p.date = q.date
  BY <1>1 DEF TaxCharges
<1>3. QED
  BY <1>1, <1>2

\* An exemption never makes a charge dearer, and neither does a later night; and a rule
\* that does not compound asks for nothing but the charge.
THEOREM ExemptionsTakeOffTaxes ==
  ASSUME NEW table, TaxTable(table), NEW types, NEW vips, NEW q \in TaxCharges(types, vips), NEW amount \in Int
  PROVE  ExemptionsHelp(table, amount, q)
<1>1. q.nights \in Nat /\ q.night \in Nat
  BY DEF TaxCharges
<1>2. PICK rules : rules = ActiveTaxProfile(table, q.date) /\ TaxRules(rules)
  BY ActiveRules
<1>3. ASSUME NEW p, NEW o, p.nights \in Nat, o.nights \in Nat, p.date = q.date, o.date = q.date,
             NoMoreExempt(rules, amount, p, o)
      PROVE  TaxTotal(CalculateTaxes(table, amount, o)) <= TaxTotal(CalculateTaxes(table, amount, p))
  <2>1. RunningBase(rules, amount, o)[Len(rules)] <= RunningBase(rules, amount, p)[Len(rules)]
    BY <1>2, <1>3, ExemptionsTakeOff
  <2>2. TaxTotal(CalculateTaxes(table, amount, o)) = RunningBase(rules, amount, o)[Len(rules)] - amount
    BY <1>2, <1>3, TotalOfTaxes
  <2>3. TaxTotal(CalculateTaxes(table, amount, p)) = RunningBase(rules, amount, p)[Len(rules)] - amount
    BY <1>2, <1>3, TotalOfTaxes
  <2>4. PICK b \in Int, c \in Int : /\ b = RunningBase(rules, amount, o)[Len(rules)]
                                    /\ c = RunningBase(rules, amount, p)[Len(rules)]
    <3>1. Len(rules) \in 0..Len(rules)
      BY <1>2 DEF TaxRules
    <3>2. RunningBase(rules, amount, o)[Len(rules)] \in Int
      BY <1>2, <1>3, <3>1, RunningBaseSteps
    <3>3. RunningBase(rules, amount, p)[Len(rules)] \in Int
      BY <1>2, <1>3, <3>1, RunningBaseSteps
    <3>4. QED
      BY <3>2, <3>3
  <2>5. QED
    BY <2>1, <2>2, <2>3, <2>4
<1>4. \A i \in DOMAIN rules : TaxRule(rules[i])
  BY <1>2 DEF TaxRules
<1>5. TaxTotal(CalculateTaxes(table, amount, q)) <= TaxTotal(CalculateTaxes(table, amount, [q EXCEPT !.vip = "none"]))
  <2>1. PICK p : p = [q EXCEPT !.vip = "none"] /\ p.type = q.type /\ p.vip = "none" /\ p.nights = q.nights
                 /\ p.night = q.night /\ p.date = q.date
    BY AskedOfAnybody
  <2>2. RulesFor(rules, p) = RulesFor(rules, q)
    BY <2>1 DEF RulesFor
  <2>3. \A i \in DOMAIN rules : \A x \in Int : TaxOf(rules[i], amount, x, p) = TaxOf(rules[i], amount, x, q)
    <3>1. p.nights = q.nights
      BY <2>1
    <3>2. QED
      BY <3>1 DEF TaxOf
  <2>4. \A i \in DOMAIN rules : Exempted(rules[i], p) => Exempted(rules[i], q)
    BY <1>4, <2>1 DEF Exempted, TaxRule
  <2>5. NoMoreExempt(rules, amount, p, q)
    BY <2>2, <2>3, <2>4 DEF NoMoreExempt
  <2>6. QED
    BY <1>1, <1>3, <2>1, <2>5
<1>6. TaxTotal(CalculateTaxes(table, amount, [q EXCEPT !.night = q.night + 1])) <= TaxTotal(CalculateTaxes(table, amount, q))
  <2>1. PICK p : p = [q EXCEPT !.night = q.night + 1] /\ p.type = q.type /\ p.vip = q.vip /\ p.nights = q.nights
                 /\ p.night = q.night + 1 /\ p.date = q.date
    BY AskedLater
  <2>2. RulesFor(rules, q) = RulesFor(rules, p)
    BY <2>1 DEF RulesFor
  <2>3. \A i \in DOMAIN rules : \A x \in Int : TaxOf(rules[i], amount, x, q) = TaxOf(rules[i], amount, x, p)
    <3>1. p.nights = q.nights
      BY <2>1
    <3>2. QED
      BY <3>1 DEF TaxOf
  <2>4. \A i \in DOMAIN rules : Exempted(rules[i], q) => Exempted(rules[i], p)
    BY <1>1, <1>4, <2>1 DEF Exempted, TaxRule
  <2>5. NoMoreExempt(rules, amount, q, p)
    BY <2>2, <2>3, <2>4 DEF NoMoreExempt
  <2>6. QED
    BY <1>1, <1>3, <2>1, <2>5
<1>7. ASSUME NEW i \in DOMAIN CalculateTaxes(table, amount, q),
             ~CalculateTaxes(table, amount, q)[i].rule.compounding
      PROVE  CalculateTaxes(table, amount, q)[i].amount
               = TaxOf(CalculateTaxes(table, amount, q)[i].rule, amount, amount, q)
  <2>1. PICK base : base = RunningBase(rules, amount, q)
    OBVIOUS
  <2>2. PICK tax : tax = [j \in DOMAIN rules |-> Taxed(rules, j, amount, base[j - 1], q)]
    OBVIOUS
  <2>3. CalculateTaxes(table, amount, q)
          = [j \in {j \in DOMAIN rules : tax[j] # 0} |-> [rule |-> rules[j], amount |-> tax[j]]]
    BY <1>2, <2>1, <2>2 DEF CalculateTaxes
  <2>4. i \in DOMAIN rules /\ tax[i] # 0 /\ CalculateTaxes(table, amount, q)[i] = [rule |-> rules[i], amount |-> tax[i]]
    BY <2>3
  <2>5. tax[i] = TaxOf(rules[i], amount, base[i - 1], q)
    BY <2>2, <2>4 DEF Taxed
  <2>6. ~rules[i].compounding
    BY <1>7, <2>4
  <2>7. TaxOf(rules[i], amount, base[i - 1], q) = TaxOf(rules[i], amount, amount, q)
    BY <2>6 DEF TaxOf
  <2>8. QED
    BY <2>4, <2>5, <2>7
<1>8. QED
  BY <1>5, <1>6, <1>7 DEF ExemptionsHelp

\* Where all the rules for a charge are flat, the taxes of the whole stay are never more
\* than what the night audit posts in all of its nights.
THEOREM NightsAreTaxed ==
  ASSUME NEW table, TaxTable(table), NEW types, NEW vips, NEW q \in TaxCharges(types, vips), NEW amount \in Int
  PROVE  EveryNightIsTaxed(table, amount, q)
<1>1. PICK nights \in Nat, k \in Nat : nights = q.nights /\ k = (IF nights = 0 THEN 1 ELSE nights) /\ k > 0
  <2>1. PICK nights \in Nat : nights = q.nights
    BY DEF TaxCharges
  <2>2. (IF nights = 0 THEN 1 ELSE nights) \in Nat /\ (IF nights = 0 THEN 1 ELSE nights) > 0
    OBVIOUS
  <2>3. QED
    BY <2>1, <2>2
<1>2. PICK p : p = [q EXCEPT !.nights = 0, !.night = 0] /\ p.type = q.type /\ p.vip = q.vip /\ p.nights = 0
               /\ p.night = 0 /\ p.date = q.date
  BY AskedByAudit
<1>3. PICK rules : rules = ActiveTaxProfile(table, q.date) /\ TaxRules(rules)
  BY ActiveRules
<1> SUFFICES ASSUME \A i \in RulesFor(rules, q) : rules[i].type \in {"flat_per_night", "flat_per_stay"}
             PROVE  TaxTotal(CalculateTaxes(table, amount, q)) <= k * TaxTotal(CalculateTaxes(table, amount, p))
  BY <1>1, <1>2, <1>3 DEF EveryNightIsTaxed, NightAuditTaxes
<1>4. PICK n \in Nat : n = Len(rules) /\ DOMAIN rules = 1..n
  BY <1>3 DEF TaxRules
<1>5. p.nights \in Nat /\ q.nights \in Nat
  BY <1>1, <1>2
<1>6. PICK all : /\ all = RunningBase(rules, amount, q)
                 /\ all[0] = amount
                 /\ \A i \in 0..n : all[i] \in Int
                 /\ \A i \in 1..n : all[i] = all[i - 1] + Taxed(rules, i, amount, all[i - 1], q)
  BY <1>3, <1>4, <1>5, RunningBaseSteps
<1>7. PICK one : /\ one = RunningBase(rules, amount, p)
                 /\ one[0] = amount
                 /\ \A i \in 0..n : one[i] \in Int
                 /\ \A i \in 1..n : one[i] = one[i - 1] + Taxed(rules, i, amount, one[i - 1], p)
  BY <1>3, <1>4, <1>5, RunningBaseSteps
<1>8. ASSUME NEW i \in 1..n, NEW b \in Int, NEW c \in Int
      PROVE  Taxed(rules, i, amount, b, q) <= k * Taxed(rules, i, amount, c, p)
  <2>1. PICK t \in Nat, u \in Nat : t = Taxed(rules, i, amount, b, q) /\ u = Taxed(rules, i, amount, c, p)
    BY <1>3, <1>4, <1>5, TaxedTyped
  <2>2. k * u \in Nat
    OBVIOUS
  <2>3. CASE t = 0
    BY <2>1, <2>2, <2>3
  <2>4. CASE t # 0
    <3>1. i \in RulesFor(rules, q) /\ ~Exempted(rules[i], q) /\ t = TaxOf(rules[i], amount, b, q)
      BY <2>1, <2>4 DEF Taxed
    <3>2. i \in RulesFor(rules, p)
      BY <1>2, <3>1 DEF RulesFor
    <3>3. ~Exempted(rules[i], p)
      BY <1>2, <3>1 DEF Exempted
    <3>4. PICK rate \in Nat : rate = rules[i].rate
      BY <1>3, <1>4 DEF TaxRules, TaxRule
    <3>5. t = rate * k \/ t = rate
      BY <1>1, <3>1, <3>4 DEF TaxOf
    <3>6. TaxOf(rules[i], amount, c, p) = rate
      BY <1>2, <3>1, <3>4 DEF TaxOf
    <3>7. rate > 0
      BY <2>4, <3>5
    <3>8. u = rate
      BY <2>1, <3>2, <3>3, <3>6, <3>7 DEF Taxed
    <3>9. rate <= rate * k /\ rate * k = k * rate /\ rate * k \in Nat
      <4>1. PICK e \in Nat : k = e + 1
        <5>1. k - 1 \in Nat
          BY <1>1
        <5>2. QED
          BY <5>1
      <4>2. rate * (e + 1) = rate * e + rate /\ rate * e \in Nat
        OBVIOUS
      <4>3. QED
        BY <4>1, <4>2
    <3>10. QED
      BY <2>1, <3>5, <3>8, <3>9
  <2>5. QED
    BY <2>3, <2>4
<1> DEFINE T == {m \in Nat : m <= n => all[m] - amount <= k * (one[m] - amount)}
<1>9. 0 \in T
  BY <1>6, <1>7
<1>10. ASSUME NEW m \in Nat, m \in T
       PROVE  m + 1 \in T
  <2> SUFFICES ASSUME m + 1 <= n
               PROVE  all[m + 1] - amount <= k * (one[m + 1] - amount)
    OBVIOUS
  <2>1. PICK b \in Int, c \in Int : b = all[m] /\ c = one[m] /\ b - amount <= k * (c - amount)
    BY <1>6, <1>7, <1>10
  <2>2. PICK i \in 1..n : i = m + 1 /\ i - 1 = m
    OBVIOUS
  <2>3. PICK t \in Nat, u \in Nat : t = Taxed(rules, i, amount, b, q) /\ u = Taxed(rules, i, amount, c, p)
    BY <1>3, <1>4, <1>5, TaxedTyped
  <2>4. t <= k * u
    BY <1>8, <2>3
  <2>5. all[i] = b + t /\ one[i] = c + u
    BY <1>6, <1>7, <2>1, <2>2, <2>3
  <2>6. k * ((c + u) - amount) = k * (c - amount) + k * u /\ k * u \in Int /\ k * (c - amount) \in Int
    OBVIOUS
  <2>7. (b + t) - amount <= k * ((c + u) - amount)
    BY <2>1, <2>4, <2>6
  <2>8. QED
    BY <2>2, <2>5, <2>7
<1>11. n \in T
  <2>1. \A m \in Nat : m \in T
    <3> HIDE DEF T
    <3>1. QED
      BY <1>9, <1>10, CountingUp
  <2>2. QED
    BY <2>1
<1>12. TaxTotal(CalculateTaxes(table, amount, q)) = all[n] - amount
  BY <1>3, <1>4, <1>5, <1>6, TotalOfTaxes
<1>13. TaxTotal(CalculateTaxes(table, amount, p)) = one[n] - amount
  <2>1. rules = ActiveTaxProfile(table, p.date)
    BY <1>2, <1>3
  <2>2. QED
    BY <1>4, <1>5, <1>7, <2>1, TotalOfTaxes
<1>14. QED
  BY <1>11, <1>12, <1>13

\* Taxes of x on b are their percentages, p hundredths of a percent, and the flat
\* amounts f, but for half a cent for each of c rules: no less if low holds, and no more
\* if high holds.
Shares(low, high, b, x, p, f, c) ==
  /\ p <= 10000 * c
  /\ low => 2 * (b * p) + 20000 * f <= 20000 * x + 10000 * c
  /\ high => 20000 * x <= 2 * (b * p) + 20000 * f + 10000 * c

\* The tax of a rule on an amount is its share of it, but for half a cent.
LEMMA ShareOfRule ==
  ASSUME NEW r, TaxRule(r), NEW q, q.nights \in Nat, NEW b \in Nat
  PROVE  \E t \in Int, p \in Nat, f \in Nat :
           /\ t = TaxOf(r, b, b, q) /\ p = PercentageOf(r) /\ f = FlatOf(r, q) /\ p <= 10000
           /\ 20000 * t <= 2 * (b * p) + 20000 * f + 10000
           /\ 2 * (b * p) + 20000 * f <= 20000 * t + 10000
<1>1. PICK rate \in Nat, split \in Nat, n \in Nat : rate = r.rate /\ split = r.split /\ n = q.nights /\ split <= 100
  BY DEF TaxRule
<1>2. (IF r.compounding THEN b ELSE b) = b
  OBVIOUS
<1>3. CASE r.type = "percentage"
  <2>1. rate <= 100
    BY <1>1, <1>3 DEF TaxRule
  <2>2. PICK y \in Nat : y = b * rate
    OBVIOUS
  <2>3. PICK t \in Int : t = (2 * y + 100) \div 200 /\ 200 * t <= 2 * y + 100 /\ 2 * y + 100 < 200 * t + 200
    BY DivisionOf
  <2>4. TaxOf(r, b, b, q) = t
    <3>1. TaxOf(r, b, b, q) = Rounded(b * rate, 100)
      BY <1>1, <1>2, <1>3 DEF TaxOf
    <3>2. Rounded(y, 100) = t
      BY <2>3 DEF Rounded
    <3>3. QED
      BY <2>2, <3>1, <3>2
  <2>5. PICK p \in Nat : p = 100 * rate /\ p <= 10000
    BY <2>1
  <2>6. b * p = 100 * y
    BY <2>2, <2>5
  <2>7. PercentageOf(r) = p /\ FlatOf(r, q) = 0
    BY <1>1, <1>3, <2>5 DEF PercentageOf, FlatOf
  <2>8. 20000 * t <= 2 * (b * p) + 10000 /\ 2 * (b * p) <= 20000 * t + 10000
    BY <2>3, <2>6
  <2>9. QED
    BY <2>4, <2>5, <2>7, <2>8
<1>4. CASE r.type = "split_component"
  <2>1. rate <= 100
    BY <1>1, <1>4 DEF TaxRule
  <2>2. PICK p \in Nat : p = split * rate
    OBVIOUS
  <2>3. p <= 10000
    <3>1. split * rate <= 100 * rate
      <4>1. PICK d \in Nat : 100 = split + d
        <5>1. 100 - split \in Nat
          BY <1>1
        <5>2. QED
          BY <5>1
      <4>2. (split + d) * rate = split * rate + d * rate /\ d * rate \in Nat
        OBVIOUS
      <4>3. QED
        BY <4>1, <4>2
    <3>2. QED
      BY <2>1, <2>2, <3>1
  <2>4. PICK y \in Nat : y = b * p
    OBVIOUS
  <2>5. b * split * rate = y
    BY <2>2, <2>4
  <2>6. PICK t \in Int : t = (2 * y + 10000) \div 20000 /\ 20000 * t <= 2 * y + 10000 /\ 2 * y + 10000 < 20000 * t + 20000
    BY DivisionOf
  <2>7. TaxOf(r, b, b, q) = t
    <3>1. TaxOf(r, b, b, q) = Rounded(b * split * rate, 10000)
      BY <1>1, <1>2, <1>4 DEF TaxOf
    <3>2. Rounded(y, 10000) = t
      BY <2>6 DEF Rounded
    <3>3. QED
      BY <2>5, <3>1, <3>2
  <2>8. PercentageOf(r) = p /\ FlatOf(r, q) = 0
    BY <1>1, <1>4, <2>2 DEF PercentageOf, FlatOf
  <2>9. 20000 * t <= 2 * (b * p) + 10000 /\ 2 * (b * p) <= 20000 * t + 10000
    BY <2>4, <2>6
  <2>10. QED
    BY <2>3, <2>7, <2>8, <2>9
<1>5. b * 0 = 0
  OBVIOUS
<1>6. CASE r.type = "flat_per_night"
  <2>1. PICK f \in Nat : f = rate * (IF n = 0 THEN 1 ELSE n)
    OBVIOUS
  <2>2. TaxOf(r, b, b, q) = f /\ PercentageOf(r) = 0 /\ FlatOf(r, q) = f
    BY <1>1, <1>6, <2>1 DEF TaxOf, PercentageOf, FlatOf
  <2>3. QED
    BY <1>5, <2>2
<1>7. CASE r.type = "flat_per_stay"
  <2>1. TaxOf(r, b, b, q) = rate /\ PercentageOf(r) = 0 /\ FlatOf(r, q) = rate
    BY <1>1, <1>7 DEF TaxOf, PercentageOf, FlatOf
  <2>2. QED
    BY <1>5, <2>1
<1>8. CASE r.type \notin {"percentage", "split_component", "flat_per_night", "flat_per_stay"}
  <2>1. TaxOf(r, b, b, q) = 0 /\ PercentageOf(r) = 0 /\ FlatOf(r, q) = 0
    BY <1>8 DEF TaxOf, PercentageOf, FlatOf
  <2>2. QED
    BY <1>5, <2>1
<1>9. QED
  BY <1>3, <1>4, <1>6, <1>7, <1>8

\* On a running base that has grown, a compounding tax is its share at least, and any
\* other is its share.
LEMMA ShareOfBase ==
  ASSUME NEW r, TaxRule(r), NEW q, q.nights \in Nat, NEW b \in Nat, NEW x \in Int, b <= x
  PROVE  /\ TaxOf(r, b, x, q) \in Int /\ PercentageOf(r) \in Nat /\ FlatOf(r, q) \in Nat
         /\ Shares(TRUE, ~r.compounding, b, TaxOf(r, b, x, q), PercentageOf(r), FlatOf(r, q), 1)
<1>1. PICK u \in Int, p \in Nat, f \in Nat :
        /\ u = TaxOf(r, b, b, q) /\ p = PercentageOf(r) /\ f = FlatOf(r, q) /\ p <= 10000
        /\ 20000 * u <= 2 * (b * p) + 20000 * f + 10000
        /\ 2 * (b * p) + 20000 * f <= 20000 * u + 10000
  BY ShareOfRule
<1>2. PICK t \in Int : t = TaxOf(r, b, x, q) /\ u <= t
  <2>1. TaxOf(r, b, b, q) <= TaxOf(r, b, x, q)
    BY TaxGrows
  <2>2. TaxOf(r, b, x, q) \in Int
    <3>1. x <= x
      OBVIOUS
    <3>2. QED
      BY <3>1, TaxGrows
  <2>3. QED
    BY <1>1, <2>1, <2>2
<1>3. ~r.compounding => t = u
  BY <1>1, <1>2 DEF TaxOf
<1>4. PICK y \in Nat : y = b * p
  OBVIOUS
<1>5. /\ ~r.compounding => 20000 * t <= 2 * y + 20000 * f + 10000
      /\ 2 * y + 20000 * f <= 20000 * t + 10000
  BY <1>1, <1>2, <1>3, <1>4
<1>6. Shares(TRUE, ~r.compounding, b, t, p, f, 1)
  BY <1>1, <1>4, <1>5 DEF Shares
<1>7. t \in Int /\ t = TaxOf(r, b, x, q) /\ p \in Nat /\ p = PercentageOf(r) /\ f \in Nat /\ f = FlatOf(r, q)
  BY <1>1, <1>2
<1>8. QED
  BY <1>6, <1>7

\* One rule more.
LEMMA SharesAdd ==
  ASSUME NEW low, NEW high, NEW one, low => one, NEW b \in Nat,
         NEW x \in Int, NEW p \in Nat, NEW f \in Nat, NEW c \in Nat, Shares(low, high, b, x, p, f, c),
         NEW t \in Int, NEW r \in Nat, NEW g \in Nat, Shares(TRUE, high, b, t, r, g, 1),
         NEW u \in Nat, low => t <= u, u = 0 \/ u = t
  PROVE  Shares(low, high, b, x + u, p + r, f + g, c + 1)
<1>1. PICK y \in Nat, z \in Nat : y = b * p /\ z = b * r
  OBVIOUS
<1>2. b * (p + r) = y + z
  BY <1>1
<1>3. p + r <= 10000 * (c + 1)
  BY DEF Shares
<1>4. low => 2 * (y + z) + 20000 * (f + g) <= 20000 * (x + u) + 10000 * (c + 1)
  <2> SUFFICES ASSUME low
               PROVE  2 * (y + z) + 20000 * (f + g) <= 20000 * (x + u) + 10000 * (c + 1)
    OBVIOUS
  <2>1. 2 * y + 20000 * f <= 20000 * x + 10000 * c
    BY <1>1 DEF Shares
  <2>2. 2 * z + 20000 * g <= 20000 * t + 10000
    BY <1>1 DEF Shares
  <2>3. QED
    BY <2>1, <2>2
<1>5. high => 20000 * (x + u) <= 2 * (y + z) + 20000 * (f + g) + 10000 * (c + 1)
  <2> SUFFICES ASSUME high
               PROVE  20000 * (x + u) <= 2 * (y + z) + 20000 * (f + g) + 10000 * (c + 1)
    OBVIOUS
  <2>1. 20000 * x <= 2 * y + 20000 * f + 10000 * c
    BY <1>1 DEF Shares
  <2>2. 20000 * t <= 2 * z + 20000 * g + 10000
    BY <1>1 DEF Shares
  <2>3. 20000 * u <= 2 * z + 20000 * g + 10000
    BY <2>2
  <2>4. QED
    BY <2>1, <2>3
<1>6. QED
  BY <1>2, <1>3, <1>4, <1>5 DEF Shares

\* The taxes on a base are its percentages and the flat amounts, but for half a cent for
\* each rule: no less if nobody is exempt, and no more if no rule compounds.
TaxesAreSharesOf(rules, b, q, D) ==
  \E x \in Int, p \in Nat, f \in Nat, c \in Nat :
    /\ x = RunningBase(rules, b, q)[Len(rules)] - b
    /\ p = SumFunction([i \in D |-> PercentageOf(rules[i])])
    /\ f = SumFunction([i \in D |-> FlatOf(rules[i], q)])
    /\ c = Cardinality(D)
    /\ Shares(\A i \in D : ~Exempted(rules[i], q), \A i \in D : ~rules[i].compounding, b, x, p, f, c)

LEMMA TaxesAreShares ==
  ASSUME NEW rules, TaxRules(rules), NEW q, q.nights \in Nat, NEW b \in Nat, NEW D, D = RulesFor(rules, q)
  PROVE  TaxesAreSharesOf(rules, b, q, D)
<1>1. PICK n \in Nat : n = Len(rules) /\ DOMAIN rules = 1..n
  BY DEF TaxRules
<1>2. D \in SUBSET (1..n) /\ IsFiniteSet(D)
  <2>1. D \in SUBSET (1..n)
    BY <1>1 DEF RulesFor
  <2>2. IsFiniteSet(1..n)
    BY FS_Interval
  <2>3. QED
    BY <2>1, <2>2, FS_Subset
<1>3. \A j \in D : j \in Int /\ 1 <= j /\ j <= n /\ j \in DOMAIN rules
  BY <1>1, <1>2
<1>4. PICK v : v = [i \in D |-> PercentageOf(rules[i])]
  OBVIOUS
<1>5. PICK w : w = [i \in D |-> FlatOf(rules[i], q)]
  OBVIOUS
<1>6. PICK base : /\ base = RunningBase(rules, b, q)
                  /\ base[0] = b
                  /\ \A i \in 0..n : base[i] \in Int /\ base[i] >= b
                  /\ \A i \in 1..n : base[i] = base[i - 1] + Taxed(rules, i, b, base[i - 1], q)
  BY <1>1, RunningBaseSteps
<1>7. ASSUME NEW i \in D, NEW x \in Int, b <= x
      PROVE  /\ TaxOf(rules[i], b, x, q) \in Int /\ v[i] \in Nat /\ w[i] \in Nat
             /\ Shares(TRUE, ~rules[i].compounding, b, TaxOf(rules[i], b, x, q), v[i], w[i], 1)
  <2>1. PICK r : r = rules[i] /\ TaxRule(r)
    BY <1>3 DEF TaxRules
  <2>2. /\ TaxOf(r, b, x, q) \in Int /\ PercentageOf(r) \in Nat /\ FlatOf(r, q) \in Nat
        /\ Shares(TRUE, ~r.compounding, b, TaxOf(r, b, x, q), PercentageOf(r), FlatOf(r, q), 1)
    BY <1>7, <2>1, ShareOfBase
  <2>3. v[i] = PercentageOf(r) /\ w[i] = FlatOf(r, q)
    BY <1>4, <1>5, <2>1
  <2>4. QED
    BY <2>1, <2>2, <2>3
<1>8. v \in [D -> Nat] /\ w \in [D -> Nat]
  <2>1. \A i \in D : v[i] \in Nat /\ w[i] \in Nat
    <3>1. b \in Int /\ b <= b
      OBVIOUS
    <3>2. QED
      BY <1>7, <3>1
  <2>2. QED
    BY <1>4, <1>5, <2>1
<1>9. v \in [D -> Int] /\ w \in [D -> Int]
  BY <1>8
<1>10. PICK g : Sums(g, D, v) /\ SumFunction(v) = g[D]
  BY <1>2, <1>9, TotalIsSum
<1>11. PICK h : Sums(h, D, w) /\ SumFunction(w) = h[D]
  BY <1>2, <1>9, TotalIsSum
<1>12. \A s \in SUBSET D : g[s] \in Nat
  BY <1>2, <1>8, <1>10, SumOfNaturals
<1>13. \A s \in SUBSET D : h[s] \in Nat
  BY <1>2, <1>8, <1>11, SumOfNaturals
<1>14. \A s \in SUBSET D : IsFiniteSet(s) /\ Cardinality(s) \in Nat
  BY <1>2, FS_Subset, FS_CardinalityType
<1> DEFINE upTo(m) == {i \in D : i <= m}
           free == \A i \in D : ~Exempted(rules[i], q)
           simple == \A i \in D : ~rules[i].compounding
           T == {m \in Nat : m <= n => Shares(free, simple, b, base[m] - b, g[upTo(m)], h[upTo(m)], Cardinality(upTo(m)))}
<1>15. 0 \in T
  <2>1. upTo(0) = {}
    BY <1>3
  <2>2. g[{}] = 0
    BY <1>10, SumOfNothing
  <2>3. h[{}] = 0
    BY <1>11, SumOfNothing
  <2>4. Cardinality({}) = 0
    BY FS_EmptySet
  <2> HIDE DEF upTo, free, simple
  <2>5. base[0] - b = 0
    BY <1>6
  <2>6. Shares(free, simple, b, 0, 0, 0, 0)
    <3>1. b * 0 = 0
      OBVIOUS
    <3>2. QED
      BY <3>1 DEF Shares
  <2>7. Shares(free, simple, b, base[0] - b, g[upTo(0)], h[upTo(0)], Cardinality(upTo(0)))
    BY <2>1, <2>2, <2>3, <2>4, <2>5, <2>6
  <2>8. QED
    BY <2>7
<1>16. ASSUME NEW m \in Nat, m \in T
       PROVE  m + 1 \in T
  <2> HIDE DEF upTo, free, simple
  <2> SUFFICES ASSUME m + 1 <= n
               PROVE  Shares(free, simple, b, base[m + 1] - b, g[upTo(m + 1)], h[upTo(m + 1)], Cardinality(upTo(m + 1)))
    OBVIOUS
  <2> USE DEF upTo, free, simple
  <2>1. upTo(m) \in SUBSET D /\ upTo(m + 1) \in SUBSET D
    OBVIOUS
  <2>2. PICK B \in Int, G \in Nat, H \in Nat, C \in Nat :
          /\ B = base[m] /\ G = g[upTo(m)] /\ H = h[upTo(m)] /\ C = Cardinality(upTo(m)) /\ b <= B
    <3> HIDE DEF upTo
    <3>1. m \in 0..n
      OBVIOUS
    <3>2. base[m] \in Int /\ b <= base[m]
      BY <1>6, <3>1
    <3>3. QED
      BY <1>12, <1>13, <1>14, <2>1, <3>2
  <2>3. Shares(free, simple, b, B - b, G, H, C)
    <3> HIDE DEF upTo, free, simple
    <3>1. m <= n
      OBVIOUS
    <3>2. QED
      BY <1>16, <2>2, <3>1
  <2>4. PICK i \in 1..n : i = m + 1 /\ i - 1 = m
    OBVIOUS
  <2>5. PICK u \in Nat : u = Taxed(rules, i, b, B, q)
    <3>1. i \in DOMAIN rules
      BY <1>1
    <3>2. QED
      BY <3>1, TaxedTyped
  <2>6. base[m + 1] = B + u
    BY <1>6, <2>2, <2>4, <2>5
  <2>7. CASE i \notin D
    <3>1. u = 0
      BY <2>5, <2>7 DEF Taxed
    <3>2. upTo(m + 1) = upTo(m)
      <4>1. m + 1 \notin D
        BY <2>4, <2>7
      <4>2. \A j \in D : j \in Int
        BY <1>3
      <4>3. QED
        BY <4>1, <4>2
    <3> HIDE DEF upTo, free, simple
    <3>3. base[m + 1] = B
      BY <2>6, <3>1
    <3>4. QED
      BY <2>2, <2>3, <3>2, <3>3
  <2>8. CASE i \in D
    <3>1. upTo(m + 1) \ {i} = upTo(m) /\ i \in upTo(m + 1)
      <4>1. m + 1 \in D
        BY <2>4, <2>8
      <4>2. \A j \in D : j \in Int
        BY <1>3
      <4>3. QED
        BY <2>4, <4>1, <4>2
    <3>2. PICK t \in Int, p \in Nat, f \in Nat :
            t = TaxOf(rules[i], b, B, q) /\ p = v[i] /\ f = w[i] /\ Shares(TRUE, ~rules[i].compounding, b, t, p, f, 1)
      BY <1>7, <2>2, <2>8
    <3>3. free => t <= u
      BY <2>5, <2>8, <3>2 DEF Taxed
    <3>4. u = 0 \/ u = t
      BY <2>5, <3>2 DEF Taxed
    <3>5. simple => ~rules[i].compounding
      BY <2>8
    <3>6. PICK s \in SUBSET D : s = upTo(m + 1) /\ i \in s /\ s \ {i} = upTo(m)
      BY <2>1, <3>1
    <3> HIDE DEF upTo
    <3>7. g[s] = G + p
      <4>1. g[s] = g[s \ {i}] + v[i]
        BY <1>2, <1>9, <1>10, <3>6, SumOfOneMore
      <4>2. g[s \ {i}] = G /\ v[i] = p
        BY <2>2, <3>2, <3>6
      <4>3. QED
        BY <4>1, <4>2
    <3>8. h[s] = H + f
      <4>1. h[s] = h[s \ {i}] + w[i]
        BY <1>2, <1>9, <1>11, <3>6, SumOfOneMore
      <4>2. h[s \ {i}] = H /\ w[i] = f
        BY <2>2, <3>2, <3>6
      <4>3. QED
        BY <4>1, <4>2
    <3>9. Cardinality(s) = C + 1
      <4>1. Cardinality(s \ {i}) = Cardinality(s) - 1
        BY <1>14, <3>6, FS_RemoveElement
      <4>2. Cardinality(s \ {i}) = C /\ Cardinality(s) \in Nat
        BY <1>14, <2>2, <3>6
      <4>3. QED
        BY <4>1, <4>2
    <3>10. Shares(TRUE, simple, b, t, p, f, 1)
      <4> HIDE DEF simple
      <4>1. QED
        BY <3>2, <3>5 DEF Shares
    <3> HIDE DEF free, simple
    <3>11. Shares(free, simple, b, (B - b) + u, G + p, H + f, C + 1)
      <4>1. B - b \in Int
        OBVIOUS
      <4>2. QED
        BY <2>3, <3>3, <3>4, <3>10, <4>1, SharesAdd
    <3>12. base[m + 1] - b = (B - b) + u
      BY <2>6
    <3>13. QED
      BY <3>6, <3>7, <3>8, <3>9, <3>11, <3>12
  <2>9. QED
    BY <2>7, <2>8
<1>17. n \in T
  <2>1. \A m \in Nat : m \in T
    <3> HIDE DEF T
    <3>1. QED
      BY <1>15, <1>16, CountingUp
  <2>2. QED
    BY <2>1
<1>18. upTo(n) = D
  BY <1>3
<1>19. Shares(free, simple, b, base[n] - b, g[D], h[D], Cardinality(D))
  <2> HIDE DEF upTo, free, simple
  <2>1. QED
    BY <1>17, <1>18
<1>20. PICK x \in Int, p \in Nat, f \in Nat, c \in Nat :
         x = base[n] - b /\ p = g[D] /\ f = h[D] /\ c = Cardinality(D)
  <2>1. D \in SUBSET D /\ n \in 0..n
    OBVIOUS
  <2>2. QED
    BY <1>6, <1>12, <1>13, <1>14, <2>1
<1>21. Shares(free, simple, b, x, p, f, c)
  <2> HIDE DEF free, simple
  <2>1. QED
    BY <1>19, <1>20
<1>22. /\ x = RunningBase(rules, b, q)[Len(rules)] - b
       /\ p = SumFunction([i \in D |-> PercentageOf(rules[i])])
       /\ f = SumFunction([i \in D |-> FlatOf(rules[i], q)])
       /\ c = Cardinality(D)
  BY <1>1, <1>4, <1>5, <1>6, <1>10, <1>11, <1>20
<1>23. QED
  BY <1>21, <1>22 DEF TaxesAreSharesOf

Near(low, high, sum, price, c) == (low => price - c <= sum) /\ (high => sum <= price + c)

\* A base rounded to the cent, with the shares of it and the flat amounts, makes the
\* price, but for a cent for each rule.
LEMMA SharesMakePrice ==
  ASSUME NEW low, NEW high, NEW total \in Int, NEW f \in Nat, f < total, NEW p \in Nat, NEW c \in Nat,
         NEW b, b = Rounded((total - f) * 10000, 10000 + p), NEW x \in Int, Shares(low, high, b, x, p, f, c)
  PROVE  Near(low, high, b + x, total, c)
<1>1. PICK w \in Nat, g \in Nat : w = 10000 + p /\ g = 2 * w /\ 0 < g
  OBVIOUS
<1>2. PICK m \in Nat : m = 20000 * (total - f)
  OBVIOUS
<1>3. 2 * ((total - f) * 10000) = m
  BY <1>2
<1>4. b = (m + w) \div g
  BY <1>1, <1>3 DEF Rounded
<1>5. PICK k \in Int : k = (m + w) \div g /\ g * k <= m + w /\ m + w < g * k + g
  <2>1. m + w \in Int
    OBVIOUS
  <2>2. QED
    BY <1>1, <2>1, DivisionOf
<1>6. b = k
  BY <1>4, <1>5
<1>7. PICK y \in Int : y = b * p
  BY <1>6
<1>8. g * k = 20000 * b + 2 * y
  BY <1>1, <1>6, <1>7
<1>9. b \in Int /\ 20000 * b + 2 * y <= m + w /\ m < 20000 * b + 2 * y + w
  BY <1>1, <1>5, <1>6, <1>8
<1>10. /\ p <= 10000 * c
       /\ low => 2 * y + 20000 * f <= 20000 * x + 10000 * c
       /\ high => 20000 * x <= 2 * y + 20000 * f + 10000 * c
  BY <1>7 DEF Shares
<1>11. m + 20000 * f = 20000 * total /\ w = 10000 + p
  BY <1>1, <1>2
<1>12. low => total - c <= b + x
  <2> SUFFICES ASSUME low
               PROVE  total - c <= b + x
    OBVIOUS
  <2>1. 20000 * total < 20000 * (b + x) + 20000 * c + 10000
    BY <1>9, <1>10, <1>11
  <2>2. QED
    BY <1>9, <2>1
<1>13. high => b + x <= total + c
  <2> SUFFICES ASSUME high
               PROVE  b + x <= total + c
    OBVIOUS
  <2>1. 20000 * (b + x) <= 20000 * total + 20000 * c + 10000
    BY <1>9, <1>10, <1>11
  <2>2. QED
    BY <1>9, <2>1
<1>14. QED
  BY <1>12, <1>13 DEF Near

\* The base backed out of a price that is more than its flat amounts is one.
LEMMA BaseIsNatural ==
  ASSUME NEW total \in Int, NEW f \in Nat, f < total, NEW p \in Nat
  PROVE  Rounded((total - f) * 10000, 10000 + p) \in Nat
<1>1. PICK w \in Nat, g \in Nat : w = 10000 + p /\ g = 2 * w /\ 0 < g
  OBVIOUS
<1>2. PICK m \in Nat : m = 2 * ((total - f) * 10000)
  OBVIOUS
<1>3. PICK k \in Int : k = (m + w) \div g /\ g * k <= m + w /\ m + w < g * k + g
  <2>1. m + w \in Int
    OBVIOUS
  <2>2. QED
    BY <1>1, <2>1, DivisionOf
<1>4. k \in Nat
  <2> SUFFICES ASSUME k < 0
               PROVE  FALSE
    OBVIOUS
  <2>1. PICK e \in Nat : k = -1 - e
    <3>1. -1 - k \in Nat
      OBVIOUS
    <3>2. k = -1 - (-1 - k)
      OBVIOUS
    <3>3. QED
      BY <3>1, <3>2
  <2>2. PICK z \in Nat : z = g * e
    OBVIOUS
  <2>3. g * k + g = -z
    BY <2>1, <2>2
  <2>4. QED
    BY <1>3, <2>3
<1>5. Rounded((total - f) * 10000, 10000 + p) = k
  BY <1>1, <1>2, <1>3 DEF Rounded
<1>6. QED
  BY <1>4, <1>5

\* Where no rule compounds and nobody is exempt, the price before tax and its taxes are
\* the price, but for a cent for each rule; they are no less where only nobody is exempt,
\* and no more where only no rule compounds.
THEOREM PriceRecovered ==
  ASSUME NEW table, TaxTable(table), NEW types, NEW vips, NEW q \in TaxCharges(types, vips), NEW total \in Int
  PROVE  PriceIsRecovered(table, total, q)
<1>1. q.nights \in Nat
  BY DEF TaxCharges
<1>2. PICK rules : rules = ActiveTaxProfile(table, q.date) /\ TaxRules(rules)
  BY ActiveRules
<1>3. PICK D : D = RulesFor(rules, q)
  OBVIOUS
<1>4. PICK low, high : low = (\A i \in D : ~Exempted(rules[i], q)) /\ high = (\A i \in D : ~rules[i].compounding)
  OBVIOUS
<1>5. ASSUME NEW b \in Nat
      PROVE  TaxesAreSharesOf(rules, b, q, D)
  BY <1>1, <1>2, <1>3, TaxesAreShares
<1>6. PICK p \in Nat, f \in Nat, c \in Nat :
        /\ p = SumFunction([i \in D |-> PercentageOf(rules[i])])
        /\ f = SumFunction([i \in D |-> FlatOf(rules[i], q)])
        /\ c = Cardinality(D)
  <2>1. TaxesAreSharesOf(rules, 0, q, D)
    BY <1>5
  <2>2. QED
    BY <2>1 DEF TaxesAreSharesOf
<1>7. PICK back : back = BackCalculate(table, total, q)
  OBVIOUS
<1>8. back.base = Rounded((total - f) * 10000, 10000 + p) /\ back.taxes = CalculateTaxes(table, back.base, q)
  BY <1>2, <1>3, <1>6, <1>7 DEF BackCalculate
<1>9. ASSUME f < total
      PROVE  \E s \in Int : /\ s = back.base + TaxTotal(back.taxes)
                            /\ low => total - c <= s
                            /\ high => s <= total + c
  <2>1. PICK b \in Nat : b = Rounded((total - f) * 10000, 10000 + p)
    BY <1>9, BaseIsNatural
  <2>2. PICK x \in Int : x = RunningBase(rules, b, q)[Len(rules)] - b /\ Shares(low, high, b, x, p, f, c)
    <3>1. TaxesAreSharesOf(rules, b, q, D)
      BY <1>5
    <3>2. QED
      BY <1>4, <1>6, <3>1 DEF TaxesAreSharesOf
  <2>3. TaxTotal(CalculateTaxes(table, b, q)) = x
    BY <1>1, <1>2, <2>2, TotalOfTaxes
  <2>4. Near(low, high, b + x, total, c)
    <3>1. f < total
      BY <1>9
    <3>2. Shares(low, high, b, x, p, f, c)
      BY <2>2
    <3>3. QED
      BY <2>1, <3>1, <3>2, SharesMakePrice
  <2>5. b + x \in Int /\ b + x = back.base + TaxTotal(back.taxes)
    BY <1>8, <2>1, <2>3
  <2>6. QED
    BY <2>4, <2>5 DEF Near
<1>10. ASSUME f < total
       PROVE  \E s \in Int : /\ s = back.base + TaxTotal(back.taxes)
                             /\ low /\ high => Distance(s, total) <= c
                             /\ low => s >= total - c
                             /\ high => s <= total + c
  BY <1>9, <1>10 DEF Distance
<1>11. total > f =>
         /\ (high /\ low) => Distance(back.base + TaxTotal(back.taxes), total) <= c
         /\ low => back.base + TaxTotal(back.taxes) >= total - c
         /\ high => back.base + TaxTotal(back.taxes) <= total + c
  BY <1>10
<1>12. QED
  BY <1>2, <1>3, <1>4, <1>6, <1>7, <1>11 DEF PriceIsRecovered

\* Everything a tax profile says of one charge or one price: of every table of profiles
\* with percentages of at most a hundred and no exemption for guests without a VIP level,
\* every amount and every question.
THEOREM AllTaxesHold == TaxesHold
<1>1. ASSUME NEW table \in AskedProfiles, NEW a \in AskedAmounts, NEW q \in AskedCharges
      PROVE  TaxesAddUp(table, a, q)
  <2>1. TaxTable(table) /\ a \in Int /\ q \in TaxCharges(STRING, STRING)
    BY TaxesAssumption
  <2>2. ExemptionsHelp(table, a, q)
    BY <2>1, ExemptionsTakeOffTaxes
  <2>3. EveryNightIsTaxed(table, a, q)
    BY <2>1, NightsAreTaxed
  <2>4. PriceIsRecovered(table, a, q)
    BY <2>1, PriceRecovered
  <2>5. QED
    BY <2>2, <2>3, <2>4 DEF TaxesAddUp
<1>2. QED
  BY <1>1 DEF TaxesHold

-----------------------------------------------------------------------------
(* Messages to the channels and from them.                                 *)

\* A set of numbers has a least one, and one of a sequence's places a least and a last.
LEMMA LeastOf ==
  ASSUME NEW T \in SUBSET Nat, T # {}
  PROVE  Min(T) \in T /\ \A n \in T : Min(T) <= n
<1>1. PICK m \in T : \A n \in T : m <= n
  BY LeastNatural
<1>2. QED
  BY <1>1 DEF Min

LEMMA LastPlace ==
  ASSUME NEW n \in Nat, NEW T \in SUBSET (1..n), T # {}
  PROVE  \E m \in T : \A k \in T : k <= m
<1> DEFINE R == {n - k : k \in T}
<1>1. R \in SUBSET Nat /\ R # {}
  <2>1. \A k \in T : k \in 1..n /\ n - k \in Nat
    OBVIOUS
  <2>2. \A x \in R : x \in Nat
    BY <2>1
  <2>3. QED
    BY <2>2
<1>2. PICK i \in R : \A j \in R : i <= j
  <2> HIDE DEF R
  <2>1. QED
    BY <1>1, LeastOf
<1>3. PICK m \in T : i = n - m
  BY <1>2
<1>4. \A k \in T : n - k \in R
  OBVIOUS
<1>5. \A k \in T : n - m <= n - k
  <2> HIDE DEF R
  <2>1. QED
    BY <1>2, <1>3, <1>4
<1>6. QED
  BY <1>5

\* The first attempt that counts decides a request, whatever came before it.
LEMMA AnswersRead == \A tries \in Seq(Attempts) : AnswersAreRead(tries)
<1> SUFFICES ASSUME NEW tries \in Seq(Attempts)
             PROVE  AnswersAreRead(tries)
  BY SMTT(30)
<1>1. PICK n \in Nat : DOMAIN tries = 1..n /\ \A i \in 1..n : tries[i] \in Attempts
  <2>1. DOMAIN tries = 1..Len(tries) /\ Len(tries) \in Nat /\ \A i \in 1..Len(tries) : tries[i] \in Attempts
    OBVIOUS
  <2>2. QED
    BY <2>1
<1>2. PICK B \in SUBSET (1..n), S \in SUBSET (1..n) :
        /\ B = {i \in DOMAIN tries : BookingComFinal(tries[i])}
        /\ S = {i \in DOMAIN tries : SiteMinderFinal(tries[i])}
  BY <1>1
<1>3. /\ B # {} => Min(B) \in B /\ \A i \in B : Min(B) <= i
      /\ S # {} => Min(S) \in S /\ \A i \in S : Min(S) <= i
  <2>1. B \in SUBSET Nat /\ S \in SUBSET Nat
    BY <1>2
  <2>2. QED
    BY <2>1, LeastOf
<1>4. PICK b, s : b = BookingComRequest(tries) /\ s = SiteMinderRequest(tries)
  OBVIOUS
<1>5. /\ B = {} => b = NetworkError
      /\ B # {} => b = ParseOta(tries[Min(B)].body)
  BY <1>2, <1>4 DEF BookingComRequest
<1>6. /\ S = {} => s = NetworkError
      /\ S # {} => s = ParseSoap(tries[Min(S)].body)
  BY <1>2, <1>4 DEF SiteMinderRequest
<1>7. /\ B = {} => ~b.success /\ b.errors
      /\ B # {} => (b.success <=> tries[Min(B)].body = "success")
  <2>1. CASE B = {}
    <3>1. b = [success |-> FALSE, errors |-> TRUE, isFault |-> FALSE]
      BY <1>5, <2>1 DEF NetworkError
    <3>2. QED
      BY <2>1, <3>1
  <2>2. CASE B # {}
    <3>1. PICK body : body = tries[Min(B)].body
      OBVIOUS
    <3>2. b = [success |-> body = "success", errors |-> body = "errors", isFault |-> FALSE]
      BY <1>5, <2>2, <3>1 DEF ParseOta
    <3>3. b.success = (body = "success")
      BY <3>2
    <3>4. QED
      BY <2>2, <3>1, <3>3
  <2>3. QED
    BY <2>1, <2>2
<1>8. /\ S = {} => ~s.success /\ ~s.isFault
      /\ S # {} => /\ s.success <=> tries[Min(S)].body = "success"
                   /\ s.isFault <=> tries[Min(S)].body = "fault"
  <2>1. CASE S = {}
    <3>1. s = [success |-> FALSE, errors |-> TRUE, isFault |-> FALSE]
      BY <1>6, <2>1 DEF NetworkError
    <3>2. QED
      BY <2>1, <3>1
  <2>2. CASE S # {}
    <3>1. PICK body : body = tries[Min(S)].body
      OBVIOUS
    <3>2. s = [success |-> body = "success", errors |-> body \in {"errors", "fault"}, isFault |-> body = "fault"]
      BY <1>6, <2>2, <3>1 DEF ParseSoap
    <3>3. s.success = (body = "success") /\ s.isFault = (body = "fault")
      BY <3>2
    <3>4. QED
      BY <2>2, <3>1, <3>3
  <2>3. QED
    BY <2>1, <2>2
<1>9. b.success => \E i \in DOMAIN tries : tries[i].body = "success" /\ tries[i].http = "ok"
  BY <1>2, <1>3, <1>7 DEF BookingComFinal
<1>10. s.success => \E i \in DOMAIN tries : tries[i].body = "success" /\ tries[i].http \in {"ok", "500"}
  BY <1>2, <1>3, <1>8 DEF SiteMinderFinal
<1>11. ASSUME NEW i \in DOMAIN tries, BookingComFinal(tries[i]), \A j \in 1..(i - 1) : ~BookingComFinal(tries[j])
       PROVE  b.success <=> tries[i].body = "success"
  <2>1. i \in B /\ i \in 1..n
    BY <1>1, <1>2, <1>11
  <2>2. PICK m \in 1..n : m = Min(B) /\ m \in B /\ m <= i /\ BookingComFinal(tries[m])
    BY <1>2, <1>3, <2>1
  <2>3. ~ (m < i)
    BY <2>1, <2>2, <1>11
  <2>4. m = i
    BY <2>1, <2>2, <2>3
  <2>5. QED
    BY <1>7, <2>1, <2>2, <2>4
<1>12. BookingComConnected(tries) => \E i \in DOMAIN tries : BookingComFinal(tries[i])
  BY <1>2, <1>3, <1>4, <1>7 DEF BookingComConnected
<1>13. ~SiteMinderConnected(tries) <=> s.isFault
  BY <1>4 DEF SiteMinderConnected
<1>14. s.success => SiteMinderConnected(tries)
  BY <1>4, <1>8 DEF SiteMinderConnected
<1>15. QED
  BY <1>4, <1>9, <1>10, <1>11, <1>12, <1>13, <1>14 DEF AnswersAreRead

\* A room and date that is pushed once is read as it was pushed.
LEMMA RoomsAreRead ==
  ASSUME NEW items, DOMAIN items \subseteq Nat \X Nat
  PROVE  AvailabilityIsRead(items)
<1> SUFFICES ASSUME NEW x \in DOMAIN items,
                    \A y \in DOMAIN items : <<items[y].room, items[y].date>> = <<items[x].room, items[x].date>> => y = x
             PROVE  /\ Told(BookingComAvailability(items), <<items[x].room, items[x].date>>) = items[x].available
                    /\ Told(SiteMinderAvailability(items, <<>>), <<items[x].room, items[x].date>>).available = items[x].available
  BY DEF AvailabilityIsRead
<1>1. PICK key : key = <<items[x].room, items[x].date>>
  OBVIOUS
<1> DEFINE place(y) == <<FirstOfRoom(items, y)[1], FirstOfRoom(items, y)[2], y[1], y[2]>>
           item(p) == items[<<p[3], p[4]>>]
           places == {place(y) : y \in DOMAIN items}
           booking == [p \in places |-> [key |-> <<item(p).room, item(p).date>>, says |-> item(p).available]]
           minder == SiteMinderAvailability(items, <<>>)
<1>2. \A y \in DOMAIN items : y = <<y[1], y[2]>>
  OBVIOUS
<1>3. \A y \in DOMAIN items : item(place(y)) = items[y]
  BY <1>2
<1>4. BookingComAvailability(items) = booking
  BY DEF BookingComAvailability
<1>5. Told(booking, key) = items[x].available
  <2>1. {p \in DOMAIN booking : booking[p].key = key} = {place(x)}
    <3>1. place(x) \in DOMAIN booking /\ booking[place(x)].key = key
      BY <1>1, <1>3
    <3>2. ASSUME NEW p \in DOMAIN booking, booking[p].key = key
          PROVE  p = place(x)
      <4>1. PICK y \in DOMAIN items : p = place(y)
        OBVIOUS
      <4>2. booking[p].key = <<items[y].room, items[y].date>>
        BY <1>3, <4>1, SMTT(30)
      <4>3. y = x
        BY <1>1, <3>2, <4>2
      <4>4. QED
        BY <4>1, <4>3
    <3>3. QED
      BY <3>1, <3>2
  <2>2. LastOf({place(x)}) = place(x)
    BY DEF LastOf
  <2>3. booking[place(x)].says = items[x].available
    BY <1>3
  <2> HIDE DEF place, booking
  <2>4. QED
    BY <2>1, <2>2, <2>3 DEF Told
<1>6. Told(minder, key).available = items[x].available
  <2>1. /\ DOMAIN minder = DOMAIN items
        /\ \A y \in DOMAIN items : minder[y].key = <<items[y].room, items[y].date>> /\ minder[y].says.available = items[y].available
    BY DEF SiteMinderAvailability
  <2> HIDE DEF minder
  <2>2. {y \in DOMAIN minder : minder[y].key = key} = {x}
    BY <1>1, <2>1
  <2>3. LastOf({x}) = x
    BY DEF LastOf
  <2>4. QED
    BY <2>1, <2>2, <2>3 DEF Told
<1>7. QED
  BY <1>1, <1>4, <1>5, <1>6

\* The last of some places that differ in their first number.
Column(A, D, d) == {y \in A \X D : y[2] = d}

LEMMA LastOfColumn ==
  ASSUME NEW n \in Nat, NEW A \in SUBSET (1..n), A # {}, NEW D \in SUBSET Nat, NEW d \in D
  PROVE  LastOf(Column(A, D, d)) \in Column(A, D, d)
<1> DEFINE about == {y \in A \X D : y[2] = d}
<1>1. PICK m \in A : \A k \in A : k <= m
  BY LastPlace
<1>2. <<m, d>> \in about
  OBVIOUS
<1>3. ASSUME NEW y \in about
      PROVE  y = <<m, d>> \/ Precedes(y, <<m, d>>)
  <2>1. PICK k \in A : y = <<k, d>>
    <3>1. y \in A \X D /\ y[2] = d
      OBVIOUS
    <3>2. y = <<y[1], y[2]>> /\ y[1] \in A
      BY <3>1
    <3>3. PICK k \in A : k = y[1]
      BY <3>2
    <3>4. QED
      BY <3>1, <3>2, <3>3
  <2>2. k <= m /\ k \in Nat /\ m \in Nat
    BY <1>1
  <2>3. CASE k = m
    BY <2>1, <2>3
  <2>4. CASE k < m
    <3>1. 1 \in DOMAIN y /\ y[1] < <<m, d>>[1] /\ 1..(1 - 1) = {}
      BY <2>1, <2>4
    <3>2. Precedes(y, <<m, d>>)
      BY <3>1 DEF Precedes
    <3>3. QED
      BY <3>2
  <2>5. QED
    BY <2>2, <2>3, <2>4
<1>4. \E x \in about : \A y \in about : y = x \/ Precedes(y, x)
  BY <1>2, <1>3
<1> HIDE DEF about
<1>5. LastOf(about) \in about
  BY <1>4 DEF LastOf
<1>6. QED
  BY <1>5 DEF about, Column

\* Booking.com ends up with the amount and the rules of every rate on every day; SiteMinder
\* with those of one of a room's rates.
LEMMA RatesRead ==
  ASSUME NEW plans, NEW n \in Nat, DOMAIN plans = 1..n, NEW days \in SUBSET Nat
  PROVE  RatesAreRead(plans, days)
<1>1. PICK rates, rules : rates = RateItems(plans, days) /\ rules = RestrictionItems(plans, days)
  OBVIOUS
<1>2. /\ DOMAIN rates = (DOMAIN plans) \X days /\ DOMAIN rules = (DOMAIN plans) \X days
      /\ \A y \in (DOMAIN plans) \X days :
           /\ rates[y].room = plans[y[1]].room /\ rates[y].rate = plans[y[1]].rate /\ rates[y].date = y[2]
           /\ rates[y].amount = plans[y[1]].amount
           /\ rules[y].room = plans[y[1]].room /\ rules[y].rate = plans[y[1]].rate /\ rules[y].date = y[2]
  BY <1>1 DEF RateItems, RestrictionItems
<1>3. ASSUME NEW x \in DOMAIN rates, \A p, q \in DOMAIN plans : plans[p].rate = plans[q].rate => p = q,
             NEW key, key = <<rates[x].room, rates[x].rate, x[2]>>
      PROVE  /\ Told(BookingComRates(rates), key) = rates[x].amount
             /\ Told(BookingComRestrictions(rules), key) = Rules(rules[x])
  <2>1. /\ DOMAIN BookingComRates(rates) = DOMAIN rates
        /\ \A y \in DOMAIN rates : /\ BookingComRates(rates)[y].key = <<rates[y].room, rates[y].rate, rates[y].date>>
                                   /\ BookingComRates(rates)[y].says = rates[y].amount
    BY DEF BookingComRates
  <2>2. /\ DOMAIN BookingComRestrictions(rules) = DOMAIN rules
        /\ \A y \in DOMAIN rules :
             /\ BookingComRestrictions(rules)[y].key = <<rules[y].room, rules[y].rate, rules[y].date>>
             /\ BookingComRestrictions(rules)[y].says = Rules(rules[y])
    BY DEF BookingComRestrictions
  <2>3. \A y \in (DOMAIN plans) \X days : y = <<y[1], y[2]>>
    OBVIOUS
  <2>4. \A y \in (DOMAIN plans) \X days : (plans[y[1]].rate = plans[x[1]].rate /\ y[2] = x[2]) => y = x
    BY <1>2, <1>3, <2>3
  <2>5. {y \in DOMAIN BookingComRates(rates) : BookingComRates(rates)[y].key = key} = {x}
    BY <1>2, <1>3, <2>1, <2>4
  <2>6. {y \in DOMAIN BookingComRestrictions(rules) : BookingComRestrictions(rules)[y].key = key} = {x}
    BY <1>2, <1>3, <2>2, <2>4
  <2>7. LastOf({x}) = x /\ {x} # {}
    BY DEF LastOf
  <2>8. x \in DOMAIN rules
    BY <1>2
  <2>9. Told(BookingComRates(rates), key) = BookingComRates(rates)[x].says
    BY <2>5, <2>7 DEF Told
  <2>10. Told(BookingComRestrictions(rules), key) = BookingComRestrictions(rules)[x].says
    BY <2>6, <2>7 DEF Told
  <2>11. QED
    BY <2>1, <2>2, <2>8, <2>9, <2>10
<1>4. ASSUME NEW x \in DOMAIN rates, NEW told, told = Told(SiteMinderRestrictions(rules), <<rates[x].room, x[2]>>)
      PROVE  /\ told.available = IF told.rules.closed THEN 0 ELSE 1
             /\ \E p \in DOMAIN plans : plans[p].room = rates[x].room /\ told.rules = Rules(rules[<<p, x[2]>>])
  <2>1. PICK room : room = plans[x[1]].room
    OBVIOUS
  <2>20. PICK a \in DOMAIN plans, d \in days : x = <<a, d>> /\ room = plans[a].room
    <3>1. x \in (DOMAIN plans) \X days
      BY <1>2
    <3>2. x = <<x[1], x[2]>> /\ x[1] \in DOMAIN plans /\ x[2] \in days
      BY <3>1
    <3>3. PICK a \in DOMAIN plans, d \in days : a = x[1] /\ d = x[2]
      BY <3>2
    <3>4. QED
      BY <2>1, <3>2, <3>3
  <2>2. PICK A \in SUBSET (1..n) : A = {p \in DOMAIN plans : plans[p].room = room}
    OBVIOUS
  <2>3. PICK about : about = {y \in A \X days : y[2] = d}
    OBVIOUS
  <2>4. LastOf(about) \in about
    <3>1. A # {}
      BY <2>20, <2>2
    <3>2. d \in days /\ A \in SUBSET (1..n) /\ days \in SUBSET Nat
      OBVIOUS
    <3>3. LastOf(Column(A, days, d)) \in Column(A, days, d)
      BY <3>1, <3>2, LastOfColumn
    <3>4. QED
      BY <2>3, <3>3 DEF Column
  <2>5. PICK p \in A : LastOf(about) = <<p, d>>
    <3>1. PICK z : z = LastOf(about)
      OBVIOUS
    <3>2. z \in A \X days /\ z[2] = d
      BY <2>3, <2>4, <3>1
    <3>3. z = <<z[1], z[2]>> /\ z[1] \in A
      BY <3>2
    <3>4. PICK k \in A : k = z[1]
      BY <3>3
    <3>5. QED
      BY <3>1, <3>2, <3>3, <3>4
  <2>6. PICK open : open = [y \in DOMAIN rules |-> [room |-> rules[y].room, date |-> rules[y].date,
                                                  available |-> IF rules[y].stopSell THEN 0 ELSE 1]]
    OBVIOUS
  <2>7. PICK said : said = SiteMinderAvailability(open, rules)
    OBVIOUS
  <2>8. SiteMinderRestrictions(rules) = said
    BY <2>6, <2>7 DEF SiteMinderRestrictions
  <2>9. PICK y : y = <<p, d>> /\ y \in DOMAIN rules /\ rules[y].room = room /\ rules[y].date = d
    BY <1>2, <2>2, <2>5
  <2>10. \A z \in DOMAIN rules : rules[z].room = room /\ rules[z].date = d <=> z \in about
    BY <1>2, <2>2, <2>3
  <2>11. {z \in DOMAIN rules : rules[z].room = open[y].room /\ rules[z].date = open[y].date} = about
    BY <1>2, <2>2, <2>3, <2>6, <2>9, <2>10
  <2>12. /\ DOMAIN said = DOMAIN rules
         /\ \A z \in DOMAIN rules : said[z].key = <<rules[z].room, rules[z].date>>
    BY <2>6, <2>7 DEF SiteMinderAvailability
  <2>13. said[y].says = [available |-> open[y].available, rules |-> Rules(rules[y])]
    <3>1. about # {} /\ LastOf(about) = y
      BY <2>4, <2>5, <2>9
    <3>2. y \in DOMAIN open
      BY <2>6, <2>9
    <3>3. QED
      BY <2>7, <2>11, <3>1, <3>2 DEF SiteMinderAvailability
  <2>14. {z \in DOMAIN said : said[z].key = <<room, d>>} = about
    BY <1>2, <2>2, <2>3, <2>10, <2>12
  <2>15. told = said[y].says
    <3>1. rates[x].room = room /\ x[2] = d
      BY <1>2, <2>20
    <3>2. about # {} /\ LastOf(about) = y
      BY <2>4, <2>5, <2>9
    <3>3. QED
      BY <1>4, <2>8, <2>14, <3>1, <3>2 DEF Told
  <2>16. told.available = (IF rules[y].stopSell THEN 0 ELSE 1) /\ told.rules = Rules(rules[y])
    BY <2>6, <2>9, <2>13, <2>15
  <2>17. Rules(rules[y]).closed = rules[y].stopSell
    BY DEF Rules
  <2>18. p \in DOMAIN plans /\ plans[p].room = rates[x].room /\ x[2] = d
    BY <1>2, <2>20, <2>2
  <2>19. QED
    BY <2>9, <2>16, <2>17, <2>18
<1>5. QED
  BY <1>1, <1>3, <1>4 DEF RatesAreRead

\* What a report says of one stay is what is understood of it, and one that does not speak
\* of one stay is never stored as new.
LEMMA ReportsUnderstood ==
  ASSUME NEW report \in ChannelReports, NEW link \in Mappings
  PROVE  ReportsAreUnderstood(report, link)
<1>1. PICK r, stays : r = BookingComReservation(report) /\ stays = report.stays /\ stays \in Seq(ReportedStays)
  BY DEF ChannelReports
<1>2. ASSUME Len(stays) = 1, NEW s, s = stays[1]
      PROVE  /\ <<r.room, r.rate, r.from, r.to>> = <<s.room, s.rate, s.from, s.to>>
             /\ r.adults = Adults(s.counts)
  <2>1. TheStay(report) = s
    BY <1>1, <1>2 DEF TheStay
  <2>2. QED
    BY <1>1, <2>1 DEF BookingComReservation
<1>3. ASSUME Len(stays) = 1, NEW counts, counts = stays[1].counts, Len(counts) > 1, NEW i \in DOMAIN counts,
             counts[i].kind = "adults", \A j \in DOMAIN counts : counts[j].kind = "adults" => j <= i
      PROVE  Adults(counts) = counts[i].count
  <2>1. counts \in Seq([kind : STRING, count : Nat])
    <3>1. 1 \in 1..Len(stays)
      BY <1>3
    <3>2. PICK s \in ReportedStays : s = stays[1]
      BY <1>1, <3>1
    <3>3. s.counts \in Seq([kind : STRING, count : Nat])
      BY DEF ReportedStays
    <3>4. QED
      BY <1>3, <3>2, <3>3
  <2>2. DOMAIN counts = 1..Len(counts) /\ Len(counts) \in Nat
    BY <2>1
  <2>3. PICK G : G = {k \in DOMAIN counts : counts[k].kind = "adults"}
    OBVIOUS
  <2>8. \A k \in G : k \in Nat
    BY <2>2, <2>3
  <2>4. i \in G /\ i \in Nat /\ \A j \in G : j <= i
    BY <1>3, <2>2, <2>3
  <2>5. Max(G) = i
    <3>1. \E x \in G : \A y \in G : x >= y
      BY <2>4, <2>8
    <3>2. Max(G) \in G /\ \A y \in G : Max(G) >= y
      BY <3>1 DEF Max
    <3>3. Max(G) \in Nat /\ Max(G) <= i /\ Max(G) >= i
      BY <2>4, <2>8, <3>2
    <3>4. QED
      BY <2>4, <3>3
  <2>6. ~(Len(counts) < 2)
    BY <1>3, <2>2
  <2>7. QED
    BY <2>3, <2>4, <2>5, <2>6 DEF Adults
<1>4. ASSUME Len(stays) # 1, NEW nobody, nobody = [id \in {} |-> {}]
      PROVE  ~ProcessInbound(nobody, link, r).ok
  <2>1. r.room = "UNKNOWN"
    BY <1>1, <1>4 DEF TheStay, BookingComReservation
  <2>2. ~Mapped(link, r)
    BY <2>1 DEF Mapped, Mappings
  <2>3. r.id \notin DOMAIN nobody
    BY <1>4
  <2>4. ProcessInbound(nobody, link, r) = Refused(nobody)
    BY <2>2, <2>3 DEF ProcessInbound, Cancellation, NewReservation
  <2>5. QED
    BY <2>4 DEF Refused
<1>5. QED
  BY <1>1, <1>2, <1>3, <1>4 DEF ReportsAreUnderstood

\* Books: of each id, a reservation.
IsRow(x) == x = [room |-> x.room, from |-> x.from, to |-> x.to, adults |-> x.adults, status |-> x.status]

IsBooks(b) == b = [id \in DOMAIN b |-> b[id]] /\ \A id \in DOMAIN b : IsRow(b[id])

\* What one report r does to the books b; one is what comes of it.
StepOf(b, link, r, one) ==
  /\ IsBooks(one.books) /\ DOMAIN b \subseteq DOMAIN one.books
  /\ DOMAIN one.books = DOMAIN b \cup (IF one.confirm THEN {r.id} ELSE {})
  /\ one.confirm => r.id \notin DOMAIN b
  /\ one.ok => r.id \in DOMAIN one.books
  /\ ~one.ok => one.books = b
  /\ \A id \in DOMAIN b : b[id].status = "cancelled" => one.books[id].status = "cancelled"
  /\ \A id \in DOMAIN b : (r.id # id \/ r.status = "new") => one.books[id] = b[id]
  /\ (r.status = "new" /\ r.id \notin DOMAIN b /\ Mapped(link, r)) =>
        r.id \in DOMAIN one.books /\ one.books[r.id].adults = r.adults
  /\ (r.status = "new" /\ ~Mapped(link, r)) => one.books = b

LEMMA RefusedStep ==
  ASSUME NEW b, IsBooks(b), NEW link, NEW r, r.status = "new" => (r.id \in DOMAIN b \/ ~Mapped(link, r))
  PROVE  StepOf(b, link, r, Refused(b))
<1>1. PICK one : one = Refused(b)
  OBVIOUS
<1>2. one.books = b /\ one.ok = FALSE /\ one.confirm = FALSE
  BY <1>1 DEF Refused
<1>3. StepOf(b, link, r, one)
  BY <1>2 DEF StepOf
<1>4. QED
  BY <1>1, <1>3

LEMMA StoredStep ==
  ASSUME NEW b, IsBooks(b), NEW link, NEW r, NEW mark, NEW confirm \in BOOLEAN, Mapped(link, r),
         confirm <=> r.id \notin DOMAIN b,
         r.status = "new" => r.id \notin DOMAIN b,
         r.id \in DOMAIN b => mark = b[r.id].status
  PROVE  StepOf(b, link, r, Stored(b, r, mark, confirm))
<1>1. PICK one : one = Stored(b, r, mark, confirm)
  OBVIOUS
<1>2. PICK entry : entry = [room |-> r.room, from |-> r.from, to |-> r.to, adults |-> r.adults, status |-> mark]
  OBVIOUS
<1>3. /\ one.books = [id \in DOMAIN b \cup {r.id} |-> IF id = r.id THEN entry ELSE b[id]]
      /\ one.ok = TRUE /\ one.confirm = confirm
  BY <1>1, <1>2 DEF Stored
<1>4. IsRow(entry) /\ entry.status = mark /\ entry.adults = r.adults
  BY <1>2 DEF IsRow
<1>5. PICK c : c = one.books
  OBVIOUS
<1>6. /\ DOMAIN c = DOMAIN b \cup {r.id} /\ c[r.id] = entry
      /\ \A id \in DOMAIN b : id # r.id => c[id] = b[id]
      /\ c = [id \in DOMAIN c |-> c[id]]
  BY <1>3, <1>5
<1>7. IsBooks(c)
  BY <1>4, <1>6 DEF IsBooks
<1>8. \A id \in DOMAIN b : b[id].status = "cancelled" => c[id].status = "cancelled"
  BY <1>4, <1>6
<1>9. \A id \in DOMAIN b : (r.id # id \/ r.status = "new") => c[id] = b[id]
  BY <1>6
<1>10. StepOf(b, link, r, one)
  <2>1. DOMAIN c = DOMAIN b \cup (IF one.confirm THEN {r.id} ELSE {})
    BY <1>3, <1>6
  <2>2. QED
    BY <1>3, <1>4, <1>5, <1>6, <1>7, <1>8, <1>9, <2>1 DEF StepOf
<1>11. QED
  BY <1>1, <1>10

LEMMA CancellationStep ==
  ASSUME NEW b, IsBooks(b), NEW link, NEW r, r.status # "new"
  PROVE  /\ StepOf(b, link, r, Cancellation(b, r))
         /\ Cancellation(b, r).ok => r.id \in DOMAIN b /\ Cancellation(b, r).books[r.id].status = "cancelled"
<1>1. CASE r.id \notin DOMAIN b
  <2>1. Cancellation(b, r) = Refused(b)
    BY <1>1 DEF Cancellation
  <2>2. ~Refused(b).ok
    BY DEF Refused
  <2>3. QED
    BY <2>1, <2>2, RefusedStep
<1>2. CASE r.id \in DOMAIN b
  <2>1. PICK one : one = Cancellation(b, r)
    OBVIOUS
  <2>2. PICK c : c = [b EXCEPT ![r.id].status = "cancelled"]
    OBVIOUS
  <2>3. one.books = c /\ one.ok = TRUE /\ one.confirm = FALSE
    BY <1>2, <2>1, <2>2 DEF Cancellation
  <2>4. PICK x, y : x = b[r.id] /\ y = [x EXCEPT !.status = "cancelled"]
    OBVIOUS
  <2>5. c = [b EXCEPT ![r.id] = y]
    BY <2>2, <2>4
  <2>6. IsRow(x)
    BY <1>2, <2>4 DEF IsBooks
  <2>7. y = [room |-> x.room, from |-> x.from, to |-> x.to, adults |-> x.adults, status |-> "cancelled"]
    BY <2>4, <2>6 DEF IsRow
  <2>8. IsRow(y) /\ y.status = "cancelled"
    BY <2>7 DEF IsRow
  <2>9. /\ DOMAIN c = DOMAIN b /\ c[r.id] = y /\ c = [id \in DOMAIN c |-> c[id]]
        /\ \A id \in DOMAIN b : id # r.id => c[id] = b[id]
    BY <1>2, <2>5 DEF IsBooks
  <2>10. IsBooks(c)
    BY <2>8, <2>9 DEF IsBooks
  <2>11. \A id \in DOMAIN b : b[id].status = "cancelled" => c[id].status = "cancelled"
    BY <2>8, <2>9
  <2>12. StepOf(b, link, r, one)
    BY <1>2, <2>3, <2>9, <2>10, <2>11 DEF StepOf
  <2>13. QED
    BY <1>2, <2>1, <2>3, <2>8, <2>9, <2>12
<1>3. QED
  BY <1>1, <1>2

\* What a report does to the books, whatever it says.
LEMMA OneReport ==
  ASSUME NEW b, IsBooks(b), NEW link, NEW r
  PROVE  StepOf(b, link, r, ProcessInbound(b, link, r))
<1>1. CASE r.status = "cancelled"
  BY <1>1, CancellationStep DEF ProcessInbound
<1>2. CASE r.status = "modified" /\ r.id \in DOMAIN b
  <2>1. ProcessInbound(b, link, r) = Modification(b, link, r)
    BY <1>2 DEF ProcessInbound
  <2>2. CASE Mapped(link, r)
    <3>1. ProcessInbound(b, link, r) = Stored(b, r, b[r.id].status, FALSE)
      BY <2>1, <2>2 DEF Modification
    <3>2. StepOf(b, link, r, Stored(b, r, b[r.id].status, FALSE))
      BY <1>2, <2>2, StoredStep
    <3>3. QED
      BY <3>1, <3>2
  <2>3. CASE ~Mapped(link, r)
    <3>1. ProcessInbound(b, link, r) = Refused(b)
      BY <2>1, <2>3 DEF Modification
    <3>2. QED
      BY <1>2, <3>1, RefusedStep
  <2>4. QED
    BY <2>2, <2>3
<1>3. CASE r.status # "cancelled" /\ ~(r.status = "modified" /\ r.id \in DOMAIN b)
  <2>1. CASE r.id \in DOMAIN b
    <3>1. ProcessInbound(b, link, r) = Refused(b)
      BY <1>3, <2>1 DEF ProcessInbound
    <3>2. QED
      BY <2>1, <3>1, RefusedStep
  <2>2. CASE r.id \notin DOMAIN b
    <3>1. ProcessInbound(b, link, r) = NewReservation(b, link, r)
      BY <1>3, <2>2 DEF ProcessInbound
    <3>2. CASE Mapped(link, r)
      <4>1. ProcessInbound(b, link, r) = Stored(b, r, "confirmed", TRUE)
        BY <3>1, <3>2 DEF NewReservation
      <4>2. StepOf(b, link, r, Stored(b, r, "confirmed", TRUE))
        BY <2>2, <3>2, StoredStep
      <4>3. QED
        BY <4>1, <4>2
    <3>3. CASE ~Mapped(link, r)
      <4>1. ProcessInbound(b, link, r) = Refused(b)
        BY <3>1, <3>3 DEF NewReservation
      <4>2. QED
        BY <3>3, <4>1, RefusedStep
    <3>4. QED
      BY <3>2, <3>3
  <2>3. QED
    BY <2>1, <2>2
<1>4. QED
  BY <1>1, <1>2, <1>3

\* after: the books b after each of the n reports of rs.
BooksOf(after, b, link, rs, n) ==
  /\ after[0] = b /\ \A k \in 0..n : IsBooks(after[k])
  /\ \A k \in 1..n : after[k] = ProcessInbound(after[k - 1], link, rs[k]).books
  /\ \A k \in 1..n : StepOf(after[k - 1], link, rs[k], ProcessInbound(after[k - 1], link, rs[k]))

LEMMA BooksFollow ==
  ASSUME NEW b, IsBooks(b), NEW link, NEW rs, NEW n \in Nat, Len(rs) = n
  PROVE  BooksOf(BooksAfter(b, link, rs), b, link, rs, n)
<1> DEFINE next(g, k) == IF k = 0 THEN b ELSE ProcessInbound(g[k - 1], link, rs[k]).books
           F(g) == [k \in 0..n |-> next(g, k)]
           after == CHOOSE g : g = F(g)
           T == {m \in Nat : \E g : g = [k \in 0..m |-> next(g, k)]}
<1>1. BooksAfter(b, link, rs) = after
  BY DEF BooksAfter
<1>2. 0 \in T
  <2>1. PICK g : g = [k \in 0..0 |-> b]
    OBVIOUS
  <2>2. g = [k \in 0..0 |-> next(g, k)]
    BY <2>1
  <2>3. QED
    BY <2>2
<1>3. ASSUME NEW m \in Nat, m \in T
      PROVE  m + 1 \in T
  <2>1. PICK g : g = [k \in 0..m |-> next(g, k)]
    BY <1>3
  <2>2. PICK h : h = [k \in 0..(m + 1) |-> IF k = m + 1 THEN next(g, m + 1) ELSE g[k]]
    OBVIOUS
  <2>3. \A k \in 0..m : h[k] = g[k] /\ g[k] = next(g, k)
    <3> HIDE DEF next
    <3>1. QED
      BY <2>1, <2>2
  <2>4. h[m + 1] = next(g, m + 1)
    <3> HIDE DEF next
    <3>1. QED
      BY <2>2
  <2>5. ASSUME NEW k \in 0..(m + 1)
        PROVE  h[k] = next(h, k)
    <3>1. k # 0 => k - 1 \in 0..m
      OBVIOUS
    <3>2. next(h, k) = next(g, k)
      BY <2>3, <3>1
    <3>3. CASE k = m + 1
      BY <2>4, <3>2, <3>3
    <3>4. CASE k # m + 1
      <4>1. k \in 0..m
        BY <3>4
      <4> HIDE DEF next
      <4>2. QED
        BY <2>3, <3>2, <4>1
    <3>5. QED
      BY <3>3, <3>4
  <2>6. h = [k \in 0..(m + 1) |-> next(h, k)]
    <3> HIDE DEF next
    <3>1. QED
      BY <2>2, <2>5
  <2> HIDE DEF next
  <2>7. QED
    BY <2>6
<1>4. n \in T
  <2> HIDE DEF T
  <2>1. QED
    BY <1>2, <1>3, CountingUp
<1>5. after = F(after)
  <2>1. PICK g : g = F(g)
    BY <1>4
  <2> HIDE DEF F
  <2>2. QED
    BY <2>1
<1> HIDE DEF after
<1>6. after[0] = b /\ \A k \in 1..n : after[k] = ProcessInbound(after[k - 1], link, rs[k]).books
  <2>1. \A k \in 0..n : after[k] = next(after, k)
    <3> HIDE DEF next
    <3>1. QED
      BY <1>5
  <2>2. QED
    BY <2>1
<1> DEFINE U == {k \in Nat : k <= n => IsBooks(after[k])}
<1>7. 0 \in U
  BY <1>6
<1>8. ASSUME NEW k \in Nat, k \in U
      PROVE  k + 1 \in U
  <2> SUFFICES ASSUME k + 1 <= n
               PROVE  IsBooks(after[k + 1])
    OBVIOUS
  <2>1. IsBooks(after[k])
    BY <1>8
  <2>2. IsBooks(ProcessInbound(after[k], link, rs[k + 1]).books)
    BY <2>1, OneReport DEF StepOf
  <2>3. k + 1 \in 1..n /\ (k + 1) - 1 = k
    OBVIOUS
  <2>4. QED
    BY <1>6, <2>2, <2>3
<1>9. \A k \in 0..n : IsBooks(after[k])
  <2>1. \A k \in Nat : k \in U
    <3> HIDE DEF U
    <3>1. QED
      BY <1>7, <1>8, CountingUp
  <2>2. QED
    BY <2>1
<1>10. \A k \in 1..n : StepOf(after[k - 1], link, rs[k], ProcessInbound(after[k - 1], link, rs[k]))
  BY <1>9, OneReport
<1>11. QED
  BY <1>1, <1>6, <1>9, <1>10 DEF BooksOf

\* What the first k reports leave of the books b.
Confirmed(after, link, rs, k) == {m \in 1..k : ProcessInbound(after[m - 1], link, rs[m]).confirm}

KeptBy(after, b, link, rs, n, k) ==
  /\ \A j \in 0..k : DOMAIN after[j] \subseteq DOMAIN after[k]
  /\ DOMAIN after[k] = DOMAIN b \cup {rs[m].id : m \in Confirmed(after, link, rs, k)}
  /\ \A id \in DOMAIN b : b[id].status = "cancelled" => after[k][id].status = "cancelled"
  /\ \A id \in DOMAIN b : (\A m \in 1..n : rs[m].id = id => rs[m].status = "new") => after[k][id] = b[id]
  /\ (\A m \in 1..k : ~ProcessInbound(after[m - 1], link, rs[m]).ok) => after[k] = b

LEMMA BooksKept ==
  ASSUME NEW after, NEW b, NEW link, NEW rs, NEW n \in Nat, BooksOf(after, b, link, rs, n)
  PROVE  \A k \in 0..n : KeptBy(after, b, link, rs, n, k)
<1> DEFINE T == {k \in Nat : k <= n => KeptBy(after, b, link, rs, n, k)}
<1>1. 0 \in T
  <2>1. after[0] = b /\ 1..0 = {} /\ 0..0 = {0}
    BY DEF BooksOf
  <2>2. Confirmed(after, link, rs, 0) = {}
    BY <2>1 DEF Confirmed
  <2>3. QED
    BY <2>1, <2>2 DEF KeptBy
<1>2. ASSUME NEW k \in Nat, k \in T
      PROVE  k + 1 \in T
  <2> SUFFICES ASSUME k + 1 <= n
               PROVE  KeptBy(after, b, link, rs, n, k + 1)
    OBVIOUS
  <2>1. KeptBy(after, b, link, rs, n, k)
    BY <1>2
  <2>2. PICK x, y, r, one : x = after[k] /\ y = after[k + 1] /\ r = rs[k + 1] /\ one = ProcessInbound(x, link, r)
    OBVIOUS
  <2>3. k + 1 \in 1..n /\ (k + 1) - 1 = k
    OBVIOUS
  <2>4. StepOf(x, link, r, one) /\ y = one.books
    BY <2>2, <2>3 DEF BooksOf
  <2>5. DOMAIN x \subseteq DOMAIN y
    BY <2>4 DEF StepOf
  <2>6. \A j \in 0..(k + 1) : DOMAIN after[j] \subseteq DOMAIN y
    <3>1. \A j \in 0..(k + 1) : j = k + 1 \/ j \in 0..k
      OBVIOUS
    <3>2. \A j \in 0..k : DOMAIN after[j] \subseteq DOMAIN x
      BY <2>1, <2>2 DEF KeptBy
    <3>3. QED
      BY <2>2, <2>5, <3>1, <3>2
  <2>7. DOMAIN y = DOMAIN b \cup {rs[m].id : m \in Confirmed(after, link, rs, k + 1)}
    <3>1. DOMAIN x = DOMAIN b \cup {rs[m].id : m \in Confirmed(after, link, rs, k)}
      BY <2>1, <2>2 DEF KeptBy
    <3>2. DOMAIN y = DOMAIN x \cup (IF one.confirm THEN {r.id} ELSE {})
      BY <2>4 DEF StepOf
    <3>3. Confirmed(after, link, rs, k + 1) = Confirmed(after, link, rs, k) \cup (IF one.confirm THEN {k + 1} ELSE {})
      <4>1. 1..(k + 1) = (1..k) \cup {k + 1}
        OBVIOUS
      <4>2. ProcessInbound(after[(k + 1) - 1], link, rs[k + 1]) = one
        BY <2>2, <2>3
      <4>3. QED
        BY <4>1, <4>2 DEF Confirmed
    <3>4. CASE one.confirm
      BY <2>2, <3>1, <3>2, <3>3, <3>4
    <3>5. CASE ~one.confirm
      BY <3>1, <3>2, <3>3, <3>5
    <3>6. QED
      BY <3>4, <3>5
  <2>8. DOMAIN b \subseteq DOMAIN x
    BY <2>1, <2>2 DEF KeptBy
  <2>9. ASSUME NEW id \in DOMAIN b, b[id].status = "cancelled"
        PROVE  y[id].status = "cancelled"
    <3>1. x[id].status = "cancelled" /\ id \in DOMAIN x
      BY <2>1, <2>2, <2>8, <2>9 DEF KeptBy
    <3>2. QED
      BY <2>4, <3>1 DEF StepOf
  <2>10. ASSUME NEW id \in DOMAIN b, \A m \in 1..n : rs[m].id = id => rs[m].status = "new"
         PROVE  y[id] = b[id]
    <3>1. x[id] = b[id] /\ id \in DOMAIN x
      BY <2>1, <2>2, <2>8, <2>10 DEF KeptBy
    <3>2. r.id # id \/ r.status = "new"
      BY <2>2, <2>3, <2>10
    <3>3. QED
      BY <2>4, <3>1, <3>2 DEF StepOf
  <2>11. ASSUME \A m \in 1..(k + 1) : ~ProcessInbound(after[m - 1], link, rs[m]).ok
         PROVE  y = b
    <3>1. \A m \in 1..k : ~ProcessInbound(after[m - 1], link, rs[m]).ok
      BY <2>11
    <3>2. x = b
      BY <2>1, <2>2, <3>1 DEF KeptBy
    <3>3. ~one.ok
      <4>1. k + 1 \in 1..(k + 1)
        OBVIOUS
      <4>2. QED
        BY <2>2, <2>3, <2>11, <4>1
    <3>4. QED
      BY <2>4, <3>2, <3>3 DEF StepOf
  <2>12. QED
    BY <2>2, <2>6, <2>7, <2>9, <2>10, <2>11 DEF KeptBy
<1>3. \A k \in Nat : k \in T
  <2> HIDE DEF T
  <2>1. QED
    BY <1>1, <1>2, CountingUp
<1>4. QED
  BY <1>3

\* A booking that is only reported as new is stored as the first report whose codes are
\* mapped says.
About(link, rs, id, m) == rs[m].id = id /\ Mapped(link, rs[m])

FirstStored(after, link, rs, id, k) ==
  /\ id \in DOMAIN after[k] =>
       \E m \in 1..k : /\ About(link, rs, id, m) /\ after[k][id].adults = rs[m].adults
                      /\ \A j \in 1..(m - 1) : ~About(link, rs, id, j)
  /\ id \notin DOMAIN after[k] => \A j \in 1..k : ~About(link, rs, id, j)

LEMMA StoredAsFirstReported ==
  ASSUME NEW after, NEW b, DOMAIN b = {}, NEW link, NEW rs, NEW n \in Nat, BooksOf(after, b, link, rs, n),
         NEW id, \A m \in 1..n : rs[m].id = id => rs[m].status = "new"
  PROVE  \A k \in 0..n : FirstStored(after, link, rs, id, k)
<1> DEFINE T == {k \in Nat : k <= n => FirstStored(after, link, rs, id, k)}
<1>1. 0 \in T
  <2>1. DOMAIN after[0] = {} /\ 1..0 = {}
    BY DEF BooksOf
  <2>2. QED
    BY <2>1 DEF FirstStored
<1>2. ASSUME NEW k \in Nat, k \in T
      PROVE  k + 1 \in T
  <2> SUFFICES ASSUME k + 1 <= n
               PROVE  FirstStored(after, link, rs, id, k + 1)
    OBVIOUS
  <2>1. FirstStored(after, link, rs, id, k)
    BY <1>2
  <2>2. PICK x, y, r, one : x = after[k] /\ y = after[k + 1] /\ r = rs[k + 1] /\ one = ProcessInbound(x, link, r)
    OBVIOUS
  <2>3. k + 1 \in 1..n /\ (k + 1) - 1 = k /\ 1..(k + 1) = (1..k) \cup {k + 1}
    OBVIOUS
  <2>4. StepOf(x, link, r, one) /\ y = one.books
    BY <2>2, <2>3 DEF BooksOf
  <2>5. r.id = id => r.status = "new"
    BY <2>2, <2>3
  <2>6. CASE id \in DOMAIN x
    <3>1. PICK m \in 1..k : /\ About(link, rs, id, m) /\ x[id].adults = rs[m].adults
                            /\ \A j \in 1..(m - 1) : ~About(link, rs, id, j)
      BY <2>1, <2>2, <2>6 DEF FirstStored
    <3>2. id \in DOMAIN y /\ y[id] = x[id]
      BY <2>4, <2>5, <2>6 DEF StepOf
    <3>3. m \in 1..(k + 1)
      BY <2>3
    <3>4. QED
      BY <2>2, <3>1, <3>2, <3>3 DEF FirstStored
  <2>7. CASE id \notin DOMAIN x
    <3>1. \A j \in 1..k : ~About(link, rs, id, j)
      BY <2>1, <2>2, <2>7 DEF FirstStored
    <3>2. CASE About(link, rs, id, k + 1)
      <4>1. r.id = id /\ Mapped(link, r) /\ r.status = "new"
        BY <2>2, <2>5, <3>2 DEF About
      <4>2. id \in DOMAIN y /\ y[id].adults = r.adults
        BY <2>4, <2>7, <4>1 DEF StepOf
      <4>3. k + 1 \in 1..(k + 1)
        OBVIOUS
      <4>4. QED
        BY <2>2, <2>3, <3>1, <3>2, <4>2, <4>3 DEF FirstStored
    <3>3. CASE ~About(link, rs, id, k + 1)
      <4>1. id \notin DOMAIN y
        <5>1. r.id = id => ~Mapped(link, r)
          BY <2>2, <3>3 DEF About
        <5>2. DOMAIN y = DOMAIN x \cup (IF one.confirm THEN {r.id} ELSE {})
          BY <2>4 DEF StepOf
        <5>3. r.id = id => y = x
          BY <2>4, <2>5, <5>1 DEF StepOf
        <5>4. CASE r.id = id
          BY <2>7, <5>3, <5>4
        <5>5. CASE r.id # id
          BY <2>7, <5>2, <5>5
        <5>6. QED
          BY <5>4, <5>5
      <4>2. QED
        BY <2>2, <2>3, <3>1, <3>3, <4>1 DEF FirstStored
    <3>4. QED
      BY <3>2, <3>3
  <2>8. QED
    BY <2>6, <2>7
<1>3. \A k \in Nat : k \in T
  <2> HIDE DEF T
  <2>1. QED
    BY <1>1, <1>2, CountingUp
<1>4. QED
  BY <1>3

\* A list of reports, understood one by one.
Understood(reports) == [i \in DOMAIN reports |-> BookingComReservation(reports[i])]

LEMMA UnderstoodOneByOne ==
  ASSUME NEW reports \in Seq(ChannelReports)
  PROVE  \E n \in Nat : /\ DOMAIN reports = 1..n /\ Len(Understood(reports)) = n /\ DOMAIN Understood(reports) = 1..n
                        /\ \A m \in 1..n : /\ Understood(reports)[m] = BookingComReservation(reports[m])
                                           /\ Understood(reports)[m].id = reports[m].id
                                           /\ reports[m].status = "Commit" => Understood(reports)[m].status = "new"
<1>1. PICK n \in Nat : DOMAIN reports = 1..n /\ \A m \in 1..n : reports[m] \in ChannelReports
  <2>1. DOMAIN reports = 1..Len(reports) /\ Len(reports) \in Nat /\ \A m \in 1..Len(reports) : reports[m] \in ChannelReports
    OBVIOUS
  <2>2. QED
    BY <2>1
<1>2. PICK rs, S : rs = Understood(reports) /\ S = {BookingComReservation(x) : x \in ChannelReports}
  OBVIOUS
<1>3. DOMAIN rs = 1..n /\ \A m \in 1..n : rs[m] = BookingComReservation(reports[m])
  BY <1>1, <1>2 DEF Understood
<1>4. Len(rs) = n
  <2>1. rs \in [1..n -> S]
    BY <1>1, <1>2 DEF Understood
  <2>2. rs \in Seq(S)
    BY <2>1
  <2>3. DOMAIN rs = 1..Len(rs) /\ Len(rs) \in Nat
    BY <2>2
  <2>4. QED
    BY <1>3, <2>3
<1>5. ASSUME NEW m \in 1..n
      PROVE  rs[m].id = reports[m].id /\ (reports[m].status = "Commit" => rs[m].status = "new")
  <2>1. PICK x, y : x = reports[m] /\ y = rs[m]
    OBVIOUS
  <2>2. y = BookingComReservation(x)
    BY <1>3, <2>1
  <2>3. /\ y.id = x.id
        /\ y.status = CASE x.status = "Cancel" -> "cancelled" [] x.status = "Modify" -> "modified" [] OTHER -> "new"
    BY <2>2 DEF BookingComReservation
  <2>4. x.status = "Commit" => y.status = "new"
    BY <2>3
  <2>5. QED
    BY <2>1, <2>3, <2>4
<1>6. QED
  BY <1>1, <1>2, <1>3, <1>4, <1>5

\* What is processed of a list: the books, the places and the ids.
LEMMA ProcessedIs ==
  ASSUME NEW b, NEW link, NEW rs, NEW n \in Nat, Len(rs) = n, DOMAIN rs = 1..n, NEW after, after = BooksAfter(b, link, rs)
  PROVE  /\ Processed(b, link, rs).books = after[n]
         /\ Processed(b, link, rs).done = {m \in 1..n : ProcessInbound(after[m - 1], link, rs[m]).ok}
         /\ Processed(b, link, rs).confirm = {rs[m].id : m \in Confirmed(after, link, rs, n)}
BY DEF Processed, Confirmed

\* A channel that reports the same again books nothing again.
LEMMA ReportedTwiceBooksOnce ==
  ASSUME NEW reports \in Seq(ChannelReports), NEW link
  PROVE  ReportedTwice(reports, link)
<1>1. PICK rs : rs = Understood(reports)
  OBVIOUS
<1>2. PICK n \in Nat : /\ DOMAIN reports = 1..n /\ Len(rs) = n /\ DOMAIN rs = 1..n
                       /\ \A m \in 1..n : /\ rs[m] = BookingComReservation(reports[m]) /\ rs[m].id = reports[m].id
                                          /\ reports[m].status = "Commit" => rs[m].status = "new"
  BY <1>1, UnderstoodOneByOne
<1>3. PICK nobody : nobody = [id \in {} |-> {}]
  OBVIOUS
<1>4. PICK a, c, x : a = BooksAfter(nobody, link, rs) /\ x = a[n] /\ c = BooksAfter(x, link, rs)
  OBVIOUS
<1>5. IsBooks(nobody) /\ DOMAIN nobody = {}
  BY <1>3 DEF IsBooks
<1>6. BooksOf(a, nobody, link, rs, n)
  BY <1>2, <1>4, <1>5, BooksFollow
<1>7. IsBooks(x)
  BY <1>4, <1>6 DEF BooksOf
<1>8. BooksOf(c, x, link, rs, n)
  BY <1>2, <1>4, <1>7, BooksFollow
<1>9. \A k \in 0..n : KeptBy(a, nobody, link, rs, n, k) /\ KeptBy(c, x, link, rs, n, k)
  BY <1>6, <1>8, BooksKept
<1>10. PICK once, twice : once = Pull(nobody, link, reports, ParseOta("success"))
                          /\ twice = Pull(once.books, link, reports, ParseOta("success"))
  OBVIOUS
<1>11. \A b : Pull(b, link, reports, ParseOta("success")) = Processed(b, link, rs)
  BY <1>1 DEF Pull, ParseOta, Understood
<1>12. once.books = x /\ once.confirm = {rs[m].id : m \in Confirmed(a, link, rs, n)}
  BY <1>2, <1>4, <1>10, <1>11, ProcessedIs, SMTT(30)
<1>13. twice.books = c[n] /\ twice.confirm = {rs[m].id : m \in Confirmed(c, link, rs, n)}
  BY <1>2, <1>4, <1>10, <1>11, <1>12, ProcessedIs, SMTT(30)
<1>14. once.confirm = DOMAIN x
  BY <1>4, <1>5, <1>9, <1>12 DEF KeptBy
<1>15. twice.confirm \cap once.confirm = {}
  <2>1. ASSUME NEW m \in Confirmed(c, link, rs, n)
        PROVE  rs[m].id \notin DOMAIN x
    <3>1. m \in 1..n /\ m - 1 \in 0..n /\ 0 \in 0..(m - 1)
      BY DEF Confirmed
    <3>2. StepOf(c[m - 1], link, rs[m], ProcessInbound(c[m - 1], link, rs[m]))
      BY <1>8, <3>1 DEF BooksOf
    <3>3. rs[m].id \notin DOMAIN c[m - 1]
      BY <3>2 DEF Confirmed, StepOf
    <3>4. DOMAIN c[0] \subseteq DOMAIN c[m - 1] /\ c[0] = x
      BY <1>8, <1>9, <3>1 DEF KeptBy, BooksOf
    <3>5. QED
      BY <3>3, <3>4
  <2>2. QED
    BY <1>13, <1>14, <2>1
<1>16. DOMAIN x \subseteq DOMAIN c[n]
  BY <1>9 DEF KeptBy
<1>17. ASSUME NEW id \in DOMAIN x, x[id].status = "cancelled"
       PROVE  c[n][id].status = "cancelled"
  BY <1>9, <1>17 DEF KeptBy
<1>18. ASSUME NEW id \in DOMAIN x, \A i \in DOMAIN reports : reports[i].id = id => reports[i].status = "Commit",
              NEW first, first = Min({i \in DOMAIN reports : reports[i].id = id /\ Mapped(link, BookingComReservation(reports[i]))})
       PROVE  c[n][id] = x[id] /\ x[id].adults = BookingComReservation(reports[first]).adults
  <2>1. \A m \in 1..n : rs[m].id = id => rs[m].status = "new"
    BY <1>2, <1>18
  <2>2. c[n][id] = x[id]
    BY <1>9, <2>1 DEF KeptBy
  <2>3. FirstStored(a, link, rs, id, n)
    <3>1. n \in 0..n
      OBVIOUS
    <3>2. QED
      BY <1>5, <1>6, <2>1, <3>1, StoredAsFirstReported
  <2>4. PICK m \in 1..n : /\ About(link, rs, id, m) /\ x[id].adults = rs[m].adults
                          /\ \A j \in 1..(m - 1) : ~About(link, rs, id, j)
    BY <1>4, <2>3 DEF FirstStored
  <2>5. PICK G \in SUBSET (1..n) : G = {i \in 1..n : About(link, rs, id, i)}
    OBVIOUS
  <2>6. {i \in DOMAIN reports : reports[i].id = id /\ Mapped(link, BookingComReservation(reports[i]))} = G
    BY <1>2, <2>5 DEF About
  <2>7. Min(G) = m
    <3>1. m \in G
      BY <2>4, <2>5
    <3>2. Min(G) \in G /\ \A k \in G : Min(G) <= k
      BY <3>1, LeastOf
    <3>3. PICK k \in 1..n : k = Min(G) /\ k <= m /\ About(link, rs, id, k)
      BY <2>5, <3>1, <3>2
    <3>4. ~(k < m)
      BY <2>4, <3>3
    <3>5. QED
      BY <3>3, <3>4
  <2>8. QED
    BY <1>2, <1>18, <2>2, <2>4, <2>6, <2>7
<1>19. QED
  <2>1. once = Pull(nobody, link, reports, ParseOta("success")) /\ twice = Pull(once.books, link, reports, ParseOta("success"))
        /\ once.books = x /\ twice.books = c[n]
    BY <1>10, <1>12, <1>13
  <2>2. \A id \in DOMAIN x :
          /\ x[id].status = "cancelled" => c[n][id].status = "cancelled"
          /\ (\A i \in DOMAIN reports : reports[i].id = id => reports[i].status = "Commit") =>
                LET first == Min({i \in DOMAIN reports :
                                    reports[i].id = id /\ Mapped(link, BookingComReservation(reports[i]))})
                IN c[n][id] = x[id] /\ x[id].adults = BookingComReservation(reports[first]).adults
    BY <1>17, <1>18
  <2>3. QED
    BY <1>3, <1>14, <1>15, <1>16, <2>1, <2>2, SMTT(30) DEF ReportedTwice

\* A channel that pushes a report, or a cancellation, is told what has become of it.
LEMMA PushesAnswered ==
  ASSUME NEW reports \in Seq(ChannelReports), NEW link, NEW body, NEW id
  PROVE  PushesAreAnswered(reports, link, body, id)
<1>1. PICK rs : rs = Understood(reports)
  OBVIOUS
<1>2. PICK n \in Nat : /\ DOMAIN reports = 1..n /\ Len(rs) = n /\ DOMAIN rs = 1..n
                       /\ \A m \in 1..n : rs[m] = BookingComReservation(reports[m]) /\ rs[m].id = reports[m].id
  BY <1>1, UnderstoodOneByOne
<1>3. PICK empty : empty = [x \in {} |-> {}]
  OBVIOUS
<1>4. PICK a : a = BooksAfter(empty, link, rs)
  OBVIOUS
<1>5. IsBooks(empty) /\ DOMAIN empty = {}
  BY <1>3 DEF IsBooks
<1>6. BooksOf(a, empty, link, rs, n)
  BY <1>2, <1>4, <1>5, BooksFollow
<1>7. \A k \in 0..n : KeptBy(a, empty, link, rs, n, k)
  BY <1>6, BooksKept
<1>8. PICK result, done, r, c : /\ result = Processed(empty, link, rs) /\ done = result.done
                                /\ r = ReceiveReservation(empty, link, reports, body)
                                /\ c = ReceiveCancellation(r.books, link, id)
  OBVIOUS
<1>18. PICK all : all = Processed(empty, link, rs)
  OBVIOUS
<1>19. all.books = a[n] /\ all.done = {m \in 1..n : ProcessInbound(a[m - 1], link, rs[m]).ok}
  BY <1>2, <1>4, <1>18, ProcessedIs, SMTT(30)
<1>9. result.books = a[n] /\ done = {m \in 1..n : ProcessInbound(a[m - 1], link, rs[m]).ok}
  BY <1>8, <1>18, <1>19
<1>10. done = {} => a[n] = empty
  <2>1. n \in 0..n
    OBVIOUS
  <2>2. KeptBy(a, empty, link, rs, n, n)
    BY <1>7, <2>1
  <2>3. QED
    BY <1>9, <2>2 DEF KeptBy
<1>11. IsBooks(a[n])
  BY <1>6 DEF BooksOf
<1>12. done # {} => reports[Min(done)].id \in DOMAIN a[n]
  <2> SUFFICES ASSUME done # {}
               PROVE  reports[Min(done)].id \in DOMAIN a[n]
    OBVIOUS
  <2>1. PICK m : m = Min(done)
    OBVIOUS
  <2>2. done \in SUBSET Nat
    BY <1>9
  <2>3. m \in done
    BY <2>1, <2>2, LeastOf
  <2>4. m \in 1..n /\ m \in 0..n /\ n \in 0..n /\ ProcessInbound(a[m - 1], link, rs[m]).ok
    BY <1>9, <2>3
  <2>5. a[m] = ProcessInbound(a[m - 1], link, rs[m]).books /\ StepOf(a[m - 1], link, rs[m], ProcessInbound(a[m - 1], link, rs[m]))
    BY <1>6, <2>4 DEF BooksOf
  <2>6. rs[m].id \in DOMAIN a[m]
    BY <2>4, <2>5 DEF StepOf
  <2>7. DOMAIN a[m] \subseteq DOMAIN a[n]
    BY <1>7, <2>4 DEF KeptBy
  <2>8. QED
    BY <1>2, <2>1, <2>4, <2>6, <2>7
<1>13. \/ r.status \in {400, 500} /\ r.confirmed = {} /\ r.books = empty
       \/ done = {} /\ r.status = 500 /\ r.confirmed = {} /\ r.books = a[n]
       \/ done # {} /\ r.status = 200 /\ r.confirmed = {reports[Min(done)].id} /\ r.books = a[n]
  <2>1. PICK none : none = [status |-> 400, confirmed |-> {}, books |-> empty]
    OBVIOUS
  <2>2. PICK x, u, v : x = a[n] /\ u = [none EXCEPT !.status = 500] /\ v = [none EXCEPT !.status = 500, !.books = x]
    OBVIOUS
  <2>12. r = IF ParseOta(body).errors \/ reports = <<>> THEN none
             ELSE IF ~link.active THEN [none EXCEPT !.status = 500]
             ELSE IF done = {} THEN [none EXCEPT !.status = 500, !.books = a[n]]
             ELSE [status |-> 200, confirmed |-> {reports[Min(done)].id}, books |-> a[n]]
    <3>1. Processed(empty, link, [i \in DOMAIN reports |-> BookingComReservation(reports[i])]) = result
      BY <1>1, <1>8 DEF Understood
    <3>2. r = ReceiveReservation(empty, link, reports, body) /\ done = result.done /\ result.books = a[n]
      BY <1>8, <1>9
    <3>3. r = IF ParseOta(body).errors \/ reports = <<>> THEN none
              ELSE IF ~link.active THEN [none EXCEPT !.status = 500]
              ELSE IF result.done = {} THEN [none EXCEPT !.status = 500, !.books = result.books]
              ELSE [status |-> 200, confirmed |-> {reports[Min(result.done)].id}, books |-> result.books]
      BY <2>1, <3>1, <3>2, ZenonT(40) DEF ReceiveReservation
    <3>4. QED
      BY <3>2, <3>3
  <2>3. /\ ParseOta(body).errors \/ reports = <<>> => r = none
        /\ ~(ParseOta(body).errors \/ reports = <<>>) /\ ~link.active => r = u
        /\ ~(ParseOta(body).errors \/ reports = <<>>) /\ link.active /\ done = {} => r = v
        /\ ~(ParseOta(body).errors \/ reports = <<>>) /\ link.active /\ done # {} =>
             r = [status |-> 200, confirmed |-> {reports[Min(done)].id}, books |-> a[n]]
    BY <2>2, <2>12
  <2>4. none.status = 400 /\ none.confirmed = {} /\ none.books = empty
    BY <2>1
  <2>5. u.status = 500 /\ u.confirmed = {} /\ u.books = empty
    BY <2>1, <2>2
  <2>6. v.status = 500 /\ v.confirmed = {} /\ v.books = a[n]
    BY <2>1, <2>2
  <2>7. CASE ParseOta(body).errors \/ reports = <<>>
    BY <2>3, <2>4, <2>7
  <2>8. CASE ~(ParseOta(body).errors \/ reports = <<>>) /\ ~link.active
    BY <2>3, <2>5, <2>8
  <2>9. CASE ~(ParseOta(body).errors \/ reports = <<>>) /\ link.active /\ done = {}
    BY <2>3, <2>6, <2>9
  <2>10. CASE ~(ParseOta(body).errors \/ reports = <<>>) /\ link.active /\ done # {}
    BY <2>3, <2>10
  <2>11. QED
    BY <2>7, <2>8, <2>9, <2>10
<1>14. /\ r.status = 200 <=> r.confirmed # {}
       /\ r.confirmed \subseteq DOMAIN r.books
       /\ r.status # 200 => r.books = empty
       /\ r.books = empty \/ r.books = a[n]
  <2>1. CASE r.status \in {400, 500} /\ r.confirmed = {} /\ r.books = empty
    BY <2>1
  <2>2. CASE done = {} /\ r.status = 500 /\ r.confirmed = {} /\ r.books = a[n]
    BY <1>10, <2>2
  <2>3. CASE done # {} /\ r.status = 200 /\ r.confirmed = {reports[Min(done)].id} /\ r.books = a[n]
    <3>1. PICK x : x = reports[Min(done)].id
      OBVIOUS
    <3>2. r.confirmed = {x} /\ x \in DOMAIN a[n]
      BY <1>12, <2>3, <3>1
    <3>3. QED
      BY <2>3, <3>2
  <2>4. QED
    BY <1>13, <2>1, <2>2, <2>3
<1>15. IsBooks(r.books)
  BY <1>5, <1>11, <1>14
<1>16. ASSUME c.status = 200
       PROVE  id \in DOMAIN r.books /\ c.books[id].status = "cancelled" /\ link.active
  <2>1. PICK said, one : said = CancellationOnly(id) /\ one = Cancellation(r.books, said)
    OBVIOUS
  <2>2. said.id = id /\ said.status = "cancelled"
    BY <2>1 DEF CancellationOnly
  <2>3. link.active /\ one.ok /\ c.books = one.books
    BY <1>8, <1>16, <2>1 DEF ReceiveCancellation
  <2>4. one.ok => said.id \in DOMAIN r.books /\ one.books[said.id].status = "cancelled"
    BY <1>15, <2>1, <2>2, CancellationStep
  <2>5. QED
    BY <2>2, <2>3, <2>4
<1>17. QED
  BY <1>3, <1>8, <1>14, <1>16 DEF PushesAreAnswered

\* What an adapter answers, a channel reads and a report is taken for is what was meant,
\* and a report that comes twice books once.
THEOREM AllMessagesHold == MessagesHold
<1>1. \A tries \in AskedTries : AnswersAreRead(tries)
  BY AnswersRead, MessagesAssumption
<1>2. \A items \in AskedItems : AvailabilityIsRead(items)
  BY RoomsAreRead, MessagesAssumption
<1>3. ASSUME NEW plans \in AskedRatePlans
      PROVE  RatesAreRead(plans, AskedNights)
  <2>1. plans \in Seq(ChannelPlans) /\ AskedNights \in SUBSET Nat
    BY MessagesAssumption
  <2>2. PICK n \in Nat : DOMAIN plans = 1..n
    <3>1. DOMAIN plans = 1..Len(plans) /\ Len(plans) \in Nat
      BY <2>1
    <3>2. QED
      BY <3>1
  <2>3. QED
    BY <2>1, <2>2, RatesRead
<1>4. \A report \in AskedReports, link \in AskedMappings : ReportsAreUnderstood(report, link)
  BY ReportsUnderstood, MessagesAssumption
<1>5. ASSUME NEW reports \in AskedPushes, NEW link \in AskedMappings
      PROVE  ReportedTwice(reports, link) /\ \A body \in AskedBodies, id \in AskedIds : PushesAreAnswered(reports, link, body, id)
  <2>1. reports \in Seq(ChannelReports)
    BY MessagesAssumption
  <2>2. QED
    BY <2>1, ReportedTwiceBooksOnce, PushesAnswered
<1>6. QED
  BY <1>1, <1>2, <1>3, <1>4, <1>5 DEF MessagesHold
=================================================================================
