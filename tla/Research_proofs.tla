---------------------------- MODULE Research_proofs ----------------------------
(***************************************************************************)
(* Whatever the market shows, for any universe, durations and windows: a   *)
(* batch never selects, an order sent is justified by both market states   *)
(* it was looked at in, shadows keep apart, and a shadow is scored by its  *)
(* first completed mark.                                                   *)
(***************************************************************************)
EXTENDS Research, FiniteSetTheorems, TLAPS

-----------------------------------------------------------------------------
(* Finite sets: the greatest element under a function, and sums.  tlapm    *)
(* has no induction here: a least counterexample takes its place.          *)

\* Among sets of elements of a finite set there is one that contains no other.
LEMMA LeastSet ==
    ASSUME NEW S, IsFiniteSet(S), NEW Bad \in SUBSET (SUBSET S), Bad # {}
    PROVE  \E R \in Bad : IsFiniteSet(R) /\ \A Q \in Bad : Q \subseteq R => Q = R
<1>1. FiniteSubsetsOf(S) = SUBSET S
  BY FS_FiniteSubsetsOfFinite
<1>2. IsWellFoundedOn(StrictSubsetOrdering(S), SUBSET S)
  BY <1>1, FS_StrictSubsetOrderingWellFounded
<1>3. PICK R \in Bad : \A Q \in Bad : ~ (<<Q, R>> \in StrictSubsetOrdering(S))
  BY <1>2, WFMin
<1>. QED BY <1>3, FS_Subset DEF StrictSubsetOrdering

\* A function with integer values has a greatest one on a finite set.
LEMMA Greatest ==
    ASSUME NEW S, IsFiniteSet(S), S # {}, NEW f \in [S -> Int]
    PROVE  \E x \in S : \A y \in S : f[y] <= f[x]
<1>. DEFINE Top(R, x) == x \in R /\ \A y \in R : f[y] <= f[x]
            Bad == {R \in SUBSET S : R # {} /\ \A x \in R : ~ Top(R, x)}
<1>1. SUFFICES ASSUME Bad # {} PROVE FALSE
  OBVIOUS
<1>2. PICK R \in Bad : \A Q \in Bad : Q \subseteq R => Q = R
  <2>1. Bad \in SUBSET (SUBSET S)
    OBVIOUS
  <2>. HIDE DEF Bad
  <2>. QED BY <1>1, <2>1, LeastSet
<1>3. PICK x \in R : TRUE
  OBVIOUS
<1>4. R \ {x} \notin Bad
  BY <1>2, <1>3
<1>5. CASE R \ {x} = {}
  BY <1>3, <1>5
<1>6. ASSUME NEW z \in R \ {x}, \A y \in R \ {x} : f[y] <= f[z] PROVE FALSE
  <2>1. CASE f[x] <= f[z]
    BY <1>6, <2>1
  <2>2. CASE ~ (f[x] <= f[z])
    <3>1. \A y \in R : f[y] <= f[x]
      BY <1>3, <1>6, <2>2
    <3>. QED BY <1>3, <3>1
  <2>. QED BY <2>1, <2>2
<1>. QED BY <1>4, <1>5, <1>6

\* MapThenSumSet takes one element after the other, each time the one CHOOSE picks.
Pick(R) == CHOOSE x \in R : TRUE
Unrolls(g, f, S) ==
    g = [R \in SUBSET S |-> IF R = {} THEN 0 ELSE f[Pick(R)] + g[R \ {Pick(R)}]]
Total(f, S) == MapThenSumSet(LAMBDA x : f[x], S)

LEMMA TotalIsUnrolled ==
    ASSUME NEW f, NEW S
    PROVE  Total(f, S) = (CHOOSE g : Unrolls(g, f, S))[S]
BY DEF Total, Unrolls, Pick, MapThenSumSet, MapThenFoldSet

\* Two unrollings agree on the finite sets that both cover.
LEMMA UnrollsAgree ==
    ASSUME NEW f, NEW S, NEW T, NEW g, NEW h, Unrolls(g, f, S), Unrolls(h, f, T),
           NEW R, R \subseteq S, R \subseteq T, IsFiniteSet(R)
    PROVE  g[R] = h[R]
<1>. DEFINE Bad == {Q \in SUBSET R : g[Q] # h[Q]}
<1>1. Bad \in SUBSET (SUBSET R)
  OBVIOUS
<1>2. SUFFICES ASSUME Bad # {} PROVE FALSE
  OBVIOUS
<1>3. PICK Q \in Bad : \A P \in Bad : P \subseteq Q => P = Q
  <2>. HIDE DEF Bad
  <2>. QED BY <1>1, <1>2, LeastSet
<1>4. Q \in SUBSET S /\ Q \in SUBSET T
  BY <1>3
<1>5. /\ g[Q] = IF Q = {} THEN 0 ELSE f[Pick(Q)] + g[Q \ {Pick(Q)}]
      /\ h[Q] = IF Q = {} THEN 0 ELSE f[Pick(Q)] + h[Q \ {Pick(Q)}]
  BY <1>4 DEF Unrolls
<1>6. ASSUME Q # {} PROVE Pick(Q) \in Q
  BY <1>6 DEF Pick
<1>7. ASSUME Q # {} PROVE g[Q \ {Pick(Q)}] = h[Q \ {Pick(Q)}]
  BY <1>3, <1>6, <1>7
<1>. QED BY <1>3, <1>5, <1>7

\* The sum of a finite set is there.
LEMMA UnrollsExists ==
    ASSUME NEW f, NEW S, IsFiniteSet(S)
    PROVE  \E g : Unrolls(g, f, S)
<1>. DEFINE Bad == {R \in SUBSET S : ~ \E g : Unrolls(g, f, R)}
<1>1. Bad \in SUBSET (SUBSET S)
  OBVIOUS
<1>2. SUFFICES ASSUME Bad # {} PROVE FALSE
  OBVIOUS
<1>3. PICK R \in Bad : IsFiniteSet(R) /\ \A P \in Bad : P \subseteq R => P = R
  <2>. HIDE DEF Bad
  <2>. QED BY <1>1, <1>2, LeastSet
<1>. DEFINE G(Q) == (CHOOSE g : Unrolls(g, f, Q))[Q]
            h == [Q \in SUBSET R |-> IF Q = {} THEN 0 ELSE f[Pick(Q)] + G(Q \ {Pick(Q)})]
<1>4. ASSUME NEW Q \in SUBSET R, Q # R
      PROVE  Unrolls(CHOOSE g : Unrolls(g, f, Q), f, Q)
  <2>1. \E g : Unrolls(g, f, Q)
    BY <1>3, <1>4
  <2>. QED BY <2>1
<1>5. ASSUME NEW Q \in SUBSET R, Q # R
      PROVE  h[Q] = G(Q)
  <2>. DEFINE g == CHOOSE g : Unrolls(g, f, Q)
  <2>1. Unrolls(g, f, Q)
    BY <1>4, <1>5
  <2>2. g[Q] = IF Q = {} THEN 0 ELSE f[Pick(Q)] + g[Q \ {Pick(Q)}]
    <3>. HIDE DEF g
    <3>. QED BY <2>1 DEF Unrolls
  <2>3. ASSUME Q # {} PROVE g[Q \ {Pick(Q)}] = G(Q \ {Pick(Q)})
    <3>1. Pick(Q) \in Q
      BY <2>3 DEF Pick
    <3>. DEFINE P == Q \ {Pick(Q)}
    <3>2. P \in SUBSET R /\ P # R /\ P \subseteq Q /\ IsFiniteSet(P)
      BY <1>3, <3>1, FS_Subset
    <3>3. Unrolls(CHOOSE k : Unrolls(k, f, P), f, P)
      BY <1>4, <3>2
    <3>4. g[P] = (CHOOSE k : Unrolls(k, f, P))[P]
      <4>. HIDE DEF g, P
      <4>. QED BY <2>1, <3>2, <3>3, UnrollsAgree
    <3>. QED BY <3>4
  <2>. QED BY <2>2, <2>3
<1>6. ASSUME NEW Q \in SUBSET R, Q # {} PROVE h[Q \ {Pick(Q)}] = G(Q \ {Pick(Q)})
  <2>1. Pick(Q) \in Q
    BY <1>6 DEF Pick
  <2>. HIDE DEF h, G
  <2>. QED BY <1>5, <2>1
<1>7. Unrolls(h, f, R)
  <2>. HIDE DEF G
  <2>1. h = [Q \in SUBSET R |-> IF Q = {} THEN 0 ELSE f[Pick(Q)] + h[Q \ {Pick(Q)}]]
    BY <1>6
  <2>. QED BY <2>1 DEF Unrolls
<1>. HIDE DEF h
<1>. QED BY <1>3, <1>7

LEMMA TotalUnrolls ==
    ASSUME NEW f, NEW S, IsFiniteSet(S)
    PROVE  Total(f, S) = IF S = {} THEN 0 ELSE f[Pick(S)] + Total(f, S \ {Pick(S)})
<1>. DEFINE T == S \ {Pick(S)}
            g == CHOOSE k : Unrolls(k, f, S)
            h == CHOOSE k : Unrolls(k, f, T)
<1>1. IsFiniteSet(T) /\ T \subseteq S
  BY FS_Subset
<1>2. Unrolls(g, f, S) /\ Unrolls(h, f, T)
  <2>1. (\E k : Unrolls(k, f, S)) /\ (\E k : Unrolls(k, f, T))
    BY <1>1, UnrollsExists
  <2>. QED BY <2>1
<1>3. Total(f, S) = g[S] /\ Total(f, T) = h[T]
  BY TotalIsUnrolled
<1>. HIDE DEF g, h
<1>4. g[T] = h[T]
  BY <1>1, <1>2, UnrollsAgree
<1>5. g[S] = IF S = {} THEN 0 ELSE f[Pick(S)] + g[T]
  BY <1>2 DEF Unrolls
<1>. QED BY <1>3, <1>4, <1>5

LEMMA TotalType ==
    ASSUME NEW S, IsFiniteSet(S), NEW f, \A x \in S : f[x] \in Int
    PROVE  \A R \in SUBSET S : Total(f, R) \in Int
<1>. DEFINE Bad == {R \in SUBSET S : Total(f, R) \notin Int}
<1>1. Bad \in SUBSET (SUBSET S)
  OBVIOUS
<1>2. SUFFICES ASSUME Bad # {} PROVE FALSE
  OBVIOUS
<1>3. PICK R \in Bad : IsFiniteSet(R) /\ \A P \in Bad : P \subseteq R => P = R
  <2>. HIDE DEF Bad
  <2>. QED BY <1>1, <1>2, LeastSet
<1>4. R # {}
  BY <1>3, TotalUnrolls
<1>5. Pick(R) \in R
  BY <1>4 DEF Pick
<1>6. Total(f, R \ {Pick(R)}) \in Int
  BY <1>3, <1>5
<1>7. Total(f, R) = f[Pick(R)] + Total(f, R \ {Pick(R)})
  BY <1>3, <1>4, TotalUnrolls
<1>. QED BY <1>3, <1>5, <1>6, <1>7

\* A sum of n numbers from -100 to 100.
LEMMA TotalBounds ==
    ASSUME NEW S, IsFiniteSet(S), NEW f, \A x \in S : f[x] \in -100..100
    PROVE  \A R \in SUBSET S : /\ Total(f, R) \in Int
                               /\ -100 * Cardinality(R) <= Total(f, R)
                               /\ Total(f, R) <= 100 * Cardinality(R)
<1>. DEFINE Within(R) == /\ -100 * Cardinality(R) <= Total(f, R)
                         /\ Total(f, R) <= 100 * Cardinality(R)
            Bad == {R \in SUBSET S : ~ Within(R)}
<1>1. Bad \in SUBSET (SUBSET S)
  OBVIOUS
<1>2. \A R \in SUBSET S : Total(f, R) \in Int
  BY TotalType
<1>3. SUFFICES ASSUME Bad # {} PROVE FALSE
  BY <1>2
<1>4. PICK R \in Bad : IsFiniteSet(R) /\ \A P \in Bad : P \subseteq R => P = R
  <2>. HIDE DEF Bad
  <2>. QED BY <1>1, <1>3, LeastSet
<1>5. R # {}
  <2>1. Total(f, {}) = 0
    BY FS_EmptySet, TotalUnrolls
  <2>2. Cardinality({}) = 0
    BY FS_EmptySet
  <2>3. Within({})
    BY <2>1, <2>2
  <2>. HIDE DEF Within
  <2>. QED BY <1>4, <2>3
<1>. DEFINE p == Pick(R)
            P == R \ {p}
<1>6. p \in R
  BY <1>5 DEF Pick
<1>7. Total(f, R) = f[p] + Total(f, P)
  BY <1>4, <1>5, TotalUnrolls
<1>8. Cardinality(P) = Cardinality(R) - 1 /\ Cardinality(R) \in Nat
  BY <1>4, <1>6, FS_RemoveElement, FS_CardinalityType
<1>9. Within(P)
  BY <1>4, <1>6
<1>10. Total(f, P) \in Int /\ f[p] \in -100..100
  BY <1>2, <1>4, <1>6
<1>. HIDE DEF p, P
<1>11. Within(R)
  BY <1>7, <1>8, <1>9, <1>10
<1>. QED BY <1>4, <1>11

-----------------------------------------------------------------------------
(* Features and agents.                                                    *)

LEMMA MinMaxPair ==
    ASSUME NEW a \in Int, NEW b \in Int
    PROVE  /\ Min({a, b}) \in Int /\ Min({a, b}) <= a /\ Min({a, b}) <= b
           /\ Max({a, b}) \in Int /\ Max({a, b}) >= a /\ Max({a, b}) >= b
           /\ Min({a, b}) \in {a, b} /\ Max({a, b}) \in {a, b}
<1>1. \E x \in {a, b} : \A y \in {a, b} : x <= y
  <2>1. CASE a <= b
    BY <2>1
  <2>2. CASE ~ (a <= b)
    BY <2>2
  <2>. QED BY <2>1, <2>2
<1>2. \E x \in {a, b} : \A y \in {a, b} : x >= y
  <2>1. CASE a <= b
    BY <2>1
  <2>2. CASE ~ (a <= b)
    BY <2>2
  <2>. QED BY <2>1, <2>2
<1>3. Min({a, b}) \in {a, b} /\ \A y \in {a, b} : Min({a, b}) <= y
  BY <1>1 DEF Min
<1>4. Max({a, b}) \in {a, b} /\ \A y \in {a, b} : Max({a, b}) >= y
  BY <1>2 DEF Max
<1>. QED BY <1>3, <1>4

\* A market state as it is evaluated.
StateOK(s) ==
    /\ s.features \in Features \cup {Missing}
    /\ Contracts(s.options) /\ Contracts(s.observations) /\ IsFiniteSet(s.positions)
    /\ s.equity \in Int /\ s.cash \in Int
    /\ s.underlying \in {"SPY", "QQQ"}

\* A proposal of this moment for this state, if it is one at all.
ProposalOK(p, s, t) ==
    /\ DOMAIN p = {"agent", "underlying", "at", "contract"}
    /\ p.agent \in Agents /\ p.underlying = s.underlying /\ p.at = t
    /\ p.contract # Missing => p.contract \in s.options

\* The nearest of the contracts that qualify is one of them.
LEMMA ProposeOK ==
    ASSUME NEW agent \in Agents, NEW s, StateOK(s), NEW regime, NEW policy, NEW t
    PROVE  /\ propose(agent, s, regime, policy, t).agent = agent
           /\ ProposalOK(propose(agent, s, regime, policy, t), s, t)
<1>. DEFINE candidates == {o \in s.options :
            /\ o.underlying = s.underlying /\ o.kind = Signal(agent, s, regime) /\ o.tradable
            /\ Fresh(t - s.quoted) /\ OneDayToSeven(o)
            /\ o.ask <= PerTrade(s, policy) /\ liquid(o)}
            nearest == CHOOSE o \in candidates : \A q \in candidates : o.distance <= q.distance
            p == propose(agent, s, regime, policy, t)
<1>1. p = [agent |-> agent, underlying |-> s.underlying, at |-> t,
           contract |-> IF candidates = {} THEN Missing ELSE nearest]
  BY DEF propose
<1>2. candidates \subseteq s.options
  OBVIOUS
<1>3. IsFiniteSet(s.options) /\ \A o \in s.options : o.distance \in Nat
  BY DEF StateOK, Contracts
<1>. HIDE DEF candidates
<1>4. ASSUME candidates # {} PROVE nearest \in candidates
  <2>. DEFINE f == [o \in candidates |-> -o.distance]
  <2>1. f \in [candidates -> Int]
    BY <1>2, <1>3
  <2>2. \E o \in candidates : \A q \in candidates : f[q] <= f[o]
    <3>. HIDE DEF f
    <3>. QED BY <1>2, <1>3, <1>4, <2>1, FS_Subset, Greatest
  <2>3. \E o \in candidates : \A q \in candidates : o.distance <= q.distance
    BY <1>2, <1>3, <2>2
  <2>. QED BY <2>3
<1>. HIDE DEF nearest, p
<1>5. p.agent = agent /\ ProposalOK(p, s, t)
  BY <1>1, <1>2, <1>4 DEF ProposalOK
<1>. QED BY <1>5 DEF p

LEMMA ConfidenceType ==
    ASSUME NEW s, StateOK(s), NEW t
    PROVE  confidence(s, classify(s, t)) \in Int
<1>. DEFINE regime == classify(s, t)
<1>1. CASE regime \in {"TREND_UP", "TREND_DOWN"}
  <2>1. s.features # Missing
    BY <1>1 DEF classify
  <2>2. s.features.trend \in Int
    BY <2>1 DEF StateOK, Features
  <2>3. s.features.trend \in Int /\ -s.features.trend \in Int
    BY <2>2
  <2>4. Max({s.features.trend, -s.features.trend}) \in Int
    BY <2>3, MinMaxPair, Zenon
  <2>5. 90 \in Int /\ 55 + (15 * Max({s.features.trend, -s.features.trend})) \div 100 \in Int
    BY <2>4
  <2>6. Min({90, 55 + (15 * Max({s.features.trend, -s.features.trend})) \div 100}) \in Int
    BY <2>5, MinMaxPair, Zenon
  <2>. HIDE DEF regime
  <2>7. confidence(s, regime) \in Int
    BY <1>1, <2>6 DEF confidence
  <2>. QED BY <2>7 DEF regime
<1>2. CASE regime \notin {"TREND_UP", "TREND_DOWN"}
  <2>. HIDE DEF regime
  <2>1. confidence(s, regime) \in Int
    BY <1>2 DEF confidence
  <2>. QED BY <2>1 DEF regime
<1>. QED BY <1>1, <1>2

LEMMA ScoreType ==
    ASSUME NEW s, StateOK(s), NEW t, NEW policy, policy.per_trade_dollars \in Int,
           NEW quality \in [Agents -> Int], NEW p, ProposalOK(p, s, t), p.contract # Missing
    PROVE  Score(p, s, classify(s, t), quality, policy) \in Int
<1>. DEFINE c == p.contract
            conf == confidence(s, classify(s, t))
            spread == Max({0, 100 - (2000 * (c.ask - c.bid)) \div (c.ask + c.bid)})
            budget == Max({0, 100 - (100 * c.ask) \div Max({1, policy.per_trade_dollars})})
<1>1. c.ask \in Nat \ {0} /\ c.bid \in Nat \ {0}
  BY DEF StateOK, ProposalOK, Contracts
<1>2. conf \in Int
  BY ConfidenceType
<1>3. Min({85, conf}) \in Int
  <2>. 85 \in Int
    OBVIOUS
  <2>. QED BY <1>2, MinMaxPair, Zenon
<1>4. spread \in Int
  <2>. DEFINE rest == 100 - (2000 * (c.ask - c.bid)) \div (c.ask + c.bid)
  <2>1. 0 \in Int /\ rest \in Int
    BY <1>1
  <2>. HIDE DEF rest
  <2>2. Max({0, rest}) \in Int
    BY <2>1, MinMaxPair, Zenon
  <2>. QED BY <2>2 DEF rest
<1>5. budget \in Int
  <2>. DEFINE most == Max({1, policy.per_trade_dollars})
  <2>1. 1 \in Int /\ 0 \in Int
    OBVIOUS
  <2>2. most \in Int /\ most >= 1
    BY <2>1, MinMaxPair, Zenon
  <2>. HIDE DEF most
  <2>3. 100 - (100 * c.ask) \div most \in Int
    BY <1>1, <2>2
  <2>. QED BY <2>1, <2>3, MinMaxPair, Zenon DEF most
<1>6. quality[p.agent] \in Int
  BY DEF ProposalOK
<1>7. severity(s, classify(s, t)) \in Int
  BY DEF severity
<1>8. Score(p, s, classify(s, t), quality, policy)
        = 20 * Min({85, conf}) + 20 * conf + 20 * spread + 15 * quality[p.agent] + 10 * budget
          + 15 * (100 - severity(s, classify(s, t)))
  BY DEF Score
<1>. HIDE DEF conf, spread, budget
<1>. QED BY <1>2, <1>3, <1>4, <1>5, <1>6, <1>7, <1>8

\* A score or a name for each: the greatest of both, first by one, then by the other.
LEMMA BestOfBoth ==
    ASSUME NEW S, IsFiniteSet(S), S # {}, NEW f \in [S -> Int], NEW g \in [S -> Int]
    PROVE  \E x \in S : /\ \A y \in S : f[y] <= f[x]
                        /\ \A y \in S : (\A z \in S : f[z] <= f[y]) => g[y] <= g[x]
<1>. DEFINE best == {x \in S : \A y \in S : f[y] <= f[x]}
<1>1. best # {}
  BY Greatest
<1>2. IsFiniteSet(best) /\ best \subseteq S
  BY FS_Subset
<1>. DEFINE h == [x \in best |-> g[x]]
<1>3. h \in [best -> Int]
  BY <1>2
<1>4. PICK x \in best : \A y \in best : h[y] <= h[x]
  <2>. HIDE DEF best, h
  <2>. QED BY <1>1, <1>2, <1>3, Greatest
<1>. QED BY <1>4

\* The allocator takes one of the proposals.
LEMMA AllocateOK ==
    ASSUME NEW s, StateOK(s), NEW t, NEW policy, policy.per_trade_dollars \in Int,
           NEW quality \in [Agents -> Int], NEW proposals, IsFiniteSet(proposals),
           \A p \in proposals : ProposalOK(p, s, t)
    PROVE  LET winner == allocate(proposals, s, classify(s, t), quality, policy)
           IN  winner = Missing \/ winner \in Proposed(proposals)
<1>. DEFINE regime == classify(s, t)
            score(p) == Score(p, s, regime, quality, policy)
            eligible == {p \in Proposed(proposals) :
                        /\ severity(s, regime) < 80 /\ ~Concentrated(s)
                        /\ p.contract.ask <= s.equity \div 50 - CostBasis(s)}
            best == {p \in eligible : \A q \in eligible : score(q) <= score(p)}
            first == CHOOSE p \in best : \A q \in best : ByName[q.agent] <= ByName[p.agent]
            f == [p \in eligible |-> score(p)]
            g == [p \in eligible |-> ByName[p.agent]]
<1>1. eligible \subseteq Proposed(proposals) /\ Proposed(proposals) \subseteq proposals
  BY DEF Proposed
<1>2. IsFiniteSet(eligible)
  BY <1>1, FS_Subset
<1>3. ASSUME NEW p \in eligible PROVE score(p) \in Int /\ ByName[p.agent] \in Int
  <2>1. ProposalOK(p, s, t) /\ p.contract # Missing
    BY <1>1 DEF Proposed
  <2>2. score(p) \in Int
    BY <2>1, ScoreType
  <2>3. ByName[p.agent] \in Int
    BY <2>1 DEF ProposalOK, Agents, ByName
  <2>. QED BY <2>2, <2>3
<1>4. ASSUME eligible # {} PROVE first \in best
  <2>. HIDE DEF regime, score, eligible
  <2>1. f \in [eligible -> Int] /\ g \in [eligible -> Int]
    BY <1>3
  <2>2. PICK p \in eligible : /\ \A q \in eligible : f[q] <= f[p]
                              /\ \A q \in eligible : (\A r \in eligible : f[r] <= f[q]) => g[q] <= g[p]
    <3>. HIDE DEF f, g
    <3>. QED BY <1>2, <1>4, <2>1, BestOfBoth
  <2>3. p \in best /\ \A q \in best : ByName[q.agent] <= ByName[p.agent]
    BY <2>2
  <2>. HIDE DEF best
  <2>. QED BY <2>3
<1>5. \/ allocate(proposals, s, regime, quality, policy) = Missing
      \/ eligible # {} /\ allocate(proposals, s, regime, quality, policy) = first
  <2>. DEFINE mixed == Cardinality({p.contract.kind : p \in Proposed(proposals)}) > 1
              poor == \A p \in eligible : score(p) < 5000
  <2>1. allocate(proposals, s, regime, quality, policy) = IF mixed \/ poor THEN Missing ELSE first
    BY DEF allocate
  <2>2. ~poor => eligible # {}
    OBVIOUS
  <2>. HIDE DEF mixed, poor, eligible, first, regime, score, best, f, g
  <2>. QED BY <2>1, <2>2
<1>. HIDE DEF regime, eligible, first
<1>6. first \in best => first \in Proposed(proposals)
  BY <1>1
<1>. HIDE DEF best
<1>. QED BY <1>4, <1>5, <1>6 DEF regime

-----------------------------------------------------------------------------
(* Scores.                                                                 *)

SampleOK(m) == m.loss \in Nat \ {0} /\ m.pnl \in Int

LEMMA Quotient ==
    ASSUME NEW x \in Int, NEW d \in Nat \ {0}, -15 * d <= x, x < 15 * d
    PROVE  x \div d \in -15..14
OBVIOUS

\* A mean of returns from -100% to 100% and a hit balance, weighed down by 20 samples that
\* are not there, is at most 15 points away from 50.
LEMMA ScoreBounds ==
    ASSUME NEW n \in Nat, NEW x \in Int, -1500 * n <= x, x <= 1500 * n
    PROVE  50 + x \div (100 * (n + 20)) \in 35..65
<1>. DEFINE d == 100 * (n + 20)
            q == x \div d
<1>1. d \in Nat \ {0} /\ -15 * d <= x /\ x < 15 * d
  OBVIOUS
<1>. HIDE DEF d
<1>2. q \in -15..14
  BY <1>1, Quotient
<1>. HIDE DEF q
<1>3. 50 + q \in 35..65
  BY <1>2
<1>. QED BY <1>3 DEF q, d

LEMMA ScoreOfType ==
    ASSUME NEW samples, IsFiniteSet(samples), \A m \in samples : SampleOK(m)
    PROVE  ScoreOf(samples) \in 35..65
<1>. DEFINE return == [m \in samples |-> Max({-100, Min({100, (100 * m.pnl) \div m.loss})})]
            total == Total(return, samples)
            wins == Cardinality({m \in samples : m.pnl > 0})
            n == Cardinality(samples)
<1>1. ASSUME NEW m \in samples PROVE return[m] \in -100..100
  <2>. DEFINE raw == (100 * m.pnl) \div m.loss
              upper == Min({100, raw})
  <2>1. raw \in Int /\ 100 \in Int /\ -100 \in Int
    BY DEF SampleOK
  <2>. HIDE DEF raw
  <2>2. upper \in Int /\ upper <= 100
    BY <2>1, MinMaxPair, Zenon
  <2>. HIDE DEF upper
  <2>3. Max({-100, upper}) \in Int /\ Max({-100, upper}) >= -100 /\ Max({-100, upper}) \in {-100, upper}
    BY <2>1, <2>2, MinMaxPair, Zenon
  <2>4. Max({-100, upper}) \in -100..100
    BY <2>2, <2>3
  <2>5. return[m] = Max({-100, upper})
    BY DEF raw, upper
  <2>. QED BY <2>4, <2>5
<1>2. n \in Nat /\ wins \in Nat /\ wins <= n
  BY FS_CardinalityType, FS_Subset
<1>3. total \in Int /\ -100 * n <= total /\ total <= 100 * n
  <2>. HIDE DEF return
  <2>. QED BY <1>1, TotalBounds
<1>4. ScoreOf(samples) = 50 + (10 * total + 500 * (2 * wins - n)) \div (100 * (n + 20))
  BY DEF ScoreOf, Total
<1>. HIDE DEF total, wins, n
<1>. DEFINE x == 10 * total + 500 * (2 * wins - n)
<1>5. x \in Int /\ -1500 * n <= x /\ x <= 1500 * n
  BY <1>2, <1>3
<1>. HIDE DEF x
<1>6. 50 + x \div (100 * (n + 20)) \in 35..65
  BY <1>2, <1>5, ScoreBounds
<1>. QED BY <1>4, <1>6 DEF x

LEMMA ScoreAgentsType ==
    ASSUME NEW samples, IsFiniteSet(samples), \A m \in samples : SampleOK(m)
    PROVE  score_agents(samples) \in [Agents -> 35..65]
<1>1. \A a \in Agents : ScoreOf({m \in samples : m.agent = a}) \in 35..65
  <2>. TAKE a \in Agents
  <2>. DEFINE mine == {m \in samples : m.agent = a}
  <2>1. IsFiniteSet(mine) /\ \A m \in mine : SampleOK(m)
    BY FS_Subset
  <2>. HIDE DEF mine
  <2>2. ScoreOf(mine) \in 35..65
    BY <2>1, ScoreOfType
  <2>. QED BY <2>2 DEF mine
<1>. QED BY <1>1 DEF score_agents

-----------------------------------------------------------------------------
(* Gates.                                                                  *)

\* What the gates promise of a proposal, at the time and for the state they look at.
Sound(p, s, policy, t) ==
    /\ p.contract # Missing /\ p.contract \in s.options
    /\ p.contract.underlying = p.underlying /\ p.underlying = s.underlying
    /\ s.account /\ s.official /\ s.open /\ ~s.working /\ ~s.recent
    /\ Fresh(t - s.at) /\ Fresh(t - s.quoted)
    /\ ~Concentrated(s)
    /\ Cardinality(s.positions) < policy.max_positions
    /\ CostBasis(s) + p.contract.ask <= s.equity \div 50
    /\ p.contract.ask <= PerTrade(s, policy) /\ p.contract.ask <= s.cash

LEMMA ApprovedIsSound ==
    ASSUME NEW p, NEW s, NEW policy, NEW flags, NEW t,
           LET gates == validate(p, s, policy, flags, t)
           IN  \A name \in DOMAIN gates \ {"dry_run_gate"} : gates[name]
    PROVE  Sound(p, s, policy, t)
<1>. DEFINE gates == validate(p, s, policy, flags, t)
<1>1. {"account", "competition_window", "market", "data_fresh", "valid_options", "proposal",
       "max_new_risk", "buying_power", "positions_limit", "aggregate_risk",
       "underlying_exposure", "conflicting_order", "cooldown"}
         \subseteq DOMAIN gates \ {"dry_run_gate"}
  BY DEF validate
<1>. HIDE DEF gates
<1>2. /\ gates.account /\ gates.competition_window /\ gates.market /\ gates.data_fresh
      /\ gates.valid_options /\ gates.proposal /\ gates.max_new_risk /\ gates.buying_power
      /\ gates.positions_limit /\ gates.aggregate_risk /\ gates.underlying_exposure
      /\ gates.conflicting_order /\ gates.cooldown
  BY <1>1 DEF gates
<1>. QED BY <1>2 DEF gates, validate, Sound

LEMMA PreflightIsSound ==
    ASSUME NEW p, NEW s, NEW policy, NEW t, execution_preflight(p, s, policy, TRUE, t)
    PROVE  Sound(p, s, policy, t)
BY ApprovedIsSound DEF execution_preflight

-----------------------------------------------------------------------------
(* One cycle.                                                              *)

\* What run_cycle makes of a state.
CycleOK(c, s, policy, history, t) ==
    /\ c.state = s /\ c.score \in Int
    /\ \/ c.selected = Missing
       \/ ProposalOK(c.selected, s, t) /\ Sound(c.selected, s, policy, t)
    /\ IsFiniteSet(c.shadows)
    /\ \A p \in c.shadows : /\ ProposalOK(p, s, t) /\ p.contract # Missing
                            /\ ~Suppressed(p, history, t)
    /\ \A p, q \in c.shadows : p.agent = q.agent => p = q

LEMMA RunCycleOK ==
    ASSUME NEW s, StateOK(s), NEW policy, policy.per_trade_dollars \in Int, NEW history,
           NEW samples, IsFiniteSet(samples), \A m \in samples : SampleOK(m), NEW t
    PROVE  CycleOK(run_cycle(s, policy, history, samples, t), s, policy, history, t)
<1>. DEFINE regime == classify(s, t)
            idea(a) == propose(a, s, regime, policy, t)
            proposals == {idea(a) : a \in Agents}
            quality == score_agents(samples)
            winner == allocate(proposals, s, regime, quality, policy)
            selected == IF winner # Missing /\ Approved(validate(winner, s, policy, FALSE, t))
                        THEN winner ELSE Missing
            score == IF selected = Missing THEN -1 ELSE Score(selected, s, regime, quality, policy)
            kept == {p \in Proposed(proposals) \ {selected} : ~Suppressed(p, history, t)}
<1>1. run_cycle(s, policy, history, samples, t)
        = [state |-> s, selected |-> selected, score |-> score, shadows |-> kept]
  BY DEF run_cycle
<1>2. quality \in [Agents -> Int]
  <2>1. quality \in [Agents -> 35..65]
    BY ScoreAgentsType
  <2>. HIDE DEF quality
  <2>. QED BY <2>1
<1>3. \A a \in Agents : idea(a).agent = a /\ ProposalOK(idea(a), s, t)
  BY ProposeOK
<1>. HIDE DEF idea
<1>4. IsFiniteSet(proposals)
  <2>1. proposals = {idea("TREND")} \cup {idea("RANGE")} \cup {idea("DEFENSIVE")}
    BY DEF Agents
  <2>. HIDE DEF proposals
  <2>2. IsFiniteSet({idea("TREND")}) /\ IsFiniteSet({idea("RANGE")}) /\ IsFiniteSet({idea("DEFENSIVE")})
    BY FS_Singleton
  <2>3. IsFiniteSet({idea("TREND")} \cup {idea("RANGE")})
    BY <2>2, FS_Union
  <2>. QED BY <2>1, <2>2, <2>3, FS_Union
<1>5. \A p \in proposals : ProposalOK(p, s, t)
  BY <1>3
<1>6. \A p, q \in proposals : p.agent = q.agent => p = q
  BY <1>3
<1>. HIDE DEF quality, proposals
<1>7. winner = Missing \/ winner \in Proposed(proposals)
  BY <1>2, <1>4, <1>5, AllocateOK
<1>. HIDE DEF winner
<1>8. \/ selected = Missing
      \/ ProposalOK(selected, s, t) /\ Sound(selected, s, policy, t)
  <2>. SUFFICES ASSUME selected # Missing PROVE ProposalOK(selected, s, t) /\ Sound(selected, s, policy, t)
    OBVIOUS
  <2>1. selected = winner /\ winner # Missing /\ Approved(validate(winner, s, policy, FALSE, t))
    OBVIOUS
  <2>. HIDE DEF selected
  <2>2. ProposalOK(winner, s, t)
    BY <1>5, <1>7, <2>1 DEF Proposed
  <2>3. Sound(winner, s, policy, t)
    BY <2>1, ApprovedIsSound DEF Approved
  <2>. QED BY <2>1, <2>2, <2>3
<1>. HIDE DEF selected
<1>9. score \in Int
  <2>1. CASE selected = Missing
    BY <2>1
  <2>2. CASE selected # Missing
    <3>1. ProposalOK(selected, s, t) /\ selected.contract # Missing
      BY <1>8, <2>2 DEF Sound
    <3>2. Score(selected, s, regime, quality, policy) \in Int
      BY <1>2, <3>1, ScoreType
    <3>. QED BY <2>2, <3>2
  <2>. QED BY <2>1, <2>2
<1>10. /\ IsFiniteSet(kept)
       /\ \A p \in kept : ProposalOK(p, s, t) /\ p.contract # Missing /\ ~Suppressed(p, history, t)
       /\ \A p, q \in kept : p.agent = q.agent => p = q
  <2>1. kept \subseteq proposals
    BY DEF Proposed
  <2>2. IsFiniteSet(kept)
    BY <1>4, <2>1, FS_Subset
  <2>. QED BY <1>5, <1>6, <2>1, <2>2 DEF Proposed
<1>. HIDE DEF score, kept
<1>. QED BY <1>1, <1>8, <1>9, <1>10 DEF CycleOK

\* The best cycle is one of them, the first if nothing was selected.
LEMMA MultiIsOne ==
    ASSUME NEW n \in Nat \ {0}, NEW candidates, DOMAIN candidates = 1..n,
           \A i \in 1..n : /\ candidates[i].score \in Int
                           /\ candidates[i].state.underlying \in {"SPY", "QQQ"}
    PROVE  /\ \E i \in 1..n : run_multi_underlying_cycle(candidates) = candidates[i]
           /\ (\A i \in 1..n : candidates[i].selected = Missing)
                 => run_multi_underlying_cycle(candidates) = candidates[1]
<1>. DEFINE f == [i \in 1..n |-> candidates[i].score]
            g == [i \in 1..n |-> Name[candidates[i].state.underlying]]
            Best(c) == \A d \in Range(candidates) :
                \/ d.score < c.score
                \/ d.score = c.score /\ Name[d.state.underlying] <= Name[c.state.underlying]
            best == CHOOSE c \in Range(candidates) : Best(c)
<1>1. IsFiniteSet(1..n) /\ 1..n # {} /\ 1 \in 1..n
  <2>1. IsFiniteSet(1..n)
    BY FS_Interval
  <2>2. 1 \in 1..n
    OBVIOUS
  <2>. QED BY <2>1, <2>2
<1>2. f \in [1..n -> Int] /\ g \in [1..n -> Int]
  BY DEF Name
<1>3. PICK i \in 1..n : /\ \A j \in 1..n : f[j] <= f[i]
                        /\ \A j \in 1..n : (\A k \in 1..n : f[k] <= f[j]) => g[j] <= g[i]
  <2>. HIDE DEF f, g
  <2>. QED BY <1>1, <1>2, BestOfBoth
<1>4. ASSUME NEW j \in 1..n
      PROVE  f[j] < f[i] \/ (f[j] = f[i] /\ g[j] <= g[i])
  <2>. HIDE DEF f, g
  <2>1. f[j] \in Int /\ f[i] \in Int /\ f[j] <= f[i]
    BY <1>2, <1>3
  <2>2. CASE f[j] = f[i]
    <3>1. \A k \in 1..n : f[k] <= f[j]
      BY <1>3, <2>2
    <3>. QED BY <1>3, <2>2, <3>1
  <2>. QED BY <2>1, <2>2
<1>5. candidates[i] \in Range(candidates) /\ Best(candidates[i])
  BY <1>4 DEF Range
<1>. HIDE DEF Best
<1>6. best \in Range(candidates)
  BY <1>5
<1>7. run_multi_underlying_cycle(candidates)
        = IF \A j \in 1..n : candidates[j].selected = Missing THEN candidates[1] ELSE best
  BY DEF run_multi_underlying_cycle, Best
<1>8. \E j \in 1..n : best = candidates[j]
  BY <1>6 DEF Range
<1>. HIDE DEF best
<1>. QED BY <1>1, <1>7, <1>8

-----------------------------------------------------------------------------
(* Sequences of rows.                                                      *)

IsSeq(f) == f \in Seq(Range(f))

LEMMA SeqOver ==
    ASSUME NEW f, IsSeq(f), NEW S, Range(f) \subseteq S
    PROVE  f \in Seq(S)
BY DEF IsSeq, Range

LEMMA SeqIsSeq == ASSUME NEW S, NEW f \in Seq(S) PROVE IsSeq(f)
BY DEF IsSeq, Range

LEMMA Joined ==
    ASSUME NEW f, NEW g, IsSeq(f), IsSeq(g)
    PROVE  /\ IsSeq(f \o g) /\ Len(f) \in Nat /\ Len(g) \in Nat /\ Len(f \o g) = Len(f) + Len(g)
           /\ DOMAIN f = 1..Len(f) /\ DOMAIN g = 1..Len(g) /\ DOMAIN (f \o g) = 1..Len(f \o g)
           /\ \A i \in 1..Len(f) : (f \o g)[i] = f[i]
           /\ \A i \in 1..Len(g) : (f \o g)[Len(f) + i] = g[i]
           /\ Range(f \o g) = Range(f) \cup Range(g)
<1>. DEFINE S == Range(f) \cup Range(g)
<1>1. f \in Seq(S) /\ g \in Seq(S)
  BY SeqOver
<1>. HIDE DEF S
<1>2. /\ f \o g \in Seq(S) /\ Len(f) \in Nat /\ Len(g) \in Nat /\ Len(f \o g) = Len(f) + Len(g)
      /\ DOMAIN f = 1..Len(f) /\ DOMAIN g = 1..Len(g) /\ DOMAIN (f \o g) = 1..Len(f \o g)
      /\ \A i \in 1..Len(f) : (f \o g)[i] = f[i]
      /\ \A i \in 1..Len(g) : (f \o g)[Len(f) + i] = g[i]
  BY <1>1
<1>3. IsSeq(f \o g)
  BY <1>2, SeqIsSeq
<1>4. ASSUME NEW i \in 1..Len(f \o g)
      PROVE  i \in 1..Len(f) \/ \E j \in 1..Len(g) : i = Len(f) + j
  <2>1. CASE i > Len(f)
    <3>1. i - Len(f) \in 1..Len(g) /\ i = Len(f) + (i - Len(f))
      BY <1>2, <2>1
    <3>. QED BY <3>1
  <2>. QED BY <1>2, <2>1
<1>5. Range(f \o g) \subseteq Range(f) \cup Range(g)
  <2>1. ASSUME NEW i \in 1..Len(f \o g)
        PROVE  (f \o g)[i] \in Range(f) \cup Range(g)
    <3>1. CASE i \in 1..Len(f)
      BY <1>2, <3>1 DEF Range
    <3>2. ASSUME NEW j \in 1..Len(g), i = Len(f) + j
          PROVE  (f \o g)[i] \in Range(g)
      <4>1. (f \o g)[i] = g[j]
        BY <1>2, <3>2
      <4>. QED BY <1>2, <3>2, <4>1 DEF Range
    <3>. QED BY <1>4, <3>1, <3>2
  <2>. QED BY <1>2, <2>1 DEF Range
<1>6. \A j \in 1..Len(g) : Len(f) + j \in 1..Len(f \o g)
  BY <1>2
<1>7. \A i \in 1..Len(f) : i \in 1..Len(f \o g)
  BY <1>2
<1>8. Range(f) \cup Range(g) \subseteq Range(f \o g)
  BY <1>2, <1>6, <1>7 DEF Range
<1>. QED BY <1>2, <1>3, <1>5, <1>8

\* history() reads the last rows, all of them while they fit.
LEMMA RecentRows ==
    ASSUME NEW f, IsSeq(f), NEW n \in Nat
    PROVE  /\ IsSeq(Recent(f, n)) /\ Range(Recent(f, n)) \subseteq Range(f)
           /\ Len(f) <= n => Recent(f, n) = f
<1>. DEFINE S == Range(f)
            k == Max({1, Len(f) - n + 1})
<1>1. f \in Seq(S) /\ Len(f) \in Nat
  BY DEF IsSeq
<1>2. 1 \in Int /\ Len(f) - n + 1 \in Int
  BY <1>1
<1>3. k \in Int /\ k >= 1 /\ k \in {1, Len(f) - n + 1}
  BY <1>2, MinMaxPair, Zenon
<1>4. Recent(f, n) = SubSeq(f, k, Len(f))
  BY DEF Recent
<1>. HIDE DEF S, k
<1>5. k \in 1..(Len(f) + 1)
  BY <1>1, <1>3
<1>6. Recent(f, n) \in Seq(S)
  BY <1>1, <1>4, <1>5
<1>7. ASSUME Len(f) <= n PROVE Recent(f, n) = f
  <2>1. k = 1
    BY <1>1, <1>3, <1>7
  <2>. QED BY <1>1, <1>4, <2>1
<1>8. Range(Recent(f, n)) \subseteq S
  BY <1>6 DEF Range
<1>. QED BY <1>6, <1>7, <1>8, SeqIsSeq DEF S

LEMMA RangeFinite == ASSUME NEW f, IsSeq(f) PROVE IsFiniteSet(Range(f))
<1>. DEFINE n == Len(f)
            g == [i \in 1..n |-> f[i]]
<1>1. n \in Nat /\ DOMAIN f = 1..n
  BY DEF IsSeq
<1>. HIDE DEF n
<1>2. g \in Surjection(1..n, Range(f))
  BY <1>1 DEF Surjection, Range
<1>3. IsFiniteSet(1..n)
  BY <1>1, FS_Interval
<1>. QED BY <1>2, <1>3, FS_Surjection

\* The rows of a set, in some order, each of them once.
LEMMA RowsOfSet ==
    ASSUME NEW S, IsFiniteSet(S)
    PROVE  /\ IsSeq(SetToSeq(S)) /\ Range(SetToSeq(S)) \subseteq S
           /\ DOMAIN SetToSeq(S) = 1..Len(SetToSeq(S))
           /\ \A i, j \in DOMAIN SetToSeq(S) : SetToSeq(S)[i] = SetToSeq(S)[j] => i = j
<1>. DEFINE n == Cardinality(S)
            f == SetToSeq(S)
<1>1. n \in Nat
  BY FS_CardinalityType
<1>2. \E g \in [1..n -> S] : IsInjective(g)
  <2>1. PICK g : g \in Bijection(1..n, S)
    BY FS_CardinalityType DEF ExistsBijection
  <2>. QED BY <2>1 DEF Bijection, Injection
<1>3. f \in [1..n -> S] /\ IsInjective(f)
  BY <1>2 DEF SetToSeq
<1>. HIDE DEF n, f
<1>4. f \in Seq(S) /\ Len(f) = n
  BY <1>1, <1>3
<1>5. IsSeq(f) /\ Range(f) \subseteq S
  BY <1>4, SeqIsSeq DEF Range
<1>. QED BY <1>3, <1>4, <1>5 DEF IsInjective, f

-----------------------------------------------------------------------------
(* Marks.                                                                  *)

ShadowOK(h, now) == h.agent \in Agents /\ h.at \in 0..now /\ h.ask \in Nat \ {0}
MarkOK(m, now) == SampleOK(m) /\ m.at \in 0..now

LEMMA MarksOK ==
    ASSUME NEW now \in Nat, NEW history, IsSeq(history), \A h \in Range(history) : ShadowOK(h, now),
           NEW s, StateOK(s), s.quoted \in 0..now, NEW t
    PROVE  /\ IsFiniteSet(mark_shadows(history, s, t))
           /\ \A m \in mark_shadows(history, s, t) : MarkOK(m, now)
<1>. DEFINE mark(h, o) == [shadow |-> h.id, agent |-> h.agent, at |-> s.quoted, loss |-> h.ask,
                           pnl |-> o.bid - h.ask, complete |-> s.quoted - h.at >= Horizon]
            quotes == s.observations \cup s.options
            pairs == {y \in Range(history) \X quotes :
                y[2].symbol = y[1].symbol /\ s.quoted - y[1].at >= MarkAge /\ s.quoted <= t}
            found == [x \in pairs |-> mark(x[1], x[2])]
<1>1. mark_shadows(history, s, t) = {mark(x[1], x[2]) : x \in pairs}
  BY DEF mark_shadows
<1>2. IsFiniteSet(quotes) /\ \A o \in quotes : o.bid \in Nat \ {0}
  BY FS_Union DEF StateOK, Contracts
<1>3. IsFiniteSet(pairs) /\ pairs \subseteq Range(history) \X quotes
  <2>1. IsFiniteSet(Range(history) \X quotes)
    BY <1>2, RangeFinite, FS_Product
  <2>. QED BY <2>1, FS_Subset
<1>4. ASSUME NEW x \in pairs PROVE MarkOK(mark(x[1], x[2]), now)
  <2>1. x[1] \in Range(history) /\ x[2] \in quotes
    BY <1>3
  <2>2. x[1].ask \in Nat \ {0} /\ x[2].bid \in Nat \ {0}
    BY <1>2, <2>1 DEF ShadowOK
  <2>. QED BY <2>2 DEF MarkOK, SampleOK
<1>. HIDE DEF mark, pairs
<1>6. found \in Surjection(pairs, {mark(x[1], x[2]) : x \in pairs})
  BY DEF Surjection
<1>. HIDE DEF found
<1>7. IsFiniteSet({mark(x[1], x[2]) : x \in pairs})
  BY <1>3, <1>6, FS_Surjection
<1>. QED BY <1>1, <1>4, <1>7

\* What a cycle scores: of the old and the new marks, the first completed of each shadow.
LEMMA SamplesOK ==
    ASSUME NEW now \in Nat, NEW old, IsSeq(old), \A m \in Range(old) : MarkOK(m, now),
           NEW new, IsFiniteSet(new), \A m \in new : MarkOK(m, now)
    PROVE  LET found == FirstOf(Range(old) \cup new)
           IN  IsFiniteSet(found) /\ \A m \in found : SampleOK(m)
<1>1. IsFiniteSet(Range(old) \cup new)
  BY RangeFinite, FS_Union
<1>2. FirstOf(Range(old) \cup new) \subseteq Range(old) \cup new
  BY DEF FirstOf
<1>3. IsFiniteSet(FirstOf(Range(old) \cup new))
  BY <1>1, <1>2, FS_Subset
<1>. QED BY <1>2, <1>3 DEF MarkOK

-----------------------------------------------------------------------------
(* The invariant.  A run goes through three stages: what it has read of    *)
(* the tables (refresh, work), the states of the refresh (work), and what  *)
(* the cycle made of both (dispatch, final, save).                         *)

Early == {"refresh", "work"}
Late == {"dispatch", "final", "save"}

ClocksInv ==
    /\ clock \in Nat /\ clock <= MaxClock /\ tape \in Nat /\ tape <= clock
    /\ cycles \in Nat /\ cycles <= MaxCycles

RowsInv ==
    /\ IsSeq(shadows) /\ \A h \in Range(shadows) : ShadowOK(h, clock)
    /\ IsSeq(marks) /\ \A m \in Range(marks) : MarkOK(m, clock)

\* A cycle sends one order at most.
PostedInv ==
    /\ IsFiniteSet(posted) /\ Cardinality(posted) <= cycles
    /\ run.phase \in Early \cup {"dispatch", "final"} => Cardinality(posted) < cycles

RunInv ==
    /\ DOMAIN run = DOMAIN Idle2
    /\ run.phase \in Phases /\ run.runner \in Runners /\ run.now \in Nat /\ run.now <= clock
    /\ IsFiniteSet(run.samples) /\ \A m \in run.samples : SampleOK(m)
    /\ run.phase \notin Late => run.cycle = Missing /\ run.samples = {}

\* Nobody inserts a row while a cycle is at work, so what the batch read stays the table.
ReadInv == run.phase \in Early =>
    IF run.runner = "batch"
    THEN /\ run.history = Recent(shadows, ShadowWindow) /\ run.old = Recent(marks, MarkWindow)
         /\ \A h \in Range(shadows) : h.at <= run.now
    ELSE run.history = <<>> /\ run.old = <<>>

\* The refresh is later than the clock that the batch has read.
StatesInv == run.phase = "work" =>
    \A i \in DOMAIN Universe :
        /\ StateOK(run.states[i]) /\ run.states[i].underlying = Universe[i]
        /\ run.states[i].quoted \in 0..clock
        /\ run.states[i].at \in Nat /\ run.states[i].at > run.now

\* A new shadow keeps its distance from those of the table, if the window shows all of them.
Apart(p) == Len(shadows) <= ShadowWindow =>
    \A h \in Range(shadows) :
        h.agent = p.agent /\ h.symbol = p.contract.symbol => p.at - h.at >= Horizon

CycleInv == run.phase \in Late =>
    /\ IsFiniteSet(run.marks) /\ \A m \in run.marks : MarkOK(m, clock)
    /\ IsFiniteSet(run.cycle.shadows) /\ \A p \in run.cycle.shadows : ShadowOK(ShadowRow(p), clock)
    /\ \A p, q \in run.cycle.shadows : p.agent = q.agent => p = q
    /\ run.runner = "batch" => run.cycle.selected = Missing /\ \A p \in run.cycle.shadows : Apart(p)

\* What goes to the dispatcher has passed the gates of the research, in the state kept with it.
ThesisInv == run.phase \in {"dispatch", "final"} =>
    /\ run.runner = "session" /\ StateOK(run.cycle.state)
    /\ run.cycle.state.underlying \in Range(Universe)
    /\ run.intent = make_intent(run.cycle.selected, run.intent.at)
    /\ ProposalOK(run.cycle.selected, run.cycle.state, run.intent.at)
    /\ Sound(run.cycle.selected, run.cycle.state, session_policy, run.intent.at)
    /\ run.phase = "final" => StateOK(run.states[1])

ResearchInv ==
    /\ ClocksInv /\ RowsInv /\ PostedInv /\ RunInv /\ ReadInv /\ StatesInv /\ CycleInv /\ ThesisInv
    /\ OrderIsJustified /\ ShadowsApart

\* A run that has ended leaves nothing behind.
LEMMA IdleRun ==
    ASSUME run' = Idle2, ClocksInv'
    PROVE  /\ RunInv' /\ ReadInv' /\ StatesInv' /\ CycleInv' /\ ThesisInv'
           /\ run'.phase = "idle"
<1>1. /\ run'.phase = "idle" /\ run'.runner = "batch" /\ run'.now = 0 /\ run'.cycle = Missing
      /\ run'.samples = {}
  BY DEF Idle2
<1>2. RunInv'
  <2>1. IsFiniteSet({})
    BY FS_EmptySet
  <2>. QED BY <1>1, <2>1 DEF RunInv, ClocksInv, Phases, Runners, Late
<1>. QED BY <1>1, <1>2 DEF ReadInv, StatesInv, CycleInv, ThesisInv, Early, Late

\* The rows stay in order when the clock moves on.
LEMMA RowsLater ==
    ASSUME RowsInv, ClocksInv, clock' \in Nat, clock <= clock', UNCHANGED <<shadows, marks>>
    PROVE  RowsInv'
BY DEF RowsInv, ClocksInv, ShadowOK, MarkOK

LEMMA ResearchInit == Init2 => ResearchInv
<1>. SUFFICES ASSUME Init2 PROVE ResearchInv
  OBVIOUS
<1>1. ClocksInv
  BY ResearchConstants DEF Init2, ClocksInv
<1>2. RowsInv
  BY DEF Init2, RowsInv, IsSeq, Range
<1>3. run = Idle2 /\ run.phase = "idle" /\ run.runner = "batch" /\ run.now = 0 /\ run.cycle = Missing
      /\ run.samples = {}
  BY DEF Init2, Idle2
<1>4. PostedInv
  BY <1>3, FS_EmptySet DEF Init2, PostedInv, Early
<1>5. RunInv
  BY <1>3, FS_EmptySet DEF Init2, RunInv, Phases, Runners, Late
<1>6. ReadInv /\ StatesInv /\ CycleInv /\ ThesisInv
  BY <1>3 DEF ReadInv, StatesInv, CycleInv, ThesisInv, Early, Late
<1>7. OrderIsJustified /\ ShadowsApart
  BY DEF Init2, OrderIsJustified, ShadowsApart
<1>. QED BY <1>1, <1>2, <1>4, <1>5, <1>6, <1>7 DEF ResearchInv

LEMMA PassInv == ResearchInv /\ Pass => ResearchInv'
<1>. SUFFICES ASSUME ResearchInv, Pass PROVE ResearchInv'
  OBVIOUS
<1>. USE DEF ResearchInv, Pass, Later, Phase
<1>1. ClocksInv' /\ clock' \in Nat /\ clock <= clock'
  BY ResearchConstants DEF ClocksInv
<1>2. RowsInv'
  BY <1>1, RowsLater
<1>3. RunInv' /\ ReadInv' /\ StatesInv' /\ CycleInv' /\ ThesisInv' /\ PostedInv'
  BY <1>1 DEF RunInv, ReadInv, StatesInv, CycleInv, ThesisInv, PostedInv, ClocksInv, Early, Late
<1>4. OrderIsJustified' /\ ShadowsApart'
  BY DEF OrderIsJustified, ShadowsApart
<1>. QED BY <1>1, <1>2, <1>3, <1>4

LEMMA AbandonedInv == ResearchInv /\ Abandoned => ResearchInv'
<1>. SUFFICES ASSUME ResearchInv, Abandoned PROVE ResearchInv'
  OBVIOUS
<1>. USE DEF ResearchInv, Abandoned
<1>1. ClocksInv' /\ RowsInv'
  BY DEF ClocksInv, RowsInv
<1>2. RunInv' /\ ReadInv' /\ StatesInv' /\ CycleInv' /\ ThesisInv' /\ run'.phase = "idle"
  BY <1>1, IdleRun
<1>3. PostedInv'
  BY <1>2 DEF PostedInv, Early
<1>4. OrderIsJustified' /\ ShadowsApart'
  BY DEF OrderIsJustified, ShadowsApart
<1>. QED BY <1>1, <1>2, <1>3, <1>4

LEMMA BeginInv == ResearchInv /\ (\E runner \in Runners : Begin(runner)) => ResearchInv'
<1>. SUFFICES ASSUME ResearchInv, NEW runner \in Runners, Begin(runner) PROVE ResearchInv'
  OBVIOUS
<1>. USE DEF ResearchInv, Begin, Phase
<1>1. ClocksInv' /\ RowsInv'
  BY ResearchConstants DEF ClocksInv, RowsInv
<1>2. /\ DOMAIN run' = DOMAIN Idle2 /\ run'.phase = "refresh" /\ run'.runner = runner
      /\ run'.now = clock /\ run'.cycle = Missing /\ run'.samples = {}
      /\ run'.history = IF runner = "batch" THEN Recent(shadows, ShadowWindow) ELSE <<>>
      /\ run'.old = IF runner = "batch" THEN Recent(marks, MarkWindow) ELSE <<>>
  BY DEF Idle2
<1>3. RunInv'
  BY <1>2, FS_EmptySet DEF RunInv, ClocksInv, Phases, Late
<1>4. ReadInv'
  BY <1>2 DEF ReadInv, RowsInv, ShadowOK, ClocksInv
<1>5. StatesInv' /\ CycleInv' /\ ThesisInv'
  BY <1>2 DEF StatesInv, CycleInv, ThesisInv, Late
<1>6. PostedInv'
  <2>1. Cardinality(posted) \in Nat
    BY FS_CardinalityType DEF PostedInv
  <2>. QED BY <1>2, <2>1 DEF PostedInv, ClocksInv
<1>7. OrderIsJustified' /\ ShadowsApart'
  BY DEF OrderIsJustified, ShadowsApart
<1>. QED BY <1>1, <1>3, <1>4, <1>5, <1>6, <1>7

\* What a refresh may return is a market state of this moment.
LEMMA ReadingOK ==
    ASSUME NEW u \in Range(Universe), NEW quoted, NEW s, s \in Readings(u, quoted)
    PROVE  StateOK(s) /\ s.underlying = u /\ s.at = clock' /\ s.quoted = quoted
<1>1. PICK v \in Views[u] : s = Read(u, v, quoted) \/ s = Degraded(Read(u, v, quoted))
  BY DEF Readings
<1>. DEFINE read == Read(u, v, quoted)
<1>2. MarketState(v) /\ u \in {"SPY", "QQQ"}
  <2>1. Range(Universe) \subseteq {"SPY", "QQQ"}
    BY ResearchConstants DEF Range
  <2>. QED BY <2>1, ResearchConstants
<1>3. /\ DOMAIN read = DOMAIN v
      /\ read.underlying = u /\ read.at = clock' /\ read.quoted = quoted
      /\ read.features = v.features /\ read.options = v.options
      /\ read.observations = v.observations /\ read.positions = v.positions
      /\ read.equity = v.equity /\ read.cash = v.cash
  BY <1>2 DEF Read, MarketState
<1>. HIDE DEF read
<1>4. StateOK(read)
  BY <1>2, <1>3 DEF StateOK, MarketState
<1>5. ASSUME s = Degraded(read)
      PROVE  StateOK(s) /\ s.underlying = u /\ s.at = clock' /\ s.quoted = quoted
  <2>1. /\ s.features = Missing /\ s.options = {}
        /\ s.underlying = u /\ s.at = clock' /\ s.quoted = quoted
        /\ s.observations = read.observations /\ s.positions = read.positions
        /\ s.equity = read.equity /\ s.cash = read.cash
    BY <1>2, <1>3, <1>5 DEF Degraded, MarketState
  <2>2. Contracts({})
    BY FS_EmptySet DEF Contracts
  <2>. QED BY <1>2, <1>4, <2>1, <2>2 DEF StateOK
<1>. QED BY <1>1, <1>3, <1>4, <1>5 DEF read

LEMMA RefreshInv == ResearchInv /\ Refresh => ResearchInv'
<1>. SUFFICES ASSUME ResearchInv, Refresh PROVE ResearchInv'
  OBVIOUS
<1>. USE DEF ResearchInv
<1>1. /\ run.phase = "refresh" /\ clock < MaxClock /\ clock' = clock + 1
      /\ UNCHANGED <<cycles, shadows, marks, posted>>
  BY DEF Refresh, Later, Phase
<1>2. PICK quoted, states :
          /\ quoted \in tape..clock' /\ tape' = quoted /\ run' = [run EXCEPT !.phase = "work", !.states = states]
          /\ \A i \in DOMAIN Universe : states[i] \in Readings(Universe[i], quoted)
  BY DEF Refresh
<1>3. /\ DOMAIN run' = DOMAIN Idle2 /\ run'.phase = "work" /\ run'.states = states
      /\ run'.runner = run.runner /\ run'.now = run.now /\ run'.cycle = run.cycle
      /\ run'.samples = run.samples /\ run'.history = run.history /\ run'.old = run.old
  BY <1>2 DEF RunInv, Idle2
<1>4. ClocksInv' /\ clock' \in Nat /\ clock <= clock'
  BY <1>1, <1>2, ResearchConstants DEF ClocksInv
<1>5. RowsInv'
  BY <1>1, <1>4, RowsLater
<1>6. RunInv'
  BY <1>1, <1>3, <1>4 DEF RunInv, ClocksInv, Phases, Late
<1>7. ReadInv'
  BY <1>1, <1>3 DEF ReadInv, Early
<1>8. StatesInv'
  <2>1. ASSUME NEW i \in DOMAIN Universe
        PROVE  /\ StateOK(run'.states[i]) /\ run'.states[i].underlying = Universe[i]
               /\ run'.states[i].quoted \in 0..clock'
               /\ run'.states[i].at \in Nat /\ run'.states[i].at > run'.now
    <3>1. Universe[i] \in Range(Universe)
      BY DEF Range
    <3>2. states[i] \in Readings(Universe[i], quoted)
      BY <1>2
    <3>3. /\ StateOK(states[i]) /\ states[i].underlying = Universe[i]
          /\ states[i].at = clock' /\ states[i].quoted = quoted
      BY <3>1, <3>2, ReadingOK
    <3>. QED BY <1>1, <1>2, <1>3, <3>3 DEF ClocksInv, RunInv
  <2>. QED BY <2>1 DEF StatesInv
<1>9. CycleInv' /\ ThesisInv' /\ PostedInv'
  BY <1>1, <1>3 DEF CycleInv, ThesisInv, PostedInv, RunInv, Early, Late
<1>10. OrderIsJustified' /\ ShadowsApart'
  BY <1>1 DEF OrderIsJustified, ShadowsApart
<1>. QED BY <1>4, <1>5, <1>6, <1>7, <1>8, <1>9, <1>10

LEMMA RereadInv == ResearchInv /\ Reread => ResearchInv'
<1>. SUFFICES ASSUME ResearchInv, Reread PROVE ResearchInv'
  OBVIOUS
<1>. USE DEF ResearchInv
<1>1. /\ run.phase = "dispatch" /\ clock < MaxClock /\ clock' = clock + 1
      /\ UNCHANGED <<cycles, shadows, marks, posted>>
  BY DEF Reread, Later, Phase
<1>2. PICK quoted, s :
          /\ quoted \in tape..clock' /\ s \in Readings(run.intent.underlying, quoted)
          /\ tape' = quoted /\ run' = [run EXCEPT !.phase = "final", !.states = <<s>>]
  BY DEF Reread
<1>3. /\ DOMAIN run' = DOMAIN Idle2 /\ run'.phase = "final" /\ run'.states = <<s>>
      /\ run'.runner = run.runner /\ run'.now = run.now /\ run'.cycle = run.cycle
      /\ run'.samples = run.samples /\ run'.marks = run.marks /\ run'.intent = run.intent
  BY <1>2 DEF RunInv, Idle2
<1>4. ClocksInv' /\ clock' \in Nat /\ clock <= clock'
  BY <1>1, <1>2, ResearchConstants DEF ClocksInv
<1>5. RowsInv'
  BY <1>1, <1>4, RowsLater
<1>6. RunInv'
  BY <1>1, <1>3, <1>4 DEF RunInv, ClocksInv, Phases, Late
<1>7. StateOK(s)
  <2>1. run.intent.underlying \in Range(Universe)
    BY <1>1 DEF ThesisInv, make_intent, Sound
  <2>. QED BY <1>2, <2>1, ReadingOK
<1>8. ThesisInv'
  BY <1>1, <1>3, <1>7 DEF ThesisInv
<1>9. CycleInv'
  BY <1>1, <1>3, <1>4 DEF CycleInv, ClocksInv, Late, MarkOK, ShadowOK, ShadowRow, Apart
<1>10. ReadInv' /\ StatesInv' /\ PostedInv'
  BY <1>1, <1>3 DEF ReadInv, StatesInv, PostedInv, RunInv, Early, Late
<1>11. OrderIsJustified' /\ ShadowsApart'
  BY <1>1 DEF OrderIsJustified, ShadowsApart
<1>. QED BY <1>4, <1>5, <1>6, <1>8, <1>9, <1>10, <1>11

LEMMA RejectedInv == ResearchInv /\ Rejected => ResearchInv'
<1>. SUFFICES ASSUME ResearchInv, Rejected PROVE ResearchInv'
  OBVIOUS
<1>. USE DEF ResearchInv, Rejected
<1>1. /\ DOMAIN run' = DOMAIN Idle2 /\ run'.phase = "save"
      /\ run'.runner = run.runner /\ run'.now = run.now /\ run'.cycle = run.cycle
      /\ run'.samples = run.samples /\ run'.marks = run.marks
  BY DEF RunInv, Idle2
<1>2. ClocksInv' /\ RowsInv'
  BY DEF ClocksInv, RowsInv
<1>3. RunInv'
  BY <1>1 DEF RunInv, Phases, Late
<1>4. CycleInv'
  BY <1>1 DEF CycleInv, Late, MarkOK, ShadowOK, ShadowRow, Apart
<1>5. ReadInv' /\ StatesInv' /\ ThesisInv' /\ PostedInv'
  BY <1>1 DEF ReadInv, StatesInv, ThesisInv, PostedInv, RunInv, Early, Late
<1>6. OrderIsJustified' /\ ShadowsApart'
  BY DEF OrderIsJustified, ShadowsApart
<1>. QED BY <1>2, <1>3, <1>4, <1>5, <1>6

\* The minimum of three.
LEMMA MinOfThree ==
    ASSUME NEW a \in Int, NEW b \in Int, NEW c \in Int, NEW x \in Int, x <= a, x <= b, x <= c
    PROVE  x <= Min({a, b, c})
<1>1. \E m \in {a, b, c} : \A y \in {a, b, c} : m <= y
  <2>1. CASE a <= b /\ a <= c
    BY <2>1
  <2>2. CASE b <= a /\ b <= c
    BY <2>2
  <2>3. CASE c <= a /\ c <= b
    BY <2>3
  <2>. QED BY <2>1, <2>2, <2>3
<1>2. Min({a, b, c}) \in {a, b, c}
  BY <1>1 DEF Min
<1>. QED BY <1>2

\* Both states of an order justify it: the one of the research by its gates, the one of
\* the dispatcher by the gates on the fresh contract and the scope of the session.
LEMMA DispatchInv == ResearchInv /\ Dispatch2 => ResearchInv'
<1>. SUFFICES ASSUME ResearchInv, Dispatch2 PROVE ResearchInv'
  OBVIOUS
<1>. USE DEF ResearchInv
<1>. DEFINE s == run.states[1]
            research == run.cycle.state
            chosen == run.cycle.selected
            intent == run.intent
            current == Current(intent, s)
            p == [intent.proposal EXCEPT !.contract = current]
            order == [contract |-> current, limit |-> intent.contract.ask, at |-> clock,
                      final |-> s, research |-> research]
<1>1. /\ run.phase = "final" /\ posted' = posted \cup {order}
      /\ run' = [run EXCEPT !.phase = "save"]
      /\ UNCHANGED <<clock, cycles, shadows, marks, tape>>
  BY DEF Dispatch2, Phase
<1>2. /\ \E active \in BOOLEAN : session_scope(intent, s, active)
      /\ TermsOk(intent, s)
      /\ execution_preflight(p, s, session_policy, TRUE, clock)
  BY DEF Dispatch2
<1>3. /\ StateOK(research) /\ StateOK(s)
      /\ intent = make_intent(chosen, intent.at)
      /\ ProposalOK(chosen, research, intent.at)
      /\ Sound(chosen, research, session_policy, intent.at)
  BY <1>1 DEF ThesisInv
<1>4. Sound(p, s, session_policy, clock)
  BY <1>2, PreflightIsSound
<1>5. /\ intent.contract = chosen.contract /\ intent.underlying = chosen.underlying
      /\ intent.proposal = chosen
  BY <1>3 DEF make_intent
<1>6. /\ \E o \in s.options : o.symbol = intent.contract.symbol
      /\ current.ask = intent.contract.ask
  BY <1>2 DEF TermsOk
<1>7. current \in s.options /\ current.symbol = intent.contract.symbol
  BY <1>6 DEF Current
<1>8. p.contract = current /\ p.underlying = chosen.underlying
  <2>1. p = [chosen EXCEPT !.contract = current]
    BY <1>5
  <2>. QED BY <1>3, <2>1 DEF ProposalOK
<1>9. /\ order.contract = current /\ order.limit = current.ask /\ order.at = clock
      /\ order.final = s /\ order.research = research /\ order.limit = chosen.contract.ask
      /\ order.limit = intent.contract.ask
  BY <1>5, <1>6
<1>10. order.limit \in Nat
  BY <1>3, <1>7, <1>9 DEF StateOK, Contracts
<1>11. /\ CostBasis(s) + order.limit <= AggregateCap(s)
       /\ Cardinality(s.positions) + 1 <= Session.max_positions
       /\ order.limit <= Min({Session.max_new_risk, s.equity \div 200})
  BY <1>2, <1>9 DEF session_scope
<1>. HIDE DEF p, order, current, chosen, research, s, intent
<1>12. Session.max_new_risk \in Int /\ Session.max_positions \in Int
  BY ResearchConstants
<1>13. order.limit <= Session.max_new_risk /\ order.limit <= s.equity \div 200
  <2>. DEFINE a == Session.max_new_risk
              b == s.equity \div 200
  <2>1. a \in Int /\ b \in Int
    BY <1>3, <1>12 DEF StateOK
  <2>2. order.limit <= Min({a, b})
    BY <1>11
  <2>. HIDE DEF a, b
  <2>3. Min({a, b}) \in Int /\ Min({a, b}) <= a /\ Min({a, b}) <= b
    BY <2>1, MinMaxPair, Zenon
  <2>4. order.limit <= a /\ order.limit <= b
    BY <1>10, <2>1, <2>2, <2>3
  <2>. QED BY <2>4 DEF a, b
<1>14. ASSUME NEW x \in {s, research}
       PROVE  /\ \E o \in x.options : o.symbol = current.symbol /\ o.ask = order.limit
              /\ x.account /\ x.open /\ x.official /\ ~x.working /\ ~x.recent
              /\ \A y \in x.positions : y.underlying # current.underlying
              /\ Cardinality(x.positions) + 1 <= Session.max_positions
              /\ CostBasis(x) + order.limit <= x.equity \div 50
              /\ order.limit <= Min({Session.max_new_risk, x.equity \div 200, x.cash})
  <2>1. StateOK(x)
    BY <1>3
  <2>2. \E o \in x.options : o.symbol = current.symbol /\ o.ask = order.limit
    BY <1>3, <1>5, <1>7, <1>9 DEF Sound
  <2>3. PICK q, t : /\ Sound(q, x, session_policy, t) /\ q.contract.ask = order.limit
                    /\ q.underlying = current.underlying
    BY <1>3, <1>4, <1>8, <1>9 DEF Sound
  <2>4. /\ x.account /\ x.open /\ x.official /\ ~x.working /\ ~x.recent
        /\ \A y \in x.positions : y.underlying # current.underlying
        /\ CostBasis(x) + order.limit <= x.equity \div 50
        /\ order.limit <= x.cash /\ order.limit <= PerTrade(x, session_policy)
        /\ Cardinality(x.positions) < Session.max_positions
    BY <2>3 DEF Sound, Concentrated, session_policy
  <2>5. Cardinality(x.positions) + 1 <= Session.max_positions
    <3>1. Cardinality(x.positions) \in Nat
      BY <2>1, FS_CardinalityType DEF StateOK
    <3>. QED BY <1>12, <2>4, <3>1
  <2>6. order.limit <= x.equity \div 200
    <3>. DEFINE a == session_policy.per_trade_dollars
                b == x.equity \div 200
    <3>1. a \in Int
      <4>1. 1 \in Int /\ Session.max_new_risk \in Int
        BY <1>12
      <4>. QED BY <4>1, MinMaxPair, Zenon DEF session_policy
    <3>2. b \in Int
      BY <2>1 DEF StateOK
    <3>. HIDE DEF a
    <3>3. PerTrade(x, session_policy) = Min({a, b})
      BY DEF PerTrade, a
    <3>. HIDE DEF b
    <3>4. Min({a, b}) \in Int /\ Min({a, b}) <= b
      BY <3>1, <3>2, MinMaxPair, Zenon
    <3>. QED BY <1>10, <2>4, <3>2, <3>3, <3>4 DEF b
  <2>7. order.limit <= Min({Session.max_new_risk, x.equity \div 200, x.cash})
    <3>1. x.equity \div 200 \in Int /\ x.cash \in Int
      BY <2>1 DEF StateOK
    <3>2. order.limit \in Int
      BY <1>10
    <3>. QED BY <1>12, <1>13, <2>4, <2>6, <3>1, <3>2, MinOfThree, Zenon
  <2>. QED BY <2>2, <2>4, <2>5, <2>7
<1>15. Fresh(order.at - order.final.quoted)
  BY <1>4, <1>9 DEF Sound
<1>16. OrderIsJustified'
  <2>. DEFINE Justified(o) ==
           /\ o.limit = o.contract.ask /\ Fresh(o.at - o.final.quoted)
           /\ CostBasis(o.final) + o.limit <= AggregateCap(o.final)
           /\ \A x \in {o.final, o.research} :
                /\ \E q \in x.options : q.symbol = o.contract.symbol /\ q.ask = o.limit
                /\ x.account /\ x.open /\ x.official /\ ~x.working /\ ~x.recent
                /\ \A y \in x.positions : y.underlying # o.contract.underlying
                /\ Cardinality(x.positions) + 1 <= Session.max_positions
                /\ CostBasis(x) + o.limit <= x.equity \div 50
                /\ o.limit <= Min({Session.max_new_risk, x.equity \div 200, x.cash})
  <2>1. {order.final, order.research} = {s, research}
    BY <1>9
  <2>2. Justified(order)
    <3>1. /\ order.limit = order.contract.ask /\ Fresh(order.at - order.final.quoted)
          /\ CostBasis(order.final) + order.limit <= AggregateCap(order.final)
      BY <1>9, <1>11, <1>15
    <3>2. order.contract = current
      BY <1>9
    <3>. QED BY <1>14, <2>1, <3>1, <3>2, Zenon
  <2>3. \A o \in posted : Justified(o)
    BY DEF OrderIsJustified
  <2>. HIDE DEF Justified
  <2>4. \A o \in posted' : Justified(o)
    BY <1>1, <2>2, <2>3
  <2>. QED BY <2>4 DEF OrderIsJustified, Justified
<1>17. /\ DOMAIN run' = DOMAIN Idle2 /\ run'.phase = "save"
       /\ run'.runner = run.runner /\ run'.now = run.now /\ run'.cycle = run.cycle
       /\ run'.samples = run.samples /\ run'.marks = run.marks
  BY <1>1 DEF RunInv, Idle2
<1>18. ClocksInv' /\ RowsInv'
  BY <1>1 DEF ClocksInv, RowsInv
<1>19. RunInv'
  BY <1>1, <1>17 DEF RunInv, Phases, Late
<1>20. CycleInv'
  BY <1>1, <1>17 DEF CycleInv, Late, MarkOK, ShadowOK, ShadowRow, Apart
<1>21. ReadInv' /\ StatesInv' /\ ThesisInv' /\ ShadowsApart'
  BY <1>1, <1>17 DEF ReadInv, StatesInv, ThesisInv, ShadowsApart, Early
<1>22. PostedInv'
  <2>1. IsFiniteSet(posted) /\ Cardinality(posted) < cycles /\ cycles \in Nat
    BY <1>1 DEF PostedInv, ClocksInv
  <2>2. /\ IsFiniteSet(posted \cup {order})
        /\ Cardinality(posted \cup {order}) \in {Cardinality(posted), Cardinality(posted) + 1}
        /\ Cardinality(posted) \in Nat
    BY <2>1, FS_AddElement, FS_CardinalityType
  <2>3. cycles' = cycles /\ posted' = posted \cup {order}
    BY <1>1
  <2>. HIDE DEF order
  <2>4. IsFiniteSet(posted') /\ Cardinality(posted') <= cycles'
    BY <2>1, <2>2, <2>3
  <2>. QED BY <1>17, <2>4 DEF PostedInv, Early
<1>. QED BY <1>16, <1>18, <1>19, <1>20, <1>21, <1>22

\* Whatever the refresh has shown, the cycle keeps typed marks, samples and shadows; the
\* shadows of a batch keep their distance, its evaluation is older than its states, and what
\* a session selects has passed the gates.
LEMMA EvaluateInv == ResearchInv /\ Evaluate => ResearchInv'
<1>. SUFFICES ASSUME ResearchInv, Evaluate PROVE ResearchInv'
  OBVIOUS
<1>. USE DEF ResearchInv
<1>. DEFINE t == EvaluatedAt
            policy == IF run.runner = "batch" THEN Policy ELSE session_policy
            found(s) == mark_shadows(run.history, s, t)
            scored(s) == FirstOf(Range(run.old) \cup found(s))
            cands == [i \in DOMAIN Universe |->
                        run_cycle(run.states[i], policy, run.history, scored(run.states[i]), t)]
            cycle == run_multi_underlying_cycle(cands)
            p == cycle.selected
            n == Len(Universe)
<1>1. /\ run.phase = "work" /\ UNCHANGED <<clock, cycles, shadows, marks, posted, tape>>
      /\ run' = [Idle2 EXCEPT !.phase = IF run.runner = "session" /\ p # Missing /\ Session.entry
                                      THEN "dispatch" ELSE "save",
                            !.runner = run.runner, !.cycle = cycle, !.marks = found(cycle.state),
                            !.samples = scored(cycle.state),
                            !.intent = IF p = Missing THEN Missing ELSE make_intent(p, t)]
  BY DEF Evaluate, Evaluation, MarkedNow, SamplesNow, Phase
<1>. HIDE DEF cycle
<1>2. /\ DOMAIN run' = DOMAIN Idle2
      /\ run'.phase = IF run.runner = "session" /\ p # Missing /\ Session.entry
                      THEN "dispatch" ELSE "save"
      /\ run'.runner = run.runner /\ run'.now = 0 /\ run'.cycle = cycle
      /\ run'.marks = found(cycle.state) /\ run'.samples = scored(cycle.state)
      /\ p # Missing => run'.intent = make_intent(p, t)
  <2>. HIDE DEF found, scored, t, p
  <2>. QED BY <1>1 DEF Idle2
<1>. HIDE DEF p
<1>3. n \in Nat \ {0} /\ DOMAIN Universe = 1..n
  BY ResearchConstants
<1>4. /\ clock \in Nat /\ t \in 0..clock /\ run.runner \in Runners
      /\ run.runner = "batch" => t = run.now
  BY <1>1 DEF EvaluatedAt, ClocksInv, RunInv
<1>. HIDE DEF t, n
<1>5. /\ policy.per_trade_dollars \in Int
      /\ run.runner = "session" => policy = session_policy
  <2>1. 1 \in Int /\ Session.max_new_risk \in Int
    BY ResearchConstants
  <2>2. session_policy.per_trade_dollars \in Int
    BY <2>1, MinMaxPair, Zenon DEF session_policy
  <2>3. Policy.per_trade_dollars \in Int
    BY DEF Policy
  <2>. QED BY <2>2, <2>3
<1>. HIDE DEF policy
<1>6. /\ IsSeq(run.history) /\ \A h \in Range(run.history) : ShadowOK(h, clock)
      /\ IsSeq(run.old) /\ \A m \in Range(run.old) : MarkOK(m, clock)
  <2>1. CASE run.runner = "batch"
    <3>1. run.history = Recent(shadows, ShadowWindow) /\ run.old = Recent(marks, MarkWindow)
      BY <1>1, <2>1 DEF ReadInv, Early
    <3>. QED BY <3>1, RecentRows, ResearchConstants DEF RowsInv
  <2>2. CASE run.runner = "session"
    <3>1. run.history = <<>> /\ run.old = <<>>
      BY <1>1, <2>2 DEF ReadInv, Early
    <3>. QED BY <3>1 DEF IsSeq, Range
  <2>. QED BY <1>4, <2>1, <2>2 DEF Runners
<1>7. ASSUME NEW i \in 1..n
      PROVE  /\ StateOK(run.states[i]) /\ run.states[i].underlying = Universe[i]
             /\ run.states[i].quoted \in 0..clock
        /\ run.states[i].at \in Nat /\ run.states[i].at > run.now
             /\ Universe[i] \in Range(Universe)
  BY <1>1, <1>3 DEF StatesInv, Range
<1>8. ASSUME NEW i \in 1..n
      PROVE  /\ IsFiniteSet(found(run.states[i]))
             /\ \A m \in found(run.states[i]) : MarkOK(m, clock)
  BY <1>4, <1>6, <1>7, MarksOK
<1>. HIDE DEF found
<1>9. ASSUME NEW i \in 1..n
      PROVE  IsFiniteSet(scored(run.states[i])) /\ \A m \in scored(run.states[i]) : SampleOK(m)
  BY <1>4, <1>6, <1>8, SamplesOK
<1>. HIDE DEF scored
<1>10. ASSUME NEW i \in 1..n
       PROVE  CycleOK(cands[i], run.states[i], policy, run.history, t)
  <2>. DEFINE s == run.states[i]
              pool == scored(s)
              history == run.history
  <2>1. cands[i] = run_cycle(s, policy, history, pool, t)
    BY <1>3
  <2>2. StateOK(s) /\ IsFiniteSet(pool) /\ \A m \in pool : SampleOK(m)
    BY <1>7, <1>9
  <2>. HIDE DEF s, pool, history, cands
  <2>3. CycleOK(run_cycle(s, policy, history, pool, t), s, policy, history, t)
    BY <1>5, <2>2, RunCycleOK
  <2>4. CycleOK(cands[i], s, policy, history, t)
    BY <2>1, <2>3
  <2>. QED BY <2>4 DEF s, history
<1>11. DOMAIN cands = 1..n
  BY <1>3
<1>. HIDE DEF cands
<1>12. \A i \in 1..n : /\ cands[i].score \in Int
                       /\ cands[i].state.underlying \in {"SPY", "QQQ"}
  BY <1>7, <1>10 DEF CycleOK, StateOK
<1>13. PICK k \in 1..n : cycle = cands[k]
  BY <1>3, <1>11, <1>12, MultiIsOne DEF cycle
<1>. DEFINE s == run.states[k]
<1>14. CycleOK(cycle, s, policy, run.history, t) /\ cycle.state = s
  BY <1>10, <1>13 DEF CycleOK
<1>15. ASSUME run.runner = "batch" PROVE cycle.selected = Missing
  <2>1. s.at \in Nat /\ t \in Nat /\ t < s.at
    BY <1>4, <1>7, <1>15 DEF RunInv
  <2>2. ~ Fresh(t - s.at)
    BY <2>1, ResearchConstants DEF Fresh
  <2>. QED BY <1>14, <2>2 DEF CycleOK, Sound
<1>16. ClocksInv' /\ RowsInv'
  BY <1>1 DEF ClocksInv, RowsInv
<1>17. RunInv'
  <2>1. IsFiniteSet(run'.samples) /\ \A m \in run'.samples : SampleOK(m)
    BY <1>2, <1>9, <1>14
  <2>. QED BY <1>2, <1>4, <1>16, <2>1 DEF RunInv, ClocksInv, Phases, Late
<1>18. ReadInv' /\ StatesInv'
  BY <1>2 DEF ReadInv, StatesInv, Early
<1>19. PostedInv'
  BY <1>1, <1>2 DEF PostedInv, ClocksInv, Early
<1>20. OrderIsJustified' /\ ShadowsApart'
  BY <1>1 DEF OrderIsJustified, ShadowsApart
<1>22. CycleInv'
  <2>1. IsFiniteSet(run'.marks) /\ \A m \in run'.marks : MarkOK(m, clock')
    BY <1>1, <1>2, <1>8, <1>14
  <2>2. /\ IsFiniteSet(cycle.shadows)
        /\ \A q, r \in cycle.shadows : q.agent = r.agent => q = r
        /\ \A q \in cycle.shadows : /\ ProposalOK(q, s, t) /\ q.contract # Missing
                                     /\ ~Suppressed(q, run.history, t)
    BY <1>14 DEF CycleOK
  <2>3. ASSUME NEW q \in cycle.shadows PROVE ShadowOK(ShadowRow(q)', clock')
    <3>1. q.agent \in Agents /\ q.at = t /\ q.contract \in s.options
      BY <2>2 DEF ProposalOK
    <3>2. q.contract.ask \in Nat \ {0}
      BY <1>7, <3>1 DEF StateOK, Contracts
    <3>. QED BY <1>1, <1>4, <3>1, <3>2 DEF ShadowRow, ShadowOK
  <2>4. ASSUME run.runner = "batch", NEW q \in cycle.shadows, Len(shadows) <= ShadowWindow,
               NEW h \in Range(shadows), h.agent = q.agent, h.symbol = q.contract.symbol
        PROVE  q.at - h.at >= Horizon
    <3>1. run.history = shadows
      BY <1>1, <2>4, RecentRows, ResearchConstants DEF ReadInv, RowsInv, Early
    <3>2. q.at = t /\ h.at \in Nat /\ h.at <= t
      BY <1>1, <1>4, <2>2, <2>4 DEF ReadInv, RowsInv, ShadowOK, ProposalOK, Early
    <3>3. t - h.at \notin 0..(Horizon - 1)
      BY <2>2, <2>4, <3>1 DEF Suppressed
    <3>. QED BY <1>4, <3>2, <3>3, ResearchConstants
  <2>5. run.runner = "batch" => \A q \in cycle.shadows : Apart(q)'
    BY <1>1, <2>4 DEF Apart
  <2>. QED BY <1>2, <1>15, <2>1, <2>2, <2>3, <2>5 DEF CycleInv
<1>23. ThesisInv'
  <2>. SUFFICES ASSUME run'.phase = "dispatch"
                PROVE  /\ run'.runner = "session" /\ StateOK(run'.cycle.state)
                       /\ run'.cycle.state.underlying \in Range(Universe)
                       /\ run'.intent = make_intent(run'.cycle.selected, run'.intent.at)
                       /\ ProposalOK(run'.cycle.selected, run'.cycle.state, run'.intent.at)
                       /\ Sound(run'.cycle.selected, run'.cycle.state, session_policy, run'.intent.at)
    BY <1>2 DEF ThesisInv
  <2>1. run.runner = "session" /\ p # Missing
    BY <1>2
  <2>2. run'.intent = make_intent(p, t) /\ run'.intent.at = t
    BY <1>2, <2>1 DEF make_intent
  <2>3. p = cycle.selected
    BY DEF p
  <2>4. ProposalOK(p, s, t) /\ Sound(p, s, session_policy, t)
    BY <1>5, <1>14, <2>1, <2>3 DEF CycleOK
  <2>. QED BY <1>2, <1>7, <1>14, <2>1, <2>2, <2>3, <2>4
<1>. QED BY <1>16, <1>17, <1>18, <1>19, <1>20, <1>22, <1>23

\* The rows of the cycle come after those of the table: a new shadow of a batch is apart from
\* the old ones, and no two of one cycle are of the same agent.
LEMMA CompleteInv == ResearchInv /\ Complete => ResearchInv'
<1>. SUFFICES ASSUME ResearchInv, Complete PROVE ResearchInv'
  OBVIOUS
<1>. USE DEF ResearchInv
<1>. DEFINE kept == run.cycle.shadows
            row == [q \in kept |-> ShadowRow(q)]
            rows == {ShadowRow(q) : q \in kept}
            new == SetToSeq(rows)
            old == Len(shadows)
<1>1. /\ run.phase = "save" /\ run' = Idle2 /\ UNCHANGED <<clock, cycles, posted, tape>>
      /\ shadows' = shadows \o new /\ marks' = marks \o SetToSeq(run.marks)
  BY DEF Complete, Phase
<1>2. /\ IsFiniteSet(run.marks) /\ \A m \in run.marks : MarkOK(m, clock)
      /\ IsFiniteSet(kept) /\ \A q \in kept : ShadowOK(ShadowRow(q), clock)
      /\ \A p, q \in kept : p.agent = q.agent => p = q
      /\ run.runner = "batch" => \A q \in kept : Apart(q)
  BY <1>1 DEF CycleInv, Late
<1>3. IsFiniteSet(rows)
  <2>1. row \in Surjection(kept, rows)
    BY DEF Surjection
  <2>. QED BY <1>2, <2>1, FS_Surjection
<1>4. ASSUME NEW x \in rows
      PROVE  \E q \in kept : x = ShadowRow(q) /\ ShadowOK(x, clock)
  BY <1>2
<1>. HIDE DEF rows, kept
<1>5. /\ IsSeq(new) /\ Range(new) \subseteq rows /\ DOMAIN new = 1..Len(new)
      /\ \A i, j \in DOMAIN new : new[i] = new[j] => i = j
  BY <1>3, RowsOfSet
<1>. HIDE DEF new
<1>6. /\ IsSeq(shadows') /\ old \in Nat /\ Len(new) \in Nat /\ Len(shadows') = old + Len(new)
      /\ DOMAIN shadows = 1..old /\ DOMAIN shadows' = 1..Len(shadows')
      /\ \A i \in 1..old : shadows'[i] = shadows[i]
      /\ \A i \in 1..Len(new) : shadows'[old + i] = new[i]
      /\ Range(shadows') = Range(shadows) \cup Range(new)
  BY <1>1, <1>5, Joined DEF RowsInv
<1>7. IsSeq(marks') /\ Range(marks') \subseteq Range(marks) \cup run.marks
  <2>1. IsSeq(SetToSeq(run.marks)) /\ Range(SetToSeq(run.marks)) \subseteq run.marks
    BY <1>2, RowsOfSet
  <2>. QED BY <1>1, <2>1, Joined DEF RowsInv
<1>8. ClocksInv'
  BY <1>1 DEF ClocksInv
<1>9. RowsInv'
  <2>1. \A h \in Range(shadows') : ShadowOK(h, clock)
    BY <1>4, <1>5, <1>6 DEF RowsInv
  <2>2. \A m \in Range(marks') : MarkOK(m, clock)
    BY <1>2, <1>7 DEF RowsInv
  <2>. QED BY <1>1, <1>6, <1>7, <2>1, <2>2 DEF RowsInv
<1>10. RunInv' /\ ReadInv' /\ StatesInv' /\ CycleInv' /\ ThesisInv' /\ run'.phase = "idle"
  BY <1>1, <1>8, IdleRun
<1>11. PostedInv'
  BY <1>1, <1>10 DEF PostedInv, Early
<1>12. OrderIsJustified'
  BY <1>1 DEF OrderIsJustified
<1>13. ShadowsApart'
  <2>. SUFFICES ASSUME NEW i \in DOMAIN shadows', NEW j \in DOMAIN shadows', i < j,
                       shadows'[j].runner = "batch", shadows'[i].agent = shadows'[j].agent,
                       shadows'[i].symbol = shadows'[j].symbol, Len(shadows') <= ShadowWindow
                PROVE  shadows'[j].at - shadows'[i].at >= Horizon
    BY DEF ShadowsApart
  <2>1. old <= ShadowWindow
    BY <1>6, ResearchConstants
  <2>2. CASE j <= old
    <3>1. i \in DOMAIN shadows /\ j \in DOMAIN shadows
      BY <1>6, <2>2
    <3>. QED BY <1>6, <2>1, <3>1 DEF ShadowsApart
  <2>3. CASE j > old
    <3>. DEFINE b == j - old
    <3>1. b \in 1..Len(new) /\ j = old + b
      BY <1>6, <2>3
    <3>2. shadows'[j] = new[b]
      BY <1>6, <3>1
    <3>3. PICK q \in kept : new[b] = ShadowRow(q)
      BY <1>4, <1>5, <3>1 DEF Range
    <3>4. /\ shadows'[j].runner = run.runner /\ shadows'[j].agent = q.agent
          /\ shadows'[j].symbol = q.contract.symbol /\ shadows'[j].at = q.at
      BY <3>2, <3>3 DEF ShadowRow
    <3>5. CASE i <= old
      <4>1. i \in DOMAIN shadows /\ shadows'[i] = shadows[i] /\ shadows[i] \in Range(shadows)
        BY <1>6, <3>5 DEF Range
      <4>2. Apart(q)
        BY <1>2, <3>4
      <4>. QED BY <2>1, <3>4, <4>1, <4>2 DEF Apart
    <3>6. CASE i > old
      <4>. DEFINE a == i - old
      <4>1. a \in 1..Len(new) /\ i = old + a /\ a # b
        BY <1>6, <3>1, <3>6
      <4>2. shadows'[i] = new[a]
        BY <1>6, <4>1
      <4>3. PICK p \in kept : new[a] = ShadowRow(p)
        BY <1>4, <1>5, <4>1 DEF Range
      <4>4. p.agent = q.agent
        BY <3>4, <4>2, <4>3 DEF ShadowRow
      <4>5. new[a] = new[b]
        BY <1>2, <3>3, <4>3, <4>4
      <4>. QED BY <1>5, <3>1, <4>1, <4>5
    <3>. QED BY <1>6, <3>5, <3>6
  <2>. QED BY <1>6, <2>2, <2>3
<1>. QED BY <1>8, <1>9, <1>10, <1>11, <1>12, <1>13

LEMMA ResearchNextInv == ResearchInv /\ [Next2]_vars2 => ResearchInv'
<1>. SUFFICES ASSUME ResearchInv, [Next2]_vars2 PROVE ResearchInv'
  OBVIOUS
<1>1. CASE Pass
  BY <1>1, PassInv
<1>2. CASE Refresh
  BY <1>2, RefreshInv
<1>3. CASE Abandoned
  BY <1>3, AbandonedInv
<1>4. CASE Evaluate
  BY <1>4, EvaluateInv
<1>5. CASE Complete
  BY <1>5, CompleteInv
<1>6. CASE Reread
  BY <1>6, RereadInv
<1>7. CASE Dispatch2
  BY <1>7, DispatchInv
<1>8. CASE Rejected
  BY <1>8, RejectedInv
<1>9. CASE \E runner \in Runners : Begin(runner)
  BY <1>9, BeginInv
<1>10. CASE UNCHANGED vars2
  BY <1>10 DEF vars2, ResearchInv, ClocksInv, RowsInv, PostedInv, RunInv, ReadInv, StatesInv,
               CycleInv, ThesisInv, Apart, ShadowRow, OrderIsJustified, ShadowsApart
<1>. QED BY <1>1, <1>2, <1>3, <1>4, <1>5, <1>6, <1>7, <1>8, <1>9, <1>10 DEF Next2

LEMMA ResearchInvariant == Spec2 => []ResearchInv
BY ResearchInit, ResearchNextInv, PTL DEF Spec2

-----------------------------------------------------------------------------
(* Theorems.                                                               *)

\* Whatever the market shows, times stay within the clock, rows and marks are of this agent's
\* past, a cycle posts at most one order, and every quality score that score_agents makes of
\* the samples of a run stays within 35 to 65.
THEOREM ResearchTypeCorrect == Spec2 => []ResearchTypeOK
<1>1. ResearchInv => ResearchTypeOK
  <2>. SUFFICES ASSUME ResearchInv PROVE ResearchTypeOK
    OBVIOUS
  <2>. USE DEF ResearchInv
  <2>1. clock \in 0..MaxClock /\ tape \in 0..clock /\ cycles \in 0..MaxCycles
    BY ResearchConstants DEF ClocksInv
  <2>2. run.phase \in Phases /\ run.runner \in Runners /\ run.now \in 0..clock
    BY DEF RunInv, ClocksInv
  <2>3. /\ \A i \in DOMAIN shadows : shadows[i].agent \in Agents /\ shadows[i].at \in 0..clock
        /\ \A i \in DOMAIN marks : marks[i].at \in 0..clock
    BY DEF RowsInv, ShadowOK, MarkOK, Range
  <2>4. Cardinality(posted) <= cycles
    BY DEF PostedInv
  <2>5. score_agents(run.samples) \in [Agents -> 35..65]
    BY ScoreAgentsType DEF RunInv
  <2>. QED BY <2>1, <2>2, <2>3, <2>4, <2>5 DEF ResearchTypeOK
<1>. QED BY <1>1, ResearchInvariant, PTL

\* No order reaches the broker (authorization.py) but one that the gates of policy.py allow in
\* the state of the research and again in the state that dispatch reads before the POST, for the
\* same contract at the same ask and within the caps of the policy and of the session.
THEOREM OrdersJustified == Spec2 => []OrderIsJustified
BY ResearchInvariant, PTL DEF ResearchInv

\* Suppression (outcomes.py) keeps the shadows of a batch at least the horizon of 60 minutes
\* apart, as long as the table fits the window that history() reads.
THEOREM ShadowsStayApart == Spec2 => []ShadowsApart
BY ResearchInvariant, PTL DEF ResearchInv

\* A batch never reports a candidate, whatever the market shows and whatever the constants are:
\* run_batch reads the clock before it refreshes, so the freshness gates refuse every thesis.
BatchNeverSelects == run.runner = "batch" /\ run.cycle # Missing => run.cycle.selected = Missing
THEOREM BatchSelectsNothing == Spec2 => []BatchNeverSelects
<1>1. ResearchInv => BatchNeverSelects
  BY DEF ResearchInv, RunInv, CycleInv, BatchNeverSelects
<1>. QED BY <1>1, ResearchInvariant, PTL
=============================================================================
