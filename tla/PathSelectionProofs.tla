------------------------- MODULE PathSelectionProofs -------------------------
(***************************************************************************)
(* What en_select_path answers is well defined: compare_paths is a strict  *)
(* total order, and every intent has exactly one answer on every table of  *)
(* readings.                                                               *)
(***************************************************************************)
EXTENDS PathSelection, FiniteSetTheorems, WellFoundedInduction, TLAPS

------------------------------------------------------------------------------
(* The least number principle, from the well-foundedness of <.               *)

LessThan == {ss \in Nat \X Nat : ss[1] < ss[2]}

LEMMA LeastNumber ==
  ASSUME NEW S \in SUBSET Nat, S # {}
  PROVE  \E n \in S : \A m \in S : n <= m
<1>1. IsWellFoundedOn(LessThan, Nat)
  BY NatLessThanWellFounded DEF OpToRel, LessThan
<1>2. PICK n \in S : \A m \in S : ~ (<<m, n>> \in LessThan)
  BY <1>1, WFMin
<1>3. \A m \in S : ~ (m < n)
  BY <1>2 DEF LessThan
<1> QED
  BY <1>3

------------------------------------------------------------------------------
(* The comparison is a strict total order on the paths.                      *)

Readable(h) == h \in [Paths -> HealthRecords \cup {NoHealth}]

LEMMA MetricIsInt ==
  ASSUME NEW p \in Paths, NEW h \in HealthRecords \cup {NoHealth}, NEW key \in ComparisonKeys
  PROVE  Metric(p, h, key) \in Int
<1>1. HopCount(p) \in Int /\ Priority[p] \in Int /\ IdRank[p] \in Int /\ DblMax \in Int
  BY AttributesAssumption DEF HopCount
<1>2. h # NoHealth => h.loss \in Int /\ h.rtt \in Int
  BY DEF HealthRecords
<1> QED
  BY <1>1, <1>2 DEF Metric, ComparisonKeys

LEMMA ValueIsInt ==
  ASSUME NEW p \in Paths, NEW h, Readable(h), NEW order \in Seq(ComparisonKeys),
         NEW n \in DOMAIN order
  PROVE  Metric(p, h[p], order[n]) \in Int
<1>1. h[p] \in HealthRecords \cup {NoHealth} /\ order[n] \in ComparisonKeys
  BY DEF Readable
<1> QED
  BY <1>1, MetricIsInt

LEMMA BetterIsAsymmetric ==
  ASSUME NEW p \in Paths, NEW q \in Paths, NEW h, Readable(h),
         NEW order \in Seq(ComparisonKeys), Better(p, q, h, order)
  PROVE  ~ Better(q, p, h, order)
<1> DEFINE V(r, n) == Metric(r, h[r], order[n])
<1>1. \A n \in DOMAIN order : V(p, n) \in Int /\ V(q, n) \in Int
  BY ValueIsInt
<1>2. IdRank[p] \in Nat /\ IdRank[q] \in Nat
  BY AttributesAssumption
<1>3. Better(p, q, h, order) <=>
        \/ \E n \in DOMAIN order : (\A m \in 1..(n - 1) : V(p, m) = V(q, m)) /\ V(p, n) < V(q, n)
        \/ (\A n \in DOMAIN order : V(p, n) = V(q, n)) /\ IdRank[p] < IdRank[q]
  BY DEF Better
<1>4. Better(q, p, h, order) <=>
        \/ \E n \in DOMAIN order : (\A m \in 1..(n - 1) : V(q, m) = V(p, m)) /\ V(q, n) < V(p, n)
        \/ (\A n \in DOMAIN order : V(q, n) = V(p, n)) /\ IdRank[q] < IdRank[p]
  BY DEF Better
<1>5. DOMAIN order = 1..Len(order) /\ Len(order) \in Nat
  OBVIOUS
<1> HIDE DEF V
<1>6. ASSUME NEW n \in DOMAIN order, \A m \in 1..(n - 1) : V(p, m) = V(q, m), V(p, n) < V(q, n)
      PROVE  ~ Better(q, p, h, order)
  <2>1. ASSUME NEW k \in DOMAIN order, \A m \in 1..(k - 1) : V(q, m) = V(p, m), V(q, k) < V(p, k)
        PROVE  FALSE
    <3>1. k # n /\ (k < n => k \in 1..(n - 1)) /\ (n < k => n \in 1..(k - 1))
      BY <1>1, <1>5, <1>6, <2>1
    <3> QED
      BY <1>1, <1>5, <1>6, <2>1, <3>1
  <2> QED
    BY <1>1, <1>4, <1>6, <2>1
<1>7. CASE (\A n \in DOMAIN order : V(p, n) = V(q, n)) /\ IdRank[p] < IdRank[q]
  BY <1>1, <1>2, <1>4, <1>7
<1> QED
  BY <1>3, <1>6, <1>7

LEMMA BetterIsTransitive ==
  ASSUME NEW p \in Paths, NEW q \in Paths, NEW r \in Paths, NEW h, Readable(h),
         NEW order \in Seq(ComparisonKeys), Better(p, q, h, order), Better(q, r, h, order)
  PROVE  Better(p, r, h, order)
<1> DEFINE V(s, n) == Metric(s, h[s], order[n])
<1> DEFINE Ties(s, t) == \A n \in DOMAIN order : V(s, n) = V(t, n)
<1> DEFINE Wins(s, t, n) == (\A m \in 1..(n - 1) : V(s, m) = V(t, m)) /\ V(s, n) < V(t, n)
<1>1. \A n \in DOMAIN order : V(p, n) \in Int /\ V(q, n) \in Int /\ V(r, n) \in Int
  BY ValueIsInt
<1>2. IdRank[p] \in Nat /\ IdRank[q] \in Nat /\ IdRank[r] \in Nat
  BY AttributesAssumption
<1>3. \A s, t \in Paths : Better(s, t, h, order) <=>
        (\E n \in DOMAIN order : Wins(s, t, n)) \/ (Ties(s, t) /\ IdRank[s] < IdRank[t])
  BY DEF Better
<1>4. DOMAIN order = 1..Len(order) /\ Len(order) \in Nat
  OBVIOUS
<1> HIDE DEF V
<1>5. CASE Ties(p, q) /\ Ties(q, r)
  <2>1. ~ (\E n \in DOMAIN order : Wins(p, q, n)) /\ ~ (\E n \in DOMAIN order : Wins(q, r, n))
    BY <1>1, <1>5
  <2> QED
    BY <1>2, <1>3, <1>5, <2>1
<1>6. ASSUME Ties(p, q), NEW n \in DOMAIN order, Wins(q, r, n) PROVE Better(p, r, h, order)
  <2>1. Wins(p, r, n)
    BY <1>1, <1>4, <1>6
  <2> QED
    BY <1>3, <2>1
<1>7. ASSUME Ties(q, r), NEW n \in DOMAIN order, Wins(p, q, n) PROVE Better(p, r, h, order)
  <2>1. Wins(p, r, n)
    BY <1>1, <1>4, <1>7
  <2> QED
    BY <1>3, <2>1
<1>8. ASSUME NEW n \in DOMAIN order, Wins(p, q, n), NEW k \in DOMAIN order, Wins(q, r, k)
      PROVE  Better(p, r, h, order)
  <2>1. CASE n <= k
    <3>1. Wins(p, r, n)
      BY <1>1, <1>4, <1>8, <2>1
    <3> QED
      BY <1>3, <3>1
  <2>2. CASE k < n
    <3>1. Wins(p, r, k)
      BY <1>1, <1>4, <1>8, <2>2
    <3> QED
      BY <1>3, <3>1
  <2> QED
    BY <1>4, <2>1, <2>2
<1> QED
  BY <1>3, <1>5, <1>6, <1>7, <1>8

LEMMA FirstDifference ==
  ASSUME NEW order \in Seq(ComparisonKeys), NEW D \in SUBSET (DOMAIN order), D # {}
  PROVE  \E n \in D : \A m \in D : n <= m
<1>1. D \in SUBSET Nat
  OBVIOUS
<1> QED
  BY <1>1, LeastNumber

LEMMA BetterIsTotal ==
  ASSUME NEW p \in Paths, NEW q \in Paths, p # q, NEW h, Readable(h),
         NEW order \in Seq(ComparisonKeys)
  PROVE  Better(p, q, h, order) \/ Better(q, p, h, order)
<1> DEFINE V(r, n) == Metric(r, h[r], order[n])
<1> DEFINE D == {n \in DOMAIN order : V(p, n) # V(q, n)}
<1>1. \A n \in DOMAIN order : V(p, n) \in Int /\ V(q, n) \in Int
  BY ValueIsInt
<1>2. \A s, t \in {p, q} : Better(s, t, h, order) <=>
        \/ \E n \in DOMAIN order : (\A m \in 1..(n - 1) : V(s, m) = V(t, m)) /\ V(s, n) < V(t, n)
        \/ (\A n \in DOMAIN order : V(s, n) = V(t, n)) /\ IdRank[s] < IdRank[t]
  BY DEF Better
<1>3. IdRank[p] \in Nat /\ IdRank[q] \in Nat /\ IdRank[p] # IdRank[q]
  BY AttributesAssumption
<1>4. DOMAIN order = 1..Len(order) /\ Len(order) \in Nat
  OBVIOUS
<1>5. CASE D = {}
  BY <1>2, <1>3, <1>5
<1>6. CASE D # {}
  <2>1. PICK n \in D : \A m \in D : n <= m
    BY <1>6, FirstDifference
  <2>2. \A m \in 1..(n - 1) : m \in DOMAIN order /\ m \notin D
    BY <1>4, <2>1
  <2>3. \A m \in 1..(n - 1) : V(p, m) = V(q, m)
    BY <2>2
  <2>4. V(p, n) < V(q, n) \/ V(q, n) < V(p, n)
    BY <1>1, <2>1
  <2> QED
    BY <1>2, <2>1, <2>3, <2>4
<1> QED
  BY <1>5, <1>6

------------------------------------------------------------------------------
(* Unknown candidates, stops and best paths are unique.                      *)

LEMMA NoneUnknown ==
  ASSUME NEW s, s.cands \in Seq(PathIds)
  PROVE  FirstUnknown(s) = {} <=> Named(s, Len(s.cands)) \subseteq Paths
<1>1. DOMAIN s.cands = 1..Len(s.cands) /\ Len(s.cands) \in Nat
  OBVIOUS
<1>2. ASSUME Named(s, Len(s.cands)) \subseteq Paths PROVE FirstUnknown(s) = {}
  BY <1>1, <1>2 DEF FirstUnknown, Named
<1>3. ASSUME ~ (Named(s, Len(s.cands)) \subseteq Paths) PROVE FirstUnknown(s) # {}
  <2> DEFINE U == {n \in 1..Len(s.cands) : s.cands[n] \notin Paths}
  <2>1. U \in SUBSET Nat /\ U # {}
    BY <1>1, <1>3 DEF Named
  <2>2. PICK n \in U : \A m \in U : n <= m
    BY <2>1, LeastNumber
  <2>3. \A m \in 1..(n - 1) : m \in 1..Len(s.cands) /\ m \notin U
    BY <1>1, <2>2
  <2>4. n \in FirstUnknown(s)
    BY <1>1, <2>2, <2>3 DEF FirstUnknown, Named
  <2> QED
    BY <2>4
<1> QED
  BY <1>2, <1>3

LEMMA FirstUnknownUnique ==
  ASSUME NEW s, s.cands \in Seq(PathIds), NEW n \in FirstUnknown(s), NEW k \in FirstUnknown(s)
  PROVE  n = k
<1>1. DOMAIN s.cands = 1..Len(s.cands) /\ Len(s.cands) \in Nat
  OBVIOUS
<1> QED
  BY <1>1 DEF FirstUnknown, Named

LEMMA PriorityStopsUnique ==
  ASSUME NEW s, s.cands \in Seq(PathIds), NEW h,
         NEW n \in PriorityStops(s, h), NEW k \in PriorityStops(s, h)
  PROVE  n = k
<1>1. DOMAIN s.cands = 1..Len(s.cands) /\ Len(s.cands) \in Nat
  OBVIOUS
<1>2. ASSUME NEW a \in PriorityStops(s, h), NEW b \in PriorityStops(s, h), a < b PROVE FALSE
  <2>1. a \in Nat /\ b \in Nat /\ a >= 1
    BY <1>1 DEF PriorityStops
  <2>2. s.cands[a] \in Named(s, b - 1) /\ s.cands[a] \in Named(s, a)
    BY <1>2, <2>1 DEF Named
  <2>3. s.cands[a] \in RejectedOf(s, h, b - 1)
    BY <2>2 DEF PriorityStops
  <2>4. s.cands[a] \in RejectedOf(s, h, a)
    BY <2>2, <2>3 DEF RejectedOf
  <2> QED
    BY <2>4 DEF PriorityStops
<1> QED
  BY <1>1, <1>2 DEF PriorityStops

LEMMA BestOfUnique ==
  ASSUME NEW s, s.order \in Seq(ComparisonKeys), NEW h, Readable(h),
         NEW p \in BestOf(s, h), NEW q \in BestOf(s, h)
  PROVE  p = q
<1> SUFFICES ASSUME p # q PROVE FALSE
  OBVIOUS
<1>1. p \in Paths /\ q \in Paths
  BY DEF BestOf, UsableOf
<1>2. Better(p, q, h, s.order) /\ Better(q, p, h, s.order)
  BY DEF BestOf
<1> QED
  BY <1>1, <1>2, BetterIsAsymmetric

(* Every finite set of usable paths has a best one: the path that the fewest *)
(* others beat is beaten by none.                                            *)
LEMMA BestExists ==
  ASSUME NEW s, s.order \in Seq(ComparisonKeys), NEW h, Readable(h), UsableOf(s, h) # {}
  PROVE  BestOf(s, h) # {}
<1> DEFINE U == UsableOf(s, h)
<1> DEFINE Beaters(p) == {q \in U : Better(q, p, h, s.order)}
<1> DEFINE Counts == {Cardinality(Beaters(p)) : p \in U}
<1>1. U \subseteq Paths /\ IsFiniteSet(Paths)
  BY PathsAssumption DEF UsableOf
<1>2. \A p \in U : IsFiniteSet(Beaters(p)) /\ Cardinality(Beaters(p)) \in Nat
  BY <1>1, FS_Subset, FS_CardinalityType
<1>3. Counts \in SUBSET Nat /\ Counts # {}
  BY <1>2
<1>4. PICK n \in Counts : \A m \in Counts : n <= m
  BY <1>3, LeastNumber
<1>5. PICK p \in U : Cardinality(Beaters(p)) = n
  BY <1>4
<1>6. ASSUME NEW q \in Beaters(p) PROVE FALSE
  <2>1. q \in U /\ q \in Paths /\ p \in Paths /\ Better(q, p, h, s.order)
    BY <1>1, <1>6
  <2>2. Beaters(q) \subseteq Beaters(p)
    <3> SUFFICES ASSUME NEW r \in Beaters(q) PROVE Better(r, p, h, s.order)
      OBVIOUS
    <3>1. r \in Paths /\ Better(r, q, h, s.order)
      BY <1>1
    <3> QED
      BY <2>1, <3>1, BetterIsTransitive
  <2>3. q \notin Beaters(q)
    BY <2>1, BetterIsAsymmetric
  <2>4. Cardinality(Beaters(q)) < Cardinality(Beaters(p))
    <3>1. Beaters(q) # Beaters(p)
      BY <1>6, <2>3
    <3> HIDE DEF Beaters
    <3> QED
      BY <1>2, <1>5, <2>1, <2>2, <3>1, FS_Subset
  <2>5. Cardinality(Beaters(q)) \in Counts
    BY <2>1
  <2> HIDE DEF Beaters, Counts
  <2> QED
    BY <1>2, <1>3, <1>4, <1>5, <2>1, <2>4, <2>5
<1>7. ASSUME NEW q \in U \ {p} PROVE Better(p, q, h, s.order)
  <2>1. p \in Paths /\ q \in Paths /\ p # q
    BY <1>1
  <2>2. ~ Better(q, p, h, s.order)
    BY <1>6
  <2> QED
    BY <2>1, <2>2, BetterIsTotal
<1> QED
  BY <1>5, <1>7 DEF BestOf

------------------------------------------------------------------------------
(* en_select_path is a function: whatever the intent and the readings, there *)
(* is exactly one answer, so a submission that has observed its candidates   *)
(* always goes on, and never in two ways.                                    *)
THEOREM AnswerIsUnique ==
  ASSUME NEW s, s.cands \in Seq(PathIds), s.order \in Seq(ComparisonKeys),
         NEW h, Readable(h)
  PROVE  \E o : SelectPath(s, h) = {o}
<1>1. CASE s.mode = "explicit"
  BY <1>1 DEF SelectPath, ExplicitOutcome
<1>2. CASE s.mode = "priority"
  <2>1. CASE PriorityStops(s, h) = {}
    BY <1>2, <2>1 DEF SelectPath, PriorityOutcome
  <2>2. CASE PriorityStops(s, h) # {}
    <3>1. PICK n : n \in PriorityStops(s, h)
      BY <2>2
    <3>2. PriorityStops(s, h) = {n}
      BY <3>1, PriorityStopsUnique
    <3>3. SelectPath(s, h) =
            {IF s.cands[n] \in Paths THEN Outcome("none", s.cands[n], Named(s, n - 1))
             ELSE Outcome("not_found", NoPath, Named(s, n - 1))}
      BY <1>2, <3>2 DEF SelectPath, PriorityOutcome
    <3> QED
      BY <3>3, Zenon
  <2> QED
    BY <2>1, <2>2
<1>3. CASE s.mode \notin {"explicit", "priority"}
  <2>1. SelectPath(s, h) = EvaluatedOutcome(s, h)
    BY <1>3 DEF SelectPath
  <2>2. CASE FirstUnknown(s) # {}
    <3>1. PICK n : n \in FirstUnknown(s)
      BY <2>2
    <3>2. FirstUnknown(s) = {n}
      BY <3>1, FirstUnknownUnique
    <3>3. SelectPath(s, h) = {Outcome("not_found", NoPath, RejectedOf(s, h, n - 1))}
      BY <2>1, <3>2 DEF EvaluatedOutcome
    <3> QED
      BY <3>3, Zenon
  <2>3. CASE FirstUnknown(s) = {} /\ UsableOf(s, h) = {}
    BY <2>1, <2>3 DEF EvaluatedOutcome
  <2>4. CASE FirstUnknown(s) = {} /\ UsableOf(s, h) # {}
    <3>1. PICK p : p \in BestOf(s, h)
      BY <2>4, BestExists
    <3>2. BestOf(s, h) = {p}
      BY <3>1, BestOfUnique
    <3>3. SelectPath(s, h) = {Outcome("none", p, RejectedOf(s, h, Len(s.cands)))}
      BY <2>1, <2>4, <3>2 DEF EvaluatedOutcome
    <3> QED
      BY <3>3, Zenon
  <2> QED
    BY <2>2, <2>3, <2>4
<1> QED
  BY <1>1, <1>2, <1>3

(* Only the readings of its candidates matter to an intent with a list. *)
LEMMA OnlyCandidatesMatter ==
  ASSUME NEW s, s.mode # "explicit", s.cands \in Seq(PathIds), NEW g, NEW h,
         \A n \in DOMAIN s.cands : s.cands[n] \in Paths => g[s.cands[n]] = h[s.cands[n]]
  PROVE  SelectPath(s, g) = SelectPath(s, h)
<1>1. DOMAIN s.cands = 1..Len(s.cands) /\ Len(s.cands) \in Nat
  OBVIOUS
<1>2. ASSUME NEW n \in 0..Len(s.cands) PROVE RejectedOf(s, g, n) = RejectedOf(s, h, n)
  BY <1>1, <1>2 DEF RejectedOf, Named
<1>3. UsableOf(s, g) = UsableOf(s, h)
  BY <1>1 DEF UsableOf, Named
<1>4. \A p \in UsableOf(s, h) : g[p] = h[p]
  BY <1>1 DEF UsableOf, Named
<1>5. BestOf(s, g) = BestOf(s, h)
  BY <1>3, <1>4 DEF BestOf, Better
<1>6. PriorityStops(s, g) = PriorityStops(s, h)
  BY <1>1, <1>2 DEF PriorityStops
<1>7. NoneUsable(s, g) = NoneUsable(s, h)
  BY <1>1, <1>2 DEF NoneUsable
<1>8. \A n \in FirstUnknown(s) : RejectedOf(s, g, n - 1) = RejectedOf(s, h, n - 1)
  BY <1>1, <1>2 DEF FirstUnknown
<1>9. RejectedOf(s, g, Len(s.cands)) = RejectedOf(s, h, Len(s.cands))
  BY <1>1, <1>2
<1>10. PriorityOutcome(s, g) = PriorityOutcome(s, h)
  BY <1>6, <1>7 DEF PriorityOutcome
<1>11. EvaluatedOutcome(s, g) = EvaluatedOutcome(s, h)
  BY <1>3, <1>5, <1>7, <1>8, <1>9 DEF EvaluatedOutcome
<1> QED
  BY <1>10, <1>11 DEF SelectPath
=============================================================================
