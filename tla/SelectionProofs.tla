--------------------------- MODULE SelectionProofs ----------------------------
(***************************************************************************)
(* One pass with a best-so-far slot computes the answer the whole list     *)
(* calls for: for every set of paths, readings, limits and lists.          *)
(***************************************************************************)
EXTENDS SelectionScan, PathSelectionProofs

------------------------------------------------------------------------------
(* compare_paths decides that order.                                         *)

LEMMA PolicyType ==
  ASSUME TypeOK
  PROVE  /\ sel.cands \in Seq(PathIds) /\ sel.order \in Seq(ComparisonKeys)
         /\ sel.mode \in SelectionModes /\ Readable(health)
         /\ DOMAIN sel.cands = 1..Len(sel.cands) /\ Len(sel.cands) \in Nat
         /\ next \in Nat /\ next >= 1
<1>1. sel \in SelectionPolicies /\ Readable(health)
  BY ScanAssumption DEF TypeOK, Readable
<1>2. sel.cands \in Seq(PathIds) /\ sel.order \in Seq(ComparisonKeys) /\ sel.mode \in SelectionModes
  BY <1>1 DEF SelectionPolicies
<1> QED
  BY <1>1, <1>2 DEF TypeOK

LEMMA ComparesBetter ==
  ASSUME TypeOK, NEW p \in Paths, NEW q \in Paths
  PROVE  ComparePaths(p, q) < 0 <=> Better(p, q, health, sel.order)
<1> DEFINE V(r, n) == Metric(r, health[r], sel.order[n])
<1> DEFINE D == Deciding(p, q)
<1>1. \A n \in DOMAIN sel.order : V(p, n) \in Int /\ V(q, n) \in Int
  BY PolicyType, ValueIsInt
<1>2. Better(p, q, health, sel.order) <=>
        \/ \E n \in DOMAIN sel.order : (\A m \in 1..(n - 1) : V(p, m) = V(q, m)) /\ V(p, n) < V(q, n)
        \/ (\A n \in DOMAIN sel.order : V(p, n) = V(q, n)) /\ IdRank[p] < IdRank[q]
  BY DEF Better
<1>3. IdRank[p] \in Nat /\ IdRank[q] \in Nat
  BY AttributesAssumption
<1>4. sel.order \in Seq(ComparisonKeys) /\ DOMAIN sel.order = 1..Len(sel.order)
      /\ Len(sel.order) \in Nat
  BY PolicyType
<1>5. \A n : n \in D <=> n \in DOMAIN sel.order /\ V(p, n) # V(q, n)
  BY DEF Deciding, Value
<1>6. CASE D = {}
  <2>1. ComparePaths(p, q) = IdRank[p] - IdRank[q]
    BY <1>6 DEF ComparePaths
  <2>2. \A n \in DOMAIN sel.order : V(p, n) = V(q, n)
    BY <1>5, <1>6
  <2> HIDE DEF V
  <2> QED
    BY <1>1, <1>2, <1>3, <2>1, <2>2
<1>7. CASE D # {}
  <2> DEFINE first == CHOOSE n \in D : \A m \in D : n <= m
  <2>1. D \in SUBSET (DOMAIN sel.order)
    BY <1>5
  <2>2. first \in D /\ \A m \in D : first <= m
    BY <1>4, <1>7, <2>1, FirstDifference
  <2>3. ComparePaths(p, q) = IF V(p, first) < V(q, first) THEN -1 ELSE 1
    BY <1>7 DEF ComparePaths, Value
  <2> HIDE DEF V, D, first
  <2>4. \A m \in 1..(first - 1) : V(p, m) = V(q, m)
    BY <1>4, <1>5, <2>1, <2>2
  <2>5. \A n \in DOMAIN sel.order : (\A m \in 1..(n - 1) : V(p, m) = V(q, m)) => n <= first
    BY <1>4, <1>5, <2>2
  <2>6. Better(p, q, health, sel.order) <=> V(p, first) < V(q, first)
    <3>1. ASSUME V(p, first) < V(q, first) PROVE Better(p, q, health, sel.order)
      BY <1>2, <1>5, <2>2, <2>4, <3>1
    <3>2. ASSUME Better(p, q, health, sel.order) PROVE V(p, first) < V(q, first)
      <4>1. PICK n \in DOMAIN sel.order :
              (\A m \in 1..(n - 1) : V(p, m) = V(q, m)) /\ V(p, n) < V(q, n)
        BY <1>2, <1>5, <2>2, <3>2
      <4>2. n <= first /\ n \in D
        BY <1>1, <1>5, <2>5, <4>1
      <4>3. n = first
        BY <1>4, <2>1, <2>2, <4>2
      <4> QED
        BY <4>1, <4>3
    <3> QED
      BY <3>1, <3>2
  <2> QED
    BY <2>3, <2>6
<1> QED
  BY <1>6, <1>7

------------------------------------------------------------------------------
(* The scan.  What has been passed is known: its rejected paths are the      *)
(* exclusions so far, and a priority scan goes on only past rejected paths.  *)

ScanInv ==
  Running =>
    /\ excluded = RejectedOf(sel, health, next - 1)
    /\ sel.mode # "evaluated" => best = NoPath
    /\ sel.mode = "priority" => Named(sel, next - 1) \subseteq excluded

LEMMA CandidateType ==
  ASSUME TypeOK, HasCandidate
  PROVE  /\ next \in DOMAIN sel.cands
         /\ Candidate = sel.cands[next] /\ Candidate \in PathIds
         /\ Named(sel, next) = Named(sel, next - 1) \cup {Candidate}
<1>1. next \in DOMAIN sel.cands /\ sel.cands \in Seq(PathIds) /\ next \in Nat /\ next >= 1
  BY PolicyType DEF HasCandidate
<1>2. 1..next = 1..(next - 1) \cup {next}
  BY <1>1
<1> QED
  BY <1>1, <1>2 DEF Candidate, Named

LEMMA RejectedGrows ==
  ASSUME TypeOK, HasCandidate
  PROVE  RejectedOf(sel, health, next) =
           RejectedOf(sel, health, next - 1)
             \cup (IF Candidate \in Paths /\ Rejects(Candidate) THEN {Candidate} ELSE {})
BY CandidateType DEF RejectedOf, Rejects

LEMMA ReturnType ==
  ASSUME NEW err \in ErrorCodes, NEW p \in Paths \cup {NoPath}, NEW ex \in SUBSET Paths
  PROVE  Outcome(err, p, ex) \in Outcomes /\ Outcome(err, p, ex) # NoOutcome
BY ScanAssumption DEF Outcome, Outcomes

LEMMA ScanErrors == {"none", "not_found", "no_candidate"} \subseteq ErrorCodes
BY DEF ErrorCodes

LEMMA ScanTypeStep == TypeOK /\ [Next]_vars => TypeOK'
<1> SUFFICES ASSUME TypeOK, [Next]_vars PROVE TypeOK'
  OBVIOUS
<1>1. CASE UNCHANGED vars
  BY <1>1 DEF vars, TypeOK
<1>2. ASSUME NEW err \in ErrorCodes, NEW p \in Paths \cup {NoPath}, NEW ex \in SUBSET Paths,
             Return(Outcome(err, p, ex))
      PROVE  TypeOK'
  BY <1>2, ReturnType DEF Return, TypeOK
<1>3. CASE Explicit
  BY <1>2, <1>3, ScanErrors DEF Explicit
<1>4. CASE UnknownCandidate
  BY <1>2, <1>4, ScanErrors DEF UnknownCandidate, TypeOK
<1>5. CASE TakeFirstUsable
  BY <1>2, <1>5, ScanErrors DEF TakeFirstUsable, TypeOK
<1>6. CASE EndOfList
  BY <1>2, <1>6, ScanErrors DEF EndOfList, TypeOK
<1>7. CASE ExcludeCandidate
  <2>1. next + 1 \in 1..(Len(sel.cands) + 1)
    BY <1>7, PolicyType DEF ExcludeCandidate, HasCandidate
  <2> QED
    BY <1>7, <2>1 DEF ExcludeCandidate, TypeOK
<1>8. CASE Evaluate
  <2>1. next + 1 \in 1..(Len(sel.cands) + 1)
    BY <1>8, PolicyType DEF Evaluate, HasCandidate
  <2> QED
    BY <1>8, <2>1 DEF Evaluate, TypeOK
<1> QED
  BY <1>1, <1>3, <1>4, <1>5, <1>6, <1>7, <1>8 DEF Next

(* The locals of en_select_path stay in range: the index is at most one past *)
(* the list and only known paths are ever recorded as excluded.              *)
THEOREM ScanTypeCorrect == Spec => []TypeOK
<1>1. Init => TypeOK
  <2> SUFFICES ASSUME Init PROVE TypeOK
    OBVIOUS
  <2>1. sel.cands \in Seq(PathIds)
    BY ScanAssumption DEF Init, SelectionPolicies
  <2> QED
    BY <2>1 DEF Init, TypeOK
<1> QED
  BY <1>1, ScanTypeStep, PTL DEF Spec

LEMMA ScanInit == Init => ScanInv /\ BestSoFar /\ ScanAgrees
<1> SUFFICES ASSUME Init PROVE ScanInv /\ BestSoFar /\ ScanAgrees
  OBVIOUS
<1>1. Named(sel, next - 1) = {} /\ {sel.cands[m] : m \in 1..(next - 1)} = {}
  BY DEF Init, Named
<1> QED
  BY <1>1 DEF Init, ScanInv, BestSoFar, ScanAgrees, RejectedOf

LEMMA ScanStep == TypeOK /\ ScanInv /\ [Next]_vars => ScanInv'
<1> SUFFICES ASSUME TypeOK, ScanInv, [Next]_vars PROVE ScanInv'
  OBVIOUS
<1>1. CASE UNCHANGED vars
  BY <1>1 DEF vars, ScanInv, Running, RejectedOf, Named
<1>2. CASE Explicit \/ UnknownCandidate \/ TakeFirstUsable \/ EndOfList
  <2>1. \E err \in ErrorCodes, p \in Paths \cup {NoPath}, ex \in SUBSET Paths :
          Return(Outcome(err, p, ex))
    BY <1>2, ScanErrors DEF Explicit, UnknownCandidate, TakeFirstUsable, EndOfList, TypeOK
  <2>2. out' # NoOutcome
    BY <2>1, ReturnType DEF Return
  <2> QED
    BY <2>2 DEF ScanInv, Running
<1>3. CASE ExcludeCandidate
  <2>1. /\ Running /\ HasCandidate /\ Candidate \in Paths /\ Rejects(Candidate)
        /\ excluded' = excluded \cup {Candidate} /\ next' = next + 1
        /\ UNCHANGED <<sel, health, best, out>>
    BY <1>3 DEF ExcludeCandidate
  <2>2. (next + 1) - 1 = next
    BY PolicyType
  <2>3. excluded' = RejectedOf(sel, health, next)
    BY <2>1, RejectedGrows DEF ScanInv
  <2>4. sel.mode = "priority" => Named(sel, next) \subseteq excluded'
    BY <2>1, CandidateType DEF ScanInv
  <2> QED
    BY <2>1, <2>2, <2>3, <2>4 DEF ScanInv
<1>4. CASE Evaluate
  <2>1. /\ Running /\ sel.mode = "evaluated" /\ HasCandidate /\ ~ Rejects(Candidate)
        /\ next' = next + 1 /\ UNCHANGED <<sel, health, excluded, out>>
    BY <1>4 DEF Evaluate
  <2>2. (next + 1) - 1 = next
    BY PolicyType
  <2>3. excluded = RejectedOf(sel, health, next)
    BY <2>1, RejectedGrows DEF ScanInv
  <2> QED
    BY <2>1, <2>2, <2>3 DEF ScanInv
<1> QED
  BY <1>1, <1>2, <1>3, <1>4 DEF Next

------------------------------------------------------------------------------
(* The best slot.                                                            *)

Usable(n) == {p \in Named(sel, n) : ~ Rejects(p)}

Beats(b, n) == \A p \in Usable(n) \ {b} : Better(b, p, health, sel.order)

BestOfSeen(b, n) ==
  /\ Named(sel, n) \subseteq Paths
  /\ b = NoPath <=> Usable(n) = {}
  /\ b # NoPath => b \in Usable(n) /\ Beats(b, n)

LEMMA BestSoFarSays ==
  BestSoFar <=> ((Running /\ sel.mode = "evaluated") => BestOfSeen(best, next - 1))
BY DEF BestSoFar, BestOfSeen, Beats, Usable, Named

LEMMA EvaluatedBest ==
  ASSUME TypeOK, BestOfSeen(best, next - 1), HasCandidate, Candidate \in Paths,
         ~ Rejects(Candidate)
  PROVE  BestOfSeen(IF best = NoPath \/ ComparePaths(Candidate, best) < 0
                    THEN Candidate ELSE best, next)
<1>1. /\ Named(sel, next) = Named(sel, next - 1) \cup {Candidate}
      /\ Named(sel, next) \subseteq Paths
      /\ Usable(next) = Usable(next - 1) \cup {Candidate}
  BY CandidateType DEF Usable, BestOfSeen
<1>2. NoPath \notin Paths /\ Readable(health) /\ sel.order \in Seq(ComparisonKeys)
  BY PathsAssumption, PolicyType
<1>3. CASE best = NoPath
  <2>1. Usable(next) = {Candidate}
    BY <1>1, <1>3 DEF BestOfSeen
  <2> QED
    BY <1>1, <1>2, <1>3, <2>1 DEF BestOfSeen, Beats
<1>4. CASE best # NoPath
  <2>1. best \in Paths /\ best \in Usable(next - 1) /\ Beats(best, next - 1)
    BY <1>1, <1>4 DEF BestOfSeen, Usable
  <2>2. ComparePaths(Candidate, best) < 0 <=> Better(Candidate, best, health, sel.order)
    BY <2>1, ComparesBetter
  <2>3. ASSUME Better(Candidate, best, health, sel.order)
        PROVE  Beats(Candidate, next)
    <3> SUFFICES ASSUME NEW p \in Usable(next), p # Candidate
                 PROVE  Better(Candidate, p, health, sel.order)
      BY DEF Beats
    <3>1. p \in Usable(next - 1) /\ p \in Paths
      BY <1>1 DEF Usable
    <3>2. p = best \/ Better(best, p, health, sel.order)
      BY <2>1, <3>1 DEF Beats
    <3> QED
      BY <1>2, <2>1, <2>3, <3>1, <3>2, BetterIsTransitive
  <2>4. ASSUME ~ Better(Candidate, best, health, sel.order)
        PROVE  Beats(best, next)
    <3>1. Candidate = best \/ Better(best, Candidate, health, sel.order)
      BY <1>2, <2>1, <2>4, BetterIsTotal
    <3> QED
      BY <1>1, <2>1, <3>1 DEF Beats
  <2>5. CASE Better(Candidate, best, health, sel.order)
    BY <1>1, <1>2, <2>2, <2>3, <2>5 DEF BestOfSeen
  <2>6. CASE ~ Better(Candidate, best, health, sel.order)
    BY <1>1, <1>4, <2>1, <2>2, <2>4, <2>6 DEF BestOfSeen
  <2> QED
    BY <2>5, <2>6
<1> QED
  BY <1>3, <1>4

LEMMA BestStep == TypeOK /\ BestSoFar /\ [Next]_vars => BestSoFar'
<1> SUFFICES ASSUME TypeOK, BestSoFar, [Next]_vars PROVE BestSoFar'
  OBVIOUS
<1>1. CASE UNCHANGED vars
  BY <1>1 DEF vars, BestSoFar, Running, Rejects
<1>2. CASE Explicit \/ UnknownCandidate \/ TakeFirstUsable \/ EndOfList
  <2>1. \E err \in ErrorCodes, p \in Paths \cup {NoPath}, ex \in SUBSET Paths :
          Return(Outcome(err, p, ex))
    BY <1>2, ScanErrors DEF Explicit, UnknownCandidate, TakeFirstUsable, EndOfList, TypeOK
  <2>2. out' # NoOutcome
    BY <2>1, ReturnType DEF Return
  <2> QED
    BY <2>2 DEF BestSoFar, Running
<1>3. (next + 1) - 1 = next
  BY PolicyType
<1>4. CASE ExcludeCandidate
  <2>1. /\ Running /\ HasCandidate /\ Candidate \in Paths /\ Rejects(Candidate)
        /\ next' = next + 1 /\ UNCHANGED <<sel, health, best, out>>
    BY <1>4 DEF ExcludeCandidate
  <2>2. Named(sel, next) = Named(sel, next - 1) \cup {Candidate} /\ Usable(next) = Usable(next - 1)
    BY <2>1, CandidateType DEF Usable
  <2>3. sel.mode = "evaluated" => BestOfSeen(best, next)
    BY <2>1, <2>2, BestSoFarSays DEF BestOfSeen, Beats
  <2> QED
    BY <1>3, <2>1, <2>3 DEF BestOfSeen, Beats, Usable, Named, BestSoFar, Running, Rejects
<1>5. CASE Evaluate
  <2>1. /\ Running /\ HasCandidate /\ Candidate \in Paths /\ ~ Rejects(Candidate)
        /\ sel.mode = "evaluated" /\ next' = next + 1 /\ UNCHANGED <<sel, health, out>>
        /\ best' = IF best = NoPath \/ ComparePaths(Candidate, best) < 0
                    THEN Candidate ELSE best
    BY <1>5 DEF Evaluate
  <2>2. BestOfSeen(best', next)
    BY <2>1, BestSoFarSays, EvaluatedBest
  <2> QED
    BY <1>3, <2>1, <2>2 DEF BestOfSeen, Beats, Usable, Named, BestSoFar, Running, Rejects
<1> QED
  BY <1>1, <1>2, <1>4, <1>5 DEF Next

(* The loop invariant of the evaluated branch: no usable candidate seen so    *)
(* far beats the best slot, and the slot is empty only when none was usable. *)
THEOREM BestIsBest == Spec => []BestSoFar
BY ScanInit, BestStep, ScanTypeCorrect, PTL DEF Spec

------------------------------------------------------------------------------
(* The answer.                                                               *)

(* Where a priority scan stops is the one place PriorityStops names. *)
LEMMA StopsHere ==
  ASSUME TypeOK, HasCandidate, Named(sel, next - 1) \subseteq RejectedOf(sel, health, next - 1),
         Candidate \notin Paths \/ ~ Rejects(Candidate)
  PROVE  PriorityStops(sel, health) = {next}
<1>1. next \in DOMAIN sel.cands /\ next \in Nat /\ Candidate = sel.cands[next]
  BY CandidateType, PolicyType
<1>2. next \in PriorityStops(sel, health)
  BY <1>1 DEF PriorityStops, RejectedOf, Rejects
<1> QED
  BY <1>2, PriorityStopsUnique, PolicyType

LEMMA UnknownHere ==
  ASSUME TypeOK, HasCandidate, Named(sel, next - 1) \subseteq Paths, Candidate \notin Paths
  PROVE  FirstUnknown(sel) = {next}
<1>1. next \in FirstUnknown(sel)
  BY CandidateType DEF FirstUnknown
<1> QED
  BY <1>1, FirstUnknownUnique, PolicyType

(* At the end of the list everything has been seen. *)
LEMMA AllSeen ==
  ASSUME TypeOK, ~ HasCandidate
  PROVE  next - 1 = Len(sel.cands)
BY PolicyType DEF HasCandidate, TypeOK

LEMMA UnknownAnswer ==
  ASSUME TypeOK, ScanInv, BestSoFar, UnknownCandidate
  PROVE  SelectPath(sel, health) = {out'}
<1>1. /\ Running /\ sel.mode # "explicit" /\ HasCandidate /\ Candidate \notin Paths
      /\ out' = Outcome("not_found", NoPath, excluded)
      /\ excluded = RejectedOf(sel, health, next - 1)
  BY DEF UnknownCandidate, Return, ScanInv
<1>2. CASE sel.mode = "priority"
  <2>1. PriorityStops(sel, health) = {next}
    BY <1>1, <1>2, StopsHere DEF ScanInv
  <2>2. Named(sel, next - 1) = excluded
    BY <1>1, <1>2 DEF ScanInv, RejectedOf
  <2>3. PriorityOutcome(sel, health) = {out'}
    BY <1>1, <2>1, <2>2 DEF PriorityOutcome, Candidate
  <2> QED
    BY <1>2, <2>3 DEF SelectPath
<1>3. CASE sel.mode # "priority"
  <2>1. Named(sel, next - 1) \subseteq Paths
    BY <1>1, <1>3, PolicyType, BestSoFarSays DEF BestOfSeen, SelectionModes
  <2>2. FirstUnknown(sel) = {next}
    BY <1>1, <2>1, UnknownHere
  <2>3. EvaluatedOutcome(sel, health) = {out'}
    BY <1>1, <2>2 DEF EvaluatedOutcome
  <2> QED
    BY <1>1, <1>3, <2>3 DEF SelectPath
<1> QED
  BY <1>2, <1>3

LEMMA PriorityAnswer ==
  ASSUME TypeOK, ScanInv, TakeFirstUsable
  PROVE  SelectPath(sel, health) = {out'}
<1>1. /\ Running /\ sel.mode = "priority" /\ HasCandidate /\ Candidate \in Paths
      /\ ~ Rejects(Candidate) /\ out' = Outcome("none", Candidate, excluded)
      /\ excluded = RejectedOf(sel, health, next - 1)
  BY DEF TakeFirstUsable, Return, ScanInv
<1>2. PriorityStops(sel, health) = {next}
  BY <1>1, StopsHere DEF ScanInv
<1>3. Named(sel, next - 1) = excluded
  BY <1>1 DEF ScanInv, RejectedOf
<1>4. PriorityOutcome(sel, health) = {out'}
  BY <1>1, <1>2, <1>3 DEF PriorityOutcome, Candidate
<1> QED
  BY <1>1, <1>4 DEF SelectPath

LEMMA EndAnswer ==
  ASSUME TypeOK, ScanInv, BestSoFar, EndOfList
  PROVE  SelectPath(sel, health) = {out'}
<1>1. /\ Running /\ sel.mode # "explicit" /\ ~ HasCandidate
      /\ next - 1 = Len(sel.cands)
      /\ out' = IF best = NoPath THEN Outcome("no_candidate", NoPath, excluded)
                ELSE Outcome("none", best, excluded)
      /\ excluded = RejectedOf(sel, health, Len(sel.cands))
  BY AllSeen DEF EndOfList, Return, ScanInv
<1>2. CASE sel.mode = "priority"
  <2>1. ASSUME NEW n \in PriorityStops(sel, health) PROVE FALSE
    <3>1. n \in 1..Len(sel.cands)
      BY PolicyType DEF PriorityStops
    <3>2. sel.cands[n] \in RejectedOf(sel, health, Len(sel.cands))
      BY <1>1, <1>2, <3>1 DEF ScanInv, Named
    <3>3. sel.cands[n] \in RejectedOf(sel, health, n)
      BY <3>1, <3>2 DEF RejectedOf, Named
    <3> QED
      BY <2>1, <3>3 DEF PriorityStops
  <2>2. PriorityStops(sel, health) = {}
    BY <2>1
  <2>3. best = NoPath
    BY <1>1, <1>2 DEF ScanInv
  <2>4. PriorityOutcome(sel, health) = {out'}
    BY <1>1, <2>2, <2>3 DEF PriorityOutcome, NoneUsable
  <2> QED
    BY <1>2, <2>4 DEF SelectPath
<1>3. CASE sel.mode # "priority"
  <2>1. BestOfSeen(best, Len(sel.cands))
    BY <1>1, <1>3, PolicyType, BestSoFarSays DEF SelectionModes
  <2>2. FirstUnknown(sel) = {}
    BY <2>1, PolicyType DEF BestOfSeen, FirstUnknown, Named
  <2>3. UsableOf(sel, health) = Usable(Len(sel.cands))
    BY <2>1 DEF BestOfSeen, UsableOf, Usable, Rejects
  <2>4. CASE best = NoPath
    <3>1. EvaluatedOutcome(sel, health) = {out'}
      BY <1>1, <2>1, <2>2, <2>3, <2>4 DEF EvaluatedOutcome, NoneUsable, BestOfSeen
    <3> QED
      BY <1>1, <1>3, <3>1 DEF SelectPath
  <2>5. CASE best # NoPath
    <3>1. best \in BestOf(sel, health)
      BY <2>1, <2>3, <2>5 DEF BestOfSeen, Beats, BestOf
    <3>2. BestOf(sel, health) = {best} /\ UsableOf(sel, health) # {}
      BY <3>1, BestOfUnique, PolicyType DEF BestOf
    <3>3. EvaluatedOutcome(sel, health) = {out'}
      BY <1>1, <2>2, <2>5, <3>2 DEF EvaluatedOutcome
    <3> QED
      BY <1>1, <1>3, <3>3 DEF SelectPath
  <2> QED
    BY <2>4, <2>5
<1> QED
  BY <1>2, <1>3

LEMMA AnswerStep == TypeOK /\ ScanInv /\ BestSoFar /\ ScanAgrees /\ [Next]_vars => ScanAgrees'
<1> SUFFICES ASSUME TypeOK, ScanInv, BestSoFar, ScanAgrees, [Next]_vars PROVE ScanAgrees'
  OBVIOUS
<1>1. CASE UNCHANGED vars
  BY <1>1 DEF vars, ScanAgrees
<1>2. CASE Explicit
  <2>1. UNCHANGED <<sel, health>> /\ SelectPath(sel, health) = {out'}
    BY <1>2 DEF Explicit, Return, SelectPath, ExplicitOutcome, Rejects
  <2> QED
    BY <2>1 DEF ScanAgrees
<1>3. CASE UnknownCandidate
  BY <1>3, UnknownAnswer DEF UnknownCandidate, Return, ScanAgrees
<1>4. CASE TakeFirstUsable
  BY <1>4, PriorityAnswer DEF TakeFirstUsable, Return, ScanAgrees
<1>5. CASE EndOfList
  BY <1>5, EndAnswer DEF EndOfList, Return, ScanAgrees
<1>6. CASE ExcludeCandidate \/ Evaluate
  BY <1>6 DEF ExcludeCandidate, Evaluate, Running, ScanAgrees
<1> QED
  BY <1>1, <1>2, <1>3, <1>4, <1>5, <1>6 DEF Next

(* One pass with a single best slot is enough: whatever en_select_path       *)
(* returns, error, path and exclusions, is the one answer the whole list     *)
(* calls for, and there is only one.                                         *)
THEOREM ScanIsCorrect == Spec => []ScanAgrees
BY ScanInit, ScanStep, BestStep, AnswerStep, ScanTypeCorrect, PTL DEF Spec

------------------------------------------------------------------------------
(* The list as a set.                                                        *)

(* The call that lists the same candidates in another way. *)
SameCall(s) ==
  /\ s.cands \in Seq(PathIds) /\ s.mode = sel.mode /\ s.limits = sel.limits
  /\ s.order = sel.order /\ Named(s, Len(s.cands)) = Named(sel, Len(sel.cands))

LEMMA SameIngredients ==
  ASSUME NEW s, SameCall(s)
  PROVE  /\ UsableOf(s, health) = UsableOf(sel, health)
         /\ RejectedOf(s, health, Len(s.cands)) = RejectedOf(sel, health, Len(sel.cands))
         /\ BestOf(s, health) = BestOf(sel, health)
         /\ NoneUsable(s, health) = NoneUsable(sel, health)
<1>1. UsableOf(s, health) = UsableOf(sel, health)
  BY DEF UsableOf, SameCall
<1>2. RejectedOf(s, health, Len(s.cands)) = RejectedOf(sel, health, Len(sel.cands))
  BY DEF RejectedOf, SameCall
<1>3. BestOf(s, health) = BestOf(sel, health)
  BY <1>1 DEF BestOf, SameCall
<1> QED
  BY <1>1, <1>2, <1>3 DEF NoneUsable

(* A refusal and an answer are told apart by the candidates alone. *)
LEMMA SameKnown ==
  ASSUME TypeOK, NEW s, SameCall(s)
  PROVE  FirstUnknown(s) = {} <=> FirstUnknown(sel) = {}
BY PolicyType, NoneUnknown DEF SameCall

LEMMA RewrittenAnswer ==
  ASSUME TypeOK, ScanAgrees, out # NoOutcome, sel.mode = "evaluated", NEW s, SameCall(s)
  PROVE  IF out.err = "not_found"
         THEN \A o \in SelectPath(s, health) : o.err = "not_found" /\ o.path = NoPath
         ELSE SelectPath(s, health) = {out}
<1>1. EvaluatedOutcome(sel, health) = {out} /\ SelectPath(s, health) = EvaluatedOutcome(s, health)
  BY DEF ScanAgrees, SelectPath, SameCall
<1>2. CASE FirstUnknown(sel) # {}
  <2>1. out.err = "not_found"
    <3>1. out \in EvaluatedOutcome(sel, health)
      BY <1>1
    <3> QED
      BY <1>2, <3>1 DEF EvaluatedOutcome, Outcome
  <2>2. FirstUnknown(s) # {}
    BY <1>2, SameKnown
  <2> QED
    BY <1>1, <2>1, <2>2 DEF EvaluatedOutcome, Outcome
<1>3. CASE FirstUnknown(sel) = {}
  <2>1. out.err # "not_found"
    <3>1. out \in EvaluatedOutcome(sel, health)
      BY <1>1
    <3> QED
      BY <1>3, <3>1 DEF EvaluatedOutcome, NoneUsable, Outcome
  <2>2. FirstUnknown(s) = {}
    BY <1>3, SameKnown
  <2>3. CASE UsableOf(sel, health) = {}
    BY <1>1, <1>3, <2>1, <2>2, <2>3, SameIngredients DEF EvaluatedOutcome
  <2>4. CASE UsableOf(sel, health) # {}
    <3> DEFINE R == RejectedOf(sel, health, Len(sel.cands))
    <3>1. EvaluatedOutcome(sel, health) = {Outcome("none", p, R) : p \in BestOf(sel, health)}
      BY <1>3, <2>4 DEF EvaluatedOutcome
    <3>2. UsableOf(s, health) # {} /\ RejectedOf(s, health, Len(s.cands)) = R
          /\ BestOf(s, health) = BestOf(sel, health)
      BY <2>4, SameIngredients
    <3>3. EvaluatedOutcome(s, health) = {Outcome("none", p, R) : p \in BestOf(sel, health)}
      BY <2>2, <3>2 DEF EvaluatedOutcome
    <3> QED
      BY <1>1, <2>1, <3>1, <3>3
  <2> QED
    BY <2>3, <2>4
<1> QED
  BY <1>2, <1>3

LEMMA RewrittenStep == TypeOK /\ ScanAgrees => ListIsASet
<1> SUFFICES ASSUME TypeOK, ScanAgrees, out # NoOutcome, sel.mode = "evaluated",
                    NEW s \in ScanPolicies, s = [sel EXCEPT !.cands = s.cands],
                    Named(s, Len(s.cands)) = Named(sel, Len(sel.cands))
             PROVE  IF out.err = "not_found"
                    THEN \A o \in SelectPath(s, health) : o.err = "not_found" /\ o.path = NoPath
                    ELSE SelectPath(s, health) = {out}
  BY DEF ListIsASet
<1>1. sel \in SelectionPolicies /\ s \in SelectionPolicies
  BY ScanAssumption DEF TypeOK
<1>2. s.cands \in Seq(PathIds) /\ s.mode = sel.mode /\ s.limits = sel.limits /\ s.order = sel.order
  BY <1>1 DEF SelectionPolicies
<1>3. SameCall(s)
  BY <1>2 DEF SameCall
<1> QED
  BY <1>3, RewrittenAnswer

(* An evaluated answer depends on the set of candidates, not on their order  *)
(* or on repetitions: compare_paths ends with the path_id.  Path, error and  *)
(* exclusions are the same; of a refused list it says that it is refused.    *)
THEOREM OnlySetMatters == Spec => []ListIsASet
BY RewrittenStep, ScanIsCorrect, ScanTypeCorrect, PTL
=============================================================================
