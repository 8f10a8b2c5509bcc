---------------------------- MODULE PathSelection ----------------------------
(***************************************************************************)
(* What en_select_path (src/path_selection.c) answers for one intent and   *)
(* the latest path readings, stated without its loops.  SelectionScan      *)
(* models the loops step by step and is checked against this module.       *)
(***************************************************************************)
EXTENDS EventnetTypes, Integers, Sequences, FiniteSets

CONSTANTS
  Paths,      \* identifiers of the paths the controller was created with
  PathIds,    \* identifiers an intent may name; those outside Paths are unknown
  NoPath,     \* the empty identifier
  Enabled,    \* paths whose administrative_state is EN_ADMIN_ENABLED
  Nodes,      \* nodes a path may pass
  Waypoints,  \* the waypoint list of each path
  Priority,   \* the administrative priority of each path
  IdRank,     \* the rank of each path_id in strcmp order
  NoHealth,   \* "en_find_health returned NULL"
  NoLimit,    \* "has_max_... is false"
  DblMax      \* DBL_MAX, above every measurement

ASSUME PathsAssumption ==
  /\ Paths \subseteq PathIds
  /\ NoPath \notin PathIds
  /\ IsFiniteSet(Paths)
ASSUME AttributesAssumption ==
  /\ Waypoints \in [Paths -> Seq(Nodes)]
  /\ Priority \in [Paths -> Int]
  /\ IdRank \in [Paths -> Nat]
  /\ \A p, q \in Paths : IdRank[p] = IdRank[q] => p = q
  /\ DblMax \in Nat

HealthRecords == [state : HealthStates, rtt : Nat, loss : Nat]

ASSUME AbsenceAssumption == NoHealth \notin HealthRecords /\ NoLimit \notin Nat

Limits ==
  [maxRtt : Nat \cup {NoLimit}, maxLoss : Nat \cup {NoLimit},
   forbidden : SUBSET Nodes, required : SUBSET Nodes]

SelectionPolicies ==
  [mode : SelectionModes, path : PathIds \cup {NoPath}, cands : Seq(PathIds),
   limits : Limits, order : Seq(ComparisonKeys)]

------------------------------------------------------------------------------
(* Exclusion: the six tests of exclusion_reason, in the order it makes them. *)

Passes(p, node) == \E n \in DOMAIN Waypoints[p] : Waypoints[p][n] = node

ExclusionTests(p, h, limits) ==
  << p \notin Enabled,
     h # NoHealth /\ h.state \in {"unhealthy", "failed"},
     h # NoHealth /\ limits.maxRtt # NoLimit /\ h.rtt > limits.maxRtt,
     h # NoHealth /\ limits.maxLoss # NoLimit /\ h.loss > limits.maxLoss,
     \E node \in limits.forbidden : Passes(p, node),
     \E node \in limits.required : ~ Passes(p, node) >>

Excluded(p, h, limits) == \E n \in 1..6 : ExclusionTests(p, h, limits)[n]

------------------------------------------------------------------------------
(* Comparison: compare_paths is a lexicographic order, closed by the path_id *)
(* when every key of the intent's comparison_order ties.                     *)

HopCount(p) == Len(Waypoints[p]) + 1

Metric(p, h, key) ==
  CASE key = "packet_loss"    -> IF h = NoHealth THEN DblMax ELSE h.loss
    [] key = "latency"        -> IF h = NoHealth THEN DblMax ELSE h.rtt
    [] key = "hop_count"      -> HopCount(p)
    [] key = "admin_priority" -> Priority[p]
    [] key = "path_id"        -> IdRank[p]

Better(p, q, health, order) ==
  LET Value(r, n) == Metric(r, health[r], order[n])
  IN  \/ \E n \in DOMAIN order :
            /\ \A m \in 1..(n - 1) : Value(p, m) = Value(q, m)
            /\ Value(p, n) < Value(q, n)
      \/ /\ \A n \in DOMAIN order : Value(p, n) = Value(q, n)
         /\ IdRank[p] < IdRank[q]

------------------------------------------------------------------------------
(* The answers.  Each operator is the set of outcomes the mode allows (the   *)
(* code is deterministic: the set has one element).  "excluded" holds the    *)
(* rejected paths of en_selection_result_t.                                  *)

Outcome(err, path, excluded) == [err |-> err, path |-> path, excluded |-> excluded]

Outcomes == [err : ErrorCodes, path : Paths \cup {NoPath}, excluded : SUBSET Paths]

ExplicitOutcome(sel, health) ==
  { IF sel.path \notin Paths THEN Outcome("not_found", NoPath, {})
    ELSE IF Excluded(sel.path, health[sel.path], sel.limits)
         THEN Outcome("no_candidate", NoPath, {sel.path})
         ELSE Outcome("none", sel.path, {}) }

Named(sel, n) == {sel.cands[m] : m \in 1..n}

RejectedOf(sel, health, n) ==
  {p \in Paths \cap Named(sel, n) : Excluded(p, health[p], sel.limits)}

UsableOf(sel, health) ==
  {p \in Paths \cap Named(sel, Len(sel.cands)) : ~ Excluded(p, health[p], sel.limits)}

NoneUsable(sel, health) ==
  Outcome("no_candidate", NoPath, RejectedOf(sel, health, Len(sel.cands)))

(* The places at which a priority scan may stop: the first candidate that is *)
(* not a known path rejected by the constraints.                             *)
PriorityStops(sel, health) ==
  {n \in DOMAIN sel.cands :
     /\ sel.cands[n] \notin RejectedOf(sel, health, n)
     /\ Named(sel, n - 1) \subseteq RejectedOf(sel, health, n - 1)}

PriorityOutcome(sel, health) ==
  IF PriorityStops(sel, health) = {}
  THEN {NoneUsable(sel, health)}
  ELSE {IF sel.cands[n] \in Paths
        THEN Outcome("none", sel.cands[n], Named(sel, n - 1))
        ELSE Outcome("not_found", NoPath, Named(sel, n - 1)) :
          n \in PriorityStops(sel, health)}

FirstUnknown(sel) ==
  {n \in DOMAIN sel.cands : sel.cands[n] \notin Paths /\ Named(sel, n - 1) \subseteq Paths}

BestOf(sel, health) ==
  {p \in UsableOf(sel, health) :
     \A q \in UsableOf(sel, health) \ {p} : Better(p, q, health, sel.order)}

EvaluatedOutcome(sel, health) ==
  IF FirstUnknown(sel) # {}
  THEN {Outcome("not_found", NoPath, RejectedOf(sel, health, n - 1)) :
          n \in FirstUnknown(sel)}
  ELSE IF UsableOf(sel, health) = {}
  THEN {NoneUsable(sel, health)}
  ELSE {Outcome("none", p, RejectedOf(sel, health, Len(sel.cands))) :
          p \in BestOf(sel, health)}

SelectPath(sel, health) ==
  IF sel.mode = "explicit" THEN ExplicitOutcome(sel, health)
  ELSE IF sel.mode = "priority" THEN PriorityOutcome(sel, health)
  ELSE EvaluatedOutcome(sel, health)
==============================================================================
