---------------------------- MODULE SelectionScan ----------------------------
(***************************************************************************)
(* en_select_path as the code runs it: one left-to-right pass over the     *)
(* candidate list, one candidate per step, keeping the best path so far.   *)
(* Only one call is modelled; its inputs are chosen in Init.               *)
(***************************************************************************)
EXTENDS PathSelection

CONSTANTS
  ScanPolicies,   \* the path_selection sections the call may be given
  ScanHealth,     \* the health tables it may find
  NoOutcome       \* "the call has not returned"

ASSUME ScanAssumption ==
  /\ ScanPolicies \subseteq SelectionPolicies
  /\ ScanHealth \subseteq [Paths -> HealthRecords \cup {NoHealth}]
  /\ NoOutcome \notin Outcomes

VARIABLES
  sel,        \* intent->path_selection
  health,     \* controller->state.health, by path
  next,       \* the loop variable i, counted from 1
  best,       \* the best path so far, NoPath for NULL
  excluded,   \* result->excluded_path_ids
  out         \* what the call returned

vars == <<sel, health, next, best, excluded, out>>

Init ==
  /\ sel \in ScanPolicies
  /\ health \in ScanHealth
  /\ next = 1
  /\ best = NoPath
  /\ excluded = {}
  /\ out = NoOutcome

Running == out = NoOutcome
Candidate == sel.cands[next]
HasCandidate == next <= Len(sel.cands)
Rejects(p) == Excluded(p, health[p], sel.limits)

(* Mutant: equal metrics end the comparison, without the path_id. *)
CompareWithoutId(p, q) ==
  IF p = q THEN 0
  ELSE LET key == IF sel.order = <<>> THEN "path_id" ELSE sel.order[1]
           v == Metric(p, health[p], key)
           w == Metric(q, health[q], key)
       IN  IF v < w THEN -1 ELSE IF v > w THEN 1 ELSE 0

(* compare_paths: the first key of the comparison order that tells the two   *)
(* paths apart decides, their path_id when none does.  Only the sign of the  *)
(* result is used.                                                           *)
Value(p, key) == Metric(p, health[p], key)
Deciding(p, q) == {n \in DOMAIN sel.order : Value(p, sel.order[n]) # Value(q, sel.order[n])}

ComparePaths(p, q) ==
  LET first == CHOOSE n \in Deciding(p, q) : \A m \in Deciding(p, q) : n <= m
  IN  IF Deciding(p, q) = {} THEN IdRank[p] - IdRank[q]
      ELSE IF Value(p, sel.order[first]) < Value(q, sel.order[first]) THEN -1 ELSE 1

Return(o) ==
  /\ out' = o
  /\ UNCHANGED <<sel, health, next, best, excluded>>

Explicit ==
  /\ Running /\ sel.mode = "explicit"
  /\ IF sel.path \notin Paths THEN Return(Outcome("not_found", NoPath, {}))
     ELSE IF Rejects(sel.path)
          THEN Return(Outcome("no_candidate", NoPath, {sel.path}))
          ELSE Return(Outcome("none", sel.path, {}))

(* Mutant: an unknown candidate is explained away instead of refused. *)
SkipUnknown ==
  /\ Running /\ sel.mode # "explicit" /\ HasCandidate
  /\ Candidate \notin Paths
  /\ excluded' = excluded \cup {Candidate}
  /\ next' = next + 1
  /\ UNCHANGED <<sel, health, best, out>>

UnknownCandidate ==
  /\ Running /\ sel.mode # "explicit" /\ HasCandidate
  /\ Candidate \notin Paths
  /\ Return(Outcome("not_found", NoPath, excluded))

ExcludeCandidate ==
  /\ Running /\ sel.mode # "explicit" /\ HasCandidate
  /\ Candidate \in Paths /\ Rejects(Candidate)
  /\ excluded' = excluded \cup {Candidate}
  /\ next' = next + 1
  /\ UNCHANGED <<sel, health, best, out>>

TakeFirstUsable ==
  /\ Running /\ sel.mode = "priority" /\ HasCandidate
  /\ Candidate \in Paths /\ ~ Rejects(Candidate)
  /\ Return(Outcome("none", Candidate, excluded))

(* Mutant: the comparison has its arguments swapped. *)
EvaluateSwapped ==
  /\ Running /\ sel.mode = "evaluated" /\ HasCandidate
  /\ Candidate \in Paths /\ ~ Rejects(Candidate)
  /\ best' = IF best = NoPath \/ ComparePaths(best, Candidate) < 0
             THEN Candidate ELSE best
  /\ next' = next + 1
  /\ UNCHANGED <<sel, health, excluded, out>>

Evaluate ==
  /\ Running /\ sel.mode = "evaluated" /\ HasCandidate
  /\ Candidate \in Paths /\ ~ Rejects(Candidate)
  /\ best' = IF best = NoPath \/ ComparePaths(Candidate, best) < 0
             THEN Candidate ELSE best
  /\ next' = next + 1
  /\ UNCHANGED <<sel, health, excluded, out>>

EndOfList ==
  /\ Running /\ sel.mode # "explicit" /\ ~ HasCandidate
  /\ IF best = NoPath THEN Return(Outcome("no_candidate", NoPath, excluded))
     ELSE Return(Outcome("none", best, excluded))

Next ==
  \/ Explicit \/ UnknownCandidate \/ ExcludeCandidate
  \/ TakeFirstUsable \/ Evaluate \/ EndOfList

Spec == Init /\ [][Next]_vars

------------------------------------------------------------------------------
(* Properties.                                                               *)

(* The locals stay in range: the index at most one past the list, the best   *)
(* path a known one, the exclusions known paths (src/path_selection.c:12).   *)
TypeOK ==
  /\ sel \in ScanPolicies
  /\ health \in ScanHealth
  /\ next \in 1..(Len(sel.cands) + 1)
  /\ best \in Paths \cup {NoPath}
  /\ excluded \subseteq Paths
  /\ out \in Outcomes \cup {NoOutcome}

(* One pass with a single "best" slot is enough: whatever the call returns is *)
(* the one answer SelectPath gives for the whole list, exclusions included.   *)
ScanAgrees == out # NoOutcome => SelectPath(sel, health) = {out}

(* The loop invariant of the evaluated branch: no usable candidate seen so    *)
(* far beats the best slot, and the slot is empty only when none was usable.  *)
BestSoFar ==
  LET seen == {sel.cands[m] : m \in 1..(next - 1)}
      usable == {p \in seen : ~ Rejects(p)}
  IN  (Running /\ sel.mode = "evaluated") =>
        /\ seen \subseteq Paths
        /\ best = NoPath <=> usable = {}
        /\ best # NoPath =>
             /\ best \in usable
             /\ \A p \in usable \ {best} : Better(best, p, health, sel.order)

(* The design document promises that ending the comparison with the path_id  *)
(* makes the choice unique: neither the order in which an evaluated intent    *)
(* lists its candidates nor naming one twice changes what the call answers,   *)
(* path, error and exclusions.  Only how many exclusions precede the refusal  *)
(* of an unknown candidate depends on where it stands.                        *)
ListIsASet ==
  LET Listed(s) == Named(s, Len(s.cands))
      Rewritten == {s \in ScanPolicies : /\ s = [sel EXCEPT !.cands = s.cands]
                                         /\ Listed(s) = Listed(sel)}
  IN  (out # NoOutcome /\ sel.mode = "evaluated") =>
        \A s \in Rewritten :
          IF out.err = "not_found"
          THEN \A o \in SelectPath(s, health) : o.err = "not_found" /\ o.path = NoPath
          ELSE SelectPath(s, health) = {out}
==============================================================================
