------------------------ MODULE ControllerProperties -------------------------
(***************************************************************************)
(* What the controller promises.  The properties of the first part hold of *)
(* the code (some only for the wiring they name); those of the second part *)
(* are statements of the repository's documents the code does not keep.    *)
(***************************************************************************)
EXTENDS Controller

BeforeRecords ==
  [intent : Intents \cup {NoIntent}, net : [Paths -> Readings],
   applied : [Keys -> Paths \cup {NoPath}], table : [Keys -> Paths \cup {NoPath}],
   routes : [FibPrefixes -> Paths \cup {NoPath}]]

AuditLogs ==
  [count : 0..MaxEvents, event : AuditEvents \cup {"none"}, ref : Paths \cup {NoPath}]

Answers == [key : Keys \cup {NoKey}, err : ErrorCodes, path : Paths \cup {NoPath}]

CallTypeOK ==
  /\ pc \in ProgramCounters
  /\ intent \in Intents \cup {NoIntent}
  /\ todo \in IF pc = "observing" THEN Seq(PathIds \cup {NoPath}) ELSE Seq(Tunnels)
  /\ target \in Paths \cup {NoPath}
  /\ prev \in Paths \cup {NoPath}
  /\ pc # "idle" => intent \in Intents
  /\ pc \notin {"idle", "observing"} => target \in Paths

StateTypeOK ==
  /\ pathState \in [Paths -> PathStates]
  /\ health \in [Paths -> HealthRecords \cup {NoHealth}]
  /\ observed \subseteq Tunnels
  /\ applied \in [Keys -> Paths \cup {NoPath}]
  /\ transition \in TransitionStates
  /\ intentCount \in 0..MaxCandidates
  /\ audit \in AuditLogs
  /\ errors \in 0..MaxErrors

(* Every variable keeps its type; the counters stay within the arrays they   *)
(* index, and a call past its selection has a target (src/internal.h:5).     *)
TypeOK ==
  /\ AdaptersTypeOK
  /\ StateTypeOK
  /\ CallTypeOK
  /\ reply \in Answers
  /\ before \in BeforeRecords
  /\ restarts \in 0..MaxRestarts

------------------------------------------------------------------------------
(* Answered: the last submission was accepted, and its call has returned. *)
Answered == pc = "idle" /\ reply.key \in Keys

(* Whatever the controller reports as applied for a traffic key is what the  *)
(* forwarding adapter forwards it on, in the middle of a switch and after a  *)
(* rollback alike (set_applied in transition_commit and rollback).           *)
AppliedIsForwarded ==
  \A k \in Keys : applied[k] # NoPath => table[k] = applied[k]

(* A submission is all or nothing: an answered call either moved exactly its *)
(* own key, in the record and in the adapter, to the path it reports, or     *)
(* changed neither, whichever stage failed (en_transition_path).             *)
AllOrNothing ==
  pc = "idle" =>
    IF reply.key \in Keys /\ reply.err = "none"
    THEN /\ applied = [before.applied EXCEPT ![reply.key] = reply.path]
         /\ table = [before.table EXCEPT ![reply.key] = reply.path]
    ELSE applied = before.applied /\ table = before.table

(* The last audit event and the recorded path tell how the last call ended:  *)
(* completed, rolled back to the path applied before, nothing to roll back   *)
(* to, or never past the selection.                                          *)
TrailTellsOutcome ==
  Answered =>
    /\ audit.event \in {"INTENT_CREATED", "TRANSITION_COMPLETED", "ROLLBACK_SKIPPED",
                        "ROLLBACK_COMPLETED"}
    /\ audit.event = "TRANSITION_COMPLETED" <=> reply.err = "none"
    /\ audit.event = "TRANSITION_COMPLETED" =>
         /\ applied[reply.key] = audit.ref /\ audit.ref = reply.path
         /\ transition = "idle"
    /\ audit.event = "ROLLBACK_COMPLETED" =>
         /\ applied[reply.key] = audit.ref /\ audit.ref # NoPath
         /\ applied = before.applied
         /\ transition = "idle"
    /\ audit.event = "ROLLBACK_SKIPPED" =>
         /\ before.applied[reply.key] = NoPath
         /\ transition = "failed"
    /\ audit.event = "INTENT_CREATED" => applied = before.applied /\ reply.path = NoPath

(* No audit event and no error is ever dropped: an accepted submission       *)
(* always finds room for its next event and for the two errors one failing   *)
(* commit may append (src/audit.c:7, 19 drop silently when full).            *)
LogsHaveRoom ==
  pc # "idle" => audit.count < MaxEvents /\ errors + 2 <= MaxErrors

(* en_set_applied_path drops a new key silently when its table is full       *)
(* (src/state.c:110): that never happens to a path just installed.           *)
AppliedNeverDropped == pc = "confirming" => applied[intent.key] = target

(* Make before break: forwarding only ever moves to an enabled path whose    *)
(* tunnels have all been reported established and whose latest reading       *)
(* carries traffic (transition_prepare and transition_ready come first).     *)
MovesTo(p) == (\E k \in Keys : table'[k] # table[k] /\ table'[k] = p)
              \/ (\E x \in FibPrefixes : routes'[x] # routes[x] /\ routes'[x] = p)

SwitchIsPrepared ==
  [][\A p \in Paths : MovesTo(p) =>
       /\ p \in Enabled
       /\ \A n \in DOMAIN Segments[p] : Segments[p][n] \in observed
       /\ health[p] # NoHealth /\ CarriesTraffic(health[p])]_vars

(* An explicit intent that names candidates has those observed, and not the  *)
(* path it asks for.                                                         *)
OwnPathUnobserved(i) == i.mode = "explicit" /\ i.cands # <<>>

(* Any other intent over known paths is decided on readings taken by this    *)
(* very call, for every candidate: the selected path is the one the network  *)
(* at submission calls for, and an answer without a path means there was     *)
(* none (observe_candidate_health before en_select_path).                    *)
DecisionIsCurrent ==
  LET i == before.intent
  IN  ( /\ Answered /\ ~ OwnPathUnobserved(i)
        /\ \A n \in DOMAIN i.cands : i.cands[n] \in Paths ) =>
        \A o \in SelectPath(i, before.net) :
          /\ reply.path = o.path
          /\ o.err # "none" => reply.err = o.err

(* With one prefix per key, the FIB follows the controller's record: what is *)
(* recorded as applied is what VPP routes (vpp_install, rollback).           *)
AppliedIsRouted ==
  \A k \in Keys : applied[k] # NoPath => routes[RoutePrefix[applied[k]]] = applied[k]

(* Every accepted submission returns to its client. *)
CallsReturn == (pc # "idle") ~> (pc = "idle")

------------------------------------------------------------------------------
(* Statements of the documents that the code does not keep.                  *)

(* ACTIVE means "in use as the current forwarding path". *)
ActivePathIsApplied ==
  pc = "idle" => \A p \in Paths : pathState[p] = "active" => \E k \in Keys : applied[k] = p

(* A failed commit or confirm returns the traffic to the previous path. *)
RollbackRestoresRoute ==
  (Answered /\ audit.event = "ROLLBACK_COMPLETED") =>
    routes[RoutePrefix[audit.ref]] = audit.ref

(* priority "picks the first usable path, in the order of the candidates":   *)
(* it does not end without a path while a candidate carries traffic.         *)
UsableCandidateTaken ==
  (Answered /\ before.intent.mode = "priority" /\ net = before.net /\ reply.path = NoPath) =>
    \A n \in DOMAIN before.intent.cands :
      LET p == before.intent.cands[n]
      IN  (p \in Paths /\ CarriesTraffic(net[p])) =>
            Excluded(p, net[p], before.intent.limits)
==============================================================================
