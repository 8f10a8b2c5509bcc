----------------------------- MODULE Controller ------------------------------
(***************************************************************************)
(* The eventnet controller (src/controller.c, src/transition.c): one call  *)
(* of en_controller_submit_intent at a time, cut at every call it makes    *)
(* into an adapter.  Between two cuts the network may change, and the      *)
(* process may die.                                                        *)
(***************************************************************************)
EXTENDS Adapters

CONSTANTS
  Tunnels,      \* tunnel identifiers
  Segments,     \* the tunnels of each path's segments, in order
  PathList,     \* all paths, in the order the controller holds them
  Intents,      \* the intents a client may submit
  NoKey,        \* "no submission has been accepted yet"
  NoIntent,     \* "no submission is running"
  MaxPaths,     \* EN_MAX_PATHS
  MaxTunnels,   \* EN_MAX_TUNNELS
  MaxEvents,    \* EN_MAX_EVENTS
  MaxErrors,    \* EN_MAX_ERRORS
  MaxRestarts   \* bound on restarts and crashes (of the model, not of the code)

IntentRecords ==
  [key : Keys, strategy : Strategies, mode : SelectionModes, path : PathIds \cup {NoPath},
   cands : Seq(PathIds), limits : Limits, order : Seq(ComparisonKeys)]

ASSUME ControllerAssumption ==
  /\ Segments \in [Paths -> Seq(Tunnels)]
  /\ Initiable \subseteq Tunnels
  /\ PathList \in Seq(Paths)
  /\ Intents \subseteq IntentRecords
  /\ NoKey \notin Keys
  /\ NoIntent \notin Intents
  /\ {MaxPaths, MaxTunnels, MaxEvents, MaxErrors, MaxRestarts} \subseteq Nat
  /\ Cardinality(Paths) <= MaxPaths

(* An accepted submission appends at most eight audit events and two errors: *)
(* the logs of internal.h have room for EN_MAX_CANDIDATES of them.           *)
ASSUME CapacityAssumption ==
  8 * MaxCandidates <= MaxEvents /\ 2 * MaxCandidates <= MaxErrors

VARIABLES
  (* en_controller_state_t and the audit log: lost with the controller. *)
  pathState,     \* operational_state, by path
  health,        \* the latest reading, NoHealth before the first one
  observed,      \* observed_tunnels: every entry is ESTABLISHED
  applied,       \* traffic_keys/applied_paths, NoPath for an absent key
  transition,    \* transition_state
  intentCount,   \* intent_count
  audit,         \* [count, event, ref]: how many events, and the last one
  errors,        \* error_count
  (* The running call: its arguments and locals. *)
  pc,            \* the adapter call or sleep it is about to make
  intent,        \* the intent submitted
  todo,          \* what its current loop still has to visit
  target,        \* target_path
  prev,          \* rollback_path_id
  (* The client. *)
  reply,         \* what the last call returned, and for which key
  before,        \* history: the intent of the last submit and what it found
  restarts       \* history: how many restarts and crashes so far

stateVars == <<pathState, health, observed, applied, transition, intentCount, audit, errors>>
callVars == <<pc, intent, todo, target, prev>>
clientVars == <<reply, before, restarts>>
vars == <<adapterVars, stateVars, callVars, clientVars>>

ProgramCounters ==
  {"idle", "observing", "preparing", "validating", "committing", "pausing",
   "draining", "switching", "confirming"}

------------------------------------------------------------------------------
(* The bounded logs and tables (src/audit.c, src/state.c).                   *)

Append1(log, event, ref) ==
  IF log.count >= MaxEvents THEN log
  ELSE [count |-> log.count + 1, event |-> event, ref |-> ref]

(* "added" calls of en_error_append, each dropped when the list is full. *)
CountErrors(n, added) == IF n + added <= MaxErrors THEN n + added ELSE MaxErrors

StoreHealth(p, h) ==
  LET known == {q \in Paths : health[q] # NoHealth}
  IN  IF p \in known \/ Cardinality(known) < MaxPaths
      THEN [health EXCEPT ![p] = h] ELSE health

------------------------------------------------------------------------------
(* Returning from the call: its locals are gone, the client has an answer.   *)

Answer(key, err, path) == [key |-> key, err |-> err, path |-> path]

EndCall(err, path) ==
  /\ pc' = "idle"
  /\ intent' = NoIntent
  /\ todo' = <<>>
  /\ target' = NoPath
  /\ prev' = NoPath
  /\ reply' = Answer(intent.key, err, path)
  /\ UNCHANGED <<before, restarts>>

Goto(label) == pc' = label /\ UNCHANGED <<intent, target, prev>> /\ UNCHANGED clientVars

------------------------------------------------------------------------------
(* Submission and observation.                                               *)

ToObserve(i) ==
  IF i.cands # <<>> THEN i.cands
  ELSE IF i.mode = "explicit" THEN <<i.path>> ELSE PathList

Snapshot(i) ==
  [intent |-> i, net |-> net, applied |-> applied, table |-> table, routes |-> routes]

(* Mutant: the limit check lets one intent too many through. *)
SubmitOneTooMany(i) ==
  /\ pc = "idle"
  /\ intentCount <= MaxCandidates
  /\ intentCount' = intentCount + 1
  /\ audit' = Append1(audit, "INTENT_CREATED", NoPath)
  /\ pc' = "observing"
  /\ intent' = i
  /\ todo' = ToObserve(i)
  /\ before' = Snapshot(i)
  /\ UNCHANGED <<adapterVars, pathState, health, observed, applied, transition, errors,
                 target, prev, reply, restarts>>

Submit(i) ==
  /\ pc = "idle"
  /\ intentCount < MaxCandidates
  /\ intentCount' = intentCount + 1
  /\ audit' = Append1(audit, "INTENT_CREATED", NoPath)
  /\ pc' = "observing"
  /\ intent' = i
  /\ todo' = ToObserve(i)
  /\ before' = Snapshot(i)
  /\ UNCHANGED <<adapterVars, pathState, health, observed, applied, transition, errors,
                 target, prev, reply, restarts>>

(* The intent table is full: the call is refused and leaves no trace. *)
SubmitRejected ==
  /\ pc = "idle"
  /\ intentCount >= MaxCandidates
  /\ reply' = Answer(NoKey, "invalid_argument", NoPath)
  /\ before' = Snapshot(NoIntent)
  /\ UNCHANGED <<adapterVars, stateVars, callVars, restarts>>

(* One iteration of observe_candidate_health. *)
ObserveUnknown ==
  /\ pc = "observing" /\ todo # <<>> /\ Head(todo) \notin Paths
  /\ EndCall("not_found", NoPath)
  /\ UNCHANGED <<adapterVars, stateVars>>

ObserveFails ==
  /\ pc = "observing" /\ todo # <<>> /\ Head(todo) \in Paths
  /\ Probe(Head(todo)).err # "none"
  /\ EndCall(Probe(Head(todo)).err, NoPath)
  /\ UNCHANGED <<adapterVars, stateVars>>

(* Mutant: a reading already known is not taken again. *)
ObserveCached ==
  /\ pc = "observing" /\ todo # <<>> /\ Head(todo) \in Paths
  /\ Probe(Head(todo)).err = "none"
  /\ health' = IF health[Head(todo)] # NoHealth THEN health
               ELSE StoreHealth(Head(todo), Probe(Head(todo)).health)
  /\ todo' = Tail(todo)
  /\ Goto("observing")
  /\ UNCHANGED <<adapterVars, pathState, observed, applied, transition, intentCount,
                 audit, errors>>

ObserveOne ==
  /\ pc = "observing" /\ todo # <<>> /\ Head(todo) \in Paths
  /\ Probe(Head(todo)).err = "none"
  /\ health' = StoreHealth(Head(todo), Probe(Head(todo)).health)
  /\ todo' = Tail(todo)
  /\ Goto("observing")
  /\ UNCHANGED <<adapterVars, pathState, observed, applied, transition, intentCount,
                 audit, errors>>

(* en_select_path answers with an error. *)
SelectFails ==
  /\ pc = "observing" /\ todo = <<>>
  /\ \E o \in SelectPath(intent, health) :
       /\ o.err # "none"
       /\ EndCall(o.err, NoPath)
  /\ errors' = CountErrors(errors, 1)
  /\ UNCHANGED <<adapterVars, pathState, health, observed, applied, transition,
                 intentCount, audit>>

(* A path is selected, and en_transition_path runs up to its first tunnel. *)
Select ==
  /\ pc = "observing" /\ todo = <<>>
  /\ \E o \in SelectPath(intent, health) :
       /\ o.err = "none"
       /\ target' = o.path
       /\ pathState' = [pathState EXCEPT ![o.path] = "preparing"]
       /\ audit' = Append1(Append1(Append1(audit, "PATH_SELECTED", o.path),
                                   "TRANSITION_STARTED", o.path), "PREPARE", o.path)
       /\ todo' = Segments[o.path]
  /\ transition' = "preparing"
  /\ prev' = applied[intent.key]
  /\ pc' = "preparing"
  /\ UNCHANGED <<adapterVars, health, observed, applied, intentCount, errors, intent>>
  /\ UNCHANGED clientVars

------------------------------------------------------------------------------
(* A failing stage: its errors are recorded, rollback() rewrites the         *)
(* controller's own record of the applied path, and the call returns.        *)
(* Rollback makes no adapter call.  "log" is the audit log when it starts.   *)

(* Mutants: the record is set to the path that failed; the missing previous  *)
(* path is not noticed.                                                      *)
RollbackToTarget(log) ==
  /\ applied' = Record(applied, intent.key, target)
  /\ audit' = Append1(log, "ROLLBACK_COMPLETED", target)
  /\ transition' = "idle"

RollbackUnchecked(log) ==
  /\ applied' = Record(applied, intent.key, prev)
  /\ audit' = Append1(log, "ROLLBACK_COMPLETED", prev)
  /\ transition' = "idle"

Rollback(log) ==
  IF prev = NoPath
  THEN /\ audit' = Append1(log, "ROLLBACK_SKIPPED", NoPath)
       /\ transition' = "failed"
       /\ UNCHANGED applied
  ELSE /\ applied' = Record(applied, intent.key, prev)
       /\ audit' = Append1(log, "ROLLBACK_COMPLETED", prev)
       /\ transition' = "idle"

Fail(err, log, added) ==
  /\ errors' = CountErrors(errors, added)
  /\ Rollback(log)
  /\ EndCall(err, target)
  /\ UNCHANGED intentCount

------------------------------------------------------------------------------
(* transition_prepare: one tunnel per step.                                  *)

TunnelKnown(t) == t \in observed
TunnelFits(t) == TunnelKnown(t) \/ Cardinality(observed) < MaxTunnels

(* Mutant: the loop over the segments stops after the first. *)
EnsureFirstTunnel ==
  /\ pc = "preparing" /\ todo # <<>>
  /\ "none" \in EnsureErrors(Head(todo))
  /\ TunnelFits(Head(todo))
  /\ observed' = observed \cup {Head(todo)}
  /\ todo' = <<>>
  /\ Goto("preparing")
  /\ UNCHANGED <<adapterVars, pathState, health, applied, transition, intentCount,
                 audit, errors>>

EnsureTunnel ==
  /\ pc = "preparing" /\ todo # <<>>
  /\ "none" \in EnsureErrors(Head(todo))
  /\ TunnelFits(Head(todo))
  /\ observed' = observed \cup {Head(todo)}
  /\ todo' = Tail(todo)
  /\ Goto("preparing")
  /\ UNCHANGED <<adapterVars, pathState, health, applied, transition, intentCount,
                 audit, errors>>

EnsureFails ==
  /\ pc = "preparing" /\ todo # <<>>
  /\ \E err \in EnsureErrors(Head(todo)) \ {"none"} : Fail(err, audit, 1)
  /\ UNCHANGED <<adapterVars, pathState, health, observed>>

(* The adapter brought the tunnel up, but observed_tunnels has no slot left. *)
ObservedFull ==
  /\ pc = "preparing" /\ todo # <<>>
  /\ "none" \in EnsureErrors(Head(todo))
  /\ ~ TunnelFits(Head(todo))
  /\ Fail("invalid_argument", audit, 1)
  /\ UNCHANGED <<adapterVars, pathState, health, observed>>

------------------------------------------------------------------------------
(* transition_ready: the path is READY, then its probe decides.              *)

Prepared ==
  /\ pc = "preparing" /\ todo = <<>>
  /\ pathState' = [pathState EXCEPT ![target] = "ready"]
  /\ transition' = "validating"
  /\ audit' = Append1(audit, "READY", target)
  /\ Goto("validating")
  /\ UNCHANGED <<adapterVars, health, observed, applied, intentCount, errors, todo>>

(* Mutant: the reading is stored but not looked at. *)
ValidateBlindly ==
  /\ pc = "validating"
  /\ Probe(target).err = "none"
  /\ health' = StoreHealth(target, Probe(target).health)
  /\ transition' = "ready"
  /\ Goto("committing")
  /\ UNCHANGED <<adapterVars, pathState, observed, applied, intentCount, audit, errors,
                 todo>>

Validate ==
  /\ pc = "validating"
  /\ Probe(target).err = "none"
  /\ CarriesTraffic(Probe(target).health)
  /\ health' = StoreHealth(target, Probe(target).health)
  /\ transition' = "ready"
  /\ Goto("committing")
  /\ UNCHANGED <<adapterVars, pathState, observed, applied, intentCount, audit, errors,
                 todo>>

ProbeFails ==
  /\ pc = "validating"
  /\ Probe(target).err # "none"
  /\ Fail(Probe(target).err, audit, 1)
  /\ UNCHANGED <<adapterVars, pathState, health, observed>>

ValidationFails ==
  /\ pc = "validating"
  /\ Probe(target).err = "none"
  /\ ~ CarriesTraffic(Probe(target).health)
  /\ health' = StoreHealth(target, Probe(target).health)
  /\ Fail("path_validation_failed", audit, 1)
  /\ UNCHANGED <<adapterVars, pathState, observed>>

------------------------------------------------------------------------------
(* transition_commit: what comes before the switch depends on the strategy.  *)

CommitImmediate ==
  /\ pc = "committing" /\ intent.strategy = "immediate"
  /\ transition' = "switching"
  /\ audit' = Append1(audit, "COMMIT", target)
  /\ Goto("switching")
  /\ UNCHANGED <<adapterVars, pathState, health, observed, applied, intentCount, errors,
                 todo>>

CommitGraceful ==
  /\ pc = "committing" /\ intent.strategy = "graceful"
  /\ transition' = "pausing"
  /\ audit' = Append1(audit, "COMMIT", target)
  /\ Goto("pausing")
  /\ UNCHANGED <<adapterVars, pathState, health, observed, applied, intentCount, errors,
                 todo>>

(* flow-preserve is reserved: it fails, and the failure is recorded twice. *)
CommitReserved ==
  /\ pc = "committing" /\ intent.strategy = "flow_preserve"
  /\ Fail("forwarding_update_failed", Append1(audit, "COMMIT", target), 2)
  /\ UNCHANGED <<adapterVars, pathState, health, observed>>

(* The first sleep of the graceful strategy ends; the target is drained. *)
PauseEnds ==
  /\ pc = "pausing"
  /\ transition' = "draining"
  /\ pathState' = [pathState EXCEPT ![target] = "draining"]
  /\ Goto("draining")
  /\ UNCHANGED <<adapterVars, health, observed, applied, intentCount, audit, errors, todo>>

(* Mutant: the pause starts again while the path is still draining. *)
DrainRepeats ==
  /\ pc = "draining"
  /\ transition' = "pausing"
  /\ Goto("pausing")
  /\ UNCHANGED <<adapterVars, pathState, health, observed, applied, intentCount, audit,
                 errors, todo>>

DrainEnds ==
  /\ pc = "draining"
  /\ transition' = "switching"
  /\ Goto("switching")
  /\ UNCHANGED <<adapterVars, pathState, health, observed, applied, intentCount, audit,
                 errors, todo>>

(* install_path succeeds; the call goes on to transition_confirm. *)
Switch ==
  /\ pc = "switching"
  /\ InstallPath(intent.key, target, "none")
  /\ applied' = Record(applied, intent.key, target)
  /\ pathState' = [pathState EXCEPT ![target] = "active"]
  /\ transition' = "verifying"
  /\ audit' = Append1(audit, "CONFIRM", target)
  /\ Goto("confirming")
  /\ UNCHANGED <<health, observed, intentCount, errors, todo>>

(* Mutant: the error of install_path is recorded but not returned. *)
SwitchFailsQuietly ==
  /\ pc = "switching"
  /\ \E err \in InstallErrors \ {"none"} : InstallPath(intent.key, target, err)
  /\ Fail("none", audit, 2)
  /\ UNCHANGED <<pathState, health, observed>>

SwitchFails ==
  /\ pc = "switching"
  /\ \E err \in InstallErrors \ {"none"} : InstallPath(intent.key, target, err)
  /\ Fail("forwarding_update_failed", audit, 2)
  /\ UNCHANGED <<pathState, health, observed>>

------------------------------------------------------------------------------
(* transition_confirm: ask the adapter what it forwards on.                  *)

Confirm ==
  /\ pc = "confirming"
  /\ ActivePath(intent.key) = target
  /\ transition' = "idle"
  /\ audit' = Append1(audit, "TRANSITION_COMPLETED", target)
  /\ EndCall("none", target)
  /\ UNCHANGED <<adapterVars, pathState, health, observed, applied, intentCount, errors>>

ConfirmFails ==
  /\ pc = "confirming"
  /\ ActivePath(intent.key) # target
  /\ Fail("forwarding_update_failed", audit, 1)
  /\ UNCHANGED <<adapterVars, pathState, health, observed>>

------------------------------------------------------------------------------
(* The environment.                                                          *)

(* With the mock probe the driver changes the readings between calls         *)
(* (en_health_probe_mock_set); a command probe asks a live network.          *)
NetworkChange ==
  /\ ProbeAdapter = "mock" => pc = "idle"
  /\ \E p \in Paths, h \in Readings : net' = [net EXCEPT ![p] = h]
  /\ UNCHANGED <<table, failNext, routes, stateVars, callVars, clientVars>>

(* The driver arms fail_next_update (tests/test_controller.c). *)
InjectFailure ==
  /\ VppAdapter = "mock"
  /\ pc = "idle"
  /\ failNext' = TRUE
  /\ UNCHANGED <<table, routes, net, stateVars, callVars, clientVars>>

NoReply == Answer(NoKey, "none", NoPath)

Init ==
  /\ AdaptersInit
  /\ pathState = [p \in Paths |-> "unknown"]
  /\ health = [p \in Paths |-> NoHealth]
  /\ observed = {}
  /\ applied = EmptyTable
  /\ transition = "idle"
  /\ intentCount = 0
  /\ audit = [count |-> 0, event |-> "none", ref |-> NoPath]
  /\ errors = 0
  /\ pc = "idle" /\ intent = NoIntent /\ todo = <<>> /\ target = NoPath /\ prev = NoPath
  /\ reply = NoReply
  /\ before = Snapshot(NoIntent)
  /\ restarts = 0

(* en_controller_create on fresh memory, and a client with no answer yet. *)
NewController ==
  /\ restarts < MaxRestarts
  /\ restarts' = restarts + 1
  /\ pathState' = [p \in Paths |-> "unknown"]
  /\ health' = [p \in Paths |-> NoHealth]
  /\ observed' = {}
  /\ applied' = EmptyTable
  /\ transition' = "idle"
  /\ intentCount' = 0
  /\ audit' = [count |-> 0, event |-> "none", ref |-> NoPath]
  /\ errors' = 0
  /\ pc' = "idle" /\ intent' = NoIntent /\ todo' = <<>> /\ target' = NoPath /\ prev' = NoPath
  /\ reply' = NoReply

(* en_controller_destroy frees the controller only: the program may create   *)
(* the next one on the same adapter contexts.                                *)
Restart ==
  /\ pc = "idle"
  /\ NewController
  /\ before' = [Snapshot(NoIntent) EXCEPT !.applied = EmptyTable]
  /\ UNCHANGED adapterVars

(* The process dies, anywhere, and starts again.  The adapter contexts were  *)
(* its memory too; the routes VPP was given are still there.                 *)
Crash ==
  /\ VppAdapter = "command"
  /\ NewController
  /\ before' = [Snapshot(NoIntent) EXCEPT !.applied = EmptyTable, !.table = EmptyTable]
  /\ table' = EmptyTable
  /\ UNCHANGED <<failNext, routes, net>>

------------------------------------------------------------------------------
(* Every step of a running call. *)
CallStep ==
  \/ ObserveUnknown \/ ObserveFails \/ ObserveOne
  \/ SelectFails \/ Select
  \/ EnsureTunnel \/ EnsureFails \/ ObservedFull \/ Prepared
  \/ Validate \/ ProbeFails \/ ValidationFails
  \/ CommitImmediate \/ CommitGraceful \/ CommitReserved \/ PauseEnds \/ DrainEnds
  \/ Switch \/ SwitchFails
  \/ Confirm \/ ConfirmFails

Environment == NetworkChange \/ InjectFailure \/ Restart \/ Crash

Next ==
  \/ \E i \in Intents : Submit(i)
  \/ SubmitRejected
  \/ CallStep
  \/ Environment

Spec == Init /\ [][Next]_vars

(* A call is sequential code whose adapter calls and sleeps return: it is    *)
(* never suspended for ever.  Nobody is obliged to submit anything.          *)
FairSpec == Spec /\ WF_vars(CallStep)
=============================================================================
